------------------------------ MODULE Lxdialog --------------------------------
(***************************************************************************)
(* The dialog boxes of menuconfig (nemu/tools/kconfig/lxdialog): a menu, a *)
(* radio list, a line of input and a page of text.  A box is a record of   *)
(* the local variables of its function, with the cells of the window it    *)
(* writes to ("win") and its result; drawing it is one operator, and what  *)
(* a key does another.  Rows, columns and positions count from 0.  Colours,*)
(* borders, arrows and buttons on the screen are left out.                 *)
(***************************************************************************)
EXTENDS Integers, Sequences

CONSTANTS Items,    \* texts of the items of a list, sequences of characters
          MaxLen    \* size of the buffer of the input box

Least(a, b) == IF a < b THEN a ELSE b
Greatest(a, b) == IF a > b THEN a ELSE b
Lowest(S) == CHOOSE x \in S : \A y \in S : x <= y
Highest(S) == CHOOSE x \in S : \A y \in S : x >= y

-----------------------------------------------------------------------------
(* Lists: "n" items, of which the window shows those from "scroll" on; the *)
(* one in row "choice" is highlighted.  A cell of the window is the item   *)
(* printed there and whether it is highlighted.                            *)
max_choice(b) == Least(b.h, b.n)
print_item(b, row, hi) == [b EXCEPT !.win[row] = <<b.scroll + row, hi>>]

(* Faulty variant: the row that comes in is printed from the old scroll.   *)
Scrolled_blank(b, d) ==
  [b EXCEPT !.scroll = @ + d,
            !.win = [i \in DOMAIN @ |-> IF i + d \in DOMAIN @ THEN @[i + d] ELSE <<b.scroll + i, FALSE>>]]

(* d single scrolls, each printing the row that comes in.                  *)
do_scroll(b, d) ==
  [b EXCEPT !.scroll = @ + d,
            !.win = [i \in DOMAIN @ |-> IF i + d \in DOMAIN @ THEN @[i + d] ELSE <<b.scroll + d + i, FALSE>>]]
Page(first, rows, choice) == [i \in 0..(rows - 1) |-> <<first + i, i = choice>>]

Letters == {"a", "b", "h", "m", "n", "s", "x", "y"}
RECURSIVE InParen(_, _)
InParen(s, i) ==
  IF i = 0 THEN 0
  ELSE InParen(s, i - 1) + (CASE s[i] \in {"<", "[", "("} -> 1
                              [] s[i] \in {">", "]", ")"} /\ InParen(s, i - 1) > 0 -> -1
                              [] OTHER -> 0)
first_alpha(s) ==
  LET found == {i \in 1..Len(s) : InParen(s, i) = 0 /\ s[i] \in Letters \ {"y", "n", "m", "h"}}
  IN IF found = {} THEN 1 ELSE Lowest(found)
HotKey(item) == Items[item + 1][first_alpha(Items[item + 1])]

(* The next row below, or else the first row, whose item has the key.      *)
MenuHot(b, k) ==
  LET rows == {i \in 0..(max_choice(b) - 1) : k = HotKey(b.scroll + i)}
      below == {i \in rows : i > b.choice}
  IN CASE k \in {"y", "n", "m", "h"} \/ rows = {} -> max_choice(b)
       [] OTHER -> Lowest(IF below # {} THEN below ELSE rows)

(* dialog_menu from do_resize on: the saved scroll is taken if the item to *)
(* highlight is then in the window; otherwise that item is put in the      *)
(* middle.  first_item keeps the value of an earlier drawing.              *)
Fits(n, rows, choice, saved) ==
  saved <= choice /\ saved + rows > choice /\ saved >= 0 /\ saved + rows <= n
Middle(n, rows, choice) ==
  IF choice >= n - (rows \div 2) THEN n - rows ELSE choice - (rows \div 2)
MenuPlaced(b, scroll, choice, first) ==
  [b EXCEPT !.scroll = scroll, !.choice = choice, !.first = first,
            !.win = Page(first, max_choice(b), choice),
            !.res = IF first + max_choice(b) > b.n THEN "crash" ELSE @]
MenuDraw1(b, choice) ==
  CASE Fits(b.n, max_choice(b), choice, b.saved) -> MenuPlaced(b, b.saved, choice - b.saved, b.saved)
    [] ~Fits(b.n, max_choice(b), choice, b.saved) /\ choice < max_choice(b) -> MenuPlaced(b, 0, choice, b.first)
    [] OTHER -> LET s == Middle(b.n, max_choice(b), choice) IN MenuPlaced(b, s, choice - s, s)
MenuDraw(b) == MenuDraw1(b, IF b.sel >= 0 THEN b.sel ELSE b.choice)
(* "resized": drawn again although it had opened at a saved scroll.        *)
MenuResize(b, h) == MenuDraw([b EXCEPT !.h = h, !.resized = @ \/ b.saved > 0])
dialog_menu(n, h, sel, saved) ==
  MenuDraw([kind |-> "menu", n |-> n, h |-> h, sel |-> sel, saved |-> saved, first |-> 0, scroll |-> 0,
            choice |-> 0, button |-> 0, win |-> <<>>, res |-> "open", resized |-> FALSE])

MenuMove(b, k) ==
  CASE k = "up" -> IF b.choice < 2 /\ b.scroll > 0 THEN do_scroll(b, -1)
                   ELSE [b EXCEPT !.choice = Greatest(@ - 1, 0)]
    [] k = "down" -> IF b.choice > max_choice(b) - 3 /\ b.scroll + max_choice(b) < b.n THEN do_scroll(b, 1)
                     ELSE [b EXCEPT !.choice = Least(@ + 1, max_choice(b) - 1)]
    [] k = "ppage" -> LET d == Least(max_choice(b), b.scroll)
                      IN [do_scroll(b, -d) EXCEPT !.choice = Greatest(@ - (max_choice(b) - d), 0)]
    [] k = "npage" -> LET d == Least(max_choice(b), b.n - max_choice(b) - b.scroll)
                      IN [do_scroll(b, d) EXCEPT !.choice = Least(@ + max_choice(b) - d, max_choice(b) - 1)]
    [] OTHER -> [b EXCEPT !.choice = MenuHot(b, k)]

Button(b, k, last) ==
  [b EXCEPT !.button = IF k = "left" THEN (IF @ = 0 THEN last ELSE @ - 1)
                       ELSE IF @ = last THEN 0 ELSE @ + 1]
Highlighted(b) == print_item(b, b.choice, TRUE)
Plain(b) == print_item(b, b.choice, FALSE)

(* What a key does; the codes returned are those conf() tells apart.       *)
MenuKey(b, k) ==
  CASE b.n # 0 /\ (MenuHot(b, k) < max_choice(b) \/ k \in {"up", "down", "ppage", "npage"}) ->
         Highlighted(MenuMove(Plain(b), k))
    [] MenuHot(b, k) = max_choice(b) /\ k \in {"left", "right"} -> Button(b, k, 4)
    [] MenuHot(b, k) = max_choice(b) /\ k \in {" ", "s", "y", "n", "m", "h", "/", "nl"} ->
         [b EXCEPT !.saved = b.scroll, !.sel = b.scroll + b.choice,
                   !.res = CASE k = "h" -> "help" [] k \in {"s", "y"} -> "yes" [] k = "nl" -> "button" [] OTHER -> k]
    [] MenuHot(b, k) = max_choice(b) /\ k \in {"x", "esc"} -> [b EXCEPT !.res = "esc"]
    [] OTHER -> b

-----------------------------------------------------------------------------
(* The radio list of a choice: "x" is the item that is set, "sel" the one  *)
(* conf_choice marked as selected, -1 if none.                             *)
CheckDraw(b) ==
  LET s == IF b.choice >= b.h THEN b.choice - b.h + 1 ELSE b.scroll
      c == IF b.choice >= b.h THEN b.h - 1 ELSE b.choice
  IN [b EXCEPT !.scroll = s, !.choice = c, !.win = Page(s, max_choice(b), c)]
dialog_checklist(n, h, x, sel) ==
  CheckDraw([kind |-> "check", n |-> n, h |-> h, sel |-> sel, scroll |-> 0, button |-> 0, win |-> <<>>, res |-> "open",
             choice |-> IF sel >= 0 THEN sel ELSE Greatest(x, 0)])

CheckHot(b, k) ==
  LET rows == {i \in 0..(max_choice(b) - 1) : k = Items[b.scroll + i + 1][1]}
  IN IF rows = {} THEN max_choice(b) ELSE Lowest(rows)
CheckMove(b, i) == IF i = b.choice THEN b ELSE Highlighted([Plain(b) EXCEPT !.choice = i])
CheckUp(b) ==
  CASE b.choice = 0 /\ b.scroll = 0 -> b
    [] b.choice = 0 /\ b.scroll > 0 -> Highlighted(do_scroll(Plain(b), -1))
    [] OTHER -> CheckMove(b, b.choice - 1)
CheckDown(b) ==
  CASE b.choice = max_choice(b) - 1 /\ b.scroll + b.choice >= b.n - 1 -> b
    [] b.choice = max_choice(b) - 1 /\ b.scroll + b.choice < b.n - 1 -> Highlighted(do_scroll(Plain(b), 1))
    [] OTHER -> CheckMove(b, b.choice + 1)
CheckKey(b, k) ==
  CASE k = "up" -> CheckUp(b)
    [] k = "down" -> CheckDown(b)
    [] CheckHot(b, k) < max_choice(b) -> CheckMove(b, CheckHot(b, k))
    [] CheckHot(b, k) = max_choice(b) /\ k \in {"h", "s", " ", "nl"} ->
         [b EXCEPT !.sel = b.scroll + b.choice, !.res = "button", !.button = IF k = "h" THEN 1 ELSE @]
    [] k \in {"left", "right"} -> Button(b, k, 1)
    [] CheckHot(b, k) = max_choice(b) /\ k \in {"x", "esc"} -> [b EXCEPT !.res = "esc"]
    [] OTHER -> b

-----------------------------------------------------------------------------
(* The input box: "text" is the string so far, "pos" the place in it where *)
(* the next character goes, "show" the first character shown and "inx" the *)
(* column of the cursor; button -1 is the line of input.                   *)
InputDraw1(b, len) ==
  LET show == IF len >= b.w THEN len - b.w + 1 ELSE 0
  IN [b EXCEPT !.pos = len, !.show = show, !.inx = IF len >= b.w THEN b.w - 1 ELSE len,
               !.win = [i \in 0..(b.w - 1) |-> IF i < b.w - 1 /\ show + i < len THEN b.text[show + i + 1] ELSE " "]]
InputDraw(b) == InputDraw1(b, Len(b.text))
dialog_inputbox(init, w) ==
  InputDraw([kind |-> "input", text |-> init, w |-> w, button |-> -1, pos |-> 0, show |-> 0, inx |-> 0,
             win |-> <<>>, res |-> "open"])

(* The line is written again up to its end and one blank; the cells after  *)
(* it keep what they had.                                                  *)
Rewrite(b) ==
  [b EXCEPT !.win = [i \in DOMAIN @ |-> CASE b.show + i < Len(b.text) -> b.text[b.show + i + 1]
                                          [] b.show + i = Len(b.text) -> " "
                                          [] OTHER -> @[i]]]
Upto(s, n) == SubSeq(s, 1, n)
From(s, n) == SubSeq(s, n + 1, Len(s))
Backspace(b) ==
  IF b.pos = 0 THEN b
  ELSE Rewrite([b EXCEPT !.text = Upto(@, b.pos - 1) \o From(@, b.pos), !.pos = @ - 1,
                         !.show = IF b.inx = 0 THEN @ - 1 ELSE @, !.inx = IF @ = 0 THEN @ ELSE @ - 1])
InputLeft(b) ==
  CASE b.pos = 0 -> b
    [] b.pos > 0 /\ b.inx > 0 -> [b EXCEPT !.inx = @ - 1, !.pos = @ - 1]
    [] OTHER -> Rewrite([b EXCEPT !.show = @ - 1, !.pos = @ - 1])
InputRight(b) ==
  CASE b.pos >= Len(b.text) -> b
    [] b.pos < Len(b.text) /\ b.inx < b.w - 1 -> [b EXCEPT !.inx = @ + 1, !.pos = @ + 1]
    [] OTHER -> Rewrite([b EXCEPT !.show = @ + 1, !.pos = @ + 1])
Insert(b, c) ==
  IF Len(b.text) >= MaxLen THEN b
  ELSE Rewrite([b EXCEPT !.text = Upto(@, b.pos) \o <<c>> \o From(@, b.pos), !.pos = @ + 1,
                         !.show = IF b.inx = b.w - 1 THEN @ + 1 ELSE @,
                         !.inx = IF @ = b.w - 1 THEN @ ELSE @ + 1])

Printable == Letters \cup {" ", "o"}
InputButton(b, k) ==
  CASE k \in {"up", "left"} -> [b EXCEPT !.button = IF @ = -1 THEN 1 ELSE @ - 1]
    [] k \in {"tab", "down", "right"} -> [b EXCEPT !.button = IF @ = 1 THEN -1 ELSE @ + 1]
    [] k = "o" -> [b EXCEPT !.res = "ok"]
    [] k = "h" -> [b EXCEPT !.res = "help"]
    [] k \in {" ", "nl"} -> [b EXCEPT !.res = IF b.button = 1 THEN "help" ELSE "ok"]
    [] k \in {"x", "esc"} -> [b EXCEPT !.res = "esc"]
    [] OTHER -> b
InputKey(b, k) ==
  CASE b.button = -1 /\ k = "bs" -> Backspace(b)
    [] b.button = -1 /\ k = "left" -> InputLeft(b)
    [] b.button = -1 /\ k = "right" -> InputRight(b)
    [] b.button = -1 /\ k \in Printable -> Insert(b, k)
    [] OTHER -> InputButton(b, k)

-----------------------------------------------------------------------------
(* The text box: "page" points into "buf", behind the lines shown; "top"   *)
(* is where they start.  "upd" says whether there is an update_text, whose *)
(* call reads a page ahead and comes back.                                 *)
At(b, p) == IF p >= Len(b.buf) THEN "nul" ELSE b.buf[p + 1]
get_line(b) ==
  LET e == Lowest({p \in b.page..Len(b.buf) : At(b, p) \in {"nl", "nul"}})
  IN [b EXCEPT !.page = IF At(b, e) = "nul" THEN e ELSE e + 1, !.end = At(b, e) = "nul"]
RECURSIVE GetLines(_, _)
GetLines(b, n) == IF n = 0 THEN b ELSE GetLines(get_line(b), n - 1)

RECURSIVE Back(_, _)
Back(b, n) ==
  CASE n <= 0 -> b
    [] n > 0 /\ At(b, b.page) = "nul" /\ b.end -> Back([b EXCEPT !.end = FALSE], n - 1)
    [] OTHER -> LET nls == {q \in 0..(b.page - 2) : At(b, q) = "nl"}
                IN IF nls = {} THEN [b EXCEPT !.page = 0, !.begin = TRUE]
                   ELSE Back([b EXCEPT !.page = Highest(nls) + 1], n - 1)
back_lines(b, n) == Back([b EXCEPT !.begin = FALSE], n)

RECURSIVE PageLength(_, _)
PageLength(b, n) == IF n = 0 THEN 0
                    ELSE 1 + (IF get_line(b).end THEN 0 ELSE PageLength(get_line(b), n - 1))
Printed(b) == [GetLines(b, b.boxh) EXCEPT !.top = b.page, !.plen = PageLength(b, b.boxh)]
print_page(b) == Printed(IF b.upd THEN back_lines(GetLines(b, b.boxh), b.boxh) ELSE b)

dialog_textbox(buf, boxh, upd, vscroll) ==
  print_page(GetLines([kind |-> "text", buf |-> buf, page |-> 0, begin |-> vscroll = 0, end |-> FALSE, plen |-> 0,
                       top |-> 0, boxh |-> boxh, upd |-> upd, vscroll |-> 0, res |-> "open"], vscroll))
TextResize(b, boxh) == print_page([back_lines(b, b.boxh + 4) EXCEPT !.boxh = boxh])

TextDown(b) == IF b.end THEN b ELSE print_page(back_lines(b, b.plen - 1))
TextExit(b) ==
  LET c == back_lines(b, b.plen)
  IN [c EXCEPT !.vscroll = Len(SelectSeq(Upto(b.buf, c.page), LAMBDA x : x = "nl")), !.res = "exit"]
(* "h" and "l" scroll sideways: the page is printed again.                 *)
TextKey(b, k) ==
  CASE k = "home" -> IF b.begin THEN b ELSE print_page([b EXCEPT !.begin = TRUE, !.page = 0])
    [] k = "end" -> print_page(back_lines([b EXCEPT !.end = TRUE, !.page = Len(b.buf)], b.boxh))
    [] k = "up" -> IF b.begin THEN b ELSE print_page(back_lines(b, b.plen + 1))
    [] k = "ppage" -> IF b.begin THEN b ELSE print_page(back_lines(b, b.plen + b.boxh))
    [] k = "down" -> TextDown(b)
    [] k = "npage" -> IF b.end THEN b ELSE print_page([b EXCEPT !.begin = FALSE])
    [] k \in {"h", "l"} -> print_page(back_lines(b, b.plen))
    [] k \in {"x", "esc"} -> TextExit(b)
    [] OTHER -> b
=============================================================================
