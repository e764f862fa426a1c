------------------------------- MODULE MCAlgorithms ----------------------------
(***************************************************************************)
(* The pure algorithms against reference definitions, over bounded inputs: *)
(* expressions as trees, grown one operator at a time and written as text; *)
(* arbitrary texts, grown one lexeme at a time; every pair of double       *)
(* words; copies within a memory; allocations; formats; Kconfig            *)
(* expressions; and the dialog boxes of menuconfig, one key after another. *)
(***************************************************************************)
EXTENDS ExprTree, Int64, Klib, TLC

CONSTANTS Nums,      \* numbers in trees
          Ops,       \* operators in trees
          MaxSize,   \* operators, signs and brackets in a tree
          MaxText,   \* lexemes of a text
          Cells,     \* size of the memory of the copies
          Sizes,     \* sizes of allocations
          MaxAllocs, \* their number
          MaxFmt,    \* directives of a format
          SymType, Rank, Parsed,   \* symbols and texts of Kconfig expressions
          MaxDeps,   \* operators in a Kconfig expression
          Keys,      \* keys of the dialog boxes
          MaxChars   \* length of a text in a text box

VARIABLE inp
vars == <<inp>>

K == INSTANCE KconfExpr

(* The items of the menus, one with no letter that can be a hot key.       *)
MCItems == <<<<"<", "m", ">", "a">>, <<"[", "]", "b">>, <<"(", ")", "y">>, <<" ", "s">>, <<"a">>, <<"x">>>>
L == INSTANCE Lxdialog WITH Items <- MCItems, MaxLen <- 4

MCHalves == <<2>>
MCIntMin == -128
MCRegs == 0 :> 5
MCMem == [a \in {2, 3} |-> a + 1]

(* A, a tristate, B, a boolean, N, an int, and the texts they can have.    *)
MCSymType == ("A" :> "tristate") @@ ("B" :> "bool") @@ ("N" :> "int")
             @@ [c \in {"y", "m", "n", "10", "9"} |-> "unknown"]
MCRank == ("10" :> 1) @@ ("9" :> 2) @@ ("m" :> 3) @@ ("n" :> 4) @@ ("y" :> 5)
MCParsed == ("10" :> [dec |-> 10, hex |-> 16, auto |-> 10])
            @@ ("9" :> [dec |-> 9, hex |-> 9, auto |-> 9])
            @@ [c \in {"y", "m", "n"} |-> [dec |-> -1000, hex |-> -1000, auto |-> -1000]]

RECURSIVE Size(_)
Size(t) == CASE t.k = "num" -> 0
             [] t.k = "bin" -> 1 + Size(t.a) + Size(t.b)
             [] OTHER -> 1 + Size(t.a)

Alphabet == {Lexeme(ty) : ty \in {"+", "-", "*", "(", ")", "!", " ", "bad"}}
            \cup {[type |-> "NUM", val |-> 0], [type |-> "NUM", val |-> 2]}

Operands == {Num(n) : n \in Nums} \cup {Neg(Num(n)) : n \in Nums}
            \cup {Bin(op, Num(3), Num(2)) : op \in Ops}

(* The directives of a format: a character, %s, %.1s, %d with paddings.     *)
Items ==
  {[k |-> "c", str |-> <<c>>] : c \in {65}}
  \cup [k : {"s"}, str : {<<>>, <<66, 67>>}, prec : {-1, 1}]
  \cup [k : {"d"}, num : {MCIntMin, -7, 0, 5, 123}, prec : {-1}, pad : {0}, zero : {FALSE}]
  \cup [k : {"d"}, num : {5, 123}, prec : {-1, 3}, pad : {0, 2}, zero : {TRUE}]
Plainly(it) == it.k = "d" => it.num # 0 /\ it.prec = -1 /\ it.pad = 0

(* The operands of Kconfig expressions.                                    *)
Deps == {K!Sym(s) : s \in {"A", "B", "y", "n"}}
        \cup {K!Cmp(op, s, c) : op \in {"=", "!="}, s \in {"A"}, c \in {"y", "m", "n"}}
        \cup {K!Cmp("<", "A", "m"), K!Cmp("<=", "N", "10"), K!Cmp("=", "B", "n"), K!Cmp("!=", "B", "m")}
FewDeps == {K!Sym("A"), K!Sym("B"), K!Sym("y"), K!Cmp("=", "A", "y"), K!Cmp("!=", "A", "n")}

(* Boxes as they open: menus with a scroll saved earlier, when the menu    *)
(* may have had other items; texts of every shape up to six characters.    *)
Texts == UNION {[1..n -> {"c", "nl"}] : n \in 1..MaxChars}
Boxes == UNION {{L!dialog_menu(n, h, sel, saved) : h \in 1..4, sel \in {-1, 0, 1, n - 2, n - 1}, saved \in {0, 2, 5}}
                : n \in {2, 6}}
         \cup {L!dialog_checklist(6, h, x, sel) : h \in {1, 3, 6}, x \in {-1, 0, 5}, sel \in {-1, 0, 4}}
         \cup {L!dialog_inputbox(t, 3) : t \in {<<>>, <<"a">>, <<"a", "b", "a">>, <<"a", "b", "a", "a">>}}
         \cup {L!dialog_textbox(t, h, u, 0) : t \in Texts, h \in 1..3, u \in BOOLEAN}

Init == \/ inp \in [kind : {"kexpr"}, e : Deps, size : {0}]
        \/ inp \in [kind : {"kpair"}, e : FewDeps, d : FewDeps, size : {0}]
        \/ inp \in [kind : {"tree"}, t : {Num(n) : n \in Nums}]
        \/ inp = [kind |-> "text", s |-> <<>>]
        \/ inp = [kind |-> "arith", a |-> 0, b |-> 0]
        \/ inp = [kind |-> "copy", dst |-> 1, src |-> 1, n |-> 0, zero |-> {}]
        \/ inp = [kind |-> "heap", h |-> [is_init |-> FALSE, addr |-> 0], ok |-> TRUE, blocks |-> <<>>]
        \/ inp = [kind |-> "fmt", n |-> 1, f |-> <<>>]
        \/ inp \in [kind : {"box"}, b : Boxes]

Grow(t) == /\ inp.kind = "tree"
           /\ Size(t) <= MaxSize
           /\ inp' = [inp EXCEPT !.t = t]

OperatorRight == inp.kind = "tree" /\ \E op \in Ops, u \in Operands : Grow(Bin(op, inp.t, u))
OperatorLeft == inp.kind = "tree" /\ \E op \in Ops, u \in Operands : Grow(Bin(op, u, inp.t))
Bracket == inp.kind = "tree" /\ inp.t.k # "par" /\ Grow(Par(inp.t))
Minus == inp.kind = "tree" /\ Grow(Neg(inp.t))
Type == /\ inp.kind = "text"
        /\ Len(inp.s) < MaxText
        /\ \E x \in Alphabet : inp' = [inp EXCEPT !.s = Append(@, x)]

Operate == /\ inp.kind = "arith" /\ inp.a = 0 /\ inp.b = 0
           /\ \E a, b \in Dwords : inp' = [inp EXCEPT !.a = a, !.b = b]
Copy == /\ inp.kind = "copy" /\ inp.n = 0
        /\ \E d, s \in 1..Cells, z \in SUBSET (1..Cells) :
             \E k \in 1..(Cells + 1 - (IF d > s THEN d ELSE s)) :
               inp' = [inp EXCEPT !.dst = d, !.src = s, !.n = k, !.zero = z]
Allocate == /\ inp.kind = "heap" /\ inp.ok /\ Len(inp.blocks) < MaxAllocs
            /\ \E size \in Sizes :
                 LET r == malloc(inp.h, size)
                 IN inp' = [inp EXCEPT !.h = r.h, !.ok = r.ok,
                              !.blocks = Append(@, [ptr |-> r.ptr, size |-> size])]
Print1 == /\ inp.kind = "fmt" /\ Len(inp.f) < MaxFmt
          /\ \E it \in Items, n \in {1, 3, 9} :
               /\ inp.f # <<>> => n = inp.n
               /\ inp' = [inp EXCEPT !.f = Append(@, it), !.n = n]

Depend == /\ inp.kind = "kexpr" /\ inp.size < MaxDeps
          /\ \E f \in {K!Two(k, inp.e, d) : k \in K!Logical, d \in Deps}
                     \cup {K!Two(k, d, inp.e) : k \in K!Logical, d \in FewDeps} \cup {K!Not(inp.e)} :
               inp' = [inp EXCEPT !.e = f, !.size = @ + 1]
DependBoth == /\ inp.kind = "kpair" /\ inp.size < MaxDeps
              /\ \E f \in FewDeps, k \in K!Logical :
                   inp' \in {[inp EXCEPT !.e = K!Two(k, inp.e, f), !.size = @ + 1],
                            [inp EXCEPT !.d = K!Two(k, f, inp.d), !.size = @ + 1],
                            [inp EXCEPT !.e = K!Two(k, inp.e, f), !.d = K!Two(k, f, inp.d), !.size = @ + 1]}

Step(b, k) == CASE b.kind = "menu" -> L!MenuKey(b, k)
                [] b.kind = "check" -> L!CheckKey(b, k)
                [] b.kind = "input" -> L!InputKey(b, k)
                [] b.kind = "text" -> L!TextKey(b, k)
Press == /\ inp.kind = "box" /\ inp.b.res = "open"
         /\ \E k \in IF inp.b.kind = "input" THEN Keys \ {"b", "s", "y", "l", "x", " "} ELSE Keys :
              inp' = [inp EXCEPT !.b = Step(inp.b, k)]
Resize == /\ inp.kind = "box" /\ inp.b.res = "open"
          /\ \E h \in 1..4 :
               inp' = [inp EXCEPT !.b = CASE @.kind = "menu" -> L!MenuResize(@, h)
                                          [] @.kind = "check" -> L!CheckDraw(@)
                                          [] @.kind = "input" -> L!InputDraw(@)
                                          [] @.kind = "text" -> L!TextResize(@, h)]
Reopen == /\ inp.kind = "box" /\ inp.b.res = "exit"
          /\ inp' = [inp EXCEPT !.b = L!dialog_textbox(@.buf, @.boxh, @.upd, @.vscroll)]

Next == \/ Press \/ Resize \/ Reopen \/ Depend \/ DependBoth \/ OperatorRight \/ OperatorLeft \/ Bracket \/ Minus \/ Type
        \/ Operate \/ Copy \/ Allocate \/ Print1
Spec == Init /\ [][Next]_vars

-----------------------------------------------------------------------------
(* The operators of the language outside what the evaluators handle.       *)
NotNegOfNum(t) == ~NegOfNum(t)
NegCompare(t) == /\ t.k = "bin" /\ t.op = "<"
                 /\ CValue(t.a) < 0 \/ CValue(t.b) < 0
Plain(t) == /\ CValue(t) # Undef
            /\ ~Has(NegCompare, t)
            /\ ~Has(NotNegOfNum, t)
            /\ ~Has(NegAfterLogic, t)

(* The value NEMU computes is C's (test_expr in sdb.c asserts it for the   *)
(* generated expressions), with brackets, all four priorities and signed   *)
(* numbers, unless a signed number is the first operand of an operator.    *)
NemuAgreesWithC ==
  inp.kind = "tree" /\ Plain(inp.t) /\ ~Has(NegFirst, inp.t) =>
    expr(Text(inp.t)) = [success |-> TRUE, val |-> ToWord(CValue(inp.t))]

(* Whether the text has brackets that do not pair.                         *)
Unpaired(s) == \E i \in 1..Len(s) : Layer(s, 1, i) < 0 \/ Layer(s, 1, Len(s)) # 0

(* The value the NPC debugger computes is C's unless an operator's left    *)
(* operand is an unbracketed operator of the same priority: expr.cpp takes *)
(* the first operator of least priority and so groups a - b - c as         *)
(* a - (b - c).  It has no trouble with a signed first operand.  A text    *)
(* whose brackets do not pair is refused before anything is evaluated, and *)
(* every other text gives a word or a panic: the pairs find_main_operator  *)
(* skips along are there, and no frame has a range outside the tokens.     *)
NpcAgreesWithC ==
  /\ inp.kind = "tree" /\ Plain(inp.t) /\ ~Has(LeftChain, inp.t) =>
       npc_expr(Text(inp.t)) = [success |-> TRUE, val |-> ToWord(CValue(inp.t))]
  /\ inp.kind = "text" =>
       IF Unpaired(inp.s) THEN ~npc_expr(inp.s).success
       ELSE npc_expr(inp.s).val \in Word \cup {Panic}

(* What the two debuggers print for an expression, and compare for a       *)
(* watchpoint, is the value of C, up to the differences named above.       *)
DebuggersAgreeWithC == NemuAgreesWithC /\ NpcAgreesWithC

-----------------------------------------------------------------------------
(* Reference arithmetic: signed readings of words and double words.        *)
SignedW(x) == IF IsNegW(x) THEN x - 2^B ELSE x
Signed2(x) == IF IsNeg(x) THEN x - 2^(2*B) ELSE x
Rem(a, b) == a - Quot(a, b) * b

(* __udivmoddi4 divides: every special case by words, every shift that     *)
(* must not reach the width of a word, and the loop give the quotient and  *)
(* remainder, and the signed functions the truncated ones (IntMin / -1     *)
(* wraps, as in the hardware).                                             *)
DivisionRight(a, b) ==
    b # 0 =>
        /\ udivmoddi4(a, b) = [q |-> a \div b, r |-> a % b]
        /\ divdi3(a, b) = W2(Quot(Signed2(a), Signed2(b)))
        /\ moddi3(a, b) = W2(Rem(Signed2(a), Signed2(b)))
        /\ divmoddi4(a, b) = [q |-> divdi3(a, b), r |-> moddi3(a, b)]

(* The counts of zero bits, three ways of computing them (halving, and the *)
(* table of longlong.h), name the highest and the lowest bit set.          *)
BitCounts(a) ==
    a # 0 =>
       /\ 2^(2*B - 1 - clzdi2(a)) <= a /\ a < 2^(2*B - clzdi2(a))
       /\ a % 2^ctzdi2(a) = 0 /\ a % 2^(ctzdi2(a) + 1) # 0
       /\ a \in Words => /\ count_leading_zeros(a) = clzsi2(a)
                         /\ count_trailing_zeros(a) = ctzsi2(a)

(* A core without the M extension multiplies, shifts and divides through   *)
(* libgcc: the results, and those of a division by zero, are what the      *)
(* instructions mul, sll, div and rem of the ISA would give.               *)
SoftArithmetic(a, b) ==
        /\ muldi3(a, b) = W2(a * b)
        /\ b < 2*B => ashldi3(a, b) = W2(a * 2^b)
        /\ a \in Words /\ b \in Words =>
             IF b = 0 THEN /\ udivsi3(a, b) = [q |-> 2^B - 1, r |-> a]
                           /\ divsi3(a, b) = 2^B - 1 /\ modsi3(a, b) = a
             ELSE /\ udivsi3(a, b) = [q |-> a \div b, r |-> a % b]
                  /\ divsi3(a, b) = W1(Quot(SignedW(a), SignedW(b)))
                  /\ modsi3(a, b) = W1(Rem(SignedW(a), SignedW(b)))

(* The macros of longlong.h: carries between the words are not lost, and   *)
(* two corrections of a quotient digit are enough for a divisor whose top  *)
(* bit is set.                                                             *)
LongLongMacros(a, b) ==
        /\ add_ssaaaa(Hi(a), Lo(a), Hi(b), Lo(b)) = W2(a + b)
        /\ sub_ddmmss(Hi(a), Lo(a), Hi(b), Lo(b)) = W2(a - b)
        /\ a \in Words /\ b \in Words => umul_ppmm(a, b) = a * b
        /\ b \in 2^(B-1)..(2^B - 1) /\ Hi(a) < b =>
             udiv_qrnnd_c(Hi(a), Lo(a), b) = [q |-> a \div b, r |-> a % b]

(* All of the 64-bit arithmetic that stands in for missing instructions is *)
(* right for every pair of operands: division, the counts it shifts by,    *)
(* multiplication with its carries, and the macros of longlong.h.          *)
ArithmeticRight ==
  inp.kind = "arith" =>
    /\ DivisionRight(inp.a, inp.b) /\ BitCounts(inp.a)
    /\ SoftArithmetic(inp.a, inp.b) /\ LongLongMacros(inp.a, inp.b)

-----------------------------------------------------------------------------
(* A memory with a different byte in every cell, but 0 in the given ones   *)
(* and at the end.                                                         *)
Memory == [i \in 1..(4 * Cells) |-> IF i \in inp.zero \cup {2 * Cells} \cup (3 * Cells)..(4 * Cells) THEN NUL ELSE i]
Str(m, s) == SubSeq(m, s, s + strlen(m, s) - 1)
Sign(x) == IF x < 0 THEN -1 ELSE IF x > 0 THEN 1 ELSE 0
RECURSIVE Less(_, _)
Less(s, t) == CASE t = <<>> -> FALSE
                [] t # <<>> /\ s = <<>> -> TRUE
                [] OTHER -> Head(s) < Head(t) \/ (Head(s) = Head(t) /\ Less(Tail(s), Tail(t)))

(* memmove copies as if through a temporary array, however the two areas   *)
(* overlap, and with it strcpy, strncpy and strcat deliver the source string as it *)
(* was, although their own measuring of it and the copy are separate;      *)
(* strcmp orders strings as unsigned characters, a proper prefix first.    *)
StringsRight ==
  inp.kind = "copy" =>
    LET m == Memory  d == inp.dst  s == inp.src  n == inp.n
        moved == memmove(m, d, s, n)
        copied == strcpy(m, d, s)
        cut == strncpy(m, d, s, n)
        joined == strcat(m, d, s)
    IN /\ moved = [i \in DOMAIN m |-> IF i \in d..(d + n - 1) THEN m[s + i - d] ELSE m[i]]
       /\ Str(copied, d) = Str(m, s)
       /\ Str(joined, d) = Str(m, d) \o Str(m, s)
       /\ d + n <= s \/ s + n <= d => memcpy(m, d, s, n) = moved
       /\ \A i \in 0..(n - 1) :
            cut[d + i] = IF i < strlen(m, s) THEN m[s + i] ELSE NUL
       /\ Sign(strcmp(m, d, s)) = IF Str(m, d) = Str(m, s) THEN 0
                                  ELSE IF Less(Str(m, d), Str(m, s)) THEN -1 ELSE 1

(* Blocks handed out are aligned, inside the heap and never overlap, from  *)
(* the first call (which rounds the start of the heap up) to the one that  *)
(* fails.                                                                  *)
BlocksDisjoint ==
  inp.kind = "heap" =>
    LET got == {i \in 1..Len(inp.blocks) : inp.blocks[i].ptr # 0}
        Area(i) == inp.blocks[i].ptr..(inp.blocks[i].ptr + inp.blocks[i].size - 1)
    IN /\ \A i, j \in got : i # j => Area(i) \cap Area(j) = {}
       /\ \A i \in got : Area(i) \subseteq HeapStart..(HeapEnd - 1) /\ inp.blocks[i].ptr % 8 = 0

(* The text of a directive with no padding, as C has it.                   *)
RECURSIVE Decimal(_)
Decimal(v) == IF v < 10 THEN <<48 + v>> ELSE Append(Decimal(v \div 10), 48 + (v % 10))
Meant(it) ==
  CASE it.k = "d" -> IF it.num < 0 THEN <<45>> \o Decimal(-it.num) ELSE Decimal(it.num)
    [] it.k = "s" -> IF it.prec >= 0 THEN SubSeq(it.str, 1, Least(it.prec, Len(it.str))) ELSE it.str
    [] OTHER -> it.str
RECURSIVE Whole(_)
Whole(f) == IF f = <<>> THEN <<>> ELSE Meant(Head(f)) \o Whole(Tail(f))

(* However the directives, their paddings and the size of the buffer meet, *)
(* the text and its terminator stay inside the buffer.  Without padding,   *)
(* and for numbers other than 0, the text is what C prescribes, the        *)
(* smallest int included, cut to the buffer; atoi reads it back.           *)
PrintRight ==
  /\ inp.kind = "fmt" => Len(vsnprintf(inp.n, inp.f).out) <= inp.n - 1
  /\ inp.kind = "fmt" /\ (\A i \in 1..Len(inp.f) : Plainly(inp.f[i])) =>
       LET all == Whole(inp.f)
       IN vsnprintf(inp.n, inp.f).out = SubSeq(all, 1, Least(inp.n - 1, Len(all)))
  /\ inp.kind = "arith" /\ inp.b = 0 /\ inp.a \in 1..IntMax =>
       atoi(<<32>> \o itoa(inp.a)) = inp.a

(* The library keeps the promises of C's string.h, stdlib.h and stdio.h    *)
(* where a program cannot see inside it: overlapping copies, blocks of the *)
(* heap, and texts that do not fit their buffer.                           *)
KlibRight == StringsRight /\ BlocksDisjoint /\ PrintRight

-----------------------------------------------------------------------------
(* The values the symbols of a Kconfig expression can have.                *)
Text2(v) == CASE v = 0 -> "n" [] v = 1 -> "m" [] v = 2 -> "y"
Assignments == [A : 0..2, B : {0, 2}, N : {"9", "10"}]
TriOf(a) == [y |-> 2, m |-> 1, n |-> 0, A |-> a.A, B |-> a.B, N |-> 0]
StrOf(a) == ("A" :> Text2(a.A)) @@ ("B" :> Text2(a.B)) @@ ("N" :> a.N)
            @@ [c \in {"y", "m", "n", "10", "9"} |-> c]
Value(e, a) == K!expr_calc_value(e, TriOf(a), StrOf(a))
ReadsAs(p, e) == p.rest = <<>> /\ \A a \in Assignments : Value(p.e, a) = Value(e, a)
Same(e, f) == \A a \in Assignments : Value(e, a) = Value(f, a)
RECURSIVE ModNegated(_, _)
ModNegated(e, a) == CASE e.k = "not" -> Value(e.e, a) = 1 \/ ModNegated(e.e, a)
                      [] e.k \in K!Logical -> ModNegated(e.a, a) \/ ModNegated(e.b, a)
                      [] OTHER -> FALSE

(* Every rewriting menu_finalize applies to a dependency keeps its value   *)
(* under every assignment of the symbols, in three-valued logic: negations *)
(* moved inwards, operands joined in any order, constants removed, and the *)
(* text written and read back.  The comparison with n keeps it where no m  *)
(* is negated, and a symbol the expression depends on makes it n.          *)
RewritesKeepValue ==
  inp.kind = "kexpr" =>
    /\ Same(K!expr_transform(inp.e), inp.e)
    /\ Same(K!expr_eliminate_yn(inp.e), inp.e)
    /\ Same(K!expr_eliminate_dups(inp.e), inp.e)
    /\ Same(K!expr_eliminate_dups(K!expr_transform(inp.e)), inp.e)
    /\ ReadsAs(K!ParseOr(K!expr_print(inp.e, 0)), inp.e)
    /\ \A a \in Assignments, c \in {"y", "n"}, op \in {"=", "!="} :
         ModNegated(inp.e, a) \/
           Value(K!expr_trans_compare(inp.e, op, c), a)
             = K!Tri(K!Compared(op, Value(inp.e, a) - TriOf(a)[c]))
    /\ \A a \in Assignments :
         (Value(K!expr_trans_bool(K!expr_transform(inp.e)), a) = 0) = (Value(inp.e, a) = 0)
    /\ \A s \in {"A", "B"} :
         /\ K!expr_depends_symbol(inp.e, s) =>
              \A a \in Assignments : a[s] = 0 => Value(inp.e, a) = 0
         /\ ~K!expr_contains_symbol(inp.e, s) =>
              \A a, b \in Assignments : (\A r \in {"A", "B", "N"} \ {s} : a[r] = b[r])
                                          => Value(inp.e, a) = Value(inp.e, b)

(* Expressions that expr_eq takes for equal have equal values, whatever    *)
(* the order of their operands; and when removing the common operands      *)
(* leaves nothing of the second, the first implies it, which is what       *)
(* menu_finalize concludes when it moves an entry into a submenu.          *)
EqualHasEqualValue ==
  inp.kind = "kpair" =>
    /\ K!expr_eq(inp.e, inp.d) => Same(inp.e, inp.d)
    /\ K!expr_is_yes(K!expr_eliminate_eq(inp.e, inp.d)[2]) =>
         \A a \in Assignments : Value(inp.e, a) <= Value(inp.d, a)

(* The dependencies of the configuration mean what the Kconfig file says:  *)
(* the rewriting of one expression and the comparison of two, as           *)
(* menu_finalize uses them, never change a three-valued result.            *)
SimplifyKeepsValue == RewritesKeepValue /\ EqualHasEqualValue

-----------------------------------------------------------------------------
(* The item a list highlights, and the one a key should move it to.        *)
Chosen(b) == b.scroll + b.choice
Moved(b, k) == LET rows == L!max_choice(b)
               IN CASE k = "up" -> L!Greatest(Chosen(b) - 1, 0)
                    [] k = "down" -> L!Least(Chosen(b) + 1, b.n - 1)
                    [] k = "ppage" -> L!Greatest(Chosen(b) - rows, 0)
                    [] k = "npage" -> L!Least(Chosen(b) + rows, b.n - 1)

(* In a menu and a radio list, however scrolling, paging, hot keys and     *)
(* resizing follow one another, the rows of the window are the items from  *)
(* the scroll on, the highlight is on the item the box would return, a key *)
(* moves it by one item or one page, and a menu opened again with what the *)
(* last call saved looks as it did.  Not after a resize of a menu that     *)
(* opened at a saved scroll: first_item is not reset (menubox.c:177).      *)
ListShowsChoice ==
  inp.kind = "box" /\ inp.b.kind \in {"menu", "check"} =>
    LET b == inp.b
    IN \/ b.kind = "menu" /\ b.resized
       \/ /\ b.scroll \in 0..(b.n - L!max_choice(b)) /\ b.choice \in 0..(L!max_choice(b) - 1)
          /\ b.win = L!Page(b.scroll, L!max_choice(b), b.choice)
          /\ \A k \in {"up", "down"} : Chosen(Step(b, k)) = Moved(b, k)
          /\ b.kind = "menu" =>
               /\ \A k \in {"ppage", "npage"} : Chosen(Step(b, k)) = Moved(b, k)
               /\ b.res \notin {"open", "esc"} => L!dialog_menu(b.n, b.h, b.sel, b.saved).win = b.win
          /\ b.kind = "check" /\ b.res \notin {"open", "esc"} => b.sel = Chosen(b)

(* The line a position of a text is in, and the lines it has.              *)
LineOf(t, p) == Len(SelectSeq(SubSeq(t, 1, p), LAMBDA x : x = "nl"))
LinesOf(t) == LineOf(t, Len(t)) + 1

(* The input box shows the part of the string around its cursor, with no   *)
(* characters left over from before a deletion, and the cursor stands      *)
(* where the next character goes.  The text box, for a text that ends with *)
(* a newline, shows whole consecutive lines, knows when the first and the  *)
(* last of them are shown, moves by one line or one page, stays where it   *)
(* is when it is printed again, and opens again where it was left.         *)
TextShown ==
  inp.kind = "box" =>
    LET b == inp.b
    IN /\ b.kind = "input" =>
            /\ b.show + b.inx = b.pos /\ b.inx \in 0..(b.w - 1) /\ b.pos \in 0..Len(b.text)
            /\ b.win = [i \in 0..(b.w - 1) |-> IF b.show + i < Len(b.text) THEN b.text[b.show + i + 1] ELSE " "]
       /\ b.kind = "text" /\ b.buf[Len(b.buf)] = "nl" =>
            LET top == LineOf(b.buf, b.top)  all == LinesOf(b.buf)
                To(k) == LineOf(b.buf, Step(b, k).top)
            IN /\ b.top = 0 \/ b.buf[b.top] = "nl"
               /\ b.res = "open" =>
                    /\ b.plen = L!Least(b.boxh, all - top)
                    /\ b.begin = (top = 0) /\ b.end = (top + b.boxh >= all)
                    /\ To("down") = (IF b.end THEN top ELSE top + 1)
                    /\ To("up") = L!Greatest(top - 1, 0) /\ To("ppage") = L!Greatest(top - b.boxh, 0)
                    /\ To("l") = top /\ To("home") = 0 /\ To("end") = L!Greatest(all - b.boxh, 0)
                    /\ ~b.upd => To("npage") = (IF b.end THEN top ELSE top + b.boxh)
               /\ b.res = "exit" => b.vscroll = top

(* What the dialog boxes of menuconfig show is what they hold, after every *)
(* sequence of keys and resizes.                                           *)
BoxesRight == ListShowsChoice /\ TextShown
=============================================================================
