-------------------------------- MODULE Kconfig --------------------------------
(***************************************************************************)
(* The configuration tools of NEMU (nemu/tools/kconfig: confdata.c, conf.c *)
(* and mconf.c) and the build that follows: conf and mconf are processes   *)
(* that read .config, calculate, ask, and write .config, auto.conf and     *)
(* autoconf.h in separate steps; they can be killed between any two.  The  *)
(* last two files, and the build that follows, are in KconfBuild.  The     *)
(* menu is flat.                                                           *)
(***************************************************************************)
EXTENDS KconfSym, KconfBuild

CONSTANTS Texts, Edits, \* what the user can type in a dialog and in .config
          MaxSets, MaxJobs  \* bounds: answers in a session, processes

ASSUME NamesAssumption == Names = Symbols

VARIABLES st,        \* memory of the running process
          job,       \* "none", or what the process is: mconf, conf --syncconfig, ...
          config, defconfig, \* files
          sets, jobs, \* counts
          missed     \* history: this session has tried to load a file that does not exist

files == <<config, defconfig, auto, header>>
vars == <<st, job, pc, files, build, sets, jobs, missed>>

-----------------------------------------------------------------------------
(* conf_set_sym_val: the text of a line as the user's value of a symbol;   *)
(* an invalid one is a warning.                                            *)
conf_set_sym_val(s2, s, t) ==
  CASE SymType[s] \in Truth ->
         IF t = "y" \/ t = "n" \/ (t = "m" /\ SymType[s] = "tristate")
         THEN [s2 EXCEPT !.sym[s].ut = TristateOf(t), !.sym[s].du = TRUE]
         ELSE [s2 EXCEPT !.chg = TRUE]
    [] OTHER -> IF sym_string_valid(s, t) THEN [s2 EXCEPT !.sym[s].uv = t, !.sym[s].du = TRUE]
                ELSE [s2 EXCEPT !.chg = TRUE]

(* A choice follows the lines of its values; m beside y is inconsistent.   *)
FollowChoice(s2, s) ==
  LET c == ChoiceOf[s]  v == s2.sym[s].ut
      bad == v = 1 /\ s2.sym[c].ut = 2
      again == v = 2 /\ s2.sym[c].ut # 0
  IN IF ~sym_is_choice_value(s) THEN s2
     ELSE [s2 EXCEPT !.sym[c].du = @ /\ ~bad, !.sym[c].uv = IF v = 2 THEN s ELSE @,
                     !.sym[c].ut = OrT(@, v), !.chg = @ \/ bad \/ again]

Follow(r, s) == IF SymType[s] \in Truth /\ ~r.sym[s].du THEN r ELSE FollowChoice(r, s)
ReadLine(f, s2, s) == IF f.line[s] = "" THEN s2 ELSE Follow(conf_set_sym_val(s2, s, f.line[s]), s)

RECURSIVE ReadLines(_, _, _)
ReadLines(f, s2, order) ==
  IF order = <<>> THEN s2
  ELSE Only({ReadLines(f, x, Tail(order)) : x \in {ReadLine(f, s2, Head(order))}})

conf_read_simple(s2, f) ==
  ReadLines(f, [s2 EXCEPT !.sym = [s \in Symbols |->
                 [s2.sym[s] EXCEPT !.valid = FALSE, !.du = sym_is_choice(s), !.ut = 0, !.uv = ""]]],
            Order)

(* Whether the calculated value of a symbol disagrees with its line.       *)
Unsaved(s2, s) ==
  LET x == s2.sym[s]
  IN ~sym_is_choice(s) /\
     IF x.du /\ x.wr THEN (IF SymType[s] \in Truth THEN x.ut # x.tri ELSE x.val # x.uv)
     ELSE x.du \/ x.wr

(* After a reading, the user's value of an invisible symbol, if nothing is *)
(* unsaved, and of a number out of its range are forgotten.                *)
InRange(r, s, unsaved) ==
  IF r.ok THEN [st |-> r.st, unsaved |-> unsaved]
  ELSE [st |-> [r.st EXCEPT !.sym[s].valid = FALSE, !.sym[s].du = FALSE], unsaved |-> TRUE]
Reset(acc, s) ==
  LET x == acc.st.sym[s]
      hidden == Put(acc.st, s, "du", x.vis # 0 \/ acc.unsaved)
  IN CASE ~x.du \/ sym_is_choice_value(s) -> acc
       [] x.du /\ ~sym_is_choice_value(s) /\ SymType[s] \in Truth -> [acc EXCEPT !.st = hidden]
       [] OTHER -> InRange(sym_string_within_range(hidden, s, x.uv), s, acc.unsaved)
RECURSIVE ResetAll(_, _)
ResetAll(acc, order) ==
  IF order = <<>> THEN [acc.st EXCEPT !.chg = @ \/ acc.unsaved]
  ELSE Only({ResetAll(x, Tail(order)) : x \in {Reset(acc, Head(order))}})
Unread(c) == [st |-> c, unsaved |-> \E s \in Symbols : Unsaved(c, s)]

conf_read(s2, f) ==
  IF ~f.has THEN [sym_calc_value(s2, modules_sym) EXCEPT !.chg = TRUE]
  ELSE Only({ResetAll(Unread(CalcAll(x, <<modules_sym>> \o HashOrder)), HashOrder) :
               x \in {conf_read_simple([s2 EXCEPT !.chg = FALSE], f)}})

(* The lines of .config.                                                   *)
Lines(s2) == [s \in Symbols |-> IF s2.sym[s].wr /\ ~sym_is_choice(s) THEN sym_get_string_value(s2, s) ELSE ""]
conf_write(s2) == CalcAll(IF s2.chg THEN s2 ELSE sym_clear_all_valid(s2), Order)

(* A symbol of the minimal configuration: [st, line].                      *)
Keep(x, line, s) == [st |-> x, line |-> [line EXCEPT ![s] = sym_get_string_value(x, s)]]

(* Faulty variant: the chosen value of a choice is never kept.             *)
UnlessChosen_any(cd, line, s) ==
  IF sym_get_tristate_value(cd.st, s) = 2 THEN [st |-> cd.st, line |-> line] ELSE Keep(cd.st, line, s)

UnlessChosen(cd, line, s) ==
  IF /\ ChoiceOf[s] \notin Optional /\ cd.m = s
     /\ SymType[s] = "bool" /\ sym_get_tristate_value(cd.st, s) = 2
  THEN [st |-> cd.st, line |-> line] ELSE Keep(cd.st, line, s)
UnlessDefault(d, line, s) ==
  IF sym_get_string_value(d.st, s) = d.v THEN [st |-> d.st, line |-> line]
  ELSE IF sym_is_choice_value(s) THEN UnlessChosen(sym_choice_default(d.st, ChoiceOf[s], 1), line, s)
  ELSE Keep(d.st, line, s)
UnlessFixed(c, line, s) ==
  IF ~c.sym[s].wr THEN [st |-> c, line |-> line]
  ELSE IF ~sym_is_changeable(c, s) THEN [st |-> Put(c, s, "wr", FALSE), line |-> line]
  ELSE UnlessDefault(sym_get_string_default(Put(c, s, "wr", FALSE), s), line, s)
Minimal(acc, s) == IF sym_is_choice(s) THEN acc ELSE UnlessFixed(sym_calc_value(acc.st, s), acc.line, s)
RECURSIVE MinimalAll(_, _)
MinimalAll(acc, order) ==
  IF order = <<>> THEN acc ELSE Only({MinimalAll(x, Tail(order)) : x \in {Minimal(acc, Head(order))}})
conf_write_defconfig(s2) ==
  MinimalAll([st |-> sym_clear_all_valid(s2), line |-> [s \in Symbols |-> ""]], Order)

(* The values every symbol without one gets: mode is a tristate, or        *)
(* "default" for none.                                                     *)
New(s2, s) == ~s2.sym[s].du /\ ~s2.sym[s].valid /\ sym_get_type(s2, s) \in Truth
Given(s2, mode) ==
  IF mode = "default" THEN s2
  ELSE [s2 EXCEPT !.sym = [s \in Symbols |->
         IF New(s2, s) THEN [s2.sym[s] EXCEPT !.ut = TristateOf(mode), !.du = TRUE] ELSE s2.sym[s]]]
NeedValues(s2) ==
  [s2 EXCEPT !.sym = [s \in Symbols |->
    [s2.sym[s] EXCEPT !.need = @ \/ (sym_is_choice(s) /\ ~s2.sym[s].du) \/ sym_is_choice_value(s)]]]
SetChoice(s2, s) == IF s2.sym[s].du \/ ~sym_is_choice(s) THEN s2
                    ELSE set_all_choice_values(sym_calc_value(s2, s), s)
RECURSIVE SetChoices(_, _)
SetChoices(s2, order) ==
  IF order = <<>> THEN s2 ELSE Only({SetChoices(x, Tail(order)) : x \in {SetChoice(s2, Head(order))}})
conf_set_all_new_symbols(s2, mode) ==
  SetChoices(NeedValues(sym_clear_all_valid(Given(s2, mode))), HashOrder)

conf_rewrite_mod_or_yes(s2, from, to) ==
  sym_clear_all_valid([s2 EXCEPT !.sym = [s \in Symbols |->
    IF sym_get_type(s2, s) = "tristate" /\ s2.sym[s].ut = from
    THEN [s2.sym[s] EXCEPT !.ut = to] ELSE s2.sym[s]]])

-----------------------------------------------------------------------------
Init == /\ st = NewState /\ job = "none"
        /\ config = Absent /\ defconfig = Absent
        /\ InitBuild
        /\ sets = 0 /\ jobs = 0 /\ missed = FALSE

Start(j, s2, next) ==
  /\ pc = "idle" /\ jobs < MaxJobs
  /\ job' = j /\ jobs' = jobs + 1 /\ sets' = 0
  /\ st' = s2 /\ pc' = next /\ missed' = FALSE
  /\ UNCHANGED <<files, build>>

(* Starting a tool: what it has in memory when its questions begin.        *)
Menuconfig == Start("mconf", CalcAll(conf_read(NewState, config), Order), "menu")
Syncconfig == /\ pc = "sync"
              /\ st' = CalcAll(conf_read(NewState, config), Order) /\ job' = "sync" /\ pc' = "ask"
              /\ UNCHANGED <<files, build, sets, jobs, missed>>
Defconfig == defconfig.has /\ Start("defconfig", conf_set_all_new_symbols(conf_read(NewState, defconfig), "default"), "write")
Allconfig == \E mode \in {"n", "m", "y", "default"} :
               Start("all", conf_set_all_new_symbols(NewState, mode), "write")
RewriteMod == \E f \in {<<2, 1>>, <<1, 2>>} :
                Start("rewrite", conf_rewrite_mod_or_yes(conf_read(NewState, config), f[1], f[2]), "write")
Savedefconfig ==
  /\ pc = "idle" /\ jobs < MaxJobs
  /\ defconfig' = Written(conf_write_defconfig(conf_read(NewState, config)).line)
  /\ jobs' = jobs + 1
  /\ UNCHANGED <<st, job, pc, config, auto, header, build, sets, missed>>

(* An answer in a dialog of mconf: Y (m if y is refused), N, M, the space  *)
(* bar; a value of a choice that is y; a text.  The menu is calculated     *)
(* again before it is shown.                                               *)
Yes(s2, s) == LET r == sym_set_tristate_value(s2, s, 2)
              IN IF r.ok THEN r.st ELSE sym_set_tristate_value(s2, s, 1).st
Radio(s) == sym_is_choice_value(s) /\ st.sym[ChoiceOf[s]].tri = 2
Keys(s) == CASE SymType[s] \notin Truth -> {sym_set_string_value(st, s, t).st : t \in Texts}
             [] Radio(s) -> {sym_set_tristate_value(st, s, 2).st}
             [] OTHER -> {Yes(st, s), sym_toggle_tristate_value(st, s)}
                         \cup {sym_set_tristate_value(st, s, v).st : v \in {0, 1}}
Answer ==
  /\ pc = "menu" /\ sets < MaxSets
  /\ \E s \in {x \in Symbols : st.sym[x].vis # 0} : \E s2 \in Keys(s) : st' = CalcAll(s2, Order)
  /\ sets' = sets + 1
  /\ UNCHANGED <<job, pc, files, build, jobs, missed>>

(* The Load button, for .config or for a file that does not exist, and the *)
(* Save button, for .config: the steps of conf_write, then the menu again. *)
Load == /\ pc = "menu" /\ sets < MaxSets
        /\ \/ /\ config.has
              /\ st' = CalcAll([conf_read(st, config) EXCEPT !.chg = TRUE], Order)
              /\ UNCHANGED missed
           \/ st' = [sym_calc_value(st, modules_sym) EXCEPT !.chg = FALSE] /\ missed' = TRUE
        /\ sets' = sets + 1
        /\ UNCHANGED <<job, pc, files, build, jobs>>
Save == /\ pc = "menu" /\ sets < MaxSets
        /\ job' = "save" /\ pc' = "write" /\ sets' = sets + 1
        /\ UNCHANGED <<st, files, build, jobs, missed>>

(* The process ends, its memory is gone; make runs conf --syncconfig after *)
(* mconf and conf --defconfig (scripts/config.mk).                         *)
Forget == st' = NewState /\ job' = "none" /\ sets' = 0 /\ missed' = FALSE
Following == IF job \in {"mconf", "defconfig"} THEN "sync" ELSE "idle"
Finish == Forget /\ pc' = Following

(* handle_exit: nothing to save, or the user is asked.                     *)
Exit == /\ pc = "menu"
        /\ \/ pc' = "write" /\ st.chg /\ sets' = 0 /\ missed' = FALSE /\ UNCHANGED <<st, job>>
           \/ Finish
        /\ UNCHANGED <<files, build, jobs>>

(* conf asks for the visible symbols that are new, in the order of the     *)
(* menu and again from the start, until there is none.  sets is the place  *)
(* of the last one asked.                                                  *)
IsNew(s2, s) == /\ s2.sym[s].vis # 0 /\ ~s2.sym[s].du
                /\ sym_is_choice_value(s) => s2.sym[ChoiceOf[s]].tri = 1
                /\ sym_is_changeable(s2, s) \/ (sym_is_choice(s) /\ s2.sym[s].tri = 2)
News == {i \in 1..Len(Order) : IsNew(st, Order[i])}
Accepted(rs) == {r.st : r \in {q \in rs : q.ok}}
conf_sym(s2, s) == Accepted({sym_set_tristate_value(s2, s, v) : v \in 0..2})
conf_string(s2, s) == Accepted({sym_set_string_value(s2, s, t) : t \in Texts})
Chosen(d, c) ==
  IF d.sym[c].tri # 2 THEN {d}
  ELSE {sym_set_tristate_value(d, m, 2).st :
          m \in {x \in Symbols : ChoiceOf[x] = c /\ d.sym[x].vis # 0}}
conf_choice(s2, c) ==
  UNION {Chosen(CalcAll(x, <<c>> \o Members[c]), c) :
           x \in IF sym_is_changeable(s2, c) THEN conf_sym(s2, c) ELSE {s2}}
NextNew == LET later == {i \in News : i > sets}
           IN Min(IF later # {} THEN later ELSE News)
AskFor(s) == IF sym_is_choice(s) THEN conf_choice(st, s)
             ELSE IF SymType[s] \in Truth THEN conf_sym(st, s) ELSE conf_string(st, s)
Ask == /\ pc = "ask" /\ News # {}
       /\ \E s2 \in AskFor(Order[NextNew]) : st' = CalcAll(s2, Order)
       /\ sets' = NextNew
       /\ UNCHANGED <<job, pc, files, build, jobs, missed>>
Answered == /\ pc = "ask" /\ News = {}
            /\ pc' = "write" /\ sets' = 0
            /\ UNCHANGED <<st, job, files, build, jobs, missed>>

(* conf_write: the temporary file is complete; no change, or two renames,  *)
(* the first to .config.old, which no tool reads.                          *)
AfterWrite == IF job = "save" THEN pc' = "menu" /\ job' = "mconf" ELSE pc' = "auto" /\ UNCHANGED job
Write == /\ pc = "write"
         /\ st' = [conf_write(st) EXCEPT !.chg = FALSE]
         /\ IF config = Written(Lines(st')) THEN AfterWrite ELSE pc' = "rename" /\ UNCHANGED job
         /\ UNCHANGED <<files, build, sets, jobs, missed>>
RenameOld == /\ pc = "rename"
             /\ config' = Absent /\ pc' = "rename2"
             /\ UNCHANGED <<st, job, defconfig, auto, header, build, sets, jobs, missed>>
RenameNew == /\ pc = "rename2"
             /\ config' = Written(Lines(st)) /\ AfterWrite
             /\ UNCHANGED <<st, defconfig, auto, header, build, sets, jobs, missed>>

(* auto.conf leaves out n.                                                 *)
AutoLines(s2) == [s \in Symbols |-> IF SymType[s] \in Truth /\ Lines(s2)[s] = "n" THEN "" ELSE Lines(s2)[s]]

(* conf_write_autoconf, unless auto.conf is there and the tool is not      *)
(* syncconfig: touch, then the header, then auto.conf.                     *)
End == /\ pc = "auto" /\ job # "sync" /\ auto.has
       /\ Finish
       /\ UNCHANGED <<files, build, jobs>>
Autoconf == /\ pc = "auto" /\ (job = "sync" \/ ~auto.has)
            /\ st' = CalcAll(sym_calc_value([st EXCEPT !.sym = [s \in Symbols |->
                        [st.sym[s] EXCEPT !.valid = FALSE]]], modules_sym), HashOrder)
            /\ conf_touch_deps(AutoLines(st'))
            /\ UNCHANGED <<job, config, defconfig, sets, jobs, missed>>
Touch == /\ pending # {} /\ conf_touch_dep(CHOOSE s \in pending : TRUE)
         /\ UNCHANGED <<st, job, config, defconfig, sets, jobs, missed>>
RenameHeader == rename_header /\ UNCHANGED <<st, job, config, defconfig, sets, jobs, missed>>
RenameAuto == rename_auto(Following) /\ Forget /\ UNCHANGED <<config, defconfig, jobs>>

(* The tool is killed, or make compiles an object.                         *)
Crash == killed /\ Forget /\ UNCHANGED <<config, defconfig, jobs>>
Compile == /\ \E o \in Objs : compile(o)
           /\ UNCHANGED <<st, job, config, defconfig, sets, jobs, missed>>

(* The user writes .config by hand, one line at a time, or removes it.     *)
Edit == /\ pc = "idle" /\ jobs < MaxJobs
        /\ \/ \E s \in Symbols, t \in Edits :
                ~sym_is_choice(s) /\ config' = Written([config.line EXCEPT ![s] = t])
           \/ config.has /\ config' = Absent
        /\ jobs' = jobs + 1
        /\ UNCHANGED <<st, job, pc, defconfig, auto, header, build, sets, missed>>

Next == \/ Menuconfig \/ Syncconfig \/ Defconfig \/ Allconfig \/ RewriteMod \/ Savedefconfig
        \/ Answer \/ Load \/ Save \/ Exit \/ Ask \/ Answered \/ Write \/ RenameOld \/ RenameNew
        \/ End \/ Autoconf \/ Touch \/ RenameHeader \/ RenameAuto \/ Crash \/ Compile \/ Edit
Spec == Init /\ [][Next]_vars

-----------------------------------------------------------------------------
Value(s2, s) == <<s2.sym[s].tri, s2.sym[s].val>>
Asking == pc \in {"menu", "ask"}

LoadRestores ==
  pc = "menu" /\ config.has =>
    \E r \in {CalcAll(conf_read(st, config), Order)}, f \in {CalcAll(conf_read(NewState, config), Order)} :
      \A s \in Symbols : Value(r, s) = Value(f, s) /\ r.sym[s].du = f.sym[s].du
ExitLosesNothing ==
  pc = "menu" /\ ~st.chg /\ ~missed => config.has /\ Lines(st) = config.line
(* The Load button restores the settings saved in .config: nothing entered *)
(* in the session before it is left in memory; and a session that can be   *)
(* left without being asked to save loses nothing: what it shows is in     *)
(* .config.  (A load that fails also forgets that there are changes,       *)
(* confdata.c:519.)                                                        *)
SessionKept == LoadRestores /\ ExitLosesNothing

(* A text the user has just entered again after conf_read had forgotten it *)
(* but kept the string (DEF_USER cleared): sym_set_string_value finds it   *)
(* unchanged and clears nothing.                                           *)
Reentered(s) == SymType[s] \notin Truth /\ st.sym[s].du /\ st.sym[s].val # st.sym[s].uv
ValuesFresh ==
  \E c \in {sym_clear_all_valid(st)} :
    \A s \in {x \in Symbols : ~Reentered(x)} : Value(sym_calc_value(c, s), s) = Value(st, s)
OneChosen ==
  \A c \in {x \in Symbols : sym_is_choice(x)} :
    LET on == {m \in Symbols : ChoiceOf[m] = c /\ st.sym[m].tri = 2}
    IN IF st.sym[c].tri = 2 THEN \E m \in on : on = {m} /\ st.sym[m].vis # 0 ELSE on = {}
(* What is kept and shown is what a calculation of everything would give,  *)
(* whichever symbol it starts with: no answer leaves a stale value behind  *)
(* (symbol.c:331), but a text entered again.  A choice that is y has       *)
(* exactly one value y, a visible one; one that is n has none.             *)
ValuesRight == Asking => ValuesFresh /\ OneChosen

(* A value the tool accepts is the value the symbol then has, and so is a  *)
(* text other than one a reading has left behind.                          *)
AcceptedTakesEffect ==
  Asking => \A s \in {x \in Symbols : st.sym[x].vis # 0} :
    IF SymType[s] \in Truth
    THEN \A v \in 0..2 : LET r == sym_set_tristate_value(st, s, v)
                         IN r.ok => CalcAll(r.st, Order).sym[s].tri = v
    ELSE \A t \in Texts \ {st.sym[s].uv} :
           LET r == sym_set_string_value(st, s, t) IN r.ok => CalcAll(r.st, Order).sym[s].val = t

SavedLoads ==
  \E r \in {CalcAll(conf_read(NewState, config), Order)} :
    /\ \A s \in Symbols : Value(r, s) = Value(st, s)
    /\ Lines(conf_write(r)) = config.line
MinimalRestores ==
  LET d == Written(conf_write_defconfig(conf_read(NewState, config)).line)
  IN Lines(conf_write(conf_set_all_new_symbols(conf_read(NewState, d), "default"))) = config.line
(* Reading the file that was written gives the values that were written,   *)
(* and writing them again changes nothing; and the minimal configuration   *)
(* (confdata.c:785) restores the whole one.                                *)
FilesRestore == pc = "auto" => SavedLoads /\ MinimalRestores
=============================================================================
