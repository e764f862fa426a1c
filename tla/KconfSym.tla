------------------------------- MODULE KconfSym --------------------------------
(***************************************************************************)
(* The values of Kconfig symbols (nemu/tools/kconfig/symbol.c): they are   *)
(* calculated on demand, kept until sym_clear_all_valid, and follow from   *)
(* the user's values, visibility, defaults, selects and choices.  A        *)
(* calculation changes the symbols it meets, so every operator takes the   *)
(* state and returns it: st.sym[s] is the record of symbol s, st.mv is     *)
(* modules_val, st.chg whether sym_change_count is positive.               *)
(* SYMBOL_CHANGED, which only graphical front ends read, is left out.      *)
(***************************************************************************)
EXTENDS KconfExpr

CONSTANTS Order,     \* the symbols in the order of the menus
          HashOrder, \* the symbols in the order of symbol_hash
          Prompts, Defaults, DirDep, RevDep, Implied, Ranges, \* their properties, finalised
          Members,   \* of a choice, in order; << >> for other symbols
          ChoiceOf,  \* of a choice value, "" for other symbols
          Optional,  \* choices that may be n
          modules_sym

Symbols == {Order[i] : i \in 1..Len(Order)}
sym_is_choice(s) == Members[s] # <<>>
sym_is_choice_value(s) == ChoiceOf[s] # ""
Truth == {"bool", "tristate"}

(* A symbol as sym_lookup allocates it.                                    *)
NewSymbol == [valid |-> FALSE, tri |-> 0, val |-> "", vis |-> 0, dir |-> 0, rev |-> 0, imp |-> 0,
              du |-> FALSE, ut |-> 0, uv |-> "", wr |-> FALSE, need |-> FALSE]
NewState == [sym |-> [s \in Symbols |-> NewSymbol], mv |-> 0, chg |-> FALSE]

(* Only({F(x) : x \in {a}}) is F(a), a calculated before F.                *)
Only(S) == CHOOSE x \in S : TRUE
Put(st, s, f, v) == [st EXCEPT !.sym[s][f] = v]

(* Current values; a constant has its name as its text.                    *)
sym_get_tristate_value(st, s) == IF s \in Symbols THEN st.sym[s].tri
                                 ELSE IF s \in Const THEN TristateOf(s) ELSE 0
TruthText(t, modules) == IF t = 0 \/ (t = 1 /\ modules = 0) THEN "n" ELSE IF t = 1 THEN "m" ELSE "y"
sym_get_string_value(st, s) ==
  CASE SymType[s] \in Truth -> TruthText(st.sym[s].tri, st.sym[modules_sym].tri)
    [] SymType[s] = "unknown" -> s
    [] OTHER -> st.sym[s].val

sym_get_type(st, s) ==
  IF SymType[s] = "tristate" /\ (st.mv = 0 \/ (sym_is_choice_value(s) /\ st.sym[s].vis = 2))
  THEN "bool" ELSE SymType[s]
Promote(st, s, t) == IF t = 1 /\ sym_get_type(st, s) = "bool" THEN 2 ELSE t

(* The symbols of an expression in the order their values are asked for;   *)
(* the text of m depends on the modules symbol.                            *)
RECURSIVE Asked(_)
Asked(e) == CASE e.k = "sym" -> <<e.s>>
              [] e.k = "cmp" -> <<e.s, e.t, modules_sym>>
              [] e.k = "not" -> Asked(e.e)
              [] e.k \in Logical -> Asked(e.a) \o Asked(e.b)
              [] OTHER -> <<>>

RECURSIVE Eval(_, _), Calc(_, _), CalcAll(_, _),
          sym_get_default_prop(_, _, _), sym_choice_default(_, _, _)

(* The symbols of a sequence, one after the other.                         *)
CalcAll(st, order) ==
  IF order = <<>> THEN st
  ELSE Only({CalcAll(c, Tail(order)) : c \in {Calc(st, Head(order))}})

(* expr_calc_value with the calculations it causes.                        *)
EvalIn(c, e) ==
  [st |-> c, v |-> expr_calc_value(e, [x \in DOMAIN SymType |-> sym_get_tristate_value(c, x)],
                                     [x \in DOMAIN SymType |-> sym_get_string_value(c, x)])]
Eval(st, e) == Only({EvalIn(c, e) : c \in {CalcAll(st, Asked(e))}})
sym_calc_value(st, s) == Eval(st, Sym(s)).st

(* The first default, from the i-th on, whose condition is not n; i = 0    *)
(* if there is none.                                                       *)
DefaultIf(r, s, i) == IF r.v # 0 THEN [st |-> r.st, i |-> i, v |-> r.v]
                      ELSE sym_get_default_prop(r.st, s, i + 1)
sym_get_default_prop(st, s, i) ==
  IF i > Len(Defaults[s]) THEN [st |-> st, i |-> 0, v |-> 0]
  ELSE DefaultIf(Eval(st, Defaults[s][i].cond), s, i)

(* The value of the default d found: [st, v], n if there is none.          *)
DefaultValue(d, s) == IF d.i = 0 THEN [st |-> d.st, v |-> 0] ELSE Eval(d.st, Defaults[s][d.i].e)
DefaultText(c, x) == [st |-> c, v |-> sym_get_string_value(c, x)]

(* The number of a range's end, and the value forced into the range.       *)
RangeVal(c, x) == [st |-> c, v |-> Parsed[IF x \in Symbols THEN c.sym[x].val ELSE x].dec]
sym_get_range_val(st, x) == RangeVal(sym_calc_value(st, x), x)
TextOf(n) == CHOOSE t \in DOMAIN Parsed : Parsed[t].dec = n
ActiveRange(st, s) ==
  IF Ranges[s].cond = None /\ Ranges[s].lo = "" THEN [st |-> st, v |-> 0] ELSE Eval(st, Ranges[s].cond)
ForceHi(r, s) == IF Parsed[r.st.sym[s].val].dec <= r.v THEN r.st ELSE Put(r.st, s, "val", TextOf(r.v))
ForceLo(r, s) == IF Parsed[r.st.sym[s].val].dec < r.v THEN Put(r.st, s, "val", TextOf(r.v))
                 ELSE ForceHi(sym_get_range_val(r.st, Ranges[s].hi), s)
Force(r, s) == IF r.v = 0 THEN r.st ELSE ForceLo(sym_get_range_val(r.st, Ranges[s].lo), s)
sym_validate_range(st, s) == IF SymType[s] # "int" THEN st ELSE Force(ActiveRange(st, s), s)

(* A prompt's contribution: a tristate choice value that could only be m   *)
(* cannot be chosen while the choice is y.                                 *)
Seen(v, r, s) ==
  LET off == /\ sym_is_choice_value(s) /\ SymType[s] = "tristate"
             /\ r.v = 1 /\ r.st.sym[ChoiceOf[s]].tri = 2
  IN [st |-> r.st, v |-> OrT(v, IF off THEN 0 ELSE r.v)]
RECURSIVE Prompted(_, _, _)
Prompted(acc, s, i) ==
  IF i > Len(Prompts[s]) THEN acc ELSE Prompted(Seen(acc.v, Eval(acc.st, Prompts[s][i]), s), s, i + 1)

(* One of the dependencies: direct, by select, by imply.                   *)
Depend(r, s, f) == Put(r.st, s, f, Promote(r.st, s, r.v))
Depends(st, s, f, e, none) ==
  Depend(IF e = None THEN [st |-> st, v |-> none] ELSE Eval(st, e), s, f)
AllDepends(st, s) ==
  IF sym_is_choice_value(s) THEN st
  ELSE Only({Depends(r, s, "imp", Implied[s], 0) : r \in
              {Depends(d, s, "rev", RevDep[s], 0) : d \in {Depends(st, s, "dir", DirDep[s], 2)}}})

Visible(p, s) ==
  Put(p.st, s, "vis", IF p.v = 1 /\ (SymType[s] # "tristate" \/ p.st.mv = 0) THEN 2 ELSE p.v)
sym_calc_visibility(st, s) ==
  Only({AllDepends(Visible(p, s), s) : p \in {Prompted([st |-> st, v |-> 0], s, 1)}})

FirstVisible(st, s) ==
  LET vis == SelectSeq(Members[s], LAMBDA m : st.sym[m].vis # 0)
  IN IF vis = <<>> THEN "" ELSE Head(vis)
ChoiceIf(r, s, i) ==
  LET d == Defaults[s][i].e.s
  IN IF r.v # 0 /\ r.st.sym[d].vis # 0 THEN [st |-> r.st, m |-> d]
     ELSE sym_choice_default(r.st, s, i + 1)
sym_choice_default(st, s, i) ==
  IF i > Len(Defaults[s]) THEN [st |-> st, m |-> FirstVisible(st, s)]
  ELSE ChoiceIf(Eval(st, Defaults[s][i].cond), s, i)

(* The value of a choice that is y: the user's, the default, or the first  *)
(* visible one; a visible value the user has not met makes the choice new. *)
RECURSIVE SeeAll(_, _)
SeeAll(st, order) == IF order = <<>> THEN st ELSE SeeAll(sym_calc_visibility(st, Head(order)), Tail(order))
Meet(c, s) ==
  Put(c, s, "du", c.sym[s].du /\ \A i \in 1..Len(Members[s]) :
                                 LET m == c.sym[Members[s][i]] IN m.vis # 0 => m.du)
PickDefault(d, s) == [d.st EXCEPT !.sym[s].val = d.m, !.sym[s].tri = IF d.m = "" THEN 0 ELSE @]

(* Faulty variant: the user's value although it is not visible.            *)
PickChoice_hidden(f, s) ==
  IF f.sym[s].uv # "" THEN Put(f, s, "val", f.sym[s].uv)
  ELSE PickDefault(sym_choice_default(f, s, 1), s)

PickChoice(f, s) ==
  LET user == f.sym[s].uv
  IN IF user # "" /\ f.sym[user].vis # 0 THEN Put(f, s, "val", user)
     ELSE PickDefault(sym_choice_default(f, s, 1), s)
sym_calc_choice(st, s) == Only({PickChoice(Meet(c, s), s) : c \in {SeeAll(st, Members[s])}})

(* The calculated value of a boolean or tristate symbol, its visibility    *)
(* being known: the chosen one's, the user's, or the default's with what   *)
(* is implied and selected.                                                *)
ByDefault(r, s, x, cond) ==
  LET def == AndT(r.v, cond)
      implied == ~sym_is_choice(s) /\ x.imp # 0
      new == IF implied THEN AndT(OrT(def, x.imp), x.dir) ELSE def
  IN [r.st EXCEPT !.sym[s].wr = x.wr \/ x.rev # 0 \/ def # 0 \/ implied,
                  !.sym[s].tri = Promote(r.st, s, OrT(new, x.rev))]
WithDefault(d, s, x) == ByDefault(DefaultValue(d, s), s, x, d.v)
Truthful(st, s) ==
  LET x == st.sym[s]
  IN IF sym_is_choice_value(s) /\ x.vis = 2
     THEN Put(st, s, "tri", Promote(st, s, Tri(st.sym[ChoiceOf[s]].val = s)))
     ELSE IF x.vis # 0 /\ x.du THEN Put(st, s, "tri", Promote(st, s, OrT(AndT(x.ut, x.vis), x.rev)))
     ELSE WithDefault(IF sym_is_choice(s) THEN [st |-> st, i |-> 0, v |-> 0]
                      ELSE sym_get_default_prop(st, s, 1), s, x)

(* The text of an int or string symbol.                                    *)
TextDefault(r, s) == [r.st EXCEPT !.sym[s].wr = TRUE, !.sym[s].val = r.v]
WithText(d, s) ==
  IF d.i = 0 THEN d.st
  ELSE LET x == Defaults[s][d.i].e.s IN TextDefault(DefaultText(sym_calc_value(d.st, x), x), s)
Textual(st, s) == IF st.sym[s].vis # 0 /\ st.sym[s].du THEN Put(st, s, "val", st.sym[s].uv)
                  ELSE WithText(sym_get_default_prop(st, s, 1), s)

set_all_choice_values(st, s) ==
  LET has == {i \in 1..Len(Members[s]) : st.sym[Members[s][i]].du}
      unset == {Members[s][i] : i \in (1..Len(Members[s])) \ has}
  IN [st EXCEPT !.sym = [x \in Symbols |->
        CASE x \in unset -> [st.sym[x] EXCEPT !.ut = 0]
          [] x = s -> [st.sym[x] EXCEPT !.du = TRUE, !.valid = FALSE, !.need = FALSE]
          [] OTHER -> st.sym[x]]]

(* The steps after the new value is known: the choice made, the range      *)
(* forced, modules_val updated, and the values of a choice written.        *)
Choose(st, s) == IF sym_is_choice(s) /\ st.sym[s].tri = 2 THEN sym_calc_choice(st, s) ELSE st
Modules(st, s, old) ==
  IF s = modules_sym /\ st.sym[s].tri # old THEN [st EXCEPT !.mv = st.sym[s].tri] ELSE st
WriteValues(st, s) ==
  [st EXCEPT !.sym = [x \in Symbols |->
     IF sym_is_choice_value(x) /\ ChoiceOf[x] = s /\ st.sym[s].wr /\ st.sym[x].vis # 0
     THEN [st.sym[x] EXCEPT !.wr = TRUE] ELSE st.sym[x]]]
Needed(st, s) == IF sym_is_choice(s) /\ st.sym[s].need THEN set_all_choice_values(st, s) ELSE st
Settle(st, s, old) ==
  Only({Needed(WriteValues(Modules(r, s, old), s), s) : r \in
         {sym_validate_range(c, s) : c \in {Choose(st, s)}}})

NoValue(st, s) == [st EXCEPT !.sym[s].wr = st.sym[s].vis # 0, !.sym[s].tri = 0, !.sym[s].val = ""]
NewValue(st, s) == IF SymType[s] \in Truth THEN Truthful(st, s) ELSE Textual(st, s)
NewCalc(st, s) ==
  Only({Settle(x, s, st.sym[s].tri) : x \in
         {NewValue(NoValue(v, s), s) : v \in
           {sym_calc_visibility([st EXCEPT !.sym[s].valid = TRUE, !.sym[s].wr = FALSE], s)}}})
Calc(st, s) ==
  IF s \notin Symbols \/ (s \in Symbols /\ st.sym[s].valid) THEN st
  ELSE NewCalc(IF sym_is_choice_value(s) /\ st.sym[s].need
               THEN sym_calc_value(Put(st, s, "need", FALSE), ChoiceOf[s]) ELSE st, s)

(* Faulty variant: a change that does not count.                           *)
sym_clear_all_valid_quiet(st) ==
  sym_calc_value([st EXCEPT !.sym = [s \in Symbols |-> [st.sym[s] EXCEPT !.valid = FALSE]]], modules_sym)

sym_clear_all_valid(st) ==
  sym_calc_value([st EXCEPT !.sym = [s \in Symbols |-> [st.sym[s] EXCEPT !.valid = FALSE]],
                            !.chg = TRUE], modules_sym)

-----------------------------------------------------------------------------
sym_is_changeable(st, s) == st.sym[s].vis > st.sym[s].rev


(* Faulty variant: a selected symbol may be set below the select.          *)
sym_tristate_within_range_free(st, s, v) ==
  st.sym[s].vis # 0 /\ ~(sym_get_type(st, s) = "bool" /\ v = 1) /\ v <= st.sym[s].vis

sym_tristate_within_range(st, s, v) ==
  LET x == st.sym[s]
  IN /\ x.vis # 0
     /\ sym_get_type(st, s) \in Truth
     /\ ~(sym_get_type(st, s) = "bool" /\ v = 1)
     /\ x.vis > x.rev
     /\ IF sym_is_choice_value(s) /\ x.vis = 2 THEN v = 2 ELSE x.rev <= v /\ v <= x.vis

(* Setting a choice value also makes it the user's choice, and settles the *)
(* visible values beside it.                                               *)
sym_set_tristate_value(st, s, v) ==
  LET old == st.sym[s].tri
      chosen == sym_is_choice_value(s) /\ v = 2
      c == ChoiceOf[s]
      set == [st EXCEPT !.sym = [x \in Symbols |->
               CASE x = s -> [st.sym[x] EXCEPT !.du = TRUE, !.ut = v]
                 [] x # s /\ chosen /\ x = c -> [st.sym[x] EXCEPT !.du = TRUE, !.uv = s]
                 [] x # s /\ chosen /\ ChoiceOf[x] = c /\ st.sym[x].vis # 0 ->
                      [st.sym[x] EXCEPT !.du = TRUE]
                 [] OTHER -> st.sym[x]]]
  IN IF old # v /\ ~sym_tristate_within_range(st, s, v) THEN [ok |-> FALSE, st |-> st]
     ELSE [ok |-> TRUE, st |-> IF old # v THEN sym_clear_all_valid(set) ELSE set]

(* n, m, y, n, ... until one is accepted or the round is complete.         *)
RECURSIVE Toggle(_, _, _, _)
Toggle(st, s, old, v) ==
  LET new == (v + 1) % 3
  IN IF sym_tristate_within_range(st, s, new) \/ new = old THEN sym_set_tristate_value(st, s, new).st
     ELSE Toggle(st, s, old, new)
sym_toggle_tristate_value(st, s) == Toggle(st, s, st.sym[s].tri, st.sym[s].tri)

(* Texts of numbers; a text that is none is refused before its range.      *)
sym_string_valid(s, t) == SymType[s] # "int" \/ Parsed[t].dec # NaN
BelowHi(r, n) == [st |-> r.st, ok |-> n <= r.v]
AboveLo(r, s, n) == IF n < r.v THEN [st |-> r.st, ok |-> FALSE]
                    ELSE BelowHi(sym_get_range_val(r.st, Ranges[s].hi), n)
Within(r, s, n) == IF r.v = 0 THEN [st |-> r.st, ok |-> TRUE]
                   ELSE AboveLo(sym_get_range_val(r.st, Ranges[s].lo), s, n)
sym_string_within_range(st, s, t) ==
  IF ~sym_string_valid(s, t) THEN [st |-> st, ok |-> FALSE]
  ELSE IF SymType[s] # "int" THEN [st |-> st, ok |-> TRUE]
  ELSE Within(ActiveRange(st, s), s, Parsed[t].dec)

SetText(r, s, t) ==
  LET set == [r.st EXCEPT !.sym[s].du = TRUE, !.sym[s].uv = t]
  IN IF ~r.ok THEN r
     ELSE [ok |-> TRUE, st |-> IF r.st.sym[s].uv = t THEN set ELSE sym_clear_all_valid(set)]
sym_set_string_value(st, s, t) == SetText(sym_string_within_range(st, s, t), s, t)

(* The value the symbol would have without the user's, as savedefconfig    *)
(* compares it: [st, v].                                                   *)
TruthDefault(r, s, cond) ==
  LET x == r.st.sym[s]
      sel == OrT(AndT(r.v, cond), x.rev)
      up == IF sel = 1 /\ (SymType[s] = "bool"
                           \/ (~sym_is_choice_value(s) /\ r.st.sym[modules_sym].tri = 0))
            THEN 2 ELSE sel
  IN [st |-> r.st, v |-> CASE OrT(up, x.imp) = 0 -> "n" [] OrT(up, x.imp) = 1 -> "m" [] OTHER -> "y"]
StringDefault(d, s) ==
  CASE SymType[s] \in Truth -> TruthDefault(DefaultValue(d, s), s, d.v)
    [] SymType[s] \notin Truth /\ d.i = 0 -> [st |-> d.st, v |-> ""]
    [] OTHER -> LET x == Defaults[s][d.i].e.s IN DefaultText(sym_calc_value(d.st, x), x)
sym_get_string_default(st, s) ==
  StringDefault(sym_get_default_prop(sym_calc_value(sym_calc_visibility(st, s), modules_sym), s, 1), s)
=============================================================================
