------------------------------- MODULE KconfExpr -------------------------------
(***************************************************************************)
(* Dependency expressions of Kconfig (nemu/tools/kconfig/expr.c): their    *)
(* value, the simplifications menu.c applies to them, and their text.  An  *)
(* expression is a tree; NULL is [k |-> "none"].  A symbol is a name; the  *)
(* constants y, m and n are names too.  Tristates are 0 (n), 1 (m), 2 (y). *)
(***************************************************************************)
EXTENDS Integers, Sequences, SequencesExt

CONSTANTS SymType,   \* type of each symbol: "bool", "tristate", "int", "hex", "string", "unknown"
          Rank,      \* position of a text in the order of strcmp
          Parsed     \* what strtoll and strtoull make of a text, by base

None == [k |-> "none"]
Sym(s) == [k |-> "sym", s |-> s]
Not(e) == [k |-> "not", e |-> e]
Cmp(op, s, t) == [k |-> "cmp", op |-> op, s |-> s, t |-> t]
Two(k, a, b) == [k |-> k, a |-> a, b |-> b]
Logical == {"and", "or"}
IsSym(e, s) == e.k = "sym" /\ e.s = s
IsCmp(e, op, t) == e.k = "cmp" /\ e.op = op /\ e.t = t
expr_is_yes(e) == e.k = "none" \/ IsSym(e, "y")

-----------------------------------------------------------------------------
(* The number a text stands for, read as a value of the type; NaN if the   *)
(* reading fails, and then texts are compared.                             *)
NaN == -1000
TristateOf(str) == CASE str = "n" -> 0 [] str = "m" -> 1 [] str = "y" -> 2 [] OTHER -> -1
expr_parse_string(str, type) ==
  CASE type \in {"bool", "tristate"} -> TristateOf(str)
    [] type = "int" -> Parsed[str].dec
    [] type = "hex" -> Parsed[str].hex
    [] OTHER -> Parsed[str].auto

Compared(op, d) == CASE op = "=" -> d = 0  [] op = "!=" -> d # 0
                     [] op = ">=" -> d >= 0 [] op = ">" -> d > 0
                     [] op = "<=" -> d <= 0 [] op = "<" -> d < 0
Tri(b) == IF b THEN 2 ELSE 0
AndT(a, b) == IF a < b THEN a ELSE b
OrT(a, b) == IF a > b THEN a ELSE b

(* The comparison of two symbols with the given texts.                     *)
CompareSyms(op, s, t, str1, str2) ==
  LET texts == SymType[s] = "string" /\ SymType[t] = "string"
      n1 == IF texts THEN NaN ELSE expr_parse_string(str1, SymType[s])
      n2 == IF texts THEN NaN ELSE expr_parse_string(str2, SymType[t])
  IN Tri(Compared(op, IF n1 = NaN \/ n2 = NaN THEN Rank[str1] - Rank[str2] ELSE n1 - n2))

(* tri and str hold the current values of the symbols.                     *)
RECURSIVE expr_calc_value(_, _, _)
expr_calc_value(e, tri, str) ==
  CASE e.k = "none" -> 2
    [] e.k = "sym" -> tri[e.s]
    [] e.k = "and" -> AndT(expr_calc_value(e.a, tri, str), expr_calc_value(e.b, tri, str))
    [] e.k = "or" -> OrT(expr_calc_value(e.a, tri, str), expr_calc_value(e.b, tri, str))
    [] e.k = "not" -> 2 - expr_calc_value(e.e, tri, str)
    [] e.k = "cmp" -> CompareSyms(e.op, e.s, e.t, str[e.s], str[e.t])

-----------------------------------------------------------------------------
(* expr && n, expr || y and their like, at every level.                    *)
RECURSIVE expr_eliminate_yn(_)
expr_eliminate_yn(e) ==
  IF e.k \notin Logical THEN e
  ELSE LET a == expr_eliminate_yn(e.a)  b == expr_eliminate_yn(e.b)
           absorbs == IF e.k = "and" THEN "n" ELSE "y"
           neutral == IF e.k = "and" THEN "y" ELSE "n"
       IN CASE IsSym(a, absorbs) -> Sym(absorbs)
            [] IsSym(a, neutral) -> b
            [] ~IsSym(a, absorbs) /\ ~IsSym(a, neutral) /\ IsSym(b, absorbs) -> Sym(absorbs)
            [] ~IsSym(a, absorbs) /\ ~IsSym(a, neutral) /\ IsSym(b, neutral) -> a
            [] OTHER -> Two(e.k, a, b)

(* The operands at one level of && or ||, numbered from the left, and the  *)
(* tree with one of them replaced.                                         *)
RECURSIVE Leaves(_, _)
Leaves(type, e) == IF e.k = type THEN Leaves(type, e.a) \o Leaves(type, e.b) ELSE <<e>>
RECURSIVE Rebuild(_, _, _)
Rebuild(type, e, ls) ==
  IF e.k # type THEN Head(ls)
  ELSE LET n == Len(Leaves(type, e.a))
       IN Two(type, Rebuild(type, e.a, SubSeq(ls, 1, n)), Rebuild(type, e.b, SubSeq(ls, n + 1, Len(ls))))

(* All pairs <<i, j>>, i changing slowest.                                 *)
PairsOf(n, m) == [k \in 1..(n * m) |-> <<((k - 1) \div m) + 1, ((k - 1) % m) + 1>>]
Neutral(type) == Sym(IF type = "and" THEN "y" ELSE "n")

RECURSIVE expr_eq(_, _), expr_eliminate_eq(_, _)
(* Operands of the two that are equal are both replaced by the neutral     *)
(* constant.                                                               *)
EliminateOne(type, st, i, j) ==
  IF \/ st[1][i] = st[2][j] /\ (IsSym(st[1][i], "y") \/ IsSym(st[1][i], "n"))
     \/ ~expr_eq(st[1][i], st[2][j])
  THEN st
  ELSE <<[st[1] EXCEPT ![i] = Neutral(type)], [st[2] EXCEPT ![j] = Neutral(type)]>>
RebuildBoth(type, e1, e2, r) == <<Rebuild(type, e1, r[1]), Rebuild(type, e2, r[2])>>
EliminateEq(type, e1, e2) ==
  RebuildBoth(type, e1, e2,
    FoldLeft(LAMBDA st, p : EliminateOne(type, st, p[1], p[2]), <<Leaves(type, e1), Leaves(type, e2)>>,
             PairsOf(Len(Leaves(type, e1)), Len(Leaves(type, e2)))))

EliminateAt1(e1, e2) == IF e1.k \in Logical THEN EliminateEq(e1.k, e1, e2) ELSE <<e1, e2>>
EliminateAt2(p) ==
  IF p[1].k # p[2].k /\ p[2].k \in Logical THEN EliminateEq(p[2].k, p[1], p[2]) ELSE p
EliminateYn(p) == <<expr_eliminate_yn(p[1]), expr_eliminate_yn(p[2])>>
expr_eliminate_eq(e1, e2) ==
  IF e1.k = "none" \/ e2.k = "none" THEN <<e1, e2>>
  ELSE EliminateYn(EliminateAt2(EliminateAt1(e1, e2)))

SameSym(r) == r[1].k = "sym" /\ r[1] = r[2]
expr_eq(e1, e2) ==
  CASE e1.k = "none" \/ e2.k = "none" -> expr_is_yes(e1) /\ expr_is_yes(e2)
    [] e1.k # "none" /\ e2.k # "none" /\ e1.k # e2.k -> FALSE
    [] e1.k = e2.k /\ e1.k \in {"cmp", "sym"} -> e1 = e2
    [] e1.k = e2.k /\ e1.k = "not" -> expr_eq(e1.e, e2.e)
    [] e1.k = e2.k /\ e1.k \in Logical -> SameSym(expr_eliminate_eq(e1, e2))

-----------------------------------------------------------------------------
(* The symbol a simple operand is about; the second operand of a join may  *)
(* only negate a symbol.                                                   *)
Subject(e) == CASE e.k \in {"cmp", "sym"} -> e.s
                [] e.k = "not" -> e.e.s
Equality(e) == e.k = "cmp" /\ e.op \in {"=", "!="}
Simple1(e) == \/ Equality(e) \/ e.k = "sym"
              \/ e.k = "not" /\ (Equality(e.e) \/ e.e.k = "sym")
Simple2(e) == \/ Equality(e) \/ e.k = "sym"
              \/ e.k = "not" /\ e.e.k = "sym"
Joinable(e1, e2) == /\ Simple1(e1) /\ Simple2(e2)
                    /\ Subject(e1) = Subject(e2)
                    /\ SymType[Subject(e1)] \in {"bool", "tristate"}
Const == {"y", "m", "n"}
BothCmp(e1, e2, op) == e1.k = "cmp" /\ e2.k = "cmp" /\ e1.op = op /\ e2.op = op
                       /\ {e1.t, e2.t} \subseteq Const /\ e1.t # e2.t
Third(e1, e2) == CHOOSE c \in Const : c \notin {e1.t, e2.t}
EitherWay(P(_, _), e1, e2) == P(e1, e2) \/ P(e2, e1)

(* e1 || e2 and e1 && e2 as one operand, or None.                          *)
expr_join_or(e1, e2) ==
  LET s == Subject(e1)
      Complement(x, y) == x.k = "not" /\ x.e.k = "sym" /\ y.k = "sym"
  IN IF expr_eq(e1, e2) THEN e1
     ELSE IF ~Joinable(e1, e2) THEN None
     ELSE CASE SymType[s] = "tristate" /\ BothCmp(e1, e2, "=") -> Cmp("!=", s, Third(e1, e2))
            [] SymType[s] = "bool" /\ EitherWay(Complement, e1, e2) -> Sym("y")
            [] OTHER -> None

expr_join_and(e1, e2) ==
  LET s == Subject(e1)
      With(op, c) == LET P(x, y) == x.k = "sym" /\ IsCmp(y, op, c) IN EitherWay(P, e1, e2)
      Contrast(x, y) == x.k = "cmp" /\ y.k = "cmp" /\ x.op = "=" /\ y.op = "!="
                        /\ {x.t, y.t} \subseteq Const
      eq == IF e1.k = "cmp" /\ e1.op = "=" THEN e1 ELSE e2
  IN IF expr_eq(e1, e2) THEN e1
     ELSE IF ~Joinable(e1, e2) THEN None
     ELSE CASE With("=", "y") \/ With("!=", "m") -> Cmp("=", s, "y")
            [] With("!=", "n") -> Sym(s)
            [] SymType[s] = "tristate" /\ EitherWay(Contrast, e1, e2) ->
                 IF e1.t # e2.t THEN eq ELSE Sym("n")
            [] SymType[s] = "tristate" /\ BothCmp(e1, e2, "!=") -> Cmp("=", s, Third(e1, e2))
            [] OTHER -> None

(* Every ordered pair of operands of one level is joined if it can be, the *)
(* levels below e1 first; n counts the changes.                            *)
RECURSIVE expr_eliminate_dups1(_, _)
Joined(type, st, i, j, d, join) ==
  IF join = None THEN [l |-> [st.l EXCEPT ![i] = d.e], n |-> st.n + d.n]
  ELSE [l |-> [st.l EXCEPT ![i] = Neutral(type), ![j] = join], n |-> st.n + d.n + 1]
JoinAfter(type, st, i, j, d) ==
  Joined(type, st, i, j, d,
         IF type = "or" THEN expr_join_or(d.e, st.l[j]) ELSE expr_join_and(d.e, st.l[j]))
JoinOne(type, st, i, j) ==
  IF i = j THEN st
  ELSE JoinAfter(type, st, i, j, IF st.l[i].k \in Logical THEN expr_eliminate_dups1(st.l[i].k, st.l[i])
                                 ELSE [e |-> st.l[i], n |-> 0])
RebuildOne(type, e, r) == [e |-> Rebuild(type, e, r.l), n |-> r.n]
expr_eliminate_dups1(type, e) ==
  RebuildOne(type, e,
    FoldLeft(LAMBDA st, p : JoinOne(type, st, p[1], p[2]), [l |-> Leaves(type, e), n |-> 0],
             PairsOf(Len(Leaves(type, e)), Len(Leaves(type, e)))))

RECURSIVE expr_eliminate_dups(_)
DupsAgain(r) == IF r.n = 0 THEN r.e ELSE expr_eliminate_dups(expr_eliminate_yn(r.e))
expr_eliminate_dups(e) == IF e.k \notin Logical THEN e ELSE DupsAgain(expr_eliminate_dups1(e.k, e))

-----------------------------------------------------------------------------
Negated == [op \in {"=", "!=", "<=", ">", ">=", "<"} |->
              CASE op = "=" -> "!=" [] op = "!=" -> "=" [] op = "<=" -> ">"
                [] op = ">" -> "<=" [] op = ">=" -> "<" [] op = "<" -> ">="]

(* Comparisons of a boolean symbol with a constant.                        *)
TransformCmp(e) ==
  IF SymType[e.s] # "bool" \/ ~Equality(e) \/ e.t \notin Const THEN e
  ELSE CASE e.t = "m" -> Sym(IF e.op = "=" THEN "n" ELSE "y")
         [] e.t = (IF e.op = "=" THEN "n" ELSE "y") -> Not(Sym(e.s))
         [] OTHER -> Sym(e.s)

(* Faulty variant: the operator stays when a negation moves inwards.       *)
RECURSIVE TransformNot_keep(_)
TransformNot_keep(e) ==
  CASE e.k = "cmp" -> [e EXCEPT !.op = Negated[e.op]]
    [] e.k \in Logical -> Two(e.k, TransformNot_keep(e.a), TransformNot_keep(e.b))
    [] OTHER -> Not(e)

RECURSIVE expr_transform(_), TransformNot(_)
(* A negation, moved inwards, of a transformed operand.                    *)
TransformNot(e) ==
  CASE e.k = "not" -> expr_transform(e.e)
    [] e.k = "cmp" -> [e EXCEPT !.op = Negated[e.op]]
    [] e.k \in Logical -> expr_transform(Two(IF e.k = "or" THEN "and" ELSE "or", Not(e.a), Not(e.b)))
    [] e.k = "sym" /\ e.s \in Const ->
         Sym(CASE e.s = "y" -> "n" [] e.s = "m" -> "m" [] e.s = "n" -> "y")
    [] OTHER -> Not(e)
expr_transform(e) ==
  CASE e.k = "cmp" -> TransformCmp(e)
    [] e.k = "not" -> TransformNot(expr_transform(e.e))
    [] e.k \in Logical -> Two(e.k, expr_transform(e.a), expr_transform(e.b))
    [] OTHER -> e

(* FOO!=n becomes FOO where only n and not-n are told apart.               *)
RECURSIVE expr_trans_bool(_)
expr_trans_bool(e) ==
  CASE e.k \in Logical -> Two(e.k, expr_trans_bool(e.a), expr_trans_bool(e.b))
    [] e.k = "not" -> Not(expr_trans_bool(e.e))
    [] IsCmp(e, "!=", "n") /\ SymType[e.s] = "tristate" -> Sym(e.s)
    [] OTHER -> e

(* The expression compared (type is = or !=) with the constant c, y or n.  *)
RECURSIVE expr_trans_compare(_, _, _)
expr_trans_compare(e, type, c) ==
  LET Neg(x) == IF type = "!=" THEN Not(x) ELSE x
  IN CASE e.k = "none" -> Neg(Sym(c))
       [] e.k \in Logical ->
            Neg(Two(IF c = "y" THEN e.k ELSE IF e.k = "and" THEN "or" ELSE "and",
                    expr_trans_compare(e.a, "=", c), expr_trans_compare(e.b, "=", c)))
       [] e.k = "not" -> expr_trans_compare(e.e, IF type = "=" THEN "!=" ELSE "=", c)
       [] e.k = "cmp" -> IF (type = "=") = (c = "y") THEN e ELSE Not(e)
       [] e.k = "sym" -> Cmp(type, e.s, c)

RECURSIVE expr_contains_symbol(_, _)
expr_contains_symbol(e, s) ==
  CASE e.k \in Logical -> expr_contains_symbol(e.a, s) \/ expr_contains_symbol(e.b, s)
    [] e.k = "not" -> expr_contains_symbol(e.e, s)
    [] e.k = "sym" -> e.s = s
    [] e.k = "cmp" -> e.s = s \/ e.t = s
    [] OTHER -> FALSE

(* Whether e cannot be anything but n while s is n.                        *)
RECURSIVE expr_depends_symbol(_, _)
expr_depends_symbol(e, s) ==
  CASE e.k = "and" -> expr_depends_symbol(e.a, s) \/ expr_depends_symbol(e.b, s)
    [] e.k = "sym" -> e.s = s
    [] e.k = "cmp" -> e.s = s /\ ((e.op = "=" /\ e.t \in {"y", "m"}) \/ (e.op = "!=" /\ e.t = "n"))
    [] OTHER -> FALSE

-----------------------------------------------------------------------------
(* How tightly a node binds; expr_compare_type(t1, t2) > 0 when t1 binds   *)
(* tighter than t2.                                                        *)
Binding(e) == CASE e.k = "cmp" -> IF Equality(e) THEN 4 ELSE 5
                [] e.k = "not" -> 3 [] e.k = "and" -> 2 [] e.k = "or" -> 1 [] e.k = "sym" -> 6
expr_compare_type(prev, e) == prev \in 1..5 /\ Binding(e) \in 1..4 /\ prev > Binding(e)

(* The text as a sequence of tokens, as expr_print writes it inside a node *)
(* that binds as prev (0: none).                                           *)
RECURSIVE expr_print(_, _)
expr_print(e, prev) ==
  LET body == CASE e.k = "sym" -> <<e.s>>
                [] e.k = "not" -> <<"!">> \o expr_print(e.e, 3)
                [] e.k = "cmp" -> <<e.s, e.op, e.t>>
                [] e.k = "or" -> expr_print(e.a, 1) \o <<"||">> \o expr_print(e.b, 1)
                [] e.k = "and" -> expr_print(e.a, 2) \o <<"&&">> \o expr_print(e.b, 2)
  IN CASE e.k = "none" -> <<"y">>
       [] e.k # "none" /\ expr_compare_type(prev, e) -> <<"(">> \o body \o <<")">>
       [] OTHER -> body

(* The grammar of parser.y: || binds least, then &&, both to the left, ! a *)
(* single operand or comparison.  Each result is the tree and the rest.    *)
RECURSIVE ParseOr(_), ParseOrTail(_), ParseAnd(_), ParseAndTail(_), ParseUnary(_)
ParseUnary(ts) ==
  CASE Head(ts) = "!" -> LET r == ParseUnary(Tail(ts)) IN [r EXCEPT !.e = Not(@)]
    [] Head(ts) = "(" -> LET r == ParseOr(Tail(ts)) IN [r EXCEPT !.rest = Tail(@)]
    [] OTHER -> IF Len(ts) > 2 /\ ts[2] \in DOMAIN Negated
                THEN [e |-> Cmp(ts[2], ts[1], ts[3]), rest |-> SubSeq(ts, 4, Len(ts))]
                ELSE [e |-> Sym(ts[1]), rest |-> Tail(ts)]
ParseAndTail(r) ==
  IF r.rest # <<>> /\ Head(r.rest) = "&&"
  THEN LET q == ParseUnary(Tail(r.rest))
       IN ParseAndTail([e |-> Two("and", r.e, q.e), rest |-> q.rest])
  ELSE r
ParseAnd(ts) == ParseAndTail(ParseUnary(ts))
ParseOrTail(r) ==
  IF r.rest # <<>> /\ Head(r.rest) = "||"
  THEN LET q == ParseAnd(Tail(r.rest))
       IN ParseOrTail([e |-> Two("or", r.e, q.e), rest |-> q.rest])
  ELSE r
ParseOr(ts) == ParseOrTail(ParseAnd(ts))
=============================================================================
