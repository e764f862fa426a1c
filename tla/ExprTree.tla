------------------------------ MODULE ExprTree ------------------------------
(***************************************************************************)
(* What an expression means in C, independently of any text, and how it is *)
(* written: syntax trees, their value as int arithmetic of W bits, and     *)
(* their lexemes with the brackets that C's precedence requires.  The      *)
(* trees without signs and comparisons are what gen_rand_expr generates.   *)
(***************************************************************************)
EXTENDS NpcExpr

Num(n) == [k |-> "num", n |-> n]
Par(t) == [k |-> "par", a |-> t]
Neg(t) == [k |-> "neg", a |-> t]
Bin(op, a, b) == [k |-> "bin", op |-> op, a |-> a, b |-> b]

(* The value of a tree, or Undef: an overflow of int, or a division by 0,  *)
(* for which the compiler rejects the test (-Werror) and main() skips it.  *)
Undef == 2^W
InInt(x) == IF x \in -(2^(W-1))..(2^(W-1) - 1) THEN x ELSE Undef

IntOp(op, a, b) ==
  CASE op = "+" -> InInt(a + b)
    [] op = "-" -> InInt(a - b)
    [] op = "*" -> InInt(a * b)
    [] op = "/" -> IF b = 0 THEN Undef ELSE InInt(Quot(a, b))
    [] op = "==" -> Truth(a = b)
    [] op = "<" -> Truth(a < b)
    [] op = "&&" -> Truth(a # 0 /\ b # 0)
    [] op = "||" -> Truth(a # 0 \/ b # 0)

RECURSIVE CValue(_)
CValue(t) ==
  CASE t.k = "num" -> t.n
    [] t.k = "par" -> CValue(t.a)
    [] t.k = "neg" -> LET v == CValue(t.a) IN IF v = Undef THEN Undef ELSE InInt(-v)
    [] OTHER -> LET a == CValue(t.a)
                    b == CValue(t.b)
                IN IF a = Undef \/ b = Undef THEN Undef ELSE IntOp(t.op, a, b)

Wrap(yes, s) == IF yes THEN <<Lexeme("(")>> \o s \o <<Lexeme(")")>> ELSE s

(* gen_rand_expr, for a given choice of tree: a number, a pair of brackets *)
(* or two expressions around an operator; "level" is the priority below    *)
(* which an operand needs brackets to stay one operand.                    *)
RECURSIVE Write(_, _)
Write(t, level) ==
  CASE t.k = "num" -> <<[type |-> "NUM", val |-> t.n]>>
    [] t.k = "par" -> Wrap(TRUE, Write(t.a, 0))
    [] t.k = "neg" -> <<Lexeme("-")>> \o Write(t.a, 7)
    [] OTHER -> LET k == Priority(t.op)
                IN Wrap(k < level, Write(t.a, k) \o <<Lexeme(t.op)>> \o Write(t.b, k + 1))

Text(t) == Write(t, 0)

(* Does some subtree satisfy P?                                            *)
RECURSIVE Has(_, _)
Has(P(_), t) ==
  \/ P(t)
  \/ t.k \in {"par", "neg"} /\ Has(P, t.a)
  \/ t.k = "bin" /\ (Has(P, t.a) \/ Has(P, t.b))

(* An operator whose left operand is, unbracketed, an operator of the same *)
(* priority: what is evaluated from the left in C.                         *)
LeftChain(t) == /\ t.k = "bin"
                /\ t.a.k = "bin"
                /\ Priority(t.a.op) = Priority(t.op)

(* The leftmost leaf of an operator's text is a signed number.             *)
RECURSIVE StartsNeg(_)
StartsNeg(t) == t.k = "neg" \/ (t.k = "bin" /\ StartsNeg(t.a))
NegFirst(t) == t.k = "bin" /\ StartsNeg(t)

(* A sign is understood in front of a number only, and not behind a        *)
(* comparison or a logical operator.                                       *)
NegOfNum(t) == t.k = "neg" => t.a.k = "num"
NegAfterLogic(t) == t.k = "bin" /\ Priority(t.op) < 4 /\ StartsNeg(t.b)
=============================================================================
