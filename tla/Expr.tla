-------------------------------- MODULE Expr --------------------------------
(***************************************************************************)
(* The expression evaluator of the NEMU debugger                           *)
(* (src/nemu/src/monitor/sdb/expr.c) and the generator of its test input   *)
(* (src/nemu/tools/gen-expr/gen-expr.c), as functions of the input.        *)
(*                                                                         *)
(* The input is a sequence of lexemes, the matches of the regular          *)
(* expressions in rules[]: a lexeme is [type, val], the type written as    *)
(* the operator itself, "NUM", "HEX", "REG", " " (spaces) or "bad" (no     *)
(* rule matches), val the number or the number of the register.  The value *)
(* of an expression is a word of W bits, or Panic when the code calls      *)
(* panic().                                                                *)
(***************************************************************************)
EXTENDS Integers, Sequences

CONSTANTS W,      \* bits of word_t
          Regs,   \* what isa_reg_str2val answers: register number -> word
          Mem     \* what vaddr_read(a, 4) answers: address -> word

Panic == -1
Word == 0..(2^W - 1)
ToWord(x) == x % 2^W
Signed(x) == IF x >= 2^(W-1) THEN x - 2^W ELSE x
Truth(b) == IF b THEN 1 ELSE 0

(* C's division, which truncates towards zero.                             *)
Quot(a, b) ==
  LET abs(x) == IF x < 0 THEN -x ELSE x
      q == abs(a) \div abs(b)
  IN IF (a < 0) = (b < 0) THEN q ELSE -q

Lexeme(ty) == [type |-> ty, val |-> 0]
Binary == {"+", "-", "*", "/", "==", "!=", "<", "<=", ">", ">=", "&&", "||"}
INT_MAX == 99

(* get_operator_priority                                                   *)
Priority(type) ==
  CASE type = "||" -> 0
    [] type = "&&" -> 1
    [] type \in {"==", "!="} -> 2
    [] type \in {"<", "<=", ">", ">="} -> 3
    [] type \in {"+", "-"} -> 4
    [] type \in {"*", "/"} -> 5
    [] type \in {"NEG", "PTR"} -> 6
    [] OTHER -> INT_MAX

(* The binary operators of the switch in eval, on words.                   *)
Apply(op, a, b) ==
  CASE op = "+" -> ToWord(a + b)
    [] op = "-" -> ToWord(a - b)
    [] op = "*" -> ToWord(a * b)
    [] op = "/" -> IF b = 0 THEN Panic ELSE ToWord(Quot(Signed(a), Signed(b)))
    [] op = "==" -> Truth(a = b)
    [] op = "!=" -> Truth(a /= b)
    [] op = "<" -> Truth(a < b)
    [] op = "<=" -> Truth(a <= b)
    [] op = ">" -> Truth(a > b)
    [] op = ">=" -> Truth(a >= b)
    [] op = "&&" -> Truth(a /= 0 /\ b /= 0)
    [] op = "||" -> Truth(a /= 0 \/ b /= 0)
    [] OTHER -> Panic

(* A value token; anything else falls through the tests on its type.       *)
IsValue(t) == t.type \in {"NUM", "HEX", "REG"}
TokenValue(t) ==
  IF t.type # "REG" THEN ToWord(t.val)
  ELSE IF t.val \in DOMAIN Regs THEN Regs[t.val] ELSE Panic

(* The tokens before which a minus sign or a star is an operator of one    *)
(* operand; "START" stands for nr_token == 0.                              *)
Prefix == {"START", "(", "NEG", "-", "+", "*", "/"}
PrevType(toks) == IF toks = <<>> THEN "START" ELSE toks[Len(toks)].type

(* How many minus signs stand at the head of the input, with no space.     *)
MinusRun(e) ==
  CHOOSE k \in 1..Len(e) :
    /\ \A i \in 1..k : e[i].type = "-"
    /\ k = Len(e) \/ e[k+1].type # "-"

Done(status, toks) == [status |-> status, tokens |-> toks]

RECURSIVE Scan(_, _)
Scan(e, toks) ==
  IF e = <<>> THEN Done("ok", toks)
  ELSE LET t == Head(e)
           prev == PrevType(toks)
           n == MinusRun(e)
           sign == Lexeme(IF n % 2 = 0 THEN "POS" ELSE "NEG")
       IN CASE t.type = "bad" -> Done("fail", toks)
            [] t.type = " " -> Scan(Tail(e), toks)
            [] t.type = "NUM" /\ prev = "/" /\ t.val = 0 -> Done("panic", toks)
            [] t.type = "-" /\ prev \in Prefix ->
                 Scan(SubSeq(e, n + 1, Len(e)), Append(toks, sign))
            [] t.type = "*" /\ prev \in Prefix ->
                 Scan(Tail(e), Append(toks, Lexeme("PTR")))
            [] OTHER -> Scan(Tail(e), Append(toks, t))

make_token(e) == Scan(e, <<>>)

(* The depth of parentheses after tokens p..i.                             *)
Layer(toks, p, i) ==
  LET Count(ty) == {j \in p..i : toks[j].type = ty}
      Size(S) == Len(SelectSeq([j \in 1..i |-> j], LAMBDA j : j \in S))
  IN Size(Count("(")) - Size(Count(")"))

(* check_parentheses.  The loop starts at depth 1, so the depth is 0 at a   *)
(* bracket before q, which returns, before it can be negative.             *)
check_parentheses(toks, p, q) ==
  LET closes == {i \in p..(q - 1) : toks[i].type = ")" /\ Layer(toks, p, i) = 0}
  IN IF toks[p].type # "(" \/ toks[q].type # ")" \/ closes # {}
     THEN "NOT_ENCLOSED"
     ELSE IF Layer(toks, p, q) = 0 THEN "ENCLOSED" ELSE "NOT_MATCHED"

(* find_main_operator: the last token of least priority outside brackets,  *)
(* numbers included (INT_MAX), minus signs left out.  0: none (-1 in C).   *)
Candidates(toks, p, q) ==
  {i \in p..q : /\ toks[i].type \notin {"(", ")", "NEG"}
                /\ Layer(toks, p, i) = 0}

(* Faulty variant: the first of least priority (<= written as <).          *)
find_main_operator_first(toks, p, q) ==
  LET C == Candidates(toks, p, q)
      least == {i \in C : \A j \in C : Priority(toks[i].type) <= Priority(toks[j].type)}
  IN IF C = {} THEN 0 ELSE CHOOSE i \in least : \A j \in least : i <= j

find_main_operator(toks, p, q) ==
  LET C == Candidates(toks, p, q)
      least == {i \in C : \A j \in C : Priority(toks[i].type) <= Priority(toks[j].type)}
  IN IF C = {} THEN 0 ELSE CHOOSE i \in least : \A j \in least : j <= i

RECURSIVE eval(_, _, _)

Unary(op, v) ==
  CASE v = Panic -> Panic
    [] op = "NEG" -> ToWord(-v)
    [] op = "POS" -> v
    [] op = "PTR" -> IF v \in DOMAIN Mem THEN Mem[v] ELSE Panic
    [] OTHER -> Panic

(* A range with its main operator at op.  A sign and a number at the start *)
(* of the range return at once, whatever follows.                          *)
Split(toks, p, q, op) ==
  IF op = p THEN Unary(toks[op].type, eval(toks, op + 1, q))
  ELSE IF toks[p].type \in {"NEG", "POS"} /\ toks[p+1].type = "NUM"
       THEN Unary(toks[p].type, ToWord(toks[p+1].val))
  ELSE IF op = 0 THEN Panic
  ELSE LET a == eval(toks, p, op - 1)
           b == eval(toks, op + 1, q)
       IN IF a = Panic \/ b = Panic THEN Panic ELSE Apply(toks[op].type, a, b)

eval(toks, p, q) ==
  IF p > q THEN Panic
  ELSE IF p = q THEN IF IsValue(toks[p]) THEN TokenValue(toks[p]) ELSE 0
  ELSE LET status == check_parentheses(toks, p, q)
       IN CASE status = "ENCLOSED" -> eval(toks, p + 1, q - 1)
            [] status = "NOT_MATCHED" -> Panic
            [] OTHER -> Split(toks, p, q, find_main_operator(toks, p, q))

(* expr: success and the value.  An empty input is the range 0..-1.        *)
expr(e) ==
  LET r == make_token(e)
  IN CASE r.status = "fail" -> [success |-> FALSE, val |-> 0]
       [] r.status = "panic" -> [success |-> TRUE, val |-> Panic]
       [] OTHER -> [success |-> TRUE, val |-> eval(r.tokens, 1, Len(r.tokens))]
=============================================================================
