------------------------------ MODULE NpcExpr -------------------------------
(***************************************************************************)
(* The expression evaluator of the NPC debugger                            *)
(* (src/npc/csrc/monitor/sdb/expr.cpp), where it differs from NEMU's: the  *)
(* signs, the brackets paired in advance, the main operator, and the       *)
(* evaluation with one explicit stack, whose "result" survives an operand  *)
(* that yields nothing.                                                    *)
(***************************************************************************)
EXTENDS Expr

(* An even run of minus signs leaves the loop over the rules one rule      *)
(* further (continue), so only these lexemes can follow it.                *)
AfterMinus == {"*", "/", "HEX", "NUM", "(", ")", "<", ">", "REG"}

RECURSIVE npc_Scan(_, _)
npc_Scan(e, toks) ==
  IF e = <<>> THEN Done("ok", toks)
  ELSE LET t == Head(e)
           prefix == PrevType(toks) \in Prefix
           n == MinusRun(e)
           rest == SubSeq(e, n + 1, Len(e))
       IN CASE t.type = "bad" -> Done("fail", toks)
            [] t.type = " " -> npc_Scan(Tail(e), toks)
            [] t.type = "-" /\ prefix /\ n % 2 = 1 ->
                 npc_Scan(rest, Append(toks, Lexeme("NEG")))
            [] t.type = "-" /\ prefix /\ n % 2 = 0 ->
                 IF rest # <<>> /\ Head(rest).type \in AfterMinus
                 THEN npc_Scan(rest, toks) ELSE Done("fail", toks)
            [] t.type = "*" /\ prefix ->
                 npc_Scan(Tail(e), Append(toks, Lexeme("PTR")))
            [] OTHER -> npc_Scan(Tail(e), Append(toks, t))

(* The pre-check with a stack of open brackets.                            *)
(* Faulty variant: a closing bracket with nothing open is let through.     *)
Paired_end(toks) == Layer(toks, 1, Len(toks)) = 0
Paired(toks) ==
  /\ \A i \in 1..Len(toks) : Layer(toks, 1, i) >= 0
  /\ Layer(toks, 1, Len(toks)) = 0

(* paren_pairs[l]: the first bracket behind l that brings the depth back.  *)
Pair(toks, l) ==
  CHOOSE r \in l..Len(toks) :
    Layer(toks, l, r) = 0 /\ \A i \in l..(r - 1) : Layer(toks, l, i) > 0

npc_make_token(e) ==
  LET r == npc_Scan(e, <<>>)
  IN IF r.status = "ok" /\ ~Paired(r.tokens) THEN Done("fail", r.tokens) ELSE r

Operators == Binary \cup {"!", "NEG", "PTR"}

(* The operators outside brackets whose priority is below INT_MAX.         *)
npc_Candidates(toks, p, q) ==
  {i \in p..q : /\ toks[i].type \in Operators
                /\ Priority(toks[i].type) < INT_MAX
                /\ Layer(toks, p, i) = 0}

npc_find_main_operator(toks, p, q) ==
  LET C == npc_Candidates(toks, p, q)
      least == {i \in C : \A j \in C : Priority(toks[i].type) <= Priority(toks[j].type)}
  IN IF C = {} THEN 0 ELSE CHOOSE i \in least : \A j \in least : i <= j

(* The stages of a frame; r is the variable result when it is entered.     *)
RECURSIVE npc_eval(_, _, _, _)
npc_eval(toks, p, q, r) ==
  IF p > q THEN Panic
  ELSE IF toks[p].type = "(" /\ toks[q].type = ")" /\ Pair(toks, p) = q
       THEN npc_eval(toks, p + 1, q - 1, r)
  ELSE LET op == npc_find_main_operator(toks, p, q)
           a == npc_eval(toks, p, op - 1, r)
           b == npc_eval(toks, op + 1, q, a)
       IN CASE op = 0 -> IF IsValue(toks[p]) THEN TokenValue(toks[p]) ELSE r
            [] op # 0 /\ toks[op].type \in {"NEG", "PTR"} ->
                 Unary(toks[op].type, npc_eval(toks, op + 1, q, r))
            [] OTHER -> IF a = Panic \/ b = Panic THEN Panic
                        ELSE Apply(toks[op].type, a, b)

npc_expr(e) ==
  LET t == npc_make_token(e)
  IN IF t.status # "ok" THEN [success |-> FALSE, val |-> 0]
     ELSE [success |-> TRUE, val |-> npc_eval(t.tokens, 1, Len(t.tokens), 0)]
=============================================================================
