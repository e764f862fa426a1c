------------------------------ MODULE MCSdHost ------------------------------
EXTENDS SdHost
Req(op, arg, d, stop, sbc) == [op |-> op, arg |-> arg, data |-> d, stop |-> stop, sbc |-> sbc]
Data(dir, n, size, s, seed) == [dir |-> dir, blocks |-> n, size |-> size, sg |-> s, seed |-> seed]
(* The commands of card set-up, transfers with and without CMD23, with     *)
(* buffers that are long enough or one word short, unusable block sizes    *)
(* and a command the card does not know.                                   *)
MCRequests ==
  {Req(op, 0, NoData, FALSE, FALSE) : op \in {"CID", "STATUS", "SELECT", "17"}}
  \cup {Req("EXT_CSD", 0, Data("read", 1, K, K, 0), FALSE, FALSE)}
  \cup {Req("READ", a, Data("read", n, K, n * K - short, 0), TRUE, sbc) :
          a \in 0..1, n \in 1..2, short \in 0..1, sbc \in BOOLEAN}
  \cup {Req("WRITE", a, Data("write", n, K, n * K - short, 50), TRUE, sbc) :
          a \in 0..1, n \in 1..2, short \in 0..1, sbc \in BOOLEAN}
  \cup {Req("READ", 0, Data("read", 1, size, K, 0), TRUE, FALSE) : size \in {0, -1}}
=============================================================================
