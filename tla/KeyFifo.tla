------------------------------ MODULE KeyFifo -------------------------------
(***************************************************************************)
(* What NEMU's keyboard promises the guest: keys are read in the order in  *)
(* which they were put, each once; a read of an empty keyboard returns     *)
(* NONE; only a key for which there is no room ends the process.           *)
(***************************************************************************)
EXTENDS Naturals, Sequences

CONSTANTS Codes, NONE, Capacity

VARIABLES q, port, failed

vars == <<q, port, failed>>

Init == q = <<>> /\ port = NONE /\ failed = FALSE

Put(k) ==
  /\ ~failed /\ Len(q) < Capacity
  /\ q' = Append(q, k)
  /\ UNCHANGED <<port, failed>>

Get ==
  /\ ~failed
  /\ port' = IF q = <<>> THEN NONE ELSE Head(q)
  /\ q' = IF q = <<>> THEN q ELSE Tail(q)
  /\ UNCHANGED failed

Overflow ==
  /\ ~failed /\ Len(q) = Capacity
  /\ failed' = TRUE
  /\ UNCHANGED <<q, port>>

Next == (\E k \in Codes : Put(k)) \/ Get \/ Overflow

Spec == Init /\ [][Next]_vars
=============================================================================
