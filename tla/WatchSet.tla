------------------------------ MODULE WatchSet ------------------------------
(***************************************************************************)
(* What the watchpoint pool promises to the debugger: the active           *)
(* watchpoints in the order `info w' lists them, newest first.  A new one  *)
(* gets a number no active one has; deleting one keeps the others and      *)
(* their order.                                                            *)
(***************************************************************************)
EXTENDS Integers, SequencesExt

CONSTANT NR_WP

VARIABLE active   \* sequence of watchpoint numbers, newest first

Init == active = <<>>

add_wp ==
  \E w \in 0 .. NR_WP - 1 :
    /\ ~Contains(active, w)
    /\ active' = <<w>> \o active

delete_wp ==
  \E i \in DOMAIN active : active' = RemoveAt(active, i)

Next == add_wp \/ delete_wp

Spec == Init /\ [][Next]_active
=============================================================================
