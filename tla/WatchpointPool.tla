--------------------------- MODULE WatchpointPool ---------------------------
(***************************************************************************)
(* The watchpoint pool of the debugger: an array of entries threaded on    *)
(* two singly linked lists, the active entries from head and the idle ones *)
(* from free_.  delete_wp searches the list, unlinks the entry and calls   *)
(* free_wp, which searches the list again for an entry that is no longer   *)
(* in it.  One step is one iteration of a loop or one straight piece of    *)
(* code, so the states between the two list updates are visible.           *)
(***************************************************************************)
EXTENDS Integers, SequencesExt

CONSTANTS NR_WP, NULL

ASSUME NR_WPAssumption == NR_WP \in Nat \ {0} /\ NULL \notin 0 .. NR_WP - 1

WP == 0 .. NR_WP - 1     \* &wp_pool[i], which is also its NO

VARIABLES
  head, free_,   \* the two lists
  next,          \* next[w]: the member next of entry w
  strdup,        \* strdup[w]: w owns an expression string
  pc,            \* where delete_wp is; "idle": no call is running
  wp, prev, no   \* locals of delete_wp and free_wp

lists  == <<head, free_, next>>
locals == <<pc, wp, prev, no>>
vars   == <<lists, strdup, locals>>

Ptr == WP \cup {NULL}

init_wp_pool ==
  /\ next = [w \in WP |-> IF w = NR_WP - 1 THEN NULL ELSE w + 1]
  /\ head = NULL /\ free_ = 0

Init ==
  /\ init_wp_pool
  /\ strdup = [w \in WP |-> FALSE]
  /\ pc = "idle" /\ wp = NULL /\ prev = NULL /\ no = -1

-----------------------------------------------------------------------------
new_wp ==
  /\ free_' = next[free_]
  /\ next' = [next EXCEPT ![free_] = head]
  /\ head' = free_

(* add_wp; without an idle entry the Assert of new_wp ends the process. *)
add_wp ==
  /\ pc = "idle"
  /\ IF free_ = NULL
       THEN pc' = "dead" /\ UNCHANGED <<lists, strdup>>
       ELSE new_wp /\ strdup' = [strdup EXCEPT ![free_] = TRUE] /\ UNCHANGED pc
  /\ UNCHANGED <<wp, prev, no>>

delete_wp(k) ==
  /\ pc = "idle"
  /\ IF k < NR_WP
       THEN pc' = "search" /\ wp' = head /\ prev' = NULL /\ no' = k
       ELSE pc' = "dead" /\ UNCHANGED <<wp, prev, no>>
  /\ UNCHANGED <<lists, strdup>>

not_found == pc = "search" /\ wp = NULL /\ pc' = "idle" /\ UNCHANGED <<lists, strdup, wp, prev, no>>

advance ==
  /\ pc = "search" /\ wp # NULL /\ wp # no
  /\ prev' = wp /\ wp' = next[wp]
  /\ UNCHANGED <<lists, strdup, pc, no>>

(* Faulty variant: always unlinks from the head. *)
unlink_head ==
  /\ pc = "search" /\ wp # NULL /\ wp = no
  /\ head' = next[wp]
  /\ pc' = "free"
  /\ UNCHANGED <<next, free_, strdup, wp, prev, no>>

unlink ==
  /\ pc = "search" /\ wp # NULL /\ wp = no
  /\ IF prev = NULL
       THEN head' = next[wp] /\ UNCHANGED next
       ELSE next' = [next EXCEPT ![prev] = next[wp]] /\ UNCHANGED head
  /\ pc' = "free"
  /\ UNCHANGED <<free_, strdup, wp, prev, no>>

(* free_wp: take wp off the list it may be on. *)
free_wp ==
  /\ pc = "free"
  /\ IF head = wp
       THEN head' = next[head] /\ pc' = "push" /\ UNCHANGED prev
       ELSE prev' = head /\ pc' = "find" /\ UNCHANGED head
  /\ UNCHANGED <<next, free_, strdup, wp, no>>

find_prev ==
  /\ pc = "find" /\ prev # NULL /\ next[prev] # wp
  /\ prev' = next[prev]
  /\ UNCHANGED <<lists, strdup, pc, wp, no>>

found_prev ==
  /\ pc = "find" /\ (prev # NULL => next[prev] = wp)
  /\ next' = IF prev = NULL THEN next ELSE [next EXCEPT ![prev] = next[wp]]
  /\ pc' = "push"
  /\ UNCHANGED <<head, free_, strdup, wp, prev, no>>

(* Faulty variant: the rest of the list of idle entries is lost. *)
push_free_lost ==
  /\ pc = "push"
  /\ strdup' = [strdup EXCEPT ![wp] = FALSE]
  /\ free_' = wp
  /\ pc' = "idle"
  /\ UNCHANGED <<next, head, wp, prev, no>>

push_free ==
  /\ pc = "push"
  /\ strdup' = [strdup EXCEPT ![wp] = FALSE]
  /\ next' = [next EXCEPT ![wp] = free_]
  /\ free_' = wp
  /\ pc' = "idle"
  /\ UNCHANGED <<head, wp, prev, no>>

Deleting ==
  not_found \/ advance \/ unlink \/ free_wp \/ find_prev \/ found_prev \/ push_free

Gone == pc = "dead" /\ UNCHANGED vars

Next == add_wp \/ (\E k \in -1 .. NR_WP : delete_wp(k)) \/ Deleting \/ Gone

(* A call of delete_wp runs to its end. *)
Spec == Init /\ [][Next]_vars /\ WF_vars(Deleting)

-----------------------------------------------------------------------------
(* The entries reached from h over nx in at most k steps; a list with a    *)
(* cycle has k + 1.                                                        *)
Walk(nx, h, k) ==
  LET at[i \in 0 .. k] ==
        IF i = 0 THEN h
        ELSE IF at[i - 1] = NULL THEN NULL ELSE nx[at[i - 1]]
  IN  [i \in 1 .. Cardinality({j \in 0 .. k : at[j] # NULL}) |-> at[i - 1]]

List(h) == Walk(next, h, NR_WP)

TypeOK ==
  /\ head \in Ptr /\ free_ \in Ptr /\ next \in [WP -> Ptr]
  /\ strdup \in [WP -> BOOLEAN]
  /\ pc \in {"idle", "search", "free", "find", "push", "dead"}
  /\ wp \in Ptr /\ prev \in Ptr /\ no \in -1 .. NR_WP - 1

(* The entry between the two lists while delete_wp works on it. *)
InHand == IF pc \in {"free", "find", "push"} THEN {wp} ELSE {}

(***************************************************************************)
(* No entry is lost and none is on two lists: the active list, the idle    *)
(* list and the entry in hand partition the pool, and both lists end.  An  *)
(* entry owns its expression string exactly while it is active or being    *)
(* freed: no string is freed twice and none leaks.                         *)
(***************************************************************************)
PoolPartition ==
  /\ Len(List(head)) + Len(List(free_)) = NR_WP - (IF InHand = {} THEN 0 ELSE 1)
  /\ ToSet(List(head)) \cup ToSet(List(free_)) \cup InHand = WP
  /\ {w \in WP : strdup[w]} = ToSet(List(head)) \cup InHand

(***************************************************************************)
(* The linked lists implement the abstract set of watchpoints: free_wp's   *)
(* second search changes nothing that the debugger can see.                *)
(***************************************************************************)
Abstract == INSTANCE WatchSet WITH active <- List(head)

ImplementsWatchSet == Abstract!Spec
=============================================================================
