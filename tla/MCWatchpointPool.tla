-------------------------- MODULE MCWatchpointPool --------------------------
(* The pool with few entries; see watchpoint_pool.cfg. *)
EXTENDS WatchpointPool
=============================================================================
