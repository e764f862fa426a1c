----------------------------- MODULE MCKeyQueue -----------------------------
(* A ring of three slots and two mapped keys.  SDL has scancodes above 255 *)
(* too: 261 is a media key.                                                *)
EXTENDS KeyQueue
MCkeymap == [s \in 0 .. 255 |-> IF s = 4 THEN 1 ELSE IF s = 5 THEN 2 ELSE 0]
=============================================================================
