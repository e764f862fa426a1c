------------------------------ MODULE KeyQueue ------------------------------
(***************************************************************************)
(* NEMU's keyboard: SDL's event queue, the poll of it (device_update), the *)
(* ring buffer of key codes (key_enqueue, key_dequeue), the data register  *)
(* (i8042_data_io_handler) and the guest's driver (__am_input_keybrd).     *)
(*                                                                         *)
(* The user types at any time, also while the poll is under way.  The      *)
(* guest and the poll are one thread: the poll runs at the end of an       *)
(* iteration of execute(), where the state is not tested again before the  *)
(* next instruction.                                                       *)
(***************************************************************************)
EXTENDS Integers, Sequences

CONSTANTS
  KEY_QUEUE_LEN,  \* size of the ring
  KEYDOWN_MASK,   \* the bit that tells a press from a release
  keymap,         \* keymap[s]: NEMU's code of SDL scancode s, or 0
  Scancodes,      \* SDL scancodes the user's keyboard sends
  MaxEvents       \* bound: events the user causes

ASSUME RingAssumption == KEY_QUEUE_LEN \in Nat /\ KEY_QUEUE_LEN > 1

ASSUME KeyAssumption ==
  /\ KEYDOWN_MASK \in Nat \ {0}
  /\ keymap \in [0 .. 255 -> 0 .. KEYDOWN_MASK - 1]
  /\ Scancodes \subseteq Nat
  /\ MaxEvents \in Nat

NEMU_KEY_NONE == 0
Codes  == 0 .. 2 * KEYDOWN_MASK - 1
Slots  == 0 .. KEY_QUEUE_LEN - 1
Keys   == [keycode : 0 .. KEYDOWN_MASK - 1, keydown : BOOLEAN]
Events == [type : {"KEY"}, scancode : Scancodes, down : BOOLEAN]
            \cup {[type |-> "QUIT"], [type |-> "OTHER"]}

VARIABLES
  where,          \* the thread: "prompt", "guest", "poll" or "dead"
  state,          \* nemu_state.state, as far as it matters here
  sdl,            \* SDL's event queue
  key_queue, key_f, key_r,
  port,           \* i8042_data_port_base[0]
  caused,         \* events the user has caused so far
  sent,           \* history: keys send_key let through
  got             \* history: keys the guest's driver returned

ring    == <<key_queue, key_f, key_r>>
history == <<sent, got>>
vars    == <<where, state, sdl, ring, port, caused, history>>

Init ==
  /\ where = "prompt" /\ state = "STOP"
  /\ sdl = <<>> /\ caused = 0
  /\ key_queue = [k \in Slots |-> 0] /\ key_f = 0 /\ key_r = 0
  /\ port = NEMU_KEY_NONE
  /\ sent = <<>> /\ got = <<>>

-----------------------------------------------------------------------------
(* The user presses or releases a key, closes the window, moves the mouse. *)
user(e) ==
  /\ where # "dead" /\ caused < MaxEvents
  /\ sdl' = Append(sdl, e) /\ caused' = caused + 1
  /\ UNCHANGED <<where, state, ring, port, history>>

(* A debugger command that runs the guest: sdb_mainloop throws away the    *)
(* waiting events first.                                                   *)
command ==
  /\ where = "prompt"
  /\ sdl' = <<>> /\ where' = "guest" /\ state' = "RUNNING"
  /\ UNCHANGED <<ring, port, caused, history>>

Succ(k) == (k + 1) % KEY_QUEUE_LEN

(* Faulty variant: a full ring silently becomes an empty one. *)
key_enqueue_silent(code) ==
  /\ key_queue' = [key_queue EXCEPT ![key_r] = code]
  /\ key_r' = Succ(key_r)
  /\ UNCHANGED <<key_f, where>>

(* The Assert comes after the key is stored. *)
key_enqueue(code) ==
  /\ key_queue' = [key_queue EXCEPT ![key_r] = code]
  /\ key_r' = Succ(key_r)
  /\ where' = IF Succ(key_r) = key_f THEN "dead" ELSE where
  /\ UNCHANGED key_f

(* Faulty variant: presses look like releases. *)
am_scancode_nomask(code, down) == code

am_scancode(code, down) == code + (IF down THEN KEYDOWN_MASK ELSE 0)

send_key(scancode, down) ==
  IF state = "RUNNING" /\ keymap[scancode] # NEMU_KEY_NONE
    THEN /\ key_enqueue(am_scancode(keymap[scancode], down))
         /\ sent' = Append(sent, [keycode |-> keymap[scancode], keydown |-> down])
    ELSE UNCHANGED <<ring, where, sent>>

(* One turn of device_update's loop; the scancode is cut to a uint8_t. *)
poll_event ==
  /\ where = "poll" /\ sdl # <<>>
  /\ sdl' = Tail(sdl)
  /\ LET event == Head(sdl) IN
       \/ /\ event.type = "QUIT"
          /\ state' = "QUIT" /\ UNCHANGED <<ring, where, sent>>
       \/ /\ event.type = "KEY"
          /\ send_key(event.scancode % 256, event.down) /\ UNCHANGED state
       \/ /\ event.type = "OTHER"
          /\ UNCHANGED <<ring, where, sent, state>>
  /\ UNCHANGED <<port, caused, got>>

(* The queue is empty: back to the loop of execute(), which goes on        *)
(* whatever the state, or whose budget is spent.                           *)
poll_done(more) ==
  /\ where = "poll" /\ sdl = <<>>
  /\ where' = IF more THEN "guest" ELSE "prompt"
  /\ state' = IF ~more /\ state = "RUNNING" THEN "STOP" ELSE state
  /\ UNCHANGED <<sdl, ring, port, caused, history>>

-----------------------------------------------------------------------------
(* After an instruction: leave the loop when the state changed (a          *)
(* watchpoint, a trap, an earlier SDL_QUIT), else device_update, which     *)
(* polls only once in 1/TIMER_HZ s.                                        *)
AfterInst ==
  \/ /\ state # "RUNNING" /\ where' = "prompt" /\ UNCHANGED state
  \/ /\ state = "RUNNING" /\ where' = "prompt" /\ state' = "STOP"
  \/ /\ state = "RUNNING" /\ where' \in {"guest", "poll"} /\ UNCHANGED state

(* An instruction that leaves the keyboard alone. *)
other_inst ==
  /\ where = "guest" /\ AfterInst
  /\ UNCHANGED <<sdl, ring, port, caused, history>>

(* Faulty variant: an emptiness test that is off by one keeps the last key. *)
key_dequeue_keep ==
  IF key_f # key_r /\ Succ(key_f) # key_r
    THEN /\ port' = key_queue[key_f]
         /\ key_f' = Succ(key_f) /\ UNCHANGED <<key_queue, key_r>>
    ELSE port' = NEMU_KEY_NONE /\ UNCHANGED ring

key_dequeue ==
  IF key_f # key_r
    THEN /\ port' = key_queue[key_f]
         /\ key_f' = Succ(key_f) /\ UNCHANGED <<key_queue, key_r>>
    ELSE port' = NEMU_KEY_NONE /\ UNCHANGED ring

(* What __am_input_keybrd makes of the register's value. *)
Decoded(code) == [keycode |-> code % KEYDOWN_MASK, keydown |-> code >= KEYDOWN_MASK]

(* The guest reads the data register. *)
read_key ==
  /\ where = "guest" /\ AfterInst
  /\ key_dequeue
  /\ got' = IF port' = NEMU_KEY_NONE THEN got ELSE Append(got, Decoded(port'))
  /\ UNCHANGED <<sdl, caused, sent>>

(* The process is gone. *)
Dead == where = "dead" /\ UNCHANGED vars

Poll == poll_event \/ \E more \in BOOLEAN : poll_done(more)

Next ==
  \/ \E e \in Events : user(e)
  \/ command \/ Poll \/ other_inst \/ read_key \/ Dead

(***************************************************************************)
(* The thread runs whenever it can; time passes, so that again and again   *)
(* an instruction is followed by a poll; and the guest is a program that   *)
(* reads its keyboard again and again.                                     *)
(***************************************************************************)
Fairness ==
  /\ WF_vars(Poll \/ other_inst \/ read_key)
  /\ SF_vars(other_inst /\ where' = "poll")
  /\ SF_vars(read_key)

Spec == Init /\ [][Next]_vars /\ Fairness
-----------------------------------------------------------------------------
TypeOK ==
  /\ where \in {"prompt", "guest", "poll", "dead"}
  /\ state \in {"STOP", "RUNNING", "QUIT"}
  /\ sdl \in Seq(Events) /\ caused \in 0 .. MaxEvents
  /\ key_queue \in [Slots -> Codes] /\ key_f \in Slots /\ key_r \in Slots
  /\ port \in Codes
  /\ sent \in Seq(Keys) /\ got \in Seq(Keys)

(* The codes in the slots from f up to r, oldest first.  The key that      *)
(* overflows the ring never was in it.                                     *)
Dist(f, r)        == IF f <= r THEN r - f ELSE r - f + KEY_QUEUE_LEN
At(f, k)          == IF f + k < KEY_QUEUE_LEN THEN f + k ELSE f + k - KEY_QUEUE_LEN
Contents(q, f, m) == [k \in 1 .. m |-> q[At(f, k - 1)]]

Filled  == IF where = "dead" THEN KEY_QUEUE_LEN - 1 ELSE Dist(key_f, key_r)
Waiting == Contents(key_queue, key_f, Filled)

(***************************************************************************)
(* The ring implements the bounded queue of KeyFifo: no key is lost,       *)
(* doubled or overtaken, and the Assert fails exactly when a key arrives   *)
(* while KEY_QUEUE_LEN - 1 keys are waiting.                               *)
(***************************************************************************)
Fifo == INSTANCE KeyFifo WITH
  Codes <- Codes, NONE <- NEMU_KEY_NONE, Capacity <- KEY_QUEUE_LEN - 1,
  q <- Waiting, port <- port, failed <- (where = "dead")

ImplementsFifo == Fifo!Spec

(***************************************************************************)
(* From the window to the guest: what the driver has returned, and what it *)
(* will return when it goes on reading, is what send_key let through, each *)
(* key with its direction and in order.                                    *)
(***************************************************************************)
KeysInOrder ==
  where # "dead" =>
    got \o [k \in 1 .. Filled |-> Decoded(Waiting[k])] = sent

(***************************************************************************)
(* While the guest runs, every event is polled and every key is read,      *)
(* unless the run is interrupted or the ring overflows.                    *)
(***************************************************************************)
KeysArrive ==
  (where \in {"guest", "poll"} /\ (sdl # <<>> \/ key_f # key_r))
    ~> ((sdl = <<>> /\ key_f = key_r) \/ where \in {"prompt", "dead"})
=============================================================================
