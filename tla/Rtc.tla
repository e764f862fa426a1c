-------------------------------- MODULE Rtc ---------------------------------
(***************************************************************************)
(* Reading the 64-bit clock through two 32-bit registers while it runs.    *)
(*                                                                         *)
(* NEMU's rtc_io_handler copies the time into both registers when the      *)
(* upper one is read, and the guest (__am_timer_uptime of AM's NEMU port)  *)
(* reads the upper one first.  The NPC simulator has the same handler, but *)
(* its mem_read answers loads of the two addresses itself, with the time   *)
(* of each load; AM's NPC port subtracts the time it read at start-up.     *)
(***************************************************************************)
EXTENDS Integers

CONSTANTS
  WORD,       \* 2^32
  MaxTime     \* bound: the last value of the clock

ASSUME WordAssumption == WORD \in Nat /\ WORD > 1

ASSUME ClockAssumption == MaxTime \in 0 .. WORD * WORD - 1

VARIABLES
  machine,          \* "nemu" or "npc"
  now,              \* get_time()
  port0, port1,     \* rtc_port_base[0] and [1]
  phase,            \* the guest: "boot", "ready" or "done" (a call has returned), and
                    \* "boot_low" or "low" when the lower word is still to read
  high,             \* the upper word the guest has read
  boot_time,        \* AM's NPC port: the time at __am_timer_init
  us,               \* the result of the last call
  from, to,         \* history: the clock when that call began and ended
  last_us, last_to  \* history: us and to of the last call before it that was whole;
                    \* last_to is -1 if there was none

ports == <<port0, port1>>
guest == <<phase, high, boot_time, us>>
before == <<last_us, last_to>>
vars  == <<machine, now, ports, guest, from, to, before>>

Init ==
  /\ machine \in {"nemu", "npc"}
  /\ now = 0 /\ port0 = 0 /\ port1 = 0
  /\ phase = IF machine = "npc" THEN "boot" ELSE "ready"
  /\ high = 0 /\ boot_time = 0 /\ us = 0 /\ from = 0 /\ to = 0
  /\ last_us = 0 /\ last_to = -1

(* No carry fell between the two loads of a call. *)
Whole(begin, end) == begin \div WORD = end \div WORD

tick ==
  /\ now < MaxTime
  /\ now' = now + 1
  /\ UNCHANGED <<machine, ports, guest, from, to, before>>

(* Faulty variant: the handler copies the time when the lower word is read. *)
rtc_io_handler_low(offset) ==
  IF offset = 0
    THEN port0' = now % WORD /\ port1' = now \div WORD
    ELSE UNCHANGED ports

rtc_io_handler(offset) ==
  IF offset = 4
    THEN port0' = now % WORD /\ port1' = now \div WORD
    ELSE UNCHANGED ports

(* Faulty variant: the words are swapped. *)
mem_read_swapped(offset) == IF offset = 4 THEN now % WORD ELSE now \div WORD

mem_read(offset) == IF offset = 0 THEN now % WORD ELSE now \div WORD

(* The load of the upper word, which begins a call. *)
read_high ==
  /\ \/ phase = "boot" /\ phase' = "boot_low"
     \/ phase \in {"ready", "done"} /\ phase' = "low"
  /\ \/ machine = "nemu" /\ rtc_io_handler(4) /\ high' = port1'
     \/ machine = "npc" /\ high' = mem_read(4) /\ UNCHANGED ports
  /\ from' = now
  /\ IF phase = "done" /\ Whole(from, to) THEN last_us' = us /\ last_to' = to ELSE UNCHANGED before
  /\ UNCHANGED <<machine, now, boot_time, us, to>>

(* The load of the lower word, which ends __am_timer_init (it does nothing *)
(* in the NEMU port) ...                                                   *)
timer_init ==
  /\ phase = "boot_low" /\ phase' = "ready"
  /\ boot_time' = high * WORD + mem_read(0)
  /\ to' = now /\ high' = 0
  /\ IF Whole(from, now) THEN last_us' = 0 /\ last_to' = now ELSE UNCHANGED before
  /\ UNCHANGED <<machine, now, ports, us, from>>

(* ... or __am_timer_uptime. *)
timer_uptime ==
  /\ phase = "low" /\ phase' = "done"
  /\ \/ /\ machine = "nemu" /\ rtc_io_handler(0)
        /\ us' = high * WORD + port0'
     \/ /\ machine = "npc" /\ UNCHANGED ports
        /\ us' = (high * WORD + mem_read(0) - boot_time) % (WORD * WORD)
  /\ to' = now /\ high' = 0
  /\ UNCHANGED <<machine, now, boot_time, from, before>>

Next == tick \/ read_high \/ timer_init \/ timer_uptime

Spec == Init /\ [][Next]_vars
-----------------------------------------------------------------------------
TypeOK ==
  /\ machine \in {"nemu", "npc"}
  /\ now \in 0 .. MaxTime /\ from \in 0 .. MaxTime /\ to \in 0 .. MaxTime
  /\ port0 \in 0 .. WORD - 1 /\ port1 \in 0 .. WORD - 1 /\ high \in 0 .. WORD - 1
  /\ phase \in {"boot", "boot_low", "ready", "low", "done"}
  /\ boot_time \in 0 .. MaxTime /\ us \in 0 .. WORD * WORD - 1
  /\ last_us \in 0 .. WORD * WORD - 1 /\ last_to \in -1 .. MaxTime

(***************************************************************************)
(* On NEMU the time a call returns is one the clock showed during that     *)
(* call, however long passes between its two loads: the words never belong *)
(* to different times, and so successive calls never go back.              *)
(***************************************************************************)
UptimeIsATime == machine = "nemu" /\ phase = "done" => us \in from .. to

(***************************************************************************)
(* On NPC the two words may belong to different times, in a call and in    *)
(* timer_init, whose boot_time every later call subtracts.  A call that no *)
(* carry split still tells the time gone by since the last such call: what *)
(* a torn boot_time adds is in both results, and torn calls in between     *)
(* leave nothing behind.  It counts from start-up if timer_init was whole. *)
(***************************************************************************)
UptimesAgree ==
  machine = "npc" /\ phase = "done" /\ Whole(from, to) /\ last_to # -1 => us - last_us = to - last_to
=============================================================================
