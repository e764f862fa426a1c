------------------------------ MODULE NativeIoe -------------------------------
(***************************************************************************)
(* Start of the CPUs, the device registers and the keyboard of the AM on   *)
(* Linux (abstract-machine/am/src/native: mpe.c, ioe.c, ioe/input.c).      *)
(* Every CPU is a process made by fork; the variables of the program are   *)
(* mapped shared (platform.c:93), so all CPUs see one ioe_init_done.       *)
(* sync_pipe keeps the others waiting until the first is through mpe_init. *)
(* Events of SDL reach a thread of the process that initialised the        *)
(* devices, which puts keys into a ring; SDL and the program are external. *)
(* The program reads keys on the CPU whose process owns the lock, one      *)
(* reader at a time, and no interrupt takes a CPU out of mpe_init or       *)
(* __am_ioe_init (they are off from the start, platform.c:157).            *)
(***************************************************************************)
EXTENDS Integers, Sequences, FiniteSets

CONSTANTS Others,     \* the CPUs other than the first
          KeyQueueLen,
          MaxEvents   \* bound on the events of SDL

VARIABLES boot,    \* where the first CPU is in the program and in mpe_init
          other,   \* where the others are
          sync,    \* bytes in sync_pipe
          ioe,     \* __am_has_ioe, ioe_init_done, the number of initialisations,
                   \* and the CPU that made the last one
          io,      \* the CPU found the devices not initialised and does it now
          lazy,    \* history: how often it found them so
          prepared, \* history: mpe_init was called after ioe_init, no device used
          sdl,     \* events SDL has ready; a key is a number, 0 one the keymap ignores
          thread,  \* the event each event thread is at, -1 for none
          ring, key_f, key_r,
          nkeys,   \* keys 1..nkeys were pressed
          nevents,
          got,     \* the keys the program read
          full     \* the ring was overrun
vars == <<boot, other, sync, ioe, io, lazy, prepared, sdl, thread, ring, key_f, key_r,
          nkeys, nevents, got, full>>
AllCpus == Others \cup {"first"}
Start == <<boot, other, sync, prepared>>
Lazy == <<io, lazy>>
Ring == <<ring, key_f, key_r>>

Init == /\ boot = "main" /\ other = [c \in Others |-> "none"] /\ sync = 0
        /\ ioe = [has |-> FALSE, done |-> FALSE, inits |-> 0, by |-> "first"]
        /\ io = [c \in AllCpus |-> FALSE] /\ lazy = [c \in AllCpus |-> 0] /\ prepared = FALSE
        /\ sdl = <<>> /\ thread = <<>>
        /\ ring = [i \in 0..(KeyQueueLen - 1) |-> 0] /\ key_f = 0 /\ key_r = 0
        /\ nkeys = 0 /\ nevents = 0 /\ got = <<>> /\ full = FALSE

-----------------------------------------------------------------------------
Runs(c) == ~io[c] /\ IF c = "first" THEN boot \in {"main", "run"} ELSE other[c] = "run"
(* Every initialisation of the devices starts one more event thread.       *)
InitIoe(c) == /\ ioe' = [ioe EXCEPT !.done = TRUE, !.inits = @ + 1, !.by = c]
              /\ thread' = Append(thread, -1)
(* It panics on another CPU, and when the devices are initialised.         *)
ioe_init == /\ Runs("first") /\ ~ioe.done
            /\ ioe' = [ioe EXCEPT !.has = TRUE]
            /\ UNCHANGED <<Start, Lazy, sdl, thread, Ring, nkeys, nevents, got, full>>
(* Any CPU may be the first to use a device: it looks at ioe_init_done ... *)
do_io(c) == /\ Runs(c) /\ ~ioe.done
            /\ io' = [io EXCEPT ![c] = TRUE] /\ lazy' = [lazy EXCEPT ![c] = @ + 1]
            /\ UNCHANGED <<Start, ioe, sdl, thread, Ring, nkeys, nevents, got, full>>
(* ... and initialises them, whatever the others have done since.          *)
__am_ioe_init(c) == /\ io[c] /\ io' = [io EXCEPT ![c] = FALSE] /\ InitIoe(c)
                    /\ UNCHANGED <<Start, lazy, sdl, Ring, nkeys, nevents, got, full>>
mpe_fork == /\ Runs("first") /\ boot = "main"
            /\ boot' = "ioe" /\ other' = [c \in Others |-> "read"]
            /\ prepared' = (ioe.has /\ ~ioe.done)
            /\ UNCHANGED <<sync, ioe, Lazy, sdl, thread, Ring, nkeys, nevents, got, full>>
(* Faulty variant: the devices are left to their first use.                *)
mpe_ioe_lazy ==
  /\ boot = "ioe" /\ boot' = "plus"
  /\ UNCHANGED <<other, sync, prepared, ioe, Lazy, sdl, thread, Ring, nkeys, nevents, got, full>>
(* A device used before mpe_init is initialised once more.                 *)
mpe_ioe == /\ boot = "ioe" /\ boot' = "plus"
           /\ IF ioe.has THEN InitIoe("first") ELSE UNCHANGED <<ioe, thread>>
           /\ UNCHANGED <<other, sync, prepared, Lazy, sdl, Ring, nkeys, nevents, got, full>>
(* One byte for each of the others; then the program's entry.              *)
mpe_plus ==
  /\ boot = "plus"
  /\ sync' = sync + Cardinality({c \in Others : other[c] = "read"}) /\ boot' = "run"
  /\ UNCHANGED <<other, prepared, ioe, Lazy, sdl, thread, Ring, nkeys, nevents, got, full>>
mpe_child(c) ==
  /\ other[c] = "read" /\ sync > 0
  /\ sync' = sync - 1 /\ other' = [other EXCEPT ![c] = "run"]
  /\ UNCHANGED <<boot, prepared, ioe, Lazy, sdl, thread, Ring, nkeys, nevents, got, full>>

-----------------------------------------------------------------------------
(* SDL: a key the keymap has, or another event.                            *)
Event(key) == /\ ioe.done /\ nevents < MaxEvents
              /\ nevents' = nevents + 1 /\ nkeys' = nkeys + (IF key THEN 1 ELSE 0)
              /\ sdl' = Append(sdl, IF key THEN nkeys + 1 ELSE 0)
              /\ UNCHANGED <<Start, ioe, Lazy, thread, Ring, got, full>>
SDL_WaitEvent(i) == /\ thread[i] = -1 /\ sdl # <<>>
                    /\ thread' = [thread EXCEPT ![i] = Head(sdl)] /\ sdl' = Tail(sdl)
                    /\ UNCHANGED <<Start, ioe, Lazy, Ring, nkeys, nevents, got, full>>
(* The key goes into the ring, under the lock, whether there is room or    *)
(* not; the interrupt that follows only wakes the program.                 *)
event_thread(i) ==
  /\ thread[i] # -1
  /\ IF thread[i] = 0 THEN UNCHANGED <<Ring, full>>
     ELSE /\ ring' = [ring EXCEPT ![key_r] = thread[i]]
          /\ key_r' = (key_r + 1) % KeyQueueLen
          /\ full' = (full \/ key_r' = key_f)
          /\ UNCHANGED key_f
  /\ thread' = [thread EXCEPT ![i] = -1]
  /\ UNCHANGED <<Start, ioe, Lazy, sdl, nkeys, nevents, got>>

(* Faulty variant: the front moves on an empty ring too.                   *)
__am_input_keybrd_blind ==
  /\ Runs(ioe.by) /\ ioe.done
  /\ got' = IF ring[key_f] = 0 THEN got ELSE Append(got, ring[key_f])
  /\ key_f' = (key_f + 1) % KeyQueueLen
  /\ UNCHANGED <<Start, ioe, Lazy, sdl, thread, ring, key_r, nkeys, nevents, full>>
(* An empty ring answers AM_KEY_NONE.                                      *)
__am_input_keybrd ==
  /\ Runs(ioe.by) /\ ioe.done /\ key_f # key_r
  /\ got' = Append(got, ring[key_f])
  /\ key_f' = (key_f + 1) % KeyQueueLen
  /\ UNCHANGED <<Start, ioe, Lazy, sdl, thread, ring, key_r, nkeys, nevents, full>>

Next == \/ ioe_init \/ mpe_fork \/ mpe_ioe \/ mpe_plus
        \/ \E c \in AllCpus : do_io(c) \/ __am_ioe_init(c)
        \/ \E c \in Others : mpe_child(c)
        \/ \E key \in BOOLEAN : Event(key)
        \/ \E i \in DOMAIN thread : SDL_WaitEvent(i) \/ event_thread(i)
        \/ __am_input_keybrd
Spec == Init /\ [][Next]_vars

-----------------------------------------------------------------------------
(* Devices are initialised once, by mpe_init and before any other CPU runs, *)
(* if the program has called ioe_init before and used no device: no CPU    *)
(* ever finds them not initialised.  A program that does otherwise may     *)
(* initialise them twice, in mpe_init after an early use (mpe.c:27) or on  *)
(* several CPUs that look at ioe_init_done before one of them is through   *)
(* (ioe.c:78); but a CPU does so once at most, and so does a program that  *)
(* does not call mpe_init.                                                 *)
IoeOnce ==
  /\ prepared => /\ ioe.inits <= 1 /\ \A c \in AllCpus : lazy[c] = 0
                 /\ (\E c \in Others : other[c] = "run") => ioe.done
  /\ boot = "main" => ioe.inits <= 1
  /\ \A c \in AllCpus : lazy[c] <= 1

InRing == [i \in 1..((key_r - key_f) % KeyQueueLen) |-> ring[(key_f + i - 1) % KeyQueueLen]]
(* The keys of a sequence, and that they ascend: a key is positive.        *)
Keys(s) == {s[i] : i \in DOMAIN s} \ {-1, 0}
Ascending(s) == \A i, j \in DOMAIN s : i < j /\ s[i] > 0 /\ s[j] > 0 => s[i] < s[j]
(* Those read, those in the ring and those on the way to it.               *)
Path == got \o InRing \o thread \o sdl
(* With one event thread the program reads keys in the order in which they *)
(* were pressed and none twice, and as long as the ring was never overrun  *)
(* (input.c:29 does not look for room) none is missing: those read, those  *)
(* in the ring and those on the way to it are all that were pressed.       *)
NativeKeysInOrder ==
  ioe.inits <= 1 =>
    /\ Ascending(Path)
    /\ \A i \in DOMAIN got : got[i] > 0
    /\ ~full => Keys(Path) = 1..nkeys
=============================================================================
