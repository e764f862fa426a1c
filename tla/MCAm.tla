---------------------------------- MODULE MCAm --------------------------------
(***************************************************************************)
(* The three parts of the native AM share nothing once the devices are     *)
(* there, and the AM on riscv is another machine; each behaviour of this   *)
(* instance is about one of them.                                          *)
(***************************************************************************)
EXTENDS NativeCte, TLC

CONSTANTS Stacks, StackSize, BootThread, Vals, MaxWords, MaxYields, MaxWork,
          Others, KeyQueueLen, MaxEvents, PipeSize, PipeBuf, Lens, MaxBytes, StreamLen

VARIABLES part,
          boot, other, sync, ioe, io, lazy, prepared, sdl, thread, ring, key_f, key_r,
          nkeys, nevents, got, full,
          pipe, count, open, w, p, stream, made, heard, mishaps,
          port, core, mem, user_handler, fresh, want, live, words, work

(* The length of the ring of keys (input.c:6).                             *)
ASSUME KeyQueueAssumption == KeyQueueLen \in Nat \ {0}
(* Lengths of the sound (audio.c:13, 33).                                  *)
ASSUME SoundAssumption == /\ PipeSize \in Nat /\ PipeBuf \in Nat /\ StreamLen \in Nat
                          /\ Lens \subseteq Nat \ {0}
(* Stacks are areas of memory apart from each other; each has room for a   *)
(* context and the frame of the handler (cte.c:40).  Registers hold words. *)
ASSUME StacksAssumption ==
  /\ BootThread \in DOMAIN Stacks /\ Vals \subseteq Int
  /\ StackSize \in Nat /\ StackSize >= 12
  /\ \A t \in DOMAIN Stacks : Stacks[t] \in Nat
  /\ \A t, u \in DOMAIN Stacks : t # u => \/ Stacks[t] + StackSize <= Stacks[u]
                                         \/ Stacks[u] + StackSize <= Stacks[t]

R == INSTANCE RiscvCte
I == INSTANCE NativeIoe
A == INSTANCE NativeAudio
ioeVars == <<boot, other, sync, ioe, io, lazy, prepared, sdl, thread, ring, key_f, key_r,
             nkeys, nevents, got, full>>
audioVars == <<pipe, count, open, w, p, stream, made, heard, mishaps>>
riscvVars == <<port, core, mem, user_handler, fresh, want, live, words, work>>
all == <<part, vars, ioeVars, audioVars, riscvVars>>

(* Two stacks with a word between them, for two frames and nested traps.  *)
MCStacks == [t \in 0..1 |-> 1 + t * 26]

MCInit == /\ part \in {"cte", "ioe", "audio", "riscv"}
          /\ Init /\ I!Init /\ A!Init /\ R!Init
          /\ part # "riscv" => port = "nemu"
          /\ part # "cte" => as = [u \in Users |-> protect]
MCNext == /\ UNCHANGED part
          /\ \/ part = "cte" /\ Next /\ UNCHANGED <<ioeVars, audioVars, riscvVars>>
             \/ part = "ioe" /\ I!Next /\ UNCHANGED <<vars, audioVars, riscvVars>>
             \/ part = "audio" /\ A!Live /\ A!Next /\ UNCHANGED <<vars, ioeVars, riscvVars>>
             \/ part = "riscv" /\ R!Next /\ UNCHANGED <<vars, ioeVars, audioVars>>
MCSpec == MCInit /\ [][MCNext]_all

(* The properties of the instanced modules: see IoeOnce and                *)
(* NativeKeysInOrder in NativeIoe, NativePlaysInOrder in NativeAudio.      *)
(* Devices of the native AM are initialised once (mpe.c:27, ioe.c:78).     *)
IoeOnce == I!IoeOnce
(* Keys of the native AM arrive in order (input.c:29).                     *)
NativeKeysInOrder == I!NativeKeysInOrder
(* Sound of the native AM is heard in order (audio.c:18, 33).              *)
NativePlaysInOrder == A!NativePlaysInOrder
(* Flows of the AM on riscv go on as they were (trap.S, cte.c).            *)
RiscvContextsKept == R!RiscvContextsKept

Symmetry == Permutations(Users)
=============================================================================
