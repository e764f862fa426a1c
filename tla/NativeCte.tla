------------------------------ MODULE NativeCte -------------------------------
(***************************************************************************)
(* Traps and address spaces of the AM on Linux (abstract-machine/am/src/   *)
(* native: cte.c, vme.c, platform.c).  A CPU is a Linux process; an        *)
(* interrupt, a yield, a system call and a page fault are signals, whose   *)
(* handler puts the context on a stack and makes the process continue in   *)
(* irq_handle; a second signal restores it.                                *)
(*                                                                         *)
(* The guest's part is external: it keeps a table of contexts, runs every  *)
(* thread on one CPU at a time, lets go of the thread it leaves at the     *)
(* CPU's next trap, gives every process an address space of its own, and   *)
(* maps a page when it faults or when a system call asks for one.          *)
(***************************************************************************)
EXTENDS Integers, FiniteSets

CONSTANTS Cpus,      \* each with an idle thread of the same name
          Boot,      \* the one the keyboard interrupts
          Users,     \* processes; each names its address space
          Kthreads,  \* threads made by kcontext
          VAs,       \* pages of the user space
          Junk,      \* what the memory holds where kcontext leaves ksp
          None

ASSUME ThreadsAssumption ==
  /\ Boot \in Cpus
  /\ Cpus \cap Users = {} /\ Cpus \cap Kthreads = {} /\ Users \cap Kthreads = {}
  /\ None \notin Cpus \cup Users \cup Kthreads

VARIABLES cpu,    \* the registers and the structure thiscpu of every process
          stack,  \* the context on the kernel stack of every thread
          tab,    \* the guest's table: where a thread's context is
          hold,   \* the threads a CPU has not let go of
          as,     \* the list of pages of every address space, in shared memory
          host    \* what the host maps for each process: the owner of the page at a VA
vars == <<cpu, stack, tab, hold, as, host>>

Threads == Cpus \cup Users \cup Kthreads

-----------------------------------------------------------------------------
(* Contexts as the guest makes them before it starts the other CPUs;       *)
(* kcontext leaves ksp as the memory had it.  A context that was restored  *)
(* is free memory.                                                         *)
ucontext(u) == [thr |-> u, at |-> "user", rip |-> "call", mask |-> FALSE, vm |-> u, ksp |-> u]
kcontext(k) == [thr |-> k, at |-> "text", rip |-> "call", mask |-> FALSE, vm |-> None, ksp |-> Junk]
Popped == [thr |-> None, at |-> "text", rip |-> "call", mask |-> TRUE, vm |-> None, ksp |-> None]
protect == [pages |-> {}, mapped |-> {}, cyclic |-> FALSE]

(* A page mapped a second time is put in front of a list it is already in. *)
map_list(a, va) == [a EXCEPT !.pages = @ \cup {va}, !.mapped = @ \ {va}, !.cyclic = @ \/ va \in a.pages]
mapped_now(a, va) == [a EXCEPT !.mapped = @ \cup {va}]

Init ==
  /\ cpu = [c \in Cpus |-> [pc |-> "run", thr |-> c, at |-> "text", rip |-> "call",
                            mask |-> TRUE, ev |-> "error", why |-> "error", ref |-> None, vm |-> None, ksp |-> None,
                            frame |-> None, next |-> None]]
  /\ stack = [t \in Threads |-> IF t \in Users THEN ucontext(t) ELSE kcontext(t)]
  /\ tab = [t \in Threads |-> t]
  /\ hold = [c \in Cpus |-> {c}]
  /\ as \in [Users -> {protect} \cup {map_list(protect, va) : va \in VAs}]
  /\ host = [c \in Cpus |-> [va \in VAs |-> None]]

-----------------------------------------------------------------------------
(* sig_handler and setup_stack: the event is noted in thiscpu, the context *)
(* goes to the kernel stack of ksp when the CPU was in user space, to the  *)
(* stack in use otherwise, and irq_handle is next, with interrupts masked. *)
in_userspace(c) == cpu[c].at = "user" /\ cpu[c].vm # None
Frame(c) == IF in_userspace(c) THEN cpu[c].ksp ELSE cpu[c].thr
Entered_open(c, e, ref) ==
  [cpu[c] EXCEPT !.pc = "irq", !.at = "text", !.ev = e, !.ref = ref, !.frame = Frame(c),
                 !.why = IF cpu[c].pc = "irq" THEN @ ELSE e]
(* "why" remembers what the trap was for; no code reads it.                *)
Entered(c, e, ref) == [Entered_open(c, e, ref) EXCEPT !.mask = TRUE]
setup_stack(c, e, ref, rip) ==
  /\ stack' = [stack EXCEPT ![Frame(c)] = [@ EXCEPT !.thr = cpu[c].thr, !.at = cpu[c].at, !.rip = rip,
                                                    !.mask = cpu[c].mask]]
  /\ cpu' = [cpu EXCEPT ![c] = Entered(c, e, ref)]
  /\ UNCHANGED <<tab, hold, as, host>>

(* An interrupt in library code is dropped; the event was noted already.   *)
Interrupt(c, e) ==
  /\ cpu[c].pc \in {"run", "irq", "switch", "map", "iret"} /\ ~cpu[c].mask
  /\ \/ /\ cpu[c].at = "lib"
        /\ cpu' = [cpu EXCEPT ![c].ev = e]
        /\ UNCHANGED <<stack, tab, hold, as, host>>
     \/ /\ cpu[c].at # "lib"
        /\ setup_stack(c, e, None, cpu[c].rip)
Timer(c) == Interrupt(c, "irq_timer")
Keyboard == Interrupt(Boot, "irq_iodev")
yield(c) == /\ cpu[c].pc = "run" /\ cpu[c].at = "text"
            /\ setup_stack(c, "yield", None, cpu[c].rip)
(* The instruction that calls is skipped when the context returns.         *)
Syscall(c) == /\ cpu[c].pc = "run" /\ cpu[c].at = "user" /\ cpu[c].rip = "call"
              /\ setup_stack(c, "syscall", None, "after")
PageFault(c) == /\ cpu[c].pc = "run" /\ cpu[c].at = "user"
                /\ \E va \in VAs : /\ host[c][va] = None
                                   /\ setup_stack(c, "pagefault", va, cpu[c].rip)

-----------------------------------------------------------------------------
(* irq_handle up to the guest's answer.                                    *)
SaveVm(c) == stack' = [stack EXCEPT ![cpu[c].frame].vm = cpu[c].vm, ![cpu[c].frame].ksp = cpu[c].ksp]
(* map, for the address space of the thread that trapped.                  *)
map(c, va) ==
  LET a == cpu[c].thr
  IN IF cpu[c].vm = a
     THEN /\ as' = [as EXCEPT ![a] = mapped_now(map_list(@, va), va)]
          /\ host' = [host EXCEPT ![c][va] = a]
     ELSE /\ as' = [as EXCEPT ![a] = map_list(@, va)]
          /\ UNCHANGED host
Answer(c, t) ==
  /\ tab' = [tab EXCEPT ![cpu[c].thr] = cpu[c].frame]
  /\ hold' = [hold EXCEPT ![c] = {cpu[c].thr, t}]
  /\ cpu' = [cpu EXCEPT ![c].pc = "switch", ![c].next = IF t = cpu[c].thr THEN cpu[c].frame ELSE tab[t]]
(* The threads another CPU has let go of, and its own.                     *)
Ready(c) == ((Users \cup Kthreads \cup {c}) \ UNION {hold[d] : d \in Cpus \ {c}})
irq_handle(c) ==
  /\ cpu[c].pc = "irq"
  /\ SaveVm(c)
  /\ \/ /\ cpu[c].ev = "pagefault"
        /\ map(c, cpu[c].ref) /\ Answer(c, cpu[c].thr)
     \/ /\ cpu[c].ev = "syscall"
        /\ \E va \in VAs : map(c, va)
        /\ Answer(c, cpu[c].thr)
     \/ /\ cpu[c].ev # "pagefault"
        /\ \E t \in Ready(c) : Answer(c, t)
        /\ UNCHANGED <<as, host>>

(* __am_switch: the pages of the address space in use are unmapped, by a   *)
(* flag they carry; then those of the next are mapped.  A list with a      *)
(* cycle has no end.                                                       *)
Spins(a) == a # None /\ as[a].cyclic
unmap_all_skip(c) ==
  /\ cpu[c].pc = "switch"
  /\ cpu' = [cpu EXCEPT ![c].pc = IF stack[cpu[c].next].vm = cpu[c].vm THEN "iret" ELSE "map"]
  /\ UNCHANGED <<stack, tab, hold, as, host>>
unmap_all(c) ==
  LET now == cpu[c].vm
      head == stack[cpu[c].next].vm
  IN /\ cpu[c].pc = "switch"
     /\ cpu' = [cpu EXCEPT ![c].pc = IF head = now THEN "iret" ELSE IF Spins(now) THEN "spin" ELSE "map"]
     /\ IF head # now /\ now # None
        THEN /\ host' = [host EXCEPT ![c] = [va \in VAs |-> IF va \in as[now].mapped THEN None ELSE @[va]]]
             /\ as' = [as EXCEPT ![now].mapped = {}]
        ELSE UNCHANGED <<host, as>>
     /\ UNCHANGED <<stack, tab, hold>>
map_all(c) ==
  LET head == stack[cpu[c].next].vm
  IN /\ cpu[c].pc = "map"
     /\ cpu' = [cpu EXCEPT ![c].pc = IF Spins(head) THEN "spin" ELSE "iret", ![c].vm = head]
     /\ IF head # None
        THEN /\ host' = [host EXCEPT ![c] = [va \in VAs |-> IF va \in as[head].pages THEN head ELSE @[va]]]
             /\ as' = [as EXCEPT ![head].mapped = as[head].pages]
        ELSE UNCHANGED <<host, as>>
     /\ UNCHANGED <<stack, tab, hold>>

iret(c) ==
  LET ctx == stack[cpu[c].next]
  IN /\ cpu[c].pc = "iret"
     /\ cpu' = [cpu EXCEPT ![c] = [@ EXCEPT !.pc = "run", !.thr = ctx.thr, !.at = ctx.at, !.rip = ctx.rip,
                                            !.mask = ctx.mask, !.ksp = ctx.ksp, !.ev = "error", !.why = "error",
                                            !.ref = None, !.frame = None, !.next = None]]
     /\ stack' = [stack EXCEPT ![cpu[c].next] = Popped]
     /\ UNCHANGED <<tab, hold, as, host>>

(* Kernel code enables and disables interrupts and calls the C library;    *)
(* user code goes on to its next call.                                     *)
iset(c) == /\ cpu[c].pc = "run" /\ cpu[c].at = "text"
           /\ cpu' = [cpu EXCEPT ![c].mask = ~@]
           /\ UNCHANGED <<stack, tab, hold, as, host>>
Library(c) == /\ cpu[c].pc = "run" /\ cpu[c].at \in {"text", "lib"}
              /\ cpu' = [cpu EXCEPT ![c].at = IF @ = "text" THEN "lib" ELSE "text"]
              /\ UNCHANGED <<stack, tab, hold, as, host>>
UserRuns(c) == /\ cpu[c].pc = "run" /\ cpu[c].at = "user" /\ cpu[c].rip = "after"
               /\ cpu' = [cpu EXCEPT ![c].rip = "call"]
               /\ UNCHANGED <<stack, tab, hold, as, host>>

Next ==
  \/ Keyboard
  \/ \E c \in Cpus : \/ Timer(c) \/ yield(c) \/ Syscall(c) \/ PageFault(c)
                     \/ irq_handle(c) \/ unmap_all(c) \/ map_all(c) \/ iret(c)
                     \/ iset(c) \/ Library(c) \/ UserRuns(c)
Spec == Init /\ [][Next]_vars

-----------------------------------------------------------------------------
Running(c) == cpu[c].pc = "run"

(* While a process is in user space, the host maps for it the pages of its *)
(* own address space and no others, on whatever CPU it runs and whatever   *)
(* ran there before: the flags that say what to unmap (vme.c:64) are       *)
(* shared by all CPUs.                                                     *)
OwnPages ==
  \A c \in Cpus : Running(c) /\ cpu[c].at = "user" =>
    \A va \in VAs : host[c][va] = IF va \in as[cpu[c].thr].pages THEN cpu[c].thr ELSE None

(* A trap finds the kernel stack of the process it interrupts, the event   *)
(* irq_handle passes on is the one that trapped, and the context of every  *)
(* thread that no CPU runs is its own, on its own stack, with its own      *)
(* address space: none is overwritten while it waits.                      *)
ContextsKept ==
  /\ \A c \in Cpus : /\ Running(c) /\ cpu[c].at = "user" => cpu[c].ksp = cpu[c].thr /\ cpu[c].vm = cpu[c].thr
                     /\ cpu[c].pc = "irq" => cpu[c].ev = cpu[c].why /\ cpu[c].frame = cpu[c].thr
  /\ \A t \in Users \cup Kthreads : (\A c \in Cpus : t \notin hold[c]) =>
       /\ tab[t] = t /\ stack[t].thr = t
       /\ t \in Users => stack[t].vm = t /\ stack[t].ksp = t

=============================================================================
