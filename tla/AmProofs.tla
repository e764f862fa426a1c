------------------------------ MODULE AmProofs ------------------------------
(***************************************************************************)
(* Proofs about the AM on Linux, for any number of CPUs, processes,        *)
(* threads and pages and all lengths of sound; and about the contexts of   *)
(* the AM on riscv, for any stacks.                                        *)
(***************************************************************************)
EXTENDS MCAm, SequenceTheorems, TLAPS

-----------------------------------------------------------------------------
(* Traps and address spaces.                                               *)

(* The address space of a thread, and its context once it was saved. *)
Space(t) == IF t \in Users THEN t ELSE None
Place(t) == IF t \in Users THEN "user" ELSE "text"
Trapped(t) == stack[t].thr = t /\ stack[t].at = Place(t)
Saved(t) == Trapped(t) /\ stack[t].vm = Space(t) /\ (t \in Users => stack[t].ksp = t)

(* A CPU executes its thread, or has not saved all of its context yet. *)
Busy(c) == cpu[c].pc \in {"run", "irq"}

Places == {"text", "lib", "user"}
Rips == {"call", "after"}
Events == {"error", "irq_timer", "irq_iodev", "yield", "syscall", "pagefault"}
Ksps == Threads \cup {None, Junk}

CpuType ==
  [pc : {"run", "irq", "switch", "map", "iret", "spin"}, thr : Threads, at : Places, rip : Rips,
   mask : BOOLEAN, ev : Events, why : Events, ref : VAs \cup {None}, vm : Users \cup {None},
   ksp : Ksps, frame : Threads \cup {None}, next : Threads \cup {None}]
CtxType ==
  [thr : Threads \cup {None}, at : Places, rip : Rips, mask : BOOLEAN,
   vm : Users \cup {None}, ksp : Ksps]
AsType == [pages : SUBSET VAs, mapped : SUBSET VAs, cyclic : BOOLEAN]

CteTypeOK ==
  /\ cpu \in [Cpus -> CpuType]
  /\ stack \in [Threads -> CtxType]
  /\ tab = [t \in Threads |-> t]
  /\ hold \in [Cpus -> SUBSET Threads]
  /\ as \in [Users -> AsType]
  /\ host \in [Cpus -> [VAs -> Users \cup {None}]]

(* What a CPU holds is its own: the thread it runs, the one it goes on     *)
(* with, and the address space that is mapped.                             *)
Held ==
  /\ \A c, d \in Cpus : c # d => hold[c] \cap hold[d] = {}
  /\ \A c \in Cpus :
       /\ cpu[c].thr \in hold[c]
       /\ hold[c] \cap Cpus \subseteq {c}
       /\ cpu[c].vm # None => cpu[c].vm \in hold[c]
       /\ cpu[c].pc \in {"switch", "map", "iret"} => cpu[c].next \in hold[c]

(* The registers of a CPU fit the thread it runs; interrupts are masked    *)
(* from a trap to the return.                                              *)
RegistersOf(r) ==
  /\ r.pc # "run" => r.mask
  /\ r.pc \in {"run", "irq", "switch", "map"} => r.vm = Space(r.thr)
  /\ r.pc = "iret" => r.vm = Space(r.next)
  /\ r.pc \in {"run", "irq"} /\ r.thr \in Users => r.ksp = r.thr
  /\ r.pc = "run" => (r.at = "user" <=> r.thr \in Users)
  /\ r.pc = "irq" =>
       /\ r.ev = r.why /\ r.frame = r.thr
       /\ r.ev \in {"pagefault", "syscall"} => r.thr \in Users
       /\ r.ev = "pagefault" => r.ref \in VAs
Registers == \A c \in Cpus : RegistersOf(cpu[c])

(* Every thread that no CPU executes has its context on its stack. *)
Contexts ==
  /\ \A c \in Cpus : cpu[c].pc = "irq" => Trapped(cpu[c].thr)
  /\ \A t \in Threads : (\A c \in Cpus : Busy(c) => cpu[c].thr # t) => Saved(t)

(* The pages of one address space are mapped, except while they change. *)
Owner(sp, a, va) == IF a # None /\ va \in sp[a].pages THEN a ELSE None
MappedIn(sp, phase, a, h) ==
  /\ phase \in {"run", "irq", "switch", "iret"} =>
       /\ \A va \in VAs : h[va] = Owner(sp, a, va)
       /\ a # None => sp[a].mapped = sp[a].pages
  /\ phase = "map" => \A va \in VAs : h[va] = None
Mapped == \A c \in Cpus : MappedIn(as, cpu[c].pc, cpu[c].vm, host[c])

CteInv == CteTypeOK /\ Held /\ Registers /\ Contexts /\ Mapped

(* The parts of the types that the steps below use. *)
LEMMA CteTypes ==
  ASSUME CteTypeOK, NEW c \in Cpus
  PROVE  /\ cpu[c] \in CpuType /\ cpu[c].thr \in Threads
         /\ cpu[c].vm \in Users \cup {None} /\ cpu[c].mask \in BOOLEAN
         /\ hold[c] \subseteq Threads
         /\ None \notin Threads /\ None \notin Users /\ Users \subseteq Threads
  BY ThreadsAssumption DEF CteTypeOK, CpuType, Threads

(* No other CPU runs, or has mapped, what a CPU holds. *)
LEMMA Apart ==
  ASSUME CteTypeOK, Held, NEW c \in Cpus, NEW d \in Cpus, c # d, NEW t \in hold[c]
  PROVE  cpu[d].thr # t /\ cpu[d].vm # t /\ t \notin hold[d] /\ t \in Threads
<1>1. t \notin hold[d] /\ t \in Threads /\ t # None
  BY CteTypes DEF Held
<1>2. QED
  BY <1>1 DEF Held

(* A thread that the CPU holds while it changes contexts is saved. *)
LEMMA SwitchSaved ==
  ASSUME CteTypeOK, Held, Contexts, NEW c \in Cpus, ~Busy(c), NEW t \in hold[c]
  PROVE  Saved(t) /\ t \in Threads
<1>1. t \in Threads
  BY CteTypes
<1>2. \A d \in Cpus : Busy(d) => cpu[d].thr # t
  BY Apart
<1>3. QED
  BY <1>1, <1>2 DEF Contexts

(* The native AM starts with every thread on its own stack.                *)
LEMMA CteInit == Init => CteInv
<1> SUFFICES ASSUME Init PROVE CteInv
  OBVIOUS
<1> USE ThreadsAssumption
<1> DEFINE first(c) ==
             [pc |-> "run", thr |-> c, at |-> "text", rip |-> "call",
              mask |-> TRUE, ev |-> "error", why |-> "error", ref |-> None, vm |-> None, ksp |-> None,
              frame |-> None, next |-> None]
<1>1. \A c \in Cpus : cpu[c] = first(c)
  BY DEF Init
<1>0. ASSUME NEW c \in Cpus
      PROVE  /\ cpu[c].pc = "run" /\ cpu[c].thr = c /\ cpu[c].at = "text" /\ cpu[c].vm = None
             /\ c \in Threads /\ c \notin Users
  <2>1. cpu[c] = first(c)
    BY <1>1
  <2>2. c \in Threads /\ c \notin Users
    BY DEF Threads
  <2>3. QED
    BY ONLY <2>1, <2>2
<1>2. ASSUME NEW c \in Cpus PROVE cpu[c] \in CpuType
  <2>1. c \in Threads /\ None \in Users \cup {None} /\ None \in Ksps
    BY DEF Threads, Ksps
  <2>2. cpu[c] = first(c)
    BY <1>1
  <2>3. QED
    BY ONLY <2>1, <2>2 DEF CpuType, Places, Rips, Events
<1> HIDE DEF first
<1>3. \A t \in Threads : stack[t] = IF t \in Users THEN ucontext(t) ELSE kcontext(t)
  BY DEF Init
<1>4. ASSUME NEW t \in Threads
      PROVE  stack[t] \in CtxType /\ Saved(t)
  <2>1. CASE t \in Users
    <3>1. stack[t] = [thr |-> t, at |-> "user", rip |-> "call", mask |-> FALSE, vm |-> t, ksp |-> t]
      BY <1>3, <2>1 DEF ucontext
    <3>2. QED
      BY <2>1, <3>1 DEF CtxType, Places, Rips, Ksps, Saved, Trapped, Space, Place
  <2>2. CASE t \notin Users
    <3>1. stack[t] = [thr |-> t, at |-> "text", rip |-> "call", mask |-> FALSE, vm |-> None, ksp |-> Junk]
      BY <1>3, <2>2 DEF kcontext
    <3>2. QED
      BY <2>2, <3>1 DEF CtxType, Places, Rips, Ksps, Saved, Trapped, Space, Place
  <2>3. QED
    BY <2>1, <2>2
<1>6. as \in [Users -> AsType]
  <2>1. protect \in AsType /\ \A va \in VAs : map_list(protect, va) \in AsType
    BY DEF protect, map_list, AsType
  <2>2. {protect} \cup {map_list(protect, va) : va \in VAs} \subseteq AsType
    BY <2>1
  <2>3. as \in [Users -> {protect} \cup {map_list(protect, va) : va \in VAs}]
    BY DEF Init
  <2>4. QED
    BY <2>2, <2>3
<1>7. CteTypeOK
  <2>1. cpu \in [Cpus -> CpuType]
    BY <1>2 DEF Init
  <2>2. stack \in [Threads -> CtxType]
    BY <1>4 DEF Init
  <2>3. QED
    BY <1>6, <2>1, <2>2 DEF CteTypeOK, Init, Threads
<1>8. Held
  BY <1>1 DEF Held, Init
<1>9. Registers
  BY <1>0 DEF Registers, RegistersOf, Busy, Space
<1>10. Contexts
  BY <1>0, <1>4 DEF Contexts
<1>11. Mapped
  BY <1>1 DEF Mapped, MappedIn, Owner, Init
<1>12. QED
  BY <1>7, <1>8, <1>9, <1>10, <1>11 DEF CteInv

(* sig_handler and setup_stack. *)
LEMMA TrapStep ==
  ASSUME CteInv, NEW c \in Cpus, cpu[c].pc = "run", cpu[c].at # "lib",
         NEW e \in Events, e \in {"pagefault", "syscall"} => cpu[c].at = "user",
         NEW ref \in VAs \cup {None}, e = "pagefault" => ref \in VAs,
         NEW rip \in Rips, setup_stack(c, e, ref, rip)
  PROVE  CteInv'
<1> DEFINE t == cpu[c].thr
<1>1. CteTypeOK /\ Held /\ Registers /\ Contexts /\ Mapped
  BY DEF CteInv
<1>2. /\ cpu[c] \in CpuType /\ t \in Threads /\ None \notin Threads /\ Users \subseteq Threads
      /\ stack[t] \in CtxType
  BY <1>1, CteTypes DEF CteTypeOK
<1>3. Frame(c) = t
  BY <1>1, <1>2 DEF Registers, RegistersOf, Busy, Frame, in_userspace, Space
<1>4. cpu' = [cpu EXCEPT ![c] = Entered(c, e, ref)] /\ UNCHANGED <<tab, hold, as, host>>
  BY DEF setup_stack
<1>5. Entered(c, e, ref) = [cpu[c] EXCEPT !.pc = "irq", !.at = "text", !.ev = e, !.ref = ref, !.frame = t,
                                          !.why = e, !.mask = TRUE]
  BY <1>2, <1>3 DEF Entered, Entered_open, CpuType
<1>6. /\ Entered(c, e, ref) \in CpuType
      /\ \A d \in Cpus : d # c => cpu'[d] = cpu[d]
      /\ cpu'[c] = Entered(c, e, ref)
  <2>1. Entered(c, e, ref) \in CpuType
    <3> DEFINE m == TRUE
    <3>1. m \in BOOLEAN /\ "text" \in Places /\ e \in Events /\ ref \in VAs \cup {None}
      BY DEF Places
    <3> HIDE DEF m
    <3>2. [cpu[c] EXCEPT !.pc = "irq", !.at = "text", !.ev = e, !.ref = ref, !.frame = t,
                         !.why = e, !.mask = m] \in CpuType
      BY <1>2, <3>1 DEF CpuType
    <3>3. QED
      BY <1>5, <3>2 DEF m
  <2>2. cpu \in [Cpus -> CpuType]
    BY <1>1 DEF CteTypeOK
  <2>3. QED
    BY <1>4, <2>1, <2>2
<1>7. /\ cpu'[c].pc = "irq" /\ cpu'[c].thr = t /\ cpu'[c].ev = e /\ cpu'[c].why = e /\ cpu'[c].ref = ref
      /\ cpu'[c].frame = t /\ cpu'[c].mask = TRUE /\ cpu'[c].vm = cpu[c].vm /\ cpu'[c].ksp = cpu[c].ksp
  BY <1>2, <1>5, <1>6 DEF CpuType
<1>8. /\ \A x \in Threads : x # t => stack'[x] = stack[x]
      /\ stack'[t] = [stack[t] EXCEPT !.thr = t, !.at = cpu[c].at, !.rip = rip, !.mask = cpu[c].mask]
  BY <1>1, <1>2, <1>3 DEF setup_stack, CteTypeOK
<1>9. stack'[t] \in CtxType /\ stack'[t].thr = t /\ stack'[t].at = cpu[c].at
  BY <1>2, <1>8 DEF CtxType, CpuType
<1>10. CteTypeOK'
  <2>1. cpu' \in [Cpus -> CpuType]
    BY <1>1, <1>4, <1>6 DEF CteTypeOK
  <2>2. stack' \in [Threads -> CtxType]
    BY <1>1, <1>2, <1>3, <1>9 DEF setup_stack, CteTypeOK
  <2>3. QED
    BY <1>1, <1>4, <2>1, <2>2 DEF CteTypeOK
<1>11. Held'
  BY <1>1, <1>4, <1>6, <1>7 DEF Held
<1>12. Registers'
  BY <1>1, <1>6, <1>7 DEF Registers, RegistersOf, Busy, Space
<1>13. Contexts'
  <2>1. stack'[t].at = Place(t)
    <3>1. cpu[c].at \in Places
      BY <1>2 DEF CpuType
    <3>2. QED
      BY <1>1, <1>9, <3>1 DEF Registers, RegistersOf, Place, Places
  <2>2. ASSUME NEW d \in Cpus, cpu'[d].pc = "irq"
        PROVE  stack'[cpu'[d].thr].thr = cpu'[d].thr /\ stack'[cpu'[d].thr].at = Place(cpu'[d].thr)
    <3>1. CASE d = c
      BY <1>7, <1>9, <2>1, <3>1
    <3>2. CASE d # c
      <4>1. cpu'[d] = cpu[d] /\ cpu[d].thr # t /\ cpu[d].thr \in Threads
        BY <1>1, <1>6, <3>2, Apart, CteTypes DEF Held
      <4>2. QED
        BY <1>1, <1>8, <2>2, <4>1 DEF Contexts, Trapped
    <3>3. QED
      BY <3>1, <3>2
  <2>3. ASSUME NEW x \in Threads, \A d \in Cpus : Busy(d)' => cpu'[d].thr # x
        PROVE  Saved(x) /\ stack'[x] = stack[x]
    <3>1. \A d \in Cpus : Busy(d) => cpu[d].thr # x
      BY <1>6, <1>7, <2>3 DEF Busy
    <3>2. x # t
      BY <3>1 DEF Busy
    <3>3. QED
      BY <1>1, <1>8, <3>1, <3>2 DEF Contexts
  <2>4. QED
    BY <2>2, <2>3 DEF Contexts, Saved, Trapped, Place, Space
<1>14. Mapped'
  <2>1. \A d \in Cpus : cpu'[d].vm = cpu[d].vm /\ (cpu'[d].pc = cpu[d].pc \/ (cpu'[d].pc = "irq" /\ cpu[d].pc = "run"))
    BY <1>6, <1>7
  <2>2. ASSUME NEW d \in Cpus PROVE MappedIn(as, cpu'[d].pc, cpu'[d].vm, host[d])
    <3>1. MappedIn(as, cpu[d].pc, cpu[d].vm, host[d])
      BY <1>1 DEF Mapped
    <3>2. cpu'[d].vm = cpu[d].vm /\ (cpu'[d].pc = cpu[d].pc \/ (cpu'[d].pc = "irq" /\ cpu[d].pc = "run"))
      BY <2>1
    <3>3. QED
      BY ONLY <3>1, <3>2 DEF MappedIn
  <2>3. QED
    BY <1>4, <2>2 DEF Mapped, MappedIn, Owner
<1>15. QED
  BY <1>10, <1>11, <1>12, <1>13, <1>14 DEF CteInv

(* A step of the program itself, or an interrupt that is dropped. *)
LEMMA RunStep ==
  ASSUME CteInv, NEW c \in Cpus, cpu[c].pc = "run",
         NEW r \in CpuType, cpu' = [cpu EXCEPT ![c] = r], r.pc = "run", r.thr = cpu[c].thr,
         r.vm = cpu[c].vm, r.ksp = cpu[c].ksp, r.at = "user" <=> cpu[c].at = "user",
         UNCHANGED <<stack, tab, hold, as, host>>
  PROVE  CteInv'
<1>1. CteTypeOK /\ Held /\ Registers /\ Contexts /\ Mapped
  BY DEF CteInv
<1>2. cpu[c] \in CpuType /\ cpu \in [Cpus -> CpuType]
  BY <1>1 DEF CteTypeOK
<1>3. cpu'[c] = r /\ (\A d \in Cpus : d # c => cpu'[d] = cpu[d]) /\ cpu' \in [Cpus -> CpuType]
  BY <1>2
<1>4. CteTypeOK'
  BY <1>1, <1>3 DEF CteTypeOK
<1>5. \A d \in Cpus : /\ cpu'[d].vm = cpu[d].vm /\ cpu'[d].pc = cpu[d].pc /\ cpu'[d].thr = cpu[d].thr
                       /\ cpu'[d].ksp = cpu[d].ksp
                       /\ cpu[d].pc # "run" => cpu'[d] = cpu[d]
                       /\ cpu'[d].at = "user" <=> cpu[d].at = "user"
  BY <1>3
<1>6. Held'
  BY <1>1, <1>5 DEF Held
<1>7. Registers'
  BY <1>1, <1>5 DEF Registers, RegistersOf, Busy, Space
<1>8. Contexts'
  BY <1>1, <1>5 DEF Contexts, Saved, Trapped, Place, Space, Busy
<1>9. Mapped'
  <2>1. as' = as /\ host' = host
    OBVIOUS
  <2>2. ASSUME NEW d \in Cpus PROVE MappedIn(as', cpu'[d].pc, cpu'[d].vm, host'[d])
    <3>1. cpu'[d].pc = cpu[d].pc /\ cpu'[d].vm = cpu[d].vm
      BY <1>5
    <3>2. MappedIn(as, cpu[d].pc, cpu[d].vm, host[d])
      BY <1>1 DEF Mapped
    <3>3. QED
      BY ONLY <2>1, <3>1, <3>2 DEF MappedIn, Owner
  <2>3. QED
    BY <2>2 DEF Mapped, MappedIn, Owner
<1>10. QED
  BY <1>4, <1>6, <1>7, <1>8, <1>9 DEF CteInv

(* The guest answers a trap with a thread; map may have changed the        *)
(* address space of the one that trapped.                                  *)
LEMMA AnswerStep ==
  ASSUME CteInv, NEW c \in Cpus, cpu[c].pc = "irq", SaveVm(c),
         NEW t \in Ready(c) \cup {cpu[c].thr}, Answer(c, t),
         \/ UNCHANGED <<as, host>>
         \/ cpu[c].thr \in Users /\ \E va \in VAs : map(c, va)
  PROVE  CteInv'
<1> DEFINE u == cpu[c].thr
<1>1. CteTypeOK /\ Held /\ Registers /\ Contexts /\ Mapped
  BY DEF CteInv
<1>2. /\ cpu[c] \in CpuType /\ u \in Threads /\ None \notin Threads /\ Users \subseteq Threads
      /\ None \notin Users /\ stack[u] \in CtxType /\ cpu \in [Cpus -> CpuType] /\ u \in hold[c]
      /\ stack \in [Threads -> CtxType]
  BY <1>1, CteTypes DEF CteTypeOK, Held
<1>3. cpu[c].frame = u /\ cpu[c].vm = Space(u) /\ (u \in Users => cpu[c].ksp = u) /\ Trapped(u)
  BY <1>1 DEF Registers, RegistersOf, Busy, Contexts
<1>4. t \in Threads /\ (t \in Cpus => t = c) /\ \A d \in Cpus : d # c => t \notin hold[d]
  <2>1. CASE t = u
    <3>1. t \in Cpus => t = c
      BY <1>1, <1>2, <2>1 DEF Held
    <3>2. QED
      BY <1>1, <1>2, <2>1, <3>1 DEF Held
  <2>2. CASE t \in Ready(c)
    BY <2>2, ThreadsAssumption DEF Ready, Threads
  <2>3. QED
    BY <2>1, <2>2
<1>5. tab' = tab /\ (IF t = u THEN cpu[c].frame ELSE tab[t]) = t
  BY <1>1, <1>2, <1>3, <1>4 DEF Answer, CteTypeOK
<1>6. /\ cpu'[c] = [cpu[c] EXCEPT !.pc = "switch", !.next = t]
      /\ \A d \in Cpus : d # c => cpu'[d] = cpu[d]
      /\ cpu' \in [Cpus -> CpuType]
  <2>1. cpu' = [cpu EXCEPT ![c] = [@ EXCEPT !.pc = "switch", !.next = t]]
    BY <1>2, <1>5 DEF Answer
  <2>2. [cpu[c] EXCEPT !.pc = "switch", !.next = t] \in CpuType
    BY <1>2, <1>4 DEF CpuType
  <2>3. QED
    BY <1>2, <2>1, <2>2
<1>7. /\ cpu'[c].pc = "switch" /\ cpu'[c].next = t /\ cpu'[c].thr = u /\ cpu'[c].vm = cpu[c].vm
      /\ cpu'[c].mask = cpu[c].mask
  BY <1>2, <1>6 DEF CpuType
<1>8. hold' = [hold EXCEPT ![c] = {u, t}]
  BY DEF Answer
<1>9. hold'[c] = {u, t} /\ (\A d \in Cpus : d # c => hold'[d] = hold[d]) /\ hold' \in [Cpus -> SUBSET Threads]
  BY <1>1, <1>2, <1>4, <1>8 DEF CteTypeOK
<1>10. /\ stack'[u] = [stack[u] EXCEPT !.vm = cpu[c].vm, !.ksp = cpu[c].ksp]
       /\ \A x \in Threads : x # u => stack'[x] = stack[x]
       /\ stack' \in [Threads -> CtxType]
  <2>1. stack' = [stack EXCEPT ![u] = [@ EXCEPT !.vm = cpu[c].vm, !.ksp = cpu[c].ksp]]
    BY <1>2, <1>3 DEF SaveVm
  <2>2. [stack[u] EXCEPT !.vm = cpu[c].vm, !.ksp = cpu[c].ksp] \in CtxType
    BY <1>2 DEF CpuType, CtxType
  <2>3. QED
    BY <1>2, <2>1, <2>2
<1>11. /\ stack'[u].vm = cpu[c].vm /\ stack'[u].ksp = cpu[c].ksp
       /\ stack'[u].thr = stack[u].thr /\ stack'[u].at = stack[u].at
  BY <1>2, <1>10 DEF CtxType
<1>12. /\ as' \in [Users -> AsType] /\ host' \in [Cpus -> [VAs -> Users \cup {None}]]
       /\ \A x \in Users : x # u => as'[x] = as[x]
       /\ \A d \in Cpus : d # c => host'[d] = host[d]
       /\ \A va \in VAs : host'[c][va] = IF u \in Users /\ va \in as'[u].pages THEN u ELSE None
       /\ u \in Users => as'[u].mapped = as'[u].pages
  <2>1. /\ \A va \in VAs : host[c][va] = IF u \in Users /\ va \in as[u].pages THEN u ELSE None
        /\ u \in Users => as[u].mapped = as[u].pages
        /\ as \in [Users -> AsType] /\ host \in [Cpus -> [VAs -> Users \cup {None}]]
    BY <1>1, <1>2, <1>3 DEF Mapped, MappedIn, Owner, Space, CteTypeOK
  <2>2. CASE UNCHANGED <<as, host>>
    BY <2>1, <2>2
  <2>3. CASE u \in Users /\ \E va \in VAs : map(c, va)
    <3>1. PICK va \in VAs : map(c, va)
      BY <2>3
    <3>2. /\ as' = [as EXCEPT ![u] = mapped_now(map_list(as[u], va), va)]
          /\ host' = [host EXCEPT ![c] = [@ EXCEPT ![va] = u]]
      BY <1>3, <2>3, <3>1 DEF map, Space
    <3> DEFINE s == mapped_now(map_list(as[u], va), va)
    <3>3. s \in AsType /\ s.pages = as[u].pages \cup {va} /\ s.mapped = (as[u].mapped \ {va}) \cup {va}
      <4>1. as[u] \in AsType
        BY <2>1, <2>3
      <4>2. QED
        BY <4>1 DEF mapped_now, map_list, AsType
    <3> HIDE DEF s
    <3>4. as'[u] = s /\ as' \in [Users -> AsType] /\ \A x \in Users : x # u => as'[x] = as[x]
      BY <2>1, <2>3, <3>2, <3>3 DEF s
    <3>5. /\ host' \in [Cpus -> [VAs -> Users \cup {None}]] /\ \A d \in Cpus : d # c => host'[d] = host[d]
          /\ host'[c][va] = u /\ \A x \in VAs : x # va => host'[c][x] = host[c][x]
      BY <2>1, <2>3, <3>2
    <3>6. QED
      BY <2>1, <2>3, <3>3, <3>4, <3>5
  <2>4. QED
    BY <2>2, <2>3
<1>13. CteTypeOK'
  BY <1>1, <1>5, <1>6, <1>9, <1>10, <1>12 DEF CteTypeOK
<1>14. Held'
  <2>1. \A d \in Cpus : d # c => u \notin hold[d]
    BY <1>1, <1>2 DEF Held
  <2>2. ASSUME NEW x \in Cpus, NEW y \in Cpus, x # y PROVE hold'[x] \cap hold'[y] = {}
    BY <1>1, <1>4, <1>9, <2>1, <2>2 DEF Held
  <2>3. ASSUME NEW d \in Cpus
        PROVE  /\ cpu'[d].thr \in hold'[d]
               /\ hold'[d] \cap Cpus \subseteq {d}
               /\ cpu'[d].vm # None => cpu'[d].vm \in hold'[d]
               /\ cpu'[d].pc \in {"switch", "map", "iret"} => cpu'[d].next \in hold'[d]
    <3>1. CASE d = c
      <4>1. u \in Cpus => u = c
        BY <1>1, <1>2 DEF Held
      <4>2. QED
        BY <1>3, <1>4, <1>7, <1>9, <3>1, <4>1 DEF Space
    <3>2. CASE d # c
      BY <1>1, <1>6, <1>9, <3>2 DEF Held
    <3>3. QED
      BY <3>1, <3>2
  <2>4. QED
    BY <2>2, <2>3 DEF Held
<1>15. Registers'
  <2>1. cpu'[c].mask = TRUE /\ cpu'[c].pc = "switch" /\ cpu'[c].vm = Space(cpu'[c].thr)
    BY <1>1, <1>3, <1>7 DEF Registers, RegistersOf
  <2>2. RegistersOf(cpu'[c])
    BY <2>1 DEF RegistersOf
  <2>3. \A d \in Cpus : RegistersOf(cpu'[d])
    BY <1>1, <1>6, <2>2 DEF Registers
  <2>4. QED
    BY <2>3 DEF Registers, RegistersOf, Space
<1>16. Contexts'
  <2>1. ASSUME NEW d \in Cpus, cpu'[d].pc = "irq"
        PROVE  stack'[cpu'[d].thr].thr = cpu'[d].thr /\ stack'[cpu'[d].thr].at = Place(cpu'[d].thr)
    <3>1. d # c
      BY <1>7, <2>1
    <3>2. cpu'[d] = cpu[d] /\ cpu[d].thr # u /\ cpu[d].thr \in Threads
      BY <1>1, <1>2, <1>6, <3>1, Apart, CteTypes
    <3>3. QED
      BY <1>1, <1>10, <2>1, <3>2 DEF Contexts, Trapped
  <2>2. ASSUME NEW x \in Threads, \A d \in Cpus : Busy(d)' => cpu'[d].thr # x
        PROVE  /\ stack'[x].thr = x /\ stack'[x].at = Place(x)
               /\ stack'[x].vm = Space(x) /\ (x \in Users => stack'[x].ksp = x)
    <3>1. CASE x = u
      BY <1>3, <1>11, <3>1 DEF Trapped
    <3>2. CASE x # u
      <4>1. \A d \in Cpus : Busy(d) => cpu[d].thr # x
        BY <1>6, <2>2, <3>2 DEF Busy
      <4>2. QED
        BY <1>1, <1>10, <3>2, <4>1 DEF Contexts, Saved, Trapped
    <3>3. QED
      BY <3>1, <3>2
  <2>3. QED
    BY <2>1, <2>2 DEF Contexts, Saved, Trapped, Place, Space
<1>17. Mapped'
  <2>1. ASSUME NEW d \in Cpus, d # c, cpu[d].vm # None
        PROVE  as'[cpu[d].vm] = as[cpu[d].vm]
    <3>1. cpu[d].vm \in Users /\ cpu[d].vm # u
      BY <1>1, <1>2, <2>1, Apart, CteTypes
    <3>2. QED
      BY <1>12, <3>1
  <2>2. ASSUME NEW d \in Cpus
        PROVE  /\ cpu'[d].pc \in {"run", "irq", "switch", "iret"} =>
                    /\ \A va \in VAs : host'[d][va] = (IF cpu'[d].vm # None /\ va \in as'[cpu'[d].vm].pages
                                                       THEN cpu'[d].vm ELSE None)
                    /\ cpu'[d].vm # None => as'[cpu'[d].vm].mapped = as'[cpu'[d].vm].pages
               /\ cpu'[d].pc = "map" => \A va \in VAs : host'[d][va] = None
    <3>1. CASE d = c
      BY <1>2, <1>3, <1>7, <1>12, <3>1 DEF Space
    <3>2. CASE d # c
      <4>1. cpu'[d] = cpu[d] /\ host'[d] = host[d] /\ (cpu[d].vm # None => as'[cpu[d].vm] = as[cpu[d].vm])
        BY <1>6, <1>12, <2>1, <3>2
      <4>2. /\ cpu[d].pc \in {"run", "irq", "switch", "iret"} =>
                 /\ \A va \in VAs : host[d][va] = (IF cpu[d].vm # None /\ va \in as[cpu[d].vm].pages
                                                   THEN cpu[d].vm ELSE None)
                 /\ cpu[d].vm # None => as[cpu[d].vm].mapped = as[cpu[d].vm].pages
            /\ cpu[d].pc = "map" => \A va \in VAs : host[d][va] = None
        BY <1>1 DEF Mapped, MappedIn, Owner
      <4>3. QED
        BY ONLY <4>1, <4>2
    <3>3. QED
      BY <3>1, <3>2
  <2>3. QED
    BY <2>2 DEF Mapped, MappedIn, Owner
<1>18. QED
  BY <1>13, <1>14, <1>15, <1>16, <1>17 DEF CteInv

(* A step of __am_switch: one CPU changes its registers, its pages and the *)
(* flags of an address space it holds.                                     *)
LEMMA SwitchStep ==
  ASSUME CteInv, NEW c \in Cpus, ~Busy(c), NEW r \in CpuType,
         cpu' = [cpu EXCEPT ![c] = r], r.thr = cpu[c].thr, r.next = cpu[c].next,
         r.pc \in {"map", "iret", "spin"}, r.pc # "spin" => cpu[c].next \in hold[c],
         r.vm # None => r.vm \in hold[c], RegistersOf(r),
         NEW a \in hold[c] \cup {None},
         as' \in [Users -> AsType], \A u \in Users : u # a => as'[u] = as[u],
         NEW h \in [VAs -> Users \cup {None}], host' = [host EXCEPT ![c] = h],
         MappedIn(as', r.pc, r.vm, h),
         UNCHANGED <<stack, tab, hold>>
  PROVE  CteInv'
<1>1. CteTypeOK /\ Held /\ Registers /\ Contexts /\ Mapped
  BY DEF CteInv
<1>2. /\ cpu \in [Cpus -> CpuType] /\ host \in [Cpus -> [VAs -> Users \cup {None}]]
      /\ hold' = hold /\ stack' = stack /\ tab' = tab
  BY <1>1 DEF CteTypeOK
<1>3. /\ cpu'[c] = r /\ host'[c] = h
      /\ \A d \in Cpus : d # c => cpu'[d] = cpu[d] /\ host'[d] = host[d]
      /\ cpu' \in [Cpus -> CpuType] /\ host' \in [Cpus -> [VAs -> Users \cup {None}]]
  BY <1>2
<1>4. CteTypeOK'
  BY <1>1, <1>2, <1>3 DEF CteTypeOK
<1>5. Held'
  BY <1>1, <1>2, <1>3 DEF Held
<1>6. Registers'
  <2>1. \A d \in Cpus : RegistersOf(cpu'[d])
    BY <1>1, <1>3 DEF Registers
  <2>2. QED
    BY <2>1 DEF Registers, RegistersOf, Space
<1>7. Contexts'
  <2>1. \A d \in Cpus : cpu'[d].thr = cpu[d].thr /\ (Busy(d)' <=> Busy(d))
                         /\ (cpu'[d].pc = "irq" <=> cpu[d].pc = "irq")
    BY <1>3 DEF Busy
  <2>2. QED
    BY <1>1, <1>2, <2>1 DEF Contexts, Saved, Trapped, Place, Space
<1>8. Mapped'
  <2>1. ASSUME NEW d \in Cpus, d # c PROVE MappedIn(as', cpu'[d].pc, cpu'[d].vm, host'[d])
    <3>1. MappedIn(as, cpu[d].pc, cpu[d].vm, host[d])
      BY <1>1 DEF Mapped
    <3>2. cpu'[d] = cpu[d] /\ host'[d] = host[d]
      BY <1>3, <2>1
    <3>3. cpu[d].vm # None => as'[cpu[d].vm] = as[cpu[d].vm]
      <4> SUFFICES ASSUME cpu[d].vm # None PROVE as'[cpu[d].vm] = as[cpu[d].vm]
        OBVIOUS
      <4>1. cpu[d].vm \in Users
        BY <1>1, CteTypes
      <4>2. a \in hold[c] => cpu[d].vm # a
        BY <1>1, <2>1, Apart
      <4>3. cpu[d].vm # a
        BY <4>2
      <4>4. QED
        BY <4>1, <4>3
    <3>4. QED
      BY ONLY <3>1, <3>2, <3>3 DEF MappedIn, Owner
  <2>2. MappedIn(as', cpu'[c].pc, cpu'[c].vm, host'[c])
    BY <1>3 DEF MappedIn, Owner
  <2>3. QED
    BY <2>1, <2>2 DEF Mapped, MappedIn, Owner
<1>9. QED
  BY <1>4, <1>5, <1>6, <1>7, <1>8 DEF CteInv

(* Unmapping the old address space (vme.c) keeps the invariant.            *)
LEMMA UnmapStep ==
  ASSUME CteInv, NEW c \in Cpus, unmap_all(c)
  PROVE  CteInv'
<1> DEFINE now == cpu[c].vm
           head == stack[cpu[c].next].vm
           ph == IF head = now THEN "iret" ELSE IF Spins(now) THEN "spin" ELSE "map"
           r == [cpu[c] EXCEPT !.pc = ph]
<1>1. CteTypeOK /\ Held /\ Registers /\ Contexts /\ Mapped /\ cpu[c].pc = "switch"
  BY DEF CteInv, unmap_all
<1>2. /\ cpu[c] \in CpuType /\ cpu \in [Cpus -> CpuType] /\ None \notin Users
      /\ now \in Users \cup {None} /\ as \in [Users -> AsType]
      /\ host \in [Cpus -> [VAs -> Users \cup {None}]] /\ host[c] \in [VAs -> Users \cup {None}]
  BY <1>1, CteTypes DEF CteTypeOK
<1>3. ~Busy(c) /\ cpu[c].next \in hold[c] /\ cpu[c].thr \in hold[c] /\ (now # None => now \in hold[c])
  BY <1>1 DEF Busy, Held
<1>4. head = Space(cpu[c].next) /\ now = Space(cpu[c].thr) /\ cpu[c].mask
  BY <1>1, <1>3, SwitchSaved DEF Saved, Registers, RegistersOf
<1>5. cpu' = [cpu EXCEPT ![c] = r] /\ UNCHANGED <<stack, tab, hold>>
  BY <1>2 DEF unmap_all
<1>6. ph \in {"map", "iret", "spin"} /\ (ph = "iret" => head = now)
  OBVIOUS
<1>7. /\ MappedIn(as, "switch", now, host[c])
  BY <1>1 DEF Mapped
<1> HIDE DEF ph
<1>8. /\ r \in CpuType /\ r.pc = ph /\ r.thr = cpu[c].thr /\ r.next = cpu[c].next /\ r.vm = now
      /\ r.mask = cpu[c].mask
  BY <1>2, <1>6 DEF CpuType
<1> HIDE DEF r
<1>9. RegistersOf(r)
  BY <1>4, <1>6, <1>8 DEF RegistersOf
<1>10. CASE head # now /\ now # None
  <2> DEFINE h == [va \in VAs |-> IF va \in as[now].mapped THEN None ELSE host[c][va]]
  <2>1. /\ host' = [host EXCEPT ![c] = h]
        /\ as' = [as EXCEPT ![now] = [@ EXCEPT !.mapped = {}]]
    BY <1>2, <1>10 DEF unmap_all
  <2>2. h \in [VAs -> Users \cup {None}]
    BY <1>2
  <2>3. as' \in [Users -> AsType] /\ \A u \in Users : u # now => as'[u] = as[u]
    <3>1. [as[now] EXCEPT !.mapped = {}] \in AsType
      <4>1. as[now] \in AsType
        BY <1>2, <1>10
      <4>2. QED
        BY <4>1 DEF AsType
    <3>2. QED
      BY <1>2, <1>10, <2>1, <3>1
  <2>4. \A va \in VAs : h[va] = None
    BY <1>7, <1>10 DEF MappedIn, Owner
  <2> HIDE DEF h
  <2>5. MappedIn(as', r.pc, r.vm, h)
    BY <1>6, <1>8, <1>10, <2>4 DEF MappedIn
  <2> HIDE DEF now, head
  <2>6. /\ now \in hold[c] \cup {None} /\ r.pc \in {"map", "iret", "spin"}
        /\ r.pc # "spin" => cpu[c].next \in hold[c]
        /\ r.vm # None => r.vm \in hold[c]
    BY <1>3, <1>6, <1>8
  <2>7. /\ r \in CpuType /\ r.thr = cpu[c].thr /\ r.next = cpu[c].next /\ RegistersOf(r) /\ ~Busy(c)
        /\ cpu' = [cpu EXCEPT ![c] = r] /\ UNCHANGED <<stack, tab, hold>>
    BY <1>3, <1>5, <1>8, <1>9
  <2>8. as' \in [Users -> AsType] /\ \A u \in Users : u # now => as'[u] = as[u]
    BY <2>3
  <2>9. h \in [VAs -> Users \cup {None}] /\ host' = [host EXCEPT ![c] = h] /\ MappedIn(as', r.pc, r.vm, h)
    BY <2>1, <2>2, <2>5
  <2>10. QED
    BY <2>6, <2>7, <2>8, <2>9, SwitchStep
<1>11. CASE ~(head # now /\ now # None)
  <2>1. host' = host /\ as' = as
    BY <1>11 DEF unmap_all
  <2>2. host' = [host EXCEPT ![c] = host[c]]
    BY <1>2, <2>1
  <2> DEFINE g == host[c]
  <2>4. MappedIn(as', r.pc, r.vm, g)
    <3>1. CASE head = now
      <4>1. ph = "iret"
        BY <3>1 DEF ph
      <4>2. QED
        BY <1>7, <1>8, <2>1, <4>1 DEF MappedIn, Owner
    <3>2. CASE head # now
      BY <1>6, <1>7, <1>8, <1>11, <2>1, <3>2 DEF MappedIn, Owner
    <3>3. QED
      BY <3>1, <3>2
  <2>5. g \in [VAs -> Users \cup {None}] /\ host' = [host EXCEPT ![c] = g]
    BY <1>2, <2>2
  <2> HIDE DEF g
  <2>6. None \in hold[c] \cup {None} /\ as' \in [Users -> AsType] /\ \A u \in Users : u # None => as'[u] = as[u]
    BY <1>2, <2>1
  <2> HIDE DEF now, head
  <2>7. /\ None \in hold[c] \cup {None} /\ r.pc \in {"map", "iret", "spin"}
        /\ r.pc # "spin" => cpu[c].next \in hold[c]
        /\ r.vm # None => r.vm \in hold[c]
    BY <1>3, <1>6, <1>8
  <2>8. /\ r \in CpuType /\ r.thr = cpu[c].thr /\ r.next = cpu[c].next /\ RegistersOf(r) /\ ~Busy(c)
        /\ cpu' = [cpu EXCEPT ![c] = r] /\ UNCHANGED <<stack, tab, hold>>
    BY <1>3, <1>5, <1>8, <1>9
  <2>9. as' \in [Users -> AsType] /\ \A u \in Users : u # None => as'[u] = as[u]
    BY <2>6
  <2>10. g \in [VAs -> Users \cup {None}] /\ host' = [host EXCEPT ![c] = g] /\ MappedIn(as', r.pc, r.vm, g)
    BY <2>4, <2>5
  <2>11. QED
    BY <2>7, <2>8, <2>9, <2>10, SwitchStep
<1>12. QED
  BY <1>10, <1>11

(* Mapping the new address space (vme.c) keeps the invariant.              *)
LEMMA MapStep ==
  ASSUME CteInv, NEW c \in Cpus, map_all(c)
  PROVE  CteInv'
<1> DEFINE head == stack[cpu[c].next].vm
           ph == IF Spins(head) THEN "spin" ELSE "iret"
           r == [cpu[c] EXCEPT !.pc = ph, !.vm = head]
<1>1. CteTypeOK /\ Held /\ Registers /\ Contexts /\ Mapped /\ cpu[c].pc = "map"
  BY DEF CteInv, map_all
<1>2. /\ cpu[c] \in CpuType /\ cpu \in [Cpus -> CpuType] /\ None \notin Users /\ as \in [Users -> AsType]
      /\ host \in [Cpus -> [VAs -> Users \cup {None}]] /\ host[c] \in [VAs -> Users \cup {None}]
  BY <1>1, CteTypes DEF CteTypeOK
<1>3. ~Busy(c) /\ cpu[c].next \in hold[c]
  BY <1>1 DEF Busy, Held
<1>4. head = Space(cpu[c].next) /\ cpu[c].mask
  BY <1>1, <1>3, SwitchSaved DEF Saved, Registers, RegistersOf
<1>5. cpu' = [cpu EXCEPT ![c] = r] /\ UNCHANGED <<stack, tab, hold>>
  BY <1>2 DEF map_all
<1>6. ph \in {"map", "iret", "spin"} /\ ph # "map" /\ head \in Users \cup {None} /\ (head # None => head \in hold[c])
  BY <1>3, <1>4 DEF Space
<1>7. \A va \in VAs : host[c][va] = None
  BY <1>1 DEF Mapped, MappedIn
<1> HIDE DEF ph, head
<1>8. /\ r \in CpuType /\ r.pc = ph /\ r.thr = cpu[c].thr /\ r.next = cpu[c].next /\ r.vm = head
      /\ r.mask = cpu[c].mask
  BY <1>2, <1>6 DEF CpuType
<1> HIDE DEF r
<1>9. RegistersOf(r)
  BY <1>4, <1>6, <1>8 DEF RegistersOf
<1>10. CASE head # None
  <2> DEFINE h == [va \in VAs |-> IF va \in as[head].pages THEN head ELSE host[c][va]]
  <2>1. /\ host' = [host EXCEPT ![c] = h]
        /\ as' = [as EXCEPT ![head] = [@ EXCEPT !.mapped = as[head].pages]]
    BY <1>2, <1>10 DEF map_all, head
  <2>2. h \in [VAs -> Users \cup {None}]
    BY <1>2, <1>6
  <2>3. /\ as' \in [Users -> AsType] /\ \A u \in Users : u # head => as'[u] = as[u]
        /\ as'[head].pages = as[head].pages /\ as'[head].mapped = as[head].pages
    <3> DEFINE n == [as[head] EXCEPT !.mapped = as[head].pages]
    <3>1. n \in AsType /\ n.pages = as[head].pages /\ n.mapped = as[head].pages
      <4>1. as[head] \in AsType
        BY <1>2, <1>6, <1>10
      <4>2. QED
        BY <4>1 DEF AsType
    <3>2. as' = [as EXCEPT ![head] = n]
      BY <2>1
    <3> HIDE DEF n
    <3>3. as'[head] = n
      BY <1>2, <1>6, <1>10, <3>2
    <3>4. QED
      BY <1>2, <1>6, <1>10, <3>1, <3>2, <3>3
  <2>4. \A va \in VAs : h[va] = IF va \in as'[head].pages THEN head ELSE None
    BY <1>7, <2>3
  <2> HIDE DEF h
  <2>5. MappedIn(as', r.pc, r.vm, h)
    BY <1>6, <1>8, <1>10, <2>3, <2>4 DEF MappedIn, Owner
  <2>6. /\ head \in hold[c] \cup {None} /\ r.pc \in {"map", "iret", "spin"}
        /\ r.pc # "spin" => cpu[c].next \in hold[c]
        /\ r.vm # None => r.vm \in hold[c]
    BY <1>3, <1>6, <1>8
  <2>7. /\ r \in CpuType /\ r.thr = cpu[c].thr /\ r.next = cpu[c].next /\ RegistersOf(r) /\ ~Busy(c)
        /\ cpu' = [cpu EXCEPT ![c] = r] /\ UNCHANGED <<stack, tab, hold>>
    BY <1>3, <1>5, <1>8, <1>9
  <2>8. as' \in [Users -> AsType] /\ \A u \in Users : u # head => as'[u] = as[u]
    BY <2>3
  <2>9. h \in [VAs -> Users \cup {None}] /\ host' = [host EXCEPT ![c] = h] /\ MappedIn(as', r.pc, r.vm, h)
    BY <2>1, <2>2, <2>5
  <2>10. QED
    BY <2>6, <2>7, <2>8, <2>9, SwitchStep
<1>11. CASE head = None
  <2>1. host' = host /\ as' = as
    BY <1>11 DEF map_all, head
  <2> DEFINE g == host[c]
  <2>2. g \in [VAs -> Users \cup {None}] /\ host' = [host EXCEPT ![c] = g]
    BY <1>2, <2>1
  <2>3. MappedIn(as', r.pc, r.vm, g)
    BY <1>6, <1>7, <1>8, <1>11 DEF MappedIn, Owner
  <2> HIDE DEF g
  <2>4. None \in hold[c] \cup {None} /\ as' \in [Users -> AsType] /\ \A u \in Users : u # None => as'[u] = as[u]
    BY <1>2, <2>1
  <2>5. /\ None \in hold[c] \cup {None} /\ r.pc \in {"map", "iret", "spin"}
        /\ r.pc # "spin" => cpu[c].next \in hold[c]
        /\ r.vm # None => r.vm \in hold[c]
    BY <1>3, <1>6, <1>8
  <2>6. /\ r \in CpuType /\ r.thr = cpu[c].thr /\ r.next = cpu[c].next /\ RegistersOf(r) /\ ~Busy(c)
        /\ cpu' = [cpu EXCEPT ![c] = r] /\ UNCHANGED <<stack, tab, hold>>
    BY <1>3, <1>5, <1>8, <1>9
  <2>7. as' \in [Users -> AsType] /\ \A u \in Users : u # None => as'[u] = as[u]
    BY <2>4
  <2>8. g \in [VAs -> Users \cup {None}] /\ host' = [host EXCEPT ![c] = g] /\ MappedIn(as', r.pc, r.vm, g)
    BY <2>2, <2>3
  <2>9. QED
    BY <2>5, <2>6, <2>7, <2>8, SwitchStep
<1>12. QED
  BY <1>10, <1>11

(* The end of a signal handler resumes the context chosen (cte.c).         *)
LEMMA IretStep ==
  ASSUME CteInv, NEW c \in Cpus, iret(c)
  PROVE  CteInv'
<1> DEFINE t == cpu[c].next
           ctx == stack[t]
           r == [cpu[c] EXCEPT !.pc = "run", !.thr = ctx.thr, !.at = ctx.at, !.rip = ctx.rip,
                               !.mask = ctx.mask, !.ksp = ctx.ksp, !.ev = "error", !.why = "error",
                               !.ref = None, !.frame = None, !.next = None]
<1>1. CteTypeOK /\ Held /\ Registers /\ Contexts /\ Mapped /\ cpu[c].pc = "iret"
  BY DEF CteInv, iret
<1>2. /\ cpu[c] \in CpuType /\ cpu \in [Cpus -> CpuType] /\ None \notin Users
      /\ stack \in [Threads -> CtxType]
  BY <1>1, CteTypes DEF CteTypeOK
<1>3. ~Busy(c) /\ t \in hold[c]
  BY <1>1 DEF Busy, Held
<1>4. Saved(t) /\ t \in Threads
  BY <1>1, <1>3, SwitchSaved
<1>5. ctx \in CtxType /\ ctx.thr = t /\ ctx.at = Place(t) /\ (t \in Users => ctx.ksp = t) /\ cpu[c].vm = Space(t)
  BY <1>1, <1>2, <1>4 DEF Saved, Trapped, Registers, RegistersOf
<1>6. cpu' = [cpu EXCEPT ![c] = r] /\ stack' = [stack EXCEPT ![t] = Popped]
      /\ UNCHANGED <<tab, hold, as, host>>
  BY <1>2 DEF iret
<1>7. /\ r \in CpuType /\ r.pc = "run" /\ r.thr = t /\ r.at = Place(t) /\ r.ksp = ctx.ksp /\ r.vm = cpu[c].vm
  <2> HIDE DEF ctx
  <2>1. /\ ctx.at \in Places /\ ctx.rip \in Rips /\ ctx.mask \in BOOLEAN /\ ctx.ksp \in Ksps
        /\ "error" \in Events
    BY <1>5 DEF CtxType, Events
  <2> HIDE DEF t
  <2>2. QED
    BY <1>2, <1>4, <1>5, <2>1 DEF CpuType
<1> HIDE DEF r
<1>8. /\ cpu'[c] = r /\ \A d \in Cpus : d # c => cpu'[d] = cpu[d]
      /\ cpu' \in [Cpus -> CpuType]
  BY <1>2, <1>6, <1>7
<1>9. /\ \A x \in Threads : x # t => stack'[x] = stack[x]
      /\ stack' \in [Threads -> CtxType]
  <2>1. Popped \in CtxType
    BY DEF Popped, CtxType, Places, Rips, Ksps
  <2>2. QED
    BY <1>2, <1>4, <1>6, <2>1
<1>10. CteTypeOK'
  BY <1>1, <1>6, <1>8, <1>9 DEF CteTypeOK
<1>11. Held'
  BY <1>1, <1>3, <1>6, <1>7, <1>8 DEF Held
<1>12. Registers'
  <2>1. RegistersOf(r)
    BY <1>5, <1>7 DEF RegistersOf, Place
  <2>2. \A d \in Cpus : RegistersOf(cpu'[d])
    BY <1>1, <1>8, <2>1 DEF Registers
  <2>3. QED
    BY <2>2 DEF Registers, RegistersOf, Space
<1>13. Contexts'
  <2>1. ASSUME NEW d \in Cpus, cpu'[d].pc = "irq"
        PROVE  stack'[cpu'[d].thr].thr = cpu'[d].thr /\ stack'[cpu'[d].thr].at = Place(cpu'[d].thr)
    <3>1. d # c /\ cpu'[d] = cpu[d]
      BY <1>7, <1>8, <2>1
    <3>2. cpu[d].thr # t /\ cpu[d].thr \in Threads
      BY <1>1, <1>3, <3>1, Apart, CteTypes
    <3>3. QED
      BY <1>1, <1>9, <2>1, <3>1, <3>2 DEF Contexts, Trapped
  <2>2. ASSUME NEW x \in Threads, \A d \in Cpus : Busy(d)' => cpu'[d].thr # x
        PROVE  Saved(x) /\ stack'[x] = stack[x]
    <3>1. x # t
      BY <1>7, <1>8, <2>2 DEF Busy
    <3>2. \A d \in Cpus : Busy(d) => cpu[d].thr # x
      BY <1>3, <1>8, <2>2 DEF Busy
    <3>3. QED
      BY <1>1, <1>9, <3>1, <3>2 DEF Contexts
  <2>3. QED
    BY <2>1, <2>2 DEF Contexts, Saved, Trapped, Place, Space
<1>14. Mapped'
  <2>1. ASSUME NEW d \in Cpus PROVE MappedIn(as', cpu'[d].pc, cpu'[d].vm, host'[d])
    <3>1. MappedIn(as, cpu[d].pc, cpu[d].vm, host[d])
      BY <1>1 DEF Mapped
    <3>2. as' = as /\ host' = host /\ cpu'[d].vm = cpu[d].vm
      BY <1>6, <1>7, <1>8
    <3>3. CASE d # c
      BY <1>8, <3>1, <3>2, <3>3
    <3>4. CASE d = c
      BY <1>1, <1>7, <1>8, <3>1, <3>2, <3>4 DEF MappedIn
    <3>5. QED
      BY <3>3, <3>4
  <2>2. QED
    BY <2>1 DEF Mapped, MappedIn, Owner
<1>15. QED
  BY <1>10, <1>11, <1>12, <1>13, <1>14 DEF CteInv

(* A signal that interrupts a thread (cte.c) keeps the invariant.          *)
LEMMA InterruptStep ==
  ASSUME CteInv, NEW c \in Cpus, NEW e \in {"irq_timer", "irq_iodev"}, Interrupt(c, e)
  PROVE  CteInv'
<1>1. /\ cpu[c] \in CpuType /\ cpu \in [Cpus -> CpuType] /\ e \in Events
  BY DEF CteInv, CteTypeOK, Events
<1>2. cpu[c].pc = "run"
  BY DEF CteInv, Registers, RegistersOf, Interrupt
<1>3. cpu[c].at \in Places /\ cpu[c].rip \in Rips /\ cpu[c].mask \in BOOLEAN
  BY <1>1 DEF CpuType
<1>4. CASE cpu[c].at = "lib" /\ cpu' = [cpu EXCEPT ![c].ev = e] /\ UNCHANGED <<stack, tab, hold, as, host>>
  <2> DEFINE r == [cpu[c] EXCEPT !.ev = e]
  <2>1. cpu' = [cpu EXCEPT ![c] = r]
    BY <1>1, <1>4
  <2>2. r \in CpuType /\ r.pc = "run" /\ r.thr = cpu[c].thr /\ r.vm = cpu[c].vm /\ r.ksp = cpu[c].ksp /\ r.at = cpu[c].at
    BY <1>1, <1>2 DEF CpuType
  <2> HIDE DEF r
  <2>3. QED
    BY <1>2, <1>4, <2>1, <2>2, RunStep
<1>5. CASE cpu[c].at # "lib" /\ setup_stack(c, e, None, cpu[c].rip)
  <2>1. e \notin {"pagefault", "syscall"}
    OBVIOUS
  <2>2. QED
    BY <1>1, <1>2, <1>3, <1>5, <2>1, TrapStep
<1>6. QED
  BY <1>4, <1>5 DEF Interrupt

(* Every step of the CPUs keeps the invariant.                             *)
LEMMA CteStep ==
  ASSUME CteInv, [Next]_vars
  PROVE  CteInv'
<1>1. CASE UNCHANGED vars
  <2>1. cpu' = cpu /\ stack' = stack /\ tab' = tab /\ hold' = hold /\ as' = as /\ host' = host
    BY <1>1 DEF vars
  <2>2. CteTypeOK' /\ Held'
    BY <2>1 DEF CteInv, CteTypeOK, Held
  <2>3. Registers'
    BY <2>1 DEF CteInv, Registers, RegistersOf, Space
  <2>4. Contexts'
    BY <2>1 DEF CteInv, Contexts, Busy, Saved, Trapped, Place, Space
  <2>5. Mapped'
    BY <2>1 DEF CteInv, Mapped, MappedIn, Owner
  <2>6. QED
    BY <2>2, <2>3, <2>4, <2>5 DEF CteInv
<1>2. ASSUME NEW c \in Cpus
      PROVE  /\ cpu[c] \in CpuType /\ cpu \in [Cpus -> CpuType]
             /\ cpu[c].at \in Places /\ cpu[c].rip \in Rips /\ cpu[c].mask \in BOOLEAN
             /\ "call" \in Rips /\ "after" \in Rips /\ Boot \in Cpus
  <2>1. cpu[c] \in CpuType /\ cpu \in [Cpus -> CpuType]
    BY DEF CteInv, CteTypeOK
  <2>2. QED
    BY <2>1, ThreadsAssumption DEF CpuType, Rips
<1>3. CASE Keyboard
  BY <1>3, InterruptStep, ThreadsAssumption DEF Keyboard
<1>4. ASSUME NEW c \in Cpus, Timer(c) PROVE CteInv'
  BY <1>4, InterruptStep DEF Timer
<1>5. ASSUME NEW c \in Cpus, yield(c) PROVE CteInv'
  <2>1. "yield" \in Events /\ "yield" \notin {"pagefault", "syscall"} /\ cpu[c].at # "lib" /\ cpu[c].pc = "run"
    BY <1>5 DEF Events, yield
  <2>2. QED
    BY <1>2, <1>5, <2>1, TrapStep DEF yield
<1>6. ASSUME NEW c \in Cpus, Syscall(c) PROVE CteInv'
  <2>1. "syscall" \in Events /\ "syscall" # "pagefault" /\ cpu[c].at = "user" /\ cpu[c].at # "lib" /\ cpu[c].pc = "run"
    BY <1>6 DEF Events, Syscall
  <2>2. QED
    BY <1>2, <1>6, <2>1, TrapStep DEF Syscall
<1>7. ASSUME NEW c \in Cpus, PageFault(c) PROVE CteInv'
  <2>1. "pagefault" \in Events /\ cpu[c].at = "user" /\ cpu[c].at # "lib" /\ cpu[c].pc = "run"
    BY <1>7 DEF Events, PageFault
  <2>2. PICK va \in VAs : setup_stack(c, "pagefault", va, cpu[c].rip)
    BY <1>7 DEF PageFault
  <2>3. QED
    BY <1>2, <2>1, <2>2, TrapStep
<1>8. ASSUME NEW c \in Cpus, irq_handle(c) PROVE CteInv'
  <2>1. cpu[c].pc = "irq" /\ SaveVm(c) /\ (cpu[c].ev \in {"pagefault", "syscall"} => cpu[c].thr \in Users)
        /\ (cpu[c].ev = "pagefault" => cpu[c].ref \in VAs)
    BY <1>8 DEF irq_handle, CteInv, Registers, RegistersOf
  <2>2. CASE cpu[c].ev = "pagefault" /\ map(c, cpu[c].ref) /\ Answer(c, cpu[c].thr)
    BY <2>1, <2>2, AnswerStep
  <2>3. CASE cpu[c].ev = "syscall" /\ (\E va \in VAs : map(c, va)) /\ Answer(c, cpu[c].thr)
    BY <2>1, <2>3, AnswerStep
  <2>4. CASE (\E t \in Ready(c) : Answer(c, t)) /\ UNCHANGED <<as, host>>
    BY <2>1, <2>4, AnswerStep
  <2>5. QED
    BY <1>8, <2>2, <2>3, <2>4 DEF irq_handle
<1>9. ASSUME NEW c \in Cpus, iset(c) PROVE CteInv'
  <2> DEFINE b == ~cpu[c].mask
             r == [cpu[c] EXCEPT !.mask = b]
  <2>1. cpu' = [cpu EXCEPT ![c] = r] /\ UNCHANGED <<stack, tab, hold, as, host>> /\ cpu[c].pc = "run"
    BY <1>2, <1>9 DEF iset
  <2>2. b \in BOOLEAN
    OBVIOUS
  <2> HIDE DEF b
  <2>3. cpu[c] \in CpuType /\ cpu[c].pc = "run"
    BY <1>2, <2>1
  <2>4. r \in CpuType
    BY <2>2, <2>3 DEF CpuType
  <2>5. r.pc = "run" /\ r.thr = cpu[c].thr /\ r.vm = cpu[c].vm /\ r.ksp = cpu[c].ksp /\ r.at = cpu[c].at
    BY <2>3 DEF CpuType
  <2> HIDE DEF r
  <2>6. QED
    BY <2>1, <2>4, <2>5, RunStep
<1>10. ASSUME NEW c \in Cpus, Library(c) PROVE CteInv'
  <2> DEFINE r == [cpu[c] EXCEPT !.at = IF cpu[c].at = "text" THEN "lib" ELSE "text"]
  <2>1. /\ cpu' = [cpu EXCEPT ![c] = r] /\ UNCHANGED <<stack, tab, hold, as, host>> /\ cpu[c].pc = "run"
        /\ cpu[c].at # "user"
    BY <1>2, <1>10 DEF Library
  <2>2. /\ r \in CpuType /\ r.pc = "run" /\ r.thr = cpu[c].thr /\ r.vm = cpu[c].vm /\ r.ksp = cpu[c].ksp
        /\ r.at # "user"
    BY <1>2, <2>1 DEF CpuType, Places
  <2> HIDE DEF r
  <2>3. QED
    BY <2>1, <2>2, RunStep
<1>11. ASSUME NEW c \in Cpus, UserRuns(c) PROVE CteInv'
  <2> DEFINE r == [cpu[c] EXCEPT !.rip = "call"]
  <2>1. cpu' = [cpu EXCEPT ![c] = r] /\ UNCHANGED <<stack, tab, hold, as, host>> /\ cpu[c].pc = "run"
    BY <1>2, <1>11 DEF UserRuns
  <2>2. r \in CpuType /\ r.pc = "run" /\ r.thr = cpu[c].thr /\ r.vm = cpu[c].vm /\ r.ksp = cpu[c].ksp /\ r.at = cpu[c].at
    BY <1>2, <2>1 DEF CpuType
  <2> HIDE DEF r
  <2>3. QED
    BY <2>1, <2>2, RunStep
<1>12. QED
  BY <1>1, <1>3, <1>4, <1>5, <1>6, <1>7, <1>8, <1>9, <1>10, <1>11, UnmapStep, MapStep, IretStep DEF Next

(* The inductive invariant of the traps: every CPU has threads and an      *)
(* address space of its own, its registers fit the thread it runs, and a   *)
(* thread that no CPU executes is saved.                                   *)
THEOREM CteInductive == Spec => []CteInv
BY CteInit, CteStep, PTL DEF Spec

(* cte.c: a trap finds the right kernel stack and event, and no context of *)
(* a waiting thread is overwritten, for any number of CPUs and threads and *)
(* whatever kcontext leaves in ksp.                                        *)
THEOREM CteContextsKept == Spec => []ContextsKept
<1>1. CteInv => ContextsKept
  <2> SUFFICES ASSUME CteInv PROVE ContextsKept
    OBVIOUS
  <2>1. CteTypeOK /\ Held /\ Registers /\ Contexts
    BY DEF CteInv
  <2>2. ASSUME NEW c \in Cpus
        PROVE  /\ Running(c) /\ cpu[c].at = "user" => cpu[c].ksp = cpu[c].thr /\ cpu[c].vm = cpu[c].thr
               /\ cpu[c].pc = "irq" => cpu[c].ev = cpu[c].why /\ cpu[c].frame = cpu[c].thr
    BY <2>1 DEF Registers, RegistersOf, Running, Space
  <2>3. ASSUME NEW t \in Users \cup Kthreads, \A c \in Cpus : t \notin hold[c]
        PROVE  tab[t] = t /\ Saved(t)
    <3>1. t \in Threads
      BY DEF Threads
    <3>2. \A c \in Cpus : cpu[c].thr # t
      BY <2>1, <2>3 DEF Held
    <3>3. QED
      BY <2>1, <3>1, <3>2 DEF Contexts, CteTypeOK
  <2>4. QED
    BY <2>2, <2>3 DEF ContextsKept, Saved, Trapped, Space
<1>2. QED
  BY CteInductive, <1>1, PTL

(* vme.c: a process in user space sees its own pages and no others, on     *)
(* whatever CPU it runs, although the flags that say what to unmap are     *)
(* shared.                                                                 *)
THEOREM CteOwnPages == Spec => []OwnPages
<1>1. CteInv => OwnPages
  <2> SUFFICES ASSUME CteInv, NEW c \in Cpus, Running(c), cpu[c].at = "user", NEW va \in VAs
               PROVE  host[c][va] = IF va \in as[cpu[c].thr].pages THEN cpu[c].thr ELSE None
    BY DEF OwnPages
  <2>1. cpu[c].vm = cpu[c].thr /\ cpu[c].thr \in Users /\ None \notin Users
    BY ThreadsAssumption DEF CteInv, Registers, RegistersOf, Running, Space
  <2>2. MappedIn(as, "run", cpu[c].vm, host[c])
    BY DEF CteInv, Mapped, Running
  <2>3. QED
    BY <2>1, <2>2 DEF MappedIn, Owner
<1>2. QED
  BY CteInductive, <1>1, PTL

-----------------------------------------------------------------------------
(* Start of the CPUs.                                                      *)

IoeRecords == [has : BOOLEAN, done : BOOLEAN, inits : Nat, by : I!AllCpus]
IoeTypeOK ==
  /\ ioe \in IoeRecords
  /\ io \in [I!AllCpus -> BOOLEAN] /\ lazy \in [I!AllCpus -> Nat] /\ prepared \in BOOLEAN
  /\ boot \in {"main", "ioe", "plus", "run"}
  /\ other \in [Others -> {"none", "read", "run"}]
(* A CPU that found the devices not initialised is at it, or they are.     *)
LazyInv ==
  /\ ioe.done <=> ioe.inits > 0
  /\ \A c \in I!AllCpus :
       /\ lazy[c] <= 1 /\ (io[c] => lazy[c] = 1) /\ (lazy[c] = 1 => io[c] \/ ioe.done)
       /\ boot = "main" => IF c = "first" THEN io[c] => ~ioe.done ELSE ~io[c] /\ lazy[c] = 0
(* After ioe_init mpe_init initialises the devices, and the other CPUs are *)
(* let go when it is through.                                              *)
PreparedInv ==
  prepared => /\ \A c \in I!AllCpus : ~io[c] /\ lazy[c] = 0
              /\ IF boot = "ioe" THEN ioe.has /\ ioe.inits = 0
                 ELSE boot # "main" /\ ioe.done /\ ioe.inits = 1
IoeInv ==
  /\ IoeTypeOK /\ LazyInv /\ PreparedInv
  /\ boot = "main" => ioe.inits <= 1
  /\ boot # "run" => sync = 0 /\ \A c \in Others : other[c] # "run"

(* An initialisation.                                                      *)
LEMMA IoeRecord ==
  ASSUME NEW x \in IoeRecords, NEW c \in I!AllCpus,
         NEW y, y = [x EXCEPT !.done = TRUE, !.inits = x.inits + 1, !.by = c]
  PROVE  y \in IoeRecords /\ y.done = TRUE /\ y.inits = x.inits + 1 /\ y.has = x.has
<1> DEFINE n == x.inits + 1
           d == TRUE
           h == x.has
<1>1. n \in Nat /\ d \in BOOLEAN /\ h \in BOOLEAN
  BY DEF IoeRecords
<1>2. y = [has |-> h, done |-> d, inits |-> n, by |-> c]
  BY DEF IoeRecords
<1> HIDE DEF n, d, h
<1>3. y.done = d /\ y.inits = n /\ y.has = h
  BY ONLY <1>2
<1>4. y \in IoeRecords
  BY <1>1, <1>2 DEF IoeRecords
<1>5. QED
  BY <1>3, <1>4 DEF n, d, h

(* IoeInv is inductive for any number of CPUs.                             *)
THEOREM IoeInductive == I!Spec => []IoeInv
<1>1. I!Init => IoeInv
  <2> SUFFICES ASSUME I!Init PROVE IoeInv
    OBVIOUS
  <2>1. "first" \in I!AllCpus
    BY DEF I!AllCpus
  <2>2. ioe \in IoeRecords /\ ioe.inits = 0 /\ ~ioe.done
    BY <2>1 DEF I!Init, IoeRecords
  <2>3. /\ io \in [I!AllCpus -> BOOLEAN] /\ lazy \in [I!AllCpus -> Nat]
        /\ \A c \in I!AllCpus : ~io[c] /\ lazy[c] = 0
    BY DEF I!Init
  <2>4. IoeTypeOK
    BY <2>2, <2>3 DEF I!Init, IoeTypeOK
  <2>5. LazyInv
    BY <2>2, <2>3 DEF LazyInv
  <2>6. QED
    BY <2>2, <2>4, <2>5 DEF I!Init, IoeInv, PreparedInv
<1>2. IoeInv /\ [I!Next]_(I!vars) => IoeInv'
  <2> SUFFICES ASSUME IoeInv, [I!Next]_(I!vars) PROVE IoeInv'
    OBVIOUS
  <2> USE DEF IoeInv
  <2>0. ioe \in IoeRecords /\ "first" \in I!AllCpus
    BY DEF IoeTypeOK, I!AllCpus
  <2>a. ASSUME UNCHANGED <<boot, other, sync, prepared, ioe, io, lazy>> PROVE IoeInv'
    BY <2>a DEF IoeTypeOK, LazyInv, PreparedInv
  <2>1. CASE UNCHANGED I!vars
    BY <2>1, <2>a DEF I!vars
  <2>2. CASE I!ioe_init
    <3>1. /\ ioe' \in IoeRecords /\ ioe'.done = ioe.done /\ ioe'.inits = ioe.inits
          /\ ioe.has => ioe'.has
      BY <2>0, <2>2 DEF I!ioe_init, IoeRecords
    <3>2. UNCHANGED <<boot, other, sync, prepared, io, lazy>>
      BY <2>2 DEF I!ioe_init, I!Start, I!Lazy
    <3>3. QED
      BY <3>1, <3>2 DEF IoeTypeOK, LazyInv, PreparedInv
  <2>3. CASE I!mpe_fork
    <3>1. /\ boot = "main" /\ boot' = "ioe" /\ ~io["first"] /\ UNCHANGED <<sync, ioe, io, lazy>>
          /\ prepared' = (ioe.has /\ ~ioe.done) /\ other' = [c \in Others |-> "read"]
      BY <2>3 DEF I!mpe_fork, I!Runs, I!Lazy
    <3>2. prepared' \in BOOLEAN /\ other' \in [Others -> {"none", "read", "run"}]
      BY <3>1
    <3>3. ~ioe.done => \A c \in I!AllCpus : ~io[c] /\ lazy[c] = 0
      BY <3>1 DEF LazyInv, IoeTypeOK
    <3>4. ~ioe.done => ioe.inits = 0
      BY <2>0 DEF LazyInv, IoeRecords
    <3>5. QED
      BY <3>1, <3>2, <3>3, <3>4 DEF IoeTypeOK, LazyInv, PreparedInv
  <2>4. CASE I!mpe_ioe
    <3>1. /\ boot = "ioe" /\ boot' = "plus" /\ UNCHANGED <<other, sync, prepared, io, lazy>>
      BY <2>4 DEF I!mpe_ioe, I!Lazy
    <3>2. CASE ioe.has
      <4>1. ioe' \in IoeRecords /\ ioe'.done /\ ioe'.inits = ioe.inits + 1
        <5>1. ioe' = [ioe EXCEPT !.done = TRUE, !.inits = ioe.inits + 1, !.by = "first"]
          BY <2>4, <3>2 DEF I!mpe_ioe, I!InitIoe
        <5>2. QED
          BY <2>0, <5>1, IoeRecord, Zenon
      <4>2. ioe.inits \in Nat
        BY <2>0 DEF IoeRecords
      <4>3. QED
        BY <3>1, <4>1, <4>2 DEF IoeTypeOK, LazyInv, PreparedInv
    <3>3. CASE ~ioe.has
      BY <2>4, <3>1, <3>3 DEF I!mpe_ioe, IoeTypeOK, LazyInv, PreparedInv
    <3>4. QED
      BY <3>2, <3>3
  <2>5. CASE I!mpe_plus
    BY <2>5 DEF I!mpe_plus, I!Lazy, IoeTypeOK, LazyInv, PreparedInv
  <2>6. ASSUME NEW c \in I!AllCpus, I!do_io(c) PROVE IoeInv'
    <3>1. /\ UNCHANGED <<boot, other, sync, prepared, ioe>> /\ ~io[c] /\ ~ioe.done
          /\ io' = [io EXCEPT ![c] = TRUE] /\ lazy' = [lazy EXCEPT ![c] = lazy[c] + 1]
      BY <2>6 DEF I!do_io, I!Runs, I!Start
    <3>2. lazy[c] = 0 /\ ioe.inits = 0
      BY <2>0, <3>1 DEF LazyInv, IoeTypeOK, IoeRecords
    <3>3. /\ io' \in [I!AllCpus -> BOOLEAN] /\ lazy' \in [I!AllCpus -> Nat] /\ io'[c] /\ lazy'[c] = 1
          /\ \A e \in I!AllCpus : e # c => io'[e] = io[e] /\ lazy'[e] = lazy[e]
      BY <3>1, <3>2 DEF IoeTypeOK
    <3>4. boot = "main" => c = "first"
      BY <2>6 DEF I!do_io, I!Runs, I!AllCpus
    <3>5. ~prepared
      BY <3>1, <2>6 DEF PreparedInv, I!do_io, I!Runs, I!AllCpus
    <3>6. QED
      BY <3>1, <3>2, <3>3, <3>4, <3>5 DEF IoeTypeOK, LazyInv, PreparedInv
  <2>7. ASSUME NEW c \in I!AllCpus, I!__am_ioe_init(c) PROVE IoeInv'
    <3>1. /\ UNCHANGED <<boot, other, sync, prepared, lazy>> /\ io[c]
          /\ io' = [io EXCEPT ![c] = FALSE]
      BY <2>7 DEF I!__am_ioe_init, I!Start
    <3>2. ioe' \in IoeRecords /\ ioe'.done /\ ioe'.inits = ioe.inits + 1 /\ ioe.inits \in Nat
      <4>1. ioe.inits \in Nat
        BY <2>0 DEF IoeRecords
      <4>2. ioe' = [ioe EXCEPT !.done = TRUE, !.inits = ioe.inits + 1, !.by = c]
        BY <2>7 DEF I!__am_ioe_init, I!InitIoe
      <4>3. QED
        BY <2>0, <4>1, <4>2, IoeRecord, Zenon
    <3>3. /\ io' \in [I!AllCpus -> BOOLEAN] /\ ~io'[c] /\ \A e \in I!AllCpus : e # c => io'[e] = io[e]
      BY <3>1 DEF IoeTypeOK
    <3>4. ~prepared
      BY <3>1 DEF PreparedInv
    <3>5. boot = "main" => c = "first" /\ ioe.inits = 0
      BY <3>1, <3>2 DEF LazyInv
    <3>6. QED
      BY <3>1, <3>2, <3>3, <3>4, <3>5 DEF IoeTypeOK, LazyInv, PreparedInv
  <2>8. ASSUME NEW c \in Others, I!mpe_child(c) PROVE IoeInv'
    BY <2>8 DEF I!mpe_child, I!Lazy, IoeTypeOK, LazyInv, PreparedInv
  <2>9. ASSUME NEW key \in BOOLEAN, I!Event(key) PROVE IoeInv'
    BY <2>9, <2>a DEF I!Event, I!Start, I!Lazy
  <2>10. ASSUME NEW i \in DOMAIN thread, I!SDL_WaitEvent(i) \/ I!event_thread(i) PROVE IoeInv'
    BY <2>10, <2>a DEF I!SDL_WaitEvent, I!event_thread, I!Start, I!Lazy
  <2>11. CASE I!__am_input_keybrd
    BY <2>11, <2>a DEF I!__am_input_keybrd, I!Start, I!Lazy
  <2>12. QED
    BY <2>1, <2>2, <2>3, <2>4, <2>5, <2>6, <2>7, <2>8, <2>9, <2>10, <2>11 DEF I!Next
<1>3. QED
  BY <1>1, <1>2, PTL DEF I!Spec

(* mpe.c, ioe.c: if the program calls ioe_init before mpe_init and uses no *)
(* device before, the devices are initialised once and before any other    *)
(* CPU runs, and no CPU ever finds them not initialised; in any case, and  *)
(* whatever the CPUs race for, no CPU finds them so twice, and a program   *)
(* that does not call mpe_init initialises them once.  For any number of   *)
(* CPUs.                                                                   *)
THEOREM NativeIoeOnce == I!Spec => []IoeOnce
<1>1. IoeInv => IoeOnce
  <2> SUFFICES ASSUME IoeInv PROVE IoeOnce
    OBVIOUS
  <2>1. prepared /\ (\E c \in Others : other[c] = "run") => ioe.done
    BY DEF IoeInv, PreparedInv
  <2>2. prepared => ioe.inits <= 1 /\ \A c \in I!AllCpus : lazy[c] = 0
    BY DEF IoeInv, PreparedInv
  <2>3. \A c \in I!AllCpus : lazy[c] <= 1
    BY DEF IoeInv, LazyInv
  <2>4. QED
    BY <2>1, <2>2, <2>3 DEF IoeInv, IoeOnce, I!IoeOnce
<1>2. QED
  BY <1>1, IoeInductive, PTL

-----------------------------------------------------------------------------
(* Keys on their way to the program.                                       *)

Nums == Nat \cup {-1}
Pos(e) == {e} \ {-1, 0}
Below(a, b) == \A x \in a, y \in b : x < y
RingKeys(rg, f, r) == [i \in 1..((r - f) % KeyQueueLen) |-> rg[(f + i - 1) % KeyQueueLen]]
RingSlots == 0..(KeyQueueLen - 1)

(* A key behind the others of a sequence. *)
LEMMA KeysAppend ==
  ASSUME NEW s \in Seq(Nums), NEW e \in Nums
  PROVE  /\ Append(s, e) \in Seq(Nums)
         /\ I!Keys(Append(s, e)) = I!Keys(s) \cup Pos(e)
         /\ I!Ascending(s) /\ Below(I!Keys(s), Pos(e)) => I!Ascending(Append(s, e))
<1> DEFINE a == Append(s, e)
<1>1. /\ a \in Seq(Nums) /\ DOMAIN a = 1..(Len(s) + 1) /\ a[Len(s) + 1] = e
      /\ DOMAIN s = 1..Len(s) /\ Len(s) \in Nat
      /\ \A i \in 1..Len(s) : a[i] = s[i] /\ s[i] \in Nums
  BY AppendProperties
<1> HIDE DEF a
<1>2. I!Keys(a) = I!Keys(s) \cup Pos(e)
  <2>1. ASSUME NEW x PROVE x \in I!Keys(a) <=> x \in I!Keys(s) \cup Pos(e)
    <3>1. (\E i \in DOMAIN a : x = a[i]) <=> (\E i \in DOMAIN s : x = s[i]) \/ x = e
      BY <1>1
    <3>2. QED
      BY <3>1 DEF I!Keys, Pos
  <2>2. QED
    BY <2>1
<1>3. ASSUME I!Ascending(s), Below(I!Keys(s), Pos(e)) PROVE I!Ascending(a)
  <2> SUFFICES ASSUME NEW i \in DOMAIN a, NEW j \in DOMAIN a, i < j, a[i] > 0, a[j] > 0
               PROVE  a[i] < a[j]
    BY DEF I!Ascending
  <2>1. i \in 1..Len(s) /\ a[i] = s[i]
    BY <1>1
  <2>2. CASE j \in 1..Len(s)
    BY <1>1, <1>3, <2>1, <2>2 DEF I!Ascending
  <2>3. CASE j = Len(s) + 1
    <3>1. s[i] \in I!Keys(s) /\ e \in Pos(e) /\ a[j] = e
      BY <1>1, <2>1, <2>3 DEF I!Keys, Pos
    <3>2. QED
      BY <1>3, <2>1, <3>1 DEF Below
  <2>4. QED
    BY <1>1, <2>2, <2>3
<1>4. QED
  BY <1>1, <1>2, <1>3 DEF a

(* The first key of a sequence and those behind it. *)
LEMMA KeysTail ==
  ASSUME NEW s \in Seq(Nums), s # <<>>
  PROVE  /\ Head(s) \in Nums /\ Tail(s) \in Seq(Nums)
         /\ I!Keys(s) = Pos(Head(s)) \cup I!Keys(Tail(s))
         /\ I!Ascending(s) => I!Ascending(Tail(s)) /\ Below(Pos(Head(s)), I!Keys(Tail(s)))
<1> DEFINE t == Tail(s)
           h == Head(s)
<1>1. /\ t \in Seq(Nums) /\ DOMAIN t = 1..(Len(s) - 1) /\ h = s[1] /\ h \in Nums
      /\ DOMAIN s = 1..Len(s) /\ Len(s) \in Nat /\ Len(s) > 0
      /\ \A i \in 1..(Len(s) - 1) : t[i] = s[i + 1] /\ t[i] \in Nums
  <2>1. t \in Seq(Nums) /\ Len(t) = Len(s) - 1 /\ Len(s) \in Nat /\ Len(s) > 0 /\ \A i \in 1..Len(t) : t[i] = s[i + 1]
    BY HeadTailProperties, EmptySeq
  <2>2. h = s[1] /\ DOMAIN s = 1..Len(s) /\ s[1] \in Nums
    BY <2>1
  <2> HIDE DEF t, h
  <2>3. \A i \in 1..Len(t) : t[i] \in Nums
    BY <2>1
  <2>4. QED
    BY <2>1, <2>2, <2>3
<1> HIDE DEF t, h
<1>2. I!Keys(s) = Pos(h) \cup I!Keys(t)
  <2>1. ASSUME NEW x PROVE x \in I!Keys(s) <=> x \in Pos(h) \cup I!Keys(t)
    <3>1. (\E i \in DOMAIN s : x = s[i]) => x = h \/ \E i \in DOMAIN t : x = t[i]
      <4> SUFFICES ASSUME NEW i \in DOMAIN s, x = s[i], i # 1 PROVE \E k \in DOMAIN t : x = t[k]
        BY <1>1
      <4>1. i - 1 \in 1..(Len(s) - 1) /\ (i - 1) + 1 = i
        BY <1>1
      <4>2. x = t[i - 1]
        BY <1>1, <4>1
      <4>3. QED
        BY <1>1, <4>1, <4>2
    <3>2. x = h \/ (\E i \in DOMAIN t : x = t[i]) => \E i \in DOMAIN s : x = s[i]
      <4>1. CASE x = h
        BY <1>1, <4>1
      <4>2. ASSUME NEW i \in DOMAIN t, x = t[i] PROVE \E k \in DOMAIN s : x = s[k]
        <5>1. i + 1 \in DOMAIN s /\ x = s[i + 1]
          BY <1>1, <4>2
        <5>2. QED
          BY <5>1
      <4>3. QED
        BY <4>1, <4>2
    <3>3. QED
      BY <3>1, <3>2 DEF I!Keys, Pos
  <2>2. QED
    BY <2>1
<1>3. ASSUME I!Ascending(s) PROVE I!Ascending(t) /\ Below(Pos(h), I!Keys(t))
  <2>1. ASSUME NEW i \in DOMAIN t, NEW j \in DOMAIN t, i < j, t[i] > 0, t[j] > 0
        PROVE  t[i] < t[j]
    <3>1. i + 1 \in DOMAIN s /\ j + 1 \in DOMAIN s /\ i + 1 < j + 1 /\ t[i] = s[i + 1] /\ t[j] = s[j + 1]
      BY <1>1, <2>1
    <3>2. QED
      BY <1>3, <2>1, <3>1 DEF I!Ascending
  <2>2. ASSUME NEW x \in Pos(h), NEW y \in I!Keys(t) PROVE x < y
    <3>1. PICK j \in DOMAIN t : y = t[j] /\ y \notin {-1, 0}
      BY <2>2 DEF I!Keys
    <3>2. 1 \in DOMAIN s /\ j + 1 \in DOMAIN s /\ 1 < j + 1 /\ y = s[j + 1] /\ x = s[1] /\ x \notin {-1, 0}
          /\ x \in Nums /\ y \in Nums
      BY <1>1, <2>2, <3>1 DEF Pos
    <3>3. x > 0 /\ y > 0
      BY <3>1, <3>2 DEF Nums
    <3>4. QED
      BY <1>3, <3>2, <3>3 DEF I!Ascending
  <2>3. QED
    BY <2>1, <2>2 DEF I!Ascending, Below
<1>4. QED
  BY <1>1, <1>2, <1>3 DEF t, h

(* One sequence behind another. *)
LEMMA KeysConcat ==
  ASSUME NEW s \in Seq(Nums), NEW t \in Seq(Nums)
  PROVE  /\ s \o t \in Seq(Nums)
         /\ I!Keys(s \o t) = I!Keys(s) \cup I!Keys(t)
         /\ I!Ascending(s) /\ I!Ascending(t) /\ Below(I!Keys(s), I!Keys(t)) => I!Ascending(s \o t)
<1> DEFINE a == s \o t
           m == Len(s)
           n == Len(t)
<1>1. /\ a \in Seq(Nums) /\ DOMAIN a = 1..(m + n) /\ DOMAIN s = 1..m /\ DOMAIN t = 1..n
      /\ m \in Nat /\ n \in Nat
      /\ \A i \in 1..(m + n) : a[i] = IF i <= m THEN s[i] ELSE t[i - m]
      /\ \A i \in 1..m : s[i] \in Nums
      /\ \A i \in 1..n : t[i] \in Nums
  <2>1. a \in Seq(Nums) /\ Len(a) = m + n /\ \A i \in 1..Len(a) : a[i] = IF i <= m THEN s[i] ELSE t[i - m]
    BY ConcatProperties
  <2>2. m \in Nat /\ n \in Nat
    OBVIOUS
  <2>3. \A i \in 1..m : s[i] \in Nums
    OBVIOUS
  <2>4. \A i \in 1..n : t[i] \in Nums
    OBVIOUS
  <2>5. DOMAIN s = 1..m /\ DOMAIN t = 1..n
    OBVIOUS
  <2> HIDE DEF a, m, n
  <2>6. DOMAIN a = 1..(m + n)
    BY <2>1
  <2>7. QED
    BY <2>1, <2>2, <2>3, <2>4, <2>5, <2>6
<1> HIDE DEF a, m, n
<1>2. I!Keys(a) = I!Keys(s) \cup I!Keys(t)
  <2>1. ASSUME NEW x PROVE x \in I!Keys(a) <=> x \in I!Keys(s) \cup I!Keys(t)
    <3>1. ASSUME NEW i \in DOMAIN a, x = a[i] PROVE (\E k \in DOMAIN s : x = s[k]) \/ (\E k \in DOMAIN t : x = t[k])
      <4>1. CASE i <= m
        BY <1>1, <3>1, <4>1
      <4>2. CASE ~(i <= m)
        <5>1. i - m \in DOMAIN t /\ x = t[i - m]
          BY <1>1, <3>1, <4>2
        <5>2. QED
          BY <5>1
      <4>3. QED
        BY <4>1, <4>2
    <3>2. ASSUME NEW k \in DOMAIN s, x = s[k] PROVE \E i \in DOMAIN a : x = a[i]
      <4>1. k \in DOMAIN a /\ k <= m /\ a[k] = s[k]
        BY <1>1
      <4>2. QED
        BY <3>2, <4>1
    <3>3. ASSUME NEW k \in DOMAIN t, x = t[k] PROVE \E i \in DOMAIN a : x = a[i]
      <4>1. m + k \in DOMAIN a /\ ~(m + k <= m) /\ (m + k) - m = k
        BY <1>1
      <4>2. x = a[m + k]
        BY <1>1, <3>3, <4>1
      <4>3. QED
        BY <4>1, <4>2
    <3>4. QED
      BY <3>1, <3>2, <3>3 DEF I!Keys
  <2>2. QED
    BY <2>1
<1>3. ASSUME I!Ascending(s), I!Ascending(t), Below(I!Keys(s), I!Keys(t)) PROVE I!Ascending(a)
  <2> SUFFICES ASSUME NEW i \in DOMAIN a, NEW j \in DOMAIN a, i < j, a[i] > 0, a[j] > 0
               PROVE  a[i] < a[j]
    BY DEF I!Ascending
  <2>1. CASE j <= m
    BY <1>1, <1>3, <2>1 DEF I!Ascending
  <2>2. CASE i <= m /\ ~(j <= m)
    <3>1. i \in DOMAIN s /\ j - m \in DOMAIN t /\ a[i] = s[i] /\ a[j] = t[j - m]
      BY <1>1, <2>2
    <3>2. s[i] \in I!Keys(s) /\ t[j - m] \in I!Keys(t)
      BY <3>1 DEF I!Keys
    <3>3. QED
      BY <1>3, <3>1, <3>2 DEF Below
  <2>3. CASE ~(i <= m)
    <3>1. i - m \in DOMAIN t /\ j - m \in DOMAIN t /\ a[i] = t[i - m] /\ a[j] = t[j - m] /\ i - m < j - m
      BY <1>1, <2>3
    <3>2. QED
      BY <1>3, <3>1 DEF I!Ascending
  <2>4. QED
    BY <1>1, <2>1, <2>2, <2>3
<1>4. QED
  BY <1>1, <1>2, <1>3 DEF a

-----------------------------------------------------------------------------
(* The ring: storing behind the last key, and taking the first.            *)
LEMMA RingKeysType ==
  ASSUME NEW rg \in [RingSlots -> Nums], NEW f \in RingSlots, NEW r \in RingSlots
  PROVE  /\ RingKeys(rg, f, r) \in Seq(Nums)
         /\ Len(RingKeys(rg, f, r)) = (r - f) % KeyQueueLen
         /\ \A i \in 1..((r - f) % KeyQueueLen) : RingKeys(rg, f, r)[i] = rg[(f + (i - 1)) % KeyQueueLen]
<1>1. (r - f) % KeyQueueLen \in Nat
  BY KeyQueueAssumption DEF RingSlots
<1>2. \A i \in 1..((r - f) % KeyQueueLen) : (f + (i - 1)) % KeyQueueLen \in RingSlots
  BY KeyQueueAssumption DEF RingSlots
<1>3. \A i \in 1..((r - f) % KeyQueueLen) : rg[(f + (i - 1)) % KeyQueueLen] \in Nums
  BY <1>2
<1>4. QED
  BY <1>1, <1>3 DEF RingKeys

(* The modulus is a wrap at the end of the ring. *)
LEMMA NextSlot ==
  ASSUME NEW k \in RingSlots
  PROVE  /\ (k + 1) % KeyQueueLen \in RingSlots
         /\ (k + 1) % KeyQueueLen = IF k = KeyQueueLen - 1 THEN 0 ELSE k + 1
<1>1. CASE k = KeyQueueLen - 1
  <2>1. k + 1 = KeyQueueLen
    BY <1>1, KeyQueueAssumption
  <2>2. KeyQueueLen % KeyQueueLen = 0
    BY KeyQueueAssumption
  <2>3. QED
    BY <1>1, <2>1, <2>2, KeyQueueAssumption DEF RingSlots
<1>2. CASE k # KeyQueueLen - 1
  <2>1. (k + 1) % KeyQueueLen = k + 1
    BY <1>2, KeyQueueAssumption DEF RingSlots
  <2>2. QED
    BY <1>2, <2>1, KeyQueueAssumption DEF RingSlots
<1>3. QED
  BY <1>1, <1>2

(* How many keys the ring holds with one more. *)
LEMMA RingCount ==
  ASSUME NEW f \in RingSlots, NEW r \in RingSlots,
         NEW r2, r2 = IF r = KeyQueueLen - 1 THEN 0 ELSE r + 1, r2 # f
  PROVE  (r - f) % KeyQueueLen \in Nat /\ (r2 - f) % KeyQueueLen = ((r - f) % KeyQueueLen) + 1
<1>1. CASE r >= f
  <2>1. (r - f) % KeyQueueLen = r - f
    BY <1>1, KeyQueueAssumption DEF RingSlots
  <2>2. (r2 - f) % KeyQueueLen = r - f + 1
    BY <1>1, KeyQueueAssumption DEF RingSlots
  <2>3. QED
    BY <1>1, <2>1, <2>2 DEF RingSlots
<1>2. CASE r < f
  <2>1. (r - f) % KeyQueueLen = r - f + KeyQueueLen
    BY <1>2, KeyQueueAssumption DEF RingSlots
  <2>2. (r2 - f) % KeyQueueLen = r - f + KeyQueueLen + 1
    BY <1>2, KeyQueueAssumption DEF RingSlots
  <2>3. QED
    BY <1>2, <2>1, <2>2, KeyQueueAssumption DEF RingSlots
<1>3. QED
  BY <1>1, <1>2 DEF RingSlots

(* A key stored at the rear (input.c) follows those in the ring.           *)
LEMMA RingStore ==
  ASSUME NEW rg \in [RingSlots -> Nums], NEW f \in RingSlots, NEW r \in RingSlots, NEW e \in Nums,
         NEW r2, r2 = (r + 1) % KeyQueueLen,
         NEW g \in [RingSlots -> Nums], g[r] = e, \A k \in RingSlots : k # r => g[k] = rg[k]
  PROVE  /\ r2 \in RingSlots
         /\ r2 = f => RingKeys(g, f, r2) = <<>>
         /\ r2 # f => RingKeys(g, f, r2) = Append(RingKeys(rg, f, r), e)
<1> DEFINE s == RingKeys(rg, f, r)
           t == RingKeys(g, f, r2)
           m == (r - f) % KeyQueueLen
           a == Append(s, e)
<1>1. g \in [RingSlots -> Nums] /\ g[r] = e /\ \A k \in RingSlots : k # r => g[k] = rg[k]
  OBVIOUS
<1>2. r2 \in RingSlots /\ r2 = IF r = KeyQueueLen - 1 THEN 0 ELSE r + 1
  BY NextSlot
<1>3. CASE r2 = f
  <2>1. (r2 - f) % KeyQueueLen = 0
    BY <1>2, <1>3, KeyQueueAssumption DEF RingSlots
  <2>2. t \in Seq(Nums) /\ Len(t) = 0
    BY <1>1, <1>2, <2>1, RingKeysType
  <2> HIDE DEF t
  <2>3. t = <<>>
    BY <2>2
  <2>4. QED
    BY <1>1, <1>2, <1>3, <2>3 DEF t
<1>4. CASE r2 # f
  <2>1. m \in Nat /\ (r2 - f) % KeyQueueLen = m + 1
    BY <1>2, <1>4, RingCount
  <2>2. (f + m) % KeyQueueLen = r
    BY KeyQueueAssumption DEF RingSlots
  <2>3. \A k \in 1..m : (f + (k - 1)) % KeyQueueLen \in RingSlots /\ (f + (k - 1)) % KeyQueueLen # r
    BY KeyQueueAssumption DEF RingSlots
  <2>4. s \in Seq(Nums) /\ Len(s) = m /\ \A k \in 1..m : s[k] = rg[(f + (k - 1)) % KeyQueueLen]
    BY RingKeysType
  <2>5. t \in Seq(Nums) /\ Len(t) = m + 1 /\ \A k \in 1..(m + 1) : t[k] = g[(f + (k - 1)) % KeyQueueLen]
    <3>1. /\ t \in Seq(Nums) /\ Len(t) = (r2 - f) % KeyQueueLen
          /\ \A k \in 1..((r2 - f) % KeyQueueLen) : t[k] = g[(f + (k - 1)) % KeyQueueLen]
      BY <1>1, <1>2, RingKeysType
    <3> HIDE DEF t, m
    <3>2. QED
      BY <2>1, <3>1
  <2> HIDE DEF s, t, m
  <2>6. a \in Seq(Nums) /\ Len(a) = Len(s) + 1 /\ a[Len(s) + 1] = e
        /\ \A k \in 1..Len(s) : a[k] = s[k]
    BY <2>4, AppendProperties
  <2> HIDE DEF a
  <2>7. t[m + 1] = e
    <3>1. m + 1 \in 1..(m + 1) /\ (m + 1) - 1 = m
      BY <2>1
    <3>2. QED
      BY <3>1, <1>1, <2>2, <2>5
  <2>8. \A k \in 1..Len(t) : t[k] = a[k]
    <3> SUFFICES ASSUME NEW k \in 1..Len(t) PROVE t[k] = a[k]
      OBVIOUS
    <3>1. CASE k \in 1..m
      BY <3>1, <1>1, <2>3, <2>4, <2>5, <2>6
    <3>2. CASE k = m + 1
      BY <3>2, <2>4, <2>6, <2>7
    <3>3. QED
      BY <2>1, <2>5, <3>1, <3>2
  <2>9. t = a
    BY <2>4, <2>5, <2>6, <2>8, SeqEqual
  <2>10. QED
    BY <1>1, <1>2, <1>4, <2>9 DEF t, a, s
<1>5. QED
  BY <1>3, <1>4

(* A key taken from the front (input.c) leaves the others in order.        *)
LEMMA RingTake ==
  ASSUME NEW rg \in [RingSlots -> Nums], NEW f \in RingSlots, NEW r \in RingSlots, f # r,
         NEW f2, f2 = (f + 1) % KeyQueueLen
  PROVE  /\ f2 \in RingSlots
         /\ RingKeys(rg, f, r) # <<>>
         /\ Head(RingKeys(rg, f, r)) = rg[f]
         /\ Tail(RingKeys(rg, f, r)) = RingKeys(rg, f2, r)
<1> DEFINE m == (r - f) % KeyQueueLen
           s == RingKeys(rg, f, r)
           u == RingKeys(rg, f2, r)
           t == Tail(s)
<1>1. f2 \in RingSlots /\ f2 = IF f = KeyQueueLen - 1 THEN 0 ELSE f + 1
  BY NextSlot
<1>2. m \in Nat /\ m > 0 /\ (r - f2) % KeyQueueLen = m - 1
  BY <1>1, KeyQueueAssumption DEF RingSlots
<1>3. f % KeyQueueLen = f /\ \A k \in 1..(m - 1) : (f2 + (k - 1)) % KeyQueueLen = (f + k) % KeyQueueLen
  BY <1>1, KeyQueueAssumption DEF RingSlots
<1>4. s \in Seq(Nums) /\ Len(s) = m /\ \A k \in 1..m : s[k] = rg[(f + (k - 1)) % KeyQueueLen]
  BY RingKeysType
<1>5. u \in Seq(Nums) /\ Len(u) = m - 1 /\ \A k \in 1..(m - 1) : u[k] = rg[(f2 + (k - 1)) % KeyQueueLen]
  <2>1. /\ u \in Seq(Nums) /\ Len(u) = (r - f2) % KeyQueueLen
        /\ \A k \in 1..((r - f2) % KeyQueueLen) : u[k] = rg[(f2 + (k - 1)) % KeyQueueLen]
    BY <1>1, RingKeysType
  <2> HIDE DEF u, m
  <2>2. QED
    BY <1>2, <2>1
<1> HIDE DEF m, s, u
<1>6. s # <<>>
  BY <1>2, <1>4
<1>7. t \in Seq(Nums) /\ Len(t) = m - 1 /\ \A k \in 1..Len(t) : t[k] = s[k + 1]
  BY <1>4, <1>6, HeadTailProperties
<1> HIDE DEF t
<1>8. Head(s) = rg[f]
  <2>1. s[1] = rg[(f + (1 - 1)) % KeyQueueLen] /\ f + (1 - 1) = f
    BY <1>2, <1>4, KeyQueueAssumption DEF RingSlots
  <2>2. Head(s) = s[1]
    BY <1>4, <1>6
  <2>3. QED
    BY <2>1, <2>2, <1>3
<1>9. ASSUME NEW k \in 1..Len(t)
      PROVE  t[k] = u[k]
  <2>1. k \in 1..(m - 1) /\ k + 1 \in 1..m /\ (k + 1) - 1 = k
    BY <1>2, <1>7
  <2>2. t[k] = s[k + 1]
    BY <1>7
  <2>3. s[k + 1] = rg[(f + k) % KeyQueueLen]
    BY <2>1, <1>4
  <2>4. u[k] = rg[(f2 + (k - 1)) % KeyQueueLen]
    BY <2>1, <1>5
  <2>5. QED
    BY <2>1, <2>2, <2>3, <2>4, <1>3
<1>10. t = u
  BY <1>5, <1>7, <1>9, SeqEqual
<1>11. QED
  BY <1>1, <1>6, <1>8, <1>10 DEF t, s, u, m

-----------------------------------------------------------------------------
(* The keys read, in the ring, at the event thread and in SDL's queue      *)
(* ascend from one to the next, and without an overrun they are all.       *)
InOrder(g, r, t, s, n, overrun) ==
  /\ I!Ascending(g) /\ I!Ascending(r) /\ I!Ascending(s)
  /\ Below(I!Keys(g), I!Keys(r)) /\ Below(I!Keys(t), I!Keys(s))
  /\ Below(I!Keys(g) \cup I!Keys(r), I!Keys(t) \cup I!Keys(s))
  /\ I!Keys(g) \cup I!Keys(r) \cup I!Keys(t) \cup I!Keys(s) \subseteq 1..n
  /\ ~overrun => I!Keys(g) \cup I!Keys(r) \cup I!Keys(t) \cup I!Keys(s) = 1..n
Positive(s) == \A i \in DOMAIN s : s[i] > 0

KeyTypeOK ==
  /\ thread \in Seq(Nums) /\ sdl \in Seq(Nums) /\ got \in Seq(Nums)
  /\ ring \in [RingSlots -> Nums] /\ key_f \in RingSlots /\ key_r \in RingSlots
  /\ nkeys \in Nat /\ full \in BOOLEAN
  /\ Len(thread) = ioe.inits
KeyOrder ==
  ioe.inits <= 1 =>
    /\ InOrder(got, RingKeys(ring, key_f, key_r), thread, sdl, nkeys, full)
    /\ Positive(got) /\ Positive(RingKeys(ring, key_f, key_r))

(* An event is pressed: a key behind all others, or none. *)
LEMMA OrderPressed ==
  ASSUME NEW g, NEW r, NEW t, NEW s \in Seq(Nums), NEW n \in Nat, NEW f,
         InOrder(g, r, t, s, n, f)
  PROVE  /\ InOrder(g, r, t, Append(s, n + 1), n + 1, f)
         /\ InOrder(g, r, t, Append(s, 0), n, f)
<1> DEFINE kg == I!Keys(g)
           kr == I!Keys(r)
           kt == I!Keys(t)
           ks == I!Keys(s)
           s1 == Append(s, n + 1)
           s0 == Append(s, 0)
<1>1. /\ I!Ascending(g) /\ I!Ascending(r) /\ I!Ascending(s)
      /\ Below(kg, kr) /\ Below(kt, ks) /\ Below(kg \cup kr, kt \cup ks)
      /\ kg \cup kr \cup kt \cup ks \subseteq 1..n
      /\ ~f => kg \cup kr \cup kt \cup ks = 1..n
  BY DEF InOrder
<1>2. Pos(n + 1) = {n + 1} /\ Pos(0) = {} /\ n + 1 \in Nums /\ 0 \in Nums
  BY DEF Pos, Nums
<1>3. Below(ks, Pos(n + 1)) /\ Below(ks, Pos(0))
  <2> HIDE DEF kg, kr, kt, ks
  <2>1. QED
    BY <1>1, <1>2 DEF Below
<1>4. I!Keys(s1) = ks \cup {n + 1} /\ I!Ascending(s1) /\ I!Keys(s0) = ks /\ I!Ascending(s0)
  BY <1>1, <1>2, <1>3, KeysAppend
<1> HIDE DEF kg, kr, kt, ks, s1, s0
<1>5. /\ Below(kt, ks \cup {n + 1}) /\ Below(kg \cup kr, kt \cup (ks \cup {n + 1}))
      /\ kg \cup kr \cup kt \cup (ks \cup {n + 1}) \subseteq 1..(n + 1)
  BY <1>1 DEF Below
<1>6. ~f => kg \cup kr \cup kt \cup (ks \cup {n + 1}) = 1..(n + 1)
  <2> SUFFICES ASSUME ~f PROVE kg \cup kr \cup kt \cup (ks \cup {n + 1}) = 1..(n + 1)
    OBVIOUS
  <2>1. 1..(n + 1) = (1..n) \cup {n + 1}
    OBVIOUS
  <2>2. QED
    BY <1>1, <2>1
<1>7. InOrder(g, r, t, s1, n + 1, f)
  BY <1>1, <1>4, <1>5, <1>6 DEF InOrder, kg, kr, kt, ks
<1>8. InOrder(g, r, t, s0, n, f)
  BY <1>1, <1>4 DEF InOrder, kg, kr, kt, ks
<1>9. QED
  BY <1>7, <1>8 DEF s1, s0

(* The event thread fetches the first event of SDL. *)
LEMMA OrderFetched ==
  ASSUME NEW g, NEW r, NEW t, NEW s \in Seq(Nums), s # <<>>, NEW n \in Nat, NEW f, NEW t2,
         InOrder(g, r, t, s, n, f), I!Keys(t2) = Pos(Head(s)), I!Keys(t) = {}
  PROVE  InOrder(g, r, t2, Tail(s), n, f)
<1> DEFINE kg == I!Keys(g)
           kr == I!Keys(r)
           ks == I!Keys(s)
           kh == Pos(Head(s))
           s1 == Tail(s)
           k1 == I!Keys(s1)
<1>1. /\ I!Ascending(g) /\ I!Ascending(r) /\ I!Ascending(s)
      /\ Below(kg, kr) /\ Below(kg \cup kr, ks)
      /\ kg \cup kr \cup ks \subseteq 1..n
      /\ ~f => kg \cup kr \cup ks = 1..n
  BY DEF InOrder
<1>2. ks = kh \cup k1 /\ I!Ascending(s1) /\ Below(kh, k1) /\ I!Keys(t2) = kh
  BY <1>1, KeysTail
<1> HIDE DEF kg, kr, ks, kh, k1, s1
<1>3. /\ Below(kg \cup kr, kh \cup k1) /\ kg \cup kr \cup kh \cup k1 \subseteq 1..n
      /\ ~f => kg \cup kr \cup kh \cup k1 = 1..n
  <2>1. kg \cup kr \cup ks = kg \cup kr \cup kh \cup k1
    BY <1>2
  <2>2. QED
    BY <1>1, <1>2, <2>1
<1>4. InOrder(g, r, t2, s1, n, f)
  BY <1>1, <1>2, <1>3 DEF InOrder, kg, kr, k1
<1>5. QED
  BY <1>4 DEF s1

(* The event thread stores its key; an overrun empties the ring. *)
LEMMA OrderStored ==
  ASSUME NEW g, NEW r \in Seq(Nums), NEW t, NEW s, NEW n \in Nat, NEW f,
         NEW e \in Nums, NEW t2, NEW r2, NEW f2,
         InOrder(g, r, t, s, n, f), I!Keys(t) = {e}, Pos(e) = {e}, I!Keys(t2) = {},
         (r2 = Append(r, e) /\ f2 = f) \/ (r2 = <<>> /\ f2)
  PROVE  InOrder(g, r2, t2, s, n, f2)
<1> DEFINE kg == I!Keys(g)
           kr == I!Keys(r)
           ks == I!Keys(s)
           k2 == I!Keys(r2)
<1>1. /\ I!Ascending(g) /\ I!Ascending(r) /\ I!Ascending(s)
      /\ Below(kg, kr) /\ Below({e}, ks) /\ Below(kg \cup kr, {e} \cup ks)
      /\ kg \cup kr \cup {e} \cup ks \subseteq 1..n
      /\ ~f => kg \cup kr \cup {e} \cup ks = 1..n
  BY DEF InOrder
<1>2. CASE r2 = Append(r, e) /\ f2 = f
  <2>1. Below(kr, Pos(e))
    <3> HIDE DEF kg, kr, ks
    <3>1. QED
      BY <1>1 DEF Below
  <2>2. k2 = kr \cup {e} /\ I!Ascending(r2)
    BY <1>1, <1>2, <2>1, KeysAppend
  <2> HIDE DEF kg, kr, ks, k2
  <2>3. /\ Below(kg, kr \cup {e}) /\ Below(kg \cup (kr \cup {e}), ks)
        /\ kg \cup (kr \cup {e}) \cup ks = kg \cup kr \cup {e} \cup ks
    BY <1>1 DEF Below
  <2>4. Below({}, ks)
    BY DEF Below
  <2>5. kg \cup k2 \cup {} \cup ks = kg \cup kr \cup {e} \cup ks /\ {} \cup ks = ks
    BY <2>2
  <2>6. QED
    BY <1>1, <1>2, <2>2, <2>3, <2>4, <2>5 DEF InOrder, kg, ks, k2
<1>3. CASE r2 = <<>> /\ f2
  <2>1. k2 = {} /\ I!Ascending(r2)
    BY <1>3 DEF I!Keys, I!Ascending
  <2> HIDE DEF kg, kr, ks, k2
  <2>2. Below(kg, {}) /\ Below({}, ks) /\ Below(kg \cup {}, {} \cup ks) /\ kg \cup {} \cup {} \cup ks \subseteq 1..n
    BY <1>1 DEF Below
  <2>3. QED
    BY <1>1, <1>3, <2>1, <2>2 DEF InOrder, kg, ks, k2
<1>4. QED
  BY <1>2, <1>3

(* The program reads the first key of the ring. *)
LEMMA OrderRead ==
  ASSUME NEW g \in Seq(Nums), NEW r \in Seq(Nums), r # <<>>, NEW t, NEW s, NEW n \in Nat, NEW f,
         InOrder(g, r, t, s, n, f), Positive(g), Positive(r)
  PROVE  /\ InOrder(Append(g, Head(r)), Tail(r), t, s, n, f)
         /\ Positive(Append(g, Head(r))) /\ Positive(Tail(r))
<1> DEFINE kg == I!Keys(g)
           kr == I!Keys(r)
           kt == I!Keys(t)
           ks == I!Keys(s)
           h  == Head(r)
           kh == Pos(h)
           r1 == Tail(r)
           k1 == I!Keys(r1)
           g1 == Append(g, h)
<1>1. /\ I!Ascending(g) /\ I!Ascending(r) /\ I!Ascending(s)
      /\ Below(kg, kr) /\ Below(kt, ks) /\ Below(kg \cup kr, kt \cup ks)
      /\ kg \cup kr \cup kt \cup ks \subseteq 1..n
      /\ ~f => kg \cup kr \cup kt \cup ks = 1..n
  BY DEF InOrder
<1>2. /\ kr = kh \cup k1 /\ I!Ascending(r1) /\ Below(kh, k1)
      /\ h \in Nums /\ r1 \in Seq(Nums)
  BY <1>1, KeysTail
<1>3. Below(kg, kh)
  <2> HIDE DEF kg, kr, kh, k1
  <2>1. QED
    BY <1>1, <1>2 DEF Below
<1>4. I!Keys(g1) = kg \cup kh /\ I!Ascending(g1) /\ g1 \in Seq(Nums)
  BY <1>1, <1>2, <1>3, KeysAppend
<1>5. Len(r) \in Nat /\ Len(r) > 0 /\ h = r[1] /\ Len(r1) = Len(r) - 1 /\ \A i \in 1..Len(r1) : r1[i] = r[i + 1]
  <2>1. Len(r) > 0
    BY EmptySeq
  <2>2. QED
    BY <2>1, HeadTailProperties
<1>6. /\ Len(g1) = Len(g) + 1 /\ g1[Len(g) + 1] = h /\ Len(g) \in Nat
      /\ \A i \in 1..Len(g) : g1[i] = g[i]
  BY <1>2, AppendProperties
<1> HIDE DEF h, r1, g1
<1>7. Positive(r1)
  <2> SUFFICES ASSUME NEW i \in 1..Len(r1) PROVE r1[i] > 0
    BY <1>2 DEF Positive
  <2>1. r1[i] = r[i + 1] /\ i + 1 \in DOMAIN r
    BY <1>5
  <2>2. QED
    BY <2>1 DEF Positive
<1>8. Positive(g1)
  <2> SUFFICES ASSUME NEW i \in 1..(Len(g) + 1) PROVE g1[i] > 0
    BY <1>4, <1>6 DEF Positive
  <2>1. CASE i \in 1..Len(g)
    BY <1>6, <2>1 DEF Positive
  <2>2. CASE i = Len(g) + 1
    BY <1>5, <1>6, <2>2 DEF Positive
  <2>3. QED
    BY <1>6, <2>1, <2>2
<1> HIDE DEF kg, kr, kt, ks, kh, k1
<1>9. /\ Below(kg \cup kh, k1) /\ (kg \cup kh) \cup k1 = kg \cup kr
  BY <1>1, <1>2 DEF Below
<1>10. InOrder(g1, r1, t, s, n, f)
  BY <1>1, <1>2, <1>4, <1>9 DEF InOrder, kg, kt, ks, k1
<1>11. QED
  BY <1>7, <1>8, <1>10 DEF g1, r1, h

-----------------------------------------------------------------------------
(* The key of a thread that is the only one. *)
LEMMA OnlyThread ==
  ASSUME NEW t \in Seq(Nums), NEW i \in DOMAIN t, Len(t) <= 1
  PROVE  I!Keys(t) = Pos(t[i])
<1>1. DOMAIN t = 1..Len(t) /\ Len(t) \in Nat /\ i \in 1..Len(t)
  OBVIOUS
<1>2. Len(t) = 1
  BY <1>1
<1>3. DOMAIN t = {1} /\ i = 1
  BY <1>1, <1>2
<1>4. QED
  BY <1>3 DEF I!Keys, Pos

(* An initialisation starts one more event thread.                         *)
LEMMA InitThread ==
  ASSUME ioe \in IoeRecords, KeyTypeOK, NEW c \in I!AllCpus, I!InitIoe(c)
  PROVE  /\ ioe'.inits = ioe.inits + 1 /\ thread' = Append(thread, -1)
         /\ thread' \in Seq(Nums) /\ Len(thread') = ioe'.inits
<1> DEFINE m == -1
<1>1. ioe' = [ioe EXCEPT !.done = TRUE, !.inits = ioe.inits + 1, !.by = c]
  BY DEF I!InitIoe
<1>2. ioe'.inits = ioe.inits + 1
  BY <1>1, IoeRecord, Zenon
<1>3. thread' = Append(thread, m)
  BY DEF I!InitIoe
<1>4. thread \in Seq(Nums) /\ m \in Nums /\ Len(thread) = ioe.inits
  BY DEF KeyTypeOK, Nums
<1> HIDE DEF m
<1>5. thread' \in Seq(Nums) /\ Len(thread') = Len(thread) + 1
  BY ONLY <1>3, <1>4, AppendProperties
<1>6. QED
  BY <1>2, <1>3, <1>4, <1>5 DEF m

(* Every step keeps the types of the ring of keys.                         *)
LEMMA KeyTypeStep ==
  IoeInv /\ KeyTypeOK /\ [I!Next]_(I!vars) => KeyTypeOK'
<1> SUFFICES ASSUME IoeInv, KeyTypeOK, [I!Next]_(I!vars) PROVE KeyTypeOK'
  OBVIOUS
<1> USE DEF KeyTypeOK
<1>0. ioe \in IoeRecords /\ ioe.inits \in Nat /\ -1 \in Nums /\ 0 \in Nums
  BY DEF IoeInv, IoeTypeOK, IoeRecords, Nums
<1>1. CASE UNCHANGED I!vars
  BY <1>1 DEF I!vars
<1>2. CASE I!ioe_init
  <2>1. ioe'.inits = ioe.inits
    BY <1>0, <1>2 DEF I!ioe_init, IoeRecords
  <2>2. QED
    BY <1>2, <2>1 DEF I!ioe_init, I!Ring
<1>3. CASE I!mpe_fork \/ I!mpe_plus \/ \E c \in Others : I!mpe_child(c)
  BY <1>3 DEF I!mpe_fork, I!mpe_plus, I!mpe_child, I!Ring
<1>4. ASSUME NEW c \in I!AllCpus, I!InitIoe(c), UNCHANGED <<sdl, ring, key_f, key_r, nkeys, nevents, got, full>>
      PROVE  KeyTypeOK'
  <2>1. thread' \in Seq(Nums) /\ Len(thread') = ioe'.inits
    BY <1>0, <1>4, InitThread
  <2>2. QED
    BY <1>4, <2>1
<1>5. CASE I!mpe_ioe \/ \E c \in I!AllCpus : I!do_io(c) \/ I!__am_ioe_init(c)
  <2>1. "first" \in I!AllCpus
    BY DEF I!AllCpus
  <2>2. CASE I!mpe_ioe
    BY <1>4, <2>1, <2>2 DEF I!mpe_ioe, I!Ring
  <2>3. CASE \E c \in I!AllCpus : I!do_io(c) \/ I!__am_ioe_init(c)
    BY <1>4, <2>3 DEF I!do_io, I!__am_ioe_init, I!Ring
  <2>4. QED
    BY <1>5, <2>2, <2>3
<1>6. ASSUME NEW key \in BOOLEAN, I!Event(key) PROVE KeyTypeOK'
  <2>1. nkeys' \in Nat /\ (IF key THEN nkeys + 1 ELSE 0) \in Nums
    BY <1>6 DEF I!Event, Nums
  <2>2. sdl' \in Seq(Nums)
    BY <1>6, <2>1 DEF I!Event
  <2>3. QED
    BY <1>6, <2>1, <2>2 DEF I!Event, I!Ring
<1>7. ASSUME NEW i \in DOMAIN thread, I!SDL_WaitEvent(i) PROVE KeyTypeOK'
  <2>1. Head(sdl) \in Nums /\ Tail(sdl) \in Seq(Nums)
    BY <1>7, KeysTail DEF I!SDL_WaitEvent
  <2>2. thread' \in Seq(Nums) /\ Len(thread') = Len(thread)
    BY <1>7, <2>1 DEF I!SDL_WaitEvent
  <2>3. QED
    BY <1>7, <2>1, <2>2 DEF I!SDL_WaitEvent, I!Ring
<1>8. ASSUME NEW i \in DOMAIN thread, I!event_thread(i) PROVE KeyTypeOK'
  <2>1. thread' \in Seq(Nums) /\ Len(thread') = Len(thread)
    BY <1>0, <1>8 DEF I!event_thread
  <2>2. CASE thread[i] = 0
    BY <1>8, <2>1, <2>2 DEF I!event_thread, I!Ring
  <2>3. CASE thread[i] # 0
    <3>1. key_r' \in RingSlots /\ ring' \in [RingSlots -> Nums]
      BY <1>8, <2>3, NextSlot DEF I!event_thread
    <3>2. QED
      BY <1>8, <2>1, <2>3, <3>1 DEF I!event_thread
  <2>4. QED
    BY <2>2, <2>3
<1>9. CASE I!__am_input_keybrd
  <2>1. key_f' \in RingSlots /\ got' \in Seq(Nums)
    BY <1>9, NextSlot DEF I!__am_input_keybrd
  <2>2. QED
    BY <1>9, <2>1 DEF I!__am_input_keybrd
<1>10. QED
  BY <1>1, <1>2, <1>3, <1>5, <1>6, <1>7, <1>8, <1>9 DEF I!Next

(* Every step keeps the keys in the order in which they were pressed.      *)
LEMMA KeyOrderStep ==
  IoeInv /\ KeyTypeOK /\ KeyTypeOK' /\ KeyOrder /\ [I!Next]_(I!vars) => KeyOrder'
<1> SUFFICES ASSUME IoeInv, KeyTypeOK, KeyTypeOK', KeyOrder, [I!Next]_(I!vars), ioe'.inits <= 1
             PROVE  /\ InOrder(got', RingKeys(ring', key_f', key_r'), thread', sdl', nkeys', full')
                    /\ Positive(got') /\ Positive(RingKeys(ring', key_f', key_r'))
  BY DEF KeyOrder
<1> DEFINE g == got
           rg == ring
           f == key_f
           r == key_r
           q == RingKeys(rg, f, r)
           t == thread
           s == sdl
           n == nkeys
           o == full
<1>0. ioe \in IoeRecords /\ ioe.inits \in Nat
  BY DEF IoeInv, IoeTypeOK, IoeRecords
<1>1. ASSUME ioe.inits <= 1
      PROVE  InOrder(g, q, t, s, n, o) /\ Positive(g) /\ Positive(q) /\ Len(t) <= 1
  BY <1>1 DEF KeyOrder, KeyTypeOK
<1>2. /\ t \in Seq(Nums) /\ s \in Seq(Nums) /\ g \in Seq(Nums) /\ q \in Seq(Nums)
      /\ rg \in [RingSlots -> Nums] /\ f \in RingSlots /\ r \in RingSlots /\ n \in Nat
      /\ o \in BOOLEAN
  BY RingKeysType DEF KeyTypeOK
<1>3. CASE UNCHANGED I!vars
  BY <1>1, <1>3 DEF I!vars
<1>4. CASE I!ioe_init \/ I!mpe_fork \/ I!mpe_plus \/ \E c \in Others : I!mpe_child(c)
  <2>1. /\ got' = got /\ ring' = ring /\ key_f' = key_f /\ key_r' = key_r /\ thread' = thread
        /\ sdl' = sdl /\ nkeys' = nkeys /\ full' = full /\ ioe'.inits = ioe.inits
    BY <1>0, <1>4 DEF I!ioe_init, I!mpe_fork, I!mpe_plus, I!mpe_child, I!Ring, IoeRecords
  <2>2. QED
    BY <1>1, <2>1
<1>5. ASSUME NEW c \in I!AllCpus, I!InitIoe(c), UNCHANGED <<sdl, ring, key_f, key_r, nkeys, nevents, got, full>>
      PROVE  /\ InOrder(got', RingKeys(ring', key_f', key_r'), thread', sdl', nkeys', full')
             /\ Positive(got') /\ Positive(RingKeys(ring', key_f', key_r'))
  <2>1. ioe'.inits = ioe.inits + 1 /\ thread' = Append(thread, -1)
    BY <1>0, <1>5, InitThread
  <2>2. ioe.inits = 0 /\ Len(t) = 0
    BY <1>0, <2>1 DEF KeyTypeOK
  <2>3. I!Keys(t) = {} /\ I!Keys(thread') = {}
    <3>1. -1 \in Nums /\ Pos(-1) = {}
      BY DEF Nums, Pos
    <3>2. t = <<>>
      BY <1>2, <2>2
    <3>3. I!Keys(<<>>) = {}
      BY DEF I!Keys
    <3>4. I!Keys(Append(<<>>, -1)) = I!Keys(<<>>) \cup Pos(-1)
      <4> DEFINE m == -1
      <4>1. <<>> \in Seq(Nums) /\ m \in Nums
        BY <3>1
      <4> HIDE DEF m
      <4>2. I!Keys(Append(<<>>, m)) = I!Keys(<<>>) \cup Pos(m)
        BY <4>1, KeysAppend
      <4>3. QED
        BY <4>2 DEF m
    <3>5. QED
      BY <2>1, <3>1, <3>2, <3>3, <3>4
  <2>4. QED
    BY <1>1, <1>5, <2>2, <2>3 DEF InOrder
<1>6. CASE I!mpe_ioe \/ \E c \in I!AllCpus : I!do_io(c) \/ I!__am_ioe_init(c)
  <2>1. CASE I!mpe_ioe /\ ~ioe.has
    BY <1>1, <2>1 DEF I!mpe_ioe, I!Ring
  <2>2. CASE I!mpe_ioe /\ ioe.has
    <3>1. "first" \in I!AllCpus
      BY DEF I!AllCpus
    <3>2. QED
      BY <1>5, <2>2, <3>1 DEF I!mpe_ioe, I!Ring
  <2>3. ASSUME NEW c \in I!AllCpus, I!do_io(c) \/ I!__am_ioe_init(c)
        PROVE  /\ InOrder(got', RingKeys(ring', key_f', key_r'), thread', sdl', nkeys', full')
               /\ Positive(got') /\ Positive(RingKeys(ring', key_f', key_r'))
    <3>1. CASE I!do_io(c)
      BY <1>1, <3>1 DEF I!do_io, I!Ring
    <3>2. CASE I!__am_ioe_init(c)
      BY <1>5, <3>2 DEF I!__am_ioe_init, I!Ring
    <3>3. QED
      BY <2>3, <3>1, <3>2
  <2>4. QED
    BY <1>6, <2>1, <2>2, <2>3
<1>7. ASSUME NEW key \in BOOLEAN, I!Event(key)
      PROVE  /\ InOrder(got', RingKeys(ring', key_f', key_r'), thread', sdl', nkeys', full')
             /\ Positive(got') /\ Positive(RingKeys(ring', key_f', key_r'))
  <2>1. /\ got' = g /\ RingKeys(ring', key_f', key_r') = q /\ thread' = t /\ full' = o /\ ioe' = ioe
        /\ sdl' = IF key THEN Append(s, n + 1) ELSE Append(s, 0)
        /\ nkeys' = IF key THEN n + 1 ELSE n
    BY <1>2, <1>7 DEF I!Event, I!Ring
  <2>2. InOrder(g, q, t, s, n, o) /\ Positive(g) /\ Positive(q)
    BY <1>1, <2>1
  <2> HIDE DEF g, q, t, s, n, o
  <2>3. InOrder(g, q, t, Append(s, n + 1), n + 1, o) /\ InOrder(g, q, t, Append(s, 0), n, o)
    BY <1>2, <2>2, OrderPressed
  <2>4. QED
    BY <2>1, <2>2, <2>3
<1>8. ASSUME NEW i \in DOMAIN thread, I!SDL_WaitEvent(i)
      PROVE  /\ InOrder(got', RingKeys(ring', key_f', key_r'), thread', sdl', nkeys', full')
             /\ Positive(got') /\ Positive(RingKeys(ring', key_f', key_r'))
  <2> DEFINE h == Head(s)
             t2 == [t EXCEPT ![i] = h]
  <2>1. /\ got' = g /\ RingKeys(ring', key_f', key_r') = q /\ full' = o /\ ioe' = ioe /\ nkeys' = n
        /\ thread' = t2 /\ sdl' = Tail(s) /\ s # <<>> /\ t[i] = -1 /\ i \in DOMAIN t
    BY <1>8 DEF I!SDL_WaitEvent, I!Ring
  <2>2. InOrder(g, q, t, s, n, o) /\ Positive(g) /\ Positive(q) /\ Len(t) <= 1
    BY <1>1, <2>1
  <2>3. h \in Nums
    BY <1>2, <2>1, KeysTail
  <2> HIDE DEF g, q, t, s, n, o, h
  <2>4. I!Keys(t) = {} /\ I!Keys(t2) = Pos(h)
    <3>0. t2 \in Seq(Nums) /\ Len(t2) = Len(t) /\ i \in DOMAIN t2 /\ t2[i] = h
      BY <1>2, <2>1, <2>3
    <3> HIDE DEF t2
    <3>1. I!Keys(t) = Pos(t[i]) /\ I!Keys(t2) = Pos(h)
      BY <1>2, <2>1, <2>2, <3>0, OnlyThread
    <3>2. QED
      BY <2>1, <3>1 DEF Pos
  <2> HIDE DEF t2
  <2>5. I!Keys(t2) = Pos(Head(s))
    BY <2>4 DEF h
  <2>6. InOrder(g, q, t2, Tail(s), n, o)
    BY <1>2, <2>1, <2>2, <2>4, <2>5, OrderFetched
  <2>7. QED
    BY <2>1, <2>2, <2>6
<1>9. ASSUME NEW i \in DOMAIN thread, I!event_thread(i)
      PROVE  /\ InOrder(got', RingKeys(ring', key_f', key_r'), thread', sdl', nkeys', full')
             /\ Positive(got') /\ Positive(RingKeys(ring', key_f', key_r'))
  <2> DEFINE e == t[i]
             m == -1
             t2 == [t EXCEPT ![i] = m]
             r2 == (r + 1) % KeyQueueLen
             rg2 == [rg EXCEPT ![r] = e]
             q2 == RingKeys(rg2, f, r2)
  <2>1. /\ got' = g /\ ioe' = ioe /\ nkeys' = n /\ thread' = t2 /\ sdl' = s /\ i \in DOMAIN t
        /\ e # -1
    BY <1>9 DEF I!event_thread
  <2>2. InOrder(g, q, t, s, n, o) /\ Positive(g) /\ Positive(q) /\ Len(t) <= 1
    BY <1>1, <2>1
  <2>3. e \in Nums /\ m \in Nums /\ Pos(m) = {}
    BY <1>2, <2>1 DEF Pos, Nums
  <2>4. IF e = 0 THEN RingKeys(ring', key_f', key_r') = q /\ full' = o
        ELSE RingKeys(ring', key_f', key_r') = q2 /\ full' = (o \/ r2 = f)
    BY <1>9 DEF I!event_thread, I!Ring
  <2>5. (r2 = f => q2 = <<>>) /\ (r2 # f => q2 = Append(q, e))
    <3>1. r2 = (r + 1) % KeyQueueLen
      OBVIOUS
    <3> HIDE DEF r2, e, rg, f, r
    <3>2. rg2 \in [RingSlots -> Nums] /\ rg2[r] = e /\ \A k \in RingSlots : k # r => rg2[k] = rg[k]
      BY <1>2, <2>3
    <3> HIDE DEF rg2
    <3>3. rg \in [RingSlots -> Nums] /\ f \in RingSlots /\ r \in RingSlots /\ e \in Nums
      BY <1>2, <2>3
    <3>4. QED
      BY ONLY <3>1, <3>2, <3>3, RingStore
  <2> HIDE DEF g, q, t, s, n, o, m
  <2>6. i \in DOMAIN t /\ Len(t) <= 1
    BY <2>1, <2>2
  <2>7. I!Keys(t) = Pos(e) /\ I!Keys(t2) = {}
    <3>0. t2 \in Seq(Nums) /\ Len(t2) = Len(t) /\ i \in DOMAIN t2 /\ t2[i] = m
      BY <1>2, <2>3, <2>6
    <3> HIDE DEF t2
    <3>1. I!Keys(t) = Pos(t[i]) /\ I!Keys(t2) = Pos(m)
      BY <1>2, <2>6, <3>0, OnlyThread
    <3>2. QED
      BY <2>3, <3>1
  <2> HIDE DEF t2, r2, q2, e
  <2>8. CASE e = 0
    <3>1. I!Keys(t) = {}
      BY <2>7, <2>8 DEF Pos
    <3>2. InOrder(g, q, t2, s, n, o)
      BY <2>2, <2>7, <3>1 DEF InOrder
    <3>3. QED
      BY <2>1, <2>2, <2>4, <2>8, <3>2
  <2>9. CASE e # 0
    <3>1. Pos(e) = {e}
      BY <2>1, <2>9 DEF Pos
    <3>2. (q2 = Append(q, e) /\ (o \/ r2 = f) = o) \/ (q2 = <<>> /\ (o \/ r2 = f))
      BY <1>2, <2>5
    <3> DEFINE o2 == o \/ r2 = f
    <3>3. (q2 = Append(q, e) /\ o2 = o) \/ (q2 = <<>> /\ o2)
      BY <3>2
    <3> HIDE DEF o2
    <3>4. InOrder(g, q2, t2, s, n, o2)
      BY <1>2, <2>2, <2>3, <2>7, <3>1, <3>3, OrderStored
    <3>5. Positive(q2)
      <4>1. CASE q2 = <<>>
        BY <4>1 DEF Positive
      <4>2. CASE q2 = Append(q, e)
        <5>1. e > 0
          BY <2>1, <2>3, <2>9 DEF Nums
        <5>2. /\ q2 \in Seq(Nums) /\ Len(q2) = Len(q) + 1 /\ q2[Len(q) + 1] = e /\ Len(q) \in Nat
              /\ \A k \in 1..Len(q) : q2[k] = q[k]
          BY <1>2, <2>3, <4>2, AppendProperties
        <5>3. \A k \in 1..Len(q) : q[k] > 0
          BY <1>2, <2>2 DEF Positive
        <5>4. \A k \in 1..(Len(q) + 1) : q2[k] > 0
          BY <5>1, <5>2, <5>3
        <5>5. QED
          BY <5>2, <5>4 DEF Positive
      <4>3. QED
        BY <3>3, <4>1, <4>2
    <3>6. QED
      BY <2>1, <2>2, <2>4, <2>9, <3>4, <3>5 DEF o2
  <2>10. QED
    BY <2>8, <2>9
<1>10. CASE I!__am_input_keybrd
  <2> DEFINE f2 == (f + 1) % KeyQueueLen
             q2 == RingKeys(rg, f2, r)
             g2 == Append(g, rg[f])
  <2>1. /\ got' = g2 /\ RingKeys(ring', key_f', key_r') = q2 /\ full' = o /\ ioe' = ioe
        /\ nkeys' = n /\ thread' = t /\ sdl' = s /\ f # r
    BY <1>10 DEF I!__am_input_keybrd
  <2>2. InOrder(g, q, t, s, n, o) /\ Positive(g) /\ Positive(q)
    BY <1>1, <2>1
  <2>3. q # <<>> /\ Head(q) = rg[f] /\ Tail(q) = q2
    BY <1>2, <2>1, RingTake
  <2> HIDE DEF g, q, t, s, n, o, q2, f2, rg, f, r
  <2>4. /\ InOrder(Append(g, Head(q)), Tail(q), t, s, n, o)
        /\ Positive(Append(g, Head(q))) /\ Positive(Tail(q))
    BY <1>2, <2>2, <2>3, OrderRead
  <2>5. QED
    BY <2>1, <2>3, <2>4
<1>11. QED
  BY <1>3, <1>4, <1>6, <1>7, <1>8, <1>9, <1>10 DEF I!Next

(* input.c: with one event thread the program reads keys in the order in   *)
(* which they were pressed, none twice, and none is missing unless the     *)
(* ring was overrun, for every length of the ring and any number of CPUs   *)
(* and events.                                                             *)
THEOREM NativeKeys == I!Spec => []NativeKeysInOrder
<1>1. I!Init => KeyTypeOK /\ KeyOrder
  <2> SUFFICES ASSUME I!Init PROVE KeyTypeOK /\ KeyOrder
    OBVIOUS
  <2>1. /\ <<>> \in Seq(Nums) /\ Len(<<>>) = 0 /\ 0 \in Nums /\ 0 \in RingSlots
        /\ (0 - 0) % KeyQueueLen = 0
    BY KeyQueueAssumption DEF Nums, RingSlots
  <2>2. KeyTypeOK
    BY <2>1 DEF I!Init, KeyTypeOK, RingSlots
  <2>3. RingKeys(ring, key_f, key_r) = <<>>
    <3>1. RingKeys(ring, 0, 0) \in Seq(Nums) /\ Len(RingKeys(ring, 0, 0)) = 0
      BY <2>1, <2>2, RingKeysType DEF KeyTypeOK
    <3> DEFINE z == RingKeys(ring, 0, 0)
    <3> HIDE DEF z
    <3>2. z \in Seq(Nums) /\ Len(z) = 0
      BY <3>1 DEF z
    <3>3. z = <<>>
      BY <3>2
    <3>4. QED
      BY <3>3 DEF z, I!Init
  <2>4. I!Keys(<<>>) = {} /\ I!Ascending(<<>>) /\ Positive(<<>>) /\ 1..0 = {}
    BY DEF I!Keys, I!Ascending, Positive
  <2>5. InOrder(<<>>, <<>>, <<>>, <<>>, 0, FALSE)
    BY <2>4 DEF InOrder, Below
  <2>6. QED
    BY <2>2, <2>3, <2>4, <2>5 DEF I!Init, KeyOrder
<1>2. IoeInv /\ KeyTypeOK /\ KeyOrder /\ [I!Next]_(I!vars) => (KeyTypeOK /\ KeyOrder)'
  BY KeyTypeStep, KeyOrderStep
<1>3. KeyTypeOK /\ KeyOrder => NativeKeysInOrder
  <2> SUFFICES ASSUME KeyTypeOK, KeyOrder, ioe.inits <= 1
               PROVE  /\ I!Ascending(I!Path)
                      /\ \A i \in DOMAIN got : got[i] > 0
                      /\ ~full => I!Keys(I!Path) = 1..nkeys
    BY DEF NativeKeysInOrder, I!NativeKeysInOrder
  <2> DEFINE q == RingKeys(ring, key_f, key_r)
             a == got \o q
             b == a \o thread
  <2>1. /\ thread \in Seq(Nums) /\ sdl \in Seq(Nums) /\ got \in Seq(Nums) /\ q \in Seq(Nums)
        /\ Len(thread) <= 1
    BY RingKeysType DEF KeyTypeOK
  <2>2. InOrder(got, q, thread, sdl, nkeys, full) /\ Positive(got)
    BY DEF KeyOrder
  <2>3. I!Path = b \o sdl
    BY DEF I!Path, I!InRing, RingKeys
  <2> HIDE DEF q
  <2>4. I!Ascending(thread)
    BY <2>1 DEF I!Ascending
  <2>5. a \in Seq(Nums) /\ I!Keys(a) = I!Keys(got) \cup I!Keys(q) /\ I!Ascending(a)
    BY <2>1, <2>2, KeysConcat DEF InOrder
  <2> HIDE DEF a
  <2>6. Below(I!Keys(a), I!Keys(thread))
    BY <2>2, <2>5 DEF InOrder, Below
  <2>7. b \in Seq(Nums) /\ I!Keys(b) = I!Keys(a) \cup I!Keys(thread) /\ I!Ascending(b)
    BY <2>1, <2>4, <2>5, <2>6, KeysConcat
  <2> HIDE DEF b
  <2>8. Below(I!Keys(b), I!Keys(sdl))
    BY <2>2, <2>5, <2>7 DEF InOrder, Below
  <2>9. I!Keys(b \o sdl) = I!Keys(b) \cup I!Keys(sdl) /\ I!Ascending(b \o sdl)
    BY <2>1, <2>2, <2>7, <2>8, KeysConcat DEF InOrder
  <2>10. QED
    BY <2>2, <2>3, <2>5, <2>7, <2>9 DEF InOrder, Positive
<1>4. QED
  BY <1>1, <1>2, <1>3, IoeInductive, PTL DEF I!Spec

-----------------------------------------------------------------------------
(***************************************************************************)
(* Sound.  What SDL's thread has read of the pipe and not played yet, what *)
(* the program wrote and has not counted yet, and what it has not written  *)
(* yet.                                                                    *)
(***************************************************************************)
Taken == IF p.pc \in {"read", "store"} THEN p.b ELSE 0
Uncounted == IF w.pc \in {"load", "store"} THEN w.n ELSE 0
Unwritten == IF w.pc = "write" THEN w.len ELSE 0

WriterType == [pc : {"idle", "write", "load", "store"}, len : Nat, nwrite : Nat, n : Nat, load : Int]
PlayerType == [pc : {"idle", "take", "read", "store"}, nread : Int, b : Nat, load : Int]
SoundTypes ==
  /\ pipe \in Seq(Int) /\ heard \in Seq(Int) /\ stream \in [1..StreamLen -> Int]
  /\ count \in Int /\ made \in Nat
  /\ w \in WriterType /\ p \in PlayerType

(* Until a write is cut or a read is short or leaves the buffer, whatever  *)
(* count is: a write is whole, a read gets all it asks for, and what was   *)
(* heard, what is in the callback and what is in the pipe follow each      *)
(* other.                                                                  *)
Spoils == {"cut", "short", "outside"}
Whole == /\ w.pc # "idle" => w.nwrite = 0
         /\ w.pc \in {"load", "store"} => w.n = w.len
Read == /\ p.pc = "take" => p.b = 0
        /\ p.pc \in {"read", "store"} => p.nread \in 0..StreamLen /\ (p.b = 0 \/ p.b = p.nread)
        /\ p.pc = "store" => p.b = p.nread
Filled == made = Len(heard) + Taken + Len(pipe) + Unwritten
InARow == /\ \A i \in 1..Len(heard) : heard[i] = i
          /\ \A i \in 1..Taken : stream[i] = Len(heard) + i
          /\ \A i \in 1..Len(pipe) : pipe[i] = Len(heard) + Taken + i
SoundRow == Whole /\ Read /\ Filled /\ InARow
SoundInv == SoundTypes /\ (A!Never(Spoils) => SoundRow)

(* What is so until something happens was so before every step.            *)
LEMMA NeverBefore ==
  ASSUME NEW m, NEW n, NEW kind, NEW happens, NEW kinds,
         n = IF happens THEN m \cup {kind} ELSE m, n \cap kinds = {}
  PROVE  m \cap kinds = {} /\ (kind \in kinds => ~happens)
OBVIOUS

(* What is written last is counted from the end of what was made.          *)
LEMMA FromTheEnd ==
  \A h, t, l, n, k \in Int : (h + t + l + n) - n + k = h + t + (l + k)
OBVIOUS
(* The smaller of two numbers. *)
LEMMA MinOfTwo ==
  ASSUME NEW a \in Int, NEW b \in Int
  PROVE  A!Min({a, b}) = IF a <= b THEN a ELSE b
<1>1. A!Min({a, b}) = CHOOSE x \in {a, b} : \A y \in {a, b} : x <= y
  BY DEF A!Min
<1>2. CASE a <= b
  BY <1>1, <1>2
<1>3. CASE ~(a <= b)
  BY <1>1, <1>3
<1>4. QED
  BY <1>2, <1>3

(* A write to the pipe takes no more than it is given.                     *)
LEMMA AcceptedType ==
  ASSUME SoundTypes, NEW len \in Nat, A!Accepted(len) > 0
  PROVE  A!Accepted(len) \in Nat /\ A!Accepted(len) <= len
<1> DEFINE free == PipeSize - Len(pipe)
<1>1. free \in Int
  BY SoundAssumption DEF SoundTypes
<1>2. A!Min({len, free}) = IF len <= free THEN len ELSE free
  BY <1>1, MinOfTwo
<1>3. A!Accepted(len) = IF len <= PipeBuf THEN IF len <= free THEN len ELSE 0 ELSE IF len <= free THEN len ELSE free
  BY <1>2 DEF A!Accepted
<1> HIDE DEF free
<1>4. QED
  BY <1>1, <1>3, SoundAssumption

(* audio_write: the bytes of a write follow those in the pipe.             *)
LEMMA WriteStep ==
  ASSUME SoundInv, A!write_pipe
  PROVE  SoundInv'
<1> DEFINE n == A!Accepted(w.len)
           bytes == A!Bytes(n)
<1>1. SoundTypes /\ (A!Never(Spoils) => SoundRow)
  BY DEF SoundInv
<1>2. /\ w.pc = "write" /\ n > 0 /\ pipe' = pipe \o bytes
      /\ A!Mishap("cut", n < w.len)
      /\ w' = [w EXCEPT !.pc = "load", !.n = n]
      /\ UNCHANGED <<count, open, p, stream, made, heard>>
  BY DEF A!write_pipe
<1>3. /\ pipe \in Seq(Int) /\ heard \in Seq(Int) /\ count \in Int /\ made \in Nat
      /\ w \in WriterType /\ w.len \in Nat
  BY <1>1 DEF SoundTypes, WriterType
<1>4. n \in Nat /\ n <= w.len
  BY <1>1, <1>2, <1>3, AcceptedType
<1>5. bytes \in Seq(Int) /\ Len(bytes) = n /\ \A i \in 1..n : bytes[i] = made - w.len + i
  <2> HIDE DEF n
  <2>1. bytes = [i \in 1..n |-> made - w.len + i]
    BY DEF A!Bytes
  <2>2. \A i \in 1..n : made - w.len + i \in Int
    BY <1>3
  <2> HIDE DEF bytes
  <2>3. QED
    BY <1>4, <2>1, <2>2
<1> HIDE DEF n, bytes
<1>6. /\ w' \in WriterType /\ w'.pc = "load" /\ w'.n = n /\ w'.len = w.len /\ w'.nwrite = w.nwrite
  BY <1>2, <1>3, <1>4 DEF WriterType
<1>7. /\ pipe' \in Seq(Int) /\ Len(pipe') = Len(pipe) + n /\ Len(pipe) \in Nat
      /\ \A i \in 1..Len(pipe) : pipe'[i] = pipe[i]
      /\ \A i \in 1..n : pipe'[Len(pipe) + i] = bytes[i]
  <2>1. /\ pipe' \in Seq(Int) /\ Len(pipe') = Len(pipe) + n /\ Len(pipe) \in Nat
        /\ \A i \in 1..(Len(pipe) + n) : pipe'[i] = IF i <= Len(pipe) THEN pipe[i] ELSE bytes[i - Len(pipe)]
    <3>1. pipe \in Seq(Int) /\ bytes \in Seq(Int)
      BY <1>3, <1>5
    <3>2. /\ pipe \o bytes \in Seq(Int) /\ Len(pipe \o bytes) = Len(pipe) + Len(bytes)
          /\ \A i \in 1..(Len(pipe) + Len(bytes)) : (pipe \o bytes)[i] = IF i <= Len(pipe) THEN pipe[i] ELSE bytes[i - Len(pipe)]
      BY <3>1, ConcatProperties
    <3>3. Len(pipe) \in Nat /\ Len(bytes) = n
      BY <3>1, <1>5
    <3>4. QED
      BY <1>2, <3>2, <3>3
  <2>2. \A i \in 1..Len(pipe) : pipe'[i] = pipe[i]
    BY <1>4, <2>1
  <2>3. \A i \in 1..n : Len(pipe) + i \in 1..(Len(pipe) + n) /\ ~(Len(pipe) + i <= Len(pipe)) /\ Len(pipe) + i - Len(pipe) = i
    BY <1>4, <2>1
  <2>4. QED
    BY <2>1, <2>2, <2>3
<1>8. SoundTypes'
  BY <1>1, <1>2, <1>6, <1>7 DEF SoundTypes
<1>9. ASSUME A!Never(Spoils)' PROVE SoundRow'
  <2>1. A!Never(Spoils) /\ ~(n < w.len)
    BY <1>2, <1>9, NeverBefore DEF A!Mishap, A!Never, Spoils
  <2>2. SoundRow /\ n = w.len
    BY <1>1, <1>3, <1>4, <2>1
  <2>3. Whole'
    BY <1>2, <1>6, <2>2 DEF SoundRow, Whole
  <2>4. Read'
    BY <1>2, <2>2 DEF SoundRow, Read
  <2>5. /\ Taken' = Taken /\ Unwritten = n /\ Unwritten' = 0
    BY <1>2, <1>6, <2>2 DEF Taken, Unwritten
  <2>6. Taken \in Nat
    BY <1>1 DEF Taken, SoundTypes, PlayerType
  <2>7. Filled'
    <3>1. made = Len(heard) + Taken + Len(pipe) + n
      BY <2>2, <2>5 DEF SoundRow, Filled
    <3>2. Len(pipe) \in Nat /\ Len(heard) \in Nat /\ Len(pipe') = Len(pipe) + n
      BY <1>3, <1>7
    <3>3. made = Len(heard) + Taken + (Len(pipe) + n) + 0
      BY <1>4, <2>6, <3>1, <3>2
    <3>4. QED
      BY <1>2, <2>5, <3>2, <3>3 DEF Filled
  <2>8. \A i \in 1..Len(pipe') : pipe'[i] = Len(heard) + Taken + i
    <3> SUFFICES ASSUME NEW i \in 1..Len(pipe') PROVE pipe'[i] = Len(heard) + Taken + i
      OBVIOUS
    <3>1. CASE i \in 1..Len(pipe)
      BY <1>7, <2>2, <3>1 DEF SoundRow, InARow
    <3>2. CASE i \notin 1..Len(pipe)
      <4> DEFINE k == i - Len(pipe)
      <4>1. k \in 1..n /\ i = Len(pipe) + k
        BY <1>4, <1>7, <3>2
      <4>2. pipe'[i] = made - w.len + k
        BY <1>5, <1>7, <4>1
      <4>3. made = Len(heard) + Taken + Len(pipe) + w.len
        BY <1>2, <2>2, <2>5 DEF SoundRow, Filled
      <4>4. /\ Len(heard) \in Nat /\ Len(pipe) \in Nat /\ w.len \in Nat /\ made \in Nat /\ Taken \in Nat
            /\ k \in Int /\ i = Len(pipe) + k
        BY <1>3, <1>7, <2>6, <4>1
      <4>5. pipe'[i] = (Len(heard) + Taken + Len(pipe) + w.len) - w.len + k
        BY <4>2, <4>3
      <4> HIDE DEF k
      <4>6. (Len(heard) + Taken + Len(pipe) + w.len) - w.len + k = Len(heard) + Taken + (Len(pipe) + k)
        BY <4>4, FromTheEnd
      <4>7. QED
        BY <4>4, <4>5, <4>6
    <3>3. QED
      BY <3>1, <3>2
  <2>9. InARow'
    BY <1>2, <2>2, <2>5, <2>8 DEF SoundRow, InARow
  <2>10. QED
    BY <2>3, <2>4, <2>7, <2>9 DEF SoundRow
<1>10. QED
  BY <1>8, <1>9 DEF SoundInv

(* The program between its writes: a call, and count += n.                 *)
LEMMA CountStep ==
  ASSUME SoundInv, A!add_load \/ A!add_store \/ (\E len \in Lens : A!__am_audio_play(len)) \/ A!__am_audio_ctrl
  PROVE  SoundInv'
<1>1. SoundTypes /\ (A!Never(Spoils) => SoundRow)
  BY DEF SoundInv
<1>2. /\ pipe \in Seq(Int) /\ heard \in Seq(Int) /\ count \in Int /\ made \in Nat
      /\ w \in WriterType /\ w.len \in Nat /\ w.n \in Nat /\ w.nwrite \in Nat /\ w.load \in Int
      /\ w.pc \in {"idle", "write", "load", "store"} /\ Len(pipe) \in Nat /\ Len(heard) \in Nat
      /\ Taken \in Nat
  BY <1>1 DEF SoundTypes, WriterType, Taken, PlayerType
<1>3. CASE A!add_load
  <2>1. /\ w.pc = "load" /\ w' = [w EXCEPT !.pc = "store", !.load = count]
        /\ UNCHANGED <<pipe, count, open, p, stream, made, heard, mishaps>>
    BY <1>3 DEF A!add_load
  <2>2. w' \in WriterType /\ w'.pc = "store" /\ w'.n = w.n /\ w'.len = w.len /\ w'.nwrite = w.nwrite
    BY <1>2, <2>1 DEF WriterType
  <2>3. SoundTypes'
    BY <1>1, <2>1, <2>2 DEF SoundTypes
  <2>4. Taken' = Taken /\ Unwritten' = Unwritten
    BY <2>1, <2>2 DEF Taken, Unwritten
  <2>5. SoundRow => SoundRow'
    BY <2>1, <2>2, <2>4 DEF SoundRow, Whole, Read, Filled, InARow
  <2>6. QED
    BY <1>1, <2>1, <2>3, <2>5 DEF SoundInv, A!Never
<1>4. CASE A!add_store
  <2> DEFINE pc == IF w.nwrite + w.n < w.len THEN "write" ELSE "idle"
             stale == w.load > count
  <2>1. /\ w.pc = "store" /\ count' = w.load + w.n /\ A!Mishap("raised", stale)
        /\ w' = [w EXCEPT !.pc = pc, !.nwrite = @ + w.n, !.n = 0]
        /\ UNCHANGED <<pipe, open, p, stream, made, heard>>
    BY <1>4 DEF A!add_store
  <2>2. pc \in {"idle", "write"} /\ (w.nwrite = 0 /\ w.n = w.len => pc = "idle")
    BY <1>2
  <2> HIDE DEF pc
  <2>3. w' \in WriterType /\ w'.pc = pc /\ w'.len = w.len
    <3> DEFINE sum == w.nwrite + w.n
    <3>1. sum \in Nat /\ 0 \in Nat
      BY <1>2
    <3>2. w' = [w EXCEPT !.pc = pc, !.nwrite = sum, !.n = 0]
      BY <2>1
    <3> HIDE DEF sum
    <3>3. QED
      BY <1>2, <2>2, <3>1, <3>2 DEF WriterType
  <2>4. SoundTypes'
    <3>1. count' \in Int
      BY <1>2, <2>1
    <3>2. QED
      BY <1>1, <2>1, <2>3, <3>1 DEF SoundTypes
  <2>5. ASSUME A!Never(Spoils)' PROVE SoundRow'
    <3>1. A!Never(Spoils)
      BY <2>1, <2>5, NeverBefore DEF A!Mishap, A!Never
    <3>2. SoundRow
      BY <1>1, <3>1
    <3>3. pc = "idle"
      BY <2>1, <2>2, <3>2 DEF SoundRow, Whole
    <3>4. Taken' = Taken /\ Unwritten = 0 /\ Unwritten' = 0
      BY <2>1, <2>3, <3>3 DEF Taken, Unwritten
    <3>5. Whole' /\ Read'
      BY <2>1, <2>3, <3>2, <3>3 DEF SoundRow, Whole, Read
    <3>6. Filled' /\ InARow'
      BY <2>1, <3>2, <3>4 DEF SoundRow, Filled, InARow
    <3>7. QED
      BY <3>5, <3>6 DEF SoundRow
  <2>6. QED
    BY <2>4, <2>5 DEF SoundInv
<1>5. ASSUME NEW len \in Lens, A!__am_audio_play(len) PROVE SoundInv'
  <2>1. /\ w.pc = "idle" /\ w' = [w EXCEPT !.pc = "write", !.len = len, !.nwrite = 0] /\ made' = made + len
        /\ UNCHANGED <<pipe, count, open, p, stream, heard, mishaps>>
    BY <1>5 DEF A!__am_audio_play
  <2>2. len \in Nat
    BY SoundAssumption
  <2>3. w' \in WriterType /\ w'.pc = "write" /\ w'.len = len /\ w'.nwrite = 0
    BY <1>2, <2>1, <2>2 DEF WriterType
  <2>4. SoundTypes'
    BY <1>1, <1>2, <2>1, <2>2, <2>3 DEF SoundTypes
  <2>5. Taken' = Taken /\ Unwritten = 0 /\ Unwritten' = len
    BY <2>1, <2>3 DEF Taken, Unwritten
  <2>6. SoundRow => SoundRow'
    <3> SUFFICES ASSUME SoundRow PROVE SoundRow'
      OBVIOUS
    <3>1. Whole' /\ Read'
      BY <2>1, <2>3 DEF SoundRow, Whole, Read
    <3>2. Filled'
      BY <1>2, <2>1, <2>2, <2>5 DEF SoundRow, Filled
    <3>3. InARow'
      BY <2>1, <2>5 DEF SoundRow, InARow
    <3>4. QED
      BY <3>1, <3>2, <3>3 DEF SoundRow
  <2>7. QED
    BY <1>1, <2>1, <2>4, <2>6 DEF SoundInv, A!Never
<1>6. CASE A!__am_audio_ctrl
  <2>1. /\ w.pc = "idle" /\ count' = 0 /\ A!Mishap("lost", count # 0)
        /\ UNCHANGED <<pipe, w, p, stream, made, heard>>
    BY <1>6 DEF A!__am_audio_ctrl
  <2>2. SoundTypes'
    BY <1>1, <1>2, <2>1 DEF SoundTypes
  <2>3. ASSUME A!Never(Spoils)' PROVE SoundRow'
    <3>1. A!Never(Spoils)
      BY <2>1, <2>3, NeverBefore DEF A!Mishap, A!Never
    <3>2. QED
      BY <1>1, <2>1, <3>1 DEF SoundRow, Whole, Read, Filled, InARow, Taken, Unwritten
  <2>4. QED
    BY <2>2, <2>3 DEF SoundInv
<1>7. QED
  BY <1>3, <1>4, <1>5, <1>6

(* audio_play: the test of count, its second load, and that of count -=.   *)
LEMMA PlayLoads ==
  ASSUME SoundInv, A!play_test \/ A!play_take \/ A!sub_load
  PROVE  SoundInv'
<1>1. SoundTypes /\ (A!Never(Spoils) => SoundRow)
  BY DEF SoundInv
<1>2. /\ count \in Int /\ p \in PlayerType /\ StreamLen \in Nat
      /\ p.nread \in Int /\ p.b \in Nat /\ p.load \in Int
      /\ p.pc \in {"idle", "take", "read", "store"}
  BY <1>1, SoundAssumption DEF SoundTypes, PlayerType
<1>3. CASE A!play_test
  <2>1. /\ p.pc = "idle"
        /\ p' = IF count < StreamLen THEN [p EXCEPT !.pc = "take", !.load = count, !.b = 0]
                ELSE [p EXCEPT !.pc = "read", !.nread = StreamLen, !.b = 0]
        /\ UNCHANGED <<pipe, count, open, w, stream, made, heard, mishaps>>
    BY <1>3 DEF A!play_test
  <2>2. /\ p' \in PlayerType /\ p'.b = 0
        /\ p'.pc = "take" \/ (p'.pc = "read" /\ p'.nread = StreamLen)
    <3>1. CASE count < StreamLen
      BY <1>2, <2>1, <3>1 DEF PlayerType
    <3>2. CASE ~(count < StreamLen)
      <4>1. p' = [p EXCEPT !.pc = "read", !.nread = StreamLen, !.b = 0] /\ StreamLen \in Int
        BY <1>2, <2>1, <3>2
      <4>2. p' \in PlayerType /\ p'.pc = "read" /\ p'.nread = StreamLen /\ p'.b = 0
        BY <1>2, <4>1 DEF PlayerType
      <4>3. QED
        BY <4>2
    <3>3. QED
      BY <3>1, <3>2
  <2>3. SoundTypes'
    BY <1>1, <2>1, <2>2 DEF SoundTypes
  <2>4. Taken = 0 /\ Taken' = 0 /\ Unwritten' = Unwritten
    BY <2>1, <2>2 DEF Taken, Unwritten
  <2>5. SoundRow => SoundRow'
    <3>1. Read'
      BY <1>2, <2>1, <2>2 DEF Read
    <3>2. Whole => Whole'
      BY <2>1 DEF Whole
    <3>3. Filled /\ InARow => Filled' /\ InARow'
      BY <2>1, <2>4 DEF Filled, InARow
    <3>4. QED
      BY <3>1, <3>2, <3>3 DEF SoundRow
  <2>6. QED
    BY <1>1, <2>1, <2>3, <2>5 DEF SoundInv, A!Never
<1>4. CASE A!play_take
  <2> DEFINE wild == count \notin 0..StreamLen
  <2>1. /\ p.pc = "take" /\ p' = [p EXCEPT !.pc = "read", !.nread = count] /\ A!Mishap("outside", wild)
        /\ UNCHANGED <<pipe, count, open, w, stream, made, heard>>
    BY <1>4 DEF A!play_take
  <2>2. p' \in PlayerType /\ p'.pc = "read" /\ p'.nread = count /\ p'.b = p.b
    BY <1>2, <2>1 DEF PlayerType
  <2>3. SoundTypes'
    BY <1>1, <2>1, <2>2 DEF SoundTypes
  <2>4. ASSUME A!Never(Spoils)' PROVE SoundRow'
    <3>1. A!Never(Spoils) /\ ~wild
      BY <2>1, <2>4, NeverBefore DEF A!Mishap, A!Never, Spoils
    <3>2. SoundRow
      BY <1>1, <3>1
    <3>3. p.b = 0 /\ count \in 0..StreamLen
      BY <2>1, <3>1, <3>2 DEF SoundRow, Read
    <3>4. Taken = 0 /\ Taken' = 0 /\ Unwritten' = Unwritten
      BY <2>1, <2>2, <3>3 DEF Taken, Unwritten
    <3>5. Read'
      BY <1>2, <2>1, <2>2, <3>3 DEF Read
    <3>6. Whole' /\ Filled' /\ InARow'
      BY <2>1, <3>2, <3>4 DEF SoundRow, Whole, Filled, InARow
    <3>7. QED
      BY <3>5, <3>6 DEF SoundRow
  <2>5. QED
    BY <2>3, <2>4 DEF SoundInv
<1>5. CASE A!sub_load
  <2>1. /\ p.pc = "read" /\ p.b >= p.nread /\ p' = [p EXCEPT !.pc = "store", !.load = count]
        /\ UNCHANGED <<pipe, count, open, w, stream, made, heard, mishaps>>
    BY <1>5 DEF A!sub_load
  <2>2. p' \in PlayerType /\ p'.pc = "store" /\ p'.nread = p.nread /\ p'.b = p.b
    BY <1>2, <2>1 DEF PlayerType
  <2>3. SoundTypes'
    BY <1>1, <2>1, <2>2 DEF SoundTypes
  <2>4. Taken' = Taken /\ Unwritten' = Unwritten
    BY <2>1, <2>2 DEF Taken, Unwritten
  <2>5. SoundRow => SoundRow'
    <3> SUFFICES ASSUME SoundRow PROVE SoundRow'
      OBVIOUS
    <3>1. p.b = p.nread
      BY <1>2, <2>1 DEF SoundRow, Read
    <3>2. Read'
      BY <1>2, <2>1, <2>2, <3>1 DEF SoundRow, Read
    <3>3. Whole' /\ Filled' /\ InARow'
      BY <2>1, <2>4 DEF SoundRow, Whole, Filled, InARow
    <3>4. QED
      BY <3>2, <3>3 DEF SoundRow
  <2>6. QED
    BY <1>1, <2>1, <2>3, <2>5 DEF SoundInv, A!Never
<1>6. QED
  BY <1>3, <1>4, <1>5

(* A sequence without its first k elements. *)
LEMMA DroppedFront ==
  ASSUME NEW s \in Seq(Int), NEW k \in Nat, k <= Len(s)
  PROVE  /\ SubSeq(s, k + 1, Len(s)) \in Seq(Int) /\ Len(SubSeq(s, k + 1, Len(s))) = Len(s) - k
         /\ \A i \in 1..(Len(s) - k) : SubSeq(s, k + 1, Len(s))[i] = s[k + i]
<1>1. Len(s) \in Nat /\ \A i \in 1..Len(s) : s[i] \in Int
  OBVIOUS
<1>2. PICK a \in Int, z \in Int : a = k + 1 /\ z = Len(s)
  BY <1>1
<1>3. \A i \in a..z : s[i] \in Int
  BY <1>1, <1>2
<1>4. /\ SubSeq(s, a, z) \in Seq(Int) /\ Len(SubSeq(s, a, z)) = IF a <= z THEN z - a + 1 ELSE 0
      /\ \A i \in 1..(z - a + 1) : SubSeq(s, a, z)[i] = s[a + i - 1]
  BY <1>3, SubSeqProperties
<1>5. (IF a <= z THEN z - a + 1 ELSE 0) = Len(s) - k /\ z - a + 1 = Len(s) - k /\ \A i \in Int : a + i - 1 = k + i
  BY <1>1, <1>2
<1> DEFINE t == SubSeq(s, a, z)
<1>6. t = SubSeq(s, k + 1, Len(s))
  BY <1>2
<1> HIDE DEF t
<1>7. t \in Seq(Int) /\ Len(t) = Len(s) - k
  BY ONLY <1>4, <1>5 DEF t
<1>8. \A i \in 1..(Len(s) - k) : t[i] = s[k + i]
  <2> SUFFICES ASSUME NEW i \in 1..(Len(s) - k) PROVE t[i] = s[k + i]
    OBVIOUS
  <2>1. i \in 1..(z - a + 1) /\ i \in Int
    BY <1>1, <1>5
  <2>2. t[i] = s[a + i - 1] /\ a + i - 1 = k + i
    BY ONLY <1>4, <1>5, <2>1 DEF t
  <2>3. QED
    BY ONLY <2>2
<1>9. QED
  BY ONLY <1>6, <1>7, <1>8

(* A read gets the oldest bytes of the pipe, all that were asked for.      *)
LEMMA ReadStep ==
  ASSUME SoundInv, A!read_pipe
  PROVE  SoundInv'
<1> DEFINE n == A!Min({p.nread, Len(pipe)})
<1>1. SoundTypes /\ (A!Never(Spoils) => SoundRow)
  BY DEF SoundInv
<1>2. /\ pipe \in Seq(Int) /\ Len(pipe) \in Nat /\ p \in PlayerType /\ stream \in [1..StreamLen -> Int]
      /\ p.nread \in Int /\ p.b \in Nat /\ count \in Int /\ Len(heard) \in Nat
  BY <1>1 DEF SoundTypes, PlayerType
<1>3. n = IF p.nread <= Len(pipe) THEN p.nread ELSE Len(pipe)
  BY <1>2, MinOfTwo
<1>4. /\ p.pc = "read" /\ p.b < p.nread /\ n > 0
      /\ stream' = [i \in 1..StreamLen |-> IF i <= n THEN pipe[i] ELSE stream[i]]
      /\ pipe' = SubSeq(pipe, n + 1, Len(pipe))
      /\ p' = [p EXCEPT !.b = @ + n] /\ A!Mishap("short", n < p.nread)
      /\ UNCHANGED <<count, open, w, made, heard>>
  BY DEF A!read_pipe
<1>5. n \in Nat /\ n <= Len(pipe)
  BY <1>2, <1>3, <1>4
<1> HIDE DEF n
<1>6. /\ p' \in PlayerType /\ p'.pc = "read" /\ p'.nread = p.nread /\ p'.b = p.b + n
  <2>1. p.b + n \in Nat
    BY <1>2, <1>5
  <2>2. QED
    BY <1>2, <1>4, <2>1 DEF PlayerType
<1>7. /\ pipe' \in Seq(Int) /\ Len(pipe') = Len(pipe) - n
      /\ \A i \in 1..(Len(pipe) - n) : pipe'[i] = pipe[n + i]
  <2>1. PICK s \in Seq(Int), k \in Nat : s = pipe /\ k = n
    BY <1>2, <1>5
  <2>2. QED
    BY <1>4, <1>5, <2>1, DroppedFront
<1>8. stream' \in [1..StreamLen -> Int]
  <2>1. \A i \in 1..StreamLen : i <= n => pipe[i] \in Int
    BY <1>2, <1>5, SoundAssumption
  <2>2. QED
    BY <1>2, <1>4, <2>1
<1>9. SoundTypes'
  BY <1>1, <1>4, <1>6, <1>7, <1>8 DEF SoundTypes
<1>10. ASSUME A!Never(Spoils)' PROVE SoundRow'
  <2>0. A!Never(Spoils) /\ ~(n < p.nread)
    BY <1>4, <1>10, NeverBefore DEF A!Mishap, A!Never, Spoils
  <2>1. SoundRow /\ p.nread \in 0..StreamLen /\ p.b = 0
    BY <1>1, <1>2, <1>4, <2>0 DEF SoundRow, Read
  <2>2. Taken = 0 /\ Unwritten' = Unwritten
    BY <1>4, <2>1 DEF Taken, Unwritten
  <2>3. Unwritten \in Nat
    BY <1>1 DEF SoundTypes, WriterType, Unwritten
  <2>4. n = p.nread
    <3>1. n <= p.nread
      BY <1>2, <1>3
    <3>2. QED
      BY <1>2, <1>5, <2>0, <3>1
  <2>5. Taken' = n /\ p'.b = n /\ p'.nread = n
    BY <1>2, <1>5, <1>6, <2>1, <2>4 DEF Taken
  <2>6. Read'
    BY <1>4, <1>6, <2>1, <2>4, <2>5 DEF Read
  <2>7. Whole'
    BY <1>4, <2>1 DEF SoundRow, Whole
  <2>8. Filled'
    <3>1. made = Len(heard) + 0 + Len(pipe) + Unwritten
      BY <2>1, <2>2 DEF SoundRow, Filled
    <3>2. made = Len(heard) + n + (Len(pipe) - n) + Unwritten
      BY <1>2, <1>5, <2>3, <3>1
    <3>3. QED
      BY <1>4, <1>7, <2>2, <2>5, <3>2 DEF Filled
  <2>9. \A i \in 1..Len(pipe) : pipe[i] = Len(heard) + i
    BY <1>2, <2>1, <2>2 DEF SoundRow, InARow
  <2>10. \A i \in 1..n : stream'[i] = Len(heard) + i
    <3> SUFFICES ASSUME NEW i \in 1..n PROVE stream'[i] = Len(heard) + i
      OBVIOUS
    <3>1. i \in 1..StreamLen /\ i \in 1..Len(pipe) /\ i <= n
      BY <1>2, <1>5, <2>1, <2>4, SoundAssumption
    <3>2. QED
      BY <1>4, <2>9, <3>1
  <2>11. \A i \in 1..Len(pipe') : pipe'[i] = Len(heard) + n + i
    <3> SUFFICES ASSUME NEW i \in 1..(Len(pipe) - n) PROVE pipe'[i] = Len(heard) + n + i
      BY <1>7
    <3>1. n + i \in 1..Len(pipe)
      BY <1>2, <1>5
    <3>2. pipe'[i] = Len(heard) + (n + i)
      BY <1>7, <2>9, <3>1
    <3>3. QED
      BY <1>2, <1>5, <3>2
  <2>12. InARow'
    BY <1>4, <2>1, <2>5, <2>10, <2>11 DEF SoundRow, InARow
  <2>13. QED
    BY <2>6, <2>7, <2>8, <2>12 DEF SoundRow
<1>11. QED
  BY <1>9, <1>10 DEF SoundInv

(* The callback ends: what it read is heard, the rest is silence.          *)
LEMMA HearStep ==
  ASSUME SoundInv, A!sub_store
  PROVE  SoundInv'
<1> DEFINE out == [i \in 1..StreamLen |-> IF i <= p.nread THEN stream[i] ELSE 0]
           n == A!Min({p.nread, StreamLen})
           new == SubSeq(out, 1, n)
           stale == p.load # count
<1>1. SoundTypes /\ (A!Never(Spoils) => SoundRow)
  BY DEF SoundInv
<1>2. /\ heard \in Seq(Int) /\ Len(heard) \in Nat /\ p \in PlayerType /\ stream \in [1..StreamLen -> Int]
      /\ p.nread \in Int /\ p.b \in Nat /\ p.load \in Int /\ count \in Int
      /\ StreamLen \in Nat
  BY <1>1, SoundAssumption DEF SoundTypes, PlayerType
<1>3. n = (IF p.nread <= StreamLen THEN p.nread ELSE StreamLen) /\ n \in Int /\ n <= StreamLen
  <2>1. n = IF p.nread <= StreamLen THEN p.nread ELSE StreamLen
    <3>1. PICK a \in Int, b \in Int : a = p.nread /\ b = StreamLen
      BY <1>2
    <3>2. A!Min({a, b}) = IF a <= b THEN a ELSE b
      BY ONLY MinOfTwo
    <3>3. QED
      BY ONLY <3>1, <3>2
  <2> HIDE DEF n
  <2>2. QED
    BY <1>2, <2>1
<1>4. /\ p.pc = "store" /\ count' = p.load - p.nread /\ A!Mishap("lost", stale)
      /\ stream' = out /\ heard' = heard \o new /\ p' = [p EXCEPT !.pc = "idle"]
      /\ UNCHANGED <<pipe, open, w, made>>
  BY DEF A!sub_store
<1>5. out \in Seq(Int) /\ Len(out) = StreamLen /\ out \in [1..StreamLen -> Int]
  <2>1. \A i \in 1..StreamLen : (IF i <= p.nread THEN stream[i] ELSE 0) \in Int
    BY <1>2
  <2>2. QED
    BY <1>2, <2>1
<1>6. /\ \A i \in 1..StreamLen : i <= p.nread => out[i] = stream[i]
  OBVIOUS
<1> HIDE DEF out, n
<1>7. /\ new \in Seq(Int)
      /\ n >= 0 => Len(new) = n /\ \A i \in 1..n : new[i] = out[i]
  <2>1. CASE n >= 1
    <3>1. 1 \in 1..(Len(out) + 1) /\ n \in 0..Len(out)
      BY <1>2, <1>3, <1>5, <2>1
    <3>2. QED
      BY <1>3, <1>5, <2>1, <3>1, SubSeqProperties
  <2>2. CASE ~(n >= 1)
    <3>1. new = << >>
      BY <1>3, <1>5, <2>2, EmptySeq
    <3>2. QED
      BY <1>3, <2>2, <3>1
  <2>3. QED
    BY <2>1, <2>2
<1> HIDE DEF new
<1>8. /\ heard' \in Seq(Int) /\ Len(heard') = Len(heard) + Len(new) /\ Len(new) \in Nat
      /\ \A i \in 1..(Len(heard) + Len(new)) : heard'[i] = IF i <= Len(heard) THEN heard[i] ELSE new[i - Len(heard)]
  BY <1>2, <1>4, <1>7, ConcatProperties
<1>9. p' \in PlayerType /\ p'.pc = "idle"
  BY <1>2, <1>4 DEF PlayerType
<1>10. SoundTypes'
  <2>1. count' \in Int
    BY <1>2, <1>4
  <2>2. QED
    BY <1>1, <1>4, <1>5, <1>8, <1>9, <2>1 DEF SoundTypes
<1>11. ASSUME A!Never(Spoils)' PROVE SoundRow'
  <2>1. A!Never(Spoils)
    BY <1>4, <1>11, NeverBefore DEF A!Mishap, A!Never
  <2>2. SoundRow
    BY <1>1, <2>1
  <2>3. p.nread \in 0..StreamLen /\ p.b = p.nread /\ n = p.nread
    BY <1>3, <1>4, <2>2 DEF SoundRow, Read
  <2>4. Taken = n /\ Taken' = 0 /\ Unwritten' = Unwritten /\ n \in Nat
    BY <1>4, <1>9, <2>3 DEF Taken, Unwritten
  <2>5. Len(new) = n /\ \A i \in 1..n : new[i] = Len(heard) + i
    <3>1. \A i \in 1..n : out[i] = stream[i]
      BY <1>2, <1>6, <2>3
    <3>2. QED
      BY <1>7, <2>2, <2>4, <3>1 DEF SoundRow, InARow
  <2>6. Unwritten \in Nat /\ Len(pipe) \in Nat
    BY <1>1 DEF SoundTypes, WriterType, Unwritten
  <2>7. Whole' /\ Read'
    BY <1>4, <1>9, <2>2 DEF SoundRow, Whole, Read
  <2>8. Filled'
    <3>1. Len(heard') = Len(heard) + n
      BY <1>8, <2>5
    <3>2. made = Len(heard) + n + Len(pipe) + Unwritten
      BY <2>2, <2>4 DEF SoundRow, Filled
    <3>3. made = Len(heard') + 0 + Len(pipe) + Unwritten
      BY <1>2, <2>4, <2>6, <3>1, <3>2
    <3>4. QED
      BY <1>4, <2>4, <3>3 DEF Filled
  <2>9. \A i \in 1..Len(heard') : heard'[i] = i
    <3> SUFFICES ASSUME NEW i \in 1..(Len(heard) + n) PROVE heard'[i] = i
      BY <1>8, <2>5
    <3>1. CASE i <= Len(heard)
      <4>1. i \in 1..Len(heard)
        BY <1>2, <2>4, <3>1
      <4>2. heard[i] = i
        BY <2>2, <4>1 DEF SoundRow, InARow
      <4>3. QED
        BY <1>8, <2>5, <3>1, <4>2
    <3>2. CASE ~(i <= Len(heard))
      <4>1. i - Len(heard) \in 1..n
        BY <1>2, <2>4, <3>2
      <4>2. heard'[i] = new[i - Len(heard)]
        BY <1>8, <2>5, <3>2
      <4>3. QED
        BY <1>2, <2>5, <4>1, <4>2
    <3>3. QED
      BY <3>1, <3>2
  <2>10. \A i \in 1..Len(pipe) : pipe[i] = Len(heard') + 0 + i
    <3>1. Len(heard') + 0 = Len(heard) + n
      BY <1>2, <1>8, <2>4, <2>5
    <3>2. QED
      BY <2>2, <2>4, <3>1 DEF SoundRow, InARow
  <2>11. InARow'
    BY <1>4, <2>4, <2>9, <2>10 DEF InARow
  <2>12. QED
    BY <2>7, <2>8, <2>11 DEF SoundRow
<1>12. QED
  BY <1>10, <1>11 DEF SoundInv

(***************************************************************************)
(* The count.  Until count += n undoes a count -= nread (or the callback   *)
(* leaves its buffer) the count is never more than the bytes in the pipe   *)
(* and in the callback that were counted; so the callback never asks for   *)
(* more than there is.  If no addition was lost either, it is just that.   *)
(***************************************************************************)
Misleads == {"raised", "outside"}
CountRow ==
  /\ A!Never({"short"}) /\ Read
  /\ count + Uncounted <= Len(pipe) + Taken /\ Uncounted <= Len(pipe)
  /\ p.pc = "read" => p.nread - p.b + Uncounted <= Len(pipe)
  /\ p.pc = "store" => p.load + Uncounted <= Len(pipe) + Taken
  /\ A!Never({"lost"}) => /\ count + Uncounted = Len(pipe) + Taken
                          /\ w.pc = "store" => w.load >= count
CountInv == A!Never(Misleads) => CountRow

(* The program: calls, writes, and count += n.                             *)
LEMMA CountedByWriter ==
  ASSUME SoundTypes, CountInv, A!Never(Misleads)',
         \/ A!write_pipe \/ A!add_load \/ A!add_store \/ A!__am_audio_ctrl
         \/ \E len \in Lens : A!__am_audio_play(len)
  PROVE  CountRow'
<1>1. /\ Len(pipe) \in Nat /\ count \in Int /\ w \in WriterType /\ w.n \in Nat /\ w.load \in Int /\ w.len \in Nat
      /\ p.nread \in Int /\ p.b \in Nat /\ p.load \in Int /\ Taken \in Nat /\ Uncounted \in Nat
  BY DEF SoundTypes, WriterType, PlayerType, Taken, Uncounted
<1>2. CASE A!write_pipe
  <2> DEFINE n == A!Accepted(w.len)
             bytes == A!Bytes(n)
  <2>1. /\ w.pc = "write" /\ n > 0 /\ pipe' = pipe \o bytes /\ A!Mishap("cut", n < w.len)
        /\ w' = [w EXCEPT !.pc = "load", !.n = n] /\ UNCHANGED <<count, p>>
    BY <1>2 DEF A!write_pipe
  <2>2. n \in Nat
    BY <1>1, <2>1, AcceptedType
  <2>3. bytes \in Seq(Int) /\ Len(bytes) = n
    <3> HIDE DEF n
    <3>1. bytes = [i \in 1..n |-> made - w.len + i]
      BY DEF A!Bytes
    <3>2. \A i \in 1..n : made - w.len + i \in Int
      BY <1>1 DEF SoundTypes
    <3> HIDE DEF bytes
    <3>3. QED
      BY <2>2, <3>1, <3>2
  <2> HIDE DEF n, bytes
  <2>4. Len(pipe') = Len(pipe) + n
    BY <2>1, <2>3, ConcatProperties DEF SoundTypes
  <2>5. w'.pc = "load" /\ Uncounted = 0 /\ Uncounted' = n /\ Taken' = Taken
    BY <1>1, <2>1 DEF WriterType, Uncounted, Taken
  <2>6. CountRow /\ (A!Never({"lost"})' => A!Never({"lost"})) /\ A!Never({"short"})'
    <3>1. A!Never(Misleads) /\ (A!Never({"lost"})' => A!Never({"lost"}))
      BY <2>1, NeverBefore DEF A!Mishap, A!Never
    <3>2. CountRow
      BY <3>1 DEF CountInv
    <3>3. QED
      BY <2>1, <3>1, <3>2 DEF CountRow, A!Mishap, A!Never
  <2>7. Read'
    BY <2>1, <2>6 DEF CountRow, Read
  <2>8. count' = count /\ p' = p
    BY <2>1
  <2>9. /\ count <= Len(pipe) + Taken /\ (p.pc = "read" => p.nread - p.b <= Len(pipe))
        /\ p.pc = "store" => p.load <= Len(pipe) + Taken
        /\ A!Never({"lost"})' => count = Len(pipe) + Taken
    BY <1>1, <2>5, <2>6 DEF CountRow
  <2>10. /\ count' + Uncounted' <= Len(pipe') + Taken' /\ Uncounted' <= Len(pipe')
         /\ p'.pc = "read" => p'.nread - p'.b + Uncounted' <= Len(pipe')
         /\ p'.pc = "store" => p'.load + Uncounted' <= Len(pipe') + Taken'
         /\ A!Never({"lost"})' => count' + Uncounted' = Len(pipe') + Taken'
    <3>1. /\ count + n <= (Len(pipe) + n) + Taken /\ n <= Len(pipe) + n
          /\ p.pc = "read" => p.nread - p.b + n <= Len(pipe) + n
      BY ONLY <1>1, <2>2, <2>9
    <3>2. /\ p.pc = "store" => p.load + n <= (Len(pipe) + n) + Taken
          /\ A!Never({"lost"})' => count + n = (Len(pipe) + n) + Taken
      BY ONLY <1>1, <2>2, <2>9
    <3>3. QED
      BY ONLY <2>4, <2>5, <2>8, <3>1, <3>2
  <2>11. QED
    BY ONLY <2>5, <2>6, <2>7, <2>10 DEF CountRow
<1>3. CASE A!add_load
  <2>1. /\ w.pc = "load" /\ w' = [w EXCEPT !.pc = "store", !.load = count]
        /\ UNCHANGED <<pipe, count, p, mishaps>>
    BY <1>3 DEF A!add_load
  <2>2. w'.pc = "store" /\ w'.load = count /\ Uncounted' = Uncounted /\ Taken' = Taken
    BY <1>1, <2>1 DEF WriterType, Uncounted, Taken
  <2>3. CountRow /\ Read'
    BY <2>1 DEF CountInv, CountRow, Read, A!Never
  <2>4. QED
    BY <1>1, <2>1, <2>2, <2>3 DEF CountRow, A!Never
<1>4. CASE A!add_store
  <2> DEFINE pc == IF w.nwrite + w.n < w.len THEN "write" ELSE "idle"
             high == w.load > count
  <2>1. /\ w.pc = "store" /\ count' = w.load + w.n /\ A!Mishap("raised", high)
        /\ w' = [w EXCEPT !.pc = pc, !.nwrite = @ + w.n, !.n = 0] /\ UNCHANGED <<pipe, p>>
    BY <1>4 DEF A!add_store
  <2>2. pc # "load" /\ pc # "store"
    OBVIOUS
  <2> HIDE DEF pc
  <2>3. w'.pc = pc
    BY <1>1, <2>1 DEF WriterType
  <2>4. Uncounted = w.n /\ Uncounted' = 0 /\ Taken' = Taken
    BY <2>1, <2>2, <2>3 DEF Uncounted, Taken
  <2>5. CountRow /\ ~high /\ (A!Never({"lost"})' => A!Never({"lost"})) /\ A!Never({"short"})'
    <3>1. A!Never(Misleads) /\ ~high /\ (A!Never({"lost"})' => A!Never({"lost"}))
      BY <2>1, NeverBefore DEF A!Mishap, A!Never, Misleads
    <3>2. CountRow
      BY <3>1 DEF CountInv
    <3>3. QED
      BY <2>1, <3>1, <3>2 DEF CountRow, A!Mishap, A!Never
  <2>6. Read'
    BY <2>1, <2>5 DEF CountRow, Read
  <2>7. w.load <= count
    BY <1>1, <2>5
  <2>8. count' <= Len(pipe) + Taken /\ (A!Never({"lost"})' => count' = Len(pipe) + Taken)
    <3>1. count + w.n <= Len(pipe) + Taken /\ count' = w.load + w.n
      BY <2>1, <2>4, <2>5 DEF CountRow
    <3>2. A!Never({"lost"})' => count + w.n = Len(pipe) + Taken /\ w.load >= count
      BY <2>1, <2>4, <2>5 DEF CountRow
    <3>3. QED
      BY ONLY <1>1, <2>7, <3>1, <3>2
  <2>9. /\ p.pc = "read" => p.nread - p.b + w.n <= Len(pipe)
        /\ p.pc = "store" => p.load + w.n <= Len(pipe) + Taken
    BY <2>4, <2>5 DEF CountRow
  <2>10. p' = p /\ pipe' = pipe
    BY <2>1
  <2>11. /\ count' + Uncounted' <= Len(pipe') + Taken' /\ Uncounted' <= Len(pipe')
         /\ p'.pc = "read" => p'.nread - p'.b + Uncounted' <= Len(pipe')
         /\ p'.pc = "store" => p'.load + Uncounted' <= Len(pipe') + Taken'
         /\ A!Never({"lost"})' => count' + Uncounted' = Len(pipe') + Taken'
    <3>1. count' \in Int
      BY <1>1, <2>1
    <3>2. QED
      BY ONLY <1>1, <2>4, <2>8, <2>9, <2>10, <3>1
  <2>12. QED
    BY ONLY <2>2, <2>3, <2>5, <2>6, <2>11 DEF CountRow
<1>5. CASE A!__am_audio_ctrl
  <2>1. w.pc = "idle" /\ count' = 0 /\ A!Mishap("lost", count # 0) /\ UNCHANGED <<pipe, w, p>>
    BY <1>5 DEF A!__am_audio_ctrl
  <2>2. Uncounted' = Uncounted /\ Uncounted = 0 /\ Taken' = Taken
    BY <2>1 DEF Uncounted, Taken
  <2>3. CountRow /\ (A!Never({"lost"})' => A!Never({"lost"}) /\ count = 0) /\ A!Never({"short"})'
    <3>1. A!Never(Misleads) /\ (A!Never({"lost"})' => A!Never({"lost"}) /\ ~(count # 0))
      BY <2>1, NeverBefore DEF A!Mishap, A!Never
    <3>2. CountRow
      BY <3>1 DEF CountInv
    <3>3. QED
      BY <2>1, <3>1, <3>2 DEF CountRow, A!Mishap, A!Never
  <2>4. Read'
    BY <2>1, <2>3 DEF CountRow, Read
  <2>5. QED
    BY <1>1, <2>1, <2>2, <2>3, <2>4 DEF CountRow
<1>6. ASSUME NEW len \in Lens, A!__am_audio_play(len) PROVE CountRow'
  <2>1. /\ w.pc = "idle" /\ w' = [w EXCEPT !.pc = "write", !.len = len, !.nwrite = 0]
        /\ UNCHANGED <<pipe, count, p, mishaps>>
    BY <1>6 DEF A!__am_audio_play
  <2>2. w'.pc = "write" /\ Uncounted' = Uncounted /\ Taken' = Taken
    BY <1>1, <2>1 DEF WriterType, Uncounted, Taken
  <2>3. CountRow /\ Read'
    BY <2>1 DEF CountInv, CountRow, Read, A!Never
  <2>4. QED
    BY <2>1, <2>2, <2>3 DEF CountRow, A!Never
<1>7. QED
  BY <1>2, <1>3, <1>4, <1>5, <1>6

(* The callback takes no more than is there and counts what it took.       *)
LEMMA CountedByPlayer ==
  ASSUME SoundTypes, CountInv, A!Never(Misleads)',
         A!play_test \/ A!play_take \/ A!read_pipe \/ A!sub_load \/ A!sub_store
  PROVE  CountRow'
<1>1. /\ Len(pipe) \in Nat /\ count \in Int /\ p \in PlayerType /\ w.n \in Nat /\ w.load \in Int /\ StreamLen \in Nat
      /\ p.nread \in Int /\ p.b \in Nat /\ p.load \in Int /\ Taken \in Nat /\ Uncounted \in Nat
  BY SoundAssumption DEF SoundTypes, WriterType, PlayerType, Taken, Uncounted
<1>2. CASE A!play_test
  <2>1. /\ p.pc = "idle" /\ UNCHANGED <<pipe, count, w, mishaps>>
        /\ p' = IF count < StreamLen THEN [p EXCEPT !.pc = "take", !.load = count, !.b = 0]
                ELSE [p EXCEPT !.pc = "read", !.nread = StreamLen, !.b = 0]
    BY <1>2 DEF A!play_test
  <2>2. CountRow /\ Taken = 0 /\ Uncounted' = Uncounted
    BY <2>1 DEF CountInv, Taken, Uncounted, A!Never
  <2>3. CASE count < StreamLen
    <3>1. p'.pc = "take" /\ p'.b = 0 /\ Taken' = 0
      BY <1>1, <2>1, <2>3 DEF PlayerType, Taken
    <3>2. Read'
      BY <3>1 DEF Read
    <3>3. QED
      BY <2>1, <2>2, <3>1, <3>2 DEF CountRow, A!Never
  <2>4. CASE ~(count < StreamLen)
    <3>1. p'.pc = "read" /\ p'.nread = StreamLen /\ p'.b = 0 /\ Taken' = 0
      BY <1>1, <2>1, <2>4 DEF PlayerType, Taken
    <3>2. Read' /\ StreamLen <= count
      BY <1>1, <2>4, <3>1 DEF Read
    <3>3. QED
      BY <1>1, <2>1, <2>2, <3>1, <3>2 DEF CountRow, A!Never
  <2>5. QED
    BY <2>3, <2>4
<1>3. CASE A!play_take
  <2> DEFINE wild == count \notin 0..StreamLen
  <2>1. /\ p.pc = "take" /\ p' = [p EXCEPT !.pc = "read", !.nread = count] /\ A!Mishap("outside", wild)
        /\ UNCHANGED <<pipe, count, w>>
    BY <1>3 DEF A!play_take
  <2>2. CountRow /\ ~wild /\ (A!Never({"lost"})' => A!Never({"lost"})) /\ A!Never({"short"})'
    <3>1. A!Never(Misleads) /\ ~wild /\ (A!Never({"lost"})' => A!Never({"lost"}))
      BY <2>1, NeverBefore DEF A!Mishap, A!Never, Misleads
    <3>2. CountRow
      BY <3>1 DEF CountInv
    <3>3. QED
      BY <2>1, <3>1, <3>2 DEF CountRow, A!Mishap, A!Never
  <2>3. p.b = 0 /\ p'.pc = "read" /\ p'.nread = count /\ p'.b = 0 /\ count \in 0..StreamLen
    BY <1>1, <2>1, <2>2 DEF PlayerType, CountRow, Read
  <2>4. Taken = 0 /\ Taken' = 0 /\ Uncounted' = Uncounted /\ Read'
    BY <2>1, <2>3 DEF Taken, Uncounted, Read
  <2> HIDE DEF wild
  <2>5. QED
    BY <1>1, <2>1, <2>2, <2>3, <2>4 DEF CountRow
<1>4. CASE A!read_pipe
  <2> DEFINE n == A!Min({p.nread, Len(pipe)})
  <2>1. /\ p.pc = "read" /\ p.b < p.nread /\ n > 0 /\ A!Mishap("short", n < p.nread)
        /\ pipe' = SubSeq(pipe, n + 1, Len(pipe)) /\ p' = [p EXCEPT !.b = @ + n] /\ UNCHANGED <<count, w>>
    BY <1>4 DEF A!read_pipe
  <2>2. n = IF p.nread <= Len(pipe) THEN p.nread ELSE Len(pipe)
    BY <1>1, MinOfTwo
  <2> HIDE DEF n
  <2>3. CountRow /\ (A!Never({"lost"})' => A!Never({"lost"}))
    <3>1. A!Never(Misleads) /\ (A!Never({"lost"})' => A!Never({"lost"}))
      BY <2>1, NeverBefore DEF A!Mishap, A!Never
    <3>2. QED
      BY <3>1 DEF CountInv
  <2>4. p.b = 0 /\ p.nread \in 0..StreamLen /\ p.nread + Uncounted <= Len(pipe) /\ Taken = 0
    <3>1. p.b = 0 /\ p.nread \in 0..StreamLen
      BY <1>1, <2>1, <2>3 DEF CountRow, Read
    <3>2. QED
      BY <1>1, <2>1, <2>3, <3>1 DEF CountRow, Taken
  <2>5. n = p.nread /\ n \in Nat /\ n <= Len(pipe)
    BY <1>1, <2>2, <2>4
  <2>6. Len(pipe') = Len(pipe) - n
    <3>1. PICK s \in Seq(Int), k \in Nat : s = pipe /\ k = n
      BY <2>5 DEF SoundTypes
    <3>2. QED
      BY <2>1, <2>5, <3>1, DroppedFront
  <2>7. p'.pc = "read" /\ p'.nread = n /\ p'.b = n
    BY <1>1, <2>1, <2>4, <2>5 DEF PlayerType
  <2>8. Taken' = n /\ Uncounted' = Uncounted /\ Read'
    BY <2>1, <2>4, <2>5, <2>7 DEF Taken, Uncounted, Read
  <2>9. A!Never({"short"})'
    <3>1. ~(n < p.nread)
      BY <1>1, <2>5
    <3>2. QED
      BY <2>1, <2>3, <3>1 DEF CountRow, A!Mishap, A!Never
  <2>10. count + Uncounted <= Len(pipe) /\ (A!Never({"lost"})' => count + Uncounted = Len(pipe))
    BY <1>1, <2>3, <2>4 DEF CountRow
  <2>11. Uncounted <= Len(pipe) - n
    BY ONLY <1>1, <2>4, <2>5
  <2>12. A!Never({"lost"})' => (w.pc = "store" => w.load >= count)
    BY <2>3 DEF CountRow
  <2>13. count' = count /\ w' = w
    BY <2>1
  <2>14. /\ count' + Uncounted' <= Len(pipe') + Taken' /\ Uncounted' <= Len(pipe')
         /\ p'.nread - p'.b + Uncounted' <= Len(pipe')
         /\ A!Never({"lost"})' => count' + Uncounted' = Len(pipe') + Taken'
    BY ONLY <1>1, <2>5, <2>6, <2>7, <2>8, <2>10, <2>11, <2>13
  <2>15. QED
    BY ONLY <2>7, <2>8, <2>9, <2>12, <2>13, <2>14 DEF CountRow
<1>5. CASE A!sub_load
  <2>1. /\ p.pc = "read" /\ p.b >= p.nread /\ p' = [p EXCEPT !.pc = "store", !.load = count]
        /\ UNCHANGED <<pipe, count, w, mishaps>>
    BY <1>5 DEF A!sub_load
  <2>2. p'.pc = "store" /\ p'.load = count /\ p'.nread = p.nread /\ p'.b = p.b
    BY <1>1, <2>1 DEF PlayerType
  <2>3. CountRow /\ Taken' = Taken /\ Uncounted' = Uncounted
    BY <2>1, <2>2 DEF CountInv, Taken, Uncounted, A!Never
  <2>4. Read'
    BY <1>1, <2>1, <2>2, <2>3 DEF CountRow, Read
  <2>5. QED
    BY <2>1, <2>2, <2>3, <2>4 DEF CountRow, A!Never
<1>6. CASE A!sub_store
  <2> DEFINE stale == p.load # count
  <2>1. /\ p.pc = "store" /\ count' = p.load - p.nread /\ A!Mishap("lost", stale)
        /\ p' = [p EXCEPT !.pc = "idle"] /\ UNCHANGED <<pipe, w>>
    BY <1>6 DEF A!sub_store
  <2>2. CountRow /\ (A!Never({"lost"})' => A!Never({"lost"}) /\ ~stale) /\ A!Never({"short"})'
    <3>1. A!Never(Misleads) /\ (A!Never({"lost"})' => A!Never({"lost"}) /\ ~stale)
      BY <2>1, NeverBefore DEF A!Mishap, A!Never
    <3>2. CountRow
      BY <3>1 DEF CountInv
    <3>3. QED
      BY <2>1, <3>1, <3>2 DEF CountRow, A!Mishap, A!Never
  <2>3. p'.pc = "idle" /\ p.b = p.nread /\ Taken = p.nread /\ Taken' = 0 /\ Uncounted' = Uncounted
    BY <1>1, <2>1, <2>2 DEF PlayerType, CountRow, Read, Taken, Uncounted
  <2>4. Read'
    BY <2>3 DEF Read
  <2>5. /\ p.load + Uncounted <= Len(pipe) + p.nread /\ Uncounted <= Len(pipe)
        /\ A!Never({"lost"})' => /\ p.load = count /\ count + Uncounted = Len(pipe) + p.nread
                                 /\ w.pc = "store" => w.load >= count
        /\ p.nread >= 0
    BY <1>1, <2>1, <2>2, <2>3 DEF CountRow, Read
  <2>6. count' = p.load - p.nread /\ pipe' = pipe /\ w' = w
    BY <2>1
  <2>7. (p.load - p.nread) + Uncounted <= Len(pipe) + 0
    BY ONLY <1>1, <2>5
  <2>8. ASSUME A!Never({"lost"})'
        PROVE  /\ (p.load - p.nread) + Uncounted = Len(pipe) + 0
               /\ w.pc = "store" => w.load >= p.load - p.nread
    <3>1. p.load = count /\ count + Uncounted = Len(pipe) + p.nread /\ (w.pc = "store" => w.load >= count)
      BY ONLY <2>5, <2>8
    <3>2. (p.load - p.nread) + Uncounted = Len(pipe) + 0
      BY ONLY <1>1, <3>1
    <3>3. p.load - p.nread <= count
      BY ONLY <1>1, <2>5, <3>1
    <3>4. QED
      BY ONLY <1>1, <3>1, <3>2, <3>3
  <2>9. count' + Uncounted' <= Len(pipe') + Taken' /\ Uncounted' <= Len(pipe')
    BY ONLY <2>3, <2>5, <2>6, <2>7
  <2>10. A!Never({"lost"})' => count' + Uncounted' = Len(pipe') + Taken'
    BY ONLY <2>3, <2>6, <2>8
  <2>11. A!Never({"lost"})' => (w'.pc = "store" => w'.load >= count')
    BY ONLY <2>6, <2>8
  <2>12. QED
    BY ONLY <2>2, <2>3, <2>4, <2>9, <2>10, <2>11 DEF CountRow
<1>7. QED
  BY <1>2, <1>3, <1>4, <1>5, <1>6

(***************************************************************************)
(* audio.c of the native AM: for every size of the pipe, every length of a *)
(* callback and every write, and however the two threads interleave on     *)
(* count, bytes are heard in the order in which they were played until a   *)
(* write is cut or a read is short; and only a count += n that undoes a    *)
(* count -= nread lets the callback wait for bytes nobody wrote or the     *)
(* count tell more than the pipe holds.                                    *)
(***************************************************************************)
THEOREM NativeSoundInOrder == A!Spec => []NativePlaysInOrder
<1> DEFINE Inv == SoundInv /\ CountInv
<1>1. A!Init => Inv
  <2> SUFFICES ASSUME A!Init PROVE Inv
    OBVIOUS
  <2>1. /\ pipe = <<>> /\ count = 0 /\ made = 0 /\ heard = <<>> /\ mishaps = {}
        /\ w = [pc |-> "idle", len |-> 0, nwrite |-> 0, n |-> 0, load |-> 0]
        /\ p = [pc |-> "idle", nread |-> 0, b |-> 0, load |-> 0]
        /\ stream = [i \in 1..StreamLen |-> 0]
    BY DEF A!Init
  <2>2. w \in WriterType /\ p \in PlayerType /\ w.pc = "idle" /\ p.pc = "idle"
    BY <2>1 DEF WriterType, PlayerType
  <2>3. SoundTypes
    <3>1. pipe \in Seq(Int) /\ heard \in Seq(Int)
      BY <2>1
    <3>2. stream \in [1..StreamLen -> Int]
      BY <2>1
    <3>3. count \in Int /\ made \in Nat
      BY <2>1
    <3>4. QED
      BY <2>1, <2>2, <3>1, <3>2, <3>3 DEF SoundTypes
  <2>4. Taken = 0 /\ Uncounted = 0 /\ Unwritten = 0
    BY <2>2 DEF Taken, Uncounted, Unwritten
  <2>5. SoundRow
    BY <2>1, <2>2, <2>4 DEF SoundRow, Whole, Read, Filled, InARow
  <2>6. CountRow
    BY <2>1, <2>2, <2>4 DEF CountRow, Read, A!Never
  <2>7. QED
    BY <2>3, <2>5, <2>6 DEF SoundInv, CountInv
<1>2. Inv /\ [A!Next]_(A!vars) => Inv'
  <2> SUFFICES ASSUME SoundInv, CountInv, [A!Next]_(A!vars) PROVE SoundInv' /\ CountInv'
    OBVIOUS
  <2>1. CASE UNCHANGED A!vars
    <3>1. SoundInv'
      BY <2>1 DEF A!vars, SoundInv, SoundTypes, SoundRow, Whole, Read, Filled, InARow, Taken, Unwritten, A!Never
    <3>2. CountInv'
      BY <2>1 DEF A!vars, CountInv, CountRow, Read, Taken, Uncounted, A!Never
    <3>3. QED
      BY <3>1, <3>2
  <2>2. CASE A!Next
    <3>1. SoundInv'
      BY <2>2, WriteStep, CountStep, PlayLoads, ReadStep, HearStep DEF A!Next
    <3>2. CountInv'
      BY <2>2, CountedByWriter, CountedByPlayer DEF A!Next, CountInv, SoundInv
    <3>3. QED
      BY <3>1, <3>2
  <2>3. QED
    BY <2>1, <2>2
<1>3. Inv => NativePlaysInOrder
  <2> SUFFICES ASSUME SoundInv, CountInv PROVE NativePlaysInOrder
    OBVIOUS
  <2>1. Len(pipe) \in Nat /\ Len(heard) \in Nat /\ heard \in Seq(Int) /\ p.nread \in Int /\ p.b \in Nat /\ count \in Int
        /\ Uncounted \in Nat
    BY DEF SoundInv, SoundTypes, PlayerType, WriterType, Uncounted
  <2>2. ASSUME A!Never(Spoils)
        PROVE  heard = [i \in 1..Len(heard) |-> i] /\ (A!Idle => made = Len(heard) + Len(pipe))
    <3>1. heard = [i \in 1..Len(heard) |-> i]
      BY <2>1, <2>2 DEF SoundInv, SoundRow, InARow
    <3>2. ASSUME A!Idle PROVE made = Len(heard) + Len(pipe)
      <4>1. Taken = 0 /\ Unwritten = 0
        BY <3>2 DEF A!Idle, Taken, Unwritten
      <4>2. QED
        BY <2>1, <2>2, <4>1 DEF SoundInv, SoundRow, Filled
    <3>3. QED
      BY <3>1, <3>2
  <2>3. ASSUME A!Never(Misleads)
        PROVE  /\ A!Never({"short"}) /\ (p.pc = "read" => p.nread <= p.b + Len(pipe))
               /\ A!Idle => count <= Len(pipe) /\ (A!Never({"lost"}) => count = Len(pipe))
    <3>1. CountRow
      BY <2>3 DEF CountInv
    <3>2. p.pc = "read" => p.nread <= p.b + Len(pipe)
      BY <2>1, <3>1 DEF CountRow
    <3>3. A!Idle => Taken = 0 /\ Uncounted = 0
      BY DEF A!Idle, Taken, Uncounted
    <3>4. QED
      BY <2>1, <3>1, <3>2, <3>3 DEF CountRow
  <2>4. QED
    BY <2>2, <2>3 DEF NativePlaysInOrder, A!NativePlaysInOrder, Spoils, Misleads
<1>4. QED
  BY <1>1, <1>2, <1>3, PTL DEF A!Spec

-----------------------------------------------------------------------------
(***************************************************************************)
(* Contexts of the AM on riscv.  The flows of one stack lie on it one      *)
(* below the other, each from its stack pointer up to the context its      *)
(* handler works on (held), or to the end of the stack; the running flow   *)
(* is the lowest of its stack.                                             *)
(***************************************************************************)
CoreType == [gpr : [R!GPRS -> Int], pc : Int, mcause : Int, mepc : Int, mstatus : Int, mtvec : Int]
Flow(regs) == [regs : [regs -> Int], pc : Int, sp : Int, thr : DOMAIN Stacks, held : Int, again : BOOLEAN]
StackWords == UNION {Stacks[t]..(Stacks[t] + StackSize) : t \in DOMAIN Stacks}
Top(f) == IF f.held # 0 THEN f.held ELSE Stacks[f.thr] + StackSize
OnFlow(f, a) == f.sp <= a /\ a < Top(f)
HasPlace(f) ==
  /\ Stacks[f.thr] < f.sp /\ f.sp <= Top(f) /\ Top(f) <= Stacks[f.thr] + StackSize
  /\ f.held # 0 => f.held \in DOMAIN live /\ live[f.held].thr = f.thr
  /\ f.thr \notin fresh

RiscvTypes ==
  /\ port \in {"nemu", "npc"} /\ core \in CoreType /\ mem \in [StackWords -> Int]
  /\ fresh \subseteq DOMAIN Stacks /\ want \in Flow(R!REGS)
  /\ DOMAIN live \subseteq Int /\ \A c \in DOMAIN live : live[c] \in Flow(R!REGS) \cup Flow({R!A0})
  /\ DOMAIN words \subseteq Int /\ \A a \in DOMAIN words : words[a] \in Int
Matches ==
  /\ core.pc = want.pc /\ core.gpr[R!SP] = want.sp
  /\ \A r \in R!REGS : core.gpr[r] = want.regs[r]
RunsLowest ==
  /\ HasPlace(want)
  /\ \A c \in DOMAIN live : live[c].thr = want.thr => Top(want) <= c
  /\ want.again => R!LowerEnd(want.sp - 1)
Suspended ==
  \A c \in DOMAIN live : HasPlace(live[c]) /\ live[c].sp = c + R!CONTEXT_SIZE /\ Stacks[live[c].thr] + 1 < c
(* What lies above another flow waits for the handler that works on it.    *)
Nested ==
  \A c, d \in DOMAIN live : live[c].thr = live[d].thr /\ c < d =>
    Top(live[c]) <= d /\ \E e \in DOMAIN live : live[e].held = d
Frames ==
  \A c \in DOMAIN live : mem[c + R!EPC] = live[c].pc /\ \A r \in DOMAIN live[c].regs : mem[c + r] = live[c].regs[r]
WordsKept ==
  \A a \in DOMAIN words : mem[a] = words[a] /\ (OnFlow(want, a) \/ \E c \in DOMAIN live : OnFlow(live[c], a))
RiscvParts == RiscvTypes /\ Matches /\ RunsLowest /\ Suspended /\ Nested /\ Frames /\ WordsKept
RiscvInv == R!Running => RiscvParts

(* The numbers of the registers and the words of a frame (trap.S).         *)
LEMMA RiscvNumbers ==
  /\ R!RA = 1 /\ R!SP = 2 /\ R!A0 = 3 /\ R!A7 = 4 /\ R!T = 5
  /\ R!REGS = {1, 3, 4, 5} /\ R!GPRS = {1, 2, 3, 4, 5}
  /\ R!CAUSE = 6 /\ R!STATUS = 7 /\ R!EPC = 8 /\ R!sizeof_Context = 10
BY DEF R!RA, R!SP, R!A0, R!A7, R!T, R!REGS, R!GPRS, R!CAUSE, R!STATUS, R!EPC, R!sizeof_Context, R!NR_REGS

(* A frame has nine words in one port and ten in the other (trap.S:34).    *)
LEMMA FrameSize ==
  ASSUME RiscvTypes PROVE R!CONTEXT_SIZE \in {9, 10}
BY DEF RiscvTypes, R!CONTEXT_SIZE, R!NR_REGS

(* Where a flow is, in numbers. *)
LEMMA FlowNumbers ==
  ASSUME RiscvTypes
  PROVE  /\ want.thr \in DOMAIN Stacks /\ want.sp \in Int /\ want.held \in Int /\ Top(want) \in Int
         /\ Stacks[want.thr] \in Nat /\ StackSize \in Nat
         /\ \A c \in DOMAIN live : /\ c \in Int /\ live[c].thr \in DOMAIN Stacks /\ live[c].sp \in Int
                                   /\ live[c].held \in Int /\ Top(live[c]) \in Int /\ Stacks[live[c].thr] \in Nat
<1>1. /\ want.thr \in DOMAIN Stacks /\ want.sp \in Int /\ want.held \in Int
      /\ \A c \in DOMAIN live : c \in Int /\ live[c].thr \in DOMAIN Stacks /\ live[c].sp \in Int /\ live[c].held \in Int
  BY DEF RiscvTypes, Flow
<1>2. StackSize \in Nat /\ \A t \in DOMAIN Stacks : Stacks[t] \in Nat
  BY StacksAssumption
<1>3. QED
  BY <1>1, <1>2 DEF Top

(* The words a flow of this stack may write now: none of another flow. *)
Writable(t, x) ==
  /\ t \in DOMAIN Stacks /\ x \in Int /\ Stacks[t] <= x /\ x < Stacks[t] + StackSize
  /\ t \in fresh \/ (t = want.thr /\ x < want.sp)

(* Such a word is in no frame and on no flow.                              *)
LEMMA WritesApart ==
  ASSUME RiscvTypes, RunsLowest, Suspended, NEW t, NEW x, Writable(t, x)
  PROVE  /\ \A c \in DOMAIN live : \A i \in 0..8 : x # c + i
         /\ \A a \in Int : (OnFlow(want, a) \/ \E c \in DOMAIN live : OnFlow(live[c], a)) => x # a
<1>1. /\ t \in DOMAIN Stacks /\ x \in Int /\ Stacks[t] \in Nat /\ Stacks[t] <= x /\ x < Stacks[t] + StackSize
      /\ StackSize \in Nat
  BY StacksAssumption DEF Writable
<1>2. t \in fresh \/ (t = want.thr /\ x < want.sp)
  BY DEF Writable
<1>3. ASSUME NEW c \in DOMAIN live, NEW a \in Int, c <= a, a < Top(live[c]) PROVE x # a
  <2> DEFINE u == live[c].thr
  <2>1. /\ c \in Int /\ u \in DOMAIN Stacks /\ Stacks[u] \in Nat /\ Top(live[c]) \in Int
        /\ want.sp \in Int /\ Top(want) \in Int
    BY <1>3, FlowNumbers
  <2>2. /\ Stacks[u] + 1 < c /\ Top(live[c]) <= Stacks[u] + StackSize /\ u \notin fresh
    BY <1>3 DEF Suspended, HasPlace
  <2>3. /\ u = want.thr => Top(want) <= c
        /\ want.sp <= Top(want) 
    BY <1>3 DEF RunsLowest, HasPlace
  <2> HIDE DEF u
  <2>4. CASE u = t
    <3>1. t = want.thr /\ x < want.sp
      BY <1>2, <2>2, <2>4
    <3>2. want.sp <= Top(want) /\ Top(want) <= c
      BY <2>3, <2>4, <3>1
    <3>3. QED
      BY <1>1, <1>3, <2>1, <3>1, <3>2
  <2>5. CASE u # t
    <3>1. Stacks[t] + StackSize <= Stacks[u] \/ Stacks[u] + StackSize <= Stacks[t]
      BY <1>1, <2>1, <2>5, StacksAssumption
    <3>2. QED
      BY <1>1, <1>3, <2>1, <2>2, <3>1
  <2>6. QED
    BY <2>4, <2>5
<1>4. ASSUME NEW c \in DOMAIN live, NEW i \in 0..8 PROVE x # c + i
  <2>1. c \in Int /\ Top(live[c]) \in Int /\ live[c].sp = c + R!CONTEXT_SIZE /\ live[c].sp <= Top(live[c])
    BY <1>4, FlowNumbers DEF Suspended, HasPlace
  <2>2. c + i \in Int /\ c <= c + i /\ c + i < Top(live[c])
    BY <1>4, <2>1, FrameSize
  <2>3. QED
    BY <1>3, <2>2
<1>5. ASSUME NEW a \in Int, NEW c \in DOMAIN live, OnFlow(live[c], a) PROVE x # a
  <2>1. c \in Int /\ live[c].sp = c + R!CONTEXT_SIZE /\ live[c].sp <= a /\ a < Top(live[c])
    BY <1>5, FlowNumbers DEF Suspended, OnFlow
  <2>2. c <= a
    BY <1>5, <2>1, FrameSize
  <2>3. QED
    BY <1>3, <2>1, <2>2
<1>6. ASSUME NEW a \in Int, OnFlow(want, a) PROVE x # a
  <2>1. want.sp <= a /\ a < Top(want) /\ want.sp \in Int /\ Top(want) \in Int
    BY <1>6, FlowNumbers DEF OnFlow
  <2>2. /\ Stacks[want.thr] < want.sp /\ Top(want) <= Stacks[want.thr] + StackSize
        /\ want.thr \notin fresh /\ want.thr \in DOMAIN Stacks /\ Stacks[want.thr] \in Nat
    BY FlowNumbers DEF RunsLowest, HasPlace
  <2>3. CASE t = want.thr
    BY <1>1, <1>2, <1>6, <2>1, <2>2, <2>3
  <2>4. CASE t # want.thr
    <3>1. Stacks[t] + StackSize <= Stacks[want.thr] \/ Stacks[want.thr] + StackSize <= Stacks[t]
      BY <1>1, <2>2, <2>4, StacksAssumption
    <3>2. QED
      BY <1>1, <1>6, <2>1, <2>2, <3>1
  <2>5. QED
    BY <2>3, <2>4
<1>7. QED
  BY <1>4, <1>5, <1>6

(* Frames and words stay when only words are written that belong to no flow. *)
LEMMA ContentsStay ==
  ASSUME RiscvParts,
         \A a \in StackWords : mem'[a] # mem[a] => \E t \in DOMAIN Stacks : Writable(t, a)
  PROVE  /\ \A c \in DOMAIN live : /\ mem'[c + R!EPC] = live[c].pc
                                   /\ \A r \in DOMAIN live[c].regs : mem'[c + r] = live[c].regs[r]
         /\ \A a \in DOMAIN words : mem'[a] = words[a]
<1>0. RiscvTypes /\ RunsLowest /\ Suspended /\ Frames /\ WordsKept
  BY DEF RiscvParts
<1>1. ASSUME NEW c \in DOMAIN live, NEW i \in 1..8 PROVE c + i \in StackWords /\ mem'[c + i] = mem[c + i]
  <2>1. /\ c \in Int /\ live[c].thr \in DOMAIN Stacks /\ Stacks[live[c].thr] \in Nat /\ Top(live[c]) \in Int
        /\ StackSize \in Nat
    BY <1>0, <1>1, FlowNumbers
  <2>2. /\ Stacks[live[c].thr] + 1 < c /\ c + R!CONTEXT_SIZE <= Top(live[c])
        /\ Top(live[c]) <= Stacks[live[c].thr] + StackSize
    BY <1>0, <1>1 DEF Suspended, HasPlace
  <2>3. c + i \in Stacks[live[c].thr]..(Stacks[live[c].thr] + StackSize)
    BY <1>0, <1>1, <2>1, <2>2, FrameSize
  <2>4. c + i \in StackWords
    BY <2>1, <2>3 DEF StackWords
  <2>5. ASSUME NEW t \in DOMAIN Stacks, Writable(t, c + i) PROVE FALSE
    <3>1. PICK x : x = c + i
      OBVIOUS
    <3>2. i \in 0..8 /\ x # c + i
      BY <1>0, <1>1, <2>5, <3>1, WritesApart
    <3>3. QED
      BY <3>1, <3>2
  <2>6. QED
    BY <2>4, <2>5
<1>2. ASSUME NEW a \in DOMAIN words PROVE mem'[a] = words[a]
  <2>1. a \in Int /\ mem[a] = words[a] /\ (OnFlow(want, a) \/ \E c \in DOMAIN live : OnFlow(live[c], a))
    BY <1>0, <1>2 DEF RiscvTypes, WordsKept
  <2>3. ASSUME NEW t \in DOMAIN Stacks, Writable(t, a) PROVE FALSE
    BY <1>0, <2>1, <2>3, WritesApart
  <2>4. a \in StackWords
    <3>1. CASE OnFlow(want, a)
      <4>1. a \in Stacks[want.thr]..(Stacks[want.thr] + StackSize)
        BY <1>0, <2>1, <3>1, FlowNumbers DEF OnFlow, RunsLowest, HasPlace
      <4>2. QED
        BY <1>0, <4>1, FlowNumbers DEF StackWords
    <3>2. ASSUME NEW c \in DOMAIN live, OnFlow(live[c], a) PROVE a \in StackWords
      <4>1. a \in Stacks[live[c].thr]..(Stacks[live[c].thr] + StackSize)
        BY <1>0, <2>1, <3>2, FlowNumbers DEF OnFlow, Suspended, HasPlace
      <4>2. QED
        BY <1>0, <3>2, <4>1, FlowNumbers DEF StackWords
    <3>3. QED
      BY <2>1, <3>1, <3>2
  <2>5. QED
    BY <2>1, <2>3, <2>4
<1>3. ASSUME NEW c \in DOMAIN live
      PROVE  mem'[c + R!EPC] = live[c].pc /\ \A r \in DOMAIN live[c].regs : mem'[c + r] = live[c].regs[r]
  <2>1. mem[c + R!EPC] = live[c].pc /\ \A r \in DOMAIN live[c].regs : mem[c + r] = live[c].regs[r]
    BY <1>0 DEF Frames
  <2>2. DOMAIN live[c].regs \subseteq 1..8 /\ R!EPC \in 1..8
    <3>1. DOMAIN live[c].regs = R!REGS \/ DOMAIN live[c].regs = {R!A0}
      BY <1>0 DEF RiscvTypes, Flow
    <3>2. QED
      BY <3>1, RiscvNumbers
  <2>3. QED
    BY <1>1, <2>1, <2>2
<1>4. QED
  BY <1>2, <1>3

(* The places stay when the running flow keeps its thread and its context. *)
LEMMA PlacesStay ==
  ASSUME RiscvParts, UNCHANGED <<port, live, fresh>>,
         want'.thr = want.thr, want'.held = want.held, want'.sp \in Int,
         Stacks[want.thr] < want'.sp, want'.sp <= Top(want),
         want'.again => want'.sp - 1 - R!CONTEXT_SIZE > Stacks[want.thr]
  PROVE  RunsLowest' /\ Suspended' /\ Nested' /\ R!CONTEXT_SIZE' = R!CONTEXT_SIZE /\ Top(want)' = Top(want)
<1>1. R!CONTEXT_SIZE' = R!CONTEXT_SIZE
  BY DEF R!CONTEXT_SIZE
<1>2. RunsLowest /\ Suspended /\ Nested
  BY DEF RiscvParts
<1>3. Top(want)' = Top(want) /\ \A c \in DOMAIN live : Top(live[c])' = Top(live[c])
  BY DEF Top
<1>4. HasPlace(want)'
  BY <1>2, <1>3 DEF RunsLowest, HasPlace
<1>5. RunsLowest'
  BY <1>1, <1>2, <1>3, <1>4 DEF RunsLowest, R!LowerEnd
<1>6. Suspended'
  BY <1>1, <1>2, <1>3 DEF Suspended, HasPlace
<1>7. Nested'
  BY <1>2, <1>3 DEF Nested
<1>8. QED
  BY <1>1, <1>3, <1>5, <1>6, <1>7

(* The machine starts with one flow, at the end of its stack.              *)
LEMMA RiscvInit ==
  ASSUME R!Init PROVE RiscvParts
<1>1. /\ port \in {"nemu", "npc"} /\ user_handler = "none" /\ fresh = DOMAIN Stacks \ {BootThread}
      /\ core = [gpr |-> [r \in R!GPRS |-> IF r = R!SP THEN Stacks[BootThread] + StackSize ELSE 0],
                 pc |-> R!Entry, mcause |-> 0, mepc |-> 0, mstatus |-> R!MPP, mtvec |-> 0]
      /\ mem = [a \in StackWords |-> 0]
      /\ want = [regs |-> [r \in R!REGS |-> 0], pc |-> R!Entry, sp |-> Stacks[BootThread] + StackSize,
                 thr |-> BootThread, held |-> 0, again |-> FALSE]
      /\ DOMAIN live = {} /\ DOMAIN words = {}
  BY DEF R!Init, StackWords
<1>2. BootThread \in DOMAIN Stacks /\ Stacks[BootThread] \in Nat /\ StackSize \in Nat /\ StackSize >= 12
  BY StacksAssumption
<1>3. R!Entry \in Int /\ R!MPP \in Int
  BY DEF R!Entry, R!MPP
<1>4. RiscvTypes
  <2>1. core \in CoreType
    <3> DEFINE g == [r \in R!GPRS |-> IF r = R!SP THEN Stacks[BootThread] + StackSize ELSE 0]
    <3>1. g \in [R!GPRS -> Int]
      BY <1>2
    <3> HIDE DEF g
    <3>2. QED
      BY <1>1, <1>3, <3>1 DEF CoreType, g
  <2>2. want \in Flow(R!REGS)
    <3> DEFINE g == [r \in R!REGS |-> 0]
               s == Stacks[BootThread] + StackSize
    <3>1. g \in [R!REGS -> Int] /\ s \in Int
      BY <1>2
    <3>2. want = [regs |-> g, pc |-> R!Entry, sp |-> s, thr |-> BootThread, held |-> 0, again |-> FALSE]
      BY <1>1
    <3> HIDE DEF g, s
    <3>3. QED
      BY <1>2, <1>3, <3>1, <3>2 DEF Flow
  <2>3. mem \in [StackWords -> Int]
    BY <1>1
  <2>4. QED
    BY <1>1, <2>1, <2>2, <2>3 DEF RiscvTypes
<1>5. Matches
  BY <1>1, RiscvNumbers DEF Matches
<1>6. RunsLowest
  <2>1. Top(want) = Stacks[BootThread] + StackSize /\ want.thr = BootThread /\ want.sp = Stacks[BootThread] + StackSize
        /\ want.held = 0 /\ want.again = FALSE /\ want.thr \notin fresh
    BY <1>1 DEF Top
  <2>2. HasPlace(want)
    BY <1>2, <2>1 DEF HasPlace
  <2>3. QED
    BY <1>1, <2>1, <2>2 DEF RunsLowest
<1>7. Suspended /\ Nested /\ Frames /\ WordsKept
  BY <1>1 DEF Suspended, Nested, Frames, WordsKept
<1>8. QED
  BY <1>4, <1>5, <1>6, <1>7 DEF RiscvParts

(* cte_init and computing leave memory and contexts alone. *)
LEMMA RiscvQuiet ==
  ASSUME RiscvParts, UNCHANGED <<port, mem, fresh, live, words>>,
         core' \in CoreType, want' \in Flow(R!REGS), Matches',
         want'.thr = want.thr, want'.held = want.held, want'.sp = want.sp,
         want'.again => want.again
  PROVE  RiscvParts'
<1>1. RiscvTypes /\ RunsLowest /\ WordsKept /\ Frames
  BY DEF RiscvParts
<1>2. RiscvTypes'
  BY <1>1 DEF RiscvTypes, StackWords
<1>3. want'.sp \in Int /\ Stacks[want.thr] < want'.sp /\ want'.sp <= Top(want)
      /\ (want'.again => want'.sp - 1 - R!CONTEXT_SIZE > Stacks[want.thr])
  BY <1>1, FlowNumbers DEF RunsLowest, HasPlace, R!LowerEnd
<1>4. RunsLowest' /\ Suspended' /\ Nested' /\ Top(want)' = Top(want)
  BY <1>3, PlacesStay
<1>5. Frames' /\ WordsKept'
  BY <1>1, <1>4 DEF Frames, WordsKept, OnFlow, Top
<1>6. QED
  BY <1>2, <1>4, <1>5 DEF RiscvParts

(* cte_init sets mtvec and changes no flow.                                *)
LEMMA RiscvCteInit ==
  ASSUME RiscvParts, NEW h, R!cte_init(h) PROVE RiscvParts'
<1>1. core' = [core EXCEPT !.mtvec = R!AsmTrap] /\ UNCHANGED <<port, mem, fresh, want, live, words>>
  BY DEF R!cte_init
<1>2. RiscvTypes /\ Matches
  BY DEF RiscvParts
<1>3. core' \in CoreType /\ core'.pc = core.pc /\ core'.gpr = core.gpr
  <2>1. R!AsmTrap \in Int
    BY DEF R!AsmTrap
  <2>2. QED
    BY <1>1, <1>2, <2>1 DEF RiscvTypes, CoreType
<1>4. Matches'
  BY <1>1, <1>2, <1>3 DEF Matches
<1>5. want' \in Flow(R!REGS) /\ want'.thr = want.thr /\ want'.held = want.held /\ want'.sp = want.sp /\ want'.again = want.again
  BY <1>1, <1>2 DEF RiscvTypes
<1>6. QED
  BY <1>1, <1>3, <1>4, <1>5, RiscvQuiet

(* A register of the running flow changes. *)
LEMMA SetRegister ==
  ASSUME RiscvTypes, NEW r \in R!REGS, NEW v \in Int
  PROVE  /\ [core EXCEPT !.gpr[r] = v] \in CoreType
         /\ [core EXCEPT !.gpr[r] = v].pc = core.pc
         /\ [core EXCEPT !.gpr[r] = v].mtvec = core.mtvec
         /\ \A s \in R!GPRS : [core EXCEPT !.gpr[r] = v].gpr[s] = IF s = r THEN v ELSE core.gpr[s]
         /\ [want EXCEPT !.regs[r] = v] \in Flow(R!REGS)
         /\ \A s \in R!REGS : [want EXCEPT !.regs[r] = v].regs[s] = IF s = r THEN v ELSE want.regs[s]
         /\ [want EXCEPT !.regs[r] = v].pc = want.pc
         /\ [want EXCEPT !.regs[r] = v].sp = want.sp
         /\ [want EXCEPT !.regs[r] = v].thr = want.thr
         /\ [want EXCEPT !.regs[r] = v].held = want.held
         /\ [want EXCEPT !.regs[r] = v].again = want.again
<1>1. core \in CoreType /\ want \in Flow(R!REGS) /\ r \in R!GPRS
  BY RiscvNumbers DEF RiscvTypes
<1>2. [core EXCEPT !.gpr[r] = v] \in CoreType /\ [core EXCEPT !.gpr[r] = v].pc = core.pc
      /\ [core EXCEPT !.gpr[r] = v].mtvec = core.mtvec
      /\ \A s \in R!GPRS : [core EXCEPT !.gpr[r] = v].gpr[s] = IF s = r THEN v ELSE core.gpr[s]
  BY <1>1 DEF CoreType
<1>3. [want EXCEPT !.regs[r] = v] \in Flow(R!REGS)
      /\ \A s \in R!REGS : [want EXCEPT !.regs[r] = v].regs[s] = IF s = r THEN v ELSE want.regs[s]
  BY <1>1 DEF Flow
<1>4. QED
  BY <1>1, <1>2, <1>3 DEF Flow

(* A computation changes a register of the running flow only.              *)
LEMMA RiscvCompute ==
  ASSUME RiscvParts, NEW r \in {R!RA, R!A0, R!T}, NEW v \in Vals, R!compute(r, v) PROVE RiscvParts'
<1>1. /\ core' = [core EXCEPT !.gpr[r] = v] /\ want' = [want EXCEPT !.regs[r] = v]
      /\ UNCHANGED <<port, mem, fresh, live, words>>
  BY DEF R!compute
<1>2. RiscvTypes /\ Matches /\ r \in R!REGS /\ v \in Int
  BY RiscvNumbers, StacksAssumption DEF RiscvParts
<1>3. /\ core' \in CoreType /\ core'.pc = core.pc
      /\ \A s \in R!GPRS : core'.gpr[s] = IF s = r THEN v ELSE core.gpr[s]
  BY <1>1, <1>2, SetRegister
<1>4. /\ want' \in Flow(R!REGS) /\ want'.pc = want.pc /\ want'.sp = want.sp /\ want'.thr = want.thr
      /\ want'.held = want.held /\ want'.again = want.again
      /\ \A s \in R!REGS : want'.regs[s] = IF s = r THEN v ELSE want.regs[s]
  BY <1>1, <1>2, SetRegister
<1>5. Matches'
  BY <1>2, <1>3, <1>4, RiscvNumbers DEF Matches
<1>6. QED
  BY <1>1, <1>3, <1>4, <1>5, RiscvQuiet

(* A push writes below the running flow, where no other flow is.           *)
LEMMA RiscvPush ==
  ASSUME RiscvParts, NEW v \in Vals, R!push(v) PROVE RiscvParts'
<1> DEFINE s == core.gpr[R!SP] - 1
<1>1. /\ R!LowerEnd(core.gpr[R!SP] - 2) /\ ~want.again
      /\ core' = [core EXCEPT !.gpr[R!SP] = @ - 1] /\ mem' = [mem EXCEPT ![s] = v]
      /\ want' = [want EXCEPT !.sp = @ - 1] /\ words' = R!Put(words, s, v)
      /\ UNCHANGED <<port, fresh, live>>
  BY DEF R!push, R!Free
<1>2. RiscvTypes /\ Matches /\ RunsLowest /\ Suspended /\ WordsKept /\ v \in Int
  BY StacksAssumption DEF RiscvParts
<1>3. /\ want.sp \in Int /\ Top(want) \in Int /\ want.thr \in DOMAIN Stacks /\ Stacks[want.thr] \in Nat
      /\ StackSize \in Nat /\ core.gpr[R!SP] = want.sp
      /\ want.sp <= Top(want) /\ Top(want) <= Stacks[want.thr] + StackSize
  BY <1>2, FlowNumbers DEF Matches, RunsLowest, HasPlace
<1>4. s = want.sp - 1 /\ s \in Int /\ Stacks[want.thr] < s /\ s < want.sp
  BY <1>1, <1>2, <1>3, FrameSize DEF R!LowerEnd
<1>5. s \in StackWords /\ Writable(want.thr, s)
  <2>1. s \in Stacks[want.thr]..(Stacks[want.thr] + StackSize)
    BY <1>3, <1>4
  <2>2. Writable(want.thr, s)
    BY <1>3, <1>4 DEF Writable
  <2>3. QED
    BY <1>3, <2>1, <2>2 DEF StackWords
<1>6. /\ core' \in CoreType /\ core'.pc = core.pc /\ core'.gpr[R!SP] = s
      /\ \A r \in R!REGS : core'.gpr[r] = core.gpr[r]
  <2>1. core' = [core EXCEPT !.gpr[R!SP] = s]
    BY <1>1, <1>2, RiscvNumbers DEF RiscvTypes, CoreType
  <2> HIDE DEF s
  <2>2. QED
    BY <1>2, <1>4, <2>1, RiscvNumbers DEF RiscvTypes, CoreType
<1>7. /\ want' \in Flow(R!REGS) /\ want'.pc = want.pc /\ want'.sp = s /\ want'.regs = want.regs
      /\ want'.thr = want.thr /\ want'.held = want.held /\ want'.again = want.again
  <2>1. want' = [want EXCEPT !.sp = s]
    BY <1>1, <1>2, <1>3 DEF RiscvTypes, Flow
  <2> HIDE DEF s
  <2>2. QED
    BY <1>2, <1>4, <2>1 DEF RiscvTypes, Flow
<1> HIDE DEF s
<1>8. /\ DOMAIN words' = DOMAIN words \cup {s} /\ words'[s] = v
      /\ \A a \in DOMAIN words : a # s => words'[a] = words[a]
  BY <1>1 DEF R!Put
<1>9. /\ mem' \in [StackWords -> Int] /\ mem'[s] = v
      /\ \A a \in StackWords : mem'[a] # mem[a] => Writable(want.thr, a)
  BY <1>1, <1>2, <1>5 DEF RiscvTypes
<1>10. RiscvTypes'
  <2>1. DOMAIN words' \subseteq Int /\ \A a \in DOMAIN words' : words'[a] \in Int
    BY <1>2, <1>4, <1>8 DEF RiscvTypes
  <2>2. QED
    BY <1>1, <1>2, <1>6, <1>7, <1>9, <2>1 DEF RiscvTypes, StackWords
<1>11. Matches'
  BY <1>2, <1>6, <1>7 DEF Matches
<1>12. RunsLowest' /\ Suspended' /\ Nested' /\ Top(want)' = Top(want)
  <2>1. want'.sp \in Int /\ Stacks[want.thr] < want'.sp /\ want'.sp <= Top(want) /\ ~want'.again
    BY <1>1, <1>3, <1>4, <1>7
  <2>2. QED
    BY <1>1, <1>7, <2>1, PlacesStay
<1>13. Frames' /\ \A a \in DOMAIN words : mem'[a] = words[a]
  BY <1>1, <1>3, <1>9, ContentsStay DEF Frames
<1>14. WordsKept'
  <2> SUFFICES ASSUME NEW a \in DOMAIN words'
               PROVE  mem'[a] = words'[a] /\ (OnFlow(want, a)' \/ \E c \in DOMAIN live' : OnFlow(live[c], a)')
    BY DEF WordsKept
  <2>1. CASE a = s
    BY <1>3, <1>4, <1>7, <1>8, <1>9, <1>12, <2>1 DEF OnFlow
  <2>2. CASE a # s
    <3>1. a \in DOMAIN words /\ a \in Int /\ words'[a] = words[a]
      BY <1>2, <1>8, <2>2 DEF RiscvTypes
    <3>2. OnFlow(want, a) => OnFlow(want, a)'
      BY <1>3, <1>4, <1>7, <1>12, <3>1 DEF OnFlow
    <3>3. \A c \in DOMAIN live : OnFlow(live[c], a) => OnFlow(live[c], a)'
      BY <1>1 DEF OnFlow, Top
    <3>4. QED
      BY <1>1, <1>2, <1>13, <3>1, <3>2, <3>3 DEF WordsKept
  <2>3. QED
    BY <2>1, <2>2
<1>15. QED
  BY <1>10, <1>11, <1>12, <1>13, <1>14 DEF RiscvParts

(* A pop takes a word of the running flow and stays on its own part.       *)
LEMMA RiscvPop ==
  ASSUME RiscvParts, R!pop PROVE RiscvParts'
<1> DEFINE s == core.gpr[R!SP]
<1>1. /\ s \in DOMAIN words /\ (want.held # 0 => s < want.held - 1) /\ ~want.again
      /\ core' = [core EXCEPT !.gpr[R!T] = mem[s], !.gpr[R!SP] = s + 1]
      /\ want' = [want EXCEPT !.regs[R!T] = words[s], !.sp = @ + 1]
      /\ words' = R!Restrict(words, DOMAIN words \ {s})
      /\ UNCHANGED <<port, mem, fresh, live>>
  BY DEF R!pop, R!Free
<1>2. RiscvTypes /\ Matches /\ RunsLowest /\ Suspended /\ WordsKept /\ Frames
  BY DEF RiscvParts
<1>3. /\ want.sp \in Int /\ want.held \in Int /\ Top(want) \in Int /\ want.thr \in DOMAIN Stacks
      /\ Stacks[want.thr] \in Nat /\ StackSize \in Nat /\ s = want.sp
      /\ Stacks[want.thr] < want.sp /\ want.sp <= Top(want) /\ Top(want) <= Stacks[want.thr] + StackSize
  BY <1>2, FlowNumbers DEF Matches, RunsLowest, HasPlace
<1>4. mem[s] = words[s] /\ words[s] \in Int
  BY <1>1, <1>2 DEF WordsKept, RiscvTypes
<1>5. s + 1 \in Int /\ s < Top(want)
  <2>1. CASE OnFlow(want, s)
    BY <1>3, <2>1 DEF OnFlow
  <2>2. ASSUME NEW c \in DOMAIN live, OnFlow(live[c], s), ~(s < Top(want)) PROVE FALSE
    <3>1. s = Top(want)
      BY <1>3, <2>2
    <3>2. want.held = 0
      BY <1>1, <1>3, <3>1 DEF Top
    <3>3. s = Stacks[want.thr] + StackSize
      BY <3>1, <3>2 DEF Top
    <3> DEFINE u == live[c].thr
    <3>4. /\ c \in Int /\ u \in DOMAIN Stacks /\ Stacks[u] \in Nat /\ live[c].sp \in Int /\ Top(live[c]) \in Int
          /\ Stacks[u] < live[c].sp /\ live[c].sp <= s /\ s < Top(live[c]) /\ Top(live[c]) <= Stacks[u] + StackSize
      BY <1>2, <2>2, FlowNumbers DEF Suspended, HasPlace, OnFlow
    <3> HIDE DEF u, s
    <3>5. u # want.thr
      BY <1>3, <3>3, <3>4
    <3>6. Stacks[want.thr] + StackSize <= Stacks[u] \/ Stacks[u] + StackSize <= Stacks[want.thr]
      BY <1>3, <3>4, <3>5, StacksAssumption
    <3>7. QED
      BY <1>3, <3>3, <3>4, <3>6
  <2>3. QED
    BY <1>1, <1>2, <1>3, <2>1, <2>2 DEF WordsKept
<1>6. /\ core' \in CoreType /\ core'.pc = core.pc /\ core'.gpr[R!SP] = s + 1
      /\ \A r \in R!REGS : core'.gpr[r] = IF r = R!T THEN words[s] ELSE core.gpr[r]
  <2> DEFINE n == s + 1
             v == words[s]
             g == [core.gpr EXCEPT ![R!T] = v, ![R!SP] = n]
  <2>1. core' = [core EXCEPT !.gpr = g] /\ core \in CoreType /\ v \in Int /\ n \in Int
    BY <1>1, <1>2, <1>4, <1>5 DEF RiscvTypes, CoreType
  <2> HIDE DEF n, v
  <2>2. /\ g \in [R!GPRS -> Int] /\ g[R!SP] = n
        /\ \A r \in R!REGS : g[r] = IF r = R!T THEN v ELSE core.gpr[r]
    BY <2>1, RiscvNumbers DEF CoreType
  <2> HIDE DEF g
  <2>3. core' \in CoreType /\ core'.pc = core.pc /\ core'.gpr = g
    BY <2>1, <2>2 DEF CoreType
  <2>4. QED
    BY <2>2, <2>3 DEF n, v
<1>7. /\ want' \in Flow(R!REGS) /\ want'.pc = want.pc /\ want'.sp = s + 1
      /\ want'.thr = want.thr /\ want'.held = want.held /\ want'.again = want.again
      /\ \A r \in R!REGS : want'.regs[r] = IF r = R!T THEN words[s] ELSE want.regs[r]
  <2> DEFINE n == s + 1
             v == words[s]
             g == [want.regs EXCEPT ![R!T] = v]
  <2>1. want' = [want EXCEPT !.regs = g, !.sp = n] /\ want \in Flow(R!REGS) /\ v \in Int /\ n \in Int
    BY <1>1, <1>2, <1>3, <1>4, <1>5 DEF RiscvTypes, Flow
  <2> HIDE DEF n, v
  <2>2. g \in [R!REGS -> Int] /\ \A r \in R!REGS : g[r] = IF r = R!T THEN v ELSE want.regs[r]
    BY <2>1, RiscvNumbers DEF Flow
  <2> HIDE DEF g
  <2>3. /\ want' \in Flow(R!REGS) /\ want'.pc = want.pc /\ want'.sp = n /\ want'.regs = g
        /\ want'.thr = want.thr /\ want'.held = want.held /\ want'.again = want.again
    BY <2>1, <2>2 DEF Flow
  <2>4. QED
    BY <2>2, <2>3 DEF n, v
<1> HIDE DEF s
<1>8. DOMAIN words' = DOMAIN words \ {s} /\ \A a \in DOMAIN words' : words'[a] = words[a]
  BY <1>1 DEF R!Restrict
<1>9. RiscvTypes'
  <2>1. DOMAIN words' \subseteq Int /\ \A a \in DOMAIN words' : words'[a] \in Int
    BY <1>2, <1>8 DEF RiscvTypes
  <2>2. QED
    BY <1>1, <1>2, <1>6, <1>7, <2>1 DEF RiscvTypes, StackWords
<1>10. Matches'
  BY <1>2, <1>6, <1>7 DEF Matches
<1>11. RunsLowest' /\ Suspended' /\ Nested' /\ Top(want)' = Top(want)
  <2>1. want'.sp \in Int /\ Stacks[want.thr] < want'.sp /\ want'.sp <= Top(want) /\ ~want'.again
    BY <1>1, <1>3, <1>5, <1>7
  <2>2. QED
    BY <1>1, <1>7, <2>1, PlacesStay
<1>12. Frames'
  BY <1>1, <1>2 DEF Frames
<1>13. WordsKept'
  <2> SUFFICES ASSUME NEW a \in DOMAIN words'
               PROVE  mem'[a] = words'[a] /\ (OnFlow(want, a)' \/ \E c \in DOMAIN live' : OnFlow(live[c], a)')
    BY DEF WordsKept
  <2>1. a \in DOMAIN words /\ a \in Int /\ a # s /\ words'[a] = words[a]
    BY <1>2, <1>8 DEF RiscvTypes
  <2>2. OnFlow(want, a) => OnFlow(want, a)'
    BY <1>3, <1>7, <1>11, <2>1 DEF OnFlow
  <2>3. \A c \in DOMAIN live : OnFlow(live[c], a) => OnFlow(live[c], a)'
    BY <1>1 DEF OnFlow, Top
  <2>4. QED
    BY <1>1, <1>2, <2>1, <2>2, <2>3 DEF WordsKept
<1>14. QED
  BY <1>9, <1>10, <1>11, <1>12, <1>13 DEF RiscvParts

(* kcontext lays a context into the stack of a thread that is not there yet. *)
LEMMA RiscvKcontext ==
  ASSUME RiscvParts, NEW t \in DOMAIN Stacks, NEW arg \in Vals, R!kcontext(t, arg) PROVE RiscvParts'
<1> DEFINE k == Stacks[t] + StackSize - R!sizeof_Context
           f == [regs |-> [r \in {R!A0} |-> arg], pc |-> R!Entry, sp |-> k + R!CONTEXT_SIZE,
                 thr |-> t, held |-> 0, again |-> FALSE]
<1>1. /\ t \in fresh /\ fresh' = fresh \ {t}
      /\ mem' = [mem EXCEPT ![k + R!EPC] = R!Entry, ![k + R!STATUS] = R!MPP, ![k + R!A0] = arg]
      /\ live' = R!Put(live, k, f)
      /\ UNCHANGED <<port, core, want, words>>
  BY DEF R!kcontext
<1>2. RiscvTypes /\ Matches /\ RunsLowest /\ Suspended /\ Nested /\ Frames /\ WordsKept
  BY DEF RiscvParts
<1>3. /\ Stacks[t] \in Nat /\ StackSize \in Nat /\ StackSize >= 12 /\ R!CONTEXT_SIZE \in {9, 10}
      /\ R!CONTEXT_SIZE' = R!CONTEXT_SIZE /\ arg \in Int /\ R!Entry \in Int /\ R!MPP \in Int
  BY <1>1, <1>2, FrameSize, StacksAssumption DEF R!CONTEXT_SIZE, R!Entry, R!MPP
<1>4. /\ k \in Int /\ k = Stacks[t] + StackSize - 10 /\ Stacks[t] + 1 < k
      /\ k + R!CONTEXT_SIZE \in Int /\ k + R!CONTEXT_SIZE <= Stacks[t] + StackSize
  BY <1>3, RiscvNumbers
<1>5. \A i \in 0..8 : Writable(t, k + i) /\ k + i \in StackWords
  <2> SUFFICES ASSUME NEW i \in 0..8 PROVE Writable(t, k + i) /\ k + i \in StackWords
    OBVIOUS
  <2>1. k + i \in Int /\ Stacks[t] <= k + i /\ k + i < Stacks[t] + StackSize
    BY <1>3, <1>4
  <2>2. k + i \in Stacks[t]..(Stacks[t] + StackSize)
    BY <1>3, <2>1
  <2>3. QED
    BY <1>1, <2>1, <2>2 DEF Writable, StackWords
<1>6. /\ f \in Flow({R!A0}) /\ f.thr = t /\ f.held = 0 /\ f.sp = k + R!CONTEXT_SIZE /\ f.pc = R!Entry
      /\ DOMAIN f.regs = {R!A0} /\ f.regs[R!A0] = arg /\ Top(f) = Stacks[t] + StackSize
  <2> DEFINE g == [r \in {R!A0} |-> arg]
             n == k + R!CONTEXT_SIZE
  <2>1. g \in [{R!A0} -> Int] /\ g[R!A0] = arg /\ DOMAIN g = {R!A0} /\ n \in Int
    BY <1>3, <1>4
  <2>2. f = [regs |-> g, pc |-> R!Entry, sp |-> n, thr |-> t, held |-> 0, again |-> FALSE]
    OBVIOUS
  <2> HIDE DEF g, n, f
  <2>3. f \in Flow({R!A0}) /\ f.thr = t /\ f.held = 0 /\ f.sp = n /\ f.pc = R!Entry /\ f.regs = g
    BY <1>3, <2>1, <2>2 DEF Flow
  <2>4. QED
    BY <2>1, <2>3 DEF n, Top
<1>7. ASSUME NEW c \in DOMAIN live PROVE c # k /\ live[c].thr # t /\ c \in Int
  <2>1. c \in Int /\ live[c].thr # t
    BY <1>1, <1>2, <1>7, FlowNumbers DEF Suspended, HasPlace
  <2>2. PICK x : x = k + 0
    OBVIOUS
  <2>3. Writable(t, x) /\ 0 \in 0..8
    BY <1>5, <2>2
  <2>4. x # c + 0
    BY <1>2, <1>7, <2>3, WritesApart
  <2>5. QED
    BY <1>4, <2>1, <2>2, <2>4
<1> HIDE DEF f
<1>8. /\ DOMAIN live' = DOMAIN live \cup {k} /\ live'[k] = f
      /\ \A c \in DOMAIN live : live'[c] = live[c]
  BY <1>1, <1>7 DEF R!Put
<1>9. /\ mem' \in [StackWords -> Int] /\ mem'[k + R!EPC] = R!Entry /\ mem'[k + R!A0] = arg
      /\ \A a \in StackWords : mem'[a] # mem[a] => Writable(t, a)
  <2>1. k + 8 \in StackWords /\ k + 7 \in StackWords /\ k + 3 \in StackWords
        /\ Writable(t, k + 8) /\ Writable(t, k + 7) /\ Writable(t, k + 3)
    BY <1>5
  <2>2. mem' = [mem EXCEPT ![k + 8] = R!Entry, ![k + 7] = R!MPP, ![k + 3] = arg] /\ mem \in [StackWords -> Int]
    BY <1>1, <1>2, RiscvNumbers DEF RiscvTypes
  <2>3. k + 8 # k + 7 /\ k + 8 # k + 3
    BY <1>4
  <2> HIDE DEF k
  <2>4. mem' \in [StackWords -> Int] /\ mem'[k + 8] = R!Entry /\ mem'[k + 3] = arg
    BY <1>3, <2>1, <2>2, <2>3
  <2>5. \A a \in StackWords : mem'[a] # mem[a] => a = k + 8 \/ a = k + 7 \/ a = k + 3
    BY <2>2
  <2>6. QED
    BY <2>1, <2>4, <2>5, RiscvNumbers
<1> HIDE DEF k
<1>10. /\ \A c \in DOMAIN live : /\ mem'[c + R!EPC] = live[c].pc
                                 /\ \A r \in DOMAIN live[c].regs : mem'[c + r] = live[c].regs[r]
       /\ \A a \in DOMAIN words : mem'[a] = words[a]
  BY <1>9, ContentsStay
<1>11. /\ Top(want)' = Top(want) /\ Top(live[k])' = Stacks[t] + StackSize
       /\ \A c \in DOMAIN live : Top(live[c])' = Top(live[c])
  BY <1>1, <1>6, <1>8 DEF Top
<1>12. RiscvTypes'
  <2>1. DOMAIN live' \subseteq Int /\ \A c \in DOMAIN live' : live'[c] \in Flow(R!REGS) \cup Flow({R!A0})
    BY <1>2, <1>4, <1>6, <1>8 DEF RiscvTypes
  <2>2. fresh' \subseteq DOMAIN Stacks
    BY <1>1, <1>2 DEF RiscvTypes
  <2>3. QED
    BY <1>1, <1>2, <1>9, <2>1, <2>2 DEF RiscvTypes, StackWords
<1>13. Matches'
  BY <1>1, <1>2 DEF Matches
<1>14. HasPlace(want)' /\ want.thr # t
  BY <1>1, <1>2, <1>8, <1>11 DEF RunsLowest, HasPlace
<1>15. RunsLowest'
  <2>1. \A c \in DOMAIN live' : live'[c].thr = want'.thr => Top(want)' <= c
    BY <1>1, <1>2, <1>6, <1>8, <1>11, <1>14 DEF RunsLowest
  <2>2. (want.again => R!LowerEnd(want.sp - 1))'
    BY <1>1, <1>2, <1>3 DEF RunsLowest, R!LowerEnd
  <2>3. QED
    BY <1>14, <2>1, <2>2 DEF RunsLowest
<1>16. Suspended'
  <2> SUFFICES ASSUME NEW c \in DOMAIN live'
               PROVE  HasPlace(live[c])' /\ live'[c].sp = c + R!CONTEXT_SIZE /\ Stacks[live'[c].thr] + 1 < c
    BY <1>3 DEF Suspended
  <2>1. CASE c = k
    <3>1. live'[c].thr = t /\ live'[c].held = 0 /\ live'[c].sp = k + R!CONTEXT_SIZE /\ Top(live[c])' = Stacks[t] + StackSize
      BY <1>6, <1>8, <1>11, <2>1
    <3>2. Stacks[t] < k + R!CONTEXT_SIZE /\ t \notin fresh'
      BY <1>1, <1>3, <1>4
    <3>3. Stacks[t] + StackSize <= Stacks[t] + StackSize
      BY <1>3
    <3>4. HasPlace(live[c])'
      BY <1>4, <3>1, <3>2, <3>3 DEF HasPlace
    <3>5. QED
      BY <1>4, <2>1, <3>1, <3>4
  <2>2. CASE c # k
    <3>1. c \in DOMAIN live /\ live'[c] = live[c] /\ Top(live[c])' = Top(live[c])
      BY <1>8, <1>11, <2>2
    <3>2. HasPlace(live[c])'
      BY <1>1, <1>2, <1>8, <3>1 DEF Suspended, HasPlace
    <3>3. QED
      BY <1>2, <3>1, <3>2 DEF Suspended
  <2>3. QED
    BY <2>1, <2>2
<1>17. Nested'
  <2> SUFFICES ASSUME NEW c \in DOMAIN live', NEW d \in DOMAIN live', live'[c].thr = live'[d].thr, c < d
               PROVE  Top(live[c])' <= d /\ \E e \in DOMAIN live' : live'[e].held = d
    BY DEF Nested
  <2>1. c = k <=> d = k
    BY <1>6, <1>7, <1>8
  <2>2. c # k
    BY <1>4, <2>1
  <2>3. c \in DOMAIN live /\ d \in DOMAIN live /\ live'[c] = live[c] /\ live'[d] = live[d]
    BY <1>8, <2>1, <2>2
  <2>4. Top(live[c]) <= d /\ \E e \in DOMAIN live : live[e].held = d
    BY <1>2, <2>3 DEF Nested
  <2>5. QED
    BY <1>8, <1>11, <2>3, <2>4
<1>18. Frames'
  <2> SUFFICES ASSUME NEW c \in DOMAIN live'
               PROVE  mem'[c + R!EPC] = live'[c].pc /\ \A r \in DOMAIN live'[c].regs : mem'[c + r] = live'[c].regs[r]
    BY DEF Frames
  <2>1. CASE c = k
    BY <1>6, <1>8, <1>9, <2>1
  <2>2. CASE c # k
    BY <1>8, <1>10, <2>2
  <2>3. QED
    BY <2>1, <2>2
<1>19. WordsKept'
  <2> SUFFICES ASSUME NEW a \in DOMAIN words'
               PROVE  mem'[a] = words'[a] /\ (OnFlow(want, a)' \/ \E c \in DOMAIN live' : OnFlow(live[c], a)')
    BY DEF WordsKept
  <2>1. a \in DOMAIN words /\ words'[a] = words[a]
    BY <1>1
  <2>2. OnFlow(want, a) => OnFlow(want, a)'
    BY <1>1, <1>11 DEF OnFlow
  <2>3. \A c \in DOMAIN live : OnFlow(live[c], a) => c \in DOMAIN live' /\ OnFlow(live[c], a)'
    BY <1>8, <1>11 DEF OnFlow
  <2>4. QED
    BY <1>2, <1>10, <2>1, <2>2, <2>3 DEF WordsKept
<1>20. QED
  BY <1>12, <1>13, <1>15, <1>16, <1>17, <1>18, <1>19 DEF RiscvParts

(* What mret continues with is what the frame holds. *)
LEMMA RestoreIs ==
  ASSUME RiscvTypes, NEW k \in Int, NEW m, NEW q \in CoreType, NEW b \in [StackWords -> Int],
         m = [core |-> q, mem |-> b], \A i \in 1..8 : k + i \in StackWords
  PROVE  /\ R!restore(m, k).mem = b /\ R!restore(m, k).core \in CoreType
         /\ R!restore(m, k).core.pc = b[k + R!EPC] /\ R!restore(m, k).core.mtvec = q.mtvec
         /\ R!restore(m, k).core.gpr[R!SP] = k + R!CONTEXT_SIZE
         /\ \A r \in R!REGS : R!restore(m, k).core.gpr[r] = b[k + r]
<1> DEFINE g == [r \in R!GPRS |-> IF r \in R!REGS THEN b[k + r] ELSE k + R!CONTEXT_SIZE]
           s == b[k + R!STATUS]
           e == b[k + R!EPC]
           n == k + R!CONTEXT_SIZE
<1>1. s \in Int /\ e \in Int /\ n \in Int /\ \A r \in R!REGS : b[k + r] \in Int
  BY RiscvNumbers, FrameSize
<1>2. g \in [R!GPRS -> Int] /\ g[R!SP] = n /\ \A r \in R!REGS : g[r] = b[k + r]
  <2> HIDE DEF n
  <2>1. g = [r \in R!GPRS |-> IF r \in R!REGS THEN b[k + r] ELSE n]
    BY DEF n
  <2> HIDE DEF g
  <2>2. QED
    BY <1>1, <2>1, RiscvNumbers
<1> DEFINE h == [q EXCEPT !.mstatus = s, !.mepc = e, !.gpr = g]
<1>3. R!restore(m, k) = [m EXCEPT !.core = R!MRET(h)]
  <2>1. m.core = q /\ m.mem = b /\ DOMAIN q.gpr = R!GPRS
    BY DEF CoreType
  <2>2. QED
    BY <2>1 DEF R!restore
<1> HIDE DEF g, s, e, n
<1>4. h \in CoreType /\ h.mepc = e /\ h.gpr = g /\ h.mtvec = q.mtvec
  BY <1>1, <1>2 DEF CoreType
<1> HIDE DEF h
<1>5. R!MRET(h) \in CoreType /\ R!MRET(h).pc = e /\ R!MRET(h).gpr = g /\ R!MRET(h).mtvec = q.mtvec
  <2> DEFINE j == [h EXCEPT !.mstatus = 128, !.pc = e]
  <2>0. h \in CoreType /\ e \in Int /\ 128 \in Int
    BY <1>1, <1>4
  <2>1. j \in CoreType /\ j.pc = e /\ j.gpr = h.gpr /\ j.mtvec = h.mtvec
    BY <2>0 DEF CoreType
  <2>2. R!MRET(h) = j
    BY <1>4 DEF R!MRET
  <2>3. QED
    BY <1>4, <2>1, <2>2
<1>6. R!restore(m, k).mem = b /\ R!restore(m, k).core = R!MRET(h)
  BY <1>3
<1>7. QED
  BY <1>2, <1>5, <1>6 DEF e, n

(* The handler returns a context that nothing waits below. *)
LEMMA RiscvReturn ==
  ASSUME RiscvParts, NEW k \in DOMAIN live, R!handler_return(k) PROVE RiscvParts'
<1> DEFINE m == R!restore([core |-> core, mem |-> mem], k)
           gone == Stacks[want.thr]..(want.held - 1)
<1>1. /\ want.held # 0 /\ k \in R!Returnable
      /\ core' = m.core
      /\ want' = [live[k] EXCEPT !.regs = [r \in R!REGS |-> IF r \in DOMAIN live[k].regs THEN live[k].regs[r] ELSE m.core.gpr[r]]]
      /\ live' = R!Restrict(live, DOMAIN live \ {k})
      /\ words' = R!Restrict(words, DOMAIN words \ gone)
      /\ UNCHANGED <<port, mem, fresh>>
  BY DEF R!handler_return
<1>2. RiscvTypes /\ Matches /\ RunsLowest /\ Suspended /\ Nested /\ Frames /\ WordsKept
  BY DEF RiscvParts
<1>3. /\ k \in Int /\ live[k].thr \in DOMAIN Stacks /\ Stacks[live[k].thr] \in Nat /\ StackSize \in Nat
      /\ live[k].sp \in Int /\ live[k].held \in Int /\ Top(live[k]) \in Int
      /\ live[k].sp = k + R!CONTEXT_SIZE /\ HasPlace(live[k]) /\ Stacks[live[k].thr] + 1 < k
      /\ live[k].sp <= Top(live[k]) /\ Top(live[k]) <= Stacks[live[k].thr] + StackSize
  BY <1>2, FlowNumbers DEF Suspended, HasPlace
<1>4. \A i \in 1..8 : k + i \in StackWords
  <2> SUFFICES ASSUME NEW i \in 1..8 PROVE k + i \in StackWords
    OBVIOUS
  <2>1. k + i \in Stacks[live[k].thr]..(Stacks[live[k].thr] + StackSize)
    BY <1>2, <1>3, FrameSize
  <2>2. QED
    BY <1>3, <2>1 DEF StackWords
<1>5. /\ m.core \in CoreType /\ m.core.pc = mem[k + R!EPC] /\ m.core.gpr[R!SP] = k + R!CONTEXT_SIZE
      /\ \A r \in R!REGS : m.core.gpr[r] = mem[k + r]
  <2>1. PICK x : x = [core |-> core, mem |-> mem]
    OBVIOUS
  <2>2. PICK q \in CoreType : q = core
    BY <1>2 DEF RiscvTypes
  <2>3. PICK b \in [StackWords -> Int] : b = mem
    BY <1>2 DEF RiscvTypes
  <2>4. x = [core |-> q, mem |-> b]
    BY <2>1, <2>2, <2>3
  <2>5. /\ R!restore(x, k).core \in CoreType /\ R!restore(x, k).core.pc = b[k + R!EPC]
        /\ R!restore(x, k).core.gpr[R!SP] = k + R!CONTEXT_SIZE
        /\ \A r \in R!REGS : R!restore(x, k).core.gpr[r] = b[k + r]
    BY <1>2, <1>3, <1>4, <2>4, RestoreIs
  <2>6. QED
    BY <2>1, <2>3, <2>5
<1> HIDE DEF m
<1>6. /\ want' \in Flow(R!REGS) /\ want'.pc = live[k].pc /\ want'.sp = live[k].sp
      /\ want'.thr = live[k].thr /\ want'.held = live[k].held /\ want'.again = live[k].again
      /\ \A r \in R!REGS : want'.regs[r] = mem[k + r]
  <2> DEFINE g == [r \in R!REGS |-> IF r \in DOMAIN live[k].regs THEN live[k].regs[r] ELSE m.core.gpr[r]]
  <2>1. \A r \in R!REGS : g[r] = mem[k + r]
    <3>1. \A r \in DOMAIN live[k].regs : mem[k + r] = live[k].regs[r]
      BY <1>2 DEF Frames
    <3>2. QED
      BY <1>5, <3>1
  <2>2. \A r \in R!REGS : m.core.gpr[r] \in Int
    BY <1>5, RiscvNumbers DEF CoreType
  <2>3. g \in [R!REGS -> Int]
    <3>1. \A r \in R!REGS : g[r] \in Int
      BY <1>5, <2>1, <2>2
    <3>2. QED
      BY <3>1
  <2>4. want' = [live[k] EXCEPT !.regs = g]
    BY <1>1
  <2> HIDE DEF g
  <2>5. live[k] \in Flow(R!REGS) \/ live[k] \in Flow({R!A0})
    BY <1>2 DEF RiscvTypes
  <2>6. /\ want' \in Flow(R!REGS) /\ want'.pc = live[k].pc /\ want'.sp = live[k].sp
        /\ want'.thr = live[k].thr /\ want'.held = live[k].held /\ want'.again = live[k].again /\ want'.regs = g
    BY <2>3, <2>4, <2>5 DEF Flow
  <2>7. QED
    BY <2>1, <2>6
<1>7. /\ DOMAIN live' = DOMAIN live \ {k} /\ \A c \in DOMAIN live' : live'[c] = live[c]
      /\ DOMAIN words' = DOMAIN words \ gone /\ \A a \in DOMAIN words' : words'[a] = words[a]
  BY <1>1 DEF R!Restrict
<1>8. \A c \in DOMAIN live : live[c].held # k
  BY <1>1 DEF R!Returnable
<1>9. /\ Top(want)' = Top(live[k]) /\ R!CONTEXT_SIZE' = R!CONTEXT_SIZE
      /\ \A c \in DOMAIN live' : Top(live[c])' = Top(live[c])
  <2>1. Top(want)' = Top(live[k])
    BY <1>6 DEF Top
  <2>2. R!CONTEXT_SIZE' = R!CONTEXT_SIZE
    BY <1>1 DEF R!CONTEXT_SIZE
  <2>3. ASSUME NEW c \in DOMAIN live' PROVE Top(live[c])' = Top(live[c])
    <3>1. live'[c] = live[c]
      BY <1>7, <2>3
    <3>2. QED
      BY <3>1 DEF Top
  <2>4. QED
    BY <2>1, <2>2, <2>3
<1>10. \A c \in DOMAIN live' : live'[c].thr = live[k].thr => Top(live[k]) <= c
  <2> SUFFICES ASSUME NEW c \in DOMAIN live, c # k, live[c].thr = live[k].thr PROVE Top(live[k]) <= c
    BY <1>7
  <2>1. ~(c < k)
    BY <1>2, <1>8 DEF Nested
  <2>2. c \in Int /\ k < c
    BY <1>2, <1>3, <2>1, FlowNumbers
  <2>3. QED
    BY <1>2, <2>2 DEF Nested
<1>11. RiscvTypes'
  <2>1. core' \in CoreType /\ want' \in Flow(R!REGS)
    BY <1>1, <1>5, <1>6
  <2>2. DOMAIN live' \subseteq Int /\ \A c \in DOMAIN live' : live'[c] \in Flow(R!REGS) \cup Flow({R!A0})
    BY <1>2, <1>7 DEF RiscvTypes
  <2>3. DOMAIN words' \subseteq Int /\ \A a \in DOMAIN words' : words'[a] \in Int
    BY <1>2, <1>7 DEF RiscvTypes
  <2>4. QED
    BY <1>1, <1>2, <2>1, <2>2, <2>3 DEF RiscvTypes, StackWords
<1>12. Matches'
  <2>1. mem[k + R!EPC] = live[k].pc
    BY <1>2 DEF Frames
  <2>2. QED
    BY <1>1, <1>3, <1>5, <1>6, <2>1 DEF Matches
<1>13. ASSUME NEW c \in DOMAIN live, live[c].held # 0
       PROVE  live[c].held \in DOMAIN live' /\ live'[live[c].held].thr = live[c].thr
  <2>1. live[c].held \in DOMAIN live /\ live[live[c].held].thr = live[c].thr /\ live[c].held # k
    BY <1>2, <1>8, <1>13 DEF Suspended, HasPlace
  <2>2. QED
    BY <1>7, <2>1
<1>14. RunsLowest'
  <2>1. HasPlace(want)'
    <3>1. live[k].thr \notin fresh /\ Stacks[live[k].thr] < live[k].sp
      BY <1>3 DEF HasPlace
    <3>2. live[k].held # 0 => live[k].held \in DOMAIN live' /\ live'[live[k].held].thr = live[k].thr
      BY <1>13
    <3>3. /\ Stacks[want'.thr] < want'.sp /\ want'.sp <= Top(want)' /\ Top(want)' <= Stacks[want'.thr] + StackSize
          /\ (want'.held # 0 => want'.held \in DOMAIN live' /\ live'[want'.held].thr = want'.thr)
          /\ want'.thr \notin fresh'
      BY <1>1, <1>3, <1>6, <1>9, <3>1, <3>2
    <3>4. QED
      BY <3>3 DEF HasPlace
  <2>2. \A c \in DOMAIN live' : live'[c].thr = want'.thr => Top(want)' <= c
    BY <1>6, <1>9, <1>10
  <2>3. want'.sp - 1 - R!CONTEXT_SIZE > Stacks[want'.thr]
    BY <1>2, <1>3, <1>6, FrameSize
  <2>4. QED
    BY <1>9, <2>1, <2>2, <2>3 DEF RunsLowest, R!LowerEnd
<1>15. Suspended'
  <2> SUFFICES ASSUME NEW c \in DOMAIN live'
               PROVE  HasPlace(live[c])' /\ live'[c].sp = c + R!CONTEXT_SIZE /\ Stacks[live'[c].thr] + 1 < c
    BY <1>9 DEF Suspended
  <2>1. c \in DOMAIN live /\ live'[c] = live[c] /\ Top(live[c])' = Top(live[c])
    BY <1>7, <1>9
  <2>2. HasPlace(live[c]) /\ live[c].sp = c + R!CONTEXT_SIZE /\ Stacks[live[c].thr] + 1 < c
    BY <1>2, <2>1 DEF Suspended
  <2>3. HasPlace(live[c])'
    BY <1>1, <1>13, <2>1, <2>2 DEF HasPlace
  <2>4. QED
    BY <2>1, <2>2, <2>3
<1>16. Nested'
  <2> SUFFICES ASSUME NEW c \in DOMAIN live', NEW d \in DOMAIN live', live'[c].thr = live'[d].thr, c < d
               PROVE  Top(live[c])' <= d /\ \E e \in DOMAIN live' : live'[e].held = d
    BY DEF Nested
  <2>1. c \in DOMAIN live /\ d \in DOMAIN live /\ c # k /\ live'[c] = live[c] /\ live'[d] = live[d] /\ c \in Int /\ d \in Int
    BY <1>2, <1>7, FlowNumbers
  <2>2. PICK e \in DOMAIN live : Top(live[c]) <= d /\ live[e].held = d
    BY <1>2, <2>1 DEF Nested
  <2>3. CASE e # k
    BY <1>7, <1>9, <2>2, <2>3
  <2>4. CASE e = k
    <3>1. d # 0
      <4>1. Stacks[live[d].thr] \in Nat /\ Stacks[live[d].thr] + 1 < d
        BY <1>2, <2>1, FlowNumbers DEF Suspended
      <4>2. QED
        BY <2>1, <4>1
    <3>2. live[d].thr = live[k].thr /\ Top(live[k]) = d
      BY <1>2, <2>2, <2>4, <3>1 DEF Suspended, HasPlace, Top
    <3>3. d <= c
      BY <1>10, <2>1, <3>2
    <3>4. QED
      BY <2>1, <3>3
  <2>5. QED
    BY <2>3, <2>4
<1>17. Frames'
  <2> SUFFICES ASSUME NEW c \in DOMAIN live'
               PROVE  mem'[c + R!EPC] = live'[c].pc /\ \A r \in DOMAIN live'[c].regs : mem'[c + r] = live'[c].regs[r]
    BY DEF Frames
  <2>1. c \in DOMAIN live /\ live'[c] = live[c] /\ mem' = mem
    BY <1>1, <1>7
  <2>2. mem[c + R!EPC] = live[c].pc /\ \A r \in DOMAIN live[c].regs : mem[c + r] = live[c].regs[r]
    BY <1>2, <2>1 DEF Frames
  <2>3. QED
    BY <2>1, <2>2
<1>18. WordsKept'
  <2> SUFFICES ASSUME NEW a \in DOMAIN words'
               PROVE  mem'[a] = words'[a] /\ (OnFlow(want, a)' \/ \E c \in DOMAIN live' : OnFlow(live[c], a)')
    BY DEF WordsKept
  <2>1. a \in DOMAIN words /\ words'[a] = words[a] /\ a \notin gone /\ a \in Int
    BY <1>2, <1>7 DEF RiscvTypes
  <2>2. ~OnFlow(want, a)
    <3>1. ASSUME OnFlow(want, a) PROVE a \in gone
      <4>1. want.sp \in Int /\ want.held \in Int /\ Stacks[want.thr] \in Nat /\ Stacks[want.thr] < want.sp
        BY <1>2, FlowNumbers DEF RunsLowest, HasPlace
      <4>2. want.sp <= a /\ a < want.held
        BY <1>1, <3>1 DEF OnFlow, Top
      <4>3. QED
        BY <2>1, <4>1, <4>2
    <3>2. QED
      BY <2>1, <3>1
  <2>3. PICK c \in DOMAIN live : OnFlow(live[c], a)
    BY <1>2, <2>1, <2>2 DEF WordsKept
  <2>4. OnFlow(want, a)' \/ \E d \in DOMAIN live' : OnFlow(live[d], a)'
    <3>1. CASE c = k
      BY <1>6, <1>9, <2>3, <3>1 DEF OnFlow
    <3>2. CASE c # k
      BY <1>7, <1>9, <2>3, <3>2 DEF OnFlow
    <3>3. QED
      BY <3>1, <3>2
  <2>5. QED
    BY <1>1, <1>2, <2>1, <2>4 DEF WordsKept
<1>19. QED
  BY <1>11, <1>12, <1>14, <1>15, <1>16, <1>17, <1>18 DEF RiscvParts

(* The frame a trap makes at x, below the stack pointer of the flow. *)
LEMMA SaveIs ==
  ASSUME RiscvTypes, NEW q \in CoreType, NEW b \in [StackWords -> Int], NEW m, NEW x \in Int,
         m = [core |-> R!ECALL(q), mem |-> b], x = q.gpr[R!SP] - R!CONTEXT_SIZE, \A i \in 1..8 : x + i \in StackWords
  PROVE  /\ R!save(m) = [core |-> R!save(m).core, mem |-> R!save(m).mem]
         /\ R!save(m).core \in CoreType /\ R!save(m).mem \in [StackWords -> Int]
         /\ R!save(m).core.gpr[R!SP] = x /\ R!save(m).core.gpr[R!A0] = x /\ R!save(m).core.gpr[R!RA] = R!AsmTrap
         /\ \A r \in R!REGS : R!save(m).mem[x + r] = q.gpr[r]
         /\ R!save(m).mem[x + R!CAUSE] = q.gpr[R!A7] /\ R!save(m).mem[x + R!EPC] = q.pc
         /\ \A a \in StackWords : R!save(m).mem[a] # b[a] => \E i \in 1..8 : a = x + i
<1> DEFINE word(c, i) == CASE i \in R!REGS -> c.gpr[i]
                           [] i = R!CAUSE -> c.mcause
                           [] i = R!STATUS -> c.mstatus
                           [] i = R!EPC -> c.mepc
           regs(c, y) == [c.gpr EXCEPT ![R!SP] = y, ![R!A0] = y, ![R!T] = c.mepc, ![R!RA] = R!AsmTrap]
           status(c) == IF port = "nemu" THEN c.mstatus + R!MPRV ELSE c.mstatus
           frame(c, y, d) == [a \in DOMAIN d |-> IF a - y \in R!REGS \cup {R!CAUSE, R!STATUS, R!EPC} THEN word(c, a - y) ELSE d[a]]
           at(c, y) == [c EXCEPT !.gpr = regs(c, y), !.mstatus = status(c)]
           e == R!ECALL(q)
           g == regs(e, x)
           st == status(e)
           b2 == frame(e, x, b)
           c2 == at(e, x)
<1>0. R!save(m) = [core |-> at(m.core, m.core.gpr[R!SP] - R!CONTEXT_SIZE),
                   mem |-> frame(m.core, m.core.gpr[R!SP] - R!CONTEXT_SIZE, m.mem)]
  BY DEF R!save
<1>1. /\ e \in CoreType /\ e.gpr = q.gpr /\ e.mcause = q.gpr[R!A7] /\ e.mepc = q.pc /\ e.mstatus = R!MPP
      /\ q.gpr[R!A7] \in Int /\ q.pc \in Int /\ R!MPP \in Int
  <2>1. q.gpr[R!A7] \in Int /\ q.pc \in Int /\ q.mtvec \in Int /\ R!MPP \in Int
    BY RiscvNumbers DEF CoreType, R!MPP
  <2>2. e = [q EXCEPT !.mcause = q.gpr[R!A7], !.mepc = q.pc, !.mstatus = R!MPP, !.pc = q.mtvec]
    BY DEF R!ECALL, R!isa_raise_intr
  <2> DEFINE v == q.gpr[R!A7]
             pc == q.pc
             tv == q.mtvec
  <2> HIDE DEF e
  <2>3. e = [q EXCEPT !.mcause = v, !.mepc = pc, !.mstatus = R!MPP, !.pc = tv] /\ v \in Int /\ pc \in Int /\ tv \in Int
    BY <2>1, <2>2
  <2> HIDE DEF v, pc, tv
  <2>4. e \in CoreType /\ e.gpr = q.gpr /\ e.mcause = v /\ e.mepc = pc /\ e.mstatus = R!MPP
    BY <2>1, <2>3 DEF CoreType
  <2>5. QED
    BY <2>1, <2>4 DEF v, pc
<1>2. m.core = e /\ m.mem = b /\ DOMAIN b = StackWords /\ e.gpr[R!SP] - R!CONTEXT_SIZE = x
  BY <1>1
<1> HIDE DEF e
<1>3. R!save(m) = [core |-> c2, mem |-> b2]
  <2> HIDE DEF at, frame
  <2>1. QED
    BY <1>0, <1>2
<1>4. st \in Int
  BY <1>1 DEF R!MPP, R!MPRV
<1> HIDE DEF st
<1>5. g \in [R!GPRS -> Int] /\ g[R!SP] = x /\ g[R!A0] = x /\ g[R!RA] = R!AsmTrap
  <2>1. e.gpr \in [R!GPRS -> Int] /\ e.mepc \in Int /\ R!AsmTrap \in Int
    BY <1>1 DEF CoreType, R!AsmTrap
  <2>2. QED
    BY <2>1, RiscvNumbers
<1> HIDE DEF g
<1>6. c2 \in CoreType /\ c2.gpr = g
  <2>1. c2 = [e EXCEPT !.gpr = g, !.mstatus = st]
    BY DEF g, st
  <2> HIDE DEF c2
  <2>2. QED
    BY <1>1, <1>4, <1>5, <2>1 DEF CoreType
<1> HIDE DEF c2
<1>7. /\ \A r \in R!REGS : word(e, r) = q.gpr[r] /\ q.gpr[r] \in Int
      /\ word(e, R!CAUSE) = q.gpr[R!A7] /\ word(e, R!EPC) = q.pc /\ word(e, R!STATUS) = R!MPP
  BY <1>1, RiscvNumbers DEF CoreType
<1> HIDE DEF word
<1>8. \A i \in R!REGS \cup {R!CAUSE, R!STATUS, R!EPC} : word(e, i) \in Int /\ i \in 1..8 /\ b2[x + i] = word(e, i)
  <2> SUFFICES ASSUME NEW i \in R!REGS \cup {R!CAUSE, R!STATUS, R!EPC} PROVE word(e, i) \in Int /\ i \in 1..8 /\ b2[x + i] = word(e, i)
    OBVIOUS
  <2>1. word(e, i) \in Int
    BY <1>1, <1>7
  <2>2. i \in 1..8
    BY RiscvNumbers
  <2>3. x + i \in StackWords /\ (x + i) - x = i
    BY <2>2
  <2>4. QED
    BY <1>2, <2>1, <2>2, <2>3
<1>9. \A a \in StackWords : b2[a] \in Int /\ (b2[a] # b[a] => \E i \in 1..8 : a = x + i)
  <2> SUFFICES ASSUME NEW a \in StackWords PROVE b2[a] \in Int /\ (b2[a] # b[a] => \E i \in 1..8 : a = x + i)
    OBVIOUS
  <2>1. a \in Int
    BY StacksAssumption DEF StackWords
  <2>2. CASE a - x \in R!REGS \cup {R!CAUSE, R!STATUS, R!EPC}
    <3>1. PICK i \in R!REGS \cup {R!CAUSE, R!STATUS, R!EPC} : i = a - x
      BY <2>2
    <3>2. i \in 1..8 /\ b2[x + i] = word(e, i) /\ word(e, i) \in Int
      BY <1>8
    <3>3. a = x + i
      BY <2>1, <3>1, <3>2
    <3> HIDE DEF b2
    <3>4. QED
      BY <3>2, <3>3
  <2>3. CASE a - x \notin R!REGS \cup {R!CAUSE, R!STATUS, R!EPC}
    BY <1>2, <2>3
  <2>4. QED
    BY <2>2, <2>3
<1>10. b2 \in [StackWords -> Int]
  BY <1>2, <1>9
<1>11. /\ \A r \in R!REGS : b2[x + r] = q.gpr[r]
       /\ b2[x + R!CAUSE] = q.gpr[R!A7] /\ b2[x + R!EPC] = q.pc
  BY <1>7, <1>8
<1> HIDE DEF b2
<1>12. R!save(m).core = c2 /\ R!save(m).mem = b2
  BY <1>3
<1>13. QED
  BY <1>3, <1>5, <1>6, <1>9, <1>10, <1>11, <1>12

(* __am_irq_handle up to the call of the handler. *)
LEMMA CallIs ==
  ASSUME RiscvTypes, user_handler = "user", NEW q \in CoreType, NEW b \in [StackWords -> Int], NEW m, NEW x \in Int,
         m = [core |-> q, mem |-> b], q.gpr[R!SP] = x, q.gpr[R!A0] = x, q.gpr[R!RA] = R!AsmTrap,
         x - 1 \in StackWords, \A i \in 1..8 : x + i \in StackWords
  PROVE  /\ R!irq_handle(m).core \in CoreType /\ R!irq_handle(m).mem \in [StackWords -> Int]
         /\ R!irq_handle(m).core.pc = R!Handler /\ R!irq_handle(m).core.gpr[R!SP] = x - 1
         /\ R!irq_handle(m).mem[x - 1] = R!AsmTrap
         /\ R!irq_handle(m).mem[x + R!EPC] = IF b[x + R!CAUSE] = R!YIELD THEN b[x + R!EPC] + 4 ELSE b[x + R!EPC]
         /\ \A a \in StackWords \ {x - 1, x + R!EPC} : R!irq_handle(m).mem[a] = b[a]
<1> DEFINE v == IF b[x + R!CAUSE] = R!YIELD THEN b[x + R!EPC] + 4 ELSE b[x + R!EPC]
           b2 == [b EXCEPT ![x + R!EPC] = v]
           s == x - 1
           b3 == [b2 EXCEPT ![s] = R!AsmTrap]
           c3 == [q EXCEPT !.pc = R!Handler, !.gpr[R!SP] = s]
           m2 == [core |-> q, mem |-> b2]
<1>1. x + R!EPC \in StackWords /\ x + R!CAUSE \in StackWords /\ b[x + R!EPC] \in Int /\ v \in Int /\ s \in Int /\ s # x + R!EPC
  BY RiscvNumbers
<1>2. R!irq_handle(m) = R!Called(m2)
  <2>1. m.core = q /\ m.mem = b /\ [m EXCEPT !.mem = b2] = m2
    OBVIOUS
  <2>2. R!irq_handle(m) = R!Called([m EXCEPT !.mem = b2])
    BY <2>1 DEF R!irq_handle
  <2>3. QED
    BY <2>1, <2>2
<1>3. R!Called(m2) = [core |-> c3, mem |-> b3]
  <2> HIDE DEF b2
  <2>1. m2.core = q /\ m2.mem = b2
    OBVIOUS
  <2>2. QED
    BY <2>1 DEF R!Called
<1> HIDE DEF v, s
<1>4. b2 \in [StackWords -> Int] /\ b2[x + R!EPC] = v /\ \A a \in StackWords \ {x + R!EPC} : b2[a] = b[a]
  BY <1>1
<1> HIDE DEF b2
<1>5. /\ b3 \in [StackWords -> Int] /\ b3[s] = R!AsmTrap /\ b3[x + R!EPC] = v
      /\ \A a \in StackWords \ {s, x + R!EPC} : b3[a] = b[a]
  <2>1. R!AsmTrap \in Int /\ s \in StackWords
    BY DEF R!AsmTrap, s
  <2>2. QED
    BY <1>1, <1>4, <2>1
<1>6. c3 \in CoreType /\ c3.pc = R!Handler /\ c3.gpr[R!SP] = s
  <2>1. R!Handler \in Int /\ R!SP \in R!GPRS
    BY RiscvNumbers DEF R!Handler
  <2>2. QED
    BY <1>1, <2>1 DEF CoreType
<1> HIDE DEF b3, c3
<1>7. R!irq_handle(m).core = c3 /\ R!irq_handle(m).mem = b3
  BY <1>2, <1>3
<1>8. QED
  BY <1>5, <1>6, <1>7 DEF s, v

(* Where a trap of the running flow puts its frame, if the stack has room. *)
LEMMA FramePlace ==
  ASSUME RiscvTypes, RunsLowest, R!LowerEnd(want.sp - 1), NEW x, x = want.sp - R!CONTEXT_SIZE
  PROVE  /\ x \in Int /\ Stacks[want.thr] + 1 < x /\ x + R!CONTEXT_SIZE = want.sp /\ x # 0
         /\ x - 1 \in StackWords /\ Writable(want.thr, x - 1)
         /\ \A i \in 0..8 : x + i \in StackWords /\ Writable(want.thr, x + i)
<1>1. /\ want.sp \in Int /\ Top(want) \in Int /\ want.thr \in DOMAIN Stacks /\ Stacks[want.thr] \in Nat
      /\ StackSize \in Nat /\ R!CONTEXT_SIZE \in {9, 10}
      /\ want.sp <= Top(want) /\ Top(want) <= Stacks[want.thr] + StackSize
  BY FlowNumbers, FrameSize DEF RunsLowest, HasPlace
<1>2. x \in Int /\ Stacks[want.thr] + 1 < x /\ x + R!CONTEXT_SIZE = want.sp /\ x # 0
  BY <1>1 DEF R!LowerEnd
<1>3. ASSUME NEW a \in Int, x - 1 <= a, a <= x + 8 PROVE a \in StackWords /\ Writable(want.thr, a)
  <2>1. Stacks[want.thr] <= a /\ a < want.sp /\ a < Stacks[want.thr] + StackSize
    BY <1>1, <1>2, <1>3
  <2>2. a \in Stacks[want.thr]..(Stacks[want.thr] + StackSize)
    BY <1>1, <1>3, <2>1
  <2>3. QED
    BY <1>1, <1>3, <2>1, <2>2 DEF Writable, StackWords
<1>4. x - 1 \in Int /\ x - 1 <= x - 1 /\ x - 1 <= x + 8 /\ \A i \in 0..8 : x + i \in Int /\ x - 1 <= x + i /\ x + i <= x + 8
  BY <1>2
<1>5. QED
  BY <1>2, <1>3, <1>4

(* The registers of the running flow, with what it put into a7. *)
Traps(q) ==
  /\ q \in CoreType /\ q.pc = want.pc /\ q.gpr[R!SP] = want.sp /\ q.mtvec # 0
  /\ \A r \in R!REGS \ {R!A7} : q.gpr[r] = want.regs[r]

(* Without a handler of the user the trap returns to the ecall itself. *)
LEMMA RiscvTrapNull ==
  ASSUME RiscvParts, NEW q, Traps(q), R!LowerEnd(want.sp - 1), user_handler # "user",
         R!Trap(q), UNCHANGED <<port, fresh>>
  PROVE  RiscvParts'
<1> DEFINE x == want.sp - R!CONTEXT_SIZE
           m0 == R!save([core |-> R!ECALL(q), mem |-> mem])
           v == q.gpr[R!A7]
           f == [want EXCEPT !.regs[R!A7] = v, !.again = TRUE]
<1>1. RiscvTypes /\ Matches /\ RunsLowest /\ Suspended /\ WordsKept
  BY DEF RiscvParts
<1>2. /\ core' = R!irq_handle(m0).core /\ mem' = R!irq_handle(m0).mem
      /\ want' = f /\ UNCHANGED <<live, words>>
  BY DEF R!Trap, Traps
<1>3. /\ x \in Int /\ x + R!CONTEXT_SIZE = want.sp /\ x = q.gpr[R!SP] - R!CONTEXT_SIZE /\ want.thr \in DOMAIN Stacks
      /\ \A i \in 1..8 : x + i \in StackWords /\ Writable(want.thr, x + i)
  <2>1. PICK y : y = x
    OBVIOUS
  <2>2. /\ y \in Int /\ y + R!CONTEXT_SIZE = want.sp
        /\ \A i \in 0..8 : y + i \in StackWords /\ Writable(want.thr, y + i)
    BY <1>1, <2>1, FramePlace
  <2>3. QED
    BY <1>1, <2>1, <2>2, FlowNumbers DEF Traps
<1>4. /\ m0 = [core |-> m0.core, mem |-> m0.mem] /\ m0.core \in CoreType /\ m0.mem \in [StackWords -> Int]
      /\ m0.core.gpr[R!A0] = x /\ (\A r \in R!REGS : m0.mem[x + r] = q.gpr[r]) /\ m0.mem[x + R!EPC] = q.pc
      /\ \A a \in StackWords : m0.mem[a] # mem[a] => \E i \in 1..8 : a = x + i
  <2>1. PICK b \in [StackWords -> Int] : b = mem
    BY <1>1 DEF RiscvTypes
  <2>2. PICK z : z = [core |-> R!ECALL(q), mem |-> b]
    OBVIOUS
  <2>3. PICK y \in Int : y = x
    BY <1>3
  <2>4. q \in CoreType /\ y = q.gpr[R!SP] - R!CONTEXT_SIZE /\ \A i \in 1..8 : y + i \in StackWords
    BY <1>3, <2>3 DEF Traps
  <2>5. /\ R!save(z) = [core |-> R!save(z).core, mem |-> R!save(z).mem]
        /\ R!save(z).core \in CoreType /\ R!save(z).mem \in [StackWords -> Int]
        /\ R!save(z).core.gpr[R!A0] = y
        /\ (\A r \in R!REGS : R!save(z).mem[y + r] = q.gpr[r]) /\ R!save(z).mem[y + R!EPC] = q.pc
        /\ \A a \in StackWords : R!save(z).mem[a] # b[a] => \E i \in 1..8 : a = y + i
    BY <1>1, <2>2, <2>4, SaveIs
  <2>6. m0 = R!save(z)
    BY <2>1, <2>2
  <2> HIDE DEF m0, x
  <2>7. QED
    BY <2>1, <2>3, <2>5, <2>6
<1> HIDE DEF m0, x
<1>5. R!irq_handle(m0) = R!restore(m0, x)
  BY <1>4 DEF R!irq_handle
<1>6. /\ mem' = m0.mem /\ core' \in CoreType /\ core'.pc = q.pc /\ core'.gpr[R!SP] = want.sp
      /\ \A r \in R!REGS : core'.gpr[r] = q.gpr[r]
  <2>1. PICK b \in [StackWords -> Int] : b = m0.mem
    BY <1>4
  <2>2. PICK c \in CoreType : c = m0.core
    BY <1>4
  <2>3. PICK y \in Int : y = x
    BY <1>3
  <2>4. PICK z : z = m0
    OBVIOUS
  <2>5. z = [core |-> c, mem |-> b] /\ \A i \in 1..8 : y + i \in StackWords
    BY <1>3, <1>4, <2>1, <2>2, <2>3, <2>4
  <2>6. /\ R!restore(z, y).mem = b /\ R!restore(z, y).core \in CoreType
        /\ R!restore(z, y).core.pc = b[y + R!EPC]
        /\ R!restore(z, y).core.gpr[R!SP] = y + R!CONTEXT_SIZE
        /\ \A r \in R!REGS : R!restore(z, y).core.gpr[r] = b[y + r]
    BY <1>1, <2>5, RestoreIs
  <2>7. core' = R!restore(z, y).core /\ mem' = R!restore(z, y).mem
    BY <1>2, <1>5, <2>3, <2>4
  <2>8. QED
    BY <1>3, <1>4, <2>1, <2>3, <2>6, <2>7
<1>7. /\ want' \in Flow(R!REGS) /\ want'.pc = want.pc /\ want'.sp = want.sp /\ want'.thr = want.thr
      /\ want'.held = want.held /\ \A r \in R!REGS : want'.regs[r] = q.gpr[r]
  <2>1. want \in Flow(R!REGS) /\ v \in Int
    BY <1>1, RiscvNumbers DEF RiscvTypes, Traps, CoreType
  <2> DEFINE g == [want.regs EXCEPT ![R!A7] = v]
  <2>2. g \in [R!REGS -> Int] /\ \A r \in R!REGS : g[r] = IF r = R!A7 THEN v ELSE want.regs[r]
    BY <2>1, RiscvNumbers DEF Flow
  <2>3. want' = [want EXCEPT !.regs = g, !.again = TRUE]
    BY <1>2, <2>1 DEF Flow
  <2> HIDE DEF g
  <2>4. /\ want' \in Flow(R!REGS) /\ want'.pc = want.pc /\ want'.sp = want.sp /\ want'.thr = want.thr
        /\ want'.held = want.held /\ want'.regs = g
    BY <2>1, <2>2, <2>3 DEF Flow
  <2>5. QED
    BY <2>2, <2>4 DEF Traps
<1>8. \A a \in StackWords : mem'[a] # mem[a] => Writable(want.thr, a)
  BY <1>3, <1>4, <1>6
<1>9. RiscvTypes'
  BY <1>1, <1>2, <1>4, <1>6, <1>7 DEF RiscvTypes, StackWords
<1>10. Matches'
  BY <1>6, <1>7 DEF Matches, Traps
<1>11. RunsLowest' /\ Suspended' /\ Nested' /\ Top(want)' = Top(want)
  <2>1. want'.sp \in Int /\ Stacks[want.thr] < want'.sp /\ want'.sp <= Top(want)
        /\ want'.sp - 1 - R!CONTEXT_SIZE > Stacks[want.thr]
    BY <1>1, <1>7, FlowNumbers DEF RunsLowest, HasPlace, R!LowerEnd
  <2>2. QED
    BY <1>2, <1>7, <2>1, PlacesStay
<1>12. Frames' /\ \A a \in DOMAIN words : mem'[a] = words[a]
  BY <1>2, <1>3, <1>8, ContentsStay DEF Frames
<1>13. WordsKept'
  <2>1. \A a \in DOMAIN words : OnFlow(want, a) => OnFlow(want, a)'
    BY <1>7, <1>11 DEF OnFlow
  <2>2. \A a \in DOMAIN words : \A c \in DOMAIN live : OnFlow(live[c], a) => OnFlow(live[c], a)'
    BY <1>2 DEF OnFlow, Top
  <2>3. QED
    BY <1>1, <1>2, <1>12, <2>1, <2>2 DEF WordsKept
<1>14. QED
  BY <1>9, <1>10, <1>11, <1>12, <1>13 DEF RiscvParts

(* With a handler: the flow is suspended and the handler runs below its frame. *)
LEMMA RiscvTrapUser ==
  ASSUME RiscvParts, NEW q, Traps(q), R!LowerEnd(want.sp - 1), user_handler = "user",
         R!Trap(q), UNCHANGED <<port, fresh>>
  PROVE  RiscvParts'
<1>0. PICK x : x = want.sp - R!CONTEXT_SIZE
  OBVIOUS
<1> DEFINE m0 == R!save([core |-> R!ECALL(q), mem |-> mem])
           v == q.gpr[R!A7]
           left == [want EXCEPT !.regs[R!A7] = v, !.again = TRUE]
           done == [left EXCEPT !.pc = want.pc + 4, !.again = FALSE]
           f == IF v = R!YIELD THEN done ELSE left
<1>1. RiscvTypes /\ Matches /\ RunsLowest /\ Suspended /\ Nested /\ Frames /\ WordsKept
  BY DEF RiscvParts
<1>2. /\ core' = R!irq_handle(m0).core /\ mem' = R!irq_handle(m0).mem
      /\ live' = R!Put(live, x, f)
      /\ want' = [regs |-> R!Restrict(core'.gpr, R!REGS), pc |-> R!Handler, sp |-> x - 1,
                  thr |-> want.thr, held |-> x, again |-> FALSE]
      /\ words' = R!Put(words, x - 1, R!AsmTrap)
  <2>1. q.gpr[R!SP] - R!CONTEXT_SIZE = x /\ q.mtvec # 0
    BY <1>0 DEF Traps
  <2>2. QED
    BY <2>1 DEF R!Trap
<1>3. /\ x \in Int /\ Stacks[want.thr] + 1 < x /\ x + R!CONTEXT_SIZE = want.sp /\ x # 0
      /\ x - 1 \in StackWords /\ Writable(want.thr, x - 1)
      /\ \A i \in 0..8 : x + i \in StackWords /\ Writable(want.thr, x + i)
  BY <1>0, <1>1, FramePlace
<1>4. /\ want.sp \in Int /\ want.held \in Int /\ Top(want) \in Int /\ want.thr \in DOMAIN Stacks
      /\ Stacks[want.thr] \in Nat /\ StackSize \in Nat
      /\ Stacks[want.thr] < want.sp /\ want.sp <= Top(want) /\ Top(want) <= Stacks[want.thr] + StackSize
      /\ want.thr \notin fresh /\ R!CONTEXT_SIZE \in {9, 10} /\ R!CONTEXT_SIZE' = R!CONTEXT_SIZE
  BY <1>1, FlowNumbers, FrameSize DEF RunsLowest, HasPlace, R!CONTEXT_SIZE
<1>5. /\ m0 = [core |-> m0.core, mem |-> m0.mem] /\ m0.core \in CoreType /\ m0.mem \in [StackWords -> Int]
      /\ m0.core.gpr[R!SP] = x /\ m0.core.gpr[R!A0] = x /\ m0.core.gpr[R!RA] = R!AsmTrap
      /\ (\A r \in R!REGS : m0.mem[x + r] = q.gpr[r])
      /\ m0.mem[x + R!CAUSE] = v /\ m0.mem[x + R!EPC] = q.pc
      /\ \A a \in StackWords : m0.mem[a] # mem[a] => \E i \in 1..8 : a = x + i
  <2>1. PICK b \in [StackWords -> Int] : b = mem
    BY <1>1 DEF RiscvTypes
  <2>2. PICK z : z = [core |-> R!ECALL(q), mem |-> b]
    OBVIOUS
  <2>3. PICK y \in Int : y = x
    BY <1>3
  <2>4. q \in CoreType /\ y = q.gpr[R!SP] - R!CONTEXT_SIZE /\ \A i \in 1..8 : y + i \in StackWords
    BY <1>0, <1>3, <2>3 DEF Traps
  <2>5. /\ R!save(z) = [core |-> R!save(z).core, mem |-> R!save(z).mem]
        /\ R!save(z).core \in CoreType /\ R!save(z).mem \in [StackWords -> Int]
        /\ R!save(z).core.gpr[R!SP] = y /\ R!save(z).core.gpr[R!A0] = y /\ R!save(z).core.gpr[R!RA] = R!AsmTrap
        /\ (\A r \in R!REGS : R!save(z).mem[y + r] = q.gpr[r])
        /\ R!save(z).mem[y + R!CAUSE] = q.gpr[R!A7] /\ R!save(z).mem[y + R!EPC] = q.pc
        /\ \A a \in StackWords : R!save(z).mem[a] # b[a] => \E i \in 1..8 : a = y + i
    BY <1>1, <2>2, <2>4, SaveIs
  <2>6. m0 = R!save(z)
    BY <2>1, <2>2
  <2> HIDE DEF m0
  <2>7. QED
    BY <2>1, <2>3, <2>5, <2>6
<1> HIDE DEF m0
<1>6. /\ core' \in CoreType /\ mem' \in [StackWords -> Int] /\ core'.pc = R!Handler /\ core'.gpr[R!SP] = x - 1
      /\ mem'[x - 1] = R!AsmTrap
      /\ mem'[x + R!EPC] = IF v = R!YIELD THEN q.pc + 4 ELSE q.pc
      /\ \A a \in StackWords \ {x - 1, x + R!EPC} : mem'[a] = m0.mem[a]
  <2>1. PICK b \in [StackWords -> Int] : b = m0.mem
    BY <1>5
  <2>2. PICK c \in CoreType : c = m0.core
    BY <1>5
  <2>3. PICK y \in Int : y = x
    BY <1>3
  <2>4. PICK z : z = m0
    OBVIOUS
  <2>5. /\ z = [core |-> c, mem |-> b] /\ c.gpr[R!SP] = y /\ c.gpr[R!A0] = y /\ c.gpr[R!RA] = R!AsmTrap
        /\ y - 1 \in StackWords /\ \A i \in 1..8 : y + i \in StackWords
    BY <1>3, <1>5, <2>1, <2>2, <2>3, <2>4
  <2>6. /\ R!irq_handle(z).core \in CoreType /\ R!irq_handle(z).mem \in [StackWords -> Int]
        /\ R!irq_handle(z).core.pc = R!Handler /\ R!irq_handle(z).core.gpr[R!SP] = y - 1
        /\ R!irq_handle(z).mem[y - 1] = R!AsmTrap
        /\ R!irq_handle(z).mem[y + R!EPC] = IF b[y + R!CAUSE] = R!YIELD THEN b[y + R!EPC] + 4 ELSE b[y + R!EPC]
        /\ \A a \in StackWords \ {y - 1, y + R!EPC} : R!irq_handle(z).mem[a] = b[a]
    BY <1>1, <2>5, CallIs
  <2>7. b[y + R!CAUSE] = v /\ b[y + R!EPC] = q.pc
    BY <1>5, <2>1, <2>3
  <2>8. core' = R!irq_handle(z).core /\ mem' = R!irq_handle(z).mem
    BY <1>2, <2>4
  <2> HIDE DEF v
  <2>9. QED
    BY <2>1, <2>3, <2>6, <2>7, <2>8
<1>7. \A r \in R!REGS : mem'[x + r] = q.gpr[r]
  <2> SUFFICES ASSUME NEW r \in R!REGS PROVE mem'[x + r] = q.gpr[r]
    OBVIOUS
  <2>1. r \in 0..8 /\ r # 8 /\ R!EPC = 8
    BY RiscvNumbers
  <2>2. x + r \in StackWords \ {x - 1, x + R!EPC}
    BY <1>3, <2>1
  <2>3. QED
    BY <1>5, <1>6, <2>2
<1>8. \A a \in StackWords : mem'[a] # mem[a] => Writable(want.thr, a)
  <2> SUFFICES ASSUME NEW a \in StackWords, mem'[a] # mem[a] PROVE Writable(want.thr, a)
    OBVIOUS
  <2>1. CASE a = x - 1
    BY <1>3, <2>1
  <2>2. CASE a = x + R!EPC
    BY <1>3, <2>2, RiscvNumbers
  <2>3. CASE a \notin {x - 1, x + R!EPC}
    BY <1>3, <1>5, <1>6, <2>3
  <2>4. QED
    BY <2>1, <2>2, <2>3
<1>9. /\ f \in Flow(R!REGS) /\ f.pc = (IF v = R!YIELD THEN want.pc + 4 ELSE want.pc) /\ f.sp = want.sp
      /\ f.thr = want.thr /\ f.held = want.held /\ \A r \in R!REGS : f.regs[r] = q.gpr[r]
  <2>1. want \in Flow(R!REGS) /\ v \in Int /\ want.pc \in Int /\ want.pc + 4 \in Int
    BY <1>1, RiscvNumbers DEF RiscvTypes, Traps, CoreType, Flow
  <2> DEFINE g == [want.regs EXCEPT ![R!A7] = v]
             n == want.pc + 4
  <2>2. g \in [R!REGS -> Int] /\ \A r \in R!REGS : g[r] = IF r = R!A7 THEN v ELSE want.regs[r]
    BY <2>1, RiscvNumbers DEF Flow
  <2>3. left = [want EXCEPT !.regs = g, !.again = TRUE]
    BY <2>1 DEF Flow
  <2>4. done = [left EXCEPT !.pc = n, !.again = FALSE] /\ n \in Int
    BY <2>1
  <2> HIDE DEF g, left, done, n
  <2>5. /\ left \in Flow(R!REGS) /\ left.pc = want.pc /\ left.sp = want.sp /\ left.thr = want.thr
        /\ left.held = want.held /\ left.regs = g
    BY <2>1, <2>2, <2>3 DEF Flow
  <2>6. /\ done \in Flow(R!REGS) /\ done.pc = n /\ done.sp = left.sp /\ done.thr = left.thr
        /\ done.held = left.held /\ done.regs = left.regs
    BY <2>4, <2>5 DEF Flow
  <2>7. \A r \in R!REGS : g[r] = q.gpr[r]
    BY <2>2 DEF Traps
  <2> HIDE DEF v
  <2>8. QED
    BY <2>5, <2>6, <2>7 DEF n
<1> HIDE DEF v, f
<1>10. ASSUME NEW c \in DOMAIN live PROVE c # x /\ c \in Int
  <2>1. PICK y : y = x + 0
    OBVIOUS
  <2>2. Writable(want.thr, y) /\ 0 \in 0..8
    BY <1>3, <2>1
  <2>3. PICK t : t = want.thr
    OBVIOUS
  <2>4. y # c + 0 /\ c \in Int
    BY <1>1, <1>10, <2>2, <2>3, WritesApart, FlowNumbers
  <2>5. QED
    BY <1>3, <2>1, <2>4
<1>11. /\ DOMAIN live' = DOMAIN live \cup {x} /\ live'[x] = f
       /\ \A c \in DOMAIN live : live'[c] = live[c]
  BY <1>2, <1>10 DEF R!Put
<1>12. /\ want' \in Flow(R!REGS) /\ want'.pc = R!Handler /\ want'.sp = x - 1 /\ want'.thr = want.thr
       /\ want'.held = x /\ want'.again = FALSE /\ \A r \in R!REGS : want'.regs[r] = core'.gpr[r]
  <2> DEFINE g == R!Restrict(core'.gpr, R!REGS)
             n == x - 1
  <2>1. \A r \in R!REGS : g[r] = core'.gpr[r] /\ core'.gpr[r] \in Int
    BY <1>6, RiscvNumbers DEF CoreType, R!Restrict
  <2>2. g \in [R!REGS -> Int]
    BY <2>1 DEF R!Restrict
  <2>3. n \in Int /\ R!Handler \in Int
    BY <1>3 DEF R!Handler
  <2>4. want' = [regs |-> g, pc |-> R!Handler, sp |-> n, thr |-> want.thr, held |-> x, again |-> FALSE]
    BY <1>2
  <2> HIDE DEF g, n
  <2>5. /\ want' \in Flow(R!REGS) /\ want'.pc = R!Handler /\ want'.sp = n /\ want'.thr = want.thr
        /\ want'.held = x /\ want'.again = FALSE /\ want'.regs = g
    BY <1>3, <1>4, <2>2, <2>3, <2>4 DEF Flow
  <2>6. QED
    BY <2>1, <2>5 DEF n
<1>13. /\ DOMAIN words' = DOMAIN words \cup {x - 1} /\ words'[x - 1] = R!AsmTrap
       /\ \A a \in DOMAIN words : a # x - 1 => words'[a] = words[a]
  BY <1>2 DEF R!Put
<1>14. /\ \A c \in DOMAIN live : /\ mem'[c + R!EPC] = live[c].pc
                                 /\ \A r \in DOMAIN live[c].regs : mem'[c + r] = live[c].regs[r]
       /\ \A a \in DOMAIN words : mem'[a] = words[a]
  BY <1>4, <1>8, ContentsStay
<1>15. /\ Top(want)' = x /\ Top(live[x])' = Top(want)
       /\ \A c \in DOMAIN live : Top(live[c])' = Top(live[c])
  <2>1. Top(want)' = x
    BY <1>3, <1>12 DEF Top
  <2>2. Top(live[x])' = Top(want)
    BY <1>9, <1>11 DEF Top
  <2>3. \A c \in DOMAIN live : Top(live[c])' = Top(live[c])
    BY <1>11 DEF Top
  <2>4. QED
    BY <2>1, <2>2, <2>3
<1>16. RiscvTypes'
  <2>1. DOMAIN live' \subseteq Int /\ \A c \in DOMAIN live' : live'[c] \in Flow(R!REGS) \cup Flow({R!A0})
    BY <1>1, <1>3, <1>9, <1>11 DEF RiscvTypes
  <2>2. DOMAIN words' \subseteq Int /\ \A a \in DOMAIN words' : words'[a] \in Int
    <3>1. x - 1 \in Int /\ R!AsmTrap \in Int
      BY <1>3 DEF R!AsmTrap
    <3>2. QED
      BY <1>1, <1>13, <3>1 DEF RiscvTypes
  <2>3. QED
    BY <1>1, <1>6, <1>12, <2>1, <2>2 DEF RiscvTypes, StackWords
<1>17. Matches'
  BY <1>6, <1>12 DEF Matches
<1>18. RunsLowest'
  <2>1. HasPlace(want)'
    <3>1. Stacks[want.thr] < x - 1 /\ x - 1 <= x /\ x <= Stacks[want.thr] + StackSize
      BY <1>3, <1>4
    <3>2. x \in DOMAIN live' /\ live'[x].thr = want.thr
      BY <1>9, <1>11
    <3>3. QED
      BY <1>4, <1>12, <1>15, <3>1, <3>2 DEF HasPlace
  <2>2. \A c \in DOMAIN live' : live'[c].thr = want'.thr => Top(want)' <= c
    <3> SUFFICES ASSUME NEW c \in DOMAIN live', live'[c].thr = want.thr PROVE x <= c
      BY <1>12, <1>15
    <3>1. CASE c = x
      BY <1>3, <3>1
    <3>2. CASE c # x
      <4>1. c \in DOMAIN live /\ live[c].thr = want.thr
        BY <1>11, <3>2
      <4>2. Top(want) <= c /\ c \in Int
        BY <1>1, <1>10, <4>1 DEF RunsLowest
      <4>3. QED
        BY <1>3, <1>4, <4>2
    <3>3. QED
      BY <3>1, <3>2
  <2>3. QED
    BY <1>12, <2>1, <2>2 DEF RunsLowest
<1>19. Suspended'
  <2> SUFFICES ASSUME NEW c \in DOMAIN live'
               PROVE  HasPlace(live[c])' /\ live'[c].sp = c + R!CONTEXT_SIZE /\ Stacks[live'[c].thr] + 1 < c
    BY <1>4 DEF Suspended
  <2>1. CASE c = x
    <3>1. live'[x].thr = want.thr /\ live'[x].sp = want.sp /\ live'[x].held = want.held
      BY <1>9, <1>11
    <3>2. want.held # 0 => want.held \in DOMAIN live' /\ live'[want.held].thr = want.thr
      BY <1>1, <1>11 DEF RunsLowest, HasPlace
    <3>3. HasPlace(live[x])'
      BY <1>4, <1>15, <3>1, <3>2 DEF HasPlace
    <3>4. QED
      BY <1>3, <2>1, <3>1, <3>3
  <2>2. CASE c # x
    <3>1. c \in DOMAIN live /\ live'[c] = live[c] /\ Top(live[c])' = Top(live[c])
      BY <1>11, <1>15, <2>2
    <3>2. HasPlace(live[c]) /\ live[c].sp = c + R!CONTEXT_SIZE /\ Stacks[live[c].thr] + 1 < c
      BY <1>1, <3>1 DEF Suspended
    <3>3. HasPlace(live[c])'
      BY <1>11, <3>1, <3>2 DEF HasPlace
    <3>4. QED
      BY <3>1, <3>2, <3>3
  <2>3. QED
    BY <2>1, <2>2
<1>20. Nested'
  <2> SUFFICES ASSUME NEW c \in DOMAIN live', NEW d \in DOMAIN live', live'[c].thr = live'[d].thr, c < d
               PROVE  Top(live[c])' <= d /\ \E e \in DOMAIN live' : live'[e].held = d
    BY DEF Nested
  <2>1. d # x
    <3>1. ASSUME d = x PROVE FALSE
      <4>1. c \in DOMAIN live /\ live[c].thr = want.thr /\ c < x
        BY <1>3, <1>9, <1>11, <3>1
      <4>2. Top(want) <= c /\ c \in Int
        BY <1>1, <1>10, <4>1 DEF RunsLowest
      <4>3. QED
        BY <1>3, <1>4, <4>1, <4>2
    <3>2. QED
      BY <3>1
  <2>2. d \in DOMAIN live /\ live'[d] = live[d] /\ d \in Int
    BY <1>10, <1>11, <2>1
  <2>3. CASE c = x
    <3>1. live[d].thr = want.thr
      BY <1>9, <1>11, <2>2, <2>3
    <3>2. Top(want) <= d
      BY <1>1, <2>2, <3>1 DEF RunsLowest
    <3>3. want.held # 0
      <4>1. ASSUME want.held = 0 PROVE FALSE
        <5>1. Top(want) = Stacks[want.thr] + StackSize
          BY <4>1 DEF Top
        <5>2. d + R!CONTEXT_SIZE <= Stacks[want.thr] + StackSize
          BY <1>1, <1>4, <2>2, <3>1, FlowNumbers DEF Suspended, HasPlace
        <5>3. QED
          BY <1>4, <2>2, <3>2, <5>1, <5>2
      <4>2. QED
        BY <4>1
    <3>4. want.held \in DOMAIN live /\ live[want.held].thr = want.thr /\ want.held <= d
      BY <1>1, <3>2, <3>3 DEF RunsLowest, HasPlace, Top
    <3>5. \E e \in DOMAIN live' : live'[e].held = d
      <4>1. CASE want.held = d
        BY <1>9, <1>11, <4>1
      <4>2. CASE want.held # d
        <5>1. want.held < d
          BY <1>4, <2>2, <3>4, <4>2
        <5>2. \E e \in DOMAIN live : live[e].held = d
          BY <1>1, <2>2, <3>1, <3>4, <5>1 DEF Nested
        <5>3. QED
          BY <1>11, <5>2
      <4>3. QED
        BY <4>1, <4>2
    <3>6. QED
      BY <1>15, <2>3, <3>2, <3>5
  <2>4. CASE c # x
    <3>1. c \in DOMAIN live /\ live'[c] = live[c]
      BY <1>11, <2>4
    <3>2. Top(live[c]) <= d /\ \E e \in DOMAIN live : live[e].held = d
      BY <1>1, <2>2, <3>1 DEF Nested
    <3>3. QED
      BY <1>11, <1>15, <3>1, <3>2
  <2>5. QED
    BY <2>3, <2>4
<1>21. Frames'
  <2> SUFFICES ASSUME NEW c \in DOMAIN live'
               PROVE  mem'[c + R!EPC] = live'[c].pc /\ \A r \in DOMAIN live'[c].regs : mem'[c + r] = live'[c].regs[r]
    BY DEF Frames
  <2>1. CASE c = x
    <3>1. live'[c] = f /\ q.pc = want.pc /\ DOMAIN f.regs = R!REGS
      BY <1>9, <1>11, <2>1 DEF Traps, Flow
    <3>2. QED
      BY <1>6, <1>7, <1>9, <2>1, <3>1
  <2>2. CASE c # x
    BY <1>11, <1>14, <2>2
  <2>3. QED
    BY <2>1, <2>2
<1>22. WordsKept'
  <2> SUFFICES ASSUME NEW a \in DOMAIN words'
               PROVE  mem'[a] = words'[a] /\ (OnFlow(want, a)' \/ \E c \in DOMAIN live' : OnFlow(live[c], a)')
    BY DEF WordsKept
  <2>1. CASE a = x - 1
    <3>1. OnFlow(want, a)'
      BY <1>3, <1>12, <1>15, <2>1 DEF OnFlow
    <3>2. QED
      BY <1>6, <1>13, <2>1, <3>1
  <2>2. CASE a # x - 1
    <3>1. a \in DOMAIN words /\ words'[a] = words[a]
      BY <1>13, <2>2
    <3>2. OnFlow(want, a) => x \in DOMAIN live' /\ OnFlow(live[x], a)'
      BY <1>9, <1>11, <1>15 DEF OnFlow
    <3>3. \A c \in DOMAIN live : OnFlow(live[c], a) => c \in DOMAIN live' /\ OnFlow(live[c], a)'
      BY <1>11, <1>15 DEF OnFlow
    <3>4. OnFlow(want, a) \/ \E c \in DOMAIN live : OnFlow(live[c], a)
      BY <1>1, <3>1 DEF WordsKept
    <3>5. QED
      BY <1>14, <3>1, <3>2, <3>3, <3>4
  <2>3. QED
    BY <2>1, <2>2
<1>23. QED
  BY <1>16, <1>17, <1>18, <1>19, <1>20, <1>21, <1>22 DEF RiscvParts

(* A trap: to mtvec 0 nothing runs any more, else one of the two above.    *)
LEMMA RiscvTrap ==
  ASSUME RiscvParts, NEW q \in CoreType, q.pc = want.pc, q.gpr[R!SP] = want.sp,
         \A r \in R!REGS \ {R!A7} : q.gpr[r] = want.regs[r],
         R!LowerEnd(want.sp - 1), R!Trap(q), UNCHANGED <<port, fresh>>
  PROVE  RiscvInv'
<1>1. CASE q.mtvec = 0
  <2>1. core' = R!ECALL(q)
    BY <1>1 DEF R!Trap
  <2>2. core' = [q EXCEPT !.mcause = q.gpr[R!A7], !.mepc = q.pc, !.mstatus = R!MPP, !.pc = q.mtvec]
    BY <2>1 DEF R!ECALL, R!isa_raise_intr
  <2>3. core'.pc = q.mtvec
    BY <2>2 DEF CoreType
  <2>4. QED
    BY <1>1, <2>3 DEF RiscvInv, R!Running
<1>2. CASE q.mtvec # 0
  <2>1. Traps(q)
    BY <1>2 DEF Traps
  <2>2. QED
    BY <2>1, RiscvTrapNull, RiscvTrapUser DEF RiscvInv
<1>3. QED
  BY <1>1, <1>2

(* yield, and an ecall with another number, change a7 and trap.            *)
LEMMA RiscvEcall ==
  ASSUME RiscvParts, NEW no \in {R!YIELD, 1}, R!ecall(no) PROVE RiscvInv'
<1>1. /\ R!LowerEnd(core.gpr[R!SP] - 1) /\ R!Trap([core EXCEPT !.gpr[R!A7] = no]) /\ UNCHANGED <<port, fresh>>
  BY DEF R!ecall
<1>2. RiscvTypes /\ Matches /\ no \in Int /\ R!A7 \in R!REGS
  BY RiscvNumbers DEF RiscvParts, R!YIELD
<1>3. PICK q : q = [core EXCEPT !.gpr[R!A7] = no]
  OBVIOUS
<1>4. /\ q \in CoreType /\ q.pc = core.pc
      /\ \A r \in R!GPRS : q.gpr[r] = IF r = R!A7 THEN no ELSE core.gpr[r]
  <2>1. PICK r \in R!REGS : r = R!A7
    BY <1>2
  <2>2. /\ [core EXCEPT !.gpr[r] = no] \in CoreType /\ [core EXCEPT !.gpr[r] = no].pc = core.pc
        /\ \A s \in R!GPRS : [core EXCEPT !.gpr[r] = no].gpr[s] = IF s = r THEN no ELSE core.gpr[s]
    BY <1>2, SetRegister
  <2>3. q = [core EXCEPT !.gpr[r] = no]
    BY <1>3, <2>1
  <2>4. QED
    BY <2>1, <2>2, <2>3
<1>5. /\ q.pc = want.pc /\ q.gpr[R!SP] = want.sp /\ \A r \in R!REGS \ {R!A7} : q.gpr[r] = want.regs[r]
  BY <1>2, <1>4, RiscvNumbers DEF Matches
<1>6. R!LowerEnd(want.sp - 1) /\ R!Trap(q)
  BY <1>1, <1>2, <1>3 DEF Matches
<1>7. QED
  BY <1>1, <1>4, <1>5, <1>6, RiscvTrap

(* A trap that returned to the ecall happens again; it had room before.    *)
LEMMA RiscvAgain ==
  ASSUME RiscvParts, R!again PROVE RiscvInv'
<1>1. want.again /\ R!Trap(core) /\ UNCHANGED <<port, fresh>>
  BY DEF R!again
<1>2. RiscvTypes /\ Matches /\ R!LowerEnd(want.sp - 1)
  BY <1>1 DEF RiscvParts, RunsLowest
<1>3. PICK q \in CoreType : q = core
  BY <1>2 DEF RiscvTypes
<1>4. /\ q.pc = want.pc /\ q.gpr[R!SP] = want.sp /\ (\A r \in R!REGS \ {R!A7} : q.gpr[r] = want.regs[r]) /\ R!Trap(q)
  BY <1>1, <1>2, <1>3 DEF Matches
<1>5. QED
  BY <1>1, <1>2, <1>4, RiscvTrap

(* Every step keeps the flows apart and their contexts whole.              *)
LEMMA RiscvStep ==
  ASSUME RiscvInv, [R!Next]_(R!rvars) PROVE RiscvInv'
<1>1. CASE UNCHANGED R!rvars
  <2>1. UNCHANGED <<port, core, mem, user_handler, fresh, want, live, words>>
    BY <1>1 DEF R!rvars
  <2>2. RiscvParts => RiscvParts'
    <3>1. RiscvTypes => RiscvTypes'
      BY <2>1 DEF RiscvTypes, StackWords
    <3>2. R!CONTEXT_SIZE' = R!CONTEXT_SIZE
      BY <2>1 DEF R!CONTEXT_SIZE
    <3>3. Matches => Matches'
      BY <2>1 DEF Matches
    <3>4. (RunsLowest => RunsLowest') /\ (Suspended => Suspended')
      BY <2>1, <3>2 DEF RunsLowest, Suspended, HasPlace, Top, R!LowerEnd
    <3>5. (Nested => Nested') /\ (Frames => Frames') /\ (WordsKept => WordsKept')
      BY <2>1 DEF Nested, Frames, WordsKept, OnFlow, Top
    <3>6. QED
      BY <3>1, <3>3, <3>4, <3>5 DEF RiscvParts
  <2>3. R!Running' = R!Running
    BY <2>1 DEF R!Running
  <2>4. QED
    BY <2>2, <2>3 DEF RiscvInv
<1>2. CASE R!Next
  <2>1. R!Running
    BY <1>2 DEF R!Next, R!cte_init, R!kcontext, R!ecall, R!again, R!handler_return, R!compute, R!push, R!pop, R!Free
  <2>2. RiscvParts
    BY <2>1 DEF RiscvInv
  <2>3. ASSUME RiscvParts' PROVE RiscvInv'
    BY <2>3 DEF RiscvInv
  <2>4. ASSUME NEW h \in {"NULL", "user"}, R!cte_init(h) PROVE RiscvInv'
    BY <2>2, <2>3, <2>4, RiscvCteInit
  <2>5. ASSUME NEW t \in DOMAIN Stacks, NEW arg \in Vals, R!kcontext(t, arg) PROVE RiscvInv'
    BY <2>2, <2>3, <2>5, RiscvKcontext
  <2>6. ASSUME NEW no \in {R!YIELD, 1}, R!ecall(no) PROVE RiscvInv'
    BY <2>2, <2>6, RiscvEcall
  <2>7. CASE R!again
    BY <2>2, <2>7, RiscvAgain
  <2>8. ASSUME NEW c \in DOMAIN live, R!handler_return(c) PROVE RiscvInv'
    BY <2>2, <2>3, <2>8, RiscvReturn
  <2>9. ASSUME NEW r \in {R!RA, R!A0, R!T}, NEW v \in Vals, R!compute(r, v) PROVE RiscvInv'
    BY <2>2, <2>3, <2>9, RiscvCompute
  <2>10. ASSUME NEW v \in Vals, R!push(v) PROVE RiscvInv'
    BY <2>2, <2>3, <2>10, RiscvPush
  <2>11. CASE R!pop
    BY <2>2, <2>3, <2>11, RiscvPop
  <2>12. QED
    BY <1>2, <2>4, <2>5, <2>6, <2>7, <2>8, <2>9, <2>10, <2>11 DEF R!Next
<1>3. QED
  BY <1>1, <1>2

(* Flows of the AM on riscv go on with the registers, the stack pointer    *)
(* and the stack they had when they trapped (trap.S, cte.c), for any       *)
(* threads, sizes of stacks and depth of nested traps, in both ports.      *)
THEOREM RiscvKeepsContexts == R!Spec => []RiscvContextsKept
<1>1. R!Init => RiscvInv
  BY RiscvInit DEF RiscvInv
<1>2. RiscvInv /\ [R!Next]_(R!rvars) => RiscvInv'
  BY RiscvStep
<1>3. RiscvInv => RiscvContextsKept
  <2> SUFFICES ASSUME RiscvParts PROVE R!Running => RiscvContextsKept
    BY DEF RiscvInv, RiscvContextsKept, R!RiscvContextsKept
  <2>1. RiscvTypes /\ Matches /\ RunsLowest /\ WordsKept
    BY DEF RiscvParts
  <2>2. want.sp \in Stacks[want.thr]..(Stacks[want.thr] + StackSize)
    BY <2>1, FlowNumbers DEF RunsLowest, HasPlace
  <2>3. \A a \in DOMAIN words : mem[a] = words[a]
    BY <2>1 DEF WordsKept
  <2>4. QED
    BY <2>1, <2>2, <2>3 DEF Matches, RiscvContextsKept, R!RiscvContextsKept
<1>4. QED
  BY <1>1, <1>2, <1>3, PTL DEF R!Spec
=============================================================================
