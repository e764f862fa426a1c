------------------------------- MODULE RiscvCte -------------------------------
(***************************************************************************)
(* Contexts of the AM on riscv, from the ecall and mret instructions of    *)
(* NEMU through trap.S to cte.c, for both ports (abstract-machine/am/src/  *)
(* riscv/nemu and riscv/npc).  There are no interrupts: ienabled is FALSE  *)
(* and isa_query_intr empty, so nothing comes between the instructions of  *)
(* a trap.  Memory is words; a stack grows down from its end.              *)
(*                                                                         *)
(* The guest is external: threads compute, use their stacks, yield and     *)
(* make threads; its handler may do all of that too, yield within itself,  *)
(* and returns a context that no suspended handler is working on.          *)
(***************************************************************************)
EXTENDS Integers, FiniteSets, Functions

CONSTANTS Stacks,     \* thread |-> lowest address of its stack
          StackSize,  \* words of a stack
          BootThread, \* the thread that runs first
          Vals,       \* what threads compute
          MaxWords,   \* words on the stacks at one time
          MaxYields,  \* traps of a flow that return behind the ecall
          MaxWork     \* computations

VARIABLES port,          \* "nemu" or "npc"
          core,          \* registers
          mem,           \* the words of the stacks
          user_handler,  \* "none", or what cte_init was given: "NULL", "user"
          fresh,         \* threads not made yet
          want, live,    \* history: what the running flow and the owner of
                         \* every context may rely on
          words, work    \* history: words on the stacks; computations
rvars == <<port, core, mem, user_handler, fresh, want, live, words, work>>

Entry == 40
Handler == 400
AsmTrap == 800
YIELD == 11
MPP == 6144
MPRV == 131072

(* Registers by number; T stands for t0, t1 and t2.                        *)
RA == 1
SP == 2
A0 == 3
A7 == 4
T == 5
NR_REGS == 6
GPRS == {RA, SP, A0, A7, T}
REGS == {RA, A0, A7, T}
CAUSE == NR_REGS
STATUS == NR_REGS + 1
EPC == NR_REGS + 2
PDIR == NR_REGS + 3
sizeof_Context == NR_REGS + 4
CONTEXT_SIZE == IF port = "nemu" THEN NR_REGS + 3 ELSE NR_REGS + 4

-----------------------------------------------------------------------------
(* ecall takes the number of the exception from a7; mret.                  *)
isa_raise_intr(c, NO, epc) ==
  [c EXCEPT !.mcause = NO, !.mepc = epc, !.mstatus = MPP, !.pc = c.mtvec]
ECALL(c) == isa_raise_intr(c, c.gpr[A7], c.pc)
MRET(c) == [c EXCEPT !.mstatus = 128, !.pc = c.mepc]

(* __am_asm_trap up to the call: every register but sp goes to the frame.  *)
(* The port to NEMU sets MPRV.                                             *)
save(m) ==
  LET c == m.core
      sp == c.gpr[SP] - CONTEXT_SIZE
      gpr == [c.gpr EXCEPT ![SP] = sp, ![A0] = sp, ![T] = c.mepc, ![RA] = AsmTrap]
      Word(i) == CASE i \in REGS -> c.gpr[i]
                   [] i = CAUSE -> c.mcause
                   [] i = STATUS -> c.mstatus
                   [] i = EPC -> c.mepc
  IN [core |-> [c EXCEPT !.gpr = gpr, !.mstatus = IF port = "nemu" THEN c.mstatus + MPRV ELSE c.mstatus],
      mem |-> [a \in DOMAIN m.mem |-> IF a - sp \in REGS \cup {CAUSE, STATUS, EPC} THEN Word(a - sp) ELSE m.mem[a]]]

(* ... and from its return: sp follows from where the context is.          *)
restore(m, c) ==
  LET gpr == [r \in GPRS |-> IF r \in REGS THEN m.mem[c + r] ELSE c + CONTEXT_SIZE]
  IN [m EXCEPT !.core = MRET([m.core EXCEPT !.mstatus = m.mem[c + STATUS], !.mepc = m.mem[c + EPC], !.gpr = gpr])]

(* __am_irq_handle, with a frame of one word, up to the call of the user's *)
(* handler; without a handler it returns the context as it is.             *)
Called(m) ==
  LET sp == m.core.gpr[SP] - 1
  IN [core |-> [m.core EXCEPT !.pc = Handler, !.gpr[SP] = sp], mem |-> [m.mem EXCEPT ![sp] = m.core.gpr[RA]]]
(* Faulty variant: the address space is noted in the context, as in other  *)
(* ports.                                                                  *)
irq_handle_pdir(m) ==
  LET c == m.core.gpr[A0]
  IN IF user_handler # "user" THEN restore(m, c)
     ELSE Called([m EXCEPT !.mem = [m.mem EXCEPT ![c + PDIR] = 0,
                                                 ![c + EPC] = IF m.mem[c + CAUSE] = YIELD THEN @ + 4 ELSE @]])
irq_handle(m) ==
  LET c == m.core.gpr[A0]
  IN IF user_handler # "user" THEN restore(m, c)
     ELSE Called([m EXCEPT !.mem = [m.mem EXCEPT ![c + EPC] = IF m.mem[c + CAUSE] = YIELD THEN @ + 4 ELSE @]])

-----------------------------------------------------------------------------
(* The state restart and _trm_init leave behind; nothing is in mtvec yet.  *)
Init ==
  /\ port \in {"nemu", "npc"}
  /\ core = [gpr |-> [r \in GPRS |-> IF r = SP THEN Stacks[BootThread] + StackSize ELSE 0],
             pc |-> Entry, mcause |-> 0, mepc |-> 0, mstatus |-> MPP, mtvec |-> 0]
  /\ mem = [a \in UNION {Stacks[t]..(Stacks[t] + StackSize) : t \in DOMAIN Stacks} |-> 0]
  /\ user_handler = "none"
  /\ fresh = DOMAIN Stacks \ {BootThread}
  /\ want = [regs |-> [r \in REGS |-> 0], pc |-> Entry, sp |-> Stacks[BootThread] + StackSize,
             thr |-> BootThread, held |-> 0, again |-> FALSE]
  /\ live = <<>> /\ words = <<>> /\ work = 0

(* A flow runs until it jumps to an mtvec of 0; one whose trap returned to *)
(* the ecall itself can only execute it again.                             *)
Running == core.pc # 0
Free == Running /\ ~want.again
LowerEnd(s) == s - CONTEXT_SIZE > Stacks[want.thr]
(* f with v at a.                                                          *)
Put(f, a, v) == [x \in DOMAIN f \cup {a} |-> IF x = a THEN v ELSE f[x]]

cte_init(h) ==
  /\ Free /\ user_handler = "none"
  /\ core' = [core EXCEPT !.mtvec = AsmTrap]
  /\ user_handler' = h
  /\ UNCHANGED <<port, mem, fresh, want, live, words, work>>

(* kcontext writes three words of the frame; the others hold what the      *)
(* memory held.                                                            *)
kcontext(t, arg) ==
  LET c == Stacks[t] + StackSize - sizeof_Context
  IN /\ Free /\ t \in fresh
     /\ mem' = [mem EXCEPT ![c + EPC] = Entry, ![c + STATUS] = MPP, ![c + A0] = arg]
     /\ fresh' = fresh \ {t}
     /\ live' = Put(live, c, [regs |-> [r \in {A0} |-> arg], pc |-> Entry, sp |-> c + CONTEXT_SIZE,
                              thr |-> t, held |-> 0, again |-> FALSE])
     /\ UNCHANGED <<port, core, user_handler, want, words, work>>

(* An ecall, and all that happens until a flow of the guest runs again.    *)
Trap(c) ==
  LET ctx == c.gpr[SP] - CONTEXT_SIZE
      m == irq_handle(save([core |-> ECALL(c), mem |-> mem]))
      left == [want EXCEPT !.regs[A7] = c.gpr[A7], !.again = TRUE]
      done == [left EXCEPT !.pc = want.pc + 4, !.again = FALSE]
  IN IF c.mtvec = 0
     THEN /\ core' = ECALL(c)
          /\ UNCHANGED <<mem, want, live, words>>
     ELSE /\ core' = m.core /\ mem' = m.mem
          /\ IF user_handler = "user"
             THEN /\ live' = Put(live, ctx, IF c.gpr[A7] = YIELD THEN done ELSE left)
                  /\ want' = [regs |-> Restrict(m.core.gpr, REGS), pc |-> Handler, sp |-> ctx - 1,
                              thr |-> want.thr, held |-> ctx, again |-> FALSE]
                  /\ words' = Put(words, ctx - 1, AsmTrap)
             ELSE want' = left /\ UNCHANGED <<live, words>>

(* yield, and an ecall with another number.                                *)
ecall(NO) ==
  /\ Free /\ LowerEnd(core.gpr[SP] - 1)
  /\ core.pc < (IF want.held = 0 THEN Entry ELSE Handler) + 4 * MaxYields
  /\ Trap([core EXCEPT !.gpr[A7] = NO])
  /\ UNCHANGED <<port, user_handler, fresh, work>>
again ==
  /\ Running /\ want.again
  /\ Trap(core)
  /\ UNCHANGED <<port, user_handler, fresh, work>>

(* The user's handler returns a context to __am_irq_handle, and that to    *)
(* trap.S.  The frames of the handler are gone.                            *)
Returnable == {c \in DOMAIN live : \A d \in DOMAIN live : live[d].held # c}
handler_return(c) ==
  LET m == restore([core |-> core, mem |-> mem], c)
      gone == Stacks[want.thr]..(want.held - 1)
  IN /\ Free /\ want.held # 0 /\ c \in Returnable
     /\ core' = m.core
     /\ want' = [live[c] EXCEPT !.regs = [r \in REGS |-> IF r \in DOMAIN live[c].regs THEN live[c].regs[r] ELSE m.core.gpr[r]]]
     /\ live' = Restrict(live, DOMAIN live \ {c})
     /\ words' = Restrict(words, DOMAIN words \ gone)
     /\ UNCHANGED <<port, mem, user_handler, fresh, work>>

-----------------------------------------------------------------------------
(* What a flow of the guest does between traps.                            *)
compute(r, v) ==
  /\ Free /\ work < MaxWork
  /\ core' = [core EXCEPT !.gpr[r] = v]
  /\ want' = [want EXCEPT !.regs[r] = v]
  /\ work' = work + 1
  /\ UNCHANGED <<port, mem, user_handler, fresh, live, words>>
push(v) ==
  /\ Free /\ Cardinality(DOMAIN words) < MaxWords /\ work < MaxWork
  /\ LowerEnd(core.gpr[SP] - 2)
  /\ core' = [core EXCEPT !.gpr[SP] = @ - 1]
  /\ mem' = [mem EXCEPT ![core.gpr[SP] - 1] = v]
  /\ want' = [want EXCEPT !.sp = @ - 1]
  /\ words' = Put(words, core.gpr[SP] - 1, v)
  /\ work' = work + 1
  /\ UNCHANGED <<port, user_handler, fresh, live>>
pop ==
  LET sp == core.gpr[SP]
  IN /\ Free /\ sp \in DOMAIN words /\ (want.held # 0 => sp < want.held - 1)
     /\ core' = [core EXCEPT !.gpr[T] = mem[sp], !.gpr[SP] = sp + 1]
     /\ want' = [want EXCEPT !.regs[T] = words[sp], !.sp = @ + 1]
     /\ words' = Restrict(words, DOMAIN words \ {sp})
     /\ UNCHANGED <<port, mem, user_handler, fresh, live, work>>

Next == \/ \E h \in {"NULL", "user"} : cte_init(h)
        \/ \E t \in DOMAIN Stacks, arg \in Vals : kcontext(t, arg)
        \/ \E NO \in {YIELD, 1} : ecall(NO)
        \/ again
        \/ \E c \in DOMAIN live : handler_return(c)
        \/ \E r \in {RA, A0, T}, v \in Vals : compute(r, v)
        \/ \E v \in Vals : push(v)
        \/ pop

Spec == Init /\ [][Next]_rvars

-----------------------------------------------------------------------------
(* Whatever other flows did in between, and in whatever order the handlers *)
(* returned contexts (nested traps included), a flow goes on with the      *)
(* registers and the stack pointer it had, behind its yield or at the      *)
(* ecall that was no yield; a new thread starts with its argument, on its  *)
(* own stack.  No word on a stack changes, although the frame of the port  *)
(* to NEMU is a word shorter than the structure Context that lies on it.   *)
RiscvContextsKept ==
  Running =>
    /\ core.pc = want.pc /\ core.gpr[SP] = want.sp
    /\ \A r \in REGS : core.gpr[r] = want.regs[r]
    /\ \A a \in DOMAIN words : mem[a] = words[a]
    /\ core.gpr[SP] \in Stacks[want.thr]..(Stacks[want.thr] + StackSize)
=============================================================================
