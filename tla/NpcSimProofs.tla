---------------------------- MODULE NpcSimProofs ----------------------------
(***************************************************************************)
(* Proofs about NpcSim for every image, every core, every set of debugger  *)
(* expressions, every pool size and every budget.                          *)
(***************************************************************************)
EXTENDS NpcSim, TLAPS

(* The core made no wrong jump and the program goes on: the reference is   *)
(* where the core is.                                                      *)
Together == verdict = "none" => ref = core /\ ~refOver /\ halt_ret = 1

(* What the state says of a program that ended, as long as the jumps were  *)
(* right.                                                                  *)
Outcome ==
  /\ verdict = "none" => state \notin Ended /\ halt_ret = 1
  /\ verdict \in {"good", "bad"} => state = "END" /\ halt_ret = 0
  /\ verdict \in {"invalid", "wrong_registers"} => state = "ABORT"
  /\ verdict # "wrong_access"

(* Before an instruction. *)
Before ==
  phase = "exec" =>
    /\ state \in {"RUNNING", "QUIT"} /\ verdict \in {"none", "wrong_pc"}
    /\ core.regs = ref.regs /\ Together

(* The instruction just executed, before it is compared: the comparison is *)
(* going to find what the verdict says.                                    *)
Pending ==
  phase = "difftest" =>
    /\ verdict = "none" =>
         /\ state \notin Ended /\ halt_ret = 1 /\ ~refOver
         /\ ~is_skip_ref => RefNext = core /\ image[ref.pc].op = "alu"
    /\ verdict \in {"good", "bad"} =>
         /\ state = "END" /\ halt_ret = 0
         /\ ~is_skip_ref => RefNext.regs = core.regs
    /\ verdict = "invalid" => state = "ABORT"
    /\ verdict = "wrong_registers" => ~is_skip_ref /\ RefNext.regs # core.regs
    /\ verdict = "wrong_access" => ~refOver /\ image[ref.pc].op = "mmio" /\ ~is_skip_ref

(* After the comparison, at the prompt, and at the exit in batch mode. *)
After ==
  /\ phase \in {"tail", "prompt"} \/ (phase = "exit" /\ is_batch_mode) => Outcome
  /\ phase \in {"tail", "prompt"} => Together /\ (state \notin Ended => core.regs = ref.regs)

(* A skip somebody asked for is used up by the next instruction. *)
Skips ==
  /\ phase = "difftest" => ~poked
  /\ phase # "difftest" => is_skip_ref = poked

Flow ==
  /\ Before /\ Pending /\ After /\ Skips
  /\ NoFalseAlarm

(* The budget: what is spent and what is left. *)
Budget ==
  /\ phase = "exec" => executed + n = asked
  /\ phase \in {"difftest", "tail"} => n > 0 /\ executed + n = asked + 1

IInv == TypeOK /\ Budget /\ Flow

(* One instruction of the core. *)
Execute(d, touches) ==
  \/ exec_alu(d, touches) \/ mem_access(d, touches)
  \/ ebreak_exit(d, touches) \/ inst_invalid(d, touches)

-----------------------------------------------------------------------------
(* The budget of a command is a uint64_t. *)
LEMMA ToUint64Type ==
  /\ ToUint64(-1) \in 0 .. UINT64_MAX
  /\ \A N \in Steps : ToUint64(N) \in 0 .. UINT64_MAX
BY DebugAssumption DEF ToUint64

(* The image maps registers and pc to registers and pc. *)
LEMMA ImageType ==
  ASSUME TypeOK
  PROVE  \A p \in PCs : \A a \in Arch : image[p].fn[a] \in Arch /\ image[p].op \in Ops
<1>1. image \in [PCs -> [op : Ops, fn : [Arch -> Arch]]]
  BY ImageAssumption DEF TypeOK
<1>2. \A p \in PCs : image[p] \in [op : Ops, fn : [Arch -> Arch]]
  BY <1>1
<1> HIDE DEF Arch, Ops
<1>3. QED
  BY <1>2

(* The reference steps from one architectural state to another.            *)
LEMMA RefNextType ==
  ASSUME TypeOK
  PROVE  RefNext \in Arch
<1>1. ref \in Arch /\ ref.pc \in PCs
  BY DEF TypeOK, Arch
<1>2. QED
  BY <1>1, ImageType DEF RefNext

(* The head of sim_exec keeps the types and the budget. *)
LEMMA SimExecType ==
  ASSUME NEW budget \in 0 .. UINT64_MAX, TypeOK, Budget, phase = "prompt", sim_exec(budget)
  PROVE  TypeOK' /\ Budget'
<1>1. phase' \in {"prompt", "exit", "exec"} /\ state' \in {"RUNNING", "STOP", "END", "ABORT", "QUIT"}
  BY DEF TypeOK, sim_exec
<1>2. n' \in 0 .. UINT64_MAX /\ asked' \in 0 .. UINT64_MAX /\ executed' \in 0 .. UINT64_MAX
  <2>1. 0 \in 0 .. UINT64_MAX
    BY DebugAssumption
  <2>2. QED
    BY <2>1 DEF TypeOK, sim_exec
<1>3. Budget'
  <2>1. budget \in Int /\ 0 + budget = budget
    BY DebugAssumption
  <2>2. phase' \notin {"difftest", "tail"} /\ (phase' = "exec" => n' = budget /\ asked' = budget /\ executed' = 0)
    BY <1>1 DEF sim_exec
  <2>3. QED
    BY <2>1, <2>2 DEF Budget
<1>4. QED
  BY <1>1, <1>2, <1>3 DEF TypeOK, sim_exec, watch

(* An instruction keeps the types and the budget. *)
LEMMA FetchType ==
  ASSUME TypeOK, Budget, NEW op \in Ops, NEW d \in Arch, NEW touches \in BOOLEAN,
         Fetch(op, d, touches),
         state' \in {"RUNNING", "STOP", "END", "ABORT", "QUIT"}, halt_ret' \in {0, 1},
         verdict' \in Verdicts
  PROVE  TypeOK' /\ Budget'
<1>1. n \in Nat /\ asked \in Nat /\ executed \in Nat /\ UINT64_MAX \in Nat /\ asked <= UINT64_MAX
  BY DebugAssumption DEF TypeOK
<1>2. n > 0 /\ executed + n = asked
  BY DEF Fetch, Budget
<1>3. executed + 1 \in Nat /\ executed + 1 <= UINT64_MAX /\ (executed + 1) + n = asked + 1
  BY <1>1, <1>2
<1>4. executed' = executed + 1 /\ n' = n /\ asked' = asked /\ phase' = "difftest"
  BY DEF Fetch
<1>5. Budget'
  BY <1>2, <1>3, <1>4 DEF Budget
<1>6. executed' \in 0 .. UINT64_MAX
  BY <1>1, <1>3, <1>4
<1>7. is_skip_ref' \in BOOLEAN /\ poked' \in BOOLEAN
  BY DEF TypeOK, Fetch
<1>8. QED
  BY <1>4, <1>5, <1>6, <1>7 DEF TypeOK, Fetch, watch

(* Every step keeps the types and the budget. *)
LEMMA TypeStep == TypeOK /\ Budget /\ [Next]_vars => (TypeOK /\ Budget)'
<1> SUFFICES ASSUME TypeOK, Budget, [Next]_vars PROVE TypeOK' /\ Budget'
  OBVIOUS
<1> USE DEF machine, watch, history
<1>1. CASE cmd_c \/ batch_c
  BY <1>1, SimExecType, ToUint64Type DEF cmd_c, batch_c, Command
<1>2. CASE cmd_q \/ eof
  BY <1>2 DEF cmd_q, eof, Command, TypeOK, Budget
<1>3. ASSUME NEW N \in Steps, cmd_si(N)
      PROVE  TypeOK' /\ Budget'
  BY <1>3, SimExecType, ToUint64Type DEF cmd_si, Command
<1>4. ASSUME NEW e \in Exprs, cmd_p(e)
      PROVE  TypeOK' /\ Budget'
  BY <1>4 DEF cmd_p, Load, Command, TypeOK, Budget
<1>5. ASSUME NEW e \in Exprs, cmd_w(e)
      PROVE  TypeOK' /\ Budget'
  <2>1. /\ expression' \in [WP -> Exprs \cup {NULL}]
        /\ value' \in [WP -> Vals \cup {NULL}]
        /\ phase' \in {"prompt", "dead"}
    <3>1. CASE Active = WP \/ e[core.regs] = Nowhere
      BY <1>5, <3>1 DEF cmd_w, Command, TypeOK
    <3>2. CASE ~(Active = WP \/ e[core.regs] = Nowhere)
      <4>1. core.regs \in Regs
        BY DEF TypeOK, Arch
      <4>2. Eval(e, core.regs) \subseteq Vals
        BY <4>1, DebugAssumption DEF Eval
      <4>3. QED
        BY <1>5, <3>2, <4>2 DEF cmd_w, Command, TypeOK
    <3>3. QED
      BY <3>1, <3>2
  <2>2. QED
    BY <1>5, <2>1 DEF cmd_w, Load, Command, TypeOK, Budget
<1>6. ASSUME NEW no \in -1 .. NR_WP, cmd_d(no)
      PROVE  TypeOK' /\ Budget'
  BY <1>6 DEF cmd_d, Command, TypeOK, Budget
<1>7. ASSUME NEW d \in Arch, NEW touches \in BOOLEAN, Execute(d, touches)
      PROVE  TypeOK' /\ Budget'
  <2>1. /\ state' \in {"RUNNING", "STOP", "END", "ABORT", "QUIT"} /\ halt_ret' \in {0, 1}
        /\ verdict' \in Verdicts
    BY <1>7 DEF Execute, exec_alu, mem_access, ebreak_exit, inst_invalid, Concludes, Verdicts, TypeOK
  <2>2. \E op \in Ops : Fetch(op, d, touches)
    BY <1>7 DEF Execute, exec_alu, mem_access, ebreak_exit, inst_invalid, Ops
  <2>3. QED
    BY <2>1, <2>2, FetchType
<1>8. CASE out_of_bound
  BY <1>8 DEF out_of_bound, TypeOK, Budget
<1>9. CASE difftest_skip
  BY <1>9 DEF difftest_skip, TypeOK, Budget
<1>10. CASE difftest_compare
  <2>1. ref' \in Arch /\ refOver' \in BOOLEAN
    BY <1>10, RefNextType DEF difftest_compare, TypeOK
  <2>2. QED
    BY <1>10, <2>1 DEF difftest_compare, checkregs, TypeOK, Budget
<1>11. CASE difftest_panic
  BY <1>11 DEF difftest_panic, TypeOK, Budget
<1>12. ASSUME NEW polls \in BOOLEAN, device_update(polls)
       PROVE  TypeOK' /\ Budget'
  <2>1. quitEvent' \in BOOLEAN
    BY <1>12 DEF device_update, TypeOK
  <2>2. n \in 0 .. UINT64_MAX /\ asked \in Nat /\ executed \in Nat
    BY DebugAssumption DEF TypeOK
  <2>3. n > 0 /\ executed + n = asked + 1
    BY <1>12 DEF device_update, Budget
  <2>4. n - 1 \in 0 .. UINT64_MAX /\ executed + (n - 1) = asked
    BY <2>2, <2>3, DebugAssumption
  <2>5. n' \in 0 .. UINT64_MAX /\ Budget'
    BY <1>12, <2>4 DEF device_update, Budget
  <2>6. QED
    BY <1>12, <2>1, <2>5 DEF device_update, TypeOK
<1>13. CASE LeaveLoop \/ sim_exec_done
  <2>1. 0 \in 0 .. UINT64_MAX
    BY DebugAssumption
  <2>2. Return
    BY <1>13 DEF LeaveLoop, sim_exec_done
  <2>3. QED
    BY <2>1, <2>2 DEF Return, TypeOK, Budget
<1>14. CASE close_window
  BY <1>14 DEF close_window, TypeOK, Budget
<1>15. CASE Gone \/ UNCHANGED vars
  <2>1. UNCHANGED vars
    BY <1>15 DEF Gone
  <2>2. TypeOK'
    BY <2>1 DEF vars, TypeOK
  <2>3. Budget'
    BY <2>1 DEF vars, Budget
  <2>4. QED
    BY <2>2, <2>3
<1>16. QED
  BY <1>1, <1>2, <1>3, <1>4, <1>5, <1>6, <1>7, <1>8, <1>9, <1>10, <1>11, <1>12,
     <1>13, <1>14, <1>15 DEF Next, Debugger, Core, Loop, Execute

-----------------------------------------------------------------------------
(* The instruction at the core's pc, when the reference is there too: what *)
(* the reference is going to compute.                                      *)
LEMMA ReferenceAhead ==
  ASSUME TypeOK, ref = core, ~refOver, UNCHANGED <<ref, refOver, image>>
  PROVE  RefNext' = Right /\ image'[ref'.pc].op = Inst.op
BY DEF RefNext, Right, Inst

(* An instruction of the core leads to a comparison that finds what is     *)
(* wrong, if anything is.                                                  *)
LEMMA CoreFlow ==
  ASSUME TypeOK, Flow, NEW d \in Arch, NEW touches \in BOOLEAN, Execute(d, touches)
  PROVE  Flow'
<1>1. /\ phase = "exec" /\ phase' = "difftest" /\ core' = d /\ is_skip_ref = poked
      /\ is_skip_ref' = (is_skip_ref \/ touches) /\ ~poked'
      /\ UNCHANGED <<ref, refOver, image>>
  BY DEF Execute, exec_alu, mem_access, ebreak_exit, inst_invalid, Fetch, Flow, Skips
<1>2. /\ state \in {"RUNNING", "QUIT"} /\ verdict \in {"none", "wrong_pc"}
      /\ verdict = "none" => ref = core /\ ~refOver /\ halt_ret = 1
  BY <1>1 DEF Flow, Before, Together
<1>3. CASE verdict = "wrong_pc"
  <2>1. verdict' = "wrong_pc"
    BY <1>3 DEF Execute, exec_alu, mem_access, ebreak_exit, inst_invalid, Concludes
  <2>2. QED
    BY <1>1, <2>1 DEF Flow, Before, Pending, After, Skips, NoFalseAlarm
<1>4. CASE verdict = "none"
  <2> DEFINE R == Right
  <2>1. RefNext' = R /\ image'[ref'.pc].op = Inst.op /\ ~refOver'
    BY <1>1, <1>2, <1>4, ReferenceAhead
  <2>2. R \in Arch /\ R.regs \in Regs /\ R.pc \in PCs /\ d.regs \in Regs /\ d.pc \in PCs
    <3>1. R \in Arch
      BY <1>1, <1>2, <1>4, RefNextType, ImageType DEF Right, Inst, TypeOK, Arch
    <3>2. QED
      BY <3>1 DEF Arch
  <2>3. d.regs = R.regs /\ d.pc = R.pc => d = R
    BY <2>2 DEF Arch
  <2>4. Compared(touches) <=> ~is_skip_ref'
    BY <1>1 DEF Compared, TypeOK
  <2> HIDE DEF R
  <2>5. CASE exec_alu(d, touches)
    <3>1. Inst.op = "alu" /\ UNCHANGED <<state, halt_ret>>
      BY <2>5 DEF exec_alu, Fetch
    <3>2. verdict' = IF is_skip_ref' THEN "none" ELSE IF d.regs # R.regs THEN "wrong_registers"
                     ELSE IF d.pc # R.pc THEN "wrong_pc" ELSE "none"
      BY <1>4, <2>4, <2>5 DEF exec_alu, Concludes, R
    <3>3. QED
      BY <1>1, <1>2, <1>4, <2>1, <2>3, <3>1, <3>2
      DEF Flow, Before, Pending, After, Skips, NoFalseAlarm, Ended
  <2>6. CASE mem_access(d, touches)
    <3>1. Inst.op = "mmio" /\ UNCHANGED <<state, halt_ret>>
      BY <2>6 DEF mem_access, Fetch
    <3>2. verdict' = IF is_skip_ref' THEN "none" ELSE "wrong_access"
      BY <1>4, <2>4, <2>6 DEF mem_access, Concludes
    <3>3. QED
      BY <1>1, <1>2, <1>4, <2>1, <3>1, <3>2
      DEF Flow, Before, Pending, After, Skips, NoFalseAlarm, Ended
  <2>7. CASE ebreak_exit(d, touches)
    <3>1. state' = "END" /\ halt_ret' = 0
      BY <2>7 DEF ebreak_exit
    <3>2. verdict' = IF ~is_skip_ref' /\ d.regs # R.regs THEN "wrong_registers"
                     ELSE IF core.regs = 0 THEN "good" ELSE "bad"
      BY <1>4, <2>4, <2>7 DEF ebreak_exit, Concludes, R
    <3>3. QED
      BY <1>1, <1>2, <1>4, <2>1, <3>1, <3>2
      DEF Flow, Before, Pending, After, Skips, NoFalseAlarm, Ended
  <2>8. CASE inst_invalid(d, touches)
    <3>1. state' = "ABORT" /\ verdict' = "invalid"
      BY <1>4, <2>8 DEF inst_invalid, Concludes
    <3>2. QED
      BY <1>1, <3>1 DEF Flow, Before, Pending, After, Skips, NoFalseAlarm
  <2>9. QED
    BY <2>5, <2>6, <2>7, <2>8 DEF Execute
<1>5. QED
  BY <1>2, <1>3, <1>4

(* The comparison. *)
LEMMA CompareFlow ==
  ASSUME TypeOK, Flow, difftest_compare
  PROVE  Flow'
<1>1. /\ phase = "difftest" /\ ~is_skip_ref /\ phase' = "tail"
      /\ ref' = RefNext /\ UNCHANGED <<is_batch_mode, halt_ret, is_skip_ref, core, verdict>>
      /\ state' = IF RefNext.regs # core.regs THEN "ABORT" ELSE state
      /\ refOver' = (refOver \/ image[ref.pc].op \in {"ebreak", "invalid"})
  BY DEF difftest_compare, checkregs, history
<1>2. verdict \in {"none", "good", "bad", "invalid", "wrong_registers", "wrong_access", "wrong_pc"}
  BY DEF TypeOK, Verdicts
<1>3. Pending /\ NoFalseAlarm /\ ~poked /\ (refOver \/ image[ref.pc].op # "mmio")
  BY <1>1 DEF Flow, Skips, difftest_compare
<1>4. Outcome'
  BY <1>1, <1>2, <1>3 DEF Pending, Outcome, Ended
<1>5. Together'
  BY <1>1, <1>3 DEF Pending, Together
<1>6. NoFalseAlarm'
  BY <1>1, <1>2, <1>3 DEF Pending, NoFalseAlarm
<1>7. state' \notin Ended => core'.regs = ref'.regs
  BY <1>1 DEF Ended
<1>8. QED
  <2>1. Skips'
    BY <1>1, <1>3 DEF Skips, difftest_compare, history, TypeOK
  <2>2. QED
    BY <1>1, <1>4, <1>5, <1>6, <1>7, <2>1 DEF Flow, Before, Pending, After

(* Every step keeps the comparison sound and complete. *)
LEMMA FlowStep == TypeOK /\ Flow /\ [Next]_vars => Flow'
<1> SUFFICES ASSUME TypeOK, Flow, [Next]_vars PROVE Flow'
  OBVIOUS
<1> USE DEF machine, watch, history, Flow, Before, Pending, After, Skips, Outcome, Together, NoFalseAlarm, Ended
<1>1. CASE cmd_c \/ batch_c
  BY <1>1 DEF cmd_c, batch_c, Command, sim_exec, TypeOK, Verdicts
<1>2. CASE cmd_q \/ eof
  BY <1>2 DEF cmd_q, eof, Command
<1>3. ASSUME NEW N \in Steps, cmd_si(N)
      PROVE  Flow'
  BY <1>3 DEF cmd_si, Command, sim_exec, TypeOK, Verdicts
<1>4. ASSUME NEW e \in Exprs, cmd_p(e) \/ cmd_w(e)
      PROVE  Flow'
  BY <1>4 DEF cmd_p, cmd_w, Load, Command
<1>5. ASSUME NEW no \in -1 .. NR_WP, cmd_d(no)
      PROVE  Flow'
  BY <1>5 DEF cmd_d, Command
<1>6. ASSUME NEW d \in Arch, NEW touches \in BOOLEAN, Execute(d, touches)
      PROVE  Flow'
  BY <1>6, CoreFlow
<1>7. CASE out_of_bound
  BY <1>7 DEF out_of_bound
<1>8. CASE difftest_skip
  BY <1>8 DEF difftest_skip, TypeOK
<1>9. CASE difftest_compare
  BY <1>9, CompareFlow
<1>10. CASE difftest_panic
  BY <1>10 DEF difftest_panic, TypeOK
<1>11. ASSUME NEW polls \in BOOLEAN, device_update(polls)
       PROVE  Flow'
  BY <1>11 DEF device_update, TypeOK, Verdicts
<1>12. CASE LeaveLoop
  BY <1>12 DEF LeaveLoop, Return, TypeOK
<1>13. CASE sim_exec_done
  BY <1>13 DEF sim_exec_done, Return, TypeOK
<1>14. CASE close_window
  BY <1>14 DEF close_window, RefNext
<1>15. CASE Gone \/ UNCHANGED vars
  BY <1>15 DEF Gone, vars, RefNext
<1> HIDE DEF machine, watch, history, Flow, Before, Pending, After, Skips, Outcome, Together, NoFalseAlarm, Ended
<1>16. QED
  BY <1>1, <1>2, <1>3, <1>4, <1>5, <1>6, <1>7, <1>8, <1>9, <1>10, <1>11, <1>12,
     <1>13, <1>14, <1>15 DEF Next, Debugger, Core, Loop, Execute

-----------------------------------------------------------------------------
(* The inductive invariant: types and budget, and what the reference, the  *)
(* state and the verdict have to do with each other in every phase.        *)
THEOREM Inductive == Spec => []IInv
<1>1. Init => IInv
  <2> SUFFICES ASSUME Init PROVE IInv
    OBVIOUS
  <2>1. core \in Arch /\ ref = core
    BY ImageAssumption DEF Init, Arch
  <2>2. TypeOK
    <3>1. is_batch_mode \in BOOLEAN /\ is_skip_ref \in BOOLEAN /\ refOver \in BOOLEAN /\ quitEvent \in BOOLEAN
      BY DebugAssumption DEF Init
    <3>2. n \in 0 .. UINT64_MAX /\ asked \in 0 .. UINT64_MAX /\ executed \in 0 .. UINT64_MAX
      BY DebugAssumption DEF Init
    <3>3. poked \in BOOLEAN /\ verdict \in Verdicts
      BY DEF Init, Verdicts
    <3>4. QED
      BY <2>1, <3>1, <3>2, <3>3 DEF Init, TypeOK
  <2>3. Budget
    BY DEF Init, Budget
  <2>4. Flow
    BY <2>1 DEF Init, Flow, Before, Pending, After, Skips, Outcome, Together, NoFalseAlarm, Ended
  <2>5. QED
    BY <2>2, <2>3, <2>4 DEF IInv
<1>2. IInv /\ [Next]_vars => IInv'
  BY TypeStep, FlowStep DEF IInv
<1>3. QED
  BY <1>1, <1>2, PTL DEF Spec

(* The types hold: the instruction counters stay within a uint64_t. *)
THEOREM NpcTypes == Spec => []TypeOK
<1>1. IInv => TypeOK
  BY DEF IInv
<1>2. QED
  BY Inductive, <1>1, PTL

(***************************************************************************)
(* difftest_step: whatever the core computes, its register file and NEMU's *)
(* are the same before every instruction.                                  *)
(***************************************************************************)
THEOREM NpcInSync == Spec => []RegsInSync
<1>1. IInv => RegsInSync
  BY DEF IInv, Flow, Before, RegsInSync
<1>2. QED
  BY Inductive, <1>1, PTL

(***************************************************************************)
(* sim_exec: no instruction follows the end of the program, a wrong        *)
(* register or a missed device, unless the core jumped to a wrong address  *)
(* before, and but for the results a skip covers: those of instructions    *)
(* during which the core touched a device, by whatever address, and of the *)
(* one after the debugger read a device.                                   *)
(***************************************************************************)
THEOREM NpcEndFinal == Spec => []EndIsFinal
<1>1. IInv => EndIsFinal
  BY DEF IInv, Flow, Before, EndIsFinal
<1>2. QED
  BY Inductive, <1>1, PTL

(* checkregs and inst_invalid: the simulation is aborted only for an       *)
(* invalid instruction or a wrong result of the core.                      *)
THEOREM NpcAlarmsReal == Spec => []NoFalseAlarm
<1>1. IInv => NoFalseAlarm
  BY DEF IInv, Flow
<1>2. QED
  BY Inductive, <1>1, PTL

(***************************************************************************)
(* is_exit_status_bad: in batch mode, unless the core jumped to a wrong    *)
(* address, the status is good only if the program reached its ebreak with *)
(* registers no comparison found wrong, and it is good if it did with 0 in *)
(* a0.                                                                     *)
(***************************************************************************)
THEOREM NpcBatchStatus == Spec => []BatchStatus
<1>1. IInv => BatchStatus
  <2> SUFFICES ASSUME IInv, is_batch_mode, phase = "exit", verdict # "wrong_pc"
               PROVE  (ExitGood => verdict \in {"good", "bad"}) /\ (verdict = "good" => ExitGood)
    BY DEF BatchStatus
  <2>1. Outcome
    BY DEF IInv, Flow, After
  <2>2. verdict \in {"none", "good", "bad", "invalid", "wrong_registers"}
    BY <2>1 DEF IInv, TypeOK, Verdicts, Outcome
  <2>3. QED
    BY <2>1, <2>2 DEF Outcome, ExitGood
<1>2. QED
  BY Inductive, <1>1, PTL

(* sim_exec: `si N' executes at most N instructions, and exactly N when    *)
(* nothing else stops it.                                                  *)
THEOREM NpcBudget == Spec => BudgetExact
<1>1. IInv /\ [Next]_vars =>
        [(phase \in {"exec", "tail"} /\ phase' \in {"prompt", "exit"})
           => executed <= asked /\ (state = "RUNNING" => executed = asked)]_vars
  <2> SUFFICES ASSUME IInv, [Next]_vars, phase \in {"exec", "tail"},
                      phase' \in {"prompt", "exit"}
               PROVE  executed <= asked /\ (state = "RUNNING" => executed = asked)
    OBVIOUS
  <2>1. (phase = "exec" /\ n = 0) \/ (phase = "tail" /\ state # "RUNNING")
    <3>1. CASE Debugger
      BY <3>1 DEF Debugger, cmd_c, cmd_q, eof, batch_c, cmd_si, cmd_p, cmd_w, cmd_d, Command
    <3>2. CASE Core
      BY <3>2 DEF Core, exec_alu, mem_access, ebreak_exit, inst_invalid, out_of_bound, Fetch
    <3>3. CASE Loop
      BY <3>3 DEF Loop, difftest_skip, difftest_compare, difftest_panic, device_update, LeaveLoop, sim_exec_done
    <3>4. CASE close_window \/ Gone \/ UNCHANGED vars
      BY <3>4 DEF close_window, Gone, vars
    <3>5. QED
      BY <3>1, <3>2, <3>3, <3>4 DEF Next
  <2>2. n \in Nat /\ executed \in Nat /\ asked \in Nat
    BY DebugAssumption DEF IInv, TypeOK
  <2>3. (phase = "exec" => executed + n = asked) /\ (phase = "tail" => n > 0 /\ executed + n = asked + 1)
    BY DEF IInv, Budget
  <2>4. QED
    BY <2>1, <2>2, <2>3
<1>2. QED
  BY Inductive, <1>1, PTL DEF Spec, BudgetExact
=============================================================================
