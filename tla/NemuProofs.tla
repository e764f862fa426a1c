----------------------------- MODULE NemuProofs -----------------------------
(***************************************************************************)
(* Proofs about Nemu for every set of register states, instructions and    *)
(* debugger expressions, every pool size and every budget; and about the   *)
(* objects it is built from (KconfBuild), for every configuration.         *)
(***************************************************************************)
EXTENDS Nemu, KconfBuild, TLAPS

(* The debugger has not disturbed the run; no watchpoint hid its end. *)
Clean  == interfered = {}
Unseen == "watch" \notin interfered

(* Between instructions the machine is in sync and not past its end, or    *)
(* its state says that it ended.                                           *)
Sound ==
  state \notin Ended =>
    /\ Unseen => dut = ref /\ verdict \in {"none", "diverged"}
    /\ Clean  => verdict = "none"

(* What the state says of an ended machine. *)
Honest ==
  /\ state = "ABORT" /\ Unseen => verdict \in {"invalid", "diverged"}
  /\ state = "END" /\ Clean =>
       \/ verdict = "good" /\ halt_ret = 0
       \/ verdict = "bad" /\ halt_ret = 1

(* The instruction just executed, before it is compared. *)
Pending ==
  /\ cur.kind = "normal" =>
       /\ state \in {"RUNNING", "QUIT"}
       /\ is_skip_ref => "mmio" \in interfered
       /\ Unseen => verdict \in {"none", "diverged"}
       /\ Unseen /\ dut # cur.fn[ref] => verdict = "diverged"
       /\ Clean /\ verdict # "none" => dut # cur.fn[ref]
  /\ cur.kind = "device" =>
       /\ state \in {"RUNNING", "QUIT"} /\ is_skip_ref
       /\ Unseen => verdict \in {"none", "diverged"}
       /\ Clean => verdict = "none"
  /\ cur.kind = "trap" => state = "END" /\ is_skip_ref
  /\ cur.kind = "invalid" => state = "ABORT" /\ is_skip_ref
  /\ cur.kind # "none"

(* The budget: what is spent and what is left. *)
Budget ==
  /\ executed <= asked
  /\ phase = "exec" => executed + n = asked
  /\ phase \in {"difftest", "watch", "tail"} => n > 0 /\ executed + n = asked + 1

(* The recorded values: current between commands and instructions, and     *)
(* those of the start of the command while it runs.                        *)
Current == \A w \in Active : value[w] \in Eval(expression[w], dut)
AsStart == \A w \in Active : start[w] = value[w]
Watching ==
  /\ phase \in {"prompt", "exec", "tail"} => Current
  /\ phase \in {"exec", "difftest", "watch"} => AsStart
  /\ phase = "tail" /\ state # "STOP" => AsStart

Flow ==
  /\ phase \in {"prompt", "exec", "watch", "tail"} => Sound
  /\ phase = "difftest" => Pending
  /\ phase # "difftest" /\ is_skip_ref => "mmio" \in interfered
  /\ phase = "exec" => state \in {"RUNNING", "QUIT"}
  /\ phase \in {"exec", "difftest", "watch"} => state # "STOP"
  /\ Honest

(* In batch mode nobody types commands. *)
BatchAlone ==
  is_batch_mode =>
    /\ Clean /\ Active = {}
    /\ phase = "exit" => verdict \in {"none", "good"} \/ ~ExitGood
    /\ phase = "exit" /\ verdict = "good" => ExitGood
    /\ phase = "prompt" => state = "STOP"

IInv == TypeOK /\ Budget /\ Flow /\ Watching /\ BatchAlone

-----------------------------------------------------------------------------
(* The budget of a command is a uint64_t. *)
LEMMA ToUint64Type ==
  /\ ToUint64(-1) \in 0 .. UINT64_MAX
  /\ \A N \in Steps : ToUint64(N) \in 0 .. UINT64_MAX
BY BudgetAssumption DEF ToUint64

(* The head of cpu_exec keeps the types and the budget. *)
LEMMA CpuExecType ==
  ASSUME NEW budget \in 0 .. UINT64_MAX, TypeOK, Budget, phase = "prompt",
         cpu_exec(budget), quitEvent' \in BOOLEAN
  PROVE  TypeOK' /\ Budget'
<1> USE BudgetAssumption DEF TypeOK, Budget, cpu_exec, Phases, watch
<1>1. phase' \in {"exec", "exit", "prompt"} /\ state' \in States
  BY DEF States
<1>2. n' \in 0 .. UINT64_MAX /\ asked' \in 0 .. UINT64_MAX /\ executed' \in 0 .. UINT64_MAX
  OBVIOUS
<1>3. start' \in [WP -> Vals \cup {NULL}]
  OBVIOUS
<1>4. Budget'
  OBVIOUS
<1>5. QED
  BY <1>1, <1>2, <1>3, <1>4

(* Every step keeps the types and the budget. *)
LEMMA TypeStep == TypeOK /\ Budget /\ [Next]_vars => (TypeOK /\ Budget)'
<1> SUFFICES ASSUME TypeOK /\ Budget, [Next]_vars PROVE (TypeOK /\ Budget)'
  OBVIOUS
<1> USE ArchAssumption, PoolAssumption, ExprAssumption, BudgetAssumption DEF vars, harness, machine, watch, history, TypeOK, Budget, Phases, States, Kinds, WP, Active
<1>1. CASE cmd_c
  BY <1>1, CpuExecType, ToUint64Type DEF cmd_c, Command, Prompt
<1>2. CASE cmd_q
  BY <1>2 DEF cmd_q, Command, Prompt
<1>3. CASE eof
  BY <1>3 DEF eof, Prompt
<1>4. CASE batch_c
  BY <1>4, CpuExecType, ToUint64Type DEF batch_c, Prompt
<1>5. ASSUME NEW N \in Steps, cmd_si(N)
      PROVE  (TypeOK /\ Budget)'
  BY <1>5, CpuExecType, ToUint64Type DEF cmd_si, Command, Prompt
<1>6. ASSUME NEW e \in Exprs, cmd_p(e)
      PROVE  (TypeOK /\ Budget)'
  <2>1. interfered' \in SUBSET {"mmio", "watch"} /\ is_skip_ref' \in BOOLEAN
    BY <1>6 DEF cmd_p, DebugRead
  <2>2. phase' \in {"prompt", "dead"} /\ quitEvent' \in BOOLEAN
    BY <1>6 DEF cmd_p, Command, Prompt
  <2>3. UNCHANGED <<is_batch_mode, n, state, halt_ret, dut, ref, expression, value,
                    cur, verdict, asked, executed, start>>
    BY <1>6 DEF cmd_p
  <2>4. QED
    BY <2>1, <2>2, <2>3
<1>7. ASSUME NEW e \in Exprs, cmd_w(e)
      PROVE  (TypeOK /\ Budget)'
  <2>1. interfered' \in SUBSET {"mmio", "watch"} /\ is_skip_ref' \in BOOLEAN
    BY <1>7 DEF cmd_w, DebugRead
  <2>2. /\ expression' \in [WP -> Exprs \cup {NULL}]
        /\ value' \in [WP -> Vals \cup {NULL}]
        /\ phase' \in {"prompt", "dead"}
    <3>1. CASE Active = WP \/ e[dut] = Nowhere
      BY <1>7, <3>1 DEF cmd_w, Command, Prompt
    <3>2. CASE ~(Active = WP \/ e[dut] = Nowhere)
      <4>1. Eval(e, dut) \subseteq Vals
        BY DEF Eval
      <4>2. QED
        BY <1>7, <3>2, <4>1 DEF cmd_w, Command, Prompt
    <3>3. QED
      BY <3>1, <3>2
  <2>3. UNCHANGED <<is_batch_mode, n, state, halt_ret, dut, ref,
                    cur, verdict, asked, executed, start>>
        /\ quitEvent' \in BOOLEAN
    BY <1>7 DEF cmd_w, Command
  <2>4. QED
    BY <2>1, <2>2, <2>3
<1>8. ASSUME NEW no \in -1 .. NR_WP, cmd_d(no)
      PROVE  (TypeOK /\ Budget)'
  <2>1. /\ expression' \in [WP -> Exprs \cup {NULL}]
        /\ value' \in [WP -> Vals \cup {NULL}]
    BY <1>8 DEF cmd_d
  <2>2. phase' \in {"prompt", "dead"}
    BY <1>8 DEF cmd_d, Command, Prompt
  <2>3. UNCHANGED <<is_batch_mode, n, machine, history>> /\ quitEvent' \in BOOLEAN
    BY <1>8 DEF cmd_d, Command
  <2>4. QED
    BY <2>1, <2>2, <2>3
<1>9. ASSUME NEW f \in Insts, NEW d \in Arch, exec_normal(f, d)
      PROVE  (TypeOK /\ Budget)'
  BY <1>9 DEF exec_normal, Fetch, Concludes
<1>10. ASSUME NEW f \in Insts, NEW d \in Arch, exec_device(f, d)
      PROVE  (TypeOK /\ Budget)'
  BY <1>10 DEF exec_device, Fetch
<1>11. ASSUME NEW f \in Insts, NEW d \in Arch, exec_invalid(f, d)
      PROVE  (TypeOK /\ Budget)'
  BY <1>11 DEF exec_invalid, Fetch, Concludes, set_nemu_state
<1>12. ASSUME NEW f \in Insts, NEW d \in Arch, NEW ret \in {0, 1}, exec_trap(f, d, ret)
      PROVE  (TypeOK /\ Budget)'
  BY <1>12 DEF exec_trap, Fetch, Concludes, set_nemu_state
<1>13. CASE exec_out_of_bound
  BY <1>13 DEF exec_out_of_bound
<1>14. CASE difftest_step
  <2>1. ref' \in Arch /\ state' \in States
    BY <1>14 DEF difftest_step
  <2>2. QED
    BY <1>14, <2>1 DEF difftest_step
<1>15. CASE check_wp
  <2>1. PICK new \in [Active -> Vals] : check_wp!2!(new)
    BY <1>15 DEF check_wp
  <2>2. value' \in [WP -> Vals \cup {NULL}] /\ state' \in States
    BY <2>1
  <2>3. interfered' \in SUBSET {"mmio", "watch"} /\ is_skip_ref' \in BOOLEAN
    BY <2>1
  <2>4. QED
    BY <1>15, <2>1, <2>2, <2>3 DEF check_wp
<1>16. CASE check_wp_out_of_bound
  BY <1>16 DEF check_wp_out_of_bound
<1>17. ASSUME NEW polls \in BOOLEAN, device_update(polls)
      PROVE  (TypeOK /\ Budget)'
  BY <1>17 DEF device_update
<1>18. CASE LeaveLoop
  BY <1>18 DEF LeaveLoop, Return, Forget, Idle
<1>19. CASE execute_done
  BY <1>19 DEF execute_done, Return, Forget, Idle
<1>20. CASE close_window
  BY <1>20 DEF close_window
<1>21. CASE Gone
  BY <1>21 DEF Gone
<1>22. CASE UNCHANGED vars
  BY <1>22
<1> HIDE DEF vars, harness, machine, watch, history, TypeOK, Budget, Phases, States, Kinds, WP, Active
<1>23. QED
  BY <1>1, <1>2, <1>3, <1>4, <1>5, <1>6, <1>7, <1>8, <1>9, <1>10, <1>11,
     <1>12, <1>13, <1>14, <1>15, <1>16, <1>17, <1>18, <1>19, <1>20, <1>21, <1>22
  DEF Next, Debugger, Guest, Loop

(* Every step keeps the differential test sound and complete. *)
LEMMA FlowStep == TypeOK /\ Flow /\ [Next]_vars => Flow'
<1> SUFFICES ASSUME TypeOK /\ Flow, [Next]_vars PROVE Flow'
  OBVIOUS
<1> USE DEF vars, harness, machine, watch, history, TypeOK, States, Flow, Sound, Honest, Clean, Unseen, Pending, Ended
<1>1. CASE cmd_c
  BY <1>1 DEF cmd_c, Command, Prompt, cpu_exec
<1>2. CASE cmd_q
  BY <1>2 DEF cmd_q, Command, Prompt
<1>3. CASE eof
  BY <1>3 DEF eof, Prompt
<1>4. CASE batch_c
  BY <1>4 DEF batch_c, Prompt, cpu_exec
<1>5. ASSUME NEW N \in Steps, cmd_si(N)
      PROVE  Flow'
  BY <1>5 DEF cmd_si, Command, Prompt, cpu_exec
<1>6. ASSUME NEW e \in Exprs, cmd_p(e)
      PROVE  Flow'
  BY <1>6 DEF cmd_p, Command, Prompt, DebugRead
<1>7. ASSUME NEW e \in Exprs, cmd_w(e)
      PROVE  Flow'
  BY <1>7 DEF cmd_w, Command, Prompt, DebugRead
<1>8. ASSUME NEW no \in -1 .. NR_WP, cmd_d(no)
      PROVE  Flow'
  BY <1>8 DEF cmd_d, Command, Prompt
<1>9. ASSUME NEW f \in Insts, NEW d \in Arch, exec_normal(f, d)
      PROVE  Flow'
  BY <1>9 DEF exec_normal, Fetch, Concludes
<1>10. ASSUME NEW f \in Insts, NEW d \in Arch, exec_device(f, d)
      PROVE  Flow'
  BY <1>10 DEF exec_device, Fetch
<1>11. ASSUME NEW f \in Insts, NEW d \in Arch, exec_invalid(f, d)
      PROVE  Flow'
  BY <1>11 DEF exec_invalid, Fetch, Concludes, set_nemu_state
<1>12. ASSUME NEW f \in Insts, NEW d \in Arch, NEW ret \in {0, 1}, exec_trap(f, d, ret)
      PROVE  Flow'
  BY <1>12 DEF exec_trap, Fetch, Concludes, set_nemu_state
<1>13. CASE exec_out_of_bound
  BY <1>13 DEF exec_out_of_bound
<1>14. CASE difftest_step
  <2> cur.kind \in {"normal", "device", "trap", "invalid"}
    BY <1>14 DEF difftest_step, Kinds
  <2>1. CASE is_skip_ref
    BY <1>14, <2>1 DEF difftest_step
  <2>2. CASE ~is_skip_ref
    BY <1>14, <2>2 DEF difftest_step
  <2>3. QED
    BY <2>1, <2>2
<1>15. CASE check_wp
  BY <1>15 DEF check_wp
<1>16. CASE check_wp_out_of_bound
  BY <1>16 DEF check_wp_out_of_bound
<1>17. ASSUME NEW polls \in BOOLEAN, device_update(polls)
      PROVE  Flow'
  BY <1>17 DEF device_update
<1>18. CASE LeaveLoop
  BY <1>18 DEF LeaveLoop, Return, Forget, Idle
<1>19. CASE execute_done
  BY <1>19 DEF execute_done, Return, Forget, Idle
<1>20. CASE close_window
  BY <1>20 DEF close_window
<1>21. CASE Gone
  BY <1>21 DEF Gone
<1>22. CASE UNCHANGED vars
  BY <1>22
<1> HIDE DEF vars, harness, machine, watch, history, TypeOK, States, Flow, Sound, Honest, Clean, Unseen, Pending, Ended
<1>23. QED
  BY <1>1, <1>2, <1>3, <1>4, <1>5, <1>6, <1>7, <1>8, <1>9, <1>10, <1>11,
     <1>12, <1>13, <1>14, <1>15, <1>16, <1>17, <1>18, <1>19, <1>20, <1>21, <1>22
  DEF Next, Debugger, Guest, Loop

(* Every step keeps the recorded values current. *)
LEMMA WatchStep == TypeOK /\ Flow /\ Watching /\ [Next]_vars => Watching'
<1> SUFFICES ASSUME TypeOK /\ Flow /\ Watching, [Next]_vars PROVE Watching'
  OBVIOUS
<1> USE PoolAssumption, ExprAssumption DEF vars, harness, machine, watch, history, TypeOK, Watching, Current, AsStart, Active, WP
<1>1. CASE cmd_c
  BY <1>1 DEF cmd_c, Command, Prompt, cpu_exec
<1>2. CASE cmd_q
  BY <1>2 DEF cmd_q, Command, Prompt
<1>3. CASE eof
  BY <1>3 DEF eof, Prompt
<1>4. CASE batch_c
  BY <1>4 DEF batch_c, Prompt, cpu_exec
<1>5. ASSUME NEW N \in Steps, cmd_si(N)
      PROVE  Watching'
  BY <1>5 DEF cmd_si, Command, Prompt, cpu_exec
<1>6. ASSUME NEW e \in Exprs, cmd_p(e)
      PROVE  Watching'
  BY <1>6 DEF cmd_p, Command, Prompt, DebugRead
<1>7. ASSUME NEW e \in Exprs, cmd_w(e)
      PROVE  Watching'
  <2> USE DEF cmd_w, Command, Prompt
  <2>1. CASE Active = WP \/ e[dut] = Nowhere
    BY <1>7, <2>1
  <2>2. CASE ~(Active = WP \/ e[dut] = Nowhere)
    <3>1. PICK x \in WP \ Active, v \in Eval(e, dut) :
            /\ expression' = [expression EXCEPT ![x] = e]
            /\ value' = [value EXCEPT ![x] = v]
      BY <1>7, <2>2
    <3>2. phase' = "prompt" /\ dut' = dut
      BY <1>7, <2>2
    <3>3. Current
      BY <1>7
    <3>4. ASSUME NEW w \in WP, expression'[w] # NULL
          PROVE  value'[w] \in Eval(expression'[w], dut)
      <4>1. CASE w = x
        BY <3>1, <4>1
      <4>2. CASE w # x
        BY <3>1, <3>3, <3>4, <4>2
      <4>3. QED
        BY <4>1, <4>2
    <3>5. QED
      BY <3>2, <3>4
  <2>3. QED
    BY <2>1, <2>2
<1>8. ASSUME NEW no \in -1 .. NR_WP, cmd_d(no)
      PROVE  Watching'
  BY <1>8 DEF cmd_d, Command, Prompt
<1>9. ASSUME NEW f \in Insts, NEW d \in Arch, exec_normal(f, d)
      PROVE  Watching'
  BY <1>9 DEF exec_normal, Fetch, Concludes
<1>10. ASSUME NEW f \in Insts, NEW d \in Arch, exec_device(f, d)
      PROVE  Watching'
  BY <1>10 DEF exec_device, Fetch
<1>11. ASSUME NEW f \in Insts, NEW d \in Arch, exec_invalid(f, d)
      PROVE  Watching'
  BY <1>11 DEF exec_invalid, Fetch, Concludes, set_nemu_state
<1>12. ASSUME NEW f \in Insts, NEW d \in Arch, NEW ret \in {0, 1}, exec_trap(f, d, ret)
      PROVE  Watching'
  BY <1>12 DEF exec_trap, Fetch, Concludes, set_nemu_state
<1>13. CASE exec_out_of_bound
  BY <1>13 DEF exec_out_of_bound
<1>14. CASE difftest_step
  BY <1>14 DEF difftest_step
<1>15. CASE check_wp
  BY <1>15 DEF check_wp
<1>16. CASE check_wp_out_of_bound
  BY <1>16 DEF check_wp_out_of_bound
<1>17. ASSUME NEW polls \in BOOLEAN, device_update(polls)
      PROVE  Watching'
  BY <1>17 DEF device_update
<1>18. CASE LeaveLoop
  BY <1>18 DEF LeaveLoop, Return, Forget, Idle
<1>19. CASE execute_done
  BY <1>19 DEF execute_done, Return, Forget, Idle
<1>20. CASE close_window
  BY <1>20 DEF close_window
<1>21. CASE Gone
  BY <1>21 DEF Gone
<1>22. CASE UNCHANGED vars
  BY <1>22
<1> HIDE DEF vars, harness, machine, watch, history, TypeOK, Watching, Current, AsStart, Active, WP
<1>23. QED
  BY <1>1, <1>2, <1>3, <1>4, <1>5, <1>6, <1>7, <1>8, <1>9, <1>10, <1>11,
     <1>12, <1>13, <1>14, <1>15, <1>16, <1>17, <1>18, <1>19, <1>20, <1>21, <1>22
  DEF Next, Debugger, Guest, Loop

(* In batch mode nothing disturbs the run, and its end is reported. *)
LEMMA BatchStep == TypeOK /\ Flow /\ BatchAlone /\ [Next]_vars => BatchAlone'
<1> SUFFICES ASSUME TypeOK /\ Flow /\ BatchAlone, [Next]_vars PROVE BatchAlone'
  OBVIOUS
<1> USE DEF vars, harness, machine, watch, history, BatchAlone, ExitGood, Active, Clean, Unseen, Ended
<1>1. CASE cmd_c
  BY <1>1 DEF cmd_c, Command, Prompt, cpu_exec
<1>2. CASE cmd_q
  BY <1>2 DEF cmd_q, Command, Prompt
<1>3. CASE eof
  BY <1>3 DEF eof, Prompt
<1>4. CASE batch_c
  BY <1>4 DEF batch_c, Prompt, cpu_exec
<1>5. ASSUME NEW N \in Steps, cmd_si(N)
      PROVE  BatchAlone'
  BY <1>5 DEF cmd_si, Command, Prompt, cpu_exec
<1>6. ASSUME NEW e \in Exprs, cmd_p(e)
      PROVE  BatchAlone'
  BY <1>6 DEF cmd_p, Command, Prompt, DebugRead
<1>7. ASSUME NEW e \in Exprs, cmd_w(e)
      PROVE  BatchAlone'
  BY <1>7 DEF cmd_w, Command, Prompt, DebugRead
<1>8. ASSUME NEW no \in -1 .. NR_WP, cmd_d(no)
      PROVE  BatchAlone'
  BY <1>8 DEF cmd_d, Command, Prompt
<1>9. ASSUME NEW f \in Insts, NEW d \in Arch, exec_normal(f, d)
      PROVE  BatchAlone'
  BY <1>9 DEF exec_normal, Fetch, Concludes
<1>10. ASSUME NEW f \in Insts, NEW d \in Arch, exec_device(f, d)
      PROVE  BatchAlone'
  BY <1>10 DEF exec_device, Fetch
<1>11. ASSUME NEW f \in Insts, NEW d \in Arch, exec_invalid(f, d)
      PROVE  BatchAlone'
  BY <1>11 DEF exec_invalid, Fetch, Concludes, set_nemu_state
<1>12. ASSUME NEW f \in Insts, NEW d \in Arch, NEW ret \in {0, 1}, exec_trap(f, d, ret)
      PROVE  BatchAlone'
  BY <1>12 DEF exec_trap, Fetch, Concludes, set_nemu_state
<1>13. CASE exec_out_of_bound
  BY <1>13 DEF exec_out_of_bound
<1>14. CASE difftest_step
  BY <1>14 DEF difftest_step
<1>15. CASE check_wp
  <2>1. CASE is_batch_mode
    <3>1. Active = {}
      BY <2>1
    <3>2. UNCHANGED <<expression, verdict, is_batch_mode>> /\ phase' = "tail" /\ interfered' = interfered
      BY <1>15, <3>1 DEF check_wp
    <3>3. QED
      BY <2>1, <3>1, <3>2
  <2>2. CASE ~is_batch_mode
    BY <1>15, <2>2 DEF check_wp
  <2>3. QED
    BY <2>1, <2>2
<1>16. CASE check_wp_out_of_bound
  BY <1>16 DEF check_wp_out_of_bound
<1>17. ASSUME NEW polls \in BOOLEAN, device_update(polls)
      PROVE  BatchAlone'
  BY <1>17 DEF device_update
<1>18. CASE LeaveLoop
  BY <1>18 DEF LeaveLoop, Return, Flow, Sound, Honest, Clean, Unseen, Ended, TypeOK, States
<1>19. CASE execute_done
  BY <1>19 DEF execute_done, Return, Flow, Sound, Honest, Clean, Unseen, Ended, TypeOK, States
<1>20. CASE close_window
  BY <1>20 DEF close_window
<1>21. CASE Gone
  BY <1>21 DEF Gone
<1>22. CASE UNCHANGED vars
  BY <1>22
<1> HIDE DEF vars, harness, machine, watch, history, BatchAlone, ExitGood, Active, Clean, Unseen, Ended
<1>23. QED
  BY <1>1, <1>2, <1>3, <1>4, <1>5, <1>6, <1>7, <1>8, <1>9, <1>10, <1>11,
     <1>12, <1>13, <1>14, <1>15, <1>16, <1>17, <1>18, <1>19, <1>20, <1>21, <1>22
  DEF Next, Debugger, Guest, Loop

-----------------------------------------------------------------------------
(* The inductive invariant: types and budget, the soundness of the test,   *)
(* the recorded values, and batch mode.                                    *)
THEOREM Inductive == Spec => []IInv
<1>1. Init => IInv
  <2> SUFFICES ASSUME Init PROVE IInv
    OBVIOUS
  <2> USE ArchAssumption, PoolAssumption, ExprAssumption, BudgetAssumption DEF Init
  <2>1. TypeOK
    <3>1. is_batch_mode \in BOOLEAN /\ is_skip_ref \in BOOLEAN /\ quitEvent \in BOOLEAN
      OBVIOUS
    <3>2. cur \in [kind : Kinds, fn : Insts \cup {NULL}]
      BY DEF Idle, Kinds
    <3>3. n = 0 /\ asked = 0 /\ executed = 0 /\ dut \in Arch /\ ref \in Arch
      OBVIOUS
    <3>4. QED
      BY <3>1, <3>2, <3>3 DEF TypeOK, Phases, States
  <2>2. Budget
    BY DEF Budget
  <2>3. Active = {}
    BY DEF Active
  <2>4. Flow
    <3>1. interfered = {} /\ verdict = "none" /\ dut = ref /\ state = "STOP" /\ phase = "prompt" /\ is_skip_ref = FALSE
      OBVIOUS
    <3>2. QED
      BY <3>1 DEF Flow, Sound, Honest, Clean, Unseen, Pending, Ended
  <2>5. Watching
    BY <2>3 DEF Watching, Current, AsStart
  <2>6. BatchAlone
    BY <2>3 DEF BatchAlone, Clean
  <2>7. QED
    BY <2>1, <2>2, <2>4, <2>5, <2>6 DEF IInv
<1>2. IInv /\ [Next]_vars => IInv'
  BY TypeStep, FlowStep, WatchStep, BatchStep DEF IInv
<1>3. QED
  BY <1>1, <1>2, PTL DEF Spec

(* The types hold: n, and what a command executed, stay within a uint64_t. *)
THEOREM TypeCorrect == Spec => []TypeOK
<1>1. IInv => TypeOK
  BY DEF IInv
<1>2. QED
  BY Inductive, <1>1, PTL

(* Whatever the guest and the user do, NEMU and its reference agree before *)
(* every instruction unless a watchpoint hid the end of the program.       *)
THEOREM InSync == Spec => []StaysInSync
<1>1. IInv => StaysInSync
  BY DEF IInv, Flow, Sound, Unseen, StaysInSync, Ended
<1>2. QED
  BY Inductive, <1>1, PTL

(* An undisturbed program that ended executes no further instruction. *)
THEOREM EndFinal == Spec => []EndIsFinal
<1>1. IInv => EndIsFinal
  BY DEF IInv, Flow, Sound, Clean, EndIsFinal, Ended
<1>2. QED
  BY Inductive, <1>1, PTL

(* NEMU aborts only for an invalid instruction or a wrong result. *)
THEOREM AlarmsReal == Spec => []NoFalseAlarm
<1>1. IInv => NoFalseAlarm
  BY DEF IInv, Flow, Honest, Unseen, NoFalseAlarm
<1>2. QED
  BY Inductive, <1>1, PTL

(* A comparison is left out only for a device access or an ended program,  *)
(* or because the debugger read a device.                                  *)
THEOREM SkipsJustified == Spec => []SkipHasACause
<1>1. IInv => SkipHasACause
  BY DEF IInv, Flow, Pending, SkipHasACause
<1>2. QED
  BY Inductive, <1>1, PTL

(* A command never executes an instruction after a watched value changed. *)
THEOREM WatchpointsStop == Spec => []WatchesStop
<1>1. IInv => WatchesStop
  BY DEF IInv, Watching, Current, AsStart, WatchesStop
<1>2. QED
  BY Inductive, <1>1, PTL

(* In batch mode the exit status tells how the guest program ended. *)
THEOREM BatchStatus == Spec => []BatchVerdict
<1>1. IInv => BatchVerdict
  BY DEF IInv, BatchAlone, BatchVerdict
<1>2. QED
  BY Inductive, <1>1, PTL

(* `si N' executes at most N instructions, and exactly N when nothing else *)
(* stops it.                                                               *)
THEOREM BudgetRespected == Spec => BudgetExact
<1>1. IInv /\ [Next]_vars =>
        [(phase \in {"exec", "tail"} /\ phase' \in {"prompt", "exit"})
           => executed <= asked /\ (state = "RUNNING" => executed = asked)]_vars
  <2> SUFFICES ASSUME IInv, [Next]_vars, phase \in {"exec", "tail"},
                      phase' \in {"prompt", "exit"}
               PROVE  executed <= asked /\ (state = "RUNNING" => executed = asked)
    OBVIOUS
  <2>1. (phase = "exec" /\ n = 0) \/ (phase = "tail" /\ state # "RUNNING")
    <3> USE DEF Next, Debugger, Guest, Loop, vars, harness
    <3>1. CASE Debugger
      BY <3>1 DEF cmd_c, cmd_q, eof, batch_c, cmd_si, cmd_p, cmd_w, cmd_d, Command, Prompt
    <3>2. CASE Guest
      BY <3>2 DEF exec_normal, exec_device, exec_invalid, exec_trap, exec_out_of_bound
    <3>3. CASE Loop
      BY <3>3 DEF difftest_step, check_wp, check_wp_out_of_bound, device_update, LeaveLoop, execute_done
    <3>4. CASE close_window \/ Gone \/ UNCHANGED vars
      BY <3>4 DEF close_window, Gone
    <3>5. QED
      BY <3>1, <3>2, <3>3, <3>4
  <2>2. executed <= asked /\ executed \in Nat /\ asked \in Nat /\ (phase = "exec" => executed + n = asked)
    BY DEF IInv, TypeOK, Budget
  <2>3. QED
    BY <2>1, <2>2
<1>2. QED
  BY Inductive, <1>1, PTL DEF Spec, BudgetExact

-----------------------------------------------------------------------------
(* The build.  ObjectsCurrent is about the state in which header and       *)
(* auto.conf agree again; what is kept in between is an object's agreement *)
(* with auto.conf, which is renamed last.                                  *)

ObjectTypes ==
  /\ newer \in [Objs -> BOOLEAN]
  /\ built = [o \in Objs |-> built[o]]

(* An object that will not be compiled again agrees with auto.conf. *)
LikeAuto ==
  ~torn => \A o \in Objs : ~newer[o] => \A s \in Names \cap Refs[o] : built[o][s] = auto.line[s]

(* While autoconf is written, the objects that name a symbol with another  *)
(* value than auto.conf's will be compiled again, or the symbol is still   *)
(* to be touched.                                                          *)
Older(s) == \A o \in Objs : s \in Refs[o] => newer[o]
Announced ==
  pc \in Writing =>
    \A s \in Names : lines[s] # auto.line[s] => (pc = "touch" /\ s \in pending) \/ Older(s)

BuildInv == ObjectTypes /\ LikeAuto /\ Announced

(* Every step of the tool and of make keeps what the build relies on. *)
LEMMA BuildStep == BuildInv /\ [NextBuild]_autoVars => BuildInv'
<1> SUFFICES ASSUME BuildInv, [NextBuild]_autoVars
             PROVE  BuildInv'
  OBVIOUS
<1> USE DEF BuildInv, objects, build
<1>1. ASSUME NEW f \in [Names -> STRING], conf_touch_deps(f)
      PROVE  BuildInv'
  BY <1>1 DEF conf_touch_deps, Touched, ObjectTypes, LikeAuto, Announced, Older
<1>2. ASSUME NEW s \in pending, conf_touch_dep(s)
      PROVE  BuildInv'
  <2>1. \A o \in Objs : newer'[o] = (newer[o] \/ s \in Refs[o])
    BY <1>2 DEF conf_touch_dep
  <2>2. ObjectTypes'
    BY <1>2 DEF conf_touch_dep, ObjectTypes
  <2>3. LikeAuto'
    BY <1>2, <2>1 DEF conf_touch_dep, LikeAuto
  <2>4. Announced'
    BY <1>2, <2>1 DEF conf_touch_dep, Announced, Older, Writing
  <2>5. QED
    BY <2>2, <2>3, <2>4
<1>3. CASE rename_header
  BY <1>3 DEF rename_header, ObjectTypes, LikeAuto, Announced, Older, Writing
<1>4. ASSUME NEW next \in STRING \ Writing, rename_auto(next)
      PROVE  BuildInv'
  <2>1. \A s \in Names : lines[s] # auto.line[s] => Older(s)
    BY <1>4 DEF rename_auto, Announced, Writing
  <2>2. auto'.line = lines /\ pc' \notin Writing
    BY <1>4 DEF rename_auto, Written
  <2>3. LikeAuto'
    BY <1>4, <2>1, <2>2 DEF rename_auto, LikeAuto, Older
  <2>4. QED
    BY <1>4, <2>2, <2>3 DEF rename_auto, ObjectTypes, Announced
<1>5. CASE killed
  BY <1>5 DEF killed, ObjectTypes, LikeAuto, Announced, Writing
<1>6. ASSUME NEW o \in Objs, compile(o)
      PROVE  BuildInv'
  <2> DEFINE made == [s \in Names |-> IF s \in Refs[o] THEN header.line[s] ELSE ""]
  <2>1. /\ newer' = [newer EXCEPT ![o] = FALSE] /\ built' = [built EXCEPT ![o] = made]
        /\ pc = "idle" /\ pc' = pc /\ auto' = auto
    BY <1>6, Zenon DEF compile
  <2>2. ~torn' => ~torn /\ header = auto
    BY <1>6, Zenon DEF compile
  <2>3. \A s \in Names \cap Refs[o] : made[s] = header.line[s]
    BY Zenon
  <2> HIDE DEF made
  <2>4. ObjectTypes'
    BY <2>1 DEF ObjectTypes
  <2>5. LikeAuto'
    <3> SUFFICES ASSUME ~torn', NEW q \in Objs, ~newer'[q], NEW s \in Names \cap Refs[q]
                 PROVE  built'[q][s] = auto.line[s]
      BY <2>1 DEF LikeAuto
    <3>1. CASE q = o
      <4>1. built'[q] = made
        BY <2>1, <3>1 DEF ObjectTypes
      <4>2. QED
        BY <2>2, <2>3, <3>1, <4>1
    <3>2. CASE q # o
      <4>1. newer'[q] = newer[q] /\ built'[q] = built[q]
        BY <2>1, <3>2 DEF ObjectTypes
      <4>2. QED
        BY <2>2, <4>1 DEF LikeAuto
    <3>3. QED
      BY <3>1, <3>2
  <2>6. Announced'
    BY <2>1 DEF Announced, Writing
  <2>7. QED
    BY <2>4, <2>5, <2>6
<1>7. CASE elsewhere
  BY <1>7 DEF elsewhere, ObjectTypes, LikeAuto, Announced
<1>8. CASE UNCHANGED autoVars
  BY <1>8 DEF autoVars, ObjectTypes, LikeAuto, Announced, Older
<1>9. QED
  BY <1>1, <1>2, <1>3, <1>4, <1>5, <1>6, <1>7, <1>8 DEF NextBuild

(* Whatever is killed between touching the files and renaming auto.conf,   *)
(* no object keeps the values of an older configuration once a syncconfig  *)
(* has completed.                                                          *)
THEOREM NoObjectIsStale == SpecBuild => []ObjectsCurrent
<1>1. InitBuild => BuildInv
  <2> SUFFICES ASSUME InitBuild PROVE BuildInv
    OBVIOUS
  <2>1. pc = "idle" /\ newer = [o \in Objs |-> TRUE] /\ built = [o \in Objs |-> NoLines]
    BY DEF InitBuild
  <2>2. QED
    BY <2>1 DEF BuildInv, ObjectTypes, LikeAuto, Announced, Writing
<1>2. BuildInv => ObjectsCurrent
  BY DEF BuildInv, LikeAuto, ObjectsCurrent
<1>3. QED
  BY <1>1, <1>2, BuildStep, PTL DEF SpecBuild

=============================================================================
