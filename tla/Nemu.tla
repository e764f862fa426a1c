-------------------------------- MODULE Nemu --------------------------------
(***************************************************************************)
(* The core of NEMU: the debugger loop (sdb_mainloop and its commands),    *)
(* the execution loop (cpu_exec, execute, exec_once), the differential     *)
(* test against a reference machine (difftest_step), the watchpoints       *)
(* (check_wp) and the poll of the window events (device_update).           *)
(*                                                                         *)
(* The program is one thread.  A step of this module is one of the calls   *)
(* the loop of execute() makes, because the five values they share         *)
(* (nemu_state, is_skip_ref, the registers, the watchpoints and the SDL    *)
(* event queue) are read by one call and overwritten by the next.          *)
(*                                                                         *)
(* The registers the differential test compares (gpr, csr, pc) are one     *)
(* value of Arch; an instruction is a function on Arch that the reference  *)
(* applies, and NEMU produces the value of that function or, when its      *)
(* implementation of the instruction is wrong, another one.                *)
(***************************************************************************)
EXTENDS Integers

CONSTANTS
  Arch,        \* register states, as far as the differential test sees them
  Insts,       \* instructions: functions on Arch
  NR_WP,       \* entries of the watchpoint pool
  Exprs,       \* debugger expressions: functions on Arch, see Eval
  Vals,        \* the values of expressions
  Device,      \* the expression reads a device register
  Nowhere,     \* the expression reads an address that nothing answers
  NULL,        \* "no expression": the watchpoint is in the free list
  Batch,       \* values is_batch_mode may have (subset of BOOLEAN)
  Steps,       \* arguments of `si'
  UINT64_MAX   \* the largest value of the instruction budget n

ASSUME ArchAssumption ==
  /\ Arch # {}
  /\ Insts \subseteq [Arch -> Arch]

ASSUME PoolAssumption == NR_WP \in Nat \ {0}

ASSUME ExprAssumption ==
  /\ Exprs \subseteq [Arch -> Vals \cup {Device, Nowhere}]
  /\ Device \notin Vals /\ Nowhere \notin Vals /\ Device # Nowhere
  /\ NULL \notin Exprs /\ NULL \notin Vals
  /\ Batch \subseteq BOOLEAN

ASSUME BudgetAssumption ==
  /\ UINT64_MAX \in Nat \ {0}
  /\ Steps \subseteq -UINT64_MAX .. UINT64_MAX

VARIABLES
  phase,        \* where the thread is: see Phases
  is_batch_mode,
  state,        \* nemu_state.state
  halt_ret,     \* nemu_state.halt_ret
  n,            \* instructions cpu_exec may still execute
  is_skip_ref,  \* do not compare the current instruction
  dut,          \* NEMU's registers
  ref,          \* the reference's registers
  expression,   \* expression[w]: what watchpoint w watches, or NULL
  value,        \* value[w]: the value it had when it was last evaluated
  quitEvent,    \* an SDL_QUIT waits in the event queue
  cur,          \* the instruction executed last: its kind and its function
  verdict,      \* history: how the guest program really ended
  interfered,   \* history: how the debugger disturbed the run
  asked,        \* history: the budget the running command was given
  executed,     \* history: instructions executed by the running command
  start         \* history: the watched values when the command was given

harness == <<phase, is_batch_mode, n, quitEvent>>
machine == <<state, halt_ret, is_skip_ref, dut, ref>>
watch   == <<expression, value>>
history == <<cur, verdict, interfered, asked, executed, start>>
vars    == <<harness, machine, watch, history>>

States == {"RUNNING", "STOP", "END", "ABORT", "QUIT"}
Ended  == {"END", "ABORT"}
Phases == {"prompt", "exec", "difftest", "watch", "tail", "exit", "dead"}
Kinds  == {"none", "normal", "device", "trap", "invalid"}
WP     == 0 .. NR_WP - 1
Active == {w \in WP : expression[w] # NULL}

(* Faulty variant: the argument keeps its sign. *)
ToUint64_signed(N) == N

(***************************************************************************)
(* uint64_t n = N: what becomes of the int argument of `si', or of -1.     *)
(***************************************************************************)
ToUint64(N) == IF N < 0 THEN N + UINT64_MAX + 1 ELSE N

(***************************************************************************)
(* expr() on a debugger expression: the values it may return when NEMU's   *)
(* registers are r.  It may name registers only, or dereference an address *)
(* they hold; a device register reads as anything, and a read that neither *)
(* memory nor a device answers panics.                                     *)
(***************************************************************************)
Eval(e, r) == IF e[r] = Device THEN Vals ELSE {e[r]} \ {Nowhere}

(* The instruction executed last when no command runs. *)
Idle == [kind |-> "none", fn |-> NULL]

(* main.c's return value: 0 when the run counts as good. *)
ExitGood == (state = "END" /\ halt_ret = 0) \/ state = "QUIT"

-----------------------------------------------------------------------------
Init ==
  /\ is_batch_mode \in Batch
  /\ phase = "prompt" /\ n = 0 /\ quitEvent = FALSE
  /\ state = "STOP" /\ halt_ret = 0 /\ is_skip_ref = FALSE
  /\ dut \in Arch /\ ref = dut
  /\ expression = [w \in WP |-> NULL]
  /\ value = [w \in WP |-> NULL]
  /\ cur = Idle
  /\ verdict = "none" /\ interfered = {}
  /\ asked = 0 /\ executed = 0 /\ start = [w \in WP |-> NULL]

(***************************************************************************)
(* Debugger commands.  sdb_mainloop clears the SDL event queue before it   *)
(* calls the handler of a command; in batch mode it calls cmd_c, and       *)
(* nothing else, without clearing it.                                      *)
(***************************************************************************)
Prompt == phase = "prompt"

Command == Prompt /\ ~is_batch_mode /\ quitEvent' = FALSE

(* The head of cpu_exec: an ended program is not resumed. *)
cpu_exec(budget) ==
  /\ state' = IF state \in Ended THEN state ELSE "RUNNING"
  /\ IF state \in Ended
       THEN /\ phase' = IF is_batch_mode THEN "exit" ELSE "prompt"
            /\ UNCHANGED <<n, asked, executed, start>>
       ELSE /\ phase' = "exec"
            /\ n' = budget /\ asked' = budget /\ executed' = 0 /\ start' = value
  /\ UNCHANGED <<is_batch_mode, halt_ret, is_skip_ref, dut, ref>>
  /\ UNCHANGED <<watch, cur, verdict, interfered>>

cmd_c == Command /\ cpu_exec(ToUint64(-1))

cmd_si(N) == Command /\ cpu_exec(ToUint64(N))

batch_c == Prompt /\ is_batch_mode /\ cpu_exec(ToUint64(-1)) /\ UNCHANGED quitEvent

cmd_q ==
  /\ Command
  /\ state' = "QUIT" /\ phase' = "exit"
  /\ UNCHANGED <<is_batch_mode, n, halt_ret, is_skip_ref, dut, ref, watch, history>>

(* A debugger read of a device register goes through the same mmio_read    *)
(* as the guest's loads, which calls difftest_skip_ref.                    *)
DebugRead(isDevice) ==
  /\ is_skip_ref' = (is_skip_ref \/ isDevice)
  /\ interfered' = interfered \cup (IF isDevice THEN {"mmio"} ELSE {})

(* `p' and `x': evaluate an expression, read memory. *)
cmd_p(e) ==
  /\ Command
  /\ phase' = IF e[dut] = Nowhere THEN "dead" ELSE phase
  /\ DebugRead(e[dut] = Device)
  /\ UNCHANGED <<is_batch_mode, n, state, halt_ret, dut, ref, watch>>
  /\ UNCHANGED <<cur, verdict, asked, executed, start>>

cmd_w(e) ==
  /\ Command
  /\ DebugRead(e[dut] = Device)
  /\ IF Active = WP \/ e[dut] = Nowhere
       THEN phase' = "dead" /\ UNCHANGED watch
       ELSE \E w \in WP \ Active, v \in Eval(e, dut) :
              /\ expression' = [expression EXCEPT ![w] = e]
              /\ value' = [value EXCEPT ![w] = v]
              /\ UNCHANGED phase
  /\ UNCHANGED <<is_batch_mode, n, state, halt_ret, dut, ref>>
  /\ UNCHANGED <<cur, verdict, asked, executed, start>>

(* A freed entry's value is not read again before add_wp writes it. *)
cmd_d(no) ==
  /\ Command
  /\ phase' = IF no >= NR_WP THEN "dead" ELSE phase
  /\ expression' = [w \in WP |-> IF w = no THEN NULL ELSE expression[w]]
  /\ value' = [w \in WP |-> IF w = no THEN NULL ELSE value[w]]
  /\ UNCHANGED <<is_batch_mode, n, machine, history>>

(* End of input at the prompt ends the loop. *)
eof ==
  /\ Prompt /\ ~is_batch_mode
  /\ phase' = "exit"
  /\ UNCHANGED <<is_batch_mode, n, quitEvent, machine, watch, history>>

-----------------------------------------------------------------------------
(***************************************************************************)
(* One iteration of execute(): exec_once, then difftest_step, check_wp and *)
(* the tail of the loop.                                                   *)
(***************************************************************************)
Fetch(kind, f) ==
  /\ phase = "exec" /\ n > 0
  /\ cur' = [kind |-> kind, fn |-> f]
  /\ executed' = executed + 1

(* History only: the first thing that ends the guest program. *)
Concludes(v) == verdict' = IF verdict = "none" THEN v ELSE verdict

(* An instruction the reference can follow; d is what NEMU makes of it. *)
exec_normal(f, d) ==
  /\ Fetch("normal", f)
  /\ phase' = "difftest" /\ dut' = d
  /\ Concludes(IF d = f[dut] THEN "none" ELSE "diverged")
  /\ UNCHANGED <<is_batch_mode, n, quitEvent, state, halt_ret, is_skip_ref, ref>>
  /\ UNCHANGED <<watch, interfered, asked, start>>

(* A load or store to a device: any result, and difftest_skip_ref. *)
exec_device(f, d) ==
  /\ Fetch("device", f)
  /\ phase' = "difftest" /\ dut' = d /\ is_skip_ref' = TRUE
  /\ UNCHANGED <<is_batch_mode, n, quitEvent, state, halt_ret, ref>>
  /\ UNCHANGED <<watch, verdict, interfered, asked, start>>

(* Faulty variant: the reference is not told to skip the last instruction. *)
set_nemu_state_compared(s, ret) ==
  /\ state' = s /\ halt_ret' = ret /\ UNCHANGED is_skip_ref

(* set_nemu_state, from ebreak (NEMUTRAP) and from invalid_inst. *)
set_nemu_state(s, ret) ==
  /\ state' = s /\ halt_ret' = ret /\ is_skip_ref' = TRUE

exec_trap(f, d, ret) ==
  /\ Fetch("trap", f)
  /\ phase' = "difftest" /\ dut' = d
  /\ set_nemu_state("END", ret)
  /\ Concludes(IF ret = 0 THEN "good" ELSE "bad")
  /\ UNCHANGED <<is_batch_mode, n, quitEvent, ref, watch, interfered, asked, start>>

exec_invalid(f, d) ==
  /\ Fetch("invalid", f)
  /\ phase' = "difftest" /\ dut' = d
  /\ set_nemu_state("ABORT", -1)
  /\ Concludes("invalid")
  /\ UNCHANGED <<is_batch_mode, n, quitEvent, ref, watch, interfered, asked, start>>

(* A load, store or fetch outside of memory and devices panics. *)
exec_out_of_bound ==
  /\ phase = "exec" /\ n > 0
  /\ phase' = "dead"
  /\ UNCHANGED <<is_batch_mode, n, quitEvent, machine, watch, history>>

(* Faulty variants: the skipped reference keeps its old registers; a       *)
(* mismatch is reported but does not abort; the skip is never withdrawn.   *)
difftest_step_nocopy ==
  /\ phase = "difftest"
  /\ phase' = "watch"
  /\ is_skip_ref' = FALSE
  /\ ref' = IF is_skip_ref THEN ref ELSE cur.fn[ref]
  /\ state' = IF is_skip_ref \/ cur.fn[ref] = dut THEN state ELSE "ABORT"
  /\ UNCHANGED <<is_batch_mode, n, quitEvent, halt_ret, dut, watch, history>>

difftest_step_noabort ==
  /\ phase = "difftest"
  /\ phase' = "watch"
  /\ is_skip_ref' = FALSE
  /\ ref' = dut
  /\ UNCHANGED <<is_batch_mode, n, quitEvent, state, halt_ret, dut, watch, history>>

(***************************************************************************)
(* difftest_step.  difftest_skip_dut has no caller, so skip_dut_nr_inst    *)
(* stays 0 and its branch is never taken.                                  *)
(***************************************************************************)
difftest_step ==
  /\ phase = "difftest"
  /\ phase' = "watch"
  /\ is_skip_ref' = FALSE
  /\ IF is_skip_ref
       THEN ref' = dut /\ UNCHANGED state
       ELSE /\ ref' = cur.fn[ref]
            /\ state' = IF cur.fn[ref] = dut THEN state ELSE "ABORT"
  /\ UNCHANGED <<is_batch_mode, n, quitEvent, halt_ret, dut, watch, history>>

(* Faulty variant: stops only when every watchpoint changed. *)
check_wp_all ==
  /\ phase = "watch"
  /\ \E new \in [Active -> Vals] :
       LET hit    == Active # {} /\ \A w \in Active : new[w] # value[w]
           device == \E w \in Active : expression[w][dut] = Device
       IN  /\ \A w \in Active : new[w] \in Eval(expression[w], dut)
           /\ phase' = "tail"
           /\ value' = [w \in WP |-> IF w \in Active THEN new[w] ELSE value[w]]
           /\ state' = IF hit THEN "STOP" ELSE state
           /\ is_skip_ref' = (is_skip_ref \/ device)
           /\ interfered' = interfered
                \cup (IF device THEN {"mmio"} ELSE {})
                \cup (IF hit /\ state \in Ended THEN {"watch"} ELSE {})
  /\ UNCHANGED <<is_batch_mode, n, quitEvent, halt_ret, dut, ref, expression>>
  /\ UNCHANGED <<cur, verdict, asked, executed, start>>

(***************************************************************************)
(* check_wp: every watchpoint is evaluated again; one that changed keeps   *)
(* its new value and stops the machine, whatever its state was.            *)
(***************************************************************************)
check_wp ==
  /\ phase = "watch"
  /\ \E new \in [Active -> Vals] :
       LET hit    == \E w \in Active : new[w] # value[w]
           device == \E w \in Active : expression[w][dut] = Device
       IN  /\ \A w \in Active : new[w] \in Eval(expression[w], dut)
           /\ phase' = "tail"
           /\ value' = [w \in WP |-> IF w \in Active THEN new[w] ELSE value[w]]
           /\ state' = IF hit THEN "STOP" ELSE state
           /\ is_skip_ref' = (is_skip_ref \/ device)
           /\ interfered' = interfered
                \cup (IF device THEN {"mmio"} ELSE {})
                \cup (IF hit /\ state \in Ended THEN {"watch"} ELSE {})
  /\ UNCHANGED <<is_batch_mode, n, quitEvent, halt_ret, dut, ref, expression>>
  /\ UNCHANGED <<cur, verdict, asked, executed, start>>

(* A watched address has left memory: paddr_read panics. *)
check_wp_out_of_bound ==
  /\ phase = "watch"
  /\ \E w \in Active : expression[w][dut] = Nowhere
  /\ phase' = "dead"
  /\ UNCHANGED <<is_batch_mode, n, quitEvent, machine, watch, history>>

(* No command is running: n is gone, and so is what is recorded of it. *)
Forget ==
  /\ n' = 0 /\ asked' = 0 /\ executed' = 0 /\ cur' = Idle
  /\ start' = [w \in WP |-> NULL]

(* Faulty variant: batch mode goes back to the prompt. *)
Return_prompt(s) ==
  /\ state' = IF s = "RUNNING" THEN "STOP" ELSE s
  /\ phase' = "prompt"
  /\ Forget
  /\ UNCHANGED <<is_batch_mode, halt_ret, is_skip_ref, dut, ref, quitEvent>>
  /\ UNCHANGED <<watch, verdict, interfered>>

(* After the loop: what cpu_exec does with the state, and back to the      *)
(* debugger, which in batch mode returns to main.                          *)
Return(s) ==
  /\ state' = IF s = "RUNNING" THEN "STOP" ELSE s
  /\ phase' = IF is_batch_mode THEN "exit" ELSE "prompt"
  /\ Forget
  /\ UNCHANGED <<is_batch_mode, halt_ret, is_skip_ref, dut, ref, quitEvent>>
  /\ UNCHANGED <<watch, verdict, interfered>>

(* The tail of the loop: leave it when the state changed, else             *)
(* device_update; within 1/TIMER_HZ s of its last poll that does nothing   *)
(* (polls = FALSE).  The faulty variant forgets to test the state.         *)
LeaveLoop_early == phase = "tail" /\ Return(state)

LeaveLoop == phase = "tail" /\ state # "RUNNING" /\ Return(state)

device_update(polls) ==
  /\ phase = "tail" /\ state = "RUNNING"
  /\ state' = IF polls /\ quitEvent THEN "QUIT" ELSE state
  /\ quitEvent' = (quitEvent /\ ~polls)
  /\ n' = n - 1
  /\ phase' = "exec"
  /\ UNCHANGED <<is_batch_mode, halt_ret, is_skip_ref, dut, ref, watch, history>>

(* The budget is spent: `for (; n > 0; n --)'. *)
execute_done == phase = "exec" /\ n = 0 /\ Return(state)

-----------------------------------------------------------------------------
(* The user closes NEMU's window. *)
close_window ==
  /\ phase \notin {"exit", "dead"}
  /\ quitEvent' = TRUE
  /\ UNCHANGED <<phase, is_batch_mode, n, machine, watch, history>>

(* The process is gone. *)
Gone == phase \in {"exit", "dead"} /\ UNCHANGED vars

Debugger ==
  \/ cmd_c \/ cmd_q \/ eof \/ batch_c
  \/ \E N \in Steps : cmd_si(N)
  \/ \E e \in Exprs : cmd_p(e) \/ cmd_w(e)
  \/ \E no \in -1 .. NR_WP : cmd_d(no)

Guest ==
  \/ \E f \in Insts, d \in Arch :
       \/ exec_normal(f, d) \/ exec_device(f, d) \/ exec_invalid(f, d)
       \/ \E ret \in {0, 1} : exec_trap(f, d, ret)
  \/ exec_out_of_bound

Loop ==
  \/ difftest_step
  \/ check_wp \/ check_wp_out_of_bound
  \/ \E polls \in BOOLEAN : device_update(polls)
  \/ LeaveLoop \/ execute_done

Next == Debugger \/ Guest \/ Loop \/ close_window \/ Gone

(* The loop runs whenever it can; the user need never type anything. *)
Fairness == WF_vars(Guest \/ Loop) /\ WF_vars(batch_c)

Spec == Init /\ [][Next]_vars /\ Fairness
-----------------------------------------------------------------------------
TypeOK ==
  /\ phase \in Phases /\ is_batch_mode \in BOOLEAN
  /\ state \in States /\ halt_ret \in {-1, 0, 1}
  /\ n \in 0 .. UINT64_MAX /\ asked \in 0 .. UINT64_MAX /\ executed \in 0 .. UINT64_MAX
  /\ is_skip_ref \in BOOLEAN /\ quitEvent \in BOOLEAN
  /\ dut \in Arch /\ ref \in Arch
  /\ expression \in [WP -> Exprs \cup {NULL}]
  /\ value \in [WP -> Vals \cup {NULL}] /\ start \in [WP -> Vals \cup {NULL}]
  /\ cur \in [kind : Kinds, fn : Insts \cup {NULL}]
  /\ phase \in {"difftest", "watch", "tail"} => cur.fn \in Insts
  /\ verdict \in {"none", "good", "bad", "invalid", "diverged"}
  /\ interfered \in SUBSET {"mmio", "watch"}

(***************************************************************************)
(* Completeness of the differential test.  When the loop is about to       *)
(* execute an instruction, NEMU and the reference have the same registers, *)
(* except after a watchpoint hit has overwritten an END or ABORT.          *)
(***************************************************************************)
StaysInSync == phase = "exec" /\ "watch" \notin interfered => dut = ref

(***************************************************************************)
(* No instruction is executed after the program has ended by a trap, an    *)
(* invalid instruction or a wrong result, unless the debugger disturbed    *)
(* the run (a device read by the debugger, or a watchpoint hit on the very *)
(* instruction that ended it).                                             *)
(***************************************************************************)
EndIsFinal == phase = "exec" /\ interfered = {} => verdict = "none"

(***************************************************************************)
(* Soundness of the differential test: NEMU aborts only because an         *)
(* instruction was invalid or its result wrong.                            *)
(***************************************************************************)
NoFalseAlarm ==
  state = "ABORT" => verdict \in {"invalid", "diverged"} \/ "watch" \in interfered

(***************************************************************************)
(* difftest_step leaves out the comparison only for an instruction that    *)
(* used a device or ended the program, unless the debugger read a device.  *)
(***************************************************************************)
SkipHasACause ==
  phase = "difftest" /\ is_skip_ref => cur.kind # "normal" \/ "mmio" \in interfered

(***************************************************************************)
(* A command goes on only while every watched expression has the value it  *)
(* had when the command was given.                                         *)
(***************************************************************************)
WatchesStop ==
  phase = "exec" => \A w \in Active : start[w] \in Eval(expression[w], dut)

(***************************************************************************)
(* `si N' never executes more than N instructions, and a command that      *)
(* stops for no other reason has executed exactly N.                       *)
(***************************************************************************)
BudgetExact ==
  [][(phase \in {"exec", "tail"} /\ phase' \in {"prompt", "exit"})
       => executed <= asked /\ (state = "RUNNING" => executed = asked)]_vars

(***************************************************************************)
(* In batch mode the exit status tells how the guest ended: good only if   *)
(* no bad trap, invalid instruction or wrong result occurred, and good     *)
(* whenever the program hit its good trap.                                 *)
(***************************************************************************)
BatchVerdict ==
  is_batch_mode /\ phase = "exit" =>
    /\ ExitGood => verdict \in {"none", "good"}
    /\ verdict = "good" => ExitGood

(***************************************************************************)
(* Every command returns to the prompt or ends the process; in batch mode  *)
(* the process ends.                                                       *)
(***************************************************************************)
CommandEnds ==
  /\ (phase \in {"exec", "difftest", "watch", "tail"}) ~> (phase \in {"prompt", "exit", "dead"})
  /\ is_batch_mode ~> (phase \in {"exit", "dead"})

=============================================================================
