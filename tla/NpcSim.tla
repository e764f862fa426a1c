------------------------------- MODULE NpcSim -------------------------------
(***************************************************************************)
(* The simulator of the NPC processor core: the debugger loop of sdb.cpp,  *)
(* sim_exec and exec_once, the DPI-C functions the core calls (dpic.cpp),  *)
(* the differential test against NEMU (difftest.cpp) and the exit status.  *)
(*                                                                         *)
(* The core itself is generated Verilog and is not in the repository: the  *)
(* registers and the pc it displays and the addresses it loads from and    *)
(* stores to may be anything; it recognises an ebreak and an invalid       *)
(* instruction.  An instruction of the image is an operation ("mmio" if it *)
(* is to access a device) and a function on the register file, of which a0 *)
(* is what matters, and pc; the reference, NEMU as a library, applies the  *)
(* function of the instruction at its own pc.                              *)
(***************************************************************************)
EXTENDS Integers

CONSTANTS
  Regs,         \* register files, by the value of a0
  PCs,          \* addresses of instructions
  Programs,     \* images: functions from PCs to instructions
  NR_WP,        \* entries of the watchpoint pool
  Exprs,        \* debugger expressions: functions on Regs, see Eval
  Vals,         \* the values of expressions
  Device,       \* the expression reads the RTC
  Nowhere,      \* the expression reads an address that panics
  NULL,         \* the watchpoint is in the free list
  Batch,        \* values is_batch_mode may have (subset of BOOLEAN)
  Steps,        \* arguments of `si'
  UINT64_MAX    \* the largest value of the instruction budget n

Arch == [regs : Regs, pc : PCs]
Ops  == {"alu", "mmio", "ebreak", "invalid"}
WP   == 0 .. NR_WP - 1

ASSUME ImageAssumption ==
  /\ 0 \in Regs /\ Regs \subseteq Nat /\ 0 \in PCs
  /\ Programs \subseteq [PCs -> [op : Ops, fn : [Arch -> Arch]]]

ASSUME DebugAssumption ==
  /\ NR_WP \in Nat \ {0}
  /\ Exprs \subseteq [Regs -> Vals \cup {Device, Nowhere}]
  /\ NULL \notin Exprs /\ NULL \notin Vals
  /\ Batch \subseteq BOOLEAN
  /\ UINT64_MAX \in Nat \ {0}
  /\ Steps \subseteq -UINT64_MAX .. UINT64_MAX

VARIABLES
  phase,        \* where the thread is
  is_batch_mode,
  image,        \* the program in memory
  state,        \* sim_state.state
  halt_ret,     \* sim_state.halt_ret
  n,            \* instructions sim_exec may still execute
  is_skip_ref,
  core,         \* what the core last displayed of its registers
  ref,          \* NEMU's registers
  refOver,      \* NEMU has met a trap and executes nothing more
  expression, value,   \* the watchpoints
  quitEvent,    \* an SDL_QUIT waits
  verdict,      \* history: the first thing that ended the program or went wrong
  asked, executed,  \* history: budget of the running command, instructions so far
  poked         \* history: the debugger read a device since the last instruction

machine == <<state, halt_ret, is_skip_ref, core, ref, refOver>>
watch   == <<expression, value>>
history == <<verdict, asked, executed, poked>>
vars    == <<phase, is_batch_mode, image, n, quitEvent, machine, watch, history>>

Active == {w \in WP : expression[w] # NULL}
Ended  == {"END", "ABORT"}
Verdicts ==
  {"none", "good", "bad", "invalid", "wrong_registers", "wrong_access", "wrong_pc"}

(* Faulty variant: the argument keeps its sign. *)
ToUint64_signed(N) == N

(* uint64_t n: what becomes of the int argument of `si', or of -1. *)
ToUint64(N) == IF N < 0 THEN N + UINT64_MAX + 1 ELSE N

(* expr() when the registers are r; the RTC reads as anything. *)
Eval(e, r) == IF e[r] = Device THEN Vals ELSE {e[r]} \ {Nowhere}

(* The return value of main is 0. *)
ExitGood == state \in {"END", "QUIT"} /\ halt_ret = 0

(* monitor_init and sim_init: the reference gets the core's registers. *)
Init ==
  /\ phase = "prompt" /\ is_batch_mode \in Batch /\ image \in Programs
  /\ state = "STOP" /\ halt_ret = 1 /\ n = 0
  /\ core = [regs |-> 0, pc |-> 0] /\ ref = core
  /\ is_skip_ref = FALSE /\ refOver = FALSE
  /\ expression = [w \in WP |-> NULL] /\ value = [w \in WP |-> NULL]
  /\ quitEvent = FALSE
  /\ verdict = "none" /\ asked = 0 /\ executed = 0 /\ poked = FALSE

-----------------------------------------------------------------------------
Command == phase = "prompt" /\ ~is_batch_mode

sim_exec(budget) ==
  /\ IF state \in Ended
       THEN /\ phase' = IF is_batch_mode THEN "exit" ELSE "prompt"
            /\ UNCHANGED <<state, n, asked, executed>>
       ELSE /\ phase' = "exec" /\ state' = "RUNNING"
            /\ n' = budget /\ asked' = budget /\ executed' = 0
  /\ UNCHANGED <<is_batch_mode, image, quitEvent, halt_ret, is_skip_ref>>
  /\ UNCHANGED <<core, ref, refOver, watch, verdict, poked>>

cmd_c == Command /\ sim_exec(ToUint64(-1))

cmd_si(N) == Command /\ sim_exec(ToUint64(N))

batch_c == phase = "prompt" /\ is_batch_mode /\ sim_exec(ToUint64(-1))

cmd_q ==
  /\ Command
  /\ state' = "QUIT" /\ phase' = "exit"
  /\ UNCHANGED <<is_batch_mode, image, n, quitEvent, halt_ret, is_skip_ref>>
  /\ UNCHANGED <<core, ref, refOver, watch, history>>

eof ==
  /\ Command
  /\ phase' = "exit"
  /\ UNCHANGED <<is_batch_mode, image, n, quitEvent, machine, watch, history>>

(* A load of the debugger that finds the map of a device asks for a skip   *)
(* too (find_mapid_by_addr).                                               *)
Load(e) ==
  /\ is_skip_ref' = (is_skip_ref \/ e[core.regs] = Device)
  /\ poked' = (poked \/ e[core.regs] = Device)
  /\ UNCHANGED <<state, halt_ret, core, ref, refOver, verdict, asked, executed>>

(* `p' and `x'. *)
cmd_p(e) ==
  /\ Command /\ Load(e)
  /\ phase' = IF e[core.regs] = Nowhere THEN "dead" ELSE phase
  /\ UNCHANGED <<is_batch_mode, image, n, quitEvent, watch>>

cmd_w(e) ==
  /\ Command /\ Load(e)
  /\ IF Active = WP \/ e[core.regs] = Nowhere
       THEN phase' = "dead" /\ UNCHANGED watch
       ELSE \E w \in WP \ Active, v \in Eval(e, core.regs) :
              /\ expression' = [expression EXCEPT ![w] = e]
              /\ value' = [value EXCEPT ![w] = v]
              /\ UNCHANGED phase
  /\ UNCHANGED <<is_batch_mode, image, n, quitEvent>>

cmd_d(no) ==
  /\ Command
  /\ phase' = IF no >= NR_WP THEN "dead" ELSE phase
  /\ expression' = [w \in WP |-> IF w = no THEN NULL ELSE expression[w]]
  /\ value' = [w \in WP |-> IF w = no THEN NULL ELSE value[w]]
  /\ UNCHANGED <<is_batch_mode, image, n, quitEvent, machine, history>>

-----------------------------------------------------------------------------
(***************************************************************************)
(* exec_once: the core executes the instruction at its pc and displays its *)
(* registers, d.  Then difftest_step and the rest of sim_exec's loop.      *)
(* mem_read and mem_write go by the address the core computes: the serial  *)
(* port and the RTC are touched by the instructions that are to access     *)
(* them or, when an address is wrong, by any other.                        *)
(***************************************************************************)
Inst  == image[core.pc]
Right == Inst.fn[core]

Fetch(op, d, touches) ==
  /\ phase = "exec" /\ n > 0 /\ Inst.op = op
  /\ phase' = "difftest" /\ core' = d /\ executed' = executed + 1
  /\ is_skip_ref' = (is_skip_ref \/ touches) /\ poked' = FALSE
  /\ UNCHANGED <<is_batch_mode, image, n, quitEvent, ref, refOver, watch, asked>>

(* History only: the first conclusion stands. *)
Concludes(v) == verdict' = IF verdict = "none" THEN v ELSE verdict

(* History only: nobody asked difftest_step to take over the core's        *)
(* registers and pc without a look at them.                                *)
Compared(touches) == ~touches /\ ~poked

exec_alu(d, touches) ==
  /\ Fetch("alu", d, touches)
  /\ Concludes(IF ~Compared(touches) THEN "none"
               ELSE IF d.regs # Right.regs THEN "wrong_registers"
               ELSE IF d.pc # Right.pc THEN "wrong_pc" ELSE "none")
  /\ UNCHANGED <<state, halt_ret>>

(* The device returns any value, and the core may miss it. *)
mem_access(d, touches) ==
  /\ Fetch("mmio", d, touches)
  /\ Concludes(IF Compared(touches) THEN "wrong_access" ELSE "none")
  /\ UNCHANGED <<state, halt_ret>>

(* The exit code of the program is in a0; halt_ret is 0 all the same. *)
ebreak_exit(d, touches) ==
  /\ Fetch("ebreak", d, touches)
  /\ state' = "END" /\ halt_ret' = 0
  /\ Concludes(IF Compared(touches) /\ d.regs # Right.regs THEN "wrong_registers"
               ELSE IF core.regs = 0 THEN "good" ELSE "bad")

inst_invalid(d, touches) ==
  /\ Fetch("invalid", d, touches)
  /\ state' = "ABORT" /\ halt_ret' = 1
  /\ Concludes("invalid")

(* A fetch, load or store outside of memory and devices panics. *)
out_of_bound ==
  /\ phase = "exec" /\ n > 0
  /\ phase' = "dead"
  /\ UNCHANGED <<is_batch_mode, image, n, quitEvent, machine, watch, history>>

-----------------------------------------------------------------------------
(* difftest_exec(1) of the library: NEMU refuses once its program ended. *)
RefNext == IF refOver THEN ref ELSE image[ref.pc].fn[ref]

(* Faulty variant: an ended program is not compared any more. *)
checkregs_running(r) ==
  state' = IF r.regs # core.regs /\ state = "RUNNING" THEN "ABORT" ELSE state

(* checkregs compares gpr and csr; its argument pc is not used. *)
checkregs(r) == state' = IF r.regs # core.regs THEN "ABORT" ELSE state

(* Faulty variants: the skipped reference gets the core's pc and keeps its *)
(* registers; the skip is not withdrawn.                                   *)
difftest_skip_pc ==
  /\ phase = "difftest" /\ is_skip_ref
  /\ phase' = "tail" /\ ref' = [ref EXCEPT !.pc = core.pc] /\ is_skip_ref' = FALSE
  /\ UNCHANGED <<is_batch_mode, image, n, quitEvent, state, halt_ret, core, refOver>>
  /\ UNCHANGED <<watch, history>>

difftest_skip_sticky ==
  /\ phase = "difftest" /\ is_skip_ref
  /\ phase' = "tail" /\ ref' = core
  /\ UNCHANGED <<is_batch_mode, image, n, quitEvent, state, halt_ret, core, refOver>>
  /\ UNCHANGED <<watch, history, is_skip_ref>>

(* difftest_step, by what it does: the skipped instruction ... *)
difftest_skip ==
  /\ phase = "difftest" /\ is_skip_ref
  /\ phase' = "tail" /\ ref' = core /\ is_skip_ref' = FALSE
  /\ UNCHANGED <<is_batch_mode, image, n, quitEvent, state, halt_ret, core, refOver>>
  /\ UNCHANGED <<watch, history>>

(* ... the compared one ... *)
difftest_compare ==
  /\ phase = "difftest" /\ ~is_skip_ref
  /\ refOver \/ image[ref.pc].op # "mmio"
  /\ phase' = "tail"
  /\ ref' = RefNext /\ checkregs(RefNext)
  /\ refOver' = (refOver \/ image[ref.pc].op \in {"ebreak", "invalid"})
  /\ UNCHANGED <<is_batch_mode, image, n, quitEvent, halt_ret, is_skip_ref, core>>
  /\ UNCHANGED <<watch, history>>

(* ... and the one at which a stray reference panics: it has no devices. *)
difftest_panic ==
  /\ phase = "difftest" /\ ~is_skip_ref
  /\ ~refOver /\ image[ref.pc].op = "mmio"
  /\ phase' = "dead"
  /\ UNCHANGED <<is_batch_mode, image, n, quitEvent, machine, watch, history>>

-----------------------------------------------------------------------------
(* The end of sim_exec, and back to the debugger or, in batch mode, main. *)
Return ==
  /\ state' = IF state = "RUNNING" THEN "STOP" ELSE state
  /\ phase' = IF is_batch_mode THEN "exit" ELSE "prompt"
  /\ n' = 0 /\ asked' = 0 /\ executed' = 0
  /\ UNCHANGED <<is_batch_mode, image, quitEvent, halt_ret, is_skip_ref>>
  /\ UNCHANGED <<core, ref, refOver, watch, verdict, poked>>

(* Faulty variant: the loop is left without a reason. *)
LeaveLoop_early == phase = "tail" /\ Return

LeaveLoop == phase = "tail" /\ state # "RUNNING" /\ Return

(* device_update polls only once in 1/TIMER_HZ s. *)
device_update(polls) ==
  /\ phase = "tail" /\ state = "RUNNING"
  /\ phase' = "exec" /\ n' = n - 1
  /\ state' = IF polls /\ quitEvent THEN "QUIT" ELSE state
  /\ quitEvent' = (quitEvent /\ ~polls)
  /\ UNCHANGED <<is_batch_mode, image, halt_ret, is_skip_ref, core, ref, refOver>>
  /\ UNCHANGED <<watch, history>>

sim_exec_done == phase = "exec" /\ n = 0 /\ Return

(* The user closes the window. *)
close_window ==
  /\ phase \notin {"exit", "dead"}
  /\ quitEvent' = TRUE
  /\ UNCHANGED <<phase, is_batch_mode, image, n, machine, watch, history>>

Gone == phase \in {"exit", "dead"} /\ UNCHANGED vars

Debugger ==
  \/ cmd_c \/ cmd_q \/ eof \/ batch_c
  \/ \E N \in Steps : cmd_si(N)
  \/ \E e \in Exprs : cmd_p(e) \/ cmd_w(e)
  \/ \E no \in -1 .. NR_WP : cmd_d(no)

Core ==
  \/ \E d \in Arch, touches \in BOOLEAN :
       \/ exec_alu(d, touches)    \/ mem_access(d, touches)
       \/ ebreak_exit(d, touches) \/ inst_invalid(d, touches)
  \/ out_of_bound

Loop ==
  \/ difftest_skip \/ difftest_compare \/ difftest_panic
  \/ \E polls \in BOOLEAN : device_update(polls)
  \/ LeaveLoop \/ sim_exec_done

Next == Debugger \/ Core \/ Loop \/ close_window \/ Gone

Spec == Init /\ [][Next]_vars
-----------------------------------------------------------------------------
TypeOK ==
  /\ phase \in {"prompt", "exec", "difftest", "tail", "exit", "dead"}
  /\ is_batch_mode \in BOOLEAN /\ image \in Programs
  /\ state \in {"RUNNING", "STOP", "END", "ABORT", "QUIT"} /\ halt_ret \in {0, 1}
  /\ n \in 0 .. UINT64_MAX /\ asked \in 0 .. UINT64_MAX /\ executed \in 0 .. UINT64_MAX
  /\ core \in Arch /\ ref \in Arch
  /\ is_skip_ref \in BOOLEAN /\ refOver \in BOOLEAN /\ quitEvent \in BOOLEAN
  /\ expression \in [WP -> Exprs \cup {NULL}] /\ value \in [WP -> Vals \cup {NULL}]
  /\ verdict \in Verdicts /\ poked \in BOOLEAN

(***************************************************************************)
(* Before every instruction the core's register file and the reference's   *)
(* are the same, whatever the core has done.                               *)
(***************************************************************************)
RegsInSync == phase = "exec" => core.regs = ref.regs

(***************************************************************************)
(* No instruction is executed after a trap, after an invalid instruction,  *)
(* after a wrong register or after a device the core missed, for as long   *)
(* as the core's jumps were right; nothing the debugger does can resume    *)
(* such a program.  The only results of which difftest_step sees nothing   *)
(* are those of an instruction during which the core itself touched a      *)
(* device, be it by a wrong address, and of the first instruction after    *)
(* the debugger read one: the skip covers that instruction and no other.   *)
(***************************************************************************)
EndIsFinal == phase = "exec" => verdict \in {"none", "wrong_pc"}

(***************************************************************************)
(* The simulation is aborted only for an invalid instruction or a wrong    *)
(* result of the core.                                                     *)
(***************************************************************************)
NoFalseAlarm ==
  state = "ABORT" => verdict \in {"invalid", "wrong_registers", "wrong_pc"}

(***************************************************************************)
(* In batch mode, and as long as the core's jumps were right, the exit     *)
(* status is good only when the program reached its ebreak, with registers *)
(* no comparison found wrong, and it is good when the program reached it   *)
(* with 0 in a0.  Of another value in a0, which sim_exec and the programs  *)
(* call a bad trap, ebreak_exit takes no notice: nothing is claimed.       *)
(***************************************************************************)
BatchStatus ==
  is_batch_mode /\ phase = "exit" /\ verdict # "wrong_pc" =>
    /\ ExitGood => verdict \in {"good", "bad"}
    /\ verdict = "good" => ExitGood

(***************************************************************************)
(* `si N' executes at most N instructions, and exactly N when nothing else *)
(* stops it.                                                               *)
(***************************************************************************)
BudgetExact ==
  [][(phase \in {"exec", "tail"} /\ phase' \in {"prompt", "exit"})
       => executed <= asked /\ (state = "RUNNING" => executed = asked)]_vars

=============================================================================
