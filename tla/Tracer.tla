-------------------------------- MODULE Tracer --------------------------------
(***************************************************************************)
(* The traces of the two simulators (nemu/src/utils/tracer.c; npc/csrc/    *)
(* monitor/tracer): a ring of the last instructions, printed when the      *)
(* simulator fails, and the indented trace of calls and returns.  An entry *)
(* is the number of its instruction.  The program is external: it calls,   *)
(* returns, and leaves a function by a jump to another one.                *)
(***************************************************************************)
EXTENDS Integers, Sequences, FiniteSets

CONSTANTS RingMax,    \* MAX_SIZE_RING_BUFFER
          Fns,        \* functions of the program
          Main,       \* the one it starts in
          MaxFrames, MaxInst

VARIABLES machine,            \* "nemu" or "npc"
          symbol,             \* functions parse_elf found
          buffer, head, size, \* the ring
          depth,
          addr_prev,          \* NPC: the jump func_check saw last
          frames,             \* the program: functions and the depth their call was printed at, 0 for none
          ninst,
          shown,              \* what print_ring_buffer printed: lines [inst, arrow]
          ret,                \* the last return that was printed: its depth and that of its call
          drift               \* the program did what the trace cannot follow
vars == <<machine, symbol, buffer, head, size, depth, addr_prev, frames, ninst, shown, ret, drift>>
ring == <<buffer, head, size>>

(* parse_elf: the functions with a symbol and a size, or none when the     *)
(* file is missing or not in ELF.                                          *)
parse_elf == SUBSET Fns
Init == /\ machine \in {"nemu", "npc"} /\ symbol \in parse_elf
        /\ buffer = [i \in 0..(RingMax - 1) |-> 0] /\ head = 0 /\ size = 0
        /\ depth = 1 /\ addr_prev = <<>>
        /\ frames = <<[fn |-> Main, at |-> 0]>> /\ ninst = 0
        /\ shown = <<>> /\ ret = <<0, 0>> /\ drift = FALSE

-----------------------------------------------------------------------------
write_ring_buffer ==
  /\ buffer' = [buffer EXCEPT ![head] = ninst + 1]
  /\ head' = (head + 1) % RingMax
  /\ size' = IF size < RingMax THEN size + 1 ELSE size
inst_trace == ninst < MaxInst /\ ninst' = ninst + 1 /\ write_ring_buffer
(* NEMU prints the newest line first, and its arrow goes to slot 0; NPC    *)
(* prints the oldest first.                                                *)
nemu_line(i) == [inst |-> buffer[(head - i) % RingMax], arrow |-> (head - i) % RingMax = 0]
npc_line(i) == [inst |-> buffer[(head - size + i - 1) % RingMax], arrow |-> i = size]
print_ring_buffer == [i \in 1..size |-> IF machine = "nemu" THEN nemu_line(i) ELSE npc_line(i)]
(* An assertion of the simulator fails, in an instruction that is not in   *)
(* the ring yet or after one that is.                                      *)
assert_fail_msg == /\ shown = <<>> /\ shown' = print_ring_buffer
                   /\ UNCHANGED <<machine, symbol, ring, depth, addr_prev, frames, ninst, ret, drift>>

-----------------------------------------------------------------------------
find_func(f) == f \in symbol
Top == frames[Len(frames)]
Under == SubSeq(frames, 1, Len(frames) - 1)
func_call_trace(d, f) == IF find_func(f) THEN d + 1 ELSE d
func_ret_trace(d, f) == IF find_func(f) THEN d - 1 ELSE d
func_trace_check(d, kind, f) == CASE kind = "call" -> func_call_trace(d, f)
                                  [] kind = "ret" -> func_ret_trace(d, f)
                                  [] kind = "jump" -> d
(* NPC: the core reports a jump at several evaluations, so a report from   *)
(* the address of the last one is dropped.                                 *)
func_check_all(d, prev, site, kind, f) == func_trace_check(d, kind, f)
func_check(d, prev, site, kind, f) == IF prev = site THEN d ELSE func_trace_check(d, kind, f)
Traced(site, kind, f) ==
  /\ depth' = IF machine = "nemu" THEN func_trace_check(depth, kind, f)
              ELSE func_check(func_check(depth, addr_prev, site, kind, f), site, site, kind, f)
  /\ addr_prev' = IF machine = "nemu" THEN addr_prev ELSE site

(* A call site is known by its function and what it calls, a return by its *)
(* function.  Two reports in a row from one address (a function that calls *)
(* itself) are taken for one.                                              *)
Lost(site) == machine = "npc" /\ addr_prev = site
Call(f) ==
  LET site == <<"call", Top.fn, f>>
  IN /\ Len(frames) < MaxFrames /\ inst_trace
     /\ Traced(site, "call", f)
     /\ frames' = Append(frames, [fn |-> f, at |-> IF find_func(f) /\ ~Lost(site) THEN depth ELSE 0])
     /\ drift' = (drift \/ Lost(site))
     /\ UNCHANGED <<machine, symbol, shown, ret>>
Return ==
  LET site == <<"ret", Top.fn>>
  IN /\ Len(frames) > 1 /\ inst_trace
     /\ Traced(site, "ret", Top.fn)
     /\ frames' = Under
     /\ ret' = IF find_func(Top.fn) /\ ~Lost(site) THEN <<depth', Top.at>> ELSE ret
     /\ drift' = (drift \/ Lost(site))
     /\ UNCHANGED <<machine, symbol, shown>>
(* A tail call: a jump with no link.  It is not traced; the function it    *)
(* reaches returns for the one it leaves.                                  *)
TailCall(f) ==
  /\ Len(frames) > 1 /\ inst_trace
  /\ Traced(<<"jump", Top.fn, f>>, "jump", f)
  /\ frames' = Append(Under, [Top EXCEPT !.fn = f])
  /\ drift' = (drift \/ find_func(f) # find_func(Top.fn))
  /\ UNCHANGED <<machine, symbol, shown, ret>>
Plain == /\ inst_trace
         /\ UNCHANGED <<machine, symbol, depth, addr_prev, frames, shown, ret, drift>>

Next == /\ shown = <<>>
        /\ \/ \E f \in Fns : Call(f) \/ TailCall(f)
           \/ Return \/ Plain \/ assert_fail_msg
Spec == Init /\ [][Next]_vars

-----------------------------------------------------------------------------
(* When the simulator fails, the ring shows the last instructions it       *)
(* traced, as many as there are slots, and on NPC the arrow is at the last *)
(* of them.  (On NEMU it is at slot 0, see tracer.c:23.)                   *)
RingRight ==
  LET n == Len(shown)
  IN shown # <<>> =>
       /\ n = IF ninst < RingMax THEN ninst ELSE RingMax
       /\ \A i \in 1..n : shown[i].inst = IF machine = "nemu" THEN ninst + 1 - i ELSE ninst - n + i
       /\ machine = "npc" => \A i \in 1..n : shown[i].arrow <=> shown[i].inst = ninst
(* Calls and returns are at the same level (tracer.c:216): as long as the  *)
(* program leaves no function by a jump to one that is traced differently, *)
(* and on NPC none calls itself, a return is printed at the depth of its   *)
(* call, however often the core reports a jump, and the depth counts the   *)
(* traced functions that are active.                                       *)
DepthRight ==
  ~drift => /\ ret[1] = ret[2]
            /\ depth = 1 + Cardinality({i \in DOMAIN frames : frames[i].at # 0})
(* The two traces are right (tracer.c:22, 216; ftrace.cpp:138).            *)
TracesRight == RingRight /\ DepthRight
=============================================================================
