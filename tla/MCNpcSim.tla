------------------------------ MODULE MCNpcSim ------------------------------
(* Images of three instructions: a device read and a branch on it before   *)
(* the trap; straight code that ends well; a branch on a device read that  *)
(* may lead to an invalid instruction.                                     *)
EXTENDS NpcSim

MCRegs == {0, 1}
MCPCs  == 0 .. 2
MCVals == {0, 1}
MCSteps == {-1, 0, 2}
Add    == [a \in Arch |-> [regs |-> 1 - a.regs, pc |-> a.pc + 1]]
Clear  == [a \in Arch |-> [regs |-> 0, pc |-> a.pc + 1]]
Branch == [a \in Arch |-> [regs |-> a.regs, pc |-> IF a.regs = 0 THEN 0 ELSE 2]]
Stay   == [a \in Arch |-> a]

I(op, f) == [op |-> op, fn |-> [a \in Arch |-> IF f[a].pc \in PCs THEN f[a] ELSE a]]
Image(a, b, c) == [p \in PCs |-> IF p = 0 THEN a ELSE IF p = 1 THEN b ELSE c]

MCPrograms ==
  { Image(I("mmio", Add), I("alu", Branch), I("ebreak", Stay)),
    Image(I("alu", Add), I("alu", Clear), I("ebreak", Stay)),
    Image(I("alu", Add), I("mmio", Branch), I("invalid", Stay)) }

A0     == [r \in Regs |-> r]
Memory == [r \in Regs |-> IF r = 1 THEN Nowhere ELSE 0]
Clock  == [r \in Regs |-> Device]
MCExprs == {A0, Memory, Clock}
=============================================================================
