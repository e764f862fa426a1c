------------------------------- MODULE MCNemu -------------------------------
(* Small instances of Nemu.  Registers are one of the values 0 .. Top; the *)
(* instructions are "add one" and "clear".                                 *)
EXTENDS Nemu

CONSTANT Top   \* the largest register value

MCArch  == 0 .. Top
MCInsts == {[r \in MCArch |-> (r + 1) % (Top + 1)], [r \in MCArch |-> 0]}
MCVals  == 0 .. Top

MCSteps == {-1, 0, 1, 2}

(* An expression over registers; a pointer that may leave memory; one that *)
(* may come to point at a device.                                          *)
RegExpr == [r \in MCArch |-> r]
Pointer == [r \in MCArch |-> IF r = Top THEN Nowhere ELSE 0]
DevPtr  == [r \in MCArch |-> IF r = Top THEN Device ELSE 1]
MCExprs == {RegExpr, Pointer, DevPtr}
=============================================================================
