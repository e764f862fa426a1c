------------------------------ MODULE MCDevices -------------------------------
(***************************************************************************)
(* The clock, the regions of the devices and the traces: three parts that  *)
(* share nothing.  Each behaviour of this instance is about one of them.   *)
(***************************************************************************)
EXTENDS Rtc, Sequences

CONSTANTS PageSize, IoSpaceMax, NrMap, PortMax, MBase, MSize, AddrSpace, Regions, Widths, MaxWrites,
          RingMax, Fns, Main, MaxFrames, MaxInst

VARIABLES part,
          state, mmio, pio, p_space, io_space, pmem, last, writes, spilled, outside,
          simulator, symbol, buffer, head, size, depth, addr_prev, frames, ninst, shown, ret, drift

(* io_space is whole pages (map.c:21), an access is no wider than a page,  *)
(* and memory does not wrap.  A device asks for no more than memory has.   *)
ASSUME MapAssumption ==
  /\ PageSize \in Nat \ {0} /\ IoSpaceMax \in Nat \ {0} /\ IoSpaceMax % PageSize = 0
  /\ AddrSpace \in Nat /\ MBase \in Nat /\ MSize \in Nat /\ MBase + MSize <= AddrSpace
  /\ Widths \subseteq 1..PageSize
  /\ \A r \in Regions : r.addr \in 0..(AddrSpace - 1) /\ r.len \in 1..MSize
(* The ring of instructions has slots (tracer.c:10).                       *)
ASSUME TraceAssumption == RingMax \in Nat \ {0}

(* Two regions of a page, one of them up to memory; one with room in its   *)
(* page; one that overlaps both of these; one that reaches into memory.    *)
MCRegions == {[addr |-> 0, len |-> 4], [addr |-> 4, len |-> 4], [addr |-> 5, len |-> 2], [addr |-> 12, len |-> 3],
              [addr |-> 6, len |-> 3]}
D == INSTANCE IoMaps
T == INSTANCE Tracer WITH machine <- simulator
mapVars == <<state, mmio, pio, p_space, io_space, pmem, last, writes, spilled, outside>>
traceVars == <<simulator, symbol, buffer, head, size, depth, addr_prev, frames, ninst, shown, ret, drift>>
all == <<part, vars, mapVars, traceVars>>

MCInit == /\ part \in {"clock", "maps", "trace"}
          /\ Init /\ D!Init /\ T!Init
          /\ part # "clock" => machine = "nemu"
          /\ part # "trace" => simulator = "nemu" /\ symbol = {}
MCNext == /\ UNCHANGED part
          /\ \/ part = "clock" /\ Next /\ UNCHANGED <<mapVars, traceVars>>
             \/ part = "maps" /\ D!Next /\ UNCHANGED <<vars, traceVars>>
             \/ part = "trace" /\ T!Next /\ UNCHANGED <<vars, mapVars>>
MCSpec == MCInit /\ [][MCNext]_all

(* The regions of the devices keep apart (map.c:42): see IoMaps.           *)
RegionsKeepApart == D!RegionsKeepApart
(* The traces are right (tracer.c:22, 216): see Tracer.                    *)
TracesRight == T!TracesRight
=============================================================================
