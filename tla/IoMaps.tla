------------------------------- MODULE IoMaps ---------------------------------
(***************************************************************************)
(* Physical memory and the regions of the devices, in NEMU (memory/paddr.c,*)
(* device/io/map.c, mmio.c, port-io.c) and, with the same code but no      *)
(* ports, in the NPC simulator (csrc/memory, csrc/device/io).  Devices ask *)
(* for pieces of one block of host memory while they are initialised; then *)
(* the guest reads and writes.  A byte holds the tag of the write that     *)
(* stored it.  What the callbacks of the devices do is modelled with the   *)
(* devices.                                                                *)
(***************************************************************************)
EXTENDS Integers, Sequences, FiniteSets

CONSTANTS PageSize, IoSpaceMax, NrMap, PortMax,
          MBase, MSize,  \* CONFIG_MBASE, CONFIG_MSIZE
          AddrSpace,     \* number of addresses (2^32)
          Regions,       \* what a device may ask for: [addr, len]; shorter than memory
          Widths,        \* of the guest's accesses
          MaxWrites      \* bound

VARIABLES state,     \* "init", "run" or "panic"
          mmio, pio, \* the two tables of maps
          p_space,   \* offset of the first free byte of io_space
          io_space, pmem,
          last,      \* for every address and bus, the tag last written there
          writes,
          spilled,   \* a write ran past the pages of its region
          outside    \* an access left io_space
vars == <<state, mmio, pio, p_space, io_space, pmem, last, writes, spilled, outside>>

Addrs == 0..(AddrSpace - 1)
Init == /\ state = "init" /\ mmio = <<>> /\ pio = <<>> /\ p_space = 0
        /\ io_space = [i \in 0..(IoSpaceMax - 1) |-> 0]
        /\ pmem = [i \in 0..(MSize - 1) |-> 0]
        /\ last = [b \in {"mem", "port"} |-> [a \in Addrs |-> 0]]
        /\ writes = 0 /\ spilled = FALSE /\ outside = FALSE

in_pmem(a) == (a - MBase) % AddrSpace < MSize
panic == /\ state' = "panic"
         /\ UNCHANGED <<mmio, pio, p_space, io_space, pmem, last, writes, spilled, outside>>

-----------------------------------------------------------------------------
(* Faulty variant: pieces are not rounded up to pages.                     *)
RoundUp_tight(size) == size
RoundUp(size) == ((size + PageSize - 1) \div PageSize) * PageSize
new_space(size) == p_space + RoundUp(size)
Region(r) == [low |-> r.addr, high |-> (r.addr + r.len - 1) % AddrSpace, space |-> p_space]
Overlaps(m, n) == m.low <= n.high /\ m.high >= n.low
report_mmio_overlap(m) == in_pmem(m.low) \/ in_pmem(m.high) \/ \E i \in DOMAIN mmio : Overlaps(m, mmio[i])
(* The assertion of new_space is strict: some of io_space is never given   *)
(* away.                                                                   *)
add_mmio_map(r) ==
  /\ state = "init"
  /\ IF new_space(r.len) >= IoSpaceMax \/ Len(mmio) >= NrMap \/ report_mmio_overlap(Region(r)) THEN panic
     ELSE /\ mmio' = Append(mmio, Region(r)) /\ p_space' = new_space(r.len)
          /\ UNCHANGED <<state, pio, io_space, pmem, last, writes, spilled, outside>>
(* Ports are not compared with each other.                                 *)
add_pio_map(r) ==
  /\ state = "init"
  /\ IF new_space(r.len) >= IoSpaceMax \/ Len(pio) >= NrMap \/ r.addr + r.len > PortMax THEN panic
     ELSE /\ pio' = Append(pio, Region(r)) /\ p_space' = new_space(r.len)
          /\ UNCHANGED <<state, mmio, io_space, pmem, last, writes, spilled, outside>>
init_device == /\ state = "init" /\ state' = "run"
               /\ UNCHANGED <<mmio, pio, p_space, io_space, pmem, last, writes, spilled, outside>>

-----------------------------------------------------------------------------
map_inside(m, a) == a >= m.low /\ a <= m.high
find_mapid_by_addr(maps, a) ==
  IF \E i \in DOMAIN maps : map_inside(maps[i], a)
  THEN CHOOSE i \in DOMAIN maps : map_inside(maps[i], a) /\ \A j \in 1..(i - 1) : ~map_inside(maps[j], a)
  ELSE -1
(* Where a byte of host memory is, and the write of len of them.           *)
Offset(m, a) == m.space + a - m.low
Stored(f, at, len, tag) == [i \in DOMAIN f |-> IF i >= at /\ i < at + len THEN tag ELSE f[i]]
Noted(b, a, len, high, tag) ==
  last' = [last EXCEPT ![b] = [x \in Addrs |-> IF x >= a /\ x < a + len /\ x <= high THEN tag ELSE @[x]]]
map_write(m, b, a, len, tag) ==
  /\ io_space' = Stored(io_space, Offset(m, a), len, tag)
  /\ outside' = (outside \/ Offset(m, a) + len > IoSpaceMax)
  /\ spilled' = (spilled \/ a + len - m.low > ((m.high - m.low + PageSize) \div PageSize) * PageSize)
  /\ Noted(b, a, len, m.high, tag)
  /\ UNCHANGED pmem
pmem_write(a, len, tag) ==
  /\ pmem' = Stored(pmem, a - MBase, len, tag)
  /\ spilled' = (spilled \/ a - MBase + len > MSize)
  /\ Noted("mem", a, len, MBase + MSize - 1, tag)
  /\ UNCHANGED <<io_space, outside>>
Written == writes < MaxWrites /\ writes' = writes + 1 /\ UNCHANGED <<mmio, pio, p_space>>
paddr_write(a, len) ==
  /\ state = "run"
  /\ \/ /\ in_pmem(a)
        /\ Written /\ pmem_write(a, len, writes + 1)
        /\ UNCHANGED state
     \/ /\ ~in_pmem(a) /\ find_mapid_by_addr(mmio, a) # -1
        /\ Written /\ map_write(mmio[find_mapid_by_addr(mmio, a)], "mem", a, len, writes + 1)
        /\ UNCHANGED state
     \/ /\ ~in_pmem(a) /\ find_mapid_by_addr(mmio, a) = -1
        /\ panic
pio_write(a, len) ==
  /\ state = "run" /\ a < PortMax
  /\ \/ /\ a + len - 1 < PortMax /\ find_mapid_by_addr(pio, a) # -1
        /\ Written /\ map_write(pio[find_mapid_by_addr(pio, a)], "port", a, len, writes + 1)
        /\ UNCHANGED state
     \/ /\ a + len - 1 >= PortMax \/ find_mapid_by_addr(pio, a) = -1
        /\ panic

(* What a read of one byte returns; a wider one returns such bytes.        *)
map_read(m, a) == io_space[Offset(m, a)]
paddr_read(a) == IF in_pmem(a) THEN pmem[a - MBase] ELSE map_read(mmio[find_mapid_by_addr(mmio, a)], a)
pio_read(a) == map_read(pio[find_mapid_by_addr(pio, a)], a)

Next == \/ \E r \in Regions : add_mmio_map(r) \/ add_pio_map(r)
        \/ init_device
        \/ \E a \in Addrs, len \in Widths : paddr_write(a, len) \/ pio_write(a, len)
Spec == Init /\ [][Next]_vars

-----------------------------------------------------------------------------
Apart(maps) == \A i, j \in DOMAIN maps : i # j => ~Overlaps(maps[i], maps[j])
(* Whatever regions the devices ask for, in whatever order, no access      *)
(* leaves io_space, and no access to one region changes what another holds *)
(* although check_bound (map.c:42) looks at the first byte of an access    *)
(* only: unless a write runs past the pages of its region, every byte of   *)
(* memory and of every region reads as the last access to its own region   *)
(* left it.  An address belongs to one region or to memory, never to two   *)
(* (for ports this is not checked: port-io.c:25).                          *)
RegionsKeepApart ==
  /\ ~outside
  /\ Apart(mmio)
  /\ \A a \in Addrs :
       /\ in_pmem(a) => find_mapid_by_addr(mmio, a) = -1
       /\ ~spilled /\ (in_pmem(a) \/ find_mapid_by_addr(mmio, a) # -1) => paddr_read(a) = last["mem"][a]
       /\ ~spilled /\ Apart(pio) /\ find_mapid_by_addr(pio, a) # -1 => pio_read(a) = last["port"][a]
=============================================================================
