--------------------------- MODULE DevicesProofs ----------------------------
(***************************************************************************)
(* Proofs about the clock (Rtc) for every word size and every speed of the *)
(* clock, about the traces (Tracer) for every length of the ring and every *)
(* program, and about the regions of the devices (IoMaps) for every page   *)
(* size and every layout that the devices may ask for.                     *)
(***************************************************************************)
EXTENDS MCDevices, FiniteSetTheorems, SequenceTheorems, WellFoundedInduction, TLAPS

(* The two halves of a time. *)
LEMMA Halves ==
  ASSUME NEW t \in 0 .. WORD * WORD - 1
  PROVE  ((t \div WORD) * WORD) + (t % WORD) = t
BY WordAssumption

(* The registers hold one time of the call under way. *)
Latched ==
  machine = "nemu" /\ phase = "low" =>
    \E t \in from .. now : high = t \div WORD /\ port0 = t % WORD

Typed ==
  /\ now \in 0 .. MaxTime /\ from \in Int
  /\ machine = "nemu" => phase \in {"ready", "low", "done"}
  /\ phase = "low" => from \in 0 .. now

IInv == Typed /\ Latched /\ UptimeIsATime

(***************************************************************************)
(* rtc_io_handler and __am_timer_uptime: on NEMU no call returns a time    *)
(* made of two.                                                            *)
(***************************************************************************)
THEOREM UptimeNeverTorn == Spec => []UptimeIsATime
<1>1. Init => IInv
  BY WordAssumption, ClockAssumption DEF Init, IInv, Typed, Latched, UptimeIsATime
<1>2. IInv /\ [Next]_vars => IInv'
  <2> SUFFICES ASSUME IInv, [Next]_vars PROVE IInv'
    OBVIOUS
  <2> USE ClockAssumption
  <2>0. now \in 0 .. MaxTime /\ MaxTime \in Int /\ now \in 0 .. WORD * WORD - 1
    BY WordAssumption DEF IInv, Typed
  <2>1. CASE tick
    <3>1. Typed'
      BY <2>0, <2>1 DEF tick, IInv, Typed, guest
    <3>2. Latched'
      BY <2>0, <2>1 DEF tick, IInv, Typed, Latched, guest, ports
    <3>3. UptimeIsATime'
      BY <2>1 DEF tick, IInv, UptimeIsATime, guest
    <3>4. QED
      BY <3>1, <3>2, <3>3 DEF IInv
  <2>2. CASE read_high
    <3>1. Typed' /\ UptimeIsATime'
      BY <2>0, <2>2 DEF read_high, IInv, Typed, UptimeIsATime
    <3>2. Latched'
      BY <2>0, <2>2 DEF read_high, rtc_io_handler, IInv, Typed, Latched
    <3>3. QED
      BY <3>1, <3>2 DEF IInv
  <2>3. CASE timer_init
    BY <2>0, <2>3 DEF timer_init, IInv, Typed, Latched, UptimeIsATime
  <2>4. CASE timer_uptime
    <3>1. Typed' /\ Latched'
      BY <2>0, <2>4 DEF timer_uptime, IInv, Typed, Latched
    <3>2. ASSUME machine = "nemu"
          PROVE  us' \in from' .. to'
      <4>1. PICK t \in from .. now : high = t \div WORD /\ port0 = t % WORD
        BY <2>4, <3>2 DEF timer_uptime, IInv, Latched
      <4>2. from \in 0 .. now /\ t \in 0 .. WORD * WORD - 1
        BY <2>0, <2>4, <4>1, WordAssumption DEF timer_uptime, IInv, Typed
      <4>3. us' = high * WORD + port0
        BY <2>4, <3>2 DEF timer_uptime, rtc_io_handler, ports
      <4>4. us' = t
        BY <4>1, <4>2, <4>3, Halves
      <4>5. QED
        BY <2>4, <4>1, <4>4 DEF timer_uptime
    <3>3. QED
      BY <2>4, <3>1, <3>2 DEF timer_uptime, IInv, UptimeIsATime
  <2>5. CASE UNCHANGED vars
    BY <2>5 DEF vars, guest, ports, IInv, Typed, Latched, UptimeIsATime
  <2>6. QED
    BY <2>1, <2>2, <2>3, <2>4, <2>5 DEF Next
<1>3. IInv => UptimeIsATime
  BY DEF IInv
<1>4. QED
  BY <1>1, <1>2, <1>3, PTL DEF Spec

-----------------------------------------------------------------------------
(* Arithmetic modulo W: what is left of a 64-bit register after a          *)
(* subtraction that wraps.                                                 *)
LEMMA DivMod ==
  ASSUME NEW W \in Nat, W > 0, NEW x \in Int
  PROVE  x % W \in 0 .. W - 1 /\ x \div W \in Int /\ x = (x \div W) * W + (x % W)
OBVIOUS

(* A multiple of W that is closer to 0 than W is 0. *)
LEMMA SmallMultiple ==
  ASSUME NEW W \in Nat, W > 0, NEW m \in Int, -W < m * W, m * W < W
  PROVE  m = 0
<1>1. m >= 1 => m * W >= W
  OBVIOUS
<1>2. m <= -1 => m * W <= -W
  OBVIOUS
<1>3. QED
  BY <1>1, <1>2

(* A number of 0 .. W - 1 is found again after any number of wraps. *)
LEMMA ModUnique ==
  ASSUME NEW W \in Nat, W > 0, NEW t \in 0 .. W - 1, NEW k \in Int
  PROVE  (t - k * W) % W = t
<1> DEFINE z == t - k * W
           q == z \div W
           r == z % W
<1>1. z \in Int
  OBVIOUS
<1> HIDE DEF z
<1>2. r \in 0 .. W - 1 /\ q \in Int /\ z = q * W + r
  BY <1>1, DivMod
<1> HIDE DEF q, r
<1>3. (q + k) * W = q * W + k * W
  BY <1>2
<1>4. (q + k) * W = t - r
  BY <1>2, <1>3 DEF z
<1>5. q + k = 0
  <2>1. q + k \in Int /\ -W < (q + k) * W /\ (q + k) * W < W
    BY <1>2, <1>4
  <2>2. QED
    BY <2>1, SmallMultiple
<1>6. (q + k) * W = 0
  BY <1>5
<1>7. QED
  BY <1>2, <1>4, <1>6 DEF r, z

(* A number of 0 .. W - 1 is its own remainder. *)
LEMMA ModSmall ==
  ASSUME NEW W \in Nat, W > 0, NEW t \in 0 .. W - 1
  PROVE  t % W = t
<1> DEFINE z == t - 0 * W
<1>1. z % W = t
  BY ModUnique
<1>2. z = t
  OBVIOUS
<1> HIDE DEF z
<1>3. QED
  BY <1>1, <1>2

(* A time has no smaller upper word than an earlier one. *)
LEMMA UpperGrows ==
  ASSUME NEW s \in Nat, NEW t \in Nat, s <= t
  PROVE  s \div WORD <= t \div WORD
<1> DEFINE a == s \div WORD
           b == t \div WORD
<1>1. PICK r \in 0 .. WORD - 1 : a \in Int /\ s = a * WORD + r
  BY WordAssumption, DivMod
<1>2. PICK q \in 0 .. WORD - 1 : b \in Int /\ t = b * WORD + q
  BY WordAssumption, DivMod
<1> HIDE DEF a, b
<1>3. ASSUME a > b PROVE FALSE
  <2>1. a * WORD >= b * WORD + WORD
    BY <1>1, <1>2, <1>3, WordAssumption
  <2>2. a * WORD \in Int /\ b * WORD \in Int
    BY <1>1, <1>2, WordAssumption
  <2>3. QED
    BY <1>1, <1>2, <2>1, <2>2, WordAssumption
<1>4. QED
  BY <1>1, <1>2, <1>3 DEF a, b

(* What the two loads of a call that began at s and ended at t make up:    *)
(* t, or less if a carry split it.                                         *)
LEMMA TwoLoads ==
  ASSUME NEW s \in Nat, NEW t \in 0 .. WORD * WORD - 1, s <= t
  PROVE  /\ (s \div WORD) * WORD + (t % WORD) \in Nat
         /\ (s \div WORD) * WORD + (t % WORD) <= t
         /\ Whole(s, t) => (s \div WORD) * WORD + (t % WORD) = t
<1> DEFINE a == s \div WORD
           b == t \div WORD
           l == t % WORD
<1>1. t \in Nat /\ WORD \in Nat /\ WORD > 0
  BY WordAssumption
<1>2. a \in Nat /\ b \in Nat /\ l \in Nat /\ a <= b
  BY <1>1, UpperGrows, DivMod
<1>3. b * WORD + l = t
  BY Halves
<1>4. Whole(s, t) => a = b
  BY DEF Whole
<1> HIDE DEF a, b, l
<1>5. a * WORD <= b * WORD /\ a * WORD \in Nat /\ b * WORD \in Nat
  BY <1>1, <1>2
<1>6. a * WORD + l \in Nat /\ a * WORD + l <= t /\ (Whole(s, t) => a * WORD + l = t)
  BY <1>2, <1>3, <1>4, <1>5
<1>7. QED
  BY <1>6 DEF a, l

(* The upper word the guest holds is that of the time the call began; what *)
(* was read at start-up is not later than the clock; and a whole call      *)
(* returned the clock less what was read at start-up.                      *)
Held ==
  /\ phase \in {"boot_low", "low"} => high = from \div WORD /\ from <= now
  /\ phase \in {"boot", "boot_low"} => last_to = -1
  /\ phase \in {"ready", "low", "done"} => boot_time <= now
  /\ last_to # -1 => last_us = last_to - boot_time
  /\ phase = "done" /\ Whole(from, to) => us = to - boot_time

Numbers ==
  /\ now \in 0 .. MaxTime /\ from \in 0 .. MaxTime /\ to \in 0 .. MaxTime
  /\ boot_time \in Nat /\ us \in Int /\ last_us \in Int /\ last_to \in Int

NpcInv == machine = "npc" => Numbers /\ Held

(***************************************************************************)
(* mem_read, __am_timer_init and __am_timer_uptime of the NPC port: calls  *)
(* that no carry split measure the time between them exactly, whether      *)
(* timer_init or calls in between were split or not.                       *)
(***************************************************************************)
THEOREM NpcUptimesAgree == Spec => []UptimesAgree
<1>1. Init => NpcInv
  BY WordAssumption, ClockAssumption DEF Init, NpcInv, Numbers, Held
<1>2. NpcInv /\ [Next]_vars => NpcInv'
  <2> SUFFICES ASSUME NpcInv, [Next]_vars, machine' = "npc" PROVE Numbers' /\ Held'
    BY DEF NpcInv
  <2>0. machine = "npc"
    BY DEF Next, tick, read_high, timer_init, timer_uptime, vars
  <2>1. Numbers /\ Held
    BY <2>0 DEF NpcInv
  <2>2. /\ now \in 0 .. WORD * WORD - 1 /\ now \in Nat /\ from \in Nat /\ to \in Nat /\ MaxTime \in Int
        /\ boot_time \in Nat /\ us \in Int /\ last_us \in Int /\ last_to \in Int
    BY <2>1, WordAssumption, ClockAssumption DEF Numbers
  <2>3. CASE tick
    <3>1. /\ now' \in 0 .. MaxTime /\ now' = now + 1
          /\ UNCHANGED <<phase, high, boot_time, us, from, to, last_us, last_to>>
      BY <2>2, <2>3 DEF tick, guest, before
    <3>2. QED
      BY <2>1, <2>2, <3>1 DEF Numbers, Held, Whole
  <2>4. CASE read_high
    <3>1. /\ from' = now /\ UNCHANGED <<now, boot_time, us, to>> /\ high' = now \div WORD
          /\ (phase = "boot" /\ phase' = "boot_low") \/ (phase \in {"ready", "done"} /\ phase' = "low")
          /\ IF phase = "done" /\ Whole(from, to) THEN last_us' = us /\ last_to' = to ELSE UNCHANGED <<last_us, last_to>>
      BY <2>0, <2>4 DEF read_high, mem_read, before
    <3>2. /\ last_us' \in Int /\ last_to' \in Int /\ (phase' = "boot_low" => last_to' = -1)
          /\ last_to' # -1 => last_us' = last_to' - boot_time
      <4>1. CASE phase = "done" /\ Whole(from, to)
        <5>1. last_us' = us /\ last_to' = to /\ phase' = "low"
          BY <3>1, <4>1
        <5>2. QED
          BY <2>1, <2>2, <4>1, <5>1 DEF Held
      <4>2. CASE ~(phase = "done" /\ Whole(from, to))
        <5>1. last_us' = last_us /\ last_to' = last_to
          BY <3>1, <4>2
        <5>2. QED
          BY <2>1, <2>2, <3>1, <5>1 DEF Held
      <4>3. QED
        BY <4>1, <4>2
    <3>3. high' = from' \div WORD /\ from' <= now'
      BY <2>2, <3>1
    <3>4. phase' \in {"boot_low", "low"} /\ (phase' = "low" => boot_time' <= now')
      BY <2>1, <3>1 DEF Held
    <3>5. Numbers'
      BY <2>1, <3>1, <3>2 DEF Numbers
    <3>6. boot_time' = boot_time
      BY <3>1
    <3>7. Held'
      BY <3>2, <3>3, <3>4, <3>6, Zenon DEF Held
    <3>8. QED
      BY <3>5, <3>7
  <2>5. CASE timer_init
    <3> DEFINE t == high * WORD + (now % WORD)
    <3>1. /\ phase = "boot_low" /\ phase' = "ready" /\ to' = now /\ boot_time' = t
          /\ UNCHANGED <<now, us, from>>
          /\ IF Whole(from, now) THEN last_us' = 0 /\ last_to' = now ELSE UNCHANGED <<last_us, last_to>>
      BY <2>5 DEF timer_init, mem_read, before
    <3>2. t \in Nat /\ t <= now /\ (Whole(from, now) => t = now) /\ last_to = -1
      <4>1. high = from \div WORD /\ from <= now /\ last_to = -1
        BY <2>1, <3>1 DEF Held
      <4>2. QED
        BY <2>2, <4>1, TwoLoads
    <3> HIDE DEF t
    <3>3. QED
      BY <2>1, <2>2, <3>1, <3>2 DEF Numbers, Held
  <2>6. CASE timer_uptime
    <3> DEFINE low == now % WORD
               t == high * WORD + low
               d == high * WORD + (low - boot_time)
               W == WORD * WORD
    <3>1. /\ UNCHANGED <<now, boot_time, from, last_us, last_to>> /\ to' = now /\ phase' = "done" /\ phase = "low"
      BY <2>6 DEF timer_uptime, before
    <3>2. us' = d % W
      <4>1. mem_read(0) = low /\ machine # "nemu"
        BY <2>0, Zenon DEF mem_read
      <4>2. us' = (high * WORD + mem_read(0) - boot_time) % (WORD * WORD)
        BY <2>6, <4>1, Zenon DEF timer_uptime
      <4>3. QED
        BY <4>1, <4>2, Zenon
    <3>3. high = from \div WORD /\ from <= now /\ boot_time <= now
      BY <2>1, <3>1 DEF Held
    <3>4. t \in Int /\ (Whole(from, now) => t = now)
      BY <2>2, <3>3, TwoLoads
    <3>5. high * WORD \in Int /\ low \in Int /\ W \in Nat /\ W > 0 /\ now < W
      <4>1. high \in Int /\ low \in Int
        BY <2>2, <3>3, DivMod, WordAssumption
      <4>2. QED
        BY <2>2, <4>1, WordAssumption
    <3> HIDE DEF low, W
    <3>6. d \in Int /\ d = t - boot_time
      BY <2>2, <3>5
    <3> HIDE DEF t, d
    <3>7. Whole(from, now) => d \in 0 .. W - 1 /\ d = now - boot_time
      BY <2>2, <3>3, <3>4, <3>5, <3>6
    <3>8. us' \in Int /\ (Whole(from, now) => us' = now - boot_time)
      BY <3>2, <3>5, <3>6, <3>7, DivMod, ModSmall
    <3>9. QED
      BY <2>1, <2>2, <3>1, <3>3, <3>8 DEF Numbers, Held, Whole
  <2>7. CASE UNCHANGED vars
    BY <2>1, <2>7 DEF vars, guest, before, Numbers, Held, Whole
  <2>8. QED
    BY <2>3, <2>4, <2>5, <2>6, <2>7 DEF Next
<1>3. NpcInv => UptimesAgree
  BY DEF NpcInv, Numbers, Held, UptimesAgree
<1>4. QED
  BY <1>1, <1>2, <1>3, PTL DEF Spec

-----------------------------------------------------------------------------
(***************************************************************************)
(* The ring of instructions.  The slot before head holds the last one, and *)
(* so on down to as many as there are.                                     *)
(***************************************************************************)
Slots == 0..(RingMax - 1)
RingInv ==
  /\ head \in Slots /\ ninst \in Nat /\ buffer \in [Slots -> Nat]
  /\ size = IF ninst < RingMax THEN ninst ELSE RingMax
  /\ \A i \in 1..size : buffer[(head - i) % RingMax] = ninst + 1 - i

(* The slots before one, and the one behind it. *)
LEMMA SlotsAround ==
  ASSUME NEW h \in Slots
  PROVE  /\ \A i \in 1..RingMax : /\ (h - i) % RingMax = IF h >= i THEN h - i ELSE h - i + RingMax
                                  /\ (h - i) % RingMax \in Slots
         /\ (h + 1) % RingMax = IF h = RingMax - 1 THEN 0 ELSE h + 1
<1> USE TraceAssumption DEF Slots
<1>1. ASSUME NEW i \in 1..RingMax
      PROVE  (h - i) % RingMax = IF h >= i THEN h - i ELSE h - i + RingMax
  <2>1. CASE h >= i
    BY <2>1
  <2>2. CASE h < i
    <3>1. h - i + RingMax \in 0..(RingMax - 1)
      BY <2>2
    <3>2. QED
      BY <2>2, <3>1
  <2>3. QED
    BY <2>1, <2>2
<1>2. (h + 1) % RingMax = IF h = RingMax - 1 THEN 0 ELSE h + 1
  OBVIOUS
<1>3. ASSUME NEW i \in 1..RingMax PROVE (h - i) % RingMax \in Slots
  BY <1>1
<1>4. QED
  BY <1>1, <1>2, <1>3

(* inst_trace: the new instruction takes the slot of the oldest.           *)
LEMMA InstTraced ==
  RingInv /\ T!inst_trace => RingInv'
<1> SUFFICES ASSUME RingInv, T!inst_trace PROVE RingInv'
  OBVIOUS
<1> USE TraceAssumption
<1>1. /\ head \in Slots /\ ninst \in Nat /\ buffer \in [Slots -> Nat]
      /\ size = IF ninst < RingMax THEN ninst ELSE RingMax
      /\ \A i \in 1..size : buffer[(head - i) % RingMax] = ninst + 1 - i
  BY DEF RingInv
<1>2. /\ ninst' = ninst + 1
      /\ buffer' = [buffer EXCEPT ![head] = ninst + 1]
      /\ head' = (head + 1) % RingMax
      /\ size' = IF size < RingMax THEN size + 1 ELSE size
  BY DEF T!inst_trace, T!write_ring_buffer
<1>3. head' = IF head = RingMax - 1 THEN 0 ELSE head + 1
  BY <1>1, <1>2, SlotsAround
<1>4. /\ head' \in Slots /\ ninst' \in Nat /\ buffer' \in [Slots -> Nat]
      /\ size' = IF ninst' < RingMax THEN ninst' ELSE RingMax
  <2>1. size' = IF ninst' < RingMax THEN ninst' ELSE RingMax
    BY <1>1, <1>2
  <2>2. head' \in Slots /\ ninst' \in Nat /\ ninst + 1 \in Nat
    BY <1>1, <1>2, <1>3 DEF Slots
  <2>3. buffer' \in [Slots -> Nat]
    BY <1>1, <1>2, <2>2
  <2>4. QED
    BY <2>1, <2>2, <2>3
<1>5. ASSUME NEW i \in 1..size'
      PROVE  buffer'[(head' - i) % RingMax] = ninst' + 1 - i
  <2>0. i \in 1..RingMax /\ size \in 0..RingMax
    BY <1>1, <1>4
  <2>1. (head' - i) % RingMax = IF head' >= i THEN head' - i ELSE head' - i + RingMax
    BY <1>4, <2>0, SlotsAround
  <2>2. CASE i = 1
    <3>1. (head' - i) % RingMax = head
      BY <1>1, <1>3, <2>1, <2>2 DEF Slots
    <3>2. QED
      BY <1>1, <1>2, <3>1, <2>2
  <2>3. CASE i # 1
    <3> DEFINE k == i - 1
    <3>1. k \in 1..size /\ k \in 1..RingMax /\ k < RingMax
      BY <1>1, <1>4, <1>2, <2>0, <2>3
    <3>2. (head - k) % RingMax = IF head >= k THEN head - k ELSE head - k + RingMax
      BY <1>1, <3>1, SlotsAround
    <3>3. (head' - i) % RingMax = (head - k) % RingMax /\ (head - k) % RingMax \in Slots /\ (head - k) % RingMax # head
      BY <1>1, <1>3, <2>0, <2>1, <3>1, <3>2 DEF Slots
    <3>4. buffer[(head - k) % RingMax] = ninst + 1 - k
      BY <1>1, <3>1
    <3>5. buffer'[(head - k) % RingMax] = ninst + 1 - k
      BY <1>1, <1>2, <3>3, <3>4
    <3>6. ninst + 1 - k = ninst' + 1 - i
      BY <1>1, <1>2, <2>0
    <3>7. QED
      BY <3>3, <3>5, <3>6
  <2>4. QED
    BY <2>2, <2>3
<1>6. QED
  BY <1>4, <1>5 DEF RingInv

(* print_ring_buffer: what is printed is the last instructions, in the     *)
(* order of the simulator.                                                 *)
LEMMA RingPrinted ==
  RingInv /\ T!assert_fail_msg => T!RingRight'
<1> SUFFICES ASSUME RingInv, T!assert_fail_msg PROVE T!RingRight'
  OBVIOUS
<1> USE TraceAssumption
<1>1. /\ head \in Slots /\ ninst \in Nat /\ size \in 0..RingMax
      /\ size = IF ninst < RingMax THEN ninst ELSE RingMax
      /\ \A i \in 1..size : buffer[(head - i) % RingMax] = ninst + 1 - i
  BY DEF RingInv
<1>2. /\ shown' = [i \in 1..size |-> IF simulator = "nemu" THEN T!nemu_line(i) ELSE T!npc_line(i)]
      /\ ninst' = ninst /\ simulator' = simulator
  BY DEF T!assert_fail_msg, T!print_ring_buffer
<1>3. Len(shown') = size
  BY <1>1, <1>2
<1>4. ASSUME NEW i \in 1..size
      PROVE  /\ shown'[i].inst = IF simulator = "nemu" THEN ninst + 1 - i ELSE ninst - size + i
             /\ simulator = "npc" => (shown'[i].arrow <=> i = size)
  <2>1. CASE simulator = "nemu"
    <3>1. shown'[i].inst = buffer[(head - i) % RingMax]
      BY <1>2, <2>1 DEF T!nemu_line
    <3>2. QED
      BY <1>1, <2>1, <3>1
  <2>2. CASE simulator # "nemu"
    <3> DEFINE k == size + 1 - i
    <3>1. k \in 1..size /\ head - k = head - size + i - 1
      BY <1>1 DEF Slots
    <3>2. shown'[i] = T!npc_line(i)
      BY <1>2, <2>2
    <3>3. shown'[i].inst = buffer[(head - size + i - 1) % RingMax] /\ shown'[i].arrow = (i = size)
      BY <3>2 DEF T!npc_line
    <3>4. buffer[(head - k) % RingMax] = ninst + 1 - k
      BY <1>1, <3>1
    <3>5. ninst + 1 - k = ninst - size + i
      BY <1>1
    <3>6. shown'[i].inst = ninst - size + i
      BY <3>1, <3>3, <3>4, <3>5
    <3>7. QED
      BY <2>2, <3>3, <3>6
  <2>3. QED
    BY <2>1, <2>2
<1>5. ASSUME NEW i \in 1..size, simulator = "npc"
      PROVE  shown'[i].arrow <=> shown'[i].inst = ninst
  <2>1. shown'[i].inst = ninst - size + i
    BY <1>4, <1>5
  <2>2. (i = size) <=> (ninst - size + i = ninst)
    BY <1>1
  <2>3. QED
    BY <1>4, <1>5, <2>1, <2>2
<1>6. size = IF ninst' < RingMax THEN ninst' ELSE RingMax
  BY <1>1, <1>2
<1>7. \A i \in 1..size : shown'[i].inst = IF simulator' = "nemu" THEN ninst' + 1 - i ELSE ninst' - size + i
  BY <1>2, <1>4
<1>8. simulator' = "npc" => \A i \in 1..size : shown'[i].arrow <=> shown'[i].inst = ninst'
  BY <1>2, <1>5
<1>9. QED
  BY <1>3, <1>6, <1>7, <1>8 DEF T!RingRight

-----------------------------------------------------------------------------
(***************************************************************************)
(* The trace of calls.  As long as the program did nothing that the trace  *)
(* cannot follow, the call of a traced function was printed one deeper     *)
(* than the traced functions below it are many, and the functions that are *)
(* traced are those with a symbol, except the one the program started in.  *)
(***************************************************************************)
Frame == [fn : Fns \cup {Main}, at : Int]
TracedUpTo(fs, n) == {j \in 1..n : fs[j].at # 0}
CallTypes ==
  /\ simulator \in {"nemu", "npc"} /\ depth \in Int
  /\ frames \in Seq(Frame) /\ Len(frames) > 0
CallLevels ==
  /\ ret[1] = ret[2]
  /\ depth = 1 + Cardinality(TracedUpTo(frames, Len(frames)))
  /\ \A i \in 2..Len(frames) :
       /\ frames[i].at # 0 <=> T!find_func(frames[i].fn)
       /\ frames[i].at # 0 => frames[i].at = 1 + Cardinality(TracedUpTo(frames, i - 1))
CallInv == CallTypes /\ (~drift => CallLevels)

(* One function more counts when it is traced. *)
LEMMA CountTraced ==
  ASSUME NEW fs, NEW n \in Nat
  PROVE  /\ Cardinality(TracedUpTo(fs, n)) \in Nat
         /\ Cardinality(TracedUpTo(fs, n + 1)) = IF fs[n + 1].at # 0 THEN Cardinality(TracedUpTo(fs, n)) + 1
                                                 ELSE Cardinality(TracedUpTo(fs, n))
<1>1. IsFiniteSet(TracedUpTo(fs, n)) /\ Cardinality(TracedUpTo(fs, n)) \in Nat
  <2>1. IsFiniteSet(1..n)
    BY FS_Interval
  <2>2. TracedUpTo(fs, n) \subseteq 1..n
    BY DEF TracedUpTo
  <2>3. QED
    BY <2>1, <2>2, FS_Subset, FS_CardinalityType
<1>2. CASE fs[n + 1].at # 0
  <2>1. TracedUpTo(fs, n + 1) = TracedUpTo(fs, n) \cup {n + 1} /\ n + 1 \notin TracedUpTo(fs, n)
    BY <1>2 DEF TracedUpTo
  <2>2. QED
    BY <1>1, <1>2, <2>1, FS_AddElement
<1>3. CASE fs[n + 1].at = 0
  <2>1. TracedUpTo(fs, n + 1) = TracedUpTo(fs, n)
    BY <1>3 DEF TracedUpTo
  <2>2. QED
    BY <1>1, <1>3, <2>1
<1>4. QED
  BY <1>1, <1>2, <1>3

(* Functions that are printed alike count alike. *)
LEMMA CountSame ==
  ASSUME NEW fs, NEW gs, NEW n \in Nat, \A j \in 1..n : fs[j].at = gs[j].at
  PROVE  TracedUpTo(fs, n) = TracedUpTo(gs, n)
BY DEF TracedUpTo

(* func_check: however often a jump is reported it is traced once, or not  *)
(* at all when it is taken for the one before.                             *)
LEMMA TracedOnce ==
  ASSUME CallTypes, NEW site, NEW kind \in {"call", "ret", "jump"}, NEW f, T!Traced(site, kind, f)
  PROVE  /\ depth' = IF T!Lost(site) THEN depth ELSE T!func_trace_check(depth, kind, f)
         /\ depth' \in Int
<1>1. simulator \in {"nemu", "npc"} /\ depth \in Int
  BY DEF CallTypes
<1>2. depth' = IF T!Lost(site) THEN depth ELSE T!func_trace_check(depth, kind, f)
  BY <1>1 DEF T!Traced, T!func_check, T!Lost
<1>3. T!func_trace_check(depth, kind, f) \in Int
  BY <1>1 DEF T!func_trace_check, T!func_call_trace, T!func_ret_trace
<1>4. QED
  BY <1>1, <1>2, <1>3

(* A call: the new function is on top.                                     *)
LEMMA CallStep ==
  ASSUME CallInv, NEW f \in Fns, T!Call(f)
  PROVE  CallInv'
<1> DEFINE site == <<"call", T!Top.fn, f>>
           n    == Len(frames)
           at   == IF T!find_func(f) /\ ~T!Lost(site) THEN depth ELSE 0
           top  == [fn |-> f, at |-> at]
<1>1. CallTypes /\ (~drift => CallLevels)
  BY DEF CallInv
<1>2. /\ T!Traced(site, "call", f)
      /\ frames' = Append(frames, top)
      /\ drift' = (drift \/ T!Lost(site))
      /\ simulator' = simulator /\ symbol' = symbol /\ ret' = ret
  BY DEF T!Call
<1>3. /\ simulator \in {"nemu", "npc"} /\ depth \in Int /\ frames \in Seq(Frame) /\ n \in Nat /\ n > 0
  BY <1>1 DEF CallTypes
<1>4. depth' = (IF T!Lost(site) THEN depth ELSE T!func_trace_check(depth, "call", f)) /\ depth' \in Int
  BY <1>1, <1>2, TracedOnce
<1>5. top \in Frame /\ at \in Int
  BY <1>3 DEF Frame
<1>6. /\ frames' \in Seq(Frame) /\ Len(frames') = n + 1
      /\ \A i \in 1..n : frames'[i] = frames[i]
      /\ frames'[n + 1] = top
  <2> HIDE DEF top
  <2>1. QED
    BY <1>2, <1>3, <1>5, AppendProperties
<1>7. CallTypes'
  BY <1>2, <1>3, <1>4, <1>6 DEF CallTypes
<1>8. ASSUME ~drift' PROVE CallLevels'
  <2>1. ~drift /\ ~T!Lost(site) /\ CallLevels
    BY <1>1, <1>2, <1>8
  <2>2. at = IF T!find_func(f) THEN depth ELSE 0
    BY <2>1
  <2>3. depth' = IF T!find_func(f) THEN depth + 1 ELSE depth
    BY <1>4, <2>1 DEF T!func_trace_check, T!func_call_trace
  <2>4. depth = 1 + Cardinality(TracedUpTo(frames, n)) /\ Cardinality(TracedUpTo(frames, n)) \in Nat
    BY <1>3, <2>1, CountTraced DEF CallLevels
  <2>5. \A i \in 0..n : TracedUpTo(frames', i) = TracedUpTo(frames, i)
    <3> SUFFICES ASSUME NEW i \in 0..n PROVE TracedUpTo(frames', i) = TracedUpTo(frames, i)
      OBVIOUS
    <3>1. \A j \in 1..i : frames'[j].at = frames[j].at
      BY <1>3, <1>6
    <3>2. QED
      BY <1>3, <3>1, CountSame
  <2>6. Cardinality(TracedUpTo(frames', n + 1)) =
          IF at # 0 THEN Cardinality(TracedUpTo(frames, n)) + 1 ELSE Cardinality(TracedUpTo(frames, n))
    <3>1. TracedUpTo(frames', n) = TracedUpTo(frames, n) /\ frames'[n + 1].at = at
      BY <1>3, <1>6, <2>5
    <3>2. QED
      BY <1>3, <3>1, CountTraced
  <2>7. at # 0 <=> T!find_func(f)
    BY <2>2, <2>4
  <2>8. depth' = 1 + Cardinality(TracedUpTo(frames', n + 1))
    <3>1. CASE T!find_func(f)
      BY <2>3, <2>4, <2>6, <2>7, <3>1
    <3>2. CASE ~T!find_func(f)
      BY <2>3, <2>4, <2>6, <2>7, <3>2
    <3>3. QED
      BY <3>1, <3>2
  <2>9. ASSUME NEW i \in 2..(n + 1)
        PROVE  /\ frames'[i].at # 0 <=> T!find_func(frames'[i].fn)
               /\ frames'[i].at # 0 => frames'[i].at = 1 + Cardinality(TracedUpTo(frames', i - 1))
    <3>1. CASE i = n + 1
      <4>1. frames'[i].at = at /\ frames'[i].fn = f /\ i - 1 = n
        BY <1>3, <1>6, <3>1
      <4>2. TracedUpTo(frames', i - 1) = TracedUpTo(frames, n)
        BY <1>3, <2>5, <4>1
      <4>3. at # 0 => at = 1 + Cardinality(TracedUpTo(frames, n))
        BY <2>2, <2>4
      <4>4. QED
        BY <2>7, <4>1, <4>2, <4>3
    <3>2. CASE i # n + 1
      <4>1. i \in 2..n /\ i \in 1..n /\ i - 1 \in 0..n
        BY <1>3, <3>2
      <4>2. frames'[i] = frames[i] /\ TracedUpTo(frames', i - 1) = TracedUpTo(frames, i - 1)
        BY <1>6, <2>5, <4>1
      <4>3. /\ frames[i].at # 0 <=> T!find_func(frames[i].fn)
            /\ frames[i].at # 0 => frames[i].at = 1 + Cardinality(TracedUpTo(frames, i - 1))
        BY <2>1, <4>1 DEF CallLevels
      <4>4. QED
        BY <4>2, <4>3
    <3>3. QED
      BY <3>1, <3>2
  <2>10. QED
    BY <1>2, <1>6, <2>1, <2>8, <2>9 DEF CallLevels, T!find_func
<1>9. QED
  BY <1>7, <1>8 DEF CallInv

(* The functions below the top one. *)
LEMMA UnderTop ==
  ASSUME frames \in Seq(Frame), Len(frames) > 1
  PROVE  /\ T!Top \in Frame /\ T!Top = frames[Len(frames)]
         /\ T!Under \in Seq(Frame) /\ Len(T!Under) = Len(frames) - 1
         /\ \A i \in 1..(Len(frames) - 1) : T!Under[i] = frames[i]
<1>1. Len(frames) \in Nat /\ Len(frames) \in 1..Len(frames)
  OBVIOUS
<1>2. T!Top \in Frame /\ T!Top = frames[Len(frames)]
  BY <1>1 DEF T!Top
<1>3. QED
  BY <1>1, <1>2, SubSeqProperties DEF T!Under

(* A return, printed at the depth of its call.                             *)
LEMMA ReturnStep ==
  ASSUME CallInv, T!Return
  PROVE  CallInv'
<1> DEFINE site == <<"ret", T!Top.fn>>
           n    == Len(frames)
<1>1. CallTypes /\ (~drift => CallLevels)
  BY DEF CallInv
<1>2. /\ n > 1
      /\ T!Traced(site, "ret", T!Top.fn)
      /\ frames' = T!Under
      /\ ret' = IF T!find_func(T!Top.fn) /\ ~T!Lost(site) THEN <<depth', T!Top.at>> ELSE ret
      /\ drift' = (drift \/ T!Lost(site))
      /\ simulator' = simulator /\ symbol' = symbol
  BY DEF T!Return
<1>3. /\ simulator \in {"nemu", "npc"} /\ depth \in Int /\ frames \in Seq(Frame) /\ n \in Nat
  BY <1>1 DEF CallTypes
<1>4. depth' = (IF T!Lost(site) THEN depth ELSE T!func_trace_check(depth, "ret", T!Top.fn)) /\ depth' \in Int
  BY <1>1, <1>2, TracedOnce
<1>5. /\ T!Top = frames[n] /\ T!Top.at \in Int
      /\ frames' \in Seq(Frame) /\ Len(frames') = n - 1
      /\ \A i \in 1..(n - 1) : frames'[i] = frames[i]
  BY <1>2, <1>3, UnderTop DEF Frame
<1>6. CallTypes'
  BY <1>2, <1>3, <1>4, <1>5 DEF CallTypes
<1>7. ASSUME ~drift' PROVE CallLevels'
  <2>1. ~drift /\ ~T!Lost(site) /\ CallLevels
    BY <1>1, <1>2, <1>7
  <2>2. depth' = IF T!find_func(T!Top.fn) THEN depth - 1 ELSE depth
    BY <1>4, <2>1 DEF T!func_trace_check, T!func_ret_trace
  <2>3. \A i \in 0..(n - 1) : TracedUpTo(frames', i) = TracedUpTo(frames, i)
    <3> SUFFICES ASSUME NEW i \in 0..(n - 1) PROVE TracedUpTo(frames', i) = TracedUpTo(frames, i)
      OBVIOUS
    <3>1. \A j \in 1..i : frames'[j].at = frames[j].at
      BY <1>3, <1>5
    <3>2. QED
      BY <1>3, <3>1, CountSame
  <2>4. /\ T!Top.at # 0 <=> T!find_func(T!Top.fn)
        /\ T!Top.at # 0 => T!Top.at = 1 + Cardinality(TracedUpTo(frames, n - 1))
    <3>1. n \in 2..n
      BY <1>2, <1>3
    <3>2. QED
      BY <1>5, <2>1, <3>1 DEF CallLevels
  <2>5. /\ Cardinality(TracedUpTo(frames, n - 1)) \in Nat
        /\ Cardinality(TracedUpTo(frames, n)) = IF T!Top.at # 0 THEN Cardinality(TracedUpTo(frames, n - 1)) + 1
                                                ELSE Cardinality(TracedUpTo(frames, n - 1))
    <3>1. n - 1 \in Nat /\ (n - 1) + 1 = n
      BY <1>2, <1>3
    <3>2. QED
      BY <1>5, <3>1, CountTraced
  <2>6. depth = 1 + Cardinality(TracedUpTo(frames, n))
    BY <2>1 DEF CallLevels
  <2>7. depth' = 1 + Cardinality(TracedUpTo(frames, n - 1))
    <3>1. CASE T!find_func(T!Top.fn)
      BY <2>2, <2>4, <2>5, <2>6, <3>1
    <3>2. CASE ~T!find_func(T!Top.fn)
      BY <2>2, <2>4, <2>5, <2>6, <3>2
    <3>3. QED
      BY <3>1, <3>2
  <2>8. TracedUpTo(frames', Len(frames')) = TracedUpTo(frames, n - 1)
    BY <1>2, <1>3, <1>5, <2>3
  <2>9. ret'[1] = ret'[2]
    <3>1. CASE T!find_func(T!Top.fn)
      BY <1>2, <2>1, <2>4, <2>7, <3>1
    <3>2. CASE ~T!find_func(T!Top.fn)
      BY <1>2, <2>1, <3>2 DEF CallLevels
    <3>3. QED
      BY <3>1, <3>2
  <2>10. ASSUME NEW i \in 2..(n - 1)
         PROVE  /\ frames'[i].at # 0 <=> T!find_func(frames'[i].fn)
                /\ frames'[i].at # 0 => frames'[i].at = 1 + Cardinality(TracedUpTo(frames', i - 1))
    <3>1. i \in 2..n /\ i \in 1..(n - 1) /\ i - 1 \in 0..(n - 1)
      BY <1>3
    <3>2. frames'[i] = frames[i] /\ TracedUpTo(frames', i - 1) = TracedUpTo(frames, i - 1)
      BY <1>5, <2>3, <3>1
    <3>3. QED
      BY <2>1, <3>1, <3>2 DEF CallLevels
  <2>11. QED
    BY <1>2, <1>5, <2>7, <2>8, <2>9, <2>10 DEF CallLevels, T!find_func
<1>8. QED
  BY <1>6, <1>7 DEF CallInv

(* A tail call: the function that is left keeps its place.                 *)
LEMMA TailCallStep ==
  ASSUME CallInv, NEW f \in Fns, T!TailCall(f)
  PROVE  CallInv'
<1> DEFINE site == <<"jump", T!Top.fn, f>>
           n    == Len(frames)
           top  == [T!Top EXCEPT !.fn = f]
<1>1. CallTypes /\ (~drift => CallLevels)
  BY DEF CallInv
<1>2. /\ n > 1
      /\ T!Traced(site, "jump", f)
      /\ frames' = Append(T!Under, top)
      /\ drift' = (drift \/ T!find_func(f) # T!find_func(T!Top.fn))
      /\ simulator' = simulator /\ symbol' = symbol /\ ret' = ret
  BY DEF T!TailCall
<1>3. /\ simulator \in {"nemu", "npc"} /\ depth \in Int /\ frames \in Seq(Frame) /\ n \in Nat
  BY <1>1 DEF CallTypes
<1>4. depth' = depth
  BY <1>1, <1>2, TracedOnce DEF T!func_trace_check
<1>5. /\ T!Top = frames[n] /\ T!Top \in Frame
      /\ T!Under \in Seq(Frame) /\ Len(T!Under) = n - 1
      /\ \A i \in 1..(n - 1) : T!Under[i] = frames[i]
  BY <1>2, <1>3, UnderTop
<1>6. top \in Frame /\ top.at = T!Top.at /\ top.fn = f
  BY <1>5 DEF Frame
<1>7. /\ frames' \in Seq(Frame) /\ Len(frames') = n
      /\ \A i \in 1..(n - 1) : frames'[i] = frames[i]
      /\ frames'[n] = top
  <2> HIDE DEF top
  <2>1. n - 1 + 1 = n
    BY <1>3
  <2>2. /\ frames' \in Seq(Frame) /\ Len(frames') = n - 1 + 1
        /\ \A i \in 1..(n - 1) : frames'[i] = T!Under[i]
        /\ frames'[n - 1 + 1] = top
    BY <1>2, <1>5, <1>6, AppendProperties
  <2>3. QED
    BY <1>5, <2>1, <2>2
<1>8. CallTypes'
  BY <1>2, <1>3, <1>4, <1>7 DEF CallTypes
<1>9. ASSUME ~drift' PROVE CallLevels'
  <2>1. ~drift /\ (T!find_func(f) = T!find_func(T!Top.fn)) /\ CallLevels
    BY <1>1, <1>2, <1>9
  <2>2. \A j \in 1..n : frames'[j].at = frames[j].at
    <3> HIDE DEF top
    <3>1. frames'[n].at = frames[n].at
      BY <1>5, <1>6, <1>7
    <3>2. \A j \in 1..n : j # n => j \in 1..(n - 1)
      BY <1>3
    <3>3. QED
      BY <1>7, <3>1, <3>2
  <2>3. \A i \in 0..n : TracedUpTo(frames', i) = TracedUpTo(frames, i)
    <3> SUFFICES ASSUME NEW i \in 0..n PROVE TracedUpTo(frames', i) = TracedUpTo(frames, i)
      OBVIOUS
    <3>1. \A j \in 1..i : frames'[j].at = frames[j].at
      BY <1>3, <2>2
    <3>2. QED
      BY <1>3, <3>1, CountSame
  <2>4. \A i \in 2..n : T!find_func(frames'[i].fn) = T!find_func(frames[i].fn)
    <3> SUFFICES ASSUME NEW i \in 2..n PROVE T!find_func(frames'[i].fn) = T!find_func(frames[i].fn)
      OBVIOUS
    <3>1. CASE i = n
      BY <1>5, <1>6, <1>7, <2>1, <3>1
    <3>2. CASE i # n
      BY <1>3, <1>7, <3>2
    <3>3. QED
      BY <3>1, <3>2
  <2>5. ASSUME NEW i \in 2..n
        PROVE  /\ frames'[i].at # 0 <=> T!find_func(frames'[i].fn)
               /\ frames'[i].at # 0 => frames'[i].at = 1 + Cardinality(TracedUpTo(frames', i - 1))
    <3>1. i \in 1..n /\ i - 1 \in 0..n
      BY <1>3
    <3>2. /\ frames'[i].at = frames[i].at /\ TracedUpTo(frames', i - 1) = TracedUpTo(frames, i - 1)
          /\ T!find_func(frames'[i].fn) = T!find_func(frames[i].fn)
      BY <2>2, <2>3, <2>4, <3>1
    <3>3. /\ frames[i].at # 0 <=> T!find_func(frames[i].fn)
          /\ frames[i].at # 0 => frames[i].at = 1 + Cardinality(TracedUpTo(frames, i - 1))
      BY <2>1 DEF CallLevels
    <3>4. QED
      BY <3>2, <3>3
  <2>6. depth' = 1 + Cardinality(TracedUpTo(frames', n)) /\ ret'[1] = ret'[2]
    BY <1>2, <1>3, <1>4, <2>1, <2>3 DEF CallLevels
  <2>7. QED
    BY <1>2, <1>7, <2>5, <2>6 DEF CallLevels, T!find_func
<1>10. QED
  BY <1>8, <1>9 DEF CallInv

TraceInv == RingInv /\ CallInv /\ T!RingRight

(* What a step of the tracer does to the ring and to the calls. *)
LEMMA TraceStep ==
  TraceInv /\ [T!Next]_(T!vars) => TraceInv'
<1> SUFFICES ASSUME TraceInv, [T!Next]_(T!vars) PROVE TraceInv'
  OBVIOUS
<1>1. RingInv /\ CallInv /\ T!RingRight
  BY DEF TraceInv
<1>2. CASE UNCHANGED T!vars
  <2>1. RingInv'
    BY <1>1, <1>2 DEF T!vars, RingInv
  <2>2. CallInv'
    BY <1>1, <1>2 DEF T!vars, CallInv, CallTypes, CallLevels, T!find_func
  <2>3. T!RingRight'
    BY <1>1, <1>2 DEF T!vars, T!RingRight
  <2>4. QED
    BY <2>1, <2>2, <2>3 DEF TraceInv
<1>3. ASSUME T!inst_trace, UNCHANGED shown, shown = <<>>, CallInv' PROVE TraceInv'
  <2>1. RingInv'
    BY <1>1, <1>3, InstTraced
  <2>2. T!RingRight'
    BY <1>3 DEF T!RingRight
  <2>3. QED
    BY <1>3, <2>1, <2>2 DEF TraceInv
<1>4. CASE T!Next
  <2>0. shown = <<>>
    BY <1>4 DEF T!Next
  <2>1. ASSUME NEW f \in Fns, T!Call(f) PROVE TraceInv'
    <3>1. CallInv'
      BY <1>1, <2>1, CallStep
    <3>2. T!inst_trace /\ UNCHANGED shown
      BY <2>1 DEF T!Call
    <3>3. QED
      BY <1>3, <2>0, <3>1, <3>2
  <2>2. ASSUME NEW f \in Fns, T!TailCall(f) PROVE TraceInv'
    <3>1. CallInv'
      BY <1>1, <2>2, TailCallStep
    <3>2. T!inst_trace /\ UNCHANGED shown
      BY <2>2 DEF T!TailCall
    <3>3. QED
      BY <1>3, <2>0, <3>1, <3>2
  <2>3. CASE T!Return
    <3>1. CallInv'
      BY <1>1, <2>3, ReturnStep
    <3>2. T!inst_trace /\ UNCHANGED shown
      BY <2>3 DEF T!Return
    <3>3. QED
      BY <1>3, <2>0, <3>1, <3>2
  <2>4. CASE T!Plain
    <3>1. CallInv'
      BY <1>1, <2>4 DEF T!Plain, CallInv, CallTypes, CallLevels, T!find_func
    <3>2. T!inst_trace /\ UNCHANGED shown
      BY <2>4 DEF T!Plain
    <3>3. QED
      BY <1>3, <2>0, <3>1, <3>2
  <2>5. CASE T!assert_fail_msg
    <3>1. CallInv'
      BY <1>1, <2>5 DEF T!assert_fail_msg, CallInv, CallTypes, CallLevels, T!find_func
    <3>2. RingInv'
      BY <1>1, <2>5 DEF T!assert_fail_msg, T!ring, RingInv
    <3>3. T!RingRight'
      BY <1>1, <2>5, RingPrinted
    <3>4. QED
      BY <3>1, <3>2, <3>3 DEF TraceInv
  <2>6. QED
    BY <1>4, <2>1, <2>2, <2>3, <2>4, <2>5 DEF T!Next
<1>5. QED
  BY <1>2, <1>4

(***************************************************************************)
(* write_ring_buffer and print_ring_buffer, func_call_trace and            *)
(* func_ret_trace, in both simulators: whatever the program calls, and for *)
(* every length of the ring, the last instructions are printed in order    *)
(* and a return at the depth of its call.                                  *)
(***************************************************************************)
THEOREM TracesAreRight == T!Spec => []TracesRight
<1>1. T!Init => TraceInv
  <2> SUFFICES ASSUME T!Init PROVE TraceInv
    OBVIOUS
  <2> USE TraceAssumption
  <2>1. RingInv
    BY DEF T!Init, RingInv, Slots
  <2>2. CallInv
    <3> DEFINE first == [fn |-> Main, at |-> 0]
    <3>1. /\ frames = <<first>> /\ depth = 1 /\ ret = <<0, 0>> /\ simulator \in {"nemu", "npc"}
      BY DEF T!Init
    <3>2. first \in Frame /\ first.at = 0
      BY DEF Frame
    <3>3. frames \in Seq(Frame) /\ Len(frames) = 1 /\ frames[1].at = 0
      BY <3>1, <3>2
    <3>4. TracedUpTo(frames, 1) = {}
      BY <3>3 DEF TracedUpTo
    <3>5. QED
      BY <3>1, <3>3, <3>4, FS_EmptySet DEF CallInv, CallTypes, CallLevels
  <2>3. T!RingRight
    BY DEF T!Init, T!RingRight
  <2>4. QED
    BY <2>1, <2>2, <2>3 DEF TraceInv
<1>2. TraceInv => TracesRight
  <2> SUFFICES ASSUME TraceInv PROVE T!DepthRight /\ T!RingRight
    BY DEF TracesRight, T!TracesRight
  <2>1. frames \in Seq(Frame) /\ DOMAIN frames = 1..Len(frames)
    BY DEF TraceInv, CallInv, CallTypes
  <2>2. {i \in DOMAIN frames : frames[i].at # 0} = TracedUpTo(frames, Len(frames))
    BY <2>1 DEF TracedUpTo
  <2>3. T!Cardinality(TracedUpTo(frames, Len(frames))) = Cardinality(TracedUpTo(frames, Len(frames)))
    BY DEF T!Cardinality, Cardinality
  <2>4. T!DepthRight
    BY <2>2, <2>3 DEF TraceInv, CallInv, CallLevels, T!DepthRight
  <2>5. QED
    BY <2>4 DEF TraceInv
<1>3. QED
  BY <1>1, <1>2, TraceStep, PTL DEF T!Spec

-----------------------------------------------------------------------------
(***************************************************************************)
(* The regions of the devices.  Each has pages of io_space of its own,     *)
(* below p_space; the pages of two regions are clear of each other.        *)
(***************************************************************************)
Addrs == 0..(AddrSpace - 1)
MapType == [low : Addrs, high : Addrs, space : Nat]
Room(m) == D!RoundUp(m.high - m.low + 1)
Clear(m, n) == m.space + Room(m) <= n.space \/ n.space + Room(n) <= m.space

(* What the bytes of a region are, and what was last written there.  A     *)
(* region that wraps (low above high) has no byte that is ever found.      *)
Holds(m, io, la) == \A x \in m.low..m.high : io[m.space + (x - m.low)] = la[x]
NotedIn(la, a, len, hi, tag) == [x \in Addrs |-> IF x >= a /\ x < a + len /\ x <= hi THEN tag ELSE la[x]]
IoBytes == [0..(IoSpaceMax - 1) -> Nat]
Notes == [Addrs -> Nat]

(* new_space: a piece is whole pages and no shorter than what was asked. *)
LEMMA Rounded ==
  ASSUME NEW s \in Nat \ {0}
  PROVE  D!RoundUp(s) \in Nat /\ D!RoundUp(s) >= s /\ D!RoundUp(s) % PageSize = 0
<1> DEFINE q == (s + PageSize - 1) \div PageSize
           z == s + PageSize - 1
<1> USE MapAssumption
<1>1. z % PageSize \in 0..(PageSize - 1) /\ q \in Int /\ z = q * PageSize + (z % PageSize)
  BY DivMod
<1>2. q * PageSize >= s
  BY <1>1
<1>3. q >= 0
  <2> HIDE DEF q
  <2>1. q < 0 => q * PageSize <= 0
    BY <1>1
  <2>2. QED
    BY <1>1, <1>2, <2>1
<1>4. (0 - (-q) * PageSize) % PageSize = 0
  <2> HIDE DEF q
  <2>1. -q \in Int /\ PageSize \in Nat /\ PageSize > 0 /\ 0 \in 0..(PageSize - 1)
    BY <1>1
  <2>2. QED
    BY <2>1, ModUnique
<1>5. q * PageSize \in Nat /\ 0 - (-q) * PageSize = q * PageSize
  BY <1>1, <1>3
<1>6. D!RoundUp(s) = q * PageSize
  BY DEF D!RoundUp
<1>7. QED
  BY <1>2, <1>4, <1>5, <1>6

(* Sums and differences of whole pages are whole pages. *)
LEMMA WholePages ==
  ASSUME NEW a \in Nat, NEW b \in Nat, a % PageSize = 0, b % PageSize = 0
  PROVE  (a + b) % PageSize = 0 /\ (a < b => a + PageSize <= b)
<1> DEFINE p == a \div PageSize
           q == b \div PageSize
<1> USE MapAssumption
<1>1. p \in Int /\ a = p * PageSize /\ q \in Int /\ b = q * PageSize
  <2>1. p \in Int /\ a = p * PageSize + (a % PageSize) /\ q \in Int /\ b = q * PageSize + (b % PageSize)
    BY DivMod
  <2>2. QED
    BY <2>1
<1> HIDE DEF p, q
<1>2. (a + b) % PageSize = 0
  <2>1. (0 - (-(p + q)) * PageSize) % PageSize = 0
    BY <1>1, ModUnique
  <2>2. 0 - (-(p + q)) * PageSize = a + b
    BY <1>1
  <2>3. QED
    BY <2>1, <2>2
<1>3. ASSUME a < b PROVE a + PageSize <= b
  <2>1. (q - p) * PageSize = b - a
    BY <1>1
  <2>2. q - p <= 0 => (q - p) * PageSize <= 0
    BY <1>1
  <2>3. q - p >= 1
    BY <1>1, <1>3, <2>1, <2>2
  <2>4. (q - p) * PageSize >= PageSize
    BY <1>1, <2>3
  <2>5. QED
    BY <2>1, <2>4
<1>4. QED
  BY <1>2, <1>3

(* in_pmem, for memory that does not wrap. *)
LEMMA InMemory ==
  ASSUME NEW a \in Addrs
  PROVE  D!in_pmem(a) <=> a >= MBase /\ a < MBase + MSize
<1> USE MapAssumption DEF Addrs, D!in_pmem
<1>1. CASE a >= MBase
  <2>1. (a - MBase) % AddrSpace = a - MBase
    BY <1>1
  <2>2. QED
    BY <1>1, <2>1
<1>2. CASE a < MBase
  <2>1. (a - MBase) % AddrSpace = a - MBase + AddrSpace
    BY <1>2
  <2>2. QED
    BY <1>2, <2>1
<1>3. QED
  BY <1>1, <1>2

(* Every set of naturals has a least member. *)
LEMMA NatMin ==
  ASSUME NEW S \in SUBSET Nat, S # {}
  PROVE  \E m \in S : \A k \in S : m <= k
<1> DEFINE R == OpToRel(<, Nat)
<1>1. IsWellFoundedOn(R, Nat)
  BY NatLessThanWellFounded
<1>2. PICK x \in S : \A y \in S : ~(<<y, x>> \in R)
  <2> HIDE DEF R
  <2>1. S \subseteq Nat
    OBVIOUS
  <2>2. QED
    BY <1>1, <2>1, WFMin
<1>3. \A y \in S : ~(y < x)
  BY <1>2 DEF OpToRel
<1>4. QED
  BY <1>3

(* find_mapid_by_addr finds a region that holds the address. *)
LEMMA Found ==
  ASSUME NEW maps \in Seq(MapType), NEW a \in Addrs, D!find_mapid_by_addr(maps, a) # -1
  PROVE  /\ D!find_mapid_by_addr(maps, a) \in DOMAIN maps
         /\ a \in maps[D!find_mapid_by_addr(maps, a)].low..maps[D!find_mapid_by_addr(maps, a)].high
<1> DEFINE S == {i \in DOMAIN maps : D!map_inside(maps[i], a)}
           First(i) == D!map_inside(maps[i], a) /\ \A j \in 1..(i - 1) : ~D!map_inside(maps[j], a)
<1>1. S # {} /\ S \in SUBSET Nat
  BY DEF D!find_mapid_by_addr
<1>2. PICK m \in S : \A k \in S : m <= k
  BY <1>1, NatMin
<1>3. m \in DOMAIN maps /\ First(m)
  <2>1. ASSUME NEW j \in 1..(m - 1), D!map_inside(maps[j], a) PROVE FALSE
    <3>1. j \in S /\ ~(m <= j)
      BY <2>1
    <3>2. QED
      BY <1>2, <3>1
  <2>2. QED
    BY <1>2, <2>1
<1>4. D!find_mapid_by_addr(maps, a) = CHOOSE i \in DOMAIN maps : First(i)
  BY <1>1 DEF D!find_mapid_by_addr
<1> DEFINE k == CHOOSE i \in DOMAIN maps : First(i)
<1>5. k \in DOMAIN maps /\ First(k)
  BY <1>3
<1> HIDE DEF k
<1>6. maps[k] \in MapType
  BY <1>5
<1>7. QED
  BY <1>4, <1>5, <1>6 DEF k, D!map_inside, MapType, Addrs

(* map_write: a write that stays in the pages of its region leaves its     *)
(* bytes as they are noted, and no other region of the bus, nor any of     *)
(* the other bus, is touched.                                              *)
LEMMA WriteHere ==
  ASSUME NEW io \in IoBytes, NEW la \in Notes, NEW m \in MapType, NEW a \in m.low..m.high,
         NEW len \in Widths, NEW tag \in Nat, Holds(m, io, la), m.space + (m.high - m.low) < IoSpaceMax
  PROVE  Holds(m, D!Stored(io, D!Offset(m, a), len, tag), NotedIn(la, a, len, m.high, tag))
<1> SUFFICES ASSUME NEW x \in m.low..m.high
             PROVE  D!Stored(io, D!Offset(m, a), len, tag)[m.space + (x - m.low)] =
                    NotedIn(la, a, len, m.high, tag)[x]
  BY DEF Holds
<1> USE MapAssumption
<1>1. /\ m.low \in Addrs /\ m.high \in Addrs /\ m.space \in Nat /\ len \in Nat
      /\ a \in Int /\ x \in Addrs /\ x <= m.high /\ x >= m.low
  BY DEF MapType, Addrs
<1> DEFINE o == m.space + (x - m.low)
           at == D!Offset(m, a)
<1>2. o \in 0..(IoSpaceMax - 1) /\ DOMAIN io = 0..(IoSpaceMax - 1)
  <2>1. DOMAIN io = 0..(IoSpaceMax - 1)
    BY DEF IoBytes
  <2>2. o \in Int /\ o >= 0 /\ o <= IoSpaceMax - 1
    BY <1>1 DEF Addrs
  <2>3. QED
    BY <2>1, <2>2
<1>3. at \in Int /\ (o >= at <=> x >= a) /\ (o < at + len <=> x < a + len)
  BY <1>1 DEF D!Offset, Addrs
<1>4. io[o] = la[x]
  BY DEF Holds
<1> HIDE DEF o, at
<1>5. D!Stored(io, at, len, tag)[o] = IF o >= at /\ o < at + len THEN tag ELSE io[o]
  BY <1>2 DEF D!Stored
<1>6. NotedIn(la, a, len, m.high, tag)[x] = IF x >= a /\ x < a + len THEN tag ELSE la[x]
  BY <1>1 DEF NotedIn
<1>7. QED
  BY <1>3, <1>4, <1>5, <1>6 DEF o, at

(* A write into one region changes nothing in a region apart from it.      *)
LEMMA WriteElsewhere ==
  ASSUME NEW io \in IoBytes, NEW la \in Notes, NEW m \in MapType, NEW a \in m.low..m.high,
         NEW len \in Widths, NEW tag \in Nat, NEW n \in MapType, Holds(n, io, la),
         n.low <= n.high => Clear(m, n) /\ n.space + Room(n) <= IoSpaceMax,
         a + len - m.low <= Room(m),
         NEW la2, la2 = la \/ (la2 = NotedIn(la, a, len, m.high, tag) /\ ~D!Overlaps(m, n))
  PROVE  Holds(n, D!Stored(io, D!Offset(m, a), len, tag), la2)
<1> SUFFICES ASSUME NEW x \in n.low..n.high
             PROVE  D!Stored(io, D!Offset(m, a), len, tag)[n.space + (x - n.low)] = la2[x]
  BY DEF Holds
<1> USE MapAssumption
<1>1. /\ m.low \in Addrs /\ m.high \in Addrs /\ m.space \in Nat /\ len \in Nat
      /\ n.low \in Addrs /\ n.high \in Addrs /\ n.space \in Nat /\ n.low <= n.high
      /\ a \in Int /\ a >= m.low /\ a <= m.high /\ x \in Addrs /\ x >= n.low /\ x <= n.high
  BY DEF MapType, Addrs
<1> DEFINE o == n.space + (x - n.low)
           at == D!Offset(m, a)
<1>2. /\ Clear(m, n) /\ n.space + Room(n) <= IoSpaceMax
      /\ Room(n) \in Nat /\ Room(n) >= n.high - n.low + 1 /\ Room(m) \in Nat
  <2>1. n.high - n.low + 1 \in Nat \ {0} /\ m.high - m.low + 1 \in Nat \ {0}
    BY <1>1 DEF Addrs
  <2>2. QED
    BY <1>1, <2>1, Rounded DEF Room
<1>3. o \in 0..(IoSpaceMax - 1) /\ DOMAIN io = 0..(IoSpaceMax - 1)
  <2>1. DOMAIN io = 0..(IoSpaceMax - 1)
    BY DEF IoBytes
  <2>2. o \in Int /\ o >= 0 /\ o <= IoSpaceMax - 1
    BY <1>1, <1>2 DEF Addrs
  <2>3. QED
    BY <2>1, <2>2
<1>4. ~(o >= at /\ o < at + len)
  BY <1>1, <1>2 DEF Clear, D!Offset, Addrs
<1>5. io[o] = la[x]
  BY DEF Holds
<1>6. la2[x] = la[x]
  <2>1. CASE la2 = la
    BY <2>1
  <2>2. CASE la2 = NotedIn(la, a, len, m.high, tag) /\ ~D!Overlaps(m, n)
    <3>1. ~(x >= a /\ x < a + len /\ x <= m.high)
      BY <1>1, <2>2 DEF D!Overlaps, Addrs
    <3>2. QED
      BY <1>1, <2>2, <3>1 DEF NotedIn
  <2>3. QED
    BY <2>1, <2>2
<1> HIDE DEF o, at
<1>7. D!Stored(io, at, len, tag)[o] = io[o]
  BY <1>3, <1>4 DEF D!Stored
<1>8. QED
  BY <1>5, <1>6, <1>7 DEF o, at

(* Where the regions are. *)
Inside(m) == m.low <= m.high => m.space + Room(m) <= p_space
PagesApart(m, n) == m.low <= m.high /\ n.low <= n.high => Clear(m, n)
MapTypes ==
  /\ mmio \in Seq(MapType) /\ pio \in Seq(MapType)
  /\ p_space \in Nat /\ p_space % PageSize = 0 /\ p_space < IoSpaceMax
  /\ io_space \in IoBytes /\ pmem \in [0..(MSize - 1) -> Nat] /\ writes \in Nat
  /\ last \in [{"mem", "port"} -> Notes]
  /\ spilled \in BOOLEAN /\ outside = FALSE
MapsPlaced ==
  /\ \A i \in DOMAIN mmio : Inside(mmio[i])
  /\ \A i \in DOMAIN pio : Inside(pio[i])
  /\ \A i, j \in DOMAIN mmio : i # j => PagesApart(mmio[i], mmio[j])
  /\ \A i, j \in DOMAIN pio : i # j => PagesApart(pio[i], pio[j])
  /\ \A i \in DOMAIN mmio, j \in DOMAIN pio : PagesApart(mmio[i], pio[j])

(* mmio regions keep clear of memory and of each other. *)
BesideMemory(m) == ~D!in_pmem(m.low) /\ ~D!in_pmem(m.high) /\ m.high - m.low < MSize
MmioApart == D!Apart(mmio) /\ \A i \in DOMAIN mmio : BesideMemory(mmio[i])

(* What is read is what was written last. *)
MemoryHolds == \A x \in MBase..(MBase + MSize - 1) : pmem[x - MBase] = last["mem"][x]
Contents ==
  /\ state = "init" => /\ \A o \in 0..(IoSpaceMax - 1) : io_space[o] = 0
                       /\ \A x \in Addrs : last["mem"][x] = 0 /\ last["port"][x] = 0
  /\ ~spilled => MemoryHolds /\ \A i \in DOMAIN mmio : Holds(mmio[i], io_space, last["mem"])
  /\ ~spilled /\ D!Apart(pio) => \A i \in DOMAIN pio : Holds(pio[i], io_space, last["port"])

MapInv == MapTypes /\ MapsPlaced /\ MmioApart /\ Contents

(* add_mmio_map, add_pio_map: the new region gets the first free pages. *)
LEMMA NewRegion ==
  ASSUME MapTypes, NEW r \in Regions, ~(D!new_space(r.len) >= IoSpaceMax)
  PROVE  /\ D!Region(r) \in MapType /\ D!Region(r).space = p_space
         /\ D!Region(r).high - D!Region(r).low < MSize
         /\ D!new_space(r.len) \in Nat /\ D!new_space(r.len) % PageSize = 0
         /\ D!new_space(r.len) < IoSpaceMax /\ D!new_space(r.len) >= p_space
         /\ D!Region(r).low <= D!Region(r).high => p_space + Room(D!Region(r)) = D!new_space(r.len)
<1> USE MapAssumption
<1> DEFINE hi == (r.addr + r.len - 1) % AddrSpace
<1>1. r.addr \in Addrs /\ r.len \in 1..MSize /\ AddrSpace > 0 /\ MSize <= AddrSpace
  BY DEF Addrs
<1>2. /\ hi \in Addrs
      /\ hi = IF r.addr + r.len - 1 < AddrSpace THEN r.addr + r.len - 1 ELSE r.addr + r.len - 1 - AddrSpace
  <2>1. CASE r.addr + r.len - 1 < AddrSpace
    BY <1>1, <2>1 DEF Addrs
  <2>2. CASE r.addr + r.len - 1 >= AddrSpace
    <3>1. r.addr + r.len - 1 - AddrSpace \in 0..(AddrSpace - 1)
      BY <1>1, <2>2 DEF Addrs
    <3>2. (r.addr + r.len - 1) % AddrSpace = r.addr + r.len - 1 - AddrSpace
      BY <1>1, <2>2, <3>1 DEF Addrs
    <3>3. QED
      BY <1>1, <2>2, <3>1, <3>2 DEF Addrs
  <2>3. QED
    BY <1>1, <2>1, <2>2 DEF Addrs
<1>3. p_space \in Nat /\ p_space % PageSize = 0
  BY DEF MapTypes
<1>4. D!Region(r) = [low |-> r.addr, high |-> hi, space |-> p_space]
  BY DEF D!Region
<1> HIDE DEF hi
<1>5. /\ D!Region(r) \in MapType /\ D!Region(r).space = p_space
      /\ D!Region(r).low = r.addr /\ D!Region(r).high = hi
  BY <1>1, <1>2, <1>3, <1>4 DEF MapType
<1>6. hi - r.addr < MSize /\ (r.addr <= hi => hi - r.addr + 1 = r.len)
  BY <1>1, <1>2 DEF Addrs
<1>7. r.len \in Nat \ {0} /\ D!RoundUp(r.len) \in Nat /\ D!RoundUp(r.len) % PageSize = 0
  BY <1>1, Rounded
<1>8. D!new_space(r.len) = p_space + D!RoundUp(r.len)
  BY DEF D!new_space
<1>9. D!new_space(r.len) % PageSize = 0
  BY <1>3, <1>7, <1>8, WholePages
<1>10. r.addr <= hi => Room(D!Region(r)) = D!RoundUp(r.len)
  BY <1>5, <1>6 DEF Room
<1> HIDE DEF D!RoundUp
<1>11. QED
  BY <1>3, <1>5, <1>6, <1>7, <1>8, <1>9, <1>10

(* Bytes of a region nobody wrote yet. *)
LEMMA FreshHolds ==
  ASSUME MapTypes, NEW r \in Regions, ~(D!new_space(r.len) >= IoSpaceMax),
         NEW la \in Notes, \A x \in Addrs : la[x] = 0,
         \A o \in 0..(IoSpaceMax - 1) : io_space[o] = 0
  PROVE  Holds(D!Region(r), io_space, la)
<1> USE MapAssumption
<1> DEFINE m == D!Region(r)
<1> SUFFICES ASSUME NEW x \in m.low..m.high
             PROVE  io_space[m.space + (x - m.low)] = la[x]
  BY DEF Holds
<1>1. /\ m \in MapType /\ m.space = p_space /\ D!new_space(r.len) \in Nat /\ D!new_space(r.len) < IoSpaceMax
      /\ m.low <= m.high => p_space + Room(m) = D!new_space(r.len)
  BY NewRegion
<1>2. p_space \in Nat
  BY DEF MapTypes
<1> HIDE DEF m
<1>3. m.low \in Addrs /\ m.high \in Addrs
  BY <1>1 DEF MapType
<1>4. x \in Addrs /\ x >= m.low /\ x <= m.high /\ m.low <= m.high
  BY <1>3 DEF Addrs
<1>5. m.high - m.low + 1 \in Nat \ {0}
  BY <1>3, <1>4 DEF Addrs
<1>6. Room(m) \in Nat /\ Room(m) >= m.high - m.low + 1
  BY <1>5, Rounded DEF Room
<1>7. m.space + (x - m.low) \in 0..(IoSpaceMax - 1)
  BY <1>1, <1>2, <1>3, <1>4, <1>6 DEF Addrs
<1>8. QED
  BY <1>4, <1>7

(* panic and the end of init_device change nothing but the state.          *)
LEMMA StateStep ==
  ASSUME MapInv, state' # "init" \/ state' = state,
         UNCHANGED <<mmio, pio, p_space, io_space, pmem, last, writes, spilled, outside>>
  PROVE  MapInv'
<1>1. MapTypes'
  BY DEF MapInv, MapTypes
<1>2. MapsPlaced'
  BY DEF MapInv, MapsPlaced, Inside
<1>3. MmioApart'
  BY DEF MapInv, MmioApart
<1>4. Contents'
  BY DEF MapInv, Contents, MemoryHolds
<1>5. QED
  BY <1>1, <1>2, <1>3, <1>4 DEF MapInv

(* The table with one region more. *)
LEMMA TableGrows ==
  ASSUME NEW maps \in Seq(MapType), NEW m \in MapType
  PROVE  /\ Append(maps, m) \in Seq(MapType)
         /\ DOMAIN maps = 1..Len(maps) /\ DOMAIN Append(maps, m) = 1..(Len(maps) + 1) /\ Len(maps) \in Nat
         /\ \A i \in DOMAIN maps : i \in DOMAIN Append(maps, m) /\ Append(maps, m)[i] = maps[i]
         /\ Append(maps, m)[Len(maps) + 1] = m
         /\ \A i \in DOMAIN Append(maps, m) : i \in DOMAIN maps \/ i = Len(maps) + 1
BY AppendProperties

(* The pages of the new region are behind all pages that are taken. *)
LEMMA PagesBehind ==
  ASSUME NEW m \in MapType, NEW n \in MapType, m.space = p_space, Inside(n)
  PROVE  PagesApart(n, m) /\ PagesApart(m, n)
BY DEF Inside, PagesApart, Clear

(* add_mmio_map refuses a region that overlaps one it has (map.c).         *)
LEMMA AddMmioStep ==
  ASSUME MapInv, NEW r \in Regions, D!add_mmio_map(r)
  PROVE  MapInv'
<1>1. CASE D!panic
  BY <1>1, StateStep DEF D!panic
<1>2. CASE ~D!panic
  <2>1. /\ ~(D!new_space(r.len) >= IoSpaceMax) /\ ~D!report_mmio_overlap(D!Region(r))
        /\ mmio' = Append(mmio, D!Region(r)) /\ p_space' = D!new_space(r.len) /\ state = "init"
        /\ UNCHANGED <<state, pio, io_space, pmem, last, writes, spilled, outside>>
    BY <1>2 DEF D!add_mmio_map
  <2>2. MapTypes /\ MapsPlaced /\ MmioApart /\ Contents
    BY DEF MapInv
  <2> DEFINE s == D!new_space(r.len)
  <2>3. PICK m \in MapType : m = D!Region(r)
    BY <2>1, <2>2, NewRegion
  <2>4. /\ m.space = p_space /\ m.high - m.low < MSize
        /\ s \in Nat /\ s % PageSize = 0 /\ s < IoSpaceMax /\ s >= p_space
        /\ m.low <= m.high => p_space + Room(m) = s
    BY <2>1, <2>2, <2>3, NewRegion
  <2>5. mmio' = Append(mmio, m) /\ p_space' = s
    BY <2>1, <2>3
  <2> HIDE DEF s
  <2>6. /\ mmio' \in Seq(MapType) /\ DOMAIN mmio = 1..Len(mmio) /\ Len(mmio) \in Nat
        /\ \A i \in DOMAIN mmio : i \in DOMAIN mmio' /\ mmio'[i] = mmio[i] /\ mmio[i] \in MapType
        /\ mmio'[Len(mmio) + 1] = m
        /\ \A i \in DOMAIN mmio' : i \in DOMAIN mmio \/ i = Len(mmio) + 1
    <3>1. mmio \in Seq(MapType)
      BY <2>2 DEF MapTypes
    <3>2. \A i \in DOMAIN mmio : mmio[i] \in MapType
      BY <3>1
    <3>3. QED
      BY <2>5, <3>1, <3>2, TableGrows
  <2>7. MapTypes'
    BY <2>1, <2>2, <2>4, <2>5, <2>6 DEF MapTypes
  <2>8. \A n \in MapType : Inside(n) => Inside(n)'
    <3> SUFFICES ASSUME NEW n \in MapType, Inside(n), n.low <= n.high PROVE n.space + Room(n) <= s
      BY <2>5 DEF Inside
    <3>1. n.high - n.low + 1 \in Nat \ {0} /\ n.space \in Nat
      BY DEF MapType, Addrs
    <3>2. Room(n) \in Nat /\ p_space \in Nat
      BY <2>2, <3>1, Rounded DEF Room, MapTypes
    <3>3. QED
      BY <2>4, <3>1, <3>2 DEF Inside
  <2>9. Inside(m)'
    BY <2>4, <2>5 DEF Inside
  <2>10. \A i \in DOMAIN pio : pio[i] \in MapType /\ Inside(pio[i])
    BY <2>2 DEF MapTypes, MapsPlaced
  <2>11. \A i \in DOMAIN mmio : mmio[i] \in MapType /\ Inside(mmio[i])
    BY <2>2 DEF MapTypes, MapsPlaced
  <2>12. MapsPlaced'
    <3>1. \A i \in DOMAIN mmio' : (Inside(mmio[i]))'
      <4> SUFFICES ASSUME NEW i \in DOMAIN mmio' PROVE (Inside(mmio[i]))'
        OBVIOUS
      <4>1. PICK n \in MapType : n = mmio'[i]
        BY <2>7 DEF MapTypes
      <4>2. Inside(n)'
        <5>1. CASE i \in DOMAIN mmio
          BY <2>6, <2>8, <2>11, <4>1, <5>1
        <5>2. CASE i = Len(mmio) + 1
          BY <2>6, <2>9, <4>1, <5>2
        <5>3. QED
          BY <2>6, <5>1, <5>2
      <4>3. QED
        BY <4>1, <4>2 DEF Inside
    <3>2. \A i \in DOMAIN pio' : (Inside(pio[i]))'
      BY <2>1, <2>8, <2>10 DEF Inside
    <3>3. \A i, j \in DOMAIN mmio' : i # j => PagesApart(mmio'[i], mmio'[j])
      <4> SUFFICES ASSUME NEW i \in DOMAIN mmio', NEW j \in DOMAIN mmio', i # j
                   PROVE  PagesApart(mmio'[i], mmio'[j])
        OBVIOUS
      <4>1. CASE i \in DOMAIN mmio /\ j \in DOMAIN mmio
        BY <2>2, <2>6, <4>1 DEF MapsPlaced
      <4>2. CASE i = Len(mmio) + 1 /\ j \in DOMAIN mmio
        BY <2>4, <2>6, <2>11, <4>2, PagesBehind
      <4>3. CASE i \in DOMAIN mmio /\ j = Len(mmio) + 1
        BY <2>4, <2>6, <2>11, <4>3, PagesBehind
      <4>4. QED
        BY <2>6, <4>1, <4>2, <4>3
    <3>4. \A i \in DOMAIN mmio', j \in DOMAIN pio : PagesApart(mmio'[i], pio[j])
      <4> SUFFICES ASSUME NEW i \in DOMAIN mmio', NEW j \in DOMAIN pio PROVE PagesApart(mmio'[i], pio[j])
        OBVIOUS
      <4>1. CASE i \in DOMAIN mmio
        BY <2>2, <2>6, <4>1 DEF MapsPlaced
      <4>2. CASE i = Len(mmio) + 1
        BY <2>4, <2>6, <2>10, <4>2, PagesBehind
      <4>3. QED
        BY <2>6, <4>1, <4>2
    <3>5. \A i, j \in DOMAIN pio : i # j => PagesApart(pio[i], pio[j])
      BY <2>2 DEF MapsPlaced
    <3>6. pio' = pio
      BY <2>1
    <3>7. QED
      BY <3>1, <3>2, <3>3, <3>4, <3>5, <3>6 DEF MapsPlaced
  <2>13. MmioApart'
    <3>1. ~D!in_pmem(m.low) /\ ~D!in_pmem(m.high) /\ \A i \in DOMAIN mmio : ~D!Overlaps(m, mmio[i])
      BY <2>1, <2>3 DEF D!report_mmio_overlap
    <3>2. \A i \in DOMAIN mmio' : BesideMemory(mmio'[i])
      BY <2>2, <2>4, <2>6, <3>1 DEF MmioApart, BesideMemory
    <3>3. \A i \in DOMAIN mmio : ~D!Overlaps(mmio[i], m)
      <4> SUFFICES ASSUME NEW i \in DOMAIN mmio PROVE ~D!Overlaps(mmio[i], m)
        OBVIOUS
      <4>1. mmio[i] \in MapType /\ ~D!Overlaps(m, mmio[i])
        BY <2>6, <3>1
      <4>2. QED
        BY <4>1 DEF D!Overlaps, MapType, Addrs
    <3>4. \A i, j \in DOMAIN mmio' : i # j => ~D!Overlaps(mmio'[i], mmio'[j])
      BY <2>2, <2>6, <3>1, <3>3 DEF MmioApart, D!Apart
    <3>5. QED
      BY <3>2, <3>4 DEF MmioApart, D!Apart
  <2>14. Contents'
    <3>1. /\ \A o \in 0..(IoSpaceMax - 1) : io_space[o] = 0
          /\ \A x \in Addrs : last["mem"][x] = 0 /\ last["port"][x] = 0
      BY <2>1, <2>2 DEF Contents
    <3>2. last["mem"] \in Notes
      BY <2>2 DEF MapTypes
    <3>3. Holds(m, io_space, last["mem"])
      BY <2>1, <2>2, <2>3, <3>1, <3>2, FreshHolds
    <3>4. ~spilled => \A i \in DOMAIN mmio' : Holds(mmio'[i], io_space, last["mem"])
      BY <2>2, <2>6, <3>3 DEF Contents
    <3>5. MemoryHolds' <=> MemoryHolds
      BY <2>1 DEF MemoryHolds
    <3>6. QED
      BY <2>1, <2>2, <3>1, <3>4, <3>5 DEF Contents
  <2>15. QED
    BY <2>7, <2>12, <2>13, <2>14 DEF MapInv
<1>3. QED
  BY <1>1, <1>2

(* Ports are not compared with each other, but their pages are apart.      *)
LEMMA AddPioStep ==
  ASSUME MapInv, NEW r \in Regions, D!add_pio_map(r)
  PROVE  MapInv'
<1>1. CASE D!panic
  BY <1>1, StateStep DEF D!panic
<1>2. CASE ~D!panic
  <2>1. /\ ~(D!new_space(r.len) >= IoSpaceMax)
        /\ pio' = Append(pio, D!Region(r)) /\ p_space' = D!new_space(r.len) /\ state = "init"
        /\ UNCHANGED <<state, mmio, io_space, pmem, last, writes, spilled, outside>>
    BY <1>2 DEF D!add_pio_map
  <2>2. MapTypes /\ MapsPlaced /\ MmioApart /\ Contents
    BY DEF MapInv
  <2> DEFINE s == D!new_space(r.len)
  <2>3. PICK m \in MapType : m = D!Region(r)
    BY <2>1, <2>2, NewRegion
  <2>4. /\ m.space = p_space
        /\ s \in Nat /\ s % PageSize = 0 /\ s < IoSpaceMax /\ s >= p_space
        /\ m.low <= m.high => p_space + Room(m) = s
    BY <2>1, <2>2, <2>3, NewRegion
  <2>5. pio' = Append(pio, m) /\ p_space' = s
    BY <2>1, <2>3
  <2> HIDE DEF s
  <2>6. /\ pio' \in Seq(MapType) /\ DOMAIN pio = 1..Len(pio) /\ Len(pio) \in Nat
        /\ \A i \in DOMAIN pio : i \in DOMAIN pio' /\ pio'[i] = pio[i] /\ pio[i] \in MapType
        /\ pio'[Len(pio) + 1] = m
        /\ \A i \in DOMAIN pio' : i \in DOMAIN pio \/ i = Len(pio) + 1
    <3>1. pio \in Seq(MapType)
      BY <2>2 DEF MapTypes
    <3>2. \A i \in DOMAIN pio : pio[i] \in MapType
      BY <3>1
    <3>3. QED
      BY <2>5, <3>1, <3>2, TableGrows
  <2>7. MapTypes'
    BY <2>1, <2>2, <2>4, <2>5, <2>6 DEF MapTypes
  <2>8. \A n \in MapType : Inside(n) => Inside(n)'
    <3> SUFFICES ASSUME NEW n \in MapType, Inside(n), n.low <= n.high PROVE n.space + Room(n) <= s
      BY <2>5 DEF Inside
    <3>1. n.high - n.low + 1 \in Nat \ {0} /\ n.space \in Nat
      BY DEF MapType, Addrs
    <3>2. Room(n) \in Nat /\ p_space \in Nat
      BY <2>2, <3>1, Rounded DEF Room, MapTypes
    <3>3. QED
      BY <2>4, <3>1, <3>2 DEF Inside
  <2>9. Inside(m)'
    BY <2>4, <2>5 DEF Inside
  <2>10. \A i \in DOMAIN mmio : mmio[i] \in MapType /\ Inside(mmio[i])
    BY <2>2 DEF MapTypes, MapsPlaced
  <2>11. \A i \in DOMAIN pio : pio[i] \in MapType /\ Inside(pio[i])
    BY <2>2 DEF MapTypes, MapsPlaced
  <2>12. MapsPlaced'
    <3>1. \A i \in DOMAIN pio' : (Inside(pio[i]))'
      <4> SUFFICES ASSUME NEW i \in DOMAIN pio' PROVE (Inside(pio[i]))'
        OBVIOUS
      <4>1. PICK n \in MapType : n = pio'[i]
        BY <2>7 DEF MapTypes
      <4>2. Inside(n)'
        <5>1. CASE i \in DOMAIN pio
          BY <2>6, <2>8, <2>11, <4>1, <5>1
        <5>2. CASE i = Len(pio) + 1
          BY <2>6, <2>9, <4>1, <5>2
        <5>3. QED
          BY <2>6, <5>1, <5>2
      <4>3. QED
        BY <4>1, <4>2 DEF Inside
    <3>2. \A i \in DOMAIN mmio' : (Inside(mmio[i]))'
      BY <2>1, <2>8, <2>10 DEF Inside
    <3>3. \A i, j \in DOMAIN pio' : i # j => PagesApart(pio'[i], pio'[j])
      <4> SUFFICES ASSUME NEW i \in DOMAIN pio', NEW j \in DOMAIN pio', i # j
                   PROVE  PagesApart(pio'[i], pio'[j])
        OBVIOUS
      <4>1. CASE i \in DOMAIN pio /\ j \in DOMAIN pio
        BY <2>2, <2>6, <4>1 DEF MapsPlaced
      <4>2. CASE i = Len(pio) + 1 /\ j \in DOMAIN pio
        BY <2>4, <2>6, <2>11, <4>2, PagesBehind
      <4>3. CASE i \in DOMAIN pio /\ j = Len(pio) + 1
        BY <2>4, <2>6, <2>11, <4>3, PagesBehind
      <4>4. QED
        BY <2>6, <4>1, <4>2, <4>3
    <3>4. \A i \in DOMAIN mmio, j \in DOMAIN pio' : PagesApart(mmio[i], pio'[j])
      <4> SUFFICES ASSUME NEW i \in DOMAIN mmio, NEW j \in DOMAIN pio' PROVE PagesApart(mmio[i], pio'[j])
        OBVIOUS
      <4>1. CASE j \in DOMAIN pio
        BY <2>2, <2>6, <4>1 DEF MapsPlaced
      <4>2. CASE j = Len(pio) + 1
        BY <2>4, <2>6, <2>10, <4>2, PagesBehind
      <4>3. QED
        BY <2>6, <4>1, <4>2
    <3>5. \A i, j \in DOMAIN mmio : i # j => PagesApart(mmio[i], mmio[j])
      BY <2>2 DEF MapsPlaced
    <3>6. mmio' = mmio
      BY <2>1
    <3>7. QED
      BY <3>1, <3>2, <3>3, <3>4, <3>5, <3>6 DEF MapsPlaced
  <2>13. MmioApart'
    BY <2>1, <2>2 DEF MmioApart
  <2>14. Contents'
    <3>1. /\ \A o \in 0..(IoSpaceMax - 1) : io_space[o] = 0
          /\ \A x \in Addrs : last["mem"][x] = 0 /\ last["port"][x] = 0
      BY <2>1, <2>2 DEF Contents
    <3>2. last["port"] \in Notes
      BY <2>2 DEF MapTypes
    <3>3. Holds(m, io_space, last["port"])
      BY <2>1, <2>2, <2>3, <3>1, <3>2, FreshHolds
    <3>4. D!Apart(pio') => D!Apart(pio)
      BY <2>6 DEF D!Apart
    <3>5. ~spilled /\ D!Apart(pio') => \A i \in DOMAIN pio' : Holds(pio'[i], io_space, last["port"])
      BY <2>2, <2>6, <3>3, <3>4 DEF Contents
    <3>6. MemoryHolds' <=> MemoryHolds
      BY <2>1 DEF MemoryHolds
    <3>7. QED
      BY <2>1, <2>2, <3>1, <3>5, <3>6 DEF Contents
  <2>15. QED
    BY <2>7, <2>12, <2>13, <2>14 DEF MapInv
<1>3. QED
  BY <1>1, <1>2

-----------------------------------------------------------------------------
(* map_write: what a write to a region changes, and that it stays in       *)
(* io_space although it may run past the region.                           *)
LEMMA MapWritten ==
  ASSUME MapTypes, NEW b \in {"mem", "port"}, NEW m \in MapType, Inside(m), NEW a \in m.low..m.high,
         NEW len \in Widths, NEW tag \in Nat, D!map_write(m, b, a, len, tag)
  PROVE  /\ io_space' = D!Stored(io_space, D!Offset(m, a), len, tag) /\ io_space' \in IoBytes
         /\ last'[b] = NotedIn(last[b], a, len, m.high, tag)
         /\ last' \in [{"mem", "port"} -> Notes]
         /\ \A c \in {"mem", "port"} : c # b => last'[c] = last[c]
         /\ pmem' = pmem /\ spilled' \in BOOLEAN /\ outside' = FALSE
         /\ ~spilled' => ~spilled /\ a + len - m.low <= Room(m)
<1> USE MapAssumption
<1>1. /\ io_space' = D!Stored(io_space, D!Offset(m, a), len, tag)
      /\ outside' = (outside \/ D!Offset(m, a) + len > IoSpaceMax)
      /\ spilled' = (spilled \/ a + len - m.low > ((m.high - m.low + PageSize) \div PageSize) * PageSize)
      /\ last' = [last EXCEPT ![b] = NotedIn(last[b], a, len, m.high, tag)]
      /\ pmem' = pmem
  BY DEF D!map_write, D!Noted, NotedIn, D!Addrs, Addrs
<1>2. /\ p_space \in Nat /\ p_space % PageSize = 0 /\ p_space < IoSpaceMax
      /\ io_space \in IoBytes /\ last \in [{"mem", "port"} -> Notes]
      /\ spilled \in BOOLEAN /\ outside = FALSE
  BY DEF MapTypes
<1>3. /\ m.low \in Nat /\ m.high \in Nat /\ m.space \in Nat /\ m.low <= m.high
      /\ a \in Nat /\ a >= m.low /\ a <= m.high /\ len \in 1..PageSize
  BY DEF MapType, Addrs
<1>4. m.high - m.low + 1 \in Nat \ {0}
  BY <1>3
<1>5. /\ Room(m) \in Nat /\ Room(m) >= m.high - m.low + 1 /\ m.space + Room(m) <= p_space
  BY <1>3, <1>4, Rounded DEF Room, Inside
<1>6. p_space + PageSize <= IoSpaceMax
  BY <1>2, WholePages
<1>7. outside' = FALSE
  <2>1. D!Offset(m, a) + len <= IoSpaceMax
    BY <1>2, <1>3, <1>5, <1>6 DEF D!Offset
  <2>2. D!Offset(m, a) + len \in Int
    BY <1>3 DEF D!Offset
  <2>3. ~(D!Offset(m, a) + len > IoSpaceMax)
    BY <2>1, <2>2
  <2>4. QED
    BY <1>1, <1>2, <2>3, Zenon
<1>8. ((m.high - m.low + PageSize) \div PageSize) * PageSize = Room(m)
  <2>1. m.high - m.low + 1 + PageSize - 1 = m.high - m.low + PageSize
    BY <1>3
  <2>2. QED
    BY <2>1 DEF Room, D!RoundUp
<1>9. spilled' \in BOOLEAN /\ (~spilled' => ~spilled /\ a + len - m.low <= Room(m))
  <2>1. a + len - m.low \in Int /\ Room(m) \in Int
    BY <1>3, <1>5
  <2>2. spilled' = (spilled \/ a + len - m.low > Room(m))
    BY <1>1, <1>8
  <2> DEFINE past == a + len - m.low > Room(m)
  <2>3. ~past => a + len - m.low <= Room(m)
    BY <2>1
  <2>4. spilled' = (spilled \/ past)
    BY <2>2
  <2> HIDE DEF past
  <2>5. QED
    BY <1>2, <2>3, <2>4
<1>10. io_space' \in IoBytes
  <2>1. DOMAIN io_space = 0..(IoSpaceMax - 1)
    BY <1>2 DEF IoBytes
  <2>2. QED
    BY <1>1, <1>2, <2>1 DEF D!Stored, IoBytes
<1>11. NotedIn(last[b], a, len, m.high, tag) \in Notes
  BY <1>2 DEF NotedIn, Notes
<1>12. QED
  BY <1>1, <1>2, <1>7, <1>9, <1>10, <1>11

(* A write leaves the tables and the places of the regions alone.          *)
LEMMA WrittenPlaced ==
  ASSUME MapInv, D!Written
  PROVE  MapsPlaced' /\ MmioApart' /\ writes' \in Nat /\ mmio' = mmio /\ pio' = pio /\ p_space' = p_space
<1>1. mmio' = mmio /\ pio' = pio /\ p_space' = p_space /\ writes' = writes + 1
  BY DEF D!Written
<1>2. MapsPlaced'
  BY <1>1 DEF MapInv, MapsPlaced, Inside
<1>3. MmioApart'
  BY <1>1 DEF MapInv, MmioApart
<1>4. QED
  BY <1>1, <1>2, <1>3 DEF MapInv, MapTypes

(* mmio_write: only the region that holds the address changes.             *)
LEMMA MmioWriteStep ==
  ASSUME MapInv, NEW a \in Addrs, NEW len \in Widths, state = "run", state' = state, ~D!in_pmem(a),
         D!find_mapid_by_addr(mmio, a) # -1, D!Written,
         D!map_write(mmio[D!find_mapid_by_addr(mmio, a)], "mem", a, len, writes + 1)
  PROVE  MapInv'
<1>1. MapTypes /\ MapsPlaced /\ MmioApart /\ Contents
  BY DEF MapInv
<1>2. PICK k \in DOMAIN mmio : k = D!find_mapid_by_addr(mmio, a) /\ a \in mmio[k].low..mmio[k].high
  BY <1>1, Found DEF MapTypes
<1>3. PICK m \in MapType : m = mmio[k]
  BY <1>1, <1>2 DEF MapTypes
<1>4. PICK tag \in Nat : tag = writes + 1
  BY <1>1 DEF MapTypes
<1>5. Inside(m) /\ a \in m.low..m.high /\ D!map_write(m, "mem", a, len, tag)
  BY <1>1, <1>2, <1>3, <1>4 DEF MapsPlaced
<1>6. /\ io_space' = D!Stored(io_space, D!Offset(m, a), len, tag) /\ io_space' \in IoBytes
      /\ last'["mem"] = NotedIn(last["mem"], a, len, m.high, tag)
      /\ last' \in [{"mem", "port"} -> Notes]
      /\ last'["port"] = last["port"]
      /\ pmem' = pmem /\ spilled' \in BOOLEAN /\ outside' = FALSE
      /\ ~spilled' => ~spilled /\ a + len - m.low <= Room(m)
  BY <1>1, <1>5, MapWritten
<1>7. /\ MapsPlaced' /\ MmioApart' /\ writes' \in Nat /\ mmio' = mmio /\ pio' = pio /\ p_space' = p_space
  BY WrittenPlaced
<1>8. MapTypes'
  BY <1>1, <1>6, <1>7 DEF MapTypes
<1>9. ASSUME ~spilled', NEW n \in MapType, Inside(n), PagesApart(m, n),
             NEW b \in {"mem", "port"}, b = "port" \/ ~D!Overlaps(m, n), Holds(n, io_space, last[b])
      PROVE  Holds(n, io_space', last'[b])
  <2>1. last[b] \in Notes /\ io_space \in IoBytes
    BY <1>1 DEF MapTypes
  <2>2. n.low <= n.high => Clear(m, n) /\ n.space + Room(n) <= IoSpaceMax
    <3> SUFFICES ASSUME n.low <= n.high PROVE Clear(m, n) /\ n.space + Room(n) <= IoSpaceMax
      OBVIOUS
    <3>1. m.low <= m.high
      BY <1>5 DEF MapType, Addrs
    <3>2. n.high - n.low + 1 \in Nat \ {0} /\ n.space \in Nat
      BY DEF MapType, Addrs
    <3>3. Room(n) \in Nat
      BY <3>2, Rounded DEF Room
    <3>4. p_space \in Nat /\ p_space < IoSpaceMax /\ IoSpaceMax \in Nat
      BY <1>1, MapAssumption DEF MapTypes
    <3>5. QED
      BY <1>9, <3>1, <3>2, <3>3, <3>4 DEF PagesApart, Inside
  <2>3. last'[b] = last[b] \/ (last'[b] = NotedIn(last[b], a, len, m.high, tag) /\ ~D!Overlaps(m, n))
    BY <1>6, <1>9
  <2>4. a + len - m.low <= Room(m)
    BY <1>6, <1>9
  <2>5. QED
    BY <1>5, <1>6, <1>9, <2>1, <2>2, <2>3, <2>4, WriteElsewhere
<1>10. ASSUME ~spilled' PROVE Holds(m, io_space', last'["mem"])
  <2>1. Holds(m, io_space, last["mem"]) /\ last["mem"] \in Notes /\ io_space \in IoBytes
    BY <1>1, <1>2, <1>3, <1>6, <1>10 DEF Contents, MapTypes
  <2>2. m.low \in Nat /\ m.high \in Nat /\ m.space \in Nat /\ m.low <= m.high
    BY <1>5 DEF MapType, Addrs
  <2>3. m.high - m.low + 1 \in Nat \ {0}
    BY <2>2
  <2>4. Room(m) \in Nat /\ Room(m) >= m.high - m.low + 1 /\ p_space \in Nat /\ p_space < IoSpaceMax
    BY <1>1, <2>3, Rounded DEF Room, MapTypes
  <2>5. m.space + (m.high - m.low) < IoSpaceMax
    BY <1>5, <2>2, <2>4, MapAssumption DEF Inside
  <2>6. QED
    BY <1>5, <1>6, <2>1, <2>5, WriteHere
<1>11. ASSUME ~spilled' PROVE MemoryHolds'
  <2> SUFFICES ASSUME NEW x \in MBase..(MBase + MSize - 1)
               PROVE  pmem[x - MBase] = NotedIn(last["mem"], a, len, m.high, tag)[x]
    BY <1>6 DEF MemoryHolds
  <2>1. pmem[x - MBase] = last["mem"][x]
    BY <1>1, <1>6, <1>11 DEF Contents, MemoryHolds
  <2>2. x \in Addrs
    BY MapAssumption DEF Addrs
  <2>3. BesideMemory(m) /\ m.low \in Addrs /\ m.high \in Addrs /\ a \in Int /\ a >= m.low /\ a <= m.high
    BY <1>1, <1>2, <1>3, <1>5 DEF MmioApart, MapType, Addrs
  <2>4. ~(x >= a /\ x <= m.high)
    BY <2>2, <2>3, InMemory, MapAssumption DEF BesideMemory, Addrs
  <2>5. QED
    BY <2>1, <2>2, <2>4 DEF NotedIn
<1>12. ASSUME ~spilled', NEW i \in DOMAIN mmio PROVE Holds(mmio[i], io_space', last'["mem"])
  <2>1. CASE i = k
    BY <1>3, <1>10, <1>12, <2>1
  <2>2. CASE i # k
    <3>1. PICK n \in MapType : n = mmio[i]
      BY <1>1 DEF MapTypes
    <3>2. Inside(n) /\ PagesApart(m, n) /\ ~D!Overlaps(m, n)
      BY <1>1, <1>2, <1>3, <2>2, <3>1 DEF MapsPlaced, MmioApart, D!Apart
    <3>3. Holds(n, io_space, last["mem"])
      BY <1>1, <1>6, <1>12, <3>1 DEF Contents
    <3>4. QED
      BY <1>9, <1>12, <3>1, <3>2, <3>3
  <2>3. QED
    BY <2>1, <2>2
<1>13. ASSUME ~spilled', D!Apart(pio), NEW i \in DOMAIN pio PROVE Holds(pio[i], io_space', last'["port"])
  <2>1. PICK n \in MapType : n = pio[i]
    BY <1>1 DEF MapTypes
  <2>2. Inside(n) /\ PagesApart(m, n)
    BY <1>1, <1>2, <1>3, <2>1 DEF MapsPlaced
  <2>3. Holds(n, io_space, last["port"])
    BY <1>1, <1>6, <1>13, <2>1 DEF Contents
  <2>4. QED
    BY <1>9, <1>13, <2>1, <2>2, <2>3
<1>14. Contents'
  <2>1. state' # "init"
    OBVIOUS
  <2>2. QED
    BY <1>7, <1>11, <1>12, <1>13, <2>1 DEF Contents
<1>15. QED
  BY <1>7, <1>8, <1>14 DEF MapInv

(* pio_write: a port that belongs to one region changes that one only.     *)
LEMMA PioWriteStep ==
  ASSUME MapInv, NEW a \in Addrs, NEW len \in Widths, state = "run", state' = state,
         D!find_mapid_by_addr(pio, a) # -1, D!Written,
         D!map_write(pio[D!find_mapid_by_addr(pio, a)], "port", a, len, writes + 1)
  PROVE  MapInv'
<1>1. MapTypes /\ MapsPlaced /\ MmioApart /\ Contents
  BY DEF MapInv
<1>2. PICK k \in DOMAIN pio : k = D!find_mapid_by_addr(pio, a) /\ a \in pio[k].low..pio[k].high
  BY <1>1, Found DEF MapTypes
<1>3. PICK m \in MapType : m = pio[k]
  BY <1>1, <1>2 DEF MapTypes
<1>4. PICK tag \in Nat : tag = writes + 1
  BY <1>1 DEF MapTypes
<1>5. Inside(m) /\ a \in m.low..m.high /\ D!map_write(m, "port", a, len, tag)
  BY <1>1, <1>2, <1>3, <1>4 DEF MapsPlaced
<1>6. /\ io_space' = D!Stored(io_space, D!Offset(m, a), len, tag) /\ io_space' \in IoBytes
      /\ last'["port"] = NotedIn(last["port"], a, len, m.high, tag)
      /\ last' \in [{"mem", "port"} -> Notes]
      /\ last'["mem"] = last["mem"]
      /\ pmem' = pmem /\ spilled' \in BOOLEAN /\ outside' = FALSE
      /\ ~spilled' => ~spilled /\ a + len - m.low <= Room(m)
  BY <1>1, <1>5, MapWritten
<1>7. /\ MapsPlaced' /\ MmioApart' /\ writes' \in Nat /\ mmio' = mmio /\ pio' = pio /\ p_space' = p_space
  BY WrittenPlaced
<1>8. MapTypes'
  BY <1>1, <1>6, <1>7 DEF MapTypes
<1>9. ASSUME ~spilled', NEW n \in MapType, Inside(n), PagesApart(m, n),
             NEW b \in {"mem", "port"}, b = "mem" \/ ~D!Overlaps(m, n), Holds(n, io_space, last[b])
      PROVE  Holds(n, io_space', last'[b])
  <2>1. last[b] \in Notes /\ io_space \in IoBytes
    BY <1>1 DEF MapTypes
  <2>2. n.low <= n.high => Clear(m, n) /\ n.space + Room(n) <= IoSpaceMax
    <3> SUFFICES ASSUME n.low <= n.high PROVE Clear(m, n) /\ n.space + Room(n) <= IoSpaceMax
      OBVIOUS
    <3>1. m.low <= m.high
      BY <1>5 DEF MapType, Addrs
    <3>2. n.high - n.low + 1 \in Nat \ {0} /\ n.space \in Nat
      BY DEF MapType, Addrs
    <3>3. Room(n) \in Nat
      BY <3>2, Rounded DEF Room
    <3>4. p_space \in Nat /\ p_space < IoSpaceMax /\ IoSpaceMax \in Nat
      BY <1>1, MapAssumption DEF MapTypes
    <3>5. QED
      BY <1>9, <3>1, <3>2, <3>3, <3>4 DEF PagesApart, Inside
  <2>3. last'[b] = last[b] \/ (last'[b] = NotedIn(last[b], a, len, m.high, tag) /\ ~D!Overlaps(m, n))
    BY <1>6, <1>9
  <2>4. a + len - m.low <= Room(m)
    BY <1>6, <1>9
  <2>5. QED
    BY <1>5, <1>6, <1>9, <2>1, <2>2, <2>3, <2>4, WriteElsewhere
<1>10. ASSUME ~spilled', D!Apart(pio) PROVE Holds(m, io_space', last'["port"])
  <2>1. Holds(m, io_space, last["port"]) /\ last["port"] \in Notes /\ io_space \in IoBytes
    BY <1>1, <1>2, <1>3, <1>6, <1>10 DEF Contents, MapTypes
  <2>2. m.low \in Nat /\ m.high \in Nat /\ m.space \in Nat /\ m.low <= m.high
    BY <1>5 DEF MapType, Addrs
  <2>3. m.high - m.low + 1 \in Nat \ {0}
    BY <2>2
  <2>4. Room(m) \in Nat /\ Room(m) >= m.high - m.low + 1 /\ p_space \in Nat /\ p_space < IoSpaceMax
    BY <1>1, <2>3, Rounded DEF Room, MapTypes
  <2>5. m.space + (m.high - m.low) < IoSpaceMax
    BY <1>5, <2>2, <2>4, MapAssumption DEF Inside
  <2>6. QED
    BY <1>5, <1>6, <2>1, <2>5, WriteHere
<1>11. ASSUME ~spilled' PROVE MemoryHolds'
  BY <1>1, <1>6, <1>11 DEF Contents, MemoryHolds
<1>12. ASSUME ~spilled', D!Apart(pio), NEW i \in DOMAIN pio PROVE Holds(pio[i], io_space', last'["port"])
  <2>1. CASE i = k
    BY <1>3, <1>10, <1>12, <2>1
  <2>2. CASE i # k
    <3>1. PICK n \in MapType : n = pio[i]
      BY <1>1 DEF MapTypes
    <3>2. Inside(n) /\ PagesApart(m, n) /\ ~D!Overlaps(m, n)
      BY <1>1, <1>2, <1>3, <1>12, <2>2, <3>1 DEF MapsPlaced, D!Apart
    <3>3. Holds(n, io_space, last["port"])
      BY <1>1, <1>6, <1>12, <3>1 DEF Contents
    <3>4. QED
      BY <1>9, <1>12, <3>1, <3>2, <3>3
  <2>3. QED
    BY <2>1, <2>2
<1>13. ASSUME ~spilled', NEW i \in DOMAIN mmio PROVE Holds(mmio[i], io_space', last'["mem"])
  <2>1. PICK n \in MapType : n = mmio[i]
    BY <1>1 DEF MapTypes
  <2>2. Inside(n) /\ PagesApart(m, n)
    <3>1. PagesApart(n, m)
      BY <1>1, <1>2, <1>3, <2>1 DEF MapsPlaced
    <3>2. QED
      BY <1>1, <2>1, <3>1 DEF MapsPlaced, PagesApart, Clear
  <2>3. Holds(n, io_space, last["mem"])
    BY <1>1, <1>6, <1>13, <2>1 DEF Contents
  <2>4. QED
    BY <1>9, <1>13, <2>1, <2>2, <2>3
<1>14. Contents'
  <2>1. state' # "init"
    OBVIOUS
  <2>2. QED
    BY <1>7, <1>11, <1>12, <1>13, <2>1 DEF Contents
<1>15. QED
  BY <1>7, <1>8, <1>14 DEF MapInv

(* pmem_write: no region changes.                                          *)
LEMMA PmemWriteStep ==
  ASSUME MapInv, NEW a \in Addrs, NEW len \in Widths, state = "run", state' = state, D!in_pmem(a),
         D!Written, D!pmem_write(a, len, writes + 1)
  PROVE  MapInv'
<1> USE MapAssumption
<1>1. MapTypes /\ MapsPlaced /\ MmioApart /\ Contents
  BY DEF MapInv
<1>2. PICK tag \in Nat : tag = writes + 1
  BY <1>1 DEF MapTypes
<1> DEFINE past == a - MBase + len > MSize
           hi == MBase + MSize - 1
<1>3. /\ pmem' = D!Stored(pmem, a - MBase, len, tag)
      /\ spilled' = (spilled \/ past)
      /\ last' = [last EXCEPT !["mem"] = NotedIn(last["mem"], a, len, hi, tag)]
      /\ io_space' = io_space /\ outside' = outside
  BY <1>2 DEF D!pmem_write, D!Noted, NotedIn, D!Addrs, Addrs
<1> HIDE DEF past
<1>4. /\ last \in [{"mem", "port"} -> Notes] /\ pmem \in [0..(MSize - 1) -> Nat] /\ spilled \in BOOLEAN
      /\ NotedIn(last["mem"], a, len, hi, tag) \in Notes
  BY <1>1 DEF MapTypes, NotedIn, Notes
<1>5. /\ last' \in [{"mem", "port"} -> Notes] /\ last'["port"] = last["port"]
      /\ last'["mem"] = NotedIn(last["mem"], a, len, hi, tag)
  BY <1>3, <1>4
<1>6. pmem' \in [0..(MSize - 1) -> Nat]
  <2>1. DOMAIN pmem = 0..(MSize - 1)
    BY <1>4
  <2>2. QED
    BY <1>3, <1>4, <2>1 DEF D!Stored
<1>7. /\ MapsPlaced' /\ MmioApart' /\ writes' \in Nat /\ mmio' = mmio /\ pio' = pio /\ p_space' = p_space
  BY WrittenPlaced
<1>8. MapTypes'
  <2>1. spilled' \in BOOLEAN
    BY <1>3
  <2>2. QED
    BY <1>1, <1>3, <1>5, <1>6, <1>7, <2>1 DEF MapTypes
<1>9. ~spilled' => ~spilled
  BY <1>3
<1>10. a >= MBase /\ a < MBase + MSize /\ a \in Int /\ len \in Nat
  BY InMemory DEF Addrs
<1>11. ASSUME ~spilled' PROVE MemoryHolds'
  <2> SUFFICES ASSUME NEW x \in MBase..hi
               PROVE  pmem'[x - MBase] = NotedIn(last["mem"], a, len, hi, tag)[x]
    BY <1>5 DEF MemoryHolds
  <2>1. pmem[x - MBase] = last["mem"][x]
    BY <1>1, <1>9, <1>11 DEF Contents, MemoryHolds
  <2>2. x \in Addrs /\ x <= hi
    BY DEF Addrs
  <2>3. x - MBase \in DOMAIN pmem
    <3>1. DOMAIN pmem = 0..(MSize - 1)
      BY <1>4
    <3>2. QED
      BY <3>1
  <2> DEFINE o == x - MBase
  <2>4. (o >= a - MBase <=> x >= a) /\ (o < a - MBase + len <=> x < a + len)
    BY <1>10
  <2> HIDE DEF o, hi
  <2>5. pmem'[o] = IF o >= a - MBase /\ o < a - MBase + len THEN tag ELSE pmem[o]
    BY <1>3, <2>3 DEF D!Stored, o
  <2>6. NotedIn(last["mem"], a, len, hi, tag)[x] = IF x >= a /\ x < a + len THEN tag ELSE last["mem"][x]
    BY <2>2 DEF NotedIn
  <2>7. QED
    BY <2>1, <2>4, <2>5, <2>6 DEF o
<1>12. ASSUME ~spilled', NEW i \in DOMAIN mmio PROVE Holds(mmio[i], io_space', last'["mem"])
  <2>1. PICK n \in MapType : n = mmio[i]
    BY <1>1 DEF MapTypes
  <2>2. Holds(n, io_space, last["mem"]) /\ BesideMemory(n) /\ n.low \in Addrs /\ n.high \in Addrs
    BY <1>1, <1>9, <1>12, <2>1 DEF Contents, MmioApart, MapType
  <2> SUFFICES ASSUME NEW x \in n.low..n.high
               PROVE  NotedIn(last["mem"], a, len, hi, tag)[x] = last["mem"][x]
    BY <1>3, <1>5, <2>1, <2>2 DEF Holds
  <2>3. x \in Addrs
    BY <2>2 DEF Addrs
  <2>4. ~(x >= a /\ x <= hi)
    BY <1>10, <2>2, <2>3, InMemory DEF BesideMemory, Addrs
  <2>5. QED
    BY <2>3, <2>4 DEF NotedIn
<1>13. ~spilled' /\ D!Apart(pio) => \A i \in DOMAIN pio : Holds(pio[i], io_space', last'["port"])
  BY <1>1, <1>3, <1>5, <1>9 DEF Contents
<1>14. Contents'
  <2>1. state' # "init"
    OBVIOUS
  <2>2. QED
    BY <1>7, <1>11, <1>12, <1>13, <2>1 DEF Contents
<1>15. QED
  BY <1>7, <1>8, <1>14 DEF MapInv

(* Every step keeps the regions apart and their contents.                  *)
LEMMA MapStep ==
  MapInv /\ [D!Next]_(D!vars) => MapInv'
<1> SUFFICES ASSUME MapInv, [D!Next]_(D!vars) PROVE MapInv'
  OBVIOUS
<1>0. D!Addrs = Addrs
  BY DEF D!Addrs, Addrs
<1>1. CASE UNCHANGED D!vars
  BY <1>1, StateStep DEF D!vars
<1>2. ASSUME NEW r \in Regions, D!add_mmio_map(r) PROVE MapInv'
  BY <1>2, AddMmioStep
<1>3. ASSUME NEW r \in Regions, D!add_pio_map(r) PROVE MapInv'
  BY <1>3, AddPioStep
<1>4. CASE D!init_device
  BY <1>4, StateStep DEF D!init_device
<1>5. ASSUME NEW a \in D!Addrs, NEW len \in Widths, D!paddr_write(a, len) PROVE MapInv'
  <2>1. CASE D!panic
    BY <2>1, StateStep DEF D!panic
  <2>2. CASE D!in_pmem(a) /\ D!Written /\ D!pmem_write(a, len, writes + 1) /\ state' = state /\ state = "run"
    BY <1>0, <2>2, PmemWriteStep
  <2>3. CASE /\ ~D!in_pmem(a) /\ D!find_mapid_by_addr(mmio, a) # -1 /\ D!Written /\ state' = state /\ state = "run"
             /\ D!map_write(mmio[D!find_mapid_by_addr(mmio, a)], "mem", a, len, writes + 1)
    BY <1>0, <2>3, MmioWriteStep
  <2>4. QED
    BY <1>5, <2>1, <2>2, <2>3 DEF D!paddr_write
<1>6. ASSUME NEW a \in D!Addrs, NEW len \in Widths, D!pio_write(a, len) PROVE MapInv'
  <2>1. CASE D!panic
    BY <2>1, StateStep DEF D!panic
  <2>2. CASE /\ D!find_mapid_by_addr(pio, a) # -1 /\ D!Written /\ state' = state /\ state = "run"
             /\ D!map_write(pio[D!find_mapid_by_addr(pio, a)], "port", a, len, writes + 1)
    BY <1>0, <2>2, PioWriteStep
  <2>3. QED
    BY <1>6, <2>1, <2>2 DEF D!pio_write
<1>7. QED
  BY <1>1, <1>2, <1>3, <1>4, <1>5, <1>6 DEF D!Next

(***************************************************************************)
(* map.c, mmio.c, port-io.c, paddr.c: for every layout of regions that the *)
(* devices may ask for, in every order, and for accesses up to a page, no  *)
(* access leaves io_space, and one that stays in the pages of its region   *)
(* changes that region only.                                               *)
(***************************************************************************)
THEOREM RegionsAreApart == D!Spec => []RegionsKeepApart
<1> USE MapAssumption
<1>1. D!Init => MapInv
  <2> SUFFICES ASSUME D!Init PROVE MapInv
    OBVIOUS
  <2> DEFINE none == [x \in Addrs |-> 0]
  <2>1. /\ state = "init" /\ mmio = <<>> /\ pio = <<>> /\ p_space = 0 /\ writes = 0 /\ spilled = FALSE /\ outside = FALSE
        /\ io_space = [i \in 0..(IoSpaceMax - 1) |-> 0] /\ pmem = [i \in 0..(MSize - 1) |-> 0]
        /\ last = [b \in {"mem", "port"} |-> none]
    BY DEF D!Init, D!Addrs, Addrs
  <2>2. none \in Notes /\ \A x \in Addrs : none[x] = 0
    BY DEF Notes
  <2>3. p_space % PageSize = 0 /\ p_space \in Nat /\ p_space < IoSpaceMax
    BY <2>1
  <2>4. last \in [{"mem", "port"} -> Notes] /\ last["mem"] = none /\ last["port"] = none
    BY <2>1, <2>2
  <2>5. mmio \in Seq(MapType) /\ pio \in Seq(MapType) /\ DOMAIN mmio = {} /\ DOMAIN pio = {}
    BY <2>1
  <2>6. MapTypes
    BY <2>1, <2>3, <2>4, <2>5 DEF MapTypes, IoBytes
  <2>7. MapsPlaced /\ MmioApart
    BY <2>5 DEF MapsPlaced, MmioApart, D!Apart
  <2>8. Contents
    <3>1. MemoryHolds
      <4> SUFFICES ASSUME NEW x \in MBase..(MBase + MSize - 1) PROVE pmem[x - MBase] = last["mem"][x]
        BY DEF MemoryHolds
      <4>1. x \in Addrs /\ x - MBase \in 0..(MSize - 1)
        BY DEF Addrs
      <4>2. QED
        BY <2>1, <2>2, <2>4, <4>1
    <3>2. QED
      BY <2>1, <2>2, <2>4, <2>5, <3>1 DEF Contents
  <2>9. QED
    BY <2>6, <2>7, <2>8 DEF MapInv
<1>2. MapInv => RegionsKeepApart
  <2> SUFFICES ASSUME MapInv PROVE D!RegionsKeepApart
    BY DEF RegionsKeepApart
  <2>1. MapTypes /\ MmioApart /\ Contents
    BY DEF MapInv
  <2>2. ASSUME NEW a \in Addrs, NEW maps \in Seq(MapType), D!find_mapid_by_addr(maps, a) # -1,
               NEW la, \A i \in DOMAIN maps : Holds(maps[i], io_space, la)
        PROVE  D!map_read(maps[D!find_mapid_by_addr(maps, a)], a) = la[a]
    <3>1. PICK k \in DOMAIN maps : k = D!find_mapid_by_addr(maps, a) /\ a \in maps[k].low..maps[k].high
      BY <2>2, Found
    <3>2. PICK m \in MapType : m = maps[k]
      OBVIOUS
    <3>3. m.space + (a - m.low) = D!Offset(m, a)
      BY DEF D!Offset, MapType, Addrs
    <3>4. io_space[m.space + (a - m.low)] = la[a]
      BY <2>2, <3>1, <3>2 DEF Holds
    <3>5. QED
      BY <3>1, <3>2, <3>3, <3>4 DEF D!map_read
  <2>3. ASSUME NEW a \in Addrs, D!in_pmem(a) PROVE D!find_mapid_by_addr(mmio, a) = -1
    <3> SUFFICES ASSUME D!find_mapid_by_addr(mmio, a) # -1 PROVE FALSE
      OBVIOUS
    <3>1. PICK k \in DOMAIN mmio : a \in mmio[k].low..mmio[k].high
      BY <2>1, Found DEF MapTypes
    <3>2. PICK m \in MapType : m = mmio[k]
      BY <2>1 DEF MapTypes
    <3>3. BesideMemory(m) /\ m.low \in Addrs /\ m.high \in Addrs /\ a >= m.low /\ a <= m.high
      BY <2>1, <3>1, <3>2 DEF MmioApart, MapType, Addrs
    <3>4. QED
      BY <2>3, <3>3, InMemory DEF BesideMemory, Addrs
  <2>4. ASSUME NEW a \in Addrs, ~spilled, D!in_pmem(a) \/ D!find_mapid_by_addr(mmio, a) # -1
        PROVE  D!paddr_read(a) = last["mem"][a]
    <3>1. CASE D!in_pmem(a)
      <4>1. a \in MBase..(MBase + MSize - 1)
        BY <3>1, InMemory DEF Addrs
      <4>2. pmem[a - MBase] = last["mem"][a]
        BY <2>1, <2>4, <4>1 DEF Contents, MemoryHolds
      <4>3. QED
        BY <3>1, <4>2 DEF D!paddr_read
    <3>2. CASE ~D!in_pmem(a)
      <4>1. D!map_read(mmio[D!find_mapid_by_addr(mmio, a)], a) = last["mem"][a]
        BY <2>1, <2>2, <2>4, <3>2 DEF Contents, MapTypes
      <4>2. QED
        BY <3>2, <4>1 DEF D!paddr_read
    <3>3. QED
      BY <3>1, <3>2
  <2>5. ASSUME NEW a \in Addrs, ~spilled, D!Apart(pio), D!find_mapid_by_addr(pio, a) # -1
        PROVE  D!pio_read(a) = last["port"][a]
    BY <2>1, <2>2, <2>5 DEF Contents, MapTypes, D!pio_read
  <2>6. outside = FALSE /\ D!Apart(mmio) /\ D!Addrs = Addrs
    BY <2>1 DEF MapTypes, MmioApart, D!Addrs, Addrs
  <2>7. QED
    BY <2>3, <2>4, <2>5, <2>6 DEF D!RegionsKeepApart
<1>3. QED
  BY <1>1, <1>2, MapStep, PTL DEF D!Spec
=============================================================================
