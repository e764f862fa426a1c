----------------------------- MODULE AudioProofs ----------------------------
(***************************************************************************)
(* Proofs about Audio for every buffer size, every length the program      *)
(* plays and every length SDL asks for.                                    *)
(***************************************************************************)
EXTENDS Audio, SequenceTheorems, TLAPS

(* From its first read of the count on, the driver's copy is an upper      *)
(* bound of the count: only the callback changes it, and it only lowers it. *)
CountOnlyFalls ==
  /\ phase \in {"wait", "copy"} => sbuf_count <= in_use_size /\ audio_len \in Lens
  /\ phase = "wait" => i = 0
  /\ phase = "copy" => in_use_size + audio_len <= SB_SIZE /\ i <= audio_len

IInv == TypeOK /\ CountOnlyFalls

(* The samples taken from the front of the buffer. *)
LEMMA FirstSamplesType ==
  ASSUME TypeOK, NEW k \in 0 .. SB_SIZE
  PROVE  FirstSamples(k) \in Seq(Nat)
BY SizeAssumption DEF TypeOK, FirstSamples, Slots

(* The callback only lowers the count, and appends to what was played. *)
LEMMA CallbackStep ==
  ASSUME IInv, NEW len \in StreamLens, audio_callback(len)
  PROVE  IInv'
<1> USE SizeAssumption DEF IInv, TypeOK
<1>0. len \in Nat \ {0} /\ sbuf_count \in Nat
  OBVIOUS
<1>1. CASE sbuf_count > len
  <2>1. len \in 0 .. SB_SIZE /\ sbuf_count' = sbuf_count - len
    BY <1>0, <1>1 DEF audio_callback
  <2>2. played' \in Seq(Nat)
    <3>1. FirstSamples(len) \in Seq(Nat)
      BY <2>1, FirstSamplesType
    <3>2. played' = played \o FirstSamples(len)
      BY <1>1 DEF audio_callback
    <3>3. QED
      BY <3>1, <3>2, ConcatProperties
  <2>3. sbuf' \in [Slots -> Nat]
    <3>1. ASSUME NEW k \in Slots, k < sbuf_count - len
          PROVE  k + len \in Slots
      BY <1>0, <1>1, <3>1 DEF Slots
    <3>2. QED
      BY <1>1, <3>1 DEF audio_callback
  <2>4. QED
    BY <1>0, <1>1, <2>1, <2>2, <2>3 DEF audio_callback, driver, CountOnlyFalls
<1>2. CASE ~(sbuf_count > len)
  <2>1. played' \in Seq(Nat)
    <3>1. FirstSamples(sbuf_count) \in Seq(Nat)
      BY FirstSamplesType
    <3>2. played' = played \o FirstSamples(sbuf_count)
      BY <1>2 DEF audio_callback
    <3>3. QED
      BY <3>1, <3>2, ConcatProperties
  <2>2. sbuf_count' = 0 /\ sbuf' = sbuf
    BY <1>2 DEF audio_callback
  <2>3. QED
    BY <2>1, <2>2 DEF audio_callback, driver, CountOnlyFalls
<1>3. QED
  BY <1>1, <1>2

(* The types, and the bound the driver works under, hold forever. *)
THEOREM AudioInductive == Spec => []IInv
<1>1. Init => IInv
  <2> SUFFICES ASSUME Init PROVE IInv
    OBVIOUS
  <2>1. played \in Seq(Nat)
    BY DEF Init
  <2>2. sbuf \in [Slots -> Nat] /\ opened \in BOOLEAN
    BY DEF Init
  <2>3. 0 \in 0 .. SB_SIZE
    BY SizeAssumption
  <2>4. phase = "idle" /\ sbuf_count = 0 /\ audio_len = 0 /\ in_use_size = 0 /\ i = 0 /\ sent = 0
    BY DEF Init
  <2>5. QED
    BY <2>1, <2>2, <2>3, <2>4 DEF IInv, TypeOK, CountOnlyFalls
<1>2. IInv /\ [Next]_vars => IInv'
  <2> SUFFICES ASSUME IInv, [Next]_vars PROVE IInv'
    OBVIOUS
  <2> USE SizeAssumption DEF IInv, TypeOK, CountOnlyFalls, device, driver
  <2>1. CASE audio_ctrl
    BY <2>1 DEF audio_ctrl
  <2>2. ASSUME NEW len \in Lens, audio_play(len)
        PROVE  IInv'
    BY <2>2 DEF audio_play
  <2>3. CASE wait_space
    BY <2>3 DEF wait_space
  <2>4. CASE got_space
    BY <2>4 DEF got_space
  <2>5. CASE copy
    <3>1. i + 1 \in 0 .. SB_SIZE /\ i + 1 <= audio_len /\ sent + 1 \in Nat
      BY <2>5 DEF copy
    <3>2. sbuf' \in [Slots -> Nat]
      BY <2>5, <3>1 DEF copy
    <3>3. QED
      BY <2>5, <3>1, <3>2 DEF copy
  <2>6. CASE commit
    BY <2>6 DEF commit
  <2>7. ASSUME NEW len \in StreamLens, audio_callback(len)
        PROVE  IInv'
    BY <2>7, CallbackStep
  <2>8. CASE Done \/ UNCHANGED vars
    BY <2>8 DEF Done, vars
  <2> HIDE DEF IInv
  <2>9. QED
    BY <2>1, <2>2, <2>3, <2>4, <2>5, <2>6, <2>7, <2>8 DEF Next, Driver, Callback
<1>3. QED
  BY <1>1, <1>2, PTL DEF Spec

(* The count never exceeds the size of the stream buffer. *)
THEOREM AudioTypes == Spec => []TypeOK
<1>1. IInv => TypeOK
  BY DEF IInv
<1>2. QED
  BY AudioInductive, <1>1, PTL

(* Every store of the driver is inside the buffer and behind the samples   *)
(* the callback may still move or play.                                    *)
THEOREM AudioWrites == Spec => []WritesBehindTheRest
<1>1. IInv => WritesBehindTheRest
  BY DEF IInv, CountOnlyFalls, WritesBehindTheRest
<1>2. QED
  BY AudioInductive, <1>1, PTL

-----------------------------------------------------------------------------
(* The sample has been played. *)
Heard(s) == \E p \in 1 .. Len(played) : played[p] = s

(* The samples the driver has written in this call lie behind its copy of  *)
(* the count, whatever the callback has done meanwhile ...                 *)
Written == IF phase = "copy" THEN i ELSE 0

Live(j) == j < sbuf_count \/ (in_use_size <= j /\ j < in_use_size + Written)

(* ... and commit will make all that lies before them count again, stale   *)
(* samples between the two included.                                       *)
Extent == IF phase = "idle" THEN sbuf_count ELSE in_use_size + Written

(* Nothing the driver was given is lost ... *)
NoneLost == \A s \in 1 .. sent : Heard(s) \/ \E j \in Slots : Live(j) /\ sbuf[j] = s

(* ... and a slot's predecessors have been played or lie before it.        *)
Covered ==
  \A k \in Slots : k < Extent =>
    \A s \in 1 .. sbuf[k] - 1 : Heard(s) \/ \E j \in 0 .. k - 1 : sbuf[j] = s

Order == NoneLost /\ Covered /\ FirstPlaysInOrder

(* The callback plays n samples and moves the rest n slots down; slots     *)
(* behind the count keep what they hold.                                   *)
LEMMA CallbackEffect ==
  ASSUME IInv, NEW len \in StreamLens, audio_callback(len)
  PROVE  \E n \in 0 .. sbuf_count :
           /\ sbuf_count' = sbuf_count - n
           /\ Len(played') = Len(played) + n
           /\ \A p \in 1 .. Len(played) : played'[p] = played[p]
           /\ \A j \in 0 .. n - 1 : played'[Len(played) + j + 1] = sbuf[j]
           /\ \A k \in Slots : sbuf'[k] = IF k < sbuf_count - n THEN sbuf[k + n] ELSE sbuf[k]
<1> DEFINE n == IF sbuf_count > len THEN len ELSE sbuf_count
           f == FirstSamples(n)
<1>1. len \in Nat /\ sbuf_count \in 0 .. SB_SIZE /\ SB_SIZE \in Nat /\ played \in Seq(Nat)
  BY SizeAssumption DEF IInv, TypeOK
<1>2. n \in 0 .. sbuf_count /\ n \in 0 .. SB_SIZE
  BY <1>1
<1>3. sbuf_count' = sbuf_count - n /\ played' = played \o f
  <2>1. CASE sbuf_count > len
    BY <2>1 DEF audio_callback
  <2>2. CASE ~(sbuf_count > len)
    BY <1>1, <2>2 DEF audio_callback
  <2>3. QED
    BY <2>1, <2>2
<1>4. \A k \in Slots : sbuf'[k] = IF k < sbuf_count - n THEN sbuf[k + n] ELSE sbuf[k]
  <2>1. CASE sbuf_count > len
    BY <2>1 DEF audio_callback
  <2>2. CASE ~(sbuf_count > len)
    <3>1. sbuf_count - n = 0 /\ sbuf' = sbuf
      BY <1>1, <2>2 DEF audio_callback
    <3>2. \A k \in Slots : ~(k < 0)
      BY <1>1 DEF Slots
    <3>3. QED
      BY <3>1, <3>2
  <2>3. QED
    BY <2>1, <2>2
<1> HIDE DEF n
<1>5. f \in Seq(Nat) /\ Len(f) = n /\ \A j \in 0 .. n - 1 : f[j + 1] = sbuf[j]
  <2>1. f \in Seq(Nat)
    BY <1>2, FirstSamplesType DEF IInv
  <2>2. f = [p \in 1 .. n |-> sbuf[p - 1]]
    BY DEF FirstSamples
  <2>3. \A j \in 0 .. n - 1 : j + 1 \in 1 .. n /\ (j + 1) - 1 = j
    BY <1>2, <1>1
  <2>4. QED
    BY <1>1, <1>2, <2>1, <2>2, <2>3
<1> HIDE DEF f
<1>6. /\ Len(played \o f) = Len(played) + Len(f)
      /\ \A p \in 1 .. Len(played) : (played \o f)[p] = played[p]
      /\ \A p \in 1 .. Len(f) : (played \o f)[Len(played) + p] = f[p]
  <2>1. played \in Seq(Nat) /\ f \in Seq(Nat)
    BY <1>1, <1>5
  <2>2. QED
    BY ONLY <2>1
<1>7. ASSUME NEW j \in 0 .. n - 1
      PROVE  played'[Len(played) + j + 1] = sbuf[j]
  <2>1. j + 1 \in 1 .. Len(f) /\ Len(played) + j + 1 = Len(played) + (j + 1)
    BY <1>1, <1>2, <1>5
  <2>2. QED
    BY <1>3, <1>5, <1>6, <2>1
<1>8. QED
  BY <1>2, <1>3, <1>4, <1>5, <1>6, <1>7

(* After the callback a sample of slot j was played or is in the buffer:   *)
(* where it was, or, when it counted, still counted and further down.      *)
LEMMA SampleKept ==
  ASSUME IInv, NEW n \in 0 .. sbuf_count, NEW j \in Slots,
         sbuf_count' = sbuf_count - n,
         Len(played') = Len(played) + n,
         \A h \in 0 .. n - 1 : played'[Len(played) + h + 1] = sbuf[h],
         \A k \in Slots : sbuf'[k] = IF k < sbuf_count - n THEN sbuf[k + n] ELSE sbuf[k]
  PROVE  \/ \E p \in 1 .. Len(played') : played'[p] = sbuf[j]
         \/ \E k \in Slots : /\ k <= j /\ sbuf'[k] = sbuf[j]
                              /\ IF j < sbuf_count THEN k < sbuf_count' /\ k = j - n ELSE k = j
<1>1. sbuf_count \in 0 .. SB_SIZE /\ SB_SIZE \in Nat /\ Len(played) \in Nat /\ n \in Nat /\ j \in Nat
  BY SizeAssumption DEF IInv, TypeOK, Slots
<1>2. CASE j < n
  <2>1. j \in 0 .. n - 1 /\ Len(played) + j + 1 \in 1 .. Len(played')
    BY <1>1, <1>2
  <2>2. QED
    BY <2>1
<1>3. CASE n <= j /\ j < sbuf_count
  <2>1. j - n \in Slots /\ j - n < sbuf_count - n /\ (j - n) + n = j /\ j - n <= j
    BY <1>1, <1>3 DEF Slots
  <2>2. sbuf'[j - n] = sbuf[j]
    BY <2>1
  <2>3. QED
    BY <1>3, <2>1, <2>2
<1>4. CASE sbuf_count <= j
  <2>1. ~(j < sbuf_count - n) /\ ~(j < sbuf_count) /\ j <= j
    BY <1>1, <1>4
  <2>2. sbuf'[j] = sbuf[j]
    BY <2>1
  <2>3. QED
    BY <2>1, <2>2
<1>5. QED
  BY <1>1, <1>2, <1>3, <1>4

(* The callback loses nothing, keeps the buffer in order and plays from    *)
(* its front.                                                              *)
LEMMA CallbackKeepsOrder ==
  ASSUME IInv, Order, NEW len \in StreamLens, audio_callback(len)
  PROVE  Order'
<1>1. PICK n \in 0 .. sbuf_count :
        /\ sbuf_count' = sbuf_count - n
        /\ Len(played') = Len(played) + n
        /\ \A p \in 1 .. Len(played) : played'[p] = played[p]
        /\ \A j \in 0 .. n - 1 : played'[Len(played) + j + 1] = sbuf[j]
        /\ \A k \in Slots : sbuf'[k] = IF k < sbuf_count - n THEN sbuf[k + n] ELSE sbuf[k]
  BY CallbackEffect
<1>2. UNCHANGED <<driver, sent>>
  BY DEF audio_callback
<1>3. /\ sbuf_count \in 0 .. SB_SIZE /\ SB_SIZE \in Nat /\ n \in Nat /\ Len(played) \in Nat
      /\ sbuf \in [Slots -> Nat] /\ played \in Seq(Nat) /\ i \in Nat /\ in_use_size \in Nat
  BY SizeAssumption DEF IInv, TypeOK
<1>4. phase' = phase /\ in_use_size' = in_use_size /\ i' = i /\ sent' = sent /\ Written' = Written
  BY <1>2 DEF driver, Written
<1>5. Written \in Nat /\ (phase # "idle" => sbuf_count <= in_use_size)
      /\ sbuf_count <= Extent /\ Extent \in Nat /\ (phase # "idle" => Extent' = Extent)
  BY <1>3, <1>4 DEF Written, Extent, IInv, TypeOK, CountOnlyFalls
<1>6. ASSUME NEW s, Heard(s) PROVE Heard(s)'
  <2>1. PICK p \in 1 .. Len(played) : played[p] = s
    BY <1>6 DEF Heard
  <2>2. p \in 1 .. Len(played') /\ played'[p] = s
    BY <1>1, <1>3, <2>1
  <2>3. QED
    BY <2>2 DEF Heard
<1>7. ASSUME NEW j \in Slots, NEW s, sbuf[j] = s
      PROVE  \/ Heard(s)'
             \/ \E k \in Slots : /\ k <= j /\ sbuf'[k] = s
                                  /\ IF j < sbuf_count THEN k < sbuf_count' /\ k = j - n ELSE k = j
  <2>1. \/ \E p \in 1 .. Len(played') : played'[p] = sbuf[j]
        \/ \E k \in Slots : /\ k <= j /\ sbuf'[k] = sbuf[j]
                             /\ IF j < sbuf_count THEN k < sbuf_count' /\ k = j - n ELSE k = j
    BY <1>1, SampleKept
  <2>2. QED
    BY <1>7, <2>1 DEF Heard
<1>8. NoneLost'
  <2>1. ASSUME NEW s \in 1 .. sent
        PROVE  Heard(s)' \/ \E j \in Slots : Live(j)' /\ sbuf'[j] = s
    <3>1. CASE Heard(s)
      BY <1>6, <3>1
    <3>2. ASSUME NEW j \in Slots, Live(j), sbuf[j] = s
          PROVE  Heard(s)' \/ \E k \in Slots : Live(k)' /\ sbuf'[k] = s
      <4>1. CASE Heard(s)'
        BY <4>1
      <4>2. ASSUME NEW k \in Slots, sbuf'[k] = s,
                   IF j < sbuf_count THEN k < sbuf_count' /\ k = j - n ELSE k = j
            PROVE  Live(k)'
        BY <1>4, <3>2, <4>2 DEF Live
      <4>3. QED
        BY <1>7, <3>2, <4>1, <4>2
    <3>3. QED
      BY <3>1, <3>2 DEF Order, NoneLost
  <2>2. QED
    BY <1>4, <2>1 DEF NoneLost
<1>9. Covered'
  <2>1. ASSUME NEW k \in Slots, k < Extent', NEW s \in 1 .. sbuf'[k] - 1
        PROVE  Heard(s)' \/ \E j \in 0 .. k - 1 : sbuf'[j] = s
    <3>0. k \in Nat /\ k < SB_SIZE
      BY <1>3 DEF Slots
    <3>1. PICK m \in Slots :
            /\ sbuf'[k] = sbuf[m] /\ m < Extent
            /\ (k < sbuf_count' /\ m = k + n) \/ (k >= sbuf_count' /\ m = k)
      <4>1. CASE k < sbuf_count - n
        <5>1. k + n \in Slots /\ k + n < sbuf_count /\ k + n < Extent
          BY <1>3, <1>5, <3>0, <4>1 DEF Slots
        <5>2. QED
          BY <1>1, <4>1, <5>1
      <4>2. CASE ~(k < sbuf_count - n)
        <5>1. k >= sbuf_count' /\ sbuf'[k] = sbuf[k]
          BY <1>1, <1>3, <3>0, <4>2
        <5>2. k < Extent
          BY <1>1, <1>3, <1>4, <1>5, <2>1, <3>0, <4>2 DEF Extent
        <5>3. QED
          BY <5>1, <5>2
      <4>3. QED
        BY <4>1, <4>2
    <3>2. CASE Heard(s)
      BY <1>6, <3>2
    <3>3. ASSUME NEW j \in 0 .. m - 1, sbuf[j] = s
          PROVE  Heard(s)' \/ \E h \in 0 .. k - 1 : sbuf'[h] = s
      <4>0. j \in Slots /\ m \in Nat /\ j \in Nat /\ j < m
        BY <1>3, <3>1, <3>3 DEF Slots
      <4>1. CASE Heard(s)'
        BY <4>1
      <4>2. ASSUME NEW h \in Slots, h <= j, sbuf'[h] = s,
                   IF j < sbuf_count THEN h < sbuf_count' /\ h = j - n ELSE h = j
            PROVE  h \in 0 .. k - 1
        <5>1. h \in Nat
          BY <1>3 DEF Slots
        <5>2. h < k
          <6>1. CASE k < sbuf_count'
            BY <1>1, <1>3, <3>0, <3>1, <4>0, <4>2, <5>1, <6>1
          <6>2. CASE k >= sbuf_count'
            BY <1>1, <1>3, <3>0, <3>1, <4>0, <4>2, <5>1, <6>2
          <6>3. QED
            BY <3>1, <6>1, <6>2
        <5>3. QED
          BY <3>0, <5>1, <5>2
      <4>3. QED
        BY <1>7, <3>3, <4>0, <4>1, <4>2
    <3>4. QED
      <4>1. s \in 1 .. sbuf[m] - 1
        BY <2>1, <3>1
      <4>2. QED
        BY <3>1, <3>2, <3>3, <4>1 DEF Order, Covered
  <2>2. QED
    BY <2>1 DEF Covered
<1>10. FirstPlaysInOrder'
  <2>1. ASSUME NEW p \in 1 .. Len(played'), NEW s \in 1 .. played'[p] - 1
        PROVE  \E q \in 1 .. p - 1 : played'[q] = s
    <3>1. CASE p \in 1 .. Len(played)
      <4>1. PICK q \in 1 .. p - 1 : played[q] = s
        BY <1>1, <2>1, <3>1 DEF Order, FirstPlaysInOrder
      <4>2. q \in 1 .. Len(played)
        BY <1>3, <3>1
      <4>3. QED
        BY <1>1, <4>1, <4>2
    <3>2. CASE p \notin 1 .. Len(played)
      <4>1. PICK k \in 0 .. n - 1 : p = Len(played) + k + 1
        <5>1. p - Len(played) - 1 \in 0 .. n - 1 /\ p = Len(played) + (p - Len(played) - 1) + 1
          BY <1>1, <1>3, <3>2
        <5>2. QED
          BY <5>1
      <4>2. played'[p] = sbuf[k]
        BY <1>1, <4>1
      <4>3. k \in Slots /\ k < Extent
        BY <1>3, <1>5 DEF Slots
      <4>4. CASE Heard(s)
        <5>1. PICK q \in 1 .. Len(played) : played[q] = s
          BY <4>4 DEF Heard
        <5>2. q \in 1 .. p - 1
          BY <1>3, <4>1
        <5>3. QED
          BY <1>1, <5>1, <5>2
      <4>5. ASSUME NEW j \in 0 .. k - 1, sbuf[j] = s
            PROVE  \E q \in 1 .. p - 1 : played'[q] = s
        <5>1. j \in 0 .. n - 1 /\ Len(played) + j + 1 \in 1 .. p - 1
          BY <1>3, <4>1
        <5>2. QED
          BY <1>1, <4>5, <5>1
      <4>6. s \in 1 .. sbuf[k] - 1
        BY <4>2
      <4>7. QED
        BY <4>3, <4>4, <4>5, <4>6 DEF Order, Covered
    <3>3. QED
      BY <3>1, <3>2
  <2>2. QED
    BY <2>1 DEF FirstPlaysInOrder
<1>11. QED
  BY <1>8, <1>9, <1>10 DEF Order

(* A step that neither stores a sample nor plays one. *)
LEMMA QuietKeepsOrder ==
  ASSUME IInv, Order, UNCHANGED <<sbuf, sent, played>>,
         \A k \in Slots : k < Extent' => k < Extent,
         \A j \in Slots : Live(j) => Live(j)'
  PROVE  Order'
<1>1. \A s : Heard(s) = Heard(s)'
  BY DEF Heard
<1>2. NoneLost'
  BY <1>1 DEF Order, NoneLost
<1>3. Covered'
  BY <1>1 DEF Order, Covered
<1>4. FirstPlaysInOrder'
  BY DEF Order, FirstPlaysInOrder
<1>5. QED
  BY <1>2, <1>3, <1>4 DEF Order

(* The driver's store puts the newest sample behind all that may be played. *)
LEMMA CopyKeepsOrder ==
  ASSUME IInv, Order, copy
  PROVE  Order'
<1> DEFINE e == in_use_size + i
<1>1. /\ phase = "copy" /\ phase' = "copy" /\ i < audio_len /\ i' = i + 1 /\ sent' = sent + 1
      /\ sbuf' = [sbuf EXCEPT ![e] = sent + 1]
      /\ UNCHANGED <<sbuf_count, in_use_size, played>>
  BY DEF copy
<1>2. /\ i \in Nat /\ in_use_size \in Nat /\ audio_len \in Nat /\ sent \in Nat /\ SB_SIZE \in Nat
      /\ sbuf_count \in Nat /\ sbuf_count <= in_use_size /\ in_use_size + audio_len <= SB_SIZE
      /\ sbuf \in [Slots -> Nat]
  BY <1>1, SizeAssumption DEF IInv, TypeOK, CountOnlyFalls
<1>3. e \in Slots /\ e \in Nat
  BY <1>1, <1>2 DEF Slots
<1>4. Extent = e /\ Extent' = e + 1
  BY <1>1, <1>2 DEF Extent, Written
<1>5. \A j \in Slots : j \in Nat /\ (Live(j) => j < e /\ Live(j)') /\ (j = e => Live(j)')
  BY <1>1, <1>2 DEF Live, Written, Slots
<1> HIDE DEF e
<1>6. sbuf'[e] = sent + 1 /\ \A j \in Slots : j # e => sbuf'[j] = sbuf[j]
  BY <1>1, <1>2, <1>3
<1>7. \A s : Heard(s) = Heard(s)'
  BY <1>1 DEF Heard
<1>8. NoneLost'
  <2>1. ASSUME NEW s \in 1 .. sent + 1
        PROVE  Heard(s)' \/ \E j \in Slots : Live(j)' /\ sbuf'[j] = s
    <3>1. CASE s = sent + 1
      BY <1>3, <1>5, <1>6, <3>1
    <3>2. CASE s # sent + 1
      <4>1. s \in 1 .. sent
        BY <1>2, <3>2
      <4>2. ASSUME NEW j \in Slots, Live(j), sbuf[j] = s
            PROVE  Live(j)' /\ sbuf'[j] = s
        <5>1. j # e /\ Live(j)'
          BY <1>3, <1>5, <4>2
        <5>2. QED
          BY <1>6, <4>2, <5>1
      <4>3. QED
        BY <1>7, <4>1, <4>2 DEF Order, NoneLost
    <3>3. QED
      BY <3>1, <3>2
  <2>2. QED
    BY <1>1, <2>1 DEF NoneLost
<1>9. Covered'
  <2>1. ASSUME NEW k \in Slots, k < e + 1, NEW s \in 1 .. sbuf'[k] - 1
        PROVE  Heard(s)' \/ \E j \in 0 .. k - 1 : sbuf'[j] = s
    <3>1. CASE k = e
      <4>1. s \in 1 .. sent
        BY <1>2, <1>6, <3>1
      <4>2. ASSUME NEW j \in Slots, Live(j), sbuf[j] = s
            PROVE  j \in 0 .. k - 1 /\ sbuf'[j] = s
        <5>1. j \in Nat /\ j < e /\ j # e
          BY <1>3, <1>5, <4>2
        <5>2. QED
          BY <1>3, <1>6, <3>1, <4>2, <5>1
      <4>3. QED
        BY <1>7, <4>1, <4>2 DEF Order, NoneLost
    <3>2. CASE k # e
      <4>1. k \in Nat /\ k < e /\ k < SB_SIZE
        BY <1>2, <1>3, <2>1, <3>2 DEF Slots
      <4>2. s \in 1 .. sbuf[k] - 1
        BY <1>6, <3>2
      <4>3. ASSUME NEW j \in 0 .. k - 1 PROVE sbuf'[j] = sbuf[j]
        <5>1. j \in Slots /\ j # e
          BY <1>2, <1>3, <4>1 DEF Slots
        <5>2. QED
          BY <1>6, <5>1
      <4>4. QED
        BY <1>4, <1>7, <4>1, <4>2, <4>3 DEF Order, Covered
    <3>3. QED
      BY <3>1, <3>2
  <2>2. QED
    BY <1>4, <2>1 DEF Covered
<1>10. FirstPlaysInOrder'
  BY <1>1 DEF Order, FirstPlaysInOrder
<1>11. QED
  BY <1>8, <1>9, <1>10 DEF Order

(***************************************************************************)
(* audio_callback against __am_audio_play, which reads the count, fills    *)
(* the buffer and writes the count back without a lock: no sample is lost  *)
(* or overtaken, though one may be played again.                           *)
(***************************************************************************)
THEOREM AudioOrder == Spec => []FirstPlaysInOrder
<1>1. Init => Order
  <2> SUFFICES ASSUME Init PROVE Order
    OBVIOUS
  <2>1. sent = 0 /\ played = <<>> /\ Extent = 0
    BY DEF Init, Extent
  <2>2. \A k \in Slots : ~(k < 0)
    BY SizeAssumption DEF Slots
  <2>3. NoneLost /\ Covered
    BY <2>1, <2>2 DEF NoneLost, Covered
  <2>4. FirstPlaysInOrder
    BY <2>1 DEF FirstPlaysInOrder
  <2>5. QED
    BY <2>3, <2>4 DEF Order
<1>2. IInv /\ Order /\ [Next]_vars => Order'
  <2> SUFFICES ASSUME IInv, Order, [Next]_vars PROVE Order'
    OBVIOUS
  <2>0. /\ sbuf_count \in Nat /\ in_use_size \in Nat /\ i \in Nat /\ SB_SIZE \in Nat
        /\ \A j \in Slots : j \in Nat
        /\ (phase # "idle" => sbuf_count <= in_use_size)
        /\ (phase = "wait" => i = 0)
        /\ phase \in {"idle", "wait", "copy"}
    BY SizeAssumption DEF IInv, TypeOK, CountOnlyFalls, Slots
  <2>1. CASE audio_ctrl
    BY <2>1, QuietKeepsOrder DEF audio_ctrl, driver, Extent, Live, Written
  <2>2. ASSUME NEW len \in Lens, audio_play(len)
        PROVE  Order'
    BY <2>0, <2>2, QuietKeepsOrder DEF audio_play, device, Extent, Live, Written
  <2>3. CASE wait_space
    BY <2>0, <2>3, QuietKeepsOrder DEF wait_space, device, Extent, Live, Written
  <2>4. CASE got_space
    BY <2>0, <2>4, QuietKeepsOrder DEF got_space, device, Extent, Live, Written
  <2>5. CASE copy
    BY <2>5, CopyKeepsOrder
  <2>6. CASE commit
    BY <2>0, <2>6, QuietKeepsOrder DEF commit, Extent, Live, Written, IInv, TypeOK
  <2>7. ASSUME NEW len \in StreamLens, audio_callback(len)
        PROVE  Order'
    BY <2>7, CallbackKeepsOrder
  <2>8. CASE Done \/ UNCHANGED vars
    BY <2>8, QuietKeepsOrder DEF Done, vars, device, driver, Extent, Live, Written
  <2>9. QED
    BY <2>1, <2>2, <2>3, <2>4, <2>5, <2>6, <2>7, <2>8 DEF Next, Driver, Callback
<1>3. Order => FirstPlaysInOrder
  BY DEF Order
<1>4. QED
  BY <1>1, <1>2, <1>3, AudioInductive, PTL DEF Spec
=============================================================================
