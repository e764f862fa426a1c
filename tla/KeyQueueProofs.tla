--------------------------- MODULE KeyQueueProofs ---------------------------
(***************************************************************************)
(* Proofs about KeyQueue for every length of the ring, every key map and   *)
(* any number of events: the ring implements KeyFifo.                      *)
(***************************************************************************)
EXTENDS KeyQueue, SequenceTheorems, TLAPS

(* The modulus is a wrap at the end of the ring. *)
LEMMA SuccWraps ==
  ASSUME NEW k \in Slots
  PROVE  Succ(k) = IF k = KEY_QUEUE_LEN - 1 THEN 0 ELSE k + 1
<1>1. CASE k = KEY_QUEUE_LEN - 1
  <2>1. k + 1 = KEY_QUEUE_LEN
    BY <1>1, RingAssumption
  <2>2. KEY_QUEUE_LEN % KEY_QUEUE_LEN = 0
    BY RingAssumption
  <2>3. QED
    BY <1>1, <2>1, <2>2 DEF Succ
<1>2. CASE k # KEY_QUEUE_LEN - 1
  BY <1>2, RingAssumption DEF Succ, Slots
<1>3. QED
  BY <1>1, <1>2

(* The index after one of the ring is an index of the ring.                *)
LEMMA SuccType ==
  ASSUME NEW k \in Slots
  PROVE  Succ(k) \in Slots
BY SuccWraps, RingAssumption DEF Slots

(* A code is a key code with or without the mask. *)
LEMMA CodeType ==
  ASSUME NEW c \in 0 .. KEYDOWN_MASK - 1, NEW down \in BOOLEAN
  PROVE  am_scancode(c, down) \in Codes
BY KeyAssumption DEF am_scancode, Codes

(* A code of the queue stands for a key.                                   *)
LEMMA DecodedType ==
  ASSUME NEW c \in Codes
  PROVE  Decoded(c) \in Keys
<1>1. c % KEYDOWN_MASK \in 0 .. KEYDOWN_MASK - 1
  BY KeyAssumption DEF Codes
<1>2. (c >= KEYDOWN_MASK) \in BOOLEAN
  OBVIOUS
<1>3. QED
  BY <1>1, <1>2 DEF Decoded, Keys

(* One event: a quit, a key, or one that is ignored. *)
LEMMA PollTypes ==
  ASSUME TypeOK, poll_event
  PROVE  TypeOK'
<1> DEFINE event == Head(sdl)
<1>1. event \in Events /\ sdl' \in Seq(Events)
  BY HeadTailProperties DEF TypeOK, poll_event
<1>2. CASE event.type = "KEY"
  <2>1. event.scancode \in Nat /\ event.down \in BOOLEAN
    <3>1. event # [type |-> "QUIT"] /\ event # [type |-> "OTHER"]
      BY <1>2
    <3>2. event \in [type : {"KEY"}, scancode : Scancodes, down : BOOLEAN]
      BY <1>1, <3>1 DEF Events
    <3> HIDE DEF event
    <3>3. event.scancode \in Scancodes /\ event.down \in BOOLEAN
      BY <3>2
    <3>4. QED
      BY <3>3, KeyAssumption
  <2> DEFINE s == event.scancode % 256
             code == am_scancode(keymap[s], event.down)
             key == [keycode |-> keymap[s], keydown |-> event.down]
  <2>2. s \in 0 .. 255
    BY <2>1
  <2>3. keymap[s] \in 0 .. KEYDOWN_MASK - 1
    BY <2>2, KeyAssumption
  <2>4. code \in Codes
    BY <2>1, <2>3, CodeType
  <2>5. key \in Keys
    BY <2>1, <2>3 DEF Keys
  <2>6. send_key(s, event.down) /\ UNCHANGED <<state, port, caused, got>>
    BY <1>2 DEF poll_event
  <2> HIDE DEF s, code
  <2>7. CASE state = "RUNNING" /\ keymap[s] # NEMU_KEY_NONE
    <3>1. key_enqueue(code) /\ sent' = Append(sent, key)
      BY <2>6, <2>7 DEF send_key, code
    <3>2. sent' \in Seq(Keys)
      BY <3>1, <2>5, AppendProperties DEF TypeOK
    <3>3. key_queue' \in [Slots -> Codes] /\ key_f' \in Slots
      BY <3>1, <2>4 DEF key_enqueue, TypeOK
    <3>4. key_r' \in Slots
      BY <3>1, SuccType DEF key_enqueue, TypeOK
    <3>5. where' \in {"prompt", "guest", "poll", "dead"}
      BY <3>1 DEF key_enqueue, TypeOK
    <3>6. QED
      BY <1>1, <2>6, <3>2, <3>3, <3>4, <3>5 DEF TypeOK
  <2>8. CASE ~(state = "RUNNING" /\ keymap[s] # NEMU_KEY_NONE)
    <3>1. UNCHANGED <<ring, where, sent>>
      BY <2>6, <2>8 DEF send_key
    <3>2. QED
      BY <1>1, <2>6, <3>1 DEF TypeOK, ring
  <2>9. QED
    BY <2>7, <2>8
<1>3. CASE event.type # "KEY"
  <2>1. UNCHANGED <<ring, where, sent, port, caused, got>> /\ state' \in {"QUIT", state}
    BY <1>3 DEF poll_event
  <2>2. QED
    BY <1>1, <2>1 DEF TypeOK, ring
<1>4. QED
  BY <1>2, <1>3

(* The guest's read of the data register. *)
LEMMA ReadTypes ==
  ASSUME TypeOK, read_key
  PROVE  TypeOK'
<1>1. port' \in Codes
  <2>1. NEMU_KEY_NONE \in Codes
    BY KeyAssumption DEF Codes, NEMU_KEY_NONE
  <2>2. key_queue[key_f] \in Codes
    BY DEF TypeOK
  <2>3. port' = key_queue[key_f] \/ port' = NEMU_KEY_NONE
    BY DEF read_key, key_dequeue
  <2>4. QED
    BY <2>1, <2>2, <2>3
<1>2. key_queue' \in [Slots -> Codes] /\ key_f' \in Slots /\ key_r' \in Slots
  BY SuccType DEF read_key, key_dequeue, TypeOK, ring
<1>3. got' \in Seq(Keys)
  <2>1. Decoded(port') \in Keys
    BY <1>1, DecodedType
  <2>2. QED
    BY <2>1, AppendProperties DEF read_key, TypeOK
<1>4. where' \in {"prompt", "guest", "poll", "dead"} /\ state' \in {"STOP", "RUNNING", "QUIT"}
  BY DEF read_key, AfterInst, TypeOK
<1>5. UNCHANGED <<sdl, caused, sent>>
  BY DEF read_key
<1>6. QED
  BY <1>1, <1>2, <1>3, <1>4, <1>5 DEF TypeOK

(* Codes stay codes, and the indices stay within the ring. *)
THEOREM KeyTypes == Spec => []TypeOK
<1>1. Init => TypeOK
  <2> SUFFICES ASSUME Init PROVE TypeOK
    OBVIOUS
  <2>1. sdl \in Seq(Events) /\ sent \in Seq(Keys) /\ got \in Seq(Keys)
    BY DEF Init
  <2>2. 0 \in Slots /\ 0 \in Codes
    BY RingAssumption, KeyAssumption DEF Slots, Codes
  <2>3. QED
    BY <2>1, <2>2, KeyAssumption DEF Init, TypeOK, NEMU_KEY_NONE
<1>2. TypeOK /\ [Next]_vars => TypeOK'
  <2> SUFFICES ASSUME TypeOK, [Next]_vars PROVE TypeOK'
    OBVIOUS
  <2>1. ASSUME NEW e \in Events, user(e)
        PROVE  TypeOK'
    <3>1. sdl' \in Seq(Events)
      BY <2>1, AppendProperties DEF user, TypeOK
    <3>2. caused' \in 0 .. MaxEvents
      BY <2>1, KeyAssumption DEF user, TypeOK
    <3>3. QED
      BY <2>1, <3>1, <3>2 DEF user, TypeOK, ring, history
  <2>2. CASE command
    <3>1. sdl' \in Seq(Events)
      BY <2>2 DEF command
    <3>2. QED
      BY <2>2, <3>1 DEF command, TypeOK, ring, history
  <2>3. CASE poll_event
    BY <2>3, PollTypes
  <2>4. ASSUME NEW more \in BOOLEAN, poll_done(more)
        PROVE  TypeOK'
    BY <2>4 DEF poll_done, TypeOK, ring, history
  <2>5. CASE other_inst
    BY <2>5 DEF other_inst, AfterInst, TypeOK, ring, history
  <2>6. CASE read_key
    BY <2>6, ReadTypes
  <2>7. CASE Dead \/ UNCHANGED vars
    BY <2>7 DEF Dead, vars, TypeOK, ring, history
  <2>8. QED
    BY <2>1, <2>2, <2>3, <2>4, <2>5, <2>6, <2>7 DEF Next, Poll
<1>3. QED
  BY <1>1, <1>2, PTL DEF Spec

-----------------------------------------------------------------------------
(* What a stretch of the ring holds. *)
LEMMA ContentsType ==
  ASSUME NEW q \in [Slots -> Codes], NEW f \in Slots, NEW m \in 0 .. KEY_QUEUE_LEN - 1
  PROVE  /\ Contents(q, f, m) \in Seq(Codes) /\ Len(Contents(q, f, m)) = m
         /\ \A k \in 1 .. m : Contents(q, f, m)[k] = q[At(f, k - 1)]
<1>1. \A k \in 1 .. m : At(f, k - 1) \in Slots
  BY RingAssumption DEF At, Slots
<1>2. \A k \in 1 .. m : q[At(f, k - 1)] \in Codes
  BY <1>1
<1>3. QED
  BY <1>2, RingAssumption DEF Contents

(* Storing a code in the first free slot appends it. *)
LEMMA ContentsAppend ==
  ASSUME NEW q \in [Slots -> Codes], NEW f \in Slots, NEW r \in Slots, NEW c \in Codes,
         Dist(f, r) < KEY_QUEUE_LEN - 1
  PROVE  Contents([q EXCEPT ![r] = c], f, Dist(f, r) + 1)
           = Append(Contents(q, f, Dist(f, r)), c)
<1> DEFINE m  == Dist(f, r)
           q2 == [q EXCEPT ![r] = c]
           s  == Contents(q, f, m)
           s2 == Contents(q2, f, m + 1)
           a  == Append(s, c)
<1>1. m \in Nat /\ m \in 0 .. KEY_QUEUE_LEN - 1 /\ m + 1 \in 0 .. KEY_QUEUE_LEN - 1
  BY RingAssumption DEF Dist, Slots
<1>2. At(f, m) = r
  BY RingAssumption DEF At, Dist, Slots
<1>3. \A k \in 1 .. m : At(f, k - 1) \in Slots /\ At(f, k - 1) # r
  BY RingAssumption DEF At, Dist, Slots
<1>4. q2 \in [Slots -> Codes] /\ q2[r] = c /\ \A k \in Slots : k # r => q2[k] = q[k]
  OBVIOUS
<1> HIDE DEF m, q2
<1>5. s \in Seq(Codes) /\ Len(s) = m /\ \A k \in 1 .. m : s[k] = q[At(f, k - 1)]
  BY <1>1, ContentsType
<1>6. s2 \in Seq(Codes) /\ Len(s2) = m + 1 /\ \A k \in 1 .. m + 1 : s2[k] = q2[At(f, k - 1)]
  BY <1>1, <1>4, ContentsType
<1> HIDE DEF s, s2
<1>7. a \in Seq(Codes) /\ Len(a) = Len(s) + 1 /\ a[Len(s) + 1] = c
      /\ \A k \in 1 .. Len(s) : a[k] = s[k]
  BY <1>5, AppendProperties
<1> HIDE DEF a
<1>8. s2[m + 1] = c
  <2>1. m + 1 \in 1 .. m + 1 /\ (m + 1) - 1 = m
    BY <1>1
  <2>2. QED
    BY <2>1, <1>2, <1>4, <1>6
<1>9. ASSUME NEW k \in 1 .. m
      PROVE  s2[k] = s[k]
  <2>1. k \in 1 .. m + 1
    BY <1>1
  <2>2. QED
    BY <2>1, <1>3, <1>4, <1>5, <1>6
<1>10. \A k \in 1 .. Len(s2) : s2[k] = a[k]
  <2> SUFFICES ASSUME NEW k \in 1 .. Len(s2) PROVE s2[k] = a[k]
    OBVIOUS
  <2>1. k \in 1 .. m \/ k = m + 1
    BY <1>1, <1>6
  <2>2. QED
    BY <2>1, <1>5, <1>7, <1>8, <1>9
<1>11. s2 = a
  BY <1>5, <1>6, <1>7, <1>10, SeqEqual
<1>12. QED
  BY <1>11 DEF s2, a, s, q2, m

(* Moving the front index takes the first code off. *)
LEMMA ContentsTail ==
  ASSUME NEW q \in [Slots -> Codes], NEW f \in Slots, NEW r \in Slots, f # r
  PROVE  /\ Contents(q, f, Dist(f, r)) # <<>>
         /\ Head(Contents(q, f, Dist(f, r))) = q[f]
         /\ Tail(Contents(q, f, Dist(f, r))) = Contents(q, Succ(f), Dist(Succ(f), r))
<1> DEFINE m  == Dist(f, r)
           g  == Succ(f)
           s  == Contents(q, f, m)
           s2 == Contents(q, g, m - 1)
           t  == Tail(s)
<1>1. m \in 1 .. KEY_QUEUE_LEN - 1 /\ m \in 0 .. KEY_QUEUE_LEN - 1 /\ m - 1 \in 0 .. KEY_QUEUE_LEN - 1
  BY RingAssumption DEF Dist, Slots
<1>2. g \in Slots /\ g = IF f = KEY_QUEUE_LEN - 1 THEN 0 ELSE f + 1
  BY SuccType, SuccWraps
<1> HIDE DEF g
<1>3. Dist(g, r) = m - 1
  BY <1>2, RingAssumption DEF Dist, Slots
<1>4. At(f, 0) = f /\ \A k \in 1 .. m - 1 : At(g, k - 1) = At(f, k)
  BY <1>2, RingAssumption DEF At, Dist, Slots
<1> HIDE DEF m
<1>5. s \in Seq(Codes) /\ Len(s) = m /\ \A k \in 1 .. m : s[k] = q[At(f, k - 1)]
  BY <1>1, ContentsType
<1>6. s2 \in Seq(Codes) /\ Len(s2) = m - 1 /\ \A k \in 1 .. m - 1 : s2[k] = q[At(g, k - 1)]
  BY <1>1, <1>2, ContentsType
<1> HIDE DEF s, s2
<1>7. s # <<>>
  BY <1>1, <1>5
<1>8. t \in Seq(Codes) /\ Len(t) = m - 1 /\ \A k \in 1 .. Len(t) : t[k] = s[k + 1]
  BY <1>5, <1>7, HeadTailProperties
<1> HIDE DEF t
<1>9. Head(s) = q[f]
  <2>1. s[1] = q[At(f, 1 - 1)] /\ 1 - 1 = 0
    BY <1>1, <1>5
  <2>2. Head(s) = s[1]
    BY <1>5, <1>7
  <2>3. QED
    BY <2>1, <2>2, <1>4
<1>10. ASSUME NEW k \in 1 .. Len(t)
       PROVE  t[k] = s2[k]
  <2>1. k \in 1 .. m - 1 /\ k + 1 \in 1 .. m /\ (k + 1) - 1 = k
    BY <1>1, <1>8
  <2>2. t[k] = s[k + 1]
    BY <1>8
  <2>3. s[k + 1] = q[At(f, k)]
    BY <2>1, <1>5
  <2>4. s2[k] = q[At(g, k - 1)]
    BY <2>1, <1>6
  <2>5. QED
    BY <2>1, <2>2, <2>3, <2>4, <1>4
<1>11. t = s2
  BY <1>6, <1>8, <1>10, SeqEqual
<1>12. QED
  BY <1>3, <1>7, <1>9, <1>11 DEF t, s, s2, m, g

-----------------------------------------------------------------------------
(* A step that leaves the ring, the register and the process alone. *)
LEMMA QuietStep ==
  ASSUME UNCHANGED <<ring, port>>, where # "dead", where' # "dead"
  PROVE  UNCHANGED Fifo!vars
<1>1. key_queue' = key_queue /\ key_f' = key_f /\ key_r' = key_r /\ port' = port
  BY DEF ring
<1>2. Filled' = Filled
  BY <1>1 DEF Filled, Dist
<1>3. Waiting' = Waiting
  BY <1>1, <1>2 DEF Waiting, Contents, At
<1>4. QED
  BY <1>1, <1>3 DEF Fifo!vars

(* A key for which there is room goes to the end of those that wait. *)
LEMMA RingPut ==
  ASSUME TypeOK, where = "poll", NEW c \in Codes, key_enqueue(c), Succ(key_r) # key_f
  PROVE  /\ where' = "poll" /\ Waiting' = Append(Waiting, c)
         /\ Dist(key_f, key_r) < KEY_QUEUE_LEN - 1
<1> DEFINE d == Dist(key_f, key_r)
<1>1. key_queue \in [Slots -> Codes] /\ key_f \in Slots /\ key_r \in Slots
  BY DEF TypeOK
<1>2. /\ key_queue' = [key_queue EXCEPT ![key_r] = c]
      /\ key_f' = key_f /\ key_r' = Succ(key_r) /\ where' = "poll"
  BY DEF key_enqueue
<1>3. Succ(key_r) = IF key_r = KEY_QUEUE_LEN - 1 THEN 0 ELSE key_r + 1
  BY <1>1, SuccWraps
<1>4. d < KEY_QUEUE_LEN - 1 /\ Dist(key_f, Succ(key_r)) = d + 1
  BY <1>1, <1>3, RingAssumption DEF Dist, Slots
<1>5. Waiting = Contents(key_queue, key_f, d)
  BY DEF Filled, Waiting
<1>6. Filled' = d + 1
  BY <1>2, <1>4 DEF Filled, Dist
<1>7. Waiting' = Contents([key_queue EXCEPT ![key_r] = c], key_f, d + 1)
  BY <1>2, <1>6 DEF Waiting, Contents, At
<1>8. QED
  BY <1>1, <1>2, <1>4, <1>5, <1>7, ContentsAppend

(* A key that send_key lets through is put, or overflows the ring. *)
LEMMA EnqueueStep ==
  ASSUME TypeOK, where = "poll", NEW c \in Codes, key_enqueue(c), port' = port
  PROVE  Fifo!Next
<1> DEFINE d == Dist(key_f, key_r)
<1>1. key_queue \in [Slots -> Codes] /\ key_f \in Slots /\ key_r \in Slots
  BY DEF TypeOK
<1>2. /\ key_queue' = [key_queue EXCEPT ![key_r] = c]
      /\ key_f' = key_f /\ key_r' = Succ(key_r)
      /\ where' = IF Succ(key_r) = key_f THEN "dead" ELSE where
  BY DEF key_enqueue
<1>3. Succ(key_r) = IF key_r = KEY_QUEUE_LEN - 1 THEN 0 ELSE key_r + 1
  BY <1>1, SuccWraps
<1>4. d \in 0 .. KEY_QUEUE_LEN - 1
  BY <1>1, RingAssumption DEF Dist, Slots
<1>5. Filled = d /\ Waiting = Contents(key_queue, key_f, d)
  BY DEF Filled, Waiting
<1>6. Len(Waiting) = d
  BY <1>1, <1>4, <1>5, ContentsType
<1>7. CASE Succ(key_r) # key_f
  <2>1. d < KEY_QUEUE_LEN - 1 /\ where' = "poll" /\ Waiting' = Append(Waiting, c)
    BY <1>7, RingPut
  <2>2. Fifo!Put(c)
    BY <1>6, <2>1 DEF Fifo!Put
  <2>3. QED
    BY <2>2 DEF Fifo!Next
<1>8. CASE Succ(key_r) = key_f
  <2>1. d = KEY_QUEUE_LEN - 1
    BY <1>1, <1>3, <1>8, RingAssumption DEF Dist, Slots
  <2>2. where' = "dead" /\ Filled' = KEY_QUEUE_LEN - 1
    BY <1>2, <1>8 DEF Filled
  <2>3. \A k \in 1 .. KEY_QUEUE_LEN - 1 : At(key_f, k - 1) \in Slots /\ At(key_f, k - 1) # key_r
    BY <1>1, <2>1, RingAssumption DEF At, Dist, Slots
  <2>4. \A k \in 1 .. KEY_QUEUE_LEN - 1 : key_queue'[At(key_f, k - 1)] = key_queue[At(key_f, k - 1)]
    BY <1>1, <1>2, <2>3
  <2>5. Waiting' = [k \in 1 .. KEY_QUEUE_LEN - 1 |-> key_queue'[At(key_f, k - 1)]]
    BY <1>2, <2>2 DEF Waiting, Contents, At
  <2>6. Waiting = [k \in 1 .. KEY_QUEUE_LEN - 1 |-> key_queue[At(key_f, k - 1)]]
    BY <1>5, <2>1 DEF Contents
  <2>7. Waiting' = Waiting
    BY <2>4, <2>5, <2>6
  <2>8. Fifo!Overflow
    BY <1>6, <2>1, <2>2, <2>7 DEF Fifo!Overflow
  <2>9. QED
    BY <2>8 DEF Fifo!Next
<1>9. QED
  BY <1>7, <1>8

(* The guest's read takes the oldest key, or finds none. *)
LEMMA RingGet ==
  ASSUME TypeOK, read_key
  PROVE  /\ where = "guest" /\ where' # "dead"
         /\ \/ Waiting # <<>> /\ port' = Head(Waiting) /\ Waiting' = Tail(Waiting)
            \/ Waiting = <<>> /\ port' = NEMU_KEY_NONE /\ Waiting' = Waiting
<1>1. key_queue \in [Slots -> Codes] /\ key_f \in Slots /\ key_r \in Slots
  BY DEF TypeOK
<1>2. where = "guest" /\ where' # "dead" /\ key_dequeue
  BY DEF read_key, AfterInst
<1>3. Waiting = Contents(key_queue, key_f, Dist(key_f, key_r))
  BY <1>2 DEF Filled, Waiting
<1>4. Waiting' = Contents(key_queue', key_f', Dist(key_f', key_r'))
  BY <1>2 DEF Filled, Waiting, Contents, Dist, At
<1>5. CASE key_f # key_r
  <2>1. port' = key_queue[key_f] /\ key_f' = Succ(key_f) /\ key_queue' = key_queue /\ key_r' = key_r
    BY <1>2, <1>5 DEF key_dequeue
  <2>2. Waiting # <<>> /\ Head(Waiting) = key_queue[key_f] /\ Waiting' = Tail(Waiting)
    BY <1>1, <1>3, <1>4, <1>5, <2>1, ContentsTail
  <2>3. QED
    BY <1>2, <2>1, <2>2
<1>6. CASE key_f = key_r
  <2>1. port' = NEMU_KEY_NONE /\ key_f' = key_f /\ key_queue' = key_queue /\ key_r' = key_r
    BY <1>2, <1>6 DEF key_dequeue, ring
  <2>2. Dist(key_f, key_r) = 0 /\ 0 \in 0 .. KEY_QUEUE_LEN - 1
    BY <1>1, <1>6, RingAssumption DEF Dist, Slots
  <2>3. Waiting \in Seq(Codes) /\ Len(Waiting) = 0
    BY <1>1, <1>3, <2>2, ContentsType
  <2>4. Waiting = <<>> /\ Waiting' = Waiting
    BY <1>3, <1>4, <2>1, <2>3
  <2>5. QED
    BY <1>2, <2>1, <2>4
<1>7. QED
  BY <1>5, <1>6

(* read_key takes the oldest key, as the abstract queue does.              *)
LEMMA DequeueStep ==
  ASSUME TypeOK, read_key
  PROVE  Fifo!Next
<1>1. Fifo!Get
  BY RingGet DEF Fifo!Get
<1>2. QED
  BY <1>1 DEF Fifo!Next

(* One polled event puts at most one key. *)
LEMMA PollStep ==
  ASSUME TypeOK, poll_event
  PROVE  Fifo!Next \/ UNCHANGED Fifo!vars
<1> DEFINE event == Head(sdl)
           s     == event.scancode % 256
           c     == am_scancode(keymap[s], event.down)
<1>1. where = "poll" /\ port' = port
  BY DEF poll_event
<1>2. event \in Events
  BY HeadTailProperties DEF TypeOK, poll_event
<1>3. CASE event.type = "KEY" /\ state = "RUNNING" /\ keymap[s] # NEMU_KEY_NONE
  <2>1. event.scancode \in Nat /\ event.down \in BOOLEAN
    <3>1. event # [type |-> "QUIT"] /\ event # [type |-> "OTHER"]
      BY <1>3
    <3>2. event \in [type : {"KEY"}, scancode : Scancodes, down : BOOLEAN]
      BY <1>2, <3>1 DEF Events
    <3> HIDE DEF event
    <3>3. event.scancode \in Scancodes /\ event.down \in BOOLEAN
      BY <3>2
    <3>4. QED
      BY <3>3, KeyAssumption
  <2>2. s \in 0 .. 255
    BY <2>1
  <2>3. keymap[s] \in 0 .. KEYDOWN_MASK - 1
    BY <2>2, KeyAssumption
  <2>4. c \in Codes
    BY <2>1, <2>3, CodeType
  <2>5. key_enqueue(c)
    BY <1>3 DEF poll_event, send_key
  <2>6. QED
    BY <1>1, <2>4, <2>5, EnqueueStep
<1>4. CASE ~(event.type = "KEY" /\ state = "RUNNING" /\ keymap[s] # NEMU_KEY_NONE)
  <2>1. UNCHANGED <<ring, where>>
    BY <1>4 DEF poll_event, send_key
  <2>2. QED
    BY <1>1, <2>1, QuietStep
<1>5. QED
  BY <1>3, <1>4

(***************************************************************************)
(* The ring of keyboard.c is a bounded FIFO queue: no key is lost, doubled *)
(* or overtaken, and the overflow Assert fails only when KEY_QUEUE_LEN - 1 *)
(* keys wait.                                                              *)
(***************************************************************************)
THEOREM RingIsFifo == Spec => ImplementsFifo
<1>1. Init => Fifo!Init
  <2> SUFFICES ASSUME Init PROVE Fifo!Init
    OBVIOUS
  <2>1. key_f = 0 /\ key_r = 0 /\ where # "dead" /\ port = NEMU_KEY_NONE
    BY DEF Init
  <2>2. Filled = 0
    BY <2>1 DEF Filled, Dist
  <2>3. Waiting = <<>>
    BY <2>2 DEF Waiting, Contents
  <2>4. QED
    BY <2>1, <2>3 DEF Fifo!Init
<1>2. TypeOK /\ [Next]_vars => [Fifo!Next]_(Fifo!vars)
  <2> SUFFICES ASSUME TypeOK, [Next]_vars
               PROVE  Fifo!Next \/ UNCHANGED Fifo!vars
    OBVIOUS
  <2>1. ASSUME NEW e \in Events, user(e)
        PROVE  UNCHANGED Fifo!vars
    BY <2>1, QuietStep DEF user
  <2>2. CASE command
    BY <2>2, QuietStep DEF command
  <2>3. CASE poll_event
    BY <2>3, PollStep
  <2>4. ASSUME NEW more \in BOOLEAN, poll_done(more)
        PROVE  UNCHANGED Fifo!vars
    BY <2>4, QuietStep DEF poll_done
  <2>5. CASE other_inst
    BY <2>5, QuietStep DEF other_inst, AfterInst
  <2>6. CASE read_key
    BY <2>6, DequeueStep
  <2>7. CASE Dead \/ UNCHANGED vars
    <3>1. UNCHANGED <<key_queue, key_f, key_r, where, port>>
      BY <2>7 DEF Dead, vars, ring
    <3>2. Filled' = Filled
      BY <3>1 DEF Filled, Dist
    <3>3. Waiting' = Waiting
      BY <3>1, <3>2 DEF Waiting, Contents, At
    <3>4. QED
      BY <3>1, <3>3 DEF Fifo!vars
  <2>8. QED
    BY <2>1, <2>2, <2>3, <2>4, <2>5, <2>6, <2>7 DEF Next, Poll
<1>3. QED
  BY <1>1, <1>2, KeyTypes, PTL DEF Spec, ImplementsFifo, Fifo!Spec

-----------------------------------------------------------------------------
(* A code is decoded to the key it was made of. *)
LEMMA DecodedScancode ==
  ASSUME NEW k \in 0 .. KEYDOWN_MASK - 1, NEW down \in BOOLEAN
  PROVE  Decoded(am_scancode(k, down)) = [keycode |-> k, keydown |-> down]
<1> DEFINE M == KEYDOWN_MASK
           c == am_scancode(k, down)
<1>1. M \in Nat /\ M > 0
  BY KeyAssumption
<1>2. c = k + (IF down THEN M ELSE 0)
  BY DEF am_scancode
<1>3. c \in Int /\ (c >= M) = down
  BY <1>1, <1>2
<1>4. c % M = k
  <2> DEFINE r == c % M
             q == c \div M
  <2>1. r \in 0 .. M - 1 /\ q \in Int /\ c = q * M + r
    BY <1>1, <1>3
  <2> HIDE DEF r, q, c, M
  <2>2. PICK e \in {0, 1} : c = k + e * M
    BY <1>1, <1>2
  <2>3. (q - e) * M = q * M - e * M
    BY <1>1, <2>1, <2>2
  <2>4. (q - e) * M = k - r /\ q - e \in Int
    BY <1>1, <2>1, <2>2, <2>3
  <2>5. k \in 0 .. M - 1
    BY DEF M
  <2>6. -M < (q - e) * M /\ (q - e) * M < M
    BY <1>1, <2>1, <2>4, <2>5
  <2>7. q - e >= 1 => (q - e) * M >= M
    BY <1>1, <2>4
  <2>8. q - e <= -1 => (q - e) * M <= -M
    BY <1>1, <2>4
  <2>9. (q - e) * M = 0
    <3>1. q - e = 0
      BY <1>1, <2>4, <2>6, <2>7, <2>8
    <3>2. QED
      BY <1>1, <3>1
  <2>10. r = k
    BY <2>1, <2>4, <2>5, <2>9
  <2>11. QED
    BY <2>10 DEF r
<1>5. Decoded(c) = [keycode |-> c % M, keydown |-> c >= M]
  BY DEF Decoded
<1>6. QED
  BY <1>3, <1>4, <1>5

(* The keys that a sequence of codes stands for. *)
KeysOf(s) == [k \in 1 .. Len(s) |-> Decoded(s[k])]

(* The keys of a sequence of codes, one for each.                          *)
LEMMA KeysOfType ==
  ASSUME NEW s \in Seq(Codes)
  PROVE  /\ KeysOf(s) \in Seq(Keys) /\ Len(KeysOf(s)) = Len(s)
         /\ \A k \in 1 .. Len(s) : KeysOf(s)[k] = Decoded(s[k])
<1>1. Len(s) \in Nat /\ \A k \in 1 .. Len(s) : s[k] \in Codes
  OBVIOUS
<1>2. \A k \in 1 .. Len(s) : Decoded(s[k]) \in Keys
  BY <1>1, DecodedType
<1>3. QED
  BY <1>1, <1>2 DEF KeysOf

(* The keys read and those that wait, one sequence.                        *)
LEMMA KeysAfter ==
  ASSUME NEW g \in Seq(Keys), NEW s \in Seq(Codes)
  PROVE  /\ g \o KeysOf(s) \in Seq(Keys) /\ Len(g \o KeysOf(s)) = Len(g) + Len(s)
         /\ \A k \in 1 .. Len(g) : (g \o KeysOf(s))[k] = g[k]
         /\ \A k \in 1 .. Len(s) : (g \o KeysOf(s))[Len(g) + k] = Decoded(s[k])
<1> DEFINE u == KeysOf(s)
<1>1. u \in Seq(Keys) /\ Len(u) = Len(s) /\ \A k \in 1 .. Len(s) : u[k] = Decoded(s[k])
  BY KeysOfType
<1> HIDE DEF u
<1>2. /\ g \o u \in Seq(Keys) /\ Len(g \o u) = Len(g) + Len(u)
      /\ \A k \in 1 .. Len(g) : (g \o u)[k] = g[k]
      /\ \A k \in 1 .. Len(u) : (g \o u)[Len(g) + k] = u[k]
  <2> DEFINE a == g \o u
  <2>0. u \in Seq(Keys) /\ Len(g) \in Nat /\ Len(u) \in Nat
    BY <1>1
  <2>1. /\ a \in Seq(Keys) /\ Len(a) = Len(g) + Len(u)
        /\ \A k \in 1 .. Len(a) : a[k] = IF k <= Len(g) THEN g[k] ELSE u[k - Len(g)]
    BY <2>0, ConcatProperties
  <2> HIDE DEF a
  <2>2. ASSUME NEW k \in 1 .. Len(g) PROVE a[k] = g[k]
    BY <2>0, <2>1
  <2>3. ASSUME NEW k \in 1 .. Len(u) PROVE a[Len(g) + k] = u[k]
    <3>1. Len(g) + k \in 1 .. Len(a) /\ ~(Len(g) + k <= Len(g)) /\ (Len(g) + k) - Len(g) = k
      BY <2>0, <2>1
    <3>2. QED
      BY <2>0, <2>1, <3>1
  <2>4. QED
    BY <2>1, <2>2, <2>3 DEF a
<1>3. /\ g \o u \in Seq(Keys) /\ Len(g \o u) = Len(g) + Len(s)
      /\ \A k \in 1 .. Len(g) : (g \o u)[k] = g[k]
      /\ \A k \in 1 .. Len(s) : (g \o u)[Len(g) + k] = Decoded(s[k])
  BY <1>1, <1>2
<1>4. QED
  BY <1>3 DEF u

(* A code put at the end is a key put at the end ... *)
LEMMA KeysOfAppend ==
  ASSUME NEW g \in Seq(Keys), NEW s \in Seq(Codes), NEW c \in Codes
  PROVE  g \o KeysOf(Append(s, c)) = Append(g \o KeysOf(s), Decoded(c))
<1> DEFINE s2 == Append(s, c)
           a  == g \o KeysOf(s2)
           b  == g \o KeysOf(s)
           d  == Append(b, Decoded(c))
<1>1. /\ s2 \in Seq(Codes) /\ Len(s2) = Len(s) + 1 /\ s2[Len(s) + 1] = c
      /\ \A k \in 1 .. Len(s) : s2[k] = s[k]
  BY AppendProperties
<1> HIDE DEF s2
<1>4. Decoded(c) \in Keys
  BY DecodedType
<1>5. /\ a \in Seq(Keys) /\ Len(a) = Len(g) + Len(s2)
      /\ \A k \in 1 .. Len(g) : a[k] = g[k]
      /\ \A k \in 1 .. Len(s2) : a[Len(g) + k] = Decoded(s2[k])
  BY <1>1, KeysAfter
<1>6. /\ b \in Seq(Keys) /\ Len(b) = Len(g) + Len(s)
      /\ \A k \in 1 .. Len(g) : b[k] = g[k]
      /\ \A k \in 1 .. Len(s) : b[Len(g) + k] = Decoded(s[k])
  BY KeysAfter
<1> HIDE DEF a, b
<1>7. /\ d \in Seq(Keys) /\ Len(d) = Len(b) + 1 /\ d[Len(b) + 1] = Decoded(c)
      /\ \A k \in 1 .. Len(b) : d[k] = b[k]
  BY <1>4, <1>6, AppendProperties
<1> HIDE DEF d
<1>8. ASSUME NEW k \in 1 .. Len(a) PROVE a[k] = d[k]
  <2>0. Len(g) \in Nat /\ Len(s) \in Nat
    OBVIOUS
  <2>1. CASE k <= Len(g)
    <3>1. k \in 1 .. Len(g) /\ k \in 1 .. Len(b)
      BY <2>0, <2>1, <1>6
    <3>2. QED
      BY <3>1, <1>5, <1>6, <1>7
  <2>2. CASE k > Len(g)
    <3>1. PICK j \in 1 .. Len(s2) : k = Len(g) + j
      <4>1. k - Len(g) \in 1 .. Len(s2) /\ k = Len(g) + (k - Len(g))
        BY <2>0, <2>2, <1>1, <1>5
      <4>2. QED
        BY <4>1
    <3>2. a[k] = Decoded(s2[j])
      BY <3>1, <1>5
    <3>3. CASE j <= Len(s)
      <4>1. j \in 1 .. Len(s) /\ k \in 1 .. Len(b)
        BY <2>0, <3>1, <3>3, <1>6
      <4>2. QED
        BY <3>1, <3>2, <4>1, <1>1, <1>6, <1>7
    <3>4. CASE j > Len(s)
      <4>1. j = Len(s) + 1
        BY <2>0, <3>1, <3>4, <1>1
      <4>2. k = Len(b) + 1
        <5>1. Len(b) = Len(g) + Len(s)
          BY <1>6
        <5>2. QED
          BY <2>0, <3>1, <4>1, <5>1
      <4>3. QED
        BY <3>2, <4>1, <4>2, <1>1, <1>7
    <3>5. QED
      BY <2>0, <3>1, <3>3, <3>4
  <2>3. QED
    BY <2>0, <2>1, <2>2, <1>5
<1>9. a = d
  <2>1. Len(a) = Len(d)
    BY <1>1, <1>5, <1>6, <1>7
  <2>2. QED
    BY <2>1, <1>5, <1>7, <1>8, SeqEqual
<1>10. QED
  BY <1>9 DEF a, b, d, s2

(* ... and a code taken from the front is the key the guest gets next. *)
LEMMA KeysOfTail ==
  ASSUME NEW g \in Seq(Keys), NEW s \in Seq(Codes), s # <<>>
  PROVE  Append(g, Decoded(Head(s))) \o KeysOf(Tail(s)) = g \o KeysOf(s)
<1> DEFINE t  == Tail(s)
           g2 == Append(g, Decoded(Head(s)))
           a  == g2 \o KeysOf(t)
           b  == g \o KeysOf(s)
<1>1. /\ Head(s) \in Codes /\ t \in Seq(Codes) /\ Len(t) = Len(s) - 1
      /\ \A k \in 1 .. Len(t) : t[k] = s[k + 1]
  BY HeadTailProperties
<1>2. Head(s) = s[1] /\ Len(s) \in Nat /\ Len(s) >= 1
  OBVIOUS
<1> HIDE DEF t
<1>3. Decoded(Head(s)) \in Keys
  BY <1>1, DecodedType
<1>4. /\ g2 \in Seq(Keys) /\ Len(g2) = Len(g) + 1 /\ g2[Len(g) + 1] = Decoded(Head(s))
      /\ \A k \in 1 .. Len(g) : g2[k] = g[k]
  BY <1>3, AppendProperties
<1> HIDE DEF g2
<1>7. /\ a \in Seq(Keys) /\ Len(a) = Len(g2) + Len(t)
      /\ \A k \in 1 .. Len(g2) : a[k] = g2[k]
      /\ \A k \in 1 .. Len(t) : a[Len(g2) + k] = Decoded(t[k])
  BY <1>1, <1>4, KeysAfter
<1>8. /\ b \in Seq(Keys) /\ Len(b) = Len(g) + Len(s)
      /\ \A k \in 1 .. Len(g) : b[k] = g[k]
      /\ \A k \in 1 .. Len(s) : b[Len(g) + k] = Decoded(s[k])
  BY KeysAfter
<1> HIDE DEF a, b
<1>9. Len(a) = Len(b) /\ Len(g) \in Nat /\ Len(t) \in Nat
  BY <1>1, <1>2, <1>4, <1>7, <1>8
<1>10. ASSUME NEW k \in 1 .. Len(a) PROVE a[k] = b[k]
  <2>1. CASE k <= Len(g)
    <3>1. k \in 1 .. Len(g) /\ k \in 1 .. Len(g2)
      BY <2>1, <1>4, <1>9
    <3>2. QED
      BY <3>1, <1>4, <1>7, <1>8
  <2>2. CASE k = Len(g) + 1
    <3>1. 1 \in 1 .. Len(s) /\ k \in 1 .. Len(g2)
      BY <2>2, <1>2, <1>4, <1>9
    <3>2. a[k] = Decoded(Head(s))
      BY <2>2, <3>1, <1>4, <1>7
    <3>3. b[k] = Decoded(s[1])
      BY <2>2, <3>1, <1>8
    <3>4. QED
      BY <3>2, <3>3, <1>2
  <2>3. CASE k > Len(g) + 1
    <3>1. PICK j \in 1 .. Len(t) : k = Len(g2) + j
      <4>1. k - Len(g2) \in 1 .. Len(t) /\ k = Len(g2) + (k - Len(g2))
        BY <2>3, <1>4, <1>7, <1>9
      <4>2. QED
        BY <4>1
    <3>2. j + 1 \in 1 .. Len(s) /\ k = Len(g) + (j + 1)
      BY <3>1, <1>1, <1>2, <1>4, <1>9
    <3>3. a[k] = Decoded(t[j])
      BY <3>1, <1>7
    <3>4. b[k] = Decoded(s[j + 1])
      BY <3>2, <1>8
    <3>5. QED
      BY <3>1, <3>3, <3>4, <1>1
  <2>4. QED
    BY <2>1, <2>2, <2>3, <1>9
<1>11. a = b
  BY <1>7, <1>8, <1>9, <1>10, SeqEqual
<1>12. QED
  BY <1>11 DEF a, b, g2, t

(* The keys on their way, before the ring overflows. *)
OnTheWay ==
  where # "dead" =>
    /\ got \o KeysOf(Waiting) = sent
    /\ \A k \in 1 .. Len(Waiting) : Waiting[k] # NEMU_KEY_NONE

(* What waits in the ring, as a sequence.                                  *)
LEMMA WaitingType ==
  ASSUME TypeOK
  PROVE  Waiting \in Seq(Codes) /\ Len(Waiting) = Filled
<1>1. key_queue \in [Slots -> Codes] /\ key_f \in Slots /\ key_r \in Slots
  BY DEF TypeOK
<1>2. Filled \in 0 .. KEY_QUEUE_LEN - 1
  BY <1>1, RingAssumption DEF Filled, Dist, Slots
<1>3. QED
  BY <1>1, <1>2, ContentsType DEF Waiting

(* A step that moves no key. *)
LEMMA NoKeyMoves ==
  ASSUME OnTheWay, UNCHANGED <<ring, history>>, where # "dead", where' # "dead"
  PROVE  OnTheWay'
<1>1. Waiting' = Waiting
  <2>1. key_queue' = key_queue /\ key_f' = key_f /\ key_r' = key_r
    BY DEF ring
  <2>2. Filled' = Filled
    BY <2>1 DEF Filled, Dist
  <2>3. QED
    BY <2>1, <2>2 DEF Waiting, Contents, At
<1>2. sent' = sent /\ got' = got
  BY DEF history
<1>3. KeysOf(Waiting)' = KeysOf(Waiting)
  BY <1>1 DEF KeysOf, Decoded
<1>4. QED
  BY <1>1, <1>2, <1>3 DEF OnTheWay

(* A polled key joins the keys sent and the ring alike. *)
LEMMA PollKeepsOrder ==
  ASSUME TypeOK, OnTheWay, poll_event
  PROVE  OnTheWay'
<1> DEFINE event == Head(sdl)
           s     == event.scancode % 256
           c     == am_scancode(keymap[s], event.down)
           key   == [keycode |-> keymap[s], keydown |-> event.down]
<1>1. where = "poll" /\ got' = got
  BY DEF poll_event
<1>2. event \in Events
  BY HeadTailProperties DEF TypeOK, poll_event
<1>3. CASE event.type = "KEY" /\ state = "RUNNING" /\ keymap[s] # NEMU_KEY_NONE
  <2>1. event.scancode \in Nat /\ event.down \in BOOLEAN
    <3>1. event # [type |-> "QUIT"] /\ event # [type |-> "OTHER"]
      BY <1>3
    <3>2. event \in [type : {"KEY"}, scancode : Scancodes, down : BOOLEAN]
      BY <1>2, <3>1 DEF Events
    <3> HIDE DEF event
    <3>3. event.scancode \in Scancodes /\ event.down \in BOOLEAN
      BY <3>2
    <3>4. QED
      BY <3>3, KeyAssumption
  <2>2. s \in 0 .. 255
    BY <2>1
  <2>3. keymap[s] \in 0 .. KEYDOWN_MASK - 1
    BY <2>2, KeyAssumption
  <2>4. c \in Codes /\ Decoded(c) = key
    BY <2>1, <2>3, CodeType, DecodedScancode
  <2>5. c # NEMU_KEY_NONE
    <3> HIDE DEF event, s
    <3>1. keymap[s] > 0
      BY <1>3, <2>3, KeyAssumption DEF NEMU_KEY_NONE
    <3>2. QED
      BY <2>3, <3>1, KeyAssumption DEF am_scancode, NEMU_KEY_NONE
  <2>6. key_enqueue(c) /\ sent' = Append(sent, key)
    BY <1>3 DEF poll_event, send_key
  <2> HIDE DEF c, key
  <2>7. CASE Succ(key_r) = key_f
    BY <2>6, <2>7 DEF key_enqueue, OnTheWay
  <2>8. CASE Succ(key_r) # key_f
    <3>1. Waiting' = Append(Waiting, c)
      BY <1>1, <2>4, <2>6, <2>8, RingPut
    <3>2. Waiting \in Seq(Codes) /\ got \in Seq(Keys)
      BY WaitingType DEF TypeOK
    <3>3. got \o KeysOf(Append(Waiting, c)) = Append(got \o KeysOf(Waiting), key)
      BY <2>4, <3>2, KeysOfAppend
    <3>4. KeysOf(Waiting)' = KeysOf(Append(Waiting, c))
      BY <3>1 DEF KeysOf, Decoded
    <3>5. got' \o KeysOf(Waiting)' = sent'
      BY <1>1, <2>6, <3>3, <3>4 DEF OnTheWay
    <3>6. \A k \in 1 .. Len(Waiting') : Waiting'[k] # NEMU_KEY_NONE
      <4>1. /\ Len(Waiting') = Len(Waiting) + 1 /\ Len(Waiting) \in Nat /\ Waiting'[Len(Waiting) + 1] = c
            /\ \A k \in 1 .. Len(Waiting) : Waiting'[k] = Waiting[k]
        BY <2>4, <3>1, <3>2, AppendProperties
      <4>2. \A k \in 1 .. Len(Waiting) : Waiting[k] # NEMU_KEY_NONE
        BY <1>1 DEF OnTheWay
      <4>3. \A k \in 1 .. Len(Waiting) + 1 : k \in 1 .. Len(Waiting) \/ k = Len(Waiting) + 1
        BY <4>1
      <4>4. QED
        BY <2>5, <4>1, <4>2, <4>3
    <3>7. QED
      BY <3>5, <3>6 DEF OnTheWay
  <2>9. QED
    BY <2>7, <2>8
<1>4. CASE ~(event.type = "KEY" /\ state = "RUNNING" /\ keymap[s] # NEMU_KEY_NONE)
  <2>1. UNCHANGED <<ring, where, sent>>
    BY <1>4 DEF poll_event, send_key
  <2>2. QED
    BY <1>1, <2>1, NoKeyMoves DEF history
<1>5. QED
  BY <1>3, <1>4

(* What the driver returns is the oldest key of the ring. *)
LEMMA ReadKeepsOrder ==
  ASSUME TypeOK, OnTheWay, read_key
  PROVE  OnTheWay'
<1>1. Waiting \in Seq(Codes) /\ got \in Seq(Keys) /\ sent' = sent
  BY WaitingType DEF TypeOK, read_key
<1>2. where # "dead" /\ where' # "dead"
  BY RingGet
<1>3. got' = IF port' = NEMU_KEY_NONE THEN got ELSE Append(got, Decoded(port'))
  BY DEF read_key
<1>4. CASE Waiting # <<>> /\ port' = Head(Waiting) /\ Waiting' = Tail(Waiting)
  <2>1. Len(Waiting) \in Nat /\ Len(Waiting) >= 1 /\ Head(Waiting) = Waiting[1]
    BY <1>1, <1>4
  <2>2. port' # NEMU_KEY_NONE
    <3>1. 1 \in 1 .. Len(Waiting)
      BY <2>1
    <3>2. QED
      BY <1>2, <1>4, <2>1, <3>1 DEF OnTheWay
  <2>3. got' = Append(got, Decoded(Head(Waiting)))
    BY <1>3, <1>4, <2>2 DEF Decoded
  <2>4. KeysOf(Waiting)' = KeysOf(Tail(Waiting))
    BY <1>4 DEF KeysOf, Decoded
  <2>5. got' \o KeysOf(Waiting)' = sent'
    BY <1>1, <1>2, <1>4, <2>3, <2>4, KeysOfTail DEF OnTheWay
  <2>6. \A k \in 1 .. Len(Waiting') : Waiting'[k] # NEMU_KEY_NONE
    <3>1. Len(Waiting') = Len(Waiting) - 1 /\ \A k \in 1 .. Len(Waiting') : Waiting'[k] = Waiting[k + 1]
      BY <1>1, <1>4, HeadTailProperties
    <3>2. \A k \in 1 .. Len(Waiting') : k + 1 \in 1 .. Len(Waiting)
      BY <2>1, <3>1
    <3>3. QED
      BY <1>2, <3>1, <3>2 DEF OnTheWay
  <2>7. QED
    BY <2>5, <2>6 DEF OnTheWay
<1>5. CASE Waiting = <<>> /\ port' = NEMU_KEY_NONE /\ Waiting' = Waiting
  <2>1. got' = got /\ KeysOf(Waiting)' = KeysOf(Waiting)
    BY <1>3, <1>5 DEF KeysOf, Decoded
  <2>2. QED
    BY <1>1, <1>2, <1>5, <2>1 DEF OnTheWay
<1>6. QED
  BY <1>4, <1>5, RingGet

(***************************************************************************)
(* send_key, the ring and __am_input_keybrd together: until the ring       *)
(* overflows, the keys the driver has returned, followed by those it would *)
(* return next, are the keys send_key let through, in order and with their *)
(* directions.  No code in the ring is NEMU_KEY_NONE: a driver that reads  *)
(* on never takes a key for an empty keyboard.                             *)
(***************************************************************************)
THEOREM KeysReachGuest == Spec => []KeysInOrder
<1>1. Init => OnTheWay
  <2> SUFFICES ASSUME Init PROVE OnTheWay
    OBVIOUS
  <2>1. Filled = 0 /\ got = <<>> /\ sent = <<>>
    BY DEF Init, Filled, Dist
  <2>2. Waiting = <<>>
    BY <2>1 DEF Waiting, Contents
  <2>3. KeysOf(Waiting) = <<>>
    BY <2>2 DEF KeysOf
  <2>4. QED
    BY <2>1, <2>2, <2>3 DEF OnTheWay
<1>2. TypeOK /\ OnTheWay /\ [Next]_vars => OnTheWay'
  <2> SUFFICES ASSUME TypeOK, OnTheWay, [Next]_vars PROVE OnTheWay'
    OBVIOUS
  <2>1. ASSUME NEW e \in Events, user(e)
        PROVE  OnTheWay'
    BY <2>1, NoKeyMoves DEF user
  <2>2. CASE command
    BY <2>2, NoKeyMoves DEF command
  <2>3. CASE poll_event
    BY <2>3, PollKeepsOrder
  <2>4. ASSUME NEW more \in BOOLEAN, poll_done(more)
        PROVE  OnTheWay'
    BY <2>4, NoKeyMoves DEF poll_done
  <2>5. CASE other_inst
    BY <2>5, NoKeyMoves DEF other_inst, AfterInst
  <2>6. CASE read_key
    BY <2>6, ReadKeepsOrder
  <2>7. CASE Dead \/ UNCHANGED vars
    <3>1. UNCHANGED <<ring, history, where>>
      BY <2>7 DEF Dead, vars
    <3>2. QED
      BY <3>1, NoKeyMoves DEF OnTheWay
  <2>8. QED
    BY <2>1, <2>2, <2>3, <2>4, <2>5, <2>6, <2>7 DEF Next, Poll
<1>3. TypeOK /\ OnTheWay => KeysInOrder
  <2> SUFFICES ASSUME TypeOK, OnTheWay PROVE KeysInOrder
    OBVIOUS
  <2>1. KeysOf(Waiting) = [k \in 1 .. Filled |-> Decoded(Waiting[k])]
    BY WaitingType DEF KeysOf
  <2>2. QED
    BY <2>1 DEF OnTheWay, KeysInOrder
<1>4. QED
  BY <1>1, <1>2, <1>3, KeyTypes, PTL DEF Spec
=============================================================================
