---------------------------- MODULE SdHostProofs ----------------------------
(***************************************************************************)
(* Proofs about the SD card of NEMU and its Linux driver, for blocks and   *)
(* images of any size, any number of requests and any requests that the    *)
(* MMC core may make (RequestsAssumption).                                 *)
(***************************************************************************)
EXTENDS SdHost, SequenceTheorems, TLAPS

(* The data of a request are being moved, or have been.                    *)
Moving == pc \in {"pio", "fin"} /\ data
First == mrq.arg * K

(* Where the driver is, and what it has pending there. *)
Pending ==
  /\ pc \in {"idle", "sbc", "cmd", "stop"} => cmd = None /\ ~data
  /\ pc = "idle" <=> mrq = NoRequest
  /\ pc = "sbc" => mrq.data.dir = "read"
  /\ pc = "fin_sbc" => ~data
  /\ pc = "pio" => data
  /\ Moving => HasData(mrq)
  /\ pc = "fin" /\ data => data_complete
  /\ HasData(mrq) => mrq.data.size # 0
  /\ pc \in {"sbc", "fin_sbc", "cmd"} => ~error

(* The words moved and those left make up the transfer, unless a block     *)
(* failed.                                                                 *)
Counted ==
  Moving =>
    /\ left <= mrq.data.size /\ left # 0 /\ (left = -1 => mrq.data.size = -1)
    /\ blk = 0 => left = mrq.data.size
    /\ pc = "fin" => blk = 0
    /\ ~error => Len(buf) + (blk * mrq.data.size) + left = Moved + mrq.data.size

(* The position in the image follows the words moved; a read stops at the  *)
(* end of the image.                                                       *)
ReadAt ==
  Moving /\ mrq.op = "READ" /\ card.fp =>
    /\ ~card.write_cmd
    /\ card.pos <= First + Len(buf)
    /\ card.pos = First + Len(buf) \/ card.pos \notin DOMAIN card.file
    /\ \A i \in 1..Len(buf) :
         First + i - 1 \in DOMAIN card.file => buf[i] = card.file[First + i - 1]
WriteAt ==
  Moving /\ mrq.op = "WRITE" /\ card.fp =>
    /\ card.write_cmd
    /\ card.pos = First + Len(buf)
    /\ \A i \in 0..(Len(buf) - 1) :
         First + i \in DOMAIN card.file /\ card.file[First + i] = Seed(i)

(* EXT_CSD is read to its end, which is what takes the card out of that    *)
(* mode; no other command meets it there.                                  *)
ExtAt ==
  /\ card.read_ext_csd => pc = "pio" /\ mrq.op = "EXT_CSD"
  /\ Moving /\ mrq.op = "EXT_CSD" =>
       /\ ~error
       /\ Len(buf) + sg = K
       /\ card.read_ext_csd <=> Len(buf) < K
       /\ card.addr = Len(buf)
       /\ \A i \in 1..Len(buf) : buf[i] = ExtWord(i - 1)

IInv == TypeOK /\ Pending /\ Counted /\ ReadAt /\ WriteAt /\ ExtAt /\ DoneOnce

-----------------------------------------------------------------------------
(* The parts of a request. *)
LEMMA Asked ==
  ASSUME NEW r \in Requests
  PROVE  /\ r.op # None /\ r # NoRequest
         /\ r.arg \in Nat /\ r.arg * K \in Nat
         /\ r.stop \in BOOLEAN /\ r.sbc \in BOOLEAN
         /\ HasData(r) => /\ r.data.dir \in {"read", "write"} /\ r.data.blocks \in Nat
                          /\ r.data.size \in Nat \cup {-1} /\ r.data.sg \in Nat
                          /\ r.data.seed \in Int
         /\ r.data.dir = "read" => HasData(r)
         /\ HasData(r) /\ r.op = "READ" => r.data.dir = "read"
         /\ HasData(r) /\ r.op = "WRITE" => r.data.dir = "write"
         /\ r.op = "EXT_CSD" => /\ HasData(r) /\ r.data.dir = "read" /\ r.data.blocks = 1
                                /\ r.data.size = K /\ r.data.sg = K
<1>1. r \in [op : {q.op : q \in Requests}, arg : Nat, data : {NoData} \cup Transfer, stop : BOOLEAN, sbc : BOOLEAN]
  BY RequestsAssumption
<1>2. r.op # None
  BY RequestsAssumption
<1>3. r # NoRequest
  BY <1>2 DEF NoRequest
<1>4. r.arg \in Nat /\ r.arg * K \in Nat /\ r.stop \in BOOLEAN /\ r.sbc \in BOOLEAN
  BY <1>1, SizeAssumption
<1>5. r.data \in Transfer \/ (r.data = NoData /\ ~HasData(r))
  BY <1>1 DEF HasData, NoData
<1>6. HasData(r) => r.data.dir \in {"read", "write"} /\ r.data.blocks \in Nat
                          /\ r.data.size \in Nat \cup {-1} /\ r.data.sg \in Nat
                          /\ r.data.seed \in Int
  BY <1>5 DEF Transfer
<1>7. r.data.dir = "read" => HasData(r)
  BY DEF HasData
<1>8. /\ HasData(r) /\ r.op = "READ" => r.data.dir = "read"
      /\ HasData(r) /\ r.op = "WRITE" => r.data.dir = "write"
  BY <1>6, RequestsAssumption
<1>9. r.op = "EXT_CSD" => /\ HasData(r) /\ r.data.dir = "read" /\ r.data.blocks = 1
                         /\ r.data.size = K /\ r.data.sg = K
  BY <1>7, RequestsAssumption
<1>10. QED
  BY <1>2, <1>3, <1>4, <1>6, <1>7, <1>8, <1>9

(* A card whose image has the words of F. *)
CardOn(c, F) ==
  /\ c \in [fp : BOOLEAN, file : [F -> Int], pos : Nat, arg : Nat, rsp : Answers \cup {"none"},
            data : Int, addr : Nat, write_cmd : BOOLEAN, read_ext_csd : BOOLEAN, panic : BOOLEAN]
  /\ F \subseteq Nat /\ \A a \in F : 0..a \subseteq F

(* A card lies on the file it was made for ...                             *)
LEMMA CardIsOn ==
  ASSUME NEW c, IsCard(c)
  PROVE  CardOn(c, DOMAIN c.file)
BY DEF IsCard, CardOn

(* ... and what lies on a file is a card.                                  *)
LEMMA OnIsCard ==
  ASSUME NEW c, NEW F, CardOn(c, F)
  PROVE  IsCard(c) /\ DOMAIN c.file = F
<1>1. DOMAIN c.file = F
  BY DEF CardOn
<1>2. QED
  BY <1>1 DEF CardOn, IsCard

(* A command changes nothing of the image; a transfer starts at the block  *)
(* asked for, whatever the card did before.                                *)
LEMMA SendEffect ==
  ASSUME NEW c, IsCard(c), NEW op, NEW arg \in Nat, arg * K \in Nat
  PROVE  LET d == Send(c, op, arg)
         IN  /\ IsCard(d) /\ d.file = c.file /\ d.fp = c.fp
             /\ op = "READ" => ~d.write_cmd /\ d.pos = arg * K
             /\ op = "WRITE" => d.write_cmd /\ d.pos = arg * K
             /\ op = "EXT_CSD" => d.read_ext_csd /\ d.addr = 0
             /\ op # "EXT_CSD" => d.read_ext_csd = c.read_ext_csd
<1> DEFINE e == [c EXCEPT !.arg = arg]
           q == arg * K
           d == Send(c, op, arg)
<1>1. PICK F : CardOn(c, F)
  BY CardIsOn
<1>2. CardOn(e, F) /\ e.arg = arg /\ e.file = c.file /\ e.fp = c.fp /\ e.read_ext_csd = c.read_ext_csd
  BY <1>1 DEF CardOn
<1>3. d = sdcard_handle_cmd(e, op)
  BY DEF Send, WriteCmd, WriteArg
<1>4. q \in Nat
  OBVIOUS
<1> HIDE DEF e, q, d
<1>5. SUFFICES /\ CardOn(d, F) /\ d.file = c.file /\ d.fp = c.fp
               /\ op = "READ" => ~d.write_cmd /\ d.pos = q
               /\ op = "WRITE" => d.write_cmd /\ d.pos = q
               /\ op = "EXT_CSD" => d.read_ext_csd /\ d.addr = 0
               /\ op # "EXT_CSD" => d.read_ext_csd = c.read_ext_csd
  BY OnIsCard DEF d, q
<1>6. CASE op \in Silent
  BY <1>2, <1>3, <1>6 DEF sdcard_handle_cmd, Silent, Answers
<1>7. CASE op \in Answers
  BY <1>2, <1>3, <1>7 DEF sdcard_handle_cmd, Silent, Answers, CardOn
<1>8. CASE op = "EXT_CSD"
  <2>1. d = [e EXCEPT !.read_ext_csd = TRUE, !.addr = 0]
    BY <1>3, <1>8 DEF sdcard_handle_cmd, Silent, Answers
  <2>2. QED
    BY <1>2, <1>8, <2>1 DEF CardOn
<1>9. CASE op = "READ"
  <2>1. d = [e EXCEPT !.addr = 0, !.pos = q, !.write_cmd = FALSE]
    BY <1>2, <1>3, <1>9 DEF sdcard_handle_cmd, Silent, Answers, prepare_rw, q
  <2>2. QED
    BY <1>2, <1>4, <1>9, <2>1 DEF CardOn
<1>10. CASE op = "WRITE"
  <2>1. d = [e EXCEPT !.addr = 0, !.pos = q, !.write_cmd = TRUE]
    BY <1>2, <1>3, <1>10 DEF sdcard_handle_cmd, Silent, Answers, prepare_rw, q
  <2>2. QED
    BY <1>2, <1>4, <1>10, <2>1 DEF CardOn
<1>11. CASE op \notin Silent \cup Answers \cup {"EXT_CSD", "READ", "WRITE"}
  BY <1>2, <1>3, <1>11 DEF sdcard_handle_cmd, Silent, Answers, CardOn
<1>12. QED
  BY <1>6, <1>7, <1>8, <1>9, <1>10, <1>11

(* What an access to the data register does in each mode of the card. *)
LEMMA DataEffect ==
  ASSUME NEW c, IsCard(c)
  PROVE  LET d == AccessData(c)
         IN  /\ IsCard(d) /\ d.fp = c.fp
             /\ c.read_ext_csd => /\ d.data = ExtWord(c.addr) /\ d.addr = c.addr + 1
                                  /\ d.read_ext_csd = (c.addr # K - 1)
             /\ ~c.read_ext_csd => ~d.read_ext_csd
             /\ ~c.read_ext_csd /\ c.fp /\ ~c.write_cmd =>
                  /\ d.file = c.file /\ ~d.write_cmd
                  /\ c.pos \in DOMAIN c.file => d.data = c.file[c.pos] /\ d.pos = c.pos + 1
                  /\ c.pos \notin DOMAIN c.file => d.pos = c.pos
             /\ ~c.read_ext_csd /\ c.fp /\ c.write_cmd =>
                  /\ d.write_cmd /\ d.pos = c.pos + 1
                  /\ c.pos \in DOMAIN d.file /\ d.file[c.pos] = c.data
                  /\ \A a \in DOMAIN c.file : a \in DOMAIN d.file /\ (a # c.pos => d.file[a] = c.file[a])
<1> DEFINE d == AccessData(c)
           F == DOMAIN c.file
           a1 == c.addr + 1
           p1 == c.pos + 1
<1>0. CardOn(c, F)
  BY CardIsOn
<1>1. /\ c.pos \in Nat /\ c.addr \in Nat /\ c.data \in Int /\ K \in Nat /\ a1 \in Nat /\ p1 \in Nat
      /\ c.read_ext_csd \in BOOLEAN /\ c.fp \in BOOLEAN /\ c.write_cmd \in BOOLEAN
  BY SizeAssumption DEF IsCard
<1>2. CASE c.read_ext_csd
  <2> DEFINE v == ExtWord(c.addr)
             x == c.addr # K - 1
  <2>1. d = [c EXCEPT !.data = v, !.read_ext_csd = x, !.addr = a1]
    BY <1>2 DEF AccessData, DataExt
  <2>2. v \in Int /\ x \in BOOLEAN
    BY <1>1 DEF ExtWord
  <2> HIDE DEF v, x, a1, d, F
  <2>3. CardOn(d, F) /\ d.fp = c.fp /\ d.data = v /\ d.read_ext_csd = x /\ d.addr = a1
    BY <1>0, <1>1, <2>1, <2>2 DEF CardOn
  <2>4. IsCard(d)
    BY <2>3, OnIsCard
  <2>5. QED
    BY <1>2, <2>3, <2>4 DEF v, x, a1, d
<1>3. CASE ~c.read_ext_csd /\ ~c.fp
  <2>1. d = [c EXCEPT !.addr = a1]
    BY <1>3 DEF AccessData
  <2> HIDE DEF a1, d, F
  <2>2. CardOn(d, F) /\ d.fp = c.fp /\ d.read_ext_csd = c.read_ext_csd
    BY <1>0, <1>1, <2>1 DEF CardOn
  <2>3. IsCard(d)
    BY <2>2, OnIsCard
  <2>4. QED
    BY <1>3, <2>2, <2>3 DEF d
<1>4. CASE ~c.read_ext_csd /\ c.fp /\ ~c.write_cmd
  <2>1. CASE c.pos \in F
    <3> DEFINE v == c.file[c.pos]
    <3>1. d = [c EXCEPT !.data = v, !.pos = p1, !.addr = a1]
      BY <1>4, <2>1 DEF AccessData, DataFile
    <3>2. v \in Int
      BY <1>0, <2>1 DEF CardOn
    <3> HIDE DEF v, p1, a1, d, F
    <3>3. CardOn(d, F) /\ d.fp = c.fp /\ d.data = v /\ d.pos = p1 /\ d.file = c.file
          /\ d.write_cmd = c.write_cmd /\ d.read_ext_csd = c.read_ext_csd
      BY <1>0, <1>1, <3>1, <3>2 DEF CardOn
    <3>4. IsCard(d)
      BY <3>3, OnIsCard
    <3>5. QED
      BY <1>4, <2>1, <3>3, <3>4 DEF v, p1, d, F
  <2>2. CASE c.pos \notin F
    <3>1. d = [c EXCEPT !.addr = a1]
      BY <1>4, <2>2 DEF AccessData, DataFile
    <3> HIDE DEF a1, d, F
    <3>2. CardOn(d, F) /\ d.fp = c.fp /\ d.pos = c.pos /\ d.file = c.file
          /\ d.write_cmd = c.write_cmd /\ d.read_ext_csd = c.read_ext_csd
      BY <1>0, <1>1, <3>1 DEF CardOn
    <3>3. IsCard(d)
      BY <3>2, OnIsCard
    <3>4. QED
      BY <1>4, <2>2, <3>2, <3>3 DEF d, F
  <2>3. QED
    BY <2>1, <2>2
<1>5. CASE ~c.read_ext_csd /\ c.fp /\ c.write_cmd
  <2> DEFINE D == F \cup 0..c.pos
             f == [a \in D |-> IF a = c.pos THEN c.data ELSE IF a \in F THEN c.file[a] ELSE 0]
  <2>1. d = [c EXCEPT !.file = f, !.pos = p1, !.addr = a1]
    BY <1>5 DEF AccessData, DataFile
  <2>2. f \in [D -> Int] /\ DOMAIN f = D
    BY <1>0, <1>1 DEF CardOn
  <2>3. D \subseteq Nat /\ \A a \in D : 0..a \subseteq D
    BY <1>0, <1>1 DEF CardOn
  <2>4. c.pos \in D /\ f[c.pos] = c.data
        /\ \A a \in F : a \in D /\ (a # c.pos => f[a] = c.file[a])
    BY <1>1
  <2> HIDE DEF f, D, p1, a1, d, F
  <2>5. CardOn(d, D) /\ d.file = f /\ d.pos = p1 /\ d.write_cmd = c.write_cmd
        /\ d.fp = c.fp /\ d.read_ext_csd = c.read_ext_csd
    BY <1>0, <1>1, <2>1, <2>2, <2>3 DEF CardOn
  <2>6. IsCard(d)
    BY <2>5, OnIsCard
  <2>7. QED
    BY <1>5, <2>2, <2>4, <2>5, <2>6 DEF d, F, p1
<1>6. QED
  BY <1>1, <1>2, <1>3, <1>4, <1>5

-----------------------------------------------------------------------------
(* The request that is no request carries no data.                         *)
LEMMA NoData_ == ~HasData(NoRequest) /\ NoRequest.data.dir # "read"
BY DEF HasData, NoRequest, NoData

(* Driver, controller and card start idle.                                 *)
LEMMA InitInv == Init => IInv
<1> SUFFICES ASSUME Init PROVE IInv
  OBVIOUS
<1>1. PICK found \in BOOLEAN : card = NewCard(found)
  BY DEF Init
<1>2. NWords \in Nat
  BY SizeAssumption DEF NWords
<1>3. IsCard(card) /\ ~card.read_ext_csd
  <2> DEFINE F == 0..(NWords - 1)
  <2>1. Image \in [F -> Int] /\ F \subseteq Nat /\ \A a \in F : 0..a \subseteq F
    BY <1>2 DEF Image
  <2>2. card = [fp |-> found, file |-> Image, pos |-> 0, arg |-> 0, rsp |-> "none", data |-> 0,
                addr |-> 0, write_cmd |-> FALSE, read_ext_csd |-> FALSE, panic |-> FALSE]
    BY <1>1 DEF NewCard
  <2> HIDE DEF F
  <2>3. CardOn(card, F) /\ ~card.read_ext_csd
    BY <2>1, <2>2 DEF CardOn
  <2>4. QED
    BY <2>3, OnIsCard
<1>4. TypeOK
  <2>1. buf \in Seq(Int)
    BY DEF Init
  <2>2. data \in BOOLEAN /\ data_complete \in BOOLEAN /\ use_sbc \in BOOLEAN /\ error \in BOOLEAN
    BY DEF Init
  <2>3. QED
    BY <1>3, <2>1, <2>2 DEF Init, TypeOK
<1>5. Pending
  BY NoData_ DEF Init, Pending, Moving
<1>6. DoneOnce
  BY DEF Init, DoneOnce
<1>7. ~Moving
  BY DEF Init, Moving
<1>8. QED
  BY <1>3, <1>4, <1>5, <1>6, <1>7 DEF IInv, Counted, ReadAt, WriteAt, ExtAt

(* A new request of the driver keeps the invariant.                        *)
LEMMA RequestStep ==
  ASSUME IInv, nemu_request
  PROVE  IInv'
<1>1. TypeOK /\ Pending /\ DoneOnce /\ ~card.read_ext_csd /\ pc = "idle"
  BY DEF IInv, ExtAt, nemu_request
<1>2. PICK r \in Requests :
        IF HasData(r) /\ r.data.size = 0
        THEN /\ dones' = dones + 1 /\ error' = TRUE
             /\ UNCHANGED <<card, pc, host, blk, left, sg, buf, resp>>
        ELSE /\ mrq' = r
             /\ error' = FALSE
             /\ use_sbc' = (r.sbc /\ r.data.dir = "read")
             /\ pc' = IF use_sbc' THEN "sbc" ELSE "cmd"
             /\ UNCHANGED <<card, cmd, data, data_complete, blk, left, sg, buf, resp, dones>>
  BY DEF nemu_request
<1>3. asked' = asked + 1
  BY DEF nemu_request
<1>4. CASE HasData(r) /\ r.data.size = 0
  <2>1. TypeOK'
    BY <1>1, <1>2, <1>3, <1>4 DEF TypeOK, host
  <2>2. Pending'
    BY <1>1, <1>2, <1>4 DEF Pending, Moving, HasData, host
  <2>3. DoneOnce'
    BY <1>1, <1>2, <1>3, <1>4 DEF TypeOK, DoneOnce, host, Pending
  <2>4. ~Moving' /\ ~card'.read_ext_csd
    BY <1>1, <1>2, <1>4 DEF Moving
  <2>5. QED
    BY <2>1, <2>2, <2>3, <2>4 DEF IInv, Counted, ReadAt, WriteAt, ExtAt
<1>5. CASE ~(HasData(r) /\ r.data.size = 0)
  <2>0. r # NoRequest /\ r.sbc \in BOOLEAN
    BY Asked
  <2>1. TypeOK'
    <3>1. error' \in BOOLEAN /\ use_sbc' \in BOOLEAN
      BY <1>2, <1>5
    <3>2. pc' \in {"sbc", "cmd"} /\ mrq' \in Requests /\ asked' \in Nat
      BY <1>1, <1>2, <1>3, <1>5 DEF TypeOK
    <3>3. UNCHANGED <<card, cmd, data, data_complete, blk, left, sg, buf, resp, dones>>
      BY <1>2, <1>5
    <3>4. QED
      BY <1>1, <3>1, <3>2, <3>3 DEF TypeOK
  <2>2. Pending'
    BY <1>1, <1>2, <1>5, <2>0 DEF Pending, Moving, HasData
  <2>3. DoneOnce'
    BY <1>1, <1>2, <1>3, <1>5, <2>0 DEF TypeOK, DoneOnce, Pending
  <2>4. ~Moving' /\ ~card'.read_ext_csd
    BY <1>1, <1>2, <1>5 DEF Moving
  <2>5. QED
    BY <2>1, <2>2, <2>3, <2>4 DEF IInv, Counted, ReadAt, WriteAt, ExtAt
<1>6. QED
  BY <1>4, <1>5

(* CMD23 and CMD12, and what follows each of them. *)
LEMMA SideCommands ==
  ASSUME IInv, send_sbc \/ finish_sbc \/ send_stop \/ finish_stop
  PROVE  IInv'
<1>1. /\ TypeOK /\ Pending /\ DoneOnce /\ ~card.read_ext_csd /\ mrq \in Requests
      /\ pc \in {"sbc", "fin_sbc", "stop", "fin_stop"}
  BY DEF IInv, ExtAt, send_sbc, finish_sbc, send_stop, finish_stop, TypeOK, Pending
<1>2. IsCard(card)
  BY <1>1 DEF TypeOK
<1>3. SUFFICES TypeOK' /\ Pending' /\ DoneOnce' /\ ~Moving' /\ ~card'.read_ext_csd
  BY DEF IInv, Counted, ReadAt, WriteAt, ExtAt
<1>4. CASE send_sbc
  <2>1. mrq.data.blocks \in Nat /\ mrq.data.blocks * K \in Nat
    BY <1>1, <1>4, Asked, SizeAssumption DEF send_sbc, Pending
  <2>a. card' = Send(card, "BLOCK_COUNT", mrq.data.blocks)
    BY <1>4 DEF send_sbc
  <2>2. IsCard(card') /\ ~card'.read_ext_csd
    BY <1>1, <1>2, <2>1, <2>a, SendEffect
  <2>3. TypeOK'
    BY <1>1, <1>4, <2>2 DEF TypeOK, send_sbc, pio
  <2>4. QED
    BY <1>1, <1>4, <2>2, <2>3 DEF Pending, Moving, HasData, DoneOnce, send_sbc, pio
<1>5. CASE finish_sbc
  BY <1>1, <1>5 DEF TypeOK, Pending, Moving, HasData, DoneOnce, finish_sbc, pio
<1>6. CASE send_stop
  <2>1. 0 * K \in Nat /\ 0 \in Nat
    BY SizeAssumption
  <2>a. card' = Send(card, "STOP", 0)
    BY <1>6 DEF send_stop
  <2>2. IsCard(card') /\ ~card'.read_ext_csd
    BY <1>1, <1>2, <2>1, <2>a, SendEffect
  <2>3. TypeOK'
    BY <1>1, <1>6, <2>2 DEF TypeOK, send_stop, pio
  <2>4. QED
    BY <1>1, <1>6, <2>2, <2>3 DEF Pending, Moving, HasData, DoneOnce, send_stop, pio
<1>7. CASE finish_stop
  <2>1. TypeOK'
    <3>1. /\ mrq' = NoRequest /\ cmd' = None /\ data' = FALSE /\ pc' = "idle" /\ dones' = dones + 1
          /\ UNCHANGED <<card, data_complete, use_sbc, error, blk, left, sg, buf, asked>>
      BY <1>7 DEF finish_stop, finish_request, pio
    <3>2. data' \in BOOLEAN
      BY <3>1
    <3>3. QED
      BY <1>1, <3>1, <3>2 DEF TypeOK
  <2>2. Pending'
    BY <1>7, NoData_ DEF Pending, Moving, finish_stop, finish_request
  <2>3. DoneOnce'
    BY <1>1, <1>7 DEF TypeOK, Pending, DoneOnce, finish_stop, finish_request
  <2>4. QED
    BY <1>1, <1>7, <2>1, <2>2, <2>3 DEF Moving, finish_stop, finish_request
<1>8. QED
  BY <1>4, <1>5, <1>6, <1>7

(* Sending a command to the controller keeps the invariant.                *)
LEMMA SendStep ==
  ASSUME IInv, send_cmd
  PROVE  IInv'
<1>1. /\ TypeOK /\ Pending /\ DoneOnce /\ ~card.read_ext_csd /\ mrq \in Requests
      /\ pc = "cmd" /\ mrq' = mrq /\ error' = error /\ IsCard(card)
  BY DEF IInv, ExtAt, send_cmd, TypeOK, Pending
<1>2. LET d == card'
      IN  /\ IsCard(d) /\ d.file = card.file /\ d.fp = card.fp
          /\ mrq.op = "READ" => ~d.write_cmd /\ d.pos = First
          /\ mrq.op = "WRITE" => d.write_cmd /\ d.pos = First
          /\ mrq.op = "EXT_CSD" => d.read_ext_csd /\ d.addr = 0
          /\ mrq.op # "EXT_CSD" => ~d.read_ext_csd
  <2>1. mrq.arg \in Nat /\ mrq.arg * K \in Nat
    BY <1>1, Asked
  <2>2. card' = Send(card, mrq.op, mrq.arg)
    BY DEF send_cmd
  <2>3. QED
    <3> DEFINE o == mrq.op
               g == mrq.arg
    <3>1. g \in Nat /\ g * K \in Nat /\ card' = Send(card, o, g)
      BY <2>1, <2>2
    <3> HIDE DEF o, g
    <3>2. /\ IsCard(card') /\ card'.file = card.file /\ card'.fp = card.fp
          /\ o = "READ" => ~card'.write_cmd /\ card'.pos = g * K
          /\ o = "WRITE" => card'.write_cmd /\ card'.pos = g * K
          /\ o = "EXT_CSD" => card'.read_ext_csd /\ card'.addr = 0
          /\ o # "EXT_CSD" => card'.read_ext_csd = card.read_ext_csd
      BY <1>1, <3>1, SendEffect
    <3>3. QED
      BY <1>1, <3>2 DEF First, o, g
<1>3. CASE ~HasData(mrq)
  <2>1. mrq.op # "EXT_CSD"
    BY <1>1, <1>3, Asked
  <2>2. TypeOK'
    <3>1. /\ cmd' = "cmd" /\ pc' = "fin" /\ data' = FALSE
          /\ UNCHANGED <<mrq, data_complete, use_sbc, error, blk, left, sg, buf, asked, dones>>
      BY <1>3 DEF send_cmd
    <3>2. data' \in BOOLEAN
      BY <3>1
    <3>3. QED
      BY <1>1, <1>2, <3>1, <3>2 DEF TypeOK
  <2>3. Pending' /\ ~Moving' /\ DoneOnce'
    BY <1>1, <1>3 DEF Pending, Moving, HasData, DoneOnce, send_cmd
  <2>4. QED
    BY <1>2, <2>1, <2>2, <2>3 DEF IInv, Counted, ReadAt, WriteAt, ExtAt
<1>4. CASE HasData(mrq)
  <2>1. /\ mrq.data.blocks \in Nat /\ mrq.data.size \in Nat \cup {-1} /\ mrq.data.sg \in Nat
        /\ mrq.data.size # 0 /\ First \in Nat
    BY <1>1, <1>4, Asked DEF Pending, First
  <2>2. /\ pc' = "pio" /\ data' = TRUE /\ buf' = <<>> /\ blk' = mrq.data.blocks /\ cmd' = "cmd"
        /\ left' = mrq.data.size /\ sg' = mrq.data.sg /\ data_complete' = FALSE
        /\ use_sbc' = use_sbc /\ asked' = asked /\ dones' = dones
    BY <1>4 DEF send_cmd
  <2>3. Len(buf') = 0 /\ buf' \in Seq(Int)
    BY <2>2
  <2>4. TypeOK'
    BY <1>1, <1>2, <2>1, <2>2, <2>3 DEF TypeOK
  <2>5. Pending' /\ DoneOnce'
    BY <1>1, <1>4, <2>2 DEF Pending, Moving, HasData, DoneOnce
  <2>6. Counted'
    <3>1. Len(buf') + (blk' * mrq.data.size) + left' = (mrq.data.blocks * mrq.data.size) + mrq.data.size
      BY <2>1, <2>2, <2>3
    <3>2. QED
      BY <1>1, <2>1, <2>2, <3>1 DEF Counted, Moved
  <2>7. ReadAt'
    BY <1>1, <1>2, <2>1, <2>3 DEF ReadAt, First
  <2>8. WriteAt'
    BY <1>1, <1>2, <2>1, <2>3 DEF WriteAt, First
  <2>9. ExtAt'
    <3>1. mrq.op = "EXT_CSD" => mrq.data.sg = K /\ K \in Nat \ {0}
      BY <1>1, Asked, SizeAssumption
    <3>2. ~error
      BY <1>1 DEF Pending
    <3>3. QED
      BY <1>1, <1>2, <2>2, <2>3, <3>1, <3>2 DEF ExtAt
  <2>10. QED
    BY <2>4, <2>5, <2>6, <2>7, <2>8, <2>9 DEF IInv
<1>5. QED
  BY <1>3, <1>4

(* A product grows by its factor. *)
LEMMA OneBlockLess ==
  ASSUME NEW n \in Nat \ {0}, NEW m \in Int
  PROVE  n * m = ((n - 1) * m) + m
OBVIOUS

(* The length of a transfer is a natural number.                           *)
LEMMA ProductNat ==
  ASSUME NEW n \in Nat, NEW m \in Nat
  PROVE  n * m \in Nat
OBVIOUS

(* One word of a transfer. *)
LEMMA WordStep ==
  ASSUME IInv, pio_word
  PROVE  IInv'
<1> DEFINE L == Len(buf)
           size == mrq.data.size
           v == Seed(L)
           isRead == mrq.data.dir = "read"
           c == IF isRead THEN card ELSE [card EXCEPT !.data = v]
           w == IF isRead THEN card'.data ELSE v
<1>1. /\ TypeOK /\ Pending /\ Counted /\ ReadAt /\ WriteAt /\ ExtAt /\ DoneOnce
      /\ pc = "pio" /\ Moving /\ blk > 0 /\ left > 0 /\ sg > 0
  BY DEF IInv, pio_word, Pending, Moving
<1>2. mrq \in Requests /\ HasData(mrq) /\ IsCard(card) /\ buf \in Seq(Int) /\ L \in Nat
  BY <1>1 DEF TypeOK, Pending
<1>3. /\ size \in Nat \ {0} /\ left \in 1..size /\ First \in Nat /\ v \in Int
      /\ mrq.data.blocks \in Nat /\ blk \in Nat \ {0} /\ sg \in Nat \ {0} /\ K \in Nat \ {0}
  BY <1>1, <1>2, Asked, SizeAssumption DEF TypeOK, Counted, First, Seed
<1>4. /\ sg' = sg - 1 /\ blk' = (IF left = 1 THEN blk - 1 ELSE blk)
      /\ left' = (IF left = 1 THEN size ELSE left - 1)
      /\ pc' = pc /\ mrq' = mrq /\ cmd' = cmd /\ data' = data /\ data_complete' = data_complete
      /\ use_sbc' = use_sbc /\ error' = error /\ asked' = asked /\ dones' = dones
  BY DEF pio_word, host
<1>5. card' = AccessData(c) /\ buf' = Append(buf, w)
  BY DEF pio_word, ReadData, WriteData
<1>6. /\ IsCard(c) /\ c.file = card.file /\ c.fp = card.fp /\ c.pos = card.pos /\ c.addr = card.addr
      /\ c.write_cmd = card.write_cmd /\ c.read_ext_csd = card.read_ext_csd
      /\ ~isRead => c.data = v
  <2>1. CASE isRead
    BY <1>2, <2>1
  <2>2. CASE ~isRead
    <3>1. CardOn(card, DOMAIN card.file)
      BY <1>2, CardIsOn
    <3> DEFINE F == DOMAIN card.file
    <3>2. c = [card EXCEPT !.data = v]
      BY <2>2
    <3> HIDE DEF F, v, c
    <3>3. /\ CardOn(c, F) /\ c.file = card.file /\ c.fp = card.fp /\ c.pos = card.pos /\ c.addr = card.addr
          /\ c.write_cmd = card.write_cmd /\ c.read_ext_csd = card.read_ext_csd /\ c.data = v
      BY <1>3, <3>1, <3>2 DEF CardOn, F
    <3>4. QED
      BY <3>3, OnIsCard
  <2>3. QED
    BY <2>1, <2>2
<1>7. /\ IsCard(card') /\ card'.fp = card.fp
      /\ card.read_ext_csd => /\ card'.data = ExtWord(card.addr) /\ card'.addr = card.addr + 1
                              /\ card'.read_ext_csd = (card.addr # K - 1)
      /\ ~card.read_ext_csd => ~card'.read_ext_csd
      /\ ~card.read_ext_csd /\ card.fp /\ ~card.write_cmd =>
           /\ card'.file = card.file /\ ~card'.write_cmd
           /\ card.pos \in DOMAIN card.file => card'.data = card.file[card.pos] /\ card'.pos = card.pos + 1
           /\ card.pos \notin DOMAIN card.file => card'.pos = card.pos
      /\ ~card.read_ext_csd /\ card.fp /\ card.write_cmd =>
           /\ card'.write_cmd /\ card'.pos = card.pos + 1
           /\ card.pos \in DOMAIN card'.file /\ card'.file[card.pos] = c.data
           /\ \A a \in DOMAIN card.file :
                a \in DOMAIN card'.file /\ (a # card.pos => card'.file[a] = card.file[a])
  <2> HIDE DEF c
  <2>1. LET d == AccessData(c)
         IN  /\ IsCard(d) /\ d.fp = c.fp
             /\ c.read_ext_csd => /\ d.data = ExtWord(c.addr) /\ d.addr = c.addr + 1
                                  /\ d.read_ext_csd = (c.addr # K - 1)
             /\ ~c.read_ext_csd => ~d.read_ext_csd
             /\ ~c.read_ext_csd /\ c.fp /\ ~c.write_cmd =>
                  /\ d.file = c.file /\ ~d.write_cmd
                  /\ c.pos \in DOMAIN c.file => d.data = c.file[c.pos] /\ d.pos = c.pos + 1
                  /\ c.pos \notin DOMAIN c.file => d.pos = c.pos
             /\ ~c.read_ext_csd /\ c.fp /\ c.write_cmd =>
                  /\ d.write_cmd /\ d.pos = c.pos + 1
                  /\ c.pos \in DOMAIN d.file /\ d.file[c.pos] = c.data
                  /\ \A a \in DOMAIN c.file : a \in DOMAIN d.file /\ (a # c.pos => d.file[a] = c.file[a])
    BY <1>6, DataEffect
  <2>2. QED
    BY <1>5, <1>6, <2>1
<1> HIDE DEF c
<1>8. w \in Int /\ (isRead => w = card'.data) /\ (~isRead => w = v)
  BY <1>3, <1>7 DEF IsCard
<1> HIDE DEF w
<1>9. /\ buf' \in Seq(Int) /\ Len(buf') = L + 1 /\ buf'[L + 1] = w
      /\ \A i \in 1..L : buf'[i] = buf[i]
  BY <1>2, <1>5, <1>8
<1>10. TypeOK'
  <2>1. blk' \in Nat /\ left' \in Nat \cup {-1} /\ sg' \in Nat
    BY <1>3, <1>4
  <2>2. QED
    BY <1>1, <1>4, <1>7, <1>9, <2>1 DEF TypeOK
<1>11. Pending' /\ DoneOnce' /\ Moving'
  BY <1>1, <1>4 DEF Pending, Moving, HasData, DoneOnce
<1>12. Counted'
  <2>1. left' <= size /\ left' # 0 /\ left' # -1 /\ (blk' = 0 => left' = size)
    BY <1>3, <1>4
  <2>2. ~error => L + (blk * size) + left = (mrq.data.blocks * size) + size
    BY <1>1 DEF Counted, Moved
  <2>3. blk * size = ((blk - 1) * size) + size
    BY <1>3, OneBlockLess
  <2>4. (blk * size) \in Nat /\ ((blk - 1) * size) \in Nat /\ (mrq.data.blocks * size) \in Nat
    <3>1. blk \in Nat /\ blk - 1 \in Nat /\ mrq.data.blocks \in Nat /\ size \in Nat
      BY <1>3
    <3> HIDE DEF size
    <3>2. QED
      BY <3>1, ProductNat
  <2>5. ~error => (L + 1) + (blk' * size) + left' = (mrq.data.blocks * size) + size
    <3> DEFINE x == blk * size
               y == (blk - 1) * size
               m == mrq.data.blocks * size
    <3>1. CASE left = 1
      <4>1. blk' * size = y /\ left' = size
        BY <1>4, <3>1
      <4>2. x = y + size /\ x \in Nat /\ y \in Nat /\ m \in Nat /\ (~error => L + x + left = m + size)
        BY <2>2, <2>3, <2>4
      <4> HIDE DEF x, y, m
      <4>3. ~error => (L + 1) + y + size = m + size
        <5>1. L \in Int /\ size \in Int
          BY <1>2, <1>3
        <5> HIDE DEF L, size
        <5>2. QED
          BY <3>1, <4>2, <5>1
      <4>4. QED
        BY <4>1, <4>3 DEF m
    <3>2. CASE left # 1
      <4>1. blk' * size = x /\ left' = left - 1
        BY <1>4, <3>2
      <4>2. x \in Nat /\ m \in Nat /\ (~error => L + x + left = m + size)
        BY <2>2, <2>4
      <4> HIDE DEF x, y, m
      <4>3. ~error => (L + 1) + x + (left - 1) = m + size
        BY <1>2, <1>3, <4>2
      <4>4. QED
        BY <4>1, <4>3 DEF m
    <3>3. QED
      BY <3>1, <3>2
  <2>6. QED
    BY <1>1, <1>4, <1>9, <2>1, <2>5 DEF Counted, Moved
<1>13. ReadAt'
  <2> SUFFICES ASSUME mrq.op = "READ", card.fp
               PROVE  /\ ~card'.write_cmd
                      /\ card'.pos <= First + (L + 1)
                      /\ card'.pos = First + (L + 1) \/ card'.pos \notin DOMAIN card'.file
                      /\ \A i \in 1..(L + 1) :
                           First + i - 1 \in DOMAIN card'.file => buf'[i] = card'.file[First + i - 1]
    BY <1>4, <1>7, <1>9 DEF ReadAt, First
  <2>1. /\ ~card.write_cmd /\ card.pos <= First + L
        /\ card.pos = First + L \/ card.pos \notin DOMAIN card.file
        /\ \A i \in 1..L : First + i - 1 \in DOMAIN card.file => buf[i] = card.file[First + i - 1]
    BY <1>1 DEF ReadAt
  <2>2. isRead /\ ~card.read_ext_csd
    BY <1>1, <1>2, Asked DEF ExtAt
  <2>3. card'.file = card.file /\ ~card'.write_cmd /\ w = card'.data
    BY <1>7, <1>8, <2>1, <2>2
  <2>4. card.pos \in Nat /\ \A a \in DOMAIN card.file : a \in Nat /\ 0..a \subseteq DOMAIN card.file
    BY <1>2 DEF IsCard
  <2>5. CASE card.pos \in DOMAIN card.file
    <3>1. card.pos = First + L /\ card'.pos = card.pos + 1 /\ w = card.file[card.pos]
      BY <1>7, <2>1, <2>2, <2>3, <2>5
    <3>2. \A i \in 1..(L + 1) : First + i - 1 \in DOMAIN card.file => buf'[i] = card.file[First + i - 1]
      <4>1. First + (L + 1) - 1 = First + L
        BY <1>2, <1>3
      <4>2. ASSUME NEW i \in 1..(L + 1), i # L + 1
            PROVE  i \in 1..L
        BY <1>2, <4>2
      <4>3. QED
        BY <1>9, <2>1, <3>1, <4>1, <4>2
    <3>3. QED
      BY <1>2, <1>3, <2>3, <3>1, <3>2
  <2>6. CASE card.pos \notin DOMAIN card.file
    <3>1. card'.pos = card.pos
      BY <1>7, <2>1, <2>2, <2>6
    <3>2. First + L \notin DOMAIN card.file
      BY <1>2, <1>3, <2>1, <2>4, <2>6
    <3>3. \A i \in 1..(L + 1) : First + i - 1 \in DOMAIN card.file => buf'[i] = card.file[First + i - 1]
      <4>1. First + (L + 1) - 1 = First + L
        BY <1>2, <1>3
      <4>2. ASSUME NEW i \in 1..(L + 1), i # L + 1
            PROVE  i \in 1..L
        BY <1>2, <4>2
      <4>3. QED
        BY <1>9, <2>1, <3>2, <4>1, <4>2
    <3>4. QED
      BY <1>2, <1>3, <2>1, <2>3, <2>4, <2>6, <3>1, <3>3
  <2>7. QED
    BY <2>5, <2>6
<1>14. WriteAt'
  <2> SUFFICES ASSUME mrq.op = "WRITE", card.fp
               PROVE  /\ card'.write_cmd
                      /\ card'.pos = First + (L + 1)
                      /\ \A i \in 0..L :
                           First + i \in DOMAIN card'.file /\ card'.file[First + i] = Seed(i)
    <3>1. (L + 1) - 1 = L
      BY <1>2
    <3>2. QED
      BY <1>4, <1>7, <1>9, <3>1 DEF WriteAt, First, Seed
  <2>1. /\ card.write_cmd /\ card.pos = First + L
        /\ \A i \in 0..(L - 1) : First + i \in DOMAIN card.file /\ card.file[First + i] = Seed(i)
    BY <1>1 DEF WriteAt
  <2>2. ~isRead /\ ~card.read_ext_csd
    BY <1>1, <1>2, Asked DEF ExtAt
  <2>3. /\ card'.write_cmd /\ card'.pos = card.pos + 1 /\ card.pos \in DOMAIN card'.file
        /\ card'.file[card.pos] = Seed(L)
        /\ \A a \in DOMAIN card.file : a \in DOMAIN card'.file /\ (a # card.pos => card'.file[a] = card.file[a])
    BY <1>6, <1>7, <2>1, <2>2
  <2>4. ASSUME NEW i \in 0..L
        PROVE  First + i \in DOMAIN card'.file /\ card'.file[First + i] = Seed(i)
    <3>1. CASE i = L
      BY <2>1, <2>3, <3>1
    <3>2. CASE i # L
      <4>1. i \in 0..(L - 1) /\ First + i # First + L
        BY <1>2, <1>3, <3>2
      <4>2. QED
        BY <2>1, <2>3, <4>1
    <3>3. QED
      BY <3>1, <3>2
  <2>5. QED
    BY <1>2, <1>3, <2>1, <2>3, <2>4
<1>15. ExtAt'
  <2>1. CASE mrq.op # "EXT_CSD"
    BY <1>1, <1>4, <1>7, <2>1 DEF ExtAt
  <2>2. CASE mrq.op = "EXT_CSD"
    <3>1. /\ ~error /\ L + sg = K /\ card.addr = L
          /\ card.read_ext_csd <=> L < K
          /\ \A i \in 1..L : buf[i] = ExtWord(i - 1)
      BY <1>1, <2>2 DEF ExtAt
    <3>2. isRead /\ L < K /\ card.read_ext_csd
      BY <1>2, <1>3, <2>2, <3>1, Asked
    <3>3. card'.addr = L + 1 /\ w = ExtWord(L) /\ (card'.read_ext_csd <=> L + 1 < K)
      <4>1. card'.addr = L + 1 /\ w = ExtWord(L) /\ card'.read_ext_csd = (L # K - 1)
        BY <1>7, <1>8, <3>1, <3>2
      <4>2. L # K - 1 <=> L + 1 < K
        BY <1>2, <1>3, <3>2
      <4>3. QED
        BY <4>1, <4>2
    <3>4. (L + 1) + sg' = K
      BY <1>2, <1>3, <1>4, <3>1
    <3>5. \A i \in 1..(L + 1) : buf'[i] = ExtWord(i - 1)
      BY <1>2, <1>9, <3>1, <3>3
    <3>6. QED
      BY <1>1, <1>4, <1>9, <2>2, <3>1, <3>3, <3>4, <3>5 DEF ExtAt
  <2>3. QED
    BY <2>1, <2>2
<1>16. QED
  BY <1>10, <1>11, <1>12, <1>13, <1>14, <1>15 DEF IInv

(* A block that fails: the buffer of EXT_CSD is never used up before. *)
LEMMA ErrorStep ==
  ASSUME IInv, pio_error
  PROVE  IInv'
<1>1. /\ TypeOK /\ Pending /\ Counted /\ ReadAt /\ WriteAt /\ ExtAt /\ DoneOnce
      /\ pc = "pio" /\ Moving /\ blk > 0 /\ (sg = 0 \/ left = -1)
  BY DEF IInv, pio_error, Pending, Moving
<1>2. /\ error' = TRUE /\ blk' = blk - 1 /\ left' = mrq.data.size
      /\ UNCHANGED <<card, pc, mrq, cmd, data, data_complete, use_sbc, sg, buf, asked, dones>>
  BY DEF pio_error, host
<1>3. mrq \in Requests /\ HasData(mrq) /\ blk \in Nat \ {0} /\ left \in Nat \cup {-1} /\ buf \in Seq(Int)
  BY <1>1 DEF TypeOK, Pending
<1>4. mrq.data.size \in Nat \cup {-1} /\ mrq.data.size # 0
  BY <1>1, <1>3, Asked DEF Pending
<1>5. mrq.op # "EXT_CSD"
  <2> SUFFICES ASSUME mrq.op = "EXT_CSD" PROVE FALSE
    OBVIOUS
  <2>1. mrq.data.size = K /\ mrq.data.blocks = 1 /\ K \in Nat \ {0}
    BY <1>3, Asked, SizeAssumption
  <2>2. ~error /\ Len(buf) + sg = K
    BY <1>1 DEF ExtAt
  <2>3. left \in 1..K
    BY <1>1, <1>3, <2>1 DEF Counted
  <2>4. sg = 0 /\ Len(buf) = K
    BY <1>1, <1>3, <2>1, <2>2, <2>3
  <2>5. Len(buf) + (blk * K) + left = (1 * K) + K
    BY <1>1, <2>1, <2>2 DEF Counted, Moved
  <2>6. blk * K = ((blk - 1) * K) + K /\ ((blk - 1) * K) \in Nat
    <3>1. blk - 1 \in Nat /\ K \in Nat
      BY <1>3, <2>1
    <3>2. QED
      BY <1>3, <3>1, OneBlockLess, ProductNat
  <2> DEFINE y == (blk - 1) * K
  <2>7. Len(buf) + (y + K) + left = K + K /\ y \in Nat
    BY <2>1, <2>5, <2>6
  <2> HIDE DEF y
  <2>8. QED
    BY <2>1, <2>3, <2>4, <2>7
<1>6. TypeOK'
  <2>1. error' \in BOOLEAN /\ blk' \in Nat /\ left' \in Nat \cup {-1}
    BY <1>2, <1>3, <1>4
  <2>2. QED
    BY <1>1, <1>2, <2>1 DEF TypeOK
<1>7. Pending' /\ DoneOnce'
  BY <1>1, <1>2 DEF Pending, Moving, HasData, DoneOnce
<1>8. Counted'
  BY <1>1, <1>2, <1>4 DEF Counted
<1>9. ReadAt' /\ WriteAt' /\ ExtAt'
  BY <1>1, <1>2, <1>5 DEF ReadAt, WriteAt, ExtAt, First, Moving, Seed
<1>10. QED
  BY <1>6, <1>7, <1>8, <1>9 DEF IInv

(* The end of the data of a request keeps the invariant.                   *)
LEMMA FinishDataStep ==
  ASSUME IInv, nemu_finish_data
  PROVE  IInv'
<1>1. /\ TypeOK /\ Pending /\ Counted /\ ReadAt /\ WriteAt /\ ExtAt /\ DoneOnce
      /\ pc = "pio" /\ Moving /\ blk = 0
  BY DEF IInv, nemu_finish_data, Pending, Moving
<1>2. /\ data_complete' = TRUE /\ pc' = "fin"
      /\ UNCHANGED <<card, mrq, cmd, data, use_sbc, error, blk, left, sg, buf, asked, dones>>
  BY DEF nemu_finish_data, pio
<1>3. TypeOK'
  <2>1. data_complete' \in BOOLEAN
    BY <1>2
  <2>2. QED
    BY <1>1, <1>2, <2>1 DEF TypeOK
<1>4. Pending' /\ DoneOnce' /\ Moving'
  BY <1>1, <1>2 DEF Pending, Moving, HasData, DoneOnce
<1>5. Counted'
  BY <1>1, <1>2 DEF Counted, Moved
<1>6. ReadAt' /\ WriteAt'
  BY <1>1, <1>2 DEF ReadAt, WriteAt, First, Seed
<1>7. ~card.read_ext_csd
  <2> SUFFICES ASSUME card.read_ext_csd PROVE FALSE
    OBVIOUS
  <2>1. mrq.op = "EXT_CSD" /\ mrq \in Requests /\ buf \in Seq(Int)
    BY <1>1 DEF ExtAt, TypeOK, Pending
  <2>2. mrq.data.size = K /\ mrq.data.blocks = 1 /\ K \in Nat \ {0}
    BY <2>1, Asked, SizeAssumption
  <2>3. ~error /\ Len(buf) < K
    BY <1>1, <2>1 DEF ExtAt
  <2>4. Len(buf) + (0 * K) + K = (1 * K) + K
    BY <1>1, <2>2, <2>3 DEF Counted, Moved
  <2>5. QED
    BY <2>1, <2>2, <2>3, <2>4
<1>8. ExtAt'
  BY <1>1, <1>2, <1>7 DEF ExtAt
<1>9. QED
  BY <1>3, <1>4, <1>5, <1>6, <1>8 DEF IInv

(* The end of a command keeps the invariant.                               *)
LEMMA FinishStep ==
  ASSUME IInv, finish_command
  PROVE  IInv'
<1>1. TypeOK /\ Pending /\ DoneOnce /\ ~card.read_ext_csd /\ mrq \in Requests /\ pc = "fin"
  BY DEF IInv, ExtAt, finish_command, TypeOK, Pending
<1>2. UNCHANGED <<card, data_complete, use_sbc, error, blk, left, sg, buf, asked>>
  BY DEF finish_command, pio
<1>3. CASE data /\ data_complete /\ NeedsStop
  <2>1. cmd' = None /\ data' = FALSE /\ pc' = "stop" /\ UNCHANGED <<mrq, dones>>
    BY <1>3 DEF finish_command
  <2>2. TypeOK'
    <3>1. data' \in BOOLEAN
      BY <2>1
    <3>2. QED
      BY <1>1, <1>2, <2>1, <3>1 DEF TypeOK
  <2>3. Pending' /\ DoneOnce' /\ ~Moving' /\ ~card'.read_ext_csd
    BY <1>1, <1>2, <2>1 DEF Pending, Moving, HasData, DoneOnce
  <2>4. QED
    BY <2>2, <2>3 DEF IInv, Counted, ReadAt, WriteAt, ExtAt
<1>4. CASE ~(data /\ data_complete /\ NeedsStop)
  <2>1. mrq' = NoRequest /\ cmd' = None /\ data' = FALSE /\ pc' = "idle" /\ dones' = dones + 1
    BY <1>4 DEF finish_command, finish_request
  <2>2. TypeOK'
    <3>1. data' \in BOOLEAN
      BY <2>1
    <3>2. QED
      BY <1>1, <1>2, <2>1, <3>1 DEF TypeOK
  <2>3. Pending' /\ ~Moving' /\ ~card'.read_ext_csd
    BY <1>1, <1>2, <2>1, NoData_ DEF Pending, Moving
  <2>4. DoneOnce'
    BY <1>1, <1>2, <2>1 DEF TypeOK, Pending, DoneOnce
  <2>5. QED
    BY <2>2, <2>3, <2>4 DEF IInv, Counted, ReadAt, WriteAt, ExtAt
<1>5. QED
  BY <1>3, <1>4

-----------------------------------------------------------------------------
(* The inductive invariant: the words moved, the position of the card and  *)
(* the mode it is in, tied to the request that is running.                 *)
THEOREM SdInductive == Spec => []IInv
<1>1. IInv /\ [Next]_vars => IInv'
  <2> SUFFICES ASSUME IInv, [Next]_vars PROVE IInv'
    OBVIOUS
  <2>1. CASE UNCHANGED vars
    BY <2>1 DEF vars, IInv, TypeOK, Pending, Counted, ReadAt, WriteAt, ExtAt, DoneOnce,
                Moving, First, Moved, Seed, HasData
  <2>2. CASE Next
    BY <2>2, RequestStep, SideCommands, SendStep, WordStep, ErrorStep, FinishDataStep, FinishStep
    DEF Next, Driver
  <2>3. QED
    BY <2>1, <2>2
<1>2. QED
  BY InitInv, <1>1, PTL DEF Spec

(* sdcard.c and nemu.c, for any sequence of requests: a read that reports  *)
(* success delivered the words asked for, a write that does has its words  *)
(* in the image, each request is reported once and no WARN_ON is hit.      *)
THEOREM SdRequestsRight == Spec => []RequestsRight
<1>1. IInv => RequestsRight
  <2> SUFFICES ASSUME IInv PROVE RequestsRight
    OBVIOUS
  <2>1. TypeOK /\ Pending /\ Counted /\ ReadAt /\ WriteAt /\ ExtAt /\ DoneOnce
    BY DEF IInv
  <2>2. NoWarning
    BY <2>1 DEF NoWarning, Pending
  <2>3. ASSUME Complete
        PROVE  /\ Moving /\ mrq \in Requests /\ Len(buf) = Moved
               /\ First \in Nat /\ Len(buf) \in Nat
    <3>1. Moving /\ mrq \in Requests /\ HasData(mrq) /\ buf \in Seq(Int) /\ ~error
      BY <2>1, <2>3 DEF Complete, Moving, TypeOK, Pending
    <3>2. mrq.data.size \in Int /\ mrq.data.blocks \in Nat /\ First \in Nat
      BY <3>1, Asked DEF First
    <3>3. blk = 0 /\ left = mrq.data.size
      BY <2>1, <2>3, <3>1 DEF Counted, Complete
    <3> DEFINE m == mrq.data.blocks * mrq.data.size
    <3>4. m \in Int
      BY <3>2
    <3>5. Len(buf) + (0 * mrq.data.size) + mrq.data.size = m + mrq.data.size
      BY <2>1, <3>1, <3>3 DEF Counted, Moved
    <3> HIDE DEF m
    <3>6. Len(buf) = m /\ Len(buf) \in Nat
      BY <3>1, <3>2, <3>4, <3>5
    <3>7. QED
      BY <3>1, <3>2, <3>6 DEF m, Moved
  <2>4. ReadsRight
    <3> SUFFICES ASSUME Complete, mrq.data.dir = "read", NEW i \in 1..Len(buf)
                 PROVE  /\ Len(buf) = Moved
                        /\ mrq.op = "READ" /\ card.fp /\ First + i - 1 \in DOMAIN card.file
                              => buf[i] = card.file[First + i - 1]
                        /\ mrq.op = "EXT_CSD" => buf[i] = ExtWord(i - 1)
      BY <2>3 DEF ReadsRight, First
    <3>1. QED
      BY <2>1, <2>3 DEF ReadAt, ExtAt
  <2>5. WritesRight
    BY <2>1, <2>3 DEF WritesRight, WriteAt, First
  <2>6. QED
    BY <2>1, <2>2, <2>4, <2>5 DEF RequestsRight
<1>2. QED
  BY SdInductive, <1>1, PTL
=============================================================================
