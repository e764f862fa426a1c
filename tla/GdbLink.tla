------------------------------ MODULE GdbLink ------------------------------
(***************************************************************************)
(* The qemu-diff adapter (nemu/tools/qemu-diff): the entry points of the   *)
(* differential test, the remote protocol they are turned into, and QEMU's *)
(* stub at the other end of the connection (external).                     *)
(*                                                                         *)
(* What QEMU sends is kept byte by byte, since recv_packet takes it apart; *)
(* what the adapter sends is kept as commands, which the stub accepts or   *)
(* refuses by their checksum.  The line may damage a byte between '$' and  *)
(* the end of the checksum of a packet, MaxFaults times.                   *)
(***************************************************************************)
EXTENDS Integers, Sequences, SequencesExt

CONSTANTS Mtu,        \* bytes of one 'M' command, 1500 in the code
          Regs,       \* registers of the stub: 1..Regs, one byte each
          DutRegs,    \* DIFFTEST_REG_SIZE: registers 1..DutRegs are the DUT's
          Addr,       \* guest addresses 0..Addr
          Values,     \* values of a byte of memory or a register
          StartValue, \* of the registers, when the adapter connects
          Images,     \* what difftest_memcpy may be asked to copy
          Noise,      \* bytes the line may make of another
          MaxFaults,  \* bound on damaged packets
          MaxCalls    \* bound on calls of the differential test

ASSUME LinkAssumption == /\ Mtu \in Nat \ {0} /\ DutRegs \in 1..Regs
                         /\ Values \subseteq 0..255 /\ Noise \subseteq 0..255

VARIABLES pc,        \* "idle", "send", or what the adapter waits for: "ack", "reply"
          todo,      \* commands of the current call still to be sent, in order
          got,       \* registers of the last reply to 'g'
          toServer, toClient,
          mem, regs, steps,   \* the guest in QEMU
          last,      \* the reply the stub keeps in case it has to repeat it
          faults, calls,
          want       \* history: the guest as the calls so far should leave it

vars == <<pc, todo, got, toServer, toClient, mem, regs, steps, last, faults, calls, want>>
guest == <<mem, regs, steps>>

Dollar == 36
Hash   == 35
Escape == 125
Star   == 42
Plus   == 43
Minus  == 45
OK     == <<79, 75>>
T05    == <<84, 48, 53>>
Ack    == [kind |-> "+"]
Nack   == [kind |-> "-"]

\* hex_encode, hex_nibble, isxdigit, gdb_decode_hex
hex_encode(digit) == IF digit > 9 THEN 97 + digit - 10 ELSE 48 + digit
HexByte(b) == <<hex_encode(b \div 16), hex_encode(b % 16)>>
isxdigit(c) == c \in (48..57) \union (65..70) \union (97..102)
hex_nibble(c) == IF c <= 57 THEN c - 48 ELSE IF c <= 70 THEN c - 55 ELSE c - 87
gdb_decode_hex(msb, lsb) ==
  IF isxdigit(msb) /\ isxdigit(lsb) THEN 16 * hex_nibble(msb) + hex_nibble(lsb) ELSE 65535

\* The for loop of gdb_getregs: two digits for each byte of the registers.
DecodeRegs(reply) ==
  LET at(i) == IF i <= Len(reply) THEN reply[i] ELSE 0
  IN [r \in 1..Regs |-> gdb_decode_hex(at(2 * r - 1), at(2 * r))]

Xor32(c) == IF (c \div 32) % 2 = 0 THEN c + 32 ELSE c - 32
Incomplete == [complete |-> FALSE]

(***************************************************************************)
(* The second loop of recv_packet, at byte k of the stream: reply so far,  *)
(* its checksum, and whether the next byte is escaped.  It blocks, here    *)
(* Incomplete, at the end of the stream.                                   *)
(***************************************************************************)
RECURSIVE RecvFrom(_, _, _, _, _)
RecvFrom(in, k, reply, sum, escape) ==
  IF k > Len(in) THEN Incomplete
  ELSE LET c == in[k]
           sum1 == (sum + c) % 256
           store == RecvFrom(in, k + 1, Append(reply, IF escape THEN Xor32(c) ELSE c), sum1, FALSE)
       IN CASE c = Dollar -> RecvFrom(in, k + 1, <<>>, 0, FALSE)
            [] c = Hash   -> IF k + 2 > Len(in) THEN Incomplete
                             ELSE [complete |-> TRUE, reply |-> reply,
                                   sum_ok |-> sum = gdb_decode_hex(in[k + 1], in[k + 2]),
                                   rest |-> SubSeq(in, k + 3, Len(in))]
            [] c = Escape -> RecvFrom(in, k + 1, reply, sum1, TRUE)
            [] c = Star /\ reply # <<>> ->
                 IF k = Len(in) THEN Incomplete
                 ELSE LET c2 == in[k + 1]
                      IN IF c2 < 29 \/ c2 > 126 \/ c2 \in {Dollar, Hash} THEN store
                         ELSE RecvFrom(in, k + 2,
                                reply \o [n \in 1..(c2 - 29) |-> Last(reply)],
                                (sum1 + c2) % 256, escape)
            [] OTHER -> store

\* recv_packet: skip to the first start of packet, then read up to its end.
recv_packet(in) ==
  LET starts == {k \in 1..Len(in) : in[k] = Dollar}
  IN IF starts = {} THEN Incomplete
     ELSE RecvFrom(in, 1 + (CHOOSE k \in starts : \A j \in starts : k <= j), <<>>, 0, FALSE)

(***************************************************************************)
(* A packet as the stub writes it: runs of four equal bytes or more may be *)
(* shortened; the checksum is of what is on the line.                      *)
(***************************************************************************)
Shorten(s) ==
  IF Len(s) < 4 \/ \E i \in 4..Len(s) : s[i] # s[i - 1] THEN s
  ELSE SubSeq(s, 1, 3) \o <<Star, Len(s) - 3 + 29>>
Sum(s) == FoldLeft(LAMBDA a, b : (a + b) % 256, 0, s)
Frame(s) == <<Dollar>> \o s \o <<Hash>> \o HexByte(Sum(s))
Damaged(p) == {[p EXCEPT ![i] = b] : i \in 2..Len(p), b \in Noise} \ {p}
\* The line does not damage the end mark: nothing at either end times out.
OnTheLine(p) == {p} \union (IF faults = 0 THEN {}
                            ELSE {q \in Damaged(p) : q[Len(p) - 2] = Hash})

Init ==
  /\ pc = "idle" /\ todo = <<>> /\ got = <<>>
  /\ toServer = <<Ack>>                       \* the ack gdb_begin sends first
  /\ toClient = <<>>
  /\ mem = [a \in 0..Addr |-> 0] /\ regs = [r \in 1..Regs |-> StartValue] /\ steps = 0
  /\ last = <<>>
  /\ faults = MaxFaults /\ calls = 0
  /\ want = [mem |-> mem, regs |-> regs, steps |-> 0]

(***************************************************************************)
(* The entry points of diff-test.c.                                        *)
(***************************************************************************)
\* Faulty variant: the pointer into the source is not moved.
gdb_memcpy_to_qemu_same(dest, src) ==
  LET full == IF src = <<>> THEN 0 ELSE (Len(src) - 1) \div Mtu
  IN [i \in 1..(full + 1) |->
       [op |-> "M", dest |-> dest + (i - 1) * Mtu,
        data |-> SubSeq(src, 1, IF i <= full THEN Mtu ELSE Len(src) - full * Mtu)]]

\* gdb_memcpy_to_qemu: the commands of its loop.  Every turn but the last
\* copies Mtu bytes; the last one copies what is left, if only 0 bytes.
gdb_memcpy_to_qemu(dest, src) ==
  LET full == IF src = <<>> THEN 0 ELSE (Len(src) - 1) \div Mtu
  IN [i \in 1..(full + 1) |->
       [op |-> "M", dest |-> dest + (i - 1) * Mtu,
        data |-> SubSeq(src, (i - 1) * Mtu + 1, IF i <= full THEN i * Mtu ELSE Len(src))]]

Start(commands) ==
  /\ pc = "idle" /\ calls < MaxCalls /\ calls' = calls + 1
  /\ todo' = commands /\ pc' = "send"
  /\ UNCHANGED <<got, toServer, toClient, guest, last, faults>>

difftest_memcpy ==
  \E dest \in 0..Addr, src \in Images :
     /\ dest + Len(src) <= Addr + 1
     /\ Start(gdb_memcpy_to_qemu(dest, src))
     /\ want' = [want EXCEPT !.mem = [a \in 0..Addr |->
                   IF a \in dest..(dest + Len(src) - 1) THEN src[a - dest + 1] ELSE @[a]]]

\* The registers are fetched first in both directions; towards the reference
\* the DUT's are then laid over them and all are stored.
difftest_regcpy ==
  \/ Start(<<[op |-> "g"]>>) /\ UNCHANGED want
  \/ \E dut \in [1..DutRegs -> Values] :
       /\ Start(<<[op |-> "g"], [op |-> "G", dut |-> dut]>>)
       /\ want' = [want EXCEPT !.regs = [r \in 1..Regs |-> IF r <= DutRegs THEN dut[r] ELSE @[r]]]

\* A step of the guest, as far as the differential test can tell: the last
\* register, which the DUT does not have, counts them.
Stepped(r) == [r EXCEPT ![Regs] = (@ + 1) % 256]

difftest_exec ==
  \E n \in 0..2 :
     /\ Start([i \in 1..n |-> [op |-> "s"]])
     /\ want' = [want EXCEPT !.steps = @ + n,
                             !.regs = [@ EXCEPT ![Regs] = (@ + n) % 256]]

(***************************************************************************)
(* protocol.c                                                              *)
(***************************************************************************)
\* What gdb_setregs writes: the registers fetched before, the DUT's laid over.
Command(c) ==
  IF c.op = "G"
  THEN [op |-> "G", regs |-> [r \in 1..Regs |-> IF r <= DutRegs THEN c.dut[r] ELSE got[r]]]
  ELSE c

send_packet == \E ok \in {TRUE} \union {faults = 0} :
                 /\ toServer' = Append(toServer, [kind |-> "$", command |-> Command(Head(todo)), sum_ok |-> ok])
                 /\ faults' = IF ok THEN faults ELSE faults - 1

\* A call that has no command left returns; otherwise the next is sent.
gdb_send ==
  /\ pc = "send"
  /\ IF todo = <<>> THEN pc' = "idle" /\ UNCHANGED <<toServer, faults>>
                    ELSE pc' = "ack" /\ send_packet
  /\ UNCHANGED <<todo, got, toClient, guest, last, calls, want>>

\* Faulty variant: any answer counts as an acknowledgement.
gdb_send_acked_any ==
  /\ pc = "ack" /\ toClient # <<>>
  /\ toClient' = Tail(toClient) /\ pc' = "reply"
  /\ UNCHANGED <<toServer, faults, todo, got, guest, last, calls, want>>

\* gdb_send goes on: anything but '+' and the packet is sent again.
gdb_send_acked ==
  /\ pc = "ack" /\ toClient # <<>>
  /\ toClient' = Tail(toClient)
  /\ IF Head(toClient) = Plus THEN pc' = "reply" /\ UNCHANGED <<toServer, faults>>
                              ELSE send_packet /\ UNCHANGED pc
  /\ UNCHANGED <<todo, got, guest, last, calls, want>>

\* gdb_recv, and the caller's use of the reply.
gdb_recv ==
  /\ pc = "reply"
  /\ LET p == recv_packet(toClient)
     IN /\ p.complete
        /\ toClient' = p.rest
        /\ toServer' = Append(toServer, IF p.sum_ok THEN Ack ELSE Nack)
        /\ IF ~p.sum_ok THEN UNCHANGED <<pc, todo, got>>
           ELSE /\ pc' = "send" /\ todo' = Tail(todo)
                /\ got' = IF Head(todo).op = "g" THEN DecodeRegs(p.reply) ELSE got
  /\ UNCHANGED <<guest, last, faults, calls, want>>

(***************************************************************************)
(* QEMU's stub.                                                            *)
(***************************************************************************)
Execute(c) ==
  CASE c.op = "M" -> /\ mem' = [a \in 0..Addr |->
                           IF a \in c.dest..(c.dest + Len(c.data) - 1)
                           THEN c.data[a - c.dest + 1] ELSE mem[a]]
                     /\ UNCHANGED <<regs, steps>>
    [] c.op = "G" -> regs' = c.regs /\ UNCHANGED <<mem, steps>>
    [] c.op = "s" -> regs' = Stepped(regs) /\ steps' = steps + 1 /\ UNCHANGED mem
    [] c.op = "g" -> UNCHANGED guest

Replies(c) ==
  CASE c.op = "g" -> LET hex == FlattenSeq([r \in 1..Regs |-> HexByte(regs[r])])
                     IN {hex, Shorten(hex)}
    [] c.op = "s" -> {T05}
    [] OTHER -> {OK}

Put(prefix, p) ==
  \E q \in OnTheLine(p) : /\ toClient' = toClient \o prefix \o q
                          /\ faults' = IF q = p THEN faults ELSE faults - 1

server_packet ==
  /\ toServer # <<>> /\ Head(toServer).kind = "$"
  /\ LET m == Head(toServer)
     IN IF m.sum_ok
        THEN /\ Execute(m.command)
             /\ \E r \in Replies(m.command) : last' = Frame(r) /\ Put(<<Plus>>, Frame(r))
        ELSE /\ toClient' = Append(toClient, Minus)
             /\ UNCHANGED <<guest, last, faults>>
  /\ toServer' = Tail(toServer)
  /\ UNCHANGED <<pc, todo, got, calls, want>>

server_ack ==
  /\ toServer # <<>> /\ Head(toServer) = Ack
  /\ toServer' = Tail(toServer)
  /\ UNCHANGED <<pc, todo, got, toClient, guest, last, faults, calls, want>>

server_nack ==
  /\ toServer # <<>> /\ Head(toServer) = Nack
  /\ Put(<<>>, last)
  /\ toServer' = Tail(toServer)
  /\ UNCHANGED <<pc, todo, got, guest, last, calls, want>>

Done == pc = "idle" /\ calls = MaxCalls /\ toServer = <<>> /\ UNCHANGED vars

Adapter == gdb_send \/ gdb_send_acked \/ gdb_recv
Stub == server_packet \/ server_ack \/ server_nack

Next == difftest_memcpy \/ difftest_regcpy \/ difftest_exec \/ Adapter \/ Stub \/ Done

\* Both ends run, and the line delivers.
Spec == Init /\ [][Next]_vars /\ WF_vars(Adapter) /\ WF_vars(Stub)

-----------------------------------------------------------------------------
(***************************************************************************)
(* When a call of the differential test has returned, the guest in QEMU is *)
(* exactly as the calls so far ask for: every byte of a copied image is in *)
(* place and no other byte has changed, registers the DUT does not have    *)
(* are kept by difftest_regcpy, and difftest_exec(n) has made n steps,     *)
(* however often packets were refused and sent again.  Registers that      *)
(* gdb_getregs has decoded are the guest's, whatever the line made of the  *)
(* packet they came in and whether runs were shortened.                    *)
(***************************************************************************)
ReferenceAsAsked ==
  /\ pc = "idle" => mem = want.mem /\ regs = want.regs /\ steps = want.steps
  /\ pc = "send" /\ todo # <<>> /\ Head(todo).op = "G" => got = regs

\* A call of the differential test returns: neither end waits for a byte that
\* the other does not send.
CallsReturn == pc # "idle" ~> pc = "idle"
=============================================================================
