------------------------------- MODULE SdHost -------------------------------
(***************************************************************************)
(* The Linux host driver for the SD card of NEMU                           *)
(* (src/nemu/resource/sdcard/nemu.c), composed with the card.  The driver  *)
(* has no interrupts: nemu_request runs to the end under a mutex, sends    *)
(* the commands of the request, moves the data word by word right after    *)
(* the command and calls mmc_request_done once.                            *)
(*                                                                         *)
(* A request is [op, arg, data, stop, sbc]; data is NoData or [dir,        *)
(* blocks, size, sg, seed]: size words to a block (0: a block size that is *)
(* no power of two; -1: one that is no multiple of four bytes), sg words   *)
(* of buffer, and the buffer of a write holds seed + i.                    *)
(***************************************************************************)
EXTENDS SdCard

CONSTANTS Requests,      \* what the MMC core may ask for
          MaxRequests    \* bound on their number
None == "none"
NoData == [dir |-> "none"]
NoRequest == [op |-> None, arg |-> 0, data |-> NoData, stop |-> FALSE, sbc |-> FALSE]

(* The MMC core gives a read a buffer to fill and a write one to send, and *)
(* asks for EXT_CSD as one block with a buffer of that size.  Its CMD8     *)
(* without data, which looks for SD cards, comes before all of these.      *)
Transfer == [dir : {"read", "write"}, blocks : Nat, size : Nat \cup {-1}, sg : Nat, seed : Int]
ASSUME RequestsAssumption ==
  /\ Requests \subseteq [op : {r.op : r \in Requests}, arg : Nat,
                         data : {NoData} \cup Transfer, stop : BOOLEAN, sbc : BOOLEAN]
  /\ \A r \in Requests :
       /\ r.op # None
       /\ r.op = "READ" => r.data.dir # "write"
       /\ r.op = "WRITE" => r.data.dir # "read"
       /\ r.op = "EXT_CSD" => /\ r.data.dir = "read" /\ r.data.blocks = 1
                              /\ r.data.size = K /\ r.data.sg = K

VARIABLES card, pc, mrq, cmd, data, data_complete, use_sbc, error,
          blk, left, sg, buf, resp, asked, dones
vars == <<card, pc, mrq, cmd, data, data_complete, use_sbc, error,
          blk, left, sg, buf, resp, asked, dones>>
host == <<mrq, cmd, data, data_complete, use_sbc>>
pio == <<error, blk, left, sg, buf>>

Init ==
  /\ card \in {NewCard(f) : f \in BOOLEAN}
  /\ pc = "idle" /\ mrq = NoRequest /\ cmd = None /\ data = FALSE
  /\ data_complete = FALSE /\ use_sbc = FALSE /\ error = FALSE
  /\ blk = 0 /\ left = 0 /\ sg = 0 /\ buf = <<>> /\ resp = "none"
  /\ asked = 0 /\ dones = 0

HasData(r) == r.data.dir # "none"

(* nemu_request: the errors are reset; a block size that is no power of    *)
(* two ends the request at once.                                           *)
nemu_request ==
  /\ pc = "idle" /\ asked < MaxRequests /\ ~card.panic
  /\ asked' = asked + 1
  /\ \E r \in Requests :
       IF HasData(r) /\ r.data.size = 0
       THEN /\ dones' = dones + 1 /\ error' = TRUE
            /\ UNCHANGED <<card, pc, host, blk, left, sg, buf, resp>>
       ELSE /\ mrq' = r
            /\ error' = FALSE
            /\ use_sbc' = (r.sbc /\ r.data.dir = "read")
            /\ pc' = IF use_sbc' THEN "sbc" ELSE "cmd"
            /\ UNCHANGED <<card, cmd, data, data_complete, blk, left, sg, buf, resp, dones>>

(* nemu_send_command writes the argument and then the command; the data of *)
(* a command (nemu_prepare_data) are set up before.                        *)
Send(c, op, arg) == WriteCmd(WriteArg(c, arg), op)

send_sbc ==
  /\ pc = "sbc"
  /\ cmd' = "sbc" /\ data' = FALSE
  /\ card' = Send(card, "BLOCK_COUNT", mrq.data.blocks)
  /\ pc' = "fin_sbc"
  /\ UNCHANGED <<mrq, data_complete, use_sbc, pio, resp, asked, dones>>

(* nemu_finish_command for CMD23.                                          *)
finish_sbc ==
  /\ pc = "fin_sbc"
  /\ resp' = card.rsp
  /\ cmd' = None
  /\ pc' = "cmd"
  /\ UNCHANGED <<card, mrq, data, data_complete, use_sbc, pio, asked, dones>>

send_cmd ==
  /\ pc = "cmd"
  /\ cmd' = "cmd" /\ data' = HasData(mrq)
  /\ card' = Send(card, mrq.op, mrq.arg)
  /\ IF HasData(mrq)
     THEN /\ data_complete' = FALSE
          /\ blk' = mrq.data.blocks /\ left' = mrq.data.size
          /\ sg' = mrq.data.sg /\ buf' = <<>>
     ELSE UNCHANGED <<data_complete, blk, left, sg, buf>>
  /\ pc' = IF HasData(mrq) THEN "pio" ELSE "fin"
  /\ UNCHANGED <<mrq, use_sbc, error, resp, asked, dones>>

(* nemu_transfer_block_pio, one word at a time; blk blocks and left words  *)
(* of this block remain.                                                   *)
Seed(i) == mrq.data.seed + i
pio_word ==
  /\ pc = "pio" /\ blk > 0 /\ left > 0 /\ sg > 0 /\ ~card.panic
  /\ IF mrq.data.dir = "read"
     THEN /\ card' = ReadData(card)
          /\ buf' = Append(buf, card'.data)
     ELSE /\ card' = WriteData(card, Seed(Len(buf)))
          /\ buf' = Append(buf, Seed(Len(buf)))
  /\ sg' = sg - 1
  /\ blk' = IF left = 1 THEN blk - 1 ELSE blk
  /\ left' = IF left = 1 THEN mrq.data.size ELSE left - 1
  /\ UNCHANGED <<pc, host, error, resp, asked, dones>>

(* The buffer is used up, or a piece is no multiple of four bytes: this    *)
(* block fails, and the loop goes on with the next.                        *)
(* Faulty variant: the block is tried again.                               *)
pio_error_again ==
  /\ pc = "pio" /\ blk > 0 /\ (sg = 0 \/ left = -1) /\ ~card.panic
  /\ error' = TRUE
  /\ UNCHANGED <<card, pc, host, blk, left, sg, buf, resp, asked, dones>>
pio_error ==
  /\ pc = "pio" /\ blk > 0 /\ (sg = 0 \/ left = -1) /\ ~card.panic
  /\ error' = TRUE
  /\ blk' = blk - 1
  /\ left' = mrq.data.size
  /\ UNCHANGED <<card, pc, host, sg, buf, resp, asked, dones>>

nemu_finish_data ==
  /\ pc = "pio" /\ blk = 0
  /\ data_complete' = TRUE
  /\ pc' = "fin"
  /\ UNCHANGED <<card, mrq, cmd, data, use_sbc, pio, resp, asked, dones>>

finish_request ==
  /\ mrq' = NoRequest /\ cmd' = None /\ data' = FALSE
  /\ pc' = "idle"
  /\ dones' = dones + 1

(* nemu_transfer_complete: is CMD12 to be sent?                            *)
NeedsStop == mrq.stop /\ (error \/ ~use_sbc)

(* nemu_finish_command for the actual command.                             *)
finish_command ==
  /\ pc = "fin" /\ ~card.panic
  /\ resp' = card.rsp
  /\ IF data /\ data_complete /\ NeedsStop
     THEN cmd' = None /\ data' = FALSE /\ pc' = "stop" /\ UNCHANGED <<mrq, dones>>
     ELSE finish_request
  /\ UNCHANGED <<card, data_complete, use_sbc, pio, asked>>

send_stop ==
  /\ pc = "stop"
  /\ cmd' = "stop" /\ data' = FALSE
  /\ card' = Send(card, "STOP", 0)
  /\ pc' = "fin_stop"
  /\ UNCHANGED <<mrq, data_complete, use_sbc, pio, resp, asked, dones>>

finish_stop ==
  /\ pc = "fin_stop"
  /\ resp' = card.rsp
  /\ finish_request
  /\ UNCHANGED <<card, data_complete, use_sbc, pio, asked>>

Driver == \/ send_sbc \/ finish_sbc \/ send_cmd \/ pio_word \/ pio_error
          \/ nemu_finish_data \/ finish_command \/ send_stop \/ finish_stop
Next == nemu_request \/ Driver
Spec == Init /\ [][Next]_vars /\ WF_vars(Driver)

-----------------------------------------------------------------------------
TypeOK ==
  /\ IsCard(card)
  /\ pc \in {"idle", "sbc", "fin_sbc", "cmd", "pio", "fin", "stop", "fin_stop"}
  /\ cmd \in {None, "sbc", "cmd", "stop"}
  /\ mrq \in Requests \cup {NoRequest}
  /\ data \in BOOLEAN /\ data_complete \in BOOLEAN /\ use_sbc \in BOOLEAN /\ error \in BOOLEAN
  /\ blk \in Nat /\ sg \in Nat /\ left \in Nat \cup {-1} /\ buf \in Seq(Int)
  /\ asked \in Nat /\ dones \in Nat

(* None of the driver's WARN_ONs is hit: a command is sent only when none  *)
(* is pending and no data are, a request is taken only when there is none, *)
(* and a transfer is completed only when its data are.                     *)
NoWarning ==
  /\ pc \in {"sbc", "cmd", "stop"} => cmd = None /\ ~data
  /\ pc = "idle" => mrq = NoRequest
  /\ pc = "fin" /\ data => data_complete

(* The words a completed transfer was to move.                             *)
Moved == mrq.data.blocks * mrq.data.size
Complete == pc = "fin" /\ data /\ ~error
ReadsRight ==
  Complete /\ mrq.data.dir = "read" =>
    /\ Len(buf) = Moved
    /\ \A i \in 1..Len(buf) :
         LET a == mrq.arg * K + i - 1
         IN /\ mrq.op = "READ" /\ card.fp /\ a \in DOMAIN card.file => buf[i] = card.file[a]
            /\ mrq.op = "EXT_CSD" => buf[i] = ExtWord(i - 1)
WritesRight ==
  Complete /\ mrq.op = "WRITE" /\ card.fp =>
    \A i \in 0..(Moved - 1) : card.file[mrq.arg * K + i] = Seed(i)
(* mmc_request_done is called exactly once for every request, although the *)
(* paths through the nested finish functions differ.                       *)
DoneOnce == dones = asked - (IF mrq = NoRequest THEN 0 ELSE 1)

(* A read that finished without error delivers the words of the image from *)
(* the block asked for on (up to the end of the image), or EXT_CSD, and a  *)
(* write that did has its words in the image, whatever commands, failed    *)
(* transfers or short buffers came before: no earlier command's position,  *)
(* direction or mode is left over (sdcard.c:102).  Every request is        *)
(* reported once, and no WARN_ON of the driver is hit.                     *)
RequestsRight == ReadsRight /\ WritesRight /\ DoneOnce /\ NoWarning

(* Every request is completed, unless its command made the emulator panic. *)
RequestEnds == pc # "idle" ~> (pc = "idle" \/ card.panic)
=============================================================================
