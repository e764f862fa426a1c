------------------------------- MODULE SdCard -------------------------------
(***************************************************************************)
(* The SD card device of NEMU (src/nemu/src/device/sdcard.c): what an      *)
(* access to its registers does to it.  A card is a record; its image is a *)
(* sequence of words, K words to a block of 512 bytes (the EXT_CSD         *)
(* register has as many), and word numbers stand for byte addresses / 4.   *)
(***************************************************************************)
EXTENDS Integers, Sequences

CONSTANTS K,         \* words of a block
          NBlocks    \* blocks of the image

ASSUME SizeAssumption == K \in Nat \ {0} /\ NBlocks \in Nat

NWords == K * NBlocks
ExtWord(a) == 100 + a     \* a word of EXT_CSD, none of them in the image
Image == [a \in 0..(NWords - 1) |-> a]

(* init_sdcard; fp: was the image found?                                   *)
NewCard(found) ==
  [fp |-> found, file |-> Image, pos |-> 0, arg |-> 0, rsp |-> "none", data |-> 0,
   addr |-> 0, write_cmd |-> FALSE, read_ext_csd |-> FALSE, panic |-> FALSE]

(* Faulty variant: no seek.                                                *)
prepare_rw_noseek(c, is_write) == [c EXCEPT !.addr = 0, !.write_cmd = is_write]
prepare_rw(c, is_write) ==
  [c EXCEPT !.addr = 0, !.pos = c.arg * K, !.write_cmd = is_write]

(* sdcard_handle_cmd: what it writes to the response registers is named    *)
(* after the command; most commands leave the last response there.         *)
Silent == {"IDLE", "SLEEP", "APP", "RCA", "SELECT", "BLOCK_COUNT", "STOP", "52"}
Answers == {"OP_COND", "CID", "CSD", "STATUS"}
sdcard_handle_cmd(c, cmd) ==
  CASE cmd \in Silent -> c
    [] cmd \in Answers -> [c EXCEPT !.rsp = cmd]
    [] cmd = "EXT_CSD" -> [c EXCEPT !.read_ext_csd = TRUE, !.addr = 0]
    [] cmd = "READ" -> prepare_rw(c, FALSE)
    [] cmd = "WRITE" -> prepare_rw(c, TRUE)
    [] OTHER -> [c EXCEPT !.panic = TRUE]

(* A file has no gaps.                                                     *)
IsCard(c) ==
  /\ c \in [fp : BOOLEAN, file : [DOMAIN c.file -> Int], pos : Nat, arg : Nat,
            rsp : Answers \cup {"none"}, data : Int, addr : Nat, write_cmd : BOOLEAN, read_ext_csd : BOOLEAN, panic : BOOLEAN]
  /\ DOMAIN c.file \subseteq Nat /\ \A a \in DOMAIN c.file : 0..a \subseteq DOMAIN c.file

(* The data register, whether the guest reads or writes it: a word of      *)
(* EXT_CSD, or the next word of the image in the direction of the last     *)
(* command.  fread at the end of the image leaves the register alone; a    *)
(* write beyond the end leaves a gap of zeros.                             *)
DataExt(c) ==
  [c EXCEPT !.data = ExtWord(c.addr),
            !.read_ext_csd = c.addr # K - 1,
            !.addr = @ + 1]
DataFile(c) ==
  CASE c.write_cmd -> [c EXCEPT !.file = [a \in DOMAIN @ \cup 0..c.pos |->
                                            IF a = c.pos THEN c.data
                                            ELSE IF a \in DOMAIN @ THEN @[a] ELSE 0],
                                !.pos = @ + 1, !.addr = @ + 1]
    [] ~c.write_cmd /\ c.pos \in DOMAIN c.file ->
         [c EXCEPT !.data = c.file[c.pos], !.pos = @ + 1, !.addr = @ + 1]
    [] OTHER -> [c EXCEPT !.addr = @ + 1]
AccessData(c) ==
  IF c.read_ext_csd THEN DataExt(c)
  ELSE IF c.fp THEN DataFile(c) ELSE [c EXCEPT !.addr = @ + 1]

(* Register accesses through the map: a read runs the handler before it    *)
(* takes the value, a write after it stored it.                            *)
WriteArg(c, v) == [c EXCEPT !.arg = v]
WriteCmd(c, cmd) == sdcard_handle_cmd(c, cmd)
ReadData(c) == AccessData(c)          \* the value is then .data
WriteData(c, v) == AccessData([c EXCEPT !.data = v])
=============================================================================
