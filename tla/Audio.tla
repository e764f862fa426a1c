------------------------------- MODULE Audio --------------------------------
(***************************************************************************)
(* The audio device: NEMU's stream buffer and registers (audio.c), the     *)
(* SDL thread that consumes the buffer (audio_callback) and the guest's    *)
(* driver that fills it (__am_audio_play).                                 *)
(*                                                                         *)
(* audio_io_handler and audio_callback hold SDL's audio lock, so each      *)
(* register access and each callback is one step.  The driver reads the    *)
(* count, writes samples and writes the count in separate accesses, and    *)
(* the callback may run between any two of them.  A sample stands for one  *)
(* store of the driver; samples are numbered in the order the program      *)
(* plays them.                                                             *)
(***************************************************************************)
EXTENDS Integers, Sequences

CONSTANTS
  SB_SIZE,      \* CONFIG_SB_SIZE, in samples
  Lens,         \* lengths the program passes to AM_AUDIO_PLAY
  StreamLens,   \* lengths SDL asks the callback for
  MaxSample     \* bound: the program plays samples 1 .. MaxSample

ASSUME SizeAssumption ==
  /\ SB_SIZE \in Nat \ {0}
  /\ Lens \subseteq 1 .. SB_SIZE
  /\ StreamLens \subseteq Nat \ {0}
  /\ MaxSample \in Nat

VARIABLES
  opened,       \* SDL_OpenAudio was called: the callback runs
  sbuf,         \* the stream buffer
  sbuf_count,   \* samples in it, from its front
  phase,        \* where the driver is
  audio_len, in_use_size, i,   \* locals of __am_audio_play
  sent,         \* history: samples handed to the driver so far
  played        \* history: samples SDL was given, silence left out

device == <<opened, sbuf, sbuf_count>>
driver == <<phase, audio_len, in_use_size, i>>
vars   == <<device, driver, sent, played>>

Slots == 0 .. SB_SIZE - 1

Init ==
  /\ opened = FALSE
  /\ sbuf = [k \in Slots |-> 0] /\ sbuf_count = 0
  /\ phase = "idle" /\ audio_len = 0 /\ in_use_size = 0 /\ i = 0
  /\ sent = 0 /\ played = <<>>

-----------------------------------------------------------------------------
(* __am_audio_ctrl: the device is opened once, later writes do nothing. *)
audio_ctrl ==
  /\ phase = "idle"
  /\ opened' = TRUE
  /\ UNCHANGED <<sbuf, sbuf_count, driver, sent, played>>

(* __am_audio_play up to the first test of the loop. *)
audio_play(len) ==
  /\ phase = "idle" /\ sent + len <= MaxSample
  /\ phase' = "wait"
  /\ audio_len' = len /\ in_use_size' = sbuf_count /\ i' = 0
  /\ UNCHANGED <<device, sent, played>>

wait_space ==
  /\ phase = "wait" /\ SB_SIZE - in_use_size < audio_len
  /\ in_use_size' = sbuf_count
  /\ UNCHANGED <<device, phase, audio_len, i, sent, played>>

(* Faulty variant: the copy starts when there is any room at all. *)
got_space_any ==
  /\ phase = "wait" /\ SB_SIZE - in_use_size > 0
  /\ phase' = "copy"
  /\ UNCHANGED <<device, audio_len, in_use_size, i, sent, played>>

got_space ==
  /\ phase = "wait" /\ SB_SIZE - in_use_size >= audio_len
  /\ phase' = "copy"
  /\ UNCHANGED <<device, audio_len, in_use_size, i, sent, played>>

(* Faulty variant: the samples go to the front of the buffer. *)
copy_front ==
  /\ phase = "copy" /\ i < audio_len
  /\ sbuf' = [sbuf EXCEPT ![i] = sent + 1]
  /\ i' = i + 1 /\ sent' = sent + 1
  /\ UNCHANGED <<opened, sbuf_count, phase, audio_len, in_use_size, played>>

copy ==
  /\ phase = "copy" /\ i < audio_len
  /\ sbuf' = [sbuf EXCEPT ![in_use_size + i] = sent + 1]
  /\ i' = i + 1 /\ sent' = sent + 1
  /\ UNCHANGED <<opened, sbuf_count, phase, audio_len, in_use_size, played>>

(* outl(AUDIO_COUNT_ADDR, ...) stores the sum the driver computed. *)
commit ==
  /\ phase = "copy" /\ i = audio_len
  /\ sbuf_count' = in_use_size + audio_len
  /\ phase' = "idle"
  /\ UNCHANGED <<opened, sbuf, audio_len, in_use_size, i, sent, played>>

(* The k samples at the front of the buffer. *)
FirstSamples(k) == [p \in 1 .. k |-> sbuf[p - 1]]

(* Faulty variant: leaves the buffer as it is when it holds more than      *)
(* SDL asked for.                                                          *)
audio_callback_nomove(len) ==
  /\ opened
  /\ LET given == IF sbuf_count > len THEN len ELSE sbuf_count
     IN  /\ played' = played \o FirstSamples(given)
         /\ sbuf_count' = sbuf_count - given
  /\ UNCHANGED <<opened, sbuf, driver, sent>>

(* SDL asks for len samples: give them, move the rest to the front. *)
audio_callback(len) ==
  /\ opened
  /\ IF sbuf_count > len
       THEN /\ played' = played \o FirstSamples(len)
            /\ sbuf' = [k \in Slots |-> IF k < sbuf_count - len THEN sbuf[k + len] ELSE sbuf[k]]
            /\ sbuf_count' = sbuf_count - len
       ELSE /\ played' = played \o FirstSamples(sbuf_count)
            /\ sbuf_count' = 0
            /\ UNCHANGED sbuf
  /\ UNCHANGED <<opened, driver, sent>>

Callback == \E len \in StreamLens : audio_callback(len)

Driver == wait_space \/ got_space \/ copy \/ commit

(* The program has played all it wants to play. *)
Done == phase = "idle" /\ sent = MaxSample /\ UNCHANGED vars

Next ==
  \/ audio_ctrl \/ (\E len \in Lens : audio_play(len))
  \/ Driver \/ Callback \/ Done

(* SDL's thread keeps calling back; the guest keeps running. *)
Spec == Init /\ [][Next]_vars /\ WF_vars(Callback) /\ WF_vars(Driver)

-----------------------------------------------------------------------------
TypeOK ==
  /\ opened \in BOOLEAN
  /\ sbuf \in [Slots -> Nat] /\ sbuf_count \in 0 .. SB_SIZE
  /\ phase \in {"idle", "wait", "copy"}
  /\ audio_len \in 0 .. SB_SIZE /\ in_use_size \in 0 .. SB_SIZE /\ i \in 0 .. SB_SIZE
  /\ sent \in Nat /\ played \in Seq(Nat)

(***************************************************************************)
(* The driver writes inside the buffer and behind every sample the         *)
(* callback may still play, however often the callback ran since the       *)
(* driver read the count.                                                  *)
(***************************************************************************)
WritesBehindTheRest ==
  phase = "copy" =>
    /\ in_use_size + audio_len <= SB_SIZE /\ i <= audio_len
    /\ sbuf_count <= in_use_size

(***************************************************************************)
(* No sample is lost or overtaken: a sample is first played only after all *)
(* samples before it.                                                      *)
(***************************************************************************)
FirstPlaysInOrder ==
  \A p \in 1 .. Len(played) :
    \A s \in 1 .. played[p] - 1 : \E q \in 1 .. p - 1 : played[q] = s

(* A sample handed to an open device is eventually played. *)
EverySamplePlayed ==
  \A s \in 1 .. MaxSample : (opened /\ sent >= s) ~> (\E p \in 1 .. Len(played) : played[p] = s)

(***************************************************************************)
(* The count the guest reads is the part of the buffer in use: samples     *)
(* that were played are not in use any more, so none is played twice.      *)
(***************************************************************************)
PlayedOnce == \A p, q \in 1 .. Len(played) : p # q => played[p] # played[q]
=============================================================================
