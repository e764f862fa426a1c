----------------------------- MODULE NativeAudio ------------------------------
(***************************************************************************)
(* Sound of the AM on Linux (abstract-machine/am/src/native/ioe/audio.c):  *)
(* the program writes samples to a pipe that never blocks, SDL's thread    *)
(* reads them in a callback, and both change "count" without a lock.  A    *)
(* change is a load and a store, and a test of count before a use is two   *)
(* loads: the other thread may come between.  SDL and the pipe are         *)
(* external.                                                               *)
(***************************************************************************)
EXTENDS Integers, Sequences, FiniteSetsExt

CONSTANTS PipeSize,   \* what the pipe holds
          PipeBuf,    \* writes up to this many bytes are not cut (PIPE_BUF)
          Lens,       \* lengths the program plays
          MaxBytes,   \* how many it plays in all
          StreamLen   \* len of a callback

VARIABLES pipe, count, open,
          w,       \* the program: where it is in audio_write
          p,       \* SDL's thread: where it is in audio_play
          stream,  \* SDL's buffer, 0 for silence
          made,    \* bytes 1..made were handed to __am_audio_play
          heard,   \* bytes that came out, in order; the silence that fills a callback is left out
          mishaps  \* history: what went wrong on the way, see Mishap
vars == <<pipe, count, open, w, p, stream, made, heard, mishaps>>

Init == /\ pipe = <<>> /\ count = 0 /\ open = FALSE
        /\ w = [pc |-> "idle", len |-> 0, nwrite |-> 0, n |-> 0, load |-> 0]
        /\ p = [pc |-> "idle", nread |-> 0, b |-> 0, load |-> 0]
        /\ stream = [i \in 1..StreamLen |-> 0]
        /\ made = 0 /\ heard = <<>>
        /\ mishaps = {}

(* "cut": a write to the pipe took less than it was given.  "raised": a    *)
(* count += n ended on a count that was lowered since its load.  "lost":   *)
(* an addition was overwritten, or the count was reset.  "short": a read   *)
(* got less than it asked for.  "outside": the callback read or cleared    *)
(* memory outside SDL's buffer, after which anything may happen.           *)
Mishap(kind, happens) == mishaps' = IF happens THEN mishaps \cup {kind} ELSE mishaps

(* A second call resets count under the callback, and whatever the pipe    *)
(* still holds is not counted any more.                                    *)
__am_audio_ctrl ==
  /\ w.pc = "idle"
  /\ open' = TRUE /\ count' = 0
  /\ Mishap("lost", count # 0)
  /\ UNCHANGED <<pipe, w, p, stream, made, heard>>

-----------------------------------------------------------------------------
(* audio_write.  A write that was cut starts over from the first byte of   *)
(* the buffer, with the whole length.                                      *)
__am_audio_play(len) ==
  /\ w.pc = "idle" /\ made + len <= MaxBytes
  /\ w' = [w EXCEPT !.pc = "write", !.len = len, !.nwrite = 0]
  /\ made' = made + len
  /\ UNCHANGED <<pipe, count, open, p, stream, heard, mishaps>>
Accepted(len) == LET free == PipeSize - Len(pipe)
                 IN IF len <= PipeBuf THEN IF len <= free THEN len ELSE 0 ELSE Min({len, free})
Bytes(n) == [i \in 1..n |-> made - w.len + i]
(* Faulty variant: the bytes are counted before they are in the pipe.      *)
write_pipe_counted ==
  /\ w.pc = "write"
  /\ \/ /\ w.n = 0 /\ Accepted(w.len) > 0
        /\ w' = [w EXCEPT !.n = Accepted(w.len)]
        /\ count' = count + Accepted(w.len)
        /\ UNCHANGED <<pipe, mishaps>>
     \/ /\ w.n # 0
        /\ pipe' = pipe \o Bytes(w.n)
        /\ Mishap("cut", w.n < w.len)
        /\ w' = [w EXCEPT !.n = 0, !.pc = IF w.nwrite + w.n < w.len THEN "write" ELSE "idle", !.nwrite = @ + w.n]
        /\ UNCHANGED count
  /\ UNCHANGED <<open, p, stream, made, heard>>
write_pipe ==
  LET n == Accepted(w.len)
  IN /\ w.pc = "write" /\ n > 0   \* a write that is refused is tried again
     /\ pipe' = pipe \o Bytes(n)
     /\ Mishap("cut", n < w.len)
     /\ w' = [w EXCEPT !.pc = "load", !.n = n]
     /\ UNCHANGED <<count, open, p, stream, made, heard>>
add_load == /\ w.pc = "load"
            /\ w' = [w EXCEPT !.pc = "store", !.load = count]
            /\ UNCHANGED <<pipe, count, open, p, stream, made, heard, mishaps>>
add_store ==
  /\ w.pc = "store"
  /\ count' = w.load + w.n
  /\ Mishap("raised", w.load > count)
  /\ w' = [w EXCEPT !.pc = IF w.nwrite + w.n < w.len THEN "write" ELSE "idle", !.nwrite = @ + w.n, !.n = 0]
  /\ UNCHANGED <<pipe, open, p, stream, made, heard>>

-----------------------------------------------------------------------------
(* audio_play.  count is loaded once for the test and again for its value. *)
play_test ==
  /\ open /\ p.pc = "idle"
  /\ p' = IF count < StreamLen THEN [p EXCEPT !.pc = "take", !.load = count, !.b = 0]
          ELSE [p EXCEPT !.pc = "read", !.nread = StreamLen, !.b = 0]
  /\ UNCHANGED <<pipe, count, open, w, stream, made, heard, mishaps>>
play_take ==
  /\ p.pc = "take"
  /\ p' = [p EXCEPT !.pc = "read", !.nread = count]
  /\ Mishap("outside", count \notin 0..StreamLen)
  /\ UNCHANGED <<pipe, count, open, w, stream, made, heard>>
(* Every read goes to the start of the buffer and asks for all of nread;   *)
(* what would land behind the buffer is left out.                          *)
read_pipe ==
  LET n == Min({p.nread, Len(pipe)})
  IN /\ p.pc = "read" /\ p.b < p.nread /\ n > 0
     /\ stream' = [i \in 1..StreamLen |-> IF i <= n THEN pipe[i] ELSE stream[i]]
     /\ pipe' = SubSeq(pipe, n + 1, Len(pipe))
     /\ p' = [p EXCEPT !.b = @ + n]
     /\ Mishap("short", n < p.nread)
     /\ UNCHANGED <<count, open, w, made, heard>>
sub_load == /\ p.pc = "read" /\ p.b >= p.nread
            /\ p' = [p EXCEPT !.pc = "store", !.load = count]
            /\ UNCHANGED <<pipe, count, open, w, stream, made, heard, mishaps>>
(* The bytes behind the first nread are silence.                           *)
sub_store ==
  LET out == [i \in 1..StreamLen |-> IF i <= p.nread THEN stream[i] ELSE 0]
  IN /\ p.pc = "store"
     /\ count' = p.load - p.nread
     /\ Mishap("lost", p.load # count)
     /\ stream' = out
     /\ heard' = heard \o SubSeq(out, 1, Min({p.nread, StreamLen}))
     /\ p' = [p EXCEPT !.pc = "idle"]
     /\ UNCHANGED <<pipe, open, w, made>>

Next == \/ __am_audio_ctrl \/ \E len \in Lens : __am_audio_play(len)
        \/ write_pipe \/ add_load \/ add_store
        \/ play_test \/ play_take \/ read_pipe \/ sub_load \/ sub_store
Spec == Init /\ [][Next]_vars
(* After a read that was short or outside SDL's buffer, what is heard may  *)
(* be anything.                                                            *)
Live == mishaps \cap {"short", "outside"} = {}

-----------------------------------------------------------------------------
Never(kinds) == mishaps \cap kinds = {}
Idle == w.pc = "idle" /\ p.pc = "idle"
(* Whatever the two threads make of count (audio.c:26, 27, 38, 52), every  *)
(* byte is heard once, in the order in which it was played, until a write  *)
(* to the pipe is cut (audio.c:36) or the callback reads from an empty     *)
(* pipe or outside its buffer.  It never has to wait for bytes that are    *)
(* not in the pipe as long as no count += n undoes a count -= nread: all   *)
(* other interleavings only leave count too low, so that AM_AUDIO_STATUS   *)
(* tells no more than waits in the pipe, and exactly that if no addition   *)
(* was lost.                                                               *)
NativePlaysInOrder ==
  /\ Never({"cut", "short", "outside"}) =>
       heard = [i \in 1..Len(heard) |-> i] /\ (Idle => made = Len(heard) + Len(pipe))
  /\ Never({"raised", "outside"}) =>
       /\ Never({"short"}) /\ (p.pc = "read" => p.nread <= p.b + Len(pipe))
       /\ Idle => count <= Len(pipe) /\ (Never({"lost"}) => count = Len(pipe))
=============================================================================
