------------------------------- MODULE MCAudio ------------------------------
(* A buffer of three samples; see audio.cfg and audio_repeat.cfg. *)
EXTENDS Audio
=============================================================================
