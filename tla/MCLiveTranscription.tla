------------------------- MODULE MCLiveTranscription -------------------------
(* An instance of LiveTranscription for TLC. *)
EXTENDS LiveTranscription
=============================================================================
