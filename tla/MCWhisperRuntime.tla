-------------------------- MODULE MCWhisperRuntime --------------------------
(* An instance of WhisperRuntime for TLC. *)
EXTENDS WhisperRuntime
=============================================================================
