-------------------------- MODULE MCTranscriptionWs --------------------------
(* One connection is one handler coroutine: connections share nothing but  *)
(* the worker threads, and fairness gives every task one.                  *)
EXTENDS TranscriptionWs
=============================================================================
