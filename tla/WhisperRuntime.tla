---------------------------- MODULE WhisperRuntime ----------------------------
(***************************************************************************)
(* Worker threads invoking the one Whisper pipeline of the process:        *)
(* TranscriptionRuntimeService.invoke (runtime.py) around                  *)
(* WhisperChunkTranscriber.transcribe_chunk (transcriber.py).              *)
(*                                                                         *)
(* Two locks: _accelerated_invoke_lock is held over an invocation when the *)
(* device is known to be an accelerator, _pipeline_lock while the pipeline *)
(* is built.  The device becomes known in the middle of that.              *)
(***************************************************************************)
EXTENDS Naturals

CONSTANTS
  Threads,      \* worker threads
  Devices,      \* the devices the build may end up on
  Accelerated,  \* those of them that are cuda, mps or xpu
  Unknown,      \* runtime_device before it is set
  NoThread,     \* holder of a lock that is free
  MaxCalls      \* bound on the chunks given to the threads

ASSUME RuntimeAssumption ==
  /\ Accelerated \subseteq Devices
  /\ Unknown \notin Devices
  /\ NoThread \notin Threads
  /\ MaxCalls \in Nat

VARIABLES
  at,           \* where each thread is
  device,       \* _runtime_device
  loaded,       \* _pipeline is set
  accel,        \* holder of _accelerated_invoke_lock
  lock,         \* holder of _pipeline_lock
  calls,        \* (history) chunks given to the threads
  built,        \* (history) how often _pipeline was set
  cold          \* (history) threads inside that did not see an accelerator

vars == <<at, device, loaded, accel, lock, calls, built, cold>>

(* Startup is over.  It loaded the pipeline; or it did not, being told not *)
(* to or failing, and then the device may be set all the same.             *)
Init ==
  /\ at = [t \in Threads |-> "idle"]
  /\ device \in Devices \cup {Unknown}
  /\ loaded \in BOOLEAN
  /\ loaded => device # Unknown
  /\ built = IF loaded THEN 1 ELSE 0
  /\ accel = NoThread /\ lock = NoThread
  /\ calls = 0 /\ cold = {}

Go(t, place) == at' = [at EXCEPT ![t] = place]

-----------------------------------------------------------------------------
(* Mutant: the device is taken for known before the pipeline is loaded. *)
InvokeLoadedOnly(t) ==
  /\ at[t] = "idle"
  /\ calls < MaxCalls
  /\ calls' = calls + 1
  /\ IF loaded /\ device \in Accelerated
     THEN Go(t, "want_accel") /\ UNCHANGED cold
     ELSE Go(t, "get") /\ cold' = IF device \in Accelerated THEN cold ELSE cold \cup {t}
  /\ UNCHANGED <<device, loaded, accel, lock, built>>

(* invoke reads the device once, at its beginning. *)
Invoke(t) ==
  /\ at[t] = "idle"
  /\ calls < MaxCalls
  /\ calls' = calls + 1
  /\ IF device \in Accelerated
     THEN Go(t, "want_accel") /\ UNCHANGED cold
     ELSE Go(t, "get") /\ cold' = cold \cup {t}
  /\ UNCHANGED <<device, loaded, accel, lock, built>>

TakeAccel(t) ==
  /\ at[t] = "want_accel"
  /\ accel = NoThread
  /\ accel' = t
  /\ Go(t, "get")
  /\ UNCHANGED <<device, loaded, lock, calls, built, cold>>

(* _get_pipeline: without the lock if it is there, else with it.           *)
GetPipeline(t) ==
  /\ at[t] = "get"
  /\ Go(t, IF loaded THEN "running" ELSE "want_pipeline")
  /\ UNCHANGED <<device, loaded, accel, lock, calls, built, cold>>

TakePipeline(t) ==
  /\ at[t] = "want_pipeline"
  /\ lock = NoThread
  /\ \/ loaded /\ Go(t, "running") /\ UNCHANGED lock
     \/ ~loaded /\ Go(t, "build") /\ lock' = t
  /\ UNCHANGED <<device, loaded, accel, calls, built, cold>>

(* The model is on its device; the processor and the pipeline still come.  *)
SetDevice(t, d) ==
  /\ at[t] = "build"
  /\ device' = d
  /\ Go(t, "finish")
  /\ UNCHANGED <<loaded, accel, lock, calls, built, cold>>

(* _pipeline is set and _pipeline_lock released. *)
FinishBuild(t) ==
  /\ at[t] = "finish"
  /\ loaded' = TRUE
  /\ built' = built + 1
  /\ lock' = NoThread
  /\ Go(t, "running")
  /\ UNCHANGED <<device, accel, calls, cold>>

(* The end of an invocation, whether it returns or raises.                 *)
Leave(t) ==
  /\ Go(t, "idle")
  /\ accel' = IF accel = t THEN NoThread ELSE accel
  /\ cold' = cold \ {t}

(* Mutant: the exception leaves the pipeline lock held. *)
FailBuildKeepsLock(t) ==
  /\ at[t] \in {"build", "finish"}
  /\ Leave(t)
  /\ UNCHANGED <<device, loaded, lock, calls, built>>

(* Dependencies are missing, the model or the processor cannot be loaded:  *)
(* both locks are released; the device stays what it was set to.           *)
FailBuild(t) ==
  /\ at[t] \in {"build", "finish"}
  /\ lock' = NoThread
  /\ Leave(t)
  /\ UNCHANGED <<device, loaded, calls, built>>

(* Up to three runs of the pipeline on this chunk are over, or all failed. *)
EndRun(t) ==
  /\ at[t] = "running"
  /\ Leave(t)
  /\ UNCHANGED <<device, loaded, lock, calls, built>>

-----------------------------------------------------------------------------
(* What a thread does once it was given a chunk. *)
Work(t) ==
  \/ TakeAccel(t) \/ GetPipeline(t) \/ TakePipeline(t)
  \/ (\E d \in Devices : SetDevice(t, d)) \/ FinishBuild(t) \/ FailBuild(t)
  \/ EndRun(t)

Next == \E t \in Threads : Invoke(t) \/ Work(t)

Spec == Init /\ [][Next]_vars

(* A thread goes on when it can.  Who gets a lock that several wait for is *)
(* left open; that chunks stop coming (MaxCalls) is what lets all of them  *)
(* have it in the end.                                                     *)
FairSpec == Spec /\ \A t \in Threads : WF_vars(Work(t))

-----------------------------------------------------------------------------
Running == {t \in Threads : at[t] = "running"}

(* Types; each lock is held by a thread that is between its two ends.      *)
TypeOK ==
  /\ at \in [Threads -> {"idle", "want_accel", "get", "want_pipeline", "build", "finish",
                         "running"}]
  /\ device \in Devices \cup {Unknown}
  /\ loaded \in BOOLEAN
  /\ accel \in Threads \cup {NoThread}
  /\ lock \in Threads \cup {NoThread}
  /\ calls \in Nat /\ built \in Nat
  /\ cold \subseteq Threads
  /\ \A t \in Threads :
       /\ lock = t <=> at[t] \in {"build", "finish"}
       /\ accel = t => at[t] \notin {"idle", "want_accel"}

(* The pipeline, gigabytes of it, is in the process at most once, however  *)
(* many threads meet it unloaded: double-checked locking.                  *)
LoadedOnce == built <= 1 /\ (loaded <=> built = 1)

(* Of the threads that found an accelerator when they came, one at a time  *)
(* is inside the pipeline, though others came too early to know of it, and *)
(* though a build that fails may move the device.                          *)
ExclusiveOnceKnown ==
  \A s, t \in Running \ cold : s = t

(* Every chunk given to a thread is finished: the two locks, taken in this *)
(* order, never hold each other up, whatever fails.                        *)
EveryChunkEnds == \A t \in Threads : at[t] # "idle" ~> at[t] = "idle"
=============================================================================
