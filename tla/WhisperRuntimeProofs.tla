------------------------- MODULE WhisperRuntimeProofs -------------------------
(***************************************************************************)
(* The two locks of the Whisper runtime, for any number of threads and     *)
(* chunks, and whatever devices the builds end up on.                      *)
(***************************************************************************)
EXTENDS WhisperRuntime, TLAPS

(* A thread that is past its first read and not cold holds the accelerator *)
(* lock; the pipeline is set only by the thread that builds it.            *)
HeldInside ==
  \A t \in Threads \ cold : at[t] \notin {"idle", "want_accel"} => accel = t

(* A build is under way only while there is no pipeline.                   *)
BuildOnce == \A t \in Threads : at[t] \in {"build", "finish"} => ~loaded

(* A thread that waits for the accelerator lock is not cold.               *)
ColdInside == \A t \in cold : at[t] \notin {"idle", "want_accel"}

IInv == TypeOK /\ HeldInside /\ BuildOnce /\ ColdInside /\ LoadedOnce

-----------------------------------------------------------------------------
LEMMA InitIInv == Init => IInv
BY RuntimeAssumption
   DEF Init, IInv, TypeOK, HeldInside, BuildOnce, ColdInside, LoadedOnce

LEMMA InvokeStep == ASSUME IInv, NEW t \in Threads, Invoke(t) PROVE IInv'
<1> USE RuntimeAssumption DEF IInv, TypeOK, Invoke, Go
<1>1. TypeOK'
  BY DEF HeldInside, ColdInside
<1>2. HeldInside' /\ ColdInside'
  BY DEF HeldInside, ColdInside
<1>3. BuildOnce' /\ LoadedOnce'
  BY DEF BuildOnce, LoadedOnce
<1> QED
  BY <1>1, <1>2, <1>3

LEMMA TakeAccelStep == ASSUME IInv, NEW t \in Threads, TakeAccel(t) PROVE IInv'
<1> USE RuntimeAssumption DEF IInv, TypeOK, TakeAccel, Go
<1>1. TypeOK'
  BY DEF HeldInside, ColdInside
<1>2. HeldInside' /\ ColdInside'
  BY DEF HeldInside, ColdInside
<1>3. BuildOnce' /\ LoadedOnce'
  BY DEF BuildOnce, LoadedOnce
<1> QED
  BY <1>1, <1>2, <1>3

LEMMA GetPipelineStep == ASSUME IInv, NEW t \in Threads, GetPipeline(t) PROVE IInv'
<1> USE RuntimeAssumption DEF IInv, TypeOK, GetPipeline, Go
<1>1. TypeOK'
  BY DEF HeldInside, ColdInside
<1>2. HeldInside' /\ ColdInside'
  BY DEF HeldInside, ColdInside
<1>3. BuildOnce' /\ LoadedOnce'
  BY DEF BuildOnce, LoadedOnce
<1> QED
  BY <1>1, <1>2, <1>3

LEMMA TakePipelineStep == ASSUME IInv, NEW t \in Threads, TakePipeline(t) PROVE IInv'
<1> USE RuntimeAssumption DEF IInv, TypeOK, TakePipeline, Go
<1>1. TypeOK'
  BY DEF HeldInside, ColdInside
<1>2. HeldInside' /\ ColdInside'
  BY DEF HeldInside, ColdInside
<1>3. BuildOnce' /\ LoadedOnce'
  BY DEF BuildOnce, LoadedOnce
<1> QED
  BY <1>1, <1>2, <1>3

LEMMA SetDeviceStep == ASSUME IInv, NEW t \in Threads, NEW d \in Devices, SetDevice(t, d) PROVE IInv'
<1> USE RuntimeAssumption DEF IInv, TypeOK, SetDevice, Go
<1>1. TypeOK'
  BY DEF HeldInside, ColdInside
<1>2. HeldInside' /\ ColdInside'
  BY DEF HeldInside, ColdInside
<1>3. BuildOnce' /\ LoadedOnce'
  BY DEF BuildOnce, LoadedOnce
<1> QED
  BY <1>1, <1>2, <1>3

LEMMA FinishBuildStep == ASSUME IInv, NEW t \in Threads, FinishBuild(t) PROVE IInv'
<1> USE RuntimeAssumption DEF IInv, TypeOK, FinishBuild, Go
<1>1. TypeOK'
  BY DEF HeldInside, ColdInside
<1>2. HeldInside' /\ ColdInside'
  BY DEF HeldInside, ColdInside
<1>3. BuildOnce' /\ LoadedOnce'
  BY DEF BuildOnce, LoadedOnce
<1> QED
  BY <1>1, <1>2, <1>3

LEMMA FailBuildStep == ASSUME IInv, NEW t \in Threads, FailBuild(t) PROVE IInv'
<1> USE RuntimeAssumption DEF IInv, TypeOK, FailBuild, Go, Leave
<1>1. TypeOK'
  BY DEF HeldInside, ColdInside
<1>2. HeldInside' /\ ColdInside'
  BY DEF HeldInside, ColdInside
<1>3. BuildOnce' /\ LoadedOnce'
  BY DEF BuildOnce, LoadedOnce
<1> QED
  BY <1>1, <1>2, <1>3

LEMMA EndRunStep == ASSUME IInv, NEW t \in Threads, EndRun(t) PROVE IInv'
<1> USE RuntimeAssumption DEF IInv, TypeOK, EndRun, Go, Leave
<1>1. TypeOK'
  BY DEF HeldInside, ColdInside
<1>2. HeldInside' /\ ColdInside'
  BY DEF HeldInside, ColdInside
<1>3. BuildOnce' /\ LoadedOnce'
  BY DEF BuildOnce, LoadedOnce
<1> QED
  BY <1>1, <1>2, <1>3

-----------------------------------------------------------------------------
THEOREM Invariance == Spec => []IInv
<1>1. IInv /\ [Next]_vars => IInv'
  <2> SUFFICES ASSUME IInv, [Next]_vars PROVE IInv'
    OBVIOUS
  <2>1. CASE UNCHANGED vars
    BY <2>1 DEF IInv, vars, TypeOK, HeldInside, BuildOnce, ColdInside, LoadedOnce
  <2>2. ASSUME NEW t \in Threads, Invoke(t) \/ Work(t) PROVE IInv'
    BY <2>2, InvokeStep, TakeAccelStep, GetPipelineStep, TakePipelineStep, SetDeviceStep,
       FinishBuildStep, FailBuildStep, EndRunStep DEF Work
  <2> QED
    BY <2>1, <2>2 DEF Next
<1> QED
  BY <1>1, InitIInv, PTL DEF Spec

(* Types, and who may hold the two locks.                                  *)
THEOREM TypeCorrect == Spec => []TypeOK
BY Invariance, PTL DEF IInv

(* Double-checked locking loads the pipeline once.                         *)
THEOREM PipelineLoadedOnce == Spec => []LoadedOnce
BY Invariance, PTL DEF IInv

(* The threads that saw the accelerator take turns.                        *)
THEOREM AcceleratorTakesTurns == Spec => []ExclusiveOnceKnown
<1>1. IInv => ExclusiveOnceKnown
  BY DEF IInv, HeldInside, ExclusiveOnceKnown, Running
<1> QED
  BY <1>1, Invariance, PTL
=============================================================================
