--------------------------- MODULE DocumentsProofs ---------------------------
(***************************************************************************)
(* The two stores of the knowledge base agree as far as the code can make  *)
(* them, for any number of uploads, deletions and contents.                *)
(***************************************************************************)
EXTENDS Documents, TLAPS

(* Where an upload can be once its row was committed. *)
Placed == {"refreshing", "created", "failed", "lost"}

(* A deletion that has got past its SELECT is about a document whose row   *)
(* was committed; no upload can write for that doc_id any more.            *)
TargetsPlaced ==
  \A d \in Deletes :
    at[d] \in {"found", "deleting", "deleted"} =>
      target[d] \in Uploads /\ at[target[d]] \in Placed

(* An upload that waits for its commit has its chunks in the collection,   *)
(* and before its upsert it has none.                                      *)
Upserted ==
  \A u \in Uploads :
    /\ at[u] \in {"none", "reading"} => u \notin chunks
    /\ at[u] \in {"reading", "committing"} => content[u] \in Contents
    /\ at[u] = "committing" /\ content[u] # Blank => u \in chunks

(* A deletion about to commit has removed the chunks or logged that it     *)
(* could not, and they do not come back.                                   *)
ChunksGone ==
  \A d \in Deletes :
    at[d] = "deleting" => target[d] \notin chunks \/ target[d] \in warned

IInv ==
  /\ TypeOK /\ TargetsPlaced /\ Upserted /\ ChunksGone
  /\ RowsAreSearchable /\ OrphansExplained /\ AnswersTrue

-----------------------------------------------------------------------------
LEMMA InitIInv == Init => IInv
<1> SUFFICES ASSUME Init PROVE IInv
  OBVIOUS
<1> USE DocumentsAssumption DEF Init
<1>1. TypeOK
  BY DEF TypeOK, Requests
<1>2. TargetsPlaced /\ Upserted /\ ChunksGone
  BY DEF TargetsPlaced, Upserted, ChunksGone, Requests
<1>3. RowsAreSearchable /\ OrphansExplained /\ AnswersTrue
  BY DEF RowsAreSearchable, OrphansExplained, AnswersTrue, Requests
<1> QED
  BY <1>1, <1>2, <1>3 DEF IInv

LEMMA UploadArriveStep == ASSUME IInv, NEW u \in Uploads, NEW c \in Contents, UploadArrive(u, c) PROVE IInv'
<1> USE DocumentsAssumption DEF IInv, UploadArrive, Go, stores, Requests
<1>1. TypeOK'
  BY DEF TypeOK, Upserted, Running, Ended, Duplicate
<1>2. TargetsPlaced'
  BY DEF TypeOK, TargetsPlaced, Placed, Running
<1>3. Upserted'
  BY DEF TypeOK, Upserted, Running
<1>4. ChunksGone'
  BY DEF TypeOK, ChunksGone, TargetsPlaced, Placed, Running
<1>5. RowsAreSearchable'
  BY DEF TypeOK, RowsAreSearchable, Upserted, TargetsPlaced, Placed, Touched, Running
<1>6. OrphansExplained'
  BY DEF TypeOK, OrphansExplained, ChunksGone, Running
<1>7. AnswersTrue'
  BY DEF TypeOK, AnswersTrue, TargetsPlaced, Placed, Touched, Running
<1> QED
  BY <1>1, <1>2, <1>3, <1>4, <1>5, <1>6, <1>7

LEMMA UploadRefuseStep == ASSUME IInv, NEW u \in Uploads, UploadRefuse(u) PROVE IInv'
<1> USE DocumentsAssumption DEF IInv, UploadRefuse, Go, stores, Requests
<1>1. TypeOK'
  BY DEF TypeOK, Running, Ended, Duplicate
<1>2. TargetsPlaced'
  BY DEF TypeOK, TargetsPlaced, Placed, Running
<1>3. Upserted'
  BY DEF TypeOK, Upserted, Running
<1>4. ChunksGone'
  BY DEF TypeOK, ChunksGone, TargetsPlaced, Placed, Running
<1>5. RowsAreSearchable'
  BY DEF TypeOK, RowsAreSearchable, Upserted, TargetsPlaced, Placed, Touched, Running
<1>6. OrphansExplained'
  BY DEF TypeOK, OrphansExplained, ChunksGone, Running
<1>7. AnswersTrue'
  BY DEF TypeOK, AnswersTrue, TargetsPlaced, Placed, Touched, Running
<1> QED
  BY <1>1, <1>2, <1>3, <1>4, <1>5, <1>6, <1>7

LEMMA UploadUpsertStep == ASSUME IInv, NEW u \in Uploads, UploadUpsert(u) PROVE IInv'
<1> USE DocumentsAssumption DEF IInv, UploadUpsert, Go, stores, Requests
<1>1. TypeOK'
  BY DEF TypeOK, Upserted, Running, Ended, Duplicate
<1>2. TargetsPlaced'
  BY DEF TypeOK, TargetsPlaced, Placed, Running
<1>3. Upserted'
  BY DEF TypeOK, Upserted, Running
<1>4. ChunksGone'
  BY DEF TypeOK, ChunksGone, TargetsPlaced, Placed, Running
<1>5. RowsAreSearchable'
  BY DEF TypeOK, RowsAreSearchable, Upserted, TargetsPlaced, Placed, Touched, Running
<1>6. OrphansExplained'
  BY DEF TypeOK, OrphansExplained, ChunksGone, Running
<1>7. AnswersTrue'
  BY DEF TypeOK, AnswersTrue, TargetsPlaced, Placed, Touched, Running
<1> QED
  BY <1>1, <1>2, <1>3, <1>4, <1>5, <1>6, <1>7

LEMMA UploadCommitStep == ASSUME IInv, NEW u \in Uploads, UploadCommit(u) PROVE IInv'
<1> USE DocumentsAssumption DEF IInv, UploadCommit, Go, stores, Requests
<1>1. TypeOK'
  BY DEF TypeOK, Running, Ended, Duplicate
<1>2. TargetsPlaced'
  BY DEF TypeOK, TargetsPlaced, Placed, Running
<1>3. Upserted'
  BY DEF TypeOK, Upserted, Running
<1>4. ChunksGone'
  BY DEF TypeOK, ChunksGone, TargetsPlaced, Placed, Running
<1>5. RowsAreSearchable'
  BY DEF TypeOK, RowsAreSearchable, Upserted, TargetsPlaced, Placed, Touched, Running
<1>6. OrphansExplained'
  BY DEF TypeOK, OrphansExplained, ChunksGone, Running
<1>7. AnswersTrue'
  BY DEF TypeOK, AnswersTrue, TargetsPlaced, Placed, Touched, Running
<1> QED
  BY <1>1, <1>2, <1>3, <1>4, <1>5, <1>6, <1>7

LEMMA UploadRefreshStep == ASSUME IInv, NEW u \in Uploads, UploadRefresh(u) PROVE IInv'
<1> USE DocumentsAssumption DEF IInv, UploadRefresh, Go, stores, Requests
<1>1. TypeOK'
  BY DEF TypeOK, Running, Ended, Duplicate
<1>2. TargetsPlaced'
  BY DEF TypeOK, TargetsPlaced, Placed, Running
<1>3. Upserted'
  BY DEF TypeOK, Upserted, Running
<1>4. ChunksGone'
  BY DEF TypeOK, ChunksGone, TargetsPlaced, Placed, Running
<1>5. RowsAreSearchable'
  BY DEF TypeOK, RowsAreSearchable, Upserted, TargetsPlaced, Placed, Touched, Running
<1>6. OrphansExplained'
  BY DEF TypeOK, OrphansExplained, ChunksGone, Running
<1>7. AnswersTrue'
  BY DEF TypeOK, AnswersTrue, TargetsPlaced, Placed, Touched, Running
<1> QED
  BY <1>1, <1>2, <1>3, <1>4, <1>5, <1>6, <1>7

LEMMA UploadDuplicateStep == ASSUME IInv, NEW u \in Uploads, UploadDuplicate(u) PROVE IInv'
<1> USE DocumentsAssumption DEF IInv, UploadDuplicate, Go, stores, Requests
<1>1. TypeOK'
  BY DEF TypeOK, Running, Ended, Duplicate
<1>2. TargetsPlaced'
  BY DEF TypeOK, TargetsPlaced, Placed, Running
<1>3. Upserted'
  BY DEF TypeOK, Upserted, Running
<1>4. ChunksGone'
  BY DEF TypeOK, ChunksGone, TargetsPlaced, Placed, Running
<1>5. RowsAreSearchable'
  BY DEF TypeOK, RowsAreSearchable, Upserted, TargetsPlaced, Placed, Touched, Running
<1>6. OrphansExplained'
  BY DEF TypeOK, OrphansExplained, ChunksGone, Running
<1>7. AnswersTrue'
  BY DEF TypeOK, AnswersTrue, TargetsPlaced, Placed, Touched, Running
<1> QED
  BY <1>1, <1>2, <1>3, <1>4, <1>5, <1>6, <1>7

LEMMA UploadCleanUpStep == ASSUME IInv, NEW u \in Uploads, UploadCleanUp(u) PROVE IInv'
<1> USE DocumentsAssumption DEF IInv, UploadCleanUp, Go, stores, Requests
<1>1. TypeOK'
  BY DEF TypeOK, Running, Ended, Duplicate
<1>2. TargetsPlaced'
  BY DEF TypeOK, TargetsPlaced, Placed, Running
<1>3. Upserted'
  BY DEF TypeOK, Upserted, Running
<1>4. ChunksGone'
  BY DEF TypeOK, ChunksGone, TargetsPlaced, Placed, Running
<1>5. RowsAreSearchable'
  BY DEF TypeOK, RowsAreSearchable, Upserted, TargetsPlaced, Placed, Touched, Running
<1>6. OrphansExplained'
  BY DEF TypeOK, OrphansExplained, ChunksGone, Running
<1>7. AnswersTrue'
  BY DEF TypeOK, AnswersTrue, TargetsPlaced, Placed, Touched, Running
<1> QED
  BY <1>1, <1>2, <1>3, <1>4, <1>5, <1>6, <1>7

LEMMA UploadFailStep == ASSUME IInv, NEW u \in Uploads, UploadFail(u) PROVE IInv'
<1> USE DocumentsAssumption DEF IInv, UploadFail, Go, stores, Requests
<1>1. TypeOK'
  BY DEF TypeOK, Running, Ended, Duplicate
<1>2. TargetsPlaced'
  BY DEF TypeOK, TargetsPlaced, Placed, Running
<1>3. Upserted'
  BY DEF TypeOK, Upserted, Running
<1>4. ChunksGone'
  BY DEF TypeOK, ChunksGone, TargetsPlaced, Placed, Running
<1>5. RowsAreSearchable'
  BY DEF TypeOK, RowsAreSearchable, Upserted, TargetsPlaced, Placed, Touched, Running
<1>6. OrphansExplained'
  BY DEF TypeOK, OrphansExplained, ChunksGone, Running
<1>7. AnswersTrue'
  BY DEF TypeOK, AnswersTrue, TargetsPlaced, Placed, Touched, Running
<1> QED
  BY <1>1, <1>2, <1>3, <1>4, <1>5, <1>6, <1>7

LEMMA DeleteArriveStep == ASSUME IInv, NEW d \in Deletes, NEW u \in Uploads, DeleteArrive(d, u) PROVE IInv'
<1> USE DocumentsAssumption DEF IInv, DeleteArrive, Go, stores, Requests
<1>1. TypeOK'
  BY DEF TypeOK, Running, Ended, Duplicate
<1>2. TargetsPlaced'
  BY DEF TypeOK, TargetsPlaced, Placed, Running
<1>3. Upserted'
  BY DEF TypeOK, Upserted, Running
<1>4. ChunksGone'
  BY DEF TypeOK, ChunksGone, TargetsPlaced, Placed, Running
<1>5. RowsAreSearchable'
  BY DEF TypeOK, RowsAreSearchable, Upserted, TargetsPlaced, Placed, Touched, Running
<1>6. OrphansExplained'
  BY DEF TypeOK, OrphansExplained, ChunksGone, Running
<1>7. AnswersTrue'
  BY DEF TypeOK, AnswersTrue, TargetsPlaced, Placed, Touched, Running
<1> QED
  BY <1>1, <1>2, <1>3, <1>4, <1>5, <1>6, <1>7

LEMMA DeleteSelectStep == ASSUME IInv, NEW d \in Deletes, DeleteSelect(d) PROVE IInv'
<1> USE DocumentsAssumption DEF IInv, DeleteSelect, Go, stores, Requests
<1>1. TypeOK'
  BY DEF TypeOK, Running, Ended, Duplicate
<1>2. TargetsPlaced'
  BY DEF TypeOK, TargetsPlaced, Placed, Running
<1>3. Upserted'
  BY DEF TypeOK, Upserted, Running
<1>4. ChunksGone'
  BY DEF TypeOK, ChunksGone, TargetsPlaced, Placed, Running
<1>5. RowsAreSearchable'
  BY DEF TypeOK, RowsAreSearchable, Upserted, TargetsPlaced, Placed, Touched, Running
<1>6. OrphansExplained'
  BY DEF TypeOK, OrphansExplained, ChunksGone, Running
<1>7. AnswersTrue'
  BY DEF TypeOK, AnswersTrue, TargetsPlaced, Placed, Touched, Running
<1> QED
  BY <1>1, <1>2, <1>3, <1>4, <1>5, <1>6, <1>7

LEMMA DeleteChunksStep == ASSUME IInv, NEW d \in Deletes, DeleteChunks(d) PROVE IInv'
<1> USE DocumentsAssumption DEF IInv, DeleteChunks, Go, stores, Requests
<1>1. TypeOK'
  BY DEF TypeOK, TargetsPlaced, Running, Ended, Duplicate
<1>2. TargetsPlaced'
  BY DEF TypeOK, TargetsPlaced, Placed, Running
<1>3. Upserted'
  BY DEF TypeOK, TargetsPlaced, Placed, Upserted, Running
<1>4. ChunksGone'
  BY DEF TypeOK, ChunksGone, TargetsPlaced, Placed, Running
<1>5. RowsAreSearchable'
  BY DEF TypeOK, RowsAreSearchable, Upserted, TargetsPlaced, Placed, Touched, Running
<1>6. OrphansExplained'
  BY DEF TypeOK, OrphansExplained, ChunksGone, Running
<1>7. AnswersTrue'
  BY DEF TypeOK, AnswersTrue, TargetsPlaced, Placed, Touched, Running
<1> QED
  BY <1>1, <1>2, <1>3, <1>4, <1>5, <1>6, <1>7

LEMMA DeleteCommitStep == ASSUME IInv, NEW d \in Deletes, DeleteCommit(d) PROVE IInv'
<1> USE DocumentsAssumption DEF IInv, DeleteCommit, Go, stores, Requests
<1>1. TypeOK'
  BY DEF TypeOK, Running, Ended, Duplicate
<1>2. TargetsPlaced'
  BY DEF TypeOK, TargetsPlaced, Placed, Running
<1>3. Upserted'
  BY DEF TypeOK, Upserted, Running
<1>4. ChunksGone'
  BY DEF TypeOK, ChunksGone, TargetsPlaced, Placed, Running
<1>5. RowsAreSearchable'
  BY DEF TypeOK, RowsAreSearchable, Upserted, TargetsPlaced, Placed, Touched, Running
<1>6. OrphansExplained'
  BY DEF TypeOK, OrphansExplained, ChunksGone, Running
<1>7. AnswersTrue'
  BY DEF TypeOK, AnswersTrue, TargetsPlaced, Placed, Touched, Running
<1> QED
  BY <1>1, <1>2, <1>3, <1>4, <1>5, <1>6, <1>7

LEMMA DeleteFailStep == ASSUME IInv, NEW d \in Deletes, DeleteFail(d) PROVE IInv'
<1> USE DocumentsAssumption DEF IInv, DeleteFail, Go, stores, Requests
<1>1. TypeOK'
  BY DEF TypeOK, Running, Ended, Duplicate
<1>2. TargetsPlaced'
  BY DEF TypeOK, TargetsPlaced, Placed, Running
<1>3. Upserted'
  BY DEF TypeOK, Upserted, Running
<1>4. ChunksGone'
  BY DEF TypeOK, ChunksGone, TargetsPlaced, Placed, Running
<1>5. RowsAreSearchable'
  BY DEF TypeOK, RowsAreSearchable, Upserted, TargetsPlaced, Placed, Touched, Running
<1>6. OrphansExplained'
  BY DEF TypeOK, OrphansExplained, ChunksGone, Running
<1>7. AnswersTrue'
  BY DEF TypeOK, AnswersTrue, TargetsPlaced, Placed, Touched, Running
<1> QED
  BY <1>1, <1>2, <1>3, <1>4, <1>5, <1>6, <1>7

LEMMA CrashStep == ASSUME IInv, Crash PROVE IInv'
<1> USE DocumentsAssumption DEF IInv, Crash, Go, stores, Requests
<1>1. TypeOK'
  BY DEF TypeOK, Running, Ended, Duplicate
<1>2. TargetsPlaced'
  BY DEF TypeOK, TargetsPlaced, Placed, Running
<1>3. Upserted'
  BY DEF TypeOK, Upserted, Running
<1>4. ChunksGone'
  BY DEF TypeOK, ChunksGone, TargetsPlaced, Placed, Running
<1>5. RowsAreSearchable'
  BY DEF TypeOK, RowsAreSearchable, Upserted, TargetsPlaced, Placed, Touched, Running
<1>6. OrphansExplained'
  BY DEF TypeOK, OrphansExplained, ChunksGone, Running
<1>7. AnswersTrue'
  BY DEF TypeOK, AnswersTrue, TargetsPlaced, Placed, Touched, Running
<1> QED
  BY <1>1, <1>2, <1>3, <1>4, <1>5, <1>6, <1>7

LEMMA StutterStep == ASSUME IInv, UNCHANGED vars PROVE IInv'
BY DEF IInv, vars, TypeOK, TargetsPlaced, Upserted, ChunksGone, RowsAreSearchable,
       OrphansExplained, AnswersTrue, Touched, Placed, Requests

-----------------------------------------------------------------------------
(* Every step, of any request or the crash of the process, keeps IInv.     *)
THEOREM Invariance == Spec => []IInv
<1>1. IInv /\ [Next]_vars => IInv'
  <2> SUFFICES ASSUME IInv, [Next]_vars PROVE IInv'
    OBVIOUS
  <2>1. ASSUME NEW u \in Uploads, Upload(u) PROVE IInv'
    BY <2>1, UploadArriveStep, UploadRefuseStep, UploadUpsertStep, UploadCommitStep,
       UploadRefreshStep, UploadDuplicateStep, UploadCleanUpStep, UploadFailStep
       DEF Upload
  <2>2. ASSUME NEW d \in Deletes, Delete(d) PROVE IInv'
    BY <2>2, DeleteArriveStep, DeleteSelectStep, DeleteChunksStep, DeleteCommitStep,
       DeleteFailStep DEF Delete
  <2> QED
    BY <2>1, <2>2, CrashStep, StutterStep DEF Next
<1> QED
  BY <1>1, InitIInv, PTL DEF Spec

(* The types, and that no two rows hold the same content.                  *)
THEOREM TypeCorrect == Spec => []TypeOK
BY Invariance, PTL DEF IInv

(* A listed document is found by the search unless its own deletion broke  *)
(* off between the two stores: no duplicate's clean-up takes its chunks.   *)
THEOREM ListedIsSearchable == Spec => []RowsAreSearchable
BY Invariance, PTL DEF IInv

(* Chunks without a row come only from an upload that is not over or did   *)
(* not end well, or from a deletion that said so in the log.               *)
THEOREM OrphansOnlyByFailure == Spec => []OrphansExplained
BY Invariance, PTL DEF IInv

(* A 201 stays true until a deletion of that document, a 204 for ever.     *)
THEOREM AnswersStayTrue == Spec => []AnswersTrue
BY Invariance, PTL DEF IInv
=============================================================================
