------------------------------ MODULE Documents ------------------------------
(***************************************************************************)
(* The knowledge base: api/documents.py keeps a document in two stores,    *)
(* its row in the relational database and its chunks in ChromaDB, with no  *)
(* transaction over both.  Requests interleave at every await; each store  *)
(* may fail at any call, and the process may die between two calls.        *)
(*                                                                         *)
(* An upload makes up its doc_id, so the upload names the document.        *)
(***************************************************************************)
EXTENDS Naturals, FiniteSets

CONSTANTS
  Uploads,      \* POST /documents/upload requests
  Deletes,      \* DELETE /documents/{doc_id} requests
  Contents,     \* file contents, told apart by their hash
  Blank,        \* a content without text, which makes no chunks
  NoContent     \* of an upload that has not come yet

ASSUME DocumentsAssumption ==
  /\ Uploads \cap Deletes = {}
  /\ NoContent \notin Contents

VARIABLES
  at,           \* where each request is, or how it ended
  content,      \* content_hash of each upload
  target,       \* the doc_id each deletion is about
  rows,         \* the committed rows of the table documents
  chunks,       \* the documents whose chunks are in the collection
  warned        \* the documents logged: "orphaned chunks may remain"

vars == <<at, content, target, rows, chunks, warned>>
stores == <<rows, chunks, warned>>

NoTarget == "no_target"
Requests == Uploads \cup Deletes
Ended == {"refused", "created", "conflict", "failed", "missing", "deleted", "lost"}
Running == {"reading", "committing", "refreshing", "rollback", "selecting", "found",
            "deleting"}

Init ==
  /\ at = [r \in Requests |-> "none"]
  /\ content = [u \in Uploads |-> NoContent]
  /\ target = [d \in Deletes |-> NoTarget]
  /\ rows = {} /\ chunks = {} /\ warned = {}

Go(r, place) == at' = [at EXCEPT ![r] = place]

-----------------------------------------------------------------------------
UploadArrive(u, c) ==
  /\ at[u] = "none"
  /\ Go(u, "reading")
  /\ content' = [content EXCEPT ![u] = c]
  /\ UNCHANGED <<target, stores>>

(* Too large, of an unsupported type, or the vector database or the        *)
(* embedding model is unavailable: nothing was written.                    *)
UploadRefuse(u) ==
  /\ at[u] = "reading"
  /\ Go(u, "refused")
  /\ UNCHANGED <<content, target, stores>>

(* The text is cut into chunks and they are upserted, before the row.      *)
UploadUpsert(u) ==
  /\ at[u] = "reading"
  /\ Go(u, "committing")
  /\ chunks' = IF content[u] = Blank THEN chunks ELSE chunks \cup {u}
  /\ UNCHANGED <<content, target, rows, warned>>

(* content_hash is unique in the table.                                    *)
Duplicate(u) == \E v \in rows : content[v] = content[u]

UploadCommit(u) ==
  /\ at[u] = "committing"
  /\ ~Duplicate(u)
  /\ rows' = rows \cup {u}
  /\ Go(u, "refreshing")
  /\ UNCHANGED <<content, target, chunks, warned>>

(* db.refresh: the answer is read back, unless a deletion was faster.      *)
UploadRefresh(u) ==
  /\ at[u] = "refreshing"
  /\ u \in rows
  /\ Go(u, "created")
  /\ UNCHANGED <<content, target, stores>>

(* Mutant: a duplicate is answered with 409 and its chunks are kept.       *)
UploadDuplicateKeepsChunks(u) ==
  /\ at[u] = "committing"
  /\ Duplicate(u)
  /\ Go(u, "conflict")
  /\ UNCHANGED <<content, target, stores>>

(* IntegrityError: the transaction is rolled back ... *)
UploadDuplicate(u) ==
  /\ at[u] = "committing"
  /\ Duplicate(u)
  /\ Go(u, "rollback")
  /\ UNCHANGED <<content, target, stores>>

(* Mutant: the chunks of that content are removed, whoever uploaded them.  *)
UploadCleanUpContent(u) ==
  /\ at[u] = "rollback"
  /\ chunks' = {v \in chunks : content[v] # content[u]}
  /\ Go(u, "conflict")
  /\ UNCHANGED <<content, target, rows, warned>>

(* ... and the chunks of this doc_id, and of no other, are removed.        *)
UploadCleanUp(u) ==
  /\ at[u] = "rollback"
  /\ chunks' = chunks \ {u}
  /\ Go(u, "conflict")
  /\ UNCHANGED <<content, target, rows, warned>>

(* Any other error of commit, refresh, rollback or delete_by_source is not *)
(* caught: a 500.                                                          *)
UploadFail(u) ==
  /\ at[u] \in {"committing", "refreshing", "rollback"}
  /\ Go(u, "failed")
  /\ UNCHANGED <<content, target, stores>>

-----------------------------------------------------------------------------
DeleteArrive(d, u) ==
  /\ at[d] = "none"
  /\ Go(d, "selecting")
  /\ target' = [target EXCEPT ![d] = u]
  /\ UNCHANGED <<content, stores>>

DeleteSelect(d) ==
  /\ at[d] = "selecting"
  /\ Go(d, IF target[d] \in rows THEN "found" ELSE "missing")
  /\ UNCHANGED <<content, target, stores>>

(* delete_by_source; its failure is logged and the deletion goes on.       *)
DeleteChunks(d) ==
  /\ at[d] = "found"
  /\ \/ /\ chunks' = chunks \ {target[d]}
        /\ UNCHANGED warned
     \/ /\ warned' = warned \cup {target[d]}
        /\ UNCHANGED chunks
  /\ Go(d, "deleting")
  /\ UNCHANGED <<content, target, rows>>

(* Mutant: the row's deletion is never committed. *)
DeleteUncommitted(d) ==
  /\ at[d] = "deleting"
  /\ Go(d, "deleted")
  /\ UNCHANGED <<content, target, stores>>

(* The row goes; that another request deleted it first is no error.        *)
DeleteCommit(d) ==
  /\ at[d] = "deleting"
  /\ rows' = rows \ {target[d]}
  /\ Go(d, "deleted")
  /\ UNCHANGED <<content, target, chunks, warned>>

(* The vector database or the relational one is unavailable.               *)
DeleteFail(d) ==
  /\ at[d] \in {"selecting", "deleting"}
  /\ Go(d, "failed")
  /\ UNCHANGED <<content, target, stores>>

-----------------------------------------------------------------------------
(* The process dies: whatever ran is gone, the stores stay as they are.    *)
Crash ==
  /\ \E r \in Requests : at[r] \in Running
  /\ at' = [r \in Requests |-> IF at[r] \in Running THEN "lost" ELSE at[r]]
  /\ UNCHANGED <<content, target, stores>>

Upload(u) ==
  \/ \E c \in Contents : UploadArrive(u, c)
  \/ UploadRefuse(u) \/ UploadUpsert(u) \/ UploadCommit(u) \/ UploadRefresh(u)
  \/ UploadDuplicate(u) \/ UploadCleanUp(u) \/ UploadFail(u)

Delete(d) ==
  \/ \E u \in Uploads : DeleteArrive(d, u)
  \/ DeleteSelect(d) \/ DeleteChunks(d) \/ DeleteCommit(d) \/ DeleteFail(d)

Next ==
  \/ \E u \in Uploads : Upload(u)
  \/ \E d \in Deletes : Delete(d)
  \/ Crash

Spec == Init /\ [][Next]_vars

-----------------------------------------------------------------------------
(* Types; only a document whose upload reached commit has a row, only one  *)
(* that has a text has chunks, and no two rows have the same content.      *)
TypeOK ==
  /\ at \in [Requests -> {"none"} \cup Running \cup Ended]
  /\ content \in [Uploads -> Contents \cup {NoContent}]
  /\ target \in [Deletes -> Uploads \cup {NoTarget}]
  /\ rows \subseteq Uploads /\ warned \subseteq Uploads
  /\ chunks \subseteq {u \in Uploads : content[u] \in Contents \ {Blank}}
  /\ \A u \in rows : at[u] \in {"refreshing", "created", "failed", "lost"}
  /\ \A u, v \in rows : content[u] = content[v] => u = v

(* The deletions that may have reached the stores. *)
Touched(u, places) == \E d \in Deletes : target[d] = u /\ at[d] \in places

(* A listed document that has text is found by the search, whatever its    *)
(* duplicates and other requests do, unless a deletion of that very        *)
(* document is under way or broke off between the two stores.              *)
RowsAreSearchable ==
  \A u \in rows :
    content[u] # Blank /\ u \notin chunks => Touched(u, {"deleting", "failed", "lost"})

(* Chunks that no listed document accounts for belong to an upload that is *)
(* not over, or that ended in a 500 or with the process, or to a deletion  *)
(* that logged a warning: an upload answered with 4xx or 201, and a        *)
(* deletion answered with 204, leave none behind.                          *)
OrphansExplained ==
  \A u \in chunks \ rows :
    \/ at[u] \in {"committing", "rollback", "failed", "lost"}
    \/ u \in warned

(* The answers are true: what was created is listed until a deletion of it *)
(* was carried through, what was deleted is listed no more.                *)
AnswersTrue ==
  /\ \A u \in Uploads : at[u] = "created" => u \in rows \/ Touched(u, {"deleted"})
  /\ \A d \in Deletes : at[d] = "deleted" => target[d] \notin rows
=============================================================================
