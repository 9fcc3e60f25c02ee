--------------------------- MODULE DocumentsPanel ---------------------------
(***************************************************************************)
(* The list of the knowledge base in the browser: useDocuments.ts and      *)
(* DocumentsPanel.tsx.  The server here is the list it would answer with;  *)
(* Documents models what it does.  A request is stored and answered in two *)
(* steps, either of which may fail, and requests of the list, an upload    *)
(* and deletions may be out at once.  The user is an admin: everyone else  *)
(* can only list and retry.                                                *)
(***************************************************************************)
EXTENDS Naturals, FiniteSets, Sequences, SequencesExt, Lists

CONSTANTS Docs,        \* bound: the documents uploaded in one behaviour
          MaxBatch     \* bound: files chosen, or under way, at once

ASSUME DocsAssumption == MaxBatch \in Nat \ {0}

VARIABLES
  rows,             \* external: the server's list, newest first
  documents,        \* the list on screen
  docsLoading,      \* isLoading
  docsError,        \* loadError
  listRequest,      \* the reload under way: "none", "sent", or its answer
  isUploading,
  upload,           \* handleFiles: files left, the current one, failures
  pendingDeleteId,  \* "none" for null
  deletions,        \* deletions under way: document -> "sent" or "done"
  docsStatus,       \* status: "none", "ok", "error"
  strayFiles,       \* files that loops of earlier mounts have yet to store
  strayDeletions,   \* deletions of earlier mounts that are not done yet
  behind            \* history: the server changed past this list, see below

docsVars == <<rows, documents, docsLoading, docsError, listRequest, isUploading,
              upload, pendingDeleteId, deletions, docsStatus, strayFiles,
              strayDeletions, behind>>
strays == <<strayFiles, strayDeletions>>

NoDoc == "none"
Request(at, list) == [at |-> at, list |-> list, old |-> FALSE]
NoRequest == Request("none", <<>>)
(* (overtaken, history: after it a file of an earlier mount was stored.)   *)
NoUpload == [left |-> 0, doc |-> NoDoc, stored |-> FALSE, failed |-> FALSE,
             overtaken |-> FALSE]
Without(list, d) == Keeping(list, Docs \ {d})
InFlight == DOMAIN deletions

(* Mounting asks for the list at once.                                     *)
DocsInit ==
  /\ documents = <<>> /\ docsLoading = TRUE /\ docsError = FALSE
  /\ listRequest = Request("sent", <<>>)
  /\ isUploading = FALSE /\ upload = NoUpload
  /\ pendingDeleteId = NoDoc /\ deletions = <<>>
  /\ docsStatus = "none" /\ behind = FALSE
  /\ rows = <<>> /\ strayFiles = 0 /\ strayDeletions = {}

-----------------------------------------------------------------------------
(* reload.                                                                 *)

ListKeptAt == UNCHANGED <<isUploading, upload, pendingDeleteId, deletions, docsStatus, strays>>

RetryList ==
  /\ ~docsLoading /\ docsError
  /\ docsLoading' = TRUE /\ docsError' = FALSE
  /\ listRequest' = Request("sent", <<>>)
  /\ ListKeptAt /\ UNCHANGED <<rows, documents, behind>>

(* The server reads its rows; from here on the answer grows old.           *)
ListRead ==
  /\ listRequest.at = "sent"
  /\ listRequest' = Request("read", rows)
  /\ ListKeptAt /\ UNCHANGED <<rows, documents, docsLoading, docsError, behind>>

ListAnswered ==
  /\ listRequest.at = "read"
  /\ documents' = listRequest.list
  /\ docsLoading' = FALSE
  /\ listRequest' = NoRequest
  /\ behind' = listRequest.old
  /\ ListKeptAt /\ UNCHANGED <<rows, docsError>>

ListFailed ==
  /\ listRequest.at # "none"
  /\ docsError' = TRUE /\ docsLoading' = FALSE
  /\ listRequest' = NoRequest
  /\ ListKeptAt /\ UNCHANGED <<rows, documents, behind>>

-----------------------------------------------------------------------------
(* handleFiles: one file after the other.  The button is disabled while an *)
(* upload runs.                                                            *)

UploadKeeps == UNCHANGED <<docsLoading, docsError, pendingDeleteId, deletions, strays>>

(* An id of the server's that nothing here names any more.                 *)
Unused(d) == d \notin ToSet(rows \o documents \o listRequest.list)
                     \cup InFlight \cup strayDeletions \cup {upload.doc}

HandleFiles(n, d) ==
  /\ ~isUploading
  /\ Unused(d)
  /\ strayFiles + n <= MaxBatch                               \* bound
  /\ Cardinality({e \in Docs : Unused(e)}) >= strayFiles + n  \* bound: ids are left
  /\ isUploading' = TRUE
  /\ docsStatus' = "none"
  /\ upload' = [NoUpload EXCEPT !.left = n, !.doc = d]
  /\ UploadKeeps /\ UNCHANGED <<rows, documents, listRequest, behind>>

(* A change at the server makes a list that was read before it old.        *)
ListGrowsOld == listRequest' = [listRequest EXCEPT !.old = @ \/ listRequest.at = "read"]

UploadStored ==
  /\ upload.doc # NoDoc /\ ~upload.stored
  /\ rows' = <<upload.doc>> \o rows
  /\ upload' = [upload EXCEPT !.stored = TRUE]
  /\ ListGrowsOld
  /\ UploadKeeps /\ UNCHANGED <<documents, isUploading, docsStatus, behind>>

(* Mutant: after the last file the button stays disabled.                  *)
NextFileUnfinished(failed, d) ==
  LET bad == upload.failed \/ failed IN
  IF upload.left > 1
  THEN /\ Unused(d)
       /\ upload' = [NoUpload EXCEPT !.left = upload.left - 1, !.doc = d, !.failed = bad]
       /\ UNCHANGED <<isUploading, docsStatus>>
  ELSE /\ upload' = NoUpload
       /\ docsStatus' = IF bad THEN "error" ELSE "ok"
       /\ UNCHANGED isUploading

(* The outcome of a file, then the next one or the end of handleFiles.     *)
NextFile(failed, d) ==
  LET bad == upload.failed \/ failed IN
  IF upload.left > 1
  THEN /\ Unused(d)
       /\ upload' = [NoUpload EXCEPT !.left = upload.left - 1, !.doc = d, !.failed = bad]
       /\ UNCHANGED <<isUploading, docsStatus>>
  ELSE /\ upload' = NoUpload
       /\ isUploading' = FALSE
       /\ docsStatus' = IF bad THEN "error" ELSE "ok"

(* Mutant: the answer is appended to a list that may have it already.      *)
UploadAppended(d) ==
  /\ upload.stored
  /\ documents' = Append(documents, upload.doc)
  /\ NextFile(FALSE, d)
  /\ UploadKeeps /\ UNCHANGED <<rows, listRequest, behind>>

UploadAnswered(d) ==
  /\ upload.stored
  /\ documents' = <<upload.doc>> \o Without(documents, upload.doc)
  /\ NextFile(FALSE, d)
  /\ behind' = (behind \/ upload.overtaken)
  /\ UploadKeeps /\ UNCHANGED <<rows, listRequest>>

(* Refused, or stored and the answer lost.                                 *)
UploadFailed(d) ==
  /\ upload.doc # NoDoc
  /\ NextFile(TRUE, d)
  /\ behind' = (behind \/ (upload.stored /\ upload.doc \notin ToSet(documents)))
  /\ UploadKeeps /\ UNCHANGED <<rows, documents, listRequest>>

-----------------------------------------------------------------------------
(* handleDelete: pendingDeleteId names the last one begun, so its button   *)
(* alone is disabled.                                                      *)

DeleteKeeps == UNCHANGED <<docsLoading, docsError, isUploading, upload, strays>>

ListShown == ~docsLoading /\ ~docsError
CanDelete(d) == ListShown /\ d \in ToSet(documents) /\ pendingDeleteId # d

(* (A second deletion of a document while one is out finds no row; bound:  *)
(* it is left out.)                                                        *)
HandleDelete(d) ==
  /\ CanDelete(d) /\ d \notin InFlight
  /\ pendingDeleteId' = d
  /\ docsStatus' = "none"
  /\ deletions' = [e \in InFlight \cup {d} |->
                     IF e = d THEN "sent" ELSE deletions[e]]
  /\ DeleteKeeps /\ UNCHANGED <<rows, documents, listRequest, behind>>

DeletionDone(d) ==
  /\ d \in InFlight /\ deletions[d] = "sent" /\ d \in ToSet(rows)
  /\ rows' = Without(rows, d)
  /\ deletions' = [deletions EXCEPT ![d] = "done"]
  /\ ListGrowsOld
  /\ behind' = (behind \/ d = upload.doc)
  /\ DeleteKeeps /\ UNCHANGED <<documents, pendingDeleteId, docsStatus>>

Forget(d) == [e \in InFlight \ {d} |-> deletions[e]]

DeleteAnswered(d) ==
  /\ d \in InFlight /\ deletions[d] = "done"
  /\ documents' = Without(documents, d)
  /\ pendingDeleteId' = NoDoc
  /\ deletions' = Forget(d)
  /\ DeleteKeeps /\ UNCHANGED <<rows, docsStatus, listRequest, behind>>

DeleteFailed(d) ==
  /\ d \in InFlight
  /\ docsStatus' = "error"
  /\ pendingDeleteId' = NoDoc
  /\ deletions' = Forget(d)
  /\ behind' = (behind \/ (deletions[d] = "done" /\ d \in ToSet(documents)))
  /\ DeleteKeeps /\ UNCHANGED <<rows, documents, listRequest>>

-----------------------------------------------------------------------------

(* The panel goes and mounts again.  Nothing cancels its loop of uploads   *)
(* and its deletions: what the server has yet to do of them is done, or    *)
(* refused, later on, and answered to nobody.  (What is done while the     *)
(* panel is away is done here before the next list is read.)               *)
DocsMounts ==
  /\ strayFiles' = strayFiles + IF upload.stored THEN upload.left - 1 ELSE upload.left
  /\ strayDeletions' = strayDeletions \cup {d \in InFlight : deletions[d] = "sent"}
  /\ documents' = <<>> /\ docsLoading' = TRUE /\ docsError' = FALSE
  /\ listRequest' = Request("sent", <<>>)
  /\ isUploading' = FALSE /\ upload' = NoUpload
  /\ pendingDeleteId' = NoDoc /\ deletions' = <<>>
  /\ docsStatus' = "none" /\ behind' = FALSE
  /\ UNCHANGED rows

(* The list on screen does not hear of it.                                 *)
StrayKeeps == UNCHANGED <<documents, docsLoading, docsError, isUploading,
                          pendingDeleteId, deletions, docsStatus>>

StrayStored(d) ==
  /\ strayFiles > 0 /\ Unused(d)
  /\ rows' = <<d>> \o rows
  /\ strayFiles' = strayFiles - 1
  /\ upload' = [upload EXCEPT !.overtaken = upload.stored]
  /\ ListGrowsOld
  /\ behind' = (behind \/ ListShown)
  /\ StrayKeeps /\ UNCHANGED strayDeletions

StrayFileFailed ==
  /\ strayFiles > 0
  /\ strayFiles' = strayFiles - 1
  /\ StrayKeeps /\ UNCHANGED <<rows, upload, listRequest, strayDeletions, behind>>

StrayDeleted(d) ==
  /\ d \in strayDeletions /\ d \in ToSet(rows)
  /\ rows' = Without(rows, d)
  /\ strayDeletions' = strayDeletions \ {d}
  /\ ListGrowsOld
  /\ behind' = (behind \/ ListShown)
  /\ StrayKeeps /\ UNCHANGED <<upload, strayFiles>>

StrayDeletionFailed(d) ==
  /\ d \in strayDeletions
  /\ strayDeletions' = strayDeletions \ {d}
  /\ StrayKeeps /\ UNCHANGED <<rows, upload, listRequest, strayFiles, behind>>

StrayStep == StrayFileFailed \/ \E d \in Docs :
               StrayStored(d) \/ StrayDeleted(d) \/ StrayDeletionFailed(d)

ListStep == ListRead \/ ListAnswered \/ ListFailed

UploadStep == UploadStored \/ \E d \in Docs : UploadAnswered(d) \/ UploadFailed(d)

DeletionStep(d) == DeletionDone(d) \/ DeleteAnswered(d) \/ DeleteFailed(d)

DocsUser ==
  \/ RetryList
  \/ \E n \in 1..MaxBatch, d \in Docs : HandleFiles(n, d)
  \/ \E d \in Docs : HandleDelete(d)

-----------------------------------------------------------------------------

(* The types of the panel's state.                                         *)
DocsTypeOK ==
  /\ ToSet(documents) \subseteq Docs /\ ToSet(rows) \subseteq Docs
  /\ listRequest.at \in {"none", "sent", "read"}
  /\ upload.left \in 0..MaxBatch
  /\ pendingDeleteId \in Docs \cup {NoDoc}
  /\ InFlight \subseteq Docs
  /\ docsStatus \in {"none", "ok", "error"}
  /\ strayFiles \in Nat /\ strayDeletions \subseteq Docs

(* The list is kept in step without fetching it again: once everything is  *)
(* answered it is the server's, in the server's order, whatever order the  *)
(* answers came in.  It is not when a change overtook a list that had been *)
(* read before it, when the answer to a change was lost, when a file was   *)
(* listed and deleted before its upload was answered, or when an upload    *)
(* or a deletion that was still out when an earlier mount of the panel     *)
(* went was carried out after the list was read, or between the server's   *)
(* storing of a file and the answer of that upload.                        *)
ListTrue ==
  DocsTypeOK /\ (ListShown /\ ~isUploading /\ InFlight = {} /\ ~behind => documents = rows)
=============================================================================
