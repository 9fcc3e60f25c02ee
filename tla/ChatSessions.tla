---------------------------- MODULE ChatSessions ----------------------------
(***************************************************************************)
(* The chat backend's sessions: the two chat endpoints of api/chat.py, the *)
(* session endpoints of api/sessions.py, the process-wide buffers of       *)
(* services/core/chat/memory.py and the durable log of message_store.py.   *)
(*                                                                         *)
(* Every request is a coroutine on one event loop.  It runs without        *)
(* interruption from one await to the next, so an action is one such       *)
(* segment: pc[r] names the await request r is suspended at.  Where the    *)
(* database applies a statement before the coroutine is resumed and the    *)
(* difference can be seen, the statement and the resumption are two steps. *)
(*                                                                         *)
(* The input guard and the generation are seen here only through their     *)
(* outcome.                                                                *)
(***************************************************************************)
EXTENDS Integers, Sequences, SequencesExt

CONSTANTS
  Requests,     \* request slots: each stands for one HTTP request
  Users,        \* the accounts
  Sessions,     \* the uuids the server hands out
  Nobody,       \* owner of a session id that has no row
  NoSession,    \* the request carries no session_id
  UnknownId,    \* a session_id that was never handed out
  MaxTurns,     \* api.max_context_turns
  HistoryLimit, \* _HISTORY_LIMIT of api/sessions.py
  OneAtATime,   \* the client waits for an answer before it sends again
  MaxCrashes    \* bound on process restarts

ASSUME ChatAssumption ==
  /\ Nobody \notin Users
  /\ NoSession \notin Sessions
  /\ UnknownId \notin Sessions
  /\ NoSession # UnknownId
  /\ MaxTurns \in Nat \ {0}
  /\ HistoryLimit \in Nat \ {0}
  /\ MaxCrashes \in Nat

VARIABLES
  owner,        \* chat_sessions.user_id by id, Nobody without a row
  log,          \* chat_messages by session, in id order
  hot,          \* the keys of SessionMemoryManager._buffers
  buffer,       \* the turns of each buffer (empty when not hot)
  announced,    \* session ids some client has been told
  pc,           \* the await each request is suspended at
  req,          \* who asks, what for, in which session
  rows,         \* the messages load_recent read for a request
  ctx,          \* the conversation history given to the model
  status,       \* how the request ended
  acked,        \* (history) what had been answered when a request arrived
  unsaved,      \* (history) exchanges whose commit failed
  disturbed,    \* (history) sessions two requests overlapped in, or whose
                \* rows could not be read or written, since the last restart
  crashes       \* (history) restarts so far

dbVars == <<owner, log>>
memoryVars == <<hot, buffer>>
historyVars == <<acked, unsaved, disturbed, crashes>>
vars == <<owner, log, hot, buffer, announced, pc, req, rows, ctx, status,
          acked, unsaved, disturbed, crashes>>

-----------------------------------------------------------------------------
ChatKinds == {"chat", "stream"}
Kinds == ChatKinds \cup {"open", "history"}
Message == [by : Requests, role : {"user", "assistant"}]
SessionRef == Sessions \cup {NoSession, UnknownId}
Finished == {"idle", "done"}
Awaits == {"get", "read", "rows", "insert", "inserted",
           "guard", "generate", "persist", "persisted"}

(* The two turns of an exchange, named by the request that produced it. *)
Exchange(r) == << [by |-> r, role |-> "user"], [by |-> r, role |-> "assistant"] >>

(* The last n elements: ConversationBuffer.add applied to a run of turns,  *)
(* and the ORDER BY id DESC LIMIT n, reversed, of load_recent.             *)
LastN(seq, n) ==
  IF Len(seq) <= n THEN seq ELSE SubSeq(seq, Len(seq) - n + 1, Len(seq))

Window(seq) == LastN(seq, MaxTurns)

Active(r) == pc[r] \in Awaits

(* Mutant: the look-up is not scoped to the user. *)
OwnedByAnyone(r) == req[r].session \in Sessions /\ owner[req[r].session] # Nobody

(* The session exists and is the caller's: anything else is a 404. *)
Owned(r) == req[r].session \in Sessions /\ owner[req[r].session] = req[r].user

(* The chat requests at work in a session on behalf of its owner. *)
Touching(s) ==
  {r \in Requests : /\ Active(r)
                    /\ req[r].kind \in ChatKinds
                    /\ req[r].session = s
                    /\ req[r].user = owner[s]}

(* A uuid4 is an id no row and no request has. *)
Fresh(s) == owner[s] = Nobody /\ \A r \in Requests : req[r].session # s

-----------------------------------------------------------------------------
Init ==
  /\ owner = [s \in Sessions |-> Nobody]
  /\ log = [s \in Sessions |-> <<>>]
  /\ hot = {}
  /\ buffer = [s \in Sessions |-> <<>>]
  /\ announced = {}
  /\ pc = [r \in Requests |-> "idle"]
  /\ req = [r \in Requests |-> [user |-> Nobody, kind |-> "chat", session |-> NoSession]]
  /\ rows = [r \in Requests |-> <<>>]
  /\ ctx = [r \in Requests |-> <<>>]
  /\ status = [r \in Requests |-> "none"]
  /\ acked = [r \in Requests |-> {}]
  /\ unsaved = {}
  /\ disturbed = {}
  /\ crashes = 0

Goto(r, label) == pc' = [pc EXCEPT ![r] = label]

Reply(r, st) ==
  /\ Goto(r, "done")
  /\ status' = [status EXCEPT ![r] = st]

Disturb(s) == disturbed' = disturbed \cup {s}

(* Everything answered so far is known to a client that asks now. *)
NoteAcked(r) ==
  acked' = [acked EXCEPT ![r] = {x \in Requests : status[x] = "ok"}]

-----------------------------------------------------------------------------
(* The rate limiter (429) or validate_message (422) turns a chat request   *)
(* away before it has touched anything.                                    *)
Refuse(r) ==
  /\ pc[r] = "idle"
  /\ Reply(r, "refused")
  /\ UNCHANGED <<dbVars, memoryVars, announced, req, rows, ctx, historyVars>>

(* A request without session_id: the row of a new session is added and its *)
(* commit awaited.                                                         *)
ArriveNew(r, u, k, s) ==
  /\ pc[r] = "idle"
  /\ k # "history"
  /\ Fresh(s)
  /\ req' = [req EXCEPT ![r] = [user |-> u, kind |-> k, session |-> s]]
  /\ NoteAcked(r)
  /\ Goto(r, "insert")
  /\ UNCHANGED <<dbVars, memoryVars, announced, rows, ctx, status,
                 unsaved, disturbed, crashes>>

(* A request that names a session: db.get is awaited. *)
ArriveOn(r, u, k, s) ==
  /\ pc[r] = "idle"
  /\ k # "open"
  /\ OneAtATime => \A x \in Requests : Active(x) => req[x].session # s
  /\ req' = [req EXCEPT ![r] = [user |-> u, kind |-> k, session |-> s]]
  /\ NoteAcked(r)
  /\ Goto(r, "get")
  /\ IF /\ s \in Sessions
        /\ k \in ChatKinds
        /\ owner[s] = u
        /\ Touching(s) # {}
     THEN Disturb(s)
     ELSE UNCHANGED disturbed
  /\ UNCHANGED <<dbVars, memoryVars, announced, rows, ctx, status,
                 unsaved, crashes>>

-----------------------------------------------------------------------------
(* The new row is committed. *)
InsertCommit(r) ==
  /\ pc[r] = "insert"
  /\ owner' = [owner EXCEPT ![req[r].session] = req[r].user]
  /\ Goto(r, "inserted")
  /\ UNCHANGED <<log, memoryVars, announced, req, rows, ctx, status, historyVars>>

(* Back from the commit: memory.create, then the answer of create_session  *)
(* or the input guard of a chat.                                           *)
InsertResume(r) ==
  LET s == req[r].session IN
  /\ pc[r] = "inserted"
  /\ hot' = hot \cup {s}
  /\ buffer' = [buffer EXCEPT ![s] = <<>>]
  /\ \/ /\ req[r].kind = "open"
        /\ Reply(r, "ok")
        /\ announced' = announced \cup {s}
     \/ /\ req[r].kind # "open"
        /\ Goto(r, "guard")
        /\ UNCHANGED <<status, announced>>
  /\ UNCHANGED <<dbVars, req, rows, ctx, historyVars>>

(* db.get found no row, or another user's: 404. *)
NotFound(r) ==
  /\ pc[r] = "get"
  /\ ~Owned(r)
  /\ Reply(r, "not_found")
  /\ UNCHANGED <<dbVars, memoryVars, announced, req, rows, ctx, historyVars>>

(* The history endpoint goes on to read the log. *)
GetHistory(r) ==
  /\ pc[r] = "get"
  /\ Owned(r)
  /\ req[r].kind = "history"
  /\ Goto(r, "read")
  /\ UNCHANGED <<dbVars, memoryVars, announced, req, rows, ctx, status, historyVars>>

(* /chat takes the model's context here, before the guard; /chat/stream    *)
(* takes it when the guard has passed.                                     *)
EnterGuard(r, turns) ==
  /\ Goto(r, "guard")
  /\ ctx' = IF req[r].kind = "chat" THEN [ctx EXCEPT ![r] = turns] ELSE ctx

(* The buffer is hot: rehydration is skipped. *)
GetHot(r) ==
  /\ pc[r] = "get"
  /\ Owned(r)
  /\ req[r].kind \in ChatKinds
  /\ req[r].session \in hot
  /\ EnterGuard(r, buffer[req[r].session])
  /\ UNCHANGED <<dbVars, memoryVars, announced, req, rows, status, historyVars>>

(* Mutant: a cold buffer is registered but not filled from the log. *)
GetColdUnfilled(r) ==
  /\ pc[r] = "get"
  /\ Owned(r)
  /\ req[r].kind \in ChatKinds
  /\ req[r].session \notin hot
  /\ hot' = hot \cup {req[r].session}
  /\ EnterGuard(r, <<>>)
  /\ UNCHANGED <<dbVars, buffer, announced, req, rows, status, historyVars>>

(* The buffer is cold: it is registered, empty, and then load_recent is    *)
(* awaited.                                                                *)
GetCold(r) ==
  /\ pc[r] = "get"
  /\ Owned(r)
  /\ req[r].kind \in ChatKinds
  /\ req[r].session \notin hot
  /\ hot' = hot \cup {req[r].session}
  /\ buffer' = [buffer EXCEPT ![req[r].session] = <<>>]
  /\ Goto(r, "read")
  /\ UNCHANGED <<dbVars, announced, req, rows, ctx, status, historyVars>>

(* Mutant: the turns are read from the in-memory buffer. *)
ReadBuffer(r) ==
  /\ pc[r] = "read"
  /\ rows' = [rows EXCEPT ![r] = buffer[req[r].session]]
  /\ Goto(r, "rows")
  /\ UNCHANGED <<dbVars, memoryVars, announced, req, ctx, status, historyVars>>

(* The database answers load_recent. *)
Read(r) ==
  /\ pc[r] = "read"
  /\ rows' = [rows EXCEPT ![r] =
       LastN(log[req[r].session],
             IF req[r].kind = "history" THEN HistoryLimit ELSE MaxTurns)]
  /\ Goto(r, "rows")
  /\ UNCHANGED <<dbVars, memoryVars, announced, req, ctx, status, historyVars>>

(* Back from load_recent: the history is answered, or the turns read are   *)
(* added to the buffer, behind whatever it holds by now.                   *)
ReadResume(r) ==
  LET s == req[r].session
      filled == Window(buffer[s] \o rows[r])
  IN
  /\ pc[r] = "rows"
  /\ \/ /\ req[r].kind = "history"
        /\ Reply(r, "ok")
        /\ UNCHANGED <<memoryVars, ctx>>
     \/ /\ req[r].kind # "history"
        /\ buffer' = [buffer EXCEPT ![s] = filled]
        /\ EnterGuard(r, filled)
        /\ UNCHANGED <<hot, status>>
  /\ UNCHANGED <<dbVars, announced, req, rows, historyVars>>

(* A statement of the session lookup fails: 503.  A buffer registered for  *)
(* the rehydration stays behind, empty.                                    *)
DbDown(r) ==
  /\ pc[r] \in {"insert", "get", "read"}
  /\ Reply(r, "unavailable")
  /\ IF pc[r] = "read" /\ req[r].kind \in ChatKinds
     THEN Disturb(req[r].session)
     ELSE UNCHANGED disturbed
  /\ UNCHANGED <<dbVars, memoryVars, announced, req, rows, ctx,
                 acked, unsaved, crashes>>

-----------------------------------------------------------------------------
(* The input guard, or the local policy behind it, rejects: 400. *)
GuardReject(r) ==
  /\ pc[r] = "guard"
  /\ Reply(r, "rejected")
  /\ UNCHANGED <<dbVars, memoryVars, announced, req, rows, ctx, historyVars>>

(* Mutant: the question is recorded before it is answered. *)
GuardPassRecordsQuestion(r) ==
  LET s == req[r].session IN
  /\ pc[r] = "guard"
  /\ Goto(r, "generate")
  /\ buffer' = [buffer EXCEPT ![s] = Append(@, [by |-> r, role |-> "user"])]
  /\ ctx' = IF req[r].kind = "stream" THEN [ctx EXCEPT ![r] = buffer[s]] ELSE ctx
  /\ UNCHANGED <<dbVars, hot, announced, req, rows, status, historyVars>>

(* The guard lets the message through; a stream takes its context now. *)
GuardPass(r) ==
  /\ pc[r] = "guard"
  /\ Goto(r, "generate")
  /\ ctx' = IF req[r].kind = "stream"
            THEN [ctx EXCEPT ![r] = buffer[req[r].session]]
            ELSE ctx
  /\ UNCHANGED <<dbVars, memoryVars, announced, req, rows, status, historyVars>>

(* The model is not configured or not reachable: 503, or the error frame   *)
(* that ends a stream.  Nothing is recorded.                               *)
GenerateFail(r) ==
  /\ pc[r] = "generate"
  /\ Reply(r, "unavailable")
  /\ UNCHANGED <<dbVars, memoryVars, announced, req, rows, ctx, historyVars>>

(* The answer is there: both turns go to the buffer (get_or_create, add,   *)
(* add) and the commit of append_turn is awaited.                          *)
Record(r) ==
  LET s == req[r].session IN
  /\ pc[r] = "generate"
  /\ hot' = hot \cup {s}
  /\ buffer' = [buffer EXCEPT ![s] = Window(@ \o Exchange(r))]
  /\ Goto(r, "persist")
  /\ UNCHANGED <<dbVars, announced, req, rows, ctx, status, historyVars>>

(* append_turn: both rows in one commit. *)
PersistCommit(r) ==
  /\ pc[r] = "persist"
  /\ log' = [log EXCEPT ![req[r].session] = @ \o Exchange(r)]
  /\ Goto(r, "persisted")
  /\ UNCHANGED <<owner, memoryVars, announced, req, rows, ctx, status, historyVars>>

(* Mutant: the two messages are committed one by one, and the second fails. *)
PersistHalf(r) ==
  /\ pc[r] = "persist"
  /\ log' = [log EXCEPT ![req[r].session] = Append(@, [by |-> r, role |-> "user"])]
  /\ unsaved' = unsaved \cup {r}
  /\ Disturb(req[r].session)
  /\ Goto(r, "persisted")
  /\ UNCHANGED <<owner, memoryVars, announced, req, rows, ctx, status, acked, crashes>>

(* The commit fails: logged and swallowed. *)
PersistFail(r) ==
  /\ pc[r] = "persist"
  /\ unsaved' = unsaved \cup {r}
  /\ Disturb(req[r].session)
  /\ Goto(r, "persisted")
  /\ UNCHANGED <<dbVars, memoryVars, announced, req, rows, ctx, status, acked, crashes>>

(* Mutant: the answer does not wait for the commit. *)
RespondBeforeCommit(r) ==
  /\ pc[r] \in {"persist", "persisted"}
  /\ Reply(r, "ok")
  /\ announced' = announced \cup {req[r].session}
  /\ UNCHANGED <<dbVars, memoryVars, req, rows, ctx, historyVars>>

(* Mutant: the answer waits until its exchange can be read back. *)
RespondWhenLogged(r) ==
  /\ pc[r] = "persisted"
  /\ \E i \in DOMAIN log[req[r].session] : log[req[r].session][i].by = r
  /\ Reply(r, "ok")
  /\ announced' = announced \cup {req[r].session}
  /\ UNCHANGED <<dbVars, memoryVars, req, rows, ctx, historyVars>>

(* The response, or the done frame, with the session id in it. *)
Respond(r) ==
  /\ pc[r] = "persisted"
  /\ Reply(r, "ok")
  /\ announced' = announced \cup {req[r].session}
  /\ UNCHANGED <<dbVars, memoryVars, req, rows, ctx, historyVars>>

(* The reader of a stream goes away: the generator is cancelled at the     *)
(* await it is suspended at.                                               *)
Disconnect(r) ==
  /\ req[r].kind = "stream"
  /\ pc[r] \in {"generate", "persist", "persisted"}
  /\ Reply(r, "aborted")
  /\ IF pc[r] = "persist" THEN Disturb(req[r].session) ELSE UNCHANGED disturbed
  /\ UNCHANGED <<dbVars, memoryVars, announced, req, rows, ctx,
                 acked, unsaved, crashes>>

(* The process dies and is started again: initialize() builds an empty     *)
(* SessionMemoryManager, the requests in flight are gone, the database     *)
(* stays.                                                                  *)
Restart ==
  /\ crashes < MaxCrashes
  /\ crashes' = crashes + 1
  /\ hot' = {}
  /\ buffer' = [s \in Sessions |-> <<>>]
  /\ pc' = [r \in Requests |-> IF Active(r) THEN "done" ELSE pc[r]]
  /\ status' = [r \in Requests |-> IF Active(r) THEN "aborted" ELSE status[r]]
  /\ disturbed' = {}
  /\ UNCHANGED <<dbVars, announced, req, rows, ctx, acked, unsaved>>

-----------------------------------------------------------------------------
(* What the server does for a request once it has arrived, the client      *)
(* staying connected.                                                      *)
Serve(r) ==
  \/ InsertCommit(r) \/ InsertResume(r)
  \/ NotFound(r) \/ GetHistory(r) \/ GetHot(r) \/ GetCold(r)
  \/ Read(r) \/ ReadResume(r) \/ DbDown(r)
  \/ GuardReject(r) \/ GuardPass(r)
  \/ GenerateFail(r) \/ Record(r)
  \/ PersistCommit(r) \/ PersistFail(r) \/ Respond(r)

Arrive(r) ==
  \/ Refuse(r)
  \/ \E u \in Users, k \in Kinds, s \in Sessions : ArriveNew(r, u, k, s)
  \/ \E u \in Users, k \in Kinds, s \in announced \cup {UnknownId} :
       ArriveOn(r, u, k, s)

Next ==
  \/ \E r \in Requests : Arrive(r) \/ Serve(r) \/ Disconnect(r)
  \/ Restart

Spec == Init /\ [][Next]_vars

(* Every await ends: the driver answers or raises, the model client has a  *)
(* timeout and a bounded number of retries (dependency/llm.py).            *)
FairSpec == Spec /\ \A r \in Requests : WF_vars(Serve(r))

-----------------------------------------------------------------------------
(* The requests that have a message in a sequence of messages. *)
Authors(messages) == {messages[i].by : i \in DOMAIN messages}

(* Types, the window every buffer keeps to, and buffers exist only while   *)
(* they are hot (memory.py: add drops the oldest turns).                   *)
TypeOK ==
  /\ owner \in [Sessions -> Users \cup {Nobody}]
  /\ log \in [Sessions -> Seq(Message)]
  /\ hot \subseteq Sessions
  /\ buffer \in [Sessions -> Seq(Message)]
  /\ \A s \in Sessions : Len(buffer[s]) <= IF s \in hot THEN MaxTurns ELSE 0
  /\ announced \subseteq Sessions
  /\ pc \in [Requests -> Finished \cup Awaits]
  /\ req \in [Requests -> [user : Users \cup {Nobody}, kind : Kinds, session : SessionRef]]
  /\ rows \in [Requests -> Seq(Message)]
  /\ ctx \in [Requests -> Seq(Message)]
  /\ status \in [Requests -> {"none", "ok", "refused", "not_found", "rejected",
                              "unavailable", "aborted"}]
  /\ acked \in [Requests -> SUBSET Requests]
  /\ unsaved \subseteq Requests
  /\ disturbed \subseteq Sessions
  /\ crashes \in 0..MaxCrashes

(* Conversations do not leak: whatever is stored in a session was said by  *)
(* its owner, and whatever a request reads, or hands to the model as the   *)
(* conversation so far, was said by the caller (_resolve_session and       *)
(* get_session_history scope the session to the user).                     *)
Isolation ==
  /\ \A s \in Sessions : \A x \in Authors(log[s]) \cup Authors(buffer[s]) :
       req[x].user = owner[s]
  /\ \A r \in Requests : \A x \in Authors(rows[r]) \cup Authors(ctx[r]) :
       req[x].user = req[r].user

(* The request has a turn somewhere: in the log, in a buffer, in what a    *)
(* request read or in its prompt.                                          *)
Spoken(r) ==
  \/ \E s \in Sessions : r \in Authors(log[s]) \cup Authors(buffer[s])
  \/ \E x \in Requests : r \in Authors(rows[x]) \cup Authors(ctx[x])

(* A request leaves a turn anywhere only once its answer exists: one that  *)
(* was turned away, rejected by the guard, or failed to generate leaves    *)
(* none (chat.py records after run has returned, or on the done event).    *)
OnlyAnsweredRecorded ==
  \A r \in Requests :
    Spoken(r) => \/ pc[r] \in {"persist", "persisted"}
                 \/ pc[r] = "done" /\ status[r] \in {"ok", "aborted"}

(* An answered chat is durable, whatever crashes later: its exchange is in *)
(* its session's log unless the commit of just this exchange failed        *)
(* (_persist_turn is awaited before the response).                         *)
AnsweredDurable ==
  \A r \in Requests \ unsaved :
    (status[r] = "ok" /\ req[r].kind \in ChatKinds)
      => r \in Authors(log[req[r].session])

(* A client that has its answer finds the exchange in the history it asks  *)
(* for afterwards, also across a restart (get_session_history: "the        *)
(* history is correct even after a process restart").                      *)
HistoryReadsYourWrites ==
  \A r \in Requests :
    (status[r] = "ok" /\ req[r].kind = "history")
      => \A x \in acked[r] \ unsaved :
           (req[x].kind \in ChatKinds /\ req[x].session = req[r].session)
             => x \in Authors(rows[r]) \/ Len(rows[r]) = HistoryLimit

(* As long as no two chats overlap in a session and the database works for *)
(* it, the model is given exactly the end of the durable log, through      *)
(* restarts and rehydration, and whether the buffer was hot or cold.       *)
ContextMirrorsLog ==
  \A r \in Requests :
    (/\ pc[r] = "generate"
     /\ req[r].session \notin disturbed)
      => ctx[r] = Window(log[req[r].session])

(* chat.py:450-452: a cold buffer is rehydrated from the durable log, the  *)
(* DB stays the source of truth.  So a chat's context shows what the       *)
(* client was answered before in this session.                             *)
ContextHasHistory ==
  \A r \in Requests :
    pc[r] = "generate"
      => \A x \in acked[r] \ unsaved :
           (req[x].kind \in ChatKinds /\ req[x].session = req[r].session)
             => x \in Authors(ctx[r]) \/ Len(ctx[r]) = MaxTurns

(* The sessions implement the durable conversations a client relies on;    *)
(* of their state the abstract log sees the two tables of the database.    *)
Conversations == INSTANCE ConversationLog WITH
                   Requests <- Requests, Users <- Users, Sessions <- Sessions,
                   Nobody <- Nobody, owner <- owner, log <- log
ImplementsConversationLog == Conversations!Spec

(* Every request that is being served is answered.                         *)
EveryRequestEnds == \A r \in Requests : Active(r) ~> ~Active(r)
=============================================================================
