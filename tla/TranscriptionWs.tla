--------------------------- MODULE TranscriptionWs ---------------------------
(***************************************************************************)
(* The server side of live transcription: the websocket endpoint of        *)
(* transcription/websocket.py, the chunk tasks of handler.py and the chunk *)
(* states of speech_cache.py.                                              *)
(*                                                                         *)
(* Each connection has one handler coroutine; phase[c] names the place it  *)
(* is suspended at.  A chunk of audio becomes a task that runs beside the  *)
(* handler: its first segment stores the chunk's state and hands it to a   *)
(* worker thread, its last one stores the transcript.  Tasks finish in any *)
(* order.  The wire is one FIFO queue in each direction.                   *)
(*                                                                         *)
(* The client is here whoever sends frames; module LiveTranscription puts  *)
(* the browser's hook in its place.                                        *)
(***************************************************************************)
EXTENDS Integers, Sequences, FiniteSets, Lists

CONSTANTS
  Conns,        \* connections, each with a session id of its own
  MaxInflight,  \* max_inflight_chunks
  MaxChunks,    \* bound on the audio chunks of a connection
  MaxFrames,    \* bound on the frames waiting for the server
  Failures,     \* how a chunk may end without a transcript
  Outages       \* whether Redis may be away

ASSUME TranscriptionAssumption ==
  /\ MaxInflight \in Nat \ {0}
  /\ MaxChunks \in Nat \ {0}
  /\ MaxFrames \in Nat \ {0}
  /\ Failures \subseteq {"empty", "error", "chunk_error"}
  /\ Outages \in BOOLEAN

VARIABLES
  phase,        \* where the handler of a connection is
  up,           \* frames on their way to the server
  down,         \* messages on their way to the client
  shut,         \* the client has closed the socket
  disconnected, \* _WsState.disconnected
  nextIn,       \* _WsState.chunk_index
  nextOut,      \* _WsState.next_emit_index
  pending,      \* the keys of _WsState.pending_tasks
  ready,        \* the keys of _WsState.completed_payloads
  task,         \* what each chunk's task is doing, or its payload's type
  cache,        \* the stage of each SpeechChunkState
  delivered,    \* (history) the chunks whose payload was put on the wire
  unclear       \* (history) connections whose cache could not be cleared

handlerVars == <<phase, disconnected, nextIn, nextOut, pending, ready>>
wireVars == <<up, down, shut, delivered>>
chunkVars == <<task, cache>>
vars == <<phase, up, down, shut, disconnected, nextIn, nextOut, pending, ready,
          task, cache, delivered, unclear>>

-----------------------------------------------------------------------------
Chunk == 0 .. MaxChunks - 1
NoChunk == -1

(* The payloads a task can end with; an exception becomes a chunk_error. *)
Outcomes == {"transcript", "chunk_error"} \cup Failures
Frames == {"auth", "noise", "start", "stop", "audio", "bad", "value", "disconnect"}
Serving == {"collect", "receive", "full", "drain"}

Control(type) == <<[type |-> type, chunk |-> NoChunk]>>

-----------------------------------------------------------------------------
Init ==
  /\ phase = [c \in Conns |-> "none"]
  /\ up = [c \in Conns |-> <<>>]
  /\ down = [c \in Conns |-> <<>>]
  /\ shut = [c \in Conns |-> FALSE]
  /\ disconnected = [c \in Conns |-> FALSE]
  /\ nextIn = [c \in Conns |-> 0]
  /\ nextOut = [c \in Conns |-> 0]
  /\ pending = [c \in Conns |-> {}]
  /\ ready = [c \in Conns |-> {}]
  /\ task = [c \in Conns |-> [i \in Chunk |-> "none"]]
  /\ cache = [c \in Conns |-> [i \in Chunk |-> "none"]]
  /\ delivered = [c \in Conns |-> <<>>]
  /\ unclear = {}

Goto(c, label) == phase' = [phase EXCEPT ![c] = label]

(* _send: nothing once disconnected; a send to a socket the client has     *)
(* closed is lost, and may be noticed.                                     *)
Send(c, messages) ==
  \/ /\ disconnected[c] \/ messages = <<>>
     /\ UNCHANGED <<down, disconnected, delivered>>
  \/ /\ ~disconnected[c] /\ messages # <<>> /\ ~shut[c]
     /\ down' = [down EXCEPT ![c] = @ \o messages]
     /\ delivered' = [delivered EXCEPT ![c] =
          @ \o Keeping([k \in DOMAIN messages |-> messages[k].chunk], Chunk)]
     /\ UNCHANGED disconnected
  \/ /\ ~disconnected[c] /\ messages # <<>> /\ shut[c]
     /\ \/ UNCHANGED disconnected
        \/ disconnected' = [disconnected EXCEPT ![c] = TRUE]
     /\ UNCHANGED <<down, delivered>>

-----------------------------------------------------------------------------
(* The next frame, if one is there. *)
First(c) == IF up[c] = <<>> THEN "nothing" ELSE Head(up[c])

(* A websocket is accepted; its first frame is awaited. *)
Accept(c) ==
  /\ phase[c] = "none"
  /\ Goto(c, "auth")
  /\ UNCHANGED <<wireVars, disconnected, nextIn, nextOut, pending, ready, chunkVars, unclear>>

(* The server closes the socket: its last message. *)
CloseSocket(c) ==
  down' = IF shut[c] THEN down ELSE [down EXCEPT ![c] = @ \o Control("closed")]

(* _authenticate_ws on the first frame: a valid token opens a session.     *)
AuthAccept(c) ==
  /\ phase[c] = "auth"
  /\ First(c) = "auth"
  /\ up' = [up EXCEPT ![c] = Tail(@)]
  /\ Goto(c, "collect")
  /\ Send(c, Control("ready"))
  /\ UNCHANGED <<shut, nextIn, nextOut, pending, ready, chunkVars, unclear>>

(* Anything else, or no frame in time (ws_auth_timeout_seconds), closes    *)
(* the socket without a session.                                           *)
AuthReject(c) ==
  /\ phase[c] = "auth"
  /\ First(c) # "auth"
  /\ up' = [up EXCEPT ![c] = <<>>]
  /\ Goto(c, "closed")
  /\ CloseSocket(c)
  /\ UNCHANGED <<shut, delivered, disconnected, nextIn, nextOut, pending, ready,
                 chunkVars, unclear>>

-----------------------------------------------------------------------------
(* Mutant: a task that raised is never taken out of pending_tasks. *)
DoneUnlessRaised(c) == {i \in pending[c] : task[c][i] \in Outcomes \ {"chunk_error"}}

Done(c) == {i \in pending[c] : task[c][i] \in Outcomes}

(* The first index from n on that is not in S. *)
FirstGap(n, S) == CHOOSE m \in n .. MaxChunks : m \notin S /\ n .. (m - 1) \subseteq S

(* Mutant: only transcripts are sent, a failed chunk says nothing. *)
PayloadsTranscripts(c, n, m) ==
  Keeping([k \in 1 .. (m - n) |-> [type |-> task[c][n + k - 1], chunk |-> n + k - 1]],
          [type : {"transcript"}, chunk : Chunk])

(* The payloads of chunks n .. m-1, the empty ones left out. *)
Payloads(c, n, m) ==
  Keeping([k \in 1 .. (m - n) |-> [type |-> task[c][n + k - 1], chunk |-> n + k - 1]],
          [type : Outcomes \ {"empty"}, chunk : Chunk])

(* Mutant: payloads are sent as the tasks finish. *)
CollectAsFinished(c) ==
  /\ pending' = [pending EXCEPT ![c] = @ \ Done(c)]
  /\ nextOut' = [nextOut EXCEPT ![c] = @ + Cardinality(Done(c))]
  /\ Send(c, Keeping(Payloads(c, 0, MaxChunks), [type : Outcomes, chunk : Done(c)]))
  /\ UNCHANGED <<up, shut, nextIn, ready, chunkVars, unclear>>

(* _collect: the payloads of all finished tasks become ready, then _flush  *)
(* sends the ready ones from next_emit_index on.  The awaits inside _flush *)
(* change nothing that the handler reads, so this is one step.             *)
Collect(c) ==
  LET all == ready[c] \cup Done(c)
      m == FirstGap(nextOut[c], all)
  IN
  /\ pending' = [pending EXCEPT ![c] = @ \ Done(c)]
  /\ ready' = [ready EXCEPT ![c] = all \ (nextOut[c] .. (m - 1))]
  /\ nextOut' = [nextOut EXCEPT ![c] = m]
  /\ Send(c, Payloads(c, nextOut[c], m))
  /\ UNCHANGED <<up, shut, nextIn, chunkVars, unclear>>

(* Top of the loop: what is finished is collected without waiting. *)
CollectDone(c) ==
  /\ phase[c] = "collect"
  /\ Goto(c, "receive")
  /\ Collect(c)

(* receive() timed out (receive_poll_ms). *)
PollTimeout(c) ==
  /\ phase[c] = "receive"
  /\ First(c) = "nothing"
  /\ Goto(c, "collect")
  /\ UNCHANGED <<wireVars, disconnected, nextIn, nextOut, pending, ready, chunkVars, unclear>>

Receive(c, frame) ==
  /\ phase[c] = "receive"
  /\ First(c) = frame
  /\ up' = [up EXCEPT ![c] = Tail(@)]

ReceiveStart(c) ==
  /\ Receive(c, "start")
  /\ Goto(c, "collect")
  /\ Send(c, Control("started"))
  /\ UNCHANGED <<shut, nextIn, nextOut, pending, ready, chunkVars, unclear>>

(* "stop" is answered at once; the loop ends and the rest is drained.      *)
ReceiveStop(c) ==
  /\ Receive(c, "stop")
  /\ Goto(c, "drain")
  /\ Send(c, Control("stopped"))
  /\ UNCHANGED <<shut, nextIn, nextOut, pending, ready, chunkVars, unclear>>

(* A chunk gets the next index and a task; when that makes max_inflight,   *)
(* the handler waits for one to finish before it reads on.                 *)
ReceiveAudio(c) ==
  /\ Receive(c, "audio")
  /\ nextIn' = [nextIn EXCEPT ![c] = @ + 1]
  /\ pending' = [pending EXCEPT ![c] = @ \cup {nextIn[c]}]
  /\ task' = [task EXCEPT ![c][nextIn[c]] = "created"]
  /\ Goto(c, IF Cardinality(pending[c]) + 1 >= MaxInflight THEN "full" ELSE "collect")
  /\ UNCHANGED <<down, shut, delivered, disconnected, nextOut, ready, cache, unclear>>

(* An oversized chunk, or a control frame that is no JSON: an error        *)
(* message.                                                                *)
ReceiveBad(c) ==
  /\ Receive(c, "bad")
  /\ Goto(c, "collect")
  /\ Send(c, Control("error"))
  /\ UNCHANGED <<shut, nextIn, nextOut, pending, ready, chunkVars, unclear>>

(* A control frame whose JSON is no object: payload.get raises, and the    *)
(* handler ends without a word, after the drain of its finally clause.     *)
ReceiveValue(c) ==
  /\ Receive(c, "value")
  /\ Goto(c, "drain")
  /\ UNCHANGED <<down, shut, delivered, disconnected, nextIn, nextOut, pending, ready,
                 chunkVars, unclear>>

(* An empty chunk, or a control message of another type: nothing.          *)
ReceiveIgnored(c) ==
  /\ Receive(c, "auth") \/ Receive(c, "noise")
  /\ Goto(c, "collect")
  /\ UNCHANGED <<down, shut, delivered, disconnected, nextIn, nextOut, pending, ready,
                 chunkVars, unclear>>

(* Mutant: the loop goes on after a disconnect. *)
ReceiveDisconnectGoesOn(c) ==
  /\ Receive(c, "disconnect")
  /\ Goto(c, "collect")
  /\ disconnected' = [disconnected EXCEPT ![c] = TRUE]
  /\ UNCHANGED <<down, shut, delivered, nextIn, nextOut, pending, ready, chunkVars, unclear>>

ReceiveDisconnect(c) ==
  /\ Receive(c, "disconnect")
  /\ Goto(c, "drain")
  /\ disconnected' = [disconnected EXCEPT ![c] = TRUE]
  /\ UNCHANGED <<down, shut, delivered, nextIn, nextOut, pending, ready, chunkVars, unclear>>

(* asyncio.wait(FIRST_COMPLETED) has returned. *)
CollectOne(c) ==
  /\ phase[c] \in {"full", "drain"}
  /\ Done(c) # {}
  /\ IF phase[c] = "full" THEN Goto(c, "collect") ELSE UNCHANGED phase
  /\ Collect(c)

(* Mutant: the session is closed without draining its tasks. *)
CloseUndrained(c) ==
  /\ phase[c] = "drain"
  /\ cache' = [cache EXCEPT ![c] = [i \in Chunk |-> "none"]]
  /\ UNCHANGED unclear
  /\ Goto(c, "closed")
  /\ CloseSocket(c)
  /\ UNCHANGED <<up, shut, delivered, disconnected, nextIn, nextOut, pending, ready, task>>

(* All tasks are drained: close_session clears the session's chunk states, *)
(* or raises when Redis is away.  The handler returns either way.          *)
CloseSession(c) ==
  /\ phase[c] = "drain"
  /\ pending[c] = {}
  /\ \/ /\ cache' = [cache EXCEPT ![c] = [i \in Chunk |-> "none"]]
        /\ UNCHANGED unclear
     \/ /\ Outages
        /\ unclear' = unclear \cup {c}
        /\ UNCHANGED cache
  /\ Goto(c, "closed")
  /\ CloseSocket(c)
  /\ UNCHANGED <<up, shut, delivered, disconnected, nextIn, nextOut, pending, ready, task>>

-----------------------------------------------------------------------------
EndTask(c, i, outcome) == task' = [task EXCEPT ![c][i] = outcome]

Stage(c, i, stage) == cache' = [cache EXCEPT ![c][i] = stage]

(* The task runs: store_received_chunk, then the worker thread; Redis may  *)
(* be away.                                                                *)
TaskStart(c, i) ==
  /\ task[c][i] = "created"
  /\ \/ EndTask(c, i, "running") /\ Stage(c, i, "received")
     \/ Outages /\ EndTask(c, i, "chunk_error") /\ UNCHANGED cache
  /\ UNCHANGED <<handlerVars, wireVars, unclear>>

(* The thread returns a text, which is stored; or nothing; or it raises.   *)
TaskEnd(c, i) ==
  /\ task[c][i] = "running"
  /\ \/ EndTask(c, i, "transcript") /\ Stage(c, i, "transcribed")
     \/ \E outcome \in Failures :
          EndTask(c, i, outcome) /\ UNCHANGED cache
  /\ UNCHANGED <<handlerVars, wireVars, unclear>>

(* The time to live of a chunk's state is over. *)
Expire(c, i) ==
  /\ cache[c][i] # "none"
  /\ Stage(c, i, "none")
  /\ UNCHANGED <<handlerVars, wireVars, task, unclear>>

-----------------------------------------------------------------------------
Handler(c) ==
  \/ AuthAccept(c) \/ AuthReject(c)
  \/ CollectDone(c) \/ PollTimeout(c)
  \/ ReceiveStart(c) \/ ReceiveStop(c) \/ ReceiveAudio(c) \/ ReceiveBad(c)
  \/ ReceiveValue(c) \/ ReceiveIgnored(c) \/ ReceiveDisconnect(c)
  \/ CollectOne(c) \/ CloseSession(c)

Task(c, i) == TaskStart(c, i) \/ TaskEnd(c, i)

Server ==
  \E c \in Conns :
    \/ Handler(c)
    \/ \E i \in Chunk : Task(c, i) \/ Expire(c, i)

(* The audio chunks on the wire. *)
Uploading(c) == Cardinality({k \in DOMAIN up[c] : up[c][k] = "audio"})

(* Any client: it sends frames and, once, closes the socket; what it sent  *)
(* before is still read.  The server never looks at what the client has    *)
(* read, so a client that sends has read everything.                       *)
ClientSend(c) ==
  /\ phase[c] \notin {"none", "closed"} /\ ~shut[c]
  /\ Len(up[c]) < MaxFrames
  /\ \E frame \in Frames \ {"disconnect"} :
       /\ frame = "audio" => nextIn[c] + Uploading(c) < MaxChunks
       /\ up' = [up EXCEPT ![c] = Append(@, frame)]
  /\ down' = [down EXCEPT ![c] = <<>>]
  /\ UNCHANGED <<handlerVars, shut, delivered, chunkVars, unclear>>

ClientClose(c) ==
  /\ phase[c] \notin {"none", "closed"} /\ ~shut[c]
  /\ shut' = [shut EXCEPT ![c] = TRUE]
  /\ up' = [up EXCEPT ![c] = Append(@, "disconnect")]
  /\ UNCHANGED <<handlerVars, down, delivered, chunkVars, unclear>>

AnyClient == \E c \in Conns : Accept(c) \/ ClientSend(c) \/ ClientClose(c)

Next == Server \/ AnyClient

Spec == Init /\ [][Next]_vars

(* The event loop runs every coroutine that is ready, a worker thread      *)
(* returns or raises, and a poll that finds nothing is repeated; expiry is *)
(* the store's clock.                                                      *)
ServerFairness ==
  \A c \in Conns :
    /\ WF_vars(Handler(c))
    /\ \A i \in Chunk : WF_vars(Task(c, i)) /\ WF_vars(Expire(c, i))

FairSpec == Spec /\ ServerFairness

-----------------------------------------------------------------------------
(* Types; what is running, waiting for its turn, and sent is exactly what  *)
(* came in (_collect, _flush).                                             *)
TypeOK ==
  /\ phase \in [Conns -> {"none", "auth", "closed"} \cup Serving]
  /\ up \in [Conns -> Seq(Frames)]
  /\ shut \in [Conns -> BOOLEAN]
  /\ disconnected \in [Conns -> BOOLEAN]
  /\ nextIn \in [Conns -> 0 .. MaxChunks]
  /\ nextOut \in [Conns -> 0 .. MaxChunks]
  /\ pending \in [Conns -> SUBSET Chunk]
  /\ ready \in [Conns -> SUBSET Chunk]
  /\ \A c \in Conns :
       /\ nextOut[c] <= nextIn[c]
       /\ pending[c] \cup ready[c] = nextOut[c] .. (nextIn[c] - 1)
       /\ pending[c] \cap ready[c] = {}
  /\ task \in [Conns -> [Chunk -> {"none", "created", "running"} \cup Outcomes]]
  /\ cache \in [Conns -> [Chunk -> {"none", "received", "transcribed"}]]
  /\ unclear \subseteq Conns

(* However the chunks finish, their payloads leave in the order the audio  *)
(* came in, each once, and none is overtaken: what is missing before the   *)
(* last one sent had nothing to say (_flush).                              *)
InOrder ==
  \A c \in Conns :
    LET sent == delivered[c] IN
    /\ \A k \in 1 .. Len(sent) - 1 : sent[k] < sent[k + 1]
    /\ \A k \in 1 .. Len(sent) : \A i \in 0 .. sent[k] :
         task[c][i] = "empty" \/ \E j \in 1 .. k : sent[j] = i

(* The handler never reads on while max_inflight_chunks tasks run.         *)
InflightBound ==
  \A c \in Conns :
    /\ Cardinality(pending[c]) <= MaxInflight
    /\ phase[c] = "receive" => Cardinality(pending[c]) < MaxInflight

(* A client that stays connected gets the payload of every chunk it sent,  *)
(* those still running when it said stop included.                         *)
NothingLost ==
  \A c \in Conns :
    (phase[c] = "closed" /\ ~shut[c]) =>
      \A i \in 0 .. nextIn[c] - 1 :
        task[c][i] = "empty" \/ \E k \in DOMAIN delivered[c] : delivered[c][k] = i

(* docs/services/python.md:47: chunk state is cleared when the websocket   *)
(* session ends, and nothing writes it again afterwards; Redis failing in  *)
(* that very moment is the exception.                                      *)
CacheCleared ==
  \A c \in Conns \ unclear : phase[c] = "closed" => \A i \in Chunk : cache[c][i] = "none"

(* The stop of a client, or its going away, ends the session.              *)
SessionEnds ==
  \A c \in Conns :
    (phase[c] \in Serving /\ shut[c]) \/ phase[c] = "drain" ~> phase[c] = "closed"

(* Every chunk is answered: one that fails, or takes long, does not hold   *)
(* back for ever those behind it.                                          *)
EveryChunkAnswered ==
  \A c \in Conns : \A i \in Chunk : nextIn[c] > i ~> nextOut[c] > i
=============================================================================
