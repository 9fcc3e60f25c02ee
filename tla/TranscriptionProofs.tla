------------------------- MODULE TranscriptionProofs -------------------------
(***************************************************************************)
(* What TLAPS proves of live transcription, for any connections, bounds    *)
(* and failures.                                                           *)
(*                                                                         *)
(* Of the server with any client (Spec): the chunks of a connection are    *)
(* running, waiting for their turn or sent, with none in two places and    *)
(* none missing; no more than max_inflight_chunks run; nothing is left of  *)
(* a session's chunk states when its handler has returned; payloads leave  *)
(* in the order the audio came in, and a client that stays gets them all.  *)
(*                                                                         *)
(* Of the browser's hook with that server (LiveSpec): the segments reach   *)
(* the wire in the order they were recorded, but those that cannot be      *)
(* read; the draft is the speech of one session in its order, the          *)
(* microphone is open for no session that is over; and the server keeps    *)
(* its promises under the hook.                                            *)
(***************************************************************************)
EXTENDS LiveTranscription, ListProofs, FiniteSetTheorems,
        WellFoundedInduction, TLAPS

(* The places of the audio frames of a queue.                              *)
Audio(q) == {k \in DOMAIN q : q[k] = "audio"}

(* The chunks that came in and those on the wire keep the model's bound.   *)
RoomForUploads == \A c \in Conns : nextIn[c] + Uploading(c) <= MaxChunks

(* Before authentication there are no chunks.                              *)
IdleBefore ==
  \A c \in Conns : phase[c] \in {"none", "auth"} =>
    nextIn[c] = 0 /\ \A i \in Chunk : task[c][i] = "none" /\ cache[c][i] = "none"

(* Every task at work is one the handler waits for.                        *)
TasksAwaited ==
  \A c \in Conns : \A i \in Chunk :
    task[c][i] \in {"created", "running"} => i \in pending[c]

(* InflightBound for every place the handler may read on from.             *)
RoomToRead ==
  \A c \in Conns :
    /\ Cardinality(pending[c]) <= MaxInflight
    /\ phase[c] \in {"none", "auth", "collect", "receive"} =>
         Cardinality(pending[c]) < MaxInflight

(* A handler that has returned has drained its tasks.                      *)
Drained == \A c \in Conns : phase[c] = "closed" => pending[c] = {}

(* The inductive invariant: CacheCleared needs that no task is at work     *)
(* once the handler has returned, and so that every task is awaited.       *)
WsInv ==
  /\ TypeOK
  /\ RoomForUploads
  /\ IdleBefore
  /\ TasksAwaited
  /\ RoomToRead
  /\ Drained
  /\ CacheCleared

-----------------------------------------------------------------------------
(* A queue has finitely many audio frames.                                 *)
LEMMA AudioFinite ==
  ASSUME NEW q \in Seq(Frames)
  PROVE  IsFiniteSet(Audio(q)) /\ Cardinality(Audio(q)) \in Nat
<1>1. Audio(q) \in SUBSET (1 .. Len(q))
  BY DEF Audio
<1>2. IsFiniteSet(1 .. Len(q))
  BY FS_Interval
<1>3. QED
  BY <1>1, <1>2, FS_Subset, FS_CardinalityType

(* A frame that is appended counts if it is audio.                         *)
LEMMA AudioAppend ==
  ASSUME NEW q \in Seq(Frames), NEW f \in Frames
  PROVE  /\ Append(q, f) \in Seq(Frames)
         /\ Cardinality(Audio(Append(q, f))) =
              IF f = "audio" THEN Cardinality(Audio(q)) + 1
                             ELSE Cardinality(Audio(q))
<1>1. CASE f = "audio"
  <2>1. Audio(Append(q, f)) = Audio(q) \cup {Len(q) + 1}
    BY <1>1 DEF Audio
  <2>2. Len(q) + 1 \notin Audio(q)
    BY DEF Audio
  <2>3. QED
    BY <1>1, <2>1, <2>2, AudioFinite, FS_AddElement
<1>2. CASE f # "audio"
  <2>1. Audio(Append(q, f)) = Audio(q)
    BY <1>2 DEF Audio
  <2>2. QED
    BY <1>2, <2>1
<1>3. QED
  BY <1>1, <1>2

(* The frame that is read no longer counts.                                *)
LEMMA AudioTail ==
  ASSUME NEW q \in Seq(Frames), q # <<>>
  PROVE  /\ Tail(q) \in Seq(Frames)
         /\ Head(q) \in Frames
         /\ Cardinality(Audio(q)) =
              IF Head(q) = "audio" THEN Cardinality(Audio(Tail(q))) + 1
                                   ELSE Cardinality(Audio(Tail(q)))
<1>0. Tail(q) \in Seq(Frames) /\ Head(q) \in Frames
  OBVIOUS
<1> DEFINE rest == Audio(q) \ {1}
           shift == [k \in Audio(Tail(q)) |-> k + 1]
<1>1. shift \in Bijection(Audio(Tail(q)), rest)
  <2>1. \A k \in Audio(Tail(q)) : k + 1 \in rest
    BY DEF Audio
  <2>2. ASSUME NEW k \in rest
        PROVE  k - 1 \in Audio(Tail(q)) /\ shift[k - 1] = k
    <3>1. k - 1 \in 1 .. Len(Tail(q)) /\ k = (k - 1) + 1
      BY DEF Audio
    <3>2. k - 1 \in Audio(Tail(q))
      BY <3>1 DEF Audio
    <3>3. QED
      BY <3>1, <3>2
  <2>3. \A j, k \in Audio(Tail(q)) : shift[j] = shift[k] => j = k
    BY DEF Audio
  <2>4. shift \in [Audio(Tail(q)) -> rest]
    BY <2>1
  <2>5. QED
    BY <2>2, <2>3, <2>4 DEF Bijection, Injection, Surjection, IsInjective
<1>2. Cardinality(rest) = Cardinality(Audio(Tail(q)))
  BY <1>0, <1>1, AudioFinite, FS_Bijection DEF ExistsBijection
<1>3. Cardinality(rest) = IF 1 \in Audio(q) THEN Cardinality(Audio(q)) - 1
                                           ELSE Cardinality(Audio(q))
  BY AudioFinite, FS_RemoveElement
<1>4. 1 \in Audio(q) <=> Head(q) = "audio"
  BY DEF Audio
<1>5. QED
  BY <1>0, <1>2, <1>3, <1>4, AudioFinite

(* The next payload to send: below it all are there, and it is not.        *)
LEMMA FirstGapIs ==
  ASSUME NEW n \in Nat, NEW k \in n .. MaxChunks, NEW S \in SUBSET (n .. (k - 1))
  PROVE  /\ FirstGap(n, S) \in n .. k
         /\ n .. (FirstGap(n, S) - 1) \subseteq S
         /\ FirstGap(n, S) \notin S
<1> DEFINE open == {m \in n .. MaxChunks : m \notin S}
<1>0. MaxChunks \in Nat
  BY TranscriptionAssumption
<1>1. k \in open /\ open \subseteq Nat
  BY <1>0
<1>2. PICK m \in open : \A j \in open : ~ (<<j, m>> \in OpToRel(<, Nat))
  BY <1>1, NatLessThanWellFounded, WFMin, Zenon
<1>3. \A j \in open : ~ (j < m)
  BY <1>1, <1>2 DEF OpToRel
<1>4. m \in n .. MaxChunks /\ m \notin S /\ n .. (m - 1) \subseteq S
  BY <1>0, <1>3
<1>5. /\ FirstGap(n, S) \in n .. MaxChunks
      /\ n .. (FirstGap(n, S) - 1) \subseteq S
      /\ FirstGap(n, S) \notin S
  BY <1>4 DEF FirstGap
<1>6. FirstGap(n, S) <= k
  <2>1. SUFFICES ASSUME FirstGap(n, S) > k PROVE FALSE
    BY <1>0, <1>5
  <2>2. k \in n .. (FirstGap(n, S) - 1)
    BY <1>0, <1>5, <2>1
  <2>3. QED
    BY <1>0, <1>5, <2>2
<1>7. QED
  BY <1>0, <1>5, <1>6

-----------------------------------------------------------------------------
(* The initial state satisfies the invariant.                              *)
LEMMA WsInit == Init => WsInv
<1> SUFFICES ASSUME Init PROVE WsInv
  OBVIOUS
<1> USE TranscriptionAssumption
<1>1. \A c \in Conns : pending[c] = {} /\ ready[c] = {} /\ up[c] = <<>>
  BY DEF Init
<1>2. \A c \in Conns : 0 .. (nextIn[c] - 1) = {}
  BY DEF Init
<1>3. TypeOK
  <2>1. /\ phase \in [Conns -> {"none", "auth", "closed"} \cup Serving]
        /\ up \in [Conns -> Seq(Frames)]
        /\ shut \in [Conns -> BOOLEAN] /\ disconnected \in [Conns -> BOOLEAN]
    BY DEF Init
  <2>2. /\ nextIn \in [Conns -> 0 .. MaxChunks]
        /\ nextOut \in [Conns -> 0 .. MaxChunks]
        /\ \A c \in Conns : nextOut[c] <= nextIn[c]
    BY DEF Init
  <2>3. pending \in [Conns -> SUBSET Chunk] /\ ready \in [Conns -> SUBSET Chunk]
    BY DEF Init
  <2>4. /\ task \in [Conns -> [Chunk -> {"none", "created", "running"} \cup Outcomes]]
        /\ cache \in [Conns -> [Chunk -> {"none", "received", "transcribed"}]]
        /\ unclear \subseteq Conns
    BY DEF Init
  <2>5. \A c \in Conns : /\ pending[c] \cup ready[c] = nextOut[c] .. (nextIn[c] - 1)
                         /\ pending[c] \cap ready[c] = {}
    BY <1>1 DEF Init
  <2>6. QED
    BY <2>1, <2>2, <2>3, <2>4, <2>5 DEF TypeOK
<1>4. RoomForUploads
  <2>1. \A c \in Conns : {k \in DOMAIN up[c] : up[c][k] = "audio"} = {}
    BY <1>1
  <2>2. QED
    BY <2>1, FS_EmptySet DEF RoomForUploads, Uploading, Init
<1>5. RoomToRead
  <2>1. \A c \in Conns : Cardinality(pending[c]) = 0
    BY <1>1, FS_EmptySet
  <2>2. 0 < MaxInflight
    OBVIOUS
  <2>3. QED
    BY <2>1, <2>2 DEF RoomToRead
<1>6. \A c \in Conns : /\ phase[c] = "none" /\ nextIn[c] = 0
                        /\ \A i \in Chunk : task[c][i] = "none" /\ cache[c][i] = "none"
  BY DEF Init
<1>7. IdleBefore /\ TasksAwaited /\ Drained /\ CacheCleared
  BY <1>6 DEF IdleBefore, TasksAwaited, Drained, CacheCleared
<1>8. QED
  BY <1>3, <1>4, <1>5, <1>7 DEF WsInv

-----------------------------------------------------------------------------
(* Before authentication nothing is running or cached.                     *)
LEMMA IdleIsEmpty ==
  ASSUME WsInv, NEW c \in Conns, phase[c] \in {"none", "auth"}
  PROVE  pending[c] = {} /\ \A i \in Chunk : cache[c][i] = "none"
<1>1. nextIn[c] = 0 /\ pending[c] \subseteq nextOut[c] .. (nextIn[c] - 1)
  BY DEF WsInv, IdleBefore, TypeOK
<1>2. nextOut[c] \in Nat
  BY TranscriptionAssumption DEF WsInv, TypeOK
<1>3. nextOut[c] .. (nextIn[c] - 1) = {}
  BY <1>1, <1>2
<1>4. QED
  BY <1>1, <1>3 DEF WsInv, IdleBefore

(* A step that moves the handler and leaves the chunks alone keeps the     *)
(* invariant if the handler goes where it may.                             *)
LEMMA MoveInv ==
  ASSUME WsInv, NEW c \in Conns, NEW place,
         phase' = [phase EXCEPT ![c] = place],
         \/ phase[c] = "none" /\ place = "auth"
         \/ phase[c] = "auth" /\ place \in {"collect", "closed"}
         \/ phase[c] = "receive" /\ place \in {"collect", "drain"},
         up' \in [Conns -> Seq(Frames)],
         \A d \in Conns : Cardinality(Audio(up'[d])) <= Cardinality(Audio(up[d])),
         shut' \in [Conns -> BOOLEAN], disconnected' \in [Conns -> BOOLEAN],
         UNCHANGED <<nextIn, nextOut, pending, ready, task, cache, unclear>>
  PROVE  WsInv'
<1>1. TypeOK'
  BY DEF WsInv, TypeOK, Serving
<1>2. RoomForUploads'
  <2>1. ASSUME NEW d \in Conns PROVE nextIn'[d] + Uploading(d)' <= MaxChunks
    <3>0. up[d] \in Seq(Frames) /\ up'[d] \in Seq(Frames)
      BY DEF WsInv, TypeOK
    <3>1. /\ nextIn[d] \in Nat /\ MaxChunks \in Nat
          /\ Cardinality(Audio(up[d])) \in Nat
          /\ Cardinality(Audio(up'[d])) \in Nat
      BY <3>0, AudioFinite, TranscriptionAssumption DEF WsInv, TypeOK
    <3>2. /\ Uploading(d) = Cardinality(Audio(up[d]))
          /\ Uploading(d)' = Cardinality(Audio(up'[d]))
      BY DEF Uploading, Audio
    <3>3. nextIn[d] + Uploading(d) <= MaxChunks
      BY DEF WsInv, RoomForUploads
    <3>4. Cardinality(Audio(up'[d])) <= Cardinality(Audio(up[d]))
      OBVIOUS
    <3>5. QED
      BY <3>1, <3>2, <3>3, <3>4
  <2>2. QED
    BY <2>1 DEF RoomForUploads
<1>3. IdleBefore'
  BY DEF WsInv, IdleBefore, TypeOK
<1>4. TasksAwaited'
  BY DEF WsInv, TasksAwaited
<1>5. RoomToRead'
  BY DEF WsInv, RoomToRead, TypeOK
<1>6. Drained'
  BY IdleIsEmpty DEF WsInv, Drained, TypeOK
<1>7. CacheCleared'
  BY IdleIsEmpty DEF WsInv, CacheCleared, TypeOK
<1>8. QED
  BY <1>1, <1>2, <1>3, <1>4, <1>5, <1>6, <1>7 DEF WsInv

(* Reading a frame makes the queue no fuller.                              *)
LEMMA ReadFrame ==
  ASSUME WsInv, NEW c \in Conns, up[c] # <<>>,
         up' = [up EXCEPT ![c] = Tail(@)]
  PROVE  /\ up' \in [Conns -> Seq(Frames)]
         /\ \A d \in Conns : Cardinality(Audio(up'[d])) <= Cardinality(Audio(up[d]))
<1>1. up \in [Conns -> Seq(Frames)]
  BY DEF WsInv, TypeOK
<1>2. up' \in [Conns -> Seq(Frames)]
  BY <1>1
<1>3. ASSUME NEW d \in Conns
      PROVE  Cardinality(Audio(up'[d])) <= Cardinality(Audio(up[d]))
  <2>1. /\ Cardinality(Audio(up[d])) \in Nat
        /\ Cardinality(Audio(up'[d])) \in Nat
    BY <1>1, <1>2, AudioFinite
  <2>2. CASE d = c
    <3>1. up'[d] = Tail(up[d]) /\ up[d] \in Seq(Frames) /\ up[d] # <<>>
      BY <1>1, <2>2
    <3>2. QED
      BY <2>1, <3>1, AudioTail
  <2>3. CASE d # c
    BY <1>1, <2>1, <2>3
  <2>4. QED
    BY <2>2, <2>3
<1>4. QED
  BY <1>2, <1>3

(* Sending leaves the types of the handler's flags alone.                  *)
LEMMA SendType ==
  ASSUME WsInv, NEW c \in Conns, NEW messages, Send(c, messages)
  PROVE  disconnected' \in [Conns -> BOOLEAN]
  BY DEF WsInv, TypeOK, Send

(* The handler's steps that only move it.                                  *)
LEMMA QuietStepInv ==
  ASSUME WsInv, NEW c \in Conns,
         \/ Accept(c) \/ AuthAccept(c) \/ AuthReject(c) \/ PollTimeout(c)
         \/ ReceiveStart(c) \/ ReceiveStop(c) \/ ReceiveBad(c) \/ ReceiveValue(c)
         \/ ReceiveIgnored(c) \/ ReceiveDisconnect(c)
  PROVE  WsInv'
<1>1. /\ up \in [Conns -> Seq(Frames)] /\ shut \in [Conns -> BOOLEAN]
      /\ disconnected \in [Conns -> BOOLEAN]
      /\ \A d \in Conns : Cardinality(Audio(up[d])) \in Nat
  BY AudioFinite DEF WsInv, TypeOK
<1>2. CASE Accept(c) \/ PollTimeout(c)
  <2>1. UNCHANGED <<up, shut, disconnected, nextIn, nextOut, pending, ready,
                    task, cache, unclear>>
    BY <1>2 DEF Accept, PollTimeout, wireVars, chunkVars
  <2>2. PICK place : /\ phase' = [phase EXCEPT ![c] = place]
                     /\ \/ phase[c] = "none" /\ place = "auth"
                        \/ phase[c] = "receive" /\ place \in {"collect", "drain"}
    BY <1>2 DEF Accept, PollTimeout, Goto
  <2>3. \A d \in Conns : Cardinality(Audio(up'[d])) <= Cardinality(Audio(up[d]))
    BY <1>1, <2>1
  <2>4. QED
    BY <1>1, <2>1, <2>2, <2>3, MoveInv
<1>3. CASE AuthReject(c)
  <2>1. /\ phase[c] = "auth" /\ phase' = [phase EXCEPT ![c] = "closed"]
        /\ up' = [up EXCEPT ![c] = <<>>]
        /\ UNCHANGED <<shut, disconnected, nextIn, nextOut, pending, ready,
                       task, cache, unclear>>
    BY <1>3 DEF AuthReject, Goto, chunkVars
  <2>2. up' \in [Conns -> Seq(Frames)]
    BY <1>1, <2>1
  <2>3. ASSUME NEW d \in Conns
        PROVE  Cardinality(Audio(up'[d])) <= Cardinality(Audio(up[d]))
    <3>1. CASE d = c
      <4>1. Audio(up'[d]) = {}
        BY <1>1, <2>1, <3>1 DEF Audio
      <4>2. QED
        BY <1>1, <4>1, FS_EmptySet
    <3>2. CASE d # c
      BY <1>1, <2>1, <3>2
    <3>3. QED
      BY <3>1, <3>2
  <2>4. QED
    BY <1>1, <2>1, <2>2, <2>3, MoveInv
<1>4. CASE \/ AuthAccept(c) \/ ReceiveStart(c) \/ ReceiveStop(c) \/ ReceiveBad(c) \/ ReceiveValue(c)
           \/ ReceiveIgnored(c) \/ ReceiveDisconnect(c)
  <2>1. /\ up[c] # <<>> /\ up' = [up EXCEPT ![c] = Tail(@)]
        /\ UNCHANGED <<shut, nextIn, nextOut, pending, ready, task, cache, unclear>>
    BY <1>4 DEF AuthAccept, ReceiveStart, ReceiveStop, ReceiveBad, ReceiveValue, ReceiveIgnored,
                ReceiveDisconnect, Receive, First, chunkVars
  <2>2. disconnected' \in [Conns -> BOOLEAN]
    BY <1>1, <1>4, SendType
    DEF AuthAccept, ReceiveStart, ReceiveStop, ReceiveBad, ReceiveValue, ReceiveIgnored,
        ReceiveDisconnect
  <2>3. PICK place : /\ phase' = [phase EXCEPT ![c] = place]
                     /\ \/ phase[c] = "auth" /\ place \in {"collect", "closed"}
                        \/ phase[c] = "receive" /\ place \in {"collect", "drain"}
    BY <1>4 DEF AuthAccept, ReceiveStart, ReceiveStop, ReceiveBad, ReceiveValue, ReceiveIgnored,
                ReceiveDisconnect, Receive, Goto
  <2>4. /\ up' \in [Conns -> Seq(Frames)]
        /\ \A d \in Conns : Cardinality(Audio(up'[d])) <= Cardinality(Audio(up[d]))
    BY <2>1, ReadFrame
  <2>5. QED
    BY <1>1, <2>1, <2>2, <2>3, <2>4, MoveInv
<1>5. QED
  BY <1>2, <1>3, <1>4

-----------------------------------------------------------------------------
(* What waits of a connection's chunks is finite.                          *)
LEMMA PendingFinite ==
  ASSUME WsInv, NEW c \in Conns
  PROVE  IsFiniteSet(pending[c]) /\ Cardinality(pending[c]) \in Nat
<1>1. IsFiniteSet(Chunk)
  BY FS_Interval, TranscriptionAssumption DEF Chunk
<1>2. pending[c] \in SUBSET Chunk
  BY DEF WsInv, TypeOK
<1>3. QED
  BY <1>1, <1>2, FS_Subset, FS_CardinalityType

(* _collect keeps the chunks accounted: what is done becomes ready, what   *)
(* is ready and in turn is sent.                                           *)
LEMMA CollectAccounts ==
  ASSUME WsInv, NEW c \in Conns, Collect(c)
  PROVE  /\ pending' \in [Conns -> SUBSET Chunk]
         /\ ready' \in [Conns -> SUBSET Chunk]
         /\ nextOut' \in [Conns -> 0 .. MaxChunks]
         /\ \A d \in Conns :
              /\ nextOut'[d] <= nextIn[d]
              /\ pending'[d] \cup ready'[d] = nextOut'[d] .. (nextIn[d] - 1)
              /\ pending'[d] \cap ready'[d] = {}
<1> DEFINE all == ready[c] \cup Done(c)
           n == nextOut[c]
           k == nextIn[c]
           m == FirstGap(n, all)
<1>0. MaxChunks \in Nat
  BY TranscriptionAssumption
<1>1. /\ n \in Nat /\ k \in n .. MaxChunks /\ all \in SUBSET (n .. (k - 1))
      /\ pending[c] \cup ready[c] = n .. (k - 1) /\ pending[c] \cap ready[c] = {}
      /\ Done(c) \subseteq pending[c]
  BY <1>0 DEF WsInv, TypeOK, Done
<1>2. m \in n .. k /\ n .. (m - 1) \subseteq all
  BY <1>1, FirstGapIs
<1>3. /\ pending' = [pending EXCEPT ![c] = pending[c] \ Done(c)]
      /\ ready' = [ready EXCEPT ![c] = all \ (n .. (m - 1))]
      /\ nextOut' = [nextOut EXCEPT ![c] = m]
  BY DEF Collect
<1> HIDE DEF m, all
<1>4. (pending[c] \ Done(c)) \cup (all \ (n .. (m - 1))) = m .. (k - 1)
  <2>1. (pending[c] \ Done(c)) \cup all = n .. (k - 1)
    BY <1>1 DEF all
  <2>2. (pending[c] \ Done(c)) \cap all = {}
    BY <1>1 DEF all
  <2>3. (n .. (k - 1)) \ (n .. (m - 1)) = m .. (k - 1)
    BY <1>0, <1>1, <1>2
  <2>4. QED
    BY <1>2, <2>1, <2>2, <2>3
<1>5. (pending[c] \ Done(c)) \cap (all \ (n .. (m - 1))) = {}
  BY <1>1 DEF all
<1>6. /\ pending[c] \ Done(c) \subseteq Chunk /\ all \subseteq Chunk
      /\ m \in 0 .. MaxChunks /\ m <= k
  BY <1>0, <1>1, <1>2 DEF Chunk
<1>7. /\ pending' \in [Conns -> SUBSET Chunk]
      /\ ready' \in [Conns -> SUBSET Chunk]
      /\ nextOut' \in [Conns -> 0 .. MaxChunks]
  BY <1>3, <1>6 DEF WsInv, TypeOK
<1>8. ASSUME NEW d \in Conns
      PROVE  /\ nextOut'[d] <= nextIn[d]
             /\ pending'[d] \cup ready'[d] = nextOut'[d] .. (nextIn[d] - 1)
             /\ pending'[d] \cap ready'[d] = {}
  <2>1. CASE d = c
    <3>1. /\ pending'[d] = pending[c] \ Done(c) /\ nextOut'[d] = m
          /\ ready'[d] = all \ (n .. (m - 1))
      BY <1>3, <2>1 DEF WsInv, TypeOK
    <3>2. QED
      BY <2>1, <3>1, <1>4, <1>5, <1>6
  <2>2. CASE d # c
    <3>1. /\ pending'[d] = pending[d] /\ nextOut'[d] = nextOut[d]
          /\ ready'[d] = ready[d]
      BY <1>3, <2>2 DEF WsInv, TypeOK
    <3>2. QED
      BY <3>1 DEF WsInv, TypeOK
  <2>3. QED
    BY <2>1, <2>2
<1>9. QED
  BY <1>7, <1>8

(* Collecting keeps the invariant.  Where the window is full, collecting   *)
(* makes room before the handler reads on.                                 *)
LEMMA CollectInv ==
  ASSUME WsInv, NEW c \in Conns, CollectDone(c) \/ CollectOne(c)
  PROVE  WsInv'
<1>1. /\ Collect(c)
      /\ UNCHANGED <<up, shut, nextIn, task, cache, unclear>>
  BY DEF CollectDone, CollectOne, Collect, chunkVars
<1>2. /\ pending' = [pending EXCEPT ![c] = pending[c] \ Done(c)]
      /\ disconnected' \in [Conns -> BOOLEAN]
  BY <1>1, SendType DEF Collect
<1>3. PICK place :
        /\ phase' = [phase EXCEPT ![c] = place]
        /\ \/ phase[c] = "collect" /\ place = "receive"
           \/ phase[c] = "full" /\ place = "collect" /\ Done(c) # {}
           \/ phase[c] = "drain" /\ place = "drain"
  <2>1. CASE CollectDone(c)
    BY <2>1 DEF CollectDone, Goto
  <2>2. CASE CollectOne(c) /\ phase[c] = "full"
    BY <2>2 DEF CollectOne, Goto
  <2>3. CASE CollectOne(c) /\ phase[c] # "full"
    BY <2>3 DEF CollectOne, WsInv, TypeOK
  <2>4. QED
    BY <2>1, <2>2, <2>3
<1>4. TypeOK'
  <2>1. phase' \in [Conns -> {"none", "auth", "closed"} \cup Serving]
    BY <1>3 DEF WsInv, TypeOK, Serving
  <2>2. QED
    BY <1>1, <1>2, <2>1, CollectAccounts DEF WsInv, TypeOK
<1>5. RoomForUploads'
  BY <1>1 DEF WsInv, RoomForUploads, Uploading
<1>6. IdleBefore'
  BY <1>1, <1>3 DEF WsInv, IdleBefore, TypeOK
<1>7. TasksAwaited'
  <2>1. ASSUME NEW d \in Conns, NEW i \in Chunk, task[d][i] \in {"created", "running"}
        PROVE  i \in pending'[d]
    <3>1. i \in pending[d]
      BY <2>1 DEF WsInv, TasksAwaited
    <3>2. i \notin Done(d)
      BY <2>1, TranscriptionAssumption DEF Done, Outcomes
    <3>3. QED
      BY <1>2, <3>1, <3>2 DEF WsInv, TypeOK
  <2>2. QED
    BY <1>1, <2>1 DEF TasksAwaited
<1>8. RoomToRead'
  <2>1. ASSUME NEW d \in Conns
        PROVE  /\ Cardinality(pending'[d]) <= MaxInflight
               /\ phase'[d] \in {"none", "auth", "collect", "receive"} =>
                    Cardinality(pending'[d]) < MaxInflight
    <3>1. CASE d # c
      BY <1>2, <1>3, <3>1 DEF WsInv, RoomToRead, TypeOK
    <3>2. CASE d = c
      <4>1. /\ pending'[d] = pending[c] \ Done(c) /\ Done(c) \subseteq pending[c]
            /\ IsFiniteSet(pending[c])
        BY <1>2, <3>2, PendingFinite DEF WsInv, TypeOK, Done
      <4>2. /\ Cardinality(pending'[d]) <= Cardinality(pending[c])
            /\ Cardinality(pending'[d]) \in Nat /\ Cardinality(pending[c]) \in Nat
            /\ Cardinality(pending[c]) = Cardinality(pending'[d]) =>
                 pending[c] = pending'[d]
        BY <4>1, FS_Subset, FS_CardinalityType
      <4>3. phase[c] = "full" => Cardinality(pending'[d]) < Cardinality(pending[c])
        BY <1>3, <4>1, <4>2
      <4>4. /\ MaxInflight \in Nat /\ Cardinality(pending[c]) <= MaxInflight
            /\ phase[c] = "collect" => Cardinality(pending[c]) < MaxInflight
        BY TranscriptionAssumption DEF WsInv, RoomToRead
      <4>5. phase'[d] \in {"none", "auth", "collect", "receive"} =>
              phase[c] \in {"full", "collect"}
        BY <1>3, <3>2 DEF WsInv, TypeOK
      <4>6. QED
        BY <4>2, <4>3, <4>4, <4>5
    <3>3. QED
      BY <3>1, <3>2
  <2>2. QED
    BY <2>1 DEF RoomToRead
<1>9. Drained'
  BY <1>2, <1>3 DEF WsInv, Drained, TypeOK
<1>10. CacheCleared'
  BY <1>1, <1>3 DEF WsInv, CacheCleared, TypeOK
<1>11. QED
  BY <1>4, <1>5, <1>6, <1>7, <1>8, <1>9, <1>10 DEF WsInv

(* A chunk that comes in finds room, and makes the handler wait when it    *)
(* fills the window.                                                       *)
LEMMA AudioInv ==
  ASSUME WsInv, NEW c \in Conns, ReceiveAudio(c)
  PROVE  WsInv'
<1> DEFINE k == nextIn[c]
<1>0. MaxChunks \in Nat /\ MaxInflight \in Nat /\ k \in 0 .. MaxChunks
  BY TranscriptionAssumption DEF WsInv, TypeOK
<1>1. /\ phase[c] = "receive" /\ up[c] # <<>> /\ Head(up[c]) = "audio"
      /\ up' = [up EXCEPT ![c] = Tail(@)]
      /\ nextIn' = [nextIn EXCEPT ![c] = k + 1]
      /\ pending' = [pending EXCEPT ![c] = pending[c] \cup {k}]
      /\ task' = [task EXCEPT ![c][k] = "created"]
      /\ phase' = [phase EXCEPT ![c] =
            IF Cardinality(pending[c]) + 1 >= MaxInflight THEN "full" ELSE "collect"]
      /\ UNCHANGED <<shut, disconnected, nextOut, ready, cache, unclear>>
  BY DEF ReceiveAudio, Receive, First, Goto
<1>2. up[c] \in Seq(Frames) /\ up' \in [Conns -> Seq(Frames)]
  BY <1>1, ReadFrame DEF WsInv, TypeOK
<1>3. /\ Uploading(c) = Uploading(c)' + 1
      /\ Uploading(c)' \in Nat
  <2>1. /\ Uploading(c) = Cardinality(Audio(up[c]))
        /\ Uploading(c)' = Cardinality(Audio(up'[c]))
    BY DEF Uploading, Audio
  <2>2. up'[c] = Tail(up[c])
    BY <1>1 DEF WsInv, TypeOK
  <2>3. QED
    BY <1>1, <1>2, <2>1, <2>2, AudioTail, AudioFinite
<1>4. k \in Chunk
  <2>1. k + Uploading(c) <= MaxChunks
    BY DEF WsInv, RoomForUploads
  <2>2. QED
    BY <1>0, <1>3, <2>1 DEF Chunk
<1>5. /\ k \notin pending[c] /\ k \notin ready[c]
      /\ nextOut[c] \in 0 .. k
      /\ pending[c] \cup ready[c] = nextOut[c] .. (k - 1)
      /\ pending[c] \cap ready[c] = {}
  BY <1>0 DEF WsInv, TypeOK
<1>6. TypeOK'
  <2>1. /\ phase' \in [Conns -> {"none", "auth", "closed"} \cup Serving]
        /\ pending' \in [Conns -> SUBSET Chunk]
        /\ nextIn' \in [Conns -> 0 .. MaxChunks]
        /\ task' \in [Conns -> [Chunk -> {"none", "created", "running"} \cup Outcomes]]
    <3>1. k + 1 \in 0 .. MaxChunks
      BY <1>0, <1>4 DEF Chunk
    <3>2. QED
      BY <1>1, <1>4, <3>1 DEF WsInv, TypeOK, Serving
  <2>2. ASSUME NEW d \in Conns
        PROVE  /\ nextOut'[d] <= nextIn'[d]
               /\ pending'[d] \cup ready'[d] = nextOut'[d] .. (nextIn'[d] - 1)
               /\ pending'[d] \cap ready'[d] = {}
    <3>1. CASE d = c
      <4>1. /\ nextIn'[d] = k + 1 /\ nextOut'[d] = nextOut[c]
            /\ pending'[d] = pending[c] \cup {k} /\ ready'[d] = ready[c]
        BY <1>1, <3>1 DEF WsInv, TypeOK
      <4>2. (nextOut[c] .. (k - 1)) \cup {k} = nextOut[c] .. k /\ (k + 1) - 1 = k
        BY <1>0, <1>5
      <4>3. QED
        BY <1>0, <1>5, <4>1, <4>2
    <3>2. CASE d # c
      BY <1>1, <3>2 DEF WsInv, TypeOK
    <3>3. QED
      BY <3>1, <3>2
  <2>3. QED
    BY <1>1, <1>2, <2>1, <2>2 DEF WsInv, TypeOK
<1>7. RoomForUploads'
  <2>1. ASSUME NEW d \in Conns PROVE nextIn'[d] + Uploading(d)' <= MaxChunks
    <3>1. CASE d = c
      <4>1. k + Uploading(c) <= MaxChunks
        BY DEF WsInv, RoomForUploads
      <4>2. nextIn'[d] = k + 1
        BY <1>1, <3>1 DEF WsInv, TypeOK
      <4>3. QED
        BY <1>0, <1>3, <3>1, <4>1, <4>2
    <3>2. CASE d # c
      <4>1. nextIn'[d] = nextIn[d] /\ up'[d] = up[d]
        BY <1>1, <3>2 DEF WsInv, TypeOK
      <4>2. nextIn[d] + Uploading(d) <= MaxChunks
        BY DEF WsInv, RoomForUploads
      <4>3. QED
        BY <4>1, <4>2 DEF Uploading
    <3>3. QED
      BY <3>1, <3>2
  <2>2. QED
    BY <2>1 DEF RoomForUploads
<1>8. IdleBefore'
  <2>1. ASSUME NEW d \in Conns, phase'[d] \in {"none", "auth"}
        PROVE  d # c /\ phase[d] \in {"none", "auth"}
    BY <1>1, <2>1 DEF WsInv, TypeOK
  <2>2. ASSUME NEW d \in Conns, d # c
        PROVE  nextIn'[d] = nextIn[d] /\ task'[d] = task[d] /\ cache'[d] = cache[d]
    BY <1>1, <2>2 DEF WsInv, TypeOK
  <2>3. QED
    BY <2>1, <2>2 DEF WsInv, IdleBefore
<1>9. TasksAwaited'
  BY <1>1, <1>4 DEF WsInv, TasksAwaited, TypeOK
<1>10. RoomToRead'
  <2>1. ASSUME NEW d \in Conns
        PROVE  /\ Cardinality(pending'[d]) <= MaxInflight
               /\ phase'[d] \in {"none", "auth", "collect", "receive"} =>
                    Cardinality(pending'[d]) < MaxInflight
    <3>1. CASE d # c
      BY <1>1, <3>1 DEF WsInv, RoomToRead, TypeOK
    <3>2. CASE d = c
      <4>1. pending'[d] = pending[c] \cup {k}
        BY <1>1, <3>2 DEF WsInv, TypeOK
      <4>2. Cardinality(pending'[d]) = Cardinality(pending[c]) + 1
        BY <1>5, <4>1, PendingFinite, FS_AddElement
      <4>3. Cardinality(pending[c]) \in Nat /\ Cardinality(pending[c]) < MaxInflight
        BY <1>1, PendingFinite DEF WsInv, RoomToRead
      <4>4. phase'[d] = IF Cardinality(pending[c]) + 1 >= MaxInflight
                        THEN "full" ELSE "collect"
        BY <1>1, <3>2 DEF WsInv, TypeOK
      <4>5. QED
        BY <1>0, <4>2, <4>3, <4>4
    <3>3. QED
      BY <3>1, <3>2
  <2>2. QED
    BY <2>1 DEF RoomToRead
<1>11. Drained'
  BY <1>1 DEF WsInv, Drained, TypeOK
<1>12. CacheCleared'
  BY <1>1 DEF WsInv, CacheCleared, TypeOK
<1>13. QED
  BY <1>6, <1>7, <1>8, <1>9, <1>10, <1>11, <1>12 DEF WsInv

(* One entry of a table by connection and chunk is replaced.               *)
LEMMA PutEntry ==
  ASSUME NEW S, NEW f \in [Conns -> [Chunk -> S]], NEW c \in Conns, NEW i \in Chunk,
         NEW s \in S, NEW g, g = [f EXCEPT ![c][i] = s]
  PROVE  /\ g \in [Conns -> [Chunk -> S]]
         /\ \A d \in Conns : \A j \in Chunk :
              g[d][j] = IF d = c /\ j = i THEN s ELSE f[d][j]
  OBVIOUS

(* close_session comes after the last task and clears the chunk states,    *)
(* or raises.                                                              *)
LEMMA CloseInv ==
  ASSUME WsInv, NEW c \in Conns, CloseSession(c)
  PROVE  WsInv'
<1>1. /\ phase[c] = "drain" /\ pending[c] = {}
      /\ phase' = [phase EXCEPT ![c] = "closed"]
      /\ \/ /\ cache' = [cache EXCEPT ![c] = [i \in Chunk |-> "none"]]
            /\ UNCHANGED unclear
         \/ unclear' = unclear \cup {c} /\ UNCHANGED cache
      /\ UNCHANGED <<up, shut, disconnected, nextIn, nextOut, pending, ready, task>>
  BY DEF CloseSession, Goto
<1>2. TypeOK'
  <2>1. /\ phase' \in [Conns -> {"none", "auth", "closed"} \cup Serving]
        /\ cache' \in [Conns -> [Chunk -> {"none", "received", "transcribed"}]]
        /\ unclear' \subseteq Conns
    <3>1. [i \in Chunk |-> "none"] \in [Chunk -> {"none", "received", "transcribed"}]
      OBVIOUS
    <3>2. cache' \in [Conns -> [Chunk -> {"none", "received", "transcribed"}]]
      BY <1>1, <3>1 DEF WsInv, TypeOK
    <3>3. QED
      BY <1>1, <3>2 DEF WsInv, TypeOK
  <2>2. QED
    BY <1>1, <2>1 DEF WsInv, TypeOK
<1>3. RoomForUploads'
  BY <1>1 DEF WsInv, RoomForUploads, Uploading
<1>4. IdleBefore'
  BY <1>1 DEF WsInv, IdleBefore, TypeOK
<1>5. TasksAwaited' /\ RoomToRead' /\ Drained'
  BY <1>1 DEF WsInv, TasksAwaited, RoomToRead, Drained, TypeOK
<1>6. CacheCleared'
  BY <1>1 DEF WsInv, CacheCleared, TypeOK
<1>7. QED
  BY <1>2, <1>3, <1>4, <1>5, <1>6 DEF WsInv

(* A task's step, and the expiry of a chunk's state.  A handler that has   *)
(* returned has no task left, so nothing writes its session's cache again. *)
LEMMA TaskInv ==
  ASSUME WsInv, NEW c \in Conns, NEW i \in Chunk,
         TaskStart(c, i) \/ TaskEnd(c, i) \/ Expire(c, i)
  PROVE  WsInv'
<1>1. UNCHANGED <<phase, up, shut, disconnected, nextIn, nextOut, pending, ready, unclear>>
  BY DEF TaskStart, TaskEnd, Expire, handlerVars, wireVars
<1>2. \/ /\ task[c][i] \in {"created", "running"}
         /\ \E t \in {"running"} \cup Outcomes : task' = [task EXCEPT ![c][i] = t]
         /\ \/ UNCHANGED cache
            \/ \E s \in {"received", "transcribed"} : cache' = [cache EXCEPT ![c][i] = s]
      \/ UNCHANGED task /\ cache' = [cache EXCEPT ![c][i] = "none"] /\ cache[c][i] # "none"
  BY DEF TaskStart, TaskEnd, Expire, EndTask, Stage, Outcomes
<1>0. /\ task \in [Conns -> [Chunk -> {"none", "created", "running"} \cup Outcomes]]
      /\ cache \in [Conns -> [Chunk -> {"none", "received", "transcribed"}]]
  BY DEF WsInv, TypeOK
<1>3. TypeOK'
  <2>1. /\ task' \in [Conns -> [Chunk -> {"none", "created", "running"} \cup Outcomes]]
        /\ cache' \in [Conns -> [Chunk -> {"none", "received", "transcribed"}]]
    <3>1. task' = task \/ \E t \in {"none", "created", "running"} \cup Outcomes :
                            task' = [task EXCEPT ![c][i] = t]
      BY <1>2
    <3>2. cache' = cache \/ \E s \in {"none", "received", "transcribed"} :
                              cache' = [cache EXCEPT ![c][i] = s]
      BY <1>2
    <3>3. task' \in [Conns -> [Chunk -> {"none", "created", "running"} \cup Outcomes]]
      <4>1. CASE task' = task
        BY <1>0, <4>1
      <4>2. CASE task' # task
        <5>1. PICK t \in {"none", "created", "running"} \cup Outcomes :
                task' = [task EXCEPT ![c][i] = t]
          BY <3>1, <4>2
        <5>2. QED
          BY <1>0, <5>1
      <4>3. QED
        BY <4>1, <4>2
    <3>4. cache' \in [Conns -> [Chunk -> {"none", "received", "transcribed"}]]
      <4>1. CASE cache' = cache
        BY <1>0, <4>1
      <4>2. CASE cache' # cache
        <5>1. PICK s \in {"none", "received", "transcribed"} :
                cache' = [cache EXCEPT ![c][i] = s]
          BY <3>2, <4>2
        <5>2. QED
          BY <1>0, <5>1
      <4>3. QED
        BY <4>1, <4>2
    <3>5. QED
      BY <3>3, <3>4
  <2>2. QED
    BY <1>1, <2>1 DEF WsInv, TypeOK
<1>4. RoomForUploads'
  BY <1>1 DEF WsInv, RoomForUploads, Uploading
<1>5. IdleBefore'
  <2>1. phase[c] \notin {"none", "auth"}
    BY <1>2 DEF WsInv, IdleBefore
  <2>2. \A d \in Conns : d # c => task'[d] = task[d] /\ cache'[d] = cache[d]
    BY <1>2 DEF WsInv, TypeOK
  <2>3. QED
    BY <1>1, <2>1, <2>2 DEF WsInv, IdleBefore
<1>6. TasksAwaited'
  <2>1. \A d \in Conns, j \in Chunk :
          task'[d][j] \in {"created", "running"} => task[d][j] \in {"created", "running"}
    <3>1. CASE UNCHANGED task
      BY <3>1
    <3>2. CASE /\ task[c][i] \in {"created", "running"}
               /\ \E t \in {"running"} \cup Outcomes : task' = [task EXCEPT ![c][i] = t]
      BY <1>0, <3>2, PutEntry
    <3>3. QED
      BY <1>2, <3>1, <3>2
  <2>2. QED
    BY <1>1, <2>1 DEF WsInv, TasksAwaited
<1>7. RoomToRead' /\ Drained'
  BY <1>1 DEF WsInv, RoomToRead, Drained
<1>8. CacheCleared'
  <2>1. task[c][i] \in {"created", "running"} => phase[c] # "closed"
    BY DEF WsInv, TasksAwaited, Drained
  <2>2. \A d \in Conns, j \in Chunk :
          cache'[d][j] = cache[d][j] \/ cache'[d][j] = "none"
            \/ (d = c /\ phase[c] # "closed")
    BY <1>2, <2>1 DEF WsInv, TypeOK
  <2>3. QED
    BY <1>1, <2>2 DEF WsInv, CacheCleared
<1>9. QED
  BY <1>3, <1>4, <1>5, <1>6, <1>7, <1>8 DEF WsInv

(* The client's frames, within the bound on audio, and its going away.     *)
LEMMA ClientInv ==
  ASSUME WsInv, NEW c \in Conns, ClientSend(c) \/ ClientClose(c)
  PROVE  WsInv'
<1>1. /\ UNCHANGED <<phase, disconnected, nextIn, nextOut, pending, ready, task, cache,
                     unclear>>
      /\ shut' \in [Conns -> BOOLEAN]
  BY DEF ClientSend, ClientClose, handlerVars, chunkVars, WsInv, TypeOK
<1>2. PICK f \in Frames :
        /\ up' = [up EXCEPT ![c] = Append(@, f)]
        /\ f = "audio" => nextIn[c] + Uploading(c) < MaxChunks
  BY DEF ClientSend, ClientClose, Frames
<1>3. up \in [Conns -> Seq(Frames)] /\ up[c] \in Seq(Frames)
  BY DEF WsInv, TypeOK
<1>4. TypeOK'
  <2>1. up' \in [Conns -> Seq(Frames)]
    BY <1>2, <1>3, AudioAppend
  <2>2. QED
    BY <1>1, <2>1 DEF WsInv, TypeOK
<1>5. RoomForUploads'
  <2>1. ASSUME NEW d \in Conns PROVE nextIn'[d] + Uploading(d)' <= MaxChunks
    <3>1. nextIn'[d] = nextIn[d] /\ nextIn[d] \in Nat /\ MaxChunks \in Nat
      BY <1>1, TranscriptionAssumption DEF WsInv, TypeOK
    <3>2. nextIn[d] + Uploading(d) <= MaxChunks
      BY DEF WsInv, RoomForUploads
    <3>3. CASE d = c
      <4>1. up'[d] = Append(up[c], f)
        BY <1>2, <1>3, <3>3
      <4>2. /\ Uploading(d)' = Cardinality(Audio(up'[d]))
            /\ Uploading(d) = Cardinality(Audio(up[c]))
        BY <3>3 DEF Uploading, Audio
      <4>3. Cardinality(Audio(up[c])) \in Nat
        BY <1>3, AudioFinite
      <4>4. Uploading(d)' = IF f = "audio" THEN Uploading(d) + 1 ELSE Uploading(d)
        BY <1>3, <4>1, <4>2, AudioAppend
      <4>5. QED
        BY <1>2, <3>1, <3>2, <3>3, <4>2, <4>3, <4>4
    <3>4. CASE d # c
      <4>1. up'[d] = up[d]
        BY <1>2, <1>3, <3>4
      <4>2. QED
        BY <3>1, <3>2, <4>1 DEF Uploading
    <3>5. QED
      BY <3>3, <3>4
  <2>2. QED
    BY <2>1 DEF RoomForUploads
<1>6. IdleBefore' /\ TasksAwaited' /\ RoomToRead' /\ Drained' /\ CacheCleared'
  BY <1>1 DEF WsInv, IdleBefore, TasksAwaited, RoomToRead, Drained, CacheCleared
<1>7. QED
  BY <1>4, <1>5, <1>6 DEF WsInv

(* Every step of the server and of any client keeps the invariant.         *)
LEMMA WsNext == WsInv /\ [Next]_vars => WsInv'
<1> SUFFICES ASSUME WsInv, [Next]_vars PROVE WsInv'
  OBVIOUS
<1>1. ASSUME NEW c \in Conns, Handler(c) PROVE WsInv'
  BY <1>1, QuietStepInv, CollectInv, AudioInv, CloseInv DEF Handler
<1>2. ASSUME NEW c \in Conns, NEW i \in Chunk, Task(c, i) \/ Expire(c, i) PROVE WsInv'
  BY <1>2, TaskInv DEF Task
<1>3. ASSUME NEW c \in Conns, Accept(c) \/ ClientSend(c) \/ ClientClose(c) PROVE WsInv'
  BY <1>3, QuietStepInv, ClientInv
<1>4. CASE UNCHANGED vars
  BY <1>4 DEF vars, WsInv, TypeOK, RoomForUploads, Uploading, IdleBefore, TasksAwaited,
              RoomToRead, Drained, CacheCleared
<1>5. QED
  BY <1>1, <1>2, <1>3, <1>4 DEF Next, Server, AnyClient

-----------------------------------------------------------------------------
(* The inductive invariant holds in every reachable state.                 *)
THEOREM WsInvariance == Spec => []WsInv
  BY WsInit, WsNext, PTL DEF Spec

(* Types, and the accounting of the chunks: running, ready or sent.        *)
THEOREM WsTypeCorrect == Spec => []TypeOK
  BY WsInvariance, PTL DEF WsInv

(* The handler never reads on while max_inflight_chunks tasks run          *)
(* (websocket.py, the wait after a chunk).                                 *)
THEOREM NeverTooManyInflight == Spec => []InflightBound
<1>1. WsInv => InflightBound
  BY DEF WsInv, RoomToRead, InflightBound
<1>2. QED
  BY <1>1, WsInvariance, PTL

(* Chunk state is cleared when the session ends, and nothing writes it     *)
(* again (close_session).                                                  *)
THEOREM CacheStaysCleared == Spec => []CacheCleared
  BY WsInvariance, PTL DEF WsInv

-----------------------------------------------------------------------------
(* The messages of the server: payloads of chunks, and its own.            *)
Payload == [type : Outcomes \ {"empty"}, chunk : Chunk]
Notice == [type : {"ready", "started", "stopped", "error", "closed"}, chunk : {NoChunk}]
Message == Payload \cup Notice

Rising(s) == \A j, k \in DOMAIN s : j < k => s[j] < s[k]

(* The payload that is next to be sent is not there yet (_flush).          *)
NextWaits == \A c \in Conns : nextOut[c] \notin ready[c]

(* What was sent or waits for its turn is finished.                        *)
FinishedOnly ==
  \A c \in Conns : \A i \in Chunk :
    i < nextOut[c] \/ i \in ready[c] => task[c][i] \in Outcomes

SentInTurn ==
  \A c \in Conns :
    /\ Rising(delivered[c])
    /\ \A k \in DOMAIN delivered[c] : delivered[c][k] < nextOut[c]

NoneOvertaken ==
  \A c \in Conns : \A k \in DOMAIN delivered[c] : \A i \in Chunk :
    i <= delivered[c][k] => task[c][i] = "empty" \/ i \in ToSet(delivered[c])

(* A client that is there has been sent all whose turn it was.             *)
UpToDate ==
  \A c \in Conns : ~shut[c] /\ ~disconnected[c] =>
    \A i \in Chunk : i < nextOut[c] => task[c][i] = "empty" \/ i \in ToSet(delivered[c])

(* Nobody is taken for gone who is there.                                  *)
GoneIsGone ==
  \A c \in Conns :
    disconnected[c] \/ (\E k \in DOMAIN up[c] : up[c][k] = "disconnect") => shut[c]

AllInTurn ==
  \A c \in Conns : phase[c] = "closed" /\ ~shut[c] => nextOut[c] = nextIn[c]

(* The inductive invariant behind InOrder and NothingLost, to which each   *)
(* adds what the handler knows of a client it has not lost yet.            *)
OrderInv ==
  /\ delivered \in [Conns -> Seq(Chunk)]
  /\ down \in [Conns -> Seq(Message)]
  /\ NextWaits /\ FinishedOnly /\ SentInTurn /\ NoneOvertaken
  /\ UpToDate /\ GoneIsGone /\ AllInTurn

(* The chunks of a list of messages.                                       *)
ChunksOf(p) == [k \in DOMAIN p |-> p[k].chunk]

(* The payloads of a run of finished chunks: one each, in their order, but *)
(* for the empty ones.                                                     *)
LEMMA PayloadsAre ==
  ASSUME NEW c \in Conns, NEW n \in Nat, NEW m \in n .. MaxChunks,
         \A i \in n .. (m - 1) : task[c][i] \in Outcomes,
         NEW p, p = Payloads(c, n, m),
         NEW q, q = ChunksOf(p)
  PROVE  /\ p \in Seq(Payload)
         /\ q \in Seq(Chunk) /\ Keeping(q, Chunk) = q
         /\ Rising(q)
         /\ ToSet(q) = {i \in n .. (m - 1) : task[c][i] # "empty"}
<1> DEFINE One(i) == [type |-> task[c][i], chunk |-> i]
           r == [k \in 1 .. (m - n) |-> One(n + k - 1)]
           Item == [type : Outcomes, chunk : Chunk]
           Before == {pair \in Item \X Item : pair[1].chunk < pair[2].chunk}
<1>0. MaxChunks \in Nat /\ m \in Nat /\ m - n \in Nat
  BY TranscriptionAssumption
<1>1. ASSUME NEW k \in 1 .. (m - n)
      PROVE  n + k - 1 \in n .. (m - 1) /\ n + k - 1 \in Chunk
  BY <1>0 DEF Chunk
<1>2. ASSUME NEW i \in n .. (m - 1)
      PROVE  One(i) \in Item
  <2>1. i \in Chunk
    BY <1>0 DEF Chunk
  <2>2. QED
    BY <2>1
<1>3. r \in Seq(Item) /\ DOMAIN r = 1 .. (m - n)
  <2>1. \A k \in 1 .. (m - n) : One(n + k - 1) \in Item
    BY <1>1, <1>2
  <2> HIDE DEF Item, One
  <2>2. QED
    BY <1>0, <2>1
<1>4. Ordered(r, Before)
  <2>1. ASSUME NEW j \in 1 .. (m - n), NEW k \in 1 .. (m - n), j < k
        PROVE  <<r[j], r[k]>> \in Before
    <3>1. /\ r[j] = One(n + j - 1) /\ r[k] = One(n + k - 1)
          /\ One(n + j - 1) \in Item /\ One(n + k - 1) \in Item
      BY <1>1, <1>2
    <3>2. n + j - 1 < n + k - 1
      BY <2>1
    <3>3. One(n + j - 1).chunk = n + j - 1 /\ One(n + k - 1).chunk = n + k - 1
      OBVIOUS
    <3> HIDE DEF One, r, Item
    <3>4. QED
      BY <3>1, <3>2, <3>3
  <2>2. QED
    BY <1>3, <2>1 DEF Ordered
<1>5. ToSet(r) = {One(i) : i \in n .. (m - 1)}
  <2>1. ASSUME NEW i \in n .. (m - 1)
        PROVE  i - n + 1 \in 1 .. (m - n) /\ r[i - n + 1] = One(i)
    <3>1. i - n + 1 \in 1 .. (m - n) /\ n + (i - n + 1) - 1 = i
      BY <1>0
    <3> HIDE DEF One
    <3>2. QED
      BY <3>1
  <2>2. \A k \in 1 .. (m - n) : r[k] = One(n + k - 1)
    OBVIOUS
  <2> HIDE DEF r, One
  <2>3. QED
    BY <1>1, <1>3, <2>1, <2>2 DEF ToSet
<1>6. p = Keeping(r, Payload)
  BY DEF Payloads, Payload
<1> HIDE DEF r
<1>7. Item \cap Payload = Payload
  BY DEF Payload
<1>8. /\ p \in Seq(Payload)
      /\ ToSet(p) = ToSet(r) \cap Payload
      /\ Ordered(p, Before)
  BY <1>3, <1>4, <1>6, <1>7, KeepingType, ToSetKeeping, KeepingOrdered
<1>9. DOMAIN p = DOMAIN q /\ DOMAIN p = 1 .. Len(p) /\ Len(p) \in Nat
      /\ \A k \in DOMAIN p : p[k] \in Payload /\ q[k] = p[k].chunk
  BY <1>8 DEF ChunksOf
<1>10. q \in Seq(Chunk)
  <2>1. \A k \in DOMAIN p : q[k] \in Chunk
    BY <1>9 DEF Payload
  <2>2. q = [k \in DOMAIN p |-> p[k].chunk]
    BY DEF ChunksOf
  <2>3. QED
    BY <1>9, <2>1, <2>2
<1>11. Rising(q)
  <2>1. ASSUME NEW j \in DOMAIN q, NEW k \in DOMAIN q, j < k
        PROVE  q[j] < q[k]
    <3>1. <<p[j], p[k]>> \in Before
      BY <1>8, <1>9, <2>1 DEF Ordered
    <3>2. QED
      BY <1>9, <3>1
  <2>2. QED
    BY <2>1 DEF Rising
<1>12. ToSet(q) = {i \in n .. (m - 1) : task[c][i] # "empty"}
  <2>1. ToSet(q) = {e.chunk : e \in ToSet(p)}
    BY <1>9 DEF ToSet
  <2>2. ASSUME NEW i \in n .. (m - 1)
        PROVE  One(i) \in Payload <=> task[c][i] # "empty"
    <3>1. i \in Chunk /\ task[c][i] \in Outcomes
      BY <1>0 DEF Chunk
    <3>2. QED
      BY <3>1 DEF Payload
  <2>3. \A i \in n .. (m - 1) : One(i).chunk = i
    OBVIOUS
  <2> HIDE DEF One
  <2>4. QED
    BY <1>5, <1>8, <2>1, <2>2, <2>3
<1>13. Keeping(q, Chunk) = q
  <2>1. ToSet(q) \subseteq Chunk
    BY <1>10 DEF ToSet
  <2>2. QED
    BY <1>10, <2>1, KeepingAll
<1>14. QED
  BY <1>8, <1>10, <1>11, <1>12, <1>13

(* A notice is no payload.                                                 *)
LEMMA NoticeSent ==
  ASSUME OrderInv, NEW c \in Conns, NEW type,
         type \in {"ready", "started", "stopped", "error", "closed"},
         Send(c, Control(type))
  PROVE  /\ delivered' = delivered
         /\ down' \in [Conns -> Seq(Message)]
         /\ \A d \in Conns : disconnected'[d] => disconnected[d] \/ shut[d]
         /\ \A d \in Conns : disconnected[d] => disconnected'[d]
<1> DEFINE notice == [type |-> type, chunk |-> NoChunk]
           q == [k \in DOMAIN Control(type) |-> Control(type)[k].chunk]
<1>1. Control(type) = <<notice>> /\ notice \in Message
  BY DEF Control, Message, Notice
<1>2. Keeping(q, Chunk) = <<>>
  <2>1. q = [k \in 1 .. 1 |-> NoChunk]
    BY DEF Control
  <2> HIDE DEF q
  <2>2. q \in Seq({NoChunk}) /\ \A k \in DOMAIN q : q[k] = NoChunk
    BY <2>1
  <2>3. ToSet(q) \cap Chunk = {}
    BY <2>2 DEF ToSet, NoChunk, Chunk
  <2>4. QED
    BY <2>2, <2>3, KeepingNone
<1>3. delivered[c] \o <<>> = delivered[c] /\ delivered \in [Conns -> Seq(Chunk)]
  BY DEF OrderInv
<1>4. delivered' = delivered
  <2>1. delivered' = delivered \/ delivered' = [delivered EXCEPT ![c] = @ \o Keeping(q, Chunk)]
    BY DEF Send
  <2> HIDE DEF q
  <2>2. QED
    BY <1>2, <1>3, <2>1
<1>5. down' \in [Conns -> Seq(Message)]
  <2>1. down' = down \/ down' = [down EXCEPT ![c] = @ \o <<notice>>]
    BY <1>1 DEF Send
  <2>2. down[c] \o <<notice>> \in Seq(Message) /\ down \in [Conns -> Seq(Message)]
    <3> HIDE DEF notice
    <3>1. QED
      BY <1>1 DEF OrderInv
  <2>3. QED
    BY <2>1, <2>2
<1>6. \/ disconnected' = disconnected
      \/ shut[c] /\ disconnected' = [disconnected EXCEPT ![c] = TRUE]
  BY DEF Send
<1>7. QED
  <2>1. ASSUME NEW d \in Conns
        PROVE  /\ disconnected'[d] => disconnected[d] \/ shut[d]
               /\ disconnected[d] => disconnected'[d]
    <3>1. CASE disconnected' = disconnected
      BY <3>1
    <3>2. CASE shut[c] /\ disconnected' = [disconnected EXCEPT ![c] = TRUE]
      <4>1. CASE d = c
        BY <3>2, <4>1
      <4>2. CASE d # c
        <5>1. disconnected'[d] = disconnected[d]
          BY <3>2, <4>2
        <5>2. QED
          BY <5>1
      <4>3. QED
        BY <4>1, <4>2
    <3>3. QED
      BY <1>6, <3>1, <3>2
  <2>2. QED
    BY <1>4, <1>5, <2>1

(* A step that sends no payload keeps the order, if it takes nothing back. *)
LEMMA OrderKept ==
  ASSUME WsInv, OrderInv,
         delivered' = delivered, down' \in [Conns -> Seq(Message)],
         UNCHANGED <<nextOut, ready>>,
         \A c \in Conns : \A i \in Chunk :
           i < nextIn[c] /\ task[c][i] \notin {"none", "created", "running"}
             => task'[c][i] = task[c][i],
         \A c \in Conns : shut[c] => shut'[c],
         \A c \in Conns : disconnected[c] => disconnected'[c],
         GoneIsGone', AllInTurn'
  PROVE  OrderInv'
<1>0. /\ Outcomes \cap {"none", "created", "running"} = {}
      /\ Chunk \subseteq Nat /\ MaxChunks \in Nat
  BY TranscriptionAssumption DEF Outcomes, Chunk
<1>1. ASSUME NEW c \in Conns, NEW i \in Chunk, i < nextOut[c] \/ i \in ready[c]
      PROVE  i < nextIn[c]
  <2>1. /\ nextOut[c] \in Nat /\ nextIn[c] \in Nat /\ nextOut[c] <= nextIn[c] /\ i \in Nat
        /\ ready[c] \subseteq nextOut[c] .. (nextIn[c] - 1)
    BY <1>0 DEF WsInv, TypeOK
  <2>2. QED
    BY <1>1, <2>1
<1>2. FinishedOnly'
  <2>1. ASSUME NEW c \in Conns, NEW i \in Chunk, i < nextOut[c] \/ i \in ready[c]
        PROVE  task'[c][i] \in Outcomes
    <3>1. i < nextIn[c] /\ task[c][i] \in Outcomes
      BY <1>1, <2>1 DEF OrderInv, FinishedOnly
    <3>2. QED
      BY <1>0, <3>1
  <2>2. QED
    BY <2>1 DEF FinishedOnly
<1>3. ASSUME NEW c \in Conns, NEW i \in Chunk, i < nextOut[c], task[c][i] = "empty"
      PROVE  task'[c][i] = "empty"
  BY <1>1, <1>3
<1>4. NoneOvertaken'
  <2>1. ASSUME NEW c \in Conns, NEW k \in DOMAIN delivered[c], NEW i \in Chunk,
               i <= delivered[c][k]
        PROVE  i < nextOut[c]
    <3>1. delivered[c][k] \in Chunk /\ delivered[c][k] < nextOut[c] /\ nextOut[c] \in Nat
      BY <1>0 DEF WsInv, TypeOK, OrderInv, SentInTurn
    <3>2. delivered[c][k] \in Nat /\ i \in Nat
      BY <1>0, <3>1
    <3>3. QED
      BY <2>1, <3>1, <3>2
  <2>2. QED
    BY <1>3, <2>1 DEF OrderInv, NoneOvertaken
<1>5. UpToDate'
  <2>1. ASSUME NEW c \in Conns, ~shut'[c], ~disconnected'[c], NEW i \in Chunk, i < nextOut[c]
        PROVE  task'[c][i] = "empty" \/ i \in ToSet(delivered[c])
    <3>1. task[c][i] = "empty" \/ i \in ToSet(delivered[c])
      BY <2>1 DEF OrderInv, UpToDate
    <3>2. QED
      BY <1>3, <2>1, <3>1
  <2>2. QED
    BY <2>1 DEF UpToDate
<1>6. NextWaits' /\ SentInTurn'
  BY DEF OrderInv, NextWaits, SentInTurn
<1>7. QED
  BY <1>2, <1>4, <1>5, <1>6 DEF OrderInv

(* A rising list goes on rising with later chunks behind it.               *)
LEMMA RisingConcat ==
  ASSUME NEW d \in Seq(Chunk), NEW q \in Seq(Chunk), NEW n \in Nat,
         Rising(d), Rising(q),
         \A k \in DOMAIN d : d[k] < n, \A k \in DOMAIN q : n <= q[k]
  PROVE  Rising(d \o q)
<1> DEFINE s == d \o q
<1>1. /\ Len(d) \in Nat /\ Len(q) \in Nat /\ DOMAIN s = 1 .. (Len(d) + Len(q))
      /\ DOMAIN d = 1 .. Len(d) /\ DOMAIN q = 1 .. Len(q)
      /\ \A k \in DOMAIN d : d[k] \in Int
      /\ \A k \in DOMAIN q : q[k] \in Int
  <2>1. Chunk \subseteq Int
    BY DEF Chunk
  <2>2. /\ \A k \in DOMAIN d : d[k] \in Chunk
        /\ \A k \in DOMAIN q : q[k] \in Chunk
    OBVIOUS
  <2>3. /\ Len(d) \in Nat /\ Len(q) \in Nat /\ DOMAIN s = 1 .. (Len(d) + Len(q))
        /\ DOMAIN d = 1 .. Len(d) /\ DOMAIN q = 1 .. Len(q)
    OBVIOUS
  <2> HIDE DEF s
  <2>4. QED
    BY <2>1, <2>2, <2>3
<1>2. \A k \in DOMAIN s : s[k] = IF k <= Len(d) THEN d[k] ELSE q[k - Len(d)]
  OBVIOUS
<1> HIDE DEF s
<1>3. ASSUME NEW j \in DOMAIN s, NEW k \in DOMAIN s, j < k
      PROVE  s[j] < s[k]
  <2>1. CASE k <= Len(d)
    <3>1. j \in DOMAIN d /\ k \in DOMAIN d /\ s[j] = d[j] /\ s[k] = d[k]
      BY <1>1, <1>2, <1>3, <2>1
    <3>2. QED
      BY <1>3, <3>1 DEF Rising
  <2>2. CASE j <= Len(d) /\ k > Len(d)
    <3>1. /\ j \in DOMAIN d /\ k - Len(d) \in DOMAIN q
          /\ s[j] = d[j] /\ s[k] = q[k - Len(d)]
      BY <1>1, <1>2, <2>2
    <3>2. d[j] < n /\ n <= q[k - Len(d)] /\ d[j] \in Int /\ q[k - Len(d)] \in Int
      BY <1>1, <3>1
    <3>3. QED
      BY <3>1, <3>2
  <2>3. CASE j > Len(d)
    <3>1. /\ j - Len(d) \in DOMAIN q /\ k - Len(d) \in DOMAIN q
          /\ j - Len(d) < k - Len(d)
          /\ s[j] = q[j - Len(d)] /\ s[k] = q[k - Len(d)]
      BY <1>1, <1>2, <1>3, <2>3
    <3>2. QED
      BY <3>1 DEF Rising
  <2>4. QED
    BY <1>1, <2>1, <2>2, <2>3
<1>4. QED
  BY <1>3 DEF Rising, s

(* _collect and _flush send the payloads of the next chunks, all of them,  *)
(* or, to a client that is gone, none.                                     *)
LEMMA CollectSends ==
  ASSUME WsInv, OrderInv, NEW c \in Conns, Collect(c)
  PROVE  \E m \in nextOut[c] .. nextIn[c] :
           /\ nextOut' = [nextOut EXCEPT ![c] = m]
           /\ m \notin ready'[c]
           /\ \A i \in Chunk : nextOut[c] <= i /\ i < m => task[c][i] \in Outcomes
           /\ ready' = [ready EXCEPT ![c] = ready'[c]]
           /\ \A i \in ready'[c] : i \in Chunk => task[c][i] \in Outcomes
           /\ down' \in [Conns -> Seq(Message)]
           /\ \E q \in Seq(Chunk) :
                /\ Rising(q)
                /\ ToSet(q) = {i \in nextOut[c] .. (m - 1) : task[c][i] # "empty"}
                /\ \/ /\ delivered' = delivered
                      /\ disconnected'[c] \/ shut[c] \/ ToSet(q) = {}
                   \/ /\ delivered' = [delivered EXCEPT ![c] = @ \o q]
                      /\ ~disconnected[c] /\ ~shut[c]
           /\ \A d \in Conns : disconnected'[d] => disconnected[d] \/ shut[d]
           /\ \A d \in Conns : disconnected[d] => disconnected'[d]
<1> DEFINE all == ready[c] \cup Done(c)
           n == nextOut[c]
           k == nextIn[c]
           m == FirstGap(n, all)
<1>0. MaxChunks \in Nat
  BY TranscriptionAssumption
<1>1. /\ n \in Nat /\ k \in n .. MaxChunks /\ all \in SUBSET (n .. (k - 1))
      /\ all \subseteq Chunk
      /\ disconnected \in [Conns -> BOOLEAN] /\ ready \in [Conns -> SUBSET Chunk]
  BY <1>0 DEF WsInv, TypeOK, Done
<1>2. m \in n .. k /\ n .. (m - 1) \subseteq all /\ m \notin all
  BY <1>1, FirstGapIs
<1>3. /\ ready' = [ready EXCEPT ![c] = all \ (n .. (m - 1))]
      /\ nextOut' = [nextOut EXCEPT ![c] = m]
      /\ Send(c, Payloads(c, n, m))
  BY DEF Collect
<1>4. \A i \in all : task[c][i] \in Outcomes
  BY <1>1 DEF OrderInv, FinishedOnly, Done
<1> HIDE DEF m, all
<1>5. ready'[c] = all \ (n .. (m - 1))
  BY <1>1, <1>3
<1>6. /\ \A i \in n .. (m - 1) : task[c][i] \in Outcomes
      /\ m \in n .. MaxChunks
  BY <1>0, <1>1, <1>2, <1>4
<1>p. PICK p : p = Payloads(c, n, m)
  OBVIOUS
<1>q. PICK q : q = ChunksOf(p)
  OBVIOUS
<1>7. /\ p \in Seq(Payload) /\ q \in Seq(Chunk) /\ Keeping(q, Chunk) = q /\ Rising(q)
      /\ ToSet(q) = {i \in n .. (m - 1) : task[c][i] # "empty"}
  <2>1. n \in Nat /\ m \in n .. MaxChunks
    BY <1>1, <1>6
  <2>2. PICK a \in Nat : a = n
    BY <2>1
  <2>3. PICK b \in a .. MaxChunks : b = m
    BY <2>1, <2>2
  <2>4. p = Payloads(c, a, b) /\ \A i \in a .. (b - 1) : task[c][i] \in Outcomes
    BY <1>6, <1>p, <2>2, <2>3
  <2>5. /\ p \in Seq(Payload) /\ q \in Seq(Chunk) /\ Keeping(q, Chunk) = q /\ Rising(q)
        /\ ToSet(q) = {i \in a .. (b - 1) : task[c][i] # "empty"}
    BY <1>q, <2>2, <2>3, <2>4, PayloadsAre
  <2>6. QED
    BY <2>2, <2>3, <2>5
<1>8. p = <<>> => ToSet(q) = {}
  BY <1>q DEF ToSet, ChunksOf
<1>9. \/ /\ disconnected[c] \/ p = <<>>
         /\ UNCHANGED <<down, disconnected, delivered>>
      \/ /\ ~disconnected[c] /\ ~shut[c]
         /\ down' = [down EXCEPT ![c] = @ \o p]
         /\ delivered' = [delivered EXCEPT ![c] = @ \o Keeping(q, Chunk)]
         /\ UNCHANGED disconnected
      \/ /\ shut[c]
         /\ \/ UNCHANGED disconnected
            \/ disconnected' = [disconnected EXCEPT ![c] = TRUE]
         /\ UNCHANGED <<down, delivered>>
  <2>1. Send(c, p)
    BY <1>3, <1>p
  <2>2. QED
    BY <1>q, <2>1 DEF Send, ChunksOf
<1>10. down' \in [Conns -> Seq(Message)]
  <2>1. down \in [Conns -> Seq(Message)] /\ p \in Seq(Message)
    BY <1>7 DEF OrderInv, Message
  <2>2. down[c] \o p \in Seq(Message)
    BY <2>1
  <2>3. QED
    BY <1>9, <2>1, <2>2
<1>11. ASSUME NEW d \in Conns
       PROVE  /\ disconnected'[d] => disconnected[d] \/ shut[d]
              /\ disconnected[d] => disconnected'[d]
  <2>1. CASE UNCHANGED disconnected
    BY <2>1
  <2>2. CASE shut[c] /\ disconnected' = [disconnected EXCEPT ![c] = TRUE]
    <3>1. CASE d = c
      BY <1>1, <2>2, <3>1
    <3>2. CASE d # c
      <4>1. disconnected'[d] = disconnected[d]
        BY <1>1, <2>2, <3>2
      <4>2. QED
        BY <4>1
    <3>3. QED
      BY <3>1, <3>2
  <2>3. QED
    BY <1>9, <2>1, <2>2
<1>12. \/ /\ delivered' = delivered
          /\ disconnected'[c] \/ shut[c] \/ ToSet(q) = {}
       \/ /\ delivered' = [delivered EXCEPT ![c] = @ \o q]
          /\ ~disconnected[c] /\ ~shut[c]
  <2>1. CASE delivered' = delivered /\ (disconnected[c] \/ p = <<>> \/ shut[c])
    BY <1>8, <1>11, <2>1
  <2>2. CASE /\ ~disconnected[c] /\ ~shut[c]
             /\ delivered' = [delivered EXCEPT ![c] = @ \o Keeping(q, Chunk)]
    BY <1>7, <2>2
  <2>3. QED
    BY <1>9, <2>1, <2>2
<1>13. /\ m \notin ready'[c]
       /\ \A i \in Chunk : n <= i /\ i < m => task[c][i] \in Outcomes
       /\ ready' = [ready EXCEPT ![c] = ready'[c]]
       /\ \A i \in ready'[c] : i \in Chunk => task[c][i] \in Outcomes
  <2>1. \A i \in Chunk : n <= i /\ i < m => i \in n .. (m - 1)
    BY <1>0, <1>1, <1>2 DEF Chunk
  <2>2. QED
    BY <1>2, <1>3, <1>4, <1>5, <1>6, <2>1
<1>14. QED
  BY <1>2, <1>3, <1>7, <1>10, <1>11, <1>12, <1>13

LEMMA CollectOrder ==
  ASSUME WsInv, OrderInv, NEW c \in Conns, CollectDone(c) \/ CollectOne(c)
  PROVE  OrderInv'
<1>1. Collect(c)
  BY DEF CollectDone, CollectOne
<1>2. /\ UNCHANGED <<up, shut, nextIn, task>>
      /\ \/ phase' = phase
         \/ \E place \in {"receive", "collect"} : phase' = [phase EXCEPT ![c] = place]
      /\ phase[c] # "closed"
  BY DEF CollectDone, CollectOne, Collect, Goto, chunkVars
<1>3. PICK m \in nextOut[c] .. nextIn[c] :
           /\ nextOut' = [nextOut EXCEPT ![c] = m]
           /\ m \notin ready'[c]
           /\ \A i \in Chunk : nextOut[c] <= i /\ i < m => task[c][i] \in Outcomes
           /\ ready' = [ready EXCEPT ![c] = ready'[c]]
           /\ \A i \in ready'[c] : i \in Chunk => task[c][i] \in Outcomes
           /\ down' \in [Conns -> Seq(Message)]
           /\ \E q \in Seq(Chunk) :
                /\ Rising(q)
                /\ ToSet(q) = {i \in nextOut[c] .. (m - 1) : task[c][i] # "empty"}
                /\ \/ /\ delivered' = delivered
                      /\ disconnected'[c] \/ shut[c] \/ ToSet(q) = {}
                   \/ /\ delivered' = [delivered EXCEPT ![c] = @ \o q]
                      /\ ~disconnected[c] /\ ~shut[c]
           /\ \A d \in Conns : disconnected'[d] => disconnected[d] \/ shut[d]
           /\ \A d \in Conns : disconnected[d] => disconnected'[d]
  BY <1>1, CollectSends
<1>4. PICK q \in Seq(Chunk) :
                /\ Rising(q)
                /\ ToSet(q) = {i \in nextOut[c] .. (m - 1) : task[c][i] # "empty"}
                /\ \/ /\ delivered' = delivered
                      /\ disconnected'[c] \/ shut[c] \/ ToSet(q) = {}
                   \/ /\ delivered' = [delivered EXCEPT ![c] = @ \o q]
                      /\ ~disconnected[c] /\ ~shut[c]
  BY <1>3
<1>5. /\ nextOut \in [Conns -> 0 .. MaxChunks] /\ ready \in [Conns -> SUBSET Chunk]
      /\ phase \in [Conns -> {"none", "auth", "closed"} \cup Serving]
      /\ nextOut[c] \in Nat /\ nextIn[c] \in Nat /\ MaxChunks \in Nat
      /\ delivered \in [Conns -> Seq(Chunk)]
  BY TranscriptionAssumption DEF WsInv, TypeOK, OrderInv
<1>6. m \in Nat /\ nextOut[c] <= m
  BY <1>5
<1>7. /\ nextOut'[c] = m
      /\ \A d \in Conns : d # c => nextOut'[d] = nextOut[d] /\ ready'[d] = ready[d]
      /\ \A d \in Conns : d # c => phase'[d] = phase[d] /\ delivered'[d] = delivered[d]
      /\ phase'[c] # "closed"
  <2>1. nextOut'[c] = m /\ \A d \in Conns : d # c => nextOut'[d] = nextOut[d]
    BY <1>3, <1>5
  <2>2. \A d \in Conns : d # c => ready'[d] = ready[d]
    BY <1>3, <1>5
  <2>3. (\A d \in Conns : d # c => phase'[d] = phase[d]) /\ phase'[c] # "closed"
    BY <1>2, <1>5
  <2>4. \A d \in Conns : d # c => delivered'[d] = delivered[d]
    BY <1>4, <1>5
  <2>5. QED
    BY <2>1, <2>2, <2>3, <2>4
<1>8. /\ delivered' \in [Conns -> Seq(Chunk)]
      /\ Rising(delivered'[c])
      /\ ToSet(delivered'[c]) \in {ToSet(delivered[c]), ToSet(delivered[c]) \cup ToSet(q)}
      /\ ToSet(delivered'[c]) = ToSet(delivered[c]) \cup ToSet(q)
           \/ disconnected'[c] \/ shut[c]
      /\ ToSet(delivered'[c]) = ToSet(delivered[c]) \/ (~disconnected[c] /\ ~shut[c])
  <2>0. Rising(delivered[c]) /\ delivered[c] \in Seq(Chunk)
    BY <1>5 DEF OrderInv, SentInTurn
  <2>1. CASE delivered' = delivered /\ (disconnected'[c] \/ shut[c] \/ ToSet(q) = {})
    BY <1>5, <2>0, <2>1
  <2>2. CASE /\ delivered' = [delivered EXCEPT ![c] = @ \o q]
             /\ ~disconnected[c] /\ ~shut[c]
    <3>1. delivered'[c] = delivered[c] \o q
      BY <1>5, <2>2
    <3>2. delivered[c] \o q \in Seq(Chunk)
      BY <2>0
    <3>3. \A k \in DOMAIN q : nextOut[c] <= q[k]
      <4>1. \A k \in DOMAIN q : q[k] \in ToSet(q)
        BY DEF ToSet
      <4>2. \A i \in nextOut[c] .. (m - 1) : nextOut[c] <= i
        BY <1>5, <1>6
      <4>3. QED
        BY <1>4, <4>1, <4>2
    <3>4. \A k \in DOMAIN delivered[c] : delivered[c][k] < nextOut[c]
      BY DEF OrderInv, SentInTurn
    <3>5. Rising(delivered[c] \o q)
      <4>1. PICK n \in Nat : n = nextOut[c]
        BY <1>5
      <4>2. QED
        BY <1>4, <2>0, <3>3, <3>4, <4>1, RisingConcat
    <3>6. ToSet(delivered[c] \o q) = ToSet(delivered[c]) \cup ToSet(q)
      BY <2>0, ToSetConcat
    <3>7. delivered' \in [Conns -> Seq(Chunk)]
      BY <1>5, <2>2, <3>2
    <3>8. QED
      BY <2>2, <3>1, <3>5, <3>6, <3>7
  <2>3. QED
    BY <1>4, <2>1, <2>2
<1>9. \A i \in ToSet(q) : i \in Chunk /\ i < m
  <2>1. \A i \in nextOut[c] .. (m - 1) : i < m
    BY <1>5, <1>6
  <2>2. \A i \in ToSet(q) : i \in Chunk
    BY DEF ToSet
  <2>3. QED
    BY <1>4, <2>1, <2>2
<1>10. \A i \in Chunk : nextOut[c] <= i /\ i < m => task[c][i] = "empty" \/ i \in ToSet(q)
  <2>1. \A i \in Chunk : nextOut[c] <= i /\ i < m => i \in nextOut[c] .. (m - 1)
    BY <1>5, <1>6 DEF Chunk
  <2>2. QED
    BY <1>4, <2>1
<1>11. \A d \in Conns : \A k \in DOMAIN delivered[d] :
         delivered[d][k] \in Chunk /\ delivered[d][k] \in ToSet(delivered[d])
  BY <1>5 DEF ToSet
<1>12. \A d \in Conns : \A k \in DOMAIN delivered'[d] : delivered'[d][k] \in ToSet(delivered'[d])
  BY DEF ToSet
<1>13. Chunk \subseteq Nat
  BY DEF Chunk
<1>14. NextWaits'
  BY <1>3, <1>7 DEF OrderInv, NextWaits
<1>15. FinishedOnly'
  <2>1. ASSUME NEW i \in Chunk, i < nextOut'[c] \/ i \in ready'[c]
        PROVE  task'[c][i] \in Outcomes
    <3>1. CASE i \in ready'[c]
      BY <1>2, <1>3, <3>1
    <3>2. CASE i < nextOut[c]
      BY <1>2, <3>2 DEF OrderInv, FinishedOnly
    <3>3. CASE nextOut[c] <= i /\ i < m
      BY <1>2, <1>3, <3>3
    <3>4. QED
      BY <1>5, <1>6, <1>7, <1>13, <2>1, <3>1, <3>2, <3>3
  <2>2. QED
    BY <1>2, <1>7, <2>1 DEF OrderInv, FinishedOnly
<1>16. SentInTurn'
  <2>1. \A i \in ToSet(delivered[c]) : i < nextOut[c] /\ i \in Chunk
    BY <1>5 DEF OrderInv, SentInTurn, ToSet
  <2>2. ASSUME NEW i \in ToSet(delivered[c])
        PROVE  i < m
    <3>1. i \in Nat /\ i < nextOut[c]
      BY <1>13, <2>1
    <3>2. QED
      BY <1>5, <1>6, <3>1
  <2>3. \A k \in DOMAIN delivered'[c] : delivered'[c][k] < m
    BY <1>8, <1>9, <1>12, <2>2
  <2>4. QED
    BY <1>7, <1>8, <2>3 DEF OrderInv, SentInTurn
<1>17. NoneOvertaken'
  <2>1. ASSUME NEW k \in DOMAIN delivered'[c], NEW i \in Chunk, i <= delivered'[c][k]
        PROVE  task[c][i] = "empty" \/ i \in ToSet(delivered'[c])
    <3>0. delivered'[c][k] \in ToSet(delivered[c]) \cup ToSet(q)
      BY <1>8, <1>12
    <3>1. CASE delivered'[c][k] \in ToSet(delivered[c])
      <4>1. PICK j \in DOMAIN delivered[c] : delivered[c][j] = delivered'[c][k]
        BY <3>1 DEF ToSet
      <4>2. task[c][i] = "empty" \/ i \in ToSet(delivered[c])
        BY <2>1, <4>1 DEF OrderInv, NoneOvertaken
      <4>3. QED
        BY <1>8, <4>2
    <3>2. CASE delivered'[c][k] \notin ToSet(delivered[c])
      <4>1. /\ delivered'[c][k] \in ToSet(q) /\ ~disconnected[c] /\ ~shut[c]
            /\ ToSet(delivered'[c]) = ToSet(delivered[c]) \cup ToSet(q)
        <5>1. ToSet(delivered'[c]) # ToSet(delivered[c])
          BY <1>12, <3>2
        <5>2. QED
          BY <1>8, <3>0, <3>2, <5>1
      <4>2. i < m
        BY <1>6, <1>9, <1>13, <2>1, <4>1
      <4>3. CASE i < nextOut[c]
        BY <4>1, <4>3 DEF OrderInv, UpToDate
      <4>4. CASE nextOut[c] <= i
        BY <1>10, <4>1, <4>2, <4>4
      <4>5. QED
        BY <1>5, <1>13, <4>3, <4>4
    <3>3. QED
      BY <3>1, <3>2
  <2>2. QED
    BY <1>2, <1>7, <2>1 DEF OrderInv, NoneOvertaken
<1>18. UpToDate'
  <2>1. ASSUME ~shut'[c], ~disconnected'[c], NEW i \in Chunk, i < m
        PROVE  task[c][i] = "empty" \/ i \in ToSet(delivered'[c])
    <3>1. /\ ~shut[c] /\ ~disconnected[c]
          /\ ToSet(delivered'[c]) = ToSet(delivered[c]) \cup ToSet(q)
      BY <1>2, <1>3, <1>8, <2>1
    <3>2. CASE i < nextOut[c]
      BY <3>1, <3>2 DEF OrderInv, UpToDate
    <3>3. CASE nextOut[c] <= i
      BY <1>10, <2>1, <3>1, <3>3
    <3>4. QED
      BY <1>5, <1>13, <3>2, <3>3
  <2>2. ASSUME NEW d \in Conns, d # c, ~shut'[d], ~disconnected'[d]
        PROVE  ~shut[d] /\ ~disconnected[d]
    BY <1>2, <1>3, <2>2
  <2>3. QED
    BY <1>2, <1>7, <2>1, <2>2 DEF OrderInv, UpToDate
<1>19. GoneIsGone'
  BY <1>2, <1>3 DEF OrderInv, GoneIsGone
<1>20. AllInTurn'
  BY <1>2, <1>7 DEF OrderInv, AllInTurn
<1>21. QED
  BY <1>3, <1>8, <1>14, <1>15, <1>16, <1>17, <1>18, <1>19, <1>20 DEF OrderInv

(* What is left of a queue was in it.                                      *)
LEMMA TailIn ==
  ASSUME NEW s \in Seq(Frames), s # <<>>, NEW f,
         \E k \in DOMAIN Tail(s) : Tail(s)[k] = f
  PROVE  \E k \in DOMAIN s : s[k] = f
<1>1. PICK k \in DOMAIN Tail(s) : Tail(s)[k] = f
  OBVIOUS
<1>2. k + 1 \in DOMAIN s /\ s[k + 1] = f
  BY <1>1
<1>3. QED
  BY <1>2

(* The server says its last word, unless nobody is there.                  *)
LEMMA ClosingSent ==
  ASSUME OrderInv, NEW c \in Conns, CloseSocket(c)
  PROVE  down' \in [Conns -> Seq(Message)]
<1>1. Control("closed") \in Seq(Message)
  BY DEF Control, Message, Notice
<1>2. down \in [Conns -> Seq(Message)] /\ down[c] \o Control("closed") \in Seq(Message)
  BY <1>1 DEF OrderInv
<1>3. QED
  BY <1>2 DEF CloseSocket

(* The handler's steps that send no payload.                               *)
LEMMA HandlerOrder ==
  ASSUME WsInv, OrderInv, NEW c \in Conns,
         \/ Accept(c) \/ AuthAccept(c) \/ AuthReject(c) \/ PollTimeout(c)
         \/ ReceiveStart(c) \/ ReceiveStop(c) \/ ReceiveAudio(c) \/ ReceiveBad(c) \/ ReceiveValue(c)
         \/ ReceiveIgnored(c) \/ ReceiveDisconnect(c) \/ CloseSession(c)
  PROVE  OrderInv'
<1>0. /\ phase \in [Conns -> {"none", "auth", "closed"} \cup Serving]
      /\ up \in [Conns -> Seq(Frames)] /\ shut \in [Conns -> BOOLEAN]
      /\ disconnected \in [Conns -> BOOLEAN]
      /\ task \in [Conns -> [Chunk -> {"none", "created", "running"} \cup Outcomes]]
      /\ down \in [Conns -> Seq(Message)]
  BY DEF WsInv, TypeOK, OrderInv
<1>1. UNCHANGED <<shut, nextOut, ready>>
  BY DEF Accept, AuthAccept, AuthReject, PollTimeout, ReceiveStart, ReceiveStop,
         ReceiveAudio, ReceiveBad, ReceiveValue, ReceiveIgnored, ReceiveDisconnect, CloseSession, wireVars
<1>2. \/ delivered' = delivered /\ UNCHANGED <<down, disconnected>>
      \/ delivered' = delivered /\ CloseSocket(c) /\ UNCHANGED disconnected
      \/ \E type \in {"ready", "started", "stopped", "error", "closed"} :
           Send(c, Control(type))
      \/ /\ delivered' = delivered /\ UNCHANGED down
         /\ Receive(c, "disconnect")
         /\ disconnected' = [disconnected EXCEPT ![c] = TRUE]
  BY DEF Accept, AuthAccept, AuthReject, PollTimeout, ReceiveStart, ReceiveStop,
         ReceiveAudio, ReceiveBad, ReceiveValue, ReceiveIgnored, ReceiveDisconnect, CloseSession, wireVars
<1>3. /\ delivered' = delivered /\ down' \in [Conns -> Seq(Message)]
      /\ \A d \in Conns : disconnected'[d] => disconnected[d] \/ shut[d]
      /\ \A d \in Conns : disconnected[d] => disconnected'[d]
  <2>1. CASE delivered' = delivered /\ UNCHANGED <<down, disconnected>>
    BY <1>0, <2>1
  <2>2. CASE delivered' = delivered /\ CloseSocket(c) /\ UNCHANGED disconnected
    BY <2>2, ClosingSent
  <2>3. CASE \E type \in {"ready", "started", "stopped", "error", "closed"} :
               Send(c, Control(type))
    BY <2>3, NoticeSent
  <2>4. CASE /\ delivered' = delivered /\ UNCHANGED down
             /\ Receive(c, "disconnect")
             /\ disconnected' = [disconnected EXCEPT ![c] = TRUE]
    <3>1. up[c] # <<>> /\ Head(up[c]) = "disconnect"
      BY <2>4 DEF Receive, First
    <3>2. 1 \in DOMAIN up[c] /\ up[c][1] = "disconnect"
      BY <1>0, <3>1
    <3>3. shut[c]
      BY <3>2 DEF OrderInv, GoneIsGone
    <3>4. QED
      BY <1>0, <2>4, <3>3
  <2>5. QED
    BY <1>2, <2>1, <2>2, <2>3, <2>4
<1>4. ASSUME NEW d \in Conns, NEW i \in Chunk, i < nextIn[d]
      PROVE  task'[d][i] = task[d][i]
  <2>1. CASE UNCHANGED task
    BY <2>1
  <2>2. CASE ReceiveAudio(c)
    <3>1. task' = [task EXCEPT ![c][nextIn[c]] = "created"]
      BY <2>2 DEF ReceiveAudio
    <3>2. ~(d = c /\ i = nextIn[c])
      <4>1. nextIn[d] \in Nat /\ i \in Nat
        BY TranscriptionAssumption DEF WsInv, TypeOK, Chunk
      <4>2. QED
        BY <1>4, <4>1
    <3>3. QED
      BY <1>0, <3>1, <3>2
  <2>3. QED
    BY <2>1, <2>2 DEF Accept, AuthAccept, AuthReject, PollTimeout, ReceiveStart, ReceiveStop,
         ReceiveBad, ReceiveValue, ReceiveIgnored, ReceiveDisconnect, CloseSession, chunkVars
<1>5. GoneIsGone'
  <2>1. ASSUME NEW d \in Conns, NEW k \in DOMAIN up'[d], up'[d][k] = "disconnect"
        PROVE  \E j \in DOMAIN up[d] : up[d][j] = "disconnect"
    <3>1. CASE UNCHANGED up
      BY <2>1, <3>1
    <3>2. CASE up' = [up EXCEPT ![c] = <<>>]
      <4>1. d # c
        BY <1>0, <2>1, <3>2
      <4>2. up'[d] = up[d]
        BY <1>0, <3>2, <4>1
      <4>3. QED
        BY <2>1, <4>2
    <3>3. CASE up' = [up EXCEPT ![c] = Tail(@)] /\ up[c] # <<>>
      <4>1. CASE d = c
        <5>1. up'[d] = Tail(up[d]) /\ up[d] \in Seq(Frames) /\ up[d] # <<>>
          BY <1>0, <3>3, <4>1
        <5>2. QED
          BY <2>1, <5>1, TailIn
      <4>2. CASE d # c
        <5>1. up'[d] = up[d]
          BY <1>0, <3>3, <4>2
        <5>2. QED
          BY <2>1, <5>1
      <4>3. QED
        BY <4>1, <4>2
    <3>4. \/ UNCHANGED up
          \/ up' = [up EXCEPT ![c] = <<>>]
          \/ up' = [up EXCEPT ![c] = Tail(@)] /\ up[c] # <<>>
      BY DEF Accept, AuthAccept, AuthReject, PollTimeout, ReceiveStart, ReceiveStop,
         ReceiveAudio, ReceiveBad, ReceiveValue, ReceiveIgnored, ReceiveDisconnect, CloseSession,
         wireVars, Receive, First
    <3>5. QED
      BY <3>1, <3>2, <3>3, <3>4
  <2>2. QED
    BY <1>1, <1>3, <2>1 DEF OrderInv, GoneIsGone
<1>6. AllInTurn'
  <2>1. ASSUME NEW d \in Conns, phase'[d] = "closed", ~shut'[d]
        PROVE  nextOut'[d] = nextIn'[d]
    <3>0. /\ nextIn[d] \in Nat /\ nextOut[d] \in Nat /\ nextOut[d] <= nextIn[d]
          /\ pending[d] \cup ready[d] = nextOut[d] .. (nextIn[d] - 1)
      BY TranscriptionAssumption DEF WsInv, TypeOK
    <3>1. CASE phase[d] = "closed"
      <4>1. nextIn'[d] = nextIn[d]
        <5>1. CASE UNCHANGED nextIn
          BY <5>1
        <5>2. CASE ReceiveAudio(c)
          <6>1. d # c /\ nextIn' = [nextIn EXCEPT ![c] = @ + 1]
            BY <3>1, <5>2 DEF ReceiveAudio, Receive
          <6>2. QED
            BY <6>1 DEF WsInv, TypeOK
        <5>3. QED
          BY <5>1, <5>2 DEF Accept, AuthAccept, AuthReject, PollTimeout, ReceiveStart,
             ReceiveStop, ReceiveBad, ReceiveValue, ReceiveIgnored, ReceiveDisconnect, CloseSession
      <4>2. QED
        BY <1>1, <2>1, <3>1, <4>1 DEF OrderInv, AllInTurn
    <3>2. CASE phase[d] # "closed"
      <4>1. \E place \in {"none", "auth", "closed"} \cup Serving :
              phase' = [phase EXCEPT ![c] = place]
        BY DEF Accept, AuthAccept, AuthReject, PollTimeout, ReceiveStart, ReceiveStop,
           ReceiveAudio, ReceiveBad, ReceiveValue, ReceiveIgnored, ReceiveDisconnect, CloseSession,
           Goto, Serving
      <4>2. d = c
        BY <1>0, <2>1, <3>2, <4>1
      <4>3. AuthReject(c) \/ CloseSession(c)
        BY <1>0, <2>1, <4>2
        DEF Accept, AuthAccept, PollTimeout, ReceiveStart, ReceiveStop,
            ReceiveAudio, ReceiveBad, ReceiveValue, ReceiveIgnored, ReceiveDisconnect, Goto
      <4>4. UNCHANGED nextIn
        BY <4>3 DEF AuthReject, CloseSession
      <4>5. CASE AuthReject(c)
        <5>1. nextIn[d] = 0
          BY <4>2, <4>5 DEF AuthReject, WsInv, IdleBefore
        <5>2. QED
          BY <1>1, <3>0, <4>4, <5>1
      <4>6. CASE CloseSession(c)
        <5>1. ready[d] = nextOut[d] .. (nextIn[d] - 1)
          BY <3>0, <4>2, <4>6 DEF CloseSession
        <5>2. nextOut[d] \notin ready[d]
          BY DEF OrderInv, NextWaits
        <5>3. nextOut[d] = nextIn[d]
          BY <3>0, <5>1, <5>2
        <5>4. QED
          BY <1>1, <4>4, <5>3
      <4>7. QED
        BY <4>3, <4>5, <4>6
    <3>3. QED
      BY <3>1, <3>2
  <2>2. QED
    BY <2>1 DEF AllInTurn
<1>7. QED
  BY <1>1, <1>3, <1>4, <1>5, <1>6, OrderKept

(* Tasks go on, and states expire, without a word to the client.           *)
LEMMA TaskOrder ==
  ASSUME WsInv, OrderInv, NEW c \in Conns, NEW i \in Chunk,
         TaskStart(c, i) \/ TaskEnd(c, i) \/ Expire(c, i)
  PROVE  OrderInv'
<1>1. UNCHANGED <<phase, disconnected, nextIn, nextOut, ready, up, down, shut, delivered>>
  BY DEF TaskStart, TaskEnd, Expire, handlerVars, wireVars
<1>2. ASSUME NEW d \in Conns, NEW j \in Chunk,
             task[d][j] \notin {"none", "created", "running"}
      PROVE  task'[d][j] = task[d][j]
  <2>1. CASE UNCHANGED task
    BY <2>1
  <2>2. CASE /\ task[c][i] \in {"created", "running"}
             /\ \E t \in {"running"} \cup Outcomes : task' = [task EXCEPT ![c][i] = t]
    <3>1. ~(d = c /\ j = i)
      BY <1>2, <2>2
    <3>2. QED
      BY <2>2, <3>1, PutEntry DEF WsInv, TypeOK
  <2>3. QED
    BY <2>1, <2>2 DEF TaskStart, TaskEnd, Expire, EndTask, Outcomes
<1>3. GoneIsGone' /\ AllInTurn'
  BY <1>1 DEF OrderInv, GoneIsGone, AllInTurn
<1>4. down' \in [Conns -> Seq(Message)]
  BY <1>1 DEF OrderInv
<1>5. QED
  BY <1>1, <1>2, <1>3, <1>4, OrderKept

(* The client speaks, or goes.                                             *)
LEMMA ClientOrder ==
  ASSUME WsInv, OrderInv, NEW c \in Conns, ClientSend(c) \/ ClientClose(c)
  PROVE  OrderInv'
<1>0. /\ up \in [Conns -> Seq(Frames)] /\ shut \in [Conns -> BOOLEAN]
      /\ down \in [Conns -> Seq(Message)]
  BY DEF WsInv, TypeOK, OrderInv
<1>1. /\ UNCHANGED <<phase, disconnected, nextIn, nextOut, ready, task, delivered>>
      /\ down' = down \/ down' = [down EXCEPT ![c] = <<>>]
  BY DEF ClientSend, ClientClose, handlerVars, chunkVars
<1>2. PICK f \in Frames :
        /\ up' = [up EXCEPT ![c] = Append(@, f)]
        /\ \/ f # "disconnect" /\ shut' = shut
           \/ shut' = [shut EXCEPT ![c] = TRUE]
  BY DEF ClientSend, ClientClose, Frames
<1>3. down' \in [Conns -> Seq(Message)]
  <2>1. <<>> \in Seq(Message)
    OBVIOUS
  <2>2. QED
    BY <1>0, <1>1, <2>1
<1>4. ASSUME NEW d \in Conns
      PROVE  /\ shut[d] => shut'[d]
             /\ (\E k \in DOMAIN up'[d] : up'[d][k] = "disconnect") =>
                  shut'[d] \/ \E k \in DOMAIN up[d] : up[d][k] = "disconnect"
  <2>1. CASE d # c
    <3>1. up'[d] = up[d] /\ shut'[d] = shut[d]
      BY <1>0, <1>2, <2>1
    <3>2. QED
      BY <3>1
  <2>2. CASE d = c
    <3>1. up'[d] = Append(up[d], f) /\ up[d] \in Seq(Frames)
      BY <1>0, <1>2, <2>2
    <3>2. \A k \in DOMAIN Append(up[d], f) :
            \/ Append(up[d], f)[k] = f
            \/ k \in DOMAIN up[d] /\ Append(up[d], f)[k] = up[d][k]
      <4>1. PICK s \in Seq(Frames) : s = up[d]
        BY <3>1
      <4> DEFINE t == Append(s, f)
      <4>2. /\ Len(s) \in Nat /\ DOMAIN s = 1 .. Len(s)
            /\ DOMAIN t = 1 .. Len(s) + 1
            /\ t[Len(s) + 1] = f
            /\ \A k \in 1 .. Len(s) : t[k] = s[k]
        <5>1. t \in Seq(Frames)
          BY AppendProperties
        <5>2. DOMAIN t = 1 .. Len(t) /\ DOMAIN s = 1 .. Len(s) /\ Len(s) \in Nat
          BY <5>1, LenProperties
        <5>3. QED
          BY <5>2, AppendProperties
      <4> HIDE DEF t
      <4>3. PICK n \in Nat : n = Len(s)
        BY <4>2
      <4>4. \A k \in 1 .. n + 1 : k = n + 1 \/ k \in 1 .. n
        OBVIOUS
      <4>5. \A k \in DOMAIN t : t[k] = f \/ (k \in DOMAIN s /\ t[k] = s[k])
        BY <4>2, <4>3, <4>4
      <4>6. QED
        BY <4>1, <4>5 DEF t
    <3>3. CASE shut' = shut /\ f # "disconnect"
      BY <3>1, <3>2, <3>3
    <3>4. CASE shut' = [shut EXCEPT ![c] = TRUE]
      BY <1>0, <2>2, <3>4
    <3>5. QED
      BY <1>2, <3>3, <3>4
  <2>3. QED
    BY <2>1, <2>2
<1>5. GoneIsGone' /\ AllInTurn'
  BY <1>1, <1>4 DEF OrderInv, GoneIsGone, AllInTurn
<1>6. QED
  BY <1>1, <1>3, <1>4, <1>5, OrderKept

LEMMA OrderInit == Init => OrderInv
<1> SUFFICES ASSUME Init PROVE OrderInv
  OBVIOUS
<1>1. \A c \in Conns :
        /\ delivered[c] = <<>> /\ up[c] = <<>> /\ ready[c] = {}
        /\ nextOut[c] = 0 /\ ~disconnected[c] /\ phase[c] = "none"
  BY DEF Init
<1>2. <<>> \in Seq(Chunk) /\ <<>> \in Seq(Message)
  OBVIOUS
<1>3. delivered \in [Conns -> Seq(Chunk)] /\ down \in [Conns -> Seq(Message)]
  BY <1>2 DEF Init
<1>4. \A i \in Chunk : ~(i < 0)
  BY DEF Chunk
<1>5. NextWaits /\ FinishedOnly /\ UpToDate /\ AllInTurn
  BY <1>1, <1>4 DEF NextWaits, FinishedOnly, UpToDate, AllInTurn
<1>6. SentInTurn /\ NoneOvertaken /\ GoneIsGone
  BY <1>1 DEF SentInTurn, NoneOvertaken, GoneIsGone, Rising
<1>7. QED
  BY <1>3, <1>5, <1>6 DEF OrderInv

(* Every step of the server and of any client keeps the order.             *)
LEMMA OrderNext == WsInv /\ OrderInv /\ [Next]_vars => OrderInv'
<1> SUFFICES ASSUME WsInv, OrderInv, [Next]_vars PROVE OrderInv'
  OBVIOUS
<1>1. ASSUME NEW c \in Conns, Handler(c) PROVE OrderInv'
  BY <1>1, HandlerOrder, CollectOrder DEF Handler
<1>2. ASSUME NEW c \in Conns, NEW i \in Chunk, Task(c, i) \/ Expire(c, i) PROVE OrderInv'
  BY <1>2, TaskOrder DEF Task
<1>3. ASSUME NEW c \in Conns, Accept(c) \/ ClientSend(c) \/ ClientClose(c) PROVE OrderInv'
  BY <1>3, HandlerOrder, ClientOrder
<1>4. CASE UNCHANGED vars
  <2>1. UNCHANGED <<phase, up, down, shut, disconnected, nextIn, nextOut, ready, task,
                    delivered>>
    BY <1>4 DEF vars
  <2>2. QED
    BY <2>1 DEF OrderInv, NextWaits, FinishedOnly, SentInTurn, NoneOvertaken, UpToDate,
                GoneIsGone, AllInTurn
<1>5. QED
  BY <1>1, <1>2, <1>3, <1>4 DEF Next, Server, AnyClient

(* InOrder says where among the chunks sent each one is.                   *)
LEMMA OrderShown == WsInv /\ OrderInv => InOrder
<1> SUFFICES ASSUME WsInv, OrderInv, NEW c \in Conns
             PROVE  /\ \A k \in 1 .. Len(delivered[c]) - 1 :
                         delivered[c][k] < delivered[c][k + 1]
                    /\ \A k \in 1 .. Len(delivered[c]) : \A i \in 0 .. delivered[c][k] :
                         task[c][i] = "empty" \/ \E j \in 1 .. k : delivered[c][j] = i
  BY DEF InOrder
<1>1. PICK s \in Seq(Chunk) : s = delivered[c]
  BY DEF OrderInv
<1>2. Rising(s) /\ \A k \in DOMAIN s : \A i \in Chunk :
                     i <= s[k] => task[c][i] = "empty" \/ i \in ToSet(s)
  BY <1>1 DEF OrderInv, SentInTurn, NoneOvertaken
<1>3. Len(s) \in Nat /\ DOMAIN s = 1 .. Len(s) /\ \A k \in DOMAIN s : s[k] \in Chunk
  OBVIOUS
<1>4. Chunk \subseteq Nat /\ MaxChunks \in Nat
  BY TranscriptionAssumption DEF Chunk
<1>5. \A k \in 1 .. Len(s) - 1 : s[k] < s[k + 1]
  <2>1. ASSUME NEW k \in 1 .. Len(s) - 1 PROVE s[k] < s[k + 1]
    <3>1. k \in DOMAIN s /\ k + 1 \in DOMAIN s /\ k < k + 1
      BY <1>3
    <3>2. QED
      BY <1>2, <3>1 DEF Rising
  <2>2. QED
    BY <2>1
<1>6. ASSUME NEW k \in 1 .. Len(s), NEW i \in 0 .. s[k], task[c][i] # "empty"
      PROVE  \E j \in 1 .. k : s[j] = i
  <2>1. s[k] \in Chunk /\ i \in Chunk /\ i <= s[k] /\ s[k] \in Nat /\ i \in Nat
    BY <1>3, <1>4 DEF Chunk
  <2>2. i \in ToSet(s)
    BY <1>2, <1>3, <1>6, <2>1
  <2>3. PICK j \in DOMAIN s : s[j] = i
    BY <2>2 DEF ToSet
  <2>4. ~(k < j)
    BY <1>2, <1>3, <2>1, <2>3 DEF Rising
  <2>5. j \in 1 .. k
    BY <1>3, <2>4
  <2>6. QED
    BY <2>3, <2>5
<1>7. QED
  BY <1>1, <1>5, <1>6

(* A connection that ended with its client there has all in turn, and so   *)
(* all sent.                                                               *)
LEMMA LossShown == WsInv /\ OrderInv => NothingLost
<1> SUFFICES ASSUME WsInv, OrderInv, NEW c \in Conns, phase[c] = "closed", ~shut[c],
                    NEW i \in 0 .. nextIn[c] - 1, task[c][i] # "empty"
             PROVE  \E k \in DOMAIN delivered[c] : delivered[c][k] = i
  BY DEF NothingLost
<1>1. ~disconnected[c] /\ nextOut[c] = nextIn[c]
  BY DEF OrderInv, GoneIsGone, AllInTurn
<1>2. nextIn[c] \in 0 .. MaxChunks /\ MaxChunks \in Nat
  BY TranscriptionAssumption DEF WsInv, TypeOK
<1>3. i \in Chunk /\ i < nextOut[c]
  BY <1>1, <1>2 DEF Chunk
<1>4. i \in ToSet(delivered[c])
  BY <1>1, <1>3 DEF OrderInv, UpToDate
<1>5. QED
  BY <1>4 DEF ToSet

(* The payloads of a connection leave in the order its audio came in, each *)
(* once, and none is overtaken, whatever order the tasks finish in, and    *)
(* whenever the client goes (websocket.py, _collect and _flush).           *)
THEOREM ChunksLeaveInOrder == Spec => []InOrder
<1>1. Spec => [](WsInv /\ OrderInv)
  BY WsInit, WsNext, OrderInit, OrderNext, PTL DEF Spec
<1>2. QED
  BY <1>1, OrderShown, PTL

(* A client that stays gets the payload of every chunk it sent: the        *)
(* handler's last drain leaves nothing waiting (websocket.py, the drain    *)
(* after the loop).                                                        *)
THEOREM NoChunkIsLost == Spec => []NothingLost
<1>1. Spec => [](WsInv /\ OrderInv)
  BY WsInit, WsNext, OrderInit, OrderNext, PTL DEF Spec
<1>2. QED
  BY <1>1, LossShown, PTL

-----------------------------------------------------------------------------
(* The hook that speaks to the server.                                     *)

Heard == [conn : Conns, chunk : Chunk]
Pending == {<<>>, <<"data", "stop">>, <<"stop">>, <<"restart">>}
Job == [conn : Conns, segment : Nat, chain : Nat]

(* A recorder in state r with events e and n segments, on a socket in      *)
(* state w: it runs again only when it has delivered, and runs on no       *)
(* socket that was never open.                                             *)
Recorded(w, r, e, n) ==
  /\ r = "recording" => e = <<>>
  /\ w \in {"none", "connecting"} => r = "none" /\ e = <<>> /\ n = 0
  /\ e = <<"data", "stop">> => n # 0

RecordersHold == \A c \in Conns : Recorded(ws[c], rec[c], events[c], recorded[c])

(* How many of n segments have been handed over; and what of a connection  *)
(* was chained to be uploaded.                                             *)
Cut(e, n) == IF e = <<"data", "stop">> THEN n - 1 ELSE n

Uploads(c) == {k \in DOMAIN jobs : jobs[k].conn = c /\ jobs[k].segment # SayStopNow}

(* All that was handed over was chained, in its order.                     *)
JobsInOrder ==
  \A c \in Conns :
    /\ \A j, k \in Uploads(c) : j < k => jobs[j].segment < jobs[k].segment
    /\ \A k \in Uploads(c) : jobs[k].segment <= Cut(events[c], recorded[c])
    /\ \A i \in 1 .. Cut(events[c], recorded[c]) :
         \E k \in Uploads(c) : jobs[k].segment = i

(* A session that nobody displaced has all it chained on one chain, that   *)
(* of the ref, for as long as its socket lives.                            *)
Chains ==
  /\ chain <= Len(jobs)
  /\ \A k \in DOMAIN jobs : jobs[k].chain < k
  /\ \A k \in DOMAIN jobs : ws[jobs[k].conn] \notin {"none", "connecting"}
  /\ \A k \in DOMAIN jobs : jobs[k].conn = sock => jobs[k].chain = chain
  /\ \A c \in Conns \ orphans : ws[c] \in {"connecting", "open"} => sock = c

(* The segments of a connection whose upload has run.                      *)
Gone(c) == {jobs[k].segment : k \in Uploads(c) \cap ran}

(* What was sent had its turn; on such a chain nothing is passed by, and   *)
(* what had its turn was sent or could not be read.                        *)
SentHolds ==
  \A c \in Conns :
    /\ \A i \in DOMAIN sent[c] : sent[c][i] \in Gone(c)
    /\ Len(sent[c]) <= Cardinality(Gone(c))
    /\ c \notin orphans /\ ws[c] = "open" =>
         /\ \A j, k \in Uploads(c) : j < k /\ k \in ran => j \in ran
         /\ \A i \in Gone(c) : i \in lost[c] \/ \E j \in DOMAIN sent[c] : sent[c][j] = i

(* A recorder that runs, or will again, has room for one more segment.     *)
RoomToRecord ==
  \A c \in Conns :
    (\/ rec[c] = "recording"
     \/ sock = c /\ events[c] = <<"restart">>
     \/ sock = c /\ ~stopping /\ events[c] # <<>>) => recorded[c] < MaxChunks

(* The server has got no more audio than was sent.                         *)
OnTheWire == \A c \in Conns : nextIn[c] + Uploading(c) <= Len(sent[c])

(* What is heard was said by one session, in its order.                    *)
OneVoice(h, top, c) ==
  /\ \A j, k \in DOMAIN h : j < k => h[j].conn = h[k].conn /\ h[j].chunk < h[k].chunk
  /\ \A k \in DOMAIN h : h[k].chunk <= top
  /\ c # NoConn => \A k \in DOMAIN h : h[k].conn = c

DraftHolds ==
  orphans = {} => /\ OneVoice(texts \o queue, latest, sock)
                  /\ sock = NoConn => queue = <<>>

HookTypes ==
  /\ events \in [Conns -> Pending]
  /\ jobs \in Seq(Job) /\ ran \subseteq DOMAIN jobs /\ chain \in Nat
  /\ sent \in [Conns -> Seq(Nat)] /\ lost \in [Conns -> SUBSET Nat]
  /\ recorded \in [Conns -> 0 .. MaxChunks]
  /\ queue \in Seq(Heard) /\ texts \in Seq(Heard)
  /\ starts \in 0 .. MaxStarts /\ asking <= starts

(* The uploads' part, and the inductive invariant of the two together.     *)
UploadsHold == RecordersHold /\ JobsInOrder /\ Chains /\ SentHolds /\ UploadsInOrder

HookInv ==
  /\ HookTypes /\ HookSound
  /\ UploadsHold /\ RoomToRecord /\ OnTheWire /\ DraftHolds

-----------------------------------------------------------------------------
(* A recorder is stopped: its last segment will come.                      *)
LEMMA RecorderStopped ==
  ASSUME NEW w, NEW e, NEW n \in Nat, Recorded(w, "recording", e, n)
  PROVE  /\ Recorded(w, "inactive", e \o <<"data", "stop">>, n + 1)
         /\ Cut(e \o <<"data", "stop">>, n + 1) = Cut(e, n)
         /\ e = <<>> /\ e \o <<"data", "stop">> = <<"data", "stop">>
         /\ w \notin {"none", "connecting"}
<1>1. e = <<>> /\ w \notin {"none", "connecting"}
  BY DEF Recorded
<1>2. e \o <<"data", "stop">> = <<"data", "stop">> /\ e # <<"data", "stop">>
  BY <1>1
<1>3. (n + 1) - 1 = n /\ n + 1 # 0
  OBVIOUS
<1>4. QED
  BY <1>1, <1>2, <1>3 DEF Recorded, Cut

(* The events of a stopped recorder, and the timer that restarts it.       *)
LEMMA EventsRun ==
  ASSUME NEW w, NEW r, NEW e \in Pending, NEW n \in Nat, Recorded(w, r, e, n), e # <<>>
  PROVE  /\ Tail(e) \in Pending /\ w \notin {"none", "connecting"} /\ r # "recording"
         /\ Recorded(w, r, Tail(e), n)
         /\ Head(e) = "data" =>
              /\ e = <<"data", "stop">> /\ Tail(e) = <<"stop">> /\ n # 0
         /\ Head(e) = "stop" =>
              /\ e = <<"stop">>
              /\ Tail(e) = <<>> /\ Append(Tail(e), "restart") = <<"restart">>
              /\ Recorded(w, r, Append(Tail(e), "restart"), n)
         /\ Head(e) = "restart" =>
              /\ e = <<"restart">> /\ Tail(e) = <<>>
              /\ Recorded(w, "recording", Tail(e), n)
<1>1. /\ Tail(<<"data", "stop">>) = <<"stop">> /\ Head(<<"data", "stop">>) = "data"
      /\ Tail(<<"stop">>) = <<>> /\ Head(<<"stop">>) = "stop"
      /\ Tail(<<"restart">>) = <<>> /\ Head(<<"restart">>) = "restart"
      /\ Append(<<>>, "restart") = <<"restart">>
      /\ <<"stop">> # <<"data", "stop">> /\ <<"restart">> # <<"data", "stop">>
      /\ <<>> # <<"data", "stop">>
  OBVIOUS
<1>2. r # "recording" /\ w \notin {"none", "connecting"}
  BY DEF Recorded
<1>3. \A d : d # <<"data", "stop">> => Recorded(w, r, d, n)
  BY <1>2 DEF Recorded
<1>4. Recorded(w, "recording", <<>>, n)
  BY <1>1, <1>2 DEF Recorded
<1>5. e = <<"data", "stop">> \/ e = <<"stop">> \/ e = <<"restart">>
  BY DEF Pending
<1>6. e = <<"data", "stop">> => n # 0
  BY DEF Recorded
<1>7. QED
  BY <1>1, <1>2, <1>3, <1>4, <1>5, <1>6 DEF Pending

(* How much is handed over, by what is left of the events.                 *)
LEMMA CutOf ==
  ASSUME NEW n
  PROVE  /\ Cut(<<"data", "stop">>, n) = n - 1 /\ Cut(<<"stop">>, n) = n
         /\ Cut(<<"restart">>, n) = n /\ Cut(<<>>, n) = n
<1>1. /\ <<"stop">> # <<"data", "stop">> /\ <<"restart">> # <<"data", "stop">>
      /\ <<>> # <<"data", "stop">>
  OBVIOUS
<1>2. QED
  BY <1>1 DEF Cut

-----------------------------------------------------------------------------
(* A set of numbers up to n has at most n.                                 *)
LEMMA NoMoreThan ==
  ASSUME NEW n \in Nat, NEW G \in SUBSET (1 .. n)
  PROVE  IsFiniteSet(G) /\ Cardinality(G) \in Nat /\ Cardinality(G) <= n
<1>1. IsFiniteSet(1 .. n) /\ Cardinality(1 .. n) = n
  BY FS_Interval
<1>2. QED
  BY <1>1, FS_Subset, FS_CardinalityType

(* The fields of what is chained.                                          *)
LEMMA JobFields ==
  ASSUME jobs \in Seq(Job)
  PROVE  /\ DOMAIN jobs \subseteq Nat
         /\ \A k \in DOMAIN jobs : /\ jobs[k] \in Job /\ jobs[k].conn \in Conns
                                   /\ jobs[k].segment \in Nat /\ jobs[k].chain \in Nat
<1>1. \A k \in DOMAIN jobs : jobs[k] \in Job
  OBVIOUS
<1>2. DOMAIN jobs = 1 .. Len(jobs)
  BY LenProperties
<1>3. \A j \in Job : j.conn \in Conns /\ j.segment \in Nat /\ j.chain \in Nat
  BY DEF Job
<1>4. QED
  BY <1>1, <1>2, <1>3

(* One more is chained: the places of what was chained before stay.        *)
LEMMA JobChained ==
  ASSUME jobs \in Seq(Job), NEW j \in Job, jobs' = Append(jobs, j)
  PROVE  /\ jobs' \in Seq(Job)
         /\ Len(jobs) \in Nat /\ Len(jobs') = Len(jobs) + 1
         /\ DOMAIN jobs \subseteq Nat /\ \A k \in DOMAIN jobs : k < Len(jobs) + 1
         /\ DOMAIN jobs' = DOMAIN jobs \cup {Len(jobs) + 1}
         /\ Len(jobs) + 1 \notin DOMAIN jobs
         /\ \A k \in DOMAIN jobs : jobs'[k] = jobs[k]
         /\ jobs'[Len(jobs) + 1] = j
<1>1. /\ jobs' \in Seq(Job) /\ Len(jobs') = Len(jobs) + 1
      /\ jobs'[Len(jobs) + 1] = j
      /\ \A k \in 1 .. Len(jobs) : jobs'[k] = jobs[k]
  BY AppendProperties
<1>2. Len(jobs) \in Nat /\ DOMAIN jobs = 1 .. Len(jobs) /\ DOMAIN jobs' = 1 .. Len(jobs) + 1
  BY <1>1, LenProperties
<1>3. PICK n \in Nat : n = Len(jobs)
  BY <1>2
<1>4. 1 .. n + 1 = (1 .. n) \cup {n + 1} /\ n + 1 \notin 1 .. n /\ \A k \in 1 .. n : k < n + 1
  OBVIOUS
<1>5. QED
  BY <1>1, <1>2, <1>3, <1>4

(* What waits on the chains is as it was.                                  *)
LEMMA JobsStay ==
  ASSUME HookTypes, JobsInOrder, SentHolds, UploadsInOrder,
         UNCHANGED <<jobs, sent, lost>>, orphans \subseteq orphans',
         \A k \in DOMAIN jobs : jobs[k].segment # SayStopNow => (k \in ran' <=> k \in ran),
         \A c \in Conns : Cut(events'[c], recorded'[c]) = Cut(events[c], recorded[c]),
         \A c \in Conns : ws'[c] = "open" =>
           ws[c] = "open" \/ \A k \in DOMAIN jobs : jobs[k].conn # c
  PROVE  JobsInOrder' /\ SentHolds' /\ UploadsInOrder'
<1>0. \A c \in Conns : /\ Uploads(c)' = Uploads(c)
                       /\ \A k \in Uploads(c) : k \in ran' <=> k \in ran
  BY DEF Uploads
<1>1. \A c \in Conns : Uploads(c)' = Uploads(c) /\ Gone(c)' = Gone(c)
  <2>1. \A c \in Conns : Uploads(c) \cap ran' = Uploads(c) \cap ran
    BY <1>0
  <2>2. QED
    BY <1>0, <2>1 DEF Gone
<1>2. JobsInOrder'
  BY <1>1 DEF JobsInOrder
<1>3. \A c \in Conns : (\A k \in DOMAIN jobs : jobs[k].conn # c) =>
        Uploads(c) = {} /\ Gone(c) = {}
  BY DEF Uploads, Gone
<1>4. SentHolds'
  <2>1. ASSUME NEW c \in Conns
        PROVE  /\ \A i \in DOMAIN sent[c] : sent[c][i] \in Gone(c)
               /\ Len(sent[c]) <= Cardinality(Gone(c))
    BY DEF SentHolds
  <2>2. ASSUME NEW c \in Conns, c \notin orphans', ws'[c] = "open"
        PROVE  /\ \A j, k \in Uploads(c) : j < k /\ k \in ran => j \in ran
               /\ \A i \in Gone(c) : i \in lost[c] \/ \E j \in DOMAIN sent[c] : sent[c][j] = i
    <3>1. CASE ws[c] = "open"
      BY <2>2, <3>1 DEF SentHolds
    <3>2. CASE \A k \in DOMAIN jobs : jobs[k].conn # c
      BY <1>3, <3>2
    <3>3. QED
      BY <2>2, <3>1, <3>2
  <2>3. QED
    BY <1>0, <1>1, <2>1, <2>2 DEF SentHolds
<1>5. UploadsInOrder'
  BY DEF UploadsInOrder
<1>6. QED
  BY <1>2, <1>4, <1>5

(* What is chained for a session waits behind what the session chained     *)
(* before: a segment that is handed over, or saying stop.                  *)
LEMMA JobWaits ==
  ASSUME HookTypes, UploadsHold, NEW c \in Conns, NEW segment \in Nat, Chain(c, segment),
         UNCHANGED <<ran, chain, sent, lost, orphans, ws, sock>>,
         ws[c] \notin {"none", "connecting"},
         \A d \in Conns \ {c} : Cut(events'[d], recorded'[d]) = Cut(events[d], recorded[d]),
         Cut(events[c], recorded[c]) \in Int,
         Cut(events'[c], recorded'[c]) = IF segment = SayStopNow
                                         THEN Cut(events[c], recorded[c])
                                         ELSE Cut(events[c], recorded[c]) + 1,
         segment # SayStopNow => segment = Cut(events'[c], recorded'[c])
  PROVE  /\ jobs' \in Seq(Job) /\ ran' \subseteq DOMAIN jobs'
         /\ JobsInOrder' /\ Chains' /\ SentHolds' /\ UploadsInOrder'
<1> DEFINE job == [conn |-> c, segment |-> segment, chain |-> chain]
           n == Len(jobs) + 1
<1>0. jobs \in Seq(Job) /\ ran \subseteq DOMAIN jobs /\ chain \in Nat /\ job \in Job
  BY DEF HookTypes, Job
<1>1. jobs' = Append(jobs, job)
  BY DEF Chain
<1>2. /\ jobs' \in Seq(Job)
      /\ Len(jobs) \in Nat /\ Len(jobs') = n /\ n \in Nat
      /\ DOMAIN jobs \subseteq Nat /\ \A k \in DOMAIN jobs : k < n
      /\ DOMAIN jobs' = DOMAIN jobs \cup {n}
      /\ n \notin DOMAIN jobs
      /\ \A k \in DOMAIN jobs : jobs'[k] = jobs[k]
      /\ jobs'[n] = job
  <2>1. Len(jobs) \in Nat
    BY <1>0, LenProperties
  <2>2. QED
    BY <1>0, <1>1, <2>1, JobChained
<1>3. job.conn = c /\ job.segment = segment /\ job.chain = chain
  OBVIOUS
<1>4. \A k \in DOMAIN jobs : jobs[k] \in Job /\ jobs[k].segment \in Nat /\ jobs[k].chain \in Nat
  BY <1>0, JobFields
<1> HIDE DEF job, n
<1>5. \A d \in Conns : Uploads(d)' = IF d = c /\ segment # SayStopNow
                                     THEN Uploads(d) \cup {n} ELSE Uploads(d)
  BY <1>2, <1>3 DEF Uploads
<1>6. \A d \in Conns : Uploads(d)' \cap ran = Uploads(d) \cap ran /\ Uploads(d) \subseteq DOMAIN jobs
  BY <1>0, <1>2, <1>5 DEF Uploads
<1>7. \A d \in Conns : Gone(d)' = Gone(d)
  BY <1>2, <1>6 DEF Gone
<1>8. JobsInOrder'
  <2>1. ASSUME NEW d \in Conns
        PROVE  /\ \A j, k \in Uploads(d)' : j < k => jobs'[j].segment < jobs'[k].segment
               /\ \A k \in Uploads(d)' : jobs'[k].segment <= Cut(events'[d], recorded'[d])
               /\ \A i \in 1 .. Cut(events'[d], recorded'[d]) :
                    \E k \in Uploads(d)' : jobs'[k].segment = i
    <3>1. /\ \A j, k \in Uploads(d) : j < k => jobs'[j].segment < jobs'[k].segment
          /\ \A k \in Uploads(d) : jobs'[k].segment <= Cut(events[d], recorded[d])
          /\ \A i \in 1 .. Cut(events[d], recorded[d]) :
               \E k \in Uploads(d) : jobs'[k].segment = i
          /\ \A k \in Uploads(d) : jobs'[k].segment \in Nat /\ k \in Nat /\ k < n
      BY <1>2, <1>4, <1>6 DEF UploadsHold, JobsInOrder
    <3>2. CASE d = c /\ segment # SayStopNow
      <4>1. PICK m \in Int : m = Cut(events[c], recorded[c])
        OBVIOUS
      <4>2. jobs'[n].segment = m + 1 /\ Cut(events'[c], recorded'[c]) = m + 1
        BY <1>2, <1>3, <3>2, <4>1
      <4>3. Uploads(d)' = Uploads(d) \cup {n}
        BY <1>5, <3>2
      <4>4. \A k \in Uploads(d) : jobs'[k].segment <= m + 1 /\ jobs'[k].segment < m + 1
        BY <3>1, <3>2, <4>1
      <4>5. \A i \in 1 .. m + 1 : i \in 1 .. m \/ i = m + 1
        OBVIOUS
      <4>6. \A j, k \in Uploads(d)' : j < k => jobs'[j].segment < jobs'[k].segment
        <5>1. ASSUME NEW j \in Uploads(d)', NEW k \in Uploads(d)', j < k
              PROVE  jobs'[j].segment < jobs'[k].segment
          <6>1. j # n
            BY <1>2, <3>1, <4>3, <5>1
          <6>2. QED
            BY <3>1, <4>2, <4>3, <4>4, <5>1, <6>1
        <5>2. QED
          BY <5>1
      <4>7. \A k \in Uploads(d)' : jobs'[k].segment <= Cut(events'[d], recorded'[d])
        BY <3>2, <4>2, <4>3, <4>4
      <4>8. \A i \in 1 .. Cut(events'[d], recorded'[d]) :
              \E k \in Uploads(d)' : jobs'[k].segment = i
        BY <3>1, <3>2, <4>1, <4>2, <4>3, <4>5
      <4>9. QED
        BY <4>6, <4>7, <4>8
    <3>3. CASE ~(d = c /\ segment # SayStopNow)
      <4>1. /\ Uploads(d)' = Uploads(d)
            /\ Cut(events'[d], recorded'[d]) = Cut(events[d], recorded[d])
        BY <1>5, <3>3
      <4>2. QED
        BY <3>1, <4>1
    <3>4. QED
      BY <3>2, <3>3
  <2>2. QED
    BY <2>1 DEF JobsInOrder
<1>9. Chains'
  <2>1. /\ chain <= Len(jobs)
        /\ \A k \in DOMAIN jobs : jobs[k].chain < k
        /\ \A k \in DOMAIN jobs : ws[jobs[k].conn] \notin {"none", "connecting"}
        /\ \A k \in DOMAIN jobs : jobs[k].conn = sock => jobs[k].chain = chain
        /\ \A d \in Conns \ orphans : ws[d] \in {"connecting", "open"} => sock = d
    BY DEF UploadsHold, Chains
  <2>2. chain < n /\ chain <= n
    BY <1>0, <1>2, <2>1 DEF n
  <2>3. QED
    BY <1>2, <1>3, <2>1, <2>2 DEF Chains
<1>10. SentHolds'
  <2>1. ASSUME NEW d \in Conns, d \notin orphans', ws'[d] = "open"
        PROVE  \A j, k \in Uploads(d)' : j < k /\ k \in ran => j \in ran
    <3>1. ASSUME NEW j \in Uploads(d)', NEW k \in Uploads(d)', j < k, k \in ran
          PROVE  j \in ran
      <4>1. k \in Uploads(d) /\ k < n /\ k \in Nat /\ j # n
        BY <1>0, <1>2, <1>6, <3>1
      <4>2. j \in Uploads(d)
        BY <1>5, <4>1
      <4>3. QED
        BY <2>1, <3>1, <4>1, <4>2 DEF UploadsHold, SentHolds
    <3>2. QED
      BY <3>1
  <2>2. QED
    BY <1>7, <2>1 DEF UploadsHold, SentHolds
<1>11. UploadsInOrder'
  BY DEF UploadsHold, UploadsInOrder
<1>12. ran' \subseteq DOMAIN jobs'
  BY <1>0, <1>2
<1>13. QED
  BY <1>2, <1>8, <1>9, <1>10, <1>11, <1>12

(* The job whose turn it is runs: on the chain of a session in good        *)
(* standing all that the session chained before it has run.                *)
LEMMA TurnTaken ==
  ASSUME HookTypes, UploadsHold, NEW k \in DOMAIN jobs, InTurn(k), NEW c \in Conns,
         jobs[k].conn = c
  PROVE  /\ k \notin ran /\ jobs[k].segment \in Nat
         /\ \A i \in Uploads(c) \cap ran : k \in Uploads(c) => jobs[i].segment # jobs[k].segment
         /\ jobs[k].segment # SayStopNow => jobs[k].segment \notin Gone(c)
         /\ c \notin orphans /\ ws[c] = "open" =>
              \A j \in DOMAIN jobs : jobs[j].conn = c /\ j < k => j \in ran
<1>1. k \notin ran /\ jobs[k].chain + 1 .. k - 1 \subseteq ran
  BY DEF InTurn
<1>2. /\ jobs \in Seq(Job) /\ DOMAIN jobs \subseteq Nat
      /\ \A j \in DOMAIN jobs : jobs[j].segment \in Nat /\ jobs[j].chain \in Nat
  BY JobFields DEF HookTypes
<1>3. ASSUME NEW i \in Uploads(c) \cap ran, k \in Uploads(c)
      PROVE  jobs[i].segment # jobs[k].segment
  <2>1. i \in DOMAIN jobs /\ i # k
    BY <1>1 DEF Uploads
  <2>2. i < k \/ k < i
    BY <1>2, <2>1
  <2>3. jobs[i].segment < jobs[k].segment \/ jobs[k].segment < jobs[i].segment
    BY <1>3, <2>2 DEF UploadsHold, JobsInOrder
  <2>4. QED
    BY <1>2, <2>1, <2>3
<1>4. ASSUME jobs[k].segment # SayStopNow PROVE jobs[k].segment \notin Gone(c)
  <2>1. k \in Uploads(c)
    BY <1>4 DEF Uploads
  <2>2. QED
    BY <1>3, <2>1 DEF Gone
<1>5. ASSUME c \notin orphans, ws[c] = "open", NEW j \in DOMAIN jobs, jobs[j].conn = c, j < k
      PROVE  j \in ran
  <2>1. jobs[j].chain = chain /\ jobs[k].chain = chain /\ jobs[j].chain < j
    BY <1>5 DEF UploadsHold, Chains
  <2>2. j \in jobs[k].chain + 1 .. k - 1
    BY <1>2, <1>5, <2>1
  <2>3. QED
    BY <1>1, <2>2
<1>6. QED
  BY <1>1, <1>2, <1>3, <1>4, <1>5

(* It is sent; or nothing is, for its blob or because the socket is not    *)
(* open; or it only says stop.                                             *)
LEMMA RunKeeps ==
  ASSUME HookTypes, UploadsHold, NEW k \in DOMAIN jobs, InTurn(k), NEW c \in Conns,
         jobs[k].conn = c, ran' = ran \cup {k},
         UNCHANGED <<jobs, chain, orphans, ws, sock, events, recorded>>,
         \/ /\ ws[c] = "open" /\ jobs[k].segment # SayStopNow
            /\ sent' = [sent EXCEPT ![c] = Append(@, jobs[k].segment)] /\ UNCHANGED lost
         \/ /\ ws[c] # "open" \/ jobs[k].segment = SayStopNow
            /\ UNCHANGED <<sent, lost>>
         \/ /\ jobs[k].segment # SayStopNow
            /\ lost' = [lost EXCEPT ![c] = @ \cup {jobs[k].segment}] /\ UNCHANGED sent
  PROVE  /\ ran' \subseteq DOMAIN jobs' /\ sent' \in [Conns -> Seq(Nat)]
         /\ lost' \in [Conns -> SUBSET Nat]
         /\ JobsInOrder' /\ Chains' /\ SentHolds' /\ UploadsInOrder'
<1> DEFINE s == jobs[k].segment
<1>0. /\ jobs \in Seq(Job) /\ ran \subseteq DOMAIN jobs /\ DOMAIN jobs \subseteq Nat
      /\ sent \in [Conns -> Seq(Nat)] /\ lost \in [Conns -> SUBSET Nat]
      /\ recorded \in [Conns -> 0 .. MaxChunks] /\ MaxChunks \in Nat
      /\ \A j \in DOMAIN jobs : jobs[j].segment \in Nat
  BY TranscriptionAssumption, JobFields DEF HookTypes
<1>1. /\ k \notin ran /\ s \in Nat
      /\ s # SayStopNow => s \notin Gone(c)
      /\ c \notin orphans /\ ws[c] = "open" =>
           \A j \in DOMAIN jobs : jobs[j].conn = c /\ j < k => j \in ran
  BY TurnTaken
<1>2. \A d \in Conns : Uploads(d)' = Uploads(d) /\ Uploads(d) \subseteq DOMAIN jobs
  BY DEF Uploads
<1>3. k \in Uploads(c) <=> s # SayStopNow
  BY DEF Uploads
<1>4. \A d \in Conns : d # c => k \notin Uploads(d)
  BY DEF Uploads
<1>5. \A d \in Conns : Gone(d)' = IF d = c /\ s # SayStopNow THEN Gone(d) \cup {s} ELSE Gone(d)
  <2>1. ASSUME NEW d \in Conns
        PROVE  Gone(d)' = IF d = c /\ s # SayStopNow THEN Gone(d) \cup {s} ELSE Gone(d)
    <3>1. Gone(d)' = {jobs[j].segment : j \in Uploads(d) \cap (ran \cup {k})}
      BY <1>2 DEF Gone
    <3>2. CASE d = c /\ s # SayStopNow
      <4>1. k \in Uploads(d)
        BY <1>3, <3>2
      <4>2. QED
        BY <3>1, <3>2, <4>1 DEF Gone
    <3>3. CASE ~(d = c /\ s # SayStopNow)
      <4>1. k \notin Uploads(d)
        BY <1>3, <1>4, <3>3
      <4>2. QED
        BY <3>1, <3>3, <4>1 DEF Gone
    <3>4. QED
      BY <3>2, <3>3
  <2>2. QED
    BY <2>1
<1>6. \A d \in Conns : Gone(d) \subseteq 1 .. recorded[d]
  <2>1. ASSUME NEW d \in Conns, NEW j \in Uploads(d)
        PROVE  jobs[j].segment \in 1 .. recorded[d]
    <3>1. jobs[j].segment \in Nat /\ jobs[j].segment # 0 /\ recorded[d] \in Nat
      BY <1>0, <1>2 DEF Uploads, SayStopNow
    <3>2. jobs[j].segment <= Cut(events[d], recorded[d])
      BY DEF UploadsHold, JobsInOrder
    <3>3. Cut(events[d], recorded[d]) = recorded[d] \/ Cut(events[d], recorded[d]) = recorded[d] - 1
      BY DEF Cut
    <3>4. QED
      BY <3>1, <3>2, <3>3
  <2>2. QED
    BY <2>1 DEF Gone
<1>7. ASSUME NEW d \in Conns
      PROVE  IsFiniteSet(Gone(d)) /\ Cardinality(Gone(d)) \in Nat
  <2>1. recorded[d] \in Nat /\ Gone(d) \in SUBSET (1 .. recorded[d])
    BY <1>0, <1>6
  <2>2. QED
    BY <2>1, NoMoreThan
<1>8. s # SayStopNow => /\ Cardinality(Gone(c) \cup {s}) = Cardinality(Gone(c)) + 1
                        /\ s \notin Gone(c)
  BY <1>1, <1>7, FS_AddElement
<1>9. \A d \in Conns : Len(sent[d]) \in Nat /\ Len(sent[d]) <= Cardinality(Gone(d))
  BY <1>0 DEF UploadsHold, SentHolds
<1> HIDE DEF s
<1>10. ASSUME NEW d \in Conns, d \notin orphans, ws[d] = "open"
       PROVE  \A i, j \in Uploads(d) : i < j /\ j \in ran \cup {k} => i \in ran \cup {k}
  <2>1. ASSUME NEW i \in Uploads(d), NEW j \in Uploads(d), i < j, j \in ran \cup {k}
        PROVE  i \in ran \cup {k}
    <3>1. CASE j \in ran
      BY <1>10, <2>1, <3>1 DEF UploadsHold, SentHolds
    <3>2. CASE j = k
      <4>1. d = c /\ i \in DOMAIN jobs /\ jobs[i].conn = c
        BY <2>1, <3>2 DEF Uploads
      <4>2. QED
        BY <1>1, <1>10, <2>1, <3>2, <4>1
    <3>3. QED
      BY <2>1, <3>1, <3>2
  <2>2. QED
    BY <2>1
<1>11. JobsInOrder'
  BY <1>2 DEF UploadsHold, JobsInOrder
<1>12. Chains'
  BY DEF UploadsHold, Chains
<1>13. CASE /\ ws[c] = "open" /\ s # SayStopNow
            /\ sent' = [sent EXCEPT ![c] = Append(@, s)] /\ UNCHANGED lost
  <2> DEFINE p == Len(sent[c])
             t == Append(sent[c], s)
  <2>1. /\ sent' \in [Conns -> Seq(Nat)] /\ sent'[c] = t
        /\ \A d \in Conns : d # c => sent'[d] = sent[d]
    BY <1>0, <1>1, <1>13
  <2>2. /\ p \in Nat /\ Len(t) = p + 1 /\ DOMAIN t = 1 .. p + 1 /\ DOMAIN sent[c] = 1 .. p
        /\ t[p + 1] = s /\ \A i \in 1 .. p : t[i] = sent[c][i]
    <3>1. sent[c] \in Seq(Nat) /\ s \in Nat
      BY <1>0, <1>1
    <3>2. QED
      BY <3>1, AppendProperties, LenProperties
  <2> HIDE DEF p, t
  <2>3. 1 .. p + 1 = (1 .. p) \cup {p + 1} /\ \A i \in 1 .. p : i < p + 1
    BY <2>2
  <2>4. SentHolds'
    <3>1. ASSUME NEW d \in Conns
          PROVE  /\ \A i \in DOMAIN sent'[d] : sent'[d][i] \in Gone(d)'
                 /\ Len(sent'[d]) <= Cardinality(Gone(d)')
                 /\ d \notin orphans' /\ ws'[d] = "open" =>
                      /\ \A j, i \in Uploads(d)' : j < i /\ i \in ran' => j \in ran'
                      /\ \A i \in Gone(d)' :
                           i \in lost'[d] \/ \E j \in DOMAIN sent'[d] : sent'[d][j] = i
      <4>1. CASE d = c
        <5>1. \A i \in DOMAIN sent'[d] : sent'[d][i] \in Gone(d)'
          BY <1>5, <1>13, <2>1, <2>2, <2>3, <4>1 DEF UploadsHold, SentHolds
        <5>2. Len(sent'[d]) <= Cardinality(Gone(d)')
          <6>1. Gone(d)' = Gone(c) \cup {s}
            BY <1>5, <1>13, <4>1
          <6>2. p <= Cardinality(Gone(c)) /\ Cardinality(Gone(c)) \in Nat
            BY <1>7, <1>9 DEF p
          <6>3. p + 1 <= Cardinality(Gone(c)) + 1
            BY <2>2, <6>2
          <6>4. QED
            BY <1>8, <1>13, <2>1, <2>2, <4>1, <6>1, <6>3
        <5>3. ASSUME d \notin orphans', ws'[d] = "open", NEW i \in Gone(d)'
              PROVE  i \in lost'[d] \/ \E j \in DOMAIN sent'[d] : sent'[d][j] = i
          <6>1. CASE i = s
            BY <2>1, <2>2, <2>3, <4>1, <6>1
          <6>2. CASE i \in Gone(c)
            <7>1. i \in lost[c] \/ \E j \in DOMAIN sent[c] : sent[c][j] = i
              BY <4>1, <5>3, <6>2 DEF UploadsHold, SentHolds
            <7>2. QED
              BY <1>13, <2>1, <2>2, <2>3, <4>1, <7>1
          <6>3. QED
            BY <1>5, <1>13, <4>1, <5>3, <6>1, <6>2
        <5>4. QED
          BY <1>2, <1>10, <5>1, <5>2, <5>3
      <4>2. CASE d # c
        <5>1. Gone(d)' = Gone(d) /\ sent'[d] = sent[d] /\ lost'[d] = lost[d]
          BY <1>5, <1>13, <2>1, <4>2
        <5>2. QED
          BY <1>2, <1>10, <5>1 DEF UploadsHold, SentHolds
      <4>3. QED
        BY <4>1, <4>2
    <3>2. QED
      BY <3>1 DEF SentHolds
  <2>5. UploadsInOrder'
    <3>1. ASSUME NEW d \in Conns \ orphans'
          PROVE  /\ \A i, j \in DOMAIN sent'[d] : i < j => sent'[d][i] < sent'[d][j]
                 /\ \A j \in DOMAIN sent'[d] : \A i \in 1 .. sent'[d][j] - 1 :
                      i \in lost'[d] \/ \E x \in DOMAIN sent'[d] : sent'[d][x] = i
      <4>1. CASE d = c
        <5>1. \A i \in DOMAIN sent[c] : sent[c][i] < s
          <6>1. ASSUME NEW i \in DOMAIN sent[c] PROVE sent[c][i] < s
            <7>0. sent[c][i] \in Gone(c)
              BY DEF UploadsHold, SentHolds
            <7>1. PICK j \in Uploads(c) \cap ran : jobs[j].segment = sent[c][i]
              BY <7>0 DEF Gone
            <7>2. k \in Uploads(c) /\ j # k /\ k \in Nat /\ j \in Nat
              BY <1>0, <1>1, <1>2, <1>3, <1>13
            <7>3. ~(k < j)
              BY <1>1, <1>13, <3>1, <4>1, <7>1, <7>2 DEF UploadsHold, SentHolds
            <7>4. j < k
              BY <7>2, <7>3
            <7>5. QED
              BY <7>1, <7>2, <7>4 DEF UploadsHold, JobsInOrder, s
          <6>2. QED
            BY <6>1
        <5>2. \A i \in 1 .. s - 1 : i \in lost[c] \/ \E x \in DOMAIN sent[c] : sent[c][x] = i
          <6>1. ASSUME NEW i \in 1 .. s - 1
                PROVE  i \in lost[c] \/ \E x \in DOMAIN sent[c] : sent[c][x] = i
            <7>1. s <= Cut(events[c], recorded[c]) /\ k \in Uploads(c)
              BY <1>3, <1>13 DEF UploadsHold, JobsInOrder, s
            <7>2. Cut(events[c], recorded[c]) \in Int
              BY <1>0 DEF Cut
            <7>3. i \in 1 .. Cut(events[c], recorded[c]) /\ i < s /\ i \in Nat
              BY <1>1, <7>1, <7>2
            <7>4. PICK j \in Uploads(c) : jobs[j].segment = i
              BY <7>3 DEF UploadsHold, JobsInOrder
            <7>5. j \in Nat /\ k \in Nat /\ j # k
              BY <1>0, <1>2, <7>1, <7>3, <7>4 DEF s
            <7>6. ~(k < j)
              <8>1. k < j => s < i
                BY <7>1, <7>4 DEF UploadsHold, JobsInOrder, s
              <8>2. QED
                BY <1>1, <7>3, <8>1
            <7>7. j \in ran
              BY <1>1, <1>13, <3>1, <4>1, <7>4, <7>5, <7>6 DEF Uploads
            <7>8. i \in Gone(c)
              BY <7>4, <7>7 DEF Gone
            <7>9. QED
              BY <1>13, <3>1, <4>1, <7>8 DEF UploadsHold, SentHolds
          <6>2. QED
            BY <6>1
        <5>3. /\ \A i, j \in DOMAIN sent[c] : i < j => sent[c][i] < sent[c][j]
              /\ \A j \in DOMAIN sent[c] : \A i \in 1 .. sent[c][j] - 1 :
                   i \in lost[c] \/ \E x \in DOMAIN sent[c] : sent[c][x] = i
          BY <3>1, <4>1 DEF UploadsHold, UploadsInOrder
        <5>4. \A i, j \in DOMAIN t : i < j => t[i] < t[j]
          <6>1. ASSUME NEW i \in DOMAIN t, NEW j \in DOMAIN t, i < j
                PROVE  t[i] < t[j]
            <7>1. i \in 1 .. p
              BY <2>2, <6>1
            <7>2. QED
              BY <2>2, <2>3, <5>1, <5>3, <6>1, <7>1
          <6>2. QED
            BY <6>1
        <5>5. \A j \in DOMAIN t : \A i \in 1 .. t[j] - 1 :
                i \in lost[c] \/ \E x \in DOMAIN t : t[x] = i
          <6>1. ASSUME NEW j \in DOMAIN t, NEW i \in 1 .. t[j] - 1
                PROVE  i \in lost[c] \/ \E x \in DOMAIN sent[c] : sent[c][x] = i
            <7>1. CASE j = p + 1
              BY <2>2, <5>2, <6>1, <7>1
            <7>2. CASE j \in 1 .. p
              BY <2>2, <5>3, <6>1, <7>2
            <7>3. QED
              BY <2>2, <2>3, <7>1, <7>2
          <6>2. \A x \in DOMAIN sent[c] : x \in DOMAIN t /\ t[x] = sent[c][x]
            BY <2>2, <2>3
          <6>3. QED
            BY <6>1, <6>2
        <5>6. lost'[d] = lost[c] /\ sent'[d] = t
          BY <1>13, <2>1, <4>1
        <5>7. QED
          BY <5>4, <5>5, <5>6
      <4>2. CASE d # c
        BY <1>13, <2>1, <3>1, <4>2 DEF UploadsHold, UploadsInOrder
      <4>3. QED
        BY <4>1, <4>2
    <3>2. QED
      BY <3>1 DEF UploadsInOrder
  <2>6. QED
    BY <1>0, <1>11, <1>12, <1>13, <2>1, <2>4, <2>5
<1>14. CASE \/ (ws[c] # "open" \/ s = SayStopNow) /\ UNCHANGED <<sent, lost>>
            \/ /\ s # SayStopNow
               /\ lost' = [lost EXCEPT ![c] = @ \cup {s}] /\ UNCHANGED sent
  <2>1. /\ sent' = sent /\ lost' \in [Conns -> SUBSET Nat]
        /\ \A d \in Conns : lost[d] \subseteq lost'[d]
        /\ s # SayStopNow /\ ws[c] = "open" => s \in lost'[c]
    <3>1. CASE (ws[c] # "open" \/ s = SayStopNow) /\ UNCHANGED <<sent, lost>>
      BY <1>0, <3>1
    <3>2. CASE lost' = [lost EXCEPT ![c] = @ \cup {s}] /\ UNCHANGED sent
      <4>1. lost[c] \cup {s} \in SUBSET Nat
        BY <1>0, <1>1
      <4>2. QED
        BY <1>0, <3>2, <4>1
    <3>3. QED
      BY <1>14, <3>1, <3>2
  <2>2. ASSUME NEW d \in Conns
        PROVE  /\ Gone(d) \subseteq Gone(d)'
               /\ Len(sent[d]) <= Cardinality(Gone(d)')
    <3>1. CASE d = c /\ s # SayStopNow
      <4>1. Gone(d)' = Gone(c) \cup {s} /\ Cardinality(Gone(d)') = Cardinality(Gone(c)) + 1
        BY <1>5, <1>8, <3>1
      <4>2. Len(sent[d]) <= Cardinality(Gone(c)) + 1
        BY <1>7, <1>9, <3>1
      <4>3. QED
        BY <4>1, <4>2, <3>1
    <3>2. CASE ~(d = c /\ s # SayStopNow)
      BY <1>5, <1>9, <3>2
    <3>3. QED
      BY <3>1, <3>2
  <2>3. ASSUME NEW d \in Conns, d \notin orphans, ws[d] = "open", NEW i \in Gone(d)'
        PROVE  i \in lost'[d] \/ \E j \in DOMAIN sent[d] : sent[d][j] = i
    <3>1. CASE i \in Gone(d)
      BY <2>1, <2>3, <3>1 DEF UploadsHold, SentHolds
    <3>2. CASE i \notin Gone(d)
      BY <1>5, <2>1, <2>3, <3>2
    <3>3. QED
      BY <3>1, <3>2
  <2>4. SentHolds'
    BY <1>2, <1>10, <2>1, <2>2, <2>3 DEF UploadsHold, SentHolds
  <2>5. UploadsInOrder'
    BY <2>1 DEF UploadsHold, UploadsInOrder
  <2>6. QED
    BY <1>0, <1>11, <1>12, <2>1, <2>4, <2>5
<1>15. QED
  BY <1>13, <1>14 DEF s

-----------------------------------------------------------------------------
(* The draft: what is typed and what is still to be typed.                 *)
LEMMA VoiceOfSequences ==
  ASSUME NEW t \in Seq(Heard), NEW q \in Seq(Heard)
  PROVE  /\ t \o q \in Seq(Heard)
         /\ DOMAIN (t \o q) = 1 .. Len(t) + Len(q)
         /\ Len(t) \in Nat /\ Len(q) \in Nat
         /\ \A k \in 1 .. Len(t) : (t \o q)[k] = t[k]
         /\ \A k \in 1 .. Len(q) : (t \o q)[Len(t) + k] = q[k]
<1>1. /\ t \o q \in Seq(Heard) /\ Len(t \o q) = Len(t) + Len(q)
      /\ Len(t) \in Nat /\ Len(q) \in Nat
      /\ \A k \in 1 .. Len(t) + Len(q) :
           (t \o q)[k] = IF k <= Len(t) THEN t[k] ELSE q[k - Len(t)]
  BY ConcatProperties, LenProperties
<1>2. PICK m \in Nat, n \in Nat : m = Len(t) /\ n = Len(q)
  BY <1>1
<1>3. \A k \in 1 .. m : k \in 1 .. m + n /\ k <= m
  OBVIOUS
<1>4. \A k \in 1 .. n : m + k \in 1 .. m + n /\ ~(m + k <= m) /\ (m + k) - m = k
  OBVIOUS
<1>5. DOMAIN (t \o q) = 1 .. Len(t \o q)
  BY <1>1, LenProperties
<1>6. QED
  BY <1>1, <1>2, <1>3, <1>4, <1>5

(* What is still to be typed is dropped, or typed to its end.              *)
LEMMA VoiceShortened ==
  ASSUME NEW t \in Seq(Heard), NEW q \in Seq(Heard), NEW top, NEW c,
         OneVoice(t \o q, top, c)
  PROVE  /\ OneVoice(t \o <<>>, top, NoConn)
         /\ q # <<>> => Append(t, Head(q)) \o Tail(q) = t \o q
<1>1. t \o <<>> = t /\ <<>> \in Seq(Heard)
  BY ConcatEmptySeq
<1>2. PICK m \in Nat, n \in Nat : m = Len(t) /\ n = Len(q)
  BY VoiceOfSequences
<1>3. DOMAIN t = 1 .. m /\ \A k \in 1 .. m : k \in 1 .. m + n
  BY <1>2, LenProperties
<1>4. \A k \in DOMAIN t : k \in DOMAIN (t \o q) /\ (t \o q)[k] = t[k]
  BY <1>2, <1>3, VoiceOfSequences
<1>5. OneVoice(t \o <<>>, top, NoConn)
  BY <1>1, <1>4 DEF OneVoice
<1>6. ASSUME q # <<>>
      PROVE  Append(t, Head(q)) \o Tail(q) = t \o q
  <2>1. q = <<Head(q)>> \o Tail(q) /\ Head(q) \in Heard /\ Tail(q) \in Seq(Heard)
    BY <1>6
  <2>2. Append(t, Head(q)) = t \o <<Head(q)>>
    BY <2>1, AppendIsConcat
  <2>3. <<Head(q)>> \in Seq(Heard)
    BY <2>1
  <2>4. (t \o <<Head(q)>>) \o Tail(q) = t \o (<<Head(q)>> \o Tail(q))
    BY <2>1, <2>3, ConcatAssociative
  <2>5. QED
    BY <2>1, <2>2, <2>4
<1>7. QED
  BY <1>5, <1>6

(* A newer transcript of the same session is heard.                        *)
LEMMA VoiceHeard ==
  ASSUME NEW t \in Seq(Heard), NEW q \in Seq(Heard), NEW top \in Int,
         NEW c \in Conns, NEW i \in Chunk, i > top, OneVoice(t \o q, top, c)
  PROVE  OneVoice(t \o Append(q, Said(c, i)), i, c)
<1> DEFINE e == Said(c, i)
           h == t \o q
           g == t \o Append(q, e)
<1>0. i \in Int /\ e \in Heard /\ e.conn = c /\ e.chunk = i /\ c # NoConn
  BY TranscriptionAssumption, HookAssumption DEF Chunk, Said, Heard
<1>1. h \in Seq(Heard) /\ g = Append(h, e)
  <2>1. Append(q, e) = q \o <<e>> /\ Append(h, e) = h \o <<e>> /\ <<e>> \in Seq(Heard)
    BY <1>0, VoiceOfSequences, AppendIsConcat
  <2>2. (t \o q) \o <<e>> = t \o (q \o <<e>>)
    BY <2>1, ConcatAssociative
  <2>3. QED
    BY <2>1, <2>2, VoiceOfSequences
<1>2. /\ Len(h) \in Nat /\ DOMAIN h = 1 .. Len(h)
      /\ DOMAIN g = 1 .. Len(h) + 1 /\ g[Len(h) + 1] = e
      /\ \A k \in 1 .. Len(h) : g[k] = h[k]
  <2>1. /\ Append(h, e) \in Seq(Heard) /\ Len(Append(h, e)) = Len(h) + 1
        /\ Append(h, e)[Len(h) + 1] = e
        /\ \A k \in 1 .. Len(h) : Append(h, e)[k] = h[k]
    BY <1>0, <1>1, AppendProperties
  <2>2. DOMAIN Append(h, e) = 1 .. Len(Append(h, e)) /\ DOMAIN h = 1 .. Len(h) /\ Len(h) \in Nat
    BY <1>1, <2>1, LenProperties
  <2>3. QED
    BY <1>1, <2>1, <2>2
<1>3. ASSUME NEW k \in DOMAIN h
      PROVE  /\ h[k].conn = c /\ h[k].chunk <= top
             /\ h[k].chunk \in Int /\ h[k].chunk < i
  <2>1. h[k] \in Heard
    BY <1>1
  <2>2. h[k].chunk \in Int
    BY <2>1, TranscriptionAssumption DEF Heard, Chunk
  <2>3. h[k].conn = c /\ h[k].chunk <= top
    BY <1>0 DEF OneVoice
  <2>4. QED
    BY <1>0, <2>2, <2>3
<1> HIDE DEF e, h, g
<1>4. PICK n \in Nat : n = Len(h)
  BY <1>2
<1>5. \A k \in 1 .. n + 1 : k = n + 1 \/ k \in 1 .. n
  OBVIOUS
<1>6. \A k \in DOMAIN g : g[k].conn = c /\ g[k].chunk <= i
  BY <1>0, <1>2, <1>3, <1>4, <1>5
<1>7. ASSUME NEW j \in DOMAIN g, NEW k \in DOMAIN g, j < k
      PROVE  g[j].chunk < g[k].chunk
  <2>1. j \in 1 .. n /\ g[j] = h[j] /\ j \in DOMAIN h
    BY <1>2, <1>4, <1>7
  <2>2. CASE k = n + 1
    BY <1>0, <1>2, <1>3, <1>4, <2>1, <2>2
  <2>3. CASE k \in 1 .. n
    <3>1. g[k] = h[k] /\ k \in DOMAIN h
      BY <1>2, <1>4, <2>3
    <3>2. h[j].chunk < h[k].chunk
      BY <1>7, <2>1, <3>1 DEF OneVoice, h
    <3>3. QED
      BY <2>1, <3>1, <3>2
  <2>4. QED
    BY <1>2, <1>4, <1>5, <2>2, <2>3
<1>8. OneVoice(g, i, c)
  BY <1>6, <1>7 DEF OneVoice
<1>9. QED
  BY <1>8 DEF g, e

-----------------------------------------------------------------------------
(* What the browser does on connection d: nothing; it sends frames without *)
(* audio, and a disconnect when it closes the socket; or it sends audio.   *)
Speaks(d) ==
  \/ up'[d] = up[d] /\ shut'[d] = shut[d] /\ sent'[d] = sent[d]
  \/ \E fs \in Seq(Frames \ {"audio"}) :
       /\ up'[d] = up[d] \o fs /\ sent'[d] = sent[d]
       /\ \/ shut'[d] = TRUE
          \/ shut'[d] = shut[d] /\ \A k \in DOMAIN fs : fs[k] # "disconnect"
  \/ /\ up'[d] = Append(up[d], "audio") /\ shut'[d] = shut[d]
     /\ Len(sent'[d]) = Len(sent[d]) + 1

(* Frames without audio do not count, and a disconnect among them is new.  *)
LEMMA FramesSaid ==
  ASSUME NEW q \in Seq(Frames), NEW fs \in Seq(Frames \ {"audio"})
  PROVE  /\ q \o fs \in Seq(Frames)
         /\ Audio(q \o fs) = Audio(q)
         /\ \A k \in DOMAIN (q \o fs) :
              \/ k \in DOMAIN q /\ (q \o fs)[k] = q[k]
              \/ \E j \in DOMAIN fs : (q \o fs)[k] = fs[j]
<1> DEFINE r == q \o fs
<1>1. /\ r \in Seq(Frames) /\ Len(r) = Len(q) + Len(fs)
      /\ Len(q) \in Nat /\ Len(fs) \in Nat
      /\ DOMAIN q = 1 .. Len(q) /\ DOMAIN fs = 1 .. Len(fs)
      /\ \A k \in 1 .. Len(q) + Len(fs) :
           r[k] = IF k <= Len(q) THEN q[k] ELSE fs[k - Len(q)]
  <2>1. fs \in Seq(Frames)
    OBVIOUS
  <2>2. QED
    BY <2>1, ConcatProperties, LenProperties
<1>2. DOMAIN r = 1 .. Len(r)
  BY <1>1, LenProperties
<1> HIDE DEF r
<1>3. PICK m \in Nat, n \in Nat : m = Len(q) /\ n = Len(fs)
  BY <1>1
<1>4. \A k \in 1 .. m + n : (k <= m /\ k \in 1 .. m) \/ (~(k <= m) /\ k - m \in 1 .. n)
  OBVIOUS
<1>5. ASSUME NEW k \in DOMAIN r
      PROVE  \/ k \in DOMAIN q /\ r[k] = q[k]
             \/ k \notin DOMAIN q /\ \E j \in DOMAIN fs : r[k] = fs[j]
  <2>1. CASE k <= m
    BY <1>1, <1>2, <1>3, <1>4, <2>1
  <2>2. CASE ~(k <= m)
    <3>1. r[k] = fs[k - m] /\ k - m \in DOMAIN fs
      BY <1>1, <1>2, <1>3, <1>4, <2>2
    <3>2. k \notin DOMAIN q
      BY <1>1, <1>3, <2>2
    <3>3. QED
      BY <3>1, <3>2
  <2>3. QED
    BY <2>1, <2>2
<1>6. \A k \in DOMAIN q : k \in DOMAIN r /\ r[k] = q[k]
  <2>1. \A k \in 1 .. m : k \in 1 .. m + n /\ k <= m
    OBVIOUS
  <2>2. QED
    BY <1>1, <1>2, <1>3, <2>1
<1>7. \A j \in DOMAIN fs : fs[j] # "audio"
  <2>1. \A j \in DOMAIN fs : fs[j] \in Frames \ {"audio"}
    OBVIOUS
  <2>2. QED
    BY <2>1
<1>8. Audio(r) = Audio(q)
  BY <1>5, <1>6, <1>7 DEF Audio
<1>9. QED
  BY <1>1, <1>5, <1>8 DEF r

(* The browser does not take back what it sent.                            *)
LEMMA WireKept ==
  ASSUME WsInv, HookTypes, HookTypes', OnTheWire, nextIn' = nextIn,
         \A d \in Conns : Speaks(d)
  PROVE  /\ OnTheWire'
         /\ \A d \in Conns : up'[d] \in Seq(Frames)
<1>1. ASSUME NEW d \in Conns
      PROVE  nextIn[d] + Uploading(d)' <= Len(sent'[d]) /\ up'[d] \in Seq(Frames)
  <2>0. up[d] \in Seq(Frames) /\ nextIn[d] \in Nat
    BY DEF WsInv, TypeOK
  <2>1. /\ Cardinality(Audio(up[d])) \in Nat
        /\ nextIn[d] + Cardinality(Audio(up[d])) <= Len(sent[d])
        /\ Len(sent[d]) \in Nat
    <3>1. nextIn[d] + Uploading(d) <= Len(sent[d]) /\ Len(sent[d]) \in Nat
      BY DEF OnTheWire, HookTypes
    <3>2. QED
      BY <2>0, <3>1, AudioFinite DEF Uploading, Audio
  <2>2. Uploading(d)' = Cardinality(Audio(up'[d]))
    BY DEF Uploading, Audio
  <2>3. CASE up'[d] = up[d] /\ sent'[d] = sent[d]
    BY <2>0, <2>1, <2>2, <2>3
  <2>4. CASE \E fs \in Seq(Frames \ {"audio"}) : up'[d] = up[d] \o fs /\ sent'[d] = sent[d]
    <3>1. up'[d] \in Seq(Frames) /\ Audio(up'[d]) = Audio(up[d])
      BY <2>0, <2>4, FramesSaid
    <3>2. QED
      BY <2>1, <2>2, <2>4, <3>1
  <2>5. CASE up'[d] = Append(up[d], "audio") /\ Len(sent'[d]) = Len(sent[d]) + 1
    <3>1. /\ up'[d] \in Seq(Frames)
          /\ Cardinality(Audio(up'[d])) = Cardinality(Audio(up[d])) + 1
      BY <2>0, <2>5, AudioAppend DEF Frames
    <3>2. QED
      BY <2>0, <2>1, <2>2, <2>5, <3>1
  <2>6. QED
    BY <2>3, <2>4, <2>5 DEF Speaks
<1>2. QED
  BY <1>1 DEF OnTheWire

(* The server only reads.                                                  *)
LEMMA ServerReads ==
  ASSUME WsInv, NEW c \in Conns, Handler(c) \/ \E i \in Chunk : Task(c, i),
         NEW d \in Conns
  PROVE  nextIn'[d] + Uploading(d)' <= nextIn[d] + Uploading(d)
<1>0. /\ up \in [Conns -> Seq(Frames)] /\ up[d] \in Seq(Frames) /\ nextIn[d] \in Nat
      /\ nextIn \in [Conns -> 0 .. MaxChunks]
  BY DEF WsInv, TypeOK
<1>1. /\ Uploading(d) = Cardinality(Audio(up[d]))
      /\ Uploading(d)' = Cardinality(Audio(up'[d]))
      /\ Cardinality(Audio(up[d])) \in Nat
  BY <1>0, AudioFinite DEF Uploading, Audio
<1>2. CASE UNCHANGED <<up, nextIn>>
  BY <1>0, <1>1, <1>2
<1>3. CASE up' = [up EXCEPT ![c] = <<>>] /\ UNCHANGED nextIn
  <2>1. CASE d = c
    <3>1. Audio(up'[d]) = {}
      BY <1>0, <1>3, <2>1 DEF Audio
    <3>2. Cardinality(Audio(up'[d])) = 0
      BY <3>1, FS_EmptySet
    <3>3. QED
      BY <1>0, <1>1, <1>3, <3>2
  <2>2. CASE d # c
    BY <1>0, <1>1, <1>3, <2>2
  <2>3. QED
    BY <2>1, <2>2
<1>4. CASE up[c] # <<>> /\ up' = [up EXCEPT ![c] = Tail(@)] /\ UNCHANGED nextIn
  <2>1. \A x \in Conns : Cardinality(Audio(up'[x])) <= Cardinality(Audio(up[x]))
    BY <1>4, ReadFrame
  <2>2. Cardinality(Audio(up'[d])) \in Nat
    <3>1. up' \in [Conns -> Seq(Frames)]
      BY <1>4, ReadFrame
    <3>2. QED
      BY <3>1, AudioFinite
  <2>3. QED
    BY <1>0, <1>1, <1>4, <2>1, <2>2
<1>5. CASE ReceiveAudio(c)
  <2>1. /\ up[c] # <<>> /\ Head(up[c]) = "audio" /\ up' = [up EXCEPT ![c] = Tail(@)]
        /\ nextIn' = [nextIn EXCEPT ![c] = nextIn[c] + 1]
    BY <1>5 DEF ReceiveAudio, Receive, First
  <2>2. CASE d = c
    <3>1. up'[d] = Tail(up[d]) /\ nextIn'[d] = nextIn[d] + 1
      BY <1>0, <2>1, <2>2
    <3>2. Cardinality(Audio(up[d])) = Cardinality(Audio(up'[d])) + 1
      BY <1>0, <2>1, <2>2, <3>1, AudioTail
    <3>3. Cardinality(Audio(up'[d])) \in Nat
      BY <1>0, <2>1, <2>2, <3>1, AudioTail, AudioFinite
    <3>4. QED
      BY <1>0, <1>1, <3>1, <3>2, <3>3
  <2>3. CASE d # c
    <3>1. up'[d] = up[d] /\ nextIn'[d] = nextIn[d]
      BY <1>0, <2>1, <2>3
    <3>2. QED
      BY <1>0, <1>1, <3>1
  <2>4. QED
    BY <2>2, <2>3
<1>6. QED
  <2>1. CASE Handler(c)
    BY <1>2, <1>3, <1>4, <1>5, <2>1
    DEF Handler, AuthAccept, AuthReject, CollectDone, PollTimeout, ReceiveStart, ReceiveStop,
        ReceiveBad, ReceiveValue, ReceiveIgnored, ReceiveDisconnect, CollectOne, CloseSession, Collect,
        Receive, First, wireVars
  <2>2. CASE \E i \in Chunk : Task(c, i)
    BY <1>2, <2>2 DEF Task, TaskStart, TaskEnd, handlerVars, wireVars
  <2>3. QED
    BY <2>1, <2>2

(* Nothing that the uploads' part is about changes.                        *)
LEMMA UploadsStay ==
  ASSUME UploadsHold,
         UNCHANGED <<sock, ws, rec, events, chain, jobs, ran, recorded, sent, lost, orphans>>
  PROVE  UploadsHold'
<1>1. \A c \in Conns : Uploads(c)' = Uploads(c) /\ Gone(c)' = Gone(c)
  BY DEF Uploads, Gone
<1>2. RecordersHold' /\ JobsInOrder'
  BY <1>1 DEF UploadsHold, RecordersHold, JobsInOrder
<1>3. Chains' /\ UploadsInOrder'
  BY DEF UploadsHold, Chains, UploadsInOrder
<1>4. SentHolds'
  BY <1>1 DEF UploadsHold, SentHolds
<1>5. QED
  BY <1>2, <1>3, <1>4 DEF UploadsHold

(* No more was sent than was recorded.                                     *)
LEMMA SentWasRecorded ==
  HookTypes /\ UploadsHold => \A c \in Conns : Len(sent[c]) <= recorded[c]
<1> SUFFICES ASSUME HookTypes, UploadsHold, NEW c \in Conns
             PROVE  Len(sent[c]) <= recorded[c]
  OBVIOUS
<1>0. /\ jobs \in Seq(Job) /\ sent[c] \in Seq(Nat) /\ recorded[c] \in 0 .. MaxChunks
      /\ MaxChunks \in Nat /\ \A k \in DOMAIN jobs : jobs[k].segment \in Nat
  BY TranscriptionAssumption, JobFields DEF HookTypes
<1>1. recorded[c] \in Nat /\ Len(sent[c]) \in Nat
  BY <1>0
<1>2. ASSUME NEW k \in Uploads(c)
      PROVE  jobs[k].segment \in 1 .. recorded[c]
  <2>1. jobs[k].segment \in Nat /\ jobs[k].segment # 0
    BY <1>0 DEF Uploads, SayStopNow
  <2>2. jobs[k].segment <= Cut(events[c], recorded[c])
    BY DEF UploadsHold, JobsInOrder
  <2>3. Cut(events[c], recorded[c]) = recorded[c] \/ Cut(events[c], recorded[c]) = recorded[c] - 1
    BY DEF Cut
  <2>4. QED
    BY <1>1, <2>1, <2>2, <2>3
<1>3. Gone(c) \in SUBSET (1 .. recorded[c])
  BY <1>2 DEF Gone
<1>4. Cardinality(Gone(c)) \in Nat /\ Cardinality(Gone(c)) <= recorded[c]
  BY <1>1, <1>3, NoMoreThan
<1>5. Len(sent[c]) <= Cardinality(Gone(c))
  BY DEF UploadsHold, SentHolds
<1>6. QED
  BY <1>1, <1>4, <1>5

LEMMA SentWasRecordedNext ==
  (HookTypes /\ UploadsHold => \A c \in Conns : Len(sent[c]) <= recorded[c])'
  BY SentWasRecorded, PTL

(* A server's step under the hook.                                         *)
LEMMA ServerLive ==
  ASSUME WsInv, OrderInv, HookInv, NEW c \in Conns,
         Handler(c) \/ \E i \in Chunk : Task(c, i), UNCHANGED hookVars
  PROVE  WsInv' /\ OrderInv' /\ HookInv'
<1>1. WsInv' /\ OrderInv'
  BY QuietStepInv, CollectInv, AudioInv, CloseInv, TaskInv, HandlerOrder, CollectOrder,
     TaskOrder DEF Handler, Task
<1>2. UNCHANGED <<sock, recRef, ws, mic, rec, events, chain, jobs, ran, asking, isRecording,
                  stopping, monitor, latest, queue, texts, recorded, sent, lost, orphans,
                  starts, mounted>>
  BY DEF hookVars, hookRefs, draftVars, recorderVars, jobVars, hookHistory
<1>3. OnTheWire'
  <2>1. ASSUME NEW d \in Conns
        PROVE  nextIn'[d] + Uploading(d)' <= Len(sent'[d])
    <3>1. nextIn'[d] + Uploading(d)' <= nextIn[d] + Uploading(d)
      BY ServerReads
    <3>2. nextIn[d] + Uploading(d) <= Len(sent[d])
      BY DEF HookInv, OnTheWire
    <3>3. nextIn[d] + Uploading(d) \in Nat /\ nextIn'[d] + Uploading(d)' \in Nat
      <4>1. /\ up[d] \in Seq(Frames) /\ up'[d] \in Seq(Frames)
            /\ nextIn[d] \in Nat /\ nextIn'[d] \in Nat
        BY <1>1 DEF WsInv, TypeOK
      <4>2. /\ Uploading(d) = Cardinality(Audio(up[d]))
            /\ Uploading(d)' = Cardinality(Audio(up'[d]))
        BY DEF Uploading, Audio
      <4>3. QED
        BY <4>1, <4>2, AudioFinite
    <3>4. Len(sent[d]) \in Nat
      BY DEF HookInv, HookTypes
    <3>5. QED
      BY <1>2, <3>1, <3>2, <3>3, <3>4
  <2>2. QED
    BY <2>1 DEF OnTheWire
<1>4. HookTypes' /\ HookSound'
  BY <1>2 DEF HookInv, HookTypes, HookSound, LiveTypeOK, MicReleased
<1>5. RoomToRecord' /\ DraftHolds'
  BY <1>2 DEF HookInv, RoomToRecord, DraftHolds
<1>6. UploadsHold'
  BY <1>2, UploadsStay DEF HookInv
<1>7. QED
  BY <1>1, <1>3, <1>4, <1>5, <1>6 DEF HookInv

(* A callback of the browser leaves the server as it should be.            *)
LEMMA BrowserKeepsServer ==
  ASSUME WsInv, OrderInv, HookInv, HookTypes',
         \A d \in Conns : Len(sent'[d]) <= recorded'[d],
         UNCHANGED <<disconnected, nextIn, nextOut, pending, ready, task, cache, delivered,
                     unclear>>,
         \/ phase' = phase
         \/ \E c \in Conns : phase[c] = "none" /\ phase' = [phase EXCEPT ![c] = "auth"],
         DOMAIN up' = Conns, up' = [d \in Conns |-> up'[d]],
         shut' \in [Conns -> BOOLEAN], down' \in [Conns -> Seq(Message)],
         \A d \in Conns : Speaks(d)
  PROVE  WsInv' /\ OrderInv' /\ OnTheWire'
<1>1. OnTheWire' /\ up' \in [Conns -> Seq(Frames)]
  BY WireKept DEF HookInv
<1>2. /\ phase \in [Conns -> {"none", "auth", "closed"} \cup Serving]
      /\ phase' \in [Conns -> {"none", "auth", "closed"} \cup Serving]
      /\ \A d \in Conns : phase'[d] = phase[d] \/ (phase[d] = "none" /\ phase'[d] = "auth")
  BY DEF WsInv, TypeOK, Serving
<1>3. TypeOK'
  BY <1>1, <1>2 DEF WsInv, TypeOK
<1>4. RoomForUploads'
  <2>1. ASSUME NEW d \in Conns PROVE nextIn'[d] + Uploading(d)' <= MaxChunks
    <3>1. nextIn'[d] + Uploading(d)' <= Len(sent'[d])
      BY <1>1 DEF OnTheWire
    <3>2. Len(sent'[d]) <= recorded'[d]
      OBVIOUS
    <3>3. recorded'[d] \in 0 .. MaxChunks /\ Len(sent'[d]) \in Nat /\ MaxChunks \in Nat
      BY TranscriptionAssumption DEF HookTypes
    <3>4. nextIn'[d] + Uploading(d)' \in Nat
      <4>1. up'[d] \in Seq(Frames) /\ nextIn'[d] \in Nat
        BY <1>1, <1>3 DEF TypeOK
      <4>2. Uploading(d)' = Cardinality(Audio(up'[d]))
        BY DEF Uploading, Audio
      <4>3. QED
        BY <4>1, <4>2, AudioFinite
    <3>5. QED
      BY <3>1, <3>2, <3>3, <3>4
  <2>2. QED
    BY <2>1 DEF RoomForUploads
<1>5. IdleBefore' /\ TasksAwaited' /\ RoomToRead' /\ Drained' /\ CacheCleared'
  <2>1. /\ \A d \in Conns : phase'[d] \in {"none", "auth"} => phase[d] \in {"none", "auth"}
        /\ \A d \in Conns : phase'[d] = "closed" => phase[d] = "closed"
        /\ \A d \in Conns : phase'[d] \in {"none", "auth", "collect", "receive"} =>
             phase[d] \in {"none", "auth", "collect", "receive"}
    BY <1>2
  <2>2. IdleBefore'
    BY <2>1 DEF WsInv, IdleBefore
  <2>3. TasksAwaited' /\ RoomToRead'
    BY <2>1 DEF WsInv, TasksAwaited, RoomToRead
  <2>4. Drained' /\ CacheCleared'
    BY <2>1 DEF WsInv, Drained, CacheCleared
  <2>5. QED
    BY <2>2, <2>3, <2>4
<1>6. ASSUME NEW d \in Conns
      PROVE  /\ shut[d] => shut'[d]
             /\ (\E k \in DOMAIN up'[d] : up'[d][k] = "disconnect") =>
                  shut'[d] \/ \E k \in DOMAIN up[d] : up[d][k] = "disconnect"
  <2>0. up[d] \in Seq(Frames)
    BY DEF WsInv, TypeOK
  <2>1. CASE up'[d] = up[d] /\ shut'[d] = shut[d]
    BY <2>1
  <2>2. CASE \E fs \in Seq(Frames \ {"audio"}) :
               /\ up'[d] = up[d] \o fs
               /\ \/ shut'[d] = TRUE
                  \/ shut'[d] = shut[d] /\ \A k \in DOMAIN fs : fs[k] # "disconnect"
    <3>1. PICK fs \in Seq(Frames \ {"audio"}) :
               /\ up'[d] = up[d] \o fs
               /\ \/ shut'[d] = TRUE
                  \/ shut'[d] = shut[d] /\ \A k \in DOMAIN fs : fs[k] # "disconnect"
      BY <2>2
    <3>2. \A k \in DOMAIN up'[d] : \/ k \in DOMAIN up[d] /\ up'[d][k] = up[d][k]
                                   \/ \E j \in DOMAIN fs : up'[d][k] = fs[j]
      BY <2>0, <3>1, FramesSaid
    <3>3. QED
      BY <3>1, <3>2
  <2>3. CASE up'[d] = Append(up[d], "audio") /\ shut'[d] = shut[d]
    <3>1. \A k \in DOMAIN up'[d] : \/ k \in DOMAIN up[d] /\ up'[d][k] = up[d][k]
                                   \/ up'[d][k] = "audio"
      <4> DEFINE q == up[d]
                 r == Append(q, "audio")
      <4>1. /\ DOMAIN r = 1 .. Len(q) + 1 /\ r[Len(q) + 1] = "audio"
            /\ Len(q) \in Nat /\ DOMAIN q = 1 .. Len(q)
            /\ \A k \in 1 .. Len(q) : r[k] = q[k]
        <5>1. "audio" \in Frames /\ q \in Seq(Frames)
          BY <2>0 DEF Frames
        <5>2. r \in Seq(Frames)
          BY <5>1, AppendProperties
        <5>3. QED
          BY <5>1, <5>2, AppendProperties, LenProperties
      <4> HIDE DEF r, q
      <4>2. PICK n \in Nat : n = Len(q)
        BY <4>1
      <4>3. \A k \in 1 .. n + 1 : k = n + 1 \/ k \in 1 .. n
        OBVIOUS
      <4>4. \A k \in DOMAIN r : (k \in DOMAIN q /\ r[k] = q[k]) \/ r[k] = "audio"
        BY <4>1, <4>2, <4>3
      <4>5. QED
        BY <2>3, <4>4 DEF r, q
    <3>2. QED
      BY <2>3, <3>1
  <2>4. QED
    BY <2>1, <2>2, <2>3 DEF Speaks
<1>7. GoneIsGone' /\ AllInTurn'
  <2>1. \A d \in Conns : phase'[d] = "closed" => phase[d] = "closed"
    BY <1>2
  <2>2. GoneIsGone'
    BY <1>6 DEF OrderInv, GoneIsGone
  <2>3. AllInTurn'
    BY <1>6, <2>1 DEF OrderInv, AllInTurn
  <2>4. QED
    BY <2>2, <2>3
<1>8. OrderInv'
  BY <1>6, <1>7, OrderKept
<1>9. QED
  BY <1>1, <1>3, <1>4, <1>5, <1>8 DEF WsInv

-----------------------------------------------------------------------------
(* MediaRecorder.stop() under the invariant.                               *)
LEMMA StopCounts ==
  ASSUME HookInv, NEW c \in Conns, rec[c] = "recording", StopRecorder(c)
  PROVE  /\ rec' \in [Conns -> {"none", "recording", "inactive"}]
         /\ events' \in [Conns -> Pending]
         /\ recorded' \in [Conns -> 0 .. MaxChunks]
         /\ \A d \in Conns :
              /\ Recorded(ws[d], rec'[d], events'[d], recorded'[d])
              /\ Cut(events'[d], recorded'[d]) = Cut(events[d], recorded[d])
              /\ d # c => /\ rec'[d] = rec[d] /\ events'[d] = events[d]
                          /\ recorded'[d] = recorded[d]
         /\ rec'[c] = "inactive" /\ events'[c] = <<"data", "stop">>
         /\ recorded'[c] = recorded[c] + 1
<1>0. /\ rec \in [Conns -> {"none", "recording", "inactive"}] /\ events \in [Conns -> Pending]
      /\ recorded \in [Conns -> 0 .. MaxChunks] /\ MaxChunks \in Nat
  BY TranscriptionAssumption DEF HookInv, HookTypes, HookSound, LiveTypeOK
<1>1. Recorded(ws[c], "recording", events[c], recorded[c]) /\ recorded[c] \in Nat
  BY <1>0 DEF HookInv, UploadsHold, RecordersHold
<1>2. /\ rec'[c] = "inactive" /\ events'[c] = events[c] \o <<"data", "stop">>
      /\ recorded'[c] = recorded[c] + 1
      /\ \A d \in Conns : d # c => /\ rec'[d] = rec[d] /\ events'[d] = events[d]
                                   /\ recorded'[d] = recorded[d]
  BY <1>0 DEF StopRecorder
<1>3. /\ Recorded(ws[c], "inactive", events'[c], recorded'[c])
      /\ Cut(events'[c], recorded'[c]) = Cut(events[c], recorded[c])
      /\ events'[c] = <<"data", "stop">>
  BY <1>1, <1>2, RecorderStopped
<1>4. recorded[c] + 1 \in 0 .. MaxChunks
  BY <1>0 DEF HookInv, RoomToRecord
<1>5. events' \in [Conns -> Pending] /\ recorded' \in [Conns -> 0 .. MaxChunks]
      /\ rec' \in [Conns -> {"none", "recording", "inactive"}]
  <2>1. events' = [events EXCEPT ![c] = <<"data", "stop">>]
    BY <1>0, <1>2, <1>3 DEF StopRecorder
  <2>2. <<"data", "stop">> \in Pending
    BY DEF Pending
  <2>3. QED
    BY <1>0, <1>4, <2>1, <2>2 DEF StopRecorder
<1>6. ASSUME NEW d \in Conns
      PROVE  /\ Recorded(ws[d], rec'[d], events'[d], recorded'[d])
             /\ Cut(events'[d], recorded'[d]) = Cut(events[d], recorded[d])
  <2>1. CASE d = c
    BY <1>2, <1>3, <2>1
  <2>2. CASE d # c
    BY <1>2, <2>2 DEF HookInv, UploadsHold, RecordersHold
  <2>3. QED
    BY <2>1, <2>2
<1>7. QED
  BY <1>2, <1>3, <1>5, <1>6

(* A recorder in another state is no upload: what waits stays, and the     *)
(* chain with it.                                                          *)
LEMMA UploadsKept ==
  ASSUME HookTypes, UploadsHold, UNCHANGED <<jobs, sent, lost, orphans, sock, chain>>,
         \A k \in DOMAIN jobs : jobs[k].segment # SayStopNow => (k \in ran' <=> k \in ran),
         RecordersHold',
         \A d \in Conns : Cut(events'[d], recorded'[d]) = Cut(events[d], recorded[d]),
         \A d \in Conns : \/ ws'[d] = ws[d] \/ ws'[d] = "closed"
                          \/ ws[d] = "connecting" /\ ws'[d] = "open"
  PROVE  UploadsHold'
<1>1. \A k \in DOMAIN jobs : jobs[k].conn \in Conns
  BY JobFields DEF HookTypes
<1>2. \A d \in Conns : ws'[d] = "open" =>
        ws[d] = "open" \/ \A k \in DOMAIN jobs : jobs[k].conn # d
  BY DEF UploadsHold, Chains
<1>3. JobsInOrder' /\ SentHolds' /\ UploadsInOrder'
  BY <1>2, JobsStay DEF UploadsHold
<1>4. Chains'
  BY <1>1 DEF UploadsHold, Chains
<1>5. QED
  BY <1>3, <1>4 DEF UploadsHold

(* The session the refs name is ended, in the turn of what says stop, or   *)
(* beside the chains.                                                      *)
LEMMA TeardownHook ==
  ASSUME WsInv, HookInv, NEW signal \in BOOLEAN, Teardown(signal),
         UNCHANGED <<latest, texts, jobs, sent, lost, orphans, starts, asking>>,
         mounted' \in BOOLEAN, ran' \subseteq DOMAIN jobs,
         \A k \in DOMAIN jobs : jobs[k].segment # SayStopNow => (k \in ran' <=> k \in ran)
  PROVE  /\ HookTypes' /\ HookSound' /\ UploadsHold' /\ RoomToRecord' /\ DraftHolds'
         /\ up' = [d \in Conns |-> up'[d]] /\ shut' \in [Conns -> BOOLEAN]
         /\ \A d \in Conns : Speaks(d)
<1>0. /\ rec \in [Conns -> {"none", "recording", "inactive"}] /\ events \in [Conns -> Pending]
      /\ recorded \in [Conns -> 0 .. MaxChunks] /\ MaxChunks \in Nat
      /\ jobs \in Seq(Job) /\ sent \in [Conns -> Seq(Nat)] /\ lost \in [Conns -> SUBSET Nat]
      /\ ws \in [Conns -> {"none", "connecting", "open", "closed"}]
      /\ mic \in [Conns -> BOOLEAN] /\ sock \in Conns \cup {NoConn}
      /\ recRef \in Conns \cup {NoConn}
      /\ up \in [Conns -> Seq(Frames)] /\ shut \in [Conns -> BOOLEAN]
      /\ NoConn \notin Conns
  BY TranscriptionAssumption, HookAssumption
  DEF HookInv, HookTypes, HookSound, LiveTypeOK, WsInv, TypeOK
<1>1. /\ monitor' = NoConn /\ queue' = <<>> /\ sock' = NoConn /\ recRef' = NoConn
      /\ stopping' = FALSE /\ isRecording' = FALSE /\ chain' = Len(jobs)
      /\ mic' = [c \in Conns |-> mic[c] /\ c # sock]
  BY DEF Teardown
<1>2. /\ rec' \in [Conns -> {"none", "recording", "inactive"}] /\ events' \in [Conns -> Pending]
      /\ recorded' \in [Conns -> 0 .. MaxChunks]
      /\ \A d \in Conns :
           /\ Recorded(ws[d], rec'[d], events'[d], recorded'[d])
           /\ Cut(events'[d], recorded'[d]) = Cut(events[d], recorded[d])
           /\ rec'[d] = "recording" => rec[d] = "recording" /\ recorded'[d] = recorded[d]
  <2>1. CASE recRef # NoConn /\ rec[recRef] = "recording"
    <3>1. recRef \in Conns /\ StopRecorder(recRef)
      BY <1>0, <2>1 DEF Teardown
    <3>2. QED
      BY <2>1, <3>1, StopCounts
  <2>2. CASE ~(recRef # NoConn /\ rec[recRef] = "recording")
    <3>1. UNCHANGED <<rec, events, recorded>>
      BY <2>2 DEF Teardown
    <3>2. QED
      BY <1>0, <3>1 DEF HookInv, UploadsHold, RecordersHold
  <2>3. QED
    BY <2>1, <2>2
<1>3. /\ ws' \in [Conns -> {"none", "connecting", "open", "closed"}]
      /\ shut' \in [Conns -> BOOLEAN]
      /\ up' = [d \in Conns |-> up'[d]]
      /\ \A d \in Conns : (ws'[d] = ws[d] \/ ws'[d] = "closed") /\ Speaks(d)
      /\ \A d \in Conns : d = sock => ws'[d] \notin {"connecting", "open"}
  <2>1. CASE sock # NoConn /\ ws[sock] \in {"open", "connecting"}
    <3>1. /\ sock \in Conns
          /\ ws' = [ws EXCEPT ![sock] = "closed"] /\ shut' = [shut EXCEPT ![sock] = TRUE]
          /\ up' = [up EXCEPT ![sock] =
               @ \o (IF signal /\ ws[sock] = "open" THEN <<"stop">> ELSE <<>>)
                 \o <<"disconnect">>]
      BY <1>0, <2>1 DEF Teardown
    <3>2. \E fs \in Seq(Frames \ {"audio"}) : up'[sock] = up[sock] \o fs
      <4>1. <<"disconnect">> \in Seq(Frames \ {"audio"}) /\ <<"stop">> \in Seq(Frames \ {"audio"})
            /\ up[sock] \in Seq(Frames) /\ <<"disconnect">> \in Seq(Frames)
            /\ <<"stop">> \in Seq(Frames) /\ <<>> \in Seq(Frames)
        BY <1>0, <3>1 DEF Frames
      <4>2. CASE signal /\ ws[sock] = "open"
        <5>1. up'[sock] = (up[sock] \o <<"stop">>) \o <<"disconnect">>
          BY <1>0, <3>1, <4>2
        <5>2. up'[sock] = up[sock] \o (<<"stop">> \o <<"disconnect">>)
          BY <4>1, <5>1, ConcatAssociative
        <5>3. <<"stop">> \o <<"disconnect">> \in Seq(Frames \ {"audio"})
          BY <4>1, ConcatProperties
        <5>4. QED
          BY <5>2, <5>3
      <4>3. CASE ~(signal /\ ws[sock] = "open")
        <5>1. up'[sock] = (up[sock] \o <<>>) \o <<"disconnect">>
          BY <1>0, <3>1, <4>3
        <5>2. up[sock] \o <<>> = up[sock]
          BY <4>1, ConcatEmptySeq
        <5>3. QED
          BY <4>1, <5>1, <5>2
      <4>4. QED
        BY <4>2, <4>3
    <3>3. shut'[sock] = TRUE /\ sent' = sent
      BY <1>0, <3>1
    <3>4. \A d \in Conns : d # sock => up'[d] = up[d] /\ shut'[d] = shut[d]
      BY <1>0, <3>1
    <3>5. \A d \in Conns : Speaks(d)
      BY <3>2, <3>3, <3>4 DEF Speaks
    <3>6. /\ ws' \in [Conns -> {"none", "connecting", "open", "closed"}]
          /\ shut' \in [Conns -> BOOLEAN]
          /\ \A d \in Conns : (ws'[d] = ws[d] \/ ws'[d] = "closed")
          /\ ws'[sock] = "closed"
      BY <1>0, <3>1
    <3>7. up' = [d \in Conns |-> up'[d]]
      BY <1>0, <3>1
    <3>8. QED
      BY <3>5, <3>6, <3>7
  <2>2. CASE ~(sock # NoConn /\ ws[sock] \in {"open", "connecting"})
    <3>1. UNCHANGED <<ws, shut, up>>
      BY <2>2 DEF Teardown
    <3>2. \A d \in Conns : Speaks(d)
      BY <3>1 DEF Speaks
    <3>3. \A d \in Conns : d = sock => ws'[d] \notin {"connecting", "open"}
      BY <1>0, <2>2, <3>1
    <3>4. QED
      BY <1>0, <3>1, <3>2, <3>3
  <2>3. QED
    BY <2>1, <2>2
<1>4. HookTypes'
  <2>1. queue' \in Seq(Heard)
    BY <1>1
  <2>2. chain' \in Nat
    BY <1>0, <1>1, LenProperties
  <2>3. QED
    BY <1>0, <1>2, <2>1, <2>2 DEF HookInv, HookTypes
<1>5. HookSound'
  <2>1. mic' \in [Conns -> BOOLEAN]
    BY <1>0, <1>1
  <2>2. MicReleased'
    BY <1>0, <1>1 DEF HookInv, HookSound, MicReleased
  <2>3. \A c \in Conns : recorded'[c] \in 0 .. MaxChunks
    BY <1>2
  <2>4. LiveTypeOK'
    BY <1>0, <1>1, <1>2, <1>3, <2>1, <2>3 DEF HookInv, HookSound, LiveTypeOK
  <2>5. QED
    BY <2>2, <2>4 DEF HookSound
<1>6. UploadsHold'
  <2>1. HookTypes /\ UploadsHold
    BY DEF HookInv
  <2>2. \A d \in Conns : ws'[d] = "open" =>
          ws[d] = "open" \/ \A k \in DOMAIN jobs : jobs[k].conn # d
    BY <1>3
  <2>3. JobsInOrder' /\ SentHolds' /\ UploadsInOrder'
    BY <1>2, <2>1, <2>2, JobsStay DEF UploadsHold
  <2>4. RecordersHold'
    <3>1. ASSUME NEW d \in Conns
          PROVE  Recorded(ws'[d], rec'[d], events'[d], recorded'[d])
      BY <1>2, <1>3 DEF Recorded
    <3>2. QED
      BY <3>1 DEF RecordersHold
  <2>5. Chains'
    <3>1. /\ \A k \in DOMAIN jobs : jobs[k].chain < k
          /\ \A k \in DOMAIN jobs : ws[jobs[k].conn] \notin {"none", "connecting"}
          /\ \A d \in Conns \ orphans : ws[d] \in {"connecting", "open"} => sock = d
      BY <2>1 DEF UploadsHold, Chains
    <3>2. \A k \in DOMAIN jobs : jobs[k].conn \in Conns
      BY <1>0, JobFields
    <3>3. Len(jobs) \in Nat
      BY <1>0, LenProperties
    <3>4. \A d \in Conns \ orphans : ws'[d] \notin {"connecting", "open"}
      BY <1>3, <3>1
    <3>5. \A k \in DOMAIN jobs : ws'[jobs[k].conn] \notin {"none", "connecting"}
      BY <1>3, <3>1, <3>2
    <3>6. QED
      BY <1>0, <1>1, <3>1, <3>2, <3>3, <3>4, <3>5 DEF Chains
  <2>6. QED
    BY <2>3, <2>4, <2>5 DEF UploadsHold
<1>7. RoomToRecord'
  <2>1. ASSUME NEW d \in Conns, rec'[d] = "recording" \/ sock' = d
        PROVE  recorded'[d] < MaxChunks
    BY <1>0, <1>1, <1>2, <2>1 DEF HookInv, RoomToRecord
  <2>2. QED
    BY <2>1 DEF RoomToRecord
<1>8. DraftHolds'
  <2>1. ASSUME orphans = {}
        PROVE  OneVoice(texts \o <<>>, latest, NoConn)
    BY <2>1, VoiceShortened DEF HookInv, HookTypes, DraftHolds
  <2>2. QED
    BY <1>1, <2>1 DEF DraftHolds
<1>9. QED
  BY <1>3, <1>4, <1>5, <1>6, <1>7, <1>8

-----------------------------------------------------------------------------
(* What every step of the hook has to show; the server's side follows from *)
(* it (BrowserKeepsServer).                                                *)
HookKept == HookTypes' /\ HookSound' /\ UploadsHold' /\ RoomToRecord' /\ DraftHolds'

Wired ==
  /\ up' = [d \in Conns |-> up'[d]] /\ shut' \in [Conns -> BOOLEAN]
  /\ \A d \in Conns : Speaks(d)

LEMMA HookFacts ==
  ASSUME WsInv, OrderInv, HookInv
  PROVE  /\ sock \in Conns \cup {NoConn} /\ recRef \in Conns \cup {NoConn}
         /\ monitor \in Conns \cup {NoConn} /\ NoConn \notin Conns
         /\ ws \in [Conns -> {"none", "connecting", "open", "closed"}]
         /\ mic \in [Conns -> BOOLEAN]
         /\ rec \in [Conns -> {"none", "recording", "inactive"}]
         /\ asking \in 0 .. MaxStarts /\ starts \in 0 .. MaxStarts /\ asking <= starts
         /\ isRecording \in BOOLEAN /\ stopping \in BOOLEAN /\ mounted \in BOOLEAN
         /\ isRecording <=> recRef # NoConn
         /\ latest \in Chunk \cup {NoChunk} /\ latest \in Int
         /\ events \in [Conns -> Pending]
         /\ jobs \in Seq(Job) /\ ran \subseteq DOMAIN jobs /\ chain \in Nat
         /\ sent \in [Conns -> Seq(Nat)] /\ lost \in [Conns -> SUBSET Nat]
         /\ recorded \in [Conns -> 0 .. MaxChunks]
         /\ queue \in Seq(Heard) /\ texts \in Seq(Heard)
         /\ up \in [Conns -> Seq(Frames)] /\ shut \in [Conns -> BOOLEAN]
         /\ down \in [Conns -> Seq(Message)]
         /\ MaxChunks \in Nat \ {0} /\ MaxStarts \in Nat
<1>1. latest \in Chunk \cup {NoChunk} /\ MaxChunks \in Nat \ {0}
  BY TranscriptionAssumption DEF HookInv, HookSound, LiveTypeOK
<1>2. latest \in Int
  BY <1>1 DEF Chunk, NoChunk
<1>3. QED
  BY <1>1, <1>2, HookAssumption
  DEF HookInv, HookTypes, HookSound, LiveTypeOK, WsInv, TypeOK, OrderInv

(* A connection's part of the invariant, in its own variables.             *)
LEMMA OneConnection ==
  ASSUME WsInv, OrderInv, HookInv, NEW c \in Conns
  PROVE  /\ HookTypes /\ UploadsHold
         /\ Recorded(ws[c], rec[c], events[c], recorded[c])
         /\ events[c] \in Pending
         /\ recorded[c] \in 0 .. MaxChunks /\ recorded[c] \in Nat
         /\ rec[c] = "recording" => recorded[c] < MaxChunks /\ events[c] = <<>>
         /\ sock = c /\ events[c] = <<"restart">> => recorded[c] < MaxChunks
         /\ sock = c /\ ~stopping /\ events[c] # <<>> => recorded[c] < MaxChunks
<1>1. Recorded(ws[c], rec[c], events[c], recorded[c])
  BY DEF HookInv, UploadsHold, RecordersHold
<1>2. rec[c] = "recording" => events[c] = <<>>
  BY <1>1 DEF Recorded
<1>3. /\ rec[c] = "recording" => recorded[c] < MaxChunks
      /\ sock = c /\ events[c] = <<"restart">> => recorded[c] < MaxChunks
      /\ sock = c /\ ~stopping /\ events[c] # <<>> => recorded[c] < MaxChunks
  BY DEF HookInv, RoomToRecord
<1>4. events[c] \in Pending /\ recorded[c] \in 0 .. MaxChunks /\ recorded[c] \in Nat
  BY HookFacts
<1>5. HookTypes /\ UploadsHold
  BY DEF HookInv
<1>6. QED
  BY <1>1, <1>2, <1>3, <1>4, <1>5

(* A step that leaves the session the refs name, and the draft; what it    *)
(* does to the chains is shown beside it.                                  *)
LEMMA RecorderStep ==
  ASSUME WsInv, OrderInv, HookInv, NEW c \in Conns,
         UNCHANGED <<sock, latest, queue, texts, mic, orphans, starts, asking, mounted>>,
         ws' \in [Conns -> {"none", "connecting", "open", "closed"}],
         recRef' \in Conns \cup {NoConn}, monitor' \in Conns \cup {NoConn},
         isRecording' \in BOOLEAN, isRecording' <=> recRef' # NoConn,
         stopping' \in BOOLEAN, stopping => stopping',
         rec' \in [Conns -> {"none", "recording", "inactive"}],
         events' \in [Conns -> Pending], recorded' \in [Conns -> 0 .. MaxChunks],
         jobs' \in Seq(Job), ran' \subseteq DOMAIN jobs', chain' \in Nat,
         sent' \in [Conns -> Seq(Nat)], lost' \in [Conns -> SUBSET Nat],
         \A d \in Conns \ {c} :
           rec'[d] = rec[d] /\ events'[d] = events[d] /\ recorded'[d] = recorded[d],
         UploadsHold',
         (\/ rec'[c] = "recording"
          \/ sock = c /\ events'[c] = <<"restart">>
          \/ sock = c /\ ~stopping' /\ events'[c] # <<>>) => recorded'[c] < MaxChunks
  PROVE  HookKept
<1>1. RoomToRecord'
  <2>1. ASSUME NEW d \in Conns,
               \/ rec'[d] = "recording"
               \/ sock' = d /\ events'[d] = <<"restart">>
               \/ sock' = d /\ ~stopping' /\ events'[d] # <<>>
        PROVE  recorded'[d] < MaxChunks
    <3>1. CASE d = c
      BY <2>1, <3>1
    <3>2. CASE d # c
      BY <2>1, <3>2 DEF HookInv, RoomToRecord
    <3>3. QED
      BY <3>1, <3>2
  <2>2. QED
    BY <2>1 DEF RoomToRecord
<1>2. HookTypes'
  BY HookFacts DEF HookTypes
<1>3. HookSound'
  <2>1. LiveTypeOK'
    BY HookFacts DEF LiveTypeOK
  <2>2. MicReleased'
    BY DEF HookInv, HookSound, MicReleased
  <2>3. QED
    BY <2>1, <2>2 DEF HookSound
<1>4. DraftHolds'
  BY DEF HookInv, DraftHolds
<1>5. QED
  BY <1>1, <1>2, <1>3, <1>4 DEF HookKept

(* Such a step that chains nothing and runs nothing of the chains.         *)
LEMMA QuietStep ==
  ASSUME WsInv, OrderInv, HookInv, NEW c \in Conns,
         UNCHANGED <<sock, latest, queue, texts, mic, orphans, starts, asking, mounted,
                     jobs, ran, chain, sent, lost>>,
         ws' \in [Conns -> {"none", "connecting", "open", "closed"}],
         recRef' \in Conns \cup {NoConn}, monitor' \in Conns \cup {NoConn},
         isRecording' \in BOOLEAN, isRecording' <=> recRef' # NoConn,
         stopping' \in BOOLEAN, stopping => stopping',
         rec' \in [Conns -> {"none", "recording", "inactive"}],
         events' \in [Conns -> Pending], recorded' \in [Conns -> 0 .. MaxChunks],
         \A d \in Conns \ {c} :
           /\ ws'[d] = ws[d] /\ rec'[d] = rec[d] /\ events'[d] = events[d]
           /\ recorded'[d] = recorded[d],
         \/ ws'[c] = ws[c] \/ ws'[c] = "closed"
         \/ ws[c] = "connecting" /\ ws'[c] = "open",
         Recorded(ws'[c], rec'[c], events'[c], recorded'[c]),
         Cut(events'[c], recorded'[c]) = Cut(events[c], recorded[c]),
         (\/ rec'[c] = "recording"
          \/ sock = c /\ events'[c] = <<"restart">>
          \/ sock = c /\ ~stopping' /\ events'[c] # <<>>) => recorded'[c] < MaxChunks
  PROVE  HookKept
<1>1. RecordersHold'
  <2>1. ASSUME NEW d \in Conns PROVE Recorded(ws'[d], rec'[d], events'[d], recorded'[d])
    <3>1. CASE d = c
      BY <3>1
    <3>2. CASE d # c
      BY <3>2 DEF HookInv, UploadsHold, RecordersHold
    <3>3. QED
      BY <3>1, <3>2
  <2>2. QED
    BY <2>1 DEF RecordersHold
<1>2. \A d \in Conns : Cut(events'[d], recorded'[d]) = Cut(events[d], recorded[d])
  <2>1. \A d \in Conns \ {c} : Cut(events'[d], recorded'[d]) = Cut(events[d], recorded[d])
    OBVIOUS
  <2>2. QED
    BY <2>1
<1>3. \A d \in Conns : \/ ws'[d] = ws[d] \/ ws'[d] = "closed"
                       \/ ws[d] = "connecting" /\ ws'[d] = "open"
  <2>1. \A d \in Conns \ {c} : ws'[d] = ws[d]
    OBVIOUS
  <2>2. QED
    BY <2>1
<1>4. UploadsHold'
  BY <1>1, <1>2, <1>3, UploadsKept DEF HookInv
<1>5. /\ jobs' \in Seq(Job) /\ ran' \subseteq DOMAIN jobs' /\ chain' \in Nat
      /\ sent' \in [Conns -> Seq(Nat)] /\ lost' \in [Conns -> SUBSET Nat]
  BY HookFacts
<1>6. \A d \in Conns \ {c} :
        rec'[d] = rec[d] /\ events'[d] = events[d] /\ recorded'[d] = recorded[d]
  OBVIOUS
<1>7. QED
  BY <1>4, <1>5, <1>6, RecorderStep

(* The wire is left alone.                                                 *)
LEMMA SaysNothing ==
  ASSUME WsInv, UNCHANGED <<up, shut, sent>>
  PROVE  Wired
<1>1. up \in [Conns -> Seq(Frames)] /\ shut \in [Conns -> BOOLEAN]
  BY DEF WsInv, TypeOK
<1>2. QED
  BY <1>1 DEF Wired, Speaks

(* Frames that are not audio are put on the wire of an open connection.    *)
LEMMA SaysFrames ==
  ASSUME WsInv, UNCHANGED <<shut, sent>>, NEW c \in Conns,
         NEW fs \in Seq(Frames \ {"audio"}), \A k \in DOMAIN fs : fs[k] # "disconnect",
         up' = [up EXCEPT ![c] = @ \o fs]
  PROVE  Wired
<1>1. up \in [Conns -> Seq(Frames)] /\ shut \in [Conns -> BOOLEAN]
  BY DEF WsInv, TypeOK
<1>2. up' = [d \in Conns |-> up'[d]]
  BY <1>1
<1>3. up'[c] = up[c] \o fs /\ \A d \in Conns \ {c} : up'[d] = up[d]
  BY <1>1
<1>4. ASSUME NEW d \in Conns PROVE Speaks(d)
  <2>1. CASE d = c
    BY <1>3, <2>1 DEF Speaks
  <2>2. CASE d # c
    BY <1>3, <2>2 DEF Speaks
  <2>3. QED
    BY <2>1, <2>2
<1>5. QED
  BY <1>1, <1>2, <1>4 DEF Wired

(* One step of the hook after the other.                                   *)
LEMMA CutHook ==
  ASSUME WsInv, OrderInv, HookInv, NEW c \in Conns, CutSegment(c)
  PROVE  HookKept /\ Wired
<1>1. /\ rec[c] = "recording" /\ StopRecorder(c) /\ recorded[c] + 1 < MaxChunks
      /\ UNCHANGED <<sock, recRef, isRecording, stopping, monitor, chain, latest, queue,
                     texts, jobs, ran, mic, sent, lost, orphans, starts, mounted, ws, asking,
                     up, shut>>
  BY DEF CutSegment, vars, hookRefs, draftVars, jobVars, hookHistory
<1>2. /\ rec' \in [Conns -> {"none", "recording", "inactive"}]
      /\ events' \in [Conns -> Pending] /\ recorded' \in [Conns -> 0 .. MaxChunks]
      /\ Recorded(ws[c], rec'[c], events'[c], recorded'[c])
      /\ Cut(events'[c], recorded'[c]) = Cut(events[c], recorded[c])
      /\ \A d \in Conns \ {c} :
           rec'[d] = rec[d] /\ events'[d] = events[d] /\ recorded'[d] = recorded[d]
      /\ recorded'[c] = recorded[c] + 1
  BY <1>1, StopCounts
<1>3. HookKept
  BY <1>1, <1>2, HookFacts, QuietStep
<1>4. QED
  BY <1>1, <1>3, SaysNothing

LEMMA DataHook ==
  ASSUME WsInv, OrderInv, HookInv, NEW c \in Conns, DataEvent(c)
  PROVE  HookKept /\ Wired
<1>0. /\ Recorded(ws[c], rec[c], events[c], recorded[c])
      /\ events[c] \in Pending /\ recorded[c] \in Nat
  BY OneConnection
<1>1. /\ events[c] # <<>> /\ Head(events[c]) = "data"
      /\ events' = [events EXCEPT ![c] = Tail(@)]
      /\ Chain(c, recorded[c])
      /\ UNCHANGED <<sock, recRef, isRecording, stopping, monitor, chain, latest, queue,
                     texts, rec, ran, mic, recorded, sent, lost, orphans, starts, mounted,
                     ws, asking, up, shut>>
  BY DEF DataEvent, vars, hookRefs, draftVars, hookHistory
<1>2. /\ Tail(events[c]) \in Pending /\ Tail(events[c]) = <<"stop">>
      /\ Recorded(ws[c], rec[c], Tail(events[c]), recorded[c])
      /\ Cut(events[c], recorded[c]) = recorded[c] - 1
      /\ Cut(Tail(events[c]), recorded[c]) = recorded[c]
      /\ ws[c] \notin {"none", "connecting"} /\ recorded[c] # 0 /\ recorded[c] \in Nat
      /\ rec[c] # "recording"
  <2>1. PICK w, r, e, n : w = ws[c] /\ r = rec[c] /\ e = events[c] /\ n = recorded[c]
    OBVIOUS
  <2>2. /\ e \in Pending /\ n \in Nat /\ Recorded(w, r, e, n)
        /\ e # <<>> /\ Head(e) = "data"
    BY <1>0, <1>1, <2>1
  <2>3. /\ e = <<"data", "stop">>
        /\ Tail(e) \in Pending /\ Tail(e) = <<"stop">>
        /\ Recorded(w, r, Tail(e), n)
        /\ w \notin {"none", "connecting"} /\ n # 0 /\ n \in Nat
        /\ r # "recording"
    BY ONLY <2>2, EventsRun
  <2>4. QED
    BY <2>1, <2>2, <2>3, CutOf
<1>3. /\ events' \in [Conns -> Pending] /\ events'[c] = Tail(events[c])
      /\ \A d \in Conns \ {c} : events'[d] = events[d]
  BY <1>1, <1>2, HookFacts
<1>4. /\ Cut(events[c], recorded[c]) \in Int
      /\ Cut(events'[c], recorded'[c]) = Cut(events[c], recorded[c]) + 1
      /\ recorded[c] = Cut(events'[c], recorded'[c])
  BY <1>1, <1>2, <1>3
<1>5. /\ jobs' \in Seq(Job) /\ ran' \subseteq DOMAIN jobs'
      /\ JobsInOrder' /\ Chains' /\ SentHolds' /\ UploadsInOrder'
  <2>1. \A d \in Conns \ {c} : Cut(events'[d], recorded'[d]) = Cut(events[d], recorded[d])
    BY <1>1, <1>3
  <2>2. HookTypes /\ UploadsHold
    BY DEF HookInv
  <2>3. recorded[c] # SayStopNow
    BY <1>2 DEF SayStopNow
  <2>4. QED
    BY <1>1, <1>2, <1>4, <2>1, <2>2, <2>3, JobWaits
<1>6. RecordersHold'
  <2>1. ASSUME NEW d \in Conns PROVE Recorded(ws'[d], rec'[d], events'[d], recorded'[d])
    <3>1. ws' = ws /\ rec' = rec /\ recorded' = recorded
      BY <1>1
    <3>2. CASE d = c
      BY <1>2, <1>3, <3>1, <3>2
    <3>3. CASE d # c
      BY <1>3, <3>1, <3>3 DEF HookInv, UploadsHold, RecordersHold
    <3>4. QED
      BY <3>2, <3>3
  <2>2. QED
    BY <2>1 DEF RecordersHold
<1>7. UploadsHold'
  BY <1>5, <1>6 DEF UploadsHold
<1>8. <<"stop">> # <<"restart">>
  OBVIOUS
<1>9. (\/ rec'[c] = "recording"
       \/ sock = c /\ events'[c] = <<"restart">>
       \/ sock = c /\ ~stopping' /\ events'[c] # <<>>) => recorded'[c] < MaxChunks
  BY <1>1, <1>2, <1>3, <1>8, OneConnection
<1>10. HookKept
  BY <1>1, <1>3, <1>5, <1>7, <1>9, HookFacts, RecorderStep
<1>11. QED
  BY <1>1, <1>10, SaysNothing

LEMMA StopHook ==
  ASSUME WsInv, OrderInv, HookInv, NEW c \in Conns, StopEvent(c)
  PROVE  HookKept /\ Wired
<1>0. /\ Recorded(ws[c], rec[c], events[c], recorded[c])
      /\ events[c] \in Pending /\ recorded[c] \in Nat
  BY OneConnection
<1>1. /\ events[c] # <<>> /\ Head(events[c]) = "stop"
      /\ UNCHANGED <<sock, recRef, isRecording, stopping, monitor, chain, latest, queue,
                     texts, rec, ran, mic, recorded, sent, lost, orphans, starts, mounted,
                     ws, asking, up, shut>>
  BY DEF StopEvent, vars, hookRefs, draftVars, hookHistory
<1>2. /\ Tail(events[c]) = <<>> /\ Append(Tail(events[c]), "restart") = <<"restart">>
      /\ Recorded(ws[c], rec[c], Tail(events[c]), recorded[c])
      /\ Recorded(ws[c], rec[c], Append(Tail(events[c]), "restart"), recorded[c])
      /\ Cut(events[c], recorded[c]) = recorded[c]
      /\ Cut(Tail(events[c]), recorded[c]) = recorded[c]
      /\ Cut(Append(Tail(events[c]), "restart"), recorded[c]) = recorded[c]
      /\ ws[c] \notin {"none", "connecting"} /\ rec[c] # "recording" /\ recorded[c] \in Nat
  <2>1. PICK w, r, e, n : w = ws[c] /\ r = rec[c] /\ e = events[c] /\ n = recorded[c]
    OBVIOUS
  <2>2. /\ e \in Pending /\ n \in Nat /\ Recorded(w, r, e, n)
        /\ e # <<>> /\ Head(e) = "stop"
    BY <1>0, <1>1, <2>1
  <2>3. /\ e = <<"stop">>
        /\ Tail(e) = <<>> /\ Append(Tail(e), "restart") = <<"restart">>
        /\ Recorded(w, r, Tail(e), n)
        /\ Recorded(w, r, Append(Tail(e), "restart"), n)
        /\ w \notin {"none", "connecting"} /\ r # "recording" /\ n \in Nat
    BY ONLY <2>2, EventsRun
  <2>4. QED
    BY <2>1, <2>2, <2>3, CutOf
<1>3. <<>> \in Pending /\ <<"restart">> \in Pending /\ <<>> # <<"restart">>
  BY DEF Pending
<1>4. CASE stopping
  <2>1. events' = [events EXCEPT ![c] = Tail(@)] /\ Chain(c, SayStopNow)
    BY <1>4 DEF StopEvent
  <2>2. /\ events' \in [Conns -> Pending] /\ events'[c] = <<>>
        /\ \A d \in Conns \ {c} : events'[d] = events[d]
    BY <1>2, <1>3, <2>1, HookFacts
  <2>3. /\ jobs' \in Seq(Job) /\ ran' \subseteq DOMAIN jobs'
        /\ JobsInOrder' /\ Chains' /\ SentHolds' /\ UploadsInOrder'
    <3>1. \A d \in Conns \ {c} : Cut(events'[d], recorded'[d]) = Cut(events[d], recorded[d])
      BY <1>1, <2>2
    <3>2. Cut(events'[c], recorded'[c]) = Cut(events[c], recorded[c])
      BY <1>1, <1>2, <2>2
    <3>3. HookTypes /\ UploadsHold
      BY DEF HookInv
    <3>4. SayStopNow \in Nat /\ Cut(events[c], recorded[c]) \in Int
      BY <1>2 DEF SayStopNow
    <3>5. QED
      BY <1>1, <1>2, <2>1, <3>1, <3>2, <3>3, <3>4, JobWaits
  <2>4. RecordersHold'
    <3>1. ASSUME NEW d \in Conns PROVE Recorded(ws'[d], rec'[d], events'[d], recorded'[d])
      <4>1. ws' = ws /\ rec' = rec /\ recorded' = recorded
        BY <1>1
      <4>2. CASE d = c
        BY <1>2, <2>2, <4>1, <4>2
      <4>3. CASE d # c
        BY <2>2, <4>1, <4>3 DEF HookInv, UploadsHold, RecordersHold
      <4>4. QED
        BY <4>2, <4>3
    <3>2. QED
      BY <3>1 DEF RecordersHold
  <2>5. UploadsHold'
    BY <2>3, <2>4 DEF UploadsHold
  <2>6. (\/ rec'[c] = "recording"
         \/ sock = c /\ events'[c] = <<"restart">>
         \/ sock = c /\ ~stopping' /\ events'[c] # <<>>) => recorded'[c] < MaxChunks
    BY <1>1, <1>2, <1>3, <2>2
  <2>7. HookKept
    BY <1>1, <2>2, <2>3, <2>5, <2>6, HookFacts, RecorderStep
  <2>8. QED
    BY <1>1, <2>7, SaysNothing
<1>5. CASE ~stopping
  <2>1. events' = [events EXCEPT ![c] = Append(Tail(@), "restart")] /\ UNCHANGED jobs
    BY <1>5 DEF StopEvent
  <2>2. /\ events' \in [Conns -> Pending] /\ events'[c] = <<"restart">>
        /\ \A d \in Conns \ {c} : events'[d] = events[d]
    BY <1>2, <1>3, <2>1, HookFacts
  <2>3. /\ Recorded(ws'[c], rec'[c], events'[c], recorded'[c])
        /\ Cut(events'[c], recorded'[c]) = Cut(events[c], recorded[c])
    BY <1>1, <1>2, <2>2
  <2>4. (\/ rec'[c] = "recording"
         \/ sock = c /\ events'[c] = <<"restart">>
         \/ sock = c /\ ~stopping' /\ events'[c] # <<>>) => recorded'[c] < MaxChunks
    BY <1>1, <1>2, <1>5, OneConnection
  <2>5. HookKept
    BY <1>1, <2>1, <2>2, <2>3, <2>4, HookFacts, QuietStep
  <2>6. QED
    BY <1>1, <2>5, SaysNothing
<1>6. QED
  BY <1>4, <1>5

LEMMA RestartHook ==
  ASSUME WsInv, OrderInv, HookInv, NEW c \in Conns, RestartTimer(c)
  PROVE  HookKept /\ Wired
<1>0. /\ Recorded(ws[c], rec[c], events[c], recorded[c])
      /\ events[c] \in Pending /\ recorded[c] \in Nat
  BY OneConnection
<1>1. /\ events[c] # <<>> /\ Head(events[c]) = "restart"
      /\ events' = [events EXCEPT ![c] = Tail(@)]
      /\ rec' = IF sock = c THEN [rec EXCEPT ![c] = "recording"] ELSE rec
      /\ UNCHANGED <<sock, recRef, isRecording, stopping, monitor, chain, latest, queue,
                     texts, jobs, ran, mic, recorded, sent, lost, orphans, starts, mounted,
                     ws, asking, up, shut>>
  BY DEF RestartTimer, vars, hookRefs, draftVars, jobVars, hookHistory
<1>2. /\ events[c] = <<"restart">> /\ Tail(events[c]) = <<>>
      /\ Recorded(ws[c], rec[c], Tail(events[c]), recorded[c])
      /\ Recorded(ws[c], "recording", Tail(events[c]), recorded[c])
      /\ Cut(Tail(events[c]), recorded[c]) = Cut(events[c], recorded[c])
  <2>1. PICK w, r, e, n : w = ws[c] /\ r = rec[c] /\ e = events[c] /\ n = recorded[c]
    OBVIOUS
  <2>2. /\ e \in Pending /\ n \in Nat /\ Recorded(w, r, e, n)
        /\ e # <<>> /\ Head(e) = "restart"
    BY <1>0, <1>1, <2>1
  <2>3. /\ e = <<"restart">> /\ Tail(e) = <<>>
        /\ Recorded(w, r, Tail(e), n)
        /\ Recorded(w, "recording", Tail(e), n)
    BY ONLY <2>2, EventsRun
  <2>4. QED
    BY <2>1, <2>2, <2>3, CutOf
<1>3. <<>> \in Pending /\ <<>> # <<"restart">>
  BY DEF Pending
<1>4. /\ events' \in [Conns -> Pending] /\ events'[c] = <<>>
      /\ \A d \in Conns \ {c} : events'[d] = events[d]
  BY <1>1, <1>2, <1>3, HookFacts
<1>5. /\ rec' \in [Conns -> {"none", "recording", "inactive"}]
      /\ \A d \in Conns \ {c} : rec'[d] = rec[d]
      /\ rec'[c] = IF sock = c THEN "recording" ELSE rec[c]
  BY <1>1, HookFacts
<1>6. /\ Recorded(ws'[c], rec'[c], events'[c], recorded'[c])
      /\ Cut(events'[c], recorded'[c]) = Cut(events[c], recorded[c])
  BY <1>1, <1>2, <1>4, <1>5
<1>7. rec'[c] = "recording" => recorded[c] < MaxChunks
  BY <1>2, <1>5, OneConnection
<1>8. HookKept
  BY <1>1, <1>3, <1>4, <1>5, <1>6, <1>7, HookFacts, QuietStep
<1>9. QED
  BY <1>1, <1>8, SaysNothing

LEMMA UploadHook ==
  ASSUME WsInv, OrderInv, HookInv, NEW c \in Conns, Upload(c)
  PROVE  HookKept /\ Wired
<1>1. PICK k \in DOMAIN jobs :
        /\ jobs[k].conn = c /\ jobs[k].segment \in Segment
        /\ InTurn(k)
        /\ ran' = ran \cup {k}
        /\ \/ /\ ws[c] = "open"
              /\ up' = [up EXCEPT ![c] = Append(@, "audio")]
              /\ sent' = [sent EXCEPT ![c] = Append(@, jobs[k].segment)]
              /\ UNCHANGED lost
           \/ /\ ws[c] # "open"
              /\ UNCHANGED <<up, sent, lost>>
           \/ /\ lost' = [lost EXCEPT ![c] = @ \cup {jobs[k].segment}]
              /\ UNCHANGED <<up, sent>>
        /\ UNCHANGED <<shut, hookRefs, draftVars, rec, events, jobs, mic, recorded, orphans,
                       starts, mounted, ws, asking>>
  BY DEF Upload
<1>2. UNCHANGED <<sock, recRef, isRecording, stopping, monitor, chain, latest, queue, texts,
                  rec, events, jobs, mic, recorded, orphans, starts, mounted, ws, asking,
                  shut>>
  BY <1>1 DEF hookRefs, draftVars
<1>3. jobs[k].segment \in Nat /\ jobs[k].segment # SayStopNow
  BY <1>1, TranscriptionAssumption DEF Segment, SayStopNow
<1>4. HookTypes /\ UploadsHold
  BY DEF HookInv
<1>5. /\ ran' \subseteq DOMAIN jobs' /\ sent' \in [Conns -> Seq(Nat)]
      /\ lost' \in [Conns -> SUBSET Nat]
      /\ JobsInOrder' /\ Chains' /\ SentHolds' /\ UploadsInOrder'
  BY <1>1, <1>2, <1>3, <1>4, RunKeeps
<1>6. RecordersHold'
  BY <1>2, <1>4 DEF UploadsHold, RecordersHold
<1>7. UploadsHold'
  BY <1>5, <1>6 DEF UploadsHold
<1>8. (\/ rec'[c] = "recording"
       \/ sock = c /\ events'[c] = <<"restart">>
       \/ sock = c /\ ~stopping' /\ events'[c] # <<>>) => recorded'[c] < MaxChunks
  BY <1>2, OneConnection
<1>9. HookKept
  BY <1>2, <1>5, <1>7, <1>8, HookFacts, RecorderStep
<1>10. Wired
  <2>1. CASE UNCHANGED <<up, sent>>
    BY <1>2, <2>1, SaysNothing
  <2>2. CASE /\ up' = [up EXCEPT ![c] = Append(@, "audio")]
             /\ sent' = [sent EXCEPT ![c] = Append(@, jobs[k].segment)]
    <3>1. /\ up' = [d \in Conns |-> up'[d]] /\ up'[c] = Append(up[c], "audio")
          /\ \A d \in Conns \ {c} : up'[d] = up[d] /\ sent'[d] = sent[d]
          /\ sent'[c] = Append(sent[c], jobs[k].segment)
      BY <2>2, HookFacts
    <3>2. Len(sent'[c]) = Len(sent[c]) + 1
      <4>1. sent[c] \in Seq(Nat)
        BY HookFacts
      <4>2. QED
        BY <1>3, <3>1, <4>1, AppendProperties
    <3>3. ASSUME NEW d \in Conns PROVE Speaks(d)
      <4>1. CASE d = c
        BY <1>2, <3>1, <3>2, <4>1 DEF Speaks
      <4>2. CASE d # c
        BY <1>2, <3>1, <4>2 DEF Speaks
      <4>3. QED
        BY <4>1, <4>2
    <3>4. QED
      BY <1>2, <3>1, <3>3, HookFacts DEF Wired
  <2>3. QED
    BY <1>1, <2>1, <2>2
<1>11. QED
  BY <1>9, <1>10

LEMMA TeardownKeeps ==
  ASSUME WsInv, HookInv, NEW signal \in BOOLEAN, Teardown(signal),
         UNCHANGED <<latest, texts, jobs, ran, sent, lost, orphans, starts, asking>>,
         mounted' \in BOOLEAN
  PROVE  HookKept /\ Wired
<1>1. ran' \subseteq DOMAIN jobs
  BY DEF HookInv, HookTypes
<1>2. \A k \in DOMAIN jobs : jobs[k].segment # SayStopNow => (k \in ran' <=> k \in ran)
  OBVIOUS
<1>3. QED
  BY <1>1, <1>2, TeardownHook DEF HookKept, Wired

LEMMA SayStopHook ==
  ASSUME WsInv, OrderInv, HookInv, NEW c \in Conns, SayStop(c)
  PROVE  HookKept /\ Wired
<1>1. PICK k \in DOMAIN jobs :
        /\ jobs[k].conn = c /\ jobs[k].segment = SayStopNow
        /\ InTurn(k)
        /\ ran' = ran \cup {k}
        /\ IF ws[c] = "open"
           THEN /\ up' = [up EXCEPT ![c] = Append(@, "stop")]
                /\ UNCHANGED <<shut, hookRefs, queue, rec, events, recorded, mic, ws>>
           ELSE Teardown(FALSE)
        /\ UNCHANGED <<latest, texts, jobs, hookHistory, asking>>
  BY DEF SayStop
<1>2. UNCHANGED <<latest, texts, jobs, sent, lost, orphans, starts, mounted, asking>>
  BY <1>1 DEF hookHistory
<1>3. HookTypes /\ UploadsHold
  BY DEF HookInv
<1>4. CASE ws[c] = "open"
  <2>1. /\ up' = [up EXCEPT ![c] = Append(@, "stop")]
        /\ UNCHANGED <<shut, sock, recRef, isRecording, stopping, monitor, chain, queue, rec,
                       events, recorded, mic, ws>>
    BY <1>1, <1>4 DEF hookRefs
  <2>2. /\ ran' \subseteq DOMAIN jobs' /\ sent' \in [Conns -> Seq(Nat)]
        /\ lost' \in [Conns -> SUBSET Nat]
        /\ JobsInOrder' /\ Chains' /\ SentHolds' /\ UploadsInOrder'
    BY <1>1, <1>2, <1>3, <2>1, RunKeeps
  <2>3. RecordersHold'
    BY <1>3, <2>1 DEF UploadsHold, RecordersHold
  <2>4. UploadsHold'
    BY <2>2, <2>3 DEF UploadsHold
  <2>5. (\/ rec'[c] = "recording"
         \/ sock = c /\ events'[c] = <<"restart">>
         \/ sock = c /\ ~stopping' /\ events'[c] # <<>>) => recorded'[c] < MaxChunks
    BY <2>1, OneConnection
  <2>6. HookKept
    BY <1>2, <2>1, <2>2, <2>4, <2>5, HookFacts, RecorderStep
  <2>7. up' = [up EXCEPT ![c] = @ \o <<"stop">>]
    <3>1. up[c] \in Seq(Frames) /\ "stop" \in Frames
      BY HookFacts DEF Frames
    <3>2. Append(up[c], "stop") = up[c] \o <<"stop">>
      BY <3>1, AppendIsConcat
    <3>3. QED
      BY <2>1, <3>2
  <2>8. /\ <<"stop">> \in Seq(Frames \ {"audio"})
        /\ \A j \in DOMAIN <<"stop">> : <<"stop">>[j] # "disconnect"
    BY DEF Frames
  <2>9. Wired
    BY <1>2, <2>1, <2>7, <2>8, SaysFrames
  <2>10. QED
    BY <2>6, <2>9
<1>5. CASE ws[c] # "open"
  <2>1. Teardown(FALSE)
    BY <1>1, <1>5
  <2>2. /\ ran' \subseteq DOMAIN jobs
        /\ \A j \in DOMAIN jobs : jobs[j].segment # SayStopNow => (j \in ran' <=> j \in ran)
    BY <1>1, HookFacts
  <2>3. mounted' \in BOOLEAN
    BY <1>2, HookFacts
  <2>4. QED
    BY <1>2, <2>1, <2>2, <2>3, TeardownHook DEF HookKept, Wired
<1>6. QED
  BY <1>4, <1>5

LEMMA OpenHook ==
  ASSUME WsInv, OrderInv, HookInv, NEW c \in Conns, Open(c)
  PROVE  HookKept /\ Wired
<1>1. /\ ws[c] = "connecting" /\ ws' = [ws EXCEPT ![c] = "open"]
      /\ UNCHANGED <<shut, sock, stopping, chain, latest, queue, texts, events, jobs, ran,
                     mic, recorded, sent, lost, orphans, starts, mounted, asking>>
  BY DEF Open, draftVars, jobVars, hookHistory
<1>2. /\ rec[c] = "none" /\ events[c] = <<>> /\ recorded[c] = 0 /\ 0 < MaxChunks
  BY <1>1, HookFacts, OneConnection DEF Recorded
<1>3. <<>> # <<"restart">> /\ <<>> # <<"data", "stop">>
  OBVIOUS
<1>4. /\ ws' \in [Conns -> {"none", "connecting", "open", "closed"}] /\ ws'[c] = "open"
      /\ \A d \in Conns \ {c} : ws'[d] = ws[d]
  BY <1>1, HookFacts
<1>5. /\ events'[c] = <<>> /\ recorded'[c] = 0
      /\ \A r : Recorded("open", r, <<>>, 0)
  BY <1>1, <1>2, <1>3 DEF Recorded
<1>6. CASE sock = c
  <2>1. /\ rec' = [rec EXCEPT ![c] = "recording"]
        /\ recRef' = c /\ monitor' = c /\ isRecording' = TRUE
    BY <1>6 DEF Open
  <2>2. /\ rec' \in [Conns -> {"none", "recording", "inactive"}] /\ rec'[c] = "recording"
        /\ \A d \in Conns \ {c} : rec'[d] = rec[d]
    BY <2>1, HookFacts
  <2>3. isRecording' <=> recRef' # NoConn
    BY <2>1, HookAssumption
  <2>4. /\ Recorded(ws'[c], rec'[c], events'[c], recorded'[c])
        /\ Cut(events'[c], recorded'[c]) = Cut(events[c], recorded[c])
        /\ recorded'[c] < MaxChunks
    BY <1>1, <1>2, <1>4, <1>5, <2>2
  <2>5. /\ recRef' \in Conns \cup {NoConn} /\ monitor' \in Conns \cup {NoConn}
        /\ isRecording' \in BOOLEAN /\ stopping' \in BOOLEAN
        /\ events' \in [Conns -> Pending] /\ recorded' \in [Conns -> 0 .. MaxChunks]
        /\ \A d \in Conns \ {c} : events'[d] = events[d] /\ recorded'[d] = recorded[d]
    BY <1>1, <2>1, HookFacts
  <2>10. HookKept
    BY <1>1, <1>4, <2>2, <2>3, <2>4, <2>5, QuietStep
  <2>6. PICK token \in {"auth", "noise"} : up' = [up EXCEPT ![c] = @ \o <<token, "start">>]
    BY <1>6 DEF Open
  <2>7. /\ <<token, "start">> \in Seq(Frames \ {"audio"})
        /\ \A k \in DOMAIN <<token, "start">> : <<token, "start">>[k] # "disconnect"
    BY DEF Frames
  <2>8. Wired
    BY <1>1, <2>6, <2>7, SaysFrames
  <2>9. QED
    BY <2>8, <2>10
<1>7. CASE sock # c
  <2>1. UNCHANGED <<up, rec, recRef, monitor, isRecording>>
    BY <1>7 DEF Open
  <2>2. Recorded(ws'[c], rec'[c], events'[c], recorded'[c]) /\ rec'[c] # "recording"
    BY <1>2, <1>4, <1>5, <2>1
  <2>3. HookKept
    BY <1>1, <1>2, <1>3, <1>4, <1>5, <1>7, <2>1, <2>2, HookFacts, QuietStep
  <2>4. QED
    BY <1>1, <2>1, <2>3, SaysNothing
<1>8. QED
  BY <1>6, <1>7

(* A socket of no session that is closed, or stays.                        *)
LEMMA StrayCloses ==
  ASSUME WsInv, OrderInv, HookInv, NEW c \in Conns, sock # c,
         ws' = [ws EXCEPT ![c] = "closed"] \/ ws' = ws,
         UNCHANGED <<sock, recRef, isRecording, stopping, monitor, chain, latest, queue,
                     texts, rec, events, recorded, jobs, ran, mic, sent, lost, orphans,
                     starts, mounted, asking, up, shut>>
  PROVE  HookKept /\ Wired
<1>1. /\ Recorded(ws[c], rec[c], events[c], recorded[c])
      /\ rec[c] = "recording" => recorded[c] < MaxChunks
  BY OneConnection
<1>2. Recorded("closed", rec[c], events[c], recorded[c])
  BY <1>1 DEF Recorded
<1>3. /\ ws' \in [Conns -> {"none", "connecting", "open", "closed"}]
      /\ ws'[c] = "closed" \/ ws'[c] = ws[c]
      /\ \A d \in Conns \ {c} : ws'[d] = ws[d]
  <2>1. ws \in [Conns -> {"none", "connecting", "open", "closed"}]
    BY HookFacts
  <2>2. CASE ws' = [ws EXCEPT ![c] = "closed"]
    BY <2>1, <2>2
  <2>3. CASE ws' = ws
    BY <2>1, <2>3
  <2>4. QED
    BY <2>2, <2>3
<1>4. /\ Recorded(ws'[c], rec'[c], events'[c], recorded'[c])
      /\ Cut(events'[c], recorded'[c]) = Cut(events[c], recorded[c])
  <2>1. rec' = rec /\ events' = events /\ recorded' = recorded
    OBVIOUS
  <2>2. QED
    BY <1>1, <1>2, <1>3, <2>1
<1>5. (\/ rec'[c] = "recording"
       \/ sock = c /\ events'[c] = <<"restart">>
       \/ sock = c /\ ~stopping' /\ events'[c] # <<>>) => recorded'[c] < MaxChunks
  BY <1>1
<1>6. HookKept
  BY <1>3, <1>4, <1>5, HookFacts, QuietStep
<1>7. QED
  BY <1>6, SaysNothing

LEMMA FailHook ==
  ASSUME WsInv, OrderInv, HookInv, NEW c \in Conns, ConnectFail(c)
  PROVE  HookKept /\ Wired
<1>1. /\ UNCHANGED <<latest, texts, jobs, ran, sent, lost, orphans, starts, mounted, asking>>
      /\ mounted' \in BOOLEAN
  BY HookFacts DEF ConnectFail, jobVars, hookHistory
<1>2. CASE sock = c
  <2>1. Teardown(TRUE)
    BY <1>2 DEF ConnectFail
  <2>2. QED
    BY <1>1, <2>1, TeardownKeeps
<1>3. CASE sock # c
  <2>1. /\ ws' = [ws EXCEPT ![c] = "closed"]
        /\ UNCHANGED <<up, shut, sock, recRef, isRecording, stopping, monitor, chain, queue, rec,
                       events, recorded, mic>>
    BY <1>3 DEF ConnectFail, hookRefs
  <2>2. QED
    BY <1>1, <1>3, <2>1, StrayCloses
<1>4. QED
  BY <1>2, <1>3

LEMMA ClickStopHook ==
  ASSUME WsInv, OrderInv, HookInv, ClickStop
  PROVE  HookKept /\ Wired
<1>1. /\ UNCHANGED <<latest, texts, jobs, ran, sent, lost, orphans, starts, mounted, asking>>
      /\ mounted' \in BOOLEAN
  BY HookFacts DEF ClickStop, jobVars, hookHistory
<1>2. CASE recRef # NoConn /\ rec[recRef] = "recording"
  <2>1. PICK c \in Conns : c = recRef
    BY <1>2, HookFacts
  <2>2. /\ rec[c] = "recording" /\ StopRecorder(c) /\ stopping' = TRUE /\ monitor' = NoConn
        /\ UNCHANGED <<up, shut, ws, sock, recRef, isRecording, chain, queue, mic>>
    BY <1>2, <2>1 DEF ClickStop
  <2>3. /\ rec' \in [Conns -> {"none", "recording", "inactive"}]
        /\ events' \in [Conns -> Pending] /\ recorded' \in [Conns -> 0 .. MaxChunks]
        /\ Recorded(ws[c], rec'[c], events'[c], recorded'[c])
        /\ Cut(events'[c], recorded'[c]) = Cut(events[c], recorded[c])
        /\ \A d \in Conns \ {c} :
             rec'[d] = rec[d] /\ events'[d] = events[d] /\ recorded'[d] = recorded[d]
        /\ rec'[c] = "inactive" /\ events'[c] = <<"data", "stop">>
    BY <2>2, StopCounts
  <2>4. <<"data", "stop">> # <<"restart">>
    OBVIOUS
  <2>5. HookKept
    BY <1>1, <2>2, <2>3, <2>4, HookFacts, QuietStep
  <2>6. QED
    BY <1>1, <2>2, <2>5, SaysNothing
<1>3. CASE ~(recRef # NoConn /\ rec[recRef] = "recording")
  <2>1. Teardown(TRUE)
    BY <1>3 DEF ClickStop
  <2>2. QED
    BY <1>1, <2>1, TeardownKeeps
<1>4. QED
  BY <1>2, <1>3

LEMMA EndingHook ==
  ASSUME WsInv, OrderInv, HookInv, Unmount \/ \E c \in Conns : RecorderError(c)
  PROVE  HookKept /\ Wired
<1>1. /\ UNCHANGED <<latest, texts, jobs, ran, sent, lost, orphans, starts, asking>>
      /\ mounted' = FALSE \/ mounted' = mounted
      /\ Teardown(TRUE)
  BY DEF Unmount, RecorderError, jobVars, hookHistory
<1>2. mounted' \in BOOLEAN
  BY <1>1, HookFacts
<1>3. QED
  BY <1>1, <1>2, TeardownKeeps

(* A transcript for the session the refs name.                             *)
LEMMA HearHook ==
  ASSUME WsInv, OrderInv, HookInv, NEW c \in Conns, sock = c, NEW i \in Chunk, Hear(c, i),
         UNCHANGED <<sock, recRef, isRecording, stopping, monitor, chain, texts, rec,
                     events, recorded, jobs, ran, mic, ws, sent, lost, orphans, starts,
                     mounted, asking>>
  PROVE  HookKept
<1>1. queue' \in Seq(Heard) /\ latest' \in Chunk \cup {NoChunk}
  <2>1. Said(c, i) \in Heard
    BY DEF Said, Heard
  <2>2. queue \in Seq(Heard) /\ latest \in Chunk \cup {NoChunk}
    BY HookFacts
  <2>3. CASE i > latest
    BY <2>1, <2>2, <2>3 DEF Hear
  <2>4. CASE ~(i > latest)
    BY <2>2, <2>4 DEF Hear
  <2>5. QED
    BY <2>3, <2>4
<1>2. DraftHolds'
  <2>1. CASE i > latest
    <3>1. ASSUME orphans = {}
          PROVE  OneVoice(texts \o Append(queue, Said(c, i)), i, c)
      BY <2>1, <3>1, HookFacts, VoiceHeard DEF HookInv, DraftHolds
    <3>2. sock' # NoConn
      BY HookFacts
    <3>3. QED
      BY <2>1, <3>1, <3>2 DEF DraftHolds, Hear
  <2>2. CASE ~(i > latest)
    BY <2>2 DEF HookInv, DraftHolds, Hear
  <2>3. QED
    BY <2>1, <2>2
<1>3. UploadsHold' /\ RoomToRecord'
  BY UploadsStay DEF HookInv, RoomToRecord
<1>4. HookTypes'
  BY <1>1 DEF HookInv, HookTypes
<1>5. HookSound'
  BY <1>1 DEF HookInv, HookSound, LiveTypeOK, MicReleased
<1>6. QED
  BY <1>2, <1>3, <1>4, <1>5 DEF HookKept

(* The hook's own variables, but for those of the user's clicks.           *)
LEMMA NothingHappens ==
  ASSUME WsInv, OrderInv, HookInv,
         UNCHANGED <<sock, recRef, isRecording, stopping, monitor, chain, latest, queue,
                     texts, rec, events, recorded, jobs, ran, mic, ws, sent, lost, orphans,
                     mounted, up, shut>>,
         asking' \in 0 .. MaxStarts, starts' \in 0 .. MaxStarts, asking' <= starts'
  PROVE  HookKept /\ Wired
<1>1. UploadsHold' /\ RoomToRecord' /\ DraftHolds'
  BY UploadsStay DEF HookInv, RoomToRecord, DraftHolds
<1>2. HookTypes' /\ HookSound'
  BY DEF HookInv, HookTypes, HookSound, LiveTypeOK, MicReleased
<1>3. QED
  BY <1>1, <1>2, SaysNothing DEF HookKept

LEMMA MessageHook ==
  ASSUME WsInv, OrderInv, HookInv, NEW c \in Conns, OnMessage(c)
  PROVE  HookKept /\ Wired
<1>1. /\ UNCHANGED <<texts, jobs, ran, sent, lost, orphans, starts, mounted, asking>>
      /\ down[c] # <<>> /\ down[c] \in Seq(Message)
  BY HookFacts DEF OnMessage, jobVars
<1>2. mounted' \in BOOLEAN
  BY <1>1, HookFacts
<1>3. CASE sock = c
  <2>1. PICK message \in Message : message = Head(down[c])
    BY <1>1
  <2>2. React(c, message)
    BY <1>3, <2>1 DEF OnMessage
  <2>3. CASE /\ message.type = "transcript" /\ Hear(c, message.chunk)
             /\ UNCHANGED <<hookRefs, rec, events, recorded, mic, ws, shut, up>>
    <3>1. message.chunk \in Chunk
      BY <2>3 DEF Message, Payload, Notice
    <3>2. UNCHANGED <<sock, recRef, isRecording, stopping, monitor, chain>>
      BY <2>3 DEF hookRefs
    <3>3. HookKept
      BY <1>1, <1>3, <2>3, <3>1, <3>2, HearHook
    <3>4. QED
      BY <1>1, <2>3, <3>3, SaysNothing
  <2>4. CASE UNCHANGED <<teardownVars, latest>>
    BY <1>1, <2>4, HookFacts, NothingHappens DEF teardownVars, hookRefs
  <2>5. CASE (Teardown(FALSE) \/ Teardown(TRUE)) /\ UNCHANGED latest
    BY <1>1, <1>2, <2>5, TeardownKeeps
  <2>6. QED
    BY <2>2, <2>3, <2>4, <2>5 DEF React
<1>4. CASE sock # c
  <2>1. /\ ws' = [ws EXCEPT ![c] = "closed"] \/ ws' = ws
        /\ UNCHANGED <<sock, recRef, isRecording, stopping, monitor, chain, latest, queue,
                       rec, events, recorded, mic, shut, up>>
    BY <1>4 DEF OnMessage, hookRefs
  <2>2. QED
    BY <1>1, <1>4, <2>1, StrayCloses
<1>5. QED
  BY <1>3, <1>4

(* A new session takes the refs, whatever they held.                       *)
LEMMA GrantedHook ==
  ASSUME WsInv, OrderInv, HookInv, Granted
  PROVE  HookKept /\ Wired
<1>1. PICK c \in Conns : ws[c] = "none" /\ c = CHOOSE fresh \in Conns : ws[fresh] = "none"
  BY DEF Granted
<1>2. /\ asking > 0 /\ asking' = asking - 1
      /\ ws' = [ws EXCEPT ![c] = "connecting"] /\ mic' = [mic EXCEPT ![c] = TRUE]
      /\ sock' = c /\ orphans' = orphans \cup ({sock} \ {NoConn})
      /\ texts' = <<>> /\ queue' = (IF queue = <<>> THEN <<>> ELSE <<Head(queue)>>)
      /\ latest' = NoChunk /\ stopping' = FALSE /\ chain' = Len(jobs)
      /\ UNCHANGED <<recRef, isRecording, monitor, rec, events, jobs, ran, recorded, sent,
                     lost, starts, mounted, up, shut>>
  BY <1>1 DEF Granted, jobVars, vars
<1>3. Recorded(ws[c], rec[c], events[c], recorded[c])
  BY OneConnection
<1>4. Recorded("connecting", rec[c], events[c], recorded[c])
  BY <1>1, <1>3 DEF Recorded
<1>5. rec[c] = "none" /\ events[c] = <<>>
  BY <1>1, <1>3 DEF Recorded
<1>6. /\ ws' \in [Conns -> {"none", "connecting", "open", "closed"}] /\ ws'[c] = "connecting"
      /\ \A d \in Conns \ {c} : ws'[d] = ws[d]
      /\ mic' \in [Conns -> BOOLEAN] /\ \A d \in Conns \ {c} : mic'[d] = mic[d]
  BY <1>2, HookFacts
<1>7. UploadsHold'
  <2>1. HookTypes /\ UploadsHold
    BY DEF HookInv
  <2>2. \A k \in DOMAIN jobs : jobs[k].conn \in Conns /\ jobs[k].conn # c
    BY <1>1, <2>1, JobFields DEF HookTypes, UploadsHold, Chains
  <2>3. JobsInOrder' /\ SentHolds' /\ UploadsInOrder'
    <3>1. \A d \in Conns : ws'[d] = "open" => ws[d] = "open"
      BY <1>6
    <3>2. orphans \subseteq orphans'
      BY <1>2
    <3>3. QED
      BY <1>2, <2>1, <3>1, <3>2, JobsStay DEF UploadsHold
  <2>4. RecordersHold'
    <3>1. ASSUME NEW d \in Conns PROVE Recorded(ws'[d], rec'[d], events'[d], recorded'[d])
      <4>1. rec' = rec /\ events' = events /\ recorded' = recorded
        BY <1>2
      <4>2. CASE d = c
        BY <1>4, <1>6, <4>1, <4>2
      <4>3. CASE d # c
        BY <1>6, <2>1, <4>1, <4>3 DEF UploadsHold, RecordersHold
      <4>4. QED
        BY <4>2, <4>3
    <3>2. QED
      BY <3>1 DEF RecordersHold
  <2>5. Chains'
    <3>1. Len(jobs) \in Nat /\ chain' <= Len(jobs')
      BY <1>2, <2>1, LenProperties DEF HookTypes
    <3>2. \A k \in DOMAIN jobs : jobs[k].chain < k
      BY <2>1 DEF UploadsHold, Chains
    <3>3. \A k \in DOMAIN jobs : ws'[jobs[k].conn] \notin {"none", "connecting"}
      BY <1>6, <2>1, <2>2 DEF UploadsHold, Chains
    <3>4. \A k \in DOMAIN jobs : jobs[k].conn # sock'
      BY <1>2, <2>2
    <3>5. ASSUME NEW d \in Conns \ orphans', ws'[d] \in {"connecting", "open"}
          PROVE  sock' = d
      <4>1. CASE d # c
        <5>1. d \notin orphans /\ ws[d] \in {"connecting", "open"}
          BY <1>2, <1>6, <3>5, <4>1
        <5>2. sock = d
          BY <2>1, <5>1 DEF UploadsHold, Chains
        <5>3. d \in orphans'
          BY <1>2, <5>2, HookFacts
        <5>4. QED
          BY <3>5, <5>3
      <4>2. QED
        BY <1>2, <4>1
    <3>6. QED
      BY <1>2, <3>1, <3>2, <3>3, <3>4, <3>5 DEF Chains
  <2>6. QED
    BY <2>3, <2>4, <2>5 DEF UploadsHold
<1>8. RoomToRecord'
  <2>1. <<>> # <<"restart">>
    OBVIOUS
  <2>2. ASSUME NEW d \in Conns,
               \/ rec'[d] = "recording"
               \/ sock' = d /\ events'[d] = <<"restart">>
               \/ sock' = d /\ ~stopping' /\ events'[d] # <<>>
        PROVE  recorded'[d] < MaxChunks
    <3>1. rec[d] = "recording" /\ recorded'[d] = recorded[d]
      BY <1>2, <1>5, <2>1, <2>2
    <3>2. QED
      BY <3>1 DEF HookInv, RoomToRecord
  <2>3. QED
    BY <2>2 DEF RoomToRecord
<1>9. queue' \in Seq(Heard) /\ texts' \in Seq(Heard)
  <2>1. <<>> \in Seq(Heard) /\ queue \in Seq(Heard)
    BY HookFacts
  <2>2. CASE queue = <<>>
    BY <1>2, <2>1, <2>2
  <2>3. CASE queue # <<>>
    <3>1. Head(queue) \in Heard
      BY <2>1, <2>3
    <3>2. <<Head(queue)>> \in Seq(Heard)
      BY <3>1
    <3>3. QED
      BY <1>2, <2>1, <2>3, <3>2
  <2>4. QED
    BY <2>2, <2>3
<1>10. asking' \in 0 .. MaxStarts /\ asking' <= starts'
  <2>1. /\ asking \in 0 .. MaxStarts /\ starts \in 0 .. MaxStarts /\ asking <= starts
        /\ MaxStarts \in Nat
    BY HookFacts
  <2>2. asking - 1 \in 0 .. MaxStarts /\ asking - 1 <= starts
    BY <1>2, <2>1
  <2>3. QED
    BY <1>2, <2>2
<1>11. HookTypes'
  <2>1. chain' \in Nat
    BY <1>2, HookFacts, LenProperties
  <2>2. QED
    BY <1>2, <1>9, <1>10, <2>1, HookFacts DEF HookTypes
<1>12. HookSound'
  <2>1. MicReleased'
    <3>1. ASSUME NEW d \in Conns \ orphans', mic'[d]
          PROVE  sock' = d
      <4>1. CASE d = c
        BY <1>2, <4>1
      <4>2. CASE d # c
        <5>1. mic[d] /\ d \notin orphans
          BY <1>2, <1>6, <3>1, <4>2
        <5>2. sock = d
          BY <5>1 DEF HookInv, HookSound, MicReleased
        <5>3. d \in orphans'
          BY <1>2, <5>2, HookFacts
        <5>4. QED
          BY <5>3
      <4>3. QED
        BY <4>1, <4>2
    <3>2. QED
      BY <3>1 DEF MicReleased
  <2>2. LiveTypeOK'
    BY <1>2, <1>6, <1>10, HookFacts DEF LiveTypeOK
  <2>3. QED
    BY <2>1, <2>2 DEF HookSound
<1>13. DraftHolds'
  <2>1. ASSUME orphans' = {}
        PROVE  texts' \o queue' = <<>>
    <3>1. orphans = {} /\ sock = NoConn
      BY <1>2, <2>1
    <3>2. queue = <<>>
      BY <3>1 DEF HookInv, DraftHolds
    <3>3. QED
      BY <1>2, <3>2
  <2>2. OneVoice(<<>>, NoChunk, c)
    BY DEF OneVoice
  <2>3. sock' # NoConn
    BY <1>2, HookFacts
  <2>4. QED
    BY <1>2, <2>1, <2>2, <2>3 DEF DraftHolds
<1>14. QED
  BY <1>2, <1>7, <1>8, <1>11, <1>12, <1>13, SaysNothing DEF HookKept

LEMMA TypedHook ==
  ASSUME WsInv, OrderInv, HookInv, Typed
  PROVE  HookKept /\ Wired
<1>1. /\ queue # <<>> /\ queue' = Tail(queue) /\ texts' = Append(texts, Head(queue))
      /\ UNCHANGED <<sock, recRef, isRecording, stopping, monitor, chain, latest, rec,
                     events, recorded, jobs, ran, mic, ws, sent, lost, orphans, starts,
                     mounted, asking, up, shut>>
  BY DEF Typed, vars, hookRefs, recorderVars, jobVars, hookHistory
<1>2. queue \in Seq(Heard) /\ texts \in Seq(Heard)
  BY HookFacts
<1>3. queue' \in Seq(Heard) /\ texts' \in Seq(Heard)
  BY <1>1, <1>2
<1>4. DraftHolds'
  <2>1. ASSUME orphans = {}
        PROVE  OneVoice(texts' \o queue', latest, sock) /\ sock # NoConn
    <3>1. OneVoice(texts \o queue, latest, sock) /\ sock # NoConn
      BY <1>1, <2>1 DEF HookInv, DraftHolds
    <3>2. texts' \o queue' = texts \o queue
      BY <1>1, <1>2, <3>1, VoiceShortened
    <3>3. QED
      BY <3>1, <3>2
  <2>2. QED
    BY <1>1, <2>1 DEF DraftHolds
<1>5. UploadsHold' /\ RoomToRecord'
  BY <1>1, UploadsStay DEF HookInv, RoomToRecord
<1>6. HookTypes'
  BY <1>1, <1>3 DEF HookInv, HookTypes
<1>7. HookSound'
  BY <1>1 DEF HookInv, HookSound, LiveTypeOK, MicReleased
<1>8. QED
  BY <1>1, <1>4, <1>5, <1>6, <1>7, SaysNothing DEF HookKept

LEMMA ClickHook ==
  ASSUME WsInv, OrderInv, HookInv, ClickStart \/ Denied
  PROVE  HookKept /\ Wired
<1>1. UNCHANGED <<sock, recRef, isRecording, stopping, monitor, chain, latest, queue, texts,
                  rec, events, recorded, jobs, ran, mic, ws, sent, lost, orphans, mounted, up,
                  shut>>
  BY DEF ClickStart, Denied, vars, hookRefs, draftVars, recorderVars, jobVars, hookHistory
<1>2. asking' \in 0 .. MaxStarts /\ starts' \in 0 .. MaxStarts /\ asking' <= starts'
  <2>1. /\ asking \in 0 .. MaxStarts /\ starts \in 0 .. MaxStarts /\ asking <= starts
        /\ MaxStarts \in Nat
    BY HookFacts
  <2>2. CASE ClickStart
    <3>1. starts < MaxStarts /\ starts' = starts + 1 /\ asking' = asking + 1
      BY <2>2 DEF ClickStart
    <3>2. QED
      BY <2>1, <3>1
  <2>3. CASE Denied
    <3>1. asking > 0 /\ asking' = asking - 1 /\ starts' = starts
      BY <2>3 DEF Denied, hookHistory
    <3>2. QED
      BY <2>1, <3>1
  <2>4. QED
    BY <2>2, <2>3
<1>3. QED
  BY <1>1, <1>2, NothingHappens

-----------------------------------------------------------------------------
(* The inductive invariant of the two: the server's holds under the hook,  *)
(* because no more audio is sent than was recorded.                        *)
LiveInv == WsInv /\ OrderInv /\ HookInv

LEMMA LiveInitInv == LiveInit => LiveInv
<1> SUFFICES ASSUME LiveInit PROVE LiveInv
  OBVIOUS
<1>1. Init
  BY DEF LiveInit
<1>2. /\ <<>> \in Seq(Nat) /\ <<>> \in Seq(Heard) /\ <<>> \in Pending /\ <<>> \in Seq(Job)
      /\ DOMAIN <<>> = {}
  BY DEF Pending
<1>3. HookTypes
  <2>1. 0 \in 0 .. MaxChunks /\ 0 \in 0 .. MaxStarts /\ 0 <= 0
    BY HookAssumption, TranscriptionAssumption
  <2>2. /\ events \in [Conns -> Pending]
        /\ sent \in [Conns -> Seq(Nat)] /\ lost \in [Conns -> SUBSET Nat]
        /\ recorded \in [Conns -> 0 .. MaxChunks]
    BY <1>2, <2>1 DEF LiveInit
  <2>3. queue \in Seq(Heard) /\ texts \in Seq(Heard)
    BY <1>2 DEF LiveInit
  <2>4. starts \in 0 .. MaxStarts /\ asking <= starts
    BY <2>1 DEF LiveInit
  <2>5. jobs \in Seq(Job) /\ ran \subseteq DOMAIN jobs /\ chain \in Nat
    BY <1>2 DEF LiveInit
  <2>6. QED
    BY <2>2, <2>3, <2>4, <2>5 DEF HookTypes
<1>4. HookSound
  <2>1. 0 \in 0 .. MaxStarts /\ 0 \in 0 .. MaxChunks
    BY HookAssumption, TranscriptionAssumption
  <2>2. /\ ws \in [Conns -> {"none", "connecting", "open", "closed"}]
        /\ mic \in [Conns -> BOOLEAN]
        /\ rec \in [Conns -> {"none", "recording", "inactive"}]
        /\ \A c \in Conns : recorded[c] \in 0 .. MaxChunks
    BY <2>1 DEF LiveInit
  <2>3. /\ sock = NoConn /\ recRef = NoConn /\ monitor = NoConn /\ asking \in 0 .. MaxStarts
        /\ isRecording = FALSE /\ stopping = FALSE /\ mounted = TRUE /\ latest = NoChunk
    BY <2>1 DEF LiveInit
  <2>4. LiveTypeOK
    BY <2>2, <2>3 DEF LiveTypeOK
  <2>5. MicReleased
    BY DEF LiveInit, MicReleased
  <2>6. QED
    BY <2>4, <2>5 DEF HookSound
<1>5. UploadsHold
  <2>1. /\ Recorded("none", "none", <<>>, 0) /\ Cut(<<>>, 0) = 0 /\ 1 .. 0 = {}
    <3>1. <<>> # <<"data", "stop">>
      OBVIOUS
    <3>2. QED
      BY <3>1 DEF Recorded, Cut
  <2>2. RecordersHold
    BY <2>1 DEF LiveInit, RecordersHold
  <2>3. /\ jobs = <<>> /\ DOMAIN jobs = {} /\ ran = {} /\ chain = 0 /\ Len(jobs) = 0
        /\ \A c \in Conns : events[c] = <<>> /\ recorded[c] = 0 /\ ws[c] = "none"
        /\ \A c \in Conns : sent[c] = <<>> /\ DOMAIN sent[c] = {} /\ Len(sent[c]) = 0
    BY DEF LiveInit
  <2>4. \A c \in Conns : Uploads(c) = {} /\ Gone(c) = {}
    BY <2>3 DEF Uploads, Gone
  <2>5. JobsInOrder
    BY <2>1, <2>3, <2>4 DEF JobsInOrder
  <2>6. Chains
    BY <2>3 DEF Chains
  <2>7. SentHolds
    <3>1. Cardinality({}) = 0
      BY FS_EmptySet
    <3>2. \A c \in Conns : 0 <= Cardinality(Gone(c))
      BY <2>4, <3>1
    <3>3. QED
      BY <2>3, <2>4, <3>2 DEF SentHolds
  <2>8. UploadsInOrder
    BY <2>3 DEF UploadsInOrder
  <2>9. QED
    BY <2>2, <2>5, <2>6, <2>7, <2>8 DEF UploadsHold
<1>6. RoomToRecord
  BY HookAssumption, TranscriptionAssumption DEF LiveInit, RoomToRecord
<1>7. OnTheWire
  <2>1. ASSUME NEW c \in Conns PROVE nextIn[c] + Uploading(c) <= Len(sent[c])
    <3>1. up[c] = <<>> /\ nextIn[c] = 0 /\ sent[c] = <<>>
      BY <1>1 DEF Init, LiveInit
    <3>2. {k \in DOMAIN up[c] : up[c][k] = "audio"} = {}
      BY <3>1
    <3>3. Uploading(c) = 0
      BY <3>2, FS_EmptySet DEF Uploading
    <3>4. QED
      BY <3>1, <3>3
  <2>2. QED
    BY <2>1 DEF OnTheWire
<1>8. DraftHolds
  <2>1. texts \o queue = <<>>
    BY DEF LiveInit
  <2>2. QED
    BY <2>1 DEF LiveInit, DraftHolds, OneVoice
<1>9. QED
  BY <1>1, <1>3, <1>4, <1>5, <1>6, <1>7, <1>8, WsInit, OrderInit DEF LiveInv, HookInv

(* A step of the browser that keeps the hook keeps the server.             *)
LEMMA BrowserLive ==
  ASSUME LiveInv, HookKept, Wired,
         UNCHANGED <<disconnected, nextIn, nextOut, pending, ready, task, cache, delivered,
                     unclear>>,
         \/ phase' = phase
         \/ \E c \in Conns : phase[c] = "none" /\ phase' = [phase EXCEPT ![c] = "auth"],
         down' \in [Conns -> Seq(Message)]
  PROVE  LiveInv'
<1>1. DOMAIN up' = Conns /\ up' = [d \in Conns |-> up'[d]] /\ shut' \in [Conns -> BOOLEAN]
      /\ \A d \in Conns : Speaks(d)
  BY DEF Wired
<1>2. HookTypes' /\ WsInv /\ OrderInv /\ HookInv /\ UploadsHold'
  BY DEF HookKept, LiveInv
<1>0. \A d \in Conns : Len(sent'[d]) <= recorded'[d]
  BY <1>2, SentWasRecordedNext
<1>3. WsInv' /\ OrderInv' /\ OnTheWire'
  BY <1>0, <1>1, <1>2, BrowserKeepsServer
<1>4. QED
  BY <1>3 DEF HookKept, LiveInv, HookInv

LEMMA LiveNextInv == LiveInv /\ [LiveNext]_liveVars => LiveInv'
<1> SUFFICES ASSUME LiveInv, [LiveNext]_liveVars PROVE LiveInv'
  OBVIOUS
<1>0. WsInv /\ OrderInv /\ HookInv /\ down \in [Conns -> Seq(Message)]
  BY DEF LiveInv, OrderInv
<1>1. ASSUME NEW c \in Conns, ServerStep(c), UNCHANGED hookVars
      PROVE  LiveInv'
  BY <1>0, <1>1, ServerLive DEF ServerStep, LiveInv
<1>2. ASSUME NEW c \in Conns, Open(c) PROVE LiveInv'
  <2>1. /\ UNCHANGED <<disconnected, nextIn, nextOut, pending, ready, task, cache, delivered,
                       unclear, down>>
        /\ phase[c] = "none" /\ phase' = [phase EXCEPT ![c] = "auth"]
    BY <1>2 DEF Open, Goto, chunkVars
  <2>2. HookKept /\ Wired
    BY <1>0, <1>2, OpenHook
  <2>3. QED
    BY <1>0, <2>1, <2>2, BrowserLive
<1>3. ASSUME NEW c \in Conns, OnMessage(c) PROVE LiveInv'
  <2>1. /\ UNCHANGED <<disconnected, nextIn, nextOut, pending, ready, task, cache, delivered,
                       unclear, phase>>
        /\ down[c] # <<>> /\ down' = [down EXCEPT ![c] = Tail(@)]
    BY <1>3 DEF OnMessage, serverVars, handlerVars, chunkVars
  <2>2. down' \in [Conns -> Seq(Message)]
    BY <1>0, <2>1
  <2>3. HookKept /\ Wired
    BY <1>0, <1>3, MessageHook
  <2>4. QED
    BY <2>1, <2>2, <2>3, BrowserLive
<1>4. ASSUME NEW c \in Conns,
             \/ ConnectFail(c) \/ DataEvent(c) \/ StopEvent(c) \/ RestartTimer(c)
             \/ Upload(c) \/ SayStop(c) \/ CutSegment(c) \/ RecorderError(c)
      PROVE  LiveInv'
  <2>1. UNCHANGED <<disconnected, nextIn, nextOut, pending, ready, task, cache, delivered,
                    unclear, phase, down>>
    BY <1>4 DEF ConnectFail, DataEvent, StopEvent, RestartTimer, Upload, SayStop, CutSegment,
                RecorderError, serverVars, handlerVars, chunkVars, vars
  <2>2. HookKept /\ Wired
    BY <1>0, <1>4, FailHook, DataHook, StopHook, RestartHook, UploadHook, SayStopHook,
       CutHook, EndingHook
  <2>3. QED
    BY <1>0, <2>1, <2>2, BrowserLive
<1>5. CASE ClickStart \/ Granted \/ Denied \/ ClickStop \/ Unmount \/ Typed
  <2>1. UNCHANGED <<disconnected, nextIn, nextOut, pending, ready, task, cache, delivered,
                    unclear, phase, down>>
    BY <1>5 DEF ClickStart, Granted, Denied, ClickStop, Unmount, Typed, serverVars,
                handlerVars, chunkVars, vars
  <2>2. HookKept /\ Wired
    BY <1>0, <1>5, ClickHook, GrantedHook, ClickStopHook, EndingHook, TypedHook
  <2>3. QED
    BY <1>0, <2>1, <2>2, BrowserLive
<1>6. CASE UNCHANGED liveVars
  <2>1. /\ UNCHANGED <<disconnected, nextIn, nextOut, pending, ready, task, cache, delivered,
                       unclear, phase, down>>
        /\ UNCHANGED <<sock, recRef, isRecording, stopping, monitor, chain, latest, queue,
                       texts, rec, events, recorded, jobs, ran, mic, ws, sent, lost, orphans,
                       mounted, up, shut, asking, starts>>
    BY <1>6 DEF liveVars, vars, hookVars, hookRefs, draftVars, recorderVars, jobVars,
                hookHistory
  <2>2. HookKept /\ Wired
    BY <1>0, <2>1, HookFacts, NothingHappens
  <2>3. QED
    BY <1>0, <2>1, <2>2, BrowserLive
<1>7. QED
  BY <1>1, <1>2, <1>3, <1>4, <1>5, <1>6 DEF LiveNext, Browser

(* What is recorded, sent, received and heard holds together in every      *)
(* state of the browser and the server.                                    *)
THEOREM LiveInvariance == LiveSpec => []LiveInv
<1>1. LiveSpec => LiveInit /\ [][LiveNext]_liveVars
  BY DEF LiveSpec
<1>2. QED
  BY <1>1, LiveInitInv, LiveNextInv, PTL

(* The hook's refs keep their types, the button shows a recording exactly  *)
(* when there is one, and the microphone is open only for the session the  *)
(* refs name or one that lost them (useLiveTranscription.ts).              *)
THEOREM HookStaysSound == LiveSpec => []HookSound
<1>1. LiveInv => HookSound
  BY DEF LiveInv, HookInv
<1>2. QED
  BY <1>1, LiveInvariance, PTL

(* The chain of promises puts the segments of a session that nothing       *)
(* displaced onto the wire in the order they were recorded, none twice,    *)
(* and none left out before a later one but those whose blob was empty or  *)
(* could not be read (useLiveTranscription.ts:498-513).                    *)
THEOREM SegmentsLeaveInOrder == LiveSpec => []UploadsInOrder
<1>1. LiveInv => UploadsInOrder
  BY DEF LiveInv, HookInv, UploadsHold
<1>2. QED
  BY <1>1, LiveInvariance, PTL

(* As long as no session displaced another, the draft is the speech of one *)
(* session, in the order it was spoken (applyTranscriptChunk).             *)
THEOREM DraftsAreInOrder == LiveSpec => []DraftInOrder
<1>1. LiveInv => DraftInOrder
  BY DEF LiveInv, HookInv, DraftHolds, OneVoice, DraftInOrder
<1>2. QED
  BY <1>1, LiveInvariance, PTL

(* Under the hook the server keeps what it promises any client: chunks in  *)
(* their order, none lost, not too many running, nothing left behind.      *)
THEOREM ServerHoldsUnderHook ==
  LiveSpec => [](InOrder /\ NothingLost /\ InflightBound /\ CacheCleared)
<1>1. LiveInv => InOrder /\ NothingLost /\ InflightBound /\ CacheCleared
  BY OrderShown, LossShown DEF LiveInv, WsInv, RoomToRead, InflightBound
<1>2. QED
  BY <1>1, LiveInvariance, PTL
=============================================================================
