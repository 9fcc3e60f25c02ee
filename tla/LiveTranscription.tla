-------------------------- MODULE LiveTranscription --------------------------
(***************************************************************************)
(* Live transcription end to end: the browser's hook useLiveTranscription  *)
(* talking to the server of TranscriptionWs.                               *)
(*                                                                         *)
(* The hook keeps its session in refs that every callback of an older      *)
(* session can still see: a callback of connection c runs whenever the     *)
(* browser gets to it, whatever session the refs name by then.  An action  *)
(* is one callback.                                                        *)
(*                                                                         *)
(* A recorder that is stopped delivers one segment of audio and then its   *)
(* stop event.  Uploads, and saying stop, are chained to the promise in    *)
(* chunkUploadQueueRef.  That ref is one for all sessions: a new session   *)
(* and a teardown begin a new chain, and what was chained before runs on   *)
(* along its own, beside it.                                               *)
(***************************************************************************)
EXTENDS TranscriptionWs

CONSTANTS
  NoConn,       \* a ref that is null
  MaxStarts     \* bound on the sessions the user asks for

ASSUME HookAssumption == NoConn \notin Conns /\ MaxStarts \in Nat

VARIABLES
  sock,         \* transcriptionSocketRef, and with it mediaStreamRef
  recRef,       \* mediaRecorderRef: the connection whose recorder it is
  ws,           \* readyState of each WebSocket
  mic,          \* the tracks of the connection's media stream are live
  rec,          \* the state of the connection's MediaRecorder
  events,       \* recorder events and timers that have not run yet
  chain,        \* chunkUploadQueueRef: where in jobs its chain begins
  jobs,         \* all that was chained to the ref, in that order
  ran,          \* the places in jobs of what has run
  asking,       \* getUserMedia calls that have not answered
  isRecording,  \* isRecordingSpeech
  stopping,     \* isStoppingRecordingRef
  monitor,      \* the connection whose segment monitor is running
  latest,       \* latestChunkIndexRef
  queue,        \* the transcript being typed and transcriptQueueRef
  texts,        \* speechChunkTextsRef: what is typed to its end
  recorded,     \* (history) segments recorded on each connection
  sent,         \* (history) the segments that went onto the wire, in order
  lost,         \* (history) the segments whose blob was empty or unreadable
  orphans,      \* (history) sessions whose refs were overwritten
  starts,       \* (history) sessions asked for so far
  mounted       \* the component is on the page

hookRefs == <<sock, recRef, isRecording, stopping, monitor, chain>>
draftVars == <<latest, queue, texts>>
teardownVars == <<hookRefs, queue, rec, events, recorded, mic, ws, shut, up>>
jobVars == <<jobs, ran>>
recorderVars == <<rec, events, jobVars, mic, recorded>>
hookHistory == <<sent, lost, orphans, starts, mounted>>
hookVars == <<hookRefs, draftVars, recorderVars, hookHistory, ws, asking>>
liveVars == <<vars, hookVars>>

Segment == 1 .. MaxChunks
SayStopNow == 0
Said(c, i) == [conn |-> c, chunk |-> i]

LiveInit ==
  /\ Init
  /\ sock = NoConn /\ recRef = NoConn /\ monitor = NoConn
  /\ ws = [c \in Conns |-> "none"]
  /\ mic = [c \in Conns |-> FALSE]
  /\ rec = [c \in Conns |-> "none"]
  /\ events = [c \in Conns |-> <<>>]
  /\ chain = 0 /\ jobs = <<>> /\ ran = {}
  /\ asking = 0
  /\ isRecording = FALSE /\ stopping = FALSE
  /\ latest = NoChunk
  /\ queue = <<>> /\ texts = <<>>
  /\ recorded = [c \in Conns |-> 0]
  /\ sent = [c \in Conns |-> <<>>]
  /\ lost = [c \in Conns |-> {}]
  /\ orphans = {}
  /\ starts = 0
  /\ mounted = TRUE

serverVars == <<handlerVars, chunkVars, delivered, unclear>>

-----------------------------------------------------------------------------
(* MediaRecorder.stop(): the data and then the stop event will be fired.   *)
StopRecorder(c) ==
  /\ rec' = [rec EXCEPT ![c] = "inactive"]
  /\ events' = [events EXCEPT ![c] = @ \o <<"data", "stop">>]
  /\ recorded' = [recorded EXCEPT ![c] = @ + 1]

(* Mutant: the media tracks are left running. *)
TeardownKeepsMic(signal) ==
  /\ monitor' = NoConn
  /\ queue' = <<>>
  /\ IF recRef # NoConn /\ rec[recRef] = "recording"
     THEN StopRecorder(recRef)
     ELSE UNCHANGED <<rec, events, recorded>>
  /\ UNCHANGED mic
  /\ IF sock # NoConn /\ ws[sock] \in {"open", "connecting"}
     THEN /\ ws' = [ws EXCEPT ![sock] = "closed"]
          /\ shut' = [shut EXCEPT ![sock] = TRUE]
          /\ up' = [up EXCEPT ![sock] =
               @ \o (IF signal /\ ws[sock] = "open" THEN <<"stop">> ELSE <<>>)
                 \o <<"disconnect">>]
     ELSE UNCHANGED <<ws, shut, up>>
  /\ sock' = NoConn /\ recRef' = NoConn
  /\ stopping' = FALSE /\ isRecording' = FALSE
  /\ chain' = Len(jobs)

(* teardownLiveTranscription: whatever session the refs name is ended.     *)
Teardown(signal) ==
  /\ monitor' = NoConn
  /\ queue' = <<>>
  /\ IF recRef # NoConn /\ rec[recRef] = "recording"
     THEN StopRecorder(recRef)
     ELSE UNCHANGED <<rec, events, recorded>>
  /\ mic' = [c \in Conns |-> mic[c] /\ c # sock]
  /\ IF sock # NoConn /\ ws[sock] \in {"open", "connecting"}
     THEN /\ ws' = [ws EXCEPT ![sock] = "closed"]
          /\ shut' = [shut EXCEPT ![sock] = TRUE]
          /\ up' = [up EXCEPT ![sock] =
               @ \o (IF signal /\ ws[sock] = "open" THEN <<"stop">> ELSE <<>>)
                 \o <<"disconnect">>]
     ELSE UNCHANGED <<ws, shut, up>>
  /\ sock' = NoConn /\ recRef' = NoConn
  /\ stopping' = FALSE /\ isRecording' = FALSE
  /\ chain' = Len(jobs)

-----------------------------------------------------------------------------
(* The audio button while nothing is recorded: the microphone is asked     *)
(* for.  Nothing tells the hook that it is already asking, or connecting.  *)
ClickStart ==
  /\ mounted /\ ~isRecording
  /\ starts < MaxStarts
  /\ starts' = starts + 1
  /\ asking' = asking + 1
  /\ UNCHANGED <<vars, hookRefs, draftVars, recorderVars, sent, lost, orphans,
                 mounted, ws>>

Denied ==
  /\ asking > 0
  /\ asking' = asking - 1
  /\ UNCHANGED <<vars, hookRefs, draftVars, recorderVars, hookHistory, ws>>

(* The stream is there, a new socket is made, and the refs are set to      *)
(* them, whatever they held.  The queue of transcripts is emptied, but the *)
(* timer that is typing one runs on.                                       *)
Granted ==
  LET c == CHOOSE fresh \in Conns : ws[fresh] = "none" IN
  /\ asking > 0
  /\ asking' = asking - 1
  /\ \E fresh \in Conns : ws[fresh] = "none"
  /\ ws' = [ws EXCEPT ![c] = "connecting"]
  /\ mic' = [mic EXCEPT ![c] = TRUE]
  /\ sock' = c
  /\ orphans' = orphans \cup ({sock} \ {NoConn})
  /\ texts' = <<>>
  /\ queue' = IF queue = <<>> THEN <<>> ELSE <<Head(queue)>>
  /\ latest' = NoChunk
  /\ stopping' = FALSE
  /\ chain' = Len(jobs)
  /\ UNCHANGED <<vars, recRef, isRecording, monitor, rec, events, jobVars, recorded,
                 sent, lost, starts, mounted>>

(* onopen, the server having accepted: unless another session took the     *)
(* refs, the token and start are sent and the recorder is started.         *)
Open(c) ==
  /\ ws[c] = "connecting"
  /\ phase[c] = "none"
  /\ Goto(c, "auth")
  /\ ws' = [ws EXCEPT ![c] = "open"]
  /\ IF sock = c
     THEN /\ \E token \in {"auth", "noise"} :
               up' = [up EXCEPT ![c] = @ \o <<token, "start">>]
          /\ rec' = [rec EXCEPT ![c] = "recording"]
          /\ recRef' = c /\ monitor' = c
          /\ isRecording' = TRUE
     ELSE UNCHANGED <<up, rec, recRef, monitor, isRecording>>
  /\ UNCHANGED <<down, shut, delivered, disconnected, nextIn, nextOut, pending, ready,
                 chunkVars, unclear, sock, stopping, chain, draftVars, events, jobVars, mic,
                 recorded, hookHistory, asking>>

(* The connection could not be made: onerror.                              *)
ConnectFail(c) ==
  /\ ws[c] = "connecting"
  /\ phase[c] = "none"
  /\ IF sock = c
     THEN Teardown(TRUE)
     ELSE /\ ws' = [ws EXCEPT ![c] = "closed"]
          /\ UNCHANGED <<up, shut, hookRefs, queue, rec, events, recorded, mic>>
  /\ UNCHANGED <<serverVars, down, latest, texts, jobVars, hookHistory, asking>>

(* The audio button while recording: the recorder is stopped, and the stop *)
(* goes on from its events; between two segments it is inactive, and the   *)
(* session is torn down at once.                                           *)
ClickStop ==
  /\ mounted /\ isRecording
  /\ IF recRef # NoConn /\ rec[recRef] = "recording"
     THEN /\ StopRecorder(recRef)
          /\ stopping' = TRUE
          /\ monitor' = NoConn
          /\ UNCHANGED <<up, shut, ws, sock, recRef, isRecording, chain, queue, mic>>
     ELSE Teardown(TRUE)
  /\ UNCHANGED <<serverVars, down, latest, texts, jobVars, hookHistory, asking>>

(* The component is unmounted: no more clicks; callbacks still run.        *)
Unmount ==
  /\ mounted
  /\ mounted' = FALSE
  /\ Teardown(TRUE)
  /\ UNCHANGED <<serverVars, down, latest, texts, jobVars, sent, lost, orphans, starts,
                 asking>>

(* onerror of the recorder.  A recorder that cannot be made, or started    *)
(* again, tears the session down likewise: it is one that fails at once.   *)
RecorderError(c) ==
  /\ recRef = c /\ rec[c] = "recording"
  /\ Teardown(TRUE)
  /\ UNCHANGED <<serverVars, down, latest, texts, jobVars, hookHistory, asking>>

-----------------------------------------------------------------------------
(* The monitor saw enough speech, or a silence: the segment is cut off.    *)
CutSegment(c) ==
  /\ monitor = c
  /\ rec[c] = "recording" /\ ws[c] = "open"
  /\ recorded[c] + 1 < MaxChunks
  /\ StopRecorder(c)
  /\ UNCHANGED <<vars, hookRefs, draftVars, jobVars, mic, hookHistory, ws, asking>>

(* chunkUploadQueueRef.then: behind what any session put onto the chain.   *)
Chain(c, segment) ==
  jobs' = Append(jobs, [conn |-> c, segment |-> segment, chain |-> chain])

(* ondataavailable: the upload of the segment is chained.                  *)
DataEvent(c) ==
  /\ events[c] # <<>> /\ Head(events[c]) = "data"
  /\ events' = [events EXCEPT ![c] = Tail(@)]
  /\ Chain(c, recorded[c])
  /\ UNCHANGED <<vars, hookRefs, draftVars, rec, ran, mic, recorded, hookHistory, ws,
                 asking>>

(* Mutant: onstop always restarts the recorder. *)
StopEventRestarts(c) ==
  /\ events[c] # <<>> /\ Head(events[c]) = "stop"
  /\ events' = [events EXCEPT ![c] = Append(Tail(@), "restart")]
  /\ UNCHANGED <<vars, hookRefs, draftVars, rec, mic, recorded, jobVars, hookHistory, ws,
                 asking>>

(* onstop: in the middle of a session the recorder will be restarted; when *)
(* the user stopped it, saying stop is chained behind the uploads.         *)
StopEvent(c) ==
  /\ events[c] # <<>> /\ Head(events[c]) = "stop"
  /\ IF stopping
     THEN /\ events' = [events EXCEPT ![c] = Tail(@)]
          /\ Chain(c, SayStopNow)
     ELSE /\ events' = [events EXCEPT ![c] = Append(Tail(@), "restart")]
          /\ UNCHANGED jobs
  /\ UNCHANGED <<vars, hookRefs, draftVars, rec, ran, mic, recorded, hookHistory, ws,
                 asking>>

RestartTimer(c) ==
  /\ events[c] # <<>> /\ Head(events[c]) = "restart"
  /\ events' = [events EXCEPT ![c] = Tail(@)]
  /\ rec' = IF sock = c THEN [rec EXCEPT ![c] = "recording"] ELSE rec
  /\ UNCHANGED <<vars, hookRefs, draftVars, jobVars, mic, recorded, hookHistory, ws, asking>>

(* Mutant: uploads are not chained, any of them may come first. *)
AnyTurn(k) == k \in DOMAIN jobs \ ran

(* All that is in front of it on its chain has run. *)
InTurn(k) == k \in DOMAIN jobs \ ran /\ jobs[k].chain + 1 .. k - 1 \subseteq ran

(* The upload whose turn it is: sent, or dropped for its blob or because   *)
(* the socket is not open; the chain goes on in any case.                  *)
Upload(c) ==
  \E k \in DOMAIN jobs :
    /\ jobs[k].conn = c /\ jobs[k].segment \in Segment
    /\ InTurn(k)
    /\ ran' = ran \cup {k}
    /\ \/ /\ ws[c] = "open"
          /\ up' = [up EXCEPT ![c] = Append(@, "audio")]
          /\ sent' = [sent EXCEPT ![c] = Append(@, jobs[k].segment)]
          /\ UNCHANGED lost
       \/ /\ ws[c] # "open"
          /\ UNCHANGED <<up, sent, lost>>
       \/ /\ lost' = [lost EXCEPT ![c] = @ \cup {jobs[k].segment}]
          /\ UNCHANGED <<up, sent>>
    /\ UNCHANGED <<serverVars, down, shut, hookRefs, draftVars, rec, events, jobs, mic,
                   recorded, orphans, starts, mounted, ws, asking>>

(* What is chained behind the uploads: stop is said, or, the socket being  *)
(* closed, the session of the moment is torn down, whichever it is.        *)
SayStop(c) ==
  \E k \in DOMAIN jobs :
    /\ jobs[k].conn = c /\ jobs[k].segment = SayStopNow
    /\ InTurn(k)
    /\ ran' = ran \cup {k}
    /\ IF ws[c] = "open"
       THEN /\ up' = [up EXCEPT ![c] = Append(@, "stop")]
            /\ UNCHANGED <<shut, hookRefs, queue, rec, events, recorded, mic, ws>>
       ELSE Teardown(FALSE)
    /\ UNCHANGED <<serverVars, down, latest, texts, jobs, hookHistory, asking>>

-----------------------------------------------------------------------------
(* applyTranscriptChunk: a chunk that is not newer is dropped.             *)
Hear(c, i) ==
  IF i > latest
  THEN latest' = i /\ queue' = Append(queue, Said(c, i))
  ELSE UNCHANGED <<latest, queue>>

(* A message for the session the refs name.                                *)
React(c, message) ==
  /\ \/ /\ message.type = "transcript"
        /\ Hear(c, message.chunk)
        /\ UNCHANGED <<hookRefs, rec, events, recorded, mic, ws, shut, up>>
     \/ /\ message.type \in {"ready", "started", "chunk_error"}
        /\ UNCHANGED <<teardownVars, latest>>
     \/ /\ message.type \in {"stopped", "closed"}
        /\ Teardown(FALSE)
        /\ UNCHANGED latest
     \/ /\ message.type = "error"
        /\ Teardown(TRUE)
        /\ UNCHANGED latest

(* Mutant: onmessage does not look whose session the refs name. *)
MessageOfAnySession(c) ==
  /\ down[c] # <<>>
  /\ down' = [down EXCEPT ![c] = Tail(@)]
  /\ React(c, Head(down[c]))
  /\ UNCHANGED <<serverVars, texts, jobVars, sent, lost, orphans, starts, mounted, asking>>

(* onmessage and onclose.  A socket the hook has closed delivers nothing;  *)
(* callbacks of a session that lost the refs return at once.               *)
OnMessage(c) ==
  LET closing == Head(down[c]).type = "closed" IN
  /\ down[c] # <<>>
  /\ down' = [down EXCEPT ![c] = Tail(@)]
  /\ IF sock = c
     THEN React(c, Head(down[c]))
     ELSE /\ ws' = IF closing THEN [ws EXCEPT ![c] = "closed"] ELSE ws
          /\ UNCHANGED <<hookRefs, latest, queue, rec, events, recorded, mic, shut, up>>
  /\ UNCHANGED <<serverVars, texts, jobVars, sent, lost, orphans, starts, mounted, asking>>

(* The typing of a transcript ends; the next one starts.                   *)
Typed ==
  /\ queue # <<>>
  /\ queue' = Tail(queue)
  /\ texts' = Append(texts, Head(queue))
  /\ UNCHANGED <<vars, hookRefs, latest, recorderVars, hookHistory, ws, asking>>

-----------------------------------------------------------------------------
Browser(c) ==
  \/ Open(c) \/ ConnectFail(c) \/ OnMessage(c)
  \/ DataEvent(c) \/ StopEvent(c) \/ RestartTimer(c) \/ Upload(c) \/ SayStop(c)

(* What the server does for a socket the hook has closed is seen by nobody *)
(* here; TranscriptionWs says what it is.                                  *)
ServerStep(c) == ~shut[c] /\ (Handler(c) \/ \E i \in Chunk : Task(c, i))

LiveNext ==
  \/ \E c \in Conns :
       \/ ServerStep(c) /\ UNCHANGED hookVars
       \/ Browser(c) \/ CutSegment(c) \/ RecorderError(c)
  \/ ClickStart \/ Granted \/ Denied \/ ClickStop \/ Unmount \/ Typed

LiveSpec == LiveInit /\ [][LiveNext]_liveVars

(* The browser runs its callbacks, the server its coroutines and threads;  *)
(* the user, and the speech that cuts segments, may do nothing.            *)
LiveFairSpec ==
  /\ LiveSpec
  /\ WF_liveVars(Typed)
  /\ \A c \in Conns :
       /\ WF_liveVars(Browser(c))
       /\ WF_liveVars(Handler(c) /\ UNCHANGED hookVars)
       /\ \A i \in Chunk : WF_liveVars(Task(c, i) /\ UNCHANGED hookVars)

-----------------------------------------------------------------------------
(* Types; the button shows a recording exactly when the hook has one.      *)
LiveTypeOK ==
  /\ sock \in Conns \cup {NoConn} /\ recRef \in Conns \cup {NoConn}
  /\ monitor \in Conns \cup {NoConn}
  /\ ws \in [Conns -> {"none", "connecting", "open", "closed"}]
  /\ mic \in [Conns -> BOOLEAN]
  /\ rec \in [Conns -> {"none", "recording", "inactive"}]
  /\ asking \in 0 .. MaxStarts
  /\ isRecording \in BOOLEAN /\ stopping \in BOOLEAN /\ mounted \in BOOLEAN
  /\ isRecording <=> recRef # NoConn
  /\ latest \in Chunk \cup {NoChunk}
  /\ \A c \in Conns : recorded[c] \in 0 .. MaxChunks

(* The draft is one session's speech: its transcripts in the order they    *)
(* were spoken, none twice, and none of an earlier session's that arrives  *)
(* late.  (When a second click displaces a session that is still typing,   *)
(* its last transcript ends up in the new draft: the timer is not cleared.)*)
DraftInOrder ==
  LET heard == texts \o queue IN
  orphans = {} =>
    /\ \A j, k \in DOMAIN heard :
         j < k => heard[j].conn = heard[k].conn /\ heard[j].chunk < heard[k].chunk
    /\ sock # NoConn => \A k \in DOMAIN heard : heard[k].conn = sock

(* The segments reach the wire in the order they were recorded, none       *)
(* twice, and none left out before a later one but those that could not be *)
(* read: the server numbers them by arrival.  (The chain of a session that *)
(* a second click has displaced is cut in two, and its halves may overtake *)
(* each other.)                                                            *)
UploadsInOrder ==
  \A c \in Conns \ orphans :
    /\ \A j, k \in DOMAIN sent[c] : j < k => sent[c][j] < sent[c][k]
    /\ \A k \in DOMAIN sent[c] : \A i \in 1 .. sent[c][k] - 1 :
         i \in lost[c] \/ \E j \in DOMAIN sent[c] : sent[c][j] = i

(* The microphone is open only for the session the hook holds, or one that *)
(* a second click has displaced before its socket was open.                *)
MicReleased == \A c \in Conns \ orphans : mic[c] => sock = c

(* The hook's state holds together: its types, and its microphone.         *)
HookSound == LiveTypeOK /\ MicReleased

(* As long as no session displaced another, stopping comes to its end: the *)
(* hook leaves the recording state, whatever the server is doing.          *)
StopEnds == (stopping /\ orphans = {}) ~> (~isRecording \/ orphans # {})

=============================================================================
