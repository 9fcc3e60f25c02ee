----------------------------- MODULE ChatPipeline -----------------------------
(***************************************************************************)
(* One request on its way through the pipeline: ChatPipeline.run of /chat  *)
(* and run_stream of /chat/stream, with the end of the handler around them *)
(* (chat.py).  The session look-up is over; ChatSessions has it, and what  *)
(* becomes of the turn in buffer and log.                                  *)
(*                                                                         *)
(* `at` is the next step: the input guard, retrieval (refinement before    *)
(* it), generation, the output guard, the recording of the turn and the    *)
(* answer to the client.  The model's text comes in pieces.  What a stream *)
(* has sent so far is `shown`.  Whether retrieval and the output guard are *)
(* configured is left open: either is a choice at its step.                *)
(***************************************************************************)
EXTENDS ThinkBlockFilter

CONSTANTS
  Chars,            \* characters of the model's text
  Blank,            \* the one that strip() removes
  NoContextMessage, \* the fallback text when retrieval finds nothing
  RejectedMessage,  \* the text that replaces an implausible answer
  Nothing,          \* no text
  MaxText,          \* bound on the model's text
  MaxPiece          \* bound on one piece of it

ASSUME PipelineAssumption == MaxText \in Nat /\ MaxPiece \in Nat

VARIABLES
  kind,         \* the endpoint: "chat" or "stream"
  guarded,      \* the input guard is configured
  forbidden,    \* the local policy matches the message
  at,           \* the next step
  verdict,      \* what the input guard said
  raw,          \* (history) the model's text so far
  filter,       \* the ThinkBlockFilter of a stream
  shown,        \* the deltas sent to a stream's reader, joined
  answer,       \* the answer, as far as the pipeline has it
  status,       \* its status
  recorded,     \* the assistant turn given to the memory
  delivered,    \* the message of the response or done frame
  ended         \* how the request ended: "no" as long as it has not

vars == <<kind, guarded, forbidden, at, verdict, raw, filter, shown, answer, status,
          recorded, delivered, ended>>
inputVars == <<kind, guarded, forbidden>>
textVars == <<raw, filter, shown>>

Pieces == UNION {[1..n -> Chars] : n \in 1..MaxPiece}

Init ==
  /\ kind \in {"chat", "stream"}
  /\ guarded \in BOOLEAN /\ forbidden \in BOOLEAN
  /\ at = "screen" /\ verdict = "none"
  /\ raw = <<>> /\ filter = NewFilter /\ shown = <<>>
  /\ answer = Nothing /\ status = "none"
  /\ recorded = Nothing /\ delivered = Nothing
  /\ ended = "no"

(* The request ends without an answer. *)
End(how) ==
  /\ at' = "end"
  /\ ended' = how
  /\ UNCHANGED <<answer, status, recorded, delivered>>

GoOn(step) ==
  /\ at' = step
  /\ UNCHANGED <<recorded, delivered, ended>>

-----------------------------------------------------------------------------
(* InputGuard.check: a guard that cannot be reached is unavailable, one    *)
(* whose reply cannot be read has passed the message.                      *)
GuardVerdicts == {"passed", "rejected", "unavailable"}

(* PolicyGuard.check_local, asked only when the guard is unavailable. *)
LocalPolicyRejects(v) == v = "unavailable" /\ forbidden

(* Mutant: a guard that is unavailable lets everything pass. *)
ScreenFailOpen ==
  /\ at = "screen"
  /\ guarded
  /\ \E v \in GuardVerdicts :
       /\ verdict' = v
       /\ IF v = "rejected"
          THEN End("rejected")
          ELSE GoOn("retrieve") /\ UNCHANGED <<answer, status>>
  /\ UNCHANGED <<inputVars, textVars>>

(* The input guard decides, or the local policy in its place. *)
Screen ==
  /\ at = "screen"
  /\ guarded
  /\ \E v \in GuardVerdicts :
       /\ verdict' = v
       /\ IF v = "rejected" \/ LocalPolicyRejects(v)
          THEN End("rejected")
          ELSE GoOn("retrieve") /\ UNCHANGED <<answer, status>>
  /\ UNCHANGED <<inputVars, textVars>>

ScreenOff ==
  /\ at = "screen"
  /\ ~guarded
  /\ verdict' = "off"
  /\ GoOn("retrieve")
  /\ UNCHANGED <<inputVars, textVars, answer, status>>

(* Chunks were found, or none are looked for. *)
Retrieve ==
  /\ at = "retrieve"
  /\ GoOn("generate")
  /\ UNCHANGED <<inputVars, verdict, textVars, answer, status>>

(* Chunks are looked for, and none is near enough or the vector store      *)
(* failed: the fallback is the answer, and no guard reads it.              *)
NoContext ==
  /\ at = "retrieve"
  /\ answer' = NoContextMessage /\ status' = "no_context"
  /\ shown' = IF kind = "stream" THEN NoContextMessage ELSE shown
  /\ GoOn("record")
  /\ UNCHANGED <<inputVars, verdict, raw, filter>>

(* The model's text goes on.  A stream filters the piece and sends what is *)
(* visible of it; /chat waits for the end.                                 *)
Token(piece) ==
  /\ at = "generate"
  /\ Len(raw) + Len(piece) <= MaxText
  /\ raw' = raw \o piece
  /\ IF kind = "stream"
     THEN /\ filter' = Feed(filter, piece)
          /\ shown' = shown \o filter'.out
     ELSE UNCHANGED <<filter, shown>>
  /\ UNCHANGED <<inputVars, at, verdict, answer, status, recorded, delivered, ended>>

(* str.strip *)
Strip(text) ==
  LET ink == {i \in DOMAIN text : text[i] # Blank}
  IN  IF ink = {} THEN <<>> ELSE SubSeq(text, Min(ink), Max(ink))

(* The model's text ends. *)
TextEnds ==
  /\ at = "generate"
  /\ IF kind = "stream"
     THEN /\ shown' = shown \o Flush(filter)
          /\ answer' = Strip(shown')
     ELSE /\ answer' = Strip(StripThinkBlocks(raw))
          /\ UNCHANGED shown
  /\ GoOn("check")
  /\ UNCHANGED <<inputVars, verdict, raw, filter, status>>

(* The gateway is not configured or fails, before the first piece or after *)
(* any: 503, or an error frame.                                            *)
GatewayFails ==
  /\ at = "generate"
  /\ End("error")
  /\ UNCHANGED <<inputVars, verdict, textVars>>

(* Anything else that raises: 500, or a stream without a terminal frame. *)
Raise ==
  /\ at \in {"retrieve", "generate"}
  /\ End("broken")
  /\ UNCHANGED <<inputVars, verdict, textVars>>

-----------------------------------------------------------------------------
(* The answer passes: the guard says so, or is off, cannot be understood,  *)
(* or cannot be reached.                                                   *)
CheckPasses ==
  /\ at = "check"
  /\ status' = "ok"
  /\ GoOn("record")
  /\ UNCHANGED <<inputVars, verdict, textVars, answer>>

(* The guard is on and finds the answer implausible: it is replaced. *)
CheckRejects ==
  /\ at = "check"
  /\ answer' = RejectedMessage /\ status' = "output_rejected"
  /\ GoOn("record")
  /\ UNCHANGED <<inputVars, verdict, textVars>>

(* Mutant: a stream records the text it has sent. *)
RecordShown ==
  /\ at = "record"
  /\ recorded' = IF kind = "stream" THEN shown ELSE answer
  /\ at' = "deliver"
  /\ UNCHANGED <<inputVars, verdict, textVars, answer, status, delivered, ended>>

(* The turn goes into the memory. *)
Record ==
  /\ at = "record"
  /\ recorded' = answer
  /\ at' = "deliver"
  /\ UNCHANGED <<inputVars, verdict, textVars, answer, status, delivered, ended>>

(* The response of /chat, or the done frame. *)
Deliver ==
  /\ at = "deliver"
  /\ delivered' = answer
  /\ at' = "end" /\ ended' = "done"
  /\ UNCHANGED <<inputVars, verdict, textVars, answer, status, recorded>>

(* The reader of a stream goes away. *)
Disconnect ==
  /\ kind = "stream"
  /\ at \in {"retrieve", "generate", "check", "record", "deliver"}
  /\ End("gone")
  /\ UNCHANGED <<inputVars, verdict, textVars>>

Next ==
  \/ Screen \/ ScreenOff
  \/ Retrieve \/ NoContext
  \/ \E piece \in Pieces : Token(piece)
  \/ TextEnds \/ GatewayFails \/ Raise
  \/ CheckPasses \/ CheckRejects
  \/ Record \/ Deliver \/ Disconnect

Spec == Init /\ [][Next]_vars

-----------------------------------------------------------------------------
(* Types.  What the filter of a stream holds back is the beginning of the  *)
(* tag it waits for, and not all of it.                                    *)
TypeOK ==
  /\ kind \in {"chat", "stream"}
  /\ guarded \in BOOLEAN /\ forbidden \in BOOLEAN
  /\ at \in {"screen", "retrieve", "generate", "check", "record", "deliver", "end"}
  /\ verdict \in {"none", "off", "passed", "rejected", "unavailable"}
  /\ raw \in Seq(Chars) /\ Len(raw) <= MaxText
  /\ filter.think \in BOOLEAN
  /\ IsStrictPrefix(filter.buffer, IF filter.think THEN CloseTag ELSE OpenTag)
  /\ status \in {"none", "ok", "no_context", "output_rejected"}
  /\ ended \in {"no", "rejected", "error", "broken", "gone", "done"}

(* However the gateway cuts the model's text, no character of its          *)
(* reasoning reaches a stream's reader, none of the answer is lost, and    *)
(* what is held back while the text goes on is shorter than a tag          *)
(* (ThinkBlockFilter.feed and flush).                                      *)
ReasoningHidden ==
  kind = "stream" =>
    /\ at = "generate" =>
         /\ IsPrefix(shown, Visible(raw))
         /\ Len(Visible(raw)) - Len(shown) < Len(OpenTag)
    /\ at = "check" => shown = Visible(raw)

(* The stream of an answer is sound: its types, and what it shows.         *)
StreamSound == TypeOK /\ ReasoningHidden

(* Both endpoints make the same answer of the same text of the model: the  *)
(* output guard reads what is visible of it, stripped (_generate and       *)
(* run_stream).                                                            *)
SameAnswerEitherWay ==
  at = "check" => answer = Strip(Visible(raw))

(* The model answers, and a turn is recorded, only for a message that was  *)
(* screened: by the guard, or by the local policy when the guard could not *)
(* be reached (_apply_input_guard); and on /chat/stream, where screening   *)
(* and answering are two calls, as on /chat.                               *)
OnlyScreenedAnswered ==
  \/ raw # <<>> \/ shown # <<>> \/ recorded # Nothing
  => \/ verdict = "passed"
     \/ verdict = "off" /\ ~guarded
     \/ verdict = "unavailable" /\ ~forbidden

(* The conversation remembers what its user was given as the answer, the   *)
(* replacement of an implausible one included, and nothing of an answer    *)
(* that broke off, whatever deltas a stream has sent of it.                *)
MemoryHoldsTheAnswer ==
  /\ ended = "done" => recorded = delivered
  /\ ended \in {"rejected", "error", "broken"} => recorded = Nothing
  /\ recorded # Nothing /\ status = "output_rejected" => recorded = RejectedMessage
=============================================================================
