----------------------------- MODULE ChatClient -----------------------------
(***************************************************************************)
(* The chat session of the browser: useChatSession.ts with the request it  *)
(* sends through chatApi.ts.  React batches the state updates of a handler *)
(* and runs its effects before the next event, so a handler is one step;   *)
(* timers, intervals and the settling of a fetch are steps of their own.   *)
(*                                                                         *)
(* A message is its id and its shape; ids grow with Date.now().  A send    *)
(* takes two of them: i for the question and i + 1 for the reply bubble.   *)
(* Text, sources and times are data.  stage[r] is where the reply r is:    *)
(*   "delay"   the 80 ms timer of a connected model is pending             *)
(*   "local"   the 80 ms and 620 ms timers of an unconnected model are     *)
(*   "asked"   the fetch is in flight, which nothing cancels               *)
(*   "settle"  the 620 ms timer before the stream is pending               *)
(*   "ticking" the interval that reveals the text is running               *)
(***************************************************************************)
EXTENDS Naturals

CONSTANTS MaxMessages,   \* bound: ids handed out in one behaviour
          NoSession      \* sessionIdRef.current = ""

ASSUME MaxMessagesAssumption == MaxMessages \in Nat
ASSUME NoSessionAssumption == NoSession \notin Nat

Ids == 1..MaxMessages

VARIABLES
  draft,       \* "empty", "blank" (only spaces) or "text"
  messages,    \* the shape of every message on screen, "none" for no message
  isTyping,    \* the lock of the composer
  hasSent,     \* hasSentFirstMessageRef
  sessionId,   \* sessionIdRef: a session, named by the reply that opened it
  stage,       \* the work behind every reply
  asked,       \* the session a request in flight was sent with
  previews,    \* ids of the messages whose object URL is not revoked
  nextId,
  cutShort     \* history: a fetch was in flight when its conversation ended

chatVars == <<draft, messages, isTyping, hasSent, sessionId, stage, asked,
              previews, nextId, cutShort>>

Drafts == {"empty", "blank", "text"}
UserShapes == {"question", "file", "image"}
Shapes == UserShapes \cup
          {"none", "note", "thinking", "streaming", "answer", "error"}
Stages == {"none", "delay", "local", "asked", "settle", "ticking"}

(* The models of the picker, by what their id says of the backend.         *)
Models == {"gemini", "local-mistral", "other"}
Connected(model) == model \in {"gemini", "local-mistral"}

(* What clearScheduledWork leaves: timers and intervals go, fetches stay.  *)
Cleared(s) == [r \in Ids |-> IF s[r] = "asked" THEN "asked" ELSE "none"]

Busy == {r \in Ids : stage[r] # "none"}
Fetching == \E r \in Ids : stage[r] = "asked"

ChatInit ==
  /\ draft = "empty"
  /\ messages = [i \in Ids |-> "none"]
  /\ isTyping = FALSE
  /\ hasSent = FALSE
  /\ sessionId = NoSession
  /\ stage = [i \in Ids |-> "none"]
  /\ asked = [i \in Ids |-> NoSession]
  /\ previews = {}
  /\ nextId = 1
  /\ cutShort = FALSE

-----------------------------------------------------------------------------

(* The text input is never disabled, so the draft changes at any time.     *)
EditDraft(d) ==
  /\ draft' = d
  /\ UNCHANGED <<messages, isTyping, hasSent, sessionId, stage, asked,
                 previews, nextId, cutShort>>

(* Mutant: the lock is not asked.                                          *)
CanSendWhileTyping == draft = "text"

CanSend == ~isTyping /\ draft = "text"

(* sendMessage: the question appears, the composer locks, the timers of    *)
(* the reply are set.  The session is not read here but when they fire.    *)
SendMessage(model) ==
  /\ CanSend
  /\ nextId < MaxMessages
  /\ messages' = [messages EXCEPT ![nextId] = "question"]
  /\ stage' = [stage EXCEPT
                 ![nextId + 1] = IF Connected(model) THEN "delay" ELSE "local"]
  /\ nextId' = nextId + 2
  /\ draft' = "empty"
  /\ isTyping' = TRUE
  /\ hasSent' = TRUE
  /\ UNCHANGED <<sessionId, asked, previews, cutShort>>

(* The 80 ms timer: the skeleton appears and the request leaves.           *)
Ask(r) ==
  /\ stage[r] = "delay"
  /\ messages' = [messages EXCEPT ![r] = "thinking"]
  /\ stage' = [stage EXCEPT ![r] = "asked"]
  /\ asked' = [asked EXCEPT ![r] = sessionId]
  /\ UNCHANGED <<draft, isTyping, hasSent, sessionId, previews, nextId,
                 cutShort>>

(* The same timer for a model without a backend; 620 ms follow for the     *)
(* placeholder reply.                                                      *)
ShowPlaceholder(r) ==
  /\ stage[r] = "local"
  /\ messages' = [messages EXCEPT ![r] = "thinking"]
  /\ stage' = [stage EXCEPT ![r] = "settle"]
  /\ UNCHANGED <<draft, isTyping, hasSent, sessionId, asked, previews,
                 nextId, cutShort>>

(* The session of an answer: the server keeps the one it was sent, and     *)
(* opens a new one for a request without.                                  *)
AnswerSession(r) == IF asked[r] = NoSession THEN r ELSE asked[r]

(* A 200 answer, whether or not its conversation is still on screen.       *)
Answered(r) ==
  /\ stage[r] = "asked"
  /\ sessionId' = AnswerSession(r)
  /\ stage' = [stage EXCEPT ![r] = "settle"]
  /\ asked' = [asked EXCEPT ![r] = NoSession]
  /\ UNCHANGED <<draft, messages, isTyping, hasSent, previews, nextId,
                 cutShort>>

(* Mutant: the error leaves the composer locked.                           *)
FailedStaysTyping(r) ==
  /\ stage[r] = "asked"
  /\ messages' = [messages EXCEPT ![r] = IF @ = "none" THEN @ ELSE "error"]
  /\ stage' = [stage EXCEPT ![r] = "none"]
  /\ asked' = [asked EXCEPT ![r] = NoSession]
  /\ UNCHANGED <<draft, isTyping, hasSent, sessionId, previews, nextId, cutShort>>

(* showErrorReply: a 400, a 401, another status, or no connection.         *)
Failed(r) ==
  /\ stage[r] = "asked"
  /\ messages' = [messages EXCEPT ![r] = IF @ = "none" THEN @ ELSE "error"]
  /\ stage' = [stage EXCEPT ![r] = "none"]
  /\ asked' = [asked EXCEPT ![r] = NoSession]
  /\ isTyping' = FALSE
  /\ UNCHANGED <<draft, hasSent, sessionId, previews, nextId, cutShort>>

(* streamReply after 620 ms; a bubble that is gone stays gone.             *)
StreamStarts(r) ==
  /\ stage[r] = "settle"
  /\ messages' = [messages EXCEPT ![r] = IF @ = "none" THEN @ ELSE "streaming"]
  /\ stage' = [stage EXCEPT ![r] = "ticking"]
  /\ UNCHANGED <<draft, isTyping, hasSent, sessionId, asked, previews,
                 nextId, cutShort>>

(* The last tick of the interval; the earlier ones only add text.          *)
StreamDone(r) ==
  /\ stage[r] = "ticking"
  /\ messages' = [messages EXCEPT ![r] = IF @ = "none" THEN @ ELSE "answer"]
  /\ stage' = [stage EXCEPT ![r] = "none"]
  /\ isTyping' = FALSE
  /\ UNCHANGED <<draft, hasSent, sessionId, asked, previews, nextId, cutShort>>

(* addAttachmentActionMessage, also used by the local model form and the   *)
(* persona wizard.                                                         *)
AddActionMessage ==
  /\ nextId <= MaxMessages
  /\ messages' = [messages EXCEPT ![nextId] = "note"]
  /\ nextId' = nextId + 1
  /\ UNCHANGED <<draft, isTyping, hasSent, sessionId, stage, asked, previews,
                 cutShort>>

(* addUploadedFilesMessage: an image gets an object URL for its preview.   *)
AddUploadedFiles(shape) ==
  /\ shape \in {"file", "image"}
  /\ nextId <= MaxMessages
  /\ messages' = [messages EXCEPT ![nextId] = shape]
  /\ previews' = IF shape = "image" THEN previews \cup {nextId} ELSE previews
  /\ nextId' = nextId + 1
  /\ hasSent' = TRUE
  /\ UNCHANGED <<draft, isTyping, sessionId, stage, asked, cutShort>>

(* The previews revokeAttachmentPreviews leaves alive.                     *)
Revoked(shown) == {i \in previews : shown[i] # "image"}

(* Mutant: the lock of the conversation that ends is kept.                 *)
ResetKeepsLock ==
  /\ draft' = "empty"
  /\ messages' = [i \in Ids |-> "none"]
  /\ hasSent' = FALSE
  /\ sessionId' = NoSession
  /\ stage' = Cleared(stage)
  /\ previews' = Revoked(messages)
  /\ cutShort' = (cutShort \/ Fetching)
  /\ UNCHANGED <<isTyping, asked, nextId>>

(* resetSession, behind the plus button of the sidebar.                    *)
ResetSession ==
  /\ draft' = "empty"
  /\ messages' = [i \in Ids |-> "none"]
  /\ isTyping' = FALSE
  /\ hasSent' = FALSE
  /\ sessionId' = NoSession
  /\ stage' = Cleared(stage)
  /\ previews' = Revoked(messages)
  /\ cutShort' = (cutShort \/ Fetching)
  /\ UNCHANGED <<asked, nextId>>

(* openSessionFromPreview with a preview that is not blank (a blank one is *)
(* ResetSession).  The session the backend knows is left as it was.        *)
OpenSessionFromPreview ==
  /\ nextId <= MaxMessages
  /\ draft' = "empty"
  /\ messages' = [i \in Ids |-> IF i = nextId THEN "question" ELSE "none"]
  /\ isTyping' = FALSE
  /\ hasSent' = TRUE
  /\ stage' = Cleared(stage)
  /\ previews' = Revoked(messages)
  /\ nextId' = nextId + 1
  /\ cutShort' = (cutShort \/ Fetching)
  /\ UNCHANGED <<sessionId, asked>>

-----------------------------------------------------------------------------

ReplyStep(r) == \/ Ask(r) \/ ShowPlaceholder(r) \/ Answered(r) \/ Failed(r)
                \/ StreamStarts(r) \/ StreamDone(r)

ChatNext ==
  \/ \E d \in Drafts : EditDraft(d)
  \/ \E model \in Models : SendMessage(model)
  \/ \E r \in Ids : ReplyStep(r)
  \/ AddActionMessage
  \/ \E shape \in {"file", "image"} : AddUploadedFiles(shape)
  \/ ResetSession
  \/ OpenSessionFromPreview

(* Timers fire, intervals end (a reply has finitely many words), and a     *)
(* fetch settles, with an answer or an error.                              *)
ChatFairness == \A r \in Ids : WF_chatVars(ReplyStep(r))

ChatSpec == ChatInit /\ [][ChatNext]_chatVars /\ ChatFairness

-----------------------------------------------------------------------------

(* The types of the session's state.                                       *)
ChatTypeOK ==
  /\ draft \in Drafts
  /\ messages \in [Ids -> Shapes]
  /\ isTyping \in BOOLEAN
  /\ hasSent \in BOOLEAN
  /\ sessionId \in Ids \cup {NoSession}
  /\ stage \in [Ids -> Stages]
  /\ asked \in [Ids -> Ids \cup {NoSession}]
  /\ previews \subseteq Ids
  /\ nextId \in Nat \ {0}
  /\ cutShort \in BOOLEAN

(* Whatever waits on the screen has work behind it that will end the wait: *)
(* a locked composer has a reply in progress, a skeleton its fetch or its  *)
(* timer, a stream its interval.  resetSession and openSessionFromPreview  *)
(* clear timers of bubbles, and a late answer schedules work for bubbles   *)
(* that are gone: neither may leave a wait with nothing behind it.         *)
WorkBehindEveryWait ==
  /\ isTyping => Busy # {}
  /\ \A i \in Ids : /\ messages[i] = "thinking" => stage[i] \in {"asked", "settle"}
                    /\ messages[i] = "streaming" => stage[i] = "ticking"

(* The object URLs alive are those of the images on screen: no preview is  *)
(* leaked when messages go, and none on screen is revoked.                 *)
PreviewsAreOnScreen == previews = {i \in Ids : messages[i] = "image"}

(* Nothing on the screen hangs in the air.                                 *)
ScreenBacked == WorkBehindEveryWait /\ PreviewsAreOnScreen

(* Unless a conversation was ended with its fetch in flight, the lock is   *)
(* exact: the composer is locked while one reply is in progress, never     *)
(* two.  (An answer that comes after a reset still ends in setIsTyping,    *)
(* and so unlocks the composer under the reply of the next conversation.)  *)
OneReplyAtATime ==
  ~cutShort => /\ isTyping <=> Busy # {}
               /\ \A r, s \in Busy : r = s

(* "The plus button in Current Session always starts a fresh chat          *)
(* session" (src/frontend/README.md): a request whose question is the only *)
(* user message on screen is sent without a session of an earlier chat.    *)
FreshChatStartsFresh ==
  [][\A r \in Ids :
       /\ Ask(r)
       /\ \A i \in Ids \ {r - 1} : messages[i] \notin UserShapes
       => asked'[r] = NoSession]_chatVars

(* A locked composer unlocks: every send ends in an answer, an error or    *)
(* the end of its conversation.                                            *)
ComposerUnlocks == isTyping ~> ~isTyping
=============================================================================
