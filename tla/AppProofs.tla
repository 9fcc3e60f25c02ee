------------------------------ MODULE AppProofs ------------------------------
(***************************************************************************)
(* What TLAPS proves of the browser's application, for any number of       *)
(* messages, views, settings, listed chats, files of an upload and page    *)
(* loads.  First the chat session on its own (useChatSession.ts), then the *)
(* three parts App.tsx composes, each with its own inductive invariant,    *)
(* and last what App's handlers do to all three.                           *)
(***************************************************************************)
EXTENDS App, FiniteSetTheorems, TLAPS

(* Ids that were not handed out yet carry nothing.                         *)
FreshIdsUnused ==
  \A i \in Ids : i >= nextId => messages[i] = "none" /\ stage[i] = "none"

(* Work is behind replies only, so what it writes is never an image.       *)
WorkIsForReplies == \A r \in Busy : messages[r] # "image"

(* The inductive invariant: a new message takes an id nothing hangs on,    *)
(* and a reply that settles cannot overwrite a picture.                    *)
ChatInv ==
  /\ ChatTypeOK
  /\ FreshIdsUnused
  /\ WorkIsForReplies
  /\ WorkBehindEveryWait
  /\ PreviewsAreOnScreen
  /\ OneReplyAtATime

(* Clearing the scheduled work leaves the fetches and nothing else.        *)
LEMMA ClearedWork ==
  ASSUME ChatTypeOK
  PROVE  /\ Cleared(stage) \in [Ids -> Stages]
         /\ \A r \in Ids : Cleared(stage)[r] # "none" => stage[r] = "asked"
  BY DEF ChatTypeOK, Cleared, Stages

(* The initial state satisfies the invariant.                              *)
LEMMA ChatInitInv == ChatInit => ChatInv
<1> SUFFICES ASSUME ChatInit PROVE ChatInv
  OBVIOUS
<1>1. ChatTypeOK
  <2>1. messages \in [Ids -> Shapes] /\ stage \in [Ids -> Stages]
    BY DEF ChatInit, Shapes, Stages
  <2>2. asked \in [Ids -> Ids \cup {NoSession}]
    BY DEF ChatInit
  <2>3. /\ draft \in Drafts /\ isTyping \in BOOLEAN /\ hasSent \in BOOLEAN
        /\ cutShort \in BOOLEAN
    BY DEF ChatInit, Drafts
  <2>4. sessionId \in Ids \cup {NoSession} /\ previews \subseteq Ids
    BY DEF ChatInit
  <2>5. nextId \in Nat \ {0}
    BY DEF ChatInit
  <2>6. QED
    BY <2>1, <2>2, <2>3, <2>4, <2>5 DEF ChatTypeOK
<1>2. FreshIdsUnused /\ WorkIsForReplies /\ PreviewsAreOnScreen
  BY DEF ChatInit, FreshIdsUnused, WorkIsForReplies, PreviewsAreOnScreen, Busy
<1>3. WorkBehindEveryWait /\ OneReplyAtATime
  BY DEF ChatInit, WorkBehindEveryWait, OneReplyAtATime, Busy
<1>4. QED
  BY <1>1, <1>2, <1>3 DEF ChatInv

(* A step of a reply r keeps the invariant when it moves r from one kind   *)
(* of work to another, or to none and then unlocks the composer.           *)
LEMMA ReplyStepInv ==
  ASSUME ChatInv, NEW r \in Ids, ReplyStep(r)
  PROVE  ChatInv'
<1> USE DEF ChatInv
<1>0. /\ stage[r] # "none" /\ nextId' = nextId /\ previews' = previews
      /\ r < nextId /\ cutShort' = cutShort
  BY DEF ReplyStep, Ask, ShowPlaceholder, Answered, Failed, StreamStarts,
         StreamDone, FreshIdsUnused, ChatTypeOK, Ids
<1>1. PICK s \in Stages, m \in Shapes :
        /\ stage' = [stage EXCEPT ![r] = s]
        /\ messages' = [messages EXCEPT ![r] = m]
        /\ m # "image"
        /\ m = "thinking" => s \in {"asked", "settle"}
        /\ m = "streaming" => s = "ticking"
        /\ \/ s # "none" /\ isTyping' = isTyping
           \/ s = "none" /\ isTyping' = FALSE
  <2>1. CASE Ask(r)
    BY <2>1 DEF Ask, Stages, Shapes, UserShapes
  <2>2. CASE ShowPlaceholder(r)
    BY <2>2 DEF ShowPlaceholder, Stages, Shapes, UserShapes
  <2>3. CASE Answered(r)
    <3>1. /\ messages[r] \in Shapes /\ messages[r] # "image"
          /\ messages[r] # "streaming"
          /\ messages' = [messages EXCEPT ![r] = messages[r]]
      BY <2>3 DEF Answered, ChatTypeOK, WorkIsForReplies, Busy,
                  WorkBehindEveryWait
    <3>2. QED
      BY <2>3, <3>1 DEF Answered, Stages
  <2>4. CASE Failed(r)
    BY <2>4 DEF Failed, Stages, Shapes, UserShapes, ChatTypeOK
  <2>5. CASE StreamStarts(r)
    BY <2>5 DEF StreamStarts, Stages, Shapes, UserShapes, ChatTypeOK
  <2>6. CASE StreamDone(r)
    BY <2>6 DEF StreamDone, Stages, Shapes, UserShapes, ChatTypeOK
  <2>7. QED
    BY <2>1, <2>2, <2>3, <2>4, <2>5, <2>6 DEF ReplyStep
<1>2. ChatTypeOK'
  <2>1. /\ stage' \in [Ids -> Stages] /\ messages' \in [Ids -> Shapes]
        /\ isTyping' \in BOOLEAN
    BY <1>1 DEF ChatTypeOK
  <2>2. /\ draft' = draft /\ hasSent' = hasSent
        /\ asked' \in [Ids -> Ids \cup {NoSession}]
        /\ sessionId' \in Ids \cup {NoSession}
    BY DEF ReplyStep, Ask, ShowPlaceholder, Answered, Failed, StreamStarts,
           StreamDone, AnswerSession, ChatTypeOK
  <2>3. QED
    BY <1>0, <2>1, <2>2 DEF ChatTypeOK
<1>3. FreshIdsUnused'
  BY <1>0, <1>1 DEF FreshIdsUnused, ChatTypeOK, Ids
<1>4. WorkIsForReplies'
  BY <1>0, <1>1 DEF WorkIsForReplies, ChatTypeOK, Busy
<1>5. WorkBehindEveryWait'
  <2>1. isTyping' => Busy' # {}
    BY <1>1 DEF ChatTypeOK, Busy
  <2>2. ASSUME NEW i \in Ids
        PROVE  /\ messages'[i] = "thinking" => stage'[i] \in {"asked", "settle"}
               /\ messages'[i] = "streaming" => stage'[i] = "ticking"
    BY <1>1 DEF ChatTypeOK, WorkBehindEveryWait
  <2>3. QED
    BY <2>1, <2>2 DEF WorkBehindEveryWait
<1>6. PreviewsAreOnScreen'
  BY <1>0, <1>1 DEF PreviewsAreOnScreen, WorkIsForReplies, ChatTypeOK, Busy
<1>7. OneReplyAtATime'
  <2>1. SUFFICES ASSUME ~cutShort
                 PROVE  /\ isTyping' <=> Busy' # {}
                        /\ \A p, q \in Busy' : p = q
    BY <1>0 DEF OneReplyAtATime
  <2>2. Busy = {r} /\ isTyping
    BY <1>0, <2>1 DEF OneReplyAtATime, Busy
  <2>3. \A i \in Ids : i # r => stage'[i] = "none"
    BY <1>1, <2>2 DEF ChatTypeOK, Busy
  <2>4. CASE stage'[r] = "none"
    <3>1. Busy' = {} /\ ~isTyping'
      BY <1>1, <2>3, <2>4 DEF ChatTypeOK, Busy
    <3>2. QED
      BY <3>1
  <2>5. CASE stage'[r] # "none"
    <3>1. Busy' = {r} /\ isTyping'
      BY <1>1, <2>2, <2>3, <2>5 DEF ChatTypeOK, Busy
    <3>2. QED
      BY <3>1
  <2>6. QED
    BY <2>4, <2>5
<1>8. QED
  BY <1>2, <1>3, <1>4, <1>5, <1>6, <1>7

(* A new message that is no reply keeps the invariant.                     *)
LEMMA NewMessageInv ==
  ASSUME ChatInv, AddActionMessage \/ \E s \in {"file", "image"} : AddUploadedFiles(s)
  PROVE  ChatInv'
<1> USE DEF ChatInv
<1>1. PICK m \in {"note", "file", "image"} :
        /\ nextId <= MaxMessages
        /\ messages' = [messages EXCEPT ![nextId] = m]
        /\ previews' = IF m = "image" THEN previews \cup {nextId} ELSE previews
        /\ nextId' = nextId + 1
        /\ hasSent' \in BOOLEAN
        /\ UNCHANGED <<draft, isTyping, sessionId, stage, asked, cutShort>>
  BY DEF AddActionMessage, AddUploadedFiles, ChatTypeOK
<1>2. nextId \in Ids /\ messages[nextId] = "none" /\ stage[nextId] = "none"
  BY <1>1, MaxMessagesAssumption DEF ChatTypeOK, Ids, FreshIdsUnused
<1>3. ChatTypeOK'
  BY <1>1, <1>2 DEF ChatTypeOK, Shapes, UserShapes
<1>4. FreshIdsUnused'
  BY <1>1, <1>2 DEF FreshIdsUnused, ChatTypeOK, Ids
<1>5. WorkIsForReplies'
  BY <1>1, <1>2 DEF WorkIsForReplies, ChatTypeOK, Busy
<1>6. WorkBehindEveryWait'
  BY <1>1, <1>2 DEF WorkBehindEveryWait, ChatTypeOK, Busy
<1>7. PreviewsAreOnScreen'
  BY <1>1, <1>2 DEF PreviewsAreOnScreen, ChatTypeOK
<1>8. OneReplyAtATime'
  BY <1>1 DEF OneReplyAtATime, Busy
<1>9. QED
  BY <1>3, <1>4, <1>5, <1>6, <1>7, <1>8

(* sendMessage takes two unused ids while no reply is in progress, unless  *)
(* a conversation was cut short.                                           *)
LEMMA SendInv ==
  ASSUME ChatInv, NEW model \in Models, SendMessage(model)
  PROVE  ChatInv'
<1> USE DEF ChatInv
<1>1. /\ nextId \in Ids /\ nextId + 1 \in Ids /\ nextId # nextId + 1
      /\ nextId' = nextId + 2
      /\ messages[nextId] = "none" /\ stage[nextId] = "none"
      /\ messages[nextId + 1] = "none" /\ stage[nextId + 1] = "none"
  BY MaxMessagesAssumption
  DEF SendMessage, ChatTypeOK, Ids, FreshIdsUnused
<1>2. PICK s \in {"delay", "local"} : stage' = [stage EXCEPT ![nextId + 1] = s]
  BY DEF SendMessage
<1>3. /\ messages' = [messages EXCEPT ![nextId] = "question"]
      /\ ~isTyping /\ isTyping' = TRUE
      /\ UNCHANGED <<sessionId, asked, previews, cutShort>>
      /\ draft' = "empty" /\ hasSent' = TRUE
  BY DEF SendMessage, CanSend
<1>4. ChatTypeOK'
  BY <1>1, <1>2, <1>3 DEF ChatTypeOK, Shapes, UserShapes, Stages, Drafts
<1>5. FreshIdsUnused'
  BY <1>1, <1>2, <1>3 DEF FreshIdsUnused, ChatTypeOK, Ids
<1>6. WorkIsForReplies'
  BY <1>1, <1>2, <1>3 DEF WorkIsForReplies, ChatTypeOK, Busy
<1>7. WorkBehindEveryWait'
  <2>1. nextId + 1 \in Busy'
    BY <1>1, <1>2 DEF Busy, ChatTypeOK
  <2>2. ASSUME NEW i \in Ids
        PROVE  /\ messages'[i] = "thinking" => stage'[i] \in {"asked", "settle"}
               /\ messages'[i] = "streaming" => stage'[i] = "ticking"
    BY <1>1, <1>2, <1>3 DEF WorkBehindEveryWait, ChatTypeOK
  <2>3. QED
    BY <2>1, <2>2 DEF WorkBehindEveryWait
<1>8. PreviewsAreOnScreen'
  BY <1>1, <1>3 DEF PreviewsAreOnScreen, ChatTypeOK
<1>9. OneReplyAtATime'
  <2>1. SUFFICES ASSUME ~cutShort
                 PROVE  /\ isTyping' <=> Busy' # {}
                        /\ \A p, q \in Busy' : p = q
    BY <1>3 DEF OneReplyAtATime
  <2>2. Busy = {}
    BY <1>3, <2>1 DEF OneReplyAtATime
  <2>3. Busy' = {nextId + 1}
    BY <1>1, <1>2, <2>2 DEF Busy, ChatTypeOK
  <2>4. QED
    BY <1>3, <2>3
<1>10. QED
  BY <1>4, <1>5, <1>6, <1>7, <1>8, <1>9

(* Ending the conversation, with a fresh one or with one opened from its   *)
(* preview, keeps the invariant: the messages go, and so do the timers.    *)
LEMMA EndConversationInv ==
  ASSUME ChatInv, ResetSession \/ OpenSessionFromPreview
  PROVE  ChatInv'
<1> USE DEF ChatInv
<1>1. /\ isTyping' = FALSE /\ asked' = asked
      /\ stage' = Cleared(stage) /\ previews' = {}
      /\ cutShort' = (cutShort \/ Fetching)
      /\ draft' = "empty" /\ hasSent' \in BOOLEAN
      /\ sessionId' \in Ids \cup {NoSession}
    BY DEF ResetSession, OpenSessionFromPreview, Revoked, ChatTypeOK,
           PreviewsAreOnScreen
<1>2. /\ nextId' \in Nat \ {0} /\ nextId' >= nextId
      /\ messages' \in [Ids -> {"none", "question"}]
      /\ \A i \in Ids : i >= nextId' => messages'[i] = "none"
  <2>1. CASE ResetSession
    BY <2>1 DEF ResetSession, ChatTypeOK, Ids
  <2>2. CASE OpenSessionFromPreview
    BY <2>2 DEF OpenSessionFromPreview, ChatTypeOK, Ids
  <2>3. QED
    BY <2>1, <2>2
<1>3. /\ stage' \in [Ids -> Stages]
      /\ \A r \in Ids : stage'[r] # "none" => stage[r] = "asked"
  BY <1>1, ClearedWork
<1>4. ChatTypeOK'
  BY <1>1, <1>2, <1>3 DEF ChatTypeOK, Shapes, UserShapes, Drafts
<1>5. FreshIdsUnused'
  <2>1. ASSUME NEW i \in Ids, i >= nextId'
        PROVE  i >= nextId
    BY <1>2, <2>1 DEF Ids, ChatTypeOK
  <2>2. QED
    BY <1>2, <1>3, <2>1 DEF FreshIdsUnused
<1>6. WorkIsForReplies' /\ PreviewsAreOnScreen'
  BY <1>1, <1>2 DEF WorkIsForReplies, PreviewsAreOnScreen, Busy
<1>7. WorkBehindEveryWait'
  BY <1>1, <1>2 DEF WorkBehindEveryWait
<1>8. OneReplyAtATime'
  BY <1>1, <1>3 DEF OneReplyAtATime, Busy, Fetching
<1>9. QED
  BY <1>4, <1>5, <1>6, <1>7, <1>8

(* Every step of the session keeps the invariant.                          *)
LEMMA ChatNextInv == ChatInv /\ [ChatNext]_chatVars => ChatInv'
<1> SUFFICES ASSUME ChatInv, [ChatNext]_chatVars PROVE ChatInv'
  OBVIOUS
<1>1. ASSUME NEW d \in Drafts, EditDraft(d) PROVE ChatInv'
  BY <1>1 DEF EditDraft, ChatInv, ChatTypeOK, FreshIdsUnused,
              WorkIsForReplies, WorkBehindEveryWait, PreviewsAreOnScreen,
              OneReplyAtATime, Busy
<1>2. ASSUME NEW model \in Models, SendMessage(model) PROVE ChatInv'
  BY <1>2, SendInv
<1>3. ASSUME NEW r \in Ids, ReplyStep(r) PROVE ChatInv'
  BY <1>3, ReplyStepInv
<1>4. CASE AddActionMessage \/ \E s \in {"file", "image"} : AddUploadedFiles(s)
  BY <1>4, NewMessageInv
<1>5. CASE ResetSession \/ OpenSessionFromPreview
  BY <1>5, EndConversationInv
<1>6. CASE UNCHANGED chatVars
  BY <1>6 DEF chatVars, ChatInv, ChatTypeOK, FreshIdsUnused,
              WorkIsForReplies, WorkBehindEveryWait, PreviewsAreOnScreen,
              OneReplyAtATime, Busy
<1>7. QED
  BY <1>1, <1>2, <1>3, <1>4, <1>5, <1>6 DEF ChatNext

(* The inductive invariant holds in every reachable state.                 *)
THEOREM ChatInvariance == ChatSpec => []ChatInv
<1>1. ChatInit => ChatInv
  BY ChatInitInv
<1>2. ChatInv /\ [ChatNext]_chatVars => ChatInv'
  BY ChatNextInv
<1>3. QED
  BY <1>1, <1>2, PTL DEF ChatSpec

(* Types of the chat session (useChatSession.ts).                          *)
THEOREM ChatTypeCorrect == ChatSpec => []ChatTypeOK
  BY ChatInvariance, PTL DEF ChatInv

(* A locked composer, a skeleton and a stream have work behind them, and   *)
(* object URLs are exactly those of the images on screen.                  *)
THEOREM NothingHangsInTheAir == ChatSpec => []ScreenBacked
<1>1. ChatInv => ScreenBacked
  BY DEF ChatInv, ScreenBacked
<1>2. QED
  BY <1>1, ChatInvariance, PTL

(* The lock is exact, and at most one reply is in progress, until a        *)
(* conversation ends with its fetch in flight.                             *)
THEOREM RepliesTakeTurns == ChatSpec => []OneReplyAtATime
  BY ChatInvariance, PTL DEF ChatInv

-----------------------------------------------------------------------------
(* The chat session inside the application.                                *)

(* A page load keeps the ids growing and forgets everything else.          *)
LEMMA ReloadChatInv == ASSUME ChatInv, Reload PROVE ChatInv'
<1>1. /\ messages' = [i \in Ids |-> "none"]
      /\ stage' = [i \in Ids |-> "none"]
      /\ asked' = [i \in Ids |-> NoSession]
      /\ draft' = "empty" /\ isTyping' = FALSE /\ hasSent' = FALSE
      /\ sessionId' = NoSession /\ previews' = {} /\ cutShort' = FALSE
      /\ nextId' = nextId
  BY DEF Reload
<1>2. ChatTypeOK'
  <2>1. messages' \in [Ids -> Shapes] /\ stage' \in [Ids -> Stages]
    BY <1>1 DEF Shapes, Stages
  <2>2. asked' \in [Ids -> Ids \cup {NoSession}]
    BY <1>1
  <2>3. /\ draft' \in Drafts /\ isTyping' \in BOOLEAN /\ hasSent' \in BOOLEAN
        /\ cutShort' \in BOOLEAN
    BY <1>1 DEF Drafts
  <2>4. /\ sessionId' \in Ids \cup {NoSession} /\ previews' \subseteq Ids
        /\ nextId' \in Nat \ {0}
    BY <1>1 DEF ChatInv, ChatTypeOK
  <2>5. QED
    BY <2>1, <2>2, <2>3, <2>4 DEF ChatTypeOK
<1>3. FreshIdsUnused' /\ WorkIsForReplies' /\ PreviewsAreOnScreen'
  BY <1>1 DEF FreshIdsUnused, WorkIsForReplies, PreviewsAreOnScreen, Busy
<1>4. WorkBehindEveryWait' /\ OneReplyAtATime'
  BY <1>1 DEF WorkBehindEveryWait, OneReplyAtATime, Busy
<1>5. QED
  BY <1>2, <1>3, <1>4 DEF ChatInv

(* A step of the application is one of the session's, a page load, or none *)
(* of the session's concern.                                               *)
LEMMA AppStepsSession ==
  ASSUME AppNext
  PROVE  [ChatNext]_chatVars \/ Reload
<1>1. ASSUME NEW model \in Models, Send(model) PROVE ChatNext
  BY <1>1 DEF Send, ChatNext
<1>2. ASSUME NEW n \in 1..MaxFiles, NEW shape \in {"file", "image"},
             Upload(n, shape)
      PROVE  ChatNext
  BY <1>2 DEF Upload, ChatNext
<1>3. CASE StartNewChat
  BY <1>3 DEF StartNewChat, ChatNext
<1>4. ASSUME NEW chat \in ToSet(recents["de"]), OpenRecentChat(chat)
      PROVE  ChatNext
  BY <1>4 DEF OpenRecentChat, ChatNext
<1>5. CASE Compose
  BY <1>5 DEF Compose, ChatNext
<1>6. ASSUME NEW r \in Ids, ChatAlone(ReplyStep(r)) PROVE ChatNext
  BY <1>6 DEF ChatAlone, ChatNext
<1>7. QED
  BY <1>1, <1>2, <1>3, <1>4, <1>5, <1>6
  DEF AppNext, AuthAlone, ShellAlone

(* Every step of the application keeps the session's invariant.            *)
LEMMA AppChatInvariance == AppSpec => []ChatInv
<1>1. AppInit => ChatInv
  BY ChatInitInv DEF AppInit
<1>2. ChatInv /\ [AppNext]_appVars => ChatInv'
  <2>1. ASSUME ChatInv, AppNext PROVE ChatInv'
    BY <2>1, AppStepsSession, ChatNextInv, ReloadChatInv
  <2>2. ASSUME ChatInv, UNCHANGED appVars PROVE ChatInv'
    BY <2>2, ChatNextInv DEF appVars
  <2>3. QED
    BY <2>1, <2>2
<1>3. QED
  BY <1>1, <1>2, PTL DEF AppSpec

(* Behind views that come and go, chats opened from the list and page      *)
(* loads, no wait on screen hangs in the air and no preview leaks.         *)
THEOREM AppScreenBacked == AppSpec => []ScreenBacked
<1>1. ChatInv => ScreenBacked
  BY DEF ChatInv, ScreenBacked
<1>2. QED
  BY <1>1, AppChatInvariance, PTL

(* And one reply is in progress at a time, until a conversation ends with  *)
(* its fetch in flight.                                                    *)
THEOREM AppRepliesTakeTurns == AppSpec => []OneReplyAtATime
  BY AppChatInvariance, PTL DEF ChatInv

-----------------------------------------------------------------------------
(* The login.                                                              *)

(* The inductive invariant: the role is asked for with a token that the    *)
(* server has given out, and so for an account that exists.                *)
AuthInv ==
  /\ AuthTypeOK
  /\ GrantedByServer
  /\ loginForm.wait = "me" => account

LEMMA AuthInitInv == AuthInit => AuthInv
<1> SUFFICES ASSUME AuthInit PROVE AuthInv
  OBVIOUS
<1>1. AuthTypeOK
  BY DEF AuthInit, AuthTypeOK, EmptyForm, Modes, Waits
<1>2. GrantedByServer /\ loginForm.wait # "me"
  BY DEF AuthInit, GrantedByServer, EmptyForm, Submitting, Authenticated
<1>3. QED
  BY <1>1, <1>2 DEF AuthInv

(* Every step of the login keeps the invariant.                            *)
LEMMA AuthNextInv ==
  ASSUME AuthInv, AuthNext
  PROVE  AuthInv'
<1> USE DEF AuthInv, AuthTypeOK, GrantedByServer, Submitting, LoginShown,
            Authenticated, Modes, Waits
<1>1. ASSUME NEW allowed \in BOOLEAN, ConfigArrives(allowed) PROVE AuthInv'
  BY <1>1 DEF ConfigArrives
<1>2. CASE ConfigUnreadable
  BY <1>2 DEF ConfigUnreadable
<1>3. CASE StoredTokenAccepted
  BY <1>3 DEF StoredTokenAccepted
<1>4. CASE StoredTokenRefused
  BY <1>4 DEF StoredTokenRefused
<1>5. CASE RegisterAnswered
  BY <1>5 DEF RegisterAnswered, Refused
<1>6. CASE RegisterUnreachable
  BY <1>6 DEF RegisterUnreachable, Refused
<1>7. CASE LoginAnswered
  BY <1>7 DEF LoginAnswered
<1>8. CASE LoginRefused
  BY <1>8 DEF LoginRefused, Refused
<1>9. ASSUME NEW answered \in BOOLEAN, RoleArrives(answered) PROVE AuthInv'
  BY <1>9 DEF RoleArrives, EmptyForm
<1>10. ASSUME NEW mode \in Modes, SwitchMode(mode) PROVE AuthInv'
  BY <1>10 DEF SwitchMode
<1>11. ASSUME NEW filled \in BOOLEAN, FillForm(filled) PROVE AuthInv'
  BY <1>11 DEF FillForm
<1>12. CASE Submit
  BY <1>12 DEF Submit, CanSubmit
<1>13. QED
  BY <1>1, <1>2, <1>3, <1>4, <1>5, <1>6, <1>7, <1>8, <1>9, <1>10, <1>11, <1>12
  DEF AuthNext, AuthServerStep

(* So does a page load, which forgets who was logged in.                   *)
LEMMA ReloadAuthInv == ASSUME AuthInv, AuthReload PROVE AuthInv'
  BY DEF AuthInv, AuthTypeOK, GrantedByServer, Submitting, LoginShown,
         Authenticated, Modes, Waits, AuthReload, EmptyForm

(* A step of the application is one of the login's, a page load, or none   *)
(* of the login's concern.                                                 *)
LEMMA AppStepsLogin ==
  ASSUME AppNext
  PROVE  [AuthNext]_authVars \/ AuthReload
<1>1. ASSUME NEW model \in Models, Send(model) PROVE UNCHANGED authVars
  BY <1>1 DEF Send, AuthKept
<1>2. ASSUME NEW n \in 1..MaxFiles, NEW shape \in {"file", "image"},
             Upload(n, shape)
      PROVE  UNCHANGED authVars
  BY <1>2 DEF Upload, AuthKept
<1>3. CASE StartNewChat \/ Compose
  BY <1>3 DEF StartNewChat, Compose, AuthKept
<1>4. ASSUME NEW chat \in ToSet(recents["de"]), OpenRecentChat(chat)
      PROVE  UNCHANGED authVars
  BY <1>4 DEF OpenRecentChat, AuthKept
<1>5. CASE Reload
  BY <1>5 DEF Reload
<1>6. CASE AuthAlone(AuthNext) \/ AuthAlone(LetIn)
  BY <1>6 DEF AuthAlone, LetIn, AuthNext, AuthServerStep
<1>7. QED
  BY <1>1, <1>2, <1>3, <1>4, <1>5, <1>6
  DEF AppNext, ChatAlone, ShellAlone

LEMMA LoginInvariance == AppSpec => []AuthInv
<1>1. AppInit => AuthInv
  BY AuthInitInv DEF AppInit
<1>2. AuthInv /\ [AppNext]_appVars => AuthInv'
  <2>1. ASSUME AuthInv, AppNext PROVE AuthInv'
    <3>1. CASE UNCHANGED authVars
      BY <2>1, <3>1 DEF authVars, AuthInv, AuthTypeOK, GrantedByServer,
                        Submitting, LoginShown, Authenticated
    <3>2. QED
      BY <2>1, <3>1, AppStepsLogin, AuthNextInv, ReloadAuthInv
  <2>2. ASSUME AuthInv, UNCHANGED appVars PROVE AuthInv'
    BY <2>2 DEF appVars, authVars, AuthInv, AuthTypeOK, GrantedByServer,
                Submitting, LoginShown, Authenticated
  <2>3. QED
    BY <2>1, <2>2
<1>3. QED
  BY <1>1, <1>2, PTL DEF AppSpec

(* An admin's controls are offered to an admin alone, nobody is let in     *)
(* without an account, and no login starts before the configuration is     *)
(* known, whatever answers are lost and whenever the page is loaded anew.  *)
THEOREM ServerGrants == AppSpec => []GrantedByServer
  BY LoginInvariance, PTL DEF AuthInv

-----------------------------------------------------------------------------
(* The frame.  Its state falls into four parts that no handler mixes, and  *)
(* each part has an invariant of its own.                                  *)

(* What is shown.                                                          *)
ViewsTyped ==
  /\ view \in Views
  /\ sidebarOpen \in BOOLEAN
  /\ narrow \in BOOLEAN
  /\ switching \in BOOLEAN
  /\ imprintOpen \in BOOLEAN
  /\ welcome \in [visible : BOOLEAN, leaving : BOOLEAN,
                  timers : SUBSET {"exit", "hide", "skip"}]

(* The settings, and what localStorage has of them.                        *)
StorageSound ==
  /\ preferences \in [Preferences -> {"default", "chosen"}]
  /\ kept \in [Preferences -> {"default", "chosen"}]
  /\ writable \in BOOLEAN
  /\ PreferencesKept

(* The chats listed.  The list is never empty, and so its first chat can   *)
(* be marked.                                                              *)
RecentsSound ==
  /\ recents \in [Languages -> Seq(Nat \ {0})]
  /\ activeRecent \in Nat
  /\ recents["de"] # <<>>
  /\ RecentsAgree

(* The upload.  What the client counts as uploaded is indexed, and what is *)
(* not answered yet is counted by neither.                                 *)
BatchHonest ==
  /\ batch \in [total : 0..MaxFiles, left : 0..MaxFiles,
                ok : 0..MaxFiles, indexed : 0..MaxFiles]
  /\ snackbar \in {"none", "uploaded", "failed"}
  /\ batch.ok <= batch.indexed
  /\ batch.indexed + batch.left <= batch.total
  /\ UploadsReportedTruly

(* What a step of the application can do to each part.                     *)
StorageStep ==
  \/ UNCHANGED <<preferences, kept, writable>>
  \/ \E p \in Preferences, v \in {"default", "chosen"} :
       /\ preferences' = [preferences EXCEPT ![p] = v]
       /\ kept' = IF writable THEN [kept EXCEPT ![p] = v] ELSE kept
       /\ writable' = writable
  \/ preferences' = kept /\ UNCHANGED <<kept, writable>>

RecentsStep ==
  \/ /\ recents' = recents
     /\ activeRecent' \in {activeRecent, 0, MarkedAgain} \cup ToSet(recents["de"])
  \/ ListNewChat(FreshChat)
  \/ /\ recents' = [l \in Languages |-> Seeds]
     /\ activeRecent' = Seeds[1]

BatchStep ==
  \/ batch' = batch /\ snackbar' \in {snackbar, "none"}
  \/ /\ snackbar = "none" /\ snackbar' = snackbar
     /\ \E n \in 1..MaxFiles : StartBatch(n)
  \/ \E ok, indexed \in BOOLEAN : FileAnswered(ok, indexed)
  \/ batch' = NoBatch /\ snackbar' = "none"

ShellStep == ViewsTyped' /\ StorageStep /\ RecentsStep /\ BatchStep

(* The ways through the frame, the sidebar, and the timers.                *)
LEMMA FrameControlSteps ==
  ASSUME ViewsTyped, FrameControl \/ ShellTimers \/ RecentGoesIdle
  PROVE  ShellStep
<1> USE DEF ViewsTyped, ShellStep, StorageStep, RecentsStep, BatchStep,
            FrameKept, StorageKept, RecentsKept
<1>1. ASSUME NEW v \in Views, Navigate(v) PROVE ShellStep
  BY <1>1 DEF Navigate, GoTo
<1>2. CASE ReturnToDashboard
  BY <1>2, ViewsAssumption DEF ReturnToDashboard, GoTo
<1>3. CASE OpenProfile \/ OpenSettings
  BY <1>3 DEF OpenProfile, OpenSettings, GoTo
<1>4. CASE ToggleSidebar \/ OpenSidebar \/ LeaveSidebar
  BY <1>4 DEF ToggleSidebar, OpenSidebar, LeaveSidebar, SetSidebar
<1>5. CASE SkipWelcome
  BY <1>5 DEF SkipWelcome
<1>6. ASSUME NEW p \in Preferences, NEW v \in {"default", "chosen"},
             ChoosePreference(p, v)
      PROVE  ShellStep
  <2>1. StorageStep
    BY <1>6 DEF ChoosePreference
  <2>2. ViewsTyped' /\ RecentsStep /\ BatchStep
    BY <1>6 DEF ChoosePreference
  <2>3. QED
    BY <2>1, <2>2
<1>7. ASSUME NEW open \in BOOLEAN, SetImprint(open) PROVE ShellStep
  BY <1>7 DEF SetImprint
<1>8. CASE TransitionEnds
  BY <1>8 DEF TransitionEnds
<1>9. CASE SnackbarExpires
  BY <1>9 DEF SnackbarExpires
<1>10. ASSUME NEW t \in {"exit", "hide", "skip"}, WelcomeTimer(t)
       PROVE  ShellStep
  BY <1>10 DEF WelcomeTimer
<1>11. CASE RecentGoesIdle
  BY <1>11 DEF RecentGoesIdle
<1>12. QED
  BY <1>1, <1>2, <1>3, <1>4, <1>5, <1>6, <1>7, <1>8, <1>9, <1>10, <1>11
  DEF FrameControl, ShellUserStep, ShellTimers

(* Every step of the application is one of these on each part.             *)
LEMMA AppStepsFrame ==
  ASSUME ViewsTyped, AppNext
  PROVE  ShellStep
<1> USE DEF ViewsTyped, ShellStep, StorageStep, RecentsStep, BatchStep,
            StorageKept, RecentsKept
<1>1. ASSUME NEW model \in Models, Send(model) PROVE ShellStep
  BY <1>1, ViewsAssumption DEF Send, FollowFirstMessage, GoTo
<1>2. ASSUME NEW n \in 1..MaxFiles, NEW shape \in {"file", "image"},
             Upload(n, shape)
      PROVE  ShellStep
  BY <1>2, ViewsAssumption DEF Upload, FollowFirstMessage, GoTo
<1>3. CASE StartNewChat
  BY <1>3, ViewsAssumption DEF StartNewChat, GoTo
<1>4. ASSUME NEW chat \in ToSet(recents["de"]), OpenRecentChat(chat)
      PROVE  ShellStep
  BY <1>4, ViewsAssumption DEF OpenRecentChat, GoTo
<1>5. CASE UNCHANGED shellVars
  BY <1>5 DEF shellVars
<1>6. CASE Reload
  BY <1>6, ViewsAssumption DEF Reload, FreshWelcome
<1>7. CASE FrameControl \/ ShellTimers \/ RecentGoesIdle
  BY <1>7, FrameControlSteps
<1>8. ASSUME NEW ok \in BOOLEAN, NEW indexed \in BOOLEAN,
             FileAnswered(ok, indexed)
      PROVE  ShellStep
  BY <1>8 DEF FileAnswered, FrameKept
<1>9. QED
  BY <1>1, <1>2, <1>3, <1>4, <1>5, <1>6, <1>7, <1>8
  DEF AppNext, Compose, ChatAlone, AuthAlone, ShellAlone

-----------------------------------------------------------------------------
(* Among MaxRecent + 1 ids one is not on a list of MaxRecent chats.        *)
LEMMA SomeChatUnlisted ==
  ASSUME NEW list \in Seq(Nat \ {0}), Len(list) <= MaxRecent
  PROVE  \E c \in 1..(MaxRecent + 1) : c \notin ToSet(list)
<1> SUFFICES ASSUME \A c \in 1..(MaxRecent + 1) : c \in ToSet(list)
             PROVE  FALSE
  OBVIOUS
<1> DEFINE N == MaxRecent + 1
<1> DEFINE place == [c \in 1..N |-> CHOOSE i \in 1..Len(list) : list[i] = c]
<1>1. Len(list) \in Nat /\ N \in Nat /\ Len(list) < N
  BY RecentAssumption
<1>2. \A c \in 1..N : \E i \in 1..Len(list) : list[i] = c
  BY DEF ToSet
<1>3. \A c \in 1..N : place[c] \in 1..Len(list) /\ list[place[c]] = c
  BY <1>2
<1>4. place \in [1..N -> 1..Len(list)]
  BY <1>3
<1>5. /\ IsFiniteSet(1..N) /\ Cardinality(1..N) = N
      /\ IsFiniteSet(1..Len(list)) /\ Cardinality(1..Len(list)) = Len(list)
  <2>1. ASSUME NEW n \in Nat
        PROVE  IsFiniteSet(1..n) /\ Cardinality(1..n) = n
    <3>1. /\ IsFiniteSet(1..n)
          /\ Cardinality(1..n) = IF 1 > n THEN 0 ELSE n - 1 + 1
      BY FS_Interval
    <3>2. QED
      BY <3>1
  <2>2. QED
    BY <1>1, <2>1
<1> HIDE DEF place
<1>6. \E x, y \in 1..N : x # y /\ place[x] = place[y]
  BY <1>1, <1>4, <1>5, FS_PigeonHole
<1>7. QED
  BY <1>3, <1>6

(* The new entry is on top, followed by what was listed.                   *)
LEMMA ListedOnTop ==
  ASSUME NEW list \in Seq(Nat \ {0}), NEW c \in Nat \ {0}
  PROVE  /\ Listed(<<c>> \o list) \in Seq(Nat \ {0})
         /\ Len(Listed(<<c>> \o list)) \in 1..MaxRecent
         /\ Listed(<<c>> \o list)[1] = c
         /\ \A i \in 2..Len(Listed(<<c>> \o list)) :
              /\ i - 1 \in 1..Len(list)
              /\ Listed(<<c>> \o list)[i] = list[i - 1]
<1> DEFINE all == <<c>> \o list
           n == IF Len(all) < MaxRecent THEN Len(all) ELSE MaxRecent
<1>1. MaxRecent \in Nat /\ MaxRecent >= 1 /\ Len(list) \in Nat
  BY RecentAssumption
<1>2. /\ all \in Seq(Nat \ {0})
      /\ Len(all) = Len(list) + 1
      /\ all[1] = c
      /\ \A i \in 2..Len(all) : all[i] = list[i - 1]
  OBVIOUS
<1> HIDE DEF all
<1>3. n \in 1..MaxRecent /\ n <= Len(all)
  BY <1>1, <1>2
<1> HIDE DEF n
<1>4. /\ SubSeq(all, 1, n) \in Seq(Nat \ {0})
      /\ Len(SubSeq(all, 1, n)) = n
      /\ \A i \in 1..n : SubSeq(all, 1, n)[i] = all[i]
  BY <1>1, <1>2, <1>3
<1>5. Listed(<<c>> \o list) = SubSeq(all, 1, n)
  BY DEF Listed, n, all
<1>6. ASSUME NEW i \in 2..n
      PROVE  i - 1 \in 1..Len(list) /\ all[i] = list[i - 1]
  <2>1. i \in 2..Len(all) /\ i - 1 \in 1..Len(list)
    BY <1>1, <1>2, <1>3
  <2>2. QED
    BY <1>2, <2>1
<1>7. n \in Nat /\ n >= 1 /\ 1 \in 1..n /\ \A i \in 2..n : i \in 1..n
  BY <1>1, <1>3
<1>8. /\ SubSeq(all, 1, n)[1] = c
      /\ \A i \in 2..n : SubSeq(all, 1, n)[i] = list[i - 1]
  BY <1>2, <1>4, <1>6, <1>7
<1>9. QED
  BY <1>3, <1>4, <1>5, <1>6, <1>8

(* The plus button keeps the lists: nothing is listed twice, what falls    *)
(* off at the end is not the chat that is marked.                          *)
LEMMA NewChatListed ==
  ASSUME RecentsSound, ListNewChat(FreshChat)
  PROVE  RecentsSound'
<1> DEFINE list == recents["de"]
           next == Listed(<<FreshChat>> \o list)
<1>1. /\ list \in Seq(Nat \ {0}) /\ recents["en"] = list
      /\ Len(list) <= MaxRecent /\ IsInjective(list)
  BY DEF RecentsSound, RecentsAgree, Languages
<1>2. FreshChat \in Nat \ {0} /\ FreshChat \notin ToSet(list)
  <2>1. FreshChat \in 1..(MaxRecent + 1) /\ FreshChat \notin ToSet(list)
    BY <1>1, SomeChatUnlisted DEF FreshChat
  <2>2. QED
    BY <2>1, RecentAssumption
<1>3. /\ next \in Seq(Nat \ {0}) /\ Len(next) \in 1..MaxRecent
      /\ next[1] = FreshChat
      /\ \A i \in 2..Len(next) : i - 1 \in 1..Len(list) /\ next[i] = list[i - 1]
  BY <1>1, <1>2, ListedOnTop
<1>4. /\ recents' = [l \in Languages |-> next]
      /\ activeRecent' = FreshChat
  BY <1>1 DEF ListNewChat, Languages
<1> HIDE DEF next, list
<1>5. IsInjective(next)
  <2>1. DOMAIN next = 1..Len(next) /\ Len(next) \in Nat /\ DOMAIN list = 1..Len(list)
    BY <1>1, <1>3
  <2>2. ASSUME NEW i \in DOMAIN next, i # 1
        PROVE  i \in 2..Len(next) /\ next[i] \in ToSet(list)
    <3>1. i \in 2..Len(next)
      BY <2>1, <2>2
    <3>2. i - 1 \in DOMAIN list /\ next[i] = list[i - 1]
      BY <1>3, <2>1, <3>1
    <3>3. QED
      BY <3>1, <3>2 DEF ToSet
  <2>3. ASSUME NEW i \in DOMAIN next, NEW j \in DOMAIN next, next[i] = next[j]
        PROVE  i = j
    <3>1. CASE i = 1 \/ j = 1
      BY <1>2, <1>3, <2>2, <2>3, <3>1
    <3>2. CASE i # 1 /\ j # 1
      <4>1. /\ i \in 2..Len(next) /\ j \in 2..Len(next)
            /\ i - 1 \in DOMAIN list /\ j - 1 \in DOMAIN list
            /\ list[i - 1] = list[j - 1]
        BY <1>3, <2>1, <2>2, <2>3, <3>2
      <4>2. i - 1 = j - 1
        BY <1>1, <4>1 DEF IsInjective
      <4>3. QED
        BY <4>1, <4>2
    <3>3. QED
      BY <3>1, <3>2
  <2>4. QED
    BY <2>3 DEF IsInjective
<1>6. FreshChat \in ToSet(next) /\ next # <<>>
  BY <1>3 DEF ToSet
<1>7. RecentsAgree'
  BY <1>3, <1>4, <1>5, <1>6 DEF RecentsAgree, Languages
<1>8. QED
  BY <1>2, <1>3, <1>4, <1>6, <1>7 DEF RecentsSound, Languages

(* The first chat of a list, and the one marked, are on the list.          *)
LEMMA MarkedListed ==
  ASSUME RecentsSound
  PROVE  /\ Head(recents["de"]) \in ToSet(recents["de"])
         /\ MarkedAgain \in ToSet(recents["de"])
         /\ ToSet(recents["de"]) \subseteq Nat \ {0}
<1>1. recents["de"] \in Seq(Nat \ {0}) /\ recents["de"] # <<>>
  BY DEF RecentsSound, Languages
<1>2. Head(recents["de"]) \in ToSet(recents["de"])
  BY <1>1 DEF ToSet
<1>3. ToSet(recents["de"]) \subseteq Nat \ {0}
  BY <1>1 DEF ToSet
<1>4. QED
  BY <1>2, <1>3 DEF MarkedAgain, RecentsSound, RecentsAgree

LEMMA RecentsStepSound ==
  ASSUME RecentsSound, RecentsStep
  PROVE  RecentsSound'
<1>1. CASE /\ recents' = recents
           /\ activeRecent' \in {activeRecent, 0, MarkedAgain} \cup ToSet(recents["de"])
  <2>1. activeRecent' \in Nat /\ (activeRecent' # 0 => activeRecent' \in ToSet(recents["de"]))
    <3>1. /\ MarkedAgain \in ToSet(recents["de"])
          /\ ToSet(recents["de"]) \subseteq Nat \ {0}
      BY MarkedListed
    <3>2. activeRecent \in Nat /\ (activeRecent # 0 => activeRecent \in ToSet(recents["de"]))
      BY DEF RecentsSound, RecentsAgree
    <3>3. QED
      BY <1>1, <3>1, <3>2
  <2>2. QED
    BY <1>1, <2>1 DEF RecentsSound, RecentsAgree
<1>2. CASE ListNewChat(FreshChat)
  BY <1>2, NewChatListed
<1>3. CASE /\ recents' = [l \in Languages |-> Seeds]
           /\ activeRecent' = Seeds[1]
  <2>1. /\ Seeds \in Seq(Nat \ {0}) /\ Seeds # <<>>
        /\ Seeds[1] \in Nat /\ Seeds[1] \in ToSet(Seeds)
        /\ Len(Seeds) <= MaxRecent /\ IsInjective(Seeds)
    BY RecentAssumption DEF ToSet
  <2>2. QED
    BY <1>3, <2>1 DEF RecentsSound, RecentsAgree, Languages
<1>4. QED
  BY <1>1, <1>2, <1>3 DEF RecentsStep

LEMMA StorageStepSound ==
  ASSUME StorageSound, StorageStep
  PROVE  StorageSound'
  BY DEF StorageSound, StorageStep, PreferencesKept

(* An answer that is lost leaves more indexed than counted as uploaded.    *)
LEMMA BatchStepHonest ==
  ASSUME BatchHonest, BatchStep
  PROVE  BatchHonest'
<1> DEFINE Batches == [total : 0..MaxFiles, left : 0..MaxFiles,
                       ok : 0..MaxFiles, indexed : 0..MaxFiles]
<1>1. CASE batch' = batch /\ snackbar' \in {snackbar, "none"}
  BY <1>1 DEF BatchHonest, UploadsReportedTruly
<1>2. ASSUME NEW n \in 1..MaxFiles, StartBatch(n),
             snackbar = "none", snackbar' = snackbar
      PROVE  BatchHonest'
  <2>1. /\ batch' = [total |-> n, left |-> n, ok |-> 0, indexed |-> 0]
        /\ n \in 0..MaxFiles /\ 0 \in 0..MaxFiles
    BY <1>2, FilesAssumption DEF StartBatch
  <2>2. QED
    BY <1>2, <2>1 DEF BatchHonest, UploadsReportedTruly
<1>3. ASSUME NEW ok \in BOOLEAN, NEW indexed \in BOOLEAN,
             FileAnswered(ok, indexed)
      PROVE  BatchHonest'
  <2>1. PICK taken \in {0, 1}, counted \in {0, 1} :
          /\ counted <= taken
          /\ batch' = [total |-> batch.total, left |-> batch.left - 1,
                       ok |-> batch.ok + counted,
                       indexed |-> batch.indexed + taken]
    <3>1. batch' = [batch EXCEPT !.left = @ - 1,
                                 !.ok = IF ok THEN @ + 1 ELSE @,
                                 !.indexed = IF indexed THEN @ + 1 ELSE @]
      BY <1>3 DEF FileAnswered
    <3>2. batch \in Batches
      BY DEF BatchHonest
    <3>3. CASE ok /\ indexed
      <4>1. batch' = [total |-> batch.total, left |-> batch.left - 1,
                      ok |-> batch.ok + 1, indexed |-> batch.indexed + 1]
        BY <3>1, <3>2, <3>3
      <4>2. QED
        BY <4>1
    <3>4. CASE ~ok /\ indexed
      <4>1. batch' = [total |-> batch.total, left |-> batch.left - 1,
                      ok |-> batch.ok, indexed |-> batch.indexed + 1]
        BY <3>1, <3>2, <3>4
      <4>2. batch.ok + 0 = batch.ok
        BY <3>2
      <4>3. QED
        BY <4>1, <4>2
    <3>5. CASE ~ok /\ ~indexed
      <4>1. batch' = [total |-> batch.total, left |-> batch.left - 1,
                      ok |-> batch.ok, indexed |-> batch.indexed]
        BY <3>1, <3>2, <3>5
      <4>2. batch.ok + 0 = batch.ok /\ batch.indexed + 0 = batch.indexed
        BY <3>2
      <4>3. QED
        BY <4>1, <4>2
    <3>6. ok => indexed
      BY <1>3 DEF FileAnswered
    <3>7. QED
      BY <3>3, <3>4, <3>5, <3>6
  <2>2. /\ batch.left > 0
        /\ snackbar' = IF batch'.left = 0 THEN BatchReport(batch') ELSE snackbar
    BY <1>3 DEF FileAnswered
  <2>3. /\ batch.total \in 0..MaxFiles /\ batch.left \in 0..MaxFiles
        /\ batch.ok \in 0..MaxFiles /\ batch.indexed \in 0..MaxFiles
        /\ batch.ok <= batch.indexed /\ batch.indexed + batch.left <= batch.total
    BY DEF BatchHonest
  <2>4. /\ batch'.total = batch.total /\ batch'.left = batch.left - 1
        /\ batch'.ok = batch.ok + counted /\ batch'.indexed = batch.indexed + taken
    BY <2>1
  <2>5. /\ batch'.ok <= batch'.indexed
        /\ batch'.indexed + batch'.left <= batch'.total
        /\ batch'.total \in 0..MaxFiles /\ batch'.left \in 0..MaxFiles
        /\ batch'.ok \in 0..MaxFiles /\ batch'.indexed \in 0..MaxFiles
    BY <2>1, <2>2, <2>3, <2>4, FilesAssumption
  <2>6. batch' \in Batches
    BY <2>1, <2>4, <2>5
  <2>7. CASE batch'.left = 0
    BY <2>2, <2>5, <2>6, <2>7, FilesAssumption
    DEF BatchReport, BatchHonest, UploadsReportedTruly
  <2>8. CASE batch'.left # 0
    <3>1. snackbar' = snackbar /\ snackbar # "uploaded"
      BY <2>2, <2>3, <2>8 DEF BatchHonest, UploadsReportedTruly
    <3>2. QED
      BY <2>5, <2>6, <3>1 DEF BatchHonest, UploadsReportedTruly
  <2>9. QED
    BY <2>7, <2>8
<1>4. CASE batch' = NoBatch /\ snackbar' = "none"
  BY <1>4, FilesAssumption DEF NoBatch, BatchHonest, UploadsReportedTruly
<1>5. QED
  BY <1>1, <1>2, <1>3, <1>4 DEF BatchStep

(* The inductive invariant of the frame.                                   *)
FrameInv == ViewsTyped /\ StorageSound /\ RecentsSound /\ BatchHonest

LEMMA ShellInitInv == ShellInit => FrameInv
<1> SUFFICES ASSUME ShellInit PROVE FrameInv
  OBVIOUS
<1>1. ViewsTyped
  BY ViewsAssumption DEF ShellInit, ViewsTyped, FreshWelcome
<1>2. StorageSound
  BY DEF ShellInit, StorageSound, PreferencesKept
<1>3. RecentsSound
  <2>1. /\ Seeds \in Seq(Nat \ {0}) /\ Seeds # <<>>
        /\ Seeds[1] \in Nat /\ Seeds[1] \in ToSet(Seeds)
        /\ Len(Seeds) <= MaxRecent /\ IsInjective(Seeds)
    BY RecentAssumption DEF ToSet
  <2>2. QED
    BY <2>1 DEF ShellInit, RecentsSound, RecentsAgree, Languages
<1>4. BatchHonest
  BY FilesAssumption DEF ShellInit, NoBatch, BatchHonest, UploadsReportedTruly
<1>5. QED
  BY <1>1, <1>2, <1>3, <1>4 DEF FrameInv

LEMMA FrameInvariance == AppSpec => []FrameInv
<1>1. AppInit => FrameInv
  BY ShellInitInv DEF AppInit
<1>2. FrameInv /\ [AppNext]_appVars => FrameInv'
  <2>1. ASSUME FrameInv, [AppNext]_appVars PROVE FrameInv'
    <3>1. CASE AppNext
      BY <2>1, <3>1, AppStepsFrame, StorageStepSound, RecentsStepSound,
         BatchStepHonest
      DEF FrameInv, ShellStep
    <3>2. CASE UNCHANGED appVars
      BY <2>1, <3>2
      DEF appVars, shellVars, FrameInv, ViewsTyped, StorageSound,
          PreferencesKept, RecentsSound, RecentsAgree, BatchHonest,
          UploadsReportedTruly
    <3>3. QED
      BY <2>1, <3>1, <3>2
  <2>2. QED
    BY <2>1
<1>3. QED
  BY <1>1, <1>2, PTL DEF AppSpec

(* The snackbar claims success only when the knowledge base has every file *)
(* of the upload (handleAttachmentUpload), for any number of files and any *)
(* pattern of failed and lost answers.                                     *)
THEOREM SuccessMeansIndexed == AppSpec => []UploadsReportedTruly
<1>1. FrameInv => UploadsReportedTruly
  BY DEF FrameInv, BatchHonest
<1>2. QED
  BY <1>1, FrameInvariance, PTL

(* Settings and localStorage agree where writes succeed, both languages    *)
(* list the same chats, each once and at most MaxRecent, and the marked    *)
(* chat is one of them (App.tsx), with the types of the whole state.       *)
THEOREM FrameStaysSound == AppSpec => []FrameSound
<1>1. FrameInv => ShellTypeOK /\ PreferencesKept /\ RecentsAgree
  BY DEF FrameInv, ViewsTyped, StorageSound, RecentsSound, BatchHonest,
         ShellTypeOK
<1>2. ChatInv /\ AuthInv /\ FrameInv => FrameSound
  BY <1>1 DEF ChatInv, AuthInv, FrameSound, AppTypeOK
<1>3. QED
  BY <1>2, AppChatInvariance, LoginInvariance, FrameInvariance, PTL

(* Wherever the composer was used, the first user message of a             *)
(* conversation ends with the chat in view and the sidebar closed          *)
(* (onFirstUserMessage, handleSelectRecentChat).                           *)
THEOREM FirstMessageLeadsToChat == AppSpec => FirstMessageOpensChat
<1> DEFINE Opens == ~hasSent /\ hasSent' => view' = "chat" /\ ~sidebarOpen'
<1>1. ASSUME AppNext PROVE Opens
  <2>1. ASSUME NEW model \in Models, Send(model) PROVE Opens
    BY <2>1 DEF Send, FollowFirstMessage, GoTo
  <2>2. ASSUME NEW n \in 1..MaxFiles, NEW shape \in {"file", "image"},
               Upload(n, shape)
        PROVE  Opens
    BY <2>2 DEF Upload, FollowFirstMessage, GoTo
  <2>3. CASE StartNewChat
    BY <2>3 DEF StartNewChat, ResetSession
  <2>4. ASSUME NEW chat \in ToSet(recents["de"]), OpenRecentChat(chat)
        PROVE  Opens
    BY <2>4 DEF OpenRecentChat, GoTo
  <2>5. CASE Compose
    BY <2>5 DEF Compose, AddActionMessage, EditDraft
  <2>6. CASE Reload
    BY <2>6 DEF Reload
  <2>7. ASSUME NEW r \in Ids, ChatAlone(ReplyStep(r)) PROVE Opens
    BY <2>7 DEF ChatAlone, ReplyStep, Ask, ShowPlaceholder, Answered, Failed,
                StreamStarts, StreamDone
  <2>8. CASE UNCHANGED chatVars
    BY <2>8 DEF chatVars
  <2>9. QED
    BY <1>1, <2>1, <2>2, <2>3, <2>4, <2>5, <2>6, <2>7, <2>8
    DEF AppNext, AuthAlone, ShellAlone
<1>2. [AppNext]_appVars => [Opens]_appVars
  BY <1>1
<1>3. QED
  BY <1>2, PTL DEF AppSpec, FirstMessageOpensChat
=============================================================================
