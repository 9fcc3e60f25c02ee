--------------------------------- MODULE App ---------------------------------
(***************************************************************************)
(* The application around the chat: App.tsx composes the login, the frame  *)
(* and the chat session, which the hook keeps while views come and go.  A  *)
(* handler of App is one step of the parts it calls.  The page may be      *)
(* loaded anew at any time: localStorage and the server stay, the rest     *)
(* starts over.                                                            *)
(***************************************************************************)
EXTENDS ChatClient, Auth, AppShell

CONSTANTS MaxReloads,   \* bound: page loads in one behaviour
          Focuses       \* bound: what one behaviour is about, see below

VARIABLES reloads, focus

appVars == <<chatVars, authVars, shellVars, reloads, focus>>

(* Bound: a behaviour explores the login with page loads ("login"), the    *)
(* frame's own controls with page loads ("frame"), uploads ("upload") or   *)
(* the chat session across views ("chat").  What the others explore is     *)
(* then at rest: the user is let in at once, and in "chat" waits until the *)
(* welcome and the transition between views are over.                      *)
About(set) == focus \in set

AppInit ==
  /\ focus \in Focuses
  /\ ChatInit /\ AuthInit /\ ShellInit
  /\ reloads = 0
  /\ ~About({"login"}) => stored = "good"
  /\ ~About({"login", "upload"}) => serverRole = "user"
  /\ ~About({"frame"}) => ~writable /\ ~narrow

(* ChatPanel is mounted in two views, and keeps its state between them.    *)
ComposerShown == Authenticated /\ view \in {"dashboard", "chat"}
AtRest == welcome.timers = {} /\ ~switching

AuthKept == UNCHANGED <<authVars, reloads, focus>>

(* Mutant: the sidebar stays as it is.                                     *)
FollowBesideSidebar(stay) ==
  GoTo(IF hasSent THEN stay ELSE "chat", sidebarOpen)

(* onFirstUserMessage leads to the chat and closes the sidebar.            *)
FollowFirstMessage(stay) ==
  IF hasSent THEN GoTo(stay, sidebarOpen) ELSE GoTo("chat", FALSE)

-----------------------------------------------------------------------------

(* handleSendMessage.                                                      *)
Send(model) ==
  /\ About({"chat"}) /\ AtRest
  /\ ComposerShown
  /\ SendMessage(model)
  /\ FollowFirstMessage("chat")
  /\ StorageKept /\ RecentsKept /\ AuthKept
  /\ UNCHANGED <<welcome, snackbar, imprintOpen, batch>>

(* handleAttachmentUpload: everyone sees the files in the chat, an admin's *)
(* are uploaded too.  (Bound: one upload at a time.)                       *)
Upload(n, shape) ==
  /\ About({"chat", "upload"}) /\ AtRest
  /\ ComposerShown
  /\ batch.left = 0
  /\ AddUploadedFiles(shape)
  /\ FollowFirstMessage(view)
  /\ IF role = "admin" THEN StartBatch(n) ELSE UNCHANGED batch
  /\ snackbar = "none"         \* bound: the last report has expired
  /\ StorageKept /\ RecentsKept /\ AuthKept
  /\ UNCHANGED <<welcome, snackbar, imprintOpen>>

(* The plus button of an open sidebar.                                     *)
StartNewChat ==
  /\ About({"chat", "frame"})
  /\ Authenticated /\ sidebarOpen
  /\ About({"chat"}) => AtRest
  /\ ListNewChat(FreshChat)
  /\ ResetSession
  /\ GoTo("chat", FALSE)
  /\ StorageKept /\ AuthKept
  /\ UNCHANGED <<welcome, snackbar, imprintOpen, batch>>

(* A chat of the sidebar's list; its preview is never blank.               *)
OpenRecentChat(chat) ==
  /\ About({"chat"}) /\ AtRest
  /\ Authenticated /\ sidebarOpen
  /\ activeRecent' = chat
  /\ OpenSessionFromPreview
  /\ GoTo("chat", FALSE)
  /\ StorageKept /\ AuthKept
  /\ UNCHANGED <<recents, welcome, snackbar, imprintOpen, batch>>

(* Writing, and the notes of attachment actions, the local model form and  *)
(* the persona wizard.                                                     *)
Compose ==
  /\ About({"chat"}) /\ AtRest
  /\ ComposerShown
  /\ AddActionMessage \/ \E d \in Drafts : EditDraft(d)
  /\ AuthKept /\ UNCHANGED shellVars

(* A new load of the page.  Ids stay unique, as Date.now() does.           *)
Reload ==
  /\ About({"login", "frame"})
  /\ reloads < MaxReloads
  /\ reloads' = reloads + 1
  /\ AuthReload
  /\ About({"frame"}) => stored' = stored
  /\ draft' = "empty"
  /\ messages' = [i \in Ids |-> "none"]
  /\ isTyping' = FALSE
  /\ hasSent' = FALSE
  /\ sessionId' = NoSession
  /\ stage' = [i \in Ids |-> "none"]
  /\ asked' = [i \in Ids |-> NoSession]
  /\ previews' = {}
  /\ cutShort' = FALSE
  /\ view' = "dashboard"
  /\ sidebarOpen' = ~narrow
  /\ switching' = TRUE
  /\ welcome' = FreshWelcome
  /\ snackbar' = "none"
  /\ imprintOpen' = FALSE
  /\ preferences' = kept
  /\ recents' = [l \in Languages |-> Seeds]
  /\ activeRecent' = Seeds[1]
  /\ batch' = NoBatch
  /\ UNCHANGED <<nextId, kept, narrow, writable, focus>>

-----------------------------------------------------------------------------

ChatAlone(A) == A /\ UNCHANGED <<authVars, shellVars, reloads, focus>>
AuthAlone(A) == A /\ UNCHANGED <<chatVars, shellVars, reloads, focus>>
ShellAlone(A) == A /\ UNCHANGED <<chatVars, authVars, reloads, focus>>

LetIn == ConfigArrives(TRUE) \/ StoredTokenAccepted

FrameControl ==
  \/ About({"chat"}) /\ AtRest /\ (ToggleSidebar \/ \E v \in Views : Navigate(v))
  \/ About({"frame"}) /\ ShellUserStep

AppNext ==
  \/ \E model \in Models : Send(model)
  \/ \E n \in 1..MaxFiles, shape \in {"file", "image"} : Upload(n, shape)
  \/ StartNewChat
  \/ \E chat \in ToSet(recents["de"]) : OpenRecentChat(chat)
  \/ Compose
  \/ Reload
  \/ \E r \in Ids : ChatAlone(ReplyStep(r))
  \/ About({"login"}) /\ AuthAlone(AuthNext)
  \/ ~About({"login"}) /\ AuthAlone(LetIn)
  \/ ShellAlone(Authenticated /\ FrameControl)
  \/ ShellAlone(ShellTimers)
  \/ About({"upload"}) /\ ShellAlone(\E ok, indexed \in BOOLEAN :
                                        FileAnswered(ok, indexed))
  \/ About({"frame"}) /\ ShellAlone(RecentGoesIdle)

(* Timers and answers come; no user has to act.                            *)
AppFairness ==
  /\ \A r \in Ids : WF_appVars(ChatAlone(ReplyStep(r)))
  /\ WF_appVars(AuthAlone(IF About({"login"}) THEN AuthServerStep ELSE LetIn))
  /\ \A t \in {"exit", "hide", "skip"} :
       WF_appVars(ShellAlone(WelcomeTimer(t)))

AppSpec == AppInit /\ [][AppNext]_appVars /\ AppFairness

-----------------------------------------------------------------------------

(* The types of the composed state.                                        *)
AppTypeOK == ChatTypeOK /\ AuthTypeOK /\ ShellTypeOK

(* What the frame keeps in two places is the same in both, see AppShell.   *)
FrameSound == AppTypeOK /\ PreferencesKept /\ RecentsAgree

(* The first user message of a conversation brings the chat into view with *)
(* the sidebar closed, wherever the composer was used and whatever it was: *)
(* a question, files, or a chat opened from the list.                      *)
FirstMessageOpensChat ==
  [][~hasSent /\ hasSent' => view' = "chat" /\ ~sidebarOpen']_appVars

(* Nothing keeps the user waiting: the composer unlocks, the login and the *)
(* boot end, and the welcome overlay goes for good.                        *)
WaitsEnd == ComposerUnlocks /\ SpinnersEnd /\ WelcomeEnds
=============================================================================
