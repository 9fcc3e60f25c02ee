------------------------------ MODULE AppShell ------------------------------
(***************************************************************************)
(* The frame of the application, App.tsx with its sidebar, header, welcome *)
(* overlay and snackbar: which view is mounted, what a handler does to the *)
(* frame besides its own work, the timers, and what localStorage keeps.    *)
(* App.tla composes it with the login and with the chat session.           *)
(***************************************************************************)
EXTENDS Naturals, Sequences, SequencesExt

CONSTANTS Views,        \* the ActiveViews, "dashboard" and "chat" among them
          Preferences,  \* the settings kept in localStorage
          Seeds,        \* the recent chats a fresh page lists
          MaxRecent,    \* .slice(0, 40)
          MaxFiles      \* bound: files of one upload

ASSUME ViewsAssumption == {"dashboard", "chat"} \subseteq Views
ASSUME RecentAssumption ==
  /\ Seeds \in Seq(Nat \ {0}) /\ IsInjective(Seeds)
  /\ MaxRecent \in Nat /\ Len(Seeds) \in 1..MaxRecent
ASSUME FilesAssumption == MaxFiles \in Nat

VARIABLES
  view,          \* activeView
  sidebarOpen,   \* isSidebarOpen
  narrow,        \* external: matchMedia("(max-width: 900px)")
  switching,     \* isViewSwitching, the 340 ms transition
  welcome,       \* the overlay and its timers
  snackbar,      \* snackbarMessage: "none", "uploaded", "failed"
  imprintOpen,   \* isImprintOpen
  preferences,   \* language, theme and style: "default" or "chosen"
  kept,          \* external: their values in localStorage
  writable,      \* external: localStorage accepts writes
  recents,       \* recentChatsByLanguageState, per language
  activeRecent,  \* activeRecentChatId, 0 for null
  batch          \* the upload an admin has running

shellVars == <<view, sidebarOpen, narrow, switching, welcome, snackbar,
               imprintOpen, preferences, kept, writable, recents,
               activeRecent, batch>>

Languages == {"de", "en"}

(* left: files not yet answered; ok: uploads that succeeded for the client;*)
(* indexed (external): files the knowledge base has taken.                 *)
NoBatch == [total |-> 0, left |-> 0, ok |-> 0, indexed |-> 0]

FreshWelcome == [visible |-> TRUE, leaving |-> FALSE,
                 timers |-> {"exit", "hide"}]

ShellInit ==
  /\ view = "dashboard"
  /\ sidebarOpen \in BOOLEAN
  /\ narrow = ~sidebarOpen     \* the first effect of a narrow page closes it
  /\ switching = TRUE
  /\ welcome = FreshWelcome
  /\ snackbar = "none"
  /\ imprintOpen = FALSE
  /\ kept \in [Preferences -> {"default", "chosen"}]
  /\ preferences = kept
  /\ writable \in BOOLEAN
  /\ ~writable => \A p \in Preferences : kept[p] = "default"
  /\ recents = [l \in Languages |-> Seeds]
  /\ activeRecent = Seeds[1]
  /\ batch = NoBatch

-----------------------------------------------------------------------------

(* setActiveView with the effects that run on a change of view: the        *)
(* transition starts anew, and a narrow page closes its sidebar, also one  *)
(* the same handler has just opened.                                       *)
GoTo(v, open) ==
  /\ view' = v
  /\ switching' = (switching \/ v # view)
  /\ sidebarOpen' = IF v # view /\ narrow THEN FALSE ELSE open

FrameKept == UNCHANGED <<view, sidebarOpen, switching>>
StorageKept == UNCHANGED <<preferences, kept, writable, narrow>>
RecentsKept == UNCHANGED <<recents, activeRecent>>

(* The navigation list of the sidebar, with the guide button below it; the *)
(* profile is not on it.                                                   *)
NavViews == Views \ {"profile"}

Navigate(v) ==
  /\ v \in NavViews
  /\ GoTo(v, sidebarOpen)
  /\ StorageKept /\ RecentsKept
  /\ UNCHANGED <<welcome, snackbar, imprintOpen, batch>>

(* handleReturnToDashboard and handleOpenProfile open the sidebar as well. *)
ReturnToDashboard ==
  /\ view = "chat"
  /\ GoTo("dashboard", TRUE)
  /\ StorageKept /\ RecentsKept
  /\ UNCHANGED <<welcome, snackbar, imprintOpen, batch>>

(* The profile chip of the header, the chat, the companies and the         *)
(* recommendations.                                                        *)
HasProfileChip == view \in {"dashboard", "chat", "companies", "recommendations"}

OpenProfile ==
  /\ "profile" \in Views /\ HasProfileChip
  /\ GoTo("profile", TRUE)
  /\ StorageKept /\ RecentsKept
  /\ UNCHANGED <<welcome, snackbar, imprintOpen, batch>>

(* The way from the profile page to the settings.                          *)
OpenSettings ==
  /\ view = "profile" /\ "settings" \in Views
  /\ GoTo("settings", sidebarOpen)
  /\ StorageKept /\ RecentsKept
  /\ UNCHANGED <<welcome, snackbar, imprintOpen, batch>>

(* The header's button, and the one that floats over the other pages.      *)
CanOpenSidebar == view = "dashboard" \/ (view # "chat" /\ ~sidebarOpen)

SetSidebar(open) ==
  /\ sidebarOpen' = open
  /\ StorageKept /\ RecentsKept
  /\ UNCHANGED <<view, switching, welcome, snackbar, imprintOpen, batch>>

ToggleSidebar == SetSidebar(~sidebarOpen)
OpenSidebar == CanOpenSidebar /\ SetSidebar(TRUE)

(* A click on the backdrop beside an open sidebar.                         *)
LeaveSidebar == sidebarOpen /\ SetSidebar(FALSE)

(* The 340 ms timer of the transition.                                     *)
TransitionEnds ==
  /\ switching
  /\ switching' = FALSE
  /\ StorageKept /\ RecentsKept
  /\ UNCHANGED <<view, sidebarOpen, welcome, snackbar, imprintOpen, batch>>

-----------------------------------------------------------------------------
(* The welcome overlay: leaves at 2100 ms, is gone at 3000 ms, and a skip  *)
(* hides it after 420 ms without stopping the other two timers.            *)

WelcomeTimer(t) ==
  /\ t \in welcome.timers
  /\ t = "hide" => "exit" \notin welcome.timers
  /\ welcome' = [visible |-> IF t = "exit" THEN welcome.visible ELSE FALSE,
                 leaving |-> t = "exit",
                 timers  |-> welcome.timers \ {t}]
  /\ FrameKept /\ StorageKept /\ RecentsKept
  /\ UNCHANGED <<snackbar, imprintOpen, batch>>

SkipWelcome ==
  /\ welcome.visible
  /\ welcome' = [welcome EXCEPT !.leaving = TRUE, !.timers = @ \cup {"skip"}]
  /\ FrameKept /\ StorageKept /\ RecentsKept
  /\ UNCHANGED <<snackbar, imprintOpen, batch>>

-----------------------------------------------------------------------------

(* The sidebar's effect on another list of chats: with none marked, the    *)
(* first one is.                                                           *)
MarkedAgain == IF activeRecent = 0 THEN Head(recents["de"]) ELSE activeRecent

(* Language, theme and style are written back by an effect of their own;   *)
(* a write that fails is ignored.  Another language shows another list.    *)
ChoosePreference(p, value) ==
  /\ preferences' = [preferences EXCEPT ![p] = value]
  /\ kept' = IF writable THEN [kept EXCEPT ![p] = value] ELSE kept
  /\ activeRecent' = IF p = "language" /\ value # preferences[p]
                     THEN MarkedAgain ELSE activeRecent
  /\ FrameKept
  /\ UNCHANGED <<recents, narrow, writable, welcome, snackbar, imprintOpen, batch>>

SetImprint(open) ==
  /\ open => sidebarOpen
  /\ imprintOpen' = open
  /\ FrameKept /\ StorageKept /\ RecentsKept
  /\ UNCHANGED <<welcome, snackbar, batch>>

(* The 3200 ms timer of the snackbar.                                      *)
SnackbarExpires ==
  /\ snackbar # "none"
  /\ snackbar' = "none"
  /\ FrameKept /\ StorageKept /\ RecentsKept
  /\ UNCHANGED <<welcome, imprintOpen, batch>>

-----------------------------------------------------------------------------
(* The chats the sidebar lists.                                            *)

Listed(list) == SubSeq(list, 1, IF Len(list) < MaxRecent THEN Len(list)
                                                         ELSE MaxRecent)

(* An id no listed chat has, as Date.now() gives one.                      *)
FreshChat == CHOOSE c \in 1..(MaxRecent + 1) : c \notin ToSet(recents["de"])

(* Mutant: only the list on screen gets the entry.                         *)
ListNewChatInOneLanguage(chat) ==
  /\ recents' = [recents EXCEPT !["de"] = Listed(<<chat>> \o @)]
  /\ activeRecent' = chat

(* The plus button puts one entry on top of the list of every language.    *)
ListNewChat(chat) ==
  /\ recents' = [l \in Languages |->
                   Listed(<<chat>> \o recents[l])]
  /\ activeRecent' = chat

(* Two hours without another choice and no chat is marked any more.        *)
RecentGoesIdle ==
  /\ activeRecent # 0
  /\ activeRecent' = 0
  /\ FrameKept /\ StorageKept
  /\ UNCHANGED <<recents, welcome, snackbar, imprintOpen, batch>>

-----------------------------------------------------------------------------
(* handleAttachmentUpload: an admin's files go to the knowledge base, one  *)
(* after the other, while the user goes on.                                *)

StartBatch(n) ==
  batch' = [total |-> n, left |-> n, ok |-> 0, indexed |-> 0]

(* Mutant: one file is enough.                                             *)
BatchReportOptimistic(b) == IF b.ok > 0 THEN "uploaded" ELSE "failed"

(* What the snackbar says when the last file is answered.                  *)
BatchReport(b) == IF b.ok = b.total THEN "uploaded" ELSE "failed"

(* One file: indexed and answered, indexed and the answer lost, or neither.*)
FileAnswered(ok, indexed) ==
  /\ batch.left > 0
  /\ ok => indexed
  /\ LET next == [batch EXCEPT !.left = @ - 1,
                               !.ok = IF ok THEN @ + 1 ELSE @,
                               !.indexed = IF indexed THEN @ + 1 ELSE @]
     IN /\ batch' = next
        /\ snackbar' = IF next.left = 0 THEN BatchReport(next) ELSE snackbar
  /\ FrameKept /\ StorageKept /\ RecentsKept
  /\ UNCHANGED <<welcome, imprintOpen>>

-----------------------------------------------------------------------------

ShellTimers == \/ TransitionEnds \/ SnackbarExpires
               \/ \E t \in {"exit", "hide", "skip"} : WelcomeTimer(t)

ShellUserStep ==
  \/ \E v \in Views : Navigate(v)
  \/ ReturnToDashboard
  \/ OpenProfile
  \/ OpenSettings
  \/ ToggleSidebar \/ OpenSidebar \/ LeaveSidebar
  \/ SkipWelcome
  \/ \E p \in Preferences, v \in {"default", "chosen"} : ChoosePreference(p, v)
  \/ \E open \in BOOLEAN : SetImprint(open)

-----------------------------------------------------------------------------

(* The types of the frame's state.                                         *)
ShellTypeOK ==
  /\ view \in Views
  /\ sidebarOpen \in BOOLEAN
  /\ narrow \in BOOLEAN
  /\ switching \in BOOLEAN
  /\ welcome \in [visible : BOOLEAN, leaving : BOOLEAN,
                  timers : SUBSET {"exit", "hide", "skip"}]
  /\ snackbar \in {"none", "uploaded", "failed"}
  /\ imprintOpen \in BOOLEAN
  /\ preferences \in [Preferences -> {"default", "chosen"}]
  /\ kept \in [Preferences -> {"default", "chosen"}]
  /\ writable \in BOOLEAN
  /\ recents \in [Languages -> Seq(Nat \ {0})]
  /\ activeRecent \in Nat
  /\ batch \in [total : 0..MaxFiles, left : 0..MaxFiles,
                ok : 0..MaxFiles, indexed : 0..MaxFiles]

(* Success is claimed for an upload only when the knowledge base has every *)
(* file of it, whatever failed or got lost on the way.                     *)
UploadsReportedTruly ==
  snackbar = "uploaded" => batch.left = 0 /\ batch.indexed = batch.total

(* Where writes succeed, a page loaded now would show what this one shows. *)
PreferencesKept == writable => kept = preferences

(* Both languages list the same chats, each once and no more than 40, and  *)
(* the chat marked as active is one of them.                               *)
RecentsAgree ==
  /\ recents["de"] = recents["en"]
  /\ Len(recents["de"]) <= MaxRecent
  /\ IsInjective(recents["de"])
  /\ activeRecent # 0 => activeRecent \in ToSet(recents["de"])

(* The overlay does not stay in the way.                                   *)
WelcomeEnds == <>[](~welcome.visible)
=============================================================================
