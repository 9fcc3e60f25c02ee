-------------------------------- MODULE Desk --------------------------------
(***************************************************************************)
(* Invitations and the two pages that show them: the hook                  *)
(* useInviteNotifications.ts, NotificationsPanel.tsx and MyDeskPanel.tsx   *)
(* with its planner.  The hook lives in App and keeps the decisions made   *)
(* in this session over what the server says; nothing is sent back.        *)
(***************************************************************************)
EXTENDS CompanyData, Planner

CONSTANTS Agenda,     \* the planner item of each invite, without its rsvp
          Order,      \* the invites in the order the server lists them
          Meetings,   \* the user's planner items in the companies' records
          MaxFeed     \* .slice(0, 16)

(* No two items have one id: the ids of the records, of the server's list  *)
(* and of new items differ in how they begin.  Here they are numbers, and  *)
(* those of new items come last, see NewId.                                *)
ASSUME DeskAssumption ==
  /\ Agenda \in [Invites -> Items] /\ Meetings \in Seq(Items)
  /\ Order \in Seq(Invites) /\ ToSet(Order) = Invites /\ IsInjective(Order)
  /\ LET ids == 1..(Len(Meetings) + Cardinality(Invites)) IN
       /\ \A i \in Invites : /\ Agenda[i].id \in ids
                            /\ \A j \in Invites \ {i} : Agenda[j].id # Agenda[i].id
       /\ \A k \in DOMAIN Meetings :
            /\ Meetings[k].id \in ids
            /\ \A l \in DOMAIN Meetings \ {k} : Meetings[l].id # Meetings[k].id
            /\ \A i \in Invites : Agenda[i].id # Meetings[k].id
  /\ MaxFeed \in Nat

VARIABLES
  decisions,         \* deskRsvpDecisions, "none" where there is none
  notificationFeed,  \* newest first
  guest,             \* assignedRole = "guest", read when the desk mounts
  deskOpen,          \* MyDeskPanel is mounted
  deskTab,           \* activeTab
  deskList           \* userAppointments, the memo

deskVars == <<decisions, notificationFeed, guest, deskOpen, deskTab, deskList>>

Decisions == {"accepted", "declined"}

(* inviteNotifications: a decision, else the server's rsvp, else pending.  *)
Status(i) ==
  IF decisions[i] # "none" THEN decisions[i]
  ELSE IF appointments[i] = "null" THEN "pending" ELSE appointments[i]

(* userAppointments: the meetings of the companies of the user's role, and *)
(* the personal appointments with the decisions over their rsvp.           *)
Merge(loaded, agenda, decided) ==
  [meetings |-> loaded # 0 /\ ~guest,
   rsvps    |-> [i \in Invites |->
                   IF agenda[i] = "absent" \/ decided[i] = "none"
                   THEN agenda[i] ELSE decided[i]]]

NotShown == Merge(0, NoAgenda, [i \in Invites |-> "none"])

(* The items the desk hands to its planner.                                *)
DeskItems(list) ==
  LET listed == Keeping(Order, {i \in Invites : list.rsvps[i] # "absent"})
  IN (IF list.meetings THEN Meetings ELSE <<>>)
       \o [k \in DOMAIN listed |-> Agenda[listed[k]]]

DeskInit ==
  /\ decisions = [i \in Invites |-> "none"]
  /\ notificationFeed = <<>>
  /\ guest \in BOOLEAN
  /\ deskOpen = FALSE
  /\ deskTab = "overview"
  /\ deskList = NotShown

(* Mutant: the memo depends on the decisions alone.                        *)
MemoOfDecisions ==
  deskList' = IF deskOpen /\ decisions' # decisions
              THEN Merge(companies', appointments', decisions') ELSE deskList

(* React computes userAppointments anew when accessibleCompanies, which    *)
(* follows companies, or rsvpDecisions is another object than before.      *)
(* personalAppointments is not among the dependencies.                     *)
MemoFollows ==
  deskList' = IF deskOpen /\ (companies' # companies \/ decisions' # decisions)
              THEN Merge(companies', appointments', decisions') ELSE deskList

(* The planner is mounted while its tab is chosen and there are items.     *)
PlannerShown == deskOpen /\ deskTab = "appointments" /\ DeskItems(deskList) # <<>>

PlannerFollows ==
  IF PlannerShown /\ DeskItems(deskList') = <<>>
  THEN PlannerMounts ELSE UNCHANGED plannerVars

-----------------------------------------------------------------------------

(* App keeps everything but what belongs to the panel.                     *)
OpenDesk ==
  /\ ~deskOpen
  /\ deskOpen' = TRUE
  /\ deskTab' = "overview"
  /\ deskList' = Merge(companies, appointments, decisions)
  /\ PlannerMounts
  /\ UNCHANGED <<decisions, notificationFeed, guest, companyVars>>

LeaveDesk ==
  /\ deskOpen
  /\ deskOpen' = FALSE
  /\ deskTab' = "overview"
  /\ deskList' = NotShown
  /\ PlannerMounts
  /\ UNCHANGED <<decisions, notificationFeed, guest, companyVars>>

(* The tabs of the desk; the planner is only mounted under its own.        *)
ChooseDeskTab(tab) ==
  /\ deskOpen
  /\ deskTab' = tab
  /\ IF tab = deskTab THEN UNCHANGED plannerVars ELSE PlannerMounts
  /\ UNCHANGED <<decisions, notificationFeed, guest, deskOpen, deskList,
                 companyVars>>

(* The loads of useCompanyData, under an open or a closed desk.            *)
CompanyStep ==
  /\ TokenArrives \/ (deskOpen /\ Retry) \/ \E load \in loads : LoadEnds(load)
  /\ UNCHANGED <<decisions, notificationFeed, guest, deskOpen, deskTab>>
  /\ MemoFollows
  /\ PlannerFollows

Newest(feed) == SubSeq(feed, 1, IF Len(feed) < MaxFeed THEN Len(feed) ELSE MaxFeed)

(* handleDeskRsvpDecision; an appointment that is not listed is not told.  *)
HandleDecision(i, decision) ==
  /\ decisions' = [decisions EXCEPT ![i] = decision]
  /\ notificationFeed' =
       IF appointments[i] = "absent" THEN notificationFeed
       ELSE Newest(<<[invite |-> i, decision |-> decision]>> \o notificationFeed)
  /\ UNCHANGED <<guest, deskOpen, deskTab, companyVars>>
  /\ MemoFollows
  /\ UNCHANGED plannerVars

(* Mutant: the buttons stay after an answer.                               *)
RespondAgainInNotifications(i, decision) ==
  /\ ~deskOpen
  /\ appointments[i] # "absent"
  /\ HandleDecision(i, decision)

(* The buttons of a notification, shown while its status is pending.       *)
RespondInNotifications(i, decision) ==
  /\ ~deskOpen
  /\ appointments[i] # "absent" /\ Status(i) = "pending"
  /\ HandleDecision(i, decision)

(* The buttons of an expanded card, while its rsvp is pending.             *)
RespondOnDesk(i, decision) ==
  /\ PlannerShown
  /\ deskList.rsvps[i] = "pending"
  /\ Agenda[i] \in ToSet(Shown(DeskItems(deskList)))
  /\ expandedCardId = Agenda[i].id
  /\ HandleDecision(i, decision)

-----------------------------------------------------------------------------
(* The planner of the desk.                                                *)

IsPending(item) == \E i \in Invites : /\ Agenda[i] = item
                                      /\ deskList.rsvps[i] = "pending"

(* Ids of new items, as Date.now() gives them: no item has one of these.   *)
NewId == Len(newItems) + 1 + Len(Meetings) + Cardinality(Invites)

PlannerAlone(A) == PlannerShown /\ A /\ UNCHANGED <<deskVars, companyVars>>

PlannerStep ==
  \/ WeekBar
  \/ AddAppointmentModal(NewId)
  \/ Cards(DeskItems(deskList), IsPending)

DeskNext ==
  \/ OpenDesk \/ LeaveDesk \/ CompanyStep
  \/ \E tab \in {"overview", "appointments", "companies"} : ChooseDeskTab(tab)
  \/ \E i \in Invites, decision \in Decisions :
       RespondInNotifications(i, decision) \/ RespondOnDesk(i, decision)
  \/ PlannerAlone(PlannerStep)

DeskSpec == /\ CompanyInit /\ PlannerFresh /\ DeskInit
            /\ [][DeskNext]_<<deskVars, companyVars, plannerVars>>

-----------------------------------------------------------------------------

(* The types of the desk's state.                                          *)
DeskTypeOK ==
  /\ decisions \in [Invites -> Decisions \cup {"none"}]
  /\ ToSet(notificationFeed) \subseteq [invite : Invites, decision : Decisions]
  /\ Len(notificationFeed) <= MaxFeed
  /\ deskTab \in {"overview", "appointments", "companies"}
  /\ deskList.rsvps \in Agendas

(* The memo of an open desk is what it would be computed to be now,        *)
(* although it leaves out the list it merges: loads under an open desk, in *)
(* any order, and answers on either page reach it.                         *)
MemoIsFresh == deskOpen => deskList = Merge(companies, appointments, decisions)

(* The desk and the notifications say the same of every invitation that    *)
(* has an rsvp or was answered here.  (Of one that the server lists without*)
(* an rsvp they do not: it is pending in the notifications, and plain on   *)
(* the desk, where it cannot be answered.  companyWorkspace.types.ts:100   *)
(* says that its rsvp defaults to pending; only the one page does so.)     *)
PagesAgree ==
  deskOpen => \A i \in Invites :
    appointments[i] # "null" \/ decisions[i] # "none" =>
      deskList.rsvps[i] = IF appointments[i] = "absent" THEN "absent" ELSE Status(i)

(* The feed tells each answer once and as it was given, and all of them    *)
(* until it is full.                                                       *)
FeedTells ==
  /\ \A k \in DOMAIN notificationFeed :
       decisions[notificationFeed[k].invite] = notificationFeed[k].decision
  /\ IsInjective([k \in DOMAIN notificationFeed |-> notificationFeed[k].invite])
  /\ Len(notificationFeed) < MaxFeed =>
       \A i \in Invites : decisions[i] # "none" =>
         \E k \in DOMAIN notificationFeed : notificationFeed[k].invite = i

(* Both pages and the loads between them implement the ledger: whatever    *)
(* happens, an invitation is answered once and keeps its answer.           *)
Ledger == INSTANCE InviteLedger WITH
            Invites <- Invites,
            answers <- [i \in Invites |->
                          IF decisions[i] = "none" THEN "open" ELSE decisions[i]]

ImplementsInviteLedger == Ledger!LedgerSpec

(* What is on screen of the planner is laid out well, see Planner.         *)
DeskLanesFit ==
  PlannerTypeOK /\ (PlannerShown => LanesFit(Shown(DeskItems(deskList))))
=============================================================================
