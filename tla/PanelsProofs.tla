---------------------------- MODULE PanelsProofs ----------------------------
(***************************************************************************)
(* What TLAPS proves of the pages, for any number of documents, companies, *)
(* presets, models and invitations.  Each part is proved by itself, from   *)
(* an inductive invariant of its own:                                      *)
(*   the desk        DeskInv         its memo is fresh, the feed tells     *)
(*                                   what was answered, and both pages     *)
(*                                   implement InviteLedger                *)
(*   the planner     PlannerInv      items that run at once have lanes     *)
(*                                   side by side                          *)
(*   the settings    SettingsInv     a selected preset has the values set  *)
(*   the composer    ControlsInv     what the bar names is what is used    *)
(*   the library     ListInv         the list is what the server has       *)
(*   the workspace   WorkspaceInv    what is open or edited is what was    *)
(*                                   chosen, as far as a load leaves it,   *)
(*                                   and object URLs are those of uploads  *)
(* The last section puts them together: whatever is done, the application  *)
(* takes a part's step, lets its panel come or go, or leaves it alone.     *)
(***************************************************************************)
EXTENDS Panels, ListProofs, FiniteSetTheorems

(***************************************************************************)
(* The desk.                                                               *)
(***************************************************************************)

(* No two loads have one name, and none has that of the answer on screen:  *)
(* companies is another object after every load, and so the memo, which    *)
(* depends on companies alone, also sees every change of appointments.     *)
LoadsNamed ==
  /\ companies <= started
  /\ \A load \in loads : load.n <= started /\ load.n # companies
  /\ \A a, b \in loads : a.n = b.n => a = b

(* The feed is a sequence, of answers.                                     *)
FeedIsSequence ==
  notificationFeed \in Seq([invite : Invites, decision : Decisions])

(* The inductive invariant.                                                *)
DeskInv ==
  /\ FeedIsSequence /\ guest \in BOOLEAN
  /\ CompanyTypeOK /\ LoadsNamed /\ QuietMeansLoaded /\ SpinnerHasLoad
  /\ DeskTypeOK /\ MemoIsFresh /\ FeedTells

-----------------------------------------------------------------------------
(* next is feed with e at its head and, where it was full, without its end. *)
Pushed(feed, e, next) ==
  /\ \A k \in DOMAIN next : next[k] = IF k = 1 THEN e ELSE feed[k - 1]
  /\ \A k \in DOMAIN next : k # 1 => k - 1 \in DOMAIN feed
  /\ Len(feed) < MaxFeed => Len(next) = Len(feed) + 1
  /\ Len(feed) = MaxFeed => Len(next) = MaxFeed

(* What the feed keeps of a new entry and the old ones.                    *)
LEMMA NewestPushed ==
  ASSUME NEW S, NEW x \in S, NEW feed \in Seq(S), Len(feed) <= MaxFeed,
         NEW next, next = Newest(<<x>> \o feed)
  PROVE  next \in Seq(S) /\ Len(next) <= MaxFeed /\ Pushed(feed, x, next)
<1> DEFINE all == <<x>> \o feed
           m == IF Len(all) < MaxFeed THEN Len(all) ELSE MaxFeed
<1>0. MaxFeed \in Nat
  BY DeskAssumption
<1>1. /\ all \in Seq(S) /\ Len(all) = Len(feed) + 1
      /\ \A k \in 1 .. Len(all) : all[k] = IF k = 1 THEN x ELSE feed[k - 1]
  OBVIOUS
<1>2. Newest(all) = SubSeq(all, 1, m) /\ m \in 0 .. Len(all) /\ m <= MaxFeed
  BY <1>0, <1>1 DEF Newest
<1> HIDE DEF all, m
<1>3. /\ Newest(all) \in Seq(S) /\ Len(Newest(all)) = m
      /\ \A k \in 1 .. m : Newest(all)[k] = all[k]
  BY <1>1, <1>2
<1>4. Len(feed) < MaxFeed => m = Len(all)
  BY <1>0, <1>1 DEF m
<1>5. Len(feed) = MaxFeed => m = MaxFeed
  BY <1>0, <1>1 DEF m
<1>6. next = Newest(all)
  BY DEF all
<1>7. \A k \in 1 .. m : k # 1 => k - 1 \in DOMAIN feed
  BY <1>1, <1>2
<1>8. DOMAIN next = 1 .. m
  BY <1>3, <1>6
<1>9. \A k \in DOMAIN next : next[k] = IF k = 1 THEN x ELSE feed[k - 1]
  <2>1. SUFFICES ASSUME NEW k \in 1 .. m
                 PROVE  next[k] = IF k = 1 THEN x ELSE feed[k - 1]
    BY <1>8
  <2>2. next[k] = all[k] /\ k \in 1 .. Len(all)
    BY <1>1, <1>2, <1>3, <1>6
  <2>3. QED
    BY <1>1, <2>2
<1>10. /\ Len(feed) < MaxFeed => Len(next) = Len(feed) + 1
       /\ Len(feed) = MaxFeed => Len(next) = MaxFeed
  BY <1>1, <1>3, <1>4, <1>5, <1>6
<1>11. Pushed(feed, x, next)
  BY <1>7, <1>8, <1>9, <1>10 DEF Pushed
<1>12. QED
  BY <1>2, <1>3, <1>6, <1>11

-----------------------------------------------------------------------------
(* The initial state satisfies the invariant.                              *)
LEMMA DeskInitInv == CompanyInit /\ DeskInit => DeskInv
<1> SUFFICES ASSUME CompanyInit, DeskInit PROVE DeskInv
  OBVIOUS
<1>1. CompanyTypeOK
  <2>1. MaxLoads \in Nat /\ 1 \in 1 .. MaxLoads /\ 0 \in 0 .. MaxLoads
    BY CompanyAssumption
  <2>2. appointments \in Agendas
    BY DEF CompanyInit, Agendas, NoAgenda
  <2>3. loads \subseteq [n : 1..MaxLoads, token : BOOLEAN]
    BY <2>1 DEF CompanyInit
  <2>4. QED
    BY <2>1, <2>2, <2>3 DEF CompanyInit, CompanyTypeOK
<1>2. LoadsNamed /\ QuietMeansLoaded /\ SpinnerHasLoad
  BY DEF CompanyInit, LoadsNamed, QuietMeansLoaded, SpinnerHasLoad
<1>3. notificationFeed = <<>> /\ FeedIsSequence /\ guest \in BOOLEAN /\ ~deskOpen
  BY DEF DeskInit, FeedIsSequence
<1>4. decisions = [i \in Invites |-> "none"] /\ deskList = NotShown
      /\ deskTab = "overview"
  BY DEF DeskInit
<1>5. DeskTypeOK
  <2>1. decisions \in [Invites -> Decisions \cup {"none"}]
    BY <1>4
  <2>2. NoAgenda \in Agendas
    BY DEF NoAgenda, Agendas
  <2>3. deskList.rsvps = NoAgenda
    BY <1>4 DEF NotShown, Merge, NoAgenda
  <2>4. ToSet(notificationFeed) = {} /\ Len(notificationFeed) = 0
    BY <1>3 DEF ToSet
  <2>5. QED
    BY <1>4, <2>1, <2>2, <2>3, <2>4, DeskAssumption DEF DeskTypeOK
<1>6. MemoIsFresh
  BY <1>3 DEF MemoIsFresh
<1>7. FeedTells
  <2>1. DOMAIN notificationFeed = {}
    BY <1>3
  <2>2. QED
    BY <1>4, <2>1 DEF FeedTells, IsInjective
<1>8. QED
  BY <1>1, <1>2, <1>3, <1>5, <1>6, <1>7 DEF DeskInv

(* A load starts or ends: its name keeps it apart from the others, and a   *)
(* list that changes comes with another name.                              *)
LEMMA LoadStep ==
  ASSUME DeskInv, TokenArrives \/ Retry \/ \E load \in loads : LoadEnds(load)
  PROVE  /\ CompanyTypeOK' /\ LoadsNamed' /\ QuietMeansLoaded' /\ SpinnerHasLoad'
         /\ companies' = companies => appointments' = appointments
<1>0. CompanyTypeOK /\ LoadsNamed /\ QuietMeansLoaded /\ MaxLoads \in Nat
  BY CompanyAssumption DEF DeskInv
<1>1. CASE TokenArrives \/ Retry
  <2>1. PICK tok \in BOOLEAN :
          /\ started < MaxLoads /\ started' = started + 1
          /\ loads' = loads \cup {[n |-> started + 1, token |-> tok]}
          /\ isLoading' = TRUE /\ loadError' = FALSE /\ token' \in BOOLEAN
          /\ UNCHANGED <<companies, appointments>>
    BY <1>0, <1>1 DEF TokenArrives, Retry, StartLoad, CompanyTypeOK
  <2>2. CompanyTypeOK'
    <3>1. loads' \subseteq [n : 1..MaxLoads, token : BOOLEAN]
      BY <1>0, <2>1 DEF CompanyTypeOK
    <3>2. started' \in 1..MaxLoads
      BY <1>0, <2>1 DEF CompanyTypeOK
    <3>3. QED
      BY <1>0, <2>1, <3>1, <3>2 DEF CompanyTypeOK
  <2>3. LoadsNamed'
    BY <1>0, <2>1 DEF CompanyTypeOK, LoadsNamed
  <2>4. QED
    BY <2>1, <2>2, <2>3 DEF QuietMeansLoaded, SpinnerHasLoad
<1>2. CASE \E load \in loads : LoadEnds(load)
  <2>1. PICK load \in loads :
          /\ loads' = loads \ {load} /\ isLoading' = FALSE
          /\ UNCHANGED <<started, token>>
          /\ \/ /\ loadError' = TRUE
               /\ UNCHANGED <<companies, appointments>>
            \/ /\ companies' = load.n /\ appointments' \in Agendas
               /\ UNCHANGED loadError
    BY <1>2 DEF LoadEnds, LoadFails, LoadSucceeds, SetLists
  <2>2. load.n \in 1 .. MaxLoads /\ load.n # companies /\ load.n <= started
    BY <1>0 DEF CompanyTypeOK, LoadsNamed
  <2>3. CompanyTypeOK'
    <3>1. companies' \in 0..MaxLoads /\ appointments' \in Agendas
      BY <1>0, <2>1, <2>2 DEF CompanyTypeOK
    <3>2. loads' \subseteq [n : 1..MaxLoads, token : BOOLEAN]
      BY <1>0, <2>1 DEF CompanyTypeOK
    <3>3. isLoading' \in BOOLEAN /\ loadError' \in BOOLEAN
      BY <1>0, <2>1 DEF CompanyTypeOK
    <3>4. QED
      BY <1>0, <2>1, <3>1, <3>2, <3>3 DEF CompanyTypeOK
  <2>4. LoadsNamed'
    BY <1>0, <2>1, <2>2 DEF CompanyTypeOK, LoadsNamed
  <2>5. QuietMeansLoaded' /\ SpinnerHasLoad'
    BY <2>1, <2>2, <1>0 DEF QuietMeansLoaded, SpinnerHasLoad
  <2>6. companies' = companies => appointments' = appointments
    BY <2>1, <2>2
  <2>7. QED
    BY <2>3, <2>4, <2>5, <2>6
<1>3. QED
  BY <1>1, <1>2

(* The parts of the invariant about the company data and the feed, when a  *)
(* step leaves those alone.                                                *)
LEMMA FeedKept ==
  ASSUME DeskInv, UNCHANGED <<decisions, notificationFeed, guest>>
  PROVE  /\ FeedIsSequence' /\ guest' \in BOOLEAN /\ FeedTells'
         /\ decisions' \in [Invites -> Decisions \cup {"none"}]
         /\ ToSet(notificationFeed)' \subseteq [invite : Invites, decision : Decisions]
         /\ Len(notificationFeed') <= MaxFeed
  BY DEF DeskInv, FeedIsSequence, FeedTells, DeskTypeOK, ToSet

LEMMA CompanyKept ==
  ASSUME DeskInv, UNCHANGED companyVars
  PROVE  CompanyTypeOK' /\ LoadsNamed' /\ QuietMeansLoaded' /\ SpinnerHasLoad'
  BY DEF DeskInv, companyVars, CompanyTypeOK, LoadsNamed, QuietMeansLoaded,
         SpinnerHasLoad

(* A list that is merged from what is known now is fresh.                  *)
LEMMA MergedIsFresh ==
  ASSUME appointments' \in Agendas, guest' = guest,
         decisions' \in [Invites -> Decisions \cup {"none"}],
         deskList' = Merge(companies', appointments', decisions')
  PROVE  MemoIsFresh' /\ deskList'.rsvps \in Agendas
<1>1. deskList'.rsvps \in Agendas
  BY DEF Merge, Agendas, Decisions, Rsvps
<1>2. MemoIsFresh'
  BY DEF MemoIsFresh, Merge
<1>3. QED
  BY <1>1, <1>2

(* A fresh list says what the notifications say.                           *)
LEMMA FreshAgrees ==
  ASSUME DeskInv
  PROVE  PagesAgree
<1> SUFFICES ASSUME deskOpen, NEW i \in Invites,
                    appointments[i] # "null" \/ decisions[i] # "none"
             PROVE  deskList.rsvps[i] =
                      IF appointments[i] = "absent" THEN "absent" ELSE Status(i)
  BY DEF PagesAgree
<1>1. deskList = Merge(companies, appointments, decisions)
  BY DEF DeskInv, MemoIsFresh
<1>2. deskList.rsvps[i] = IF appointments[i] = "absent" \/ decisions[i] = "none"
                          THEN appointments[i] ELSE decisions[i]
  BY <1>1 DEF Merge
<1>3. QED
  BY <1>2 DEF Status

(* Opening, leaving and turning the desk.                                  *)
LEMMA DeskMoves ==
  ASSUME DeskInv,
         \/ OpenDesk \/ LeaveDesk
         \/ \E tab \in {"overview", "appointments", "companies"} : ChooseDeskTab(tab)
  PROVE  DeskInv'
<1>0. UNCHANGED <<decisions, notificationFeed, guest>> /\ UNCHANGED companyVars
  BY DEF OpenDesk, LeaveDesk, ChooseDeskTab
<1>1. UNCHANGED <<companies, appointments>>
  BY <1>0 DEF companyVars
<1>2. /\ deskTab' \in {"overview", "appointments", "companies"}
      /\ MemoIsFresh' /\ deskList'.rsvps \in Agendas
  <2>0. /\ appointments \in Agendas /\ guest \in BOOLEAN
        /\ decisions \in [Invites -> Decisions \cup {"none"}]
    BY DEF DeskInv, CompanyTypeOK, DeskTypeOK
  <2>1. CASE OpenDesk
    <3>1. deskList' = Merge(companies', appointments', decisions')
      BY <1>0, <1>1, <2>1 DEF OpenDesk
    <3>2. QED
      BY <1>0, <1>1, <2>0, <2>1, <3>1, MergedIsFresh DEF OpenDesk
  <2>2. CASE LeaveDesk
    <3>1. deskList'.rsvps \in Agendas
      BY <2>2 DEF LeaveDesk, NotShown, Merge, NoAgenda, Agendas
    <3>2. ~deskOpen' /\ deskTab' = "overview"
      BY <2>2 DEF LeaveDesk
    <3>3. QED
      BY <3>1, <3>2 DEF MemoIsFresh
  <2>3. CASE \E tab \in {"overview", "appointments", "companies"} : ChooseDeskTab(tab)
    <3>1. /\ UNCHANGED <<deskOpen, deskList>>
          /\ deskTab' \in {"overview", "appointments", "companies"}
      BY <2>3 DEF ChooseDeskTab
    <3>2. QED
      BY <1>0, <1>1, <3>1 DEF DeskInv, MemoIsFresh, DeskTypeOK, Merge
  <2>4. QED
    BY <2>1, <2>2, <2>3
<1>3. QED
  BY <1>0, <1>2, FeedKept, CompanyKept DEF DeskInv, DeskTypeOK

(* A load under an open or a closed desk: the memo follows every list that *)
(* changes.                                                                *)
LEMMA CompanyStepInv ==
  ASSUME DeskInv, CompanyStep
  PROVE  DeskInv'
<1>1. /\ CompanyTypeOK' /\ LoadsNamed' /\ QuietMeansLoaded' /\ SpinnerHasLoad'
      /\ companies' = companies => appointments' = appointments
  BY LoadStep DEF CompanyStep
<1>2. /\ UNCHANGED <<decisions, notificationFeed, guest, deskOpen, deskTab>>
      /\ MemoFollows
  BY DEF CompanyStep
<1>3. MemoIsFresh' /\ deskList'.rsvps \in Agendas
  <2>1. CASE deskOpen /\ companies' # companies
    <3>1. deskList' = Merge(companies', appointments', decisions')
      BY <1>2, <2>1 DEF MemoFollows
    <3>2. QED
      BY <1>1, <1>2, <3>1, MergedIsFresh DEF DeskInv, DeskTypeOK, CompanyTypeOK
  <2>2. CASE deskOpen /\ companies' = companies
    <3>1. deskList' = deskList /\ appointments' = appointments
      BY <1>1, <1>2, <2>2 DEF MemoFollows
    <3>2. QED
      BY <1>2, <2>2, <3>1 DEF DeskInv, MemoIsFresh, DeskTypeOK, Merge
  <2>3. CASE ~deskOpen
    BY <1>2, <2>3 DEF MemoFollows, DeskInv, MemoIsFresh, DeskTypeOK
  <2>4. QED
    BY <2>1, <2>2, <2>3
<1>4. QED
  BY <1>1, <1>2, <1>3, FeedKept DEF DeskInv, DeskTypeOK

-----------------------------------------------------------------------------
(* The buttons of both pages are there for open invitations only, although *)
(* the one page reads the hook and the other its own memo.                 *)
LEMMA AnswersOpenOnly ==
  ASSUME DeskInv, NEW i \in Invites, NEW decision \in Decisions,
         RespondInNotifications(i, decision) \/ RespondOnDesk(i, decision)
  PROVE  /\ decisions[i] = "none" /\ appointments[i] # "absent"
         /\ HandleDecision(i, decision)
<1>1. decisions[i] \in {"accepted", "declined", "none"}
  BY DEF DeskInv, DeskTypeOK, Decisions
<1>2. CASE RespondInNotifications(i, decision)
  BY <1>1, <1>2 DEF RespondInNotifications, Status
<1>3. CASE RespondOnDesk(i, decision)
  <2>1. deskOpen /\ deskList.rsvps[i] = "pending" /\ HandleDecision(i, decision)
    BY <1>3 DEF RespondOnDesk, PlannerShown
  <2>2. deskList = Merge(companies, appointments, decisions)
    BY <2>1 DEF DeskInv, MemoIsFresh
  <2>3. deskList.rsvps[i] = IF appointments[i] = "absent" \/ decisions[i] = "none"
                            THEN appointments[i] ELSE decisions[i]
    BY <2>2 DEF Merge
  <2>4. QED
    BY <1>1, <2>1, <2>3 DEF Decisions
<1>4. QED
  BY <1>2, <1>3

(* A feed that tells what was decided, and all of it while there is room,  *)
(* still does with the next answer at its head.                            *)
Tells(feed, decided) ==
  /\ \A k \in DOMAIN feed : decided[feed[k].invite] = feed[k].decision
  /\ \A j, k \in DOMAIN feed : feed[j].invite = feed[k].invite => j = k
  /\ Len(feed) < MaxFeed => \A x \in Invites : decided[x] # "none" =>
       \E k \in DOMAIN feed : feed[k].invite = x

Answers == [invite : Invites, decision : Decisions]


LEMMA TellsNext ==
  ASSUME NEW feed \in Seq(Answers), Len(feed) <= MaxFeed,
         NEW decided \in [Invites -> Decisions \cup {"none"}],
         NEW i \in Invites, decided[i] = "none", Tells(feed, decided),
         NEW e \in Answers, e.invite = i,
         NEW next \in Seq(Answers), Len(next) <= MaxFeed,
         Pushed(feed, e, next)
  PROVE  Tells(next, [decided EXCEPT ![i] = e.decision])
<1> DEFINE after == [decided EXCEPT ![i] = e.decision]
<1>0. MaxFeed \in Nat
  BY DeskAssumption
<1>1. /\ DOMAIN feed = 1 .. Len(feed) /\ Len(feed) \in Nat
      /\ DOMAIN next = 1 .. Len(next) /\ Len(next) \in Nat
      /\ \A k \in DOMAIN feed : k \in Nat /\ feed[k] \in Answers
      /\ \A k \in DOMAIN next : k \in Nat
  OBVIOUS
<1>2. ASSUME NEW k \in DOMAIN feed
      PROVE  feed[k].invite \in Invites /\ feed[k].decision \in Decisions
  <2>1. feed[k] \in Answers
    BY <1>1
  <2>2. QED
    BY <2>1 DEF Answers
<1>3. /\ \A x \in Invites : after[x] = IF x = i THEN e.decision ELSE decided[x]
      /\ e.decision \in Decisions
  BY DEF Answers
<1> HIDE DEF after
<1>4. ASSUME NEW k \in DOMAIN feed PROVE feed[k].invite # i
  <2>1. decided[feed[k].invite] = feed[k].decision
    BY DEF Tells
  <2>2. QED
    BY <1>2, <2>1 DEF Decisions
<1>5. ASSUME NEW k \in DOMAIN next PROVE after[next[k].invite] = next[k].decision
  <2>1. CASE k = 1
    BY <1>3, <2>1 DEF Pushed
  <2>2. CASE k # 1
    <3>1. k - 1 \in DOMAIN feed /\ next[k] = feed[k - 1]
      BY <2>2 DEF Pushed
    <3>2. decided[feed[k - 1].invite] = feed[k - 1].decision
      BY <3>1 DEF Tells
    <3>3. QED
      BY <1>2, <1>3, <1>4, <3>1, <3>2
  <2>3. QED
    BY <2>1, <2>2
<1>6. ASSUME NEW j \in DOMAIN next, NEW k \in DOMAIN next,
             next[j].invite = next[k].invite
      PROVE  j = k
  <2>1. j \in Nat /\ k \in Nat
    BY <1>1
  <2>2. ASSUME NEW n \in DOMAIN next, n # 1 PROVE next[n].invite # i
    <3>1. n - 1 \in DOMAIN feed /\ next[n] = feed[n - 1]
      BY <2>2 DEF Pushed
    <3>2. QED
      BY <1>4, <3>1
  <2>3. CASE j = 1 \/ k = 1
    <3>1. (j = 1 => next[j].invite = i) /\ (k = 1 => next[k].invite = i)
      BY DEF Pushed
    <3>2. QED
      BY <1>6, <2>2, <2>3, <3>1
  <2>4. CASE j # 1 /\ k # 1
    <3>1. /\ j - 1 \in DOMAIN feed /\ k - 1 \in DOMAIN feed
          /\ next[j] = feed[j - 1] /\ next[k] = feed[k - 1]
      BY <2>4 DEF Pushed
    <3>2. j - 1 = k - 1
      BY <1>6, <3>1 DEF Tells
    <3>3. QED
      BY <2>1, <3>2
  <2>5. QED
    BY <2>3, <2>4
<1>7. ASSUME Len(next) < MaxFeed, NEW x \in Invites, after[x] # "none"
      PROVE  \E k \in DOMAIN next : next[k].invite = x
  <2>1. Len(feed) < MaxFeed /\ Len(next) = Len(feed) + 1
    <3>1. /\ Len(feed) < MaxFeed => Len(next) = Len(feed) + 1
          /\ Len(feed) = MaxFeed => Len(next) = MaxFeed
      BY DEF Pushed
    <3>2. Len(feed) # MaxFeed
      BY <1>0, <1>7, <3>1
    <3>3. Len(feed) < MaxFeed
      <4>1. PICK n \in Nat, m \in Nat : n = Len(feed) /\ m = MaxFeed
        BY <1>0, <1>1
      <4>2. n <= m /\ n # m
        BY <1>1, <3>2, <4>1
      <4>3. QED
        BY <4>1, <4>2
    <3>4. QED
      BY <3>1, <3>3
  <2>2. DOMAIN next = 1 .. (Len(feed) + 1)
    BY <1>1, <2>1
  <2>3. CASE x = i
    <3>1. 1 \in DOMAIN next
      BY <1>1, <2>2
    <3>2. next[1].invite = x
      BY <2>3, <3>1 DEF Pushed
    <3>3. QED
      BY <3>1, <3>2
  <2>4. CASE x # i
    <3>1. decided[x] # "none"
      BY <1>3, <1>7, <2>4
    <3>2. PICK k \in DOMAIN feed : feed[k].invite = x
      BY <2>1, <3>1 DEF Tells
    <3>3. k \in Nat /\ k + 1 \in DOMAIN next /\ k + 1 # 1 /\ (k + 1) - 1 = k
      BY <1>1, <2>2
    <3>4. next[k + 1] = feed[k]
      BY <3>3 DEF Pushed
    <3>5. QED
      BY <3>2, <3>3, <3>4
  <2>5. QED
    BY <2>3, <2>4
<1>8. QED
  BY <1>5, <1>6, <1>7 DEF Tells, after

(* An answer is told at the head of the feed, and what was told stays true *)
(* as no invitation is answered twice.                                     *)
LEMMA AnswerTold ==
  ASSUME DeskInv, NEW i \in Invites, NEW decision \in Decisions,
         decisions[i] = "none",
         decisions' = [decisions EXCEPT ![i] = decision],
         notificationFeed' =
           Newest(<<[invite |-> i, decision |-> decision]>> \o notificationFeed)
  PROVE  /\ FeedIsSequence' /\ FeedTells'
         /\ ToSet(notificationFeed)' \subseteq [invite : Invites, decision : Decisions]
         /\ Len(notificationFeed') <= MaxFeed
<1>1. PICK e : e = [invite |-> i, decision |-> decision]
  OBVIOUS
<1>2. e \in Answers /\ e.invite = i /\ e.decision = decision
  BY <1>1 DEF Answers
<1>3. /\ notificationFeed \in Seq(Answers) /\ Len(notificationFeed) <= MaxFeed
      /\ decisions \in [Invites -> Decisions \cup {"none"}]
  BY DEF DeskInv, FeedIsSequence, DeskTypeOK, Answers
<1>4. Tells(notificationFeed, decisions)
  BY DEF DeskInv, FeedTells, IsInjective, Tells
<1>5. notificationFeed' = Newest(<<e>> \o notificationFeed)
  BY <1>1
<1>6. PICK next : next = Newest(<<e>> \o notificationFeed)
  OBVIOUS
<1>7. /\ next \in Seq(Answers) /\ Len(next) <= MaxFeed
      /\ Pushed(notificationFeed, e, next)
  BY <1>2, <1>3, <1>6, NewestPushed
<1>8. Tells(next, [decisions EXCEPT ![i] = e.decision])
  BY <1>2, <1>3, <1>4, <1>7, TellsNext
<1>9. notificationFeed' = next /\ Tells(notificationFeed', decisions')
  BY <1>2, <1>5, <1>6, <1>8
<1>10. FeedTells'
  BY <1>9 DEF FeedTells, IsInjective, Tells
<1>11. ToSet(notificationFeed)' \subseteq Answers
  BY <1>7, <1>9 DEF ToSet
<1>12. QED
  BY <1>7, <1>9, <1>10, <1>11 DEF FeedIsSequence, Answers

(* An answer, on either page.                                              *)
LEMMA AnswerInv ==
  ASSUME DeskInv, NEW i \in Invites, NEW decision \in Decisions,
         RespondInNotifications(i, decision) \/ RespondOnDesk(i, decision)
  PROVE  DeskInv'
<1>1. /\ decisions[i] = "none" /\ appointments[i] # "absent"
      /\ HandleDecision(i, decision)
  BY AnswersOpenOnly
<1>2. /\ decisions' = [decisions EXCEPT ![i] = decision]
      /\ notificationFeed' =
           Newest(<<[invite |-> i, decision |-> decision]>> \o notificationFeed)
      /\ UNCHANGED <<guest, deskOpen, deskTab, companies, appointments>>
      /\ UNCHANGED companyVars
      /\ MemoFollows
  BY <1>1 DEF HandleDecision, companyVars
<1>3. /\ FeedIsSequence' /\ FeedTells'
      /\ ToSet(notificationFeed)' \subseteq [invite : Invites, decision : Decisions]
      /\ Len(notificationFeed') <= MaxFeed
  BY <1>1, <1>2, AnswerTold
<1>4. decisions' \in [Invites -> Decisions \cup {"none"}] /\ decisions' # decisions
  <2>1. decisions \in [Invites -> Decisions \cup {"none"}] /\ decision # "none"
    BY DEF DeskInv, DeskTypeOK, Decisions
  <2>2. decisions'[i] = decision
    BY <1>2, <2>1
  <2>3. QED
    BY <1>1, <1>2, <2>1, <2>2
<1>5. MemoIsFresh' /\ deskList'.rsvps \in Agendas
  <2>1. CASE deskOpen
    <3>1. deskList' = Merge(companies', appointments', decisions')
      BY <1>2, <1>4, <2>1 DEF MemoFollows
    <3>2. QED
      BY <1>2, <1>4, <3>1, MergedIsFresh DEF DeskInv, CompanyTypeOK
  <2>2. CASE ~deskOpen
    BY <1>2, <2>2 DEF MemoFollows, DeskInv, MemoIsFresh, DeskTypeOK
  <2>3. QED
    BY <2>1, <2>2
<1>6. QED
  BY <1>2, <1>3, <1>4, <1>5, CompanyKept DEF DeskInv, DeskTypeOK

(* Every step keeps the invariant.                                         *)
LEMMA DeskStepInv ==
  DeskInv /\ [DeskNext]_<<deskVars, companyVars, plannerVars>> => DeskInv'
<1> SUFFICES ASSUME DeskInv, [DeskNext]_<<deskVars, companyVars, plannerVars>>
             PROVE  DeskInv'
  OBVIOUS
<1>1. CASE \/ OpenDesk \/ LeaveDesk
           \/ \E tab \in {"overview", "appointments", "companies"} : ChooseDeskTab(tab)
  BY <1>1, DeskMoves
<1>2. CASE CompanyStep
  BY <1>2, CompanyStepInv
<1>3. CASE \E i \in Invites, decision \in Decisions :
             RespondInNotifications(i, decision) \/ RespondOnDesk(i, decision)
  BY <1>3, AnswerInv
<1>4. CASE UNCHANGED <<deskVars, companyVars>>
  <2>1. UNCHANGED <<decisions, notificationFeed, guest, deskOpen, deskTab, deskList,
                    companies, appointments>> /\ UNCHANGED companyVars
    BY <1>4 DEF deskVars, companyVars
  <2>2. QED
    BY <2>1, FeedKept, CompanyKept DEF DeskInv, DeskTypeOK, MemoIsFresh, Merge
<1>5. QED
  BY <1>1, <1>2, <1>3, <1>4 DEF DeskNext, PlannerAlone

-----------------------------------------------------------------------------
(* The inductive invariant holds in every reachable state.                 *)
THEOREM DeskInvariance == DeskSpec => []DeskInv
  BY DeskInitInv, DeskStepInv, PTL DEF DeskSpec

(* The desk and the notifications agree on every invitation that has an    *)
(* rsvp or was answered, whatever loads and answers come between           *)
(* (MyDeskPanel.tsx, the memo of userAppointments, which is never stale).  *)
THEOREM BothPagesAgree == DeskSpec => [](MemoIsFresh /\ PagesAgree)
<1>1. DeskInv => MemoIsFresh /\ PagesAgree
  BY FreshAgrees DEF DeskInv
<1>2. QED
  BY <1>1, DeskInvariance, PTL

(* The feed tells every answer once, as it was given.                      *)
THEOREM FeedIsTrue == DeskSpec => []FeedTells
  BY DeskInvariance, PTL DEF DeskInv

(* A step answers one open invitation, or none.                            *)
LEMMA LedgerStep ==
  DeskInv /\ [DeskNext]_<<deskVars, companyVars, plannerVars>>
    => [Ledger!LedgerNext]_([i \in Invites |->
                              IF decisions[i] = "none" THEN "open" ELSE decisions[i]])
<1> SUFFICES ASSUME DeskInv, [DeskNext]_<<deskVars, companyVars, plannerVars>>,
                    decisions' # decisions
             PROVE  Ledger!LedgerNext
  OBVIOUS
<1>1. PICK i \in Invites, decision \in Decisions :
        RespondInNotifications(i, decision) \/ RespondOnDesk(i, decision)
  BY DEF DeskNext, OpenDesk, LeaveDesk, CompanyStep, ChooseDeskTab, PlannerAlone,
         deskVars
<1>2. decisions[i] = "none" /\ decisions' = [decisions EXCEPT ![i] = decision]
  BY <1>1, AnswersOpenOnly DEF HandleDecision
<1>3. decisions \in [Invites -> Decisions \cup {"none"}] /\ decision # "none"
  BY DEF DeskInv, DeskTypeOK, Decisions
<1>4. Ledger!Answer(i, decision)
  BY <1>2, <1>3 DEF Ledger!Answer
<1>5. decision \in Ledger!Answers
  BY DEF Ledger!Answers, Decisions
<1>6. QED
  BY <1>4, <1>5 DEF Ledger!LedgerNext

(* The two pages and the loads implement the ledger of invitations: each   *)
(* is answered at most once, and its answer stays.                         *)
THEOREM LedgerRefinement == DeskSpec => ImplementsInviteLedger
<1>1. DeskInit => Ledger!LedgerInit
  BY DEF DeskInit, Ledger!LedgerInit
<1>2. QED
  BY <1>1, LedgerStep, DeskInvariance, PTL
  DEF DeskSpec, ImplementsInviteLedger, Ledger!LedgerSpec
-----------------------------------------------------------------------------

(***************************************************************************)
(* The planner.                                                            *)
(***************************************************************************)

(* The items of a day: no two of them have one id.                         *)
OfOneDay(items) ==
  /\ items \in Seq(Items)
  /\ \A i, j \in 1..Len(items) : items[i].id = items[j].id => i = j

LEMMA ItemTimes ==
  ASSUME NEW item \in Items
  PROVE  /\ StartOf(item) \in Nat /\ StartOf(item) < Slots
         /\ EndOf(item) \in Nat /\ StartOf(item) < EndOf(item)
BY PlannerAssumption DEF Items, StartOf, EndOf, Times, NoTime

-----------------------------------------------------------------------------
(* Sorting.  The ranks of the items are 1 to their number, each once.      *)
LEMMA RanksDiffer ==
  ASSUME NEW items \in Seq(Items), NEW i \in 1..Len(items), NEW j \in 1..Len(items)
  PROVE  /\ Rank(items, i) \in 1..Len(items)
         /\ i # j /\ Before(items, i, j) => Rank(items, i) < Rank(items, j)
         /\ Before(items, i, j) \/ Before(items, j, i)
<1> DEFINE n == Len(items)
           S(k) == StartOf(items[k])
           Below(k) == {x \in 1..n : Before(items, x, k)}
<1>1. n \in Nat /\ DOMAIN items = 1..n /\ \A k \in 1..n : S(k) \in Nat
  <2>1. \A k \in 1..n : items[k] \in Items
    OBVIOUS
  <2>2. QED
    BY <2>1, ItemTimes
<1>2. \A x, y \in 1..n : Before(items, x, y) <=> S(x) < S(y) \/ (S(x) = S(y) /\ x <= y)
  BY DEF Before
<1>3. i \in 1..n /\ j \in 1..n
  OBVIOUS
<1>4. \A k \in 1..n : Rank(items, k) = Cardinality(Below(k))
  BY <1>1 DEF Rank
<1> HIDE DEF n, S
<1>5. IsFiniteSet(1..n) /\ Cardinality(1..n) = n
  <2>1. 1 \in Int /\ n \in Int
    BY <1>1
  <2>2. IsFiniteSet(1..n) /\ Cardinality(1..n) = IF 1 > n THEN 0 ELSE n - 1 + 1
    BY <2>1, FS_Interval
  <2>3. QED
    BY <1>1, <2>2
<1>6. ASSUME NEW k \in 1..n
      PROVE  /\ IsFiniteSet(Below(k)) /\ Cardinality(Below(k)) \in Nat
             /\ Cardinality(Below(k)) <= n /\ Cardinality(Below(k)) # 0
  <2>1. Below(k) \in SUBSET (1..n)
    OBVIOUS
  <2>2. k \in Below(k)
    BY <1>1, <1>2
  <2> HIDE DEF Below
  <2>3. IsFiniteSet(Below(k)) /\ Cardinality(Below(k)) <= n
    BY <1>5, <2>1, FS_Subset
  <2>4. Cardinality(Below(k)) \in Nat
    BY <2>3, FS_CardinalityType
  <2>5. Cardinality(Below(k)) # 0
    BY <2>2, <2>3, FS_EmptySet
  <2>6. QED
    BY <2>3, <2>4, <2>5
<1>7. Rank(items, i) \in 1..n
  <2> DEFINE c == Cardinality(Below(i))
  <2>1. Rank(items, i) = c /\ c \in Nat /\ c <= n /\ c # 0
    BY <1>3, <1>4, <1>6
  <2> HIDE DEF c
  <2>2. QED
    BY ONLY <1>1, <2>1
<1>8. ASSUME i # j, Before(items, i, j)
      PROVE  Rank(items, i) < Rank(items, j)
  <2>1. Below(i) \in SUBSET Below(j)
    BY <1>1, <1>2, <1>3, <1>8
  <2>2. j \in Below(j) /\ j \notin Below(i)
    BY <1>1, <1>2, <1>3, <1>8
  <2> HIDE DEF Below
  <2>3. Below(i) # Below(j)
    BY <2>2
  <2>4. /\ Cardinality(Below(i)) <= Cardinality(Below(j))
        /\ Cardinality(Below(i)) # Cardinality(Below(j))
    <3>1. IsFiniteSet(Below(j))
      BY <1>3, <1>6
    <3>2. QED
      BY <2>1, <2>3, <3>1, FS_Subset, Zenon
  <2>5. Cardinality(Below(i)) \in Nat /\ Cardinality(Below(j)) \in Nat
    BY <1>3, <1>6
  <2>6. Cardinality(Below(i)) < Cardinality(Below(j))
    BY <2>4, <2>5
  <2>7. QED
    BY <1>3, <1>4, <2>6
<1>9. Before(items, i, j) \/ Before(items, j, i)
  BY <1>1, <1>2, <1>3
<1>10. QED
  BY <1>7, <1>8, <1>9 DEF n

(* Sorted(items) is items in the order of p: one of each, by its start.    *)
Sorts(items, p) ==
  LET n == Len(items) IN
  /\ p \in [1..n -> 1..n]
  /\ \A k, l \in 1..n : p[k] = p[l] => k = l
  /\ \A i \in 1..n : \E k \in 1..n : p[k] = i
  /\ \A k, l \in 1..n : k <= l => StartOf(items[p[k]]) <= StartOf(items[p[l]])
  /\ Sorted(items) = [k \in 1..n |-> items[p[k]]]

LEMMA SortedIs ==
  ASSUME NEW items \in Seq(Items)
  PROVE  \E p : Sorts(items, p)
<1> DEFINE n == Len(items)
           R(i) == Rank(items, i)
           rank == [i \in 1..n |-> R(i)]
           p == [k \in 1..n |-> CHOOSE i \in 1..n : R(i) = k]
<1>1. n \in Nat /\ DOMAIN items = 1..n
  OBVIOUS
<1>2. /\ \A i \in 1..n : R(i) \in 1..n
      /\ \A i, j \in 1..n : /\ i # j /\ Before(items, i, j) => R(i) < R(j)
                            /\ Before(items, i, j) \/ Before(items, j, i)
  BY RanksDiffer
<1>3. Sorted(items) = [k \in 1..n |-> items[p[k]]]
  BY <1>1 DEF Sorted
<1>4. \A i, j \in 1..n : Before(items, i, j) => StartOf(items[i]) <= StartOf(items[j])
  <2>1. \A i \in 1..n : StartOf(items[i]) \in Nat
    <3>1. \A k \in 1..n : items[k] \in Items
      OBVIOUS
    <3>2. QED
      BY <3>1, ItemTimes
  <2>2. QED
    BY <2>1 DEF Before
<1> HIDE DEF n, R
<1>5. rank \in Injection(1..n, 1..n)
  <2>1. rank \in [1..n -> 1..n]
    BY <1>2
  <2>2. ASSUME NEW i \in 1..n, NEW j \in 1..n, rank[i] = rank[j]
        PROVE  i = j
    <3>1. R(i) = R(j) /\ R(i) \in Int /\ R(j) \in Int
      BY <1>2, <2>2
    <3>2. QED
      BY <1>2, <3>1
  <2>3. QED
    BY <2>1, <2>2 DEF Injection, IsInjective
<1>6. rank \in Surjection(1..n, 1..n)
  <2>1. IsFiniteSet(1..n)
    BY <1>1, FS_Interval
  <2> HIDE DEF rank
  <2>2. QED
    BY <1>5, <2>1, FS_Injection
<1>7. \A k \in 1..n : \E i \in 1..n : R(i) = k
  BY <1>6 DEF Surjection
<1>8. \A k \in 1..n : p[k] \in 1..n /\ R(p[k]) = k
  BY <1>7
<1>9. p \in [1..n -> 1..n]
  BY <1>8
<1> HIDE DEF p
<1>10. \A k, l \in 1..n : p[k] = p[l] => k = l
  BY <1>8
<1>11. ASSUME NEW i \in 1..n
       PROVE  \E k \in 1..n : p[k] = i
  <2>1. R(i) \in 1..n
    BY <1>2
  <2>2. p[R(i)] \in 1..n /\ R(p[R(i)]) = R(i)
    BY <1>8, <2>1
  <2>3. p[R(i)] = i
    <3> DEFINE j == p[R(i)]
    <3>1. rank[j] = rank[i] /\ j \in 1..n
      BY <2>2
    <3> HIDE DEF j, rank
    <3>2. j = i
      BY <1>5, <3>1 DEF Injection, IsInjective
    <3>3. QED
      BY <3>2 DEF j
  <2>4. QED
    BY <2>1, <2>3
<1>12. ASSUME NEW k \in 1..n, NEW l \in 1..n, k <= l
       PROVE  StartOf(items[p[k]]) <= StartOf(items[p[l]])
  <2>1. p[k] \in 1..n /\ p[l] \in 1..n /\ R(p[k]) = k /\ R(p[l]) = l
    BY <1>8
  <2>2. CASE k = l
    <3>1. p[k] = p[l] /\ (Before(items, p[k], p[l]) \/ Before(items, p[l], p[k]))
      BY <1>2, <2>1, <2>2
    <3>2. QED
      BY <1>4, <2>1, <3>1
  <2>3. CASE k # l
    <3>1. ~(l < k)
      BY <1>1, <1>12
    <3>2. ~Before(items, p[l], p[k])
      BY <1>2, <2>1, <2>3, <3>1
    <3>3. Before(items, p[k], p[l])
      BY <1>2, <2>1, <3>2
    <3>4. QED
      BY <1>4, <2>1, <3>3
  <2>4. QED
    BY <2>2, <2>3
<1>13. Sorts(items, p)
  BY <1>3, <1>9, <1>10, <1>11, <1>12 DEF Sorts, n
<1>14. QED
  BY <1>13
-----------------------------------------------------------------------------
(* The greedy pass.                                                        *)
LaneStates == [ends : Seq(Nat), lanes : Seq(Nat)]

(* The item goes to the first lane that is free, or to a new one.          *)
LEMMA PlaceIs ==
  ASSUME NEW laid \in LaneStates, NEW item \in Items
  PROVE  \E l \in Nat, ends \in Seq(Nat) :
           /\ Place(laid, item) = [ends |-> ends, lanes |-> Append(laid.lanes, l)]
           /\ l \in 1..Len(ends) /\ ends[l] = EndOf(item)
           /\ \/ Len(ends) = Len(laid.ends) /\ laid.ends[l] <= StartOf(item)
              \/ Len(ends) = Len(laid.ends) + 1 /\ l = Len(ends)
           /\ \A m \in 1..Len(laid.ends) : m # l => ends[m] = laid.ends[m]
           /\ \A m \in 1..(l - 1) : m <= Len(laid.ends) /\ laid.ends[m] > StartOf(item)
<1> DEFINE old == laid.ends
           free == FreeLanes(old, item)
           s == StartOf(item)
           e == EndOf(item)
<1>1. old \in Seq(Nat) /\ Len(old) \in Nat /\ DOMAIN old = 1..Len(old)
  BY DEF LaneStates
<1>2. s \in Nat /\ e \in Nat
  BY ItemTimes
<1>3. free = {m \in 1..Len(old) : old[m] <= s}
  BY <1>1 DEF FreeLanes
<1>4. \A m \in 1..Len(old) : old[m] \in Nat
  BY <1>1
<1> HIDE DEF free, old, s, e
<1>5. CASE free = {}
  <2> DEFINE l == Len(old) + 1
             ends == Append(old, e)
  <2>1. Place(laid, item) = [ends |-> ends, lanes |-> Append(laid.lanes, l)]
    BY <1>5 DEF Place, free, old, e
  <2>2. /\ ends \in Seq(Nat) /\ Len(ends) = l /\ ends[l] = e
        /\ \A m \in 1..Len(old) : ends[m] = old[m]
    BY ONLY <1>1, <1>2
  <2> HIDE DEF ends
  <2>3. l \in Nat /\ l \in 1..Len(ends)
    BY <1>1, <2>2
  <2>4. \A m \in 1..(l - 1) : m <= Len(old) /\ old[m] > s
    BY <1>1, <1>2, <1>3, <1>4, <1>5
  <2> HIDE DEF l
  <2>5. Len(ends) = Len(old) + 1
    BY <2>2 DEF l
  <2>6. QED
    BY <2>1, <2>2, <2>3, <2>4, <2>5, Zenon DEF s, e, old
<1>6. CASE free # {}
  <2> DEFINE l == Min(free)
             ends == [old EXCEPT ![l] = e]
  <2>1. Place(laid, item) = [ends |-> ends, lanes |-> Append(laid.lanes, l)]
    BY <1>6 DEF Place, free, old, e
  <2>2. l \in free /\ \A m \in free : l <= m
    <3>1. free \in SUBSET Nat
      BY <1>3
    <3>2. QED
      BY <1>6, <3>1, LeastNat
  <2> HIDE DEF l
  <2>3. l \in Nat /\ l \in 1..Len(old) /\ old[l] <= s
    BY <1>3, <2>2
  <2>4. /\ ends \in Seq(Nat) /\ Len(ends) = Len(old) /\ ends[l] = e
        /\ \A m \in 1..Len(old) : m # l => ends[m] = old[m]
    BY ONLY <1>1, <1>2, <2>3
  <2> HIDE DEF ends
  <2>5. \A m \in 1..(l - 1) : m <= Len(old) /\ old[m] > s
    BY <1>1, <1>2, <1>3, <1>4, <2>2, <2>3
  <2>6. l \in 1..Len(ends)
    BY <2>3, <2>4
  <2>7. QED
    BY <2>1, <2>3, <2>4, <2>5, <2>6, Zenon DEF s, e, old
<1>7. QED
  BY <1>5, <1>6

LEMMA PlaceTypes ==
  ASSUME NEW laid \in LaneStates, NEW item \in Items
  PROVE  Place(laid, item) \in LaneStates
<1>1. PICK l \in Nat, ends \in Seq(Nat) :
        Place(laid, item) = [ends |-> ends, lanes |-> Append(laid.lanes, l)]
  BY PlaceIs
<1>2. Append(laid.lanes, l) \in Seq(Nat)
  BY DEF LaneStates
<1>3. QED
  BY <1>1, <1>2 DEF LaneStates

(* The lanes of the first n items: those of one lane follow one another,   *)
(* its end is that of the last, and an item in lane c runs, as it starts,  *)
(* beside one in each lane before c.                                       *)
LaidWell(sorted, n, laid) ==
  LET lanes == laid.lanes
      ends  == laid.ends
  IN /\ laid \in LaneStates /\ Len(lanes) = n
     /\ \A i \in 1..n : lanes[i] \in 1..Len(ends) /\ EndOf(sorted[i]) <= ends[lanes[i]]
     /\ \A i, j \in 1..n : i < j /\ lanes[i] = lanes[j] => EndOf(sorted[i]) <= StartOf(sorted[j])
     /\ \A l \in 1..Len(ends) : \E i \in 1..n : lanes[i] = l /\ ends[l] = EndOf(sorted[i])
     /\ \A i \in 1..n : \A c \in 1..lanes[i] :
          \E j \in 1..i : lanes[j] = c /\ StartOf(sorted[i]) < EndOf(sorted[j])

LEMMA PlaceKeeps ==
  ASSUME NEW sorted \in Seq(Items), NEW n \in Nat, n + 1 <= Len(sorted),
         NEW laid, LaidWell(sorted, n, laid)
  PROVE  LaidWell(sorted, n + 1, Place(laid, sorted[n + 1]))
<1> DEFINE N == n + 1
           x == sorted[N]
           S(i) == StartOf(sorted[i])
           E(i) == EndOf(sorted[i])
           lanes == laid.lanes
           ends == laid.ends
           next == Place(laid, x)
<1>1. /\ laid \in LaneStates /\ Len(lanes) = n
      /\ \A i \in 1..n : lanes[i] \in 1..Len(ends) /\ E(i) <= ends[lanes[i]]
      /\ \A i, j \in 1..n : i < j /\ lanes[i] = lanes[j] => E(i) <= S(j)
      /\ \A l \in 1..Len(ends) : \E i \in 1..n : lanes[i] = l /\ ends[l] = E(i)
      /\ \A i \in 1..n : \A c \in 1..lanes[i] : \E j \in 1..i : lanes[j] = c /\ S(i) < E(j)
  BY DEF LaidWell
<1>2. \A i \in 1..N : S(i) \in Nat /\ E(i) \in Nat /\ S(i) < E(i)
  <2>1. \A i \in 1..N : sorted[i] \in Items
    OBVIOUS
  <2>2. QED
    BY <2>1, ItemTimes
<1>3. x \in Items /\ StartOf(x) = S(N) /\ EndOf(x) = E(N)
  OBVIOUS
<1>4. N \in Nat /\ N = n + 1 /\ n \in Nat
  OBVIOUS
<1>5. lanes \in Seq(Nat) /\ ends \in Seq(Nat) /\ Len(ends) \in Nat
      /\ \A m \in 1..Len(ends) : ends[m] \in Nat
  BY <1>1 DEF LaneStates
<1>6. PICK l \in Nat, after \in Seq(Nat) :
        /\ next = [ends |-> after, lanes |-> Append(lanes, l)]
        /\ l \in 1..Len(after) /\ after[l] = E(N)
        /\ \/ Len(after) = Len(ends) /\ ends[l] <= S(N)
           \/ Len(after) = Len(ends) + 1 /\ l = Len(after)
        /\ \A m \in 1..Len(ends) : m # l => after[m] = ends[m]
        /\ \A m \in 1..(l - 1) : m <= Len(ends) /\ ends[m] > S(N)
  BY <1>1, <1>3, PlaceIs
<1>7. next \in LaneStates
  BY <1>1, <1>3, PlaceTypes
<1> DEFINE new == Append(lanes, l)
<1>8. /\ Len(new) = N /\ new[N] = l /\ \A i \in 1..n : new[i] = lanes[i]
  BY ONLY <1>1, <1>4, <1>5
<1>9. next.ends = after /\ next.lanes = new
  BY <1>6
<1>10. Len(after) \in Nat
  OBVIOUS
<1> HIDE DEF N, x, S, E, lanes, ends, next, new
<1>11. /\ \A i \in 1..N : i \in 1..n \/ i = N
       /\ \A m \in 1..Len(ends) : m \in 1..Len(after)
       /\ l \in 1..Len(ends) => ends[l] <= S(N)
  <2>1. /\ \/ Len(after) = Len(ends) /\ ends[l] <= S(N)
           \/ Len(after) = Len(ends) + 1 /\ l = Len(after)
        /\ Len(ends) \in Nat /\ Len(after) \in Nat
    BY <1>5, <1>6, <1>10
  <2>2. QED
    BY ONLY <1>4, <2>1
<1>12. ASSUME NEW i \in 1..N
       PROVE  new[i] \in 1..Len(after) /\ E(i) <= after[new[i]]
  <2>1. CASE i = N
    BY ONLY <1>2, <1>4, <1>6, <1>8, <2>1
  <2>2. CASE i \in 1..n
    <3>1. new[i] = lanes[i] /\ lanes[i] \in 1..Len(ends) /\ E(i) <= ends[lanes[i]]
      BY <1>1, <1>8, <2>2
    <3>2. new[i] \in 1..Len(after)
      BY <1>11, <3>1
    <3>3. CASE lanes[i] # l
      BY <1>6, <3>1, <3>2, <3>3
    <3>4. CASE lanes[i] = l
      <4>1. ends[l] <= S(N) /\ ends[l] \in Nat
        BY <1>5, <1>11, <3>1, <3>4
      <4>2. E(i) \in Nat /\ S(N) \in Nat /\ E(N) \in Nat /\ S(N) < E(N)
        BY <1>2, <1>4
      <4>3. E(i) <= E(N)
        BY ONLY <3>1, <3>4, <4>1, <4>2
      <4>4. QED
        BY <1>6, <3>1, <3>2, <3>4, <4>3
    <3>5. QED
      BY <3>3, <3>4
  <2>3. QED
    BY <1>11, <2>1, <2>2
<1>13. ASSUME NEW i \in 1..N, NEW j \in 1..N, i < j, new[i] = new[j]
       PROVE  E(i) <= S(j)
  <2>1. i \in 1..n
    BY <1>4, <1>13
  <2>2. CASE j \in 1..n
    BY <1>1, <1>8, <1>13, <2>1, <2>2
  <2>3. CASE j = N
    <3>1. lanes[i] = l /\ lanes[i] \in 1..Len(ends) /\ E(i) <= ends[lanes[i]]
      BY <1>1, <1>8, <1>13, <2>1, <2>3
    <3>2. ends[l] <= S(N) /\ ends[l] \in Nat
      BY <1>5, <1>11, <3>1
    <3>3. E(i) \in Nat /\ S(N) \in Nat
      BY <1>2, <1>4
    <3>4. E(i) <= S(N)
      BY ONLY <3>1, <3>2, <3>3
    <3>5. QED
      BY <2>3, <3>4
  <2>4. QED
    BY <1>11, <2>2, <2>3
<1>14. ASSUME NEW m \in 1..Len(after)
       PROVE  \E i \in 1..N : new[i] = m /\ after[m] = E(i)
  <2>1. CASE m = l
    <3>1. N \in 1..N
      BY <1>4
    <3>2. QED
      BY <1>6, <1>8, <2>1, <3>1
  <2>2. CASE m # l
    <3>1. m \in 1..Len(ends)
      BY <1>5, <1>6, <1>10, <2>2
    <3>2. PICK i \in 1..n : lanes[i] = m /\ ends[m] = E(i)
      BY <1>1, <3>1
    <3>3. i \in 1..N /\ new[i] = m /\ after[m] = E(i)
      BY <1>4, <1>6, <1>8, <2>2, <3>1, <3>2
    <3>4. QED
      BY <3>3
  <2>3. QED
    BY <2>1, <2>2
<1>15. ASSUME NEW i \in 1..N, NEW c \in 1..new[i]
       PROVE  \E j \in 1..i : new[j] = c /\ S(i) < E(j)
  <2>1. CASE i \in 1..n
    <3>1. c \in 1..lanes[i]
      BY <1>8, <2>1
    <3>2. PICK j \in 1..i : lanes[j] = c /\ S(i) < E(j)
      BY <1>1, <2>1, <3>1
    <3>3. j \in 1..n
      BY <1>4, <2>1
    <3>4. QED
      BY <1>8, <3>2, <3>3
  <2>2. CASE i = N /\ c = l
    <3>1. N \in 1..i /\ new[N] = c /\ S(i) < E(N)
      BY <1>2, <1>4, <1>8, <2>2
    <3>2. QED
      BY <3>1
  <2>3. CASE i = N /\ c # l
    <3>1. c \in 1..(l - 1)
      BY <1>8, <2>3
    <3>2. c \in 1..Len(ends) /\ ends[c] > S(N)
      BY <1>5, <1>6, <3>1
    <3>3. PICK j \in 1..n : lanes[j] = c /\ ends[c] = E(j)
      BY <1>1, <3>2
    <3>4. j \in 1..i /\ j \in 1..N
      BY <1>4, <2>3
    <3>5. S(N) < E(j)
      <4>1. S(N) \in Nat /\ E(j) \in Nat
        BY <1>2, <1>4, <3>4
      <4>2. QED
        BY ONLY <3>2, <3>3, <4>1
    <3>6. new[j] = c
      BY <1>8, <3>3
    <3>7. QED
      BY <2>3, <3>4, <3>5, <3>6
  <2>4. QED
    BY <1>11, <2>1, <2>2, <2>3
<1>16. LaidWell(sorted, N, next)
  <2>1. next \in LaneStates /\ Len(next.lanes) = N
    BY <1>7, <1>8, <1>9
  <2>2. \A i \in 1..N : /\ next.lanes[i] \in 1..Len(next.ends)
                       /\ E(i) <= next.ends[next.lanes[i]]
    BY <1>9, <1>12
  <2>3. \A i, j \in 1..N : i < j /\ next.lanes[i] = next.lanes[j] => E(i) <= S(j)
    BY <1>9, <1>13
  <2>4. \A m \in 1..Len(next.ends) :
          \E i \in 1..N : next.lanes[i] = m /\ next.ends[m] = E(i)
    BY <1>9, <1>14
  <2>5. \A i \in 1..N : \A c \in 1..next.lanes[i] :
          \E j \in 1..i : next.lanes[j] = c /\ S(i) < E(j)
    BY <1>9, <1>15
  <2>6. QED
    BY ONLY <2>1, <2>2, <2>3, <2>4, <2>5, Zenon DEF LaidWell, S, E
<1>17. QED
  BY <1>16 DEF N, next, x

(* What the definition of Laid says of one prefix and the next.            *)
LEMMA LaidUnfolds ==
  ASSUME NEW sorted \in Seq(Items)
  PROVE  /\ Laid(sorted)[0] = [ends |-> <<>>, lanes |-> <<>>]
         /\ \A n \in 1..Len(sorted) :
              Laid(sorted)[n] = Place(Laid(sorted)[n - 1], sorted[n])
<1> DEFINE m == Len(sorted)
           S == LaneStates
           base == [ends |-> <<>>, lanes |-> <<>>]
           step == [x \in (1..m) \X S |-> Place(x[2], sorted[x[1]])]
           Unfolds(g) ==
             g = [n \in 0..m |-> IF n = 0 THEN base ELSE Place(g[n - 1], sorted[n])]
           laid == Laid(sorted)
<1>1. m \in Nat /\ \A n \in 1..m : sorted[n] \in Items
  OBVIOUS
<1>2. base \in S
  BY DEF LaneStates
<1> HIDE DEF m, S, base
<1>3. step \in [(1..m) \X S -> S]
  <2>1. \A g \in S, item \in Items : Place(g, item) \in S
    BY PlaceTypes DEF S
  <2>2. \A x \in (1..m) \X S : x[1] \in 1..m /\ x[2] \in S
    OBVIOUS
  <2>3. \A x \in (1..m) \X S : Place(x[2], sorted[x[1]]) \in S
    BY <1>1, <2>1, <2>2
  <2>4. QED
    BY <2>3
<1>4. PICK g : FollowsSteps(S, base, m, step, g)
  <2>1. StepFunction(S, base, m, step)
    BY <1>1, <1>2, <1>3 DEF StepFunction
  <2> HIDE DEF step
  <2>2. QED
    BY ONLY <2>1, RecursionExists
<1> USE DEF FollowsSteps
<1>5. ASSUME NEW n \in 0..m
      PROVE  g[n] = IF n = 0 THEN base ELSE Place(g[n - 1], sorted[n])
  <2>1. CASE n = 0
    BY <1>4, <2>1
  <2>2. CASE n # 0
    <3>1. n \in 1..m /\ n - 1 \in 0..m
      BY <1>1, <2>2
    <3>2. <<n, g[n - 1]>> \in (1..m) \X S
      BY <1>4, <3>1
    <3>3. step[<<n, g[n - 1]>>] = Place(g[n - 1], sorted[n])
      BY <3>2
    <3> HIDE DEF step
    <3>4. QED
      BY <1>4, <2>2, <3>1, <3>3
  <2>3. QED
    BY <2>1, <2>2
<1> HIDE DEF step
<1>6. Unfolds(g)
  BY <1>4, <1>5
<1>7. laid = CHOOSE h : Unfolds(h)
  BY DEF Laid, m, base
<1> HIDE DEF laid
<1>8. Unfolds(laid)
  <2> HIDE DEF Unfolds
  <2>1. QED
    BY <1>6, <1>7, Zenon
<1>9. \A n \in 0..m : laid[n] = IF n = 0 THEN base ELSE Place(laid[n - 1], sorted[n])
  BY <1>8
<1> HIDE DEF Unfolds
<1>10. 0 \in 0..m /\ \A n \in 1..m : n \in 0..m /\ n # 0
  BY <1>1
<1>11. QED
  BY <1>9, <1>10 DEF laid, m, base

LEMMA LanesAre ==
  ASSUME NEW sorted \in Seq(Items)
  PROVE  \E laid : LaidWell(sorted, Len(sorted), laid) /\ laid.lanes = Lanes(sorted)
<1> DEFINE m == Len(sorted)
           L(n) == Laid(sorted)[n]
           T == {n \in Nat : n <= m => LaidWell(sorted, n, L(n))}
<1>1. m \in Nat
  OBVIOUS
<1>2. 0 \in T
  <2> DEFINE base == [ends |-> <<>>, lanes |-> <<>>]
  <2>1. L(0) = base
    BY LaidUnfolds
  <2>2. base \in LaneStates /\ Len(base.lanes) = 0 /\ Len(base.ends) = 0
    BY DEF LaneStates
  <2> HIDE DEF base, L
  <2>3. LaidWell(sorted, 0, base)
    BY <2>2 DEF LaidWell
  <2>4. QED
    BY <2>1, <2>3
<1>3. ASSUME NEW n \in Nat, n \in T
      PROVE  n + 1 \in T
  <2> SUFFICES ASSUME n + 1 <= m
               PROVE  LaidWell(sorted, n + 1, L(n + 1))
    OBVIOUS
  <2>1. n <= m /\ n + 1 \in 1..m /\ (n + 1) - 1 = n
    BY <1>1
  <2>2. L(n + 1) = Place(L(n), sorted[n + 1])
    BY <2>1, LaidUnfolds
  <2>3. LaidWell(sorted, n, L(n))
    BY <1>3, <2>1
  <2> HIDE DEF L
  <2>4. QED
    BY <2>2, <2>3, PlaceKeeps
<1> HIDE DEF T
<1>4. \A n \in Nat : n \in T
  BY <1>2, <1>3, SetInduction
<1>5. LaidWell(sorted, m, L(m))
  BY <1>1, <1>4 DEF T
<1>6. L(m).lanes = Lanes(sorted)
  BY DEF Lanes
<1>7. QED
  BY <1>5, <1>6
-----------------------------------------------------------------------------
(* The clusters.                                                           *)

(* An item joins the one before it while an item before it still runs.     *)
Joins(sorted, k) ==
  k > 1 /\ \E i \in 1..(k - 1) : StartOf(sorted[k]) < EndOf(sorted[i])

LEMMA ClustersUnfold ==
  ASSUME NEW sorted \in Seq(Items)
  PROVE  \A k \in 1..Len(sorted) :
           Clusters(sorted)[k] = IF Joins(sorted, k) THEN Clusters(sorted)[k - 1] ELSE k
<1> DEFINE m == Len(sorted)
           J(k) == Joins(sorted, k)
           step == [x \in (1..m) \X Nat |-> IF J(x[1]) THEN x[2] ELSE x[1]]
           Unfolds(g) == g = [k \in 1..m |-> IF J(k) THEN g[k - 1] ELSE k]
           root == Clusters(sorted)
<1>1. m \in Nat /\ DOMAIN sorted = 1..m
  OBVIOUS
<1>2. root = CHOOSE h : Unfolds(h)
  BY <1>1 DEF Clusters, Joins
<1>3. \A k \in 1..m : J(k) => k - 1 \in 1..m
  BY <1>1 DEF Joins
<1> HIDE DEF m, J
<1>4. step \in [(1..m) \X Nat -> Nat]
  OBVIOUS
<1>5. PICK f : FollowsSteps(Nat, 0, m, step, f)
  <2>1. StepFunction(Nat, 0, m, step)
    BY <1>1, <1>4 DEF StepFunction
  <2> HIDE DEF step
  <2>2. QED
    BY ONLY <2>1, RecursionExists
<1> DEFINE g == [k \in 1..m |-> f[k]]
<1>6. ASSUME NEW k \in 1..m
      PROVE  f[k] = IF J(k) THEN f[k - 1] ELSE k
  <2>1. k - 1 \in 0..m
    BY <1>1
  <2>2. f[k - 1] \in Nat /\ f[k] = step[<<k, f[k - 1]>>]
    BY <1>5, <2>1 DEF FollowsSteps
  <2>3. step[<<k, f[k - 1]>>] = IF J(k) THEN f[k - 1] ELSE k
    BY <2>2
  <2> HIDE DEF step
  <2>4. QED
    BY <2>2, <2>3
<1>7. \A k \in 1..m : (IF J(k) THEN f[k - 1] ELSE k) = (IF J(k) THEN g[k - 1] ELSE k)
  BY <1>3
<1>8. Unfolds(g)
  BY <1>6, <1>7
<1> HIDE DEF g, root
<1>9. Unfolds(root)
  <2> HIDE DEF Unfolds
  <2>1. QED
    BY <1>2, <1>8, Zenon
<1>10. \A k \in 1..m : root[k] = IF J(k) THEN root[k - 1] ELSE k
  BY <1>9
<1>11. QED
  BY <1>10 DEF root, m, J

(* Two items of which the earlier one runs when the later one starts are   *)
(* of one cluster, and so are all those between them.                      *)
LEMMA ClustersJoin ==
  ASSUME NEW sorted \in Seq(Items), NEW a \in 1..Len(sorted), NEW b \in 1..Len(sorted),
         \A k, l \in 1..Len(sorted) : k <= l => StartOf(sorted[k]) <= StartOf(sorted[l]),
         a <= b, StartOf(sorted[b]) < EndOf(sorted[a])
  PROVE  Clusters(sorted)[a] = Clusters(sorted)[b]
<1> DEFINE m == Len(sorted)
           root == Clusters(sorted)
           S(k) == StartOf(sorted[k])
           E(k) == EndOf(sorted[k])
           T == {d \in Nat : a + d <= b => root[a + d] = root[a]}
<1>1. m \in Nat /\ a \in 1..m /\ b \in 1..m
  OBVIOUS
<1>2. \A k \in 1..m : S(k) \in Nat /\ E(k) \in Nat
  <2>1. \A k \in 1..m : sorted[k] \in Items
    OBVIOUS
  <2>2. QED
    BY <2>1, ItemTimes
<1>3. ASSUME NEW k \in 1..m, a < k, k <= b
      PROVE  root[k] = root[k - 1]
  <2>1. S(k) <= S(b)
    BY <1>1, <1>3
  <2>2. S(b) < E(a) /\ S(k) \in Nat /\ S(b) \in Nat /\ E(a) \in Nat
    BY <1>1, <1>2
  <2> HIDE DEF S, E
  <2>3. S(k) < E(a)
    BY ONLY <2>1, <2>2
  <2>4. k > 1 /\ a \in 1..(k - 1)
    BY ONLY <1>1, <1>3
  <2>5. Joins(sorted, k)
    BY <2>3, <2>4 DEF Joins, S, E
  <2>6. QED
    BY <2>5, ClustersUnfold
<1> HIDE DEF m, root, S, E
<1>4. 0 \in T
  BY <1>1
<1>5. ASSUME NEW d \in Nat, d \in T
      PROVE  d + 1 \in T
  <2> SUFFICES ASSUME a + (d + 1) <= b
               PROVE  root[a + (d + 1)] = root[a]
    OBVIOUS
  <2>1. /\ a + (d + 1) \in 1..m /\ a < a + (d + 1) /\ (a + (d + 1)) - 1 = a + d
        /\ a + d <= b
    BY <1>1
  <2>2. root[a + (d + 1)] = root[a + d]
    BY <1>3, <2>1
  <2>3. QED
    BY <1>5, <2>1, <2>2
<1> HIDE DEF T
<1>6. \A d \in Nat : d \in T
  BY <1>4, <1>5, SetInduction
<1>7. b - a \in Nat /\ a + (b - a) = b /\ b <= b
  BY <1>1
<1>8. root[b] = root[a]
  <2> DEFINE d == b - a
  <2>1. d \in Nat /\ a + d = b /\ b <= b
    BY <1>7
  <2> HIDE DEF d
  <2>2. a + d <= b => root[a + d] = root[a]
    BY <1>6, <2>1 DEF T
  <2>3. QED
    BY <2>1, <2>2
<1>9. QED
  BY <1>8 DEF root
-----------------------------------------------------------------------------
(* The layout of a day.                                                    *)

(* The items in the order of p, their lanes and their clusters.            *)
Columns(lanes, root, n, r) == Max({lanes[k] : k \in {k \in 1..n : root[k] = r}})

LEMMA SortedItems ==
  ASSUME NEW items, OfOneDay(items), NEW p, Sorts(items, p)
  PROVE  /\ Sorted(items) \in Seq(Items) /\ Len(Sorted(items)) = Len(items)
         /\ \A k \in 1..Len(items) : p[k] \in 1..Len(items) /\ Sorted(items)[k] = items[p[k]]
         /\ \A k, l \in 1..Len(items) : Sorted(items)[k].id = Sorted(items)[l].id => k = l
         /\ \A k, l \in 1..Len(items) :
              k <= l => StartOf(Sorted(items)[k]) <= StartOf(Sorted(items)[l])
<1> DEFINE n == Len(items)
           sorted == Sorted(items)
<1>1. /\ items \in Seq(Items) /\ n \in Nat /\ \A i \in 1..n : items[i] \in Items
      /\ \A i, j \in 1..n : items[i].id = items[j].id => i = j
  BY DEF OfOneDay
<1>2. /\ p \in [1..n -> 1..n]
      /\ \A k, l \in 1..n : p[k] = p[l] => k = l
      /\ \A k, l \in 1..n : k <= l => StartOf(items[p[k]]) <= StartOf(items[p[l]])
      /\ sorted = [k \in 1..n |-> items[p[k]]]
  BY DEF Sorts
<1> HIDE DEF n, sorted
<1>3. \A k \in 1..n : p[k] \in 1..n /\ sorted[k] = items[p[k]]
  BY <1>2
<1>4. sorted \in Seq(Items) /\ Len(sorted) = n
  <2>1. sorted \in [1..n -> Items]
    BY <1>1, <1>2
  <2>2. QED
    BY ONLY <1>1, <2>1
<1>5. ASSUME NEW k \in 1..n, NEW l \in 1..n, sorted[k].id = sorted[l].id
      PROVE  k = l
  <2>1. items[p[k]].id = items[p[l]].id /\ p[k] \in 1..n /\ p[l] \in 1..n
    BY <1>3, <1>5
  <2>2. p[k] = p[l]
    BY <1>1, <2>1
  <2>3. QED
    BY <1>2, <2>2
<1>6. \A k, l \in 1..n : k <= l => StartOf(sorted[k]) <= StartOf(sorted[l])
  BY <1>2, <1>3
<1>7. QED
  BY <1>3, <1>4, <1>5, <1>6 DEF n, sorted

LEMMA LayoutIs ==
  ASSUME NEW items, OfOneDay(items), NEW p, Sorts(items, p), NEW k \in 1..Len(items)
  PROVE  LET sorted == Sorted(items)
             lanes  == Lanes(sorted)
             root   == Clusters(sorted)
         IN  ColumnLayout(items)[sorted[k].id] =
               [col |-> lanes[k], totalCols |-> Columns(lanes, root, Len(items), root[k])]
<1> DEFINE n == Len(items)
           sorted == Sorted(items)
           lanes == Lanes(sorted)
           root == Clusters(sorted)
           Cols(r) == Max({lanes[j] : j \in {j \in 1..n : root[j] = r}})
           Of(id) == CHOOSE j \in 1..n : sorted[j].id = id
<1>1. DOMAIN sorted = 1..n /\ \A i, j \in 1..n : sorted[i].id = sorted[j].id => i = j
  BY SortedItems
<1>2. ColumnLayout(items) =
        [id \in {sorted[j].id : j \in 1..n} |->
           [col |-> lanes[Of(id)], totalCols |-> Cols(root[Of(id)])]]
  BY <1>1 DEF ColumnLayout
<1>3. k \in 1..n
  OBVIOUS
<1>4. Of(sorted[k].id) = k
  BY <1>1, <1>3
<1>5. Cols(root[k]) = Columns(lanes, root, n, root[k])
  BY DEF Columns
<1> HIDE DEF n, sorted, lanes, root, Cols, Of
<1>6. sorted[k].id \in {sorted[j].id : j \in 1..n}
  BY <1>3
<1>7. ColumnLayout(items)[sorted[k].id] =
        [col |-> lanes[Of(sorted[k].id)], totalCols |-> Cols(root[Of(sorted[k].id)])]
  BY <1>2, <1>6
<1>8. QED
  BY <1>4, <1>5, <1>7 DEF n, sorted, lanes, root

(* The columns of a cluster are the lane of one of its items.              *)
LEMMA ColumnsAre ==
  ASSUME NEW n \in Nat, NEW lanes \in Seq(Nat), Len(lanes) = n, NEW m \in Nat,
         \A k \in 1..n : lanes[k] \in 1..m, NEW root, NEW k \in 1..n
  PROVE  /\ \E j \in 1..n : root[j] = root[k] /\ Columns(lanes, root, n, root[k]) = lanes[j]
         /\ lanes[k] <= Columns(lanes, root, n, root[k])
<1> DEFINE C == {lanes[j] : j \in {j \in 1..n : root[j] = root[k]}}
<1>1. C \in SUBSET (0..m) /\ C # {} /\ lanes[k] \in C
  OBVIOUS
<1>2. Columns(lanes, root, n, root[k]) = Max(C)
  BY DEF Columns
<1> HIDE DEF C
<1>3. Max(C) \in C /\ \A y \in C : Max(C) >= y
  BY <1>1, GreatestNat
<1>4. \E j \in 1..n : root[j] = root[k] /\ Max(C) = lanes[j]
  BY <1>3 DEF C
<1>5. lanes[k] <= Max(C)
  <2>1. Max(C) >= lanes[k] /\ Max(C) \in 0..m /\ lanes[k] \in 0..m
    BY <1>1, <1>3
  <2>2. QED
    BY ONLY <2>1
<1>6. QED
  BY <1>2, <1>4, <1>5

(* As the item of lane c starts, at least c items run.                     *)
LEMMA ManyRun ==
  ASSUME NEW items, OfOneDay(items), NEW p, Sorts(items, p),
         NEW k \in 1..Len(items), NEW laid,
         LaidWell(Sorted(items), Len(items), laid)
  PROVE  \E t \in 0..(2 * Slots) :
           Cardinality({i \in DOMAIN items : StartOf(items[i]) <= t /\ t < EndOf(items[i])})
             >= laid.lanes[k]
<1> DEFINE n == Len(items)
           sorted == Sorted(items)
           lanes == laid.lanes
           S(i) == StartOf(sorted[i])
           E(i) == EndOf(sorted[i])
           t == S(k)
           Runs == {i \in 1..n : StartOf(items[i]) <= t /\ t < EndOf(items[i])}
           f == [c \in 1..lanes[k] |->
                   p[CHOOSE j \in 1..k : lanes[j] = c /\ S(k) < E(j)]]
<1>1. /\ n \in Nat /\ k \in 1..n /\ DOMAIN items = 1..n
      /\ \A j \in 1..n : p[j] \in 1..n /\ sorted[j] = items[p[j]] /\ sorted[j] \in Items
      /\ \A i, j \in 1..n : i <= j => S(i) <= S(j)
  <2>1. items \in Seq(Items)
    BY DEF OfOneDay
  <2>2. /\ sorted \in Seq(Items) /\ Len(sorted) = n
        /\ \A j \in 1..n : p[j] \in 1..n /\ sorted[j] = items[p[j]]
        /\ \A i, j \in 1..n : i <= j => S(i) <= S(j)
    BY SortedItems
  <2>3. n \in Nat /\ k \in 1..n /\ DOMAIN items = 1..n
    BY <2>1
  <2>4. \A j \in 1..n : sorted[j] \in Items
    BY <2>2
  <2>5. QED
    BY <2>2, <2>3, <2>4
<1>2. \A i, j \in 1..n : p[i] = p[j] => i = j
  BY DEF Sorts
<1>3. \A c \in 1..lanes[k] : \E j \in 1..k : lanes[j] = c /\ S(k) < E(j)
  BY DEF LaidWell
<1>4. lanes[k] \in Nat
  BY <1>1 DEF LaidWell, LaneStates
<1>5. S(k) \in Nat /\ S(k) < Slots
  BY <1>1, ItemTimes
<1> DEFINE J(c) == CHOOSE j \in 1..k : lanes[j] = c /\ S(k) < E(j)
<1>6. \A c \in 1..lanes[k] : J(c) \in 1..k /\ lanes[J(c)] = c /\ S(k) < E(J(c))
  BY <1>3
<1>7. \A c \in 1..lanes[k] : f[c] = p[J(c)]
  OBVIOUS
<1>8. f = [c \in 1..lanes[k] |-> p[J(c)]]
  OBVIOUS
<1>9. \A j \in 1..k : j \in 1..n /\ j <= k
  BY <1>1
<1>10. \A j \in 1..n : StartOf(items[p[j]]) = S(j) /\ EndOf(items[p[j]]) = E(j)
  BY <1>1
<1> HIDE DEF n, sorted, lanes, S, E, J, f
<1>11. ASSUME NEW c \in 1..lanes[k]
       PROVE  p[J(c)] \in Runs
  <2>1. J(c) \in 1..n /\ J(c) <= k /\ S(k) < E(J(c))
    BY <1>6, <1>9
  <2>2. p[J(c)] \in 1..n /\ S(J(c)) <= S(k)
    BY <1>1, <2>1
  <2>3. QED
    BY <1>10, <2>1, <2>2
<1>12. IsFiniteSet(Runs)
  <2>1. Runs \in SUBSET (1..n)
    OBVIOUS
  <2>2. IsFiniteSet(1..n)
    BY <1>1, FS_Interval
  <2> HIDE DEF Runs
  <2>3. QED
    BY <2>1, <2>2, FS_Subset
<1> HIDE DEF Runs
<1>13. f \in Injection(1..lanes[k], Runs)
  <2>1. f \in [1..lanes[k] -> Runs]
    BY <1>8, <1>11
  <2>2. ASSUME NEW c \in 1..lanes[k], NEW d \in 1..lanes[k], f[c] = f[d]
        PROVE  c = d
    <3>1. J(c) \in 1..n /\ J(d) \in 1..n /\ p[J(c)] = p[J(d)]
      BY <1>6, <1>7, <1>9, <2>2
    <3>2. J(c) = J(d)
      BY <1>2, <3>1
    <3>3. QED
      BY <1>6, <3>2
  <2>3. QED
    BY <2>1, <2>2 DEF Injection, IsInjective
<1>14. Cardinality(1..lanes[k]) <= Cardinality(Runs)
  BY <1>12, <1>13, FS_Injection
<1>15. Cardinality(1..lanes[k]) = lanes[k]
  <2> DEFINE c == lanes[k]
  <2>1. 1 \in Int /\ c \in Int /\ c \in Nat
    BY <1>4
  <2> HIDE DEF c
  <2>2. Cardinality(1..c) = IF 1 > c THEN 0 ELSE c - 1 + 1
    BY <2>1, FS_Interval
  <2>3. Cardinality(1..c) = c
    BY <2>1, <2>2
  <2>4. QED
    BY <2>3 DEF c
<1>16. Cardinality(Runs) \in Nat
  BY <1>12, FS_CardinalityType
<1>17. Cardinality(Runs) >= lanes[k]
  BY ONLY <1>4, <1>14, <1>15, <1>16
<1>18. t \in 0..(2 * Slots)
  BY ONLY <1>5, PlannerAssumption
<1>19. QED
  BY <1>1, <1>17, <1>18 DEF Runs, n, lanes

LEMMA LayoutFits ==
  ASSUME NEW items, OfOneDay(items)
  PROVE  LanesFit(items)
<1> DEFINE n == Len(items)
           sorted == Sorted(items)
           lanes == Lanes(sorted)
           root == Clusters(sorted)
           Cols(k) == Columns(lanes, root, n, root[k])
           layout == ColumnLayout(items)
           Running(t) == {i \in DOMAIN items :
                            StartOf(items[i]) <= t /\ t < EndOf(items[i])}
           Fits(i) ==
             LET at == layout[items[i].id] IN
             /\ at.col <= at.totalCols
             /\ \A j \in DOMAIN items \ {i} :
                  SameTime(items[i], items[j]) =>
                    /\ layout[items[j].id].col # at.col
                    /\ layout[items[j].id].totalCols = at.totalCols
             /\ \E t \in 0..(2 * Slots) : Cardinality(Running(t)) >= at.totalCols
<1>1. items \in Seq(Items) /\ n \in Nat /\ DOMAIN items = 1..n
  BY DEF OfOneDay
<1>2. PICK p : Sorts(items, p)
  BY <1>1, SortedIs
<1>3. /\ \A i \in 1..n : \E k \in 1..n : p[k] = i
  BY <1>2 DEF Sorts
<1>4. /\ sorted \in Seq(Items) /\ Len(sorted) = n
      /\ \A k \in 1..n : p[k] \in 1..n /\ sorted[k] = items[p[k]]
      /\ \A k, l \in 1..n : k <= l => StartOf(sorted[k]) <= StartOf(sorted[l])
  BY <1>2, SortedItems
<1>5. \A k \in 1..n : layout[sorted[k].id] = [col |-> lanes[k], totalCols |-> Cols(k)]
  BY <1>2, LayoutIs
<1>6. PICK laid : LaidWell(sorted, n, laid) /\ laid.lanes = lanes
  BY <1>4, LanesAre
<1>7. \A k \in 1..n : \E t \in 0..(2 * Slots) : Cardinality(Running(t)) >= lanes[k]
  BY <1>2, <1>6, ManyRun
<1> DEFINE m == Len(laid.ends)
<1>8. /\ lanes \in Seq(Nat) /\ Len(lanes) = n /\ m \in Nat
      /\ \A k \in 1..n : lanes[k] \in 1..m
      /\ \A k, l \in 1..n : k < l /\ lanes[k] = lanes[l] => EndOf(sorted[k]) <= StartOf(sorted[l])
  BY <1>6 DEF LaidWell, LaneStates
<1>9. \A k \in 1..n : /\ \E j \in 1..n : root[j] = root[k] /\ Cols(k) = lanes[j]
                     /\ lanes[k] <= Cols(k)
  BY <1>1, <1>8, ColumnsAre
<1>10. \A a, b \in 1..n : a <= b /\ StartOf(sorted[b]) < EndOf(sorted[a]) => root[a] = root[b]
  BY <1>4, ClustersJoin
<1>11. \A k \in 1..n : StartOf(sorted[k]) \in Nat /\ EndOf(sorted[k]) \in Nat
  <2>1. \A k \in 1..n : sorted[k] \in Items
    BY <1>4
  <2>2. QED
    BY <2>1, ItemTimes
<1> HIDE DEF n, sorted, lanes, root, layout, Running, m
<1>12. ASSUME NEW a \in 1..n, NEW b \in 1..n, a < b,
              SameTime(sorted[a], sorted[b])
       PROVE  lanes[a] # lanes[b] /\ root[a] = root[b]
  <2>1. StartOf(sorted[b]) < EndOf(sorted[a])
    BY <1>12 DEF SameTime
  <2>2. a <= b
    BY <1>1, <1>12
  <2>3. root[a] = root[b]
    BY <1>10, <2>1, <2>2
  <2>4. lanes[a] # lanes[b]
    <3> SUFFICES ASSUME lanes[a] = lanes[b]
                 PROVE  FALSE
      OBVIOUS
    <3>1. EndOf(sorted[a]) <= StartOf(sorted[b])
      BY <1>8, <1>12
    <3>2. StartOf(sorted[b]) \in Nat /\ EndOf(sorted[a]) \in Nat
      BY <1>11
    <3>3. QED
      BY ONLY <2>1, <3>1, <3>2
  <2>5. QED
    BY <2>3, <2>4
<1>13. ASSUME NEW i \in 1..n
       PROVE  Fits(i)
  <2>1. PICK k \in 1..n : p[k] = i
    BY <1>3
  <2>2. items[i] = sorted[k] /\ layout[items[i].id] = [col |-> lanes[k], totalCols |-> Cols(k)]
    BY <1>4, <1>5, <2>1
  <2> DEFINE at == layout[items[i].id]
  <2>3. at.col = lanes[k] /\ at.totalCols = Cols(k)
    BY <2>2
  <2>4. ASSUME NEW j \in (DOMAIN items) \ {i}, SameTime(items[i], items[j])
        PROVE  layout[items[j].id].col # at.col /\ layout[items[j].id].totalCols = at.totalCols
    <3>1. j \in 1..n /\ j # i
      BY <1>1
    <3>2. PICK l \in 1..n : p[l] = j
      BY <1>3, <3>1
    <3>3. items[j] = sorted[l] /\ layout[items[j].id] = [col |-> lanes[l], totalCols |-> Cols(l)]
      BY <1>4, <1>5, <3>2
    <3>4. SameTime(sorted[k], sorted[l]) /\ SameTime(sorted[l], sorted[k])
      BY <2>2, <2>4, <3>3 DEF SameTime
    <3>5. k < l \/ l < k
      BY <1>1, <2>1, <3>1, <3>2
    <3>6. lanes[k] # lanes[l] /\ root[k] = root[l]
      BY <1>12, <3>4, <3>5
    <3>7. QED
      BY <2>3, <3>3, <3>6
  <2>5. \E t \in 0..(2 * Slots) : Cardinality(Running(t)) >= at.totalCols
    BY <1>7, <1>9, <2>3
  <2>6. at.col <= at.totalCols
    BY <1>9, <2>3
  <2> HIDE DEF at
  <2>7. QED
    BY <2>4, <2>5, <2>6, Zenon DEF at
<1>14. QED
  BY <1>1, <1>13 DEF LanesFit, layout, Running

-----------------------------------------------------------------------------
(* What the planner shows.                                                 *)

LEMMA KeepingDay ==
  ASSUME NEW items, OfOneDay(items), NEW K
  PROVE  OfOneDay(Keeping(items, K))
<1> DEFINE s == Keeping(items, K)
<1>1. /\ items \in Seq(Items) /\ DOMAIN items = 1..Len(items)
      /\ \A i, j \in DOMAIN items : items[i].id = items[j].id => i = j
  BY DEF OfOneDay
<1>2. s \in Seq(Items \cap K) /\ ToSet(s) = ToSet(items) \cap K
  BY <1>1, KeepingType, ToSetKeeping
<1>3. IsInjective(items)
  BY <1>1 DEF IsInjective
<1>4. IsInjective(s)
  BY <1>1, <1>3, KeepingInjective
<1> HIDE DEF s
<1>5. s \in Seq(Items) /\ DOMAIN s = 1..Len(s)
  BY ONLY <1>2
<1>6. ASSUME NEW i \in DOMAIN s, NEW j \in DOMAIN s, s[i].id = s[j].id
      PROVE  i = j
  <2>1. s[i] \in ToSet(s) /\ s[j] \in ToSet(s)
    BY DEF ToSet
  <2>2. s[i] \in ToSet(items) /\ s[j] \in ToSet(items)
    BY <1>2, <2>1
  <2>3. PICK a \in DOMAIN items, b \in DOMAIN items : s[i] = items[a] /\ s[j] = items[b]
    BY <2>2 DEF ToSet
  <2>4. s[i] = s[j]
    BY <1>1, <1>6, <2>3
  <2>5. QED
    BY <1>4, <2>4 DEF IsInjective
<1>7. QED
  BY <1>5, <1>6 DEF OfOneDay, s

(* The ids of the server's items are the first ones, see DeskAssumption.   *)
ServerItems == Len(Meetings) + Cardinality(Invites)

LEMMA ServerItemsCount == ServerItems \in Nat /\ IsFiniteSet(Invites)
<1>1. Order \in Surjection(1..Len(Order), Invites)
  <2>1. Order \in Seq(Invites) /\ ToSet(Order) = Invites
    BY DeskAssumption
  <2>2. Order \in [1..Len(Order) -> Invites] /\ DOMAIN Order = 1..Len(Order)
    BY <2>1
  <2>3. \A i \in Invites : \E k \in 1..Len(Order) : Order[k] = i
    BY <2>1, <2>2 DEF ToSet
  <2>4. QED
    BY <2>2, <2>3 DEF Surjection
<1>2. IsFiniteSet(1..Len(Order))
  BY DeskAssumption, FS_Interval
<1>3. IsFiniteSet(Invites)
  BY <1>1, <1>2, FS_Surjection
<1>4. Cardinality(Invites) \in Nat
  BY <1>3, FS_CardinalityType
<1>5. Len(Meetings) \in Nat
  BY DeskAssumption
<1>6. QED
  BY <1>3, <1>4, <1>5 DEF ServerItems

(* Two lists of items with other ids make one day.                         *)
LEMMA DaysJoined ==
  ASSUME NEW a, OfOneDay(a), NEW b, OfOneDay(b),
         \A i \in 1..Len(a), j \in 1..Len(b) : a[i].id # b[j].id
  PROVE  OfOneDay(a \o b)
<1> DEFINE s == a \o b
<1>1. /\ a \in Seq(Items) /\ b \in Seq(Items)
      /\ \A i, j \in 1..Len(a) : a[i].id = a[j].id => i = j
      /\ \A i, j \in 1..Len(b) : b[i].id = b[j].id => i = j
  BY DEF OfOneDay
<1>2. Len(a) \in Nat /\ Len(b) \in Nat
  BY <1>1
<1>3. /\ s \in Seq(Items) /\ Len(s) = Len(a) + Len(b)
      /\ \A i \in 1..Len(s) : s[i] = IF i <= Len(a) THEN a[i] ELSE b[i - Len(a)]
  BY ONLY <1>1
<1> HIDE DEF s
<1>4. \A i \in 1..Len(s) : i \in 1..Len(a) \/ (~(i <= Len(a)) /\ i - Len(a) \in 1..Len(b))
  BY <1>2, <1>3
<1>5. ASSUME NEW i \in 1..Len(s), NEW j \in 1..Len(s), s[i].id = s[j].id
      PROVE  i = j
  <2>1. CASE i \in 1..Len(a) /\ j \in 1..Len(a)
    BY <1>1, <1>3, <1>5, <2>1
  <2>2. CASE ~(i <= Len(a)) /\ ~(j <= Len(a))
    <3>1. i - Len(a) = j - Len(a)
      <4>1. /\ i - Len(a) \in 1..Len(b) /\ j - Len(a) \in 1..Len(b)
            /\ s[i] = b[i - Len(a)] /\ s[j] = b[j - Len(a)]
        BY <1>3, <1>4, <2>2
      <4>2. QED
        BY <1>1, <1>5, <4>1
    <3>2. QED
      BY <1>2, <3>1
  <2>3. CASE i \in 1..Len(a) /\ ~(j <= Len(a))
    <3>1. s[i] = a[i] /\ s[j] = b[j - Len(a)] /\ j - Len(a) \in 1..Len(b)
      BY <1>3, <1>4, <2>3
    <3>2. QED
      BY <1>5, <2>3, <3>1
  <2>4. CASE ~(i <= Len(a)) /\ j \in 1..Len(a)
    <3>1. s[j] = a[j] /\ s[i] = b[i - Len(a)] /\ i - Len(a) \in 1..Len(b)
      BY <1>3, <1>4, <2>4
    <3>2. QED
      BY <1>5, <2>4, <3>1
  <2>5. QED
    BY <1>4, <2>1, <2>2, <2>3, <2>4
<1>6. QED
  BY <1>3, <1>5 DEF OfOneDay, s

LEMMA DeskItemsDay ==
  ASSUME NEW list
  PROVE  /\ OfOneDay(DeskItems(list))
         /\ \A i \in 1..Len(DeskItems(list)) : DeskItems(list)[i].id <= ServerItems
<1> DEFINE listed == Keeping(Order, {i \in Invites : list.rsvps[i] # "absent"})
           agenda == [k \in DOMAIN listed |-> Agenda[listed[k]]]
           meetings == IF list.meetings THEN Meetings ELSE <<>>
           ids == 1..ServerItems
<1>1. /\ Meetings \in Seq(Items) /\ Agenda \in [Invites -> Items] /\ Order \in Seq(Invites)
      /\ IsInjective(Order)
      /\ \A i \in Invites : /\ Agenda[i].id \in ids
                           /\ \A j \in Invites \ {i} : Agenda[j].id # Agenda[i].id
      /\ \A k \in DOMAIN Meetings :
           /\ Meetings[k].id \in ids
           /\ \A l \in DOMAIN Meetings \ {k} : Meetings[l].id # Meetings[k].id
           /\ \A i \in Invites : Agenda[i].id # Meetings[k].id
  BY DeskAssumption DEF ServerItems
<1>2. DeskItems(list) = meetings \o agenda
  BY DEF DeskItems
<1>3. listed \in Seq(Invites) /\ IsInjective(listed)
  <2>1. listed \in Seq(Invites \cap {i \in Invites : list.rsvps[i] # "absent"})
    BY <1>1, KeepingType
  <2>2. IsInjective(listed)
    BY <1>1, KeepingInjective
  <2> HIDE DEF listed
  <2>3. listed \in Seq(Invites)
    BY ONLY <2>1
  <2>4. QED
    BY <2>2, <2>3
<1> HIDE DEF listed, ids
<1>4. /\ DOMAIN listed = 1..Len(listed) /\ Len(listed) \in Nat
      /\ \A k \in 1..Len(listed) : listed[k] \in Invites
      /\ \A k, l \in 1..Len(listed) : listed[k] = listed[l] => k = l
  BY ONLY <1>3 DEF IsInjective
<1>5. /\ agenda \in Seq(Items) /\ Len(agenda) = Len(listed)
      /\ \A k \in 1..Len(listed) : agenda[k] = Agenda[listed[k]]
  <2>1. agenda = [k \in 1..Len(listed) |-> Agenda[listed[k]]]
    BY <1>4
  <2>2. agenda \in [1..Len(listed) -> Items]
    BY <1>1, <1>4
  <2> HIDE DEF agenda
  <2>3. agenda \in Seq(Items) /\ Len(agenda) = Len(listed)
    BY ONLY <1>4, <2>2
  <2>4. QED
    BY <2>1, <2>3
<1> HIDE DEF agenda
<1>6. OfOneDay(agenda) /\ \A k \in 1..Len(agenda) : agenda[k].id \in ids
  <2>1. ASSUME NEW k \in 1..Len(agenda), NEW l \in 1..Len(agenda), agenda[k].id = agenda[l].id
        PROVE  k = l
    <3>1. listed[k] = listed[l]
      BY <1>1, <1>4, <1>5, <2>1
    <3>2. QED
      BY <1>4, <1>5, <3>1
  <2>2. \A k \in 1..Len(agenda) : agenda[k].id \in ids
    BY <1>1, <1>4, <1>5
  <2>3. QED
    BY <1>5, <2>1, <2>2 DEF OfOneDay
<1>7. /\ DOMAIN meetings = 1..Len(meetings) /\ OfOneDay(meetings)
      /\ \A k \in 1..Len(meetings) : meetings[k].id \in ids
                                    /\ \A i \in Invites : meetings[k].id # Agenda[i].id
  <2>1. CASE ~list.meetings
    <3>1. /\ meetings \in Seq(Items) /\ DOMAIN meetings = 1..Len(meetings)
          /\ 1..Len(meetings) = {}
      BY <2>1
    <3>2. QED
      BY ONLY <3>1, Zenon DEF OfOneDay
  <2>2. CASE list.meetings
    <3>1. meetings = Meetings /\ DOMAIN Meetings = 1..Len(Meetings)
      BY <1>1, <2>2
    <3>2. \A k, l \in 1..Len(Meetings) : Meetings[k].id = Meetings[l].id => k = l
      BY <1>1, <3>1
    <3>3. QED
      BY <1>1, <3>1, <3>2 DEF OfOneDay
  <2>3. QED
    BY <2>1, <2>2
<1> HIDE DEF meetings
<1>8. \A i \in 1..Len(meetings), j \in 1..Len(agenda) : meetings[i].id # agenda[j].id
  BY <1>4, <1>5, <1>7
<1>9. OfOneDay(meetings \o agenda)
  BY <1>6, <1>7, <1>8, DaysJoined
<1>10. \A i \in 1..Len(meetings \o agenda) : (meetings \o agenda)[i].id \in ids
  <2>1. meetings \in Seq(Items) /\ agenda \in Seq(Items)
    BY <1>5, <1>7 DEF OfOneDay
  <2>2. \A i \in 1..Len(meetings \o agenda) :
          \/ \E k \in 1..Len(meetings) : (meetings \o agenda)[i] = meetings[k]
          \/ \E k \in 1..Len(agenda) : (meetings \o agenda)[i] = agenda[k]
    <3> SUFFICES ASSUME NEW i \in 1..Len(meetings \o agenda)
                 PROVE  \/ \E k \in 1..Len(meetings) : (meetings \o agenda)[i] = meetings[k]
                        \/ \E k \in 1..Len(agenda) : (meetings \o agenda)[i] = agenda[k]
      OBVIOUS
    <3>1. CASE i <= Len(meetings)
      <4>1. i \in 1..Len(meetings) /\ (meetings \o agenda)[i] = meetings[i]
        BY ONLY <2>1, <3>1, i \in 1..Len(meetings \o agenda)
      <4>2. QED
        BY <4>1
    <3>2. CASE ~(i <= Len(meetings))
      <4>1. /\ i - Len(meetings) \in 1..Len(agenda)
            /\ (meetings \o agenda)[i] = agenda[i - Len(meetings)]
        BY ONLY <2>1, <3>2, i \in 1..Len(meetings \o agenda)
      <4>2. QED
        BY <4>1
    <3>3. QED
      BY <3>1, <3>2
  <2>3. QED
    BY <1>6, <1>7, <2>2
<1>11. \A n \in ids : n <= ServerItems
  BY ServerItemsCount DEF ids
<1>12. QED
  BY <1>2, <1>9, <1>10, <1>11

-----------------------------------------------------------------------------
(* The inductive invariant.  The form is open only while there is room for *)
(* another item, and the new items have the ids after those of the server. *)
PlannerInv ==
  /\ PlannerTypeOK
  /\ newItems \in Seq(Items)
  /\ \A k \in 1..Len(newItems) : newItems[k].id = k + ServerItems
  /\ form \in [open : BOOLEAN, start : Times \cup {NoTime}, end : Times \cup {NoTime},
               recurring : BOOLEAN]
  /\ form.open => Len(newItems) < MaxNew


LEMMA PlannerStarts == PlannerFresh => PlannerInv
<1> SUFFICES ASSUME PlannerFresh PROVE PlannerInv
  OBVIOUS
<1>1. newItems = <<>> /\ weekOffset = 0 /\ form = NewAppointment
  BY DEF PlannerFresh
<1>2. 0 \in Times \cup {NoTime} /\ 1 \in Times \cup {NoTime}
  BY PlannerAssumption DEF Times
<1>3. form.start = 0 /\ form.end = 1 /\ form.open = FALSE
      /\ form \in [open : BOOLEAN, start : Times \cup {NoTime}, end : Times \cup {NoTime},
                   recurring : BOOLEAN]
  BY <1>1, <1>2 DEF NewAppointment
<1>4. newItems \in Seq(Items) /\ Len(newItems) = 0
  BY <1>1
<1>5. PlannerTypeOK
  BY <1>1, <1>2, <1>3, <1>4, PlannerAssumption DEF PlannerTypeOK
<1>6. \A k \in 1..Len(newItems) : newItems[k].id = k + ServerItems
  BY <1>4
<1>7. QED
  BY <1>3, <1>4, <1>5, <1>6 DEF PlannerInv

LEMMA PlannerRemounts == PlannerMounts => PlannerInv'
<1> SUFFICES ASSUME PlannerMounts PROVE PlannerInv'
  OBVIOUS
<1>1. newItems' = <<>> /\ weekOffset' = 0 /\ form' = NewAppointment
  BY DEF PlannerMounts
<1>2. 0 \in Times \cup {NoTime} /\ 1 \in Times \cup {NoTime}
  BY PlannerAssumption DEF Times
<1>3. form'.start = 0 /\ form'.end = 1 /\ form'.open = FALSE
      /\ form' \in [open : BOOLEAN, start : Times \cup {NoTime}, end : Times \cup {NoTime},
                    recurring : BOOLEAN]
  BY <1>1, <1>2 DEF NewAppointment
<1>4. newItems' \in Seq(Items) /\ Len(newItems') = 0
  BY <1>1
<1>5. PlannerTypeOK'
  BY <1>1, <1>2, <1>3, <1>4, PlannerAssumption DEF PlannerTypeOK
<1>6. \A k \in 1..Len(newItems') : newItems'[k].id = k + ServerItems
  BY <1>4
<1>7. QED
  BY <1>3, <1>4, <1>5, <1>6 DEF PlannerInv

(* An item from the form has the next id.                                  *)
LEMMA SubmitInv ==
  ASSUME PlannerInv, SubmitForm(NewId)
  PROVE  PlannerInv'
<1> DEFINE n == Len(newItems)
           item == [id |-> NewId, week |-> weekOffset, start |-> form.start,
                    end |-> form.end, recurring |-> form.recurring]
<1>1. /\ newItems \in Seq(Items) /\ weekOffset \in Weeks /\ n < MaxNew
      /\ \A k \in 1..n : newItems[k].id = k + ServerItems
      /\ form.start \in Times \cup {NoTime} /\ form.end \in Times \cup {NoTime}
      /\ form.recurring \in BOOLEAN
  BY DEF PlannerInv, PlannerTypeOK, SubmitForm
<1>2. /\ newItems' = Append(newItems, item) /\ form' = NewAppointment
      /\ weekOffset' = weekOffset
  BY DEF SubmitForm
<1>3. n \in Nat /\ ServerItems \in Nat /\ NewId = n + 1 + ServerItems
  <2>1. n \in Nat /\ Len(Meetings) \in Nat
    BY <1>1, DeskAssumption
  <2>2. ServerItems \in Nat /\ Cardinality(Invites) \in Nat
    <3>1. IsFiniteSet(Invites)
      BY ServerItemsCount
    <3>2. QED
      BY <3>1, ServerItemsCount, FS_CardinalityType
  <2>3. QED
    BY <2>1, <2>2 DEF NewId, ServerItems
<1>4. item \in Items /\ item.id = n + 1 + ServerItems
  BY <1>1, <1>3, PlannerAssumption DEF Items
<1> HIDE DEF item, n
<1>5. /\ newItems' \in Seq(Items) /\ Len(newItems') = n + 1
      /\ newItems'[n + 1] = item /\ \A k \in 1..n : newItems'[k] = newItems[k]
  BY ONLY <1>1, <1>2, <1>4 DEF n
<1>6. \A k \in 1..(n + 1) : newItems'[k].id = k + ServerItems
  <2>1. \A k \in 1..(n + 1) : k \in 1..n \/ k = n + 1
    BY <1>3
  <2>2. QED
    BY <1>1, <1>4, <1>5, <2>1
<1>7. 0 \in Times \cup {NoTime} /\ 1 \in Times \cup {NoTime}
  BY PlannerAssumption DEF Times
<1>8. form'.start = 0 /\ form'.end = 1 /\ form'.open = FALSE
      /\ form' \in [open : BOOLEAN, start : Times \cup {NoTime}, end : Times \cup {NoTime},
                    recurring : BOOLEAN]
  BY <1>2, <1>7 DEF NewAppointment
<1>9. n + 1 <= MaxNew
  BY <1>1, <1>3, PlannerAssumption
<1>10. PlannerTypeOK'
  BY <1>1, <1>2, <1>5, <1>7, <1>8, <1>9 DEF PlannerTypeOK
<1>11. QED
  BY <1>5, <1>6, <1>8, <1>10 DEF PlannerInv

LEMMA PlannerStepInv ==
  ASSUME PlannerInv, PlannerStep
  PROVE  PlannerInv'
<1> DEFINE F == [open : BOOLEAN, start : Times \cup {NoTime}, end : Times \cup {NoTime},
                 recurring : BOOLEAN]
<1>1. /\ Len(newItems) <= MaxNew /\ weekOffset \in Weeks /\ newItems \in Seq(Items)
      /\ \A k \in 1..Len(newItems) : newItems[k].id = k + ServerItems
      /\ form \in F /\ (form.open => Len(newItems) < MaxNew)
  BY DEF PlannerInv, PlannerTypeOK
<1>2. ASSUME newItems' = newItems, weekOffset' \in Weeks, form' \in F,
             form'.open => Len(newItems) < MaxNew
      PROVE  PlannerInv'
  BY <1>1, <1>2 DEF PlannerInv, PlannerTypeOK
<1>3. 0 \in Times \cup {NoTime} /\ 1 \in Times \cup {NoTime}
  BY PlannerAssumption DEF Times
<1>4. NewAppointment \in F /\ NewAppointment.open = FALSE
  BY <1>3 DEF NewAppointment
<1>5. CASE OpenForm
  <2>1. form' \in F
    BY <1>4, <1>5 DEF OpenForm
  <2>2. QED
    BY <1>1, <1>2, <1>5, <2>1 DEF OpenForm
<1>6. ASSUME NEW week \in Weeks, ChangeWeek(week)
      PROVE  PlannerInv'
  BY <1>1, <1>2, <1>6 DEF ChangeWeek
<1>7. ASSUME NEW t \in Times \cup {NoTime}, HandleStartChange(t)
      PROVE  PlannerInv'
  <2>1. t # NoTime => HalfAnHourAfter(t) \in Times
    <3> SUFFICES ASSUME t \in Times
                 PROVE  HalfAnHourAfter(t) \in Times
      BY DEF NoTime
    <3>1. t + 1 \in Int /\ Slots \in Nat \ {0}
      BY PlannerAssumption DEF Times
    <3>2. (t + 1) % Slots \in 0..(Slots - 1)
      BY <3>1
    <3>3. QED
      BY <3>2 DEF HalfAnHourAfter, Times
  <2>2. \E e \in Times \cup {NoTime} :
          form' = [form EXCEPT !.start = t, !.end = e] /\ form.open
    BY <1>1, <1>7, <2>1 DEF HandleStartChange
  <2>3. form' \in F /\ form'.open = form.open
    BY <1>1, <2>2
  <2>4. QED
    BY <1>1, <1>2, <1>7, <2>3 DEF HandleStartChange
<1>8. ASSUME NEW t \in Times \cup {NoTime}, ChangeEnd(t)
      PROVE  PlannerInv'
  <2>1. form' \in F /\ form'.open = form.open
    BY <1>1, <1>8 DEF ChangeEnd
  <2>2. QED
    BY <1>1, <1>2, <1>8, <2>1 DEF ChangeEnd
<1>9. CASE ToggleRecurring
  <2>1. form' \in F /\ form'.open = form.open
    BY <1>1, <1>9 DEF ToggleRecurring
  <2>2. QED
    BY <1>1, <1>2, <1>9, <2>1 DEF ToggleRecurring
<1>10. CASE CloseForm
  <2>1. form' \in F /\ form'.open = FALSE
    BY <1>4, <1>10 DEF CloseForm
  <2>2. QED
    BY <1>1, <1>2, <1>10, <2>1 DEF CloseForm
<1>11. CASE SubmitForm(NewId)
  BY <1>11, SubmitInv
<1>12. CASE Cards(DeskItems(deskList), IsPending)
  <2>1. UNCHANGED <<newItems, weekOffset, form>>
    BY <1>12 DEF Cards, ToggleCard
  <2>2. QED
    BY <1>1, <1>2, <2>1
<1>13. QED
  BY <1>5, <1>6, <1>7, <1>8, <1>9, <1>10, <1>11, <1>12
  DEF PlannerStep, WeekBar, AddAppointmentModal

(* A step of the desk uses the planner, mounts it anew or leaves it alone. *)
LEMMA PlannerKept ==
  ASSUME PlannerInv, [DeskNext]_<<deskVars, companyVars, plannerVars>>
  PROVE  PlannerInv'
<1>1. ASSUME UNCHANGED plannerVars PROVE PlannerInv'
  BY <1>1 DEF plannerVars, PlannerInv, PlannerTypeOK
<1>2. CASE OpenDesk \/ LeaveDesk
  BY <1>2, PlannerRemounts DEF OpenDesk, LeaveDesk
<1>3. CASE CompanyStep
  BY <1>1, <1>3, PlannerRemounts DEF CompanyStep, PlannerFollows
<1>4. ASSUME NEW tab, ChooseDeskTab(tab)
      PROVE  PlannerInv'
  BY <1>1, <1>4, PlannerRemounts DEF ChooseDeskTab
<1>5. ASSUME NEW i, NEW decision,
             RespondInNotifications(i, decision) \/ RespondOnDesk(i, decision)
      PROVE  PlannerInv'
  BY <1>1, <1>5 DEF RespondInNotifications, RespondOnDesk, HandleDecision
<1>6. CASE PlannerAlone(PlannerStep)
  BY <1>6, PlannerStepInv DEF PlannerAlone
<1>7. CASE UNCHANGED <<deskVars, companyVars, plannerVars>>
  BY <1>1, <1>7
<1>8. QED
  BY <1>2, <1>3, <1>4, <1>5, <1>6, <1>7 DEF DeskNext

(* What is on screen is a day.                                             *)
LEMMA ShownDay ==
  ASSUME PlannerInv, NEW list
  PROVE  OfOneDay(Shown(DeskItems(list)))
<1> DEFINE a == DeskItems(list)
           all == a \o newItems
<1>1. OfOneDay(a) /\ \A i \in 1..Len(a) : a[i].id <= ServerItems
  BY DeskItemsDay
<1>2. /\ newItems \in Seq(Items)
      /\ \A k \in 1..Len(newItems) : newItems[k].id = k + ServerItems
  BY DEF PlannerInv
<1>3. ServerItems \in Nat
  BY ServerItemsCount
<1>4. OfOneDay(newItems)
  <2>1. ASSUME NEW i \in 1..Len(newItems), NEW j \in 1..Len(newItems),
               newItems[i].id = newItems[j].id
        PROVE  i = j
    <3>1. i + ServerItems = j + ServerItems /\ i \in Int /\ j \in Int
      BY <1>2, <2>1
    <3>2. QED
      BY <1>3, <3>1
  <2>2. QED
    BY <1>2, <2>1 DEF OfOneDay
<1> HIDE DEF a
<1>5. ASSUME NEW i \in 1..Len(a), NEW j \in 1..Len(newItems)
      PROVE  a[i].id # newItems[j].id
  <2>1. a[i].id <= ServerItems /\ newItems[j].id = j + ServerItems /\ j \in Nat /\ j > 0
    BY <1>1, <1>2
  <2>2. a[i] \in Items
    BY <1>1 DEF OfOneDay
  <2>3. a[i].id \in Nat
    BY <2>2 DEF Items
  <2>4. QED
    BY <1>3, <2>1, <2>3
<1>6. OfOneDay(all)
  BY <1>1, <1>4, <1>5, DaysJoined
<1> HIDE DEF all
<1>7. OfOneDay(Keeping(all, {item \in ToSet(all) : item.recurring \/ item.week = weekOffset}))
  BY <1>6, KeepingDay
<1>8. QED
  BY <1>7 DEF Shown, all, a

LEMMA PlannerLaidOut == PlannerInv => DeskLanesFit
BY ShownDay, LayoutFits DEF PlannerInv, DeskLanesFit

(* The day on the planner is laid out well, whatever items the server      *)
(* lists and the user adds, at whatever times: cards that run at once      *)
(* stand side by side and are equally wide, and there are no more columns  *)
(* than items that run at once at some time (CompanyAppointmentsTab.tsx,   *)
(* computeColumnLayout).                                                   *)
THEOREM DayIsLaidOut == DeskSpec => []DeskLanesFit
<1>1. PlannerFresh => PlannerInv
  BY PlannerStarts
<1>2. PlannerInv /\ [DeskNext]_<<deskVars, companyVars, plannerVars>> => PlannerInv'
  BY PlannerKept
<1>3. PlannerInv => DeskLanesFit
  BY PlannerLaidOut
<1>4. QED
  BY <1>1, <1>2, <1>3, PTL DEF DeskSpec
-----------------------------------------------------------------------------

(***************************************************************************)
(* The settings.  A preset is found by its id, so what is shown as one has *)
(* its values only while no two presets of the list have one id; ids are   *)
(* never used again, and a name that is selected or stored is an old one.  *)
(***************************************************************************)

Preset == [id : PresetIds, values : Tunings]

IdsDiffer(list) == \A p, q \in ToSet(list) : p.id = q.id => p = q

(* What HasValues says, of a list in which ids differ.                     *)
KeyTells(key, values, list) ==
  /\ key \in DOMAIN BuiltIn => values = BuiltIn[key]
  /\ \A p \in ToSet(list) : p.id = key => p.values = values

(* The types of the lists, of the store and of the pointer.                *)
SettingsTyped ==
  /\ presets \in Seq(Preset)
  /\ storage \in [tuning : Tunings, key : Keys, presets : Seq(Preset)]
  /\ pointer \in [down : BOOLEAN, moved : BOOLEAN, resets : 0..1]

(* Every id in use was given out, and to one preset.                       *)
IdsGivenOnce ==
  /\ \A p \in ToSet(presets) : p.id \in usedIds
  /\ selectedKey \in PresetIds => selectedKey \in usedIds
  /\ storage.key \in PresetIds => storage.key \in usedIds
  /\ IdsDiffer(presets)

PresetsTold ==
  /\ KeyTells(selectedKey, tuning, presets)
  /\ KeyTells(storage.key, storage.tuning, presets)
  /\ presets = storage.presets

(* The inductive invariant of the settings.                                *)
SettingsInv == SettingsTyped /\ ProfileTypeOK /\ IdsGivenOnce /\ PresetsTold

LEMMA PresetFound ==
  ASSUME NEW list, IdsDiffer(list), NEW p \in ToSet(list)
  PROVE  ValuesOf(p.id, list) = p.values
<1> DEFINE q == CHOOSE r \in ToSet(list) : r.id = p.id
<1>1. q \in ToSet(list) /\ q.id = p.id
  OBVIOUS
<1> HIDE DEF q
<1>2. q = p
  BY <1>1 DEF IdsDiffer
<1>3. QED
  BY <1>2 DEF q, ValuesOf

LEMMA TellingIsHaving ==
  ASSUME NEW list, IdsDiffer(list), NEW key, NEW values
  PROVE  HasValues(key, values, list) <=> KeyTells(key, values, list)
<1>1. key \in Ids(list) <=> \E p \in ToSet(list) : p.id = key
  BY DEF Ids
<1>2. ASSUME NEW p \in ToSet(list), p.id = key
      PROVE  values = ValuesOf(key, list) <=> p.values = values
  <2>1. ValuesOf(p.id, list) = p.values
    BY PresetFound
  <2>2. QED
    BY <1>2, <2>1
<1>3. QED
  BY <1>1, <1>2 DEF HasValues, KeyTells

(* A list that loses presets tells no more than it did.                    *)
LEMMA TellsLess ==
  ASSUME NEW list, NEW next, ToSet(next) \subseteq ToSet(list)
  PROVE  /\ \A key, values : KeyTells(key, values, list) => KeyTells(key, values, next)
         /\ IdsDiffer(list) => IdsDiffer(next)
BY DEF KeyTells, IdsDiffer

(* The beginning of a list with a preset on top.                           *)
LEMMA PresetOnTop ==
  ASSUME NEW list \in Seq(Preset), NEW x \in Preset, NEW m,
         m = IF Len(<<x>> \o list) < MaxPresets THEN Len(<<x>> \o list) ELSE MaxPresets
  PROVE  /\ SubSeq(<<x>> \o list, 1, m) \in Seq(Preset)
         /\ ToSet(SubSeq(<<x>> \o list, 1, m)) \subseteq {x} \cup ToSet(list)
<1> DEFINE all == <<x>> \o list
           next == SubSeq(all, 1, m)
<1>0. MaxPresets \in Nat
  BY ProfileAssumption
<1>1. all \in Seq(Preset) /\ Len(all) = Len(list) + 1
  OBVIOUS
<1>2. ToSet(all) \subseteq {x} \cup ToSet(list)
  <2> DEFINE one == <<x>>
  <2>1. one \in Seq(Preset) /\ DOMAIN one = 1 .. 1 /\ one[1] = x
    OBVIOUS
  <2> HIDE DEF one
  <2>2. ToSet(one) = {x}
    BY <2>1 DEF ToSet
  <2>3. ToSet(one \o list) = ToSet(one) \cup ToSet(list)
    BY <2>1, ToSetConcat
  <2>4. QED
    BY <2>2, <2>3 DEF one
<1>3. m \in 0 .. Len(all)
  BY <1>0, <1>1
<1> HIDE DEF all
<1>4. /\ next \in Seq(Preset) /\ Len(next) = m /\ DOMAIN next = 1 .. m
      /\ \A k \in 1 .. m : next[k] = all[k] /\ k \in DOMAIN all
  BY <1>1, <1>3
<1> HIDE DEF next
<1>5. ToSet(next) \subseteq ToSet(all)
  BY <1>4 DEF ToSet
<1>6. QED
  BY <1>2, <1>4, <1>5 DEF all, next

-----------------------------------------------------------------------------

LEMMA SettingsInit == ProfileInit => SettingsInv
<1> SUFFICES ASSUME ProfileInit PROVE SettingsInv
  OBVIOUS
<1>1. DefaultTuning \in Tunings /\ "none" \in Keys
      /\ "none" \notin PresetIds /\ "none" \notin DOMAIN BuiltIn
  BY ProfileAssumption DEF DefaultTuning, Keys
<1>2. presets = <<>> /\ presets \in Seq(Preset) /\ ToSet(presets) = {}
  BY DEF ProfileInit, ToSet
<1>3. storage = [tuning |-> DefaultTuning, key |-> "none", presets |-> <<>>]
      /\ storage.presets = <<>> /\ storage.key = "none"
  BY DEF ProfileInit
<1>4. SettingsTyped
  <2>1. storage \in [tuning : Tunings, key : Keys, presets : Seq(Preset)]
    BY <1>1, <1>2, <1>3
  <2>2. pointer \in [down : BOOLEAN, moved : BOOLEAN, resets : 0..1]
    BY DEF ProfileInit, AtEase
  <2>3. QED
    BY <1>2, <2>1, <2>2 DEF SettingsTyped
<1>5. ProfileTypeOK
  <2>1. AtEase.resets \in 0..1
    BY DEF AtEase
  <2>2. QED
    BY <1>1, <1>2, <2>1 DEF ProfileInit, ProfileTypeOK
<1>6. IdsGivenOnce
  BY <1>1, <1>2, <1>3 DEF ProfileInit, IdsGivenOnce, IdsDiffer
<1>7. PresetsTold
  BY <1>1, <1>2, <1>3 DEF ProfileInit, PresetsTold, KeyTells
<1>8. QED
  BY <1>4, <1>5, <1>6, <1>7 DEF SettingsInv

(* The page comes: what was stored is what is shown.                       *)
LEMMA SettingsMount ==
  ASSUME SettingsInv, ProfileMounts
  PROVE  SettingsInv'
<1>1. storage.tuning \in Tunings /\ storage.key \in Keys
  BY DEF SettingsInv, SettingsTyped
<1>2. presets' = presets /\ storage' = storage /\ usedIds' = usedIds
      /\ tuning' = storage.tuning /\ selectedKey' = storage.key
      /\ activeKey' = storage.key /\ isSaved' = FALSE /\ pointer' = AtEase
  BY DEF ProfileMounts, SettingsInv, PresetsTold
<1>3. SettingsTyped' /\ ProfileTypeOK'
  <2>1. AtEase \in [down : BOOLEAN, moved : BOOLEAN, resets : 0..1] /\ AtEase.resets \in 0..1
    BY DEF AtEase
  <2>2. QED
    BY <1>1, <1>2, <2>1 DEF SettingsInv, SettingsTyped, ProfileTypeOK
<1>4. IdsGivenOnce'
  BY <1>2 DEF SettingsInv, IdsGivenOnce
<1>5. PresetsTold'
  BY <1>2 DEF SettingsInv, PresetsTold
<1>6. QED
  BY <1>3, <1>4, <1>5 DEF SettingsInv

(* What leaves the lists and the store alone needs its types and a         *)
(* selection that tells.                                                   *)
LEMMA SelectionStep ==
  ASSUME SettingsInv, ListKept,
         tuning' \in Tunings, selectedKey' \in Keys, isSaved' \in BOOLEAN,
         pointer' \in [down : BOOLEAN, moved : BOOLEAN, resets : 0..1],
         selectedKey' \in PresetIds => selectedKey' \in usedIds,
         KeyTells(selectedKey', tuning', presets)
  PROVE  SettingsInv'
<1>1. UNCHANGED <<presets, activeKey, storage, usedIds>>
  BY DEF ListKept
<1>2. SettingsTyped' /\ ProfileTypeOK'
  BY <1>1 DEF SettingsInv, SettingsTyped, ProfileTypeOK
<1>3. IdsGivenOnce'
  BY <1>1 DEF SettingsInv, IdsGivenOnce
<1>4. PresetsTold'
  BY <1>1 DEF SettingsInv, PresetsTold
<1>5. QED
  BY <1>2, <1>3, <1>4 DEF SettingsInv

(* The controls that change what is selected, or nothing but the mark and  *)
(* the pointer.                                                            *)
LEMMA SelectionInv ==
  ASSUME SettingsInv,
         \/ TextFields \/ Sliders \/ BuiltInButtons \/ DragScroll
         \/ SavedFades \/ MovedResets
         \/ \E id \in PresetIds : ReleaseOn(id)
  PROVE  SettingsInv'
<1> USE DEF SettingsInv
<1>0. /\ tuning \in Tunings /\ selectedKey \in Keys /\ isSaved \in BOOLEAN
      /\ selectedKey \in PresetIds => selectedKey \in usedIds
      /\ KeyTells(selectedKey, tuning, presets)
  BY DEF ProfileTypeOK, IdsGivenOnce, PresetsTold
<1>1. /\ pointer.down \in BOOLEAN /\ pointer.moved \in BOOLEAN /\ pointer.resets \in 0..1
      /\ pointer \in [down : BOOLEAN, moved : BOOLEAN, resets : 0..1]
  BY DEF SettingsTyped
<1>2. CASE TextFields \/ SavedFades
  <2>1. ListKept /\ UNCHANGED <<tuning, selectedKey, pointer>> /\ isSaved' = FALSE
    BY <1>2 DEF TextFields, EditTexts, SavedFades
  <2>2. QED
    BY <1>0, <1>1, <2>1, SelectionStep
<1>3. CASE Sliders
  <2>1. /\ ListKept /\ UNCHANGED pointer /\ isSaved' = FALSE
        /\ tuning' \in Tunings /\ selectedKey' = "none"
    BY <1>3 DEF Sliders, SetConfigValue
  <2>2. "none" \notin DOMAIN BuiltIn /\ "none" \notin PresetIds /\ "none" \in Keys
    BY ProfileAssumption DEF Keys
  <2>3. \A p \in ToSet(presets) : p.id # "none"
    <3>1. ToSet(presets) \subseteq [id : PresetIds, values : Tunings]
      BY DEF ProfileTypeOK
    <3>2. QED
      BY <2>2, <3>1
  <2>4. KeyTells("none", tuning', presets)
    BY <2>2, <2>3 DEF KeyTells
  <2>5. QED
    BY <1>1, <2>1, <2>2, <2>4, SelectionStep
<1>4. CASE BuiltInButtons
  <2>1. PICK key \in DOMAIN BuiltIn : ApplyBuiltInPreset(key)
    BY <1>4 DEF BuiltInButtons
  <2>2. /\ ListKept /\ UNCHANGED pointer /\ isSaved' = FALSE
        /\ tuning' = BuiltIn[key] /\ selectedKey' = key
    BY <2>1 DEF ApplyBuiltInPreset
  <2>3. BuiltIn[key] \in Tunings /\ key \notin PresetIds /\ key \in Keys
    BY ProfileAssumption DEF Keys
  <2>4. \A p \in ToSet(presets) : p.id # key
    <3>1. ToSet(presets) \subseteq [id : PresetIds, values : Tunings]
      BY DEF ProfileTypeOK
    <3>2. QED
      BY <2>3, <3>1
  <2>5. KeyTells(key, BuiltIn[key], presets)
    BY <2>4 DEF KeyTells
  <2>6. QED
    BY <1>1, <2>2, <2>3, <2>5, SelectionStep
<1>5. CASE DragScroll \/ MovedResets
  <2>1. ListKept /\ UNCHANGED <<tuning, selectedKey, isSaved>>
    BY <1>5 DEF DragScroll, PointerDown, PointerMove, PointerLeaves, MovedResets
  <2>2. pointer' \in [down : BOOLEAN, moved : BOOLEAN, resets : 0..1]
    <3>1. CASE PointerDown
      <4>1. pointer' = [pointer EXCEPT !.down = TRUE, !.moved = FALSE]
        BY <3>1 DEF PointerDown
      <4>2. QED
        BY <1>1, <4>1
    <3>2. CASE PointerMove
      <4>1. pointer' = [pointer EXCEPT !.moved = TRUE]
        BY <3>2 DEF PointerMove
      <4>2. QED
        BY <1>1, <4>1
    <3>3. CASE PointerLeaves
      <4>1. pointer.resets < 1 /\ pointer' = [pointer EXCEPT !.down = FALSE, !.resets = @ + 1]
        BY <3>3 DEF PointerLeaves
      <4>2. pointer.resets + 1 \in 0..1
        BY <1>1, <4>1
      <4>3. QED
        BY <1>1, <4>1, <4>2
    <3>4. CASE MovedResets
      <4>1. pointer.resets > 0 /\ pointer' = [pointer EXCEPT !.moved = FALSE, !.resets = @ - 1]
        BY <3>4 DEF MovedResets
      <4>2. pointer.resets - 1 \in 0..1
        BY <1>1, <4>1
      <4>3. QED
        BY <1>1, <4>1, <4>2
    <3>5. QED
      BY <1>5, <3>1, <3>2, <3>3, <3>4 DEF DragScroll
  <2>3. QED
    BY <1>0, <2>1, <2>2, SelectionStep
<1>6. CASE \E id \in PresetIds : ReleaseOn(id)
  <2>1. PICK id \in PresetIds : ReleaseOn(id)
    BY <1>6
  <2>2. ListKept /\ id \in Ids(presets)
    BY <2>1 DEF ReleaseOn
  <2>3. pointer' \in [down : BOOLEAN, moved : BOOLEAN, resets : 0..1]
    <3>1. pointer.resets < 1 /\ pointer' = [pointer EXCEPT !.down = FALSE, !.resets = @ + 1]
      BY <2>1 DEF ReleaseOn
    <3>2. pointer.resets + 1 \in 0..1
      BY <1>1, <3>1
    <3>3. QED
      BY <1>1, <3>1, <3>2
  <2>4. CASE pointer.moved
    <3>1. UNCHANGED <<tuning, selectedKey, isSaved>>
      BY <2>1, <2>4 DEF ReleaseOn
    <3>2. QED
      BY <1>0, <2>2, <2>3, <3>1, SelectionStep
  <2>5. CASE ~pointer.moved
    <3>1. tuning' = ValuesOf(id, presets) /\ selectedKey' = id /\ isSaved' = FALSE
      BY <2>1, <2>5 DEF ReleaseOn
    <3>2. PICK p \in ToSet(presets) : p.id = id
      BY <2>2 DEF Ids
    <3>3. p \in [id : PresetIds, values : Tunings] /\ p.id \in usedIds /\ IdsDiffer(presets)
      BY DEF ProfileTypeOK, IdsGivenOnce
    <3>4. ValuesOf(id, presets) = p.values
      BY <3>2, <3>3, PresetFound
    <3>5. id \notin DOMAIN BuiltIn /\ id \in Keys
      BY ProfileAssumption DEF Keys
    <3>6. KeyTells(id, p.values, presets)
      BY <3>2, <3>3, <3>5 DEF KeyTells, IdsDiffer
    <3>7. p.values \in Tunings
      BY <3>3
    <3>8. QED
      BY <2>2, <2>3, <3>1, <3>2, <3>3, <3>4, <3>5, <3>6, <3>7, SelectionStep
  <2>6. QED
    BY <2>4, <2>5
<1>7. QED
  BY <1>2, <1>3, <1>4, <1>5, <1>6

(* Everything is written with the preset it came from.                     *)
LEMMA ApplyInv ==
  ASSUME SettingsInv, ApplyTuning
  PROVE  SettingsInv'
<1> DEFINE key == IF selectedKey = "none" THEN "custom" ELSE selectedKey
<1> USE DEF SettingsInv
<1>1. /\ storage' = [tuning |-> tuning, key |-> key, presets |-> presets]
      /\ activeKey' = key /\ isSaved' = TRUE
      /\ UNCHANGED <<tuning, presets, selectedKey, pointer, usedIds>>
  BY DEF ApplyTuning
<1>2. /\ key \in Keys /\ "custom" \notin PresetIds /\ "custom" \notin DOMAIN BuiltIn
      /\ key \in PresetIds => key \in usedIds
  BY ProfileAssumption DEF ProfileTypeOK, IdsGivenOnce, Keys
<1>3. KeyTells(key, tuning, presets)
  <2>1. CASE selectedKey = "none"
    <3>1. ToSet(presets) \subseteq [id : PresetIds, values : Tunings]
      BY DEF ProfileTypeOK
    <3>2. \A p \in ToSet(presets) : p.id # "custom"
      BY <1>2, <3>1
    <3>3. QED
      BY <1>2, <2>1, <3>2 DEF KeyTells
  <2>2. CASE selectedKey # "none"
    BY <2>2 DEF PresetsTold
  <2>3. QED
    BY <2>1, <2>2
<1> HIDE DEF key
<1>4. storage'.tuning = tuning /\ storage'.key = key /\ storage'.presets = presets
  BY <1>1
<1>5. SettingsTyped' /\ ProfileTypeOK'
  <2>1. storage' \in [tuning : Tunings, key : Keys, presets : Seq(Preset)]
    BY <1>1, <1>2 DEF SettingsTyped, ProfileTypeOK
  <2>2. QED
    BY <1>1, <1>2, <2>1 DEF SettingsTyped, ProfileTypeOK
<1>6. IdsGivenOnce'
  BY <1>1, <1>2, <1>4 DEF IdsGivenOnce
<1>7. PresetsTold'
  BY <1>1, <1>3, <1>4 DEF PresetsTold
<1>8. QED
  BY <1>5, <1>6, <1>7

(* A new preset has the values on screen and an id nobody else has.        *)
LEMMA SaveInv ==
  ASSUME SettingsInv, NEW id \in PresetIds, SaveCustomPreset(id)
  PROVE  SettingsInv'
<1> USE DEF SettingsInv
<1> DEFINE x == [id |-> id, values |-> tuning]
           all == <<x>> \o presets
           m == IF Len(all) < MaxPresets THEN Len(all) ELSE MaxPresets
           next == SubSeq(all, 1, m)
<1>1. /\ id \notin usedIds /\ presets' = next
      /\ storage' = [storage EXCEPT !.presets = next]
      /\ selectedKey' = id /\ isSaved' = FALSE /\ usedIds' = usedIds \cup {id}
      /\ UNCHANGED <<tuning, activeKey, pointer>>
  BY DEF SaveCustomPreset
<1>2. x \in Preset /\ x.id = id /\ x.values = tuning /\ presets \in Seq(Preset)
  BY DEF Preset, ProfileTypeOK, SettingsTyped
<1> HIDE DEF x
<1>3. next \in Seq(Preset) /\ ToSet(next) \subseteq {x} \cup ToSet(presets)
  BY <1>2, PresetOnTop
<1> HIDE DEF next
<1>4. \A p \in ToSet(presets) : p.id # id
  BY <1>1 DEF IdsGivenOnce
<1>5. storage.key # id /\ id \notin DOMAIN BuiltIn /\ id \in Keys
  BY <1>1, ProfileAssumption DEF IdsGivenOnce, Keys
<1>6. /\ storage' \in [tuning : Tunings, key : Keys, presets : Seq(Preset)]
      /\ storage'.presets = next /\ storage'.key = storage.key
      /\ storage'.tuning = storage.tuning
  BY <1>1, <1>3 DEF SettingsTyped
<1>7. ToSet(next) \subseteq Preset
  BY <1>2, <1>3 DEF ProfileTypeOK, Preset
<1>8. SettingsTyped' /\ ProfileTypeOK'
  BY <1>1, <1>3, <1>5, <1>6, <1>7 DEF SettingsTyped, ProfileTypeOK, Preset
<1>9. IdsGivenOnce'
  <2>1. \A p \in ToSet(next) : p.id \in usedIds \cup {id}
    BY <1>2, <1>3 DEF IdsGivenOnce
  <2>2. IdsDiffer(next)
    BY <1>2, <1>3, <1>4 DEF IdsGivenOnce, IdsDiffer
  <2>3. QED
    BY <1>1, <1>6, <2>1, <2>2 DEF IdsGivenOnce
<1>10. PresetsTold'
  <2>1. KeyTells(id, tuning, next)
    BY <1>2, <1>3, <1>4, <1>5 DEF KeyTells
  <2>2. KeyTells(storage.key, storage.tuning, next)
    BY <1>2, <1>3, <1>5 DEF KeyTells, PresetsTold
  <2>3. QED
    BY <1>1, <1>6, <2>1, <2>2 DEF PresetsTold
<1>11. QED
  BY <1>8, <1>9, <1>10

(* A preset goes, and with it the names that meant it.                     *)
LEMMA DeleteInv ==
  ASSUME SettingsInv, NEW id \in PresetIds, DeleteCustomPreset(id)
  PROVE  SettingsInv'
<1> USE DEF SettingsInv
<1> DEFINE K == {p \in ToSet(presets) : p.id # id}
           next == Keeping(presets, K)
           stored == IF activeKey = id THEN "custom" ELSE storage.key
<1>1. /\ presets' = next
      /\ storage' = [storage EXCEPT !.presets = next, !.key = stored]
      /\ selectedKey' = IF selectedKey = id THEN "none" ELSE selectedKey
      /\ activeKey' = IF activeKey = id THEN "none" ELSE activeKey
      /\ isSaved' = FALSE
      /\ UNCHANGED <<tuning, pointer, usedIds>>
  BY DEF DeleteCustomPreset
<1>2. presets \in Seq(Preset)
  BY DEF SettingsTyped
<1>3. next \in Seq(Preset) /\ ToSet(next) = K
  <2>1. next \in Seq(Preset \cap K) /\ ToSet(next) = ToSet(presets) \cap K
    BY <1>2, KeepingType, ToSetKeeping
  <2>2. QED
    BY <2>1
<1> HIDE DEF next
<1>4. /\ "none" \in Keys /\ "custom" \in Keys
      /\ {"none", "custom"} \cap (PresetIds \cup DOMAIN BuiltIn) = {}
  BY ProfileAssumption DEF Keys
<1>5. storage.key \in Keys /\ stored \in Keys
  BY <1>4 DEF SettingsTyped
<1> HIDE DEF stored
<1>6. /\ storage' \in [tuning : Tunings, key : Keys, presets : Seq(Preset)]
      /\ storage'.presets = next /\ storage'.key = stored
      /\ storage'.tuning = storage.tuning
  BY <1>1, <1>3, <1>5 DEF SettingsTyped
<1>7. ToSet(next) \subseteq [id : PresetIds, values : Tunings]
      /\ ToSet(next) \subseteq ToSet(presets)
  BY <1>3 DEF ProfileTypeOK
<1>8. SettingsTyped' /\ ProfileTypeOK'
  BY <1>1, <1>3, <1>4, <1>6, <1>7 DEF SettingsTyped, ProfileTypeOK
<1>9. stored = "custom" \/ stored = storage.key
  BY DEF stored
<1>10. selectedKey' = "none" \/ selectedKey' = selectedKey
  BY <1>1
<1>11. IdsGivenOnce'
  BY <1>1, <1>4, <1>6, <1>7, <1>9, <1>10 DEF IdsGivenOnce, IdsDiffer
<1>12. \A key, values : key \in {"none", "custom"} => KeyTells(key, values, next)
  BY <1>4, <1>7 DEF KeyTells
<1>13. PresetsTold'
  <2>1. KeyTells(selectedKey, tuning, next) /\ KeyTells(storage.key, storage.tuning, next)
    BY <1>7, TellsLess DEF PresetsTold
  <2>2. KeyTells(stored, storage.tuning, next) /\ KeyTells(selectedKey', tuning, next)
    BY <1>9, <1>10, <1>12, <2>1
  <2>3. QED
    BY <1>1, <1>6, <2>2 DEF PresetsTold
<1>14. QED
  BY <1>8, <1>11, <1>13

LEMMA SettingsStep ==
  SettingsInv /\ [ProfileNext \/ ProfileMounts]_profileVars => SettingsInv'
<1> SUFFICES ASSUME SettingsInv, [ProfileNext \/ ProfileMounts]_profileVars
             PROVE  SettingsInv'
  OBVIOUS
<1>1. CASE ProfileMounts
  BY <1>1, SettingsMount
<1>2. CASE \/ TextFields \/ Sliders \/ BuiltInButtons \/ DragScroll
           \/ SavedFades \/ MovedResets
           \/ \E id \in PresetIds : ReleaseOn(id)
  BY <1>2, SelectionInv
<1>3. CASE ApplyTuning
  BY <1>3, ApplyInv
<1>4. CASE SaveForm
  BY <1>4, SaveInv DEF SaveForm
<1>5. CASE \E id \in PresetIds : DeleteCustomPreset(id)
  BY <1>5, DeleteInv
<1>6. CASE UNCHANGED profileVars
  BY <1>6 DEF profileVars, panelProfileVars, SettingsInv, SettingsTyped, ProfileTypeOK,
              IdsGivenOnce, PresetsTold
<1>7. QED
  BY <1>1, <1>2, <1>3, <1>4, <1>5, <1>6 DEF ProfileNext, CustomPresetRows

LEMMA SettingsInvSound == SettingsInv => ProfileTypeOK /\ PresetTellsValues
  BY TellingIsHaving DEF SettingsInv, IdsGivenOnce, PresetsTold, PresetTellsValues
-----------------------------------------------------------------------------

(***************************************************************************)
(* The controls of the chat.  Of the wizard the questions before the one   *)
(* that is shown are answered: that is why the last one can report.        *)
(***************************************************************************)

Wizards == [open : BOOLEAN, step : Steps, answers : [Steps -> BOOLEAN], done : BOOLEAN]
Forms == [endpoint : BOOLEAN, name : LocalNames \cup {""}, saved : BOOLEAN]
Pickers == [query : Queries, provider : Providers \cup {"none"}]
Models == CloudModels \cup LocalModels \cup localOptions

ControlsTyped == services \in Seq(Services) /\ wizard \in Wizards

PickersTyped == picker \in Pickers /\ localForm \in Forms

AskedInOrder == wizard.open => \A s \in Steps : s < wizard.step => wizard.answers[s]

OneMenu == menus = {} \/ \E menu \in Menus : menus = {menu}

NothingLeftOpen ==
  /\ IsInjective(services)
  /\ "brainrot" \in menus => Active("brainrot")
  /\ wizard.open => Active("persona")

ModelShown == selectedModelId \in Models /\ ShownModelIsUsed

(* The inductive invariant of the controls.                                *)
ControlsInv ==
  /\ ControlsTyped /\ PickersTyped /\ AskedInOrder /\ OneMenu
  /\ NothingLeftOpen /\ ModelShown /\ ProfileIsWhole

LEMMA StepsCounted == /\ 0 \in Steps /\ LastStep \in Nat /\ LastStep \in Steps
                      /\ \A s \in Steps : s \in Nat /\ s <= LastStep
  BY ComposerAssumption DEF Steps

LEMMA FreshTyped ==
  /\ FreshWizard \in Wizards /\ ~FreshWizard.open
  /\ FreshForm \in Forms /\ FreshPicker \in Pickers
<1>1. Blank \in [Steps -> BOOLEAN]
  BY DEF Blank
<1>2. FreshWizard \in Wizards /\ ~FreshWizard.open
  BY <1>1, StepsCounted DEF FreshWizard, Wizards
<1>3. FreshForm \in Forms
  BY DEF FreshForm, Forms
<1>4. FreshPicker \in Pickers
  BY DEF FreshPicker, Pickers, Queries, Providers
<1>5. QED
  BY <1>2, <1>3, <1>4

(* No control of the panel is open, and the rest is as it was.             *)
LEMMA FreshPanelInv ==
  ASSUME ControlsInv, PanelMounts,
         services' \in Seq(Services), IsInjective(services'),
         UNCHANGED <<selectedModelId, shownModelId, localOptions, localLlmConfig, profile>>
  PROVE  ControlsInv'
<1>1. menus' = {} /\ picker' = FreshPicker /\ localForm' = FreshForm
      /\ wizard' = FreshWizard
  BY DEF PanelMounts
<1>2. ControlsTyped' /\ PickersTyped'
  BY <1>1, FreshTyped DEF ControlsTyped, PickersTyped
<1>3. AskedInOrder' /\ OneMenu' /\ NothingLeftOpen'
  BY <1>1, FreshTyped DEF AskedInOrder, OneMenu, NothingLeftOpen
<1>4. ModelShown' /\ ProfileIsWhole'
  BY DEF ControlsInv, ModelShown, ShownModelIsUsed, Models, ProfileIsWhole
<1>5. QED
  BY <1>2, <1>3, <1>4 DEF ControlsInv

LEMMA ControlsInit == ComposerInit => ControlsInv
<1> SUFFICES ASSUME ComposerInit PROVE ControlsInv
  OBVIOUS
<1>1. menus = {} /\ picker = FreshPicker /\ localForm = FreshForm /\ wizard = FreshWizard
  BY DEF ComposerInit, PanelFresh
<1>2. services = <<>> /\ services \in Seq(Services) /\ IsInjective(services)
  BY DEF ComposerInit, IsInjective
<1>3. ControlsTyped /\ PickersTyped
  BY <1>1, <1>2, FreshTyped DEF ControlsTyped, PickersTyped
<1>4. AskedInOrder /\ OneMenu /\ NothingLeftOpen
  BY <1>1, <1>2, FreshTyped DEF AskedInOrder, OneMenu, NothingLeftOpen
<1>5. ModelShown /\ ProfileIsWhole
  BY DEF ComposerInit, ModelShown, ShownModelIsUsed, Models, ProfileIsWhole
<1>6. QED
  BY <1>3, <1>4, <1>5 DEF ControlsInv

(* The panel mounts, alone or with the local model's form.                 *)
LEMMA ControlsMount ==
  ASSUME ControlsInv, OpenLocalLlmSetup \/ (PanelMounts /\ UNCHANGED appComposerVars)
  PROVE  ControlsInv'
<1>0. services \in Seq(Services) /\ IsInjective(services)
  BY DEF ControlsInv, ControlsTyped, NothingLeftOpen
<1>1. /\ PanelMounts
      /\ UNCHANGED <<selectedModelId, shownModelId, localOptions, localLlmConfig, profile>>
  BY DEF OpenLocalLlmSetup, appComposerVars
<1>2. CASE services' = services
  BY <1>0, <1>1, <1>2, FreshPanelInv
<1>3. CASE services' # services
  <2>1. services' = Append(services, "localConfigurator")
        /\ "localConfigurator" \notin ToSet(services)
    BY <1>3 DEF OpenLocalLlmSetup, appComposerVars, Active
  <2>2. "localConfigurator" \in Services
    BY ComposerAssumption
  <2>3. services' \in Seq(Services) /\ IsInjective(services')
    BY <1>0, <2>1, <2>2, InjectiveAppend, AppendProperties
  <2>4. QED
    BY <1>1, <2>3, FreshPanelInv
<1>4. QED
  BY <1>2, <1>3

-----------------------------------------------------------------------------

AppKept == UNCHANGED <<selectedModelId, shownModelId, localOptions, profile>>

LEMMA AppKeptInv ==
  ASSUME ControlsInv, AppKept
  PROVE  ModelShown' /\ ProfileIsWhole'
  BY DEF ControlsInv, AppKept, ModelShown, ShownModelIsUsed, Models, ProfileIsWhole

(* Menus open and close.                                                   *)
LEMMA MenusInv ==
  ASSUME ControlsInv,
         \/ \E menu \in Menus : ToggleMenu(menu) \/ PickItem(menu)
         \/ CloseTransientMenus
  PROVE  ControlsInv'
<1> USE DEF ControlsInv
<1>1. UNCHANGED <<services, picker, localForm, wizard>> /\ AppKept
  BY DEF ToggleMenu, PickItem, CloseTransientMenus, appComposerVars, AppKept
<1>2. OneMenu' /\ ("brainrot" \in menus' => Active("brainrot"))
  <2>1. CASE CloseTransientMenus
    BY <2>1 DEF CloseTransientMenus, OneMenu
  <2>2. ASSUME NEW menu \in Menus, ToggleMenu(menu)
        PROVE  OneMenu' /\ ("brainrot" \in menus' => Active("brainrot"))
    <3>1. menus' = {menu} \ menus /\ (menu = "brainrot" => Active("brainrot"))
      BY <2>2 DEF ToggleMenu, CanToggle
    <3>2. menus' = {} \/ menus' = {menu}
      BY <3>1
    <3>3. QED
      BY <3>1, <3>2 DEF OneMenu
  <2>3. ASSUME NEW menu \in Menus, PickItem(menu)
        PROVE  OneMenu' /\ ("brainrot" \in menus' => Active("brainrot"))
    <3>1. menus' = menus \ {menu}
      BY <2>3 DEF PickItem
    <3>2. QED
      BY <3>1 DEF OneMenu, NothingLeftOpen
  <2>4. QED
    BY <2>1, <2>2, <2>3
<1>3. ControlsTyped' /\ PickersTyped' /\ AskedInOrder'
  BY <1>1 DEF ControlsTyped, PickersTyped, AskedInOrder
<1>4. NothingLeftOpen'
  BY <1>1, <1>2 DEF NothingLeftOpen, Active
<1>5. ModelShown' /\ ProfileIsWhole'
  BY <1>1, AppKeptInv
<1>6. QED
  BY <1>2, <1>3, <1>4, <1>5

(* A service is added once.                                                *)
LEMMA SelectServiceInv ==
  ASSUME ControlsInv, NEW service \in Services, SelectService(service)
  PROVE  ControlsInv'
<1> USE DEF ControlsInv
<1>1. /\ service \notin ToSet(services) /\ services' = Append(services, service)
      /\ UNCHANGED <<picker, localForm>> /\ AppKept
      /\ menus' = menus \ {"services"} \/ menus' = menus
  BY DEF SelectService, Active, AppKept
<1>2. services \in Seq(Services) /\ IsInjective(services)
  BY DEF ControlsTyped, NothingLeftOpen
<1>3. /\ services' \in Seq(Services) /\ IsInjective(services')
      /\ ToSet(services') = ToSet(services) \cup {service}
  BY <1>1, <1>2, InjectiveAppend, AppendProperties, ToSetAppend
<1>4. \/ wizard' = wizard
      \/ service = "persona" /\ wizard' = [wizard EXCEPT !.open = TRUE, !.step = 0]
  BY DEF SelectService
<1>5. wizard \in Wizards
  BY DEF ControlsTyped
<1>6. wizard' \in Wizards /\ AskedInOrder' /\ (wizard'.open => Active("persona")')
  <2>1. CASE wizard' = wizard
    BY <1>3, <1>5, <2>1 DEF AskedInOrder, NothingLeftOpen, Active
  <2>2. CASE service = "persona" /\ wizard' = [wizard EXCEPT !.open = TRUE, !.step = 0]
    <3>1. wizard' \in Wizards /\ wizard'.step = 0
      BY <1>5, <2>2, StepsCounted DEF Wizards
    <3>2. \A s \in Steps : ~(s < 0)
      BY StepsCounted
    <3>3. QED
      BY <1>3, <2>2, <3>1, <3>2 DEF AskedInOrder, Active
  <2>3. QED
    BY <1>4, <2>1, <2>2
<1>7. OneMenu' /\ ("brainrot" \in menus' => Active("brainrot")')
  BY <1>1, <1>3 DEF OneMenu, NothingLeftOpen, Active
<1>8. PickersTyped'
  BY <1>1 DEF PickersTyped
<1>9. ModelShown' /\ ProfileIsWhole'
  BY <1>1, AppKeptInv
<1>10. QED
  BY <1>3, <1>6, <1>7, <1>8, <1>9 DEF ControlsTyped, NothingLeftOpen

(* What a service opened goes with it.                                     *)
LEMMA RemoveServiceInv ==
  ASSUME ControlsInv, NEW service \in Services, RemoveService(service)
  PROVE  ControlsInv'
<1> USE DEF ControlsInv
<1>1. /\ services' = Keeping(services, Services \ {service})
      /\ menus' = IF service = "brainrot" THEN menus \ {"brainrot"} ELSE menus
      /\ wizard' = IF service = "persona" THEN FreshWizard ELSE wizard
      /\ UNCHANGED <<picker, localForm>> /\ AppKept
  BY DEF RemoveService, AppKept
<1>2. services \in Seq(Services) /\ IsInjective(services)
  BY DEF ControlsTyped, NothingLeftOpen
<1>3. /\ services' \in Seq(Services \cap (Services \ {service}))
      /\ IsInjective(services')
      /\ ToSet(services') = ToSet(services) \cap (Services \ {service})
  BY <1>1, <1>2, KeepingType, KeepingInjective, ToSetKeeping
<1>4. services' \in Seq(Services)
  BY <1>3
<1>5. ToSet(services) \subseteq Services
  BY <1>2 DEF ToSet
<1>6. \A other \in Services : other # service /\ Active(other) => Active(other)'
  BY <1>3 DEF Active
<1>7. wizard' \in Wizards /\ AskedInOrder' /\ (wizard'.open => Active("persona")')
  <2>1. wizard \in Wizards
    BY DEF ControlsTyped
  <2>2. CASE service = "persona"
    BY <1>1, <2>2, FreshTyped DEF AskedInOrder
  <2>3. CASE service # "persona"
    <3>1. wizard' = wizard
      BY <1>1, <2>3
    <3>2. wizard.open => "persona" \in ToSet(services)
      BY DEF NothingLeftOpen, Active
    <3>3. QED
      BY <1>3, <1>5, <2>1, <2>3, <3>1, <3>2 DEF AskedInOrder, Active
  <2>4. QED
    BY <2>2, <2>3
<1>8. OneMenu' /\ ("brainrot" \in menus' => Active("brainrot")')
  <2>1. "brainrot" \in menus => "brainrot" \in ToSet(services)
    BY DEF NothingLeftOpen, Active
  <2>2. QED
    BY <1>1, <1>3, <1>5, <2>1 DEF OneMenu, Active
<1>9. PickersTyped'
  BY <1>1 DEF PickersTyped
<1>10. ModelShown' /\ ProfileIsWhole'
  BY <1>1, AppKeptInv
<1>11. QED
  BY <1>3, <1>4, <1>7, <1>8, <1>9, <1>10 DEF ControlsTyped, NothingLeftOpen

-----------------------------------------------------------------------------

LEMMA SettledTyped ==
  ASSUME NEW query \in Queries, NEW hovered \in Providers \cup {"none"}
  PROVE  Settled(query, hovered) \in Pickers
<1>1. Filtered(query) \subseteq Providers
  BY DEF Filtered
<1>2. ActiveProvider(query, hovered) \in Providers \cup {"none"}
  BY <1>1 DEF ActiveProvider, Providers
<1>3. QED
  BY <1>2 DEF Settled, Pickers

(* A listed model that is chosen is the one shown.                         *)
LEMMA ChosenIsShown ==
  ASSUME ShownModelIsUsed, NEW options, NEW id \in CloudModels \cup LocalModels \cup options,
         ChooseModel(id, options)
  PROVE  selectedModelId' = id /\ shownModelId' = id
  BY DEF ChooseModel, ShownModelIsUsed

LEMMA PickerInv ==
  ASSUME ControlsInv, ModelPicker
  PROVE  ControlsInv'
<1> USE DEF ControlsInv
<1>0. picker.query \in Queries /\ picker.provider \in Providers \cup {"none"}
  BY DEF PickersTyped, Pickers
<1>1. UNCHANGED <<services, localOptions, profile, localForm, wizard>>
  BY DEF ModelPicker, SearchModel, HoverProvider, SelectModel, appComposerVars
<1>2. picker' \in Pickers
  <2>1. PICK query \in Queries, provider \in Providers \cup {"none"} :
          picker' = Settled(query, provider)
    <3>1. CASE \E query \in Queries : SearchModel(query)
      BY <1>0, <3>1 DEF SearchModel
    <3>2. CASE \E provider \in Providers \cup {"none"} : HoverProvider(provider)
      BY <1>0, <3>2 DEF HoverProvider
    <3>3. CASE \E id \in CloudModels \cup LocalModels \cup localOptions : SelectModel(id)
      BY <1>0, <3>3 DEF SelectModel
    <3>4. QED
      BY <3>1, <3>2, <3>3 DEF ModelPicker
  <2>2. QED
    BY <2>1, SettledTyped
<1>3. /\ menus' = menus \/ menus' = menus \ {"model"}
      /\ ModelShown'
  <2>1. CASE UNCHANGED <<menus, selectedModelId, shownModelId>>
    BY <1>1, <2>1 DEF ModelShown, Models, ShownModelIsUsed
  <2>2. CASE \E id \in Models : SelectModel(id)
    <3>1. PICK id \in Models : SelectModel(id)
      BY <2>2
    <3>2. ShownModelIsUsed /\ ChooseModel(id, localOptions) /\ menus' = menus \ {"model"}
      BY <3>1 DEF SelectModel, ModelShown
    <3>3. selectedModelId' = id /\ shownModelId' = id
      BY <3>2, ChosenIsShown DEF Models
    <3>4. QED
      BY <1>1, <3>2, <3>3 DEF ModelShown, Models, ShownModelIsUsed
  <2>3. QED
    BY <2>1, <2>2 DEF ModelPicker, SearchModel, HoverProvider, appComposerVars, Models
<1>4. ControlsTyped' /\ PickersTyped' /\ AskedInOrder' /\ ProfileIsWhole'
  BY <1>1, <1>2 DEF ControlsTyped, PickersTyped, AskedInOrder, ProfileIsWhole
<1>5. OneMenu' /\ NothingLeftOpen'
  BY <1>1, <1>3 DEF OneMenu, NothingLeftOpen, Active
<1>6. QED
  BY <1>3, <1>4, <1>5

(* The model that is saved is listed and shown with one update.            *)
LEMMA LocalFormInv ==
  ASSUME ControlsInv, LocalLlmConfigPanel
  PROVE  ControlsInv'
<1> USE DEF ControlsInv
<1>1. UNCHANGED <<services, profile, menus, picker, wizard>>
  BY DEF LocalLlmConfigPanel, EditLocalForm, SubmitLocalForm, appComposerVars
<1>2. localForm' \in Forms
  <2>1. CASE SubmitLocalForm
    <3>1. localForm \in Forms /\ CanSave \in BOOLEAN
      BY DEF PickersTyped, CanSave, Forms
    <3>2. QED
      BY <2>1, <3>1 DEF SubmitLocalForm, Forms
  <2>2. CASE \E endpoint \in BOOLEAN, name \in LocalNames \cup {""} :
               EditLocalForm(endpoint, name)
    <3>1. PICK endpoint \in BOOLEAN, name \in LocalNames \cup {""} :
            localForm' = [endpoint |-> endpoint, name |-> name, saved |-> FALSE]
      BY <2>2 DEF EditLocalForm
    <3>2. QED
      BY <3>1 DEF Forms
  <2>3. QED
    BY <2>1, <2>2 DEF LocalLlmConfigPanel
<1>3. ModelShown'
  <2>1. CASE UNCHANGED <<localOptions, selectedModelId, shownModelId>>
    BY <2>1 DEF ModelShown, Models, ShownModelIsUsed
  <2>2. CASE SubmitLocalForm /\ CanSave
    <3>1. PICK id : /\ id = LocalId(localForm.name)
                    /\ localOptions' = localOptions \cup {id}
                    /\ ChooseModel(id, localOptions')
      BY <2>2 DEF SubmitLocalForm
    <3>2. id \in localOptions' /\ ShownModelIsUsed
      BY <3>1 DEF ModelShown
    <3>3. selectedModelId' = id /\ shownModelId' = id
      BY <3>1, <3>2, ChosenIsShown
    <3>4. QED
      BY <3>2, <3>3 DEF ModelShown, Models, ShownModelIsUsed
  <2>3. QED
    BY <2>1, <2>2 DEF LocalLlmConfigPanel, EditLocalForm, SubmitLocalForm, appComposerVars
<1>4. ControlsTyped' /\ PickersTyped' /\ AskedInOrder' /\ ProfileIsWhole'
  BY <1>1, <1>2 DEF ControlsTyped, PickersTyped, AskedInOrder, ProfileIsWhole
<1>5. OneMenu' /\ NothingLeftOpen'
  BY <1>1 DEF OneMenu, NothingLeftOpen, Active
<1>6. QED
  BY <1>3, <1>4, <1>5

(* The wizard asks in order and reports when all is answered.              *)
LEMMA WizardInv ==
  ASSUME ControlsInv, PersonaWizard
  PROVE  ControlsInv'
<1> USE DEF ControlsInv
<1>0. /\ wizard.open \in BOOLEAN /\ wizard.step \in Steps
      /\ wizard.answers \in [Steps -> BOOLEAN] /\ wizard.done \in BOOLEAN
      /\ wizard \in Wizards
  BY DEF ControlsTyped, Wizards
<1>1. /\ wizard.open
      /\ UNCHANGED <<services, selectedModelId, shownModelId, localOptions, menus,
                     picker, localForm>>
  BY DEF PersonaWizard, AnswerQuestion, CloseWizard, WizardBack, WizardNext,
         WizardFinish, CanAdvance, appComposerVars
<1>2. Active("persona") /\ \A s \in Steps : s < wizard.step => wizard.answers[s]
  BY <1>1 DEF NothingLeftOpen, AskedInOrder
<1>3. wizard' \in Wizards /\ AskedInOrder' /\ ProfileIsWhole'
  <2>1. CASE \E given \in BOOLEAN : AnswerQuestion(given)
    <3>1. PICK given \in BOOLEAN :
            wizard' = [wizard EXCEPT !.answers[wizard.step] = given] /\ profile' = profile
      BY <2>1 DEF AnswerQuestion, appComposerVars
    <3>2. /\ wizard'.answers = [wizard.answers EXCEPT ![wizard.step] = given]
          /\ wizard'.step = wizard.step
          /\ wizard' = [wizard EXCEPT !.answers = wizard'.answers]
      BY <1>0, <3>1 DEF Wizards
    <3>3. /\ wizard'.answers \in [Steps -> BOOLEAN]
          /\ \A s \in Steps : s # wizard.step => wizard'.answers[s] = wizard.answers[s]
      BY <1>0, <3>2
    <3>4. wizard' \in Wizards
      BY <1>0, <3>2, <3>3 DEF Wizards
    <3>5. \A s \in Steps : s < wizard.step => s # wizard.step
      <4>1. \A m, n \in Nat : m < n => m # n
        OBVIOUS
      <4>2. wizard.step \in Nat /\ \A s \in Steps : s \in Nat
        BY <1>0, StepsCounted
      <4>3. QED
        BY <4>1, <4>2
    <3>6. ASSUME NEW s \in Steps, s < wizard'.step
          PROVE  wizard'.answers[s]
      <4>1. s < wizard.step
        BY <3>2, <3>6
      <4>2. wizard.answers[s] /\ s # wizard.step
        BY <1>2, <3>5, <4>1
      <4>3. QED
        BY <3>3, <4>2
    <3>7. AskedInOrder'
      BY <3>6 DEF AskedInOrder
    <3>8. ProfileIsWhole'
      BY <3>1 DEF ProfileIsWhole
    <3>9. QED
      BY <3>4, <3>7, <3>8
  <2>2. CASE CloseWizard
    <3>1. wizard' = [wizard EXCEPT !.open = FALSE] /\ profile' = profile
      BY <2>2 DEF CloseWizard, appComposerVars
    <3>2. wizard' \in Wizards /\ ~wizard'.open
      BY <1>0, <3>1 DEF Wizards
    <3>3. QED
      BY <3>1, <3>2 DEF AskedInOrder, ProfileIsWhole
  <2>3. CASE WizardBack
    <3>1. /\ wizard' = IF wizard.step = 0 THEN [wizard EXCEPT !.open = FALSE]
                       ELSE [wizard EXCEPT !.step = @ - 1]
          /\ profile' = profile
      BY <2>3 DEF WizardBack, appComposerVars
    <3>2. CASE wizard.step = 0
      <4>1. wizard' \in Wizards /\ ~wizard'.open
        BY <1>0, <3>1, <3>2 DEF Wizards
      <4>2. QED
        BY <3>1, <4>1 DEF AskedInOrder, ProfileIsWhole
    <3>3. CASE wizard.step # 0
      <4>1. wizard.step - 1 \in Steps
        BY <1>0, <3>3, ComposerAssumption DEF Steps
      <4>2. /\ wizard' \in Wizards /\ wizard'.step = wizard.step - 1
            /\ wizard'.answers = wizard.answers
        BY <1>0, <3>1, <3>3, <4>1 DEF Wizards
      <4>3. \A s \in Steps : s < wizard.step - 1 => s < wizard.step
        <5>1. PICK n \in Nat : n = wizard.step
          BY <1>0, StepsCounted
        <5>2. \A s \in Nat : s < n - 1 => s < n
          OBVIOUS
        <5>3. QED
          BY <5>1, <5>2, StepsCounted
      <4>4. QED
        BY <1>2, <3>1, <4>2, <4>3 DEF AskedInOrder, ProfileIsWhole
    <3>4. QED
      BY <3>2, <3>3
  <2>4. CASE WizardNext
    <3>1. /\ wizard.answers[wizard.step] /\ wizard.step < LastStep
          /\ wizard' = [wizard EXCEPT !.step = @ + 1] /\ profile' = profile
      BY <2>4 DEF WizardNext, CanAdvance, appComposerVars
    <3>2. wizard.step + 1 \in Steps
      BY <1>0, <3>1, ComposerAssumption DEF Steps
    <3>3. /\ wizard' \in Wizards /\ wizard'.step = wizard.step + 1
          /\ wizard'.answers = wizard.answers
      BY <1>0, <3>1, <3>2 DEF Wizards
    <3>4. \A s \in Steps : s < wizard.step + 1 => s < wizard.step \/ s = wizard.step
      <4>1. PICK n \in Nat : n = wizard.step
        BY <1>0, StepsCounted
      <4>2. \A s \in Nat : s < n + 1 => s < n \/ s = n
        OBVIOUS
      <4>3. QED
        BY <4>1, <4>2, StepsCounted
    <3>5. \A s \in Steps : s < wizard.step + 1 => wizard.answers[s]
      BY <1>2, <3>1, <3>4
    <3>6. QED
      BY <3>1, <3>3, <3>5 DEF AskedInOrder, ProfileIsWhole
  <2>5. CASE WizardFinish
    <3>1. /\ wizard.answers[wizard.step] /\ wizard.step = LastStep
          /\ wizard' = [wizard EXCEPT !.done = TRUE, !.open = FALSE]
          /\ profile' = wizard.answers
      BY <2>5 DEF WizardFinish, CanAdvance
    <3>2. wizard' \in Wizards /\ ~wizard'.open
      BY <1>0, <3>1 DEF Wizards
    <3>3. \A s \in Steps : s < wizard.step \/ s = wizard.step
      BY <1>0, <3>1, StepsCounted
    <3>4. \A s \in Steps : wizard.answers[s]
      BY <1>2, <3>1, <3>3
    <3>5. QED
      BY <3>1, <3>2, <3>4 DEF AskedInOrder, ProfileIsWhole
  <2>6. QED
    BY <2>1, <2>2, <2>3, <2>4, <2>5 DEF PersonaWizard
<1>4. ControlsTyped' /\ PickersTyped' /\ OneMenu' /\ ModelShown'
  BY <1>1, <1>3 DEF ControlsTyped, PickersTyped, OneMenu, ModelShown, Models,
                    ShownModelIsUsed
<1>5. NothingLeftOpen'
  BY <1>1, <1>2 DEF NothingLeftOpen, Active
<1>6. QED
  BY <1>3, <1>4, <1>5

-----------------------------------------------------------------------------

ComposerMounts == OpenLocalLlmSetup \/ (PanelMounts /\ UNCHANGED appComposerVars)

LEMMA ControlsStep ==
  ControlsInv /\ [ComposerNext \/ ComposerMounts]_composerVars => ControlsInv'
<1> SUFFICES ASSUME ControlsInv, [ComposerNext \/ ComposerMounts]_composerVars
             PROVE  ControlsInv'
  OBVIOUS
<1>1. CASE ComposerMounts
  BY <1>1, ControlsMount DEF ComposerMounts
<1>2. CASE \/ \E menu \in Menus : ToggleMenu(menu) \/ PickItem(menu)
           \/ CloseTransientMenus
  BY <1>2, MenusInv
<1>3. CASE ModelPicker
  BY <1>3, PickerInv
<1>4. CASE ServiceBubbles
  BY <1>4, RemoveServiceInv DEF ServiceBubbles
<1>5. CASE \E service \in Services : SelectService(service)
  BY <1>5, SelectServiceInv
<1>6. CASE LocalLlmConfigPanel
  BY <1>6, LocalFormInv
<1>7. CASE PersonaWizard
  BY <1>7, WizardInv
<1>8. CASE UNCHANGED composerVars
  BY <1>8 DEF composerVars, appComposerVars, panelComposerVars, ControlsInv,
              ControlsTyped, PickersTyped, AskedInOrder, OneMenu, NothingLeftOpen,
              Active, ModelShown, Models, ShownModelIsUsed, ProfileIsWhole
<1>9. {"attach", "services", "model", "brainrot"} = Menus
  BY DEF Menus
<1>10. QED
  BY <1>1, <1>2, <1>3, <1>4, <1>5, <1>6, <1>7, <1>8, <1>9
  DEF ComposerNext, ModelBar, ServicesMenu, BrainrotPicker, AttachMenu

LEMMA ControlsInvSound ==
  ControlsInv =>
    ComposerTypeOK /\ ControlsConsistent /\ ShownModelIsUsed /\ ProfileIsWhole
<1> SUFFICES ASSUME ControlsInv
             PROVE  ComposerTypeOK /\ ControlsConsistent
  BY DEF ControlsInv, ModelShown
<1> USE DEF ControlsInv
<1>1. ToSet(services) \subseteq Services
  BY DEF ControlsTyped, ToSet
<1>2. picker.query \in Queries /\ picker.provider \in Providers \cup {"none"}
      /\ localForm.name \in LocalNames \cup {""} /\ wizard.step \in Steps
  BY DEF ControlsTyped, PickersTyped, Pickers, Forms, Wizards
<1>3. menus \subseteq Menus /\ Cardinality(menus) <= 1
  <2>1. CASE menus = {}
    BY <2>1, FS_EmptySet
  <2>2. CASE \E menu \in Menus : menus = {menu}
    <3>1. PICK menu \in Menus : menus = {menu}
      BY <2>2
    <3>2. Cardinality({menu}) = 1
      BY FS_Singleton
    <3>3. QED
      BY <3>1, <3>2
  <2>3. QED
    BY <2>1, <2>2 DEF OneMenu
<1>4. selectedModelId \in CloudModels \cup LocalModels \cup localOptions
  BY DEF ModelShown, Models
<1>5. QED
  BY <1>1, <1>2, <1>3, <1>4 DEF ComposerTypeOK, ControlsConsistent, NothingLeftOpen
-----------------------------------------------------------------------------

(***************************************************************************)
(* The list of documents.  While it is shown and no change was missed, the *)
(* server's rows are the list without the documents whose deletion is done *)
(* there and not yet here, below the file that is stored there and not yet *)
(* here.                                                                   *)
(***************************************************************************)

Done == {d \in InFlight : deletions[d] = "done"}

Pending == IF upload.stored /\ upload.doc \notin ToSet(documents)
           THEN <<upload.doc>> ELSE <<>>

Uploads == [left : 0..MaxBatch, doc : Docs \cup {NoDoc}, stored : BOOLEAN, failed : BOOLEAN,
            overtaken : BOOLEAN]
Requests == [at : {"none", "sent", "read"}, list : Seq(Docs), old : BOOLEAN]

ListTyped ==
  /\ rows \in Seq(Docs) /\ documents \in Seq(Docs)
  /\ listRequest \in Requests /\ upload \in Uploads
  /\ InFlight \subseteq Docs
  /\ strayFiles \in Nat /\ strayDeletions \subseteq Docs

MarksTyped ==
  /\ docsLoading \in BOOLEAN /\ docsError \in BOOLEAN
  /\ isUploading \in BOOLEAN /\ behind \in BOOLEAN
  /\ pendingDeleteId \in Docs \cup {NoDoc}
  /\ docsStatus \in {"none", "ok", "error"}

(* Nothing is deleted from a list that is not shown, and nothing is        *)
(* uploaded while nothing is.                                              *)
Phases ==
  /\ docsLoading <=> listRequest.at # "none"
  /\ docsLoading => ~docsError
  /\ ~ListShown => InFlight = {}
  /\ ~isUploading => upload = NoUpload
  /\ upload.doc # NoDoc \/ upload.stored => upload.left # 0

(* An answer that has not grown old is what the server has.                *)
AnswerIsRows ==
  /\ listRequest.old => listRequest.at = "read"
  /\ listRequest.at = "read" /\ ~listRequest.old => listRequest.list = rows

(* A file that is not stored yet has an id nothing else has.               *)
NewIsNew ==
  ~upload.stored /\ upload.doc # NoDoc =>
    upload.doc \notin ToSet(rows) \cup ToSet(documents)
                      \cup ToSet(listRequest.list) \cup InFlight \cup strayDeletions

(* One that is stored is there, and on top unless a file of an earlier     *)
(* mount came after it.                                                    *)
StoredOnTop ==
  upload.stored =>
    /\ upload.doc \in Docs \ strayDeletions
    /\ ~behind \/ ~ListShown =>
         /\ upload.doc \in ToSet(rows)
         /\ ~upload.overtaken => rows = <<upload.doc>> \o Without(rows, upload.doc)
    /\ ~behind => upload.doc \notin Done

RowsToCome == ListShown /\ ~behind => rows = Pending \o Keeping(documents, Docs \ Done)

(* The inductive invariant of the list.                                    *)
ListInv ==
  /\ ListTyped /\ MarksTyped /\ Phases /\ AnswerIsRows
  /\ NewIsNew /\ StoredOnTop /\ RowsToCome

LEMMA NoUploadTyped ==
  NoUpload \in Uploads /\ ~NoUpload.stored /\ NoUpload.doc = NoDoc /\ ~NoUpload.overtaken
  BY DocsAssumption DEF NoUpload, Uploads

LEMMA RequestTyped ==
  ASSUME NEW at \in {"none", "sent", "read"}, NEW list \in Seq(Docs)
  PROVE  /\ Request(at, list) \in Requests /\ Request(at, list).at = at
         /\ Request(at, list).list = list /\ ~Request(at, list).old
  BY DEF Request, Requests

LEMMA EmptyIsList == <<>> \in Seq(Docs) /\ ToSet(<<>>) = {} /\ DOMAIN <<>> = {}
<1>1. <<>> \in Seq(Docs) /\ DOMAIN <<>> = {}
  OBVIOUS
<1>2. QED
  BY <1>1 DEF ToSet

(* A page that just came asks for the list.                                *)
LEMMA ListInit == DocsInit => ListInv
<1> SUFFICES ASSUME DocsInit PROVE ListInv
  OBVIOUS
<1>1. /\ documents = <<>> /\ docsLoading = TRUE /\ docsError = FALSE
      /\ listRequest = Request("sent", <<>>)
      /\ isUploading = FALSE /\ upload = NoUpload
      /\ pendingDeleteId = NoDoc /\ deletions = <<>>
      /\ docsStatus = "none" /\ behind = FALSE
      /\ rows = <<>> /\ strayFiles = 0 /\ strayDeletions = {}
  BY DEF DocsInit
<1>2. InFlight = {} /\ ~ListShown
  BY <1>1, EmptyIsList DEF InFlight, ListShown
<1>3. /\ listRequest \in Requests /\ listRequest.at = "sent" /\ ~listRequest.old
  BY <1>1, EmptyIsList, RequestTyped
<1>4. ListTyped /\ MarksTyped
  BY <1>1, <1>2, <1>3, EmptyIsList, NoUploadTyped DEF ListTyped, MarksTyped
<1>5. Phases /\ AnswerIsRows
  BY <1>1, <1>2, <1>3, NoUploadTyped DEF Phases, AnswerIsRows
<1>6. NewIsNew /\ StoredOnTop /\ RowsToCome
  BY <1>1, <1>2, NoUploadTyped DEF NewIsNew, StoredOnTop, RowsToCome
<1>7. QED
  BY <1>4, <1>5, <1>6 DEF ListInv

(* So does one that came back; of the last one the files and the deletions *)
(* that the server has yet to see go on.                                   *)
LEMMA ListMount ==
  ASSUME ListInv, DocsMounts
  PROVE  ListInv'
<1>1. /\ rows \in Seq(Docs) /\ strayFiles \in Nat /\ strayDeletions \subseteq Docs
      /\ InFlight \subseteq Docs
  BY DEF ListInv, ListTyped
<1>2. upload.left \in Nat /\ (upload.stored => upload.left # 0)
  <2>1. upload.left \in Nat
    BY DocsAssumption DEF ListInv, ListTyped, Uploads
  <2>2. QED
    BY <2>1 DEF ListInv, Phases
<1>3. strayFiles' \in Nat
  <2>1. strayFiles' = strayFiles + upload.left
        \/ (strayFiles' = strayFiles + (upload.left - 1) /\ upload.left # 0)
    BY <1>2 DEF DocsMounts
  <2>2. QED
    BY <1>1, <1>2, <2>1
<1>4. /\ documents' = <<>> /\ docsLoading' = TRUE /\ docsError' = FALSE
      /\ listRequest' = Request("sent", <<>>)
      /\ isUploading' = FALSE /\ upload' = NoUpload
      /\ pendingDeleteId' = NoDoc /\ deletions' = <<>>
      /\ docsStatus' = "none" /\ behind' = FALSE /\ rows' = rows
      /\ strayDeletions' \subseteq strayDeletions \cup InFlight
  BY DEF DocsMounts
<1>5. InFlight' = {} /\ ~ListShown'
  BY <1>4, EmptyIsList DEF InFlight, ListShown
<1>6. /\ listRequest' \in Requests /\ listRequest'.at = "sent" /\ ~listRequest'.old
  BY <1>4, EmptyIsList, RequestTyped
<1>7. ListTyped' /\ MarksTyped'
  BY <1>1, <1>3, <1>4, <1>5, <1>6, EmptyIsList, NoUploadTyped DEF ListTyped, MarksTyped
<1>8. Phases' /\ AnswerIsRows'
  BY <1>4, <1>5, <1>6, NoUploadTyped DEF Phases, AnswerIsRows
<1>9. NewIsNew' /\ StoredOnTop' /\ RowsToCome'
  BY <1>4, <1>5, NoUploadTyped DEF NewIsNew, StoredOnTop, RowsToCome
<1>10. QED
  BY <1>7, <1>8, <1>9 DEF ListInv

-----------------------------------------------------------------------------
(* The list is asked for again, read, answered, or refused.                *)

LEMMA RetryInv ==
  ASSUME ListInv, RetryList
  PROVE  ListInv'
<1> USE DEF ListInv
<1>1. /\ docsLoading' = TRUE /\ docsError' = FALSE /\ docsError
      /\ listRequest' = Request("sent", <<>>)
      /\ UNCHANGED <<rows, documents, behind, isUploading, upload, pendingDeleteId,
                     deletions, docsStatus, strayFiles, strayDeletions>>
  BY DEF RetryList, ListKeptAt, strays
<1>2. ~ListShown /\ ~ListShown' /\ InFlight = {} /\ InFlight' = InFlight
  BY <1>1 DEF ListShown, Phases, InFlight
<1>3. /\ listRequest' \in Requests /\ listRequest'.at = "sent" /\ ~listRequest'.old
      /\ ToSet(listRequest'.list) = {}
  BY <1>1, EmptyIsList, RequestTyped
<1>4. ListTyped' /\ MarksTyped'
  BY <1>1, <1>2, <1>3 DEF ListTyped, MarksTyped
<1>5. Phases' /\ AnswerIsRows'
  BY <1>1, <1>2, <1>3 DEF Phases, AnswerIsRows
<1>6. NewIsNew' /\ StoredOnTop' /\ RowsToCome'
  BY <1>1, <1>2, <1>3 DEF NewIsNew, StoredOnTop, RowsToCome, Done
<1>7. QED
  BY <1>4, <1>5, <1>6

LEMMA ReadInv ==
  ASSUME ListInv, ListRead
  PROVE  ListInv'
<1> USE DEF ListInv
<1>1. /\ listRequest.at = "sent" /\ listRequest' = Request("read", rows)
      /\ UNCHANGED <<rows, documents, docsLoading, docsError, behind, isUploading,
                     upload, pendingDeleteId, deletions, docsStatus, strayFiles,
                     strayDeletions>>
  BY DEF ListRead, ListKeptAt, strays
<1>2. ~ListShown /\ ~ListShown' /\ InFlight = {} /\ InFlight' = InFlight
  BY <1>1 DEF ListShown, Phases, InFlight
<1>3. /\ listRequest' \in Requests /\ listRequest'.at = "read" /\ ~listRequest'.old
      /\ listRequest'.list = rows
  BY <1>1, RequestTyped DEF ListTyped
<1>4. ListTyped' /\ MarksTyped'
  BY <1>1, <1>2, <1>3 DEF ListTyped, MarksTyped
<1>5. Phases' /\ AnswerIsRows'
  BY <1>1, <1>2, <1>3 DEF Phases, AnswerIsRows
<1>6. NewIsNew' /\ StoredOnTop' /\ RowsToCome'
  BY <1>1, <1>2, <1>3 DEF NewIsNew, StoredOnTop, RowsToCome, Done
<1>7. QED
  BY <1>4, <1>5, <1>6

LEMMA FailedInv ==
  ASSUME ListInv, ListFailed
  PROVE  ListInv'
<1> USE DEF ListInv
<1>1. /\ listRequest.at # "none" /\ listRequest' = NoRequest
      /\ docsError' = TRUE /\ docsLoading' = FALSE
      /\ UNCHANGED <<rows, documents, behind, isUploading, upload, pendingDeleteId,
                     deletions, docsStatus, strayFiles, strayDeletions>>
  BY DEF ListFailed, ListKeptAt, strays
<1>2. ~ListShown /\ ~ListShown' /\ InFlight = {} /\ InFlight' = InFlight
  BY <1>1 DEF ListShown, Phases, InFlight
<1>3. /\ listRequest' \in Requests /\ listRequest'.at = "none" /\ ~listRequest'.old
      /\ ToSet(listRequest'.list) = {}
  BY <1>1, EmptyIsList, RequestTyped DEF NoRequest
<1>4. ListTyped' /\ MarksTyped'
  BY <1>1, <1>2, <1>3 DEF ListTyped, MarksTyped
<1>5. Phases' /\ AnswerIsRows'
  BY <1>1, <1>2, <1>3 DEF Phases, AnswerIsRows
<1>6. NewIsNew' /\ StoredOnTop' /\ RowsToCome'
  BY <1>1, <1>2, <1>3 DEF NewIsNew, StoredOnTop, RowsToCome, Done
<1>7. QED
  BY <1>4, <1>5, <1>6

(* The answer is shown; it is the rows, or known to be old.                *)
LEMMA AnsweredInv ==
  ASSUME ListInv, ListAnswered
  PROVE  ListInv'
<1> USE DEF ListInv
<1>1. /\ listRequest.at = "read" /\ documents' = listRequest.list
      /\ docsLoading' = FALSE /\ listRequest' = NoRequest
      /\ behind' = listRequest.old
      /\ UNCHANGED <<rows, docsError, isUploading, upload, pendingDeleteId,
                     deletions, docsStatus, strayFiles, strayDeletions>>
  BY DEF ListAnswered, ListKeptAt, strays
<1>2. /\ ~ListShown /\ docsLoading /\ ~docsError
      /\ ListShown' /\ InFlight = {} /\ InFlight' = InFlight
      /\ Done = {} /\ Done' = {}
  BY <1>1 DEF ListShown, Phases, InFlight, Done
<1>3. /\ listRequest' \in Requests /\ listRequest'.at = "none" /\ ~listRequest'.old
      /\ ToSet(listRequest'.list) = {}
  BY <1>1, EmptyIsList, RequestTyped DEF NoRequest
<1>4. /\ rows \in Seq(Docs) /\ listRequest.list \in Seq(Docs)
      /\ listRequest.old \in BOOLEAN
  BY DEF ListTyped, Requests
<1>5. ListTyped' /\ MarksTyped'
  BY <1>1, <1>2, <1>3, <1>4 DEF ListTyped, MarksTyped
<1>6. Phases' /\ AnswerIsRows'
  BY <1>1, <1>2, <1>3 DEF Phases, AnswerIsRows
<1>7. NewIsNew'
  BY <1>1, <1>2, <1>3 DEF NewIsNew
<1>8. StoredOnTop'
  BY <1>1, <1>2 DEF StoredOnTop
<1>9. RowsToCome'
  <2>1. SUFFICES ASSUME ~behind'
                 PROVE  rows' = Pending' \o Keeping(documents', Docs \ Done')
    BY DEF RowsToCome
  <2>2. documents' = rows
    BY <1>1, <2>1 DEF AnswerIsRows
  <2>3. Keeping(rows, Docs \ Done') = rows
    <3>1. ToSet(rows) \subseteq Docs \ Done'
      BY <1>2, <1>4 DEF ToSet
    <3>2. QED
      BY <1>4, <3>1, KeepingAll
  <2>4. Pending' = <<>>
    <3>1. CASE ~upload.stored
      BY <1>1, <3>1 DEF Pending
    <3>2. CASE upload.stored
      <4>1. upload.doc \in ToSet(rows)
        BY <1>2, <3>2 DEF StoredOnTop
      <4>2. QED
        BY <1>1, <2>2, <4>1 DEF Pending
    <3>3. QED
      BY <3>1, <3>2
  <2>5. <<>> \o rows = rows
    BY <1>4, ConcatEmptySeq
  <2>6. QED
    BY <1>1, <2>2, <2>3, <2>4, <2>5
<1>10. QED
  BY <1>5, <1>6, <1>7, <1>8, <1>9

-----------------------------------------------------------------------------
(* Uploads.                                                                *)

InUse == ToSet(rows) \cup ToSet(documents) \cup ToSet(listRequest.list)
           \cup InFlight \cup strayDeletions

LEMMA UnusedIsNew ==
  ASSUME ListInv, NEW d, Unused(d)
  PROVE  d \notin InUse /\ d # upload.doc
<1> DEFINE r == rows
           s == documents
           t == listRequest.list
<1>1. r \in Seq(Docs) /\ s \in Seq(Docs) /\ t \in Seq(Docs)
  BY DEF ListInv, ListTyped, Requests
<1>2. d \notin ToSet(r \o s \o t) \cup InFlight \cup strayDeletions \cup {upload.doc}
  BY DEF Unused
<1> HIDE DEF r, s, t
<1>3. r \o s \in Seq(Docs)
  BY <1>1
<1>4. ToSet(r \o s) = ToSet(r) \cup ToSet(s)
  BY <1>1, ToSetConcat
<1>5. ToSet((r \o s) \o t) = ToSet(r \o s) \cup ToSet(t)
  BY <1>1, <1>3, ToSetConcat, ZenonT(60)
<1>6. QED
  BY <1>2, <1>4, <1>5 DEF InUse, r, s, t

(* The loop goes on with a file that is new, or ends.                      *)
LEMMA LoopGoesOn ==
  ASSUME ListInv, NEW failed \in BOOLEAN, NEW d \in Docs, NextFile(failed, d)
  PROVE  /\ upload' \in Uploads /\ ~upload'.stored
         /\ isUploading' \in BOOLEAN /\ docsStatus' \in {"none", "ok", "error"}
         /\ ~isUploading' => upload' = NoUpload
         /\ upload'.doc # NoDoc => /\ upload'.doc = d /\ d \notin InUse /\ d # upload.doc
                                   /\ upload'.left # 0
<1> USE DEF ListInv
<1>1. upload \in Uploads /\ isUploading \in BOOLEAN /\ docsStatus \in {"none", "ok", "error"}
  BY DEF ListTyped, MarksTyped
<1>2. upload.left \in 0..MaxBatch /\ upload.failed \in BOOLEAN
  BY <1>1 DEF Uploads
<1>3. CASE upload.left > 1
  <2>1. /\ Unused(d)
        /\ upload' = [NoUpload EXCEPT !.left = upload.left - 1, !.doc = d,
                                      !.failed = upload.failed \/ failed]
        /\ UNCHANGED <<isUploading, docsStatus>>
    BY <1>3 DEF NextFile
  <2>2. upload.left - 1 \in 0..MaxBatch /\ upload.left - 1 # 0
    BY <1>2, <1>3, DocsAssumption
  <2>3. upload' \in Uploads /\ ~upload'.stored /\ upload'.doc = d /\ upload'.left # 0
    BY <1>2, <2>1, <2>2, NoUploadTyped DEF Uploads
  <2>4. isUploading
    <3>1. NoUpload.left = 0
      BY DEF NoUpload
    <3>2. upload # NoUpload
      BY <1>3, <3>1
    <3>3. QED
      BY <3>2 DEF Phases
  <2>5. QED
    BY <1>1, <2>1, <2>3, <2>4, UnusedIsNew
<1>4. CASE ~(upload.left > 1)
  <2>1. /\ upload' = NoUpload /\ isUploading' = FALSE
        /\ docsStatus' \in {"ok", "error"}
    BY <1>4 DEF NextFile
  <2>2. QED
    BY <2>1, NoUploadTyped
<1>5. QED
  BY <1>3, <1>4

LEMMA HandleFilesInv ==
  ASSUME ListInv, NEW n \in 1..MaxBatch, NEW d \in Docs, HandleFiles(n, d)
  PROVE  ListInv'
<1> USE DEF ListInv
<1>1. /\ ~isUploading /\ Unused(d) /\ isUploading' = TRUE /\ docsStatus' = "none"
      /\ upload' = [NoUpload EXCEPT !.left = n, !.doc = d]
      /\ UNCHANGED <<docsLoading, docsError, pendingDeleteId, deletions, rows,
                     documents, listRequest, behind, strayFiles, strayDeletions>>
  BY DEF HandleFiles, UploadKeeps, strays
<1>2. upload' \in Uploads /\ ~upload'.stored /\ upload'.doc = d /\ upload'.left # 0
  <2>1. n \in 0..MaxBatch /\ n # 0
    BY DocsAssumption
  <2>2. QED
    BY <1>1, <2>1, NoUploadTyped DEF Uploads
<1>3. ~upload.stored
  BY <1>1, NoUploadTyped DEF Phases
<1>4. d \notin InUse
  BY <1>1, UnusedIsNew
<1>5. InFlight' = InFlight /\ ListShown' = ListShown /\ Done' = Done
  BY <1>1 DEF InFlight, ListShown, Done
<1>6. ListTyped' /\ MarksTyped'
  BY <1>1, <1>2, <1>5 DEF ListTyped, MarksTyped
<1>7. Phases' /\ AnswerIsRows'
  BY <1>1, <1>2, <1>5 DEF Phases, AnswerIsRows
<1>8. NewIsNew' /\ StoredOnTop'
  BY <1>1, <1>2, <1>4, <1>5 DEF NewIsNew, StoredOnTop, InUse
<1>9. RowsToCome'
  BY <1>1, <1>2, <1>3, <1>5 DEF RowsToCome, Pending
<1>10. QED
  BY <1>6, <1>7, <1>8, <1>9

(* An answer that the server's change overtook is old.                     *)
LEMMA GrownOld ==
  ASSUME ListInv, ListGrowsOld
  PROVE  /\ listRequest' \in Requests /\ listRequest'.at = listRequest.at
         /\ listRequest'.list = listRequest.list
         /\ listRequest'.old <=> listRequest.at = "read"
<1>1. listRequest \in Requests
  BY DEF ListInv, ListTyped
<1>2. listRequest' = [listRequest EXCEPT !.old = @ \/ listRequest.at = "read"]
  BY DEF ListGrowsOld
<1>3. listRequest.old => listRequest.at = "read"
  BY DEF ListInv, AnswerIsRows
<1>4. QED
  BY <1>1, <1>2, <1>3 DEF Requests

(* One element on top of a list that has no other of its kind.             *)
LEMMA OnTop ==
  ASSUME NEW u \in Docs, NEW list \in Seq(Docs)
  PROVE  /\ <<u>> \o list \in Seq(Docs) /\ ToSet(<<u>> \o list) = {u} \cup ToSet(list)
         /\ \A K : u \in K => Keeping(<<u>> \o list, K) = <<u>> \o Keeping(list, K)
         /\ \A K : u \notin K => Keeping(<<u>> \o list, K) = Keeping(list, K)
         /\ Without(<<u>> \o list, u) = Without(list, u)
<1> DEFINE one == <<u>>
<1>1. one \in Seq(Docs) /\ DOMAIN one = 1 .. 1 /\ one[1] = u
  OBVIOUS
<1>2. /\ \A K : u \in K => Keeping(one, K) = one
      /\ \A K : u \notin K => Keeping(one, K) = <<>>
  BY KeepingOne
<1> HIDE DEF one
<1>3. ToSet(one) = {u}
  BY <1>1 DEF ToSet
<1>4. one \o list \in Seq(Docs) /\ ToSet(one \o list) = {u} \cup ToSet(list)
  BY <1>1, <1>3, ToSetConcat
<1>5. ASSUME NEW K PROVE Keeping(one \o list, K) = Keeping(one, K) \o Keeping(list, K)
  BY <1>1, KeepingConcat
<1>6. ASSUME NEW K PROVE <<>> \o Keeping(list, K) = Keeping(list, K)
  BY KeepingType, ConcatEmptySeq
<1>7. /\ \A K : u \in K => Keeping(one \o list, K) = one \o Keeping(list, K)
      /\ \A K : u \notin K => Keeping(one \o list, K) = Keeping(list, K)
  BY <1>2, <1>5, <1>6
<1>8. Without(one \o list, u) = Without(list, u)
  <2>1. u \notin Docs \ {u}
    OBVIOUS
  <2>2. QED
    BY <1>7, <2>1 DEF Without
<1>9. QED
  BY <1>4, <1>7, <1>8 DEF one

LEMMA WithoutStranger ==
  ASSUME NEW list \in Seq(Docs), NEW d, d \notin ToSet(list)
  PROVE  Without(list, d) = list
<1>1. ToSet(list) \subseteq Docs \ {d}
  BY DEF ToSet
<1>2. QED
  BY <1>1, KeepingAll DEF Without

LEMMA WithoutIsList ==
  ASSUME NEW list \in Seq(Docs), NEW d
  PROVE  Without(list, d) \in Seq(Docs) /\ ToSet(Without(list, d)) = ToSet(list) \ {d}
<1>1. /\ Keeping(list, Docs \ {d}) \in Seq(Docs \cap (Docs \ {d}))
      /\ ToSet(Keeping(list, Docs \ {d})) = ToSet(list) \cap (Docs \ {d})
  BY KeepingType, ToSetKeeping
<1>2. ToSet(list) \subseteq Docs
  BY DEF ToSet
<1>3. QED
  <2>1. Keeping(list, Docs \ {d}) \in Seq(Docs)
    BY <1>1
  <2>2. ToSet(Keeping(list, Docs \ {d})) = ToSet(list) \ {d}
    BY <1>1, <1>2
  <2>3. QED
    BY <2>1, <2>2 DEF Without

LEMMA StoredInv ==
  ASSUME ListInv, UploadStored
  PROVE  ListInv'
<1> USE DEF ListInv
<1> DEFINE u == upload.doc
<1>1. /\ u # NoDoc /\ ~upload.stored /\ rows' = <<u>> \o rows
      /\ upload' = [upload EXCEPT !.stored = TRUE] /\ ListGrowsOld
      /\ UNCHANGED <<docsLoading, docsError, pendingDeleteId, deletions, documents,
                     isUploading, docsStatus, behind, strayFiles, strayDeletions>>
  BY DEF UploadStored, UploadKeeps, strays
<1>2. upload \in Uploads /\ rows \in Seq(Docs) /\ documents \in Seq(Docs)
  BY DEF ListTyped
<1>3. u \in Docs
  BY <1>1, <1>2 DEF Uploads
<1>4. /\ upload' \in Uploads /\ upload'.stored /\ upload'.doc = u
      /\ upload'.left = upload.left /\ upload.left # 0
  <2>1. upload.left # 0
    BY <1>1 DEF Phases
  <2>2. QED
    BY <1>1, <1>2, <2>1 DEF Uploads
<1>5. /\ u \notin ToSet(rows) /\ u \notin ToSet(documents) /\ u \notin InFlight
      /\ u \notin strayDeletions
  BY <1>1 DEF NewIsNew
<1>6. upload # NoUpload => isUploading
  BY DEF Phases
<1> HIDE DEF u
<1>7. /\ rows' \in Seq(Docs) /\ ToSet(rows') = {u} \cup ToSet(rows)
      /\ Without(rows', u) = Without(rows, u) /\ Without(rows, u) = rows
  BY <1>1, <1>2, <1>3, <1>5, OnTop, WithoutStranger
<1>8. InFlight' = InFlight /\ ListShown' = ListShown /\ Done' = Done
  BY <1>1 DEF InFlight, ListShown, Done
<1>9. ListTyped' /\ MarksTyped'
  BY <1>1, <1>2, <1>4, <1>7, <1>8, GrownOld DEF ListTyped, MarksTyped
<1>10. Phases'
  <2>1. isUploading
    BY <1>1, <1>6, NoUploadTyped DEF u
  <2>2. QED
    BY <1>1, <1>4, <1>8, <2>1, GrownOld DEF Phases
<1>11. AnswerIsRows' /\ NewIsNew'
  BY <1>1, <1>4, GrownOld DEF AnswerIsRows, NewIsNew
<1>12. StoredOnTop'
  <2>1. u \notin Done
    BY <1>5 DEF Done
  <2>2. QED
    BY <1>1, <1>3, <1>4, <1>5, <1>7, <1>8, <2>1 DEF StoredOnTop
<1>13. RowsToCome'
  <2>1. SUFFICES ASSUME ListShown, ~behind
                 PROVE  rows' = Pending' \o Keeping(documents, Docs \ Done)
    BY <1>1, <1>8 DEF RowsToCome
  <2>2. Pending = <<>> /\ Pending' = <<u>>
    BY <1>1, <1>4, <1>5 DEF Pending
  <2>3. <<>> \o Keeping(documents, Docs \ Done) = Keeping(documents, Docs \ Done)
    BY <1>2, KeepingType, ConcatEmptySeq
  <2>4. rows = Keeping(documents, Docs \ Done)
    BY <2>1, <2>2, <2>3 DEF RowsToCome
  <2>5. QED
    BY <1>1, <2>2, <2>4
<1>14. QED
  BY <1>9, <1>10, <1>11, <1>12, <1>13

(* The answer to an upload moves the file to the top of the list: it may   *)
(* have come with a list that was read after it was stored.  The list is   *)
(* behind when another file was stored in between.                         *)
LEMMA UploadAnsweredInv ==
  ASSUME ListInv, NEW d \in Docs, UploadAnswered(d)
  PROVE  ListInv'
<1> USE DEF ListInv
<1> DEFINE u == upload.doc
<1>1. /\ upload.stored /\ documents' = <<u>> \o Without(documents, u)
      /\ NextFile(FALSE, d)
      /\ behind' = (behind \/ upload.overtaken)
      /\ UNCHANGED <<docsLoading, docsError, pendingDeleteId, deletions, rows,
                     listRequest, strayFiles, strayDeletions>>
  BY DEF UploadAnswered, UploadKeeps, strays
<1>2. /\ u \in Docs /\ rows \in Seq(Docs) /\ documents \in Seq(Docs)
      /\ behind \in BOOLEAN /\ upload.overtaken \in BOOLEAN
  BY <1>1 DEF ListTyped, MarksTyped, Uploads, StoredOnTop
<1>3. /\ upload' \in Uploads /\ ~upload'.stored
      /\ isUploading' \in BOOLEAN /\ docsStatus' \in {"none", "ok", "error"}
      /\ ~isUploading' => upload' = NoUpload
      /\ upload'.doc # NoDoc => /\ upload'.doc \notin InUse /\ upload'.doc # u
                                /\ upload'.left # 0
  BY <1>1, LoopGoesOn
<1>4. ~behind => u \notin Done
  BY <1>1 DEF StoredOnTop
<1>5. ~behind /\ ~upload.overtaken => rows = <<u>> \o Without(rows, u)
  BY <1>1 DEF StoredOnTop
<1>6. ListShown /\ ~behind =>
        rows = (IF u \notin ToSet(documents) THEN <<u>> ELSE <<>>)
                 \o Keeping(documents, Docs \ Done)
  BY <1>1 DEF RowsToCome, Pending
<1> HIDE DEF u
<1>7. Without(documents, u) \in Seq(Docs) /\ ToSet(Without(documents, u)) = ToSet(documents) \ {u}
  BY <1>2, WithoutIsList
<1>8. documents' \in Seq(Docs) /\ ToSet(documents') \subseteq {u} \cup ToSet(documents)
  BY <1>1, <1>2, <1>7, OnTop, SMTT(30)
<1>9. InFlight' = InFlight /\ ListShown' = ListShown /\ Done' = Done
  BY <1>1 DEF InFlight, ListShown, Done
<1>10. ListTyped' /\ MarksTyped'
  BY <1>1, <1>2, <1>3, <1>8, <1>9 DEF ListTyped, MarksTyped
<1>11. Phases' /\ AnswerIsRows'
  BY <1>1, <1>3, <1>9 DEF Phases, AnswerIsRows
<1>12. NewIsNew' /\ StoredOnTop'
  BY <1>1, <1>3, <1>8, <1>9 DEF NewIsNew, StoredOnTop, InUse
<1>13. RowsToCome'
  <2> DEFINE K == Docs \ Done
             kept == Keeping(documents, K)
  <2>1. SUFFICES ASSUME ListShown, ~behind, ~upload.overtaken
                 PROVE  rows = Pending' \o Keeping(documents', K)
    BY <1>1, <1>9 DEF RowsToCome
  <2>2. u \in K
    BY <1>2, <1>4, <2>1
  <2> HIDE DEF K
  <2>3. kept \in Seq(Docs \cap K) /\ Keeping(documents', K) \in Seq(Docs \cap K)
    BY <1>2, <1>8, KeepingType
  <2>4. Keeping(documents', K) = <<u>> \o Keeping(Without(documents, u), K)
    <3>1. PICK w \in Seq(Docs) : w = Without(documents, u)
      BY <1>7
    <3>2. Keeping(<<u>> \o w, K) = <<u>> \o Keeping(w, K)
      BY <1>2, <2>2, OnTop, ZenonT(60)
    <3>3. QED
      BY <1>1, <3>1, <3>2
  <2>5. rows = <<u>> \o Keeping(Without(documents, u), K)
    <3>1. CASE u \notin ToSet(documents)
      <4>1. Without(documents, u) = documents
        BY <1>2, <3>1, WithoutStranger
      <4>2. QED
        BY <1>6, <2>1, <3>1, <4>1 DEF K
    <3>2. CASE u \in ToSet(documents)
      <4>1. <<>> \o kept = kept
        BY <2>3, ConcatEmptySeq
      <4>2. rows = kept
        BY <1>6, <2>1, <3>2, <4>1 DEF K
      <4>3. Without(rows, u) = Keeping(documents, K \cap (Docs \ {u}))
        BY <1>2, <4>2, KeepingTwice DEF Without
      <4>4. Keeping(Without(documents, u), K) = Keeping(documents, (Docs \ {u}) \cap K)
        BY <1>2, KeepingTwice DEF Without
      <4>5. (Docs \ {u}) \cap K = K \cap (Docs \ {u})
        OBVIOUS
      <4>6. QED
        BY <1>5, <2>1, <4>3, <4>4, <4>5
    <3>3. QED
      BY <3>1, <3>2
  <2>6. Pending' = <<>>
    BY <1>3 DEF Pending
  <2>7. <<>> \o Keeping(documents', K) = Keeping(documents', K)
    BY <2>3, ConcatEmptySeq
  <2>8. QED
    BY <2>4, <2>5, <2>6, <2>7
<1>14. QED
  BY <1>10, <1>11, <1>12, <1>13

(* A lost answer leaves the list behind, unless it has the file.           *)
LEMMA UploadFailedInv ==
  ASSUME ListInv, NEW d \in Docs, UploadFailed(d)
  PROVE  ListInv'
<1> USE DEF ListInv
<1>1. /\ NextFile(TRUE, d)
      /\ behind' = (behind \/ (upload.stored /\ upload.doc \notin ToSet(documents)))
      /\ UNCHANGED <<docsLoading, docsError, pendingDeleteId, deletions, rows,
                     documents, listRequest, strayFiles, strayDeletions>>
  BY DEF UploadFailed, UploadKeeps, strays
<1>2. /\ upload' \in Uploads /\ ~upload'.stored
      /\ isUploading' \in BOOLEAN /\ docsStatus' \in {"none", "ok", "error"}
      /\ ~isUploading' => upload' = NoUpload
      /\ upload'.doc # NoDoc => upload'.doc \notin InUse /\ upload'.left # 0
  BY <1>1, LoopGoesOn
<1>3. behind \in BOOLEAN /\ upload.stored \in BOOLEAN
  BY DEF ListTyped, MarksTyped, Uploads
<1>4. InFlight' = InFlight /\ ListShown' = ListShown /\ Done' = Done
  BY <1>1 DEF InFlight, ListShown, Done
<1>5. ListTyped' /\ MarksTyped'
  BY <1>1, <1>2, <1>3, <1>4 DEF ListTyped, MarksTyped
<1>6. Phases' /\ AnswerIsRows'
  BY <1>1, <1>2, <1>4 DEF Phases, AnswerIsRows
<1>7. NewIsNew' /\ StoredOnTop'
  BY <1>1, <1>2, <1>4 DEF NewIsNew, StoredOnTop, InUse
<1>8. RowsToCome'
  <2>1. Pending' = <<>>
    BY <1>2 DEF Pending
  <2>2. ~behind' => ~behind /\ Pending = <<>>
    BY <1>1 DEF Pending
  <2>3. QED
    BY <1>1, <1>4, <2>1, <2>2 DEF RowsToCome
<1>9. QED
  BY <1>5, <1>6, <1>7, <1>8

-----------------------------------------------------------------------------
(* Deletions.                                                              *)

LEMMA HandleDeleteInv ==
  ASSUME ListInv, NEW d \in Docs, HandleDelete(d)
  PROVE  ListInv'
<1> USE DEF ListInv
<1>1. /\ ListShown /\ d \in ToSet(documents) /\ d \notin InFlight
      /\ pendingDeleteId' = d /\ docsStatus' = "none"
      /\ deletions' = [e \in InFlight \cup {d} |->
                         IF e = d THEN "sent" ELSE deletions[e]]
      /\ UNCHANGED <<docsLoading, docsError, isUploading, upload, rows, documents,
                     listRequest, behind, strayFiles, strayDeletions>>
  BY DEF HandleDelete, CanDelete, DeleteKeeps, strays
<1>2. InFlight' = InFlight \cup {d} /\ ListShown' = ListShown
  BY <1>1 DEF InFlight, ListShown
<1>3. Done' = Done
  <2>1. \A e \in InFlight : deletions'[e] = deletions[e]
    BY <1>1
  <2>2. deletions'[d] # "done"
    BY <1>1
  <2>3. QED
    BY <1>1, <1>2, <2>1, <2>2 DEF Done
<1>4. ListTyped' /\ MarksTyped'
  BY <1>1, <1>2 DEF ListTyped, MarksTyped
<1>5. Phases' /\ AnswerIsRows'
  BY <1>1, <1>2 DEF Phases, AnswerIsRows
<1>6. NewIsNew' /\ StoredOnTop'
  BY <1>1, <1>2, <1>3 DEF NewIsNew, StoredOnTop
<1>7. RowsToCome'
  BY <1>1, <1>2, <1>3 DEF RowsToCome, Pending
<1>8. QED
  BY <1>4, <1>5, <1>6, <1>7

(* What is on top stays there when another document goes.                  *)
LEMMA TopStays ==
  ASSUME NEW u \in Docs, NEW d, d # u, NEW list \in Seq(Docs),
         list = <<u>> \o Without(list, u)
  PROVE  Without(list, d) = <<u>> \o Without(Without(list, d), u)
<1>1. PICK w \in Seq(Docs) : w = Without(list, u)
  BY WithoutIsList
<1>2. Without(list, d) = <<u>> \o Without(w, d)
  <2>1. u \in Docs \ {d}
    OBVIOUS
  <2>2. Keeping(<<u>> \o w, Docs \ {d}) = <<u>> \o Keeping(w, Docs \ {d})
    BY <1>1, <2>1, OnTop
  <2>3. QED
    BY <1>1, <2>2 DEF Without
<1>3. Without(w, d) = Without(Without(list, d), u)
  <2>1. Keeping(w, Docs \ {d}) = Keeping(list, (Docs \ {u}) \cap (Docs \ {d}))
    BY <1>1, KeepingTwice DEF Without
  <2>2. Keeping(Keeping(list, Docs \ {d}), Docs \ {u})
          = Keeping(list, (Docs \ {d}) \cap (Docs \ {u}))
    BY KeepingTwice
  <2>3. (Docs \ {u}) \cap (Docs \ {d}) = (Docs \ {d}) \cap (Docs \ {u})
    OBVIOUS
  <2>4. QED
    BY <2>1, <2>2, <2>3 DEF Without
<1>4. QED
  BY <1>2, <1>3

(* The server deletes first: of the rows, what the list has yet to lose is *)
(* gone already.                                                           *)
LEMMA DeletionDoneInv ==
  ASSUME ListInv, NEW d \in Docs, DeletionDone(d)
  PROVE  ListInv'
<1> USE DEF ListInv
<1> DEFINE u == upload.doc
<1>1. /\ d \in InFlight /\ rows' = Without(rows, d)
      /\ deletions' = [deletions EXCEPT ![d] = "done"]
      /\ ListGrowsOld /\ behind' = (behind \/ d = u)
      /\ UNCHANGED <<docsLoading, docsError, isUploading, upload, documents,
                     pendingDeleteId, docsStatus, strayFiles, strayDeletions>>
  BY DEF DeletionDone, DeleteKeeps, strays
<1>2. rows \in Seq(Docs) /\ documents \in Seq(Docs) /\ behind \in BOOLEAN
  BY DEF ListTyped, MarksTyped
<1>3. ListShown /\ listRequest.at = "none"
  BY <1>1 DEF Phases, ListShown
<1>4. InFlight' = InFlight /\ ListShown' = ListShown
  BY <1>1 DEF InFlight, ListShown
<1>5. Done' = Done \cup {d}
  <2>1. DOMAIN deletions = InFlight
    BY DEF InFlight
  <2>2. deletions'[d] = "done" /\ \A e \in InFlight : e # d => deletions'[e] = deletions[e]
    BY <1>1, <2>1
  <2>3. QED
    BY <1>1, <1>4, <2>2 DEF Done
<1>6. rows' \in Seq(Docs) /\ ToSet(rows') = ToSet(rows) \ {d}
  BY <1>1, <1>2, WithoutIsList
<1>7. /\ listRequest' \in Requests /\ listRequest'.at = listRequest.at
      /\ listRequest'.list = listRequest.list
      /\ listRequest'.old <=> listRequest.at = "read"
  BY <1>1, GrownOld
<1>8. ListTyped' /\ MarksTyped'
  BY <1>1, <1>2, <1>4, <1>6, <1>7 DEF ListTyped, MarksTyped
<1>9. Phases' /\ AnswerIsRows'
  BY <1>1, <1>4, <1>7 DEF Phases, AnswerIsRows
<1>10. NewIsNew'
  BY <1>1, <1>4, <1>6, <1>7 DEF NewIsNew
<1>11. ASSUME ~behind'
       PROVE  ~behind /\ d # u
  BY <1>1, <1>11
<1>12. StoredOnTop'
  <2> SUFFICES ASSUME upload.stored
               PROVE  /\ u \in Docs \ strayDeletions
                      /\ ~behind' => /\ u \in ToSet(rows') /\ u \notin Done'
                                     /\ ~upload.overtaken =>
                                          rows' = <<u>> \o Without(rows', u)
    BY <1>1, <1>3, <1>4 DEF StoredOnTop
  <2>1. u \in Docs \ strayDeletions
    BY DEF StoredOnTop
  <2> SUFFICES ASSUME ~behind'
               PROVE  /\ u \in ToSet(rows') /\ u \notin Done'
                      /\ ~upload.overtaken => rows' = <<u>> \o Without(rows', u)
    BY <2>1
  <2>2. ~behind /\ d # u
    BY <1>11
  <2>3. u \in ToSet(rows') /\ u \notin Done'
    BY <1>5, <1>6, <2>2 DEF StoredOnTop
  <2>4. ~upload.overtaken => rows = <<u>> \o Without(rows, u)
    BY <2>2 DEF StoredOnTop
  <2> HIDE DEF u
  <2>5. QED
    BY <1>1, <1>2, <2>1, <2>2, <2>3, <2>4, TopStays
<1>13. RowsToCome'
  <2> SUFFICES ASSUME ~behind'
               PROVE  rows' = Pending' \o Keeping(documents, Docs \ Done')
    BY <1>1 DEF RowsToCome
  <2>1. ~behind /\ d # u
    BY <1>11
  <2>2. rows = Pending \o Keeping(documents, Docs \ Done)
    BY <1>3, <2>1 DEF RowsToCome
  <2>3. Pending' = Pending
    BY <1>1 DEF Pending
  <2> DEFINE kept == Keeping(documents, Docs \ Done)
  <2>4. kept \in Seq(Docs)
    <3>1. kept \in Seq(Docs \cap (Docs \ Done))
      BY <1>2, KeepingType
    <3>2. QED
      BY <3>1
  <2>5. Without(kept, d) = Keeping(documents, Docs \ Done')
    <3>1. Keeping(kept, Docs \ {d}) = Keeping(documents, (Docs \ Done) \cap (Docs \ {d}))
      BY <1>2, KeepingTwice
    <3>2. (Docs \ Done) \cap (Docs \ {d}) = Docs \ Done'
      BY <1>5
    <3>3. QED
      BY <3>1, <3>2 DEF Without
  <2> HIDE DEF kept
  <2>6. CASE Pending = <<>>
    <3>1. rows = kept
      BY <2>2, <2>4, <2>6, ConcatEmptySeq DEF kept
    <3>2. rows' = Keeping(documents, Docs \ Done')
      BY <1>1, <2>5, <3>1
    <3>3. Keeping(documents, Docs \ Done') \in Seq(Docs)
      BY <1>6, <3>2
    <3>4. QED
      BY <2>3, <2>6, <3>2, <3>3, ConcatEmptySeq
  <2>7. CASE Pending # <<>>
    <3>1. upload.stored /\ Pending = <<u>>
      BY <2>7 DEF Pending
    <3>2. u \in Docs
      BY <3>1 DEF StoredOnTop
    <3> HIDE DEF u
    <3>3. u \in Docs \ {d}
      BY <2>1, <3>2
    <3>4. Without(<<u>> \o kept, d) = <<u>> \o Without(kept, d)
      <4>1. Keeping(<<u>> \o kept, Docs \ {d}) = <<u>> \o Keeping(kept, Docs \ {d})
        BY <2>4, <3>2, <3>3, OnTop
      <4>2. QED
        BY <4>1 DEF Without
    <3>5. QED
      BY <1>1, <2>2, <2>3, <2>5, <3>1, <3>4 DEF kept
  <2>8. QED
    BY <2>6, <2>7
<1>14. QED
  BY <1>8, <1>9, <1>10, <1>12, <1>13

(* A deletion is over: it is out no more.                                  *)
LEMMA Forgotten ==
  ASSUME ListInv, NEW d \in InFlight, deletions' = Forget(d),
         UNCHANGED <<docsLoading, docsError>>
  PROVE  /\ ListShown /\ ListShown' /\ listRequest.at = "none"
         /\ InFlight' = InFlight \ {d} /\ Done' = Done \ {d}
<1>1. InFlight' = InFlight \ {d}
  BY DEF Forget, InFlight
<1>2. \A e \in InFlight \ {d} : deletions'[e] = deletions[e]
  BY DEF Forget
<1>3. QED
  BY <1>1, <1>2 DEF Done, ListInv, Phases, ListShown

LEMMA DeleteAnsweredInv ==
  ASSUME ListInv, NEW d \in Docs, DeleteAnswered(d)
  PROVE  ListInv'
<1> USE DEF ListInv
<1>1. /\ d \in InFlight /\ deletions[d] = "done"
      /\ documents' = Without(documents, d)
      /\ pendingDeleteId' = NoDoc /\ deletions' = Forget(d)
      /\ UNCHANGED <<docsLoading, docsError, isUploading, upload, rows, docsStatus,
                     listRequest, behind, strayFiles, strayDeletions>>
  BY DEF DeleteAnswered, DeleteKeeps, strays
<1>2. /\ ListShown /\ ListShown' /\ listRequest.at = "none"
      /\ InFlight' = InFlight \ {d} /\ Done' = Done \ {d} /\ d \in Done
  BY <1>1, Forgotten DEF Done
<1>3. documents \in Seq(Docs)
  BY DEF ListTyped
<1>4. documents' \in Seq(Docs) /\ ToSet(documents') = ToSet(documents) \ {d}
  BY <1>1, <1>3, WithoutIsList
<1>5. ListTyped' /\ MarksTyped'
  BY <1>1, <1>2, <1>4 DEF ListTyped, MarksTyped
<1>6. Phases' /\ AnswerIsRows'
  BY <1>1, <1>2 DEF Phases, AnswerIsRows
<1>7. NewIsNew' /\ StoredOnTop'
  BY <1>1, <1>2, <1>4 DEF NewIsNew, StoredOnTop
<1>8. RowsToCome'
  <2> SUFFICES ASSUME ~behind
               PROVE  rows = Pending' \o Keeping(documents', Docs \ Done')
    BY <1>1 DEF RowsToCome
  <2>1. rows = Pending \o Keeping(documents, Docs \ Done)
    BY <1>2 DEF RowsToCome
  <2>2. Pending' = Pending
    <3>1. upload.stored => upload.doc # d
      BY <1>2 DEF StoredOnTop
    <3>2. QED
      BY <1>1, <1>4, <3>1 DEF Pending
  <2>3. Keeping(documents', Docs \ Done') = Keeping(documents, Docs \ Done)
    <3>1. Keeping(documents', Docs \ Done')
            = Keeping(documents, (Docs \ {d}) \cap (Docs \ Done'))
      BY <1>1, <1>3, KeepingTwice DEF Without
    <3>2. (Docs \ {d}) \cap (Docs \ Done') = Docs \ Done
      BY <1>2
    <3>3. QED
      BY <3>1, <3>2
  <2>4. QED
    BY <2>1, <2>2, <2>3
<1>9. QED
  BY <1>5, <1>6, <1>7, <1>8

(* One that fails was not done, or its answer was lost: then the list is   *)
(* behind if it still has the document.                                    *)
LEMMA DeleteFailedInv ==
  ASSUME ListInv, NEW d \in Docs, DeleteFailed(d)
  PROVE  ListInv'
<1> USE DEF ListInv
<1>1. /\ d \in InFlight /\ docsStatus' = "error"
      /\ pendingDeleteId' = NoDoc /\ deletions' = Forget(d)
      /\ behind' = (behind \/ (deletions[d] = "done" /\ d \in ToSet(documents)))
      /\ UNCHANGED <<docsLoading, docsError, isUploading, upload, rows, documents,
                     listRequest, strayFiles, strayDeletions>>
  BY DEF DeleteFailed, DeleteKeeps, strays
<1>2. /\ ListShown /\ ListShown' /\ listRequest.at = "none"
      /\ InFlight' = InFlight \ {d} /\ Done' = Done \ {d}
  BY <1>1, Forgotten
<1>3. documents \in Seq(Docs) /\ behind \in BOOLEAN
  BY DEF ListTyped, MarksTyped
<1>4. ListTyped' /\ MarksTyped'
  BY <1>1, <1>2, <1>3 DEF ListTyped, MarksTyped
<1>5. Phases' /\ AnswerIsRows'
  BY <1>1, <1>2 DEF Phases, AnswerIsRows
<1>6. NewIsNew' /\ StoredOnTop'
  BY <1>1, <1>2 DEF NewIsNew, StoredOnTop
<1>7. RowsToCome'
  <2> SUFFICES ASSUME ~behind'
               PROVE  rows = Pending' \o Keeping(documents, Docs \ Done')
    BY <1>1 DEF RowsToCome
  <2>1. ~behind /\ (d \in Done => d \notin ToSet(documents))
    BY <1>1, <1>3 DEF Done
  <2>2. rows = Pending \o Keeping(documents, Docs \ Done)
    BY <1>2, <2>1 DEF RowsToCome
  <2>3. Pending' = Pending
    BY <1>1 DEF Pending
  <2>4. ToSet(documents) \cap (Docs \ Done') = ToSet(documents) \cap (Docs \ Done)
    BY <1>2, <2>1
  <2>5. Keeping(documents, Docs \ Done') = Keeping(documents, Docs \ Done)
    BY <1>3, <2>4, KeepingSame
  <2>6. QED
    BY <2>2, <2>3, <2>5
<1>8. QED
  BY <1>4, <1>5, <1>6, <1>7

-----------------------------------------------------------------------------
(* What an earlier mount left to the server is done or refused.  A list    *)
(* that is shown is behind from then on.                                   *)

(* Marking the upload keeps everything else of it.                         *)
LEMMA Overtaken ==
  ASSUME ListInv, upload' = [upload EXCEPT !.overtaken = upload.stored]
  PROVE  /\ upload' \in Uploads /\ upload'.stored = upload.stored
         /\ upload'.doc = upload.doc /\ upload'.left = upload.left
         /\ upload'.overtaken = upload.stored
         /\ upload = NoUpload => upload' = NoUpload
<1>1. upload \in Uploads
  BY DEF ListInv, ListTyped
<1>2. upload = NoUpload => upload' = NoUpload
  <2>1. NoUpload \in Uploads /\ NoUpload.stored = FALSE /\ NoUpload.overtaken = FALSE
    BY NoUploadTyped DEF NoUpload
  <2>2. [NoUpload EXCEPT !.overtaken = FALSE] = NoUpload
    BY <2>1 DEF Uploads
  <2>3. QED
    BY <2>1, <2>2
<1>3. QED
  BY <1>1, <1>2 DEF Uploads

LEMMA StrayStoredInv ==
  ASSUME ListInv, NEW d \in Docs, StrayStored(d)
  PROVE  ListInv'
<1> USE DEF ListInv
<1>1. /\ strayFiles > 0 /\ Unused(d) /\ rows' = <<d>> \o rows
      /\ strayFiles' = strayFiles - 1
      /\ upload' = [upload EXCEPT !.overtaken = upload.stored]
      /\ ListGrowsOld /\ behind' = (behind \/ ListShown)
      /\ UNCHANGED <<documents, docsLoading, docsError, isUploading, pendingDeleteId,
                     deletions, docsStatus, strayDeletions>>
  BY DEF StrayStored, StrayKeeps
<1>2. rows \in Seq(Docs) /\ behind \in BOOLEAN /\ strayFiles \in Nat
  BY DEF ListTyped, MarksTyped
<1>3. strayFiles' \in Nat
  BY <1>1, <1>2
<1>4. d \notin InUse /\ d # upload.doc
  BY <1>1, UnusedIsNew
<1>5. /\ upload' \in Uploads /\ upload'.stored = upload.stored
      /\ upload'.doc = upload.doc /\ upload'.left = upload.left
      /\ upload'.overtaken = upload.stored
      /\ upload = NoUpload => upload' = NoUpload
  BY <1>1, Overtaken
<1>6. rows' \in Seq(Docs) /\ ToSet(rows') = {d} \cup ToSet(rows)
  BY <1>1, <1>2, OnTop
<1>7. InFlight' = InFlight /\ ListShown' = ListShown /\ Done' = Done
  BY <1>1 DEF InFlight, ListShown, Done
<1>8. /\ listRequest' \in Requests /\ listRequest'.at = listRequest.at
      /\ listRequest'.list = listRequest.list
      /\ listRequest'.old <=> listRequest.at = "read"
  BY <1>1, GrownOld
<1>9. ListShown \in BOOLEAN
  BY DEF ListShown
<1>10. ListTyped' /\ MarksTyped'
  BY <1>1, <1>2, <1>3, <1>5, <1>6, <1>7, <1>8, <1>9 DEF ListTyped, MarksTyped
<1>11. Phases' /\ AnswerIsRows'
  BY <1>1, <1>5, <1>7, <1>8 DEF Phases, AnswerIsRows
<1>12. NewIsNew'
  BY <1>1, <1>4, <1>5, <1>6, <1>7, <1>8 DEF NewIsNew
<1>13. StoredOnTop'
  <2>1. ~behind' => ~behind /\ ~ListShown
    BY <1>1
  <2>2. ToSet(rows) \subseteq ToSet(rows')
    BY <1>6
  <2>3. QED
    BY <1>1, <1>5, <1>7, <2>1, <2>2 DEF StoredOnTop
<1>14. RowsToCome'
  BY <1>1, <1>7 DEF RowsToCome
<1>15. QED
  BY <1>10, <1>11, <1>12, <1>13, <1>14

LEMMA StrayDeletedInv ==
  ASSUME ListInv, NEW d \in Docs, StrayDeleted(d)
  PROVE  ListInv'
<1> USE DEF ListInv
<1>1. /\ d \in strayDeletions /\ rows' = Without(rows, d)
      /\ strayDeletions' = strayDeletions \ {d}
      /\ ListGrowsOld /\ behind' = (behind \/ ListShown)
      /\ UNCHANGED <<documents, docsLoading, docsError, isUploading, pendingDeleteId,
                     deletions, docsStatus, upload, strayFiles>>
  BY DEF StrayDeleted, StrayKeeps
<1>2. rows \in Seq(Docs) /\ behind \in BOOLEAN /\ ListShown \in BOOLEAN
  BY DEF ListTyped, MarksTyped, ListShown
<1>3. rows' \in Seq(Docs) /\ ToSet(rows') = ToSet(rows) \ {d}
  BY <1>1, <1>2, WithoutIsList
<1>4. InFlight' = InFlight /\ ListShown' = ListShown /\ Done' = Done
  BY <1>1 DEF InFlight, ListShown, Done
<1>5. /\ listRequest' \in Requests /\ listRequest'.at = listRequest.at
      /\ listRequest'.list = listRequest.list
      /\ listRequest'.old <=> listRequest.at = "read"
  BY <1>1, GrownOld
<1>6. ListTyped' /\ MarksTyped'
  BY <1>1, <1>2, <1>3, <1>4, <1>5 DEF ListTyped, MarksTyped
<1>7. Phases' /\ AnswerIsRows'
  BY <1>1, <1>4, <1>5 DEF Phases, AnswerIsRows
<1>8. NewIsNew'
  BY <1>1, <1>3, <1>4, <1>5 DEF NewIsNew
<1>9. StoredOnTop'
  <2> DEFINE u == upload.doc
  <2> SUFFICES ASSUME upload.stored
               PROVE  /\ u \in Docs \ strayDeletions'
                      /\ ~behind' \/ ~ListShown =>
                           /\ u \in ToSet(rows')
                           /\ ~upload.overtaken => rows' = <<u>> \o Without(rows', u)
                      /\ ~behind' => u \notin Done
    BY <1>1, <1>4 DEF StoredOnTop
  <2>1. u \in Docs /\ u \notin strayDeletions /\ d # u
    BY <1>1 DEF StoredOnTop
  <2>2. ~behind' => ~behind /\ ~ListShown
    BY <1>1
  <2>3. ~ListShown =>
          u \in ToSet(rows) /\ (~upload.overtaken => rows = <<u>> \o Without(rows, u))
    BY DEF StoredOnTop
  <2>4. ~behind => u \notin Done
    BY DEF StoredOnTop
  <2> HIDE DEF u
  <2>5. QED
    BY <1>1, <1>2, <1>3, <2>1, <2>2, <2>3, <2>4, TopStays
<1>10. RowsToCome'
  BY <1>1, <1>4 DEF RowsToCome
<1>11. QED
  BY <1>6, <1>7, <1>8, <1>9, <1>10

(* A refusal leaves the rows as they are.                                  *)
LEMMA StrayFailedInv ==
  ASSUME ListInv, StrayFileFailed \/ \E d \in Docs : StrayDeletionFailed(d)
  PROVE  ListInv'
<1> USE DEF ListInv
<1>1. /\ UNCHANGED <<documents, docsLoading, docsError, isUploading, pendingDeleteId,
                     deletions, docsStatus, rows, upload, listRequest, behind>>
      /\ strayFiles' = strayFiles \/ (strayFiles > 0 /\ strayFiles' = strayFiles - 1)
      /\ strayDeletions' \subseteq strayDeletions
  BY DEF StrayFileFailed, StrayDeletionFailed, StrayKeeps
<1>2. strayFiles \in Nat /\ strayFiles' \in Nat
  <2>1. strayFiles \in Nat
    BY DEF ListTyped
  <2>2. QED
    BY <1>1, <2>1
<1>3. InFlight' = InFlight /\ ListShown' = ListShown /\ Done' = Done /\ Pending' = Pending
  BY <1>1 DEF InFlight, ListShown, Done, Pending
<1>4. ListTyped' /\ MarksTyped'
  BY <1>1, <1>2, <1>3 DEF ListTyped, MarksTyped
<1>5. Phases' /\ AnswerIsRows'
  BY <1>1, <1>3 DEF Phases, AnswerIsRows
<1>6. NewIsNew' /\ StoredOnTop'
  BY <1>1, <1>3 DEF NewIsNew, StoredOnTop
<1>7. RowsToCome'
  BY <1>1, <1>3 DEF RowsToCome
<1>8. QED
  BY <1>4, <1>5, <1>6, <1>7

-----------------------------------------------------------------------------

LibraryNext ==
  DocsUser \/ ListStep \/ UploadStep \/ StrayStep \/ \E d \in Docs : DeletionStep(d)

LEMMA LibraryStep ==
  ListInv /\ [LibraryNext \/ DocsMounts]_docsVars => ListInv'
<1> SUFFICES ASSUME ListInv, [LibraryNext \/ DocsMounts]_docsVars
             PROVE  ListInv'
  OBVIOUS
<1>1. CASE DocsMounts
  BY <1>1, ListMount
<1>2. CASE DocsUser
  BY <1>2, RetryInv, HandleFilesInv, HandleDeleteInv DEF DocsUser
<1>3. CASE ListStep
  BY <1>3, ReadInv, AnsweredInv, FailedInv DEF ListStep
<1>4. CASE UploadStep
  BY <1>4, StoredInv, UploadAnsweredInv, UploadFailedInv DEF UploadStep
<1>5. CASE \E d \in Docs : DeletionStep(d)
  BY <1>5, DeletionDoneInv, DeleteAnsweredInv, DeleteFailedInv DEF DeletionStep
<1>6. CASE StrayStep
  BY <1>6, StrayStoredInv, StrayDeletedInv, StrayFailedInv DEF StrayStep
<1>7. CASE UNCHANGED docsVars
  BY <1>7 DEF docsVars, ListInv, ListTyped, MarksTyped, Phases, AnswerIsRows,
              NewIsNew, StoredOnTop, RowsToCome, InFlight, ListShown, Done, Pending
<1>8. QED
  BY <1>1, <1>2, <1>3, <1>4, <1>5, <1>6, <1>7 DEF LibraryNext

(* When nothing is out and nothing was missed the list is the rows.        *)
LEMMA ListInvTrue == ListInv => ListTrue
<1> SUFFICES ASSUME ListInv PROVE ListTrue
  OBVIOUS
<1> USE DEF ListInv
<1>1. DocsTypeOK
  <2>1. ToSet(documents) \subseteq Docs /\ ToSet(rows) \subseteq Docs
    BY DEF ListTyped, ToSet
  <2>2. listRequest.at \in {"none", "sent", "read"} /\ upload.left \in 0..MaxBatch
    BY DEF ListTyped, Requests, Uploads
  <2>3. QED
    BY <2>1, <2>2 DEF DocsTypeOK, ListTyped, MarksTyped
<1>2. ASSUME ListShown, ~isUploading, InFlight = {}, ~behind
      PROVE  documents = rows
  <2>1. documents \in Seq(Docs)
    BY DEF ListTyped
  <2>2. Pending = <<>>
    BY <1>2, NoUploadTyped DEF Phases, Pending
  <2>3. rows = Pending \o Keeping(documents, Docs \ Done)
    BY <1>2 DEF RowsToCome
  <2>4. Keeping(documents, Docs \ Done) = documents
    <3>1. ToSet(documents) \subseteq Docs \ Done
      BY <1>2, <2>1 DEF ToSet, Done
    <3>2. QED
      BY <2>1, <3>1, KeepingAll
  <2>5. QED
    BY <2>1, <2>2, <2>3, <2>4, ConcatEmptySeq
<1>3. QED
  BY <1>1, <1>2 DEF ListTrue
-----------------------------------------------------------------------------

(***************************************************************************)
(* The workspace.  Documents and notes are known by ids: a number of their *)
(* own that counts up, or a place in the server's list, and no two of a    *)
(* list are alike.                                                         *)
(***************************************************************************)

FileNames == UNION {ToSet(files) : files \in Batches}
OwnIds == [of : {"own"}, n : Nat]
OwnDocs == [id : OwnIds, name : FileNames]

LEMMA IdsTell ==
  /\ \A m, n \in Nat : Own(m) = Own(n) => m = n
  /\ \A m, n \in Nat : Base(m) = Base(n) => m = n
  /\ \A n \in Nat : Own(n) \in OwnIds /\ Own(n).n = n /\ Own(n).of = "own"
  /\ \A n \in Nat : Base(n).of = "server" /\ Base(n) # NoId
  /\ \A id \in OwnIds : id # NoId /\ id.of = "own" /\ id.n \in Nat /\ id = Own(id.n)
<1>1. \A n \in Nat : /\ Own(n) \in OwnIds /\ Own(n).n = n /\ Own(n).of = "own"
                     /\ Base(n).of = "server" /\ Base(n).n = n
  BY DEF Own, OwnIds, Base
<1>2. NoId.of = "none"
  BY DEF NoId
<1>3. \A id \in OwnIds : id.of = "own" /\ id.n \in Nat /\ id = Own(id.n)
  BY DEF Own, OwnIds
<1>4. QED
  BY <1>1, <1>2, <1>3

(* One file after the other.                                               *)
FileNext(list, files, m, f, k) ==
  IF k = 0 THEN list
  ELSE IF \E d \in ToSet(f[k - 1]) : d.name = files[k] THEN f[k - 1]
  ELSE <<[id |-> Own(m + k), name |-> files[k]]>> \o f[k - 1]

FilesTo(f, k, list, files, m) == f = [n \in 0..k |-> FileNext(list, files, m, f, n)]

LEMMA FilesExist ==
  ASSUME NEW list, NEW files, NEW b, NEW m \in Nat
  PROVE  \E f : FilesTo(f, m, list, files, b)
<1> DEFINE Unfolds(f, k) == f = [n \in 0..k |-> FileNext(list, files, b, f, n)]
           T == {k \in Nat : \E f : Unfolds(f, k)}
<1>1. 0 \in T
  <2> DEFINE f == [n \in 0..0 |-> list]
  <2>1. Unfolds(f, 0)
    BY DEF FileNext
  <2>2. QED
    BY <2>1
<1>2. ASSUME NEW k \in Nat, k \in T
      PROVE  k + 1 \in T
  <2>1. PICK f : Unfolds(f, k)
    BY <1>2
  <2> DEFINE last == FileNext(list, files, b, f, k + 1)
             g == [n \in 0..(k + 1) |-> IF n = k + 1 THEN last ELSE f[n]]
  <2> HIDE DEF last
  <2>2. /\ g[k + 1] = last
        /\ \A n \in 0..k : g[n] = f[n]
    OBVIOUS
  <2>3. ASSUME NEW n \in 0..(k + 1)
        PROVE  g[n] = FileNext(list, files, b, g, n)
    <3>1. CASE n = k + 1
      <4>1. n # 0 /\ n - 1 = k /\ k \in 0..k
        BY <3>1
      <4>2. QED
        BY <2>2, <3>1, <4>1 DEF last, FileNext
    <3>2. CASE n # k + 1 /\ n # 0
      <4>1. n \in 0..k /\ n - 1 \in 0..k
        BY <3>2
      <4>2. f[n] = FileNext(list, files, b, f, n)
        BY <2>1, <3>2, <4>1
      <4>3. QED
        BY <2>2, <3>2, <4>1, <4>2 DEF FileNext
    <3>3. CASE n = 0
      <4>1. n \in 0..k /\ f[0] = list
        BY <2>1, <3>3 DEF FileNext
      <4>2. QED
        BY <2>2, <3>3, <4>1 DEF FileNext
    <3>4. QED
      BY <3>1, <3>2, <3>3
  <2>4. g = [n \in 0..(k + 1) |-> g[n]]
    OBVIOUS
  <2> HIDE DEF g
  <2>5. Unfolds(g, k + 1)
    <3>1. [n \in 0..(k + 1) |-> g[n]]
            = [n \in 0..(k + 1) |-> FileNext(list, files, b, g, n)]
      BY <2>3
    <3>2. QED
      BY <2>4, <3>1
  <2>6. QED
    BY <2>5
<1> HIDE DEF T
<1>3. m \in T
  BY <1>1, <1>2, SetInduction
<1>4. QED
  BY <1>3 DEF T, FilesTo

LEMMA FilesUnfold ==
  ASSUME NEW list, NEW files, Len(files) \in Nat
  PROVE  LET docs == FilesUpTo(list, files)
         IN \A k \in 0..Len(files) : docs[k] = FileNext(list, files, made, docs, k)
<1> DEFINE docs == FilesUpTo(list, files)
           Unfolds(f) == FilesTo(f, Len(files), list, files, made)
<1>1. docs = CHOOSE f : Unfolds(f)
  BY DEF FilesUpTo, FileNext, FilesTo
<1>2. \E f : Unfolds(f)
  <2>1. PICK b : b = made
    OBVIOUS
  <2>2. \E f : FilesTo(f, Len(files), list, files, b)
    BY FilesExist
  <2>3. QED
    BY <2>1, <2>2
<1> HIDE DEF docs
<1>3. Unfolds(docs)
  <2> HIDE DEF Unfolds
  <2>1. QED
    BY <1>1, <1>2, Zenon
<1>4. QED
  BY <1>3 DEF docs, FilesTo

(* Of a list of files with numbers up to m, k more: what was there stays,  *)
(* and what is new has a new number.                                       *)
Lengthened(list, docs, m, k) ==
  /\ docs \in Seq(OwnDocs) /\ IdsDiffer(docs)
  /\ ToSet(list) \subseteq ToSet(docs)
  /\ \A d \in ToSet(docs) : d.id.n <= m + k /\ (d \in ToSet(list) \/ m < d.id.n)

LEMMA DocOnTop ==
  ASSUME NEW docs \in Seq(OwnDocs), NEW x \in OwnDocs
  PROVE  <<x>> \o docs \in Seq(OwnDocs) /\ ToSet(<<x>> \o docs) = {x} \cup ToSet(docs)
<1> DEFINE one == <<x>>
<1>1. one \in Seq(OwnDocs) /\ DOMAIN one = 1 .. 1 /\ one[1] = x
  OBVIOUS
<1> HIDE DEF one
<1>2. ToSet(one) = {x}
  BY <1>1 DEF ToSet
<1>3. one \o docs \in Seq(OwnDocs) /\ ToSet(one \o docs) = {x} \cup ToSet(docs)
  BY <1>1, <1>2, ToSetConcat
<1>4. QED
  BY <1>3 DEF one

LEMMA FilesLengthen ==
  ASSUME made \in Nat, NEW list \in Seq(OwnDocs), IdsDiffer(list),
         \A d \in ToSet(list) : d.id.n <= made,
         NEW files \in Seq(FileNames)
  PROVE  Lengthened(list, WithFiles(list, files), made, Len(files))
<1> DEFINE docs == FilesUpTo(list, files)
           T == {k \in Nat : k \in 0..Len(files) => Lengthened(list, docs[k], made, k)}
<1>0. PICK m \in Nat : m = made
  OBVIOUS
<1>1. Len(files) \in Nat
  OBVIOUS
<1>2. \A k \in 0..Len(files) : docs[k] = FileNext(list, files, made, docs, k)
  BY <1>1, FilesUnfold
<1> HIDE DEF docs
<1>3. 0 \in T
  <2>1. docs[0] = list
    <3>1. 0 \in 0..Len(files)
      BY <1>1
    <3>2. docs[0] = FileNext(list, files, made, docs, 0)
      BY <1>2, <3>1
    <3>3. QED
      BY <3>2 DEF FileNext
  <2>2. \A d \in ToSet(list) : d.id.n <= m + 0
    <3>1. ASSUME NEW d \in ToSet(list) PROVE d.id.n <= m + 0
      BY <1>0, <3>1
    <3>2. QED
      BY <3>1
  <2>3. QED
    BY <1>0, <2>1, <2>2 DEF Lengthened
<1>4. ASSUME NEW k \in Nat, k \in T
      PROVE  k + 1 \in T
  <2> SUFFICES ASSUME k + 1 \in 0..Len(files)
               PROVE  Lengthened(list, docs[k + 1], made, k + 1)
    OBVIOUS
  <2>1. /\ k \in 0..Len(files) /\ k + 1 \in 1..Len(files) /\ k + 1 # 0
        /\ (k + 1) - 1 = k
    BY <1>1
  <2> DEFINE old == docs[k]
             x == [id |-> Own(m + (k + 1)), name |-> files[k + 1]]
  <2>2. Lengthened(list, old, m, k)
    BY <1>0, <1>4, <2>1
  <2>3. docs[k + 1] = old \/ docs[k + 1] = <<x>> \o old
    BY <1>0, <1>2, <2>1 DEF FileNext
  <2> HIDE DEF old
  <2>4. \A d \in ToSet(old) : d.id \in OwnIds /\ d.id.n \in Nat /\ d.id.n <= m + k
    <3>1. \A d \in ToSet(old) : d \in OwnDocs
      BY <2>2 DEF Lengthened, ToSet
    <3>2. QED
      BY <2>2, <3>1, IdsTell DEF Lengthened, OwnDocs
  <2>5. m + (k + 1) \in Nat /\ m < m + (k + 1) /\ m + k < m + (k + 1)
    OBVIOUS
  <2>6. \A d \in ToSet(old) : d.id.n <= m + (k + 1) /\ d.id.n # m + (k + 1)
    <3>1. \A n \in Nat : n <= m + k => n <= m + (k + 1) /\ n # m + (k + 1)
      OBVIOUS
    <3>2. QED
      BY <2>4, <3>1
  <2>7. CASE docs[k + 1] = old
    BY <1>0, <2>2, <2>6, <2>7 DEF Lengthened
  <2>8. CASE docs[k + 1] = <<x>> \o old
    <3>1. x \in OwnDocs /\ x.id = Own(m + (k + 1))
      <4>1. files[k + 1] \in FileNames
        BY <2>1
      <4>2. QED
        BY <2>5, <4>1, IdsTell DEF OwnDocs
    <3>2. x.id.n = m + (k + 1)
      BY <2>5, <3>1, IdsTell
    <3> HIDE DEF x
    <3>3. <<x>> \o old \in Seq(OwnDocs) /\ ToSet(<<x>> \o old) = {x} \cup ToSet(old)
      BY <2>2, <3>1, DocOnTop DEF Lengthened
    <3>4. IdsDiffer(<<x>> \o old)
      BY <2>2, <2>6, <3>2, <3>3 DEF Lengthened, IdsDiffer
    <3>5. QED
      <4> DEFINE new == <<x>> \o old
      <4>1. new \in Seq(OwnDocs) /\ ToSet(new) = {x} \cup ToSet(old) /\ IdsDiffer(new)
        BY <3>3, <3>4
      <4> HIDE DEF new
      <4>2. x.id.n <= m + (k + 1) /\ m < x.id.n
        BY <2>5, <3>2
      <4>3. Lengthened(list, new, m, k + 1)
        BY <2>2, <2>6, <4>1, <4>2 DEF Lengthened
      <4>4. QED
        BY <1>0, <2>8, <4>3 DEF new
  <2>9. QED
    BY <2>3, <2>7, <2>8
<1> HIDE DEF T
<1>5. Len(files) \in T
  BY <1>1, <1>3, <1>4, SetInduction
<1>6. QED
  BY <1>1, <1>5 DEF T, WithFiles, docs

-----------------------------------------------------------------------------
(* What is listed.                                                         *)

(* What the server may have told of a company: see Arriving.               *)
AllTexts == Texts \cup {None} \cup FileNames
              \cup (UNION {ToSet(load.notes[c]) : load \in Contents, c \in Companies})
              \cup (UNION {ToSet(load.hypotheses[c]) : load \in Contents, c \in Companies})

LEMMA Loaded ==
  ASSUME NEW load \in Contents, NEW c \in Companies
  PROVE  /\ load.docs[c] \in Seq(Names)
         /\ load.notes[c] \in Seq(AllTexts) /\ load.hypotheses[c] \in Seq(AllTexts)
<1>1. PICK d, n, h : d = load.docs[c] /\ n = load.notes[c] /\ h = load.hypotheses[c]
  OBVIOUS
<1>2. d \in Seq(ToSet(d)) /\ n \in Seq(ToSet(n)) /\ h \in Seq(ToSet(h))
  BY <1>1, WorkspaceAssumption
<1>3. ToSet(d) \subseteq Names
  BY <1>1 DEF Names
<1>4. ToSet(n) \subseteq AllTexts
  <2>1. ToSet(load.notes[c]) \subseteq
          UNION {ToSet(l.notes[b]) : l \in Contents, b \in Companies}
    OBVIOUS
  <2>2. QED
    BY <1>1, <2>1 DEF AllTexts
<1>5. ToSet(h) \subseteq AllTexts
  <2>1. ToSet(load.hypotheses[c]) \subseteq
          UNION {ToSet(l.hypotheses[b]) : l \in Contents, b \in Companies}
    OBVIOUS
  <2>2. QED
    BY <1>1, <2>1 DEF AllTexts
<1>6. QED
  BY <1>1, <1>2, <1>3, <1>4, <1>5

(* The uploads that are listed are those not dismissed, and no document of *)
(* the server's has the id of an upload.                                   *)
BaseOf(gone, docs) ==
  LET kept == Keeping(docs, ToSet(docs) \ gone)
  IN [k \in DOMAIN kept |-> [id |-> Base(k), name |-> kept[k]]]

AllOf(ups, gone, docs) ==
  Keeping(ups, {d \in ToSet(ups) : d.name \notin gone}) \o BaseOf(gone, docs)

LEMMA AllAre ==
  ASSUME NEW c
  PROVE  AllDocuments(c) = AllOf(uploads[c], dismissed[c], content.docs[c])
BY DEF AllDocuments, AllOf, UploadItems, BaseItems, BaseOf, BaseDocs

LEMMA DocumentsListed ==
  ASSUME NEW docs \in Seq(Names), NEW ups \in Seq(OwnDocs), IdsDiffer(ups), NEW gone
  PROVE  /\ \A d \in ToSet(AllOf(ups, gone, docs)) :
              /\ d = [id |-> d.id, name |-> d.name]
              /\ \/ d \in ToSet(ups) /\ d.name \notin gone /\ d.id.of = "own"
                 \/ d.id.of = "server" /\ d.name \in Names
         /\ IdsDiffer(AllOf(ups, gone, docs))
         /\ ToSet(AllOf(ups, gone, docs)) =
              {d \in ToSet(ups) : d.name \notin gone} \cup ToSet(BaseOf(gone, docs))
<1> DEFINE kept == Keeping(docs, ToSet(docs) \ gone)
           K == {d \in ToSet(ups) : d.name \notin gone}
           up == Keeping(ups, K)
           base == BaseOf(gone, docs)
           all == AllOf(ups, gone, docs)
<1>1. up \in Seq(OwnDocs) /\ ToSet(up) = {d \in ToSet(ups) : d.name \notin gone}
  <2>2. up \in Seq(OwnDocs \cap K) /\ ToSet(up) = ToSet(ups) \cap K
    BY KeepingType, ToSetKeeping
  <2>3. up \in Seq(OwnDocs)
    BY <2>2
  <2>4. QED
    BY <2>2, <2>3
<1>2. \A d \in ToSet(ups) : d.id.of = "own" /\ d = [id |-> d.id, name |-> d.name]
  <2>1. \A d \in ToSet(ups) : d \in OwnDocs
    BY DEF ToSet
  <2>2. QED
    BY <2>1, IdsTell DEF OwnDocs
<1>3. kept \in Seq(Names)
  <2>1. kept \in Seq(Names \cap (ToSet(docs) \ gone))
    BY KeepingType
  <2>2. QED
    BY <2>1
<1>4. base = [k \in DOMAIN kept |-> [id |-> Base(k), name |-> kept[k]]]
  BY DEF BaseOf
<1>4a. all = up \o base
  BY DEF AllOf
<1> HIDE DEF kept, up, base, all
<1>5. DOMAIN kept = 1..Len(kept) /\ Len(kept) \in Nat
      /\ \A k \in DOMAIN kept : kept[k] \in Names /\ k \in Nat
  BY <1>3
<1>6. \A d \in ToSet(base) : \E k \in DOMAIN kept : d = [id |-> Base(k), name |-> kept[k]]
  BY <1>4 DEF ToSet
<1>7. \A d \in ToSet(base) : /\ d.id.of = "server" /\ d.name \in Names
                             /\ d = [id |-> d.id, name |-> d.name]
  BY <1>5, <1>6, IdsTell
<1>8. IdsDiffer(base)
  <2>1. ASSUME NEW p \in ToSet(base), NEW q \in ToSet(base), p.id = q.id
        PROVE  p = q
    <3>1. PICK j \in DOMAIN kept : p = [id |-> Base(j), name |-> kept[j]]
      BY <1>6
    <3>2. PICK k \in DOMAIN kept : q = [id |-> Base(k), name |-> kept[k]]
      BY <1>6
    <3>3. Base(j) = Base(k) /\ j \in Nat /\ k \in Nat
      BY <1>5, <2>1, <3>1, <3>2
    <3>4. QED
      BY <3>1, <3>2, <3>3, IdsTell
  <2>2. QED
    BY <2>1 DEF IdsDiffer
<1>9. ToSet(up \o base) = ToSet(up) \cup ToSet(base)
  <2> DEFINE S == OwnDocs \cup ToSet(base)
  <2>1. up \in Seq(S)
    BY <1>1
  <2>2. base \in Seq(S)
    <3>1. DOMAIN base = 1..Len(kept) /\ base = [k \in 1..Len(kept) |-> base[k]]
      BY <1>4, <1>5
    <3>2. \A k \in 1..Len(kept) : base[k] \in S
      BY <3>1 DEF ToSet
    <3>3. QED
      BY <1>5, <3>1, <3>2, IsASeq
  <2>3. QED
    BY <2>1, <2>2, ToSetConcat
<1>10. ToSet(all) = ToSet(up) \cup ToSet(base)
  BY <1>4a, <1>9
<1>11. IdsDiffer(all)
  <2>1. ASSUME NEW p \in ToSet(all), NEW q \in ToSet(all), p.id = q.id
        PROVE  p = q
    <3>1. CASE p \in ToSet(up) /\ q \in ToSet(up)
      BY <1>1, <2>1, <3>1 DEF IdsDiffer
    <3>2. CASE p \in ToSet(base) /\ q \in ToSet(base)
      BY <1>8, <2>1, <3>2 DEF IdsDiffer
    <3>3. CASE \/ p \in ToSet(up) /\ q \in ToSet(base)
               \/ p \in ToSet(base) /\ q \in ToSet(up)
      BY <1>1, <1>2, <1>7, <2>1, <3>3
    <3>4. QED
      BY <1>10, <3>1, <3>2, <3>3
  <2>2. QED
    BY <2>1 DEF IdsDiffer
<1>12. QED
  BY <1>1, <1>2, <1>7, <1>10, <1>11 DEF up, base, all

-----------------------------------------------------------------------------
(* Documents and their URLs.                                               *)

FilesTyped ==
  /\ uploads \in [Companies -> Seq(OwnDocs)]
  /\ DOMAIN opened = Companies /\ DOMAIN dismissed = Companies
  /\ \A c \in Companies : dismissed[c] \subseteq Names

FilesNumbered ==
  \A c \in Companies :
    IdsDiffer(uploads[c]) /\ \A d \in ToSet(uploads[c]) : d.id.n <= made

FilesApart ==
  \A b, c \in Companies : \A d \in ToSet(uploads[b]), e \in ToSet(uploads[c]) :
    d.id = e.id => b = c

UrlsKnown ==
  \A id : id \in urls <=> \E c \in Companies : \E d \in ToSet(uploads[c]) : d.id = id

(* The open document is one of those that would be listed were the         *)
(* server's what they were when it was clicked.                            *)
OpenedListed ==
  \A c \in Companies : opened[c] # NoDocument =>
    /\ opened[c].among \in Seq(Names)
    /\ [id |-> opened[c].id, name |-> opened[c].name]
         \in ToSet(AllOf(uploads[c], dismissed[c], opened[c].among))

FilesHeld == FilesTyped /\ FilesNumbered /\ FilesApart /\ UrlsKnown /\ OpenedListed

LEMMA FilesKept ==
  ASSUME FilesHeld, UNCHANGED docTabVars, made \in Nat, made' \in Nat, made <= made'
  PROVE  FilesHeld'
<1>1. UNCHANGED <<uploads, dismissed, opened, urls>>
  BY DEF docTabVars
<1>2. FilesTyped' /\ FilesApart' /\ UrlsKnown'
  BY <1>1 DEF FilesHeld, FilesTyped, FilesApart, UrlsKnown
<1>3. FilesNumbered'
  <2>1. ASSUME NEW c \in Companies, NEW d \in ToSet(uploads[c]) PROVE d.id.n <= made'
    <3>1. d \in OwnDocs
      BY DEF FilesHeld, FilesTyped, ToSet
    <3>2. d.id.n \in Nat /\ d.id.n <= made
      BY <3>1, IdsTell DEF FilesHeld, FilesNumbered, OwnDocs
    <3>3. QED
      BY <3>2
  <2>2. QED
    BY <1>1, <2>1 DEF FilesHeld, FilesNumbered
<1>4. OpenedListed'
  BY <1>1 DEF FilesHeld, OpenedListed
<1>5. QED
  BY <1>2, <1>3, <1>4 DEF FilesHeld

LEMMA BatchIsFiles ==
  ASSUME NEW files \in Batches
  PROVE  files \in Seq(FileNames) /\ files # <<>>
<1>1. files \in Seq(ToSet(files)) \ {<<>>}
  BY WorkspaceAssumption
<1>2. ToSet(files) \subseteq FileNames
  BY DEF FileNames
<1>3. files \in Seq(FileNames)
  BY <1>1, <1>2
<1>4. QED
  BY <1>1, <1>3

(* Files are added, with URLs of their own.                                *)
LEMMA FilesStored ==
  ASSUME FilesHeld, made \in Nat, selected \in Companies,
         NEW files \in Batches, StoreFiles(files), UNCHANGED <<dismissed, opened>>
  PROVE  FilesHeld' /\ made' \in 0..MaxMade
<1> USE DEF FilesHeld
<1>0. PICK s \in Companies, m \in Nat : s = selected /\ m = made
  OBVIOUS
<1> DEFINE old == uploads[s]
           new == WithFiles(old, files)
           n == Len(files)
<1>1. /\ m + n <= MaxMade /\ made' = m + n
      /\ uploads' = [uploads EXCEPT ![s] = new]
      /\ urls' = urls \cup {d.id : d \in ToSet(new) \ ToSet(old)}
  BY <1>0 DEF StoreFiles
<1>2. files \in Seq(FileNames) /\ n \in Nat
  BY BatchIsFiles
<1>3. uploads \in [Companies -> Seq(OwnDocs)] /\ old \in Seq(OwnDocs)
  BY DEF FilesTyped
<1>4. Lengthened(old, new, m, n)
  <2>1. IdsDiffer(old) /\ \A d \in ToSet(old) : d.id.n <= made
    BY DEF FilesNumbered
  <2> HIDE DEF old
  <2>2. PICK l \in Seq(OwnDocs) : l = old
    BY <1>3
  <2>3. Lengthened(l, WithFiles(l, files), made, Len(files))
    BY <1>2, <2>1, <2>2, <1>0, FilesLengthen
  <2>4. QED
    BY <1>0, <2>2, <2>3
<1> HIDE DEF new, n
<1>5. uploads'[s] = new /\ \A c \in Companies : c # s => uploads'[c] = uploads[c]
  BY <1>1, <1>3
<1>6. made' \in 0..MaxMade /\ m <= m + n /\ m + n \in Nat
  <2>1. MaxMade \in Nat
    BY WorkspaceAssumption
  <2>2. m + n \in Nat /\ m <= m + n
    BY <1>2
  <2>3. QED
    BY <1>1, <2>1, <2>2
<1>7. /\ new \in Seq(OwnDocs) /\ IdsDiffer(new) /\ ToSet(old) \subseteq ToSet(new)
      /\ \A d \in ToSet(new) : d.id.n <= m + n /\ (d \in ToSet(old) \/ m < d.id.n)
  BY <1>4 DEF Lengthened
<1>8. \A c \in Companies : \A d \in ToSet(uploads[c]) : d.id.n \in Nat /\ d.id.n <= m
  <2>1. \A c \in Companies : \A d \in ToSet(uploads[c]) : d \in OwnDocs
    BY DEF FilesTyped, ToSet
  <2>2. QED
    BY <1>0, <2>1, IdsTell DEF FilesNumbered, OwnDocs
<1>9. FilesTyped'
  BY <1>1, <1>3, <1>7 DEF FilesTyped
<1>10. FilesNumbered'
  <2>1. ASSUME NEW c \in Companies
        PROVE  IdsDiffer(uploads'[c]) /\ \A d \in ToSet(uploads'[c]) : d.id.n <= made'
    <3>1. CASE c = s
      BY <1>1, <1>5, <1>7, <3>1
    <3>2. CASE c # s
      <4>1. \A k \in Nat : k <= m => k <= m + n
        BY <1>2 DEF n
      <4>2. QED
        BY <1>1, <1>5, <1>8, <3>2, <4>1 DEF FilesNumbered
    <3>3. QED
      BY <3>1, <3>2
  <2>2. QED
    BY <2>1 DEF FilesNumbered
<1>11. FilesApart'
  <2>1. ASSUME NEW c \in Companies, c # s, NEW d \in ToSet(new), NEW e \in ToSet(uploads[c]),
               d.id = e.id
        PROVE  FALSE
    <3>1. d \notin ToSet(old)
      BY <2>1 DEF FilesApart
    <3>2. m < e.id.n
      BY <1>7, <2>1, <3>1
    <3>3. e.id.n \in Nat /\ e.id.n <= m
      BY <1>8
    <3>4. QED
      BY <3>2, <3>3
  <2>2. ASSUME NEW b \in Companies, NEW c \in Companies,
               NEW d \in ToSet(uploads'[b]), NEW e \in ToSet(uploads'[c]), d.id = e.id
        PROVE  b = c
    <3>1. CASE b = s /\ c # s
      BY <1>5, <2>1, <2>2, <3>1
    <3>2. CASE b # s /\ c = s
      BY <1>5, <2>1, <2>2, <3>2
    <3>3. CASE b # s /\ c # s
      BY <1>5, <2>2, <3>3 DEF FilesApart
    <3>4. QED
      BY <3>1, <3>2, <3>3
  <2>3. QED
    BY <2>2 DEF FilesApart
<1>12. UrlsKnown'
  <2>1. ASSUME NEW id, id \in urls'
        PROVE  \E c \in Companies : \E d \in ToSet(uploads'[c]) : d.id = id
    <3>1. CASE id \in urls
      <4>0. PICK c \in Companies : \E d \in ToSet(uploads[c]) : d.id = id
        BY <3>1 DEF UrlsKnown
      <4>1. PICK d \in ToSet(uploads[c]) : d.id = id
        BY <4>0
      <4>2. d \in ToSet(uploads'[c])
        BY <1>5, <1>7
      <4>3. QED
        BY <4>1, <4>2
    <3>2. CASE id \notin urls
      <4>1. PICK d \in ToSet(new) : d.id = id
        BY <1>1, <2>1, <3>2
      <4>2. QED
        BY <1>5, <4>1
    <3>3. QED
      BY <3>1, <3>2
  <2>2. ASSUME NEW c \in Companies, NEW d \in ToSet(uploads'[c])
        PROVE  d.id \in urls'
    <3>1. CASE d \in ToSet(uploads[c])
      <4>1. d.id \in urls
        BY <3>1 DEF UrlsKnown
      <4>2. QED
        BY <1>1, <4>1
    <3>2. CASE d \notin ToSet(uploads[c])
      <4>1. c = s /\ d \in ToSet(new) \ ToSet(old)
        BY <1>5, <3>2
      <4>2. QED
        BY <1>1, <4>1
    <3>3. QED
      BY <3>1, <3>2
  <2>3. QED
    BY <2>1, <2>2 DEF UrlsKnown
<1>13. OpenedListed'
  <2>1. ASSUME NEW c \in Companies, NEW gone, NEW docs \in Seq(Names),
               NEW x \in ToSet(AllOf(uploads[c], gone, docs))
        PROVE  x \in ToSet(AllOf(uploads'[c], gone, docs))
    <3>1. PICK l \in Seq(OwnDocs), k \in Seq(OwnDocs) : l = uploads[c] /\ k = uploads'[c]
      BY <1>9 DEF FilesTyped
    <3>2. IdsDiffer(l) /\ IdsDiffer(k) /\ ToSet(l) \subseteq ToSet(k)
      BY <1>5, <1>7, <1>10, <3>1 DEF FilesNumbered
    <3>3. /\ ToSet(AllOf(l, gone, docs)) =
               {d \in ToSet(l) : d.name \notin gone} \cup ToSet(BaseOf(gone, docs))
          /\ ToSet(AllOf(k, gone, docs)) =
               {d \in ToSet(k) : d.name \notin gone} \cup ToSet(BaseOf(gone, docs))
      BY <3>2, DocumentsListed
    <3>4. ToSet(AllOf(l, gone, docs)) \subseteq ToSet(AllOf(k, gone, docs))
      BY <3>2, <3>3
    <3>5. QED
      BY <2>1, <3>1, <3>4
  <2>2. QED
    BY <2>1 DEF OpenedListed
<1>14. QED
  BY <1>6, <1>9, <1>10, <1>11, <1>12, <1>13

(* Of the documents that are listed one has the open one's id: itself.     *)
LEMMA OpenedIsListed ==
  ASSUME FilesHeld, content \in Contents, NEW c \in Companies, NEW d \in OpenedDocument(c)
  PROVE  \/ d \in ToSet(uploads[c]) /\ d.id.of = "own"
         \/ d.id.of # "own" /\ d.name \in Names
<1>1. PICK ups \in Seq(OwnDocs), docs \in Seq(Names), gone \in SUBSET Names :
        ups = uploads[c] /\ docs = content.docs[c] /\ gone = dismissed[c]
  BY Loaded DEF FilesHeld, FilesTyped
<1>2. IdsDiffer(ups) /\ AllDocuments(c) = AllOf(ups, gone, docs)
  BY <1>1, AllAre DEF FilesHeld, FilesNumbered
<1>3. \A e \in ToSet(AllOf(ups, gone, docs)) :
        \/ e \in ToSet(ups) /\ e.id.of = "own"
        \/ e.id.of = "server" /\ e.name \in Names
  BY <1>2, DocumentsListed
<1>4. d \in ToSet(AllOf(ups, gone, docs))
  BY <1>2 DEF OpenedDocument
<1>5. QED
  BY <1>1, <1>3, <1>4

(* An upload goes with its URL.                                            *)
LEMMA UploadDeleted ==
  ASSUME FilesHeld, made \in Nat, NEW s \in Companies, NEW d \in ToSet(uploads[s]),
         uploads' = [uploads EXCEPT ![s] = Keeping(@, {e \in ToSet(@) : e.id # d.id})],
         urls' = urls \ {d.id}, UNCHANGED <<dismissed, made>>,
         opened' = [opened EXCEPT ![s] = NoDocument]
  PROVE  FilesHeld'
<1> USE DEF FilesHeld
<1> DEFINE old == uploads[s]
           K == {e \in ToSet(old) : e.id # d.id}
           new == Keeping(old, K)
<1>1. uploads \in [Companies -> Seq(OwnDocs)] /\ old \in Seq(OwnDocs) /\ DOMAIN opened = Companies
  BY DEF FilesTyped
<1>2. new \in Seq(OwnDocs) /\ ToSet(new) = K
  <2>1. new \in Seq(OwnDocs \cap K) /\ ToSet(new) = ToSet(old) \cap K
    BY <1>1, KeepingType, ToSetKeeping
  <2>2. new \in Seq(OwnDocs)
    BY <2>1
  <2>3. QED
    BY <2>1, <2>2
<1>3. uploads' = [uploads EXCEPT ![s] = new]
  OBVIOUS
<1> HIDE DEF new
<1>4. /\ uploads'[s] = new /\ \A c \in Companies : c # s => uploads'[c] = uploads[c]
      /\ \A c \in Companies : ToSet(uploads'[c]) \subseteq ToSet(uploads[c])
  BY <1>1, <1>2, <1>3
<1>5. FilesTyped'
  BY <1>1, <1>2, <1>3 DEF FilesTyped
<1>6. FilesNumbered' /\ FilesApart'
  BY <1>4 DEF FilesNumbered, FilesApart, IdsDiffer
<1>7. UrlsKnown'
  <2>1. ASSUME NEW id, id \in urls'
        PROVE  \E c \in Companies : \E e \in ToSet(uploads'[c]) : e.id = id
    <3>1. id # d.id
      BY <2>1
    <3>2. PICK c \in Companies : \E e \in ToSet(uploads[c]) : e.id = id
      BY <2>1 DEF UrlsKnown
    <3>3. PICK e \in ToSet(uploads[c]) : e.id = id
      BY <3>2
    <3>4. e \in ToSet(uploads'[c])
      BY <1>2, <1>4, <3>1, <3>3
    <3>5. QED
      BY <3>3, <3>4
  <2>2. ASSUME NEW c \in Companies, NEW e \in ToSet(uploads'[c])
        PROVE  e.id \in urls'
    <3>1. e \in ToSet(uploads[c])
      BY <1>4
    <3>2. e.id \in urls
      BY <3>1 DEF UrlsKnown
    <3>3. e.id # d.id
      <4>1. CASE c = s
        BY <1>2, <1>4, <4>1
      <4>2. CASE c # s
        BY <3>1, <4>2 DEF FilesApart
      <4>3. QED
        BY <4>1, <4>2
    <3>4. QED
      BY <3>2, <3>3
  <2>3. QED
    BY <2>1, <2>2 DEF UrlsKnown
<1>8. OpenedListed'
  <2>1. ASSUME NEW c \in Companies, c # s
        PROVE  opened'[c] = opened[c] /\ uploads'[c] = uploads[c] /\ dismissed'[c] = dismissed[c]
    BY <1>1, <1>4, <2>1
  <2>2. opened'[s] = NoDocument
    BY <1>1
  <2>3. QED
    BY <2>1, <2>2 DEF OpenedListed
<1>9. QED
  BY <1>5, <1>6, <1>7, <1>8

LEMMA DocumentsTabInv ==
  ASSUME FilesHeld, content \in Contents, made \in 0..MaxMade, selected # None => selected \in Companies,
         DocumentsTab
  PROVE  /\ FilesHeld' /\ made' \in 0..MaxMade
         /\ UNCHANGED <<placeVars, noteTabVars, hypTabVars, teamTabVars>>
<1> USE DEF FilesHeld
<1>0. made \in Nat
  OBVIOUS
<1>1. ASSUME NEW files \in Batches, HandleDocumentUpload(files)
      PROVE  /\ FilesHeld' /\ made' \in 0..MaxMade
             /\ UNCHANGED <<placeVars, noteTabVars, hypTabVars, teamTabVars>>
  <2>1. /\ selected # None /\ StoreFiles(files) /\ UNCHANGED <<dismissed, opened>>
        /\ UNCHANGED <<placeVars, noteTabVars, hypTabVars, teamTabVars>>
    BY <1>1 DEF HandleDocumentUpload, InTab
  <2>2. QED
    BY <1>0, <2>1, FilesStored
<1>2. ASSUME selected # None, NEW d \in ToSet(AllDocuments(selected)), HandleDocumentOpen(d)
      PROVE  /\ FilesHeld' /\ made' \in 0..MaxMade
             /\ UNCHANGED <<placeVars, noteTabVars, hypTabVars, teamTabVars>>
  <2> DEFINE x == [id |-> d.id, name |-> d.name, among |-> BaseDocs[selected]]
  <2>1. /\ opened' = [opened EXCEPT ![selected] = x]
        /\ UNCHANGED <<made, uploads, dismissed, urls>>
        /\ UNCHANGED <<placeVars, noteTabVars, hypTabVars, teamTabVars>>
    BY <1>2 DEF HandleDocumentOpen, InTab
  <2>2. DOMAIN opened = Companies
    BY DEF FilesTyped
  <2>3. FilesTyped' /\ FilesNumbered' /\ FilesApart' /\ UrlsKnown'
    BY <2>1, <2>2 DEF FilesTyped, FilesNumbered, FilesApart, UrlsKnown
  <2>4. /\ x.among \in Seq(Names)
        /\ [id |-> x.id, name |-> x.name]
             \in ToSet(AllOf(uploads[selected], dismissed[selected], x.among))
    <3>1. PICK ups \in Seq(OwnDocs), docs \in Seq(Names), gone \in SUBSET Names :
            /\ ups = uploads[selected] /\ docs = BaseDocs[selected]
            /\ gone = dismissed[selected] /\ docs = content.docs[selected]
      BY <1>2, Loaded DEF FilesTyped, BaseDocs
    <3>2. IdsDiffer(ups) /\ AllDocuments(selected) = AllOf(ups, gone, docs)
      BY <1>2, <3>1, AllAre DEF FilesNumbered
    <3>3. d = [id |-> d.id, name |-> d.name]
      BY <1>2, <3>2, DocumentsListed
    <3>4. QED
      BY <1>2, <3>1, <3>2, <3>3
  <2> HIDE DEF x
  <2>5. OpenedListed'
    <3>1. ASSUME NEW c \in Companies
          PROVE  IF c = selected THEN opened'[c] = x ELSE opened'[c] = opened[c]
      BY <2>1, <2>2
    <3>2. QED
      BY <2>1, <2>4, <3>1 DEF OpenedListed
  <2>6. QED
    BY <2>1, <2>3, <2>5
<1>3. ASSUME selected # None, NEW d \in ToSet(AllDocuments(selected)), HandleDeleteDocument(d)
      PROVE  /\ FilesHeld' /\ made' \in 0..MaxMade
             /\ UNCHANGED <<placeVars, noteTabVars, hypTabVars, teamTabVars>>
  <2>1. /\ d \in OpenedDocument(selected)
        /\ opened' = [opened EXCEPT ![selected] = NoDocument]
        /\ UNCHANGED made
        /\ UNCHANGED <<placeVars, noteTabVars, hypTabVars, teamTabVars>>
    BY <1>3 DEF HandleDeleteDocument, InTab
  <2>2. \/ d \in ToSet(uploads[selected]) /\ d.id.of = "own"
        \/ d.id.of # "own" /\ d.name \in Names
    <3>1. PICK c \in Companies : c = selected
      BY <1>3
    <3>2. QED
      BY <2>1, <3>1, OpenedIsListed
  <2>3. CASE d.id.of = "own"
    <3>1. /\ uploads' = [uploads EXCEPT ![selected] = Keeping(@, {e \in ToSet(@) : e.id # d.id})]
          /\ urls' = urls \ {d.id} /\ UNCHANGED dismissed
      BY <1>3, <2>3 DEF HandleDeleteDocument
    <3>2. PICK s \in Companies : s = selected
      BY <1>3
    <3>3. d \in ToSet(uploads[s])
      BY <2>2, <2>3, <3>2
    <3>4. FilesHeld'
      BY <1>0, <2>1, <3>1, <3>2, <3>3, UploadDeleted
    <3>5. QED
      BY <2>1, <3>4
  <2>4. CASE d.id.of # "own"
    <3>1. /\ dismissed' = [dismissed EXCEPT ![selected] = @ \cup {d.name}]
          /\ UNCHANGED <<uploads, urls>>
      BY <1>3, <2>4 DEF HandleDeleteDocument
    <3>2. DOMAIN opened = Companies /\ DOMAIN dismissed = Companies
      BY DEF FilesTyped
    <3>3. \A c \in Companies :
            IF c = selected THEN dismissed'[c] = dismissed[c] \cup {d.name} /\ opened'[c] = NoDocument
            ELSE dismissed'[c] = dismissed[c] /\ opened'[c] = opened[c]
      BY <2>1, <3>1, <3>2
    <3>4. FilesTyped'
      BY <2>1, <2>2, <2>4, <3>1, <3>2, <3>3 DEF FilesTyped
    <3>5. FilesNumbered' /\ FilesApart' /\ UrlsKnown'
      BY <2>1, <3>1 DEF FilesNumbered, FilesApart, UrlsKnown
    <3>6. OpenedListed'
      BY <3>1, <3>3 DEF OpenedListed
    <3>7. QED
      BY <2>1, <3>4, <3>5, <3>6
  <2>5. QED
    BY <2>3, <2>4
<1>4. QED
  BY <1>1, <1>2, <1>3 DEF DocumentsTab
-----------------------------------------------------------------------------
(* Notes.                                                                  *)

ItemIds == OwnIds \cup [of : {"server"}, n : Nat]
Notes == [id : ItemIds, text : AllTexts, source : {"manual", "file", "base"}]
Edits == [of : ItemIds \cup {NoId}, text : AllTexts]

ServerNotes(texts) ==
  [k \in DOMAIN texts |-> [id |-> Base(k), text |-> texts[k], source |-> "base"]]

NotesOf(own, texts) == own \o ServerNotes(texts)

ActiveOf(list, a) == IF a # NoId THEN a ELSE IF list = <<>> THEN NoId ELSE list[1].id

WithId(list, id) == {note \in ToSet(list) : note.id = id}

ShownOf(list, a) == WithId(list, ActiveOf(list, a))

(* The note the form is that of.                                           *)
EditOf(list, a) == IF ShownOf(list, a) = {} THEN NoId ELSE ActiveOf(list, a)

FormOf(own, active, s, base) ==
  IF s = None \/ ShownOf(NotesOf(own[s], base[s]), active[s]) = {}
  THEN [of |-> NoId, text |-> None]
  ELSE LET note == CHOOSE note \in ShownOf(NotesOf(own[s], base[s]), active[s]) : TRUE
       IN [of |-> note.id, text |-> note.text]

LEMMA FormIs ==
  /\ NoteForm = FormOf(notes, activeNote, selected, content.notes)
  /\ NoteForm' = FormOf(notes', activeNote', selected', content'.notes)
BY DEF NoteForm, FormOf, ActiveNote, ActiveNoteId, NotesFor, NotesOf, ServerNotes, ActiveOf,
       WithId, ShownOf, BaseNotes

LEMMA NotesAre ==
  ASSUME NEW c
  PROVE  /\ NotesFor(c) = NotesOf(notes[c], content.notes[c])
         /\ ActiveNoteId(c) = ActiveOf(NotesOf(notes[c], content.notes[c]), activeNote[c])
         /\ ActiveNote(c) = ShownOf(NotesOf(notes[c], content.notes[c]), activeNote[c])
BY DEF ActiveNote, ActiveNoteId, NotesFor, NotesOf, ServerNotes, ActiveOf, WithId, ShownOf,
       BaseNotes

LEMMA ItemIdsTell ==
  /\ \A n \in Nat : Base(n) \in ItemIds /\ Own(n) \in ItemIds
  /\ NoId \notin ItemIds
<1>1. \A n \in Nat : Base(n) \in ItemIds
  BY DEF Base, ItemIds
<1>2. \A n \in Nat : Own(n) \in ItemIds
  BY IdsTell DEF ItemIds
<1>3. \A id \in ItemIds : id.of \in {"own", "server"}
  BY DEF ItemIds, OwnIds
<1>4. NoId.of = "none"
  BY DEF NoId
<1>5. QED
  BY <1>1, <1>2, <1>3, <1>4

LEMMA ServerNotesListed ==
  ASSUME NEW texts \in Seq(AllTexts)
  PROVE  /\ ServerNotes(texts) \in Seq(Notes)
         /\ \A note \in ToSet(ServerNotes(texts)) : note.id.of = "server"
<1>1. ServerNotes(texts) = [k \in DOMAIN texts |-> [id |-> Base(k), text |-> texts[k], source |-> "base"]]
  BY DEF ServerNotes
<1>2. DOMAIN texts = 1..Len(texts) /\ Len(texts) \in Nat
      /\ \A k \in DOMAIN texts : texts[k] \in AllTexts /\ k \in Nat
  OBVIOUS
<1>3. \A k \in DOMAIN texts : [id |-> Base(k), text |-> texts[k], source |-> "base"] \in Notes
  BY <1>2, ItemIdsTell DEF Notes
<1> DEFINE s == ServerNotes(texts)
<1>4. s = [k \in 1..Len(texts) |-> s[k]] /\ \A k \in 1..Len(texts) : s[k] \in Notes
  BY <1>1, <1>2, <1>3
<1>5. \A note \in ToSet(s) : note.id.of = "server"
  <2>1. \A k \in DOMAIN texts : s[k].id = Base(k) /\ k \in Nat
    BY <1>1, <1>2
  <2>2. DOMAIN s = DOMAIN texts
    BY <1>1
  <2> HIDE DEF s
  <2>3. QED
    BY <2>1, <2>2, IdsTell DEF ToSet
<1> HIDE DEF s
<1>6. s \in Seq(Notes)
  BY <1>2, <1>4, IsASeq
<1>7. QED
  BY <1>5, <1>6 DEF s

LEMMA NotesListed ==
  ASSUME NEW texts \in Seq(AllTexts), NEW own \in Seq(Notes)
  PROVE  /\ NotesOf(own, texts) \in Seq(Notes)
         /\ ToSet(NotesOf(own, texts)) = ToSet(own) \cup ToSet(ServerNotes(texts))
  BY ServerNotesListed, ToSetConcat DEF NotesOf

(* A note that was made here and chosen is listed.                         *)
ActiveThere(own, a) == a.of = "own" => \E note \in ToSet(own) : note.id = a

(* A form that is filled again is the active note's.                       *)
LEMMA FormFilled ==
  ASSUME NEW s, s # None => s \in Companies,
         NEW own \in [Companies -> Seq(Notes)], NEW active, NEW load \in Contents
  PROVE  /\ FormOf(own, active, s, load.notes) \in Edits
         /\ s # None => FormOf(own, active, s, load.notes).of
                           = EditOf(NotesOf(own[s], load.notes[s]), active[s])
<1> DEFINE list == NotesOf(own[s], load.notes[s])
           id == ActiveOf(list, active[s])
           here == ShownOf(list, active[s])
           note == CHOOSE n \in here : TRUE
           blank == [of |-> NoId, text |-> None]
           got == FormOf(own, active, s, load.notes)
<1>0. blank \in Edits /\ blank.of = NoId
  BY DEF Edits, AllTexts
<1>1. CASE s = None
  BY <1>0, <1>1 DEF FormOf
<1>2. CASE s # None /\ here = {}
  <2>1. got = blank
    BY <1>2 DEF FormOf
  <2>2. EditOf(list, active[s]) = NoId
    BY <1>2 DEF EditOf
  <2> HIDE DEF got, blank, list
  <2>3. QED
    BY <1>0, <2>1, <2>2 DEF got, list
<1>3. CASE s # None /\ here # {}
  <2>1. got = [of |-> note.id, text |-> note.text]
    BY <1>3 DEF FormOf
  <2>2. note \in here
    BY <1>3
  <2>3. list \in Seq(Notes)
    <3>1. PICK o \in Seq(Notes), texts \in Seq(AllTexts) : o = own[s] /\ texts = load.notes[s]
      BY <1>3, Loaded
    <3>2. NotesOf(o, texts) \in Seq(Notes)
      BY NotesListed
    <3>3. QED
      BY <3>1, <3>2
  <2>4. EditOf(list, active[s]) = id
    BY <1>3 DEF EditOf
  <2>5. here = WithId(list, id)
    BY DEF ShownOf
  <2> HIDE DEF note, list, id, got, here
  <2>6. note \in Notes /\ note.id = id
    <3>1. note \in ToSet(list) /\ note.id = id
      BY <2>2, <2>5 DEF WithId
    <3>2. QED
      BY <2>3, <3>1 DEF ToSet
  <2>7. note.id \in ItemIds /\ note.text \in AllTexts
    BY <2>6 DEF Notes
  <2>8. got \in Edits
    BY <2>1, <2>7 DEF Edits
  <2>9. got.of = id
    BY <2>1, <2>6
  <2>10. QED
    BY <2>4, <2>8, <2>9 DEF got, list
<1>4. QED
  BY <1>1, <1>2, <1>3

LEMMA SelectedIsSome == None \notin Companies
  BY WorkspaceAssumption DEF None

NotesTyped ==
  /\ notes \in [Companies -> Seq(Notes)] /\ DOMAIN activeNote = Companies
  /\ noteDraft \in AllTexts
  /\ \A c \in Companies : ActiveThere(notes[c], activeNote[c])

EditFollows ==
  /\ noteEdit \in Edits
  /\ selected # None =>
       noteEdit.of = EditOf(NotesOf(notes[selected], content.notes[selected]), activeNote[selected])

NotesHeld == NotesTyped /\ EditFollows

LEMMA EditFilled ==
  ASSUME NotesTyped', content' \in Contents, selected' # None => selected' \in Companies,
         noteEdit' = NoteForm'
  PROVE  NotesHeld'
<1>1. PICK s, own, active : s = selected' /\ own = notes' /\ active = activeNote'
  OBVIOUS
<1>2. PICK load \in Contents : load = content'
  OBVIOUS
<1>3. own \in [Companies -> Seq(Notes)] /\ (s # None => s \in Companies)
  BY <1>1 DEF NotesTyped
<1>4. /\ FormOf(own, active, s, load.notes) \in Edits
      /\ s # None => FormOf(own, active, s, load.notes).of
                        = EditOf(NotesOf(own[s], load.notes[s]), active[s])
  BY <1>3, FormFilled
<1>5. noteEdit' = FormOf(own, active, s, load.notes)
  BY <1>1, <1>2, FormIs
<1>6. EditFollows'
  BY <1>1, <1>2, <1>4, <1>5 DEF EditFollows
<1>7. QED
  BY <1>6 DEF NotesHeld

(* Where nothing of it changes the tab is left as it is.                   *)
LEMMA NotesKept ==
  ASSUME NotesHeld, UNCHANGED <<selected, content, noteTabVars>>
  PROVE  NotesHeld'
  BY DEF NotesHeld, NotesTyped, EditFollows, noteTabVars

(* New notes on top, the first of them the one that is shown.              *)
LEMMA NotesPut ==
  ASSUME NotesHeld, selected \in Companies, content \in Contents,
         NEW new \in Seq(Notes), new # <<>>, PutNotes(new), noteDraft' \in AllTexts,
         UNCHANGED <<selected, content>>
  PROVE  NotesHeld'
<1> USE DEF NotesHeld
<1>0. PICK s \in Companies : s = selected
  OBVIOUS
<1> DEFINE own == new \o notes[s]
<1>1. /\ notes' = [notes EXCEPT ![s] = own]
      /\ activeNote' = [activeNote EXCEPT ![s] = new[1].id]
      /\ noteEdit' = NoteForm'
  BY <1>0 DEF PutNotes
<1>2. notes \in [Companies -> Seq(Notes)] /\ DOMAIN activeNote = Companies
  BY DEF NotesTyped
<1>3. own \in Seq(Notes) /\ ToSet(own) = ToSet(new) \cup ToSet(notes[s])
  BY <1>2, ToSetConcat
<1> HIDE DEF own
<1>4. new[1] \in ToSet(own)
  <2>1. 1 \in DOMAIN new
    OBVIOUS
  <2>2. QED
    BY <1>3, <2>1 DEF ToSet
<1>5. ASSUME NEW c \in Companies
      PROVE  ActiveThere(notes'[c], activeNote'[c])
  <2>1. CASE c = s
    BY <1>1, <1>2, <1>4, <2>1 DEF ActiveThere
  <2>2. CASE c # s
    BY <1>1, <1>2, <2>2 DEF NotesTyped
  <2>3. QED
    BY <2>1, <2>2
<1>6. notes' \in [Companies -> Seq(Notes)] /\ DOMAIN activeNote' = Companies
  BY <1>1, <1>2, <1>3
<1>7. NotesTyped'
  BY <1>5, <1>6 DEF NotesTyped
<1>8. selected' \in Companies
  OBVIOUS
<1>9. QED
  BY <1>1, <1>7, <1>8, EditFilled

(* The text of the notes with an id changes; none comes and none goes.     *)
LEMMA NoteSaved ==
  ASSUME NotesHeld, selected \in Companies, content \in Contents, HandleSaveNoteEdit
  PROVE  NotesHeld'
<1> USE DEF NotesHeld
<1>0. PICK s \in Companies : s = selected
  OBVIOUS
<1>0a. PICK id, text : id = ActiveNoteId(selected) /\ text = noteEdit.text
  OBVIOUS
<1> DEFINE old == notes[s]
           Saved(note) == IF note.id = id THEN [note EXCEPT !.text = text] ELSE note
           new == [k \in DOMAIN old |-> Saved(old[k])]
<1>1. /\ notes' = [notes EXCEPT ![s] = new]
      /\ UNCHANGED <<selected, content, activeNote, noteDraft>> /\ noteEdit' = NoteForm'
  BY <1>0, <1>0a DEF HandleSaveNoteEdit, NotesTouchOnly, InTab, placeVars
<1>2. /\ notes \in [Companies -> Seq(Notes)] /\ old \in Seq(Notes) /\ DOMAIN activeNote = Companies
      /\ text \in AllTexts
  BY <1>0a DEF NotesTyped, EditFollows, Edits
<1>3. ASSUME NEW note \in Notes
      PROVE  Saved(note) \in Notes /\ Saved(note).id = note.id
  BY <1>2 DEF Notes
<1> HIDE DEF Saved, old
<1>4. /\ DOMAIN old = 1..Len(old) /\ Len(old) \in Nat
      /\ \A k \in DOMAIN old : old[k] \in Notes
  BY <1>2
<1>5. new \in Seq(Notes) /\ DOMAIN new = DOMAIN old /\ \A k \in DOMAIN old : new[k] = Saved(old[k])
  <2>1. new = [k \in 1..Len(old) |-> new[k]] /\ \A k \in 1..Len(old) : new[k] \in Notes
    BY <1>3, <1>4
  <2>2. DOMAIN new = DOMAIN old /\ \A k \in DOMAIN old : new[k] = Saved(old[k])
    OBVIOUS
  <2> HIDE DEF new
  <2>3. QED
    BY <1>4, <2>1, <2>2, IsASeq
<1> HIDE DEF new
<1>6. ASSUME NEW note \in ToSet(old)
      PROVE  \E other \in ToSet(new) : other.id = note.id
  <2>1. PICK k \in DOMAIN old : note = old[k]
    BY <1>6 DEF ToSet
  <2>2. new[k] \in ToSet(new) /\ new[k].id = note.id
    BY <1>3, <1>4, <1>5, <2>1 DEF ToSet
  <2>3. QED
    BY <2>2
<1>7. ASSUME NEW c \in Companies
      PROVE  ActiveThere(notes'[c], activeNote'[c])
  <2>1. CASE c = s
    <3>1. ActiveThere(old, activeNote[s])
      BY DEF NotesTyped, old
    <3>2. notes'[c] = new /\ activeNote'[c] = activeNote[s]
      BY <1>1, <1>2, <2>1
    <3>3. QED
      BY <1>6, <2>1, <3>1, <3>2 DEF ActiveThere
  <2>2. CASE c # s
    BY <1>1, <1>2, <2>2 DEF NotesTyped
  <2>3. QED
    BY <2>1, <2>2
<1>8. NotesTyped'
  BY <1>1, <1>2, <1>5, <1>7 DEF NotesTyped
<1>9. QED
  BY <1>0, <1>1, <1>8, EditFilled

LEMMA NoteChosen ==
  ASSUME NotesHeld, selected \in Companies, content \in Contents, NEW id, SelectNote(id)
  PROVE  NotesHeld'
<1> USE DEF NotesHeld
<1>0. PICK s \in Companies, texts \in Seq(AllTexts) : s = selected /\ texts = content.notes[s]
  BY Loaded
<1>1. /\ \E note \in ToSet(NotesFor(selected)) : note.id = id
      /\ activeNote' = [activeNote EXCEPT ![s] = id]
      /\ UNCHANGED <<selected, content, notes, noteDraft>>
      /\ noteEdit' = IF id = ActiveNoteId(selected) THEN noteEdit ELSE NoteForm'
  BY <1>0 DEF SelectNote, NotesTouchOnly, InTab, placeVars
<1>2. notes \in [Companies -> Seq(Notes)] /\ DOMAIN activeNote = Companies
  BY DEF NotesTyped
<1>3. PICK note \in ToSet(NotesOf(notes[s], texts)) : note.id = id
  BY <1>0, <1>1, NotesAre
<1>3a. /\ note \in Notes
       /\ note \in ToSet(notes[s]) \/ note.id.of = "server"
  <2>1. PICK own \in Seq(Notes) : own = notes[s]
    BY <1>2
  <2>2. /\ NotesOf(own, texts) \in Seq(Notes)
        /\ ToSet(NotesOf(own, texts)) = ToSet(own) \cup ToSet(ServerNotes(texts))
        /\ \A n \in ToSet(ServerNotes(texts)) : n.id.of = "server"
    BY NotesListed, ServerNotesListed
  <2>3. note \in Notes
    BY <1>3, <2>1, <2>2 DEF ToSet
  <2>4. QED
    BY <1>3, <2>1, <2>2, <2>3
<1>4. NotesTyped'
  <2>1. ASSUME NEW c \in Companies
        PROVE  ActiveThere(notes'[c], activeNote'[c])
    <3>1. CASE c = s
      BY <1>1, <1>2, <1>3, <1>3a, <3>1 DEF ActiveThere
    <3>2. CASE c # s
      BY <1>1, <1>2, <3>2 DEF NotesTyped
    <3>3. QED
      BY <3>1, <3>2
  <2>2. QED
    BY <1>1, <1>2, <2>1 DEF NotesTyped
<1>5. CASE id = ActiveNoteId(selected)
  <2> DEFINE list == NotesOf(notes[s], texts)
  <2>1. id # NoId
    BY <1>3, <1>3a, ItemIdsTell DEF Notes
  <2>2. noteEdit' = noteEdit /\ activeNote'[s] = id /\ notes'[s] = notes[s]
    BY <1>1, <1>2, <1>5
  <2>3. ActiveNoteId(s) = ActiveOf(list, activeNote[s])
    BY <1>0, NotesAre
  <2>4. s # None /\ noteEdit.of = EditOf(list, activeNote[s])
    <3>1. s # None
      BY <1>0, SelectedIsSome
    <3>2. QED
      BY <1>0, <3>1 DEF EditFollows
  <2>5. note \in ToSet(list)
    BY <1>3
  <2> HIDE DEF list
  <2>6. WithId(list, id) # {}
    BY <1>3, <2>5 DEF WithId
  <2>7. ActiveOf(list, activeNote[s]) = id /\ ActiveOf(list, id) = id
    BY <1>0, <1>5, <2>1, <2>3 DEF ActiveOf
  <2>8. EditOf(list, activeNote[s]) = EditOf(list, id)
    BY <2>6, <2>7 DEF EditOf, ShownOf
  <2>9. noteEdit.of = EditOf(list, id)
    BY <2>4, <2>8
  <2>10. EditFollows'
    BY <1>0, <1>1, <2>2, <2>9 DEF EditFollows, list
  <2>11. QED
    BY <1>4, <2>10
<1>6. CASE id # ActiveNoteId(selected)
  BY <1>0, <1>1, <1>4, <1>6, EditFilled
<1>7. QED
  BY <1>5, <1>6

LEMMA NoteMoved ==
  ASSUME NotesHeld, selected \in Companies, content \in Contents, NEW id, NEW status,
         HandleMoveNoteStatus(id, status)
  PROVE  NotesHeld'
<1>1. UNCHANGED <<selected, content, notes, activeNote, noteDraft>> /\ noteEdit' = NoteForm'
  BY DEF HandleMoveNoteStatus, NotesTouchOnly, InTab, placeVars
<1>2. NotesTyped' /\ selected' \in Companies
  BY <1>1 DEF NotesHeld, NotesTyped
<1>3. QED
  BY <1>1, <1>2, EditFilled

LEMMA NoteTyped ==
  ASSUME NotesHeld, NEW text \in Texts \cup {None}, TypeNote(text)
  PROVE  NotesHeld'
<1> USE DEF NotesHeld
<1>1. /\ UNCHANGED <<selected, content, notes, activeNote>>
      /\ \/ noteDraft' = text /\ UNCHANGED noteEdit
         \/ noteEdit' = [noteEdit EXCEPT !.text = text] /\ UNCHANGED noteDraft
  BY DEF TypeNote, NotesTouchOnly, InTab, placeVars
<1>2. text \in AllTexts
  BY DEF AllTexts
<1>3. noteEdit' \in Edits /\ noteEdit'.of = noteEdit.of
  BY <1>1, <1>2 DEF EditFollows, Edits
<1>4. NotesTyped'
  BY <1>1, <1>2 DEF NotesTyped
<1>5. EditFollows'
  BY <1>1, <1>3 DEF EditFollows
<1>6. QED
  BY <1>4, <1>5

LEMMA NotesTabInv ==
  ASSUME NotesHeld, FilesHeld, content \in Contents, made \in 0..MaxMade, selected # None => selected \in Companies,
         NotesTab
  PROVE  /\ NotesHeld' /\ FilesHeld' /\ made' \in 0..MaxMade
         /\ UNCHANGED <<placeVars, hypTabVars, teamTabVars>>
<1>0a. MaxMade \in Nat
  BY WorkspaceAssumption
<1>0. made \in Nat /\ MaxMade \in Nat
  BY <1>0a
<1> DEFINE Goal == /\ NotesHeld' /\ FilesHeld' /\ made' \in 0..MaxMade
                   /\ UNCHANGED <<placeVars, hypTabVars, teamTabVars>>
<1>1. CASE HandleAddNote
  <2> DEFINE new == <<[id |-> Own(made'), text |-> noteDraft, source |-> "manual"]>>
  <2>1. /\ selected \in Companies /\ UNCHANGED <<selected, content>>
        /\ made < MaxMade /\ made' = made + 1 /\ PutNotes(new) /\ noteDraft' = None
        /\ UNCHANGED docTabVars /\ UNCHANGED <<placeVars, hypTabVars, teamTabVars>>
    BY <1>1 DEF HandleAddNote, NotesTouchOnly, InTab, placeVars
  <2>2. made' \in 0..MaxMade /\ made' \in Nat /\ made <= made'
    BY <1>0, <2>1
  <2>3. new \in Seq(Notes) /\ new # <<>>
    <3>1. [id |-> Own(made'), text |-> noteDraft, source |-> "manual"] \in Notes
      BY <2>2, ItemIdsTell DEF Notes, NotesHeld, NotesTyped
    <3>2. QED
      BY <3>1
  <2> HIDE DEF new
  <2>4. noteDraft' \in AllTexts
    BY <2>1 DEF AllTexts
  <2>5. NotesHeld'
    <3>1. PICK n \in Seq(Notes) : n = new
      BY <2>3
    <3>2. QED
      BY <2>1, <2>3, <2>4, <3>1, NotesPut
  <2>6. FilesHeld'
    BY <1>0, <2>1, <2>2, FilesKept
  <2>7. QED
    BY <2>1, <2>2, <2>5, <2>6
<1>2. ASSUME NEW files \in Batches, HandleAttachNoteFile(files)
      PROVE  Goal
  <2> DEFINE new == [k \in DOMAIN files |->
                       [id |-> Own(made + k), text |-> files[k], source |-> "file"]]
  <2>1. /\ selected \in Companies /\ UNCHANGED <<selected, content>>
        /\ StoreFiles(files) /\ PutNotes(new)
        /\ UNCHANGED <<dismissed, opened, noteDraft>>
        /\ UNCHANGED <<placeVars, hypTabVars, teamTabVars>>
    BY <1>2 DEF HandleAttachNoteFile, NotesTouchOnly, InTab, placeVars
  <2>2. FilesHeld' /\ made' \in 0..MaxMade
    BY <1>0, <2>1, FilesStored
  <2>3. new \in Seq(Notes) /\ new # <<>>
    <3>1. files \in Seq(FileNames) /\ files # <<>>
      BY BatchIsFiles
    <3>2. DOMAIN files = 1..Len(files) /\ Len(files) \in Nat /\ 1 \in DOMAIN files
          /\ \A k \in DOMAIN files : files[k] \in AllTexts
      BY <3>1 DEF AllTexts
    <3>3. ASSUME NEW k \in DOMAIN files
          PROVE  [id |-> Own(made + k), text |-> files[k], source |-> "file"] \in Notes
      <4>1. made + k \in Nat
        BY <1>0, <3>2
      <4>2. QED
        BY <3>2, <4>1, ItemIdsTell DEF Notes
    <3>4. new = [k \in 1..Len(files) |-> new[k]] /\ \A k \in 1..Len(files) : new[k] \in Notes
          /\ DOMAIN new = DOMAIN files
      BY <3>2, <3>3
    <3> HIDE DEF new
    <3>5. new \in Seq(Notes)
      BY <3>2, <3>4, IsASeq
    <3>6. QED
      BY <3>2, <3>4, <3>5
  <2> HIDE DEF new
  <2>4. NotesHeld'
    <3>1. noteDraft' \in AllTexts
      BY <2>1 DEF NotesHeld, NotesTyped
    <3>2. PICK n \in Seq(Notes) : n = new
      BY <2>3
    <3>3. QED
      BY <2>1, <2>3, <3>1, <3>2, NotesPut
  <2>5. QED
    BY <2>1, <2>2, <2>4
<1>3. ASSUME UNCHANGED <<made, docTabVars>>
      PROVE  FilesHeld' /\ made' \in 0..MaxMade
  BY <1>0, <1>3, FilesKept
<1>4. CASE HandleSaveNoteEdit
  <2>1. /\ selected \in Companies /\ UNCHANGED <<made, docTabVars>>
        /\ UNCHANGED <<placeVars, hypTabVars, teamTabVars>>
    BY <1>4 DEF HandleSaveNoteEdit, NotesTouchOnly, InTab
  <2>2. QED
    BY <1>3, <1>4, <2>1, NoteSaved
<1>5. ASSUME NEW text \in Texts \cup {None}, TypeNote(text)
      PROVE  Goal
  <2>1. /\ UNCHANGED <<made, docTabVars>> /\ UNCHANGED <<placeVars, hypTabVars, teamTabVars>>
    BY <1>5 DEF TypeNote, NotesTouchOnly, InTab
  <2>2. QED
    BY <1>3, <1>5, <2>1, NoteTyped
<1>6. ASSUME NEW id, SelectNote(id)
      PROVE  Goal
  <2>1. /\ selected \in Companies /\ UNCHANGED <<made, docTabVars>>
        /\ UNCHANGED <<placeVars, hypTabVars, teamTabVars>>
    BY <1>6 DEF SelectNote, NotesTouchOnly, InTab
  <2>2. QED
    BY <1>3, <1>6, <2>1, NoteChosen
<1>7. ASSUME NEW id, NEW status, HandleMoveNoteStatus(id, status)
      PROVE  Goal
  <2>1. /\ selected \in Companies /\ UNCHANGED <<made, docTabVars>>
        /\ UNCHANGED <<placeVars, hypTabVars, teamTabVars>>
    BY <1>7 DEF HandleMoveNoteStatus, NotesTouchOnly, InTab
  <2>2. QED
    BY <1>3, <1>7, <2>1, NoteMoved
<1> HIDE DEF Goal
<1>8. ASSUME NEW note, \/ SelectNote(note.id)
                       \/ \E status \in {"open", "closed"} : HandleMoveNoteStatus(note.id, status)
      PROVE  Goal
  BY <1>6, <1>7, <1>8
<1>9. Goal
  <2>1. CASE HandleAddNote \/ HandleSaveNoteEdit
    BY <1>1, <1>4, <2>1 DEF Goal
  <2>2. QED
    BY <1>2, <1>5, <1>8, <2>1 DEF NotesTab
<1>10. QED
  BY <1>9 DEF Goal

-----------------------------------------------------------------------------
(* Hypotheses.                                                             *)

Hyps == [id : ItemIds, text : AllTexts]
HypForms == [index : Nat, creating : BOOLEAN, of : ItemIds \cup {NoId}, text : AllTexts]

(* The form is that of an entry or of a new one, of which there is one     *)
(* when the list is empty; away from the tab it is empty.                  *)
Fits(list, shown) ==
  /\ list = <<>> => shown.creating
  /\ ~shown.creating => shown.index \in DOMAIN list /\ shown.of = list[shown.index].id

HypothesesHeld ==
  /\ hypotheses \in [Companies -> Seq(Hyps)]
  /\ hypForm \in HypForms
  /\ IF workTab = "hypotheses" /\ selected # None THEN Fits(HypothesesShown, hypForm)
                                                  ELSE hypForm = NoHypForm

LEMMA HypothesesStay ==
  ASSUME HypothesesHeld, UNCHANGED <<selected, content, workTab, hypTabVars>>
  PROVE  HypothesesHeld'
  BY DEF HypothesesHeld, hypTabVars, HypothesesShown, HypothesesOf, BaseHypotheses

(* The server's hypotheses, or what became of them here.                   *)
LEMMA BaseListed ==
  ASSUME NEW texts \in Seq(AllTexts)
  PROVE  BaseList(texts) \in Seq(Hyps)
<1> DEFINE s == BaseList(texts)
<1>1. s = [k \in DOMAIN texts |-> [id |-> Base(k), text |-> texts[k]]]
  BY DEF BaseList
<1> HIDE DEF s
<1>2. DOMAIN texts = 1..Len(texts) /\ Len(texts) \in Nat
      /\ \A k \in DOMAIN texts : texts[k] \in AllTexts /\ k \in Nat
  OBVIOUS
<1>3. \A k \in DOMAIN texts : [id |-> Base(k), text |-> texts[k]] \in Hyps
  BY <1>2, ItemIdsTell DEF Hyps
<1>4. s = [k \in 1..Len(texts) |-> s[k]] /\ \A k \in 1..Len(texts) : s[k] \in Hyps
  BY <1>1, <1>2, <1>3
<1>5. s \in Seq(Hyps)
  BY <1>2, <1>4, IsASeq
<1>6. QED
  BY <1>5 DEF s

LEMMA HypothesesTyped ==
  ASSUME hypotheses \in [Companies -> Seq(Hyps)], content \in Contents, NEW c \in Companies
  PROVE  HypothesesOf(c) \in Seq(Hyps)
<1>1. BaseList(BaseHypotheses[c]) \in Seq(Hyps)
  <2>1. PICK texts \in Seq(AllTexts) : texts = content.hypotheses[c]
    BY Loaded
  <2>2. QED
    BY <2>1, BaseListed DEF BaseHypotheses
<1>2. QED
  BY <1>1 DEF HypothesesOf

LEMMA EmptyForms ==
  /\ NoHypForm \in HypForms /\ NoHypForm.index = 0
  /\ NewHypothesis \in HypForms /\ NewHypothesis.creating
  /\ [NewHypothesis EXCEPT !.index = 1] \in HypForms /\ [NewHypothesis EXCEPT !.index = 1].creating
<1>1. None \in AllTexts
  BY DEF AllTexts
<1>2. NoHypForm \in HypForms /\ NoHypForm.index = 0
  BY <1>1 DEF NoHypForm, HypForms
<1> HIDE DEF NoHypForm
<1>3. NewHypothesis \in HypForms /\ NewHypothesis.creating
  BY <1>2 DEF NewHypothesis, HypForms
<1>4. QED
  BY <1>2, <1>3 DEF HypForms

LEMMA FormAt ==
  ASSUME NEW list \in Seq(Hyps), NEW k \in DOMAIN list
  PROVE  /\ HypothesisAt(list, k) \in HypForms /\ Fits(list, HypothesisAt(list, k))
<1>0. list[k] \in Hyps /\ k \in Nat /\ list # <<>>
  OBVIOUS
<1>1. list[k].id \in ItemIds /\ list[k].text \in AllTexts
  BY <1>0 DEF Hyps
<1>2. NoHypForm \in HypForms /\ ~NoHypForm.creating
  <2>1. ~NoHypForm.creating
    BY DEF NoHypForm
  <2>2. QED
    BY <2>1, EmptyForms
<1>3. PICK id \in ItemIds, text \in AllTexts : id = list[k].id /\ text = list[k].text
  BY <1>1
<1>4. PICK r \in HypForms : r = NoHypForm
  BY <1>2
<1>5. PICK f : f = [r EXCEPT !.index = k, !.of = id, !.text = text]
  OBVIOUS
<1>6. f \in HypForms /\ f.index = k /\ f.of = id /\ f.creating = r.creating
  BY <1>0, <1>5 DEF HypForms
<1>7. f = HypothesisAt(list, k)
  BY <1>3, <1>4, <1>5 DEF HypothesisAt
<1>8. ~f.creating
  BY <1>2, <1>4, <1>6
<1>9. QED
  BY <1>0, <1>3, <1>6, <1>7, <1>8 DEF Fits

LEMMA FormSettled ==
  ASSUME NEW list \in Seq(Hyps), NEW k
  PROVE  HypSettled(list, k) \in HypForms /\ Fits(list, HypSettled(list, k))
<1>1. CASE list = <<>>
  <2>1. HypSettled(list, k) = NewHypothesis
    BY <1>1 DEF HypSettled
  <2>2. QED
    BY <2>1, EmptyForms DEF Fits
<1>2. CASE list # <<>>
  <2>1. 1 \in DOMAIN list
    BY <1>2
  <2>2. \E j \in DOMAIN list : HypSettled(list, k) = HypothesisAt(list, j)
    BY <1>2, <2>1 DEF HypSettled
  <2>3. QED
    BY <2>2, FormAt
<1>3. QED
  BY <1>1, <1>2

(* A list that a load brought.                                             *)
LEMMA FormReloaded ==
  ASSUME NEW old \in Seq(Hyps), NEW list \in Seq(Hyps), hypForm \in HypForms, Fits(old, hypForm)
  PROVE  HypReloaded(list) \in HypForms /\ Fits(list, HypReloaded(list))
<1>1. CASE list = <<>>
  <2>1. CASE hypForm.index = 0
    <3>1. hypForm.creating
      BY <2>1 DEF Fits
    <3>2. HypReloaded(list) = hypForm
      BY <1>1, <2>1 DEF HypReloaded
    <3>3. QED
      BY <3>1, <3>2 DEF Fits
  <2>2. CASE hypForm.index # 0
    <3>1. HypReloaded(list) = NewHypothesis
      BY <1>1, <2>2 DEF HypReloaded
    <3>2. QED
      BY <3>1, EmptyForms DEF Fits
  <2>3. QED
    BY <2>1, <2>2
<1>2. CASE list # <<>> /\ hypForm.creating
  <2> DEFINE k == IF hypForm.index \in DOMAIN list THEN hypForm.index ELSE 1
             f == [NewHypothesis EXCEPT !.index = k]
  <2>1. k \in Nat
    OBVIOUS
  <2>2. HypReloaded(list) = f
    BY <1>2 DEF HypReloaded
  <2> HIDE DEF k
  <2>3. f \in HypForms /\ f.creating
    BY <2>1, EmptyForms DEF HypForms
  <2> HIDE DEF f
  <2>4. QED
    BY <1>2, <2>2, <2>3 DEF Fits
<1>3. CASE list # <<>> /\ ~hypForm.creating
  <2>1. PICK k : k = hypForm.index
    OBVIOUS
  <2>2. HypReloaded(list) = HypSettled(list, k)
    BY <1>3, <2>1 DEF HypReloaded
  <2>3. QED
    BY <2>2, FormSettled
<1>4. QED
  BY <1>1, <1>2, <1>3

(* A list that is set, and a form that fits it.                            *)
LEMMA HypothesesSet ==
  ASSUME HypothesesHeld, selected \in Companies, NEW list \in Seq(Hyps), SetHypotheses(list),
         hypForm' \in HypForms, Fits(list, hypForm'),
         workTab' = "hypotheses", UNCHANGED selected
  PROVE  HypothesesHeld'
<1>1. hypotheses' \in [Companies -> Seq(Hyps)] /\ HypothesesShown' = list
  BY DEF HypothesesHeld, SetHypotheses, HypothesesShown, HypothesesOf
<1>2. selected' # None
  BY SelectedIsSome
<1>3. QED
  BY <1>1, <1>2 DEF HypothesesHeld

LEMMA Shortened ==
  ASSUME NEW list \in Seq(Hyps), NEW k \in DOMAIN list
  PROVE  RemoveAt(list, k) \in Seq(Hyps)
<1>1. SubSeq(list, 1, k - 1) \in Seq(Hyps) /\ SubSeq(list, k + 1, Len(list)) \in Seq(Hyps)
  OBVIOUS
<1>2. QED
  BY <1>1 DEF RemoveAt

LEMMA HypothesesTabInv ==
  ASSUME HypothesesHeld, content \in Contents, made \in 0..MaxMade, selected # None => selected \in Companies,
         HypothesesTab
  PROVE  /\ HypothesesHeld' /\ made' \in 0..MaxMade /\ made <= made'
         /\ UNCHANGED <<placeVars, docTabVars, noteTabVars, teamTabVars>>
<1>0a. MaxMade \in Nat
  BY WorkspaceAssumption
<1>0. made \in Nat /\ MaxMade \in Nat
  BY <1>0a
<1> DEFINE Goal == /\ HypothesesHeld' /\ made' \in 0..MaxMade /\ made <= made'
                   /\ UNCHANGED <<placeVars, docTabVars, noteTabVars, teamTabVars>>
           Old == HypothesesShown
<1>1. ASSUME HypothesesOnly
      PROVE  /\ selected \in Companies /\ workTab = "hypotheses"
             /\ UNCHANGED <<selected, content>> /\ UNCHANGED workTab
             /\ UNCHANGED <<placeVars, docTabVars, noteTabVars, teamTabVars>>
             /\ Old \in Seq(Hyps) /\ hypForm \in HypForms /\ Fits(Old, hypForm)
  <2>1. /\ selected \in Companies /\ selected # None /\ workTab = "hypotheses"
        /\ UNCHANGED <<selected, content>> /\ UNCHANGED workTab
        /\ UNCHANGED <<placeVars, docTabVars, noteTabVars, teamTabVars>>
    BY <1>1 DEF HypothesesOnly, InTab, placeVars
  <2>2. Old \in Seq(Hyps)
    <3>1. PICK c \in Companies : c = selected
      BY <2>1
    <3>2. HypothesesOf(c) \in Seq(Hyps)
      BY HypothesesTyped DEF HypothesesHeld
    <3>3. QED
      BY <3>1, <3>2 DEF HypothesesShown
  <2>3. QED
    BY <2>1, <2>2 DEF HypothesesHeld
<1>2. ASSUME HypothesesOnly, HypothesesKept, hypForm' \in HypForms, Fits(Old, hypForm')
      PROVE  Goal
  <2>1. HypothesesHeld'
    <3>1. selected' # None /\ workTab' = "hypotheses"
      BY <1>1, <1>2, SelectedIsSome
    <3>2. hypotheses' = hypotheses /\ selected' = selected /\ HypothesesShown' = Old
      BY <1>1, <1>2 DEF HypothesesKept, HypothesesShown, HypothesesOf, BaseHypotheses
    <3>3. QED
      BY <1>2, <3>1, <3>2 DEF HypothesesHeld
  <2>2. made' \in 0..MaxMade /\ made <= made'
    BY <1>0, <1>2 DEF HypothesesKept
  <2>3. QED
    BY <1>1, <1>2, <2>1, <2>2
<1>3. ASSUME NEW text \in Texts \cup {None}, TypeHypothesis(text)
      PROVE  Goal
  <2>1. HypothesesOnly /\ HypothesesKept /\ hypForm' = [hypForm EXCEPT !.text = text]
    BY <1>3 DEF TypeHypothesis
  <2>2. text \in AllTexts
    BY DEF AllTexts
  <2>3. hypForm' \in HypForms /\ Fits(Old, hypForm')
    BY <1>1, <2>1, <2>2 DEF HypForms, Fits
  <2>4. QED
    BY <1>2, <2>1, <2>3
<1>4. ASSUME NEW k, k \in DOMAIN HypothesesShown, ChooseHypothesis(k)
      PROVE  Goal
  <2>1. /\ HypothesesOnly /\ HypothesesKept /\ k \in DOMAIN Old
        /\ hypForm' = IF hypForm.creating \/ k # hypForm.index THEN HypothesisAt(Old, k) ELSE hypForm
    BY <1>4 DEF ChooseHypothesis
  <2>2. hypForm' \in HypForms /\ Fits(Old, hypForm')
    BY <1>1, <2>1, FormAt
  <2>3. QED
    BY <1>2, <2>1, <2>2
<1>5. CASE NewHypothesisForm
  <2>1. /\ HypothesesOnly /\ HypothesesKept
        /\ hypForm' = IF Old = <<>> THEN hypForm ELSE [NewHypothesis EXCEPT !.index = 1]
    BY <1>5 DEF NewHypothesisForm
  <2>2. hypForm' \in HypForms /\ Fits(Old, hypForm')
    <3>1. CASE Old = <<>>
      BY <1>1, <2>1, <3>1
    <3>2. CASE Old # <<>>
      BY <2>1, <3>2, EmptyForms DEF Fits
    <3>3. QED
      BY <3>1, <3>2
  <2>3. QED
    BY <1>2, <2>1, <2>2
<1>6. ASSUME NEW list \in Seq(Hyps), HypothesesOnly, SetHypotheses(list),
             hypForm' \in HypForms, Fits(list, hypForm'), made' \in 0..MaxMade, made <= made'
      PROVE  Goal
  <2>1. HypothesesHeld'
    BY <1>1, <1>6, HypothesesSet
  <2>2. QED
    BY <1>1, <1>6, <2>1
<1>7. CASE HandleAddHypothesis
  <2> DEFINE list == <<[id |-> Own(made'), text |-> hypForm.text]>> \o Old
  <2>1. /\ HypothesesOnly /\ made < MaxMade /\ made' = made + 1
        /\ SetHypotheses(list)
        /\ hypForm' = HypothesisAt(hypotheses'[selected], 1)
    BY <1>7 DEF HandleAddHypothesis
  <2>2. made' \in Nat /\ made' \in 0..MaxMade /\ made <= made'
    BY <1>0, <2>1
  <2>3. list \in Seq(Hyps) /\ 1 \in DOMAIN list
    <3>1. [id |-> Own(made'), text |-> hypForm.text] \in Hyps
      BY <1>1, <2>1, <2>2, ItemIdsTell DEF Hyps, HypForms
    <3>2. QED
      BY <1>1, <2>1, <3>1
  <2> HIDE DEF list
  <2>4. hypotheses'[selected] = list
    BY <1>1, <2>1 DEF SetHypotheses, HypothesesHeld
  <2>5. hypForm' \in HypForms /\ Fits(list, hypForm')
    <3>1. PICK l \in Seq(Hyps) : l = list
      BY <2>3
    <3>2. QED
      BY <2>1, <2>3, <2>4, <3>1, FormAt
  <2>6. QED
    BY <1>6, <2>1, <2>2, <2>3, <2>5
<1>8. CASE HandleUpdateHypothesis
  <2> DEFINE list == [Old EXCEPT ![hypForm.index].text = hypForm.text]
  <2>1. /\ HypothesesOnly /\ ~hypForm.creating /\ SetHypotheses(list)
        /\ UNCHANGED <<made, hypForm>>
    BY <1>8 DEF HandleUpdateHypothesis
  <2>2. /\ Old \in Seq(Hyps) /\ hypForm.text \in AllTexts
        /\ hypForm.index \in DOMAIN Old /\ hypForm.of = Old[hypForm.index].id
    BY <1>1, <2>1 DEF Fits, HypForms
  <2>3. list \in Seq(Hyps) /\ DOMAIN list = DOMAIN Old /\ list[hypForm.index].id = hypForm.of
    <3>0. PICK s \in Seq(Hyps), text \in AllTexts : s = Old /\ text = hypForm.text
      BY <2>2
    <3>1. PICK i \in DOMAIN s : i = hypForm.index
      BY <2>2, <3>0
    <3>2. [s[i] EXCEPT !.text = text] \in Hyps /\ [s[i] EXCEPT !.text = text].id = s[i].id
      <4>1. s[i] \in Hyps
        OBVIOUS
      <4>2. QED
        BY <4>1 DEF Hyps
    <3>3. [s EXCEPT ![i] = [s[i] EXCEPT !.text = text]] \in Seq(Hyps)
      BY <3>2
    <3>4. QED
      BY <2>2, <3>0, <3>1, <3>2, <3>3
  <2> HIDE DEF list
  <2>4. list # <<>>
    BY <2>2, <2>3
  <2>5. hypForm' \in HypForms /\ Fits(list, hypForm')
    BY <1>1, <2>1, <2>2, <2>3, <2>4 DEF Fits
  <2>6. made' \in 0..MaxMade /\ made <= made'
    BY <1>0, <2>1
  <2>7. QED
    BY <1>6, <2>1, <2>3, <2>5, <2>6
<1>9. CASE HandleDeleteHypothesis
  <2> DEFINE list == RemoveAt(Old, hypForm.index)
  <2>1. /\ HypothesesOnly /\ ~hypForm.creating /\ SetHypotheses(list)
        /\ hypForm' = HypSettled(hypotheses'[selected], hypForm.index) /\ UNCHANGED made
    BY <1>9 DEF HandleDeleteHypothesis
  <2>2. list \in Seq(Hyps)
    <3>1. Old \in Seq(Hyps) /\ hypForm.index \in DOMAIN Old
      BY <1>1, <2>1 DEF Fits
    <3>2. PICK s \in Seq(Hyps) : s = Old
      BY <3>1
    <3>3. RemoveAt(s, hypForm.index) \in Seq(Hyps)
      BY <3>1, <3>2, Shortened
    <3>4. QED
      BY <3>2, <3>3
  <2> HIDE DEF list
  <2>3. hypotheses'[selected] = list
    BY <1>1, <2>1 DEF SetHypotheses, HypothesesHeld
  <2>4. hypForm' \in HypForms /\ Fits(list, hypForm')
    BY <2>1, <2>2, <2>3, FormSettled
  <2>5. made' \in 0..MaxMade /\ made <= made'
    BY <1>0, <2>1
  <2>6. QED
    BY <1>6, <2>1, <2>2, <2>4, <2>5
<1>10. Goal
  <2>1. CASE NewHypothesisForm \/ HandleAddHypothesis \/ HandleUpdateHypothesis
             \/ HandleDeleteHypothesis
    BY <1>5, <1>7, <1>8, <1>9, <2>1
  <2> HIDE DEF Goal
  <2>2. QED
    BY <1>3, <1>4, <2>1 DEF HypothesesTab
<1>11. QED
  BY <1>10 DEF Goal

-----------------------------------------------------------------------------
(* The team, and the selection.                                            *)

TeamTyped == teamEdit = [id |-> teamEdit.id, text |-> teamEdit.text]

TeamHeld ==
  /\ TeamTyped
  /\ selected # None => selected \in DOMAIN members
  /\ teamEdit.id # None => selected # None /\ teamEdit.id \in DOMAIN members[selected]

LEMMA TeamKept ==
  ASSUME TeamHeld, UNCHANGED <<selected, teamTabVars>>
  PROVE  TeamHeld'
  BY DEF TeamHeld, TeamTyped, teamTabVars

LEMMA TeamTabInv ==
  ASSUME TeamHeld, selected # None => selected \in Companies, TeamTab
  PROVE  TeamHeld' /\ UNCHANGED <<placeVars, made, docTabVars, noteTabVars, hypTabVars>>
<1> USE DEF TeamHeld
<1>1. ASSUME TeamOnly
      PROVE  /\ selected \in Companies /\ selected # None /\ UNCHANGED selected
             /\ UNCHANGED <<placeVars, made, docTabVars, noteTabVars, hypTabVars>>
  BY <1>1 DEF TeamOnly, InTab, placeVars
<1>2. ASSUME NEW text, TypeTeamEdit(text)
      PROVE  TeamOnly /\ TeamHeld'
  <2>1. /\ TeamOnly /\ teamEdit.id # None /\ UNCHANGED members
        /\ teamEdit' = [teamEdit EXCEPT !.text = text]
    BY <1>2 DEF TypeTeamEdit
  <2>2. PICK id, old : teamEdit = [id |-> id, text |-> old]
    BY DEF TeamTyped
  <2>3. teamEdit' = [teamEdit' EXCEPT !.text = text] /\ teamEdit'.id = id /\ teamEdit'.text = text
    BY <2>1, <2>2
  <2>4. teamEdit' = [id |-> teamEdit'.id, text |-> teamEdit'.text]
    BY <2>1, <2>2, <2>3
  <2>5. QED
    BY <1>1, <2>1, <2>2, <2>3, <2>4 DEF TeamTyped
<1>3. ASSUME NEW m, HandleStartTeamEdit(m)
      PROVE  TeamOnly /\ TeamHeld'
  <2>1. /\ TeamOnly /\ UNCHANGED members /\ m \in DOMAIN members[selected]
        /\ teamEdit' = [id |-> m, text |-> members[selected][m]]
    BY <1>3 DEF HandleStartTeamEdit
  <2>2. teamEdit' = [id |-> teamEdit'.id, text |-> teamEdit'.text] /\ teamEdit'.id = m
    BY <2>1
  <2>3. QED
    BY <1>1, <2>1, <2>2 DEF TeamTyped
<1>4. ASSUME teamEdit' = NoTeamEdit
      PROVE  teamEdit' = [id |-> teamEdit'.id, text |-> teamEdit'.text] /\ teamEdit'.id = None
  BY <1>4 DEF NoTeamEdit
<1>5. ASSUME HandleCancelTeamEdit
      PROVE  TeamOnly /\ TeamHeld'
  <2>1. TeamOnly /\ UNCHANGED members /\ teamEdit' = NoTeamEdit
    BY <1>5 DEF HandleCancelTeamEdit
  <2>2. QED
    BY <1>1, <1>4, <2>1 DEF TeamTyped
<1>6. ASSUME HandleSaveTeamEdit
      PROVE  TeamOnly /\ TeamHeld'
  <2>1. /\ TeamOnly /\ teamEdit' = NoTeamEdit
        /\ members' = [members EXCEPT ![selected] =
                         [m \in DOMAIN @ |-> IF m = teamEdit.id THEN teamEdit.text ELSE @[m]]]
    BY <1>6 DEF HandleSaveTeamEdit
  <2>2. selected \in DOMAIN members'
    BY <1>1, <2>1
  <2>3. QED
    BY <1>1, <1>4, <2>1, <2>2 DEF TeamTyped
<1> HIDE DEF TeamHeld
<1>7. TeamOnly /\ TeamHeld'
  BY <1>2, <1>3, <1>5, <1>6 DEF TeamTab
<1>8. QED
  BY <1>1, <1>7

(* A tab is chosen of a company.                                           *)
PlaceHeld ==
  /\ roster \in Rosters /\ content \in Contents /\ workTab \in RoleTabs
  /\ selected = None <=> roster = <<>>
  /\ selected # None => selected \in ToSet(roster)
  /\ selected = None => workTab = "overview"

LEMMA RosterIsCompanies ==
  ASSUME NEW list \in Rosters
  PROVE  list \in Seq(Companies) /\ ToSet(list) \subseteq Companies
<1>1. list \in Seq(Companies)
  BY WorkspaceAssumption
<1>2. QED
  BY <1>1 DEF ToSet

LEMMA SelectionFits ==
  ASSUME NEW list \in Rosters, NEW c
  PROVE  /\ SelectionIn(list, c) = None <=> list = <<>>
         /\ SelectionIn(list, c) # None => SelectionIn(list, c) \in ToSet(list)
<1>1. list \in Seq(Companies) /\ ToSet(list) \subseteq Companies /\ None \notin Companies
  BY RosterIsCompanies, SelectedIsSome
<1>2. CASE list = <<>>
  <2>1. ToSet(list) = {}
    BY <1>2 DEF ToSet
  <2>2. QED
    BY <1>2, <2>1 DEF SelectionIn
<1>3. CASE list # <<>>
  <2>1. 1 \in DOMAIN list
    BY <1>1, <1>3
  <2>2. list[1] \in ToSet(list)
    BY <2>1 DEF ToSet
  <2>3. SelectionIn(list, c) \in ToSet(list)
    BY <1>3, <2>2 DEF SelectionIn
  <2>4. QED
    BY <1>1, <1>3, <2>3
<1>4. QED
  BY <1>2, <1>3

LEMMA SelectedIsCompany ==
  ASSUME PlaceHeld
  PROVE  selected # None => selected \in Companies
  BY RosterIsCompanies DEF PlaceHeld

-----------------------------------------------------------------------------

(* The inductive invariant of the workspace.                               *)
WorkspaceInv ==
  PlaceHeld /\ made \in 0..MaxMade /\ FilesHeld /\ NotesHeld /\ HypothesesHeld /\ TeamHeld

LEMMA NoneYet ==
  /\ IdsDiffer(<<>>) /\ ToSet(<<>>) = {} /\ \A S : <<>> \in Seq(S)
  /\ \A c \in Companies : ForEach(<<>>)[c] = <<>> /\ ForEach({})[c] = {}
                          /\ ForEach(NoDocument)[c] = NoDocument /\ ForEach(NoId)[c] = NoId
<1>1. ToSet(<<>>) = {} /\ \A S : <<>> \in Seq(S)
  BY DEF ToSet
<1>2. QED
  BY <1>1 DEF IdsDiffer, ForEach

(* A panel in which nothing was done yet.                                  *)
Untouched ==
  /\ roster \in Rosters /\ content \in Contents
  /\ selected = SelectionIn(roster, None) /\ workTab = "overview" /\ made = 0
  /\ uploads = ForEach(<<>>) /\ dismissed = ForEach({}) /\ opened = ForEach(NoDocument) /\ urls = {}
  /\ notes = ForEach(<<>>) /\ activeNote = ForEach(NoId) /\ noteDraft = None
  /\ hypotheses = ForEach(<<>>) /\ hypForm = NoHypForm
  /\ DOMAIN members = {selected} \ {None} /\ teamEdit = NoTeamEdit

LEMMA UntouchedInv == Untouched /\ noteEdit = NoteForm => WorkspaceInv
<1> SUFFICES ASSUME Untouched, noteEdit = NoteForm PROVE WorkspaceInv
  OBVIOUS
<1> USE DEF Untouched
<1>1. PlaceHeld
  <2>1. PICK list \in Rosters : list = roster
    OBVIOUS
  <2>2. QED
    BY <2>1, SelectionFits, WorkspaceAssumption DEF PlaceHeld
<1>2. made \in 0..MaxMade
  <2>1. MaxMade \in Nat
    BY WorkspaceAssumption
  <2>2. QED
    BY <2>1
<1>3. FilesHeld
  <2>1. \A c \in Companies : uploads[c] = <<>> /\ dismissed[c] = {} /\ opened[c] = NoDocument
    BY NoneYet
  <2>2. FilesTyped
    <3>1. uploads \in [Companies -> Seq(OwnDocs)]
      BY NoneYet DEF ForEach
    <3>2. DOMAIN opened = Companies /\ DOMAIN dismissed = Companies
      BY DEF ForEach
    <3>3. QED
      BY <2>1, <3>1, <3>2 DEF FilesTyped
  <2>3. FilesNumbered /\ FilesApart /\ UrlsKnown
    BY <2>1, NoneYet DEF FilesNumbered, FilesApart, UrlsKnown
  <2>4. OpenedListed
    BY <2>1 DEF OpenedListed
  <2>5. QED
    BY <2>2, <2>3, <2>4 DEF FilesHeld
<1>4. NotesHeld
  <2>1. notes \in [Companies -> Seq(Notes)] /\ DOMAIN activeNote = Companies
    BY NoneYet DEF ForEach
  <2>2. noteDraft \in AllTexts
    BY DEF AllTexts
  <2>3. \A c \in Companies : activeNote[c] = NoId
    BY NoneYet
  <2>4. NotesTyped
    <3>1. NoId.of = "none"
      BY DEF NoId
    <3>2. QED
      BY <2>1, <2>2, <2>3, <3>1 DEF NotesTyped, ActiveThere
  <2>5. PICK s, own, active : s = selected /\ own = notes /\ active = activeNote
    OBVIOUS
  <2>6. PICK load \in Contents : load = content
    OBVIOUS
  <2>7. own \in [Companies -> Seq(Notes)] /\ (s # None => s \in Companies)
    BY <1>1, <2>4, <2>5, SelectedIsCompany DEF NotesTyped
  <2>8. /\ FormOf(own, active, s, load.notes) \in Edits
        /\ s # None => FormOf(own, active, s, load.notes).of
                          = EditOf(NotesOf(own[s], load.notes[s]), active[s])
    BY <2>7, FormFilled
  <2>9. noteEdit = FormOf(own, active, s, load.notes)
    BY <2>5, <2>6, FormIs
  <2>10. QED
    BY <2>4, <2>5, <2>6, <2>8, <2>9 DEF NotesHeld, EditFollows
<1>5. HypothesesHeld
  <2>1. hypotheses \in [Companies -> Seq(Hyps)]
    BY NoneYet DEF ForEach
  <2>2. QED
    BY <2>1, EmptyForms DEF HypothesesHeld
<1>6. TeamHeld
  <2>1. teamEdit = [id |-> teamEdit.id, text |-> teamEdit.text] /\ teamEdit.id = None
    BY DEF NoTeamEdit
  <2>2. QED
    BY <2>1 DEF TeamHeld, TeamTyped
<1>7. QED
  BY <1>1, <1>2, <1>3, <1>4, <1>5, <1>6 DEF WorkspaceInv

LEMMA UntouchedNext == (Untouched /\ noteEdit = NoteForm => WorkspaceInv)'
  BY UntouchedInv, PTL

LEMMA WorkspaceStarts == WorkspaceInit => WorkspaceInv
  BY UntouchedInv DEF WorkspaceInit, Untouched, FirstTeam

(* The panel goes or comes: every URL is taken back.                       *)
LEMMA WorkspaceLeft ==
  ASSUME WorkspaceInv, WorkspaceMounts
  PROVE  WorkspaceInv'
<1>1. urls' = {}
  <2>1. urls \subseteq UNION {{d.id : d \in ToSet(uploads[c])} : c \in Companies}
    BY DEF WorkspaceInv, FilesHeld, UrlsKnown
  <2>2. QED
    BY <2>1 DEF WorkspaceMounts
<1>2. roster' \in Rosters /\ content' \in Contents /\ roster' = roster
  BY DEF WorkspaceMounts, WorkspaceInv, PlaceHeld
<1>3. Untouched'
  <2>1. selected' = SelectionIn(roster', None)
    BY <1>2 DEF WorkspaceMounts
  <2>2. DOMAIN members' = {selected'} \ {None}
    BY DEF WorkspaceMounts, FirstTeam
  <2>3. QED
    BY <1>1, <1>2, <2>1, <2>2 DEF WorkspaceMounts, Untouched
<1>4. noteEdit' = NoteForm'
  BY DEF WorkspaceMounts
<1>5. QED
  BY <1>3, <1>4, UntouchedNext

(* The team of a company that is selected is there, and those that were    *)
(* there stay as they are.                                                 *)
LEMMA TeamIsSeen ==
  ASSUME NEW c, NEW load, TeamSeen(c, load)
  PROVE  /\ c # None => c \in DOMAIN members'
         /\ \A b \in DOMAIN members : b \in DOMAIN members' /\ members'[b] = members[b]
  BY DEF TeamSeen

(* Another company, or none: the forms and drafts of the last one go.      *)
LEMMA SelectionMoved ==
  ASSUME WorkspaceInv, PlaceHeld', SelectionMoves, RecordsKept, noteEdit' = NoteForm',
         selected' # None => selected' \in DOMAIN members'
  PROVE  WorkspaceInv'
<1> USE DEF WorkspaceInv
<1>1. /\ UNCHANGED <<made, docTabVars>>
      /\ UNCHANGED <<notes, activeNote, hypotheses>>
      /\ workTab' = "overview" /\ hypForm' = NoHypForm /\ noteDraft' = None
      /\ teamEdit' = NoTeamEdit
  BY DEF RecordsKept, SelectionMoves
<1>2. made' \in 0..MaxMade /\ FilesHeld'
  <2>1. made \in Nat
    OBVIOUS
  <2>2. QED
    BY <1>1, <2>1, FilesKept
<1>3. (selected' # None => selected' \in Companies) /\ content' \in Contents
  BY RosterIsCompanies DEF PlaceHeld
<1>4. NotesHeld'
  <2>1. None \in AllTexts
    BY DEF AllTexts
  <2>2. NotesTyped'
    BY <1>1, <2>1 DEF NotesHeld, NotesTyped
  <2>3. QED
    BY <1>3, <2>2, EditFilled
<1>5. HypothesesHeld'
  BY <1>1, EmptyForms DEF HypothesesHeld
<1>6. TeamHeld'
  <2>1. teamEdit' = [id |-> teamEdit'.id, text |-> teamEdit'.text] /\ teamEdit'.id = None
    BY <1>1 DEF NoTeamEdit
  <2>2. QED
    BY <2>1 DEF TeamHeld, TeamTyped
<1>7. QED
  BY <1>2, <1>4, <1>5, <1>6

LEMMA CompanySelected ==
  ASSUME WorkspaceInv, NEW c, SelectCompany(c)
  PROVE  WorkspaceInv'
<1>1. /\ c \in ToSet(roster) /\ selected' = c /\ UNCHANGED <<roster, content>>
      /\ TeamSeen(c, content) /\ SelectionMoves /\ RecordsKept /\ noteEdit' = NoteForm'
  BY DEF SelectCompany
<1>2. PlaceHeld'
  <2>1. roster \in Rosters /\ c \in Companies /\ content \in Contents
    BY <1>1, RosterIsCompanies DEF WorkspaceInv, PlaceHeld
  <2>2. c # None /\ roster # <<>>
    BY <1>1, <2>1, SelectedIsSome, NoneYet
  <2>3. workTab' \in RoleTabs
    BY <1>1, WorkspaceAssumption DEF SelectionMoves
  <2>4. QED
    BY <1>1, <2>1, <2>2, <2>3 DEF PlaceHeld
<1>3. selected' # None => selected' \in DOMAIN members'
  <2>1. PICK load : load = content
    OBVIOUS
  <2>2. c # None => c \in DOMAIN members'
    BY <1>1, <2>1, TeamIsSeen
  <2>3. QED
    BY <1>1, <2>2
<1>4. QED
  BY <1>1, <1>2, <1>3, SelectionMoved

(* Another list of companies with other contents.                          *)
LEMMA CompaniesArrived ==
  ASSUME WorkspaceInv, NEW list \in Rosters, NEW load \in Contents, CompaniesArrive(list, load)
  PROVE  WorkspaceInv'
<1>1. /\ roster' = list /\ content' = load /\ selected' = SelectionIn(list, selected)
      /\ TeamSeen(selected', load) /\ RecordsKept /\ noteEdit' = NoteForm'
  BY DEF CompaniesArrive
<1>2. /\ selected' = None <=> roster' = <<>>
      /\ selected' # None => selected' \in ToSet(roster')
  <2>1. PICK c : c = selected
    OBVIOUS
  <2>2. QED
    BY <1>1, <2>1, SelectionFits
<1>2a. /\ selected' # None => selected' \in DOMAIN members'
       /\ \A b \in DOMAIN members : b \in DOMAIN members' /\ members'[b] = members[b]
  <2>1. PICK c : c = selected'
    OBVIOUS
  <2>2. QED
    BY <1>1, <2>1, TeamIsSeen
<1>3. CASE selected' # selected
  <2>1. SelectionMoves
    BY <1>3 DEF CompaniesArrive
  <2>2. PlaceHeld'
    BY <1>1, <1>2, <2>1, WorkspaceAssumption DEF PlaceHeld, SelectionMoves
  <2>3. QED
    BY <1>1, <1>2a, <2>1, <2>2, SelectionMoved
<1>4. CASE selected' = selected
  <2>1. /\ UNCHANGED <<made, docTabVars, notes, activeNote, hypotheses, touched>>
        /\ UNCHANGED <<workTab, noteDraft, teamEdit>>
        /\ hypForm' = IF workTab # "hypotheses" \/ selected \in touched THEN hypForm
                      ELSE HypReloaded(HypothesesOf(selected)')
    BY <1>4 DEF CompaniesArrive, RecordsKept
  <2>2. PlaceHeld'
    BY <1>1, <1>2, <1>4, <2>1 DEF WorkspaceInv, PlaceHeld
  <2>3. made' \in 0..MaxMade /\ FilesHeld'
    <3>1. made \in Nat
      BY DEF WorkspaceInv
    <3>2. QED
      BY <2>1, <3>1, FilesKept DEF WorkspaceInv
  <2>4. (selected # None => selected \in Companies) /\ content' \in Contents
    BY <1>1, SelectedIsCompany DEF WorkspaceInv
  <2>5. NotesHeld'
    <3>1. NotesTyped'
      BY <2>1 DEF WorkspaceInv, NotesHeld, NotesTyped
    <3>2. QED
      BY <1>1, <1>4, <2>4, <3>1, EditFilled
  <2>6. HypothesesHeld'
    <3>1. HypothesesHeld /\ content \in Contents
      BY DEF WorkspaceInv, PlaceHeld
    <3>2. CASE workTab = "hypotheses"
      <4>1. selected # None /\ selected \in Companies
        BY <2>4, <3>2 DEF WorkspaceInv, PlaceHeld
      <4>2. /\ hypForm \in HypForms /\ Fits(HypothesesShown, hypForm)
            /\ hypotheses \in [Companies -> Seq(Hyps)]
        BY <3>1, <3>2, <4>1 DEF HypothesesHeld
      <4>3. PICK old \in Seq(Hyps) : old = HypothesesShown
        <5>1. PICK c \in Companies : c = selected
          BY <4>1
        <5>2. HypothesesOf(c) \in Seq(Hyps)
          BY <3>1, <4>2, HypothesesTyped
        <5>3. QED
          BY <5>1, <5>2 DEF HypothesesShown
      <4>4. PICK new \in Seq(Hyps) : new = HypothesesOf(selected)' /\ new = HypothesesShown'
        <5>1. HypothesesOf(selected)' \in Seq(Hyps)
          <6>1. PICK c \in Companies : c = selected
            BY <4>1
          <6>2. PICK texts \in Seq(AllTexts) : texts = content'.hypotheses[c]
            BY <1>1, Loaded
          <6>3. BaseList(texts) \in Seq(Hyps) /\ hypotheses[c] \in Seq(Hyps)
            BY <4>2, BaseListed
          <6>4. QED
            BY <1>4, <2>1, <6>1, <6>2, <6>3 DEF HypothesesOf, BaseHypotheses
        <5>2. HypothesesShown' = HypothesesOf(selected)'
          BY DEF HypothesesShown
        <5>3. QED
          BY <5>1, <5>2
      <4>5. selected \in touched => new = old
        BY <1>4, <2>1, <4>3, <4>4 DEF HypothesesShown, HypothesesOf
      <4>6. HypReloaded(new) \in HypForms /\ Fits(new, HypReloaded(new))
        BY <4>2, <4>3, FormReloaded
      <4>7. hypForm' \in HypForms /\ Fits(new, hypForm')
        BY <2>1, <3>2, <4>2, <4>3, <4>4, <4>5, <4>6
      <4>8. QED
        BY <1>4, <2>1, <3>2, <4>1, <4>2, <4>4, <4>7 DEF HypothesesHeld
    <3>3. CASE workTab # "hypotheses"
      BY <1>4, <2>1, <3>1, <3>3 DEF HypothesesHeld
    <3>4. QED
      BY <3>2, <3>3
  <2>7. TeamHeld'
    BY <1>2a, <1>4, <2>1 DEF WorkspaceInv, TeamHeld, TeamTyped
  <2>8. QED
    BY <2>2, <2>3, <2>5, <2>6, <2>7 DEF WorkspaceInv
<1>5. QED
  BY <1>3, <1>4

LEMMA WorkTabChosen ==
  ASSUME WorkspaceInv, NEW tab, ChooseWorkTab(tab)
  PROVE  WorkspaceInv'
<1> USE DEF WorkspaceInv
<1>1. /\ selected # None /\ tab \in RoleTabs /\ workTab' = tab
      /\ hypForm' = IF tab = "hypotheses" THEN HypSettled(HypothesesOf(selected), 1) ELSE NoHypForm
      /\ UNCHANGED <<made, docTabVars>> /\ UNCHANGED <<notes, activeNote, hypotheses, touched>>
      /\ UNCHANGED <<roster, content, selected, noteEdit, noteDraft, members, teamEdit>>
  BY DEF ChooseWorkTab, RecordsKept, teamTabVars
<1>2. selected \in Companies /\ content \in Contents
  BY <1>1, SelectedIsCompany DEF PlaceHeld
<1>3. PlaceHeld'
  BY <1>1 DEF PlaceHeld
<1>4. made' \in 0..MaxMade /\ FilesHeld'
  <2>1. made \in Nat
    OBVIOUS
  <2>2. QED
    BY <1>1, <2>1, FilesKept
<1>5. NotesHeld'
  BY <1>1 DEF NotesHeld, NotesTyped, EditFollows
<1>6. HypothesesHeld'
  <2>1. PICK list \in Seq(Hyps) : list = HypothesesOf(selected)
    <3>1. PICK c \in Companies : c = selected
      BY <1>2
    <3>2. HypothesesOf(c) \in Seq(Hyps)
      BY <1>2, HypothesesTyped DEF HypothesesHeld
    <3>3. QED
      BY <3>1, <3>2
  <2>2. HypSettled(list, 1) \in HypForms /\ Fits(list, HypSettled(list, 1))
    BY FormSettled
  <2>3. HypothesesShown' = list
    BY <1>1, <2>1 DEF HypothesesShown, HypothesesOf, BaseHypotheses
  <2>4. QED
    BY <1>1, <2>1, <2>2, <2>3, EmptyForms DEF HypothesesHeld
<1>7. TeamHeld'
  BY <1>1 DEF TeamHeld, TeamTyped
<1>8. QED
  BY <1>3, <1>4, <1>5, <1>6, <1>7

-----------------------------------------------------------------------------

WorkspaceNext ==
  \/ WorkspaceUser \/ WorkspaceMounts
  \/ \E list \in Rosters, load \in Contents : CompaniesArrive(list, load)

LEMMA WorkspaceStep ==
  WorkspaceInv /\ [WorkspaceNext]_workspaceVars => WorkspaceInv'
<1> SUFFICES ASSUME WorkspaceInv, [WorkspaceNext]_workspaceVars PROVE WorkspaceInv'
  OBVIOUS
<1>0. /\ PlaceHeld /\ made \in 0..MaxMade /\ made \in Nat
      /\ FilesHeld /\ NotesHeld /\ HypothesesHeld /\ TeamHeld
      /\ (selected # None => selected \in Companies) /\ content \in Contents
  BY SelectedIsCompany DEF WorkspaceInv, PlaceHeld
<1>1. ASSUME UNCHANGED placeVars
      PROVE  PlaceHeld' /\ UNCHANGED <<selected, content, workTab>>
  BY <1>0, <1>1 DEF placeVars, PlaceHeld
<1>2. CASE DocumentsTab
  <2>1. /\ FilesHeld' /\ made' \in 0..MaxMade
        /\ UNCHANGED <<placeVars, noteTabVars, hypTabVars, teamTabVars>>
    BY <1>0, <1>2, DocumentsTabInv
  <2>2. NotesHeld' /\ HypothesesHeld' /\ TeamHeld'
    BY <1>0, <1>1, <2>1, NotesKept, HypothesesStay, TeamKept
  <2>3. QED
    BY <1>1, <2>1, <2>2 DEF WorkspaceInv
<1>3. CASE NotesTab
  <2>1. /\ NotesHeld' /\ FilesHeld' /\ made' \in 0..MaxMade
        /\ UNCHANGED <<placeVars, hypTabVars, teamTabVars>>
    BY <1>0, <1>3, NotesTabInv
  <2>2. HypothesesHeld' /\ TeamHeld'
    BY <1>0, <1>1, <2>1, HypothesesStay, TeamKept
  <2>3. QED
    BY <1>1, <2>1, <2>2 DEF WorkspaceInv
<1>4. CASE HypothesesTab
  <2>1. /\ HypothesesHeld' /\ made' \in 0..MaxMade /\ made <= made'
        /\ UNCHANGED <<placeVars, docTabVars, noteTabVars, teamTabVars>>
    BY <1>0, <1>4, HypothesesTabInv
  <2>2. made' \in Nat
    BY <2>1
  <2>3. FilesHeld' /\ NotesHeld' /\ TeamHeld'
    BY <1>0, <1>1, <2>1, <2>2, FilesKept, NotesKept, TeamKept
  <2>4. QED
    BY <1>1, <2>1, <2>3 DEF WorkspaceInv
<1>5. CASE TeamTab
  <2>1. TeamHeld' /\ UNCHANGED <<placeVars, made, docTabVars, noteTabVars, hypTabVars>>
    BY <1>0, <1>5, TeamTabInv
  <2>2. made' \in Nat /\ made' \in 0..MaxMade /\ made <= made'
    BY <1>0, <2>1
  <2>3. FilesHeld' /\ NotesHeld' /\ HypothesesHeld'
    BY <1>0, <1>1, <2>1, <2>2, FilesKept, NotesKept, HypothesesStay
  <2>4. QED
    BY <1>1, <2>1, <2>2, <2>3 DEF WorkspaceInv
<1>6. CASE \/ \E c \in Companies : SelectCompany(c)
           \/ \E tab \in RoleTabs : ChooseWorkTab(tab)
           \/ WorkspaceMounts
           \/ \E list \in Rosters, load \in Contents : CompaniesArrive(list, load)
  BY <1>6, CompanySelected, WorkTabChosen, WorkspaceLeft, CompaniesArrived
<1>7. CASE UNCHANGED workspaceVars
  <2>1. /\ UNCHANGED <<placeVars, made, docTabVars, noteTabVars, hypTabVars, teamTabVars>>
        /\ made' \in Nat /\ made' \in 0..MaxMade /\ made <= made'
    BY <1>0, <1>7 DEF workspaceVars
  <2>2. FilesHeld' /\ NotesHeld' /\ HypothesesHeld' /\ TeamHeld'
    BY <1>0, <1>1, <2>1, FilesKept, NotesKept, HypothesesStay, TeamKept
  <2>3. QED
    BY <1>1, <2>1, <2>2 DEF WorkspaceInv
<1>8. QED
  BY <1>2, <1>3, <1>4, <1>5, <1>6, <1>7 DEF WorkspaceNext, WorkspaceUser

LEMMA WorkspaceInvSound ==
  WorkspaceInv => WorkspaceTypeOK /\ OpenedIsMeant /\ UrlsAccounted /\ FormsFollow
<1> SUFFICES ASSUME WorkspaceInv
             PROVE  WorkspaceTypeOK /\ OpenedIsMeant /\ UrlsAccounted /\ FormsFollow
  OBVIOUS
<1> USE DEF WorkspaceInv
<1>1. WorkspaceTypeOK
  BY DEF PlaceHeld, FilesHeld, FilesTyped, TeamHeld, WorkspaceTypeOK
<1>2. OpenedIsMeant
  <2>1. ASSUME NEW c \in Companies, opened[c] # NoDocument,
               opened[c].id.of = "own" \/ opened[c].among = BaseDocs[c]
        PROVE  /\ OpenedDocument(c) = {[id |-> opened[c].id, name |-> opened[c].name]}
               /\ opened[c].id.of = "own" => opened[c].id \in urls
    <3>1. PICK ups \in Seq(OwnDocs), docs \in Seq(Names), gone \in SUBSET Names :
            ups = uploads[c] /\ docs = content.docs[c] /\ gone = dismissed[c]
      BY Loaded DEF PlaceHeld, FilesHeld, FilesTyped
    <3>2a. PICK among \in Seq(Names) : among = opened[c].among
      BY <2>1 DEF FilesHeld, OpenedListed
    <3>2b. PICK id, name : id = opened[c].id /\ name = opened[c].name
      OBVIOUS
    <3>2. among = opened[c].among /\ id = opened[c].id /\ name = opened[c].name
      BY <3>2a, <3>2b
    <3> DEFINE x == [id |-> id, name |-> name]
    <3>3. x \in ToSet(AllOf(ups, gone, among)) /\ x.id = id
      BY <2>1, <3>1, <3>2 DEF FilesHeld, OpenedListed
    <3> HIDE DEF x
    <3>4. IdsDiffer(ups) /\ AllDocuments(c) = AllOf(ups, gone, docs)
      BY <3>1, AllAre DEF FilesHeld, FilesNumbered
    <3>5. /\ IdsDiffer(AllOf(ups, gone, docs))
          /\ ToSet(AllOf(ups, gone, docs)) =
               {d \in ToSet(ups) : d.name \notin gone} \cup ToSet(BaseOf(gone, docs))
          /\ \/ x \in ToSet(ups) /\ x.name \notin gone
             \/ x.id.of = "server"
      BY <3>3, <3>4, DocumentsListed
    <3>6. x \in ToSet(AllOf(ups, gone, docs))
      <4>1. CASE id.of = "own"
        BY <3>3, <3>5, <4>1
      <4>2. CASE among = docs
        BY <3>3, <4>2
      <4>3. QED
        BY <2>1, <3>1, <3>2, <4>1, <4>2 DEF BaseDocs
    <3>7. OpenedDocument(c) = {x}
      BY <3>2, <3>3, <3>4, <3>5, <3>6 DEF OpenedDocument, IdsDiffer
    <3>8. ASSUME id.of = "own" PROVE id \in urls
      <4>1. x \in ToSet(uploads[c])
        BY <3>1, <3>3, <3>5, <3>8
      <4>2. QED
        BY <3>3, <4>1 DEF FilesHeld, UrlsKnown
    <3>9. QED
      BY <3>2, <3>7, <3>8 DEF x
  <2>2. QED
    BY <2>1 DEF OpenedIsMeant
<1>3. UrlsAccounted
  <2>1. ASSUME NEW id
        PROVE  id \in urls <=> id \in UNION {{d.id : d \in ToSet(uploads[c])} : c \in Companies}
    BY DEF FilesHeld, UrlsKnown
  <2>2. QED
    BY <2>1 DEF UrlsAccounted
<1>4. FormsFollow
  <2>1. selected # None => selected \in Companies
    BY SelectedIsCompany
  <2>2. selected # None =>
          noteEdit.of = IF ActiveNote(selected) = {} THEN NoId ELSE ActiveNoteId(selected)
    <3>1. ASSUME selected # None
          PROVE  noteEdit.of = IF ActiveNote(selected) = {} THEN NoId ELSE ActiveNoteId(selected)
      <4>1. PICK c : c = selected
        OBVIOUS
      <4>2. QED
        BY <3>1, <4>1, NotesAre DEF NotesHeld, EditFollows, EditOf
    <3>2. QED
      BY <3>1
  <2>2a. ASSUME NEW c \in Companies, activeNote[c].of = "own"
         PROVE  ActiveNote(c) # {}
    <3>1a. PICK own \in Seq(Notes), texts \in Seq(AllTexts) :
             own = notes[c] /\ texts = content.notes[c]
      BY Loaded DEF PlaceHeld, NotesHeld, NotesTyped
    <3>1b. PICK a : a = activeNote[c]
      OBVIOUS
    <3>1. own = notes[c] /\ texts = content.notes[c] /\ a = activeNote[c]
      BY <3>1a, <3>1b
    <3>2. PICK note \in ToSet(own) : note.id = a
      BY <2>2a, <3>1 DEF NotesHeld, NotesTyped, ActiveThere
    <3>3. note \in ToSet(NotesOf(own, texts))
      BY <3>2, NotesListed
    <3>4. a # NoId
      BY <2>2a, <3>1 DEF NoId
    <3>5. ShownOf(NotesOf(own, texts), a) # {}
      BY <3>2, <3>3, <3>4 DEF ShownOf, ActiveOf, WithId
    <3>6. QED
      BY <3>1, <3>5, NotesAre
  <2>3. workTab = "hypotheses" /\ selected # None =>
          /\ HypothesesShown = <<>> => hypForm.creating
          /\ ~hypForm.creating => /\ hypForm.index \in DOMAIN HypothesesShown
                                  /\ hypForm.of = HypothesesShown[hypForm.index].id
    BY DEF HypothesesHeld, Fits
  <2>4. teamEdit.id # None => selected # None /\ teamEdit.id \in DOMAIN members[selected]
    BY DEF TeamHeld
  <2>5. QED
    BY <2>2, <2>2a, <2>3, <2>4 DEF FormsFollow
<1>5. QED
  BY <1>1, <1>2, <1>3, <1>4
-----------------------------------------------------------------------------

(***************************************************************************)
(* The application.  Of each part it takes the part's own steps, or lets a *)
(* panel of it come and go, or leaves it alone; so what a part keeps by    *)
(* itself it also keeps there.                                             *)
(***************************************************************************)

desk == <<deskVars, companyVars, plannerVars>>

PartsSteps ==
  /\ [ComposerNext \/ ComposerMounts]_composerVars
  /\ [ProfileNext \/ ProfileMounts]_profileVars
  /\ [DeskNext]_desk
  /\ [LibraryNext \/ DocsMounts]_docsVars
  /\ [WorkspaceNext]_workspaceVars

LEMMA PanelShown ==
  ASSUME NEW p, ShowPanel(p)
  PROVE  PartsSteps
<1>1. (PanelMounts /\ UNCHANGED appComposerVars) \/ UNCHANGED composerVars
  BY DEF ShowPanel, ComposerKept
<1>2. ProfileMounts \/ UNCHANGED profileVars
  BY DEF ShowPanel, ProfileKept
<1>3. OpenDesk \/ LeaveDesk \/ UNCHANGED desk
  BY DEF ShowPanel, DeskKept, desk
<1>4. DocsMounts \/ UNCHANGED docsVars
  BY DEF ShowPanel, DocsKept
<1>5. WorkspaceMounts \/ UNCHANGED workspaceVars
  BY DEF ShowPanel, WorkspaceKept
<1>6. QED
  BY <1>1, <1>2, <1>3, <1>4, <1>5
  DEF PartsSteps, ComposerMounts, DeskNext, WorkspaceNext

LEMMA PanelsStepIsParts == [PanelsNext]_panelsVars => PartsSteps
<1> SUFFICES ASSUME [PanelsNext]_panelsVars PROVE PartsSteps
  OBVIOUS
<1> USE DEF PartsSteps, ComposerKept, ProfileKept, DeskKept, DocsKept, WorkspaceKept, desk
<1>1. CASE \E p \in TourOf(tour) : ShowPanel(p)
  BY <1>1, PanelShown
<1>2. CASE SetUpLocalLlm
  BY <1>2 DEF SetUpLocalLlm, ComposerMounts
<1>3. CASE InComposer(ComposerNext)
  BY <1>3 DEF InComposer
<1>4. CASE InSettings(ProfileNext)
  BY <1>4 DEF InSettings
<1>5. CASE \/ InLibrary(DocsUser) \/ InLibrary(ListStep) \/ InLibrary(UploadStep)
           \/ InLibrary(\E d \in Docs : DeletionStep(d))
           \/ InLibrary(StrayStep)
  BY <1>5 DEF InLibrary, LibraryNext
<1>6. CASE InDesk(Loading)
  BY <1>6 DEF InDesk, Loading, DeskNext
<1>7. CASE InDesk(\E i \in Invites, decision \in Decisions : Responding(i, decision))
  BY <1>7 DEF InDesk, Responding, DeskNext
<1>8. CASE InDesk(Planning)
  BY <1>8 DEF InDesk, Planning, DeskNext
<1>9. CASE InDesk(tour \in {"invites", "planner"} /\
                  \E tab \in {"overview", "appointments", "companies"} : ChooseDeskTab(tab))
  BY <1>9 DEF InDesk, DeskNext
<1>10. CASE InWorkspace(Arriving)
  BY <1>10 DEF InWorkspace, Arriving, WorkspaceNext
<1>11. CASE InWorkspace(Working)
  BY <1>11 DEF InWorkspace, Working, WorkspaceNext
<1>12. CASE UNCHANGED panelsVars
  BY <1>12 DEF panelsVars
<1>13. QED
  BY <1>1, <1>2, <1>3, <1>4, <1>5, <1>6, <1>7, <1>8, <1>9, <1>10, <1>11, <1>12
  DEF PanelsNext

(* The application implements the desk, whose invariant it keeps.          *)
THEOREM PanelsRefineDesk == PanelsSpec => DeskSpec /\ []DeskInv
<1>1. PanelsInit => CompanyInit /\ PlannerFresh /\ DeskInit
  BY DEF PanelsInit
<1>2. [PanelsNext]_panelsVars => [DeskNext]_desk
  BY PanelsStepIsParts DEF PartsSteps
<1>3. PanelsSpec => DeskSpec
  BY <1>1, <1>2, PTL DEF PanelsSpec, DeskSpec, desk
<1>4. QED
  BY <1>3, DeskInvariance, PTL

(* On every path through the pages, also while the user is elsewhere and   *)
(* the lists are loaded, the desk's memo is fresh, the desk and the        *)
(* notifications agree on every invitation that has an rsvp or was         *)
(* answered, and the feed and the spinner tell the truth.                  *)
THEOREM InvitesStaySound == PanelsSpec => []InvitesSound
<1>1. DeskInv => InvitesSound
  BY FreshAgrees DEF DeskInv, InvitesSound
<1>2. QED
  BY <1>1, PanelsRefineDesk, PTL

(* No path through the pages answers an invitation twice.                  *)
THEOREM InvitesAnsweredOnce == PanelsSpec => ImplementsInviteLedger
  BY PanelsRefineDesk, LedgerRefinement, PTL

(* The day on the planner stays laid out well on every path through the    *)
(* pages, also as lists arrive under it.                                   *)
THEOREM PlannerStaysLaidOut == PanelsSpec => []DeskLanesFit
  BY DayIsLaidOut, PanelsRefineDesk, PTL

(* A preset that is shown as selected has the values that are set, however *)
(* presets are saved, applied and deleted, sliders moved and the page left *)
(* and opened again from what localStorage holds.                          *)
THEOREM SettingsTellTheTruth == PanelsSpec => []SettingsSound
<1>1. PanelsInit => SettingsInv
  BY SettingsInit DEF PanelsInit
<1>2. SettingsInv /\ [PanelsNext]_panelsVars => SettingsInv'
  BY PanelsStepIsParts, SettingsStep DEF PartsSteps
<1>3. SettingsInv => SettingsSound
  BY SettingsInvSound DEF SettingsSound
<1>4. QED
  BY <1>1, <1>2, <1>3, PTL DEF PanelsSpec

(* The controls of the chat stay consistent: one menu at a time, what is   *)
(* shown as the model is the one that is used, and a profile was answered  *)
(* as a whole, whatever is opened, typed and left.                         *)
THEOREM ControlsStaySound == PanelsSpec => []ComposerSound
<1>1. PanelsInit => ControlsInv
  BY ControlsInit DEF PanelsInit
<1>2. ControlsInv /\ [PanelsNext]_panelsVars => ControlsInv'
  BY PanelsStepIsParts, ControlsStep DEF PartsSteps
<1>3. ControlsInv => ComposerSound
  BY ControlsInvSound DEF ComposerSound
<1>4. QED
  BY <1>1, <1>2, <1>3, PTL DEF PanelsSpec

(* The library shows what the server has, in its order, once nothing of    *)
(* the list is on its way: for any number of documents and of files at     *)
(* once, however requests for the list, uploads and deletions overlap, and *)
(* while the uploads and deletions of earlier mounts still go on.          *)
THEOREM ListTellsTheTruth == PanelsSpec => []ListTrue
<1>1. PanelsInit => ListInv
  BY ListInit DEF PanelsInit
<1>2. ListInv /\ [PanelsNext]_panelsVars => ListInv'
  BY PanelsStepIsParts, LibraryStep DEF PartsSteps
<1>3. QED
  BY <1>1, <1>2, ListInvTrue, PTL DEF PanelsSpec

(* What is opened, uploaded and edited in the workspace of a company stays *)
(* what the user meant, whatever a load brings: the open document is the   *)
(* one that was clicked if it is an upload, and else for as long as the    *)
(* server's list, whose positions are the ids, is what it was; a form      *)
(* saves to the entry it was filled from; and the object URLs are those of *)
(* the uploads the panel keeps.                                            *)
THEOREM WorkspaceStaysSound == PanelsSpec => []WorkspaceSound
<1>1. PanelsInit => WorkspaceInv
  BY WorkspaceStarts DEF PanelsInit
<1>2. WorkspaceInv /\ [PanelsNext]_panelsVars => WorkspaceInv'
  BY PanelsStepIsParts, WorkspaceStep DEF PartsSteps
<1>3. WorkspaceInv => WorkspaceSound
  BY WorkspaceInvSound DEF WorkspaceSound
<1>4. QED
  BY <1>1, <1>2, <1>3, PTL DEF PanelsSpec
=============================================================================
