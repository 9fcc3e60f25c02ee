------------------------------- MODULE Planner -------------------------------
(***************************************************************************)
(* CompanyAppointmentsTab.tsx: one day of the week planner.  The items the *)
(* page passes in and those added here are filtered by the week, sorted by *)
(* their start and laid out in lanes; a form adds items, a click expands a *)
(* card.  All of it lives as long as the tab is open.                      *)
(***************************************************************************)
EXTENDS Integers, Sequences, SequencesExt, FiniteSetsExt, Lists

CONSTANTS Slots,      \* half hours of a day
          CardSlots,  \* the time a card of CARD_MIN_HEIGHT spans
          FullCard,   \* from this extent on a card shows everything
          Weeks,      \* bound: the weeks one can page to
          MaxNew      \* bound: items added

ASSUME PlannerAssumption ==
  /\ Slots \in Nat \ {0, 1} /\ CardSlots \in 1..Slots /\ FullCard \in Nat
  /\ Weeks \subseteq Int /\ 0 \in Weeks
  /\ MaxNew \in Nat

VARIABLES
  newItems,
  weekOffset,
  expandedCardId,   \* 0 for null; the repetition of a card is left out
  form              \* the AddAppointmentModal, its title left to the submit

plannerVars == <<newItems, weekOffset, expandedCardId, form>>

Times == 0..(Slots - 1)
NoTime == Slots       \* an emptied time field

Items == [id : Nat, week : Int, start : Times \cup {NoTime}, end : Times \cup {NoTime},
          recurring : BOOLEAN]

NewAppointment == [open |-> FALSE, start |-> 0, end |-> 1, recurring |-> FALSE]

PlannerFresh ==
  newItems = <<>> /\ weekOffset = 0 /\ expandedCardId = 0 /\ form = NewAppointment
PlannerMounts ==
  newItems' = <<>> /\ weekOffset' = 0 /\ expandedCardId' = 0 /\ form' = NewAppointment

-----------------------------------------------------------------------------
(* computeColumnLayout.                                                    *)

StartOf(item) == IF item.start = NoTime THEN 0 ELSE item.start

(* An end that is not after the start is on the next day.                  *)
EndOf(item) ==
  IF item.end = NoTime THEN StartOf(item) + CardSlots
  ELSE IF item.end > StartOf(item) THEN item.end ELSE item.end + Slots

(* The items sorted by start; those of one start keep their order.         *)
Before(items, i, j) ==
  \/ StartOf(items[i]) < StartOf(items[j])
  \/ StartOf(items[i]) = StartOf(items[j]) /\ i <= j

Rank(items, i) == Cardinality({j \in DOMAIN items : Before(items, j, i)})

Sorted(items) ==
  [k \in DOMAIN items |-> items[CHOOSE i \in DOMAIN items : Rank(items, i) = k]]

(* Mutant: a lane is taken while its last item has still one slot to go.   *)
FreeLanesEarly(laneEnds, item) ==
  {l \in DOMAIN laneEnds : laneEnds[l] <= StartOf(item) + 1}

FreeLanes(laneEnds, item) == {l \in DOMAIN laneEnds : laneEnds[l] <= StartOf(item)}

(* One step of the greedy pass: the item takes the first lane whose last  *)
(* item is over, or a new one.                                             *)
Place(laid, item) ==
  LET free == FreeLanes(laid.ends, item)
      new  == Len(laid.ends) + 1
  IN  IF free = {}
      THEN [ends  |-> Append(laid.ends, EndOf(item)), lanes |-> Append(laid.lanes, new)]
      ELSE [ends  |-> [laid.ends EXCEPT ![Min(free)] = EndOf(item)],
            lanes |-> Append(laid.lanes, Min(free))]

(* colEnd and the columns of the first n items. *)
Laid(sorted) ==
  LET laid[n \in 0..Len(sorted)] ==
        IF n = 0 THEN [ends |-> <<>>, lanes |-> <<>>] ELSE Place(laid[n - 1], sorted[n])
  IN  laid

Lanes(sorted) == Laid(sorted)[Len(sorted)].lanes

(* Union-find: j joins i while it starts before i ends, so a cluster is a  *)
(* run of sorted items, named here by its first one.                       *)
Clusters(sorted) ==
  LET root[k \in DOMAIN sorted] ==
        IF k > 1 /\ \E i \in 1..(k - 1) : StartOf(sorted[k]) < EndOf(sorted[i])
        THEN root[k - 1] ELSE k
  IN root

(* col and totalCols of every item, keyed by id as in the code.            *)
ColumnLayout(items) ==
  LET sorted == Sorted(items)
      lanes == Lanes(sorted)
      root == Clusters(sorted)
      Columns(r) == Max({lanes[k] : k \in {k \in DOMAIN sorted : root[k] = r}})
  IN [id \in {sorted[k].id : k \in DOMAIN sorted} |->
        LET k == CHOOSE k \in DOMAIN sorted : sorted[k].id = id
        IN [col |-> lanes[k], totalCols |-> Columns(root[k])]]

-----------------------------------------------------------------------------

(* allAppointmentItems: those of the week on screen and the recurring ones.*)
Shown(items) ==
  LET all == items \o newItems
  IN  Keeping(all, {item \in ToSet(all) : item.recurring \/ item.week = weekOffset})

ChangeWeek(week) ==
  /\ week \in {weekOffset - 1, weekOffset + 1} \cap Weeks
  /\ weekOffset' = week
  /\ UNCHANGED <<newItems, expandedCardId, form>>

OpenForm ==
  /\ ~form.open
  /\ Len(newItems) < MaxNew
  /\ form' = [NewAppointment EXCEPT !.open = TRUE]
  /\ UNCHANGED <<newItems, weekOffset, expandedCardId>>

(* addMinutes: around midnight the end is early on the same clock.         *)
HalfAnHourAfter(t) == (t + 1) % Slots

(* handleStartChange: the end is pushed once it is no longer after start.  *)
HandleStartChange(t) ==
  /\ form.open
  /\ form' = [form EXCEPT !.start = t,
                          !.end = IF t # NoTime /\ @ # NoTime /\ @ <= t
                                  THEN HalfAnHourAfter(t) ELSE @]
  /\ UNCHANGED <<newItems, weekOffset, expandedCardId>>

ChangeEnd(t) ==
  /\ form.open
  /\ form' = [form EXCEPT !.end = t]
  /\ UNCHANGED <<newItems, weekOffset, expandedCardId>>

ToggleRecurring ==
  /\ form.open
  /\ form' = [form EXCEPT !.recurring = ~@]
  /\ UNCHANGED <<newItems, weekOffset, expandedCardId>>

CloseForm ==
  /\ form.open
  /\ form' = NewAppointment
  /\ UNCHANGED <<newItems, weekOffset, expandedCardId>>

(* handleSubmit with a title, and onSave, which puts the item in the week  *)
(* on screen.  A blank title changes nothing.                              *)
SubmitForm(id) ==
  /\ form.open
  /\ newItems' = Append(newItems, [id |-> id, week |-> weekOffset,
                                   start |-> form.start, end |-> form.end,
                                   recurring |-> form.recurring])
  /\ form' = NewAppointment
  /\ UNCHANGED <<weekOffset, expandedCardId>>

(* durationToPx: without a start or an end, a card has the least height.   *)
Height(item) ==
  IF NoTime \in {item.start, item.end} THEN CardSlots
  ELSE Max({CardSlots, EndOf(item) - StartOf(item)})

(* canClick: cards that hide something, pending invitations, open cards.   *)
CanClick(item, pending) ==
  \/ Height(item) < FullCard
  \/ pending
  \/ expandedCardId = item.id

ToggleCard(item, pending) ==
  /\ CanClick(item, pending)
  /\ expandedCardId' = IF expandedCardId = item.id THEN 0 ELSE item.id
  /\ UNCHANGED <<newItems, weekOffset, form>>

(* The controls of the tab: the week bar, the form, and the cards, those   *)
(* of pending invitations among them.                                      *)
WeekBar == OpenForm \/ \E week \in Weeks : ChangeWeek(week)

AddAppointmentModal(id) ==
  \/ \E t \in Times \cup {NoTime} : HandleStartChange(t) \/ ChangeEnd(t)
  \/ ToggleRecurring
  \/ SubmitForm(id) \/ CloseForm

Cards(items, Pending(_)) == \E item \in ToSet(Shown(items)) : ToggleCard(item, Pending(item))

-----------------------------------------------------------------------------

(* The types of the tab's state.                                           *)
PlannerTypeOK ==
  /\ Len(newItems) <= MaxNew
  /\ weekOffset \in Weeks
  /\ form.start \in Times \cup {NoTime}
  /\ form.end \in Times \cup {NoTime}

(* Items that run at the same time stand side by side, in columns of the   *)
(* same width, and of no more columns than items run at once at some time. *)
(* (Cards may still cover each other that do not run at the same time: one *)
(* stretched to the least height, and one that runs into the next day.)    *)
SameTime(a, b) == StartOf(a) < EndOf(b) /\ StartOf(b) < EndOf(a)

LanesFit(items) ==
  LET layout == ColumnLayout(items)
      Running(t) == {i \in DOMAIN items :
                       StartOf(items[i]) <= t /\ t < EndOf(items[i])}
  IN \A i \in DOMAIN items :
       LET at == layout[items[i].id] IN
       /\ at.col <= at.totalCols
       /\ \A j \in DOMAIN items \ {i} :
            SameTime(items[i], items[j]) =>
              /\ layout[items[j].id].col # at.col
              /\ layout[items[j].id].totalCols = at.totalCols
       /\ \E t \in 0..(2 * Slots) : Cardinality(Running(t)) >= at.totalCols
=============================================================================
