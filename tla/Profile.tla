------------------------------- MODULE Profile -------------------------------
(***************************************************************************)
(* The settings page, ProfilePanel.tsx: the model parameters, built-in and *)
(* custom presets, what is written to localStorage and when, and the list  *)
(* of custom presets that is both dragged and clicked (useDragScroll.ts).  *)
(* The panel's state is lost with it; mounting reads localStorage again.   *)
(* The five parameters are one value, the texts of the page are data, and  *)
(* localStorage accepts writes (AppShell has the case where it does not).  *)
(***************************************************************************)
EXTENDS Naturals, Sequences, SequencesExt, Lists

CONSTANTS Tunings,      \* values of the five parameters
          BuiltIn,      \* the built-in presets, each with its tuning
          PresetIds,    \* bound: ids for custom presets, from Date.now()
          MaxPresets    \* .slice(0, 20)

(* The keys of the built-in presets are words of the code, those of custom *)
(* ones begin with "custom-".                                              *)
ASSUME ProfileAssumption ==
  /\ "balanced" \in DOMAIN BuiltIn
  /\ \A key \in DOMAIN BuiltIn : BuiltIn[key] \in Tunings
  /\ PresetIds \cap DOMAIN BuiltIn = {}
  /\ {"none", "custom"} \cap (PresetIds \cup DOMAIN BuiltIn) = {}
  /\ MaxPresets \in Nat \ {0}

VARIABLES
  tuning,         \* the parameters on screen
  presets,        \* customPresets: sequence of [id, values]
  selectedKey,    \* selectedPresetKey, "none" for null, else a preset's id
  activeKey,      \* activePresetKey
  isSaved,
  storage,        \* external: localStorage, what a mount reads
  pointer,        \* the gesture on the preset list
  usedIds

panelProfileVars == <<tuning, presets, selectedKey, activeKey, isSaved, pointer>>
profileVars == <<panelProfileVars, storage, usedIds>>

Keys == {"none", "custom"} \cup DOMAIN BuiltIn \cup PresetIds

(* down: a pointer is captured; moved: stateRef.moved; resets: pending     *)
(* 40 ms timers of earlier gestures, which the next one does not stop.     *)
AtEase == [down |-> FALSE, moved |-> FALSE, resets |-> 0]

DefaultTuning == BuiltIn["balanced"]

ProfileInit ==
  /\ storage = [tuning |-> DefaultTuning, key |-> "none", presets |-> <<>>]
  /\ tuning = DefaultTuning
  /\ presets = <<>>
  /\ selectedKey = "none"
  /\ activeKey = "none"
  /\ isSaved = FALSE
  /\ pointer = AtEase
  /\ usedIds = {}

(* Mounting the panel.                                                     *)
ProfileMounts ==
  /\ tuning' = storage.tuning
  /\ presets' = storage.presets
  /\ selectedKey' = storage.key
  /\ activeKey' = storage.key
  /\ isSaved' = FALSE
  /\ pointer' = AtEase
  /\ UNCHANGED <<storage, usedIds>>

ListKept == UNCHANGED <<presets, activeKey, storage, usedIds>>

-----------------------------------------------------------------------------

(* Mutant: the preset stays selected.                                      *)
SetConfigValueOnly(values) ==
  /\ tuning' = values
  /\ isSaved' = FALSE
  /\ ListKept /\ UNCHANGED <<selectedKey, pointer>>

(* A slider: the values on screen are no preset's any more.                *)
SetConfigValue(values) ==
  /\ tuning' = values
  /\ selectedKey' = "none"
  /\ isSaved' = FALSE
  /\ ListKept /\ UNCHANGED pointer

ApplyBuiltInPreset(key) ==
  /\ tuning' = BuiltIn[key]
  /\ selectedKey' = key
  /\ isSaved' = FALSE
  /\ ListKept /\ UNCHANGED pointer

ValuesOf(id, list) == (CHOOSE p \in ToSet(list) : p.id = id).values
Ids(list) == {p.id : p \in ToSet(list)}

(* saveCustomPreset with a name that is not blank: on top of the list, and *)
(* of the stored list, at once.                                            *)
SaveCustomPreset(id) ==
  /\ id \notin usedIds
  /\ LET list == <<[id |-> id, values |-> tuning]>> \o presets
         next == SubSeq(list, 1, IF Len(list) < MaxPresets THEN Len(list)
                                                           ELSE MaxPresets)
     IN /\ presets' = next
        /\ storage' = [storage EXCEPT !.presets = next]
  /\ selectedKey' = id
  /\ isSaved' = FALSE
  /\ usedIds' = usedIds \cup {id}
  /\ UNCHANGED <<tuning, activeKey, pointer>>

(* deleteCustomPreset.                                                     *)
DeleteCustomPreset(id) ==
  /\ id \in Ids(presets)
  /\ LET next == Keeping(presets, {p \in ToSet(presets) : p.id # id})
     IN /\ presets' = next
        /\ storage' = [storage EXCEPT !.presets = next,
                                      !.key = IF activeKey = id THEN "custom"
                                              ELSE @]
  /\ selectedKey' = IF selectedKey = id THEN "none" ELSE selectedKey
  /\ activeKey' = IF activeKey = id THEN "none" ELSE activeKey
  /\ isSaved' = FALSE
  /\ UNCHANGED <<tuning, pointer, usedIds>>

(* handleApplyTuning: everything is written, with the preset it came from. *)
ApplyTuning ==
  LET key == IF selectedKey = "none" THEN "custom" ELSE selectedKey IN
  /\ storage' = [tuning |-> tuning, key |-> key, presets |-> presets]
  /\ activeKey' = key
  /\ isSaved' = TRUE
  /\ UNCHANGED <<tuning, presets, selectedKey, pointer, usedIds>>

(* The texts about the user and the name of a preset.                      *)
EditTexts ==
  /\ isSaved' = FALSE
  /\ ListKept /\ UNCHANGED <<tuning, selectedKey, pointer>>

(* The 1600 ms timer of the "saved" mark.                                  *)
SavedFades ==
  /\ isSaved
  /\ isSaved' = FALSE
  /\ ListKept /\ UNCHANGED <<tuning, selectedKey, pointer>>

-----------------------------------------------------------------------------
(* useDragScroll on the list of custom presets.                            *)

PointerDown ==
  /\ ~pointer.down
  /\ pointer' = [pointer EXCEPT !.down = TRUE, !.moved = FALSE]
  /\ ListKept /\ UNCHANGED <<tuning, selectedKey, isSaved>>

(* A move past the threshold of 6 pixels.                                  *)
PointerMove ==
  /\ pointer.down
  /\ pointer' = [pointer EXCEPT !.moved = TRUE]
  /\ ListKept /\ UNCHANGED <<tuning, selectedKey, isSaved>>

(* The release and the click it dispatches, before any timer: finish()     *)
(* leaves moved to a timer, and the click asks hasMoved().                 *)
ReleaseOn(id) ==
  /\ pointer.down
  /\ id \in Ids(presets)
  /\ pointer.resets < 1          \* bound: one timer pending
  /\ pointer' = [pointer EXCEPT !.down = FALSE, !.resets = @ + 1]
  /\ IF pointer.moved
     THEN UNCHANGED <<tuning, selectedKey, isSaved>>
     ELSE /\ tuning' = ValuesOf(id, presets)
          /\ selectedKey' = id
          /\ isSaved' = FALSE
  /\ ListKept

(* A release beside the presets, a cancelled gesture, or a pointer that    *)
(* leaves the list, with a button pressed or not: finish() without click.  *)
PointerLeaves ==
  /\ pointer.resets < 1
  /\ pointer' = [pointer EXCEPT !.down = FALSE, !.resets = @ + 1]
  /\ ListKept /\ UNCHANGED <<tuning, selectedKey, isSaved>>

(* A timer of finish(), 40 ms after its gesture.                           *)
MovedResets ==
  /\ pointer.resets > 0
  /\ pointer' = [pointer EXCEPT !.moved = FALSE, !.resets = @ - 1]
  /\ ListKept /\ UNCHANGED <<tuning, selectedKey, isSaved>>

-----------------------------------------------------------------------------

(* The controls of the page, from top to bottom.                           *)
TextFields == EditTexts
Sliders == \E values \in Tunings : SetConfigValue(values)
BuiltInButtons == \E key \in DOMAIN BuiltIn : ApplyBuiltInPreset(key)
SaveForm == \E id \in PresetIds : SaveCustomPreset(id)
CustomPresetRows == \E id \in PresetIds : ReleaseOn(id) \/ DeleteCustomPreset(id)
DragScroll == PointerDown \/ PointerMove \/ PointerLeaves

ProfileNext ==
  \/ TextFields \/ ApplyTuning \/ Sliders \/ BuiltInButtons
  \/ CustomPresetRows \/ DragScroll \/ SaveForm
  \/ SavedFades \/ MovedResets

-----------------------------------------------------------------------------

(* The types of the page's state.                                          *)
ProfileTypeOK ==
  /\ tuning \in Tunings
  /\ ToSet(presets) \subseteq [id : PresetIds, values : Tunings]
  /\ selectedKey \in Keys /\ activeKey \in Keys
  /\ isSaved \in BOOLEAN
  /\ pointer.resets \in 0..1

(* A preset shown as selected, or stored as active, has the values that    *)
(* are shown, or stored, with it: through sliders, saves, deletions, a     *)
(* full list that drops its oldest, and a page that was left unsaved.      *)
HasValues(key, values, list) ==
  /\ key \in DOMAIN BuiltIn => values = BuiltIn[key]
  /\ key \in Ids(list) => values = ValuesOf(key, list)

PresetTellsValues ==
  /\ HasValues(selectedKey, tuning, presets)
  /\ HasValues(storage.key, storage.tuning, storage.presets)
  /\ presets = storage.presets
=============================================================================
