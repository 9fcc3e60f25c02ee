------------------------------ MODULE Composer ------------------------------
(***************************************************************************)
(* The controls around the chat input, ChatPanel.tsx with its popovers:    *)
(* the four menus, the services of a chat, the persona wizard, the model   *)
(* picker and the form of a local model.  Their state lives as long as     *)
(* ChatPanel is mounted; services, models and the last saved local model   *)
(* belong to App.tsx and outlive it.                                       *)
(***************************************************************************)
EXTENDS Naturals, FiniteSets, Sequences, SequencesExt, Lists

CONSTANTS Services,     \* the services offered, promptGuard is not
          CloudModels,  \* the model ids of the connected providers
          LocalModels,  \* the model ids of the local provider
          LocalNames,   \* model names a user types into the local form
          LocalId(_),   \* the id handleSaveLocalLlmConfig makes of a name
          LastStep      \* the last question of the wizard, 3

ASSUME ComposerAssumption == "localConfigurator" \in Services /\ LastStep \in Nat

VARIABLES
  services,        \* activeServices
  selectedModelId,
  shownModelId,    \* the id of selectedModel, a memo over selectedModelId
  localOptions,    \* localModelOptions: ids of the saved local models
  localLlmConfig,  \* the last config saved, "none" or its model name
  profile,         \* the answers of the last persona profile reported
  menus,           \* which of the four menus are open
  picker,          \* modelSearch and activeModelProviderId
  localForm,       \* localLlmConfig of the panel and isLocalConfigSaved
  wizard           \* the persona wizard

appComposerVars == <<services, selectedModelId, shownModelId, localOptions,
                     localLlmConfig, profile>>
panelComposerVars == <<menus, picker, localForm, wizard>>
composerVars == <<appComposerVars, panelComposerVars>>

Menus == {"attach", "services", "model", "brainrot"}
Providers == {"cloud", "local"}
Queries == {"", "local", "unknown"}
Steps == 0..LastStep
Blank == [s \in Steps |-> FALSE]

FreshWizard == [open |-> FALSE, step |-> 0, answers |-> Blank, done |-> FALSE]
FreshForm == [endpoint |-> FALSE, name |-> "", saved |-> FALSE]
FreshPicker == [query |-> "", provider |-> "cloud"]

(* What mounting ChatPanel starts with.                                    *)
PanelFresh ==
  menus = {} /\ picker = FreshPicker /\ localForm = FreshForm /\ wizard = FreshWizard
PanelMounts ==
  menus' = {} /\ picker' = FreshPicker /\ localForm' = FreshForm /\ wizard' = FreshWizard

ComposerInit ==
  /\ services = <<>>
  /\ selectedModelId \in CloudModels
  /\ shownModelId = selectedModelId
  /\ localOptions = {}
  /\ localLlmConfig = "none"
  /\ profile = [s \in Steps |-> TRUE]
  /\ PanelFresh

Active(service) == service \in ToSet(services)

-----------------------------------------------------------------------------
(* Menus.                                                                  *)

CanToggle(menu) ==
  /\ menu = "services" => ToSet(services) # Services
  /\ menu = "brainrot" => Active("brainrot")

(* A trigger toggles its menu and closes the other three.                  *)
ToggleMenu(menu) ==
  /\ CanToggle(menu)
  /\ menus' = {menu} \ menus
  /\ UNCHANGED <<appComposerVars, picker, localForm, wizard>>

(* useOutsideClick, and the submit of the chat form.                       *)
CloseTransientMenus ==
  /\ menus' = {}
  /\ UNCHANGED <<appComposerVars, picker, localForm, wizard>>

(* An item of the attachment or of the style menu closes its own menu.     *)
PickItem(menu) ==
  /\ menu \in menus \cap {"attach", "brainrot"}
  /\ menus' = menus \ {menu}
  /\ UNCHANGED <<appComposerVars, picker, localForm, wizard>>

-----------------------------------------------------------------------------
(* Services.                                                               *)

(* handleSelectService: the menu stays while there is something left; the  *)
(* persona service starts its wizard unless that was completed.            *)
SelectService(service) ==
  /\ "services" \in menus
  /\ ~Active(service)
  /\ services' = Append(services, service)
  /\ menus' = IF Services \ ToSet(services) = {service} THEN menus \ {"services"}
                                                        ELSE menus
  /\ wizard' = IF service = "persona" /\ ~wizard.done
               THEN [wizard EXCEPT !.open = TRUE, !.step = 0] ELSE wizard
  /\ UNCHANGED <<selectedModelId, shownModelId, localOptions, localLlmConfig,
                 profile, picker, localForm>>

(* Mutant: the wizard is forgotten.                                        *)
RemoveServiceAlone(service) ==
  /\ Active(service)
  /\ services' = Keeping(services, Services \ {service})
  /\ menus' = IF service = "brainrot" THEN menus \ {"brainrot"} ELSE menus
  /\ UNCHANGED <<selectedModelId, shownModelId, localOptions, localLlmConfig,
                 profile, picker, localForm, wizard>>

(* handleRemoveService and the effects that close what the service opened. *)
RemoveService(service) ==
  /\ Active(service)
  /\ services' = Keeping(services, Services \ {service})
  /\ menus' = IF service = "brainrot" THEN menus \ {"brainrot"} ELSE menus
  /\ wizard' = IF service = "persona" THEN FreshWizard ELSE wizard
  /\ UNCHANGED <<selectedModelId, shownModelId, localOptions, localLlmConfig,
                 profile, picker, localForm>>

(* handleOpenLocalLlmSetup, from the settings: the service is added while  *)
(* no ChatPanel is mounted, and one mounts with it.                        *)
OpenLocalLlmSetup ==
  /\ services' = IF Active("localConfigurator") THEN services
                 ELSE Append(services, "localConfigurator")
  /\ PanelMounts
  /\ UNCHANGED <<selectedModelId, shownModelId, localOptions, localLlmConfig,
                 profile>>

-----------------------------------------------------------------------------
(* The model picker.                                                       *)

ModelsOf(provider) ==
  IF provider = "cloud" THEN CloudModels ELSE LocalModels \cup localOptions

(* filteredProviders: what a search leaves of a provider's models.         *)
Matches(query, provider) ==
  CASE query = ""      -> ModelsOf(provider)
    [] query = "local" -> IF provider = "local" THEN ModelsOf(provider) ELSE {}
    [] OTHER           -> {}
Filtered(query) == {p \in Providers : Matches(query, p) # {}}

(* activeProvider: the hovered one if the search leaves it, else the first.*)
ActiveProvider(query, hovered) ==
  CASE hovered \in Filtered(query) -> hovered
    [] Filtered(query) = {}        -> "none"
    [] OTHER -> IF "cloud" \in Filtered(query) THEN "cloud" ELSE "local"

(* The effect on the two: with none hovered the active one becomes it, and *)
(* with none left none is.                                                 *)
Settled(query, hovered) ==
  [query |-> query,
   provider |-> IF hovered = "none" \/ Filtered(query) = {}
                THEN ActiveProvider(query, hovered) ELSE hovered]

SearchModel(query) ==
  /\ "model" \in menus
  /\ picker' = Settled(query, picker.provider)
  /\ UNCHANGED <<appComposerVars, menus, localForm, wizard>>

(* A provider of the list, or the pointer leaving the popover: "none".     *)
HoverProvider(provider) ==
  /\ "model" \in menus
  /\ provider \in Filtered(picker.query) \cup {"none"}
  /\ picker' = Settled(picker.query, provider)
  /\ UNCHANGED <<appComposerVars, menus, localForm, wizard>>

(* setSelectedModelId and the memo that follows it: the memo looks the id  *)
(* up among the models of this render, and takes the first if it is not    *)
(* there.                                                                  *)
ChooseModel(id, options) ==
  /\ selectedModelId' = id
  /\ shownModelId' = IF id = selectedModelId THEN shownModelId
                     ELSE IF id \in CloudModels \cup LocalModels \cup options
                     THEN id ELSE CHOOSE m \in CloudModels : TRUE

SelectModel(id) ==
  /\ "model" \in menus
  /\ id \in Matches(picker.query, ActiveProvider(picker.query, picker.provider))
  /\ ChooseModel(id, localOptions)
  /\ picker' = Settled(picker.query, "none")
  /\ menus' = menus \ {"model"}
  /\ UNCHANGED <<services, localOptions, localLlmConfig, profile, localForm,
                 wizard>>

-----------------------------------------------------------------------------
(* The form of a local model.                                              *)

EditLocalForm(endpoint, name) ==
  /\ Active("localConfigurator")
  /\ localForm' = [endpoint |-> endpoint, name |-> name, saved |-> FALSE]
  /\ UNCHANGED <<appComposerVars, menus, picker, wizard>>

CanSave == localForm.endpoint /\ localForm.name # ""

(* handleLocalConfigSubmit with handleSaveLocalLlmConfig of App: the model *)
(* is listed once and selected, in one batch of updates.                   *)
SubmitLocalForm ==
  /\ Active("localConfigurator")
  /\ localForm' = [localForm EXCEPT !.saved = CanSave]
  /\ IF CanSave
     THEN LET id == LocalId(localForm.name) IN
          /\ localLlmConfig' = localForm.name
          /\ localOptions' = localOptions \cup {id}
          /\ ChooseModel(id, localOptions')
     ELSE UNCHANGED <<localLlmConfig, localOptions, selectedModelId, shownModelId>>
  /\ UNCHANGED <<services, profile, menus, picker, wizard>>

-----------------------------------------------------------------------------
(* The persona wizard.                                                     *)

AnswerQuestion(given) ==
  /\ wizard.open
  /\ wizard' = [wizard EXCEPT !.answers[wizard.step] = given]
  /\ UNCHANGED <<appComposerVars, menus, picker, localForm>>

CloseWizard ==
  /\ wizard.open
  /\ wizard' = [wizard EXCEPT !.open = FALSE]
  /\ UNCHANGED <<appComposerVars, menus, picker, localForm>>

WizardBack ==
  /\ wizard.open
  /\ wizard' = IF wizard.step = 0 THEN [wizard EXCEPT !.open = FALSE]
               ELSE [wizard EXCEPT !.step = @ - 1]
  /\ UNCHANGED <<appComposerVars, menus, picker, localForm>>

CanAdvance == wizard.open /\ wizard.answers[wizard.step]

WizardNext ==
  /\ CanAdvance /\ wizard.step < LastStep
  /\ wizard' = [wizard EXCEPT !.step = @ + 1]
  /\ UNCHANGED <<appComposerVars, menus, picker, localForm>>

(* The last step reports the profile to App.                               *)
WizardFinish ==
  /\ CanAdvance /\ wizard.step = LastStep
  /\ wizard' = [wizard EXCEPT !.done = TRUE, !.open = FALSE]
  /\ profile' = wizard.answers
  /\ UNCHANGED <<services, selectedModelId, shownModelId, localOptions,
                 localLlmConfig, menus, picker, localForm>>

-----------------------------------------------------------------------------

(* The controls, from left to right, and the click beside them.            *)
ModelBar == ToggleMenu("model")
ModelPicker ==
  \/ \E query \in Queries : SearchModel(query)
  \/ \E provider \in Providers \cup {"none"} : HoverProvider(provider)
  \/ \E id \in CloudModels \cup LocalModels \cup localOptions : SelectModel(id)
ServiceBubbles == \E service \in Services : RemoveService(service)
ServicesMenu == ToggleMenu("services") \/ \E service \in Services : SelectService(service)
BrainrotPicker == ToggleMenu("brainrot") \/ PickItem("brainrot")
LocalLlmConfigPanel ==
  \/ \E endpoint \in BOOLEAN, name \in LocalNames \cup {""} : EditLocalForm(endpoint, name)
  \/ SubmitLocalForm
PersonaWizard ==
  \/ \E given \in BOOLEAN : AnswerQuestion(given)
  \/ CloseWizard \/ WizardBack \/ WizardNext \/ WizardFinish
AttachMenu == ToggleMenu("attach") \/ PickItem("attach")

ComposerNext ==
  \/ ModelBar \/ ModelPicker
  \/ ServiceBubbles \/ ServicesMenu
  \/ BrainrotPicker \/ LocalLlmConfigPanel
  \/ PersonaWizard
  \/ AttachMenu
  \/ CloseTransientMenus

-----------------------------------------------------------------------------

(* The types of the composer's state.                                      *)
ComposerTypeOK ==
  /\ ToSet(services) \subseteq Services
  /\ selectedModelId \in CloudModels \cup LocalModels \cup localOptions
  /\ menus \subseteq Menus
  /\ picker.query \in Queries
  /\ picker.provider \in Providers \cup {"none"}
  /\ localForm.name \in LocalNames \cup {""}
  /\ wizard.step \in Steps

(* A service is active once; no more than one menu is open, whichever way  *)
(* menus, services and clicks outside alternate; and nothing of a service  *)
(* that was removed stays open.                                            *)
ControlsConsistent ==
  /\ IsInjective(services)
  /\ Cardinality(menus) <= 1
  /\ "brainrot" \in menus => Active("brainrot")
  /\ wizard.open => Active("persona")

(* The bar names the model that a send will use: the memo selectedModel    *)
(* depends on the id alone, not on the list it searches, so a model saved  *)
(* and selected by one submit must already be in that list.                *)
ShownModelIsUsed == shownModelId = selectedModelId

(* A profile is reported whole: going back, blanking an answer, closing    *)
(* the wizard or taking the service away never lets a blank one through.   *)
ProfileIsWhole == \A s \in Steps : profile[s]
=============================================================================
