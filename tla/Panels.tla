------------------------------- MODULE Panels -------------------------------
(***************************************************************************)
(* The pages of the application: App.tsx mounts one panel at a time.  What *)
(* a panel keeps in its own state is lost when another one is shown; what  *)
(* it keeps in App, in localStorage or on the server is not, and requests  *)
(* of a panel that is gone may still be carried out.                       *)
(***************************************************************************)
EXTENDS Composer, Profile, Desk, DocumentsPanel, CompanyWorkspace

CONSTANT Tours   \* bound: what one behaviour is about, see TourOf

VARIABLES panel, tour

panelsVars == <<composerVars, profileVars, deskVars, companyVars, plannerVars,
                docsVars, workspaceVars, panel, tour>>

(* Bound: the tabs of the workspace one behaviour uses.                    *)
WorkTour == [files      |-> {"overview", "documents"},
             notes      |-> {"overview", "notes"},
             hypotheses |-> {"overview", "hypotheses"},
             team       |-> {"overview", "team"}]

(* Bound: a behaviour uses the controls of one panel, and goes between it  *)
(* and another one.                                                        *)
TourOf(t) == CASE t = "composer" -> {"chat", "settings"}
               [] t = "settings" -> {"settings", "chat"}
               [] t = "library"  -> {"documents", "chat"}
               [] t = "invites"  -> {"desk", "notifications"}
               [] t = "planner"  -> {"desk"}
               [] t \in DOMAIN WorkTour -> {"workspace", "chat"}

Home(t) == CASE t = "composer" -> "chat"
             [] t = "settings" -> "settings"
             [] t = "library"  -> "documents"
             [] t \in {"invites", "planner"} -> "desk"
             [] t \in DOMAIN WorkTour -> "workspace"

ComposerKept == UNCHANGED composerVars
ProfileKept == UNCHANGED profileVars
DeskKept == UNCHANGED <<deskVars, companyVars, plannerVars>>
DocsKept == UNCHANGED docsVars
WorkspaceKept == UNCHANGED workspaceVars
PanelKept == UNCHANGED <<panel, tour>>

PanelsInit ==
  /\ tour \in Tours
  /\ panel = "chat"
  /\ ComposerInit /\ ProfileInit /\ CompanyInit /\ PlannerFresh /\ DeskInit /\ DocsInit
  /\ WorkspaceInit
  /\ tour # "invites" => ~guest
  /\ tour \notin DOMAIN WorkTour => /\ roster = CHOOSE list \in Rosters : TRUE
                                   /\ content = CHOOSE load \in Contents : TRUE
  /\ tour # "composer" => selectedModelId = CHOOSE m \in CloudModels : TRUE

(* The view changes: one panel goes, another one mounts.                   *)
ShowPanel(p) ==
  /\ p \in TourOf(tour) \ {panel}
  /\ panel' = p
  /\ IF "chat" \in {p, panel} THEN PanelMounts /\ UNCHANGED appComposerVars
                              ELSE ComposerKept
  /\ IF p = "settings" THEN ProfileMounts ELSE ProfileKept
  /\ IF p = "documents" THEN DocsMounts ELSE DocsKept
  /\ IF p = "desk" THEN OpenDesk ELSE IF panel = "desk" THEN LeaveDesk ELSE DeskKept
  /\ IF "workspace" \in {p, panel} THEN WorkspaceMounts ELSE WorkspaceKept
  /\ UNCHANGED tour

(* The settings page leads to the chat with the local model's form open.   *)
SetUpLocalLlm ==
  /\ tour = "composer" /\ panel = "settings"
  /\ panel' = "chat"
  /\ OpenLocalLlmSetup
  /\ ProfileKept /\ DeskKept /\ DocsKept /\ WorkspaceKept
  /\ UNCHANGED tour

At(t) == tour = t /\ panel = Home(t)

(* Bound: the wizard and the form of a local model are not both in use.    *)
InComposer(A) ==
  /\ At("composer") /\ A /\ (wizard' = FreshWizard \/ localForm' = FreshForm)
  /\ ProfileKept /\ DeskKept /\ DocsKept /\ WorkspaceKept /\ PanelKept
InSettings(A) == At("settings") /\ A /\ ComposerKept /\ DeskKept /\ DocsKept /\ WorkspaceKept /\ PanelKept
InLibrary(A) == At("library") /\ A /\ ComposerKept /\ ProfileKept /\ DeskKept /\ WorkspaceKept /\ PanelKept
InDesk(A) == A /\ ComposerKept /\ ProfileKept /\ DocsKept /\ WorkspaceKept /\ PanelKept
InWorkspace(A) == A /\ ComposerKept /\ ProfileKept /\ DeskKept /\ DocsKept /\ PanelKept

(* The loads go on under every page; they matter to two tours.  (Bound:    *)
(* the planner gets one list, in which every invitation is open, and is    *)
(* used from then on; the other tour gets no "declined" from the server.)  *)
Loading ==
  /\ tour \in {"invites", "planner"}
  /\ CompanyStep
  /\ "declined" \notin {appointments'[i] : i \in Invites}
  /\ tour = "planner" =>
       /\ companies = 0
       /\ companies' # 0 => appointments' = [i \in Invites |-> "pending"]

(* Answering, on whichever page is shown.                                  *)
Responding(i, decision) ==
  /\ tour = "invites"
  /\ \/ panel = "notifications" /\ RespondInNotifications(i, decision)
     \/ RespondOnDesk(i, decision)

(* Of the planner the tour of the invitations uses cards and weeks only,   *)
(* the other one the weeks and, in the first one, the form.                *)
Planning ==
  /\ tour \in {"invites", "planner"}
  /\ PlannerAlone(PlannerStep)
  /\ tour = "invites" => ~form'.open
  /\ tour = "planner" => /\ loads = {} /\ ~loadError /\ expandedCardId' = 0
                         /\ form'.open => weekOffset' = 0

(* The companies and what the server has of them are replaced under any    *)
(* page.                                                                   *)
Arriving ==
  tour \in DOMAIN WorkTour /\ \E list \in Rosters, load \in Contents : CompaniesArrive(list, load)

(* (Bound: two notes, as each may be moved, edited and chosen.)            *)
Working ==
  /\ tour \in DOMAIN WorkTour /\ panel = Home(tour)
  /\ WorkspaceUser
  /\ workTab' \in WorkTour[tour]
  /\ tour = "notes" => made' <= 2

PanelsNext ==
  \/ \E p \in TourOf(tour) : ShowPanel(p)
  \/ SetUpLocalLlm
  \/ InComposer(ComposerNext)
  \/ InSettings(ProfileNext)
  \/ InLibrary(DocsUser)
  \/ InLibrary(ListStep)
  \/ InLibrary(UploadStep)
  \/ InLibrary(\E d \in Docs : DeletionStep(d))
  \/ InLibrary(StrayStep)
  \/ InDesk(Loading)
  \/ InDesk(\E i \in Invites, decision \in Decisions : Responding(i, decision))
  \/ InDesk(Planning)
  \/ InDesk(tour \in {"invites", "planner"} /\
            \E tab \in {"overview", "appointments", "companies"} : ChooseDeskTab(tab))
  \/ InWorkspace(Arriving)
  \/ InWorkspace(Working)

(* Requests are answered or fail.  (No behaviour is about both lists.)     *)
PanelsFairness ==
  /\ WF_panelsVars(InLibrary(ListStep) \/ InDesk(Loading))
  /\ WF_panelsVars(InLibrary(UploadStep))

PanelsSpec == PanelsInit /\ [][PanelsNext]_panelsVars /\ PanelsFairness

-----------------------------------------------------------------------------

(* The controls of the chat fit together, see Composer.                    *)
ComposerSound ==
  ComposerTypeOK /\ ControlsConsistent /\ ShownModelIsUsed /\ ProfileIsWhole

(* The settings tell the truth about presets, see Profile.                 *)
SettingsSound == ProfileTypeOK /\ PresetTellsValues

(* What the desk, the notifications, the feed and the spinner tell is true *)
(* of the lists and the answers, see Desk and CompanyData.                 *)
InvitesSound ==
  /\ DeskTypeOK /\ CompanyTypeOK
  /\ MemoIsFresh /\ PagesAgree /\ FeedTells /\ QuietMeansLoaded /\ SpinnerHasLoad

(* What is open, uploaded and edited in the workspace, see                 *)
(* CompanyWorkspace.                                                       *)
WorkspaceSound == WorkspaceTypeOK /\ OpenedIsMeant /\ UrlsAccounted /\ FormsFollow

(* Every spinner stops: of the document list and of an upload while their  *)
(* page is shown, of the company data wherever the user is.                *)
SpinnersStop ==
  LET loading == (docsLoading /\ At("library")) \/ (isLoading /\ tour = "invites")
      uploading == isUploading /\ At("library")
  IN (loading ~> ~loading) /\ (uploading ~> ~uploading)
=============================================================================
