-------------------------- MODULE CompanyWorkspace --------------------------
(***************************************************************************)
(* CompanyWorkspacePanel.tsx and its tabs: documents, notes, hypotheses    *)
(* and the team of the selected company.  Everything added or edited here  *)
(* is kept in the panel, by company, until it goes.  The companies with    *)
(* what the server has of each are App's and may be replaced at any time,  *)
(* see CompanyData.                                                        *)
(*                                                                         *)
(* An item is known by its id: the position of one of the server's, which  *)
(* changes when another one is dismissed and may change with a load, or a  *)
(* number of its own.  Left out are what only shows the items (the search  *)
(* box, the filter of the hypotheses, print and download), the labels of a *)
(* note, and the assignees of a meeting.                                   *)
(***************************************************************************)
EXTENDS Naturals, FiniteSets, Sequences, SequencesExt, Lists

CONSTANTS Companies,
          Rosters,         \* lists of companies the role may be given
          RoleTabs,        \* tabVisibilityByRole; those without state need not be in it
          Contents,        \* bound: what a load may bring of the companies
          Batches,         \* bound: files chosen at once, by name in lower case
          Texts,           \* bound: what is typed
          MaxMade          \* bound: items made while the panel is shown

(* Ids are not empty, lists are arrays, and choosing no file does nothing. *)
ASSUME WorkspaceAssumption ==
  /\ "" \notin Companies /\ \A r \in Rosters : r \in Seq(Companies)
  /\ "overview" \in RoleTabs
  /\ \A load \in Contents, c \in Companies :
       /\ \A list \in {load.docs[c], load.notes[c], load.hypotheses[c]} : list \in Seq(ToSet(list))
       /\ "" \notin load.members[c]
  /\ \A files \in Batches : files \in Seq(ToSet(files)) \ {<<>>}
  /\ MaxMade \in Nat

VARIABLES
  roster,       \* roleScopedCompanies
  content,      \* external: what the last load brought of each company
  selected,     \* selectedCompanyId
  workTab,      \* activeTab
  made,         \* how many ids Date.now() has given
  uploads,      \* uploadedDocumentsByCompany
  dismissed,    \* dismissedDocumentsByCompany
  opened,       \* openedDocumentByCompany; history: the name that was
                \* clicked, and the server's documents at that time
  urls,         \* external: the object URLs the browser holds, by document
  notes,        \* uploadedNotesByCompany
  closed,       \* noteStatusByCompany, the notes that are not open
  activeNote,   \* activeNoteByCompany
  noteEdit,     \* the edit form, and the note it was filled from
  noteDraft,
  hypotheses,   \* hypothesesByCompany
  touched,      \* the companies it has an entry for
  hypForm,      \* CompanyHypothesesTab, and what its fields were filled from
  members,      \* teamMembersByCompany, of the companies that were selected:
                \* what each member is called
  teamEdit

docTabVars == <<uploads, dismissed, opened, urls>>
noteTabVars == <<notes, closed, activeNote, noteEdit, noteDraft>>
hypTabVars == <<hypotheses, touched, hypForm>>
teamTabVars == <<members, teamEdit>>
placeVars == <<roster, content, selected, workTab>>
workspaceVars == <<placeVars, made, docTabVars, noteTabVars, hypTabVars, teamTabVars>>

None == ""
NoId == [of |-> "none", n |-> 0]
NoDocument == [id |-> NoId, name |-> None, among |-> <<>>]
NoTeamEdit == [id |-> None, text |-> None]
Base(k) == [of |-> "server", n |-> k]
Own(k) == [of |-> "own", n |-> k]

(* The server's documents of each company, by name, its notes and          *)
(* hypotheses, by text, and its team.                                      *)
BaseDocs == content.docs
BaseNotes == content.notes
BaseHypotheses == content.hypotheses
Members == content.members

-----------------------------------------------------------------------------
(* What the tabs show, from the panel's state.                             *)

UploadItems(c) == Keeping(uploads[c], {d \in ToSet(uploads[c]) : d.name \notin dismissed[c]})

BaseItems(c) ==
  LET kept == Keeping(BaseDocs[c], ToSet(BaseDocs[c]) \ dismissed[c])
  IN [k \in DOMAIN kept |-> [id |-> Base(k), name |-> kept[k]]]

AllDocuments(c) == UploadItems(c) \o BaseItems(c)

NotesFor(c) ==
  notes[c] \o [k \in DOMAIN BaseNotes[c] |->
                 [id |-> Base(k), text |-> BaseNotes[c][k], source |-> "base"]]

ActiveNoteId(c) ==
  IF activeNote[c] # NoId THEN activeNote[c]
  ELSE IF NotesFor(c) = <<>> THEN NoId ELSE NotesFor(c)[1].id

ActiveNote(c) == {note \in ToSet(NotesFor(c)) : note.id = ActiveNoteId(c)}

(* What the edit form is filled with when activeNote is another object.    *)
NoteForm ==
  IF selected = None \/ ActiveNote(selected) = {} THEN [of |-> NoId, text |-> None]
  ELSE LET note == CHOOSE note \in ActiveNote(selected) : TRUE
       IN [of |-> note.id, text |-> note.text]

BaseList(texts) == [k \in DOMAIN texts |-> [id |-> Base(k), text |-> texts[k]]]

HypothesesOf(c) == IF c \in touched THEN hypotheses[c] ELSE BaseList(BaseHypotheses[c])

NoHypForm == [index |-> 0, creating |-> FALSE, of |-> NoId, text |-> None]
NewHypothesis == [NoHypForm EXCEPT !.creating = TRUE]
HypothesisAt(list, k) ==
  [NoHypForm EXCEPT !.index = k, !.of = list[k].id, !.text = list[k].text]

(* Both effects of the tab, for an index and no new hypothesis.            *)
HypSettled(list, k) ==
  IF list = <<>> THEN NewHypothesis
  ELSE HypothesisAt(list, IF k \in DOMAIN list THEN k ELSE 1)

(* The same when the server's list has been replaced: a new hypothesis     *)
(* that was being typed is cleared, unless there was and is no other.      *)
HypReloaded(list) ==
  IF list = <<>> THEN IF hypForm.index = 0 THEN hypForm ELSE NewHypothesis
  ELSE IF hypForm.creating
       THEN [NewHypothesis EXCEPT !.index = IF hypForm.index \in DOMAIN list THEN hypForm.index ELSE 1]
       ELSE HypSettled(list, hypForm.index)

(* The effects on the list of companies: a selection that is gone becomes  *)
(* the first company, or none.                                             *)
SelectionIn(list, company) ==
  IF company \in ToSet(list) THEN company
  ELSE IF list = <<>> THEN None ELSE list[1]

-----------------------------------------------------------------------------

ForEach(value) == [c \in Companies |-> value]

(* A company's team is copied once, when the company is first selected.    *)
TeamIn(load, c) == [m \in load.members[c] |-> None]
FirstTeam(company) == [c \in {company} \ {None} |-> TeamIn(content, c)]
TeamSeen(company, load) ==
  members' = [c \in DOMAIN members \cup ({company} \ {None}) |->
                IF c \in DOMAIN members THEN members[c] ELSE TeamIn(load, c)]

(* The panel without anything done in it.                                  *)
WorkspaceInit ==
  /\ roster \in Rosters /\ content \in Contents
  /\ selected = SelectionIn(roster, None) /\ workTab = "overview" /\ made = 0
  /\ uploads = ForEach(<<>>) /\ dismissed = ForEach({}) /\ opened = ForEach(NoDocument) /\ urls = {}
  /\ notes = ForEach(<<>>) /\ closed = ForEach({}) /\ activeNote = ForEach(NoId)
  /\ noteEdit = NoteForm /\ noteDraft = None
  /\ hypotheses = ForEach(<<>>) /\ touched = {} /\ hypForm = NoHypForm
  /\ members = FirstTeam(selected) /\ teamEdit = NoTeamEdit

(* The panel goes, which revokes its object URLs, or comes.                *)
WorkspaceMounts ==
  /\ UNCHANGED <<roster, content>> /\ selected' = SelectionIn(roster, None) /\ workTab' = "overview" /\ made' = 0
  /\ uploads' = ForEach(<<>>) /\ dismissed' = ForEach({}) /\ opened' = ForEach(NoDocument)
  /\ urls' = urls \ UNION {{d.id : d \in ToSet(uploads[c])} : c \in Companies}
  /\ notes' = ForEach(<<>>) /\ closed' = ForEach({}) /\ activeNote' = ForEach(NoId)
  /\ noteEdit' = NoteForm' /\ noteDraft' = None
  /\ hypotheses' = ForEach(<<>>) /\ touched' = {} /\ hypForm' = NoHypForm
  /\ members' = FirstTeam(SelectionIn(roster, None)) /\ teamEdit' = NoTeamEdit

(* The effects on another selectedCompanyId: the overview, and no drafts.  *)
SelectionMoves ==
  /\ workTab' = "overview"
  /\ hypForm' = NoHypForm
  /\ noteDraft' = None
  /\ teamEdit' = NoTeamEdit

RecordsKept == UNCHANGED <<made, docTabVars, notes, closed, activeNote, hypotheses, touched>>

(* A company is chosen in one of the three lists.                          *)
SelectCompany(c) ==
  /\ c \in ToSet(roster) \ {selected}
  /\ selected' = c
  /\ SelectionMoves
  /\ TeamSeen(c, content) /\ RecordsKept /\ UNCHANGED <<roster, content>>
  /\ noteEdit' = NoteForm'

(* Another list of companies, all of whose objects are new, with other     *)
(* documents, notes and hypotheses perhaps: the notes form is filled again *)
(* and so is the one of the hypotheses, while they are the server's.       *)
CompaniesArrive(list, load) ==
  /\ roster' = list /\ content' = load
  /\ selected' = SelectionIn(list, selected)
  /\ TeamSeen(selected', load) /\ RecordsKept
  /\ IF selected' # selected THEN SelectionMoves
     ELSE /\ hypForm' = IF workTab # "hypotheses" \/ selected \in touched THEN hypForm
                        ELSE HypReloaded(HypothesesOf(selected)')
          /\ UNCHANGED <<workTab, noteDraft, teamEdit>>
  /\ noteEdit' = NoteForm'

(* A tab; that of the hypotheses keeps its state only while it is shown.   *)
ChooseWorkTab(tab) ==
  /\ selected # None
  /\ tab \in RoleTabs \ {workTab}
  /\ workTab' = tab
  /\ hypForm' = IF tab = "hypotheses" THEN HypSettled(HypothesesOf(selected), 1) ELSE NoHypForm
  /\ RecordsKept
  /\ UNCHANGED <<roster, content, selected, noteEdit, noteDraft, teamTabVars>>

InTab(tab) == selected # None /\ workTab = tab /\ UNCHANGED placeVars

-----------------------------------------------------------------------------
(* Documents.                                                              *)

(* Files whose name no upload of the company has yet, each before the rest.*)
FilesUpTo(list, files) ==
  LET docs[k \in 0..Len(files)] ==
        IF k = 0 THEN list
        ELSE IF \E d \in ToSet(docs[k - 1]) : d.name = files[k] THEN docs[k - 1]
        ELSE <<[id |-> Own(made + k), name |-> files[k]]>> \o docs[k - 1]
  IN docs

WithFiles(list, files) == FilesUpTo(list, files)[Len(files)]

StoreFiles(files) ==
  LET list == WithFiles(uploads[selected], files) IN
  /\ made + Len(files) <= MaxMade
  /\ made' = made + Len(files)
  /\ uploads' = [uploads EXCEPT ![selected] = list]
  /\ urls' = urls \cup {d.id : d \in ToSet(list) \ ToSet(uploads[selected])}

HandleDocumentUpload(files) ==
  /\ InTab("documents")
  /\ StoreFiles(files)
  /\ UNCHANGED <<dismissed, opened, noteTabVars, hypTabVars, teamTabVars>>

HandleDocumentOpen(d) ==
  /\ InTab("documents")
  /\ d \in ToSet(AllDocuments(selected))
  /\ opened' = [opened EXCEPT ![selected] =
                   [id |-> d.id, name |-> d.name, among |-> BaseDocs[selected]]]
  /\ UNCHANGED <<made, uploads, dismissed, urls, noteTabVars, hypTabVars, teamTabVars>>

OpenedDocument(c) == {d \in ToSet(AllDocuments(c)) : d.id = opened[c].id}

(* Mutant: what is deleted stays the open document.                        *)
DeleteKeepsOpen(d) ==
  /\ InTab("documents")
  /\ d \in OpenedDocument(selected) /\ d.id.of = "server"
  /\ dismissed' = [dismissed EXCEPT ![selected] = @ \cup {d.name}]
  /\ UNCHANGED <<made, uploads, urls, opened, noteTabVars, hypTabVars, teamTabVars>>

(* The document that is open is deleted: an upload with its URL, one of    *)
(* the server's by its name.                                               *)
HandleDeleteDocument(d) ==
  /\ InTab("documents")
  /\ d \in OpenedDocument(selected)
  /\ IF d.id.of = "own"
     THEN /\ uploads' = [uploads EXCEPT ![selected] = Keeping(@, {e \in ToSet(@) : e.id # d.id})]
          /\ urls' = urls \ {d.id}
          /\ UNCHANGED dismissed
     ELSE /\ dismissed' = [dismissed EXCEPT ![selected] = @ \cup {d.name}]
          /\ UNCHANGED <<uploads, urls>>
  /\ opened' = [opened EXCEPT ![selected] = NoDocument]
  /\ UNCHANGED <<made, noteTabVars, hypTabVars, teamTabVars>>

-----------------------------------------------------------------------------
(* Notes.  The labels and the linked event of a note go with its text.     *)

NotesTouchOnly(kept) == UNCHANGED <<kept, hypTabVars, teamTabVars>>

(* A note that is active already is the same object, and the form is left. *)
SelectNote(id) ==
  /\ InTab("notes")
  /\ \E note \in ToSet(NotesFor(selected)) : note.id = id
  /\ activeNote' = [activeNote EXCEPT ![selected] = id]
  /\ NotesTouchOnly(<<made, docTabVars, notes, closed, noteDraft>>)
  /\ noteEdit' = IF id = ActiveNoteId(selected) THEN noteEdit ELSE NoteForm'

(* By its button or by dragging it.  Every note is a new object, so what   *)
(* was typed into the form goes, whichever note is moved.                  *)
HandleMoveNoteStatus(id, status) ==
  /\ InTab("notes")
  /\ \E note \in ToSet(NotesFor(selected)) : note.id = id
  /\ closed' = [closed EXCEPT ![selected] = IF status = "closed" THEN @ \cup {id} ELSE @ \ {id}]
  /\ NotesTouchOnly(<<made, docTabVars, notes, activeNote, noteDraft>>)
  /\ noteEdit' = NoteForm'

(* Both forms of the tab; the server's notes have no edit form.            *)
TypeNote(text) ==
  /\ InTab("notes")
  /\ \/ noteDraft' = text /\ UNCHANGED noteEdit
     \/ noteEdit.of.of = "own" /\ noteEdit' = [noteEdit EXCEPT !.text = text] /\ UNCHANGED noteDraft
  /\ NotesTouchOnly(<<made, docTabVars, notes, closed, activeNote>>)

(* New notes come first, and the first of them is shown.                   *)
PutNotes(new) ==
  /\ notes' = [notes EXCEPT ![selected] = new \o @]
  /\ activeNote' = [activeNote EXCEPT ![selected] = new[1].id]
  /\ noteEdit' = NoteForm'

HandleAddNote ==
  /\ InTab("notes")
  /\ noteDraft # None
  /\ made < MaxMade /\ made' = made + 1
  /\ PutNotes(<<[id |-> Own(made'), text |-> noteDraft, source |-> "manual"]>>)
  /\ noteDraft' = None
  /\ NotesTouchOnly(<<docTabVars, closed>>)

(* Every file becomes a note, and a document if its name is a new one.     *)
HandleAttachNoteFile(files) ==
  /\ InTab("notes")
  /\ StoreFiles(files)
  /\ PutNotes([k \in DOMAIN files |->
                 [id |-> Own(made + k), text |-> files[k], source |-> "file"]])
  /\ NotesTouchOnly(<<dismissed, opened, closed, noteDraft>>)

HandleSaveNoteEdit ==
  /\ InTab("notes")
  /\ noteEdit.text # None
  /\ \E note \in ActiveNote(selected) : note.source # "base"
  /\ notes' = [notes EXCEPT ![selected] =
                 [k \in DOMAIN @ |-> IF @[k].id = ActiveNoteId(selected)
                                     THEN [@[k] EXCEPT !.text = noteEdit.text] ELSE @[k]]]
  /\ NotesTouchOnly(<<made, docTabVars, closed, activeNote, noteDraft>>)
  /\ noteEdit' = NoteForm'

-----------------------------------------------------------------------------
(* Hypotheses, whose list belongs to the panel and whose form to the tab.  *)

HypothesesOnly == InTab("hypotheses") /\ UNCHANGED <<docTabVars, noteTabVars, teamTabVars>>
HypothesesKept == UNCHANGED <<made, hypotheses, touched>>
HypothesesShown == HypothesesOf(selected)

SetHypotheses(list) ==
  /\ hypotheses' = [hypotheses EXCEPT ![selected] = list]
  /\ touched' = touched \cup {selected}

(* The row that is shown already changes nothing.                          *)
ChooseHypothesis(k) ==
  /\ HypothesesOnly /\ HypothesesKept
  /\ k \in DOMAIN HypothesesShown
  /\ hypForm' = IF hypForm.creating \/ k # hypForm.index THEN HypothesisAt(HypothesesShown, k) ELSE hypForm

(* The button for a new one.  The effects point at the first entry again,  *)
(* which clears the form, unless there is none.                            *)
NewHypothesisForm ==
  /\ HypothesesOnly /\ HypothesesKept
  /\ hypForm' = IF HypothesesShown = <<>> THEN hypForm ELSE [NewHypothesis EXCEPT !.index = 1]

TypeHypothesis(text) ==
  /\ HypothesesOnly /\ HypothesesKept
  /\ hypForm' = [hypForm EXCEPT !.text = text]

HandleAddHypothesis ==
  /\ HypothesesOnly
  /\ hypForm.creating /\ hypForm.text # None
  /\ made < MaxMade /\ made' = made + 1
  /\ SetHypotheses(<<[id |-> Own(made'), text |-> hypForm.text]>> \o HypothesesShown)
  /\ hypForm' = HypothesisAt(hypotheses'[selected], 1)

HandleUpdateHypothesis ==
  /\ HypothesesOnly
  /\ ~hypForm.creating /\ hypForm.text # None
  /\ SetHypotheses([HypothesesShown EXCEPT ![hypForm.index].text = hypForm.text])
  /\ UNCHANGED <<made, hypForm>>

(* The next entry moves up under the same index.                           *)
HandleDeleteHypothesis ==
  /\ HypothesesOnly
  /\ ~hypForm.creating
  /\ SetHypotheses(RemoveAt(HypothesesShown, hypForm.index))
  /\ hypForm' = HypSettled(hypotheses'[selected], hypForm.index)
  /\ UNCHANGED made

-----------------------------------------------------------------------------
(* The team.                                                               *)

TeamOnly == InTab("team") /\ UNCHANGED <<made, docTabVars, noteTabVars, hypTabVars>>

HandleStartTeamEdit(m) ==
  /\ TeamOnly
  /\ m \in DOMAIN members[selected] \ {teamEdit.id}
  /\ teamEdit' = [id |-> m, text |-> members[selected][m]]
  /\ UNCHANGED members

TypeTeamEdit(text) ==
  /\ TeamOnly
  /\ teamEdit.id # None
  /\ teamEdit' = [teamEdit EXCEPT !.text = text]
  /\ UNCHANGED members

HandleCancelTeamEdit ==
  /\ TeamOnly
  /\ teamEdit.id # None
  /\ teamEdit' = NoTeamEdit
  /\ UNCHANGED members

HandleSaveTeamEdit ==
  /\ TeamOnly
  /\ teamEdit.id # None /\ teamEdit.text # None
  /\ members' = [members EXCEPT ![selected] =
                   [m \in DOMAIN @ |-> IF m = teamEdit.id THEN teamEdit.text ELSE @[m]]]
  /\ teamEdit' = NoTeamEdit

-----------------------------------------------------------------------------

DocumentsTab ==
  \/ \E files \in Batches : HandleDocumentUpload(files)
  \/ selected # None /\ \E d \in ToSet(AllDocuments(selected)) :
       HandleDocumentOpen(d) \/ HandleDeleteDocument(d)

NotesTab ==
  \/ HandleAddNote \/ HandleSaveNoteEdit
  \/ \E text \in Texts \cup {None} : TypeNote(text)
  \/ \E files \in Batches : HandleAttachNoteFile(files)
  \/ selected # None /\ \E note \in ToSet(NotesFor(selected)) :
       SelectNote(note.id) \/ \E status \in {"open", "closed"} : HandleMoveNoteStatus(note.id, status)

HypothesesTab ==
  \/ \E text \in Texts \cup {None} : TypeHypothesis(text)
  \/ selected # None /\ \E k \in DOMAIN HypothesesShown : ChooseHypothesis(k)
  \/ NewHypothesisForm \/ HandleAddHypothesis \/ HandleUpdateHypothesis \/ HandleDeleteHypothesis

TeamTab ==
  \/ \E text \in Texts \cup {None} : TypeTeamEdit(text)
  \/ selected # None /\ \E m \in DOMAIN members[selected] : HandleStartTeamEdit(m)
  \/ HandleCancelTeamEdit \/ HandleSaveTeamEdit

WorkspaceUser ==
  \/ \E c \in Companies : SelectCompany(c)
  \/ \E tab \in RoleTabs : ChooseWorkTab(tab)
  \/ DocumentsTab \/ NotesTab \/ HypothesesTab \/ TeamTab

-----------------------------------------------------------------------------

Names == UNION {ToSet(load.docs[c]) : load \in Contents, c \in Companies}

(* The types of the panel's state, and the selection: there is one exactly *)
(* while there are companies, it is one of them, and its team is there.    *)
WorkspaceTypeOK ==
  /\ roster \in Rosters /\ content \in Contents /\ workTab \in RoleTabs /\ made \in 0..MaxMade
  /\ selected = None <=> roster = <<>>
  /\ selected # None => selected \in ToSet(roster) \cap DOMAIN members
  /\ \A c \in Companies : dismissed[c] \subseteq Names

(* What is shown as the open document is the one that was clicked, whose   *)
(* id is a position that others take over as documents are dismissed.  Of  *)
(* an upload it always is, and the browser still has the file; of one of   *)
(* the server's it is while the server's list is what it was: with another *)
(* list the position is that of another document, or of none.              *)
OpenedIsMeant ==
  \A c \in Companies :
    opened[c] # NoDocument /\ (opened[c].id.of = "own" \/ opened[c].among = BaseDocs[c]) =>
      /\ OpenedDocument(c) = {[id |-> opened[c].id, name |-> opened[c].name]}
      /\ opened[c].id.of = "own" => opened[c].id \in urls

(* Every object URL is one of an upload the panel keeps, and every such    *)
(* upload has one: it goes with the upload, or with the panel.  (The panel *)
(* keeps uploads that it will not list again: those named like a document  *)
(* that was dismissed.)                                                    *)
UrlsAccounted == urls = UNION {{d.id : d \in ToSet(uploads[c])} : c \in Companies}

(* A form shows, and saves to, the entry it was filled from: whatever is   *)
(* added, moved, deleted or loaded, and whichever company is chosen        *)
(* meanwhile.  A note that was made here and chosen is there to be shown;  *)
(* one of the server's may be gone with a load, and then the form is empty.*)
FormsFollow ==
  /\ selected # None =>
       noteEdit.of = IF ActiveNote(selected) = {} THEN NoId ELSE ActiveNoteId(selected)
  /\ \A c \in Companies : activeNote[c].of = "own" => ActiveNote(c) # {}
  /\ workTab = "hypotheses" /\ selected # None =>
       /\ HypothesesShown = <<>> => hypForm.creating
       /\ ~hypForm.creating => /\ hypForm.index \in DOMAIN HypothesesShown
                               /\ hypForm.of = HypothesesShown[hypForm.index].id
  /\ teamEdit.id # None => selected # None /\ teamEdit.id \in DOMAIN members[selected]
=============================================================================
