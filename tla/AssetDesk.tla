------------------------------ MODULE AssetDesk ------------------------------
(***************************************************************************)
(* The asset centre (pages/AssetsPage.tsx), the dialog that shows one      *)
(* asset (components/AssetDetailModal.tsx) and the picker of assets        *)
(* (components/AssetPicker.tsx).  The dialog edits a draft of a document's *)
(* version, or the prompt of a picture; a save makes a new version, an     *)
(* optimization asks the model for a draft, and either may answer when the *)
(* dialog shows something else or nothing.                                 *)
(*                                                                         *)
(* One document and one picture stand for the library.  The document's     *)
(* first version is of the old kind whose text is read from its file.  A   *)
(* text records the item the model was asked about, if it was.             *)
(***************************************************************************)
EXTENDS Window

CONSTANTS
  AssetProjects,   \* projects
  MaxAssetClicks   \* bound on the user's operations

ASSUME AssetDeskAssumption ==
  /\ AssetProjects # {}
  /\ none \notin Nat
  /\ MaxAssetClicks \in Nat

VARIABLES
  held,        \* the document's versions and the picture's prompt
  preview,     \* the item the page asked the dialog for
  detail,      \* the dialog
  detailWork,  \* its save or optimization under way
  place,       \* the active project and the scope of the asset centre
  sources,     \* the project whose novels and comics are listed
  sourceReads, \* reads of them under way; the newest request counts
  picking,     \* the asset being picked
  picked       \* what the last pick handed over, and where

assetVars == <<held, preview, detail, detailWork, place, sources, sourceReads, picking, picked,
               clicks, faults>>
dialogVars == <<held, preview, detail, detailWork>>
pageVars == <<place, sources, sourceReads, picking, picked>>

PictureItem == 0
Words(n) == [asked |-> none, n |-> n]
NewestHeld == Len(held.versions)
HeldItems == 0..NewestHeld
TextOf(item) == IF item = PictureItem THEN held.prompt ELSE held.versions[item]
ReadFromFile(item) == item = 1

NoDetail == [item |-> none]
NoDetailWork == [kind |-> "none"]
AssetClick == Spend(MaxAssetClicks) /\ UNCHANGED faults
AssetIdle == UNCHANGED <<clicks, faults>>

---------------------------------------------------------------------------
(* The dialog.                                                             *)

\* The effect of [selected]: everything unsaved is dropped; the draft of the item
\* before stays in place until the text has been read.
Select(item, draft) ==
  [item |-> item, head |-> NewestHeld, editing |-> FALSE, dirty |-> FALSE,
   draft |-> IF ReadFromFile(item) THEN draft ELSE TextOf(item),
   text |-> IF ReadFromFile(item) THEN "asked" ELSE "read"]
ShownDraft == IF detail = NoDetail THEN Words(0) ELSE detail.draft

OpenAsset(item) ==
  /\ AssetClick
  /\ detail = NoDetail /\ picking = none
  /\ preview' = item /\ detail' = Select(item, ShownDraft)
  /\ UNCHANGED <<held, detailWork, pageVars>>

TextRead ==
  /\ detail # NoDetail /\ detail.text = "asked"
  /\ \/ AssetIdle /\ detail' = [detail EXCEPT !.draft = TextOf(detail.item), !.text = "read"]
     \/ Fault /\ UNCHANGED clicks /\ detail' = [detail EXCEPT !.text = "failed"]
  /\ UNCHANGED <<held, preview, detailWork, pageVars>>

\* The library replaced its records: an untouched dialog shows the new one.
LibraryReplaced ==
  /\ detail # NoDetail /\ ~detail.dirty
  /\ detail' = Select(detail.item, detail.draft)
  /\ detail' # detail
  /\ AssetIdle /\ UNCHANGED <<held, preview, detailWork, pageVars>>

\* Confirmed when there are unsaved changes; neither waits for what is under way.
SelectVersion(item) ==
  /\ AssetClick
  /\ detail # NoDetail /\ detail.item # PictureItem /\ item # PictureItem
  /\ detail' = Select(item, detail.draft)
  /\ UNCHANGED <<held, preview, detailWork, pageVars>>
CloseDetail ==
  /\ AssetClick
  /\ detail # NoDetail
  /\ preview' = none
  /\ detail' = IF preview = none THEN detail ELSE NoDetail
  /\ UNCHANGED <<held, detailWork, pageVars>>

ToggleEditing ==
  /\ AssetClick
  /\ detail # NoDetail /\ detail.item # PictureItem
  /\ detail' = [detail EXCEPT !.editing = ~@]
  /\ UNCHANGED <<held, preview, detailWork, pageVars>>

\* Of a document or a prompt the text, or just the title.
TypeDetail(title) ==
  /\ AssetClick
  /\ detail # NoDetail /\ (detail.item = PictureItem \/ detail.editing)
  /\ detail' = [detail EXCEPT !.dirty = TRUE, !.draft = IF title THEN @ ELSE Words(10 + clicks)]
  /\ UNCHANGED <<held, preview, detailWork, pageVars>>

PressSaveAsset(copy) ==
  /\ AssetClick
  /\ detail # NoDetail /\ detailWork = NoDetailWork
  /\ IF copy THEN detail.item # PictureItem ELSE detail.dirty
  /\ detailWork' = [kind |-> IF detail.item = PictureItem THEN "prompt" ELSE "version",
                    item |-> detail.item, text |-> detail.draft, head |-> detail.head]
  /\ UNCHANGED <<held, preview, detail, pageVars>>

\* updateAssetMetadata: the row gets the prompt of the record handed over.
PromptStored == [held EXCEPT !.prompt = detailWork.text]

\* A version is saved over the one that was the newest when the dialog opened, or
\* refused.  The answer shows what was saved, whether or not the dialog is still open.
VersionSaved ==
  /\ detailWork.kind = "version"
  /\ IF detailWork.head = NewestHeld
     THEN /\ held' = [held EXCEPT !.versions = Append(@, detailWork.text)]
          /\ detail' = [Select(1, ShownDraft) EXCEPT !.item = NewestHeld + 1, !.head = NewestHeld + 1,
                                              !.draft = detailWork.text, !.text = "read"]
     ELSE UNCHANGED <<held, detail>>

PromptSaved ==
  /\ detailWork.kind = "prompt"
  /\ held' = PromptStored
  /\ detail' = [Select(PictureItem, ShownDraft) EXCEPT !.draft = detailWork.text]

SaveDetailAnswers ==
  /\ detailWork.kind \in {"version", "prompt"}
  /\ detailWork' = NoDetailWork
  /\ \/ (VersionSaved \/ PromptSaved) /\ AssetIdle
     \/ Fault /\ UNCHANGED <<clicks, held, detail>>
  /\ UNCHANGED <<preview, pageVars>>

\* Another page saved a version of the document.
SavedElsewhere ==
  /\ AssetClick
  /\ held' = [held EXCEPT !.versions = Append(@, Words(10 + clicks))]
  /\ UNCHANGED <<preview, detail, detailWork, pageVars>>

AskDetail ==
  /\ AssetClick
  /\ detail # NoDetail /\ detailWork = NoDetailWork
  /\ detailWork' = [kind |-> "optimize", item |-> detail.item, n |-> clicks]
  /\ UNCHANGED <<held, preview, detail, pageVars>>

\* Mutant of StillSelected: the answer is shown on whatever is selected.
AnySelected == TRUE

\* Text typed meanwhile gives way to the answer.
StillSelected == detail.item = detailWork.item
AnswerDetail ==
  /\ detailWork.kind = "optimize"
  /\ detailWork' = NoDetailWork
  /\ detail' = IF detail # NoDetail /\ StillSelected
               THEN [detail EXCEPT !.draft = [asked |-> detailWork.item, n |-> detailWork.n],
                                   !.dirty = TRUE, !.editing = TRUE]
               ELSE detail
  /\ AssetIdle /\ UNCHANGED <<held, preview, pageVars>>
DetailFails ==
  /\ detailWork.kind = "optimize"
  /\ detailWork' = NoDetailWork
  /\ Fault /\ UNCHANGED <<clicks, held, preview, detail, pageVars>>

---------------------------------------------------------------------------
(* The asset centre and the picker.                                        *)

\* A request makes the older ones' answers unwelcome.
LoadSources(project) ==
  /\ sources' = none
  /\ sourceReads' = [r \in DOMAIN sourceReads \cup {Len(sourceReads) + 1} |->
                       IF r \in DOMAIN sourceReads THEN sourceReads[r] ELSE project]

\* Another project or scope: what was open is closed.
GoTo(project, scope) ==
  /\ AssetClick
  /\ [project |-> project, scope |-> scope] # place
  /\ place' = [project |-> project, scope |-> scope]
  /\ IF scope = "project" THEN LoadSources(project) ELSE LoadSources(none)
  /\ preview' = none
  /\ detail' = IF preview = none THEN detail ELSE NoDetail
  /\ UNCHANGED <<held, detailWork, picking, picked>>

RefreshSources ==
  /\ AssetClick
  /\ place.scope = "project"
  /\ LoadSources(place.project)
  /\ UNCHANGED <<dialogVars, place, picking, picked>>

SourcesAnswer(r) ==
  /\ sourceReads[r] # none
  /\ sourceReads' = [sourceReads EXCEPT ![r] = none]
  /\ sources' = IF r = Len(sourceReads) /\ place.project = sourceReads[r] THEN sourceReads[r] ELSE sources
  /\ AssetIdle /\ UNCHANGED <<dialogVars, place, picking, picked>>

\* One pick at a time: of an asset of the project or of none, whose text may have to
\* be read; the project is checked again after that.
Pick(project) ==
  /\ AssetClick
  /\ picking = none /\ detail = NoDetail
  /\ picking' = [of |-> project, at |-> place.project]
  /\ UNCHANGED <<dialogVars, place, sources, sourceReads, picked>>
PickStillCurrent == picking.at = place.project
PickLands ==
  /\ picking # none
  /\ picking' = none
  /\ picked' = IF PickStillCurrent THEN [of |-> picking.of, into |-> place.project] ELSE picked
  /\ AssetIdle /\ UNCHANGED <<dialogVars, place, sources, sourceReads>>
PickFails ==
  /\ picking # none
  /\ picking' = none
  /\ Fault /\ UNCHANGED <<clicks, dialogVars, place, sources, sourceReads, picked>>

---------------------------------------------------------------------------
AssetInit ==
  /\ held = [versions |-> <<Words(1), Words(2)>>, prompt |-> Words(3)]
  /\ preview = none /\ detail = NoDetail /\ detailWork = NoDetailWork
  /\ place \in [project : AssetProjects, scope : {"project"}]
  /\ sources = none /\ sourceReads = <<place.project>>
  /\ picking = none /\ picked = none

AssetNext ==
  \/ \E item \in HeldItems : OpenAsset(item) \/ SelectVersion(item)
  \/ TextRead \/ LibraryReplaced \/ CloseDetail \/ ToggleEditing
  \/ \E b \in BOOLEAN : TypeDetail(b) \/ PressSaveAsset(b)
  \/ SaveDetailAnswers \/ SavedElsewhere \/ AskDetail \/ AnswerDetail \/ DetailFails
  \/ \E p \in AssetProjects, s \in {"project", "unassigned"} : GoTo(p, s)
  \/ RefreshSources
  \/ \E r \in DOMAIN sourceReads : SourcesAnswer(r)
  \/ \E p \in {place.project, none} : Pick(p)
  \/ PickLands \/ PickFails

AssetSpec == AssetInit /\ WindowInit /\ [][AssetNext]_assetVars

---------------------------------------------------------------------------
AssetTypeOK ==
  /\ preview \in HeldItems \cup {none} /\ detail.item \in HeldItems \cup {none}
  /\ detail # NoDetail => detail.head \in 1..NewestHeld /\ detail.text \in {"asked", "read", "failed"}
  /\ place.project \in AssetProjects /\ sources \in AssetProjects \cup {none}

\* A draft of the model stands only where it was asked for: an answer that arrives
\* after the user has gone to another version, to another asset and back, or closed
\* the dialog is never offered for saving as the text of something else.  (A
\* dialog that failed to read its text is exempt: it still holds the last draft.)
AnswerStaysWithVersion ==
  detail # NoDetail /\ detail.dirty /\ detail.text = "read" =>
    detail.draft.asked \in {none, detail.item} \/ detail.draft = TextOf(detail.item)
=============================================================================
