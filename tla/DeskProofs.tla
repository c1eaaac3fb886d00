---------------------------- MODULE DeskProofs ----------------------------
(***************************************************************************)
(* Proofs about AssetDesk, Settings and Projects, for any projects,        *)
(* profiles and number of clicks, versions and faults: a draft of the      *)
(* model stands only on the item it was asked for, a form without unsaved  *)
(* changes shows what is stored, and the forms on screen are the selected  *)
(* project's, whose drafts and references stay its own.                    *)
(***************************************************************************)
EXTENDS AssetDesk, Settings, Projects, SequenceTheorems, TLAPS

---------------------------------------------------------------------------
(* AssetDesk.                                                              *)

\* The shapes of the state.
Texts == [asked : Nat \cup {none}, n : Nat]
Library == [versions : Seq(Texts), prompt : Texts]
Details == [item : Nat, head : Nat, editing : BOOLEAN, dirty : BOOLEAN, draft : Texts,
            text : {"asked", "read", "failed"}]
Saves == [kind : {"version", "prompt"}, item : Nat, text : Texts, head : Nat]
Asks == [kind : {"optimize"}, item : Nat, n : Nat]

AssetShapes ==
  /\ clicks \in Nat
  /\ held \in Library
  /\ detail \in Details \cup {NoDetail}
  /\ detailWork \in Saves \cup Asks \cup {NoDetailWork}

\* The dialog shows an item that is there.
ItemHeld == detail # NoDetail => detail.item \in HeldItems

\* What the dialog has read, touched or not, is its item's text, was typed or
\* was asked for this item.
DraftBelongs ==
  detail # NoDetail /\ detail.text = "read" =>
    detail.draft.asked \in {none, detail.item} \/ detail.draft = TextOf(detail.item)

AssetInv == AssetShapes /\ ItemHeld /\ DraftBelongs

---------------------------------------------------------------------------
\* An open dialog is never taken for none.
LEMMA NoDetailApart == NoDetail \notin Details
  BY AssetDeskAssumption DEF NoDetail, Details

\* Typed words are texts.
LEMMA WordsText ==
  ASSUME NEW n \in Nat
  PROVE  Words(n) \in Texts /\ Words(n).asked = none
  BY DEF Words, Texts

\* The initial states satisfy the invariant.
LEMMA InitAssetInv == AssetInit /\ WindowInit => AssetInv
<1> SUFFICES ASSUME AssetInit, WindowInit PROVE AssetInv
  OBVIOUS
<1>1. Words(1) \in Texts /\ Words(2) \in Texts /\ Words(3) \in Texts
  BY WordsText
<1>2. held \in Library
  BY <1>1 DEF AssetInit, Library
<1> QED
  BY <1>2 DEF AssetInit, WindowInit, AssetInv, AssetShapes, ItemHeld, DraftBelongs

\* The text of an item that is there.
LEMMA TextOfHeld ==
  ASSUME AssetShapes, NEW item \in HeldItems
  PROVE  TextOf(item) \in Texts /\ item \in Nat /\ NewestHeld \in Nat
<1>1. held.versions \in Seq(Texts) /\ held.prompt \in Texts
  BY DEF AssetShapes, Library
<1>2. NewestHeld \in Nat
  BY <1>1 DEF NewestHeld
<1>3. CASE item = PictureItem
  BY <1>1, <1>2, <1>3 DEF TextOf, PictureItem
<1>4. CASE item # PictureItem
  BY <1>1, <1>2, <1>4 DEF TextOf, PictureItem, HeldItems, NewestHeld
<1> QED
  BY <1>2, <1>3, <1>4

\* A dialog without an item shows no draft.
LEMMA ShownDraftText ==
  ASSUME AssetShapes
  PROVE  ShownDraft \in Texts
  BY WordsText DEF ShownDraft, AssetShapes, Details

\* A selected item is shown with its own text, once that has been read.
LEMMA SelectShape ==
  ASSUME AssetShapes, NEW item \in HeldItems, NEW draft \in Texts
  PROVE  /\ Select(item, draft) \in Details
         /\ Select(item, draft).item = item
         /\ Select(item, draft).text = "read" => Select(item, draft).draft = TextOf(item)
<1>1. TextOf(item) \in Texts /\ item \in Nat /\ NewestHeld \in Nat
  BY TextOfHeld
<1> QED
  BY <1>1 DEF Select, Details

\* Selecting an item over the same library keeps the invariant.
LEMMA SelectAssetInv ==
  ASSUME AssetInv, NEW item \in HeldItems, NEW draft \in Texts,
         detail' = Select(item, draft), held' = held, clicks' \in Nat,
         detailWork' = detailWork
  PROVE  AssetInv'
<1>1. /\ detail' \in Details /\ detail'.item = item
      /\ detail'.text = "read" => detail'.draft = TextOf(item)
  BY SelectShape DEF AssetInv
<1>2. TextOf(item)' = TextOf(item) /\ HeldItems' = HeldItems
  BY DEF TextOf, HeldItems, NewestHeld
<1> QED
  BY <1>1, <1>2 DEF AssetInv, AssetShapes, ItemHeld, DraftBelongs, TextOf, HeldItems, NewestHeld

\* A dialog that stays, or goes, over the same library keeps the invariant.
LEMMA StayAssetInv ==
  ASSUME AssetInv, detail' \in {detail, NoDetail}, held' = held, clicks' \in Nat,
         detailWork' \in Saves \cup Asks \cup {NoDetailWork}
  PROVE  AssetInv'
  BY DEF AssetInv, AssetShapes, ItemHeld, DraftBelongs, TextOf, HeldItems, NewestHeld

\* A click counts on.
LEMMA ClickNat ==
  ASSUME AssetShapes, AssetClick \/ AssetIdle \/ UNCHANGED clicks
  PROVE  clicks' \in Nat
  BY DEF AssetShapes, AssetClick, AssetIdle, Spend

\* A version more leaves the texts of the others alone.
LEMMA AppendKeeps ==
  ASSUME AssetShapes, NEW text \in Texts, NEW last \in Nat, last = NewestHeld + 1,
         held' = [held EXCEPT !.versions = Append(@, text)]
  PROVE  /\ held' \in Library
         /\ \A item \in HeldItems : item \in HeldItems' /\ TextOf(item)' = TextOf(item)
         /\ last \in HeldItems'
         /\ TextOf(last)' = text
<1>1. held.versions \in Seq(Texts)
  BY DEF AssetShapes, Library
<1>2. /\ held' \in Library /\ held'.prompt = held.prompt
      /\ held'.versions = Append(held.versions, text)
  <2> DEFINE more == Append(held.versions, text)
  <2>1. more \in Seq(Texts)
    BY <1>1
  <2>2. held' = [held EXCEPT !.versions = more]
    OBVIOUS
  <2> HIDE DEF more
  <2>3. held' \in Library /\ held'.prompt = held.prompt /\ held'.versions = more
    BY <2>1, <2>2 DEF AssetShapes, Library
  <2> QED
    BY <2>3 DEF more
<1>3. /\ Len(held'.versions) = Len(held.versions) + 1
      /\ Len(held.versions) \in Nat
      /\ \A i \in 1..Len(held.versions) : held'.versions[i] = held.versions[i]
      /\ held'.versions[Len(held.versions) + 1] = text
  BY <1>1, <1>2
<1> QED
  BY <1>2, <1>3 DEF NewestHeld, HeldItems, TextOf, PictureItem

---------------------------------------------------------------------------
(* The dialog.                                                             *)

\* Opening, another version, a replaced library.
LEMMA SelectingAssetInv ==
  ASSUME AssetInv,
         \/ \E item \in HeldItems : OpenAsset(item) \/ SelectVersion(item)
         \/ LibraryReplaced
  PROVE  AssetInv'
<1>1. clicks' \in Nat
  BY ClickNat DEF AssetInv, OpenAsset, SelectVersion, LibraryReplaced
<1>2. detail # NoDetail => detail.draft \in Texts /\ detail.item \in HeldItems
  BY DEF AssetInv, AssetShapes, ItemHeld, Details
<1>3. ASSUME NEW item \in HeldItems, OpenAsset(item)
      PROVE  AssetInv'
  BY <1>1, <1>3, SelectAssetInv, ShownDraftText DEF OpenAsset, AssetInv
<1>4. ASSUME NEW item \in HeldItems, SelectVersion(item)
      PROVE  AssetInv'
  BY <1>1, <1>2, <1>4, SelectAssetInv DEF SelectVersion
<1>5. CASE LibraryReplaced
  BY <1>1, <1>2, <1>5, SelectAssetInv DEF LibraryReplaced
<1> QED
  BY <1>3, <1>4, <1>5

\* The shown text is read, edited or replaced by an answer for it.
LEMMA DraftAssetInv ==
  ASSUME AssetInv, TextRead \/ ToggleEditing \/ (\E b \in BOOLEAN : TypeDetail(b)) \/ AnswerDetail
  PROVE  AssetInv'
<1>1. clicks' \in Nat
  BY ClickNat DEF AssetInv, TextRead, ToggleEditing, TypeDetail, AnswerDetail
<1>2. held' = held /\ detailWork' \in Saves \cup Asks \cup {NoDetailWork}
  BY DEF TextRead, ToggleEditing, TypeDetail, AnswerDetail, AssetInv, AssetShapes
<1>3. CASE detail' \in {detail, NoDetail}
  BY <1>1, <1>2, <1>3, StayAssetInv
<1>4. ASSUME detail # NoDetail, NEW draft \in Texts, detail' \in Details,
             detail'.item = detail.item,
             detail'.draft = draft,
             detail'.text = "read" =>
               draft.asked \in {none, detail.item} \/ draft = TextOf(detail.item)
      PROVE  AssetInv'
  BY <1>1, <1>2, <1>4 DEF AssetInv, AssetShapes, ItemHeld, DraftBelongs, TextOf, HeldItems, NewestHeld
<1>5. CASE TextRead
  <2>1. detail # NoDetail /\ detail \in Details /\ detail.item \in HeldItems
    BY <1>5 DEF TextRead, AssetInv, AssetShapes, ItemHeld
  <2>2. TextOf(detail.item) \in Texts
    BY <2>1, TextOfHeld DEF AssetInv
  <2>3. CASE detail' = [detail EXCEPT !.draft = TextOf(detail.item), !.text = "read"]
    <3>1. /\ detail' \in Details /\ detail'.item = detail.item
          /\ detail'.draft = TextOf(detail.item)
      BY <2>1, <2>2, <2>3 DEF Details
    <3> QED
      BY <1>4, <2>1, <2>2, <3>1
  <2>4. CASE detail' = [detail EXCEPT !.text = "failed"]
    <3>1. /\ detail' \in Details /\ detail'.item = detail.item /\ detail'.draft = detail.draft
          /\ detail.draft \in Texts /\ detail'.text # "read"
      BY <2>1, <2>4 DEF Details
    <3> QED
      BY <1>4, <2>1, <3>1
  <2> QED
    BY <1>5, <2>3, <2>4 DEF TextRead
<1>6. CASE ToggleEditing
  <2>1. detail # NoDetail /\ detail \in Details
    BY <1>6 DEF ToggleEditing, AssetInv, AssetShapes
  <2>2. /\ detail' \in Details /\ detail'.item = detail.item /\ detail'.draft = detail.draft
        /\ detail'.text = detail.text /\ detail.draft \in Texts
    BY <1>6, <2>1 DEF ToggleEditing, Details
  <2> QED
    BY <1>4, <2>1, <2>2 DEF AssetInv, DraftBelongs
<1>7. ASSUME NEW b \in BOOLEAN, TypeDetail(b)
      PROVE  AssetInv'
  <2>1. detail # NoDetail /\ detail \in Details
    BY <1>7 DEF TypeDetail, AssetInv, AssetShapes
  <2>2. 10 + clicks \in Nat
    BY DEF AssetInv, AssetShapes
  <2>3. CASE b
    <3>1. /\ detail' \in Details /\ detail'.item = detail.item /\ detail'.draft = detail.draft
          /\ detail'.text = detail.text /\ detail.draft \in Texts
      BY <1>7, <2>1, <2>3 DEF TypeDetail, Details
    <3> QED
      BY <1>4, <2>1, <3>1 DEF AssetInv, DraftBelongs
  <2>4. CASE ~b
    <3>1. Words(10 + clicks) \in Texts /\ Words(10 + clicks).asked = none
      BY <2>2, WordsText
    <3>2. /\ detail' \in Details /\ detail'.item = detail.item
          /\ detail'.draft = Words(10 + clicks)
      BY <1>7, <2>1, <2>4, <3>1 DEF TypeDetail, Details
    <3> QED
      BY <1>4, <2>1, <3>1, <3>2
  <2> QED
    BY <2>3, <2>4
<1>8. CASE AnswerDetail
  <2>1. CASE detail # NoDetail /\ StillSelected
    <3>1. detail \in Details /\ detailWork \in Asks
      BY <1>8, <2>1 DEF AnswerDetail, AssetInv, AssetShapes, Saves, NoDetailWork
    <3> DEFINE draft == [asked |-> detailWork.item, n |-> detailWork.n]
    <3>2. draft \in Texts /\ draft.asked = detail.item
      BY <2>1, <3>1 DEF Texts, Asks, StillSelected
    <3>3. /\ detail' \in Details /\ detail'.item = detail.item /\ detail'.draft = draft
      BY <1>8, <2>1, <3>1, <3>2 DEF AnswerDetail, Details
    <3> HIDE DEF draft
    <3> QED
      BY <1>4, <2>1, <3>2, <3>3
  <2>2. CASE ~(detail # NoDetail /\ StillSelected)
    BY <1>3, <1>8, <2>2 DEF AnswerDetail
  <2> QED
    BY <2>1, <2>2
<1> QED
  BY <1>5, <1>6, <1>7, <1>8

\* A save or an optimization starts, fails or leaves.
LEMMA WorkAssetInv ==
  ASSUME AssetInv, (\E b \in BOOLEAN : PressSaveAsset(b)) \/ AskDetail \/ DetailFails
  PROVE  AssetInv'
<1>1. clicks' \in Nat
  BY ClickNat DEF AssetInv, PressSaveAsset, AskDetail, DetailFails
<1>2. detail' = detail /\ held' = held
  BY DEF PressSaveAsset, AskDetail, DetailFails
<1>3. detailWork' \in Saves \cup Asks \cup {NoDetailWork}
  <2>1. ASSUME NEW b \in BOOLEAN, PressSaveAsset(b)
        PROVE  detailWork' \in Saves
    <3>1. detail \in Details
      BY <2>1 DEF PressSaveAsset, AssetInv, AssetShapes
    <3> QED
      BY <2>1, <3>1 DEF PressSaveAsset, Details, Saves
  <2>2. CASE AskDetail
    <3>1. detail \in Details /\ clicks \in Nat
      BY <2>2 DEF AskDetail, AssetInv, AssetShapes
    <3> QED
      BY <2>2, <3>1 DEF AskDetail, Details, Asks
  <2>3. CASE DetailFails
    BY <2>3 DEF DetailFails
  <2> QED
    BY <2>1, <2>2, <2>3
<1> QED
  BY <1>1, <1>2, <1>3, StayAssetInv

\* A save's answer shows what was saved, as the text of its item.
LEMMA SaveAnswersAssetInv ==
  ASSUME AssetInv, SaveDetailAnswers
  PROVE  AssetInv'
<1>1. /\ clicks' \in Nat
      /\ detailWork' \in Saves \cup Asks \cup {NoDetailWork}
  BY ClickNat DEF AssetInv, SaveDetailAnswers
<1>2. detailWork \in Saves /\ detailWork.text \in Texts
  BY DEF SaveDetailAnswers, AssetInv, AssetShapes, Asks, NoDetailWork, Saves
<1>3. ShownDraft \in Texts /\ NewestHeld \in Nat
  BY ShownDraftText DEF AssetInv, AssetShapes, Library, NewestHeld
<1>4. CASE /\ held' = [held EXCEPT !.versions = Append(@, detailWork.text)]
           /\ detail' = [Select(1, ShownDraft) EXCEPT !.item = NewestHeld + 1,
                            !.head = NewestHeld + 1, !.draft = detailWork.text, !.text = "read"]
  <2>1. PICK last \in Nat : last = NewestHeld + 1
    BY <1>3
  <2>2. held' \in Library /\ last \in HeldItems' /\ TextOf(last)' = detailWork.text
    BY <1>2, <1>4, <2>1, AppendKeeps DEF AssetInv
  <2>3. detail' = [item |-> last, head |-> last, editing |-> FALSE,
                   dirty |-> FALSE, draft |-> detailWork.text, text |-> "read"]
    BY <1>4, <2>1 DEF Select
  <2>4. detail' \in Details /\ detail'.item = last /\ detail'.draft = detailWork.text
    BY <1>2, <2>3 DEF Details
  <2> QED
    BY <1>1, <2>2, <2>4 DEF AssetInv, AssetShapes, ItemHeld, DraftBelongs, TextOf
<1>5. CASE /\ held' = PromptStored
           /\ detail' = [Select(PictureItem, ShownDraft) EXCEPT !.draft = detailWork.text]
  <2>1. held' \in Library /\ held'.prompt = detailWork.text
    BY <1>2, <1>5 DEF PromptStored, AssetInv, AssetShapes, Library
  <2>2. /\ Select(PictureItem, ShownDraft) \in Details
        /\ Select(PictureItem, ShownDraft).item = PictureItem
    BY <1>3, SelectShape DEF AssetInv, HeldItems, PictureItem
  <2>3. /\ detail' \in Details /\ detail'.item = PictureItem
        /\ detail'.draft = detailWork.text
    BY <1>2, <1>5, <2>2 DEF Details
  <2>4. PictureItem \in HeldItems'
    BY <2>1 DEF PictureItem, HeldItems, NewestHeld, Library
  <2> QED
    BY <1>1, <2>1, <2>3, <2>4 DEF AssetInv, AssetShapes, ItemHeld, DraftBelongs, TextOf
<1>6. CASE UNCHANGED <<held, detail>>
  BY <1>1, <1>6, StayAssetInv
<1> QED
  BY <1>4, <1>5, <1>6 DEF SaveDetailAnswers, VersionSaved, PromptSaved

\* A version saved on another page.
LEMMA SavedElsewhereAssetInv ==
  ASSUME AssetInv, SavedElsewhere
  PROVE  AssetInv'
<1>1. clicks' \in Nat
  BY ClickNat DEF AssetInv, SavedElsewhere
<1>2. Words(10 + clicks) \in Texts
  BY WordsText DEF AssetInv, AssetShapes
<1>3. held' = [held EXCEPT !.versions = Append(@, Words(10 + clicks))]
  BY DEF SavedElsewhere
<1>4. /\ held' \in Library
      /\ \A item \in HeldItems : item \in HeldItems' /\ TextOf(item)' = TextOf(item)
  <2>1. NewestHeld + 1 \in Nat
    BY DEF AssetInv, AssetShapes, Library, NewestHeld
  <2> QED
    BY <1>2, <1>3, <2>1, AppendKeeps DEF AssetInv
<1>5. detail' = detail /\ detailWork' = detailWork
  BY DEF SavedElsewhere
<1> QED
  BY <1>1, <1>4, <1>5 DEF AssetInv, AssetShapes, ItemHeld, DraftBelongs, TextOf

\* The page around the dialog at most closes it.
LEMMA PageAssetInv ==
  ASSUME AssetInv,
         \/ CloseDetail \/ RefreshSources \/ PickLands \/ PickFails
         \/ \E p \in AssetProjects, s \in {"project", "unassigned"} : GoTo(p, s)
         \/ \E r \in DOMAIN sourceReads : SourcesAnswer(r)
         \/ \E p \in {place.project, none} : Pick(p)
  PROVE  AssetInv'
<1>1. clicks' \in Nat
  BY ClickNat
  DEF AssetInv, CloseDetail, RefreshSources, PickLands, PickFails, GoTo, SourcesAnswer, Pick
<1>2. /\ detail' \in {detail, NoDetail} /\ held' = held
      /\ detailWork' = detailWork
  BY DEF CloseDetail, RefreshSources, PickLands, PickFails, GoTo, SourcesAnswer, Pick, dialogVars
<1> QED
  BY <1>1, <1>2, StayAssetInv DEF AssetInv, AssetShapes

---------------------------------------------------------------------------
\* The invariant is inductive.
LEMMA NextAssetInv == AssetInv /\ [AssetNext]_assetVars => AssetInv'
<1> SUFFICES ASSUME AssetInv, [AssetNext]_assetVars PROVE AssetInv'
  OBVIOUS
<1>1. CASE UNCHANGED assetVars
  <2>1. UNCHANGED <<held, detail, detailWork, clicks>>
    BY <1>1 DEF assetVars
  <2> QED
    BY <2>1, StayAssetInv DEF AssetInv, AssetShapes
<1>2. CASE \/ \E item \in HeldItems : OpenAsset(item) \/ SelectVersion(item)
           \/ LibraryReplaced
  BY <1>2, SelectingAssetInv
<1>3. CASE TextRead \/ ToggleEditing \/ (\E b \in BOOLEAN : TypeDetail(b)) \/ AnswerDetail
  BY <1>3, DraftAssetInv
<1>4. CASE (\E b \in BOOLEAN : PressSaveAsset(b)) \/ AskDetail \/ DetailFails
  BY <1>4, WorkAssetInv
<1>5. CASE SaveDetailAnswers
  BY <1>5, SaveAnswersAssetInv
<1>6. CASE SavedElsewhere
  BY <1>6, SavedElsewhereAssetInv
<1>7. CASE \/ CloseDetail \/ RefreshSources \/ PickLands \/ PickFails
           \/ \E p \in AssetProjects, s \in {"project", "unassigned"} : GoTo(p, s)
           \/ \E r \in DOMAIN sourceReads : SourcesAnswer(r)
           \/ \E p \in {place.project, none} : Pick(p)
  BY <1>7, PageAssetInv
<1> QED
  BY <1>1, <1>2, <1>3, <1>4, <1>5, <1>6, <1>7 DEF AssetNext

\* The invariant holds of every behaviour.
THEOREM AssetInvariant == AssetSpec => []AssetInv
<1>1. AssetInit /\ WindowInit => AssetInv
  BY InitAssetInv
<1>2. AssetInv /\ [AssetNext]_assetVars => AssetInv'
  BY NextAssetInv
<1> QED
  BY <1>1, <1>2, PTL DEF AssetSpec

\* An answer of the model is never offered for saving as the text of an item it
\* was not asked for, however selections, saves and answers follow each other.
THEOREM AnswersStay == AssetSpec => []AnswerStaysWithVersion
<1>1. AssetInv => AnswerStaysWithVersion
  BY DEF AssetInv, DraftBelongs, AnswerStaysWithVersion
<1> QED
  BY <1>1, AssetInvariant, PTL

---------------------------------------------------------------------------
(* Types of the asset centre.                                              *)

\* The page asked for an item that is there, and a dialog opened over versions
\* that are.
DialogTyped ==
  /\ NewestHeld >= 1
  /\ preview \in HeldItems \cup {none}
  /\ detail # NoDetail => detail.head \in 1..NewestHeld

\* Novels are listed, and read, of a project or of none.
SourcesTyped ==
  /\ place \in [project : AssetProjects, scope : {"project", "unassigned"}]
  /\ sources \in AssetProjects \cup {none}
  /\ sourceReads \in Seq(AssetProjects \cup {none})

\* A selected item is shown over the newest version.
LEMMA SelectHead ==
  ASSUME NEW item, NEW draft
  PROVE  Select(item, draft) # NoDetail => Select(item, draft).head = NewestHeld
  BY DEF Select

\* Over the same versions, what is selected or stays is typed.
LEMMA SameVersionsTyped ==
  ASSUME AssetInv, DialogTyped, held'.versions = held.versions,
         preview' \in HeldItems \cup {none, preview},
         detail' # NoDetail =>
           detail'.head = NewestHeld \/ (detail # NoDetail /\ detail'.head = detail.head)
  PROVE  DialogTyped'
<1>1. NewestHeld \in Nat /\ NewestHeld' = NewestHeld /\ HeldItems' = HeldItems
  BY DEF AssetInv, AssetShapes, Library, NewestHeld, HeldItems
<1> QED
  BY <1>1 DEF DialogTyped

\* With a version more, what was typed is, and so is a dialog over the new one.
LEMMA MoreVersionsTyped ==
  ASSUME AssetInv, DialogTyped, NEW text \in Texts,
         held' = [held EXCEPT !.versions = Append(@, text)], preview' = preview,
         detail' = detail \/ detail'.head = NewestHeld + 1
  PROVE  DialogTyped'
<1>1. PICK last \in Nat : last = NewestHeld + 1
  BY DEF AssetInv, AssetShapes, Library, NewestHeld
<1>2. NewestHeld \in Nat /\ NewestHeld' = NewestHeld + 1
  <2>1. PICK more : more = Append(held.versions, text)
    OBVIOUS
  <2>2. held.versions \in Seq(Texts)
    BY DEF AssetInv, AssetShapes, Library
  <2>3. Len(more) = Len(held.versions) + 1 /\ Len(held.versions) \in Nat
    BY <2>1, <2>2
  <2>4. held' = [held EXCEPT !.versions = more]
    BY <2>1
  <2>5. held'.versions = more
    BY <2>4 DEF AssetInv, AssetShapes, Library
  <2> QED BY <2>3, <2>5 DEF NewestHeld
<1>3. HeldItems \subseteq HeldItems' /\ 1..NewestHeld \subseteq (1..NewestHeld)'
  BY <1>2 DEF HeldItems
<1>4. detail' # NoDetail => detail'.head \in (1..NewestHeld)'
  BY <1>2, <1>3 DEF DialogTyped
<1> QED
  BY <1>2, <1>3, <1>4 DEF DialogTyped

\* Every step keeps the dialog typed.
LEMMA NextDialogTyped ==
  ASSUME AssetInv, DialogTyped, [AssetNext]_assetVars
  PROVE  DialogTyped'
<1>1. /\ detail = NoDetail \/ detail \in Details
      /\ NoDetail \notin Details
  BY NoDetailApart DEF AssetInv, AssetShapes
<1>2. ASSUME UNCHANGED <<held, detail>>, preview' \in {preview, none} PROVE DialogTyped'
  BY <1>2, SameVersionsTyped
<1>3. ASSUME NEW item, NEW draft, detail' = Select(item, draft), held' = held,
             preview' \in HeldItems \cup {none, preview}
      PROVE  DialogTyped'
  BY <1>3, SelectHead, SameVersionsTyped
<1>4. CASE UNCHANGED assetVars
  BY <1>2, <1>4 DEF assetVars
<1>5. ASSUME NEW item \in HeldItems, OpenAsset(item) PROVE DialogTyped'
  BY <1>3, <1>5 DEF OpenAsset
<1>6. ASSUME NEW item \in HeldItems, SelectVersion(item) PROVE DialogTyped'
  BY <1>3, <1>6 DEF SelectVersion
<1>7. CASE LibraryReplaced
  BY <1>3, <1>7 DEF LibraryReplaced
<1>8. CASE TextRead \/ ToggleEditing \/ (\E b \in BOOLEAN : TypeDetail(b)) \/ AnswerDetail
  <2>1. held' = held /\ preview' = preview
    BY <1>8 DEF TextRead, ToggleEditing, TypeDetail, AnswerDetail
  <2>2. detail' # NoDetail => detail # NoDetail /\ detail'.head = detail.head
    <3>1. detail' = detail \/ detail # NoDetail
      BY <1>8 DEF TextRead, ToggleEditing, TypeDetail, AnswerDetail
    <3>2. CASE detail # NoDetail /\ (TextRead \/ ToggleEditing)
      BY <1>1, <3>2 DEF TextRead, ToggleEditing, Details
    <3>3. CASE detail # NoDetail /\ \E b \in BOOLEAN : TypeDetail(b)
      BY <1>1, <3>3 DEF TypeDetail, Details
    <3>4. CASE detail # NoDetail /\ AnswerDetail
      BY <1>1, <3>4 DEF AnswerDetail, Details
    <3>5. CASE detail = NoDetail /\ detail' = detail
      BY <3>5
    <3> QED BY <1>8, <3>1, <3>2, <3>3, <3>4, <3>5
  <2> QED BY <2>1, <2>2, SameVersionsTyped
<1>9. CASE (\E b \in BOOLEAN : PressSaveAsset(b)) \/ AskDetail \/ DetailFails
  BY <1>2, <1>9 DEF PressSaveAsset, AskDetail, DetailFails
<1>10. CASE \/ RefreshSources \/ PickLands \/ PickFails
            \/ \E r \in DOMAIN sourceReads : SourcesAnswer(r)
            \/ \E p \in {place.project, none} : Pick(p)
  BY <1>2, <1>10 DEF RefreshSources, PickLands, PickFails, SourcesAnswer, Pick, dialogVars
<1>11. CASE CloseDetail \/ \E p \in AssetProjects, s \in {"project", "unassigned"} : GoTo(p, s)
  <2>1. held' = held /\ preview' = none /\ detail' \in {detail, NoDetail}
    BY <1>11 DEF CloseDetail, GoTo
  <2> QED BY <2>1, SameVersionsTyped
<1>12. CASE SavedElsewhere
  <2>1. Words(10 + clicks) \in Texts
    BY WordsText DEF AssetInv, AssetShapes
  <2>2. /\ held' = [held EXCEPT !.versions = Append(@, Words(10 + clicks))]
        /\ preview' = preview /\ detail' = detail
    BY <1>12 DEF SavedElsewhere
  <2> QED BY <2>1, <2>2, MoreVersionsTyped
<1>13. CASE SaveDetailAnswers
  <2>1. detailWork \in Saves /\ detailWork.text \in Texts /\ preview' = preview
    BY <1>13 DEF SaveDetailAnswers, AssetInv, AssetShapes, Asks, NoDetailWork, Saves
  <2>2. CASE UNCHANGED <<held, detail>>
    BY <1>2, <2>1, <2>2
  <2>3. CASE /\ held' = [held EXCEPT !.versions = Append(@, detailWork.text)]
             /\ detail' = [Select(1, ShownDraft) EXCEPT !.item = NewestHeld + 1,
                            !.head = NewestHeld + 1, !.draft = detailWork.text, !.text = "read"]
    <3>1. detail'.head = NewestHeld + 1
      BY <2>3 DEF Select
    <3> QED BY <2>1, <2>3, <3>1, MoreVersionsTyped
  <2>4. CASE /\ held' = PromptStored
             /\ detail' = [Select(PictureItem, ShownDraft) EXCEPT !.draft = detailWork.text]
    <3>1. detail'.head = NewestHeld
      BY <2>4 DEF Select
    <3>2. held'.versions = held.versions
      BY <2>4 DEF PromptStored, AssetInv, AssetShapes, Library
    <3> QED BY <2>1, <3>1, <3>2, SameVersionsTyped
  <2> QED BY <1>13, <2>2, <2>3, <2>4 DEF SaveDetailAnswers, VersionSaved, PromptSaved
<1> QED
  BY <1>4, <1>5, <1>6, <1>7, <1>8, <1>9, <1>10, <1>11, <1>12, <1>13 DEF AssetNext

\* A read more, or a read that is over.
LEMMA NextSourcesTyped ==
  ASSUME SourcesTyped, [AssetNext]_assetVars
  PROVE  SourcesTyped'
<1>1. /\ Len(sourceReads) \in Nat /\ DOMAIN sourceReads = 1..Len(sourceReads)
      /\ \A r \in DOMAIN sourceReads : sourceReads[r] \in AssetProjects \cup {none}
      /\ place.project \in AssetProjects
  BY DEF SourcesTyped
<1>2. ASSUME NEW project \in AssetProjects \cup {none}, LoadSources(project),
             place' \in [project : AssetProjects, scope : {"project", "unassigned"}]
      PROVE  SourcesTyped'
  <2>1. PICK n \in Nat : n = Len(sourceReads) + 1
    BY <1>1
  <2>2. 1..Len(sourceReads) \cup {Len(sourceReads) + 1} = 1..n
    BY <1>1, <2>1
  <2>3. sourceReads' \in [1..n -> AssetProjects \cup {none}]
    BY <1>1, <1>2, <2>2 DEF LoadSources
  <2>4. sourceReads' \in Seq(AssetProjects \cup {none})
    BY <2>1, <2>3
  <2> QED BY <1>2, <2>4 DEF LoadSources, SourcesTyped
<1>3. CASE UNCHANGED <<place, sources, sourceReads>>
  BY <1>3 DEF SourcesTyped
<1>4. ASSUME NEW p \in AssetProjects, NEW s \in {"project", "unassigned"}, GoTo(p, s)
      PROVE  SourcesTyped'
  BY <1>2, <1>4 DEF GoTo
<1>5. CASE RefreshSources
  BY <1>1, <1>2, <1>5 DEF RefreshSources, SourcesTyped
<1>6. ASSUME NEW r \in DOMAIN sourceReads, SourcesAnswer(r) PROVE SourcesTyped'
  <2>1. sourceReads' \in Seq(AssetProjects \cup {none})
    BY <1>1, <1>6 DEF SourcesAnswer, SourcesTyped
  <2>2. sources' \in AssetProjects \cup {none} /\ place' = place
    BY <1>1, <1>6 DEF SourcesAnswer, SourcesTyped
  <2> QED BY <2>1, <2>2 DEF SourcesTyped
<1>7. CASE \/ UNCHANGED assetVars \/ PickLands \/ PickFails
           \/ \E p \in {place.project, none} : Pick(p)
  BY <1>3, <1>7 DEF assetVars, PickLands, PickFails, Pick
<1>8. CASE \/ \E item \in HeldItems : OpenAsset(item) \/ SelectVersion(item)
           \/ TextRead \/ LibraryReplaced \/ CloseDetail \/ ToggleEditing
           \/ \E b \in BOOLEAN : TypeDetail(b) \/ PressSaveAsset(b)
           \/ SaveDetailAnswers \/ SavedElsewhere \/ AskDetail \/ AnswerDetail \/ DetailFails
  BY <1>3, <1>8 DEF OpenAsset, SelectVersion, TextRead, LibraryReplaced, CloseDetail, ToggleEditing,
                    TypeDetail, PressSaveAsset, SaveDetailAnswers, SavedElsewhere, AskDetail,
                    AnswerDetail, DetailFails, pageVars
<1> QED
  BY <1>4, <1>5, <1>6, <1>7, <1>8 DEF AssetNext

\* The dialog starts shut, and the first project's novels are being read.
LEMMA InitAssetTyped == AssetInit => DialogTyped /\ SourcesTyped
<1> SUFFICES ASSUME AssetInit PROVE DialogTyped /\ SourcesTyped
  OBVIOUS
<1>1. held.versions = <<Words(1), Words(2)>> /\ preview = none /\ detail = NoDetail
  BY DEF AssetInit
<1>2. DialogTyped
  BY <1>1 DEF DialogTyped, NewestHeld
<1>3. sourceReads = <<place.project>> /\ place.project \in AssetProjects /\ sources = none
      /\ place \in [project : AssetProjects, scope : {"project", "unassigned"}]
  BY DEF AssetInit
<1>4. SourcesTyped
  BY <1>3 DEF SourcesTyped
<1> QED BY <1>2, <1>4

\* The asset centre, its dialog and its lists keep their types.
THEOREM AssetsAreTyped == AssetSpec => []AssetTypeOK
<1>1. AssetInit => DialogTyped /\ SourcesTyped
  BY InitAssetTyped
<1>2. AssetInv /\ DialogTyped /\ SourcesTyped /\ [AssetNext]_assetVars => (DialogTyped /\ SourcesTyped)'
  BY NextDialogTyped, NextSourcesTyped
<1>3. AssetInv /\ DialogTyped /\ SourcesTyped => AssetTypeOK
  <2> SUFFICES ASSUME AssetInv, DialogTyped, SourcesTyped PROVE AssetTypeOK
    OBVIOUS
  <2>1. detail.item \in HeldItems \cup {none}
    BY DEF AssetInv, ItemHeld, NoDetail
  <2>2. detail # NoDetail => detail.text \in {"asked", "read", "failed"}
    BY DEF AssetInv, AssetShapes, Details
  <2> QED BY <2>1, <2>2 DEF AssetTypeOK, DialogTyped, SourcesTyped
<1> QED BY <1>1, <1>2, <1>3, AssetInvariant, PTL DEF AssetSpec

---------------------------------------------------------------------------
(* Settings.                                                               *)

\* The shapes of the state: the fields that the code declares, and the types of
\* those the argument compares.
IsPage(p) ==
  /\ p = [open |-> p.open, loaded |-> p.loaded, failed |-> p.failed, request |-> p.request,
          profiles |-> p.profiles, active |-> p.active, selected |-> p.selected,
          dirty |-> p.dirty, removed |-> p.removed, busy |-> p.busy, edits |-> p.edits,
          behind |-> p.behind]
  /\ p.request \in Nat /\ p.edits \in Nat
  /\ p.loaded \in BOOLEAN /\ p.dirty \in BOOLEAN /\ p.removed \in BOOLEAN /\ p.behind \in BOOLEAN
IsRead(r) ==
  /\ r = [request |-> r.request, read |-> r.read, behind |-> r.behind]
  /\ r.request \in Nat /\ r.behind \in BOOLEAN
IsSave(s) ==
  /\ s = [phase |-> s.phase, row |-> s.row, edits |-> s.edits, removed |-> s.removed,
          back |-> s.back]
  /\ s.phase \in {"asked", "written"}
  /\ s.edits \in Nat

SettingsShapes ==
  /\ IsPage(settingsPage)
  /\ \A r \in reads : IsRead(r)
  /\ saving = NoSave \/ IsSave(saving)

\* A request is asked once, and its answer is awaited while the form is hidden.
ReadsAwaited ==
  /\ \A r \in reads : r.request <= settingsPage.request
  /\ \A r, s \in reads : r.request = s.request => r = s
  /\ \A r \in reads : r.request = settingsPage.request => ~settingsPage.loaded

\* What the form is about to show is still what is stored.
ReadsCurrent ==
  \A r \in reads :
    r.request = settingsPage.request /\ r.read # none /\ ~r.behind =>
      r.read.profiles = settings.profiles /\ saving.phase # "asked"

\* A form that was not read behind a save.
Faithful == settingsPage.loaded /\ ~settingsPage.behind
CleanIsStored == Faithful /\ ~HasChanges => settingsPage.profiles = settings.profiles

\* A save on its way carries the form of its click: the form still looks like it
\* until the next edit, and is dirty after that until the row has been written.
SaveCarriesForm ==
  saving.phase # "none" =>
    /\ saving.edits <= settingsPage.edits
    /\ Faithful /\ settingsPage.edits = saving.edits =>
         settingsPage.profiles = saving.row.profiles
    /\ saving.phase = "asked" /\ Faithful /\ ~HasChanges => settingsPage.edits = saving.edits
    /\ saving.phase = "written" => settings = saving.row

SettingsInv == SettingsShapes /\ ReadsAwaited /\ ReadsCurrent /\ CleanIsStored /\ SaveCarriesForm

---------------------------------------------------------------------------
\* No save is under way exactly in the phase "none".
LEMMA SaveUnderWay ==
  ASSUME SettingsShapes
  PROVE  saving.phase # "none" => IsSave(saving)
  BY DEF SettingsShapes, NoSave, IsSave

\* The initial states satisfy the invariant.
LEMMA InitSettingsInv == SettingsInit => SettingsInv
<1> SUFFICES ASSUME SettingsInit PROVE SettingsInv
  OBVIOUS
<1>1. IsPage(settingsPage) /\ ~settingsPage.loaded
  BY DEF SettingsInit, IsPage
<1>2. reads = {} /\ saving = NoSave /\ saving.phase = "none"
  BY DEF SettingsInit, NoSave
<1> QED
  BY <1>1, <1>2
  DEF SettingsInv, SettingsShapes, ReadsAwaited, ReadsCurrent, CleanIsStored, SaveCarriesForm, Faithful

---------------------------------------------------------------------------
(* Opening, reading and closing.                                           *)

\* A new request hides the form.
LEMMA LoadSettingsInv ==
  ASSUME SettingsInv, OpenPage \/ RetryLoad
  PROVE  SettingsInv'
<1> USE DEF SettingsInv, SettingsShapes
<1>1. /\ IsPage(settingsPage') /\ ~settingsPage'.loaded
      /\ settingsPage'.request = settingsPage.request + 1
      /\ settingsPage'.edits = settingsPage.edits
  <2>0. settingsPage.request + 1 \in Nat
    BY DEF IsPage
  <2>1. CASE OpenPage
    <3>1. /\ settingsPage' = LoadForm([settingsPage EXCEPT !.open = TRUE, !.profiles = <<>>,
                                                  !.dirty = FALSE, !.removed = FALSE])
      BY <2>1 DEF OpenPage
    <3>2. PICK page : /\ page = [settingsPage EXCEPT !.open = TRUE, !.profiles = <<>>,
                                                  !.dirty = FALSE, !.removed = FALSE]
                      /\ settingsPage' = LoadForm(page)
      BY <3>1
    <3>3. IsPage(page) /\ page.request = settingsPage.request /\ page.edits = settingsPage.edits
      BY <3>2 DEF IsPage
    <3> QED
      BY <2>0, <3>2, <3>3 DEF LoadForm, IsPage
  <2>2. CASE RetryLoad
    BY <2>0, <2>2 DEF RetryLoad, LoadForm, IsPage
  <2> QED
    BY <2>1, <2>2
<1>2. PICK new : new = [request |-> settingsPage'.request, read |-> none, behind |-> FALSE]
  OBVIOUS
<1>3. reads' = reads \cup {new}
  BY <1>2 DEF OpenPage, RetryLoad, Reading
<1>4. IsRead(new) /\ new.request = settingsPage'.request /\ new.read = none
  BY <1>1, <1>2 DEF IsRead, IsPage
<1>5. \A r \in reads : r.request \in Nat /\ r.request <= settingsPage.request
  BY DEF IsRead, ReadsAwaited
<1>6. UNCHANGED <<settings, saving>>
  BY DEF OpenPage, RetryLoad
<1>7. settingsPage.request \in Nat
  BY DEF IsPage
<1>8. \A r \in reads : r.request # settingsPage'.request
  BY <1>1, <1>5, <1>7
<1>9. (\A r \in reads : IsRead(r))'
  BY <1>3, <1>4
<1>10. ReadsAwaited'
  BY <1>1, <1>3, <1>4, <1>5, <1>7, <1>8 DEF ReadsAwaited
<1>11. ReadsCurrent'
  BY <1>3, <1>4, <1>8 DEF ReadsCurrent
<1>12. CleanIsStored' /\ SaveCarriesForm'
  BY <1>1, <1>6 DEF CleanIsStored, SaveCarriesForm, Faithful
<1> QED
  BY <1>1, <1>6, <1>9, <1>10, <1>11, <1>12

\* What leaves requests, edits and the form alone keeps the invariant.
LEMMA AsideSettingsInv ==
  ASSUME SettingsInv, IsPage(settingsPage'),
         settingsPage'.request = settingsPage.request,
         settingsPage'.loaded = settingsPage.loaded,
         settingsPage'.behind = settingsPage.behind,
         settingsPage'.profiles = settingsPage.profiles,
         settingsPage'.edits = settingsPage.edits,
         settingsPage'.dirty = settingsPage.dirty,
         settingsPage'.removed = settingsPage.removed,
         reads' \subseteq reads,
         settings' = settings,
         saving' \in {saving, NoSave}
  PROVE  SettingsInv'
<1>1. NoSave.phase = "none"
  BY DEF NoSave
<1>2. SettingsShapes'
  BY DEF SettingsInv, SettingsShapes
<1>3. ReadsAwaited'
  BY DEF SettingsInv, ReadsAwaited
<1>4. ReadsCurrent'
  BY <1>1 DEF SettingsInv, ReadsCurrent
<1>5. CleanIsStored'
  BY DEF SettingsInv, CleanIsStored, Faithful, HasChanges
<1>6. SaveCarriesForm'
  BY <1>1 DEF SettingsInv, SaveCarriesForm, Faithful, HasChanges
<1> QED
  BY <1>2, <1>3, <1>4, <1>5, <1>6 DEF SettingsInv

\* Closing, another selected profile, a failed read or save.
LEMMA QuietSettingsInv ==
  ASSUME SettingsInv,
         \/ ClosePage \/ SaveFails
         \/ \E r \in reads : ReadFails(r)
         \/ \E id \in ProfileIds(settingsPage.profiles) : SelectProfile(id)
  PROVE  SettingsInv'
<1>1. IsPage(settingsPage)
  BY DEF SettingsInv, SettingsShapes
<1>2. CASE ClosePage
  BY <1>1, <1>2, AsideSettingsInv DEF ClosePage, IsPage
<1>3. CASE SaveFails
  BY <1>1, <1>3, AsideSettingsInv DEF SaveFails, IsPage
<1>4. CASE \E r \in reads : ReadFails(r)
  BY <1>1, <1>4, AsideSettingsInv DEF ReadFails, IsPage
<1>5. CASE \E id \in ProfileIds(settingsPage.profiles) : SelectProfile(id)
  BY <1>1, <1>5, AsideSettingsInv DEF SelectProfile, IsPage
<1> QED
  BY <1>2, <1>3, <1>4, <1>5

\* The row is read, and whether a save is about to write it.
LEMMA RowReadSettingsInv ==
  ASSUME SettingsInv, NEW r \in reads, RowRead(r)
  PROVE  SettingsInv'
<1>1. PICK behind \in BOOLEAN : behind = (saving.phase = "asked")
  OBVIOUS
<1>2. PICK read : /\ read = [r EXCEPT !.read = settings, !.behind = behind]
                  /\ reads' = (reads \ {r}) \cup {read}
                  /\ UNCHANGED <<settings, settingsPage, saving>>
  BY <1>1 DEF RowRead
<1>3. /\ IsRead(read) /\ read.request = r.request
      /\ read.read = settings /\ (read.behind <=> saving.phase = "asked")
  <2>1. r = [request |-> r.request, read |-> r.read, behind |-> r.behind] /\ r.request \in Nat
    BY DEF SettingsInv, SettingsShapes, IsRead
  <2>2. read = [request |-> r.request, read |-> settings, behind |-> behind]
    BY <1>2, <2>1
  <2>3. read.request = r.request /\ read.read = settings /\ read.behind = behind
    BY <2>2
  <2>4. IsRead(read)
    BY <2>1, <2>2, <2>3 DEF IsRead
  <2> QED
    BY <1>1, <2>3, <2>4
<1>4. SettingsShapes'
  BY <1>2, <1>3 DEF SettingsInv, SettingsShapes
<1>5. ReadsAwaited'
  <2>1. \A s \in reads' : (s \in reads /\ s # r) \/ s = read
    BY <1>2
  <2>2. \A s \in reads : s.request = r.request => s = r
    BY DEF SettingsInv, ReadsAwaited
  <2>3. read.request = r.request
    BY <1>3
  <2>4. settingsPage' = settingsPage
    BY <1>2
  <2>5. \A s, t \in reads' : s.request = t.request => s = t
    BY <2>1, <2>2, <2>3 DEF SettingsInv, ReadsAwaited
  <2>6. \A s \in reads' : s.request <= settingsPage.request
                       /\ (s.request = settingsPage.request => ~settingsPage.loaded)
    BY <2>1, <2>3 DEF SettingsInv, ReadsAwaited
  <2> QED
    BY <2>4, <2>5, <2>6 DEF ReadsAwaited
<1>6. ReadsCurrent'
  BY <1>2, <1>3 DEF SettingsInv, ReadsCurrent
<1>7. CleanIsStored' /\ SaveCarriesForm'
  BY <1>2 DEF SettingsInv, CleanIsStored, SaveCarriesForm, Faithful, HasChanges
<1> QED
  BY <1>4, <1>5, <1>6, <1>7 DEF SettingsInv

\* A read that is still awaited fills the form with what is stored, or says that
\* it was read behind a save.
LEMMA FormLoadedSettingsInv ==
  ASSUME SettingsInv, NEW r \in reads, FormLoaded(r)
  PROVE  SettingsInv'
<1>1. reads' = reads \ {r} /\ UNCHANGED <<settings, saving>> /\ r.read # none
  BY DEF FormLoaded
<1>2. CASE r.request # settingsPage.request
  BY <1>1, <1>2, AsideSettingsInv DEF FormLoaded, SettingsInv, SettingsShapes
<1>3. CASE r.request = settingsPage.request
  <2>1. PICK chosen : settingsPage' = [settingsPage EXCEPT !.profiles = r.read.profiles,
                        !.active = r.read.active, !.selected = chosen,
                        !.dirty = FALSE, !.loaded = TRUE, !.behind = r.behind]
    BY <1>3 DEF FormLoaded
  <2>2. /\ IsPage(settingsPage')
        /\ settingsPage'.request = settingsPage.request
        /\ settingsPage'.profiles = r.read.profiles
        /\ settingsPage'.behind = r.behind
        /\ settingsPage'.edits = settingsPage.edits
    BY <2>1 DEF SettingsInv, SettingsShapes, IsPage, IsRead
  <2>3. ~r.behind => r.read.profiles = settings.profiles /\ saving.phase # "asked"
    BY <1>1, <1>3 DEF SettingsInv, ReadsCurrent
  <2>4. \A s \in reads' : s.request # settingsPage'.request
    BY <1>1, <1>3, <2>2 DEF SettingsInv, ReadsAwaited
  <2>5. SettingsShapes'
    BY <1>1, <2>2 DEF SettingsInv, SettingsShapes
  <2>6. ReadsAwaited'
    BY <1>1, <2>2, <2>4 DEF SettingsInv, ReadsAwaited
  <2>7. ReadsCurrent'
    BY <2>4 DEF ReadsCurrent
  <2>8. CleanIsStored'
    BY <1>1, <2>2, <2>3 DEF CleanIsStored, Faithful
  <2>9. SaveCarriesForm'
    <3>1. saving.phase # "none" => saving.phase \in {"asked", "written"}
      BY SaveUnderWay DEF SettingsInv, IsSave
    <3> QED
      BY <1>1, <2>2, <2>3, <3>1 DEF SettingsInv, SaveCarriesForm, Faithful
  <2> QED
    BY <2>5, <2>6, <2>7, <2>8, <2>9 DEF SettingsInv
<1> QED
  BY <1>2, <1>3

---------------------------------------------------------------------------
(* Editing and saving.                                                     *)

\* An edit makes the form dirty and is in no save.
LEMMA EditSettingsInv ==
  ASSUME SettingsInv,
         \/ AddConfig \/ UpdateSelected
         \/ \E id \in ProfileIds(settingsPage.profiles) : RemoveConfig(id)
  PROVE  SettingsInv'
<1>1. /\ IsPage(settingsPage') /\ settingsPage'.dirty
      /\ settingsPage'.edits = settingsPage.edits + 1
      /\ settingsPage'.request = settingsPage.request
      /\ settingsPage'.loaded = settingsPage.loaded
      /\ settingsPage'.behind = settingsPage.behind
  <2>1. IsPage(settingsPage)
    BY DEF SettingsInv, SettingsShapes
  <2>2. settingsPage.edits + 1 \in Nat
    BY <2>1 DEF IsPage
  <2>3. CASE AddConfig
    <3>1. PICK profiles, id : settingsPage' = Marked([settingsPage EXCEPT !.selected = id,
                                                        !.profiles = profiles])
      BY <2>3 DEF AddConfig
    <3> QED
      BY <2>1, <2>2, <3>1 DEF Marked, IsPage
  <2>4. CASE UpdateSelected
    <3>1. PICK profiles : settingsPage' = Marked([settingsPage EXCEPT !.profiles = profiles])
      BY <2>4 DEF UpdateSelected
    <3> QED
      BY <2>1, <2>2, <3>1 DEF Marked, IsPage
  <2>5. CASE \E id \in ProfileIds(settingsPage.profiles) : RemoveConfig(id)
    <3>1. PICK profiles, active, selected :
            settingsPage' = Marked([settingsPage EXCEPT !.profiles = profiles, !.removed = TRUE,
                                      !.active = active, !.selected = selected])
      BY <2>5 DEF RemoveConfig
    <3> QED
      BY <2>1, <2>2, <3>1 DEF Marked, IsPage
  <2> QED
    BY <2>3, <2>4, <2>5
<1>2. UNCHANGED <<settings, reads, saving>>
  BY DEF AddConfig, UpdateSelected, RemoveConfig
<1>3. settingsPage.edits \in Nat
  BY DEF SettingsInv, SettingsShapes, IsPage
<1>4. SettingsShapes'
  BY <1>1, <1>2 DEF SettingsInv, SettingsShapes
<1>5. ReadsAwaited' /\ ReadsCurrent'
  BY <1>1, <1>2 DEF SettingsInv, ReadsAwaited, ReadsCurrent
<1>6. CleanIsStored'
  BY <1>1 DEF CleanIsStored, HasChanges
<1>7. SaveCarriesForm'
  <2>1. saving.phase # "none" => saving.edits \in Nat
    BY SaveUnderWay DEF SettingsInv, IsSave
  <2> QED
    BY <1>1, <1>2, <1>3, <2>1 DEF SettingsInv, SaveCarriesForm, HasChanges
<1> QED
  BY <1>4, <1>5, <1>6, <1>7 DEF SettingsInv

\* A save carries the form that is on screen.
LEMMA PersistSettingsInv ==
  ASSUME SettingsInv, NEW active, NEW back, FormShown, Persist(active, back),
         UNCHANGED <<settings, reads>>
  PROVE  SettingsInv'
<1>1. /\ IsPage(settingsPage')
      /\ settingsPage'.request = settingsPage.request
      /\ settingsPage'.loaded = settingsPage.loaded
      /\ settingsPage'.behind = settingsPage.behind
      /\ settingsPage'.profiles = settingsPage.profiles
      /\ settingsPage'.edits = settingsPage.edits
      /\ settingsPage'.dirty = settingsPage.dirty
      /\ settingsPage'.removed = settingsPage.removed
  BY DEF SettingsInv, SettingsShapes, IsPage, Persist
<1>2. /\ IsSave(saving') /\ saving'.phase = "asked"
      /\ saving'.edits = settingsPage.edits
      /\ saving'.row.profiles = settingsPage.profiles
  BY DEF SettingsInv, SettingsShapes, IsPage, IsSave, Persist
<1>3. \A r \in reads : r.request # settingsPage.request
  BY DEF SettingsInv, ReadsAwaited, FormShown
<1>4. SettingsShapes'
  BY <1>1, <1>2 DEF SettingsInv, SettingsShapes
<1>5. ReadsAwaited' /\ ReadsCurrent'
  BY <1>1, <1>3 DEF SettingsInv, ReadsAwaited, ReadsCurrent
<1>6. CleanIsStored'
  BY <1>1 DEF SettingsInv, CleanIsStored, Faithful, HasChanges
<1>7. SaveCarriesForm'
  <2>1. settingsPage.edits \in Nat
    BY DEF SettingsInv, SettingsShapes, IsPage
  <2> QED
    BY <1>1, <1>2, <2>1 DEF SaveCarriesForm
<1> QED
  BY <1>4, <1>5, <1>6, <1>7 DEF SettingsInv

\* The row is written.
LEMMA RowWrittenSettingsInv ==
  ASSUME SettingsInv, RowWritten
  PROVE  SettingsInv'
<1>1. /\ saving.phase = "asked" /\ settings' = saving.row
      /\ UNCHANGED <<settingsPage, reads>>
  BY DEF RowWritten
<1>2. IsSave(saving)
  BY <1>1, SaveUnderWay DEF SettingsInv
<1>3. /\ IsSave(saving') /\ saving'.phase = "written" /\ saving'.row = saving.row
      /\ saving'.edits = saving.edits
  BY <1>2 DEF RowWritten, IsSave
<1>4. SettingsShapes'
  BY <1>1, <1>3 DEF SettingsInv, SettingsShapes
<1>5. ReadsAwaited'
  BY <1>1 DEF SettingsInv, ReadsAwaited
<1>6. ReadsCurrent'
  BY <1>1 DEF SettingsInv, ReadsCurrent
<1>7. CleanIsStored'
  BY <1>1 DEF SettingsInv, CleanIsStored, SaveCarriesForm, Faithful, HasChanges
<1>8. SaveCarriesForm'
  BY <1>1, <1>3 DEF SettingsInv, SaveCarriesForm, Faithful, HasChanges
<1> QED
  BY <1>4, <1>5, <1>6, <1>7, <1>8 DEF SettingsInv

\* The form is clean after a save only if the save carried it.
LEMMA SettingsSavedSettingsInv ==
  ASSUME SettingsInv, SettingsSaved
  PROVE  SettingsInv'
<1>1. saving.phase = "written" /\ saving' = NoSave /\ UNCHANGED <<settings, reads>>
  BY DEF SettingsSaved
<1>2. settings = saving.row
  BY <1>1 DEF SettingsInv, SaveCarriesForm
<1>3. NoSave.phase = "none"
  BY DEF NoSave
<1>4. CASE settingsPage.edits = saving.edits
  <2>1. settingsPage' = [[settingsPage EXCEPT !.dirty = FALSE, !.removed = FALSE] EXCEPT !.busy = FALSE]
    BY <1>4 DEF SettingsSaved, Covered
  <2>2. /\ IsPage(settingsPage')
        /\ settingsPage'.request = settingsPage.request
        /\ settingsPage'.loaded = settingsPage.loaded
        /\ settingsPage'.behind = settingsPage.behind
        /\ settingsPage'.profiles = settingsPage.profiles
        /\ settingsPage'.edits = settingsPage.edits
    BY <2>1 DEF SettingsInv, SettingsShapes, IsPage
  <2>3. SettingsShapes'
    BY <1>1, <2>2 DEF SettingsInv, SettingsShapes
  <2>4. ReadsAwaited' /\ ReadsCurrent'
    BY <1>1, <1>3, <2>2 DEF SettingsInv, ReadsAwaited, ReadsCurrent
  <2>5. CleanIsStored'
    BY <1>1, <1>2, <1>4, <2>2 DEF SettingsInv, SaveCarriesForm, CleanIsStored, Faithful
  <2>6. SaveCarriesForm'
    BY <1>1, <1>3 DEF SaveCarriesForm
  <2> QED
    BY <2>3, <2>4, <2>5, <2>6 DEF SettingsInv
<1>5. CASE settingsPage.edits # saving.edits
  <2>1. settingsPage' = [settingsPage EXCEPT !.busy = FALSE]
    BY <1>5 DEF SettingsSaved, Covered
  <2> QED
    BY <1>1, <2>1, AsideSettingsInv DEF SettingsInv, SettingsShapes, IsPage
<1> QED
  BY <1>4, <1>5

---------------------------------------------------------------------------
\* The invariant is inductive.
LEMMA NextSettingsInv == SettingsInv /\ [SettingsNext]_settingsVars => SettingsInv'
<1> SUFFICES ASSUME SettingsInv, [SettingsNext]_settingsVars PROVE SettingsInv'
  OBVIOUS
<1>1. CASE UNCHANGED settingsVars
  BY <1>1, AsideSettingsInv DEF settingsVars, SettingsInv, SettingsShapes
<1>2. CASE OpenPage \/ RetryLoad
  BY <1>2, LoadSettingsInv
<1>3. CASE \/ ClosePage \/ SaveFails
           \/ \E r \in reads : ReadFails(r)
           \/ \E id \in ProfileIds(settingsPage.profiles) : SelectProfile(id)
  BY <1>3, QuietSettingsInv
<1>4. CASE \E r \in reads : RowRead(r) \/ FormLoaded(r)
  BY <1>4, RowReadSettingsInv, FormLoadedSettingsInv
<1>5. CASE \/ AddConfig \/ UpdateSelected
           \/ \E id \in ProfileIds(settingsPage.profiles) : RemoveConfig(id)
  BY <1>5, EditSettingsInv
<1>6. CASE PressSaveSettings \/ SetDefault
  BY <1>6, PersistSettingsInv DEF PressSaveSettings, SetDefault
<1>7. CASE RowWritten
  BY <1>7, RowWrittenSettingsInv
<1>8. CASE SettingsSaved
  BY <1>8, SettingsSavedSettingsInv
<1> QED
  BY <1>1, <1>2, <1>3, <1>4, <1>5, <1>6, <1>7, <1>8 DEF SettingsNext

\* The invariant holds of every behaviour.
THEOREM SettingsInvariant == SettingsSpec => []SettingsInv
<1>1. SettingsInit => SettingsInv
  BY InitSettingsInv
<1>2. SettingsInv /\ [SettingsNext]_settingsVars => SettingsInv'
  BY NextSettingsInv
<1> QED
  BY <1>1, <1>2, PTL DEF SettingsSpec

\* Edits, saves that fail half way, reloads and late answers in any order: a form
\* without unsaved changes shows the profiles that are stored.
THEOREM CleanFormsAreStored == SettingsSpec => []CleanFormIsStored
<1>1. SettingsInv => CleanFormIsStored
  BY DEF SettingsInv, CleanIsStored, CleanFormIsStored, FormShown, Faithful
<1> QED
  BY <1>1, SettingsInvariant, PTL

---------------------------------------------------------------------------
(* Projects: lists of projects.                                            *)

\* A project that is in no list makes a list one longer.
LEMMA LongerList ==
  ASSUME NEW list \in Lists, NEW p \in ProjectIds, p \notin ToSet(list)
  PROVE  /\ Append(list, p) \in Lists /\ Append(list, p) # <<>>
         /\ ToSet(Append(list, p)) = ToSet(list) \cup {p}
<1>1. /\ list \in Seq(ProjectIds) /\ IsInjective(list) /\ Len(list) \in Nat
      /\ DOMAIN list = 1..Len(list)
  BY DEF Lists
<1>2. PICK new : new = Append(list, p)
  OBVIOUS
<1>3. /\ new \in Seq(ProjectIds) /\ DOMAIN new = 1..(Len(list) + 1)
      /\ \A i \in 1..Len(list) : new[i] = list[i]
      /\ new[Len(list) + 1] = p
  BY <1>1, <1>2
<1>4. IsInjective(new)
  <2> SUFFICES ASSUME NEW i \in DOMAIN new, NEW j \in DOMAIN new, new[i] = new[j] PROVE i = j
    BY DEF IsInjective
  <2>1. CASE i \in 1..Len(list) /\ j \in 1..Len(list)
    BY <1>1, <1>3, <2>1 DEF IsInjective
  <2>2. CASE i = Len(list) + 1 \/ j = Len(list) + 1
    BY <1>1, <1>3, <2>2 DEF ToSet
  <2> QED BY <1>1, <1>3, <2>1, <2>2
<1>5. ToSet(new) = ToSet(list) \cup {p}
  BY <1>1, <1>3 DEF ToSet
<1> QED
  BY <1>2, <1>3, <1>4, <1>5, <1>1, EmptySeq DEF Lists

\* A project taken out of a list is not in it any more, the others are.
LEMMA ShorterList ==
  ASSUME NEW list \in Lists, NEW id
  PROVE  Without(list, id) \in Lists /\ ToSet(Without(list, id)) = ToSet(list) \ {id}
<1>1. /\ list \in Seq(ProjectIds) /\ IsInjective(list) /\ Len(list) \in Nat
      /\ DOMAIN list = 1..Len(list)
  BY DEF Lists
<1>2. CASE id \notin ToSet(list)
  BY <1>2 DEF Without
<1>3. CASE id \in ToSet(list)
  <2>1. PICK k \in DOMAIN list : list[k] = id /\ Without(list, id) = RemoveAt(list, k)
    BY <1>3 DEF Without, ToSet
  <2>2. PICK new : new = SubSeq(list, 1, k - 1) \o SubSeq(list, k + 1, Len(list))
    OBVIOUS
  <2>3. /\ new \in Seq(ProjectIds) /\ DOMAIN new = 1..(Len(list) - 1)
        /\ \A i \in 1..(Len(list) - 1) : new[i] = IF i < k THEN list[i] ELSE list[i + 1]
    <3>1. k \in 1..Len(list)
      BY <1>1
    <3>2. PICK one : one = SubSeq(list, 1, k - 1)
      OBVIOUS
    <3>3. PICK two : two = SubSeq(list, k + 1, Len(list))
      OBVIOUS
    <3>4. one \in Seq(ProjectIds) /\ Len(one) = k - 1 /\ \A i \in 1..(k - 1) : one[i] = list[i]
      BY <1>1, <3>1, <3>2
    <3>5. /\ two \in Seq(ProjectIds) /\ Len(two) = Len(list) - k
          /\ \A i \in 1..(Len(list) - k) : two[i] = list[i + k]
      BY <1>1, <3>1, <3>3
    <3>6. /\ new \in Seq(ProjectIds) /\ Len(new) = Len(one) + Len(two)
          /\ \A i \in 1..Len(new) : new[i] = IF i <= Len(one) THEN one[i] ELSE two[i - Len(one)]
      <4>1. new = one \o two
        BY <2>2, <3>2, <3>3
      <4>2. one \in Seq(ProjectIds) /\ two \in Seq(ProjectIds)
        BY <3>4, <3>5
      <4>3. /\ one \o two \in Seq(ProjectIds) /\ Len(one \o two) = Len(one) + Len(two)
            /\ \A i \in 1..(Len(one) + Len(two)) :
                 (one \o two)[i] = IF i <= Len(one) THEN one[i] ELSE two[i - Len(one)]
        BY <4>2, ConcatProperties
      <4> QED
        BY <4>1, <4>3
    <3>7. Len(new) = Len(list) - 1 /\ DOMAIN new = 1..(Len(list) - 1)
      BY <1>1, <3>1, <3>4, <3>5, <3>6
    <3>8. ASSUME NEW i \in 1..(Len(list) - 1)
          PROVE  new[i] = IF i < k THEN list[i] ELSE list[i + 1]
      <4>1. CASE i < k
        BY <1>1, <3>1, <3>4, <3>6, <3>7, <4>1
      <4>2. CASE i >= k
        <5>1. new[i] = two[i - (k - 1)] /\ i - (k - 1) \in 1..(Len(list) - k)
          BY <1>1, <3>1, <3>4, <3>6, <3>7, <4>2
        <5> QED BY <1>1, <3>1, <3>5, <4>2, <5>1
      <4> QED BY <1>1, <3>1, <4>1, <4>2
    <3> QED
      BY <3>6, <3>7, <3>8
  <2>4. IsInjective(new)
    BY <1>1, <2>3 DEF IsInjective
  <2>5. ToSet(new) = ToSet(list) \ {id}
    <3>1. \A x \in ToSet(new) : x \in ToSet(list) /\ x # id
      BY <1>1, <2>1, <2>3 DEF ToSet, IsInjective
    <3>2. ASSUME NEW x \in ToSet(list), x # id PROVE x \in ToSet(new)
      <4>1. PICK i \in 1..Len(list) : list[i] = x
        BY <1>1, <3>2 DEF ToSet
      <4>2. CASE i < k
        BY <1>1, <2>1, <2>3, <4>1, <4>2 DEF ToSet
      <4>3. CASE i > k
        <5>1. i - 1 \in DOMAIN new /\ new[i - 1] = list[i]
          BY <1>1, <2>1, <2>3, <4>1, <4>3
        <5> QED BY <4>1, <5>1 DEF ToSet
      <4> QED BY <1>1, <2>1, <3>2, <4>1, <4>2, <4>3
    <3> QED BY <3>1, <3>2
  <2> QED
    BY <2>1, <2>2, <2>3, <2>4, <2>5 DEF RemoveAt, Lists
<1> QED
  BY <1>2, <1>3

\* The first and the last entry of a list are projects of it.
LEMMA ListEnds ==
  ASSUME NEW list \in Lists, list # <<>>
  PROVE  Head(list) \in ToSet(list) /\ Last(list) \in ToSet(list) /\ ToSet(list) \subseteq ProjectIds
<1>1. /\ list \in Seq(ProjectIds) /\ Len(list) \in Nat /\ DOMAIN list = 1..Len(list) /\ Len(list) >= 1
      /\ Head(list) = list[1]
  BY EmptySeq DEF Lists
<1> QED
  BY <1>1 DEF ToSet, Last

\* The empty list.
LEMMA EmptyList == <<>> \in Lists /\ ToSet(<<>>) = {}
<1>1. <<>> \in Seq(ProjectIds) /\ DOMAIN <<>> = {}
  OBVIOUS
<1> QED
  BY <1>1 DEF Lists, ToSet, IsInjective

---------------------------------------------------------------------------
(* Projects: the inductive invariant.                                      *)

\* A project is active once one is in the list, and then for good.
Started == projects.active = none <=> projects.list = <<>>

\* Which operations may be queued, and which the dialog may queue.
QueuedFits ==
  \A i \in DOMAIN chain :
    /\ chain[i].kind \in {"remove", "update", "switch"} => projects.active # none
    /\ chain[i].kind = "switch" => chain[i].project # none
DialogFits ==
  /\ dialog.project # none => projects.active # none
  /\ dialog.kind = "remove" => dialog.project # none

\* The list an operation has written before it settles.
UnderWay ==
  written =>
    /\ chain # <<>> /\ rows.list # <<>>
    /\ Head(chain).kind \in {"update", "switch"} => rows.list = projects.list
    /\ Head(chain).kind = "remove" => Head(chain).project \notin ToSet(rows.list)

\* Loads are queued while startup is loading, the latest last; an earlier one,
\* or one that may be overtaken, is the first of all and finds unbound forms.
LoadFits(i) ==
  /\ startup.phase = "loading" /\ chain[i].seq <= startup.run
  /\ \A j \in 1..(i - 1) : chain[j].kind = "load" => chain[j].seq < chain[i].seq
  /\ startup.banner \/ chain[i].seq # startup.run => i = 1 /\ forms.project = none
LoadsFit == \A i \in DOMAIN chain : chain[i].kind = "load" => LoadFits(i)

\* The forms belong to the active project, or to none, unless a load has just
\* chosen another.
FormsFit ==
  /\ startup.phase = "ready" => forms.project = Active
  /\ startup.phase = "loaded" => Active # none \/ forms.project = Active
  /\ startup.phase # "loaded" \/ startup.banner => forms.project \in {none, Active}

ProjectsInv ==
  ProjectsTypeOK /\ Started /\ QueuedFits /\ DialogFits /\ UnderWay /\ LoadsFit /\ FormsFit

\* The window starts with empty forms and one load under way.
LEMMA ProjectsInitInv == ProjectsInit => ProjectsInv
<1> SUFFICES ASSUME ProjectsInit PROVE ProjectsInv
  OBVIOUS
<1>1. /\ projects.list = <<>> /\ projects.active = none /\ written = FALSE
      /\ forms.project = none /\ dialog = Closed
      /\ startup.phase = "loading" /\ startup.run = 1 /\ startup.banner \in BOOLEAN
  BY DEF ProjectsInit
<1>2. /\ chain \in Seq(Operations) /\ DOMAIN chain = {1}
      /\ chain[1].kind = "load" /\ chain[1].seq = 1
  <2>1. PICK op : op = Operation("load", none, 1)
    OBVIOUS
  <2>2. op \in Operations /\ op.kind = "load" /\ op.seq = 1
    BY <2>1, ProjectsAssumption DEF Operation, Operations, Owners
  <2>3. chain = <<op>>
    BY <2>1 DEF ProjectsInit
  <2> QED BY <2>2, <2>3
<1>3. dialog \in Dialogs /\ dialog.kind = "none" /\ dialog.project = none
  BY <1>1, ProjectsAssumption DEF Closed, Dialogs, Owners
<1>4. ProjectsTypeOK
  <2>1. projects \in Tables
    BY EmptyList, ProjectsAssumption DEF ProjectsInit, Tables, Owners
  <2>2. rows \in Tables
    <3>1. PICK row : rows = row
      OBVIOUS
    <3>2. /\ row \in [list : {<<>>} \cup {<<p>> : p \in ProjectIds}
                             \cup {<<p, q>> : p \in ProjectIds, q \in ProjectIds},
                      profile : {[p \in ProjectIds |-> DefaultProfile]},
                      active : Owners]
          /\ IsInjective(row.list)
      BY <3>1 DEF ProjectsInit
    <3>3. row.list \in Lists
      <4>1. \A p, q \in ProjectIds : <<p>> \in Seq(ProjectIds) /\ <<p, q>> \in Seq(ProjectIds)
        OBVIOUS
      <4>2. <<>> \in Seq(ProjectIds)
        OBVIOUS
      <4>3. \/ row.list = <<>>
            \/ \E p \in ProjectIds : row.list = <<p>>
            \/ \E p, q \in ProjectIds : row.list = <<p, q>>
        BY <3>2
      <4>4. row.list \in Seq(ProjectIds)
        BY <4>1, <4>2, <4>3
      <4> QED BY <3>2, <4>4 DEF Lists
    <3>4. [p \in ProjectIds |-> DefaultProfile] \in [ProjectIds -> Profiles]
      BY ProjectsAssumption
    <3>5. /\ row = [list |-> row.list, profile |-> row.profile, active |-> row.active]
          /\ row.profile \in [ProjectIds -> Profiles] /\ row.active \in Owners
      BY <3>2, <3>4
    <3>6. row \in Tables
      BY <3>3, <3>5 DEF Tables
    <3> QED BY <3>1, <3>6
  <2>3. startup \in [run : Nat, phase : Phases, banner : BOOLEAN]
    BY DEF ProjectsInit, Phases
  <2>4. forms \in [project : Owners, text : Owners, refs : Owners]
    BY DEF ProjectsInit, Owners
  <2>5. imports \in Seq(ProjectIds) /\ stash \in [ProjectIds -> Contents \cup {none}]
    BY DEF ProjectsInit
  <2>6. clicks \in 0..MaxProjectClicks /\ faults \in 0..MaxFaults
    BY ProjectsAssumption, WindowAssumption DEF ProjectsInit, WindowInit
  <2>7. written \in BOOLEAN /\ switchSeq \in Nat /\ picker \in Owners /\ typing \in Owners
    BY DEF ProjectsInit, Owners
  <2> QED
    BY <1>2, <1>3, <2>1, <2>2, <2>3, <2>4, <2>5, <2>6, <2>7 DEF ProjectsTypeOK
<1>5. Started /\ QueuedFits /\ DialogFits /\ UnderWay
  BY <1>1, <1>2, <1>3 DEF Started, QueuedFits, DialogFits, UnderWay
<1>6. LoadsFit
  BY <1>1, <1>2 DEF LoadsFit, LoadFits
<1>7. FormsFit
  BY <1>1 DEF FormsFit
<1> QED
  BY <1>4, <1>5, <1>6, <1>7 DEF ProjectsInv

\* A step that leaves the lists, the queue and the owner of the forms alone.
LEMMA QuietProjects ==
  ASSUME ProjectsInv, ProjectsTypeOK', DialogFits', forms'.project = forms.project,
         UNCHANGED <<projects, rows, chain, written, startup>>
  PROVE  ProjectsInv'
<1>1. Active' = Active
  BY DEF Active, Listed
<1>2. Started' /\ QueuedFits' /\ UnderWay'
  BY DEF ProjectsInv, Started, QueuedFits, UnderWay
<1>3. LoadsFit' /\ FormsFit'
  BY <1>1 DEF ProjectsInv, LoadsFit, LoadFits, FormsFit
<1> QED
  BY <1>2, <1>3 DEF ProjectsInv

\* What a queue becomes.
LEMMA LongerQueue ==
  ASSUME NEW queue \in Seq(Operations), NEW op \in Operations
  PROVE  /\ Append(queue, op) \in Seq(Operations) /\ Append(queue, op) # <<>>
         /\ queue # <<>> => Head(Append(queue, op)) = Head(queue)
         /\ DOMAIN Append(queue, op) = 1..(Len(queue) + 1) /\ DOMAIN queue = 1..Len(queue)
         /\ Len(queue) \in Nat
         /\ \A i \in 1..Len(queue) : Append(queue, op)[i] = queue[i]
         /\ Append(queue, op)[Len(queue) + 1] = op
<1>1. PICK new : new = Append(queue, op)
  OBVIOUS
<1>2. /\ new \in Seq(Operations) /\ DOMAIN new = 1..(Len(queue) + 1) /\ DOMAIN queue = 1..Len(queue)
      /\ Len(queue) \in Nat
      /\ \A i \in 1..Len(queue) : new[i] = queue[i]
      /\ new[Len(queue) + 1] = op
  BY <1>1
<1>3. new # <<>>
  BY <1>2, EmptySeq
<1>4. queue # <<>> => Head(new) = Head(queue)
  <2> HAVE queue # <<>>
  <2>1. Len(queue) >= 1 /\ Head(queue) = queue[1] /\ Head(new) = new[1]
    BY <1>2, EmptySeq
  <2> QED BY <1>2, <2>1
<1> QED
  BY <1>1, <1>2, <1>3, <1>4

\* The queue without its head.
LEMMA ShorterQueue ==
  ASSUME NEW queue \in Seq(Operations), queue # <<>>
  PROVE  /\ Tail(queue) \in Seq(Operations) /\ 1 \in DOMAIN queue /\ Head(queue) = queue[1]
         /\ Head(queue) \in Operations
         /\ \A i \in DOMAIN Tail(queue) :
              i \in Nat /\ i >= 1 /\ i + 1 \in DOMAIN queue /\ Tail(queue)[i] = queue[i + 1]
<1>1. /\ Tail(queue) \in Seq(Operations) /\ Len(queue) \in Nat /\ DOMAIN queue = 1..Len(queue)
      /\ Len(queue) >= 1 /\ Head(queue) = queue[1] /\ Len(Tail(queue)) = Len(queue) - 1
      /\ DOMAIN Tail(queue) = 1..(Len(queue) - 1)
      /\ \A i \in 1..(Len(queue) - 1) : Tail(queue)[i] = queue[i + 1]
  BY EmptySeq
<1> QED
  BY <1>1

\* An operation is queued.
LEMMA Enqueued ==
  ASSUME ProjectsInv, ProjectsTypeOK', DialogFits', NEW op \in Operations,
         chain' = Append(chain, op), UNCHANGED <<projects, rows, written, forms>>,
         op.kind \in {"remove", "update", "switch"} => projects.active # none,
         op.kind = "switch" => op.project # none,
         IF op.kind = "load"
         THEN /\ startup.banner /\ op.seq = startup.run + 1
              /\ startup'.run = startup.run + 1 /\ startup'.phase = "loading" /\ ~startup'.banner
         ELSE startup' = startup
  PROVE  ProjectsInv'
<1>1. /\ Active' = Active /\ Listed' = Listed
  BY DEF Active, Listed
<1>2. /\ chain \in Seq(Operations) /\ startup.run \in Nat
      /\ Started /\ QueuedFits /\ UnderWay /\ LoadsFit /\ FormsFit
  BY DEF ProjectsInv, ProjectsTypeOK
<1>3. /\ chain' # <<>> /\ (chain # <<>> => Head(chain') = Head(chain))
      /\ Len(chain) \in Nat /\ DOMAIN chain = 1..Len(chain)
      /\ DOMAIN chain' = 1..(Len(chain) + 1)
      /\ \A i \in 1..Len(chain) : chain'[i] = chain[i]
      /\ chain'[Len(chain) + 1] = op
  BY <1>2, LongerQueue
<1>4. Started' /\ QueuedFits'
  BY <1>2, <1>3 DEF Started, QueuedFits
<1>5. UnderWay'
  BY <1>2, <1>3 DEF UnderWay
<1>6. LoadsFit'
  <2> SUFFICES ASSUME NEW i \in DOMAIN chain', chain'[i].kind = "load" PROVE LoadFits(i)'
    BY DEF LoadsFit
  <2>1. CASE i \in 1..Len(chain)
    <3>0. chain'[i] = chain[i] /\ \A j \in 1..(i - 1) : chain'[j] = chain[j]
      BY <1>3, <2>1
    <3>1. LoadFits(i)
      BY <1>2, <1>3, <2>1, <3>0 DEF LoadsFit
    <3>2. chain[i].seq \in Nat
      <4>1. chain[i] \in Operations
        BY <1>2, <1>3, <2>1
      <4> QED BY <4>1 DEF Operations
    <3>3. CASE op.kind # "load"
      BY <3>0, <3>1, <3>3 DEF LoadFits
    <3>4. CASE op.kind = "load"
      <4>1. /\ startup'.phase = "loading" /\ chain'[i].seq <= startup'.run
            /\ ~startup'.banner /\ chain'[i].seq # startup'.run
        BY <1>2, <3>0, <3>1, <3>2, <3>4 DEF LoadFits
      <4>2. i = 1 /\ forms'.project = none
        BY <3>1, <3>4 DEF LoadFits
      <4>3. \A j \in 1..(i - 1) : chain'[j].kind = "load" => chain'[j].seq < chain'[i].seq
        BY <3>0, <3>1 DEF LoadFits
      <4> QED BY <4>1, <4>2, <4>3 DEF LoadFits
    <3> QED BY <3>3, <3>4
  <2>2. CASE i = Len(chain) + 1
    <3>1. op.kind = "load"
      BY <1>3, <2>2
    <3>2. \A j \in 1..Len(chain) : chain[j].kind = "load" => chain[j].seq < op.seq
      <4> SUFFICES ASSUME NEW j \in 1..Len(chain), chain[j].kind = "load" PROVE chain[j].seq < op.seq
        OBVIOUS
      <4>1. LoadFits(j)
        BY <1>2, <1>3 DEF LoadsFit
      <4>2. chain[j] \in Operations
        BY <1>2, <1>3
      <4>3. chain[j].seq \in Nat /\ chain[j].seq <= startup.run
        BY <4>1, <4>2 DEF LoadFits, Operations
      <4>4. op.seq = startup.run + 1
        BY <3>1
      <4> QED BY <1>2, <4>3, <4>4
    <3>3. \A j \in 1..(i - 1) : j \in 1..Len(chain)
      BY <1>3, <2>2
    <3> QED BY <1>2, <1>3, <2>2, <3>1, <3>2, <3>3 DEF LoadFits
  <2> QED BY <1>3, <2>1, <2>2
<1>7. FormsFit'
  <2>1. CASE op.kind # "load"
    BY <1>1, <1>2, <2>1 DEF FormsFit
  <2>2. CASE op.kind = "load"
    BY <1>1, <1>2, <2>2 DEF FormsFit
  <2> QED BY <2>1, <2>2
<1> QED
  BY <1>4, <1>5, <1>6, <1>7 DEF ProjectsInv

\* The user's clicks and the types they leave.
LEMMA ClickTypes ==
  ASSUME ProjectsInv
  PROVE  /\ projects \in Tables /\ rows \in Tables /\ chain \in Seq(Operations)
         /\ projects.active \in Owners /\ Active \in Owners /\ none \in Owners
         /\ dialog \in Dialogs /\ dialog.project \in Owners /\ dialog.profile \in Profiles
         /\ forms \in [project : Owners, text : Owners, refs : Owners]
         /\ imports \in Seq(ProjectIds) /\ picker \in Owners /\ typing \in Owners
         /\ startup \in [run : Nat, phase : Phases, banner : BOOLEAN]
         /\ Started /\ QueuedFits /\ DialogFits
         /\ Active # none => Active \in ProjectIds /\ projects.active = Active
         /\ projects.active # none => projects.active \in ProjectIds
         /\ Spend(MaxProjectClicks) => clicks' \in 0..MaxProjectClicks
         /\ Fault => faults' \in 0..MaxFaults
<1>1. ProjectsTypeOK /\ Started /\ QueuedFits /\ DialogFits
  BY DEF ProjectsInv
<1>2. /\ projects \in Tables /\ rows \in Tables /\ chain \in Seq(Operations)
      /\ dialog \in Dialogs /\ dialog.project \in Owners /\ dialog.profile \in Profiles
      /\ forms \in [project : Owners, text : Owners, refs : Owners]
      /\ imports \in Seq(ProjectIds) /\ picker \in Owners /\ typing \in Owners
      /\ startup \in [run : Nat, phase : Phases, banner : BOOLEAN]
      /\ projects.active \in Owners
  BY <1>1 DEF ProjectsTypeOK, Tables, Dialogs
<1>3. Active \in Owners /\ none \in Owners
      /\ (Active # none => Active \in ProjectIds /\ projects.active = Active)
      /\ (projects.active # none => projects.active \in ProjectIds)
  BY <1>2 DEF Active, Owners
<1>4. Spend(MaxProjectClicks) => clicks' \in 0..MaxProjectClicks
  BY <1>1, ProjectsAssumption DEF ProjectsTypeOK, Spend
<1>5. Fault => faults' \in 0..MaxFaults
  BY <1>1, WindowAssumption DEF ProjectsTypeOK, Fault
<1> QED
  BY <1>1, <1>2, <1>3, <1>4, <1>5

\* The dialogs.
LEMMA StepDialogs ==
  ASSUME ProjectsInv, NEW profile \in Profiles,
         RemoveProject \/ OpenSettings \/ EditProfile(profile) \/ CloseSettings
  PROVE  ProjectsInv'
<1>1. /\ UNCHANGED <<projects, rows, chain, written, switchSeq, forms, stash, imports, picker,
                     typing, startup, faults>>
      /\ clicks' = clicks \/ Spend(MaxProjectClicks)
  BY DEF RemoveProject, OpenSettings, EditProfile, CloseSettings, Click
<1>2. dialog' \in Dialogs /\ DialogFits'
  <2>1. CASE RemoveProject
    BY <2>1, ClickTypes DEF RemoveProject, Dialogs, DialogFits
  <2>2. CASE OpenSettings
    <3>1. projects.profile[Active] \in Profiles /\ projects.active # none
      BY <2>2, ClickTypes DEF OpenSettings, Tables
    <3> QED BY <2>2, <3>1, ClickTypes DEF OpenSettings, Dialogs, DialogFits
  <2>3. CASE EditProfile(profile)
    BY <2>3, ClickTypes DEF EditProfile, Dialogs, DialogFits
  <2>4. CASE CloseSettings
    <3>1. Closed \in Dialogs /\ Closed.project = none /\ Closed.kind = "none"
      BY ProjectsAssumption DEF Closed, Dialogs, Owners
    <3> QED BY <2>4, <3>1, ClickTypes DEF CloseSettings, Dialogs, DialogFits
  <2> QED BY <2>1, <2>2, <2>3, <2>4
<1>3. ProjectsTypeOK'
  BY <1>1, <1>2, ClickTypes DEF ProjectsInv, ProjectsTypeOK
<1> QED
  BY <1>1, <1>2, <1>3, QuietProjects

\* The forms on screen.
LEMMA StepForms ==
  ASSUME ProjectsInv, NEW agreed \in BOOLEAN,
         TypePrompt \/ CommitPrompt \/ QueueImport \/ TakeImport \/ ApplyImport
           \/ ClosePicker \/ SendStoryboard \/ AnswerHandoff(agreed)
  PROVE  ProjectsInv' /\ UNCHANGED <<projects, stash, startup>> /\ forms'.project = forms.project
<1>1. /\ UNCHANGED <<projects, rows, chain, written, switchSeq, stash, startup, faults>>
      /\ clicks' = clicks \/ Spend(MaxProjectClicks)
  BY DEF TypePrompt, CommitPrompt, QueueImport, TakeImport, ApplyImport, ClosePicker,
         SendStoryboard, AnswerHandoff, Click
<1>2. /\ forms' \in [project : Owners, text : Owners, refs : Owners]
      /\ forms'.project = forms.project
  BY ClickTypes DEF TypePrompt, CommitPrompt, QueueImport, TakeImport, ApplyImport, ClosePicker,
                    SendStoryboard, AnswerHandoff
<1>3. dialog' \in Dialogs /\ DialogFits'
  <2>1. CASE UNCHANGED dialog
    BY <1>1, <2>1, ClickTypes DEF DialogFits
  <2>2. CASE SendStoryboard /\ dialog' # dialog
    BY <2>2, ClickTypes DEF SendStoryboard, Dialogs, DialogFits
  <2>3. CASE AnswerHandoff(agreed)
    BY <2>3, ClickTypes DEF AnswerHandoff, Dialogs, DialogFits
  <2> QED
    BY <2>1, <2>2, <2>3 DEF TypePrompt, CommitPrompt, QueueImport, TakeImport, ApplyImport,
                            ClosePicker
<1>4. imports' \in Seq(ProjectIds)
  <2>1. CASE QueueImport
    <3>1. PICK p \in ProjectIds : imports' = Append(imports, p)
      BY <2>1, ClickTypes DEF QueueImport
    <3> QED BY <3>1, ClickTypes
  <2>2. CASE TakeImport
    BY <2>2, ClickTypes DEF TakeImport
  <2> QED
    BY <2>1, <2>2, ClickTypes DEF TypePrompt, CommitPrompt, ApplyImport, ClosePicker,
                                  SendStoryboard, AnswerHandoff
<1>5. picker' \in Owners /\ typing' \in Owners
  <2>1. CASE TakeImport
    <3>1. Head(imports) \in ProjectIds
      BY <2>1, ClickTypes DEF TakeImport
    <3> QED BY <2>1, <3>1, ClickTypes DEF TakeImport, Owners
  <2> QED
    BY <2>1, ClickTypes DEF TypePrompt, CommitPrompt, QueueImport, ApplyImport, ClosePicker,
                            SendStoryboard, AnswerHandoff
<1>6. ProjectsTypeOK'
  BY <1>1, <1>2, <1>3, <1>4, <1>5, ClickTypes DEF ProjectsInv, ProjectsTypeOK
<1> QED
  BY <1>1, <1>2, <1>3, <1>6, QuietProjects

\* The operations the user queues.
LEMMA StepQueues ==
  ASSUME ProjectsInv, NEW agreed \in BOOLEAN,
         RetryStartup \/ (\E id \in ProjectIds : SwitchProject(id)) \/ CreateProject
           \/ AnswerRemove(agreed) \/ SaveSettings
  PROVE  ProjectsInv'
<1>1. /\ UNCHANGED <<projects, rows, written, forms, stash, imports, picker, typing, faults>>
      /\ clicks' = clicks \/ Spend(MaxProjectClicks)
  BY DEF RetryStartup, SwitchProject, CreateProject, AnswerRemove, SaveSettings, Click
<1>2. DefaultProfile \in Profiles /\ switchSeq \in Nat
  BY ProjectsAssumption DEF ProjectsInv, ProjectsTypeOK
<1>3. ASSUME chain' = chain, startup' = startup, switchSeq' = switchSeq, dialog' \in Dialogs, DialogFits'
      PROVE  ProjectsInv'
  <2>1. ProjectsTypeOK'
    BY <1>1, <1>3, ClickTypes DEF ProjectsInv, ProjectsTypeOK
  <2> QED BY <1>1, <1>3, <2>1, QuietProjects
<1>4. ASSUME NEW op \in Operations, chain' = Append(chain, op), switchSeq' \in Nat,
             dialog' \in Dialogs, DialogFits', startup' \in [run : Nat, phase : Phases, banner : BOOLEAN],
             op.kind \in {"remove", "update", "switch"} => projects.active # none,
             op.kind = "switch" => op.project # none,
             IF op.kind = "load"
             THEN /\ startup.banner /\ op.seq = startup.run + 1
                  /\ startup'.run = startup.run + 1 /\ startup'.phase = "loading" /\ ~startup'.banner
             ELSE startup' = startup
      PROVE  ProjectsInv'
  <2>1. chain' \in Seq(Operations)
    BY <1>4, ClickTypes, LongerQueue
  <2>2. ProjectsTypeOK'
    BY <1>1, <1>4, <2>1, ClickTypes DEF ProjectsInv, ProjectsTypeOK
  <2> QED BY <1>1, <1>4, <2>2, Enqueued
<1>5. CASE RetryStartup
  <2>1. PICK op : op = Operation("load", none, startup.run + 1)
    OBVIOUS
  <2>2. op \in Operations /\ op.kind = "load" /\ op.seq = startup.run + 1 /\ chain' = Append(chain, op)
    BY <1>2, <1>5, <2>1, ClickTypes DEF RetryStartup, Operation, Operations
  <2>3. /\ startup' \in [run : Nat, phase : Phases, banner : BOOLEAN]
        /\ startup'.run = startup.run + 1 /\ startup'.phase = "loading" /\ ~startup'.banner
        /\ startup.banner
    BY <1>5, ClickTypes DEF RetryStartup, Phases
  <2> QED BY <1>1, <1>2, <1>4, <1>5, <2>2, <2>3, ClickTypes DEF RetryStartup, DialogFits
<1>6. ASSUME NEW id \in ProjectIds, SwitchProject(id)
      PROVE  ProjectsInv'
  <2>1. PICK op : op = Operation("switch", id, switchSeq + 1)
    OBVIOUS
  <2>2. op \in Operations /\ op.kind = "switch" /\ op.project = id /\ chain' = Append(chain, op)
    BY <1>2, <1>6, <2>1, ClickTypes DEF SwitchProject, Operation, Operations, Owners
  <2>3. id # none /\ projects.active # none
    BY <1>6, EmptyList, ClickTypes, ProjectsAssumption DEF SwitchProject, Listed, Started
  <2> QED BY <1>1, <1>2, <1>4, <1>6, <2>2, <2>3, ClickTypes DEF SwitchProject, DialogFits
<1>7. CASE CreateProject
  <2>1. PICK op : op = Operation("create", none, 0)
    OBVIOUS
  <2>2. op \in Operations /\ op.kind = "create" /\ chain' = Append(chain, op)
    BY <1>2, <1>7, <2>1, ClickTypes DEF CreateProject, Operation, Operations
  <2> QED BY <1>1, <1>2, <1>4, <1>7, <2>2, ClickTypes DEF CreateProject, DialogFits
<1>8. CASE AnswerRemove(agreed)
  <2>1. PICK op : op = Operation("remove", dialog.project, 0)
    OBVIOUS
  <2>2. op \in Operations /\ op.kind = "remove"
    BY <1>2, <2>1, ClickTypes DEF Operation, Operations
  <2>3. chain' = Append(chain, op) \/ chain' = chain
    BY <1>8, <2>1 DEF AnswerRemove
  <2>4. projects.active # none /\ dialog' \in Dialogs /\ DialogFits'
    BY <1>8, ClickTypes DEF AnswerRemove, Dialogs, DialogFits
  <2> QED BY <1>1, <1>2, <1>3, <1>4, <1>8, <2>2, <2>3, <2>4, ClickTypes DEF AnswerRemove
<1>9. CASE SaveSettings
  <2>1. PICK op : op = [Operation("update", dialog.project, 0) EXCEPT !.profile = dialog.profile]
    OBVIOUS
  <2>2. op \in Operations /\ op.kind = "update"
    BY <1>2, <2>1, ClickTypes DEF Operation, Operations
  <2>3. chain' = Append(chain, op) /\ projects.active # none
    BY <1>9, <2>1, ClickTypes DEF SaveSettings, DialogFits
  <2>4. dialog' \in Dialogs /\ DialogFits'
    BY <1>1, <1>9, ClickTypes DEF SaveSettings, Dialogs, DialogFits
  <2> QED BY <1>1, <1>2, <1>4, <1>9, <2>2, <2>3, <2>4, ClickTypes DEF SaveSettings
<1> QED
  BY <1>5, <1>6, <1>7, <1>8, <1>9

\* A new project makes a table one project longer.
LEMMA GrownFits ==
  ASSUME NEW table \in Tables, ToSet(table.list) \subseteq Listed \cup ToSet(rows.list),
         NEW new \in Grown(table)
  PROVE  /\ new.list \in Lists /\ new.profile \in [ProjectIds -> Profiles] /\ new.list # <<>>
         /\ \A p \in ToSet(new.list) : p \in ToSet(table.list) \/ p \in Fresh
<1>1. PICK p \in Fresh : new = [table EXCEPT !.list = Append(@, p), !.profile[p] = DefaultProfile]
  BY DEF Grown
<1>2. p \in ProjectIds /\ p \notin ToSet(table.list) /\ table.list \in Lists
      /\ table.profile \in [ProjectIds -> Profiles]
  BY DEF Fresh, Tables
<1>3. new.list = Append(table.list, p) /\ new.profile = [table.profile EXCEPT ![p] = DefaultProfile]
  BY <1>1 DEF Tables
<1>4. new.profile \in [ProjectIds -> Profiles]
  BY <1>2, <1>3, ProjectsAssumption
<1> QED
  BY <1>2, <1>3, <1>4, LongerList

\* The table an operation writes.
LEMMA RewrittenFits ==
  ASSUME ProjectsInv, NEW op, chain # <<>>, op = Head(chain), NEW table \in Rewritten(op)
  PROVE  /\ table.list \in Lists /\ table.profile \in [ProjectIds -> Profiles] /\ table.list # <<>>
         /\ op.kind \in {"update", "switch"} => table.list = projects.list
         /\ op.kind = "remove" => op.project \notin ToSet(table.list)
         /\ op.kind = "load" /\ rows.list # <<>> /\ table.list # rows.list => faults < MaxFaults
<1>1. /\ projects \in Tables /\ rows \in Tables
      /\ projects.list \in Lists /\ rows.list \in Lists
      /\ projects.profile \in [ProjectIds -> Profiles] /\ rows.profile \in [ProjectIds -> Profiles]
  BY ClickTypes DEF Tables
<1>2. /\ op \in Operations
      /\ op.kind \in {"remove", "update", "switch"} => projects.list # <<>>
  <2>1. chain \in Seq(Operations) /\ Started /\ QueuedFits
    BY ClickTypes
  <2>2. 1 \in DOMAIN chain /\ op = chain[1] /\ op \in Operations
    BY <2>1, ShorterQueue
  <2> QED BY <2>1, <2>2 DEF Started, QueuedFits
<1>3. op.kind \in {"load", "create", "remove", "update", "switch"} /\ op.profile \in Profiles
  BY <1>2 DEF Operations
<1>4. CASE op.kind = "load"
  <2>1. table \in Refilled(rows) \/ (table \in Emptied(rows) /\ faults < MaxFaults)
    BY <1>4 DEF Rewritten
  <2>2. CASE table \in Refilled(rows) /\ rows.list # <<>>
    <3>1. table = rows
      BY <2>2 DEF Refilled
    <3> QED BY <1>1, <1>4, <2>2, <3>1
  <2>3. CASE table \in Refilled(rows) /\ rows.list = <<>>
    <3>1. table \in Grown(rows)
      BY <2>3 DEF Refilled
    <3> QED BY <1>1, <1>4, <2>3, <3>1, GrownFits
  <2>4. CASE table \in Emptied(rows) /\ faults < MaxFaults
    <3>1. PICK empty : empty = [rows EXCEPT !.list = <<>>]
      OBVIOUS
    <3>2. empty \in Tables /\ empty.list = <<>> /\ table \in Grown(empty)
      BY <1>1, <2>4, <3>1, EmptyList DEF Tables, Emptied
    <3>3. ToSet(empty.list) \subseteq Listed \cup ToSet(rows.list)
      BY <3>2, EmptyList
    <3> QED BY <1>4, <2>4, <3>2, <3>3, GrownFits
  <2> QED BY <2>1, <2>2, <2>3, <2>4
<1>5. CASE op.kind = "create"
  <2>1. table \in Grown(projects)
    BY <1>5 DEF Rewritten
  <2> QED BY <1>1, <1>5, <2>1, GrownFits DEF Listed
<1>6. CASE op.kind = "remove"
  <2>1. PICK rest : rest = [projects EXCEPT !.list = Without(@, op.project)]
    OBVIOUS
  <2>2. /\ rest \in Tables /\ rest.list \in Lists /\ rest.profile \in [ProjectIds -> Profiles]
        /\ ToSet(rest.list) = Listed \ {op.project}
    <3>1. /\ Without(projects.list, op.project) \in Lists
          /\ ToSet(Without(projects.list, op.project)) = ToSet(projects.list) \ {op.project}
      BY <1>1, ShorterList
    <3>2. rest.list = Without(projects.list, op.project) /\ rest.profile = projects.profile
          /\ rest \in Tables
      BY <1>1, <2>1, <3>1 DEF Tables
    <3> QED BY <1>1, <3>1, <3>2 DEF Listed
  <2>3. table \in Refilled(rest)
    BY <1>6, <2>1 DEF Rewritten
  <2>4. CASE rest.list # <<>>
    <3>1. table = rest
      BY <2>3, <2>4 DEF Refilled
    <3> QED BY <1>6, <2>2, <2>4, <3>1
  <2>5. CASE rest.list = <<>>
    <3>1. table \in Grown(rest)
      BY <2>3, <2>5 DEF Refilled
    <3>2. op.project \in Listed /\ ToSet(rest.list) = {}
      <4>1. Head(projects.list) \in ToSet(projects.list)
        BY <1>1, <1>2, <1>6, ListEnds
      <4> QED BY <2>2, <2>5, <4>1, EmptyList DEF Listed
    <3>3. op.project \notin Fresh
      BY <3>2 DEF Fresh
    <3> QED BY <1>6, <2>2, <3>1, <3>2, <3>3, GrownFits
  <2> QED BY <2>4, <2>5
<1>7. CASE op.kind = "update"
  <2>1. table = [projects EXCEPT !.profile =
                   [p \in ProjectIds |-> IF p = op.project /\ p \in Listed THEN op.profile ELSE @[p]]]
    BY <1>7 DEF Rewritten
  <2>2. table.list = projects.list
        /\ table.profile = [p \in ProjectIds |-> IF p = op.project /\ p \in Listed THEN op.profile
                                                 ELSE projects.profile[p]]
    BY <1>1, <2>1 DEF Tables
  <2>3. table.profile \in [ProjectIds -> Profiles]
    BY <1>1, <1>3, <2>2
  <2> QED BY <1>1, <1>2, <1>7, <2>2, <2>3
<1>8. CASE op.kind = "switch"
  BY <1>1, <1>2, <1>8 DEF Rewritten
<1> QED
  BY <1>3, <1>4, <1>5, <1>6, <1>7, <1>8

\* The first row is written.
LEMMA StepWriteProjects ==
  ASSUME ProjectsInv, WriteProjects
  PROVE  ProjectsInv'
<1>1. PICK op : op = Head(chain)
  OBVIOUS
<1>2. PICK table \in Rewritten(op) : rows' = [rows EXCEPT !.list = table.list, !.profile = table.profile]
  BY <1>1 DEF WriteProjects
<1>3. /\ chain # <<>> /\ written' = TRUE
      /\ UNCHANGED <<projects, chain, switchSeq, forms, stash, imports, picker, typing, dialog, startup,
                     clicks>>
  BY DEF WriteProjects
<1>4. /\ table.list \in Lists /\ table.profile \in [ProjectIds -> Profiles] /\ table.list # <<>>
      /\ op.kind \in {"update", "switch"} => table.list = projects.list
      /\ op.kind = "remove" => op.project \notin ToSet(table.list)
      /\ op.kind = "load" /\ rows.list # <<>> /\ table.list # rows.list => faults < MaxFaults
  BY <1>1, <1>2, <1>3, RewrittenFits
<1>5. rows' \in Tables /\ rows'.list = table.list
  BY <1>2, <1>4, ClickTypes DEF Tables
<1>6. faults' \in 0..MaxFaults
  <2>1. faults \in 0..MaxFaults
    BY DEF ProjectsInv, ProjectsTypeOK
  <2> QED BY <1>1, <1>4, <1>5, <2>1, WindowAssumption DEF WriteProjects
<1>7. ProjectsTypeOK'
  BY <1>3, <1>5, <1>6 DEF ProjectsInv, ProjectsTypeOK
<1>8. UnderWay'
  BY <1>1, <1>3, <1>4, <1>5 DEF UnderWay
<1>9. Active' = Active
  BY <1>3 DEF Active, Listed
<1>10. Started' /\ QueuedFits' /\ DialogFits' /\ LoadsFit' /\ FormsFit'
  BY <1>3, <1>9 DEF ProjectsInv, Started, QueuedFits, DialogFits, LoadsFit, LoadFits, FormsFit
<1> QED
  BY <1>7, <1>8, <1>10 DEF ProjectsInv

\* What the forms and the drafts hold after a move: what they held, but for the
\* project removed.
LEMMA MovedForms ==
  ASSUME ProjectsInv, NEW target \in Owners, NEW removed \in Owners,
         removed = none \/ target # removed, MoveForms(target, removed)
  PROVE  /\ forms' \in [project : Owners, text : Owners, refs : Owners] /\ forms'.project = target
         /\ stash' \in [ProjectIds -> Contents \cup {none}] /\ imports' \in Seq(ProjectIds)
         /\ \A p \in ProjectIds : Held(p)' = IF p = removed THEN Blank ELSE Held(p)
<1>1. /\ forms \in [project : Owners, text : Owners, refs : Owners]
      /\ stash \in [ProjectIds -> Contents \cup {none}]
      /\ forms.project \in Owners
  BY DEF ProjectsInv, ProjectsTypeOK
<1>2. PICK left : left = IF forms.project = none THEN stash ELSE [stash EXCEPT ![forms.project] = Content]
  OBVIOUS
<1>3. PICK kept : kept = IF removed = none THEN left ELSE [left EXCEPT ![removed] = none]
  OBVIOUS
<1>4. PICK draft : draft = IF target = none \/ kept[target] = none THEN Blank ELSE kept[target]
  OBVIOUS
<1>5. Content \in Contents /\ Blank \in Contents /\ none \notin Contents
  BY <1>1, ProjectsAssumption DEF Content, Blank, Contents, Owners
<1>6. /\ left \in [ProjectIds -> Contents \cup {none}]
      /\ \A p \in ProjectIds : left[p] = IF p = forms.project THEN Content ELSE stash[p]
  BY <1>1, <1>2, <1>5, ProjectsAssumption DEF Owners
<1>7. /\ kept \in [ProjectIds -> Contents \cup {none}]
      /\ \A p \in ProjectIds : kept[p] = IF p = removed THEN none ELSE left[p]
  BY <1>3, <1>6, ProjectsAssumption DEF Owners
<1>8. draft \in Contents
  BY <1>4, <1>5, <1>7 DEF Owners
<1>9. /\ forms' = [project |-> target, text |-> draft.text, refs |-> draft.refs]
      /\ stash' = IF target = none THEN kept ELSE [kept EXCEPT ![target] = none]
      /\ imports' = <<>>
  BY <1>2, <1>3, <1>4 DEF MoveForms
<1>10. /\ forms' \in [project : Owners, text : Owners, refs : Owners] /\ forms'.project = target
       /\ Content' = draft
  BY <1>8, <1>9 DEF Contents, Content
<1>11. /\ stash' \in [ProjectIds -> Contents \cup {none}]
       /\ \A p \in ProjectIds : p # target => stash'[p] = kept[p]
  BY <1>7, <1>9, ProjectsAssumption DEF Owners
<1>12. ASSUME NEW p \in ProjectIds PROVE Held(p)' = IF p = removed THEN Blank ELSE Held(p)
  <2>1. Held(p) = IF left[p] = none THEN Blank ELSE left[p]
    BY <1>5, <1>6 DEF Held
  <2>2. CASE p = target
    <3>1. Held(p)' = draft /\ p # none /\ p # removed
      BY <1>10, <2>2, ProjectsAssumption DEF Held
    <3> QED BY <1>4, <1>7, <2>1, <2>2, <3>1
  <2>3. CASE p # target
    <3>1. Held(p)' = IF kept[p] = none THEN Blank ELSE kept[p]
      BY <1>10, <1>11, <2>3 DEF Held
    <3> QED BY <1>7, <2>1, <3>1
  <2> QED BY <2>2, <2>3
<1>13. imports' \in Seq(ProjectIds)
  BY <1>9
<1> QED
  BY <1>10, <1>11, <1>12, <1>13

\* The project an operation makes active is one.
LEMMA ActiveFits ==
  ASSUME ProjectsInv, written, NEW op, op = Head(chain)
  PROVE  /\ ActiveAfter(op) \in ProjectIds
         /\ op.kind = "load" => ActiveAfter(op) \in ToSet(rows.list)
         /\ op.kind \in {"update"} => ActiveAfter(op) = projects.active
<1>1. /\ projects \in Tables /\ rows \in Tables /\ rows.list \in Lists /\ rows.active \in Owners
      /\ projects.active \in Owners /\ chain \in Seq(Operations) /\ Started /\ QueuedFits /\ UnderWay
  BY ClickTypes DEF Tables, ProjectsInv
<1>2. /\ chain # <<>> /\ rows.list # <<>> /\ op \in Operations
      /\ op.kind \in {"update"} => projects.active # none
      /\ op.kind = "switch" => op.project # none
  <2>1. chain # <<>> /\ rows.list # <<>>
    BY <1>1 DEF UnderWay
  <2>2. 1 \in DOMAIN chain /\ op = chain[1] /\ op \in Operations
    BY <1>1, <2>1, ShorterQueue
  <2> QED BY <1>1, <2>1, <2>2 DEF QueuedFits
<1>3. /\ Head(rows.list) \in ToSet(rows.list) /\ Last(rows.list) \in ToSet(rows.list)
      /\ ToSet(rows.list) \subseteq ProjectIds
  BY <1>1, <1>2, ListEnds
<1>4. op.kind \in {"load", "create", "remove", "update", "switch"} /\ op.project \in Owners
  BY <1>2 DEF Operations
<1>5. CASE op.kind = "load"
  BY <1>3, <1>5 DEF ActiveAfter
<1>6. CASE op.kind = "create"
  BY <1>3, <1>6 DEF ActiveAfter
<1>7. CASE op.kind = "remove"
  BY <1>1, <1>3, <1>7 DEF ActiveAfter, Owners
<1>8. CASE op.kind = "update"
  BY <1>1, <1>2, <1>8 DEF ActiveAfter, Owners
<1>9. CASE op.kind = "switch"
  BY <1>2, <1>4, <1>9 DEF ActiveAfter, Owners
<1> QED
  BY <1>4, <1>5, <1>6, <1>7, <1>8, <1>9

\* The queue without its head, if nothing else the queue is about has changed.
LEMMA Dequeued ==
  ASSUME ProjectsInv, chain # <<>>, chain' = Tail(chain), projects.active # none => projects'.active # none
  PROVE  chain' \in Seq(Operations) /\ QueuedFits'
<1>1. chain \in Seq(Operations) /\ QueuedFits
  BY ClickTypes
<1> QED
  BY <1>1, ShorterQueue DEF QueuedFits

\* The loads left keep their place, and there is none after the latest.
LEMMA DequeuedLoads ==
  ASSUME ProjectsInv, chain # <<>>, chain' = Tail(chain), startup'.run = startup.run,
         IF Head(chain).kind = "load" /\ Head(chain).seq = startup.run THEN TRUE
         ELSE startup' = startup
  PROVE  LoadsFit' /\ (startup' # startup => \A i \in DOMAIN chain' : chain'[i].kind # "load")
<1>1. /\ chain \in Seq(Operations) /\ LoadsFit /\ startup.run \in Nat
  BY ClickTypes DEF ProjectsInv
<1>2. /\ 1 \in DOMAIN chain /\ Head(chain) = chain[1]
      /\ \A i \in DOMAIN chain' : i \in Nat /\ i >= 1 /\ i + 1 \in DOMAIN chain /\ chain'[i] = chain[i + 1]
  BY <1>1, ShorterQueue
<1>3. ASSUME NEW i \in DOMAIN chain', chain'[i].kind = "load" PROVE startup' = startup /\ LoadFits(i)'
  <2>1. /\ LoadFits(i + 1) /\ chain'[i] = chain[i + 1] /\ i \in Nat /\ i >= 1 /\ i + 1 \in DOMAIN chain
    BY <1>1, <1>2, <1>3 DEF LoadsFit
  <2>2. DOMAIN chain' = 1..Len(chain') /\ Len(chain') \in Nat /\ chain' \in Seq(Operations)
    BY <1>1, ShorterQueue
  <2>3. \A j \in 1..(i - 1) : j \in DOMAIN chain' /\ j + 1 \in 1..((i + 1) - 1) /\ chain'[j] = chain[j + 1]
    BY <1>2, <1>3, <2>2
  <2>4. ~(Head(chain).kind = "load" /\ Head(chain).seq = startup.run)
    <3>1. 1 \in 1..((i + 1) - 1)
      BY <2>1
    <3>2. chain[1].kind = "load" => chain[1].seq < chain[i + 1].seq
      BY <2>1, <3>1 DEF LoadFits
    <3>3. chain[i + 1].seq <= startup.run /\ chain[i + 1].seq \in Nat /\ chain[1].seq \in Nat
      <4>1. chain[i + 1] \in Operations /\ chain[1] \in Operations
        BY <1>1, <1>2, <2>1
      <4> QED BY <2>1, <4>1 DEF LoadFits, Operations
    <3> QED BY <1>1, <1>2, <3>2, <3>3
  <2>5. startup' = startup
    BY <2>4
  <2>6. /\ startup'.phase = "loading" /\ chain'[i].seq <= startup'.run
        /\ ~(startup'.banner \/ chain'[i].seq # startup'.run)
    BY <2>1, <2>5 DEF LoadFits
  <2>7. \A j \in 1..(i - 1) : chain'[j].kind = "load" => chain'[j].seq < chain'[i].seq
    BY <2>1, <2>3 DEF LoadFits
  <2> QED BY <2>5, <2>6, <2>7 DEF LoadFits
<1> QED
  BY <1>3 DEF LoadsFit

\* The second row is written and the window follows.
LEMMA StepSettle ==
  ASSUME ProjectsInv, Settle
  PROVE  /\ ProjectsInv'
         /\ \A p \in ProjectIds : Held(p)' = Held(p) \/ (Held(p)' = Blank /\ p \notin Listed')
<1>1. PICK op : op = Head(chain)
  OBVIOUS
<1>2. PICK active : active = ActiveAfter(op)
  OBVIOUS
<1>3. PICK project : project = IF active \in ToSet(rows.list) THEN active ELSE none
  OBVIOUS
<1>4. PICK removed : removed = IF op.kind = "remove" THEN op.project ELSE none
  OBVIOUS
<1>5. PICK superseded \in BOOLEAN : superseded <=> op.kind = "switch" /\ op.seq # switchSeq
  <2> WITNESS (op.kind = "switch" /\ op.seq # switchSeq) \in BOOLEAN
  <2> QED OBVIOUS
<1>6. /\ written /\ written' = FALSE /\ chain' = Tail(chain)
      /\ UNCHANGED <<switchSeq, picker, typing, clicks, faults>>
      /\ rows' = [rows EXCEPT !.active = active]
      /\ projects' = IF superseded THEN projects ELSE rows'
      /\ IF superseded \/ op.kind \in {"load", "update"} THEN UNCHANGED <<forms, stash, imports>>
         ELSE MoveForms(project, removed)
      /\ dialog' = CASE superseded -> dialog
                     [] op.kind = "create" -> ShowSettings(project)
                     [] op.kind = "update" -> Closed
                     [] OTHER -> Refreshed(op, project)
      /\ startup' = IF op.kind = "load" /\ op.seq = startup.run
                    THEN [startup EXCEPT !.phase = "loaded"] ELSE startup
  BY <1>1, <1>2, <1>3, <1>4, <1>5 DEF Settle
<1>7. /\ ProjectsTypeOK /\ Started /\ QueuedFits /\ DialogFits /\ UnderWay /\ LoadsFit /\ FormsFit
      /\ chain \in Seq(Operations) /\ rows \in Tables /\ projects \in Tables
      /\ startup \in [run : Nat, phase : Phases, banner : BOOLEAN]
      /\ dialog \in Dialogs /\ none \in Owners
  BY ClickTypes DEF ProjectsInv
<1>8. /\ chain # <<>> /\ rows.list # <<>>
      /\ op.kind \in {"update", "switch"} => rows.list = projects.list
      /\ op.kind = "remove" => op.project \notin ToSet(rows.list)
  BY <1>1, <1>6, <1>7 DEF UnderWay
<1>9. /\ active \in ProjectIds
      /\ op.kind = "load" => active \in ToSet(rows.list)
      /\ op.kind = "update" => active = projects.active
  BY <1>1, <1>2, <1>6, ActiveFits
<1>10. /\ op \in Operations /\ 1 \in DOMAIN chain /\ op = chain[1]
  BY <1>1, <1>7, <1>8, ShorterQueue
<1>11. /\ project \in Owners /\ removed \in Owners /\ active # none
       /\ removed = none \/ project # removed
  BY <1>3, <1>4, <1>8, <1>9, <1>10, ProjectsAssumption DEF Operations, Owners
<1>12. rows' \in Tables /\ rows'.list = rows.list /\ rows'.active = active
  BY <1>6, <1>7, <1>9 DEF Tables, Owners
<1>13. startup' \in [run : Nat, phase : Phases, banner : BOOLEAN] /\ startup'.run = startup.run
       /\ startup'.banner = startup.banner
       /\ startup'.phase = IF op.kind = "load" /\ op.seq = startup.run THEN "loaded" ELSE startup.phase
  BY <1>6, <1>7 DEF Phases
<1>14. projects' \in Tables /\ (projects.active # none => projects'.active # none) /\ Started'
  <2>1. CASE superseded
    BY <1>6, <1>7, <2>1 DEF Started
  <2>2. CASE ~superseded
    BY <1>6, <1>8, <1>11, <1>12, <2>2 DEF Started
  <2> QED BY <2>1, <2>2
<1>15. chain' \in Seq(Operations) /\ QueuedFits'
  BY <1>6, <1>8, <1>14, Dequeued
<1>16. LoadsFit'
  BY <1>1, <1>6, <1>8, <1>13, DequeuedLoads
<1>17. UnderWay'
  BY <1>6 DEF UnderWay
<1>18. ~superseded => Active' = project
  BY <1>3, <1>6, <1>12 DEF Active, Listed
<1>19. dialog' \in Dialogs /\ DialogFits'
  <2>1. CASE superseded
    <3>1. dialog' = dialog /\ projects' = projects
      BY <1>5, <1>6, <2>1
    <3> QED BY <1>7, <3>1 DEF DialogFits
  <2>2. CASE ~superseded
    <3>1. projects'.active # none
      BY <1>6, <1>11, <1>12, <2>2
    <3>2. ShowSettings(project) \in Dialogs /\ ShowSettings(project).kind = "settings"
      <4>1. PICK profile : profile = IF project = none THEN DefaultProfile ELSE projects'.profile[project]
        OBVIOUS
      <4>2. profile \in Profiles
        BY <1>11, <1>14, <4>1, ProjectsAssumption DEF Tables, Owners
      <4>3. ShowSettings(project) = [dialog EXCEPT !.kind = "settings", !.project = project,
                                                   !.profile = profile]
        BY <4>1 DEF ShowSettings
      <4> QED BY <1>7, <1>11, <4>2, <4>3 DEF Dialogs
    <3>3. Closed \in Dialogs /\ Closed.kind = "none"
      BY ProjectsAssumption DEF Closed, Dialogs, Owners
    <3>4. dialog' \in {dialog, ShowSettings(project), Closed}
      BY <1>6, <2>2 DEF Refreshed
    <3> QED BY <1>7, <3>1, <3>2, <3>3, <3>4 DEF DialogFits
  <2> QED BY <2>1, <2>2
<1>20. CASE superseded \/ op.kind = "update"
  <2>1. startup' = startup /\ UNCHANGED <<forms, stash, imports>>
    BY <1>5, <1>6, <1>20
  <2>2. Active' = Active
    BY <1>3, <1>6, <1>8, <1>9, <1>12, <1>18, <1>20 DEF Active, Listed
  <2>3. FormsFit'
    BY <1>7, <2>1, <2>2 DEF FormsFit
  <2>4. ProjectsTypeOK'
    BY <1>6, <1>7, <1>12, <1>13, <1>14, <1>15, <1>19, <2>1 DEF ProjectsTypeOK
  <2>5. \A p \in ProjectIds : Held(p)' = Held(p)
    BY <2>1 DEF Held, Content
  <2> QED
    BY <1>14, <1>15, <1>16, <1>17, <1>19, <2>3, <2>4, <2>5 DEF ProjectsInv
<1>21. CASE op.kind = "load"
  <2>0. ~superseded
    BY <1>5, <1>21
  <2>1. UNCHANGED <<forms, stash, imports>>
    BY <1>6, <1>21
  <2>2. Active' # none
    BY <1>3, <1>9, <1>11, <1>18, <1>21, <2>0
  <2>3. LoadFits(1)
    BY <1>7, <1>10, <1>21 DEF LoadsFit
  <2>4. FormsFit'
    BY <1>10, <1>13, <1>21, <2>1, <2>2, <2>3 DEF FormsFit, LoadFits
  <2>5. ProjectsTypeOK'
    BY <1>6, <1>7, <1>12, <1>13, <1>14, <1>15, <1>19, <2>1 DEF ProjectsTypeOK
  <2>6. \A p \in ProjectIds : Held(p)' = Held(p)
    BY <2>1 DEF Held, Content
  <2> QED
    BY <1>14, <1>15, <1>16, <1>17, <1>19, <2>4, <2>5, <2>6 DEF ProjectsInv
<1>22. CASE ~superseded /\ op.kind \notin {"load", "update"}
  <2>1. MoveForms(project, removed) /\ startup' = startup
    BY <1>6, <1>22
  <2>2. /\ forms' \in [project : Owners, text : Owners, refs : Owners] /\ forms'.project = project
        /\ stash' \in [ProjectIds -> Contents \cup {none}] /\ imports' \in Seq(ProjectIds)
        /\ \A p \in ProjectIds : Held(p)' = IF p = removed THEN Blank ELSE Held(p)
    BY <1>11, <2>1, MovedForms
  <2>3. FormsFit'
    BY <1>18, <1>22, <2>1, <2>2 DEF FormsFit
  <2>4. ProjectsTypeOK'
    BY <1>6, <1>7, <1>12, <1>13, <1>14, <1>15, <1>19, <2>2 DEF ProjectsTypeOK
  <2>5. \A p \in ProjectIds : p = removed => p \notin Listed'
    BY <1>4, <1>6, <1>8, <1>12, <1>22, ProjectsAssumption DEF Listed
  <2> QED
    BY <1>14, <1>15, <1>16, <1>17, <1>19, <2>2, <2>3, <2>4, <2>5 DEF ProjectsInv
<1> QED
  BY <1>20, <1>21, <1>22

\* A statement of the head fails.
LEMMA StepReject ==
  ASSUME ProjectsInv, Reject
  PROVE  ProjectsInv'
<1>1. PICK op : op = Head(chain)
  OBVIOUS
<1>2. /\ chain # <<>> /\ Fault /\ written' = FALSE /\ chain' = Tail(chain)
      /\ UNCHANGED <<projects, rows, switchSeq, forms, stash, imports, picker, typing, clicks>>
      /\ startup' = IF op.kind = "load" /\ op.seq = startup.run
                    THEN [startup EXCEPT !.phase = "failed", !.banner = TRUE] ELSE startup
      /\ dialog' = IF op.kind = "update" THEN [dialog EXCEPT !.saving = FALSE] ELSE dialog
  BY <1>1 DEF Reject
<1>3. /\ ProjectsTypeOK /\ Started /\ DialogFits /\ LoadsFit /\ FormsFit
      /\ chain \in Seq(Operations)
      /\ startup \in [run : Nat, phase : Phases, banner : BOOLEAN]
      /\ dialog \in Dialogs /\ faults' \in 0..MaxFaults
  BY <1>2, ClickTypes DEF ProjectsInv
<1>4. /\ startup' \in [run : Nat, phase : Phases, banner : BOOLEAN] /\ startup'.run = startup.run
      /\ startup'.phase = IF op.kind = "load" /\ op.seq = startup.run THEN "failed" ELSE startup.phase
  BY <1>2, <1>3 DEF Phases
<1>5. dialog' \in Dialogs /\ dialog'.kind = dialog.kind /\ dialog'.project = dialog.project
  BY <1>2, <1>3 DEF Dialogs
<1>6. chain' \in Seq(Operations) /\ QueuedFits'
  BY <1>2, Dequeued
<1>7. LoadsFit'
  BY <1>1, <1>2, <1>4, DequeuedLoads
<1>8. ProjectsTypeOK'
  BY <1>2, <1>3, <1>4, <1>5, <1>6 DEF ProjectsTypeOK
<1>9. Started' /\ DialogFits' /\ UnderWay' /\ Active' = Active
  BY <1>2, <1>3, <1>5 DEF Started, DialogFits, UnderWay, Active, Listed
<1>10. FormsFit'
  <2>1. CASE op.kind = "load" /\ op.seq = startup.run
    <3>1. 1 \in DOMAIN chain /\ op = chain[1]
      BY <1>1, <1>2, <1>3, ShorterQueue
    <3>2. startup.phase = "loading"
      BY <1>3, <2>1, <3>1 DEF LoadsFit, LoadFits
    <3> QED BY <1>2, <1>3, <1>4, <1>9, <2>1, <3>2 DEF FormsFit
  <2>2. CASE ~(op.kind = "load" /\ op.seq = startup.run)
    BY <1>2, <1>3, <1>9, <2>2 DEF FormsFit
  <2> QED BY <2>1, <2>2
<1> QED
  BY <1>6, <1>7, <1>8, <1>9, <1>10 DEF ProjectsInv

\* Startup binds the forms.
LEMMA StepFinishStartup ==
  ASSUME ProjectsInv, FinishStartup
  PROVE  ProjectsInv' /\ startup'.phase # startup.phase
<1>1. /\ startup.phase = "loaded" /\ startup' = [startup EXCEPT !.phase = "ready"]
      /\ forms' = IF Active # none THEN [forms EXCEPT !.project = Active] ELSE forms
      /\ UNCHANGED <<projects, rows, chain, written, switchSeq, stash, imports, picker,
                     typing, dialog, clicks, faults>>
  BY DEF FinishStartup
<1>2. /\ ProjectsTypeOK /\ Started /\ QueuedFits /\ DialogFits /\ UnderWay /\ LoadsFit /\ FormsFit
      /\ startup \in [run : Nat, phase : Phases, banner : BOOLEAN]
      /\ forms \in [project : Owners, text : Owners, refs : Owners] /\ Active \in Owners
  BY ClickTypes DEF ProjectsInv
<1>3. startup' \in [run : Nat, phase : Phases, banner : BOOLEAN] /\ startup'.phase = "ready"
  BY <1>1, <1>2 DEF Phases
<1>4. /\ forms' \in [project : Owners, text : Owners, refs : Owners]
      /\ forms'.project = IF Active # none THEN Active ELSE forms.project
  BY <1>1, <1>2
<1>5. ProjectsTypeOK'
  BY <1>1, <1>2, <1>3, <1>4 DEF ProjectsTypeOK
<1>6. Active' = Active
  BY <1>1 DEF Active, Listed
<1>7. Started' /\ QueuedFits' /\ DialogFits' /\ UnderWay'
  BY <1>1, <1>2 DEF Started, QueuedFits, DialogFits, UnderWay
<1>8. LoadsFit'
  BY <1>1, <1>2 DEF LoadsFit, LoadFits
<1>9. FormsFit'
  BY <1>1, <1>2, <1>3, <1>4, <1>6 DEF FormsFit
<1> QED
  BY <1>1, <1>3, <1>5, <1>7, <1>8, <1>9 DEF ProjectsInv

\* Every step preserves the invariant, and what it does to the drafts.
LEMMA NextProjects ==
  ASSUME ProjectsInv, [ProjectsNext]_projectVars
  PROVE  /\ ProjectsInv'
         /\ \A p \in ProjectIds :
              \/ Held(p)' = Held(p)
              \/ Held(p)' = Blank /\ p \notin Listed'
              \/ UNCHANGED <<projects, startup>> /\ forms.project = p /\ forms'.project = p
              \/ startup'.phase # startup.phase
<1>1. ASSUME NEW p \in ProjectIds, UNCHANGED <<forms, stash>> PROVE Held(p)' = Held(p)
  BY <1>1 DEF Held, Content
<1>2. CASE RemoveProject \/ OpenSettings \/ CloseSettings \/ \E profile \in Profiles : EditProfile(profile)
  <2>1. PICK profile \in Profiles : RemoveProject \/ OpenSettings \/ EditProfile(profile) \/ CloseSettings
    BY <1>2, ProjectsAssumption
  <2>2. UNCHANGED <<forms, stash>>
    BY <2>1 DEF RemoveProject, OpenSettings, EditProfile, CloseSettings
  <2> QED BY <1>1, <2>1, <2>2, StepDialogs
<1>3. CASE \E agreed \in BOOLEAN :
             TypePrompt \/ CommitPrompt \/ QueueImport \/ TakeImport \/ ApplyImport
               \/ ClosePicker \/ SendStoryboard \/ AnswerHandoff(agreed)
  <2>1. ProjectsInv' /\ UNCHANGED <<projects, stash, startup>> /\ forms'.project = forms.project
    BY <1>3, StepForms
  <2>2. ASSUME NEW p \in ProjectIds, forms.project # p PROVE Held(p)' = Held(p)
    BY <2>1, <2>2 DEF Held
  <2> QED BY <2>1, <2>2
<1>4. CASE \E agreed \in BOOLEAN :
             RetryStartup \/ (\E id \in ProjectIds : SwitchProject(id)) \/ CreateProject
               \/ AnswerRemove(agreed) \/ SaveSettings
  <2>1. ProjectsInv'
    BY <1>4, StepQueues
  <2>2. UNCHANGED <<forms, stash>>
    BY <1>4 DEF RetryStartup, SwitchProject, CreateProject, AnswerRemove, SaveSettings
  <2> QED BY <1>1, <2>1, <2>2
<1>5. CASE WriteProjects
  BY <1>1, <1>5, StepWriteProjects DEF WriteProjects
<1>6. CASE Settle
  BY <1>6, StepSettle
<1>7. CASE Reject
  BY <1>1, <1>7, StepReject DEF Reject
<1>8. CASE FinishStartup
  BY <1>8, StepFinishStartup
<1>9. CASE UNCHANGED projectVars
  <2>1. DialogFits' /\ ProjectsTypeOK'
    BY <1>9 DEF projectVars, ProjectsInv, DialogFits, ProjectsTypeOK
  <2> QED BY <1>1, <1>9, <2>1, QuietProjects DEF projectVars
<1> QED
  BY <1>2, <1>3, <1>4, <1>5, <1>6, <1>7, <1>8, <1>9 DEF ProjectsNext

\* The invariant of the projects.
THEOREM ProjectsInvariant == ProjectsSpec => []ProjectsInv
<1>1. ProjectsInv /\ [ProjectsNext]_projectVars => ProjectsInv'
  BY NextProjects
<1> QED
  BY <1>1, ProjectsInitInv, PTL DEF ProjectsSpec

\* The stores, the queue of writes, the forms and the dialogs keep their types,
\* and no list ever holds a project twice.
THEOREM ProjectsAreTyped == ProjectsSpec => []ProjectsTypeOK
<1>1. ProjectsInv => ProjectsTypeOK
  BY DEF ProjectsInv
<1> QED
  BY <1>1, ProjectsInvariant, PTL

\* The forms on screen belong to the selected project (FormsFollowActive),
\* whatever switches, creations, removals, reloads and failures interleave.
THEOREM FormsFollow == ProjectsSpec => []FormsFollowActive
<1>1. ProjectsInv => FormsFollowActive
  BY DEF ProjectsInv, FormsFit, FormsFollowActive
<1> QED
  BY <1>1, ProjectsInvariant, PTL

\* No draft of a project changes or is lost while another one is worked on
\* (DraftsSurvive).
THEOREM DraftsAreKept == ProjectsSpec => DraftsSurvive
<1>1. ASSUME ProjectsInv, [ProjectsNext]_projectVars
      PROVE  [\A p \in ProjectIds :
                Held(p)' # Held(p) =>
                  \/ UNCHANGED <<projects, startup>> /\ forms.project = p /\ forms'.project = p
                  \/ p \notin Listed'
                  \/ startup'.phase # startup.phase]_projectVars
  BY <1>1, NextProjects
<1> QED
  BY <1>1, ProjectsInvariant, PTL DEF ProjectsSpec, DraftsSurvive

\* What a step on the forms leaves in their references is of their own project.
LEMMA RefsAtHome ==
  ASSUME ProjectsInv, startup.phase # "loaded", NEW agreed \in BOOLEAN,
         TypePrompt \/ CommitPrompt \/ QueueImport \/ TakeImport \/ ApplyImport
           \/ ClosePicker \/ SendStoryboard \/ AnswerHandoff(agreed)
  PROVE  forms.project = none \/ forms'.refs \in {forms.refs, forms.project}
<1>1. /\ forms \in [project : Owners, text : Owners, refs : Owners]
      /\ forms.project \in {none, Active}
      /\ Active # none => projects.active = Active
  BY ClickTypes DEF ProjectsInv, FormsFit
<1>2. \/ forms'.refs = forms.refs
      \/ forms'.refs = projects.active
  BY <1>1 DEF TypePrompt, CommitPrompt, QueueImport, TakeImport, ApplyImport, ImportStillCurrent,
              ClosePicker, SendStoryboard, AnswerHandoff
<1> QED
  BY <1>1, <1>2

\* References never cross projects (ReferencesStayHome).
THEOREM ReferencesAreHome == ProjectsSpec => ReferencesStayHome
<1>1. ASSUME ProjectsInv, [ProjectsNext]_projectVars
      PROVE  [Crossed' => Crossed \/ startup' # startup \/ startup.phase = "loaded"]_projectVars
  <2> SUFFICES ASSUME ProjectsNext, ~Crossed, startup' = startup, startup.phase # "loaded"
               PROVE  ~Crossed'
    BY <1>1 DEF projectVars, Crossed, Held, Content
  <2> SUFFICES ASSUME NEW p \in ProjectIds PROVE Held(p)'.refs \in {none, p}
    BY DEF Crossed
  <2>1. Held(p).refs \in {none, p} /\ Blank.refs = none
    BY DEF Crossed, Blank
  <2>2. CASE Held(p)' = Held(p) \/ Held(p)' = Blank
    BY <2>1, <2>2
  <2>3. CASE UNCHANGED <<projects, startup>> /\ forms.project = p /\ forms'.project = p
             /\ Held(p)' # Held(p)
    <3>1. \/ \E agreed \in BOOLEAN :
               TypePrompt \/ CommitPrompt \/ QueueImport \/ TakeImport \/ ApplyImport
                 \/ ClosePicker \/ SendStoryboard \/ AnswerHandoff(agreed)
          \/ UNCHANGED <<forms, stash>>
          \/ Settle
      BY <2>3 DEF ProjectsNext, RemoveProject, OpenSettings, EditProfile, CloseSettings,
                  RetryStartup, SwitchProject, CreateProject, AnswerRemove, SaveSettings,
                  WriteProjects, Reject, FinishStartup
    <3>2. CASE \E agreed \in BOOLEAN :
                 TypePrompt \/ CommitPrompt \/ QueueImport \/ TakeImport \/ ApplyImport
                   \/ ClosePicker \/ SendStoryboard \/ AnswerHandoff(agreed)
      <4>1. forms'.refs \in {forms.refs, p}
        BY <1>1, <2>3, <3>2, RefsAtHome, ProjectsAssumption
      <4>2. Held(p).refs = forms.refs /\ Held(p)'.refs = forms'.refs
        BY <2>3 DEF Held, Content
      <4> QED BY <2>1, <4>1, <4>2
    <3>3. CASE UNCHANGED <<forms, stash>>
      BY <2>3, <3>3 DEF Held, Content
    <3>4. CASE Settle
      BY <1>1, <2>2, <2>3, <3>4, StepSettle
    <3> QED BY <3>1, <3>2, <3>3, <3>4
  <2> QED
    BY <1>1, <2>2, <2>3, NextProjects
<1> QED
  BY <1>1, ProjectsInvariant, PTL DEF ProjectsSpec, ReferencesStayHome
=============================================================================
