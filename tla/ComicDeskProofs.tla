-------------------------- MODULE ComicDeskProofs --------------------------
(***************************************************************************)
(* Proofs about ComicDesk, for any number of documents, operations, style  *)
(* pictures and clicks: what was typed on the comic page goes away only by *)
(* the user or once the backend has saved it.                              *)
(***************************************************************************)
EXTENDS ComicDesk, SequenceTheorems, TLAPS

---------------------------------------------------------------------------
\* The shapes of the state.
Revisions == Seq(Nat) \ {<<>>}
PictureSets == SUBSET (StylePictures \cup {0})
Drafts == [text : Nat, base : Nat]
JobRows == [kind : {"optimize", "generate", "render", "sync"}, doc : Docs,
            status : {"running", "succeeded", "failed"}, targets : SUBSET Docs,
            revisions : [Docs -> Nat]]
Injections == [text : Nat, revision : Nat]
Visuals == [text : Nat, references : PictureSets, revision : Nat]
Stores == [versions : [Docs -> Revisions], outdated : SUBSET Docs, jobs : Seq(JobRows),
           injection : Injections, visual : Visuals]
OlderDrafts == [doc : Docs, version : Nat, text : Nat]
Awaited == [job : Nat, revision : Nat, epoch : Nat]
Editors == [doc : Docs, epoch : Nat, pending : Awaited \cup {Unasked}]
Sent == [text : Nat, draft : Drafts, expected : Nat]
EditorOps == [kind : {"save", "optimize"}, live : BOOLEAN, doc : Docs, version : Nat,
              phase : Unsent \cup {"sent", "answer", "saved", "refresh"}, visual : Visuals,
              epoch : Nat, ack : BOOLEAN, sent : Sent, shown : Nat \ {0}, needed : BOOLEAN]
Unsaved == [injection : Drafts, constitution : Nat, references : PictureSets,
            conflict : BOOLEAN]
Steps == {"injection", "visual", "extract", "generate", "render", "sync"}
Actions == [todo : Seq(Steps), sent : Drafts, page : Stores, doc : Docs, constitution : Nat,
            references : PictureSets, dirty : BOOLEAN, injection : BOOLEAN, conflict : BOOLEAN]
Readings == [phase : {"none", "asked"}] \cup [phase : {"read"}, copy : Stores]

ComicShapes ==
  /\ clicks \in Nat
  /\ comicStore \in Stores /\ page \in Stores
  /\ reading \in Readings
  /\ live \in [Docs -> Drafts]
  /\ older \subseteq OlderDrafts
  /\ opened \in [Docs -> Nat]
  /\ editor \in Editors
  /\ ops \in [Ops -> EditorOps \cup {NoOp}]
  /\ notes \in Unsaved
  /\ upload \in PictureSets
  /\ action \in Actions \cup {AtEase}

\* A copy has a beginning of each document's versions.
Behind(s, t) ==
  \A d \in Docs : /\ Revision(s, d) <= Revision(t, d)
                  /\ \A r \in 1..Revision(s, d) : t.versions[d][r] = s.versions[d][r]

CopiesAreBehind ==
  /\ Behind(page, comicStore)
  /\ reading.phase = "read" => Behind(reading.copy, comicStore)

\* Drafts, opened versions and operations name revisions there are.
RevisionsExist ==
  /\ \A d \in Docs : live[d].base <= Revision(comicStore, d) /\ opened[d] <= Revision(comicStore, d)
  /\ \A i \in Ops : ops[i] # NoOp => ops[i].shown <= Revision(comicStore, ops[i].doc)

\* At most one operation is the editor's on screen, and it is about its document.
OneEditor ==
  \A i \in Ops : ops[i] # NoOp /\ ops[i].live =>
    /\ ops[i].doc = editor.doc
    /\ \A j \in Ops \ {i} : ops[j] # NoOp => ~ops[j].live

\* The draft of the document on screen is none, or saved already.
SafeText(text) == text \in SavedText(comicStore, editor.doc)
LiveSafe == live[editor.doc] = Unsaid \/ SafeText(live[editor.doc].text)

\* An optimization under way for which nothing was typed since has left no
\* unsaved draft, unless a version covers it.
PendingSafe ==
  editor.pending # Unasked =>
    /\ editor.pending.epoch <= editor.epoch
    /\ editor.pending.epoch = editor.epoch /\ opened[editor.doc] = 0 => LiveSafe

\* What an operation of the editor has sent is the draft it will drop.
OpSafe(op) ==
  LET Untouched == op.epoch = editor.epoch /\ opened[editor.doc] = 0 IN
  /\ op.epoch <= editor.epoch
  /\ op.phase \in Unsent =>
       /\ op.kind = "optimize"
       /\ op.version = 0 /\ opened[editor.doc] # 0 => LiveSafe
       /\ ~op.needed /\ Untouched => LiveSafe
  /\ op.phase \in {"sent", "answer"} /\ op.version = 0 =>
       /\ \/ op.sent.draft = Unsaid \/ op.sent.text = op.sent.draft.text
          \/ SafeText(op.sent.draft.text)
       /\ op.kind = "optimize" /\ Untouched => LiveSafe \/ live[editor.doc].text = op.sent.text
  /\ op.phase = "answer" => SafeText(op.sent.text)
  /\ op.phase = "saved" => op.kind = "optimize" /\ (Untouched => LiveSafe)

OpsSafe == \A i \in Ops : ops[i] # NoOp /\ ops[i].live => OpSafe(ops[i])

\* While the saved injection's answer is on its way, the backend has that text.
InjectionSent ==
  Doing("injection") /\ action.sent # Unsaid => action.sent.text = comicStore.injection.text

ComicInv ==
  /\ ComicShapes /\ CopiesAreBehind /\ RevisionsExist /\ OneEditor
  /\ PendingSafe /\ OpsSafe /\ InjectionSent
---------------------------------------------------------------------------
\* The parts of a workspace, and its newest versions.
LEMMA StoreShape ==
  ASSUME NEW s \in Stores, NEW d \in Docs
  PROVE  /\ s.versions \in [Docs -> Revisions] /\ s.versions[d] \in Seq(Nat)
         /\ Revision(s, d) \in Nat \ {0}
         /\ HeadText(s, d) \in Nat
         /\ HeadText(s, d) = s.versions[d][Revision(s, d)]
         /\ SavedText(s, d) = {s.versions[d][r] : r \in 1..Revision(s, d)}
         /\ HeadText(s, d) \in SavedText(s, d)
<1>1. s.versions \in [Docs -> Revisions] /\ s.versions[d] \in Seq(Nat) /\ s.versions[d] # <<>>
  BY DEF Stores, Revisions
<1>2. Len(s.versions[d]) \in Nat \ {0} /\ DOMAIN s.versions[d] = 1..Len(s.versions[d])
  BY <1>1
<1>3. \A r \in 1..Len(s.versions[d]) : s.versions[d][r] \in Nat
  BY <1>1, <1>2
<1> QED
  BY <1>1, <1>2, <1>3 DEF Revision, HeadText, Last, SavedText

\* A workspace is a beginning of itself, and of what a later one continues.
LEMMA BehindItself ==
  ASSUME NEW s \in Stores
  PROVE  Behind(s, s)
  BY StoreShape DEF Behind

\* A beginning of a beginning is one.
LEMMA BehindOn ==
  ASSUME NEW s \in Stores, NEW t \in Stores, NEW u \in Stores, Behind(s, t), Behind(t, u)
  PROVE  Behind(s, u)
<1> SUFFICES ASSUME NEW d \in Docs
             PROVE  /\ Revision(s, d) <= Revision(u, d)
                    /\ \A r \in 1..Revision(s, d) : u.versions[d][r] = s.versions[d][r]
  BY DEF Behind
<1>1. Revision(s, d) \in Nat /\ Revision(t, d) \in Nat /\ Revision(u, d) \in Nat
  BY StoreShape
<1> QED
  BY <1>1 DEF Behind

\* What was saved stays saved.
LEMMA SavedOn ==
  ASSUME NEW s \in Stores, NEW t \in Stores, Behind(s, t), NEW d \in Docs
  PROVE  SavedText(s, d) \subseteq SavedText(t, d) /\ HeadText(s, d) \in SavedText(t, d)
<1>1. Revision(s, d) \in Nat /\ Revision(t, d) \in Nat /\ Revision(s, d) <= Revision(t, d)
  BY StoreShape DEF Behind
<1>2. /\ SavedText(s, d) = {s.versions[d][r] : r \in 1..Revision(s, d)}
      /\ SavedText(t, d) = {t.versions[d][r] : r \in 1..Revision(t, d)}
      /\ HeadText(s, d) \in SavedText(s, d)
  BY StoreShape
<1>3. \A r \in 1..Revision(s, d) : t.versions[d][r] = s.versions[d][r]
  BY DEF Behind
<1> QED
  BY <1>1, <1>2, <1>3

\* A workspace with the same documents and versions is a beginning too.
LEMMA BehindSame ==
  ASSUME NEW s \in Stores, NEW t \in Stores, t.versions = s.versions
  PROVE  Behind(s, t)
<1> SUFFICES ASSUME NEW d \in Docs
             PROVE  /\ Revision(s, d) <= Revision(t, d)
                    /\ \A r \in 1..Revision(s, d) : t.versions[d][r] = s.versions[d][r]
  BY DEF Behind
<1>1. Revision(s, d) \in Nat
  BY StoreShape
<1> QED
  BY <1>1 DEF Revision

\* Versions that are appended to leave a beginning.
LEMMA BehindMore ==
  ASSUME NEW s \in Stores, NEW t \in Stores,
         \A d \in Docs : \/ t.versions[d] = s.versions[d]
                         \/ \E text \in Nat : t.versions[d] = Append(s.versions[d], text)
  PROVE  Behind(s, t)
<1> SUFFICES ASSUME NEW d \in Docs
             PROVE  /\ Revision(s, d) <= Revision(t, d)
                    /\ \A r \in 1..Revision(s, d) : t.versions[d][r] = s.versions[d][r]
  BY DEF Behind
<1>1. s.versions[d] \in Seq(Nat) /\ Len(s.versions[d]) \in Nat
  BY StoreShape DEF Revision
<1>2. CASE t.versions[d] = s.versions[d]
  BY <1>1, <1>2 DEF Revision
<1>3. ASSUME NEW text \in Nat, t.versions[d] = Append(s.versions[d], text)
      PROVE  /\ Revision(s, d) <= Revision(t, d)
             /\ \A r \in 1..Revision(s, d) : t.versions[d][r] = s.versions[d][r]
  BY <1>1, <1>3 DEF Revision
<1> QED
  BY <1>2, <1>3

---------------------------------------------------------------------------
\* What the editor shows, and what a save would send of it.
LEMMA VisibleText ==
  ASSUME ComicShapes, RevisionsExist
  PROVE  /\ Visible \in Nat
         /\ opened[editor.doc] = 0 /\ live[editor.doc] # Unsaid => Visible = live[editor.doc].text
         /\ opened[editor.doc] = 0 /\ live[editor.doc] = Unsaid => Visible = HeadText(page, editor.doc)
<1> DEFINE d == editor.doc
<1>1. d \in Docs
  BY DEF ComicShapes, Editors
<1>2. /\ comicStore \in Stores /\ page \in Stores /\ live[d] \in Drafts /\ opened[d] \in Nat
      /\ opened[d] <= Revision(comicStore, d)
  BY <1>1 DEF ComicShapes, RevisionsExist
<1>3. HeadText(page, d) \in Nat /\ live[d].text \in Nat
  BY <1>1, <1>2, StoreShape DEF Drafts
<1>4. ASSUME opened[d] # 0
      PROVE  comicStore.versions[d][opened[d]] \in Nat
  <2>1. comicStore.versions[d] \in Seq(Nat) /\ opened[d] \in 1..Len(comicStore.versions[d])
    BY <1>1, <1>2, <1>4, StoreShape DEF Revision
  <2> QED
    BY <2>1
<1>5. ASSUME NEW v, OlderDraft(d, v) # {}
      PROVE  (CHOOSE o \in OlderDraft(d, v) : TRUE).text \in Nat
  <2>1. (CHOOSE o \in OlderDraft(d, v) : TRUE) \in OlderDrafts
    BY <1>5 DEF OlderDraft, ComicShapes
  <2> QED
    BY <2>1 DEF OlderDrafts
<1> QED
  BY <1>3, <1>4, <1>5 DEF Visible, Version

\* What a save would send: the draft on screen, or what covers it.
LEMMA SubmittedShape ==
  ASSUME ComicShapes, RevisionsExist
  PROVE  /\ Submitted \in Sent /\ Submitted.draft = live[editor.doc]
         /\ opened[editor.doc] = 0 => Submitted.draft = Unsaid \/ Submitted.text = Submitted.draft.text
<1> DEFINE d == editor.doc
<1>1. d \in Docs
  BY DEF ComicShapes, Editors
<1>2. live[d] \in Drafts /\ live[d].base \in Nat /\ Revision(page, d) \in Nat
  BY <1>1, StoreShape DEF ComicShapes, Drafts
<1>3. Visible \in Nat /\ (opened[d] = 0 /\ live[d] # Unsaid => Visible = live[d].text)
  BY VisibleText
<1>4. Submitted = [text |-> Visible, draft |-> live[d],
                   expected |-> IF live[d] # Unsaid THEN live[d].base ELSE Revision(page, d)]
  BY DEF Submitted
<1> QED
  BY <1>2, <1>3, <1>4 DEF Sent

\* A draft that does not differ from a copy of the workspace is saved.
LEMMA UnchangedIsSaved ==
  ASSUME ComicShapes, NEW s \in Stores, Behind(s, comicStore),
         ~Changed(live[editor.doc], s, editor.doc)
  PROVE  LiveSafe
<1> DEFINE d == editor.doc
<1>1. d \in Docs /\ comicStore \in Stores
  BY DEF ComicShapes, Editors
<1>2. HeadText(s, d) \in SavedText(comicStore, d)
  BY <1>1, SavedOn
<1> QED
  BY <1>2 DEF Changed, LiveSafe, SafeText
---------------------------------------------------------------------------
(* What a step leaves: one lemma for each part of the invariant.           *)

\* The backend moves on, and a copy is kept, read or shown.
LEMMA CopiesStay ==
  ASSUME ComicShapes, ComicShapes', CopiesAreBehind, Behind(comicStore, comicStore'),
         page' = page \/ (reading.phase = "read" /\ page' = reading.copy),
         reading'.phase = "read" => reading' = reading \/ reading'.copy = comicStore'
  PROVE  CopiesAreBehind'
<1>1. /\ comicStore \in Stores /\ comicStore' \in Stores /\ page \in Stores /\ page' \in Stores
      /\ reading.phase = "read" => reading.copy \in Stores
      /\ reading'.phase = "read" => reading'.copy \in Stores
  BY DEF ComicShapes, Readings
<1>2. Behind(page, comicStore) /\ (reading.phase = "read" => Behind(reading.copy, comicStore))
  BY DEF CopiesAreBehind
<1>3. Behind(page', comicStore')
  BY <1>1, <1>2, BehindOn
<1>4. ASSUME reading'.phase = "read"
      PROVE  Behind(reading'.copy, comicStore')
  <2>1. CASE reading' = reading
    BY <1>1, <1>2, <1>4, <2>1, BehindOn
  <2>2. CASE reading'.copy = comicStore'
    BY <1>1, <1>4, <2>2, BehindItself
  <2> QED
    BY <1>4, <2>1, <2>2
<1>5. Behind(page, comicStore)' /\ (reading'.phase = "read" => Behind(reading.copy, comicStore)')
  BY <1>3, <1>4 DEF Behind, Revision
<1> QED
  BY <1>5 DEF CopiesAreBehind

\* Later workspaces have the revisions there were.
LEMMA RevisionOn ==
  ASSUME ComicShapes, ComicShapes', Behind(comicStore, comicStore'), NEW d \in Docs
  PROVE  /\ Revision(comicStore, d) <= Revision(comicStore', d)
         /\ Revision(comicStore, d) \in Nat \ {0} /\ Revision(comicStore', d) \in Nat \ {0}
         /\ SavedText(comicStore, d) \subseteq SavedText(comicStore', d)
  BY StoreShape, SavedOn DEF ComicShapes, Behind

\* Drafts, versions and operations that stay, or name revisions there are.
LEMMA RevisionsStay ==
  ASSUME ComicShapes, ComicShapes', RevisionsExist, Behind(comicStore, comicStore'),
         \A d \in Docs : live'[d] = live[d] \/ live'[d].base <= Revision(comicStore', d),
         \A d \in Docs : opened'[d] = opened[d] \/ opened'[d] <= Revision(comicStore', d),
         \A i \in Ops : \/ ops'[i] = NoOp
                        \/ ops[i] # NoOp /\ ops'[i].doc = ops[i].doc /\ ops'[i].shown = ops[i].shown
                        \/ ops'[i].shown <= Revision(comicStore', ops'[i].doc)
  PROVE  RevisionsExist'
<1>1. ASSUME NEW d \in Docs
      PROVE  live'[d].base <= Revision(comicStore', d) /\ opened'[d] <= Revision(comicStore', d)
  <2>1. /\ Revision(comicStore, d) <= Revision(comicStore', d)
        /\ Revision(comicStore, d) \in Nat /\ Revision(comicStore', d) \in Nat
    BY RevisionOn
  <2>2. live[d].base \in Nat /\ opened[d] \in Nat
    BY DEF ComicShapes, Drafts
  <2>3. live[d].base <= Revision(comicStore, d) /\ opened[d] <= Revision(comicStore, d)
    BY DEF RevisionsExist
  <2> QED
    BY <2>1, <2>2, <2>3
<1>2. ASSUME NEW i \in Ops, ops'[i] # NoOp
      PROVE  ops'[i].shown <= Revision(comicStore', ops'[i].doc)
  <2>1. CASE ops[i] # NoOp /\ ops'[i].doc = ops[i].doc /\ ops'[i].shown = ops[i].shown
    <3>1. ops[i] \in EditorOps
      BY <2>1 DEF ComicShapes
    <3>2. ops[i].doc \in Docs /\ ops[i].shown \in Nat
      BY <3>1 DEF EditorOps
    <3>3. /\ Revision(comicStore, ops[i].doc) <= Revision(comicStore', ops[i].doc)
          /\ Revision(comicStore, ops[i].doc) \in Nat /\ Revision(comicStore', ops[i].doc) \in Nat
      BY <3>2, RevisionOn
    <3>4. ops[i].shown <= Revision(comicStore, ops[i].doc)
      BY <2>1 DEF RevisionsExist
    <3> QED
      BY <2>1, <3>2, <3>3, <3>4
  <2> QED
    BY <1>2, <2>1
<1>3. /\ \A d \in Docs : live'[d].base <= Revision(comicStore, d)'
                          /\ opened'[d] <= Revision(comicStore, d)'
      /\ \A i \in Ops : ops'[i] # NoOp => ops'[i].shown <= Revision(comicStore, ops[i].doc)'
  BY <1>1, <1>2 DEF Revision
<1> QED
  BY <1>3 DEF RevisionsExist

\* The draft on screen stays, goes, or changes its revision.
LiveKept ==
  LET d == editor.doc IN
  \/ live'[d] \in {live[d], Unsaid}
  \/ live[d] # Unsaid /\ live'[d].text = live[d].text

\* Saved texts of the document on screen stay saved.
LEMMA SafeStays ==
  ASSUME ComicShapes, ComicShapes', Behind(comicStore, comicStore'), editor'.doc = editor.doc
  PROVE  /\ \A text : SafeText(text) => SafeText(text)'
         /\ LiveSafe /\ LiveKept => LiveSafe'
<1>1. editor.doc \in Docs
  BY DEF ComicShapes, Editors
<1>2. SavedText(comicStore, editor.doc) \subseteq SavedText(comicStore', editor.doc)
  BY <1>1, RevisionOn
<1>3. \A text : SafeText(text) => text \in SavedText(comicStore', editor'.doc)
  BY <1>2 DEF SafeText
<1>4. \A text : SafeText(text) => SafeText(text)'
  BY <1>3 DEF SafeText, SavedText
<1>5. LiveSafe /\ LiveKept => LiveSafe'
  BY <1>4 DEF LiveSafe, LiveKept
<1> QED
  BY <1>4, <1>5
\* An operation stays safe while its document is on screen, its draft is kept,
\* and versions are opened or closed only over a saved one.
LEMMA OpStays ==
  ASSUME ComicShapes, ComicShapes', Behind(comicStore, comicStore'),
         editor'.doc = editor.doc, editor'.epoch >= editor.epoch, LiveKept,
         \/ opened'[editor.doc] = opened[editor.doc]
         \/ opened'[editor.doc] # 0 /\ (opened[editor.doc] # 0 \/ LiveSafe)
         \/ LiveSafe,
         NEW op \in EditorOps, OpSafe(op)
  PROVE  OpSafe(op)'
<1> DEFINE d == editor.doc
           Untouched == op.epoch = editor.epoch /\ opened[d] = 0
<1>1. editor.epoch \in Nat /\ editor'.epoch \in Nat /\ op.epoch \in Nat
  BY DEF ComicShapes, Editors, EditorOps
<1>2. /\ \A text : SafeText(text) => SafeText(text)'
      /\ LiveSafe => LiveSafe'
  BY SafeStays
<1>3. op.epoch <= editor.epoch /\ op.epoch <= editor'.epoch
  BY <1>1 DEF OpSafe
<1>4. Untouched' => Untouched \/ LiveSafe
  BY <1>1, <1>3
<1>5. op.phase \in Unsent =>
        /\ op.kind = "optimize"
        /\ op.version = 0 /\ opened'[d] # 0 => LiveSafe'
        /\ ~op.needed /\ Untouched' => LiveSafe'
  BY <1>2, <1>4 DEF OpSafe
<1>6. op.phase \in {"sent", "answer"} /\ op.version = 0 =>
       /\ \/ op.sent.draft = Unsaid \/ op.sent.text = op.sent.draft.text
          \/ SafeText(op.sent.draft.text)'
       /\ op.kind = "optimize" /\ Untouched' => LiveSafe' \/ live'[d].text = op.sent.text
  BY <1>2, <1>4 DEF OpSafe, LiveKept, LiveSafe
<1>7. /\ op.phase = "answer" => SafeText(op.sent.text)'
      /\ op.phase = "saved" => op.kind = "optimize" /\ (Untouched' => LiveSafe')
  BY <1>2, <1>4 DEF OpSafe
<1> QED
  BY <1>3, <1>5, <1>6, <1>7 DEF OpSafe

\* The same of the optimization awaited.
LEMMA PendingStays ==
  ASSUME ComicShapes, ComicShapes', PendingSafe, Behind(comicStore, comicStore'),
         editor'.doc = editor.doc, editor'.epoch >= editor.epoch, LiveKept,
         opened'[editor.doc] = opened[editor.doc] \/ opened'[editor.doc] # 0 \/ LiveSafe,
         editor'.pending = editor.pending \/ editor'.pending = Unasked
  PROVE  PendingSafe'
<1>1. /\ editor.epoch \in Nat /\ editor'.epoch \in Nat
      /\ editor.pending # Unasked => editor.pending.epoch \in Nat
  BY DEF ComicShapes, Editors, Awaited
<1>2. LiveSafe => LiveSafe'
  BY SafeStays
<1> SUFFICES ASSUME editor'.pending # Unasked
             PROVE  /\ editor.pending.epoch <= editor'.epoch
                    /\ editor.pending.epoch = editor'.epoch /\ opened'[editor.doc] = 0 => LiveSafe'
  BY DEF PendingSafe, Unasked
<1>3. /\ editor.pending # Unasked
      /\ editor.pending.epoch <= editor.epoch
      /\ editor.pending.epoch = editor.epoch /\ opened[editor.doc] = 0 => LiveSafe
  BY DEF PendingSafe
<1> QED
  BY <1>1, <1>2, <1>3

\* What an operation of the editor may have changed elsewhere leaves the others.
LEMMA OpsStay ==
  ASSUME ComicShapes, ComicShapes', OpsSafe, Behind(comicStore, comicStore'),
         editor'.doc = editor.doc, editor'.epoch >= editor.epoch, LiveKept,
         \/ opened'[editor.doc] = opened[editor.doc]
         \/ opened'[editor.doc] # 0 /\ (opened[editor.doc] # 0 \/ LiveSafe)
         \/ LiveSafe,
         \A i \in Ops : ops'[i] = NoOp \/ ops'[i] = ops[i] \/ (ops'[i].live => OpSafe(ops[i])')
  PROVE  OpsSafe'
<1>1. ASSUME NEW i \in Ops, ops'[i] # NoOp, ops'[i].live, ops'[i] = ops[i]
      PROVE  OpSafe(ops[i])'
  <2>1. PICK op \in EditorOps : op = ops[i]
    BY <1>1 DEF ComicShapes
  <2>2. OpSafe(op)
    BY <1>1, <2>1 DEF OpsSafe
  <2>3. OpSafe(op)'
    BY <2>2, OpStays
  <2>4. op = ops[i]'
    BY <1>1, <2>1
  <2> QED
    BY <2>3, <2>4 DEF OpSafe, SafeText
<1> QED
  BY <1>1 DEF OpsSafe
\* A step that leaves the editors alone, whatever the backend saves.
LEMMA EditorsStay ==
  ASSUME ComicInv, ComicShapes', UNCHANGED <<live, opened, editor, ops>>,
         Behind(comicStore, comicStore'), page' = page,
         reading'.phase = "read" => reading' = reading \/ reading'.copy = comicStore',
         InjectionSent'
  PROVE  ComicInv'
<1>1. /\ ComicShapes /\ CopiesAreBehind /\ RevisionsExist /\ OneEditor
      /\ PendingSafe /\ OpsSafe
  BY DEF ComicInv
<1>2. editor.epoch \in Nat /\ editor'.epoch = editor.epoch /\ editor'.doc = editor.doc
  BY <1>1 DEF ComicShapes, Editors
<1>3. LiveKept /\ opened'[editor.doc] = opened[editor.doc] /\ editor'.epoch >= editor.epoch
  BY <1>2 DEF LiveKept
<1>4. CopiesAreBehind'
  BY <1>1, CopiesStay
<1>5. RevisionsExist'
  <2>1. \A i \in Ops : \/ ops'[i] = NoOp
                       \/ ops[i] # NoOp /\ ops'[i].doc = ops[i].doc /\ ops'[i].shown = ops[i].shown
    OBVIOUS
  <2> QED
    BY <1>1, <2>1, RevisionsStay
<1>6. OneEditor'
  BY <1>1 DEF OneEditor
<1>7. PendingSafe'
  BY <1>1, <1>2, <1>3, PendingStays
<1>8. OpsSafe'
  BY <1>1, <1>2, <1>3, OpsStay
<1> QED
  BY <1>4, <1>5, <1>6, <1>7, <1>8 DEF ComicInv

\* A click counts on, any other step does not.
LEMMA ClicksShape ==
  ASSUME ComicShapes
  PROVE  /\ ComicClick => clicks' \in Nat /\ clicks' # clicks
         /\ ComicIdle => clicks' = clicks
  BY DEF ComicShapes, ComicClick, ComicIdle, Spend

\* The injection's answer is on its way as before.
LEMMA InjectionStays ==
  ASSUME InjectionSent, action' = action, comicStore'.injection = comicStore.injection
  PROVE  InjectionSent'
  BY DEF InjectionSent, Doing

---------------------------------------------------------------------------
(* The backend's jobs and the polled copy.                                 *)

\* A step of the jobs changes their rows and what is outdated, and appends to
\* documents.
LEMMA JobsStay ==
  ASSUME ComicInv, NEW rows \in Seq(JobRows), NEW texts, NEW old \in SUBSET Docs,
         texts \in [Docs -> Revisions],
         \A d \in Docs : \/ texts[d] = comicStore.versions[d]
                         \/ \E text \in Nat : texts[d] = Append(comicStore.versions[d], text),
         comicStore' = [comicStore EXCEPT !.jobs = rows, !.versions = texts, !.outdated = old],
         UNCHANGED <<page, reading, live, older, opened, editor, ops, notes, upload, action, clicks>>
  PROVE  ComicInv'
<1>1. ComicShapes /\ InjectionSent /\ comicStore \in Stores
  BY DEF ComicInv, ComicShapes
<1>2. comicStore' \in Stores /\ comicStore'.versions = texts
      /\ comicStore'.injection = comicStore.injection
  BY <1>1 DEF Stores
<1>3. Behind(comicStore, comicStore')
  <2>1. \A d \in Docs : \/ comicStore'.versions[d] = comicStore.versions[d]
                        \/ \E text \in Nat : comicStore'.versions[d] = Append(comicStore.versions[d], text)
    BY <1>2
  <2> QED
    BY <1>1, <1>2, <2>1, BehindMore
<1>4. ComicShapes'
  BY <1>1, <1>2 DEF ComicShapes
<1>5. InjectionSent'
  BY <1>1, <1>2, InjectionStays
<1> QED
  BY <1>3, <1>4, <1>5, EditorsStay

\* A job saves one document.
LEMMA JobSavesInv ==
  ASSUME ComicInv, JobSaves
  PROVE  ComicInv'
<1>1. comicStore \in Stores
  BY DEF ComicInv, ComicShapes
<1>2. PICK i \in DOMAIN comicStore.jobs :
        \E d \in comicStore.jobs[i].targets :
          comicStore' = [comicStore EXCEPT
             !.versions[d] = Append(@, 100 + 10 * i + d),
             !.outdated = (@ \ {d}) \cup (d + 1 .. DocCount),
             !.jobs[i] = AfterSaving(comicStore.jobs[i], d)]
  BY Zenon DEF JobSaves
<1> DEFINE job == comicStore.jobs[i]
<1>3. PICK d \in job.targets :
        comicStore' = [comicStore EXCEPT
           !.versions[d] = Append(@, 100 + 10 * i + d),
           !.outdated = (@ \ {d}) \cup (d + 1 .. DocCount),
           !.jobs[i] = AfterSaving(job, d)]
  BY <1>2
<1>4. /\ comicStore.jobs \in Seq(JobRows) /\ i \in 1..Len(comicStore.jobs) /\ i \in Nat
      /\ job \in JobRows
  BY <1>1 DEF Stores
<1>5. d \in Docs /\ d \in Nat /\ job.revisions[d] \in Nat
  <2>1. job.targets \in SUBSET Docs /\ job.revisions \in [Docs -> Nat]
    BY <1>4 DEF JobRows
  <2>2. d \in Docs
    BY <2>1
  <2>3. d \in Nat
    BY <2>2 DEF Docs
  <2>4. job.revisions[d] \in Nat
    BY <2>1, <2>2
  <2> QED
    BY <2>2, <2>3, <2>4
<1> DEFINE saved == AfterSaving(job, d)
           rows == [comicStore.jobs EXCEPT ![i] = saved]
           texts == [comicStore.versions EXCEPT ![d] = Append(@, 100 + 10 * i + d)]
           old == (comicStore.outdated \ {d}) \cup (d + 1 .. DocCount)
<1>6. saved \in JobRows
  <2>1. [job.revisions EXCEPT ![d] = @ + 1] \in [Docs -> Nat] /\ job.targets \ {d} \in SUBSET Docs
    BY <1>4, <1>5 DEF JobRows
  <2>2. saved = [job EXCEPT !.targets = job.targets \ {d},
                            !.revisions = [job.revisions EXCEPT ![d] = @ + 1]]
    BY <1>4 DEF AfterSaving, JobRows
  <2> QED
    BY <1>4, <2>1, <2>2 DEF JobRows
<1>7. comicStore' = [comicStore EXCEPT !.jobs = rows, !.versions = texts, !.outdated = old]
  <2> HIDE DEF saved
  <2>1. comicStore' = [comicStore EXCEPT !.versions = texts, !.outdated = old, !.jobs = rows]
    BY <1>3 DEF saved
  <2> QED
    BY <1>1, <2>1 DEF Stores
<1>8. rows \in Seq(JobRows)
  <2> HIDE DEF saved
  <2> QED
    BY <1>4, <1>6
<1>9. PICK n \in Nat : n = 100 + 10 * i + d
  BY <1>4, <1>5
<1>10. /\ comicStore.versions \in [Docs -> Revisions]
       /\ comicStore.versions[d] \in Seq(Nat)
  BY <1>1, <1>5, StoreShape
<1>11. Append(comicStore.versions[d], n) \in Revisions
  <2>1. Append(comicStore.versions[d], n) \in Seq(Nat) /\ Append(comicStore.versions[d], n) # <<>>
    BY <1>10
  <2> QED
    BY <2>1 DEF Revisions
<1>12. texts = [comicStore.versions EXCEPT ![d] = Append(comicStore.versions[d], n)]
  BY <1>9
<1>13. /\ texts \in [Docs -> Revisions]
       /\ \A e \in Docs : \/ texts[e] = comicStore.versions[e]
                          \/ \E text \in Nat : texts[e] = Append(comicStore.versions[e], text)
  BY <1>10, <1>11, <1>12
<1>14. old \in SUBSET Docs
  <2>1. comicStore.outdated \in SUBSET Docs
    BY <1>1 DEF Stores
  <2>2. d + 1 .. DocCount \in SUBSET Docs
    BY <1>5 DEF Docs
  <2> QED
    BY <2>1, <2>2
<1>15. UNCHANGED <<page, reading, live, older, opened, editor, ops, notes, upload, action, clicks>>
  BY DEF JobSaves, ComicIdle
<1> HIDE DEF rows, texts, old
<1> QED
  BY <1>7, <1>8, <1>13, <1>14, <1>15, JobsStay

\* A job ends.
LEMMA JobEndsInv ==
  ASSUME ComicInv, JobEnds
  PROVE  ComicInv'
<1>1. comicStore \in Stores
  BY DEF ComicInv, ComicShapes
<1>2. PICK i \in DOMAIN comicStore.jobs, status \in {"succeeded", "failed"} :
        comicStore' = [comicStore EXCEPT !.jobs[i].status = status]
  BY DEF JobEnds
<1> DEFINE ended == [comicStore.jobs[i] EXCEPT !.status = status]
           rows == [comicStore.jobs EXCEPT ![i] = ended]
<1>3. comicStore.jobs \in Seq(JobRows) /\ i \in 1..Len(comicStore.jobs)
      /\ comicStore.jobs[i] \in JobRows
  BY <1>1 DEF Stores
<1>4. ended \in JobRows
  BY <1>3 DEF JobRows
<1>5. rows \in Seq(JobRows)
  <2> HIDE DEF ended
  <2> QED
    BY <1>3, <1>4
<1>6. /\ comicStore.versions \in [Docs -> Revisions] /\ comicStore.outdated \in SUBSET Docs
      /\ comicStore' = [comicStore EXCEPT !.jobs = rows, !.versions = comicStore.versions,
                                          !.outdated = comicStore.outdated]
  BY <1>1, <1>2 DEF Stores
<1>7. UNCHANGED <<page, reading, live, older, opened, editor, ops, notes, upload, action, clicks>>
  BY DEF JobEnds, ComicIdle
<1> HIDE DEF rows
<1> QED
  BY <1>5, <1>6, <1>7, JobsStay

\* The workspace is asked for and read.
LEMMA ReadInv ==
  ASSUME ComicInv, Poll \/ ReadWorkspace
  PROVE  ComicInv'
<1>1. ComicShapes /\ InjectionSent /\ comicStore \in Stores
  BY DEF ComicInv, ComicShapes
<1>2. /\ UNCHANGED <<comicStore, page, live, older, opened, editor, ops, notes, upload, action>>
      /\ clicks' = clicks
      /\ reading' \in Readings
      /\ reading'.phase = "read" => reading'.copy = comicStore'
  BY <1>1 DEF Poll, ReadWorkspace, Asked, ComicIdle, Readings
<1>3. ComicShapes' /\ InjectionSent'
  BY <1>1, <1>2, InjectionStays DEF ComicShapes
<1>4. Behind(comicStore, comicStore')
  BY <1>1, <1>2, BehindItself
<1> QED
  BY <1>2, <1>3, <1>4, EditorsStay

\* A read workspace is shown; a finished optimization opens its result over a draft
\* that is saved, or that is the same.
LEMMA ShowInv ==
  ASSUME ComicInv, ShowWorkspace
  PROVE  ComicInv'
<1>1. /\ ComicShapes /\ CopiesAreBehind /\ RevisionsExist /\ OneEditor
      /\ PendingSafe /\ OpsSafe /\ InjectionSent
  BY DEF ComicInv
<1> DEFINE next == reading.copy
           d == editor.doc
           p == editor.pending
           ended == p # Unasked /\ next.jobs[p.job].status # "running"
           show == /\ ended /\ next.jobs[p.job].status = "succeeded"
                   /\ Revision(next, d) > p.revision /\ editor.epoch = p.epoch
<1>2. /\ reading.phase = "read" /\ reading' = [phase |-> "none"] /\ page' = next
      /\ editor' = IF ended THEN [editor EXCEPT !.pending = Unasked] ELSE editor
      /\ opened' = IF show THEN [opened EXCEPT ![d] = IF Changed(live[d], next, d)
                                                      THEN Revision(next, d) ELSE 0]
                   ELSE opened
      /\ UNCHANGED <<comicStore, live, older, ops, notes, upload, action>> /\ clicks' = clicks
  BY DEF ShowWorkspace, ComicIdle
<1>3. /\ editor \in Editors /\ d \in Docs /\ opened \in [Docs -> Nat] /\ comicStore \in Stores
      /\ editor.epoch \in Nat
  BY <1>1 DEF ComicShapes, Editors
<1>4. next \in Stores /\ Behind(next, comicStore)
  BY <1>1, <1>2 DEF ComicShapes, Readings, CopiesAreBehind
<1>5. /\ editor' \in Editors /\ editor'.doc = d /\ editor'.epoch = editor.epoch
      /\ editor'.pending = editor.pending \/ editor'.pending = Unasked
  BY <1>2, <1>3 DEF Editors
<1>6. Revision(next, d) \in Nat \ {0}
  BY <1>3, <1>4, StoreShape
<1>7. opened' \in [Docs -> Nat]
  BY <1>2, <1>3, <1>6
<1>8. reading' \in Readings /\ reading'.phase # "read"
  BY <1>2 DEF Readings
<1>9. ComicShapes'
  BY <1>1, <1>2, <1>4, <1>5, <1>7, <1>8 DEF ComicShapes
<1>10. Behind(comicStore, comicStore') /\ LiveKept /\ editor'.epoch >= editor.epoch
  BY <1>2, <1>3, <1>5, BehindItself DEF LiveKept
<1>11. \/ opened'[d] = opened[d]
       \/ opened'[d] # 0 /\ (opened[d] # 0 \/ LiveSafe)
       \/ LiveSafe
  <2>1. CASE ~show
    BY <1>2, <2>1
  <2>2. CASE show /\ Changed(live[d], next, d)
    <3>1. opened'[d] # 0
      BY <1>2, <1>3, <1>6, <2>2
    <3>2. opened[d] = 0 => LiveSafe
      BY <1>1, <2>2 DEF PendingSafe
    <3> QED
      BY <3>1, <3>2
  <2>3. CASE ~Changed(live[d], next, d)
    BY <1>1, <1>4, <2>3, UnchangedIsSaved
  <2> QED
    BY <2>1, <2>2, <2>3
<1>12. CopiesAreBehind'
  BY <1>1, <1>2, <1>8, <1>9, <1>10, CopiesStay
<1>13. RevisionsExist'
  <2>1. \A e \in Docs : opened'[e] = opened[e] \/ opened'[e] <= Revision(comicStore', e)
    <3> SUFFICES ASSUME NEW e \in Docs, opened'[e] # opened[e]
                 PROVE  opened'[e] <= Revision(comicStore', e)
      OBVIOUS
    <3>1. e = d /\ opened'[d] \in {0, Revision(next, d)}
      BY <1>2, <1>3
    <3>2. Revision(next, d) <= Revision(comicStore, d) /\ Revision(comicStore, d) \in Nat
      BY <1>3, <1>4, StoreShape DEF Behind
    <3> QED
      BY <1>2, <1>6, <3>1, <3>2
  <2>2. \A i \in Ops : ops'[i] = NoOp \/ (ops[i] # NoOp /\ ops'[i] = ops[i])
    BY <1>2
  <2> QED
    BY <1>1, <1>2, <1>9, <1>10, <2>1, <2>2, RevisionsStay
<1>14. OneEditor'
  BY <1>1, <1>2, <1>5 DEF OneEditor
<1>15. PendingSafe'
  <2>1. opened'[d] = opened[d] \/ opened'[d] # 0 \/ LiveSafe
    BY <1>11
  <2> QED
    BY <1>1, <1>5, <1>9, <1>10, <2>1, PendingStays
<1>16. OpsSafe'
  BY <1>1, <1>2, <1>5, <1>9, <1>10, <1>11, OpsStay
<1>17. InjectionSent'
  BY <1>1, <1>2, InjectionStays
<1> QED
  BY <1>9, <1>12, <1>13, <1>14, <1>15, <1>16, <1>17 DEF ComicInv
---------------------------------------------------------------------------
(* Injection, constitution and references.                                 *)

\* What the page shows of the unsaved parts.
LEMMA NotesShape ==
  ASSUME ComicShapes
  PROVE  /\ notes \in Unsaved /\ notes.injection \in Drafts /\ page.injection \in Injections
         /\ page.visual \in Visuals /\ page.injection.revision \in Nat
         /\ Constitution \in Nat /\ References \in PictureSets
<1>1. notes \in Unsaved /\ page \in Stores
  BY DEF ComicShapes
<1>2. /\ notes.injection \in Drafts /\ notes.constitution \in Nat /\ notes.references \in PictureSets
      /\ page.injection \in Injections /\ page.visual \in Visuals
  BY <1>1 DEF Unsaved, Stores
<1>3. /\ page.injection.revision \in Nat /\ page.visual.text \in Nat
      /\ page.visual.references \in PictureSets
  BY <1>2 DEF Injections, Visuals
<1> QED
  BY <1>1, <1>2, <1>3 DEF Constitution, References

\* Typing, picking and answering change the unsaved parts, or start an upload.
LEMMA NotesInv ==
  ASSUME ComicInv,
         \/ TypeInjection \/ RebaseInjection \/ TypeConstitution \/ UploadReferences
         \/ \E s \in SUBSET StylePictures : PickReferences(s)
         \/ \E p \in StylePictures : ReferencesUploaded(p)
         \/ \E keep \in BOOLEAN : ResolveConflict(keep)
  PROVE  ComicInv'
<1>1. ComicShapes /\ InjectionSent /\ comicStore \in Stores /\ clicks \in Nat
  BY DEF ComicInv, ComicShapes
<1>2. /\ notes \in Unsaved /\ notes.injection \in Drafts /\ page.injection.revision \in Nat
      /\ References \in PictureSets
  BY <1>1, NotesShape
<1>3. /\ UNCHANGED <<comicStore, page, reading, live, older, opened, editor, ops, action>>
      /\ clicks' \in Nat
  BY <1>1, ClicksShape DEF TypeInjection, RebaseInjection, TypeConstitution, UploadReferences,
     PickReferences, ReferencesUploaded, ResolveConflict
<1>4. upload' \in PictureSets
  BY <1>1, <1>2 DEF TypeInjection, RebaseInjection, TypeConstitution, UploadReferences,
     PickReferences, ReferencesUploaded, ResolveConflict, PictureSets, NoPictures, ComicShapes
<1>5. notes' \in Unsaved
  <2>1. CASE TypeInjection
    <3> DEFINE typed == [text |-> 10 + clicks, base |->
                 IF notes.injection # Unsaid THEN notes.injection.base ELSE page.injection.revision]
    <3>1. typed \in Drafts /\ notes' = [notes EXCEPT !.injection = typed]
      BY <1>1, <1>2, <2>1 DEF TypeInjection, Drafts
    <3> HIDE DEF typed
    <3> QED
      BY <1>2, <3>1 DEF Unsaved
  <2>2. CASE RebaseInjection
    <3> DEFINE based == [notes.injection EXCEPT !.base = page.injection.revision]
    <3>1. based \in Drafts /\ notes' = [notes EXCEPT !.injection = based]
      BY <1>2, <2>2 DEF RebaseInjection, Drafts
    <3> HIDE DEF based
    <3> QED
      BY <1>2, <3>1 DEF Unsaved
  <2>3. CASE TypeConstitution
    BY <1>1, <1>2, <2>3 DEF TypeConstitution, Unsaved
  <2>4. CASE UploadReferences
    BY <1>2, <2>4 DEF UploadReferences
  <2>5. ASSUME NEW s \in SUBSET StylePictures, PickReferences(s)
        PROVE  notes' \in Unsaved
    <3>1. s \in PictureSets /\ notes' = [notes EXCEPT !.references = s]
      BY <2>5 DEF PickReferences, PictureSets
    <3> QED
      BY <1>2, <3>1 DEF Unsaved
  <2>6. ASSUME NEW p \in StylePictures, ReferencesUploaded(p)
        PROVE  notes' \in Unsaved
    <3>1. upload \cup {p} \in PictureSets /\ notes' = [notes EXCEPT !.references = upload \cup {p}]
      BY <1>1, <2>6 DEF ReferencesUploaded, PictureSets, ComicShapes
    <3> QED
      BY <1>2, <3>1 DEF Unsaved
  <2>7. ASSUME NEW keep \in BOOLEAN, ResolveConflict(keep)
        PROVE  notes' \in Unsaved
    <3>1. NoPictures \in PictureSets
      BY DEF NoPictures, PictureSets
    <3> QED
      BY <1>2, <2>7, <3>1 DEF ResolveConflict, Unsaved
  <2> QED
    BY <2>1, <2>2, <2>3, <2>4, <2>5, <2>6, <2>7
<1>6. ComicShapes' /\ InjectionSent'
  BY <1>1, <1>3, <1>4, <1>5, InjectionStays DEF ComicShapes
<1>7. Behind(comicStore, comicStore')
  BY <1>1, <1>3, BehindItself
<1> QED
  BY <1>3, <1>6, <1>7, EditorsStay

---------------------------------------------------------------------------
(* The workspace's buttons.                                                *)

\* A step of a command that leaves the editors alone.
LEMMA CommandStays ==
  ASSUME ComicInv, UNCHANGED <<page, live, older, opened, editor, ops, upload>>,
         clicks' \in Nat, comicStore' \in Stores, Behind(comicStore, comicStore'),
         reading' \in {reading, [phase |-> "asked"]}, notes' \in Unsaved,
         action' \in Actions \cup {AtEase}, InjectionSent'
  PROVE  ComicInv'
<1>1. ComicShapes
  BY DEF ComicInv
<1>2. ComicShapes'
  BY <1>1 DEF ComicShapes, Readings
<1> QED
  BY <1>2, EditorsStay

\* A button starts a command with what the page shows.
LEMMA PressesInv ==
  ASSUME ComicInv,
         \/ PressSaveInjection \/ PressSaveVisual \/ PressExtract \/ PressComicGenerate
         \/ PressRender \/ PressSync
  PROVE  ComicInv'
<1>1. ComicShapes /\ comicStore \in Stores /\ page \in Stores
  BY DEF ComicInv, ComicShapes
<1>2. PICK todo \in Seq(Steps) : Press(todo)
  <2>1. /\ <<"injection">> \in Seq(Steps) /\ <<"visual">> \in Seq(Steps) /\ <<"sync">> \in Seq(Steps)
        /\ <<"visual", "extract">> \in Seq(Steps) /\ <<"visual", "generate">> \in Seq(Steps)
        /\ <<"injection", "visual", "render">> \in Seq(Steps)
    BY DEF Steps
  <2>2. \/ Press(<<"injection">>) \/ Press(<<"visual">>) \/ Press(<<"sync">>)
        \/ Press(<<"visual", "extract">>) \/ Press(<<"visual", "generate">>)
        \/ Press(<<"injection", "visual", "render">>)
    BY DEF PressSaveInjection, PressSaveVisual, PressExtract, PressComicGenerate, PressRender,
       PressSync
  <2> QED
    BY <2>1, <2>2
<1>3. /\ Constitution \in Nat /\ References \in PictureSets /\ notes \in Unsaved
      /\ editor.doc \in Docs /\ notes.conflict \in BOOLEAN
  BY <1>1, NotesShape DEF ComicShapes, Editors, Unsaved
<1> DEFINE dirty == VisualDirty
           unsaved == InjectionDirty
<1>4. dirty \in BOOLEAN /\ unsaved \in BOOLEAN
  BY DEF VisualDirty, InjectionDirty
<1>5. action' = [todo |-> todo, sent |-> Unsaid, page |-> page, doc |-> editor.doc,
                 constitution |-> Constitution, references |-> References,
                 dirty |-> dirty, injection |-> unsaved, conflict |-> notes.conflict]
  BY <1>2 DEF Press
<1> HIDE DEF dirty, unsaved
<1>6. Unsaid \in Drafts
  BY DEF Unsaid, Drafts
<1>7. action' \in Actions /\ action'.sent = Unsaid
  BY <1>1, <1>2, <1>3, <1>4, <1>5, <1>6 DEF Actions
<1>8. /\ UNCHANGED <<comicStore, page, reading, live, older, opened, editor, ops, notes, upload>>
      /\ clicks' \in Nat
  BY <1>1, <1>2, ClicksShape DEF Press
<1>9. InjectionSent'
  BY <1>7 DEF InjectionSent
<1>10. Behind(comicStore, comicStore') /\ notes' \in Unsaved
  BY <1>1, <1>3, <1>8, BehindItself
<1> QED
  BY <1>1, <1>7, <1>8, <1>9, <1>10, CommandStays

\* The parts of a command under way, and what it goes on or ends with.
LEMMA CommandShape ==
  ASSUME ComicShapes, action # AtEase
  PROVE  /\ action \in Actions /\ action.sent \in Drafts /\ action.page \in Stores
         /\ action.doc \in Docs /\ action.constitution \in Nat
         /\ action.references \in PictureSets /\ action.todo \in Seq(Steps)
         /\ Proceed /\ action.todo # <<>> => action' \in Actions /\ action'.sent = Unsaid
         /\ GiveUp => action' \in Actions /\ action'.todo = <<>>
<1>1. action \in Actions
  BY DEF ComicShapes
<1>2. /\ action.sent \in Drafts /\ action.page \in Stores
      /\ action.doc \in Docs /\ action.constitution \in Nat
      /\ action.references \in PictureSets /\ action.todo \in Seq(Steps)
  BY <1>1 DEF Actions
<1>3. Unsaid \in Drafts
  BY DEF Unsaid, Drafts
<1>4. ASSUME Proceed, action.todo # <<>>
      PROVE  action' \in Actions /\ action'.sent = Unsaid
  <2> DEFINE rest == Tail(action.todo)
  <2>1. rest \in Seq(Steps) /\ action' = [action EXCEPT !.todo = rest, !.sent = Unsaid]
    BY <1>2, <1>4 DEF Proceed
  <2> HIDE DEF rest
  <2> QED
    BY <1>1, <1>3, <2>1 DEF Actions
<1>5. ASSUME GiveUp
      PROVE  action' \in Actions /\ action'.todo = <<>>
  <2>1. <<>> \in Seq(Steps)
    OBVIOUS
  <2> QED
    BY <1>1, <1>5, <2>1 DEF GiveUp, Actions
<1> QED
  BY <1>1, <1>2, <1>4, <1>5
\* The injection is saved, with the text there is by now, or not.
LEMMA InjectionStepInv ==
  ASSUME ComicInv, InjectionStep
  PROVE  ComicInv'
<1>1. ComicShapes /\ comicStore \in Stores /\ notes \in Unsaved /\ notes.injection \in Drafts
  BY NotesShape DEF ComicInv, ComicShapes
<1>2. /\ UNCHANGED <<page, reading, live, older, opened, editor, ops, notes, upload>>
      /\ clicks' \in Nat
  BY <1>1 DEF InjectionStep, ComicIdle, ComicShapes
<1>3. /\ action # AtEase /\ action \in Actions /\ action.page \in Stores
      /\ Doing("injection") /\ action.todo # <<>>
  BY <1>1, CommandShape DEF InjectionStep, Doing
<1>4. Behind(comicStore, comicStore)
  BY <1>1, BehindItself
<1>5. CASE Proceed /\ UNCHANGED comicStore
  <2>1. action' \in Actions /\ action'.sent = Unsaid
    BY <1>1, <1>3, <1>5, CommandShape
  <2>2. InjectionSent'
    BY <2>1 DEF InjectionSent
  <2> QED
    BY <1>1, <1>2, <1>4, <1>5, <2>1, <2>2, CommandStays
<1>6. CASE GiveUp /\ UNCHANGED comicStore
  <2>1. action' \in Actions /\ action'.todo = <<>>
    BY <1>1, <1>3, <1>6, CommandShape
  <2>2. InjectionSent'
    BY <2>1 DEF InjectionSent, Doing
  <2> QED
    BY <1>1, <1>2, <1>4, <1>6, <2>1, <2>2, CommandStays
<1>7. CASE /\ comicStore' = [comicStore EXCEPT !.injection =
                              [text |-> notes.injection.text, revision |-> @.revision + 1]]
           /\ action' = [action EXCEPT !.sent = notes.injection,
                                       !.page.injection.revision = comicStore.injection.revision + 1]
  <2>1. comicStore.injection \in Injections /\ action.page.injection \in Injections
    BY <1>1, <1>3 DEF Stores
  <2> DEFINE taken == [text |-> notes.injection.text, revision |-> comicStore.injection.revision + 1]
             shown == [action.page.injection EXCEPT !.revision = comicStore.injection.revision + 1]
             copy == [action.page EXCEPT !.injection = shown]
  <2>2. taken \in Injections /\ taken.text = notes.injection.text /\ shown \in Injections
    BY <1>1, <2>1 DEF Injections, Drafts
  <2>3. /\ comicStore' = [comicStore EXCEPT !.injection = taken]
        /\ action' = [action EXCEPT !.sent = notes.injection, !.page = copy]
    BY <1>7
  <2> HIDE DEF taken, shown
  <2>4. copy \in Stores
    BY <1>3, <2>2 DEF Stores
  <2> HIDE DEF copy
  <2>5. /\ comicStore' \in Stores /\ comicStore'.versions = comicStore.versions
        /\ comicStore'.injection = taken
    BY <1>1, <2>2, <2>3 DEF Stores
  <2>6. action' \in Actions /\ action'.sent = notes.injection
    BY <1>1, <1>3, <2>3, <2>4 DEF Actions
  <2>7. Behind(comicStore, comicStore')
    BY <1>1, <2>5, BehindSame
  <2>8. InjectionSent'
    BY <2>2, <2>5, <2>6 DEF InjectionSent
  <2> QED
    BY <1>1, <1>2, <2>5, <2>6, <2>7, <2>8, CommandStays
<1> QED
  BY <1>5, <1>6, <1>7 DEF InjectionStep

\* Its answer settles the draft.
LEMMA InjectionSavedInv ==
  ASSUME ComicInv, InjectionSaved
  PROVE  ComicInv'
<1>1. ComicShapes /\ comicStore \in Stores /\ notes \in Unsaved /\ notes.injection \in Drafts
  BY NotesShape DEF ComicInv, ComicShapes
<1>2. /\ UNCHANGED <<comicStore, page, reading, live, older, opened, editor, ops, upload>>
      /\ clicks' \in Nat
  BY <1>1 DEF InjectionSaved, ComicIdle, ComicShapes
<1>3. action # AtEase /\ action.page \in Stores /\ action.todo # <<>> /\ Proceed
  BY <1>1, CommandShape DEF InjectionSaved, Doing
<1>4. action' \in Actions /\ action'.sent = Unsaid
  BY <1>1, <1>3, CommandShape
<1>5. InjectionSent'
  BY <1>4 DEF InjectionSent
<1>6. Settled(notes.injection, action.sent, action.page.injection.revision) \in Drafts
  <2>1. action.page.injection.revision \in Nat
    BY <1>3 DEF Stores, Injections
  <2> QED
    BY <1>1, <2>1 DEF Settled, Drafts, Unsaid
<1>7. notes' \in Unsaved
  BY <1>1, <1>6 DEF InjectionSaved, Unsaved
<1>8. Behind(comicStore, comicStore')
  BY <1>1, <1>2, BehindItself
<1> QED
  BY <1>1, <1>2, <1>4, <1>5, <1>7, <1>8, CommandStays

\* The constitution is saved with what the click saw, refused, or not to be saved.
LEMMA VisualStepInv ==
  ASSUME ComicInv, VisualStep
  PROVE  ComicInv'
<1>1. ComicShapes /\ comicStore \in Stores /\ notes \in Unsaved
  BY DEF ComicInv, ComicShapes
<1>2. /\ UNCHANGED <<page, reading, live, older, opened, editor, ops, upload>>
      /\ clicks' \in Nat
  BY <1>1 DEF VisualStep, ComicIdle, ComicShapes
<1>3. /\ action # AtEase /\ action \in Actions /\ action.constitution \in Nat
      /\ action.references \in PictureSets
      /\ action.todo # <<>> /\ action.todo[1] = "visual"
  BY <1>1, CommandShape DEF VisualStep, Doing
<1>4. notes' \in Unsaved
  BY <1>1 DEF VisualStep, Unsaved
<1>5. Behind(comicStore, comicStore)
  BY <1>1, BehindItself
<1>6. CASE Proceed /\ UNCHANGED comicStore
  <2>1. action' \in Actions /\ action'.sent = Unsaid
    BY <1>1, <1>3, <1>6, CommandShape
  <2>2. InjectionSent'
    BY <2>1 DEF InjectionSent
  <2> QED
    BY <1>1, <1>2, <1>4, <1>5, <1>6, <2>1, <2>2, CommandStays
<1>7. CASE GiveUp /\ UNCHANGED comicStore
  <2>1. action' \in Actions /\ action'.todo = <<>>
    BY <1>1, <1>3, <1>7, CommandShape
  <2>2. InjectionSent'
    BY <2>1 DEF InjectionSent, Doing
  <2> QED
    BY <1>1, <1>2, <1>4, <1>5, <1>7, <2>1, <2>2, CommandStays
<1>8. CASE /\ comicStore' = [comicStore EXCEPT !.visual =
               [text |-> action.constitution, references |-> action.references,
                revision |-> @.revision + 1]]
           /\ action' = [action EXCEPT !.sent = [text |-> action.constitution, base |-> 1]]
  <2> DEFINE taken == [text |-> action.constitution, references |-> action.references,
                       revision |-> comicStore.visual.revision + 1]
             kept == [text |-> action.constitution, base |-> 1]
  <2>1. taken \in Visuals /\ kept \in Drafts
    BY <1>1, <1>3 DEF Stores, Visuals, Drafts
  <2>2. comicStore' = [comicStore EXCEPT !.visual = taken] /\ action' = [action EXCEPT !.sent = kept]
    BY <1>8
  <2> HIDE DEF taken, kept
  <2>3. comicStore' \in Stores /\ comicStore'.versions = comicStore.versions
    BY <1>1, <2>1, <2>2 DEF Stores
  <2>4. action' \in Actions /\ action'.todo = action.todo
    BY <1>3, <2>1, <2>2 DEF Actions
  <2>5. InjectionSent'
    BY <1>3, <2>4 DEF InjectionSent, Doing
  <2>6. Behind(comicStore, comicStore')
    BY <1>1, <2>3, BehindSame
  <2> QED
    BY <1>2, <1>4, <2>3, <2>4, <2>5, <2>6, CommandStays
<1> QED
  BY <1>6, <1>7, <1>8 DEF VisualStep

\* The other steps, which save nothing of the page's, and the end of a command.
LEMMA OtherStepsInv ==
  ASSUME ComicInv, VisualSaved \/ ExtractStep \/ JobStep \/ EndAction
  PROVE  ComicInv'
<1>1. ComicShapes /\ comicStore \in Stores /\ notes \in Unsaved /\ clicks \in Nat
  BY DEF ComicInv, ComicShapes
<1>2. /\ UNCHANGED <<page, live, older, opened, editor, ops, upload>>
      /\ clicks' \in Nat /\ reading' \in {reading, [phase |-> "asked"]}
  BY <1>1 DEF VisualSaved, ExtractStep, JobStep, EndAction, Asked, ComicIdle, ComicShapes
<1>3. NoPictures \in PictureSets /\ 200 + clicks \in Nat
  BY <1>1 DEF NoPictures, PictureSets
<1>4. notes' \in Unsaved
  <2>1. CASE VisualSaved
    BY <1>1, <1>3, <2>1 DEF VisualSaved, WithoutVisual, Unsaved
  <2>2. CASE ExtractStep
    BY <1>1, <1>3, <2>2 DEF ExtractStep, Unsaved
  <2>3. CASE JobStep \/ EndAction
    BY <1>1, <2>3 DEF JobStep, EndAction
  <2> QED
    BY <2>1, <2>2, <2>3
<1>5. action # AtEase /\ action \in Actions /\ action.doc \in Docs
  BY <1>1, CommandShape DEF VisualSaved, ExtractStep, JobStep, EndAction, Doing
<1>6. action' \in Actions \cup {AtEase} /\ InjectionSent'
  <2>1. CASE VisualSaved \/ ExtractStep
    <3>1. action' \in Actions /\ action'.sent = Unsaid
      BY <1>1, <1>5, <2>1, CommandShape DEF VisualSaved, ExtractStep, Doing
    <3> QED
      BY <3>1 DEF InjectionSent
  <2>2. CASE JobStep
    <3>1. action' \in Actions /\ action'.todo = <<>>
      BY <1>1, <1>5, <2>2, CommandShape DEF JobStep
    <3> QED
      BY <3>1 DEF InjectionSent, Doing
  <2>3. CASE EndAction
    BY <2>3 DEF EndAction, InjectionSent, Doing
  <2> QED
    BY <2>1, <2>2, <2>3
<1>7. comicStore' \in Stores /\ comicStore'.versions = comicStore.versions
  <2>1. CASE VisualSaved \/ ExtractStep \/ EndAction
    BY <1>1, <2>1 DEF VisualSaved, ExtractStep, EndAction
  <2>2. CASE JobStep
    <3>1. \/ comicStore' = comicStore
          \/ \E kind \in {"generate", "render", "sync"}, targets \in SUBSET Docs :
               comicStore' = [comicStore EXCEPT !.jobs = Append(@, Job(kind, action.doc, targets))]
      <4>1. {action.doc} \in SUBSET Docs /\ {} \in SUBSET Docs /\ comicStore.outdated \in SUBSET Docs
        BY <1>1, <1>5 DEF Stores
      <4>2. action.todo[1] \in {"generate", "render", "sync"}
        BY <2>2 DEF JobStep, Doing
      <4>3. CASE action.todo[1] = "generate"
        BY <2>2, <4>1, <4>3 DEF JobStep
      <4>4. CASE action.todo[1] = "render"
        BY <2>2, <4>1, <4>4 DEF JobStep
      <4>5. CASE action.todo[1] = "sync"
        BY <2>2, <4>1, <4>5 DEF JobStep
      <4> QED
        BY <4>2, <4>3, <4>4, <4>5
    <3>2. ASSUME NEW kind \in {"generate", "render", "sync"}, NEW targets \in SUBSET Docs,
                 comicStore' = [comicStore EXCEPT !.jobs = Append(@, Job(kind, action.doc, targets))]
          PROVE  comicStore' \in Stores /\ comicStore'.versions = comicStore.versions
      <4>1. Job(kind, action.doc, targets) \in JobRows
        <5>1. \A e \in Docs : Revision(comicStore, e) \in Nat
          BY <1>1, StoreShape
        <5>2. [e \in Docs |-> Revision(comicStore, e)] \in [Docs -> Nat]
          BY <5>1
        <5> QED
          BY <1>5, <5>2 DEF Job, JobRows
      <4> DEFINE rows == Append(comicStore.jobs, Job(kind, action.doc, targets))
      <4>2. rows \in Seq(JobRows) /\ comicStore' = [comicStore EXCEPT !.jobs = rows]
        BY <1>1, <3>2, <4>1 DEF Stores
      <4> HIDE DEF rows
      <4> QED
        BY <1>1, <4>2 DEF Stores
    <3> QED
      BY <1>1, <3>1, <3>2
  <2> QED
    BY <2>1, <2>2
<1>8. Behind(comicStore, comicStore')
  BY <1>1, <1>7, BehindSame
<1> QED
  BY <1>2, <1>4, <1>6, <1>7, <1>8, CommandStays
---------------------------------------------------------------------------
(* The editor.                                                             *)

\* A step of the editor that shows the same document on.
LEMMA EditorMoves ==
  ASSUME ComicInv, ComicShapes', Behind(comicStore, comicStore'), page' = page,
         reading' \in {reading, [phase |-> "asked"]}, UNCHANGED action,
         comicStore'.injection = comicStore.injection,
         editor'.doc = editor.doc, editor'.epoch >= editor.epoch, LiveKept,
         opened'[editor.doc] = opened[editor.doc] \/ opened'[editor.doc] # 0 \/ LiveSafe,
         \/ opened'[editor.doc] = opened[editor.doc]
         \/ \A i \in Ops : ops'[i] # NoOp /\ ops'[i].live => ops'[i] # ops[i],
         \A d \in Docs : live'[d] = live[d] \/ live'[d].base <= Revision(comicStore', d),
         \A d \in Docs : opened'[d] = opened[d] \/ opened'[d] <= Revision(comicStore', d),
         \A i \in Ops :
           \/ ops'[i] = NoOp \/ ops'[i] = ops[i]
           \/ /\ ops'[i].shown <= Revision(comicStore', ops'[i].doc)
              /\ ops'[i].live => /\ ops'[i].doc = editor.doc
                                 /\ OpSafe(ops[i])'
                                 /\ \A j \in Ops \ {i} : ops[j] # NoOp => ~ops[j].live
                                 /\ \A j \in Ops \ {i} : ops'[j] = ops[j],
         editor'.pending \in {editor.pending, Unasked} \/ PendingSafe'
  PROVE  ComicInv'
<1>1. /\ ComicShapes /\ CopiesAreBehind /\ RevisionsExist /\ OneEditor
      /\ PendingSafe /\ OpsSafe /\ InjectionSent
  BY DEF ComicInv
<1>2. CopiesAreBehind'
  BY <1>1, CopiesStay
<1>3. RevisionsExist'
  <2>1. \A i \in Ops : \/ ops'[i] = NoOp
                       \/ ops[i] # NoOp /\ ops'[i].doc = ops[i].doc /\ ops'[i].shown = ops[i].shown
                       \/ ops'[i].shown <= Revision(comicStore', ops'[i].doc)
    OBVIOUS
  <2> QED
    BY <1>1, <2>1, RevisionsStay
<1>4. OneEditor'
  <2> SUFFICES ASSUME NEW i \in Ops, ops'[i] # NoOp, ops'[i].live
               PROVE  /\ ops'[i].doc = editor.doc
                      /\ \A j \in Ops \ {i} : ops'[j] # NoOp => ~ops'[j].live
    BY DEF OneEditor
  <2>1. CASE ops'[i] # ops[i]
    BY <2>1
  <2>2. CASE ops'[i] = ops[i]
    <3>1. /\ ops[i].doc = editor.doc
          /\ \A j \in Ops \ {i} : ops[j] # NoOp => ~ops[j].live
      BY <1>1, <2>2 DEF OneEditor
    <3>2. ASSUME NEW j \in Ops \ {i}, ops'[j] # NoOp, ops'[j].live
          PROVE  FALSE
      <4>1. ops'[j] # ops[j]
        BY <3>1, <3>2
      <4>2. \A k \in Ops \ {j} : ops[k] # NoOp => ~ops[k].live
        BY <3>2, <4>1
      <4> QED
        BY <2>2, <3>2, <4>2
    <3> QED
      BY <2>2, <3>1, <3>2
  <2> QED
    BY <2>1, <2>2
<1>5. PendingSafe'
  BY <1>1, PendingStays
<1>6. OpsSafe'
  <2>1. \A i \in Ops : ops'[i] = NoOp \/ ops'[i] = ops[i] \/ (ops'[i].live => OpSafe(ops[i])')
    OBVIOUS
  <2>2. CASE opened'[editor.doc] = opened[editor.doc]
    BY <1>1, <2>1, <2>2, OpsStay
  <2>3. CASE \A i \in Ops : ops'[i] # NoOp /\ ops'[i].live => ops'[i] # ops[i]
    BY <2>1, <2>3 DEF OpsSafe
  <2> QED
    BY <2>2, <2>3
<1>7. InjectionSent'
  BY <1>1, InjectionStays
<1> QED
  BY <1>2, <1>3, <1>4, <1>5, <1>6, <1>7 DEF ComicInv

\* A document that is left takes its operations off the screen.
LEMMA OpenDocumentInv ==
  ASSUME ComicInv, NEW d \in Docs, OpenDocument(d)
  PROVE  ComicInv'
<1>1. /\ ComicShapes /\ CopiesAreBehind /\ RevisionsExist /\ InjectionSent
      /\ comicStore \in Stores
  BY DEF ComicInv, ComicShapes
<1>2. /\ UNCHANGED <<comicStore, page, reading, live, older, opened, notes, upload, action>>
      /\ clicks' \in Nat
      /\ editor' = [doc |-> d, epoch |-> 0, pending |-> Unasked]
  BY <1>1, ClicksShape DEF OpenDocument
<1>3. Submitted \in Sent
  BY <1>1, SubmittedShape
<1>4. ops \in [Ops -> EditorOps \cup {NoOp}]
  BY <1>1 DEF ComicShapes
<1>5. ASSUME NEW i \in Ops
      PROVE  /\ ops'[i] \in EditorOps \cup {NoOp}
             /\ ops'[i] # NoOp => /\ ops[i] # NoOp /\ ~ops'[i].live
                                  /\ ops'[i].doc = ops[i].doc /\ ops'[i].shown = ops[i].shown
  <2>1. ops'[i] = IF ops[i] = NoOp \/ ~ops[i].live THEN ops[i]
                  ELSE [ops[i] EXCEPT !.live = FALSE, !.sent =
                          IF ops[i].phase \in Unsent THEN Submitted ELSE ops[i].sent]
    BY DEF OpenDocument
  <2>2. CASE ops[i] = NoOp \/ ~ops[i].live
    BY <1>4, <2>1, <2>2
  <2>3. CASE ~(ops[i] = NoOp \/ ~ops[i].live)
    <3>1. PICK op \in EditorOps : op = ops[i]
      BY <1>4, <2>3
    <3>2. PICK said \in Sent : said = IF op.phase \in Unsent THEN Submitted ELSE op.sent
      BY <1>3, <3>1 DEF EditorOps
    <3>3. ops'[i] = [op EXCEPT !.live = FALSE, !.sent = said]
      BY <2>1, <2>3, <3>1, <3>2
    <3> QED
      BY <2>3, <3>1, <3>2, <3>3 DEF EditorOps
  <2> QED
    BY <2>2, <2>3
<1>6. DOMAIN ops' = Ops /\ ops' \in [Ops -> EditorOps \cup {NoOp}]
  <2>1. ops' = [i \in Ops |-> ops'[i]]
    BY DEF OpenDocument
  <2> QED
    BY <1>5, <2>1
<1>7. ComicShapes'
  BY <1>1, <1>2, <1>6 DEF ComicShapes, Editors
<1>8. Behind(comicStore, comicStore')
  BY <1>1, <1>2, BehindItself
<1>9. CopiesAreBehind'
  BY <1>1, <1>2, <1>7, <1>8, CopiesStay
<1>10. RevisionsExist'
  <2>1. \A i \in Ops : \/ ops'[i] = NoOp
                       \/ ops[i] # NoOp /\ ops'[i].doc = ops[i].doc /\ ops'[i].shown = ops[i].shown
    BY <1>5
  <2> QED
    BY <1>1, <1>2, <1>7, <1>8, <2>1, RevisionsStay
<1>11. OneEditor' /\ OpsSafe'
  BY <1>5 DEF OneEditor, OpsSafe
<1>12. PendingSafe'
  BY <1>2 DEF PendingSafe
<1>13. InjectionSent'
  BY <1>1, <1>2, InjectionStays
<1> QED
  BY <1>7, <1>9, <1>10, <1>11, <1>12, <1>13 DEF ComicInv

\* Another version is opened only while nothing of the editor is under way.
LEMMA NavigateInv ==
  ASSUME ComicInv, NEW v \in 0..Revision(page, editor.doc), Navigate(v)
  PROVE  ComicInv'
<1>1. /\ ComicShapes /\ CopiesAreBehind /\ RevisionsExist /\ OneEditor /\ PendingSafe /\ InjectionSent
      /\ comicStore \in Stores /\ page \in Stores /\ editor \in Editors /\ opened \in [Docs -> Nat]
  BY DEF ComicInv, ComicShapes
<1>2. /\ UNCHANGED <<comicStore, page, reading, live, older, ops, notes, upload, action>>
      /\ clicks' \in Nat
      /\ opened' = [opened EXCEPT ![editor.doc] = v]
      /\ editor' = [editor EXCEPT !.epoch = @ + 1]
      /\ \A i \in Ops : ops[i] # NoOp => ~ops[i].live
  BY <1>1, ClicksShape DEF Navigate, EditorBusy
<1>3. /\ editor.doc \in Docs /\ editor.epoch \in Nat
      /\ editor.pending # Unasked => editor.pending.epoch \in Nat
  BY <1>1 DEF Editors, Awaited
<1>4. v \in Nat /\ v <= Revision(comicStore, editor.doc)
  BY <1>1, <1>3, StoreShape DEF CopiesAreBehind, Behind
<1>5. ComicShapes'
  BY <1>1, <1>2, <1>3, <1>4 DEF ComicShapes, Editors
<1>6. Behind(comicStore, comicStore')
  BY <1>1, <1>2, BehindItself
<1>7. CopiesAreBehind'
  BY <1>1, <1>2, <1>5, <1>6, CopiesStay
<1>8. RevisionsExist'
  <2>1. \A e \in Docs : opened'[e] = opened[e] \/ opened'[e] <= Revision(comicStore', e)
    BY <1>1, <1>2, <1>3, <1>4
  <2>2. \A i \in Ops : ops'[i] = NoOp \/ (ops[i] # NoOp /\ ops'[i] = ops[i])
    BY <1>2
  <2> QED
    BY <1>1, <1>2, <1>5, <1>6, <2>1, <2>2, RevisionsStay
<1>9. OneEditor' /\ OpsSafe'
  BY <1>2 DEF OneEditor, OpsSafe
<1>10. PendingSafe'
  <2>1. editor'.pending = editor.pending /\ editor'.epoch = editor.epoch + 1
    BY <1>1, <1>2 DEF Editors
  <2>2. editor.pending # Unasked => /\ editor.pending.epoch <= editor'.epoch
                                    /\ editor.pending.epoch # editor'.epoch
    BY <1>1, <1>3, <2>1 DEF PendingSafe
  <2> QED
    BY <2>1, <2>2 DEF PendingSafe
<1>11. InjectionSent'
  BY <1>1, <1>2, InjectionStays
<1> QED
  BY <1>5, <1>7, <1>8, <1>9, <1>10, <1>11 DEF ComicInv
\* What is typed is a draft of the document, or of its version.
LEMMA EditComicInv ==
  ASSUME ComicInv, EditComic
  PROVE  ComicInv'
<1> DEFINE d == editor.doc
           text == 10 + clicks
           base == IF live[d] # Unsaid THEN live[d].base ELSE Revision(page, d)
<1>1. /\ ComicShapes /\ CopiesAreBehind /\ RevisionsExist /\ OneEditor
      /\ PendingSafe /\ OpsSafe /\ InjectionSent
      /\ comicStore \in Stores /\ page \in Stores /\ editor \in Editors /\ opened \in [Docs -> Nat]
      /\ live \in [Docs -> Drafts] /\ clicks \in Nat /\ older \subseteq OlderDrafts
  BY DEF ComicInv, ComicShapes
<1>2. /\ UNCHANGED <<comicStore, page, reading, opened, ops, notes, upload, action>>
      /\ clicks' \in Nat
      /\ editor' = [editor EXCEPT !.epoch = @ + 1]
      /\ IF opened[d] # 0
         THEN /\ older' = (older \ OlderDraft(d, opened[d]))
                           \cup {[doc |-> d, version |-> opened[d], text |-> text]}
              /\ UNCHANGED live
         ELSE live' = [live EXCEPT ![d] = [text |-> text, base |-> base]] /\ UNCHANGED older
  BY <1>1, ClicksShape DEF EditComic, Version
<1>3. /\ d \in Docs /\ editor.epoch \in Nat /\ opened[d] \in Nat /\ text \in Nat
      /\ editor.pending # Unasked => editor.pending.epoch \in Nat
  BY <1>1 DEF Editors, Awaited
<1>4. base \in Nat /\ base <= Revision(comicStore, d)
  BY <1>1, <1>3, StoreShape DEF Drafts, RevisionsExist, CopiesAreBehind, Behind
<1>5. /\ editor' \in Editors /\ editor'.doc = d /\ editor'.epoch = editor.epoch + 1
      /\ editor'.pending = editor.pending
  BY <1>1, <1>2, <1>3 DEF Editors
<1> HIDE DEF text, base
<1>6. live' \in [Docs -> Drafts] /\ older' \subseteq OlderDrafts
  BY <1>1, <1>2, <1>3, <1>4 DEF Drafts, OlderDrafts
<1>7. ComicShapes'
  BY <1>1, <1>2, <1>5, <1>6 DEF ComicShapes
<1>8. Behind(comicStore, comicStore')
  BY <1>1, <1>2, BehindItself
<1>9. CASE opened[d] # 0
  <2>1. LiveKept /\ live' = live
    BY <1>2, <1>9 DEF LiveKept
  <2> QED
    BY <1>2, <1>3, <1>5, <1>7, <1>8, <2>1, EditorMoves
<1>10. CASE opened[d] = 0
  <2>1. \A e \in Docs : live'[e] = live[e] \/ live'[e].base <= Revision(comicStore', e)
    BY <1>1, <1>2, <1>3, <1>4, <1>10
  <2>2. CopiesAreBehind'
    BY <1>1, <1>2, <1>7, <1>8, CopiesStay
  <2>3. RevisionsExist'
    <3>1. \A i \in Ops : ops'[i] = NoOp \/ (ops[i] # NoOp /\ ops'[i] = ops[i])
      BY <1>2
    <3> QED
      BY <1>1, <1>2, <1>7, <1>8, <2>1, <3>1, RevisionsStay
  <2>4. OneEditor'
    BY <1>1, <1>2, <1>5 DEF OneEditor
  <2>5. PendingSafe'
    <3>1. editor.pending # Unasked => /\ editor.pending.epoch <= editor'.epoch
                                      /\ editor.pending.epoch # editor'.epoch
      BY <1>1, <1>3, <1>5 DEF PendingSafe
    <3> QED
      BY <1>5, <3>1 DEF PendingSafe
  <2>6. OpsSafe'
    <3> SUFFICES ASSUME NEW i \in Ops, ops[i] # NoOp, ops[i].live
                 PROVE  OpSafe(ops[i])'
      BY <1>2 DEF OpsSafe
    <3>1. PICK op \in EditorOps : op = ops[i]
      BY <1>1 DEF ComicShapes
    <3>2. OpSafe(op) /\ op.epoch \in Nat
      BY <1>1, <3>1 DEF OpsSafe, EditorOps
    <3>3. op.epoch <= editor'.epoch /\ op.epoch # editor'.epoch
      BY <1>3, <1>5, <3>2 DEF OpSafe
    <3>4. \A t : SafeText(t) => SafeText(t)'
      BY <1>1, <1>5, <1>7, <1>8, SafeStays
    <3>5. OpSafe(op)'
      BY <1>2, <1>5, <1>10, <3>2, <3>3, <3>4 DEF OpSafe
    <3>6. op = ops[i]'
      BY <1>2, <3>1
    <3> QED
      BY <3>5, <3>6 DEF OpSafe, SafeText
  <2>7. InjectionSent'
    BY <1>1, <1>2, InjectionStays
  <2> QED
    BY <1>7, <2>2, <2>3, <2>4, <2>5, <2>6, <2>7 DEF ComicInv
<1> QED
  BY <1>9, <1>10

\* A draft that is kept on the newest revision shown.
LEMMA RebaseDraftInv ==
  ASSUME ComicInv, RebaseDraft
  PROVE  ComicInv'
<1> DEFINE d == editor.doc
           next == [live[d] EXCEPT !.base = Revision(page, d)]
           draft == IF Changed(next, page, d) THEN next ELSE Unsaid
<1>1. /\ ComicShapes /\ CopiesAreBehind
      /\ comicStore \in Stores /\ page \in Stores /\ editor \in Editors
      /\ live \in [Docs -> Drafts]
  BY DEF ComicInv, ComicShapes
<1>2. /\ UNCHANGED <<comicStore, page, reading, older, opened, editor, ops, notes, upload, action>>
      /\ clicks' \in Nat /\ live[d] # Unsaid
      /\ live' = [live EXCEPT ![d] = draft]
  BY <1>1, ClicksShape DEF RebaseDraft
<1>3. d \in Docs /\ editor.epoch \in Nat /\ live[d] \in Drafts
  BY <1>1 DEF Editors
<1>4. Revision(page, d) \in Nat /\ Revision(page, d) <= Revision(comicStore, d)
      /\ Revision(comicStore, d) \in Nat
  BY <1>1, <1>3, StoreShape DEF CopiesAreBehind, Behind
<1>5. next \in Drafts /\ next.text = live[d].text /\ next.base = Revision(page, d)
  BY <1>3, <1>4 DEF Drafts
<1> HIDE DEF next
<1>6. Unsaid \in Drafts /\ Unsaid.base = 0
  BY DEF Unsaid, Drafts
<1>7. /\ draft \in Drafts /\ draft.base <= Revision(comicStore, d)
      /\ draft = Unsaid \/ draft.text = live[d].text
  BY <1>4, <1>5, <1>6
<1> HIDE DEF draft
<1>8. ComicShapes'
  BY <1>1, <1>2, <1>7 DEF ComicShapes
<1>9. Behind(comicStore, comicStore') /\ editor'.epoch >= editor.epoch
  BY <1>1, <1>2, <1>3, BehindItself
<1>10. LiveKept /\ \A e \in Docs : live'[e] = live[e] \/ live'[e].base <= Revision(comicStore', e)
  BY <1>1, <1>2, <1>3, <1>7 DEF LiveKept
<1> QED
  BY <1>2, <1>8, <1>9, <1>10, EditorMoves

\* The parts of an operation under way.
LEMMA OpShape ==
  ASSUME ComicShapes, NEW i \in Ops, ops[i] # NoOp
  PROVE  /\ ops[i] \in EditorOps /\ ops[i].doc \in Docs /\ ops[i].sent \in Sent
         /\ ops[i].shown \in Nat \ {0} /\ ops[i].version \in Nat /\ ops[i].epoch \in Nat
         /\ ops[i].kind \in {"save", "optimize"}
         /\ \A p \in Unsent \cup {"sent", "answer", "saved", "refresh"} :
              [ops[i] EXCEPT !.phase = p] \in EditorOps
<1>1. ops[i] \in EditorOps
  BY DEF ComicShapes
<1> QED
  BY <1>1 DEF EditorOps

\* A save or an optimization begins with what the editor shows.
LEMMA BeginInv ==
  ASSUME ComicInv, PressSaveText \/ PressOptimizeText
  PROVE  ComicInv'
<1> DEFINE d == editor.doc
<1>1. /\ ComicShapes /\ CopiesAreBehind /\ RevisionsExist
      /\ comicStore \in Stores /\ page \in Stores /\ editor \in Editors
      /\ opened \in [Docs -> Nat] /\ ops \in [Ops -> EditorOps \cup {NoOp}]
  BY DEF ComicInv, ComicShapes
<1>2. PICK kind, phase, visual : /\ Begin(kind, phase, visual)
                                 /\ visual \in Visuals
                                 /\ \/ kind = "save" /\ phase = "sent"
                                    \/ kind = "optimize" /\ phase \in Unsent
  <2>1. NoProfile \in Visuals
    BY DEF NoProfile, Visuals, PictureSets
  <2>2. Profile \in Visuals
    BY <1>1, NotesShape DEF Profile, Visuals
  <2>3. CASE PressSaveText
    BY <2>1, <2>3 DEF PressSaveText
  <2>4. CASE PressOptimizeText
    BY <2>1, <2>2, <2>4 DEF PressOptimizeText, Unsent
  <2> QED
    BY <2>3, <2>4
<1>3. /\ UNCHANGED <<comicStore, page, reading, live, older, opened, editor, notes, upload, action>>
      /\ clicks' \in Nat
      /\ \A i \in Ops : ops[i] # NoOp => ~ops[i].live
  BY <1>1, ClicksShape DEF PressSaveText, PressOptimizeText, EditorBusy
<1> DEFINE ack == kind = "save" /\ d \in page.outdated /\ ~DirtyEditor
           needed == \/ ack \/ AnotherVersion \/ Visible # HeadText(page, d)
                     \/ Version = 0 /\ Changed(live[d], page, d)
<1>4. ack \in BOOLEAN /\ needed \in BOOLEAN
  BY DEF AnotherVersion
<1>5. ~needed /\ opened[d] = 0 => LiveSafe
  <2>1. Behind(page, comicStore)
    BY <1>1 DEF CopiesAreBehind
  <2> QED
    BY <1>1, <2>1, UnchangedIsSaved DEF Version
<1> HIDE DEF ack, needed
<1>6. PICK i \in Ops :
        ops' = [ops EXCEPT ![i] =
            [kind |-> kind, live |-> TRUE, doc |-> d, version |-> opened[d], phase |-> phase,
             visual |-> visual, epoch |-> editor.epoch, ack |-> ack, sent |-> Submitted, shown |-> Revision(page, d),
             needed |-> needed]]
  BY <1>2 DEF Begin, Version, ack, needed
<1> DEFINE begun == [kind |-> kind, live |-> TRUE, doc |-> d, version |-> opened[d], phase |-> phase,
             visual |-> visual, epoch |-> editor.epoch, ack |-> ack, sent |-> Submitted, shown |-> Revision(page, d),
             needed |-> needed]
<1>7. /\ d \in Docs /\ editor.epoch \in Nat /\ Revision(page, d) \in Nat \ {0} /\ opened[d] \in Nat
      /\ Revision(page, d) <= Revision(comicStore, d)
  BY <1>1, StoreShape DEF Editors, CopiesAreBehind, Behind
<1>8. /\ Submitted \in Sent
      /\ opened[d] = 0 => Submitted.draft = Unsaid \/ Submitted.text = Submitted.draft.text
  BY <1>1, SubmittedShape
<1>9. begun \in EditorOps
  BY <1>2, <1>4, <1>7, <1>8 DEF EditorOps
<1>10. OpSafe(begun)
  <2>1. CASE kind = "save" /\ phase = "sent"
    BY <1>7, <1>8, <2>1 DEF OpSafe, Unsent
  <2>2. CASE kind = "optimize" /\ phase \in Unsent
    BY <1>5, <1>7, <2>2 DEF OpSafe, Unsent
  <2> QED
    BY <1>2, <2>1, <2>2
<1>11. PICK op \in EditorOps : op = begun
  BY <1>9
<1>12. ops' = [ops EXCEPT ![i] = op] /\ op.doc = d /\ op.shown = Revision(page, d)
  BY <1>6, <1>11
<1> HIDE DEF begun
<1>13. ComicShapes'
  BY <1>1, <1>3, <1>11, <1>12 DEF ComicShapes
<1>14. Behind(comicStore, comicStore') /\ LiveKept /\ editor'.epoch >= editor.epoch
  BY <1>1, <1>3, <1>7, BehindItself DEF LiveKept
<1>15. OpSafe(op)'
  BY <1>1, <1>3, <1>10, <1>11, <1>13, <1>14, OpStays
<1>16. \A j \in Ops : \/ ops'[j] = ops[j]
                      \/ /\ j = i /\ ops'[j] = op
                         /\ \A k \in Ops \ {j} : ops[k] # NoOp => ~ops[k].live
                         /\ \A k \in Ops \ {j} : ops'[k] = ops[k]
  BY <1>1, <1>3, <1>12
<1>17. ASSUME NEW j \in Ops, ops'[j] = op
       PROVE  OpSafe(ops[j])'
  <2>1. op = ops[j]'
    BY <1>17
  <2> QED
    BY <1>15, <2>1 DEF OpSafe, SafeText
<1> QED
  BY <1>3, <1>7, <1>12, <1>13, <1>14, <1>16, <1>17, EditorMoves
\* One operation goes on, of the same editor and document.
LEMMA OneOp ==
  ASSUME ComicInv, NEW i \in Ops, ops[i] # NoOp, NEW op \in EditorOps,
         ops' = [ops EXCEPT ![i] = op], op.live = ops[i].live, op.doc = ops[i].doc,
         op.shown <= Revision(comicStore', op.doc), op.live => OpSafe(op)'
  PROVE  \A j \in Ops :
           \/ ops'[j] = NoOp \/ ops'[j] = ops[j]
           \/ /\ ops'[j].shown <= Revision(comicStore', ops'[j].doc)
              /\ ops'[j].live => /\ ops'[j].doc = editor.doc
                                 /\ OpSafe(ops[j])'
                                 /\ \A k \in Ops \ {j} : ops[k] # NoOp => ~ops[k].live
                                 /\ \A k \in Ops \ {j} : ops'[k] = ops[k]
<1>1. ops \in [Ops -> EditorOps \cup {NoOp}] /\ OneEditor
  BY DEF ComicInv, ComicShapes
<1>2. ops'[i] = op /\ \A k \in Ops \ {i} : ops'[k] = ops[k]
  BY <1>1
<1>3. op.live => /\ op.doc = editor.doc
                 /\ \A k \in Ops \ {i} : ops[k] # NoOp => ~ops[k].live
  BY <1>1 DEF OneEditor
<1>4. op.live => OpSafe(ops[i])'
  <2>1. op = ops[i]'
    BY <1>2
  <2> QED
    BY <2>1 DEF OpSafe, SafeText
<1> QED
  BY <1>2, <1>3, <1>4

\* The frame of the steps of an operation that leave the texts' drafts and versions
\* alone.
LEMMA OpMoves ==
  ASSUME ComicInv, NEW i \in Ops, ops[i] # NoOp, NEW op \in EditorOps \cup {NoOp},
         ops' = [ops EXCEPT ![i] = op],
         op # NoOp => /\ op.live = ops[i].live /\ op.doc = ops[i].doc
                      /\ op.shown <= Revision(comicStore', op.doc)
                      /\ op.live => OpSafe(op)',
         comicStore' \in Stores, Behind(comicStore, comicStore'),
         comicStore'.injection = comicStore.injection,
         reading' \in {reading, [phase |-> "asked"]},
         UNCHANGED <<page, live, older, opened, upload, action, clicks>>,
         notes' = notes \/ notes' \in Unsaved,
         editor' \in Editors, editor'.doc = editor.doc, editor'.epoch = editor.epoch,
         editor'.pending = editor.pending \/ PendingSafe'
  PROVE  ComicInv'
<1>1. ComicShapes /\ editor.epoch \in Nat
  BY DEF ComicInv, ComicShapes, Editors
<1>2. ops' \in [Ops -> EditorOps \cup {NoOp}] /\ reading' \in Readings
  BY <1>1 DEF ComicShapes, Readings
<1>3. ComicShapes'
  BY <1>1, <1>2 DEF ComicShapes
<1>4. LiveKept /\ editor'.epoch >= editor.epoch
  BY <1>1 DEF LiveKept
<1>5. \A j \in Ops :
           \/ ops'[j] = NoOp \/ ops'[j] = ops[j]
           \/ /\ ops'[j].shown <= Revision(comicStore', ops'[j].doc)
              /\ ops'[j].live => /\ ops'[j].doc = editor.doc
                                 /\ OpSafe(ops[j])'
                                 /\ \A k \in Ops \ {j} : ops[k] # NoOp => ~ops[k].live
                                 /\ \A k \in Ops \ {j} : ops'[k] = ops[k]
  <2>1. CASE op = NoOp
    BY <1>1, <2>1 DEF ComicShapes
  <2>2. CASE op # NoOp
    BY <2>2, OneOp
  <2> QED
    BY <2>1, <2>2
<1> QED
  BY <1>3, <1>4, <1>5, EditorMoves

\* The constitution an optimization saves first is taken or refused.
LEMMA SaveVisualFirstInv ==
  ASSUME ComicInv, NEW i \in Ops, SaveVisualFirst(i)
  PROVE  ComicInv'
<1>1. /\ ComicShapes /\ RevisionsExist /\ OpsSafe /\ notes \in Unsaved
      /\ comicStore \in Stores /\ editor \in Editors /\ editor.epoch \in Nat
  BY DEF ComicInv, ComicShapes, Editors
<1>2. /\ UNCHANGED <<page, live, older, opened, editor, upload, action, clicks>>
      /\ ops[i] # NoOp /\ ops[i].phase = "visual"
      /\ reading' \in {reading, [phase |-> "asked"]}
  BY DEF SaveVisualFirst, ComicIdle, Asked
<1>3. PICK was \in EditorOps : was = ops[i]
  BY <1>1, <1>2, OpShape
<1>4. was.doc \in Docs /\ was.visual \in Visuals /\ was.phase = "visual"
  BY <1>2, <1>3 DEF EditorOps
<1>5. PICK phase \in {"visualSaved", "refresh"} :
        /\ ops' = [ops EXCEPT ![i].phase = phase]
        /\ phase = "visualSaved" =>
             comicStore' = [comicStore EXCEPT !.visual = [was.visual EXCEPT !.revision = @ + 1]]
        /\ phase = "refresh" => UNCHANGED comicStore
  BY <1>3 DEF SaveVisualFirst
<1>6. notes' \in Unsaved
  BY <1>1 DEF SaveVisualFirst, Unsaved
<1>7. /\ comicStore' \in Stores /\ comicStore'.versions = comicStore.versions
      /\ comicStore'.injection = comicStore.injection
  <2>1. CASE phase = "visualSaved"
    <3>1. [was.visual EXCEPT !.revision = @ + 1] \in Visuals
      BY <1>4 DEF Visuals
    <3>2. PICK taken \in Visuals : taken = [was.visual EXCEPT !.revision = @ + 1]
      BY <3>1
    <3> QED
      BY <1>1, <1>5, <2>1, <3>2 DEF Stores
  <2>2. CASE phase = "refresh"
    BY <1>1, <1>5, <2>2
  <2> QED
    BY <1>5, <2>1, <2>2
<1>8. Behind(comicStore, comicStore')
  BY <1>1, <1>7, BehindSame
<1> DEFINE op == [was EXCEPT !.phase = phase]
<1>9. /\ op \in EditorOps /\ op.live = was.live /\ op.doc = was.doc /\ op.shown = was.shown
      /\ op.phase = phase /\ op.version = was.version /\ op.kind = was.kind
      /\ op.epoch = was.epoch /\ op.needed = was.needed /\ op # NoOp
  BY <1>3, <1>5 DEF EditorOps, Unsent, NoOp
<1>10. ops' = [ops EXCEPT ![i] = op]
  BY <1>1, <1>3, <1>5 DEF ComicShapes
<1> HIDE DEF op
<1>11. op.live => OpSafe(op)
  <2>1. was.live => OpSafe(was)
    BY <1>1, <1>2, <1>3 DEF OpsSafe
  <2> QED
    BY <1>4, <1>5, <1>9, <2>1 DEF OpSafe, Unsent
<1>12. op.live => OpSafe(op)'
  BY <1>2, <1>7, <1>11 DEF OpSafe, LiveSafe, SafeText, SavedText
<1>13. op.shown <= Revision(comicStore', op.doc)
  BY <1>1, <1>2, <1>3, <1>7, <1>9 DEF RevisionsExist, Revision
<1> QED
  BY <1>1, <1>2, <1>3, <1>6, <1>7, <1>8, <1>9, <1>10, <1>12, <1>13, OpMoves

\* Its answer drops the drafts of the constitution.
LEMMA VisualSavedFirstInv ==
  ASSUME ComicInv, NEW i \in Ops, VisualSavedFirst(i)
  PROVE  ComicInv'
<1>1. /\ ComicShapes /\ RevisionsExist /\ OpsSafe /\ notes \in Unsaved
      /\ comicStore \in Stores /\ editor \in Editors
  BY DEF ComicInv, ComicShapes
<1>2. /\ UNCHANGED <<comicStore, page, reading, live, older, opened, editor, upload, action, clicks>>
      /\ ops[i] # NoOp /\ ops[i].phase = "visualSaved"
      /\ ops' = [ops EXCEPT ![i].phase = "before", ![i].visual = NoProfile]
      /\ notes' = WithoutVisual
  BY DEF VisualSavedFirst, ComicIdle
<1>3. PICK was \in EditorOps : was = ops[i]
  BY <1>1, <1>2, OpShape
<1>4. notes' \in Unsaved
  <2>1. NoPictures \in PictureSets
    BY DEF NoPictures, PictureSets
  <2> QED
    BY <1>1, <1>2, <2>1 DEF WithoutVisual, Unsaved
<1>5. NoProfile \in Visuals
  BY DEF NoProfile, Visuals, PictureSets
<1> DEFINE op == [was EXCEPT !.phase = "before", !.visual = NoProfile]
<1>6. /\ op \in EditorOps /\ op.live = was.live /\ op.doc = was.doc /\ op.shown = was.shown
      /\ op.phase = "before" /\ op.version = was.version /\ op.kind = was.kind
      /\ op.epoch = was.epoch /\ op.needed = was.needed /\ op # NoOp
  BY <1>3, <1>5 DEF EditorOps, Unsent, NoOp
<1>7. ops' = [ops EXCEPT ![i] = op]
  BY <1>1, <1>2, <1>3 DEF ComicShapes
<1> HIDE DEF op
<1>8. op.live => OpSafe(op)
  <2>1. was.live => OpSafe(was)
    BY <1>1, <1>2, <1>3 DEF OpsSafe
  <2> QED
    BY <1>2, <1>3, <1>6, <2>1 DEF OpSafe, Unsent
<1>9. op.live => OpSafe(op)'
  BY <1>2, <1>8 DEF OpSafe, LiveSafe, SafeText, SavedText
<1>10. op.shown <= Revision(comicStore', op.doc)
  BY <1>1, <1>2, <1>3, <1>6 DEF RevisionsExist
<1>11. Behind(comicStore, comicStore')
  BY <1>1, <1>2, BehindItself
<1> QED
  BY <1>1, <1>2, <1>3, <1>4, <1>6, <1>7, <1>9, <1>10, <1>11, OpMoves

\* What an optimization saves first is what the editor shows by then.
LEMMA SendTextInv ==
  ASSUME ComicInv, NEW i \in Ops, SendText(i)
  PROVE  ComicInv'
<1>1. /\ ComicShapes /\ RevisionsExist /\ OneEditor /\ OpsSafe
      /\ comicStore \in Stores /\ editor \in Editors
  BY DEF ComicInv, ComicShapes
<1>2. /\ UNCHANGED <<comicStore, page, reading, live, older, opened, editor, notes, upload, action, clicks>>
      /\ ops[i] # NoOp /\ ops[i].phase = "before"
      /\ ops' = [ops EXCEPT ![i].phase = IF ops[i].needed THEN "sent" ELSE "saved",
                            ![i].sent = IF ops[i].live THEN Submitted ELSE @]
  BY DEF SendText, ComicIdle
<1>3. PICK was \in EditorOps : was = ops[i]
  BY <1>1, <1>2, OpShape
<1>4. was.doc \in Docs /\ was.sent \in Sent /\ was.phase = "before"
  BY <1>2, <1>3 DEF EditorOps
<1>5. /\ Submitted \in Sent /\ Submitted.draft = live[editor.doc]
      /\ opened[editor.doc] = 0 => Submitted.draft = Unsaid \/ Submitted.text = Submitted.draft.text
  BY <1>1, SubmittedShape
<1>6. PICK sent \in Sent : sent = IF was.live THEN Submitted ELSE was.sent
  BY <1>4, <1>5
<1>7. PICK phase \in {"sent", "saved"} : phase = IF was.needed THEN "sent" ELSE "saved"
  OBVIOUS
<1> DEFINE op == [was EXCEPT !.phase = phase, !.sent = sent]
<1>8. /\ op \in EditorOps /\ op.live = was.live /\ op.doc = was.doc /\ op.shown = was.shown
      /\ op.phase = phase /\ op.sent = sent /\ op.version = was.version /\ op.kind = was.kind
      /\ op.epoch = was.epoch /\ op.needed = was.needed
  BY <1>3, <1>6, <1>7 DEF EditorOps
<1>9. ops' = [ops EXCEPT ![i] = op]
  BY <1>1, <1>2, <1>3, <1>6, <1>7 DEF ComicShapes
<1> HIDE DEF op
<1>10. op.live => OpSafe(op)
  <2> SUFFICES ASSUME was.live
               PROVE  OpSafe(op)
    BY <1>8
  <2>1. OpSafe(was)
    BY <1>1, <1>2, <1>3 DEF OpsSafe
  <2>2. CASE was.needed
    <3>1. sent.draft = live[editor.doc] /\ phase = "sent"
      BY <1>5, <1>6, <1>7, <2>2
    <3>2. opened[editor.doc] = 0 => sent.draft = Unsaid \/ sent.text = sent.draft.text
      BY <1>5, <1>6
    <3>3. was.version = 0 /\ opened[editor.doc] # 0 => LiveSafe
      BY <1>4, <2>1 DEF Unsent, OpSafe
    <3>4. was.epoch <= editor.epoch
      BY <2>1 DEF Unsent, OpSafe
    <3> QED
      BY <1>8, <3>1, <3>2, <3>3, <3>4 DEF Unsent, OpSafe, LiveSafe
  <2>3. CASE ~was.needed
    BY <1>4, <1>7, <1>8, <2>1, <2>3 DEF Unsent, OpSafe
  <2> QED
    BY <2>2, <2>3
<1>11. op.live => OpSafe(op)'
  BY <1>2, <1>10 DEF Unsent, OpSafe, LiveSafe, SafeText, SavedText
<1>12. op.shown <= Revision(comicStore', op.doc)
  BY <1>1, <1>2, <1>3, <1>8 DEF RevisionsExist
<1>13. Behind(comicStore, comicStore')
  BY <1>1, <1>2, BehindItself
<1>14. op # NoOp
  BY <1>8 DEF EditorOps, NoOp
<1> QED
  BY <1>1, <1>2, <1>3, <1>8, <1>9, <1>11, <1>12, <1>13, OpMoves

\* An operation is over.
LEMMA EndOpInv ==
  ASSUME ComicInv, NEW i \in Ops, ops[i] # NoOp, EndOp(i),
         UNCHANGED <<comicStore, page, reading, live, older, opened, editor, notes, upload, action, clicks>>
  PROVE  ComicInv'
<1>1. comicStore \in Stores /\ editor \in Editors
  BY DEF ComicInv, ComicShapes
<1>2. Behind(comicStore, comicStore')
  BY <1>1, BehindItself
<1> QED
  BY <1>1, <1>2, OpMoves DEF EndOp

\* A text that names the newest revision is appended.
LEMMA TakeTextInv ==
  ASSUME ComicInv, NEW i \in Ops, TakeText(i)
  PROVE  ComicInv'
<1>1. /\ ComicShapes /\ RevisionsExist /\ OneEditor /\ OpsSafe
      /\ comicStore \in Stores /\ editor \in Editors
  BY DEF ComicInv, ComicShapes
<1>2. /\ UNCHANGED <<page, reading, live, older, opened, editor, notes, upload, action, clicks>>
      /\ ops[i] # NoOp /\ ops[i].phase = "sent"
  BY DEF TakeText, ComicIdle
<1>3. PICK was \in EditorOps : was = ops[i]
  BY <1>1, <1>2, OpShape
<1> DEFINE d == was.doc
           more == Append(comicStore.versions[d], was.sent.text)
           texts == [comicStore.versions EXCEPT ![d] = more]
           old == (IF was.ack THEN comicStore.outdated \ {d} ELSE comicStore.outdated)
                    \cup (d + 1 .. DocCount)
<1>4. CASE EndOp(i) /\ UNCHANGED comicStore
  BY <1>2, <1>4, EndOpInv
<1>5. CASE /\ comicStore' = [comicStore EXCEPT !.versions = texts, !.outdated = old]
           /\ ops' = [ops EXCEPT ![i].phase = "answer", ![i].shown = Revision(comicStore, d) + 1]
  <2>1. d \in Docs /\ was.sent.text \in Nat /\ was.phase = "sent"
    BY <1>2, <1>3 DEF EditorOps, Sent
  <2>2. /\ comicStore.versions \in [Docs -> Revisions] /\ comicStore.versions[d] \in Seq(Nat)
        /\ Revision(comicStore, d) \in Nat \ {0}
        /\ Len(comicStore.versions[d]) = Revision(comicStore, d)
    BY <1>1, <2>1, StoreShape DEF Revision
  <2>3. more \in Seq(Nat) /\ more # <<>> /\ Len(more) = Revision(comicStore, d) + 1
        /\ more[Revision(comicStore, d) + 1] = was.sent.text
    BY <2>1, <2>2
  <2> DEFINE text == was.sent.text
  <2>4. texts \in [Docs -> Revisions]
    <3>1. more \in Revisions
      BY <2>3 DEF Revisions
    <3> HIDE DEF more
    <3> QED
      BY <2>1, <2>2, <3>1
  <2>5. /\ texts[d] = more
        /\ \A e \in Docs : \/ texts[e] = comicStore.versions[e]
                           \/ \E t \in Nat : texts[e] = Append(comicStore.versions[e], t)
    BY <2>1, <2>2
  <2>6. old \in SUBSET Docs
    BY <1>1, <2>1, ComicDeskAssumption DEF Stores, Docs
  <2> HIDE DEF texts, old
  <2>7. comicStore' \in Stores /\ comicStore'.versions = texts
        /\ comicStore'.injection = comicStore.injection
    BY <1>1, <1>5, <2>4, <2>6 DEF Stores
  <2>8. Behind(comicStore, comicStore')
    BY <1>1, <2>5, <2>7, BehindMore
  <2>9. Revision(comicStore', d) = Revision(comicStore, d) + 1
    BY <2>3, <2>5, <2>7 DEF Revision
  <2>10. text \in SavedText(comicStore', d)
    <3>1. SavedText(comicStore', d) = {comicStore'.versions[d][r] : r \in 1..Revision(comicStore', d)}
      BY <2>1, <2>7, StoreShape
    <3> QED
      BY <2>2, <2>3, <2>5, <2>7, <2>9, <3>1
  <2>11. PICK shown \in Nat \ {0} : shown = Revision(comicStore, d) + 1
    BY <2>2
  <2> DEFINE op == [was EXCEPT !.phase = "answer", !.shown = shown]
  <2>12. /\ op \in EditorOps /\ op.live = was.live /\ op.doc = was.doc /\ op.shown = shown
         /\ op.phase = "answer" /\ op.sent = was.sent /\ op.version = was.version
         /\ op.kind = was.kind /\ op.epoch = was.epoch
    BY <1>3, <2>11 DEF EditorOps
  <2>13. ops' = [ops EXCEPT ![i] = op]
    BY <1>1, <1>3, <1>5, <2>11 DEF ComicShapes
  <2> HIDE DEF op
  <2>14. ComicShapes'
    <3>1. ops' \in [Ops -> EditorOps \cup {NoOp}]
      BY <1>1, <2>12, <2>13 DEF ComicShapes
    <3> QED
      BY <1>1, <1>2, <2>7, <3>1 DEF ComicShapes
  <2>15. ASSUME op.live
         PROVE  OpSafe(op)'
    <3>1. OpSafe(was) /\ was.doc = editor.doc
      BY <1>1, <1>2, <1>3, <2>12, <2>15 DEF OpsSafe, OneEditor
    <3>2. LiveKept /\ editor'.epoch >= editor.epoch
      BY <1>1, <1>2 DEF LiveKept, Editors
    <3>3. OpSafe(was)'
      BY <1>1, <1>2, <2>8, <2>14, <3>1, <3>2, OpStays
    <3>4. SafeText(text)'
      BY <1>2, <2>10, <3>1 DEF SafeText, SavedText
    <3> QED
      BY <2>1, <2>12, <3>3, <3>4 DEF Unsent, OpSafe
  <2>16. op.shown <= Revision(comicStore', op.doc) /\ op # NoOp
    BY <2>2, <2>9, <2>11, <2>12 DEF EditorOps, NoOp
  <2> QED
    BY <1>1, <1>2, <1>3, <2>7, <2>8, <2>12, <2>13, <2>15, <2>16, OpMoves
<1> QED
  BY <1>3, <1>4, <1>5 DEF TakeText
\* The answer settles the draft that was sent, or opens the version that covers it.
LEMMA AnswerTextInv ==
  ASSUME ComicInv, NEW i \in Ops, AnswerText(i)
  PROVE  ComicInv'
<1>1. /\ ComicShapes /\ RevisionsExist /\ OneEditor /\ OpsSafe
      /\ comicStore \in Stores /\ editor \in Editors /\ editor.epoch \in Nat
      /\ live \in [Docs -> Drafts] /\ opened \in [Docs -> Nat] /\ older \subseteq OlderDrafts
  BY DEF ComicInv, ComicShapes, Editors
<1>2. /\ UNCHANGED <<comicStore, page, editor, notes, upload, action, clicks>>
      /\ ops[i] # NoOp /\ ops[i].phase = "answer"
  BY DEF AnswerText, ComicIdle
<1>3. PICK was \in EditorOps : was = ops[i]
  BY <1>1, <1>2, OpShape
<1>4. CASE ~was.live
  <2>1. EndOp(i) /\ UNCHANGED <<live, older, opened, reading>>
    BY <1>3, <1>4 DEF AnswerText
  <2> QED
    BY <1>2, <2>1, EndOpInv
<1>5. CASE was.live
  <2>1. /\ was.doc \in Docs /\ was.sent \in Sent /\ was.shown \in Nat \ {0} /\ was.version \in Nat
        /\ was.kind \in {"save", "optimize"} /\ was.phase = "answer"
    BY <1>2, <1>3 DEF EditorOps
  <2>2. OpSafe(was) /\ was.doc = editor.doc
    BY <1>1, <1>2, <1>3, <1>5 DEF OpsSafe, OneEditor
  <2>3. was.shown <= Revision(comicStore, was.doc)
    BY <1>1, <1>2, <1>3 DEF RevisionsExist
  <2> DEFINE d == was.doc
  <2>4. /\ reading' = [phase |-> "asked"]
        /\ ops' = [ops EXCEPT ![i].phase = IF was.kind = "save" THEN "refresh" ELSE "saved"]
        /\ IF was.version = 0
           THEN /\ live' = [live EXCEPT ![d] = Settled(@, was.sent.draft, was.shown)]
                /\ UNCHANGED <<older, opened>>
           ELSE /\ opened' = [opened EXCEPT ![d] = was.shown]
                /\ older' = IF Visible = was.sent.text THEN older
                            ELSE older \cup {[doc |-> d, version |-> was.shown, text |-> Visible]}
                /\ UNCHANGED live
    BY <1>3, <1>5 DEF AnswerText, Asked
  <2>5. PICK phase \in {"refresh", "saved"} : phase = IF was.kind = "save" THEN "refresh" ELSE "saved"
    OBVIOUS
  <2> DEFINE op == [was EXCEPT !.phase = phase]
  <2>6. /\ op \in EditorOps /\ op.live /\ op.doc = d /\ op.shown = was.shown
        /\ op.phase = phase /\ op.version = was.version /\ op.kind = was.kind
        /\ op.epoch = was.epoch
    BY <1>3, <1>5, <2>5 DEF EditorOps
  <2>7. ops' = [ops EXCEPT ![i] = op]
    BY <1>1, <1>3, <2>4, <2>5 DEF ComicShapes
  <2> HIDE DEF op
  <2>8. Visible \in Nat
    BY <1>1, VisibleText
  <2>9. Settled(live[d], was.sent.draft, was.shown) \in Drafts
    BY <1>1, <2>1 DEF Settled, Drafts, Unsaid
  <2>10. live' \in [Docs -> Drafts] /\ opened' \in [Docs -> Nat] /\ older' \subseteq OlderDrafts
    <3>1. CASE was.version = 0
      BY <1>1, <2>4, <2>9, <3>1
    <3>2. CASE was.version # 0
      <4>1. [doc |-> d, version |-> was.shown, text |-> Visible] \in OlderDrafts
        BY <2>1, <2>8 DEF OlderDrafts
      <4> QED
        BY <1>1, <2>1, <2>4, <3>2, <4>1
    <3> QED
      BY <3>1, <3>2
  <2>11. ComicShapes'
    <3>1. ops' \in [Ops -> EditorOps \cup {NoOp}] /\ reading' \in Readings
      BY <1>1, <2>4, <2>6, <2>7 DEF ComicShapes, Readings
    <3> QED
      BY <1>1, <1>2, <2>10, <3>1 DEF ComicShapes
  <2>12. Behind(comicStore, comicStore') /\ editor'.epoch >= editor.epoch
    BY <1>1, <1>2, BehindItself
  <2>13. LiveKept
    <3>1. CASE was.version = 0
      <4>1. live'[editor.doc] = Settled(live[d], was.sent.draft, was.shown)
        BY <1>1, <2>1, <2>2, <2>4, <3>1
      <4>2. live[d] \in Drafts
        BY <1>1, <2>1
      <4> QED
        BY <2>2, <4>1, <4>2 DEF LiveKept, Settled, Drafts
    <3>2. CASE was.version # 0
      BY <2>4, <3>2 DEF LiveKept
    <3> QED
      BY <3>1, <3>2
  <2>14. \A e \in Docs : live'[e] = live[e] \/ live'[e].base <= Revision(comicStore', e)
    <3>1. Settled(live[d], was.sent.draft, was.shown).base <= Revision(comicStore, d)
      <4>1. live[d] \in Drafts /\ Revision(comicStore, d) \in Nat
        BY <1>1, <2>1, StoreShape
      <4> QED
        BY <2>1, <2>3, <4>1 DEF Settled, Drafts, Unsaid
    <3> QED
      BY <1>1, <1>2, <2>1, <2>4, <3>1
  <2>15. \A e \in Docs : opened'[e] = opened[e] \/ opened'[e] <= Revision(comicStore', e)
    BY <1>1, <1>2, <2>1, <2>3, <2>4
  <2>16. OpSafe(op)'
    <3>1. CASE was.kind = "save"
      BY <1>2, <2>2, <2>5, <2>6, <3>1 DEF Unsent, OpSafe
    <3>2. CASE was.kind = "optimize" /\ was.version # 0
      <4>1. opened'[editor.doc] # 0
        BY <1>1, <2>1, <2>2, <2>4, <3>2
      <4> QED
        BY <1>2, <2>2, <2>5, <2>6, <3>2, <4>1 DEF Unsent, OpSafe
    <3>3. CASE was.kind = "optimize" /\ was.version = 0
      <4>1. was.epoch = editor.epoch /\ opened[editor.doc] = 0 => LiveSafe
        BY <2>1, <2>2, <3>3 DEF Unsent, OpSafe, LiveSafe
      <4>2. LiveSafe => LiveSafe'
        BY <1>1, <1>2, <2>11, <2>12, <2>13, SafeStays
      <4>3. opened' = opened
        BY <2>4, <3>3
      <4> QED
        BY <1>2, <2>2, <2>5, <2>6, <3>3, <4>1, <4>2, <4>3 DEF Unsent, OpSafe
    <3> QED
      BY <2>1, <3>1, <3>2, <3>3
  <2>17. op.shown <= Revision(comicStore', op.doc)
    BY <1>2, <2>3, <2>6
  <2>18. \A j \in Ops :
           \/ ops'[j] = NoOp \/ ops'[j] = ops[j]
           \/ /\ ops'[j].shown <= Revision(comicStore', ops'[j].doc)
              /\ ops'[j].live => /\ ops'[j].doc = editor.doc
                                 /\ OpSafe(ops[j])'
                                 /\ \A k \in Ops \ {j} : ops[k] # NoOp => ~ops[k].live
                                 /\ \A k \in Ops \ {j} : ops'[k] = ops[k]
    <3>1. op.live = ops[i].live /\ op.doc = ops[i].doc
      BY <1>3, <1>5, <2>6 DEF EditorOps
    <3> QED
      BY <1>2, <2>6, <2>7, <2>16, <2>17, <3>1, OneOp
  <2>19. \A j \in Ops : ops'[j] # NoOp /\ ops'[j].live => ops'[j] # ops[j]
    <3>1. \A j \in Ops \ {i} : ops[j] # NoOp => ~ops[j].live
      BY <1>1, <1>2, <1>3, <1>5 DEF OneEditor
    <3>2. ops'[i] # ops[i] /\ \A j \in Ops \ {i} : ops'[j] = ops[j]
      BY <1>1, <1>2, <2>5, <2>6, <2>7 DEF ComicShapes
    <3> QED
      BY <3>1, <3>2
  <2>20. opened'[editor.doc] = opened[editor.doc] \/ opened'[editor.doc] # 0
    BY <1>1, <2>1, <2>2, <2>4
  <2> QED
    BY <1>2, <2>4, <2>11, <2>12, <2>13, <2>14, <2>15, <2>18, <2>19, <2>20, EditorMoves
<1> QED
  BY <1>4, <1>5
\* The job is asked for, and awaited by the editor that is still on screen.
LEMMA SubmitOptimizeInv ==
  ASSUME ComicInv, NEW i \in Ops, SubmitOptimize(i)
  PROVE  ComicInv'
<1>1. /\ ComicShapes /\ RevisionsExist /\ OneEditor /\ OpsSafe
      /\ comicStore \in Stores /\ editor \in Editors /\ editor.epoch \in Nat
      /\ Len(comicStore.jobs) \in Nat
  BY DEF ComicInv, ComicShapes, Editors, Stores
<1>2. /\ UNCHANGED <<page, live, older, opened, notes, upload, action, clicks>>
      /\ ops[i] # NoOp /\ ops[i].phase = "saved"
  BY DEF SubmitOptimize, ComicIdle
<1>3. PICK was \in EditorOps : was = ops[i]
  BY <1>1, <1>2, OpShape
<1>4. CASE EndOp(i) /\ UNCHANGED <<comicStore, editor, reading>>
  BY <1>2, <1>4, EndOpInv
<1>5. CASE /\ was.live
           /\ comicStore' = [comicStore EXCEPT !.jobs = Append(@, Job("optimize", was.doc, ComicCascade(was.doc)))]
           /\ editor' = [editor EXCEPT !.pending = [job |-> Len(comicStore.jobs) + 1,
                                                    revision |-> was.shown, epoch |-> was.epoch]]
           /\ ops' = [ops EXCEPT ![i].phase = "refresh"] /\ reading' = [phase |-> "asked"]
  <2>1. /\ was.doc \in Docs /\ was.shown \in Nat /\ was.epoch \in Nat /\ was.phase = "saved"
        /\ was.kind \in {"save", "optimize"}
    BY <1>2, <1>3 DEF EditorOps
  <2> DEFINE op == [was EXCEPT !.phase = "refresh"]
  <2>2. op \in EditorOps /\ op.live /\ op.doc = was.doc /\ op.shown = was.shown
        /\ op.phase = "refresh" /\ op.epoch = was.epoch /\ op # NoOp
    BY <1>3, <1>5 DEF EditorOps, NoOp
  <2>3. ops' = [ops EXCEPT ![i] = op]
    BY <1>1, <1>3, <1>5 DEF ComicShapes
  <2> HIDE DEF op
  <2> DEFINE rows == Append(comicStore.jobs, Job("optimize", was.doc, ComicCascade(was.doc)))
  <2>4. rows \in Seq(JobRows)
    <3>1. \A e \in Docs : Revision(comicStore, e) \in Nat
      BY <1>1, StoreShape
    <3>2. [e \in Docs |-> Revision(comicStore, e)] \in [Docs -> Nat]
      BY <3>1
    <3>3. ComicCascade(was.doc) \in SUBSET Docs
      BY <2>1 DEF ComicCascade, Docs
    <3>4. Job("optimize", was.doc, ComicCascade(was.doc)) \in JobRows
      BY <2>1, <3>2, <3>3 DEF Job, JobRows
    <3> QED
      BY <1>1, <3>4 DEF Stores
  <2>5. comicStore' = [comicStore EXCEPT !.jobs = rows]
    BY <1>5
  <2> HIDE DEF rows
  <2>6. /\ comicStore' \in Stores /\ comicStore'.versions = comicStore.versions
        /\ comicStore'.injection = comicStore.injection
    BY <1>1, <2>4, <2>5 DEF Stores
  <2>7. Behind(comicStore, comicStore')
    BY <1>1, <2>6, BehindSame
  <2>8. OpSafe(was) /\ was.doc = editor.doc
    BY <1>1, <1>2, <1>3, <1>5 DEF OpsSafe, OneEditor
  <2> DEFINE awaited == [job |-> Len(comicStore.jobs) + 1, revision |-> was.shown, epoch |-> was.epoch]
  <2>9. awaited \in Awaited /\ awaited.epoch = was.epoch /\ editor' = [editor EXCEPT !.pending = awaited]
    BY <1>1, <1>5, <2>1 DEF Awaited
  <2> HIDE DEF awaited
  <2>10. /\ editor' \in Editors /\ editor'.doc = editor.doc /\ editor'.epoch = editor.epoch
         /\ editor'.pending = awaited
    BY <1>1, <2>9 DEF Editors
  <2>11. LiveSafe => LiveSafe'
    <3>1. SavedText(comicStore', editor'.doc) = SavedText(comicStore, editor.doc)
      BY <2>6, <2>10 DEF SavedText
    <3>2. \A t : SafeText(t)' <=> t \in SavedText(comicStore', editor'.doc)
      BY DEF SafeText, SavedText
    <3> QED
      BY <1>2, <2>10, <3>1, <3>2 DEF LiveSafe, SafeText
  <2>12. PendingSafe'
    <3>1. was.epoch <= editor.epoch
      BY <2>8 DEF Unsent, OpSafe
    <3>2. was.epoch = editor.epoch /\ opened[editor.doc] = 0 => LiveSafe
      BY <2>1, <2>8 DEF Unsent, OpSafe
    <3> QED
      BY <1>2, <2>9, <2>10, <2>11, <3>1, <3>2 DEF PendingSafe
  <2>13. OpSafe(op)'
    <3>1. op.epoch <= editor'.epoch
      BY <2>2, <2>8, <2>10 DEF Unsent, OpSafe
    <3> QED
      BY <2>2, <3>1 DEF Unsent, OpSafe
  <2>14. op.shown <= Revision(comicStore', op.doc) /\ op.live = ops[i].live /\ op.doc = ops[i].doc
    <3>1. was.shown <= Revision(comicStore, was.doc)
      BY <1>1, <1>2, <1>3 DEF RevisionsExist
    <3> QED
      BY <1>3, <1>5, <2>2, <2>6, <3>1 DEF Revision
  <2> QED
    BY <1>2, <1>5, <2>2, <2>3, <2>6, <2>7, <2>10, <2>12, <2>13, <2>14, OpMoves
<1> QED
  BY <1>3, <1>4, <1>5 DEF SubmitOptimize, StillOpen, Asked

---------------------------------------------------------------------------
\* The initial states satisfy the invariant.
LEMMA InitComicInv == ComicInit /\ WindowInit => ComicInv
<1> SUFFICES ASSUME ComicInit, WindowInit PROVE ComicInv
  OBVIOUS
<1>1. PICK r \in 1..2 : comicStore = ComicStart(r)
  BY DEF ComicInit
<1>2. \A n \in {1, r} : ComicStart(n) \in Stores /\ ComicStart(n).versions = [d \in Docs |-> <<d>>]
  <2>1. \A d \in Docs : <<d>> \in Revisions
    BY DEF Revisions, Docs
  <2>2. [d \in Docs |-> <<d>>] \in [Docs -> Revisions]
    BY <2>1
  <2>3. <<>> \in Seq(JobRows) /\ {} \in PictureSets /\ r \in Nat
    BY <1>1 DEF PictureSets
  <2> QED
    BY <2>2, <2>3 DEF ComicStart, Stores, Injections, Visuals
<1>3. /\ page = ComicStart(1) /\ reading = [phase |-> "none"]
      /\ live = [d \in Docs |-> Unsaid] /\ older = {} /\ opened = [d \in Docs |-> 0]
      /\ editor = [doc |-> 1, epoch |-> 0, pending |-> Unasked]
      /\ ops = [i \in Ops |-> NoOp]
      /\ notes = [injection |-> Unsaid, constitution |-> 0, references |-> NoPictures, conflict |-> FALSE]
      /\ upload = NoPictures /\ action = AtEase
  BY DEF ComicInit
<1>4. comicStore \in Stores /\ page \in Stores /\ comicStore.versions = page.versions
  BY <1>1, <1>2, <1>3
<1>5. Unsaid \in Drafts /\ Unsaid.base = 0 /\ NoPictures \in PictureSets /\ 1 \in Docs
  BY ComicDeskAssumption DEF Unsaid, Drafts, NoPictures, PictureSets, Docs
<1>6. ComicShapes
  <2>1. clicks \in Nat
    BY DEF WindowInit
  <2>2. editor \in Editors /\ notes \in Unsaved /\ reading \in Readings
    BY <1>3, <1>5 DEF Editors, Unsaved, Readings
  <2> QED
    BY <1>3, <1>4, <1>5, <2>1, <2>2 DEF ComicShapes
<1>7. CopiesAreBehind
  BY <1>3, <1>4, BehindSame DEF CopiesAreBehind
<1>8. RevisionsExist
  BY <1>3, <1>4, <1>5, StoreShape DEF RevisionsExist
<1>9. OneEditor /\ OpsSafe
  BY <1>3 DEF OneEditor, OpsSafe
<1>10. PendingSafe
  BY <1>3 DEF PendingSafe
<1>11. InjectionSent
  BY <1>3 DEF InjectionSent, Doing
<1> QED
  BY <1>6, <1>7, <1>8, <1>9, <1>10, <1>11 DEF ComicInv

\* The invariant is inductive.
LEMMA NextComicInv == ComicInv /\ [ComicNext]_comicVars => ComicInv'
<1> SUFFICES ASSUME ComicInv, [ComicNext]_comicVars PROVE ComicInv'
  OBVIOUS
<1>1. CASE UNCHANGED comicVars
  <2>1. /\ UNCHANGED <<comicStore, page, reading, live, older, opened, editor, ops, notes, upload,
                       action, clicks>>
    BY <1>1 DEF comicVars
  <2>2. /\ ComicShapes /\ InjectionSent /\ comicStore \in Stores
    BY DEF ComicInv, ComicShapes
  <2>3. ComicShapes' /\ InjectionSent'
    BY <2>1, <2>2, InjectionStays DEF ComicShapes
  <2>4. Behind(comicStore, comicStore')
    BY <2>1, <2>2, BehindItself
  <2> QED
    BY <2>1, <2>3, <2>4, EditorsStay
<1>2. ASSUME NEW d \in Docs, OpenDocument(d) PROVE ComicInv'
  BY <1>2, OpenDocumentInv
<1>3. ASSUME NEW v \in 0..Revision(page, editor.doc), Navigate(v) PROVE ComicInv'
  BY <1>3, NavigateInv
<1>4. CASE EditComic
  BY <1>4, EditComicInv
<1>5. CASE RebaseDraft
  BY <1>5, RebaseDraftInv
<1>6. CASE PressSaveText \/ PressOptimizeText
  BY <1>6, BeginInv
<1>7. ASSUME NEW i \in Ops,
             \/ SaveVisualFirst(i) \/ VisualSavedFirst(i)
             \/ SendText(i) \/ TakeText(i) \/ AnswerText(i) \/ SubmitOptimize(i) \/ EndRefresh(i)
      PROVE  ComicInv'
  <2>1. CASE EndRefresh(i)
    BY <2>1, EndOpInv DEF EndRefresh, ComicIdle
  <2> QED
    BY <1>7, <2>1, SaveVisualFirstInv, VisualSavedFirstInv, SendTextInv, TakeTextInv, AnswerTextInv, SubmitOptimizeInv
<1>8. CASE JobSaves \/ JobEnds
  BY <1>8, JobSavesInv, JobEndsInv
<1>9. CASE Poll \/ ReadWorkspace
  BY <1>9, ReadInv
<1>10. CASE ShowWorkspace
  BY <1>10, ShowInv
<1>11. CASE \/ TypeInjection \/ RebaseInjection \/ TypeConstitution \/ UploadReferences
            \/ \E s \in SUBSET StylePictures : PickReferences(s)
            \/ \E p \in StylePictures : ReferencesUploaded(p)
            \/ \E keep \in BOOLEAN : ResolveConflict(keep)
  BY <1>11, NotesInv
<1>12. CASE \/ PressSaveInjection \/ PressSaveVisual \/ PressExtract \/ PressComicGenerate
            \/ PressRender \/ PressSync
  BY <1>12, PressesInv
<1>13. CASE InjectionStep
  BY <1>13, InjectionStepInv
<1>14. CASE InjectionSaved
  BY <1>14, InjectionSavedInv
<1>15. CASE VisualStep
  BY <1>15, VisualStepInv
<1>16. CASE VisualSaved \/ ExtractStep \/ JobStep \/ EndAction
  BY <1>16, OtherStepsInv
<1> QED
  BY <1>1, <1>2, <1>3, <1>4, <1>5, <1>6, <1>7, <1>8, <1>9, <1>10, <1>11, <1>12, <1>13, <1>14,
     <1>15, <1>16 DEF ComicNext

\* The invariant holds of every behaviour.
THEOREM ComicInvariant == ComicSpec => []ComicInv
<1>1. ComicInit /\ WindowInit => ComicInv
  BY InitComicInv
<1>2. ComicInv /\ [ComicNext]_comicVars => ComicInv'
  BY NextComicInv
<1> QED
  BY <1>1, <1>2, PTL DEF ComicSpec
---------------------------------------------------------------------------
(* What the invariant is for.                                              *)

\* What a step leaves of the typing, unless the user takes it.
TypingKept ==
  clicks' = clicks =>
    /\ \A d \in Docs : live[d] # Unsaid /\ live'[d].text # live[d].text
                         => live[d].text \in SavedText(comicStore', d)
    /\ \A o \in older : o \in older'
    /\ notes.injection # Unsaid /\ notes'.injection.text # notes.injection.text
         => notes.injection.text = comicStore'.injection.text

\* An answer drops a draft only when the backend has saved its text.
LEMMA AnswerTextKeeps ==
  ASSUME ComicInv, NEW i \in Ops, AnswerText(i)
  PROVE  TypingKept
<1>1. /\ ComicShapes /\ OneEditor /\ OpsSafe /\ live \in [Docs -> Drafts]
  BY DEF ComicInv, ComicShapes
<1>2. /\ UNCHANGED <<comicStore, notes>> /\ ops[i] # NoOp /\ ops[i].phase = "answer"
      /\ \A o \in older : o \in older'
  BY DEF AnswerText
<1>3. PICK op \in EditorOps : op = ops[i]
  BY <1>1, <1>2, OpShape
<1> SUFFICES ASSUME NEW d \in Docs, live[d] # Unsaid, live'[d].text # live[d].text
             PROVE  live[d].text \in SavedText(comicStore', d)
  BY <1>2 DEF TypingKept
<1>4. /\ op.live /\ op.version = 0 /\ d = op.doc
      /\ live'[d] = Settled(live[d], op.sent.draft, op.shown)
  BY <1>1, <1>3 DEF AnswerText
<1>5. op.doc = editor.doc /\ OpSafe(op)
  BY <1>1, <1>2, <1>3, <1>4 DEF OneEditor, OpsSafe
<1>6. live[d] = op.sent.draft
  <2>1. live[d] \in Drafts
    BY <1>1
  <2> QED
    BY <1>4, <2>1 DEF Settled, Drafts
<1>7. op.sent.text = op.sent.draft.text \/ SafeText(op.sent.draft.text)
  BY <1>2, <1>3, <1>4, <1>5, <1>6 DEF OpSafe
<1>8. SafeText(op.sent.text)
  BY <1>2, <1>3, <1>5 DEF OpSafe
<1> QED
  BY <1>2, <1>4, <1>5, <1>6, <1>7, <1>8 DEF SafeText

\* The injection's draft goes only when the backend has its text.
LEMMA InjectionSavedKeeps ==
  ASSUME ComicInv, InjectionSaved
  PROVE  TypingKept
<1>1. ComicShapes /\ InjectionSent /\ notes \in Unsaved /\ notes.injection \in Drafts
  BY NotesShape DEF ComicInv
<1>2. /\ UNCHANGED <<comicStore, live, older>> /\ Doing("injection") /\ action.sent # Unsaid
      /\ notes' = [notes EXCEPT !.injection =
                     Settled(@, action.sent, action.page.injection.revision)]
  BY DEF InjectionSaved
<1>3. action.sent.text = comicStore.injection.text
  BY <1>1, <1>2 DEF InjectionSent
<1>4. notes'.injection = Settled(notes.injection, action.sent, action.page.injection.revision)
  BY <1>1, <1>2 DEF Unsaved
<1>5. ASSUME notes.injection # Unsaid, notes'.injection.text # notes.injection.text
      PROVE  notes.injection = action.sent
  BY <1>1, <1>4, <1>5 DEF Settled, Drafts
<1> QED
  BY <1>2, <1>3, <1>5 DEF TypingKept

\* No other step takes what was typed, unless it is the user's.
LEMMA StepKeepsTyping == ComicInv /\ [ComicNext]_comicVars => [TypingKept]_comicVars
<1> SUFFICES ASSUME ComicInv, ComicNext PROVE TypingKept
  OBVIOUS
<1>1. ComicShapes /\ notes \in Unsaved
  BY DEF ComicInv, ComicShapes
<1>2. CASE clicks' # clicks
  BY <1>2 DEF TypingKept
<1>3. CASE UNCHANGED <<live, older>> /\ notes'.injection = notes.injection
  BY <1>3 DEF TypingKept
<1>4. CASE ComicClick
  BY <1>1, <1>2, <1>4, ClicksShape
<1>5. ASSUME NEW d \in Docs, OpenDocument(d) PROVE TypingKept
  BY <1>4, <1>5 DEF OpenDocument
<1>6. ASSUME NEW v \in 0..Revision(page, editor.doc), Navigate(v) PROVE TypingKept
  BY <1>4, <1>6 DEF Navigate
<1>7. CASE EditComic \/ RebaseDraft \/ PressSaveText \/ PressOptimizeText
  BY <1>4, <1>7 DEF EditComic, RebaseDraft, PressSaveText, PressOptimizeText
<1>8. ASSUME NEW i \in Ops,
             SendText(i) \/ TakeText(i) \/ AnswerText(i) \/ SubmitOptimize(i) \/ EndRefresh(i)
      PROVE  TypingKept
  BY <1>3, <1>8, AnswerTextKeeps DEF SendText, TakeText, SubmitOptimize, EndRefresh
<1>17. ASSUME NEW i \in Ops, SaveVisualFirst(i) \/ VisualSavedFirst(i) PROVE TypingKept
  <2>1. UNCHANGED <<live, older>> /\ notes'.injection = notes.injection
    BY <1>1, <1>17 DEF SaveVisualFirst, VisualSavedFirst, WithoutVisual, Unsaved
  <2> QED
    BY <1>3, <2>1
<1>18. CASE JobSaves
  <2>1. UNCHANGED <<live, older, notes>>
    BY <1>18 DEF JobSaves
  <2> QED
    BY <1>3, <2>1
<1>9. CASE JobEnds \/ Poll \/ ReadWorkspace \/ ShowWorkspace
  BY <1>3, <1>9 DEF JobEnds, Poll, ReadWorkspace, ShowWorkspace
<1>10. CASE TypeInjection \/ RebaseInjection \/ TypeConstitution \/ UploadReferences
  BY <1>4, <1>10 DEF TypeInjection, RebaseInjection, TypeConstitution, UploadReferences
<1>11. ASSUME NEW s \in SUBSET StylePictures, PickReferences(s) PROVE TypingKept
  BY <1>4, <1>11 DEF PickReferences
<1>12. ASSUME NEW p \in StylePictures, ReferencesUploaded(p) PROVE TypingKept
  <2>1. UNCHANGED <<live, older>> /\ notes'.injection = notes.injection
    BY <1>1, <1>12 DEF ReferencesUploaded, Unsaved
  <2> QED
    BY <1>3, <2>1
<1>13. ASSUME NEW keep \in BOOLEAN, ResolveConflict(keep) PROVE TypingKept
  BY <1>4, <1>13 DEF ResolveConflict
<1>14. CASE \/ PressSaveInjection \/ PressSaveVisual \/ PressExtract \/ PressComicGenerate
            \/ PressRender \/ PressSync
  BY <1>4, <1>14 DEF PressSaveInjection, PressSaveVisual, PressExtract, PressComicGenerate,
     PressRender, PressSync, Press
<1>15. CASE InjectionSaved
  BY <1>15, InjectionSavedKeeps
<1>16. CASE InjectionStep \/ VisualStep \/ VisualSaved \/ ExtractStep \/ JobStep \/ EndAction
  <2>1. UNCHANGED <<live, older>>
    BY <1>16 DEF InjectionStep, VisualStep, VisualSaved, ExtractStep, JobStep, EndAction
  <2>2. notes'.injection = notes.injection
    <3>1. CASE InjectionStep
      BY <3>1 DEF InjectionStep
    <3>2. CASE VisualStep
      BY <1>1, <3>2 DEF VisualStep, Unsaved
    <3>3. CASE VisualSaved
      BY <1>1, <3>3 DEF VisualSaved, WithoutVisual, Unsaved
    <3>4. CASE ExtractStep
      BY <1>1, <3>4 DEF ExtractStep, Unsaved
    <3>5. CASE JobStep \/ EndAction
      BY <3>5 DEF JobStep, EndAction
    <3> QED
      BY <1>16, <3>1, <3>2, <3>3, <3>4, <3>5
  <2> QED
    BY <1>3, <2>1, <2>2
<1> QED
  BY <1>5, <1>6, <1>7, <1>8, <1>9, <1>10, <1>11, <1>12, <1>13, <1>14, <1>15, <1>16, <1>17, <1>18 DEF ComicNext

\* What was typed into a document, into an older version or into the injection of
\* the comic page goes away only by the user, or once the backend has saved it
\* (MarkdownDocumentEditor.tsx, MarkdownComicWorkspace.tsx).
THEOREM TypingStays == ComicSpec => TypingIsKept
<1>1. ComicSpec => []ComicInv
  BY ComicInvariant
<1>2. ComicInv /\ [ComicNext]_comicVars => [TypingKept]_comicVars
  BY StepKeepsTyping
<1> QED
  BY <1>1, <1>2, PTL DEF ComicSpec, TypingIsKept, TypingKept

\* Type correctness of the comic page: its drafts and opened versions name
\* revisions the backend has, and its copy is never ahead of it.
THEOREM ComicsAreTyped == ComicSpec => []ComicTypeOK
<1>1. ComicSpec => []ComicInv
  BY ComicInvariant
<1>2. ComicInv => ComicTypeOK
  <2> SUFFICES ASSUME ComicInv PROVE ComicTypeOK
    OBVIOUS
  <2>1. /\ live \in [Docs -> Drafts] /\ opened \in [Docs -> Nat] /\ DOMAIN ops = Ops
        /\ comicStore \in Stores /\ page \in Stores /\ editor \in Editors
    BY DEF ComicInv, ComicShapes
  <2>2. page.outdated \subseteq Docs /\ editor.doc \in Docs
    BY <2>1 DEF Stores, Editors
  <2>3. ASSUME NEW d \in Docs
        PROVE  /\ live[d].base \in 0..Revision(comicStore, d)
               /\ opened[d] \in 0..Revision(comicStore, d)
               /\ Revision(page, d) <= Revision(comicStore, d)
    <3>1. Revision(comicStore, d) \in Nat /\ live[d].base \in Nat /\ opened[d] \in Nat
      BY <2>1, StoreShape DEF Drafts
    <3> QED
      BY <3>1 DEF ComicInv, RevisionsExist, CopiesAreBehind, Behind
  <2> QED
    BY <2>1, <2>2, <2>3 DEF ComicTypeOK
<1> QED
  BY <1>1, <1>2, PTL
=============================================================================
