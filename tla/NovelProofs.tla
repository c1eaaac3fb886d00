---------------------------- MODULE NovelProofs ----------------------------
(***************************************************************************)
(* What the novel manager shows and keeps, for any projects, works and     *)
(* chapters and any number of operations and failures: no text older than  *)
(* a save it has reported, and no draft lost before it is saved.           *)
(***************************************************************************)
EXTENDS NovelDesk, SequenceTheorems, TLAPS

---------------------------------------------------------------------------
(* Types, and what reads and saves rely on.                                *)

\* Shapes: a work's chapters with their revisions, a revision's place, a draft.
Chapters == Seq(Seq(Nat) \ {<<>>})
Revisions == [project : NovelProjects, work : Nat, chapter : Nat, revision : Nat]
DraftKeys == {<<p, w, n>> : p \in NovelProjects, w \in Nat, n \in Nat}
Drafts == [key : DraftKeys, text : Nat]
ChapterModes == {"new_chapter", "edit_chapter"}

Flags == BOOLEAN
Copies == [work : Nat, chapters : Chapters] \cup {none}
DialogModes == {"browse", "new_work"} \cup ChapterModes
Scopes == [work : Nat, chapter : Nat] \cup {none}
Saveds == Revisions \cup {none}
Skips == SUBSET DraftKeys

Managers ==
  [project : NovelProjects, open : Flags, session : Nat, request : Nat, listing : Nat, works : Nat,
   work : Nat, copy : Copies, stale : Flags, chapter : Nat, mode : DialogModes, scope : Scopes,
   draft : Nat, saved : Saveds, saving : Flags, loading : Flags, skip : Skips]

Saves == {"create", "save", "reread"}
NovelCalls ==
  [kind : {"works", "chapters"} \cup Saves, project : NovelProjects, session : Nat,
   phase : {"asked", "read", "written"}, request : Nat, work : Nat, chapter : Nat, text : Nat,
   copy : Chapters, heads : SUBSET Revisions, awaited : SUBSET Revisions]

NovelShapes ==
  /\ novels \in [NovelProjects -> Seq(Chapters)]
  /\ manager \in Managers
  /\ calls \subseteq NovelCalls
  /\ stored \subseteq Drafts
  /\ confirmed \subseteq Revisions
  /\ clicks \in Nat

\* What is there once stays there: works, chapters, revisions and their texts.
HasChapters(n, p, w, k) == w \in 1..Len(n[p]) /\ k \in 0..Len(n[p][w])
Written(n, r) ==
  /\ HasChapters(n, r.project, r.work, r.chapter) /\ r.chapter # 0
  /\ r.revision <= Len(n[r.project][r.work][r.chapter])
HoldsText(n, p, w, t) == \E c \in DOMAIN n[p][w] : \E r \in DOMAIN n[p][w][c] : n[p][w][c][r] = t

\* The dialog and its calls know of works and chapters that are there.
ManagerFits(m, n) ==
  /\ m.works <= Len(n[m.project]) /\ m.work <= Len(n[m.project])
  /\ m.copy # none => HasChapters(n, m.project, m.copy.work, Len(m.copy.chapters))
  /\ m.scope # none => HasChapters(n, m.project, m.scope.work, m.scope.chapter)
  /\ m.mode \in ChapterModes <=> m.scope # none
  /\ m.saving => m.open

CallFits(c, n) ==
  /\ c.kind \in Reads => HasChapters(n, c.project, c.work, 0)
  /\ c.kind \in Reads /\ c.phase = "read" => HasChapters(n, c.project, c.work, Len(c.copy))
  /\ c.kind = "works" /\ c.phase = "read" => c.work <= Len(n[c.project])
  /\ c.kind = "save" => HasChapters(n, c.project, c.work, c.chapter)
  /\ c.kind = "save" /\ c.phase = "written" =>
       /\ c.heads # {} /\ HoldsText(n, c.project, c.work, c.text)
       /\ \A r \in c.heads : r.project = c.project /\ r.work = c.work /\ Written(n, r)
  /\ c.kind = "create" /\ c.phase = "written" => HasChapters(n, c.project, c.work, 0)

\* Requests and visits are numbered in order.
NotAhead(c, m) == c.session <= m.session /\ (c.kind \in Reads => c.request <= m.request)

\* Chapters that are at least as new as every confirmed save of their work.
Covers(chapters, p, w, saves) ==
  \A r \in saves :
    r.project = p /\ r.work = w => r.chapter \in DOMAIN chapters /\ Len(chapters[r.chapter]) >= r.revision
ReadCovers(c, m, saves) ==
  c.kind \in Reads /\ c.phase = "read" /\ c.request = m.request => Covers(c.copy, c.project, c.work, saves)
CopyCovers(m, saves) ==
  m.open /\ ~m.loading /\ ~m.stale /\ m.copy # none => Covers(m.copy.chapters, m.project, m.copy.work, saves)

ReadingInv ==
  /\ NovelShapes
  /\ ManagerFits(manager, novels)
  /\ \A c \in calls : CallFits(c, novels) /\ NotAhead(c, manager) /\ ReadCovers(c, manager, confirmed)
  /\ \A r \in confirmed : Written(novels, r)
  /\ CopyCovers(manager, confirmed)

UniqueKeys(ds) == \A c, d \in ds : c.key = d.key => c = d
\* A visit has one save at most, and the dialog is busy with it.
VisitSaves(m, cs) == {c \in cs : c.kind \in Saves /\ c.session = m.session /\ c.project = m.project}
OneSave(m, cs) == \A c \in VisitSaves(m, cs) : m.saving /\ VisitSaves(m, cs) = {c}
\* Until it is saved, the text of an open editor is in local storage, or nothing is.
EditorStored(m, ds) ==
  m.mode \in ChapterModes /\ m.saved = none =>
    /\ DraftKey(m) \notin m.skip
    /\ \A d \in ds : d.key = DraftKey(m) => d.text = m.draft

\* What is being saved is the chapter in the editor, as it stands.
SavesEditor(m, c) ==
  c.kind = "save" =>
    /\ m.mode \in ChapterModes /\ m.saved = none
    /\ m.scope.work = c.work /\ m.scope.chapter = c.chapter /\ m.draft = c.text

DraftsInv ==
  /\ UniqueKeys(stored)
  /\ OneSave(manager, calls)
  /\ EditorStored(manager, stored)
  /\ \A c \in VisitSaves(manager, calls) : SavesEditor(manager, c)

---------------------------------------------------------------------------
(* What is written stays.                                                  *)

\* What one list of works has, another has too, with the same texts.
Works == [NovelProjects -> Seq(Chapters)]
Grown(n, m) ==
  \A p \in NovelProjects :
    /\ Len(n[p]) <= Len(m[p])
    /\ \A w \in 1..Len(n[p]) :
         /\ Len(n[p][w]) <= Len(m[p][w])
         /\ \A c \in 1..Len(n[p][w]) :
              /\ Len(n[p][w][c]) <= Len(m[p][w][c])
              /\ \A r \in 1..Len(n[p][w][c]) : m[p][w][c][r] = n[p][w][c][r]

\* The types of the parts of a list of works.
LEMMA WorksTypes ==
  ASSUME NEW n \in Works, NEW p \in NovelProjects
  PROVE  /\ n[p] \in Seq(Chapters) /\ Len(n[p]) \in Nat
         /\ \A w \in 1..Len(n[p]) :
              /\ n[p][w] \in Chapters /\ Len(n[p][w]) \in Nat
              /\ \A c \in 1..Len(n[p][w]) :
                   n[p][w][c] \in Seq(Nat) \ {<<>>} /\ Len(n[p][w][c]) \in Nat /\ Len(n[p][w][c]) > 0
<1>1. n[p] \in Seq(Chapters) /\ Len(n[p]) \in Nat
  BY DEF Works
<1>2. ASSUME NEW w \in 1..Len(n[p]) PROVE n[p][w] \in Chapters /\ Len(n[p][w]) \in Nat
  <2>1. n[p][w] \in Chapters
    BY <1>1, ElementOfSeq
  <2> QED BY <2>1 DEF Chapters
<1>3. ASSUME NEW w \in 1..Len(n[p]), NEW c \in 1..Len(n[p][w])
      PROVE n[p][w][c] \in Seq(Nat) \ {<<>>} /\ Len(n[p][w][c]) \in Nat /\ Len(n[p][w][c]) > 0
  <2>1. n[p][w][c] \in Seq(Nat) \ {<<>>}
    BY <1>2, ElementOfSeq DEF Chapters
  <2> QED BY <2>1, EmptySeq
<1> QED BY <1>1, <1>2, <1>3

\* Works stay as they are when nothing is written.
LEMMA GrownStays == ASSUME NEW n \in Works PROVE Grown(n, n)
BY WorksTypes DEF Grown

\* What is there is there afterwards.
LEMMA GrownKeeps ==
  ASSUME NEW n \in Works, NEW m \in Works, Grown(n, m)
  PROVE  /\ \A p \in NovelProjects : \A w, k : HasChapters(n, p, w, k) => HasChapters(m, p, w, k)
         /\ \A r \in Revisions : Written(n, r) => Written(m, r)
         /\ \A p \in NovelProjects : \A w, k, t :
              HasChapters(n, p, w, k) /\ HoldsText(n, p, w, t) => HoldsText(m, p, w, t)
<1>1. ASSUME NEW p \in NovelProjects, NEW w, NEW k, HasChapters(n, p, w, k) PROVE HasChapters(m, p, w, k)
  <2>1. Len(n[p]) \in Nat /\ Len(m[p]) \in Nat /\ w \in 1..Len(n[p]) /\ Len(n[p]) <= Len(m[p])
    BY <1>1, WorksTypes DEF HasChapters, Grown
  <2>2. w \in 1..Len(m[p])
    BY <2>1
  <2>3. Len(n[p][w]) \in Nat /\ Len(m[p][w]) \in Nat /\ k \in 0..Len(n[p][w]) /\ Len(n[p][w]) <= Len(m[p][w])
    BY <1>1, <2>1, <2>2, WorksTypes DEF HasChapters, Grown
  <2>4. k \in 0..Len(m[p][w])
    BY <2>3
  <2> QED BY <2>2, <2>4 DEF HasChapters
<1>2. ASSUME NEW r \in Revisions, Written(n, r) PROVE Written(m, r)
  <2>1. PICK p, w, c, k : p = r.project /\ w = r.work /\ c = r.chapter /\ k = r.revision
    OBVIOUS
  <2>2. p \in NovelProjects /\ c \in Nat /\ k \in Nat
    BY <2>1 DEF Revisions
  <2>3. HasChapters(n, p, w, c) /\ c # 0 /\ k <= Len(n[p][w][c])
    BY <1>2, <2>1 DEF Written
  <2>4. HasChapters(m, p, w, c)
    BY <1>1, <2>2, <2>3
  <2>5. w \in 1..Len(n[p]) /\ c \in 1..Len(n[p][w]) /\ w \in 1..Len(m[p]) /\ c \in 1..Len(m[p][w])
    BY <2>2, <2>3, <2>4, WorksTypes DEF HasChapters
  <2>6. PICK i, j : i = Len(n[p][w][c]) /\ j = Len(m[p][w][c])
    OBVIOUS
  <2>7. i <= j /\ i \in Nat /\ j \in Nat
    BY <2>2, <2>5, <2>6, WorksTypes DEF Grown
  <2>8. k <= j
    BY <2>2, <2>3, <2>6, <2>7
  <2> QED BY <2>1, <2>3, <2>4, <2>6, <2>8 DEF Written
<1>3. ASSUME NEW p \in NovelProjects, NEW w, NEW k, NEW t, HasChapters(n, p, w, k), HoldsText(n, p, w, t)
      PROVE HoldsText(m, p, w, t)
  <2>1. w \in 1..Len(n[p]) /\ w \in 1..Len(m[p])
    BY <1>1, <1>3 DEF HasChapters
  <2>2. PICK old, new : old = n[p][w] /\ new = m[p][w]
    OBVIOUS
  <2>3. old \in Seq(Seq(Nat) \ {<<>>}) /\ new \in Seq(Seq(Nat) \ {<<>>}) /\ Len(old) <= Len(new)
    BY <2>1, <2>2, WorksTypes DEF Chapters, Grown
  <2>4. PICK c \in DOMAIN old : \E r \in DOMAIN old[c] : old[c][r] = t
    BY <1>3, <2>2 DEF HoldsText
  <2>5. c \in 1..Len(old) /\ c \in DOMAIN new
    <3>1. Len(old) \in Nat /\ Len(new) \in Nat /\ DOMAIN old = 1..Len(old) /\ DOMAIN new = 1..Len(new)
      BY <2>3, LenProperties
    <3> QED BY <2>3, <2>4, <3>1
  <2>6. PICK before, after : before = old[c] /\ after = new[c]
    OBVIOUS
  <2>7. /\ before \in Seq(Nat) /\ after \in Seq(Nat) /\ Len(before) <= Len(after)
        /\ \A r \in 1..Len(before) : after[r] = before[r]
    <3>1. before \in Seq(Nat) /\ after \in Seq(Nat)
      BY <2>3, <2>4, <2>5, <2>6
    <3>2. Len(n[p][w][c]) <= Len(m[p][w][c]) /\ \A r \in 1..Len(n[p][w][c]) : m[p][w][c][r] = n[p][w][c][r]
      BY <2>1, <2>2, <2>5 DEF Grown
    <3> QED BY <2>2, <2>6, <3>1, <3>2
  <2>8. PICK r \in DOMAIN before : before[r] = t
    BY <2>4, <2>6
  <2>9. r \in DOMAIN after /\ after[r] = t
    BY <2>7, <2>8
  <2> QED BY <2>2, <2>5, <2>6, <2>9 DEF HoldsText
<1> QED BY <1>1, <1>2, <1>3

\* So the dialog and the calls still fit when the backend has written.
LEMMA GrownFitsReads ==
  ASSUME NEW n \in Works, NEW m \in Works, Grown(n, m)
  PROVE  /\ \A c \in NovelCalls : CallFits(c, n) => CallFits(c, m)
         /\ \A d \in Managers : ManagerFits(d, n) => ManagerFits(d, m)
<1>1. \A p \in NovelProjects : Len(n[p]) <= Len(m[p]) /\ Len(n[p]) \in Nat /\ Len(m[p]) \in Nat
  BY WorksTypes DEF Grown
<1>2. ASSUME NEW c \in NovelCalls, CallFits(c, n) PROVE CallFits(c, m)
  <2>1. c.project \in NovelProjects /\ c.work \in Nat /\ c.heads \subseteq Revisions
    BY DEF NovelCalls
  <2>2. c.work <= Len(n[c.project]) => c.work <= Len(m[c.project])
    BY <1>1, <2>1
  <2>3. \A w, k : HasChapters(n, c.project, w, k) => HasChapters(m, c.project, w, k)
    BY <2>1, GrownKeeps
  <2>4. \A r \in c.heads : Written(n, r) => Written(m, r)
    BY <2>1, GrownKeeps
  <2>5. HasChapters(n, c.project, c.work, c.chapter) /\ HoldsText(n, c.project, c.work, c.text)
        => HoldsText(m, c.project, c.work, c.text)
    BY <2>1, GrownKeeps
  <2> QED BY <1>2, <2>2, <2>3, <2>4, <2>5 DEF CallFits
<1>3. ASSUME NEW d \in Managers, ManagerFits(d, n) PROVE ManagerFits(d, m)
  <2>1. d.project \in NovelProjects /\ d.work \in Nat /\ d.works \in Nat
    BY DEF Managers
  <2>2. \A k \in Nat : k <= Len(n[d.project]) => k <= Len(m[d.project])
    BY <1>1, <2>1
  <2>3. \A w, k : HasChapters(n, d.project, w, k) => HasChapters(m, d.project, w, k)
    BY <2>1, GrownKeeps
  <2> QED BY <1>3, <2>1, <2>2, <2>3 DEF ManagerFits
<1> QED BY <1>2, <1>3

---------------------------------------------------------------------------
(* Reads.                                                                  *)

\* What a step has to bring about for the reads to stay true.
ReadingStep ==
  /\ NovelShapes'
  /\ Grown(novels, novels')
  /\ manager'.session >= manager.session /\ manager'.request >= manager.request
  /\ confirmed' # confirmed => manager'.request > manager.request
  /\ \A r \in confirmed' \ confirmed : Written(novels', r)
  /\ \A c \in calls' \ calls :
       CallFits(c, novels') /\ NotAhead(c, manager') /\ ReadCovers(c, manager', confirmed')
  /\ ManagerFits(manager', novels')
  /\ CopyCovers(manager', confirmed')

\* Older requests do not become current again, so what they read does not matter.
LEMMA ReadingKept == ReadingInv /\ ReadingStep => ReadingInv'
<1> SUFFICES ASSUME ReadingInv, ReadingStep PROVE ReadingInv'
  OBVIOUS
<1>1. novels \in Works /\ novels' \in Works /\ Grown(novels, novels')
  BY DEF ReadingInv, ReadingStep, NovelShapes, Works
<1>2. /\ manager.session \in Nat /\ manager'.session \in Nat /\ manager.request \in Nat
      /\ manager'.request \in Nat /\ confirmed \subseteq Revisions
  BY DEF ReadingInv, ReadingStep, NovelShapes, Managers
<1>3. \A r \in confirmed' : Written(novels', r)
  <2>1. \A r \in confirmed : Written(novels', r)
    BY <1>1, <1>2, GrownKeeps DEF ReadingInv
  <2> QED BY <2>1 DEF ReadingStep
<1>4. ASSUME NEW c \in calls'
      PROVE CallFits(c, novels') /\ NotAhead(c, manager') /\ ReadCovers(c, manager', confirmed')
  <2>1. CASE c \notin calls
    BY <2>1 DEF ReadingStep
  <2>2. CASE c \in calls
    <3>1. c \in NovelCalls /\ CallFits(c, novels) /\ NotAhead(c, manager) /\ ReadCovers(c, manager, confirmed)
      BY <2>2 DEF ReadingInv, NovelShapes
    <3>2. CallFits(c, novels')
      BY <1>1, <3>1, GrownFitsReads
    <3>3. c.session \in Nat /\ c.request \in Nat
      BY <3>1 DEF NovelCalls
    <3>4. NotAhead(c, manager')
      BY <1>2, <3>1, <3>3 DEF NotAhead, ReadingStep
    <3>5. ASSUME c.kind \in Reads, c.phase = "read", c.request = manager'.request
          PROVE Covers(c.copy, c.project, c.work, confirmed')
      <4>1. c.request = manager.request /\ confirmed' = confirmed
        BY <1>2, <3>1, <3>3, <3>5 DEF NotAhead, ReadingStep
      <4> QED BY <3>1, <3>5, <4>1 DEF ReadCovers
    <3> QED BY <3>2, <3>4, <3>5 DEF ReadCovers
  <2> QED BY <2>1, <2>2
<1> QED BY <1>3, <1>4 DEF ReadingInv, ReadingStep

\* The values a handler writes into the dialog.
LEMMA ManagerValues ==
  /\ TRUE \in Flags /\ FALSE \in Flags /\ none \in Copies /\ none \in Scopes /\ none \in Saveds
  /\ "browse" \in DialogModes /\ "new_work" \in DialogModes
  /\ "new_chapter" \in DialogModes /\ "edit_chapter" \in DialogModes
BY DEF Flags, Copies, Scopes, Saveds, DialogModes, ChapterModes

\* reloadSnapshot moves to a new request, or shows nothing.
LEMMA ReadChaptersMoves ==
  ASSUME NEW m \in Managers, NEW w \in Nat, NEW r, r = ReadChapters(m, w)
  PROVE  /\ r \in Managers /\ r.work = w
         /\ r.request >= m.request /\ (w # 0 => r.request > m.request)
         /\ \A saves : CopyCovers(r, saves)
         /\ r.session = m.session /\ r.project = m.project /\ r.open = m.open /\ r.saving = m.saving
         /\ r.works = m.works /\ r.scope = m.scope /\ r.mode = m.mode /\ r.draft = m.draft
         /\ r.saved = m.saved /\ r.skip = m.skip /\ r.copy \in {m.copy, none}
<1>1. CASE w = 0
  <2>1. r = [m EXCEPT !.work = 0, !.copy = none, !.chapter = 0, !.stale = FALSE]
    BY <1>1 DEF ReadChapters
  <2>2. r \in Managers
    <3>1. FALSE \in Flags /\ none \in Copies /\ 0 \in Nat
      BY ManagerValues
    <3> QED BY <2>1, <3>1, Zenon DEF Managers
  <2>3. /\ r.work = 0 /\ r.request = m.request /\ r.request >= m.request /\ r.copy = none
        /\ r.session = m.session /\ r.project = m.project /\ r.open = m.open /\ r.saving = m.saving
        /\ r.works = m.works /\ r.scope = m.scope /\ r.mode = m.mode /\ r.draft = m.draft
        /\ r.saved = m.saved /\ r.skip = m.skip
    BY <2>1 DEF Managers
  <2> QED BY <1>1, <2>2, <2>3 DEF CopyCovers
<1>2. CASE w # 0
  <2>1. r = [m EXCEPT !.work = w, !.request = @ + 1, !.loading = TRUE]
    BY <1>2 DEF ReadChapters
  <2>2. r \in Managers
    <3>1. PICK next : next = m.request + 1
      OBVIOUS
    <3>2. TRUE \in Flags
      BY ManagerValues
    <3>3. next \in Nat
      BY <3>1 DEF Managers
    <3>4. r = [m EXCEPT !.work = w, !.request = next, !.loading = TRUE]
      BY <2>1, <3>1
    <3> QED BY <3>2, <3>4, <3>3, Zenon DEF Managers
  <2>3. /\ r.work = w /\ r.request = m.request + 1 /\ r.request > m.request /\ r.copy = m.copy /\ r.loading
        /\ r.session = m.session /\ r.project = m.project /\ r.open = m.open /\ r.saving = m.saving
        /\ r.works = m.works /\ r.scope = m.scope /\ r.mode = m.mode /\ r.draft = m.draft
        /\ r.saved = m.saved /\ r.skip = m.skip
    BY <2>1 DEF Managers
  <2>4. r.request >= m.request
    BY <2>3 DEF Managers
  <2> QED BY <1>2, <2>2, <2>3, <2>4 DEF CopyCovers
<1> QED BY <1>1, <1>2

\* A dialog that moved to a work that is there fits, and so does its call.
LEMMA ReadChaptersFits ==
  ASSUME NEW n \in Works, NEW m \in Managers, ManagerFits(m, n), NEW w \in 0..Len(n[m.project]),
         NEW r, r = ReadChapters(m, w)
  PROVE  ManagerFits(r, n)
<1>1. m.project \in NovelProjects /\ Len(n[m.project]) \in Nat
  BY WorksTypes DEF Managers
<1>2. w \in Nat /\ w <= Len(n[m.project])
  BY <1>1
<1>3. /\ r.project = m.project /\ r.works = m.works /\ r.work = w /\ r.copy \in {m.copy, none}
      /\ r.scope = m.scope /\ r.mode = m.mode /\ r.saving = m.saving /\ r.open = m.open
  BY <1>2, ReadChaptersMoves
<1> QED BY <1>2, <1>3 DEF ManagerFits

\* A call that was just asked.
LEMMA AskedCall ==
  ASSUME NEW m \in Managers, NEW kind \in {"works", "chapters"} \cup Saves, NEW w \in Nat,
         NEW n \in Nat, NEW t \in Nat, NEW c, c = Call(m, kind, w, n, t)
  PROVE  /\ c \in NovelCalls /\ c.kind = kind /\ c.phase = "asked" /\ c.session = m.session
         /\ c.project = m.project /\ c.work = w /\ c.chapter = n /\ c.text = t
         /\ NotAhead(c, m) /\ \A saves : ReadCovers(c, m, saves)
<1>1. PICK request : request = IF kind = "works" THEN m.listing ELSE m.request
  OBVIOUS
<1>2. request \in Nat /\ m.session \in Nat /\ m.project \in NovelProjects /\ m.request \in Nat
  BY <1>1 DEF Managers
<1>3. c = [kind |-> kind, project |-> m.project, session |-> m.session, phase |-> "asked",
           request |-> request, work |-> w, chapter |-> n, text |-> t, copy |-> <<>>, heads |-> {},
           awaited |-> {}]
  BY <1>1 DEF Call
<1>4. <<>> \in Chapters
  BY EmptySeq DEF Chapters
<1>5. c \in NovelCalls
  BY <1>2, <1>3, <1>4 DEF NovelCalls
<1>6. /\ c.kind = kind /\ c.phase = "asked" /\ c.session = m.session /\ c.request = request
      /\ c.project = m.project /\ c.work = w /\ c.chapter = n /\ c.text = t
  BY <1>3
<1>7. NotAhead(c, m)
  BY <1>1, <1>2, <1>6 DEF NotAhead, Reads
<1> QED BY <1>5, <1>6, <1>7 DEF ReadCovers

\* A call for the chapters of the dialog's work.
LEMMA ChaptersCall ==
  ASSUME NEW n \in Works, NEW m \in Managers, m.work <= Len(n[m.project]), NEW k \in Nat,
         NEW c \in ReadCall(m, k)
  PROVE  /\ c \in NovelCalls /\ c.kind = "chapters" /\ CallFits(c, n) /\ NotAhead(c, m)
         /\ \A saves : ReadCovers(c, m, saves)
<1>1. m.work \in Nat /\ m.work # 0 /\ c = Call(m, "chapters", m.work, k, 0)
  BY DEF ReadCall, Managers
<1>2. /\ c \in NovelCalls /\ c.kind = "chapters" /\ c.phase = "asked" /\ c.project = m.project
      /\ c.work = m.work /\ NotAhead(c, m) /\ \A saves : ReadCovers(c, m, saves)
  BY <1>1, AskedCall
<1>3. HasChapters(n, m.project, m.work, 0)
  <2>1. m.project \in NovelProjects
    BY DEF Managers
  <2>2. Len(n[m.project]) \in Nat /\ m.work \in 1..Len(n[m.project])
    BY <1>1, <2>1, WorksTypes
  <2>3. 0 \in 0..Len(n[m.project][m.work])
    BY <2>1, <2>2, WorksTypes
  <2> QED BY <2>2, <2>3 DEF HasChapters
<1> QED BY <1>2, <1>3 DEF CallFits

\* A call for the list of works.
LEMMA WorksCall ==
  ASSUME NEW n, NEW m \in Managers
  PROVE  LET c == Call(m, "works", 0, 0, 0)
         IN  /\ c \in NovelCalls /\ c.kind = "works" /\ CallFits(c, n) /\ NotAhead(c, m)
             /\ \A saves : ReadCovers(c, m, saves)
<1>1. PICK c : c = Call(m, "works", 0, 0, 0)
  OBVIOUS
<1>2. c \in NovelCalls /\ c.kind = "works" /\ c.phase = "asked" /\ NotAhead(c, m)
      /\ \A saves : ReadCovers(c, m, saves)
  BY <1>1, AskedCall
<1> QED BY <1>1, <1>2 DEF CallFits, Reads

---------------------------------------------------------------------------
(* Steps that write nothing.                                               *)

\* A step that writes no chapter and confirms none: the dialog moves on, and
\* calls are made.
DialogMoves(m) ==
  /\ m \in Managers /\ m.session >= manager.session /\ m.request >= manager.request
  /\ ManagerFits(m, novels) /\ CopyCovers(m, confirmed)
NewCall(c, m) ==
  c \in NovelCalls /\ CallFits(c, novels) /\ NotAhead(c, m) /\ ReadCovers(c, m, confirmed)
QuietReading ==
  /\ UNCHANGED <<novels, confirmed>>
  /\ DialogMoves(manager')
  /\ \A c \in calls' \ calls : NewCall(c, manager')
  /\ stored' \subseteq Drafts
  /\ clicks' \in Nat

\* Such a step keeps the reads true.
LEMMA QuietKept == ReadingInv /\ QuietReading => ReadingInv'
<1> SUFFICES ASSUME ReadingInv, QuietReading PROVE ReadingInv'
  OBVIOUS
<1>1. novels \in Works /\ novels' = novels /\ confirmed' = confirmed
  BY DEF ReadingInv, NovelShapes, Works, QuietReading
<1>2. NovelShapes'
  <2>1. calls' \subseteq NovelCalls
    BY DEF ReadingInv, NovelShapes, QuietReading, NewCall
  <2> QED BY <2>1 DEF ReadingInv, NovelShapes, QuietReading, DialogMoves
<1>3. Grown(novels, novels')
  BY <1>1, GrownStays
<1> QED BY <1>1, <1>2, <1>3, ReadingKept DEF ReadingStep, QuietReading, DialogMoves, NewCall

\* What the dialog holds.
LEMMA ReadingShapes ==
  ReadingInv =>
    /\ novels \in Works /\ manager \in Managers /\ calls \subseteq NovelCalls /\ stored \subseteq Drafts
    /\ clicks \in Nat /\ ManagerFits(manager, novels) /\ CopyCovers(manager, confirmed)
    /\ manager.session \in Nat /\ manager.request \in Nat /\ manager.listing \in Nat
    /\ manager.project \in NovelProjects /\ manager.work \in Nat /\ manager.works \in Nat
    /\ Len(novels[manager.project]) \in Nat
<1> SUFFICES ASSUME ReadingInv
             PROVE  /\ novels \in Works /\ manager \in Managers /\ calls \subseteq NovelCalls
                    /\ stored \subseteq Drafts /\ clicks \in Nat /\ ManagerFits(manager, novels)
                    /\ CopyCovers(manager, confirmed)
                    /\ manager.session \in Nat /\ manager.request \in Nat /\ manager.listing \in Nat
                    /\ manager.project \in NovelProjects /\ manager.work \in Nat /\ manager.works \in Nat
                    /\ Len(novels[manager.project]) \in Nat
  OBVIOUS
<1>1. /\ novels \in Works /\ manager \in Managers /\ calls \subseteq NovelCalls /\ stored \subseteq Drafts
      /\ clicks \in Nat /\ ManagerFits(manager, novels) /\ CopyCovers(manager, confirmed)
  BY DEF ReadingInv, NovelShapes, Works
<1>2. /\ manager.session \in Nat /\ manager.request \in Nat /\ manager.listing \in Nat
      /\ manager.project \in NovelProjects /\ manager.work \in Nat /\ manager.works \in Nat
  BY <1>1 DEF Managers
<1> QED BY <1>1, <1>2, WorksTypes

\* The user's operations are counted.
LEMMA NovelClickCounts == clicks \in Nat /\ NovelClick => clicks' \in Nat /\ clicks' # clicks
BY DEF NovelClick, Spend

\* The draft that is kept has a key and a text.
LEMMA KeptDrafts ==
  ASSUME NEW m \in Managers, m.mode \in ChapterModes => m.scope # none, stored \subseteq Drafts
  PROVE  Kept(m) \subseteq Drafts
<1>1. CASE Kept(m) = stored
  BY <1>1
<1>2. CASE Kept(m) # stored
  <2>1. PICK key, text : key = DraftKey(m) /\ text = m.draft
    OBVIOUS
  <2>2. m.mode \in ChapterModes /\ Kept(m) = (stored \ StoredAt(key)) \cup {[key |-> key, text |-> text]}
    BY <1>2, <2>1 DEF Kept, ChapterModes
  <2>3. m.scope \in [work : Nat, chapter : Nat] /\ m.project \in NovelProjects /\ text \in Nat
    BY <2>1, <2>2 DEF Managers, Scopes
  <2>4. key \in DraftKeys
    BY <2>1, <2>3 DEF DraftKey, DraftKeys
  <2>5. [key |-> key, text |-> text] \in Drafts
    BY <2>3, <2>4 DEF Drafts
  <2> QED BY <2>2, <2>5
<1> QED BY <1>1, <1>2

\* The dialog opens, asks for the works and reads the work it showed.
LEMMA OpenReading == ReadingInv /\ OpenManager => QuietReading
<1> SUFFICES ASSUME ReadingInv, OpenManager PROVE QuietReading
  OBVIOUS
<1>1. PICK next, step : next = manager.listing + 1 /\ step = manager.session + 1
  OBVIOUS
<1>2. PICK m : m = [manager EXCEPT !.listing = next, !.open = TRUE, !.session = step]
  OBVIOUS
<1>3. manager \in Managers /\ next \in Nat /\ step \in Nat /\ step > manager.session
  BY <1>1, ReadingShapes
<1>4. m \in Managers
  <2>1. TRUE \in Flags
    BY ManagerValues
  <2> QED BY <1>2, <1>3, <2>1, Zenon DEF Managers
<1>5. /\ m.session = step /\ m.request = manager.request /\ m.project = manager.project /\ m.open
      /\ m.works = manager.works /\ m.work = manager.work /\ m.copy = manager.copy
      /\ m.scope = manager.scope /\ m.mode = manager.mode
  BY <1>2, <1>3 DEF Managers
<1>6. ManagerFits(m, novels)
  BY <1>5, ReadingShapes DEF ManagerFits
<1>7. PICK r : r = ReadChapters(m, manager.work)
  OBVIOUS
<1>8. manager' = r
  BY <1>1, <1>2, <1>7 DEF OpenManager, ListWorks
<1>9. DialogMoves(r)
  <2>1. manager.work \in Nat /\ manager.work \in 0..Len(novels[m.project])
    BY <1>5, ReadingShapes DEF ManagerFits
  <2>2. /\ r \in Managers /\ r.request >= m.request /\ CopyCovers(r, confirmed) /\ r.session = m.session
    BY <1>4, <1>7, <2>1, ReadChaptersMoves
  <2>3. ManagerFits(r, novels)
    BY <1>4, <1>6, <1>7, <2>1, ReadingShapes, ReadChaptersFits
  <2> QED BY <1>3, <1>5, <2>2, <2>3, ReadingShapes DEF DialogMoves
<1>10. ASSUME NEW c \in calls' \ calls PROVE NewCall(c, r)
  <2>1. c = Call(r, "works", 0, 0, 0) \/ c \in ReadCall(r, 0)
    BY <1>8, <1>10 DEF OpenManager
  <2>2. r \in Managers /\ r.work <= Len(novels[r.project]) /\ novels \in Works
    BY <1>9, ReadingShapes DEF DialogMoves, ManagerFits
  <2> QED BY <2>1, <2>2, WorksCall, ChaptersCall DEF NewCall
<1>11. stored' \subseteq Drafts
  BY <1>8, <1>9, KeptDrafts, ReadingShapes DEF OpenManager, DialogMoves, ManagerFits
<1> QED BY <1>8, <1>9, <1>10, <1>11, ReadingShapes, NovelClickCounts DEF OpenManager, QuietReading, backendVars

\* The dialog closes: what it shows does not matter until it opens again.
LEMMA CloseReading == ReadingInv /\ CloseManager => QuietReading
<1> SUFFICES ASSUME ReadingInv, CloseManager PROVE QuietReading
  OBVIOUS
<1>0. PICK a, b, c : a = manager.session + 1 /\ b = manager.request + 1 /\ c = manager.listing + 1
  OBVIOUS
<1>1. PICK m : m = [manager EXCEPT !.open = FALSE, !.session = a, !.request = b, !.listing = c,
                                   !.loading = FALSE]
  OBVIOUS
<1>2. /\ manager \in Managers /\ a \in Nat /\ b \in Nat /\ c \in Nat /\ a > manager.session
      /\ b > manager.request
  BY <1>0, ReadingShapes
<1>3. m \in Managers
  <2>1. FALSE \in Flags
    BY ManagerValues
  <2> QED BY <1>1, <1>2, <2>1, Zenon DEF Managers
<1>4. /\ m.session = a /\ m.request = b /\ m.project = manager.project /\ ~m.open
      /\ m.works = manager.works /\ m.work = manager.work /\ m.copy = manager.copy
      /\ m.scope = manager.scope /\ m.mode = manager.mode /\ m.saving = manager.saving
  BY <1>1, <1>2 DEF Managers
<1>5. manager' = m /\ ~manager.saving
  BY <1>0, <1>1 DEF CloseManager
<1>6. DialogMoves(m)
  <2>1. ManagerFits(m, novels)
    BY <1>4, <1>5, ReadingShapes DEF ManagerFits
  <2>2. CopyCovers(m, confirmed)
    BY <1>4 DEF CopyCovers
  <2> QED BY <1>2, <1>3, <1>4, <2>1, <2>2, ReadingShapes DEF DialogMoves
<1> QED BY <1>5, <1>6, ReadingShapes, NovelClickCounts DEF CloseManager, QuietReading, backendVars

\* A dialog that has shown nothing yet.
LEMMA ClosedManager ==
  ASSUME NEW p \in NovelProjects, NEW base, base = NovelClosed(p)
  PROVE  /\ base \in Managers /\ base.project = p /\ base.works = 0 /\ base.work = 0 /\ base.copy = none
         /\ base.scope = none /\ base.mode = "browse" /\ ~base.saving /\ base.saved = none
<1>1. PICK no : no = FALSE
  OBVIOUS
<1>2. base = [project |-> p, open |-> no, session |-> 0, request |-> 0, listing |-> 0, works |-> 0,
              work |-> 0, copy |-> none, stale |-> no, chapter |-> 0, mode |-> "browse",
              scope |-> none, draft |-> 0, saved |-> none, saving |-> no, loading |-> no, skip |-> {}]
  BY <1>1 DEF NovelClosed
<1>3. no \in Flags /\ none \in Copies /\ none \in Scopes /\ none \in Saveds /\ "browse" \in DialogModes
  BY <1>1, ManagerValues
<1>4. {} \in Skips /\ 0 \in Nat
  BY DEF Skips
<1>5. base \in Managers
  BY <1>2, <1>3, <1>4 DEF Managers
<1> QED BY <1>1, <1>2, <1>5

\* The dialog of another project shows nothing.
LEMMA SwitchReading == \A p \in NovelProjects : ReadingInv /\ SwitchNovelProject(p) => QuietReading
<1> SUFFICES ASSUME NEW p \in NovelProjects, ReadingInv, SwitchNovelProject(p) PROVE QuietReading
  OBVIOUS
<1>1. PICK a, b, c, o, s :
         /\ a = manager.session + 1 /\ b = manager.request + 1 /\ c = manager.listing + 1
         /\ o = manager.open /\ s = manager.skip
  OBVIOUS
<1>2. PICK base : base = NovelClosed(p)
  OBVIOUS
<1>3. PICK m : m = [base EXCEPT !.open = o, !.session = a, !.request = b, !.listing = c, !.skip = s]
  OBVIOUS
<1>4. /\ manager \in Managers /\ a \in Nat /\ b \in Nat /\ c \in Nat /\ a > manager.session
      /\ b > manager.request /\ o \in Flags /\ s \in Skips
  BY <1>1, ReadingShapes DEF Managers
<1>5. base \in Managers
  BY <1>2, ClosedManager
<1>6. m \in Managers
  BY <1>3, <1>4, <1>5, Zenon DEF Managers
<1>7. /\ m.project = p /\ m.session = a /\ m.request = b /\ m.works = 0 /\ m.work = 0 /\ m.copy = none
      /\ m.scope = none /\ m.mode = "browse" /\ ~m.saving
  <2>1. /\ m.project = base.project /\ m.session = a /\ m.request = b /\ m.works = base.works
        /\ m.work = base.work /\ m.copy = base.copy /\ m.scope = base.scope /\ m.mode = base.mode
        /\ m.saving = base.saving
    BY <1>3, <1>5 DEF Managers
  <2> QED BY <1>2, <2>1, ClosedManager
<1>8. manager' = m
  BY <1>1, <1>2, <1>3 DEF SwitchNovelProject
<1>9. DialogMoves(m)
  <2>1. Len(novels[p]) \in Nat
    BY ReadingShapes, WorksTypes
  <2>2. ManagerFits(m, novels)
    BY <1>7, <2>1 DEF ManagerFits, ChapterModes
  <2>3. CopyCovers(m, confirmed)
    BY <1>7 DEF CopyCovers
  <2> QED BY <1>4, <1>6, <1>7, <2>2, <2>3, ReadingShapes DEF DialogMoves
<1>10. ASSUME NEW d \in calls' \ calls PROVE NewCall(d, m)
  <2>1. d = Call(m, "works", 0, 0, 0)
    BY <1>8, <1>10 DEF SwitchNovelProject
  <2> QED BY <1>6, <2>1, WorksCall DEF NewCall
<1> QED BY <1>8, <1>9, <1>10, ReadingShapes, NovelClickCounts DEF SwitchNovelProject, QuietReading, backendVars

\* The chapters of a work are read, whatever the dialog forgot before.
LEMMA ReadingOf ==
  ASSUME ReadingInv, NEW m \in Managers, NEW w \in Nat, NEW k \in Nat, w <= Len(novels[m.project]),
         m.session = manager.session, m.request = manager.request, ManagerFits(m, novels),
         manager' = ReadChapters(m, w), calls' = calls \cup ReadCall(manager', k), NovelClick,
         UNCHANGED <<backendVars, stored, confirmed>>
  PROVE  QuietReading
<1>1. PICK r : r = ReadChapters(m, w)
  OBVIOUS
<1>2. r \in Managers /\ r.request >= m.request /\ CopyCovers(r, confirmed) /\ r.session = m.session
  BY <1>1, ReadChaptersMoves
<1>3. ManagerFits(r, novels)
  <2>1. w \in 0..Len(novels[m.project]) /\ novels \in Works
    <3>1. m.project \in NovelProjects
      BY DEF Managers
    <3> QED BY <3>1, WorksTypes, ReadingShapes
  <2> QED BY <1>1, <2>1, ReadChaptersFits
<1>4. DialogMoves(r)
  BY <1>2, <1>3, ReadingShapes DEF DialogMoves
<1>5. ASSUME NEW c \in calls' \ calls PROVE NewCall(c, r)
  <2>1. c \in ReadCall(r, k) /\ r.work <= Len(novels[r.project])
    BY <1>1, <1>3, <1>5 DEF ManagerFits
  <2> QED BY <1>2, <2>1, ReadingShapes, ChaptersCall DEF NewCall
<1> QED BY <1>1, <1>4, <1>5, ReadingShapes, NovelClickCounts DEF QuietReading, backendVars

\* A failed read is tried again.
LEMMA RetryReading == ReadingInv /\ RetryChapters => QuietReading
<1> SUFFICES ASSUME ReadingInv, RetryChapters PROVE QuietReading
  OBVIOUS
<1>1. manager.saved # none => manager.saved.chapter \in Nat
  <2>1. manager.saved \in Saveds
    BY ReadingShapes DEF Managers
  <2> QED BY <2>1 DEF Saveds, Revisions
<1>2. PICK k : k = IF manager.saved = none THEN 0 ELSE manager.saved.chapter
  OBVIOUS
<1>3. k \in Nat /\ calls' = calls \cup ReadCall(manager', k) /\ manager' = ReadChapters(manager, manager.work)
  BY <1>1, <1>2 DEF RetryChapters
<1>4. manager.work \in Nat /\ manager.work <= Len(novels[manager.project]) /\ ManagerFits(manager, novels)
  BY ReadingShapes DEF ManagerFits
<1>5. manager \in Managers
  BY ReadingShapes
<1> QED BY <1>3, <1>4, <1>5, ReadingOf DEF RetryChapters

\* Another work is chosen.
LEMMA ChooseWorkReading == \A w \in 1..manager.works : ReadingInv /\ ChooseWork(w) => QuietReading
<1> SUFFICES ASSUME NEW w \in 1..manager.works, ReadingInv, ChooseWork(w) PROVE QuietReading
  OBVIOUS
<1>1. PICK m : m = [manager EXCEPT !.copy = none, !.chapter = 0, !.stale = FALSE, !.saved = none]
  OBVIOUS
<1>2. manager \in Managers /\ w \in Nat
  BY ReadingShapes
<1>3. m \in Managers
  <2>1. none \in Copies /\ FALSE \in Flags /\ none \in Saveds /\ 0 \in Nat
    BY ManagerValues
  <2> QED BY <1>1, <1>2, <2>1, Zenon DEF Managers
<1>4. /\ m.session = manager.session /\ m.request = manager.request /\ m.project = manager.project
      /\ m.works = manager.works /\ m.work = manager.work /\ m.copy = none /\ m.open = manager.open
      /\ m.scope = manager.scope /\ m.mode = manager.mode /\ m.saving = manager.saving
  BY <1>1, <1>2 DEF Managers
<1>5. ManagerFits(m, novels)
  BY <1>4, ReadingShapes DEF ManagerFits
<1>6. w <= Len(novels[m.project])
  BY <1>4, ReadingShapes DEF ManagerFits
<1>7. manager' = ReadChapters(m, w) /\ calls' = calls \cup ReadCall(manager', 0)
  BY <1>1 DEF ChooseWork
<1> QED BY <1>2, <1>3, <1>4, <1>5, <1>6, <1>7, ReadingOf DEF ChooseWork

\* A step of the editor: it leaves alone what the dialog shows.
LEMMA EditMoves ==
  ASSUME ReadingInv, NEW m \in Managers,
         m.session = manager.session, m.request = manager.request, m.project = manager.project,
         m.works = manager.works, m.work = manager.work, m.copy = manager.copy, m.open = manager.open,
         m.loading = manager.loading, m.stale = manager.stale, m.saving => m.open,
         m.mode \in ChapterModes <=> m.scope # none,
         m.scope # none => HasChapters(novels, m.project, m.scope.work, m.scope.chapter)
  PROVE  DialogMoves(m)
<1>1. ManagerFits(m, novels)
  BY ReadingShapes DEF ManagerFits
<1>2. CopyCovers(m, confirmed)
  BY ReadingShapes DEF CopyCovers
<1> QED BY <1>1, <1>2, ReadingShapes DEF DialogMoves

\* The works are listed again; a chapter is chosen.
LEMMA BrowseReading ==
  ReadingInv /\ (RefreshWorks \/ \E n \in DOMAIN manager.copy.chapters : ChooseChapter(n)) => QuietReading
<1>1. ASSUME ReadingInv, RefreshWorks PROVE QuietReading
  <2>1. PICK next : next = manager.listing + 1
    OBVIOUS
  <2>2. PICK m : m = [manager EXCEPT !.listing = next]
    OBVIOUS
  <2>3. manager \in Managers /\ next \in Nat
    BY <1>1, <2>1, ReadingShapes
  <2>4. m \in Managers
    BY <2>2, <2>3, Zenon DEF Managers
  <2>5. manager' = m
    BY <1>1, <2>1, <2>2 DEF RefreshWorks, ListWorks
  <2>6. DialogMoves(m)
    <3>1. /\ m.session = manager.session /\ m.request = manager.request /\ m.project = manager.project
          /\ m.works = manager.works /\ m.work = manager.work /\ m.copy = manager.copy
          /\ m.open = manager.open /\ m.loading = manager.loading /\ m.stale = manager.stale
          /\ m.saving = manager.saving /\ m.mode = manager.mode /\ m.scope = manager.scope
      BY <2>2, <2>3 DEF Managers
    <3> QED BY <1>1, <2>4, <3>1, EditMoves, ReadingShapes DEF ManagerFits
  <2>7. \A c \in calls' \ calls : NewCall(c, m)
    BY <1>1, <2>4, <2>5, WorksCall DEF RefreshWorks, NewCall
  <2> QED BY <1>1, <2>5, <2>6, <2>7, ReadingShapes, NovelClickCounts
          DEF RefreshWorks, QuietReading, backendVars
<1>2. ASSUME ReadingInv, manager.copy # none, NEW n \in DOMAIN manager.copy.chapters, ChooseChapter(n)
      PROVE QuietReading
  <2>1. PICK m : m = [manager EXCEPT !.chapter = n]
    OBVIOUS
  <2>2. manager \in Managers /\ n \in Nat
    <3>1. manager.copy \in [work : Nat, chapters : Chapters]
      BY <1>2, ReadingShapes DEF Managers, Copies
    <3> QED BY <1>2, <3>1, ReadingShapes DEF Chapters
  <2>3. m \in Managers
    BY <2>1, <2>2, Zenon DEF Managers
  <2>4. manager' = m
    BY <1>2, <2>1 DEF ChooseChapter
  <2>5. DialogMoves(m)
    <3>1. /\ m.session = manager.session /\ m.request = manager.request /\ m.project = manager.project
          /\ m.works = manager.works /\ m.work = manager.work /\ m.copy = manager.copy
          /\ m.open = manager.open /\ m.loading = manager.loading /\ m.stale = manager.stale
          /\ m.saving = manager.saving /\ m.mode = manager.mode /\ m.scope = manager.scope
      BY <2>1, <2>2 DEF Managers
    <3> QED BY <1>2, <2>3, <3>1, EditMoves, ReadingShapes DEF ManagerFits
  <2> QED BY <1>2, <2>4, <2>5, ReadingShapes, NovelClickCounts DEF ChooseChapter, QuietReading, backendVars
<1> QED BY <1>1, <1>2 DEF ChooseChapter

\* Text is typed; the editor is left.
LEMMA TypingReading == ReadingInv /\ (TypeChapter \/ CancelChapter) => QuietReading
<1>1. ASSUME ReadingInv, TypeChapter PROVE QuietReading
  <2>1. PICK t : t = 10 + clicks
    OBVIOUS
  <2>2. PICK m : m = [manager EXCEPT !.draft = t]
    OBVIOUS
  <2>3. manager \in Managers /\ t \in Nat
    BY <1>1, <2>1, ReadingShapes
  <2>4. m \in Managers
    BY <2>2, <2>3, Zenon DEF Managers
  <2>5. manager' = m
    BY <1>1, <2>1, <2>2 DEF TypeChapter
  <2>6. DialogMoves(m)
    <3>1. /\ m.session = manager.session /\ m.request = manager.request /\ m.project = manager.project
          /\ m.works = manager.works /\ m.work = manager.work /\ m.copy = manager.copy
          /\ m.open = manager.open /\ m.loading = manager.loading /\ m.stale = manager.stale
          /\ m.saving = manager.saving /\ m.mode = manager.mode /\ m.scope = manager.scope
      BY <2>2, <2>3 DEF Managers
    <3> QED BY <1>1, <2>4, <3>1, EditMoves, ReadingShapes DEF ManagerFits
  <2>7. stored' \subseteq Drafts
    BY <1>1, <2>4, <2>5, <2>6, KeptDrafts, ReadingShapes DEF TypeChapter, DialogMoves, ManagerFits
  <2> QED BY <1>1, <2>5, <2>6, <2>7, ReadingShapes, NovelClickCounts DEF TypeChapter, QuietReading, backendVars
<1>2. ASSUME ReadingInv, CancelChapter PROVE QuietReading
  <2>1. PICK m : m = [manager EXCEPT !.mode = "browse", !.scope = none, !.saved = none]
    OBVIOUS
  <2>2. manager \in Managers
    BY <1>2, ReadingShapes
  <2>3. m \in Managers
    <3>1. "browse" \in DialogModes /\ none \in Scopes /\ none \in Saveds
      BY ManagerValues
    <3> QED BY <2>1, <2>2, <3>1, Zenon DEF Managers
  <2>4. manager' = m
    BY <1>2, <2>1 DEF CancelChapter
  <2>5. DialogMoves(m)
    <3>1. /\ m.session = manager.session /\ m.request = manager.request /\ m.project = manager.project
          /\ m.works = manager.works /\ m.work = manager.work /\ m.copy = manager.copy
          /\ m.open = manager.open /\ m.loading = manager.loading /\ m.stale = manager.stale
          /\ m.saving = manager.saving /\ m.mode = "browse" /\ m.scope = none
      BY <2>1, <2>2 DEF Managers
    <3>2. m.saving => m.open
      BY <1>2, <3>1, ReadingShapes DEF ManagerFits
    <3>3. m.mode \in ChapterModes <=> m.scope # none
      BY <3>1 DEF ChapterModes
    <3> QED BY <1>2, <2>3, <3>1, <3>2, <3>3, EditMoves
  <2> QED BY <1>2, <2>4, <2>5, ReadingShapes, NovelClickCounts DEF CancelChapter, QuietReading, backendVars
<1> QED BY <1>1, <1>2

\* A work is created or a chapter saved: the dialog is busy and the call is made.
LEMMA SaveReading == ReadingInv /\ (CreateWork \/ PressSaveChapter) => QuietReading
<1>1. ASSUME ReadingInv, CreateWork PROVE QuietReading
  <2>1. PICK m : m = [manager EXCEPT !.mode = "new_work", !.saving = TRUE]
    OBVIOUS
  <2>2. manager \in Managers
    BY <1>1, ReadingShapes
  <2>3. m \in Managers
    <3>1. "new_work" \in DialogModes /\ TRUE \in Flags
      BY ManagerValues
    <3> QED BY <2>1, <2>2, <3>1, Zenon DEF Managers
  <2>4. manager' = m
    BY <1>1, <2>1 DEF CreateWork
  <2>5. /\ m.session = manager.session /\ m.request = manager.request /\ m.project = manager.project
        /\ m.works = manager.works /\ m.work = manager.work /\ m.copy = manager.copy
        /\ m.open = manager.open /\ m.loading = manager.loading /\ m.stale = manager.stale
        /\ m.mode = "new_work" /\ m.scope = manager.scope
    BY <2>1, <2>2 DEF Managers
  <2>6. manager.scope = none /\ manager.open
    BY <1>1, ReadingShapes DEF CreateWork, ManagerFits, ChapterModes
  <2>7. DialogMoves(m)
    BY <1>1, <2>3, <2>5, <2>6, EditMoves DEF ChapterModes
  <2>8. ASSUME NEW c \in calls' \ calls PROVE NewCall(c, m)
    <3>1. c = Call(manager, "create", 0, 0, 0)
      BY <1>1, <2>8 DEF CreateWork
    <3>2. /\ c \in NovelCalls /\ c.kind = "create" /\ c.phase = "asked" /\ NotAhead(c, manager)
          /\ ReadCovers(c, manager, confirmed)
      BY <2>2, <3>1, AskedCall DEF Saves
    <3>3. CallFits(c, novels)
      BY <3>2 DEF CallFits, Reads
    <3> QED BY <2>5, <3>2, <3>3 DEF NewCall, NotAhead, ReadCovers
  <2> QED BY <1>1, <2>4, <2>7, <2>8, ReadingShapes, NovelClickCounts DEF CreateWork, QuietReading, backendVars
<1>2. ASSUME ReadingInv, PressSaveChapter PROVE QuietReading
  <2>1. PICK m : m = [manager EXCEPT !.saving = TRUE]
    OBVIOUS
  <2>2. manager \in Managers
    BY <1>2, ReadingShapes
  <2>3. m \in Managers
    <3>1. TRUE \in Flags
      BY ManagerValues
    <3> QED BY <2>1, <2>2, <3>1, Zenon DEF Managers
  <2>4. manager' = m
    BY <1>2, <2>1 DEF PressSaveChapter
  <2>5. /\ m.session = manager.session /\ m.request = manager.request /\ m.project = manager.project
        /\ m.works = manager.works /\ m.work = manager.work /\ m.copy = manager.copy
        /\ m.open = manager.open /\ m.loading = manager.loading /\ m.stale = manager.stale
        /\ m.mode = manager.mode /\ m.scope = manager.scope
    BY <2>1, <2>2 DEF Managers
  <2>6. /\ manager.scope # none /\ manager.open
        /\ HasChapters(novels, manager.project, manager.scope.work, manager.scope.chapter)
    BY <1>2, ReadingShapes DEF PressSaveChapter, Editing, ManagerFits, ChapterModes
  <2>7. DialogMoves(m)
    BY <1>2, <2>3, <2>5, <2>6, EditMoves, ReadingShapes DEF ManagerFits
  <2>8. ASSUME NEW c \in calls' \ calls PROVE NewCall(c, m)
    <3>1. c = Call(manager, "save", manager.scope.work, manager.scope.chapter, manager.draft)
      BY <1>2, <2>8 DEF PressSaveChapter
    <3>2. manager.scope.work \in Nat /\ manager.scope.chapter \in Nat /\ manager.draft \in Nat
      <4>1. manager.scope \in [work : Nat, chapter : Nat]
        BY <2>2, <2>6 DEF Managers, Scopes
      <4> QED BY <2>2, <4>1 DEF Managers
    <3>3. /\ c \in NovelCalls /\ c.kind = "save" /\ c.phase = "asked" /\ c.project = manager.project
          /\ c.work = manager.scope.work /\ c.chapter = manager.scope.chapter
          /\ NotAhead(c, manager) /\ ReadCovers(c, manager, confirmed)
      <4>1. PICK w, n, t : w = manager.scope.work /\ n = manager.scope.chapter /\ t = manager.draft
        OBVIOUS
      <4>2. w \in Nat /\ n \in Nat /\ t \in Nat /\ c = Call(manager, "save", w, n, t)
        BY <3>1, <3>2, <4>1
      <4>3. /\ c \in NovelCalls /\ c.kind = "save" /\ c.phase = "asked" /\ c.project = manager.project
            /\ c.work = w /\ c.chapter = n /\ NotAhead(c, manager) /\ ReadCovers(c, manager, confirmed)
        BY <2>2, <4>2, AskedCall DEF Saves
      <4> QED BY <4>1, <4>3
    <3>4. CallFits(c, novels)
      BY <2>6, <3>3 DEF CallFits, Reads
    <3> QED BY <2>5, <3>3, <3>4 DEF NewCall, NotAhead, ReadCovers
  <2> QED BY <1>2, <2>4, <2>7, <2>8, ReadingShapes, NovelClickCounts
          DEF PressSaveChapter, QuietReading, backendVars
<1> QED BY <1>1, <1>2

\* The chapter and the text an editor opens with.
BegunWith(m, r, k, t) ==
  /\ r.scope = [work |-> m.work, chapter |-> k] /\ r.draft = StoredOr(<<m.project, m.work, k>>, t)
  /\ r.skip = m.skip \ {<<m.project, m.work, k>>}

\* The editor that opens fits when the chapter it is for is there.
LEMMA BegunEditor ==
  ASSUME NEW m \in Managers, ManagerFits(m, novels), NEW mode \in ChapterModes, NEW k \in Nat, NEW t \in Nat,
         m.work \in Nat, HasChapters(novels, m.project, m.work, k), stored \subseteq Drafts,
         NEW r, r = BeginChapter(m, mode, k, t)
  PROVE  /\ r \in Managers /\ ManagerFits(r, novels)
         /\ r.session = m.session /\ r.request = m.request /\ r.project = m.project /\ r.works = m.works
         /\ r.work = m.work /\ r.copy = m.copy /\ r.open = m.open /\ r.loading = m.loading
         /\ r.stale = m.stale /\ r.saving = m.saving /\ r.mode = mode /\ r.saved = none
         /\ BegunWith(m, r, k, t)
<1>1. PICK key, scope, text, skip :
         /\ key = <<m.project, m.work, k>> /\ scope = [work |-> m.work, chapter |-> k]
         /\ text = StoredOr(key, t) /\ skip = m.skip \ {key}
  OBVIOUS
<1>2. text \in Nat
  <2>1. CASE StoredAt(key) = {}
    BY <1>1, <2>1 DEF StoredOr
  <2>2. CASE StoredAt(key) # {}
    <3>1. PICK d : d = CHOOSE x \in StoredAt(key) : TRUE
      OBVIOUS
    <3>2. d \in StoredAt(key) /\ text = d.text
      BY <1>1, <2>2, <3>1 DEF StoredOr
    <3> QED BY <3>2 DEF StoredAt, Drafts
  <2> QED BY <2>1, <2>2
<1>3. scope \in [work : Nat, chapter : Nat]
  BY <1>1
<1>4. scope \in Scopes /\ skip \in Skips /\ mode \in DialogModes /\ none \in Saveds
  <2>1. m.skip \in Skips
    BY DEF Managers
  <2> QED BY <1>1, <1>3, <2>1 DEF Scopes, Skips, DialogModes, Saveds
<1>5. r = [m EXCEPT !.mode = mode, !.scope = scope, !.saved = none, !.draft = text, !.skip = skip]
  BY <1>1 DEF BeginChapter
<1>6. r \in Managers
  BY <1>2, <1>4, <1>5, Zenon DEF Managers
<1>7. /\ r.session = m.session /\ r.request = m.request /\ r.project = m.project /\ r.works = m.works
      /\ r.work = m.work /\ r.copy = m.copy /\ r.open = m.open /\ r.loading = m.loading
      /\ r.stale = m.stale /\ r.saving = m.saving /\ r.mode = mode /\ r.saved = none
      /\ r.scope = scope /\ r.draft = text /\ r.skip = skip
  BY <1>5 DEF Managers
<1>8. scope # none /\ scope.work = m.work /\ scope.chapter = k
  BY <1>1, <1>3, NovelDeskAssumption
<1>9. ManagerFits(r, novels)
  BY <1>7, <1>8 DEF ManagerFits
<1> QED BY <1>1, <1>6, <1>7, <1>9 DEF BegunWith

\* A new chapter is begun, or one that is shown is edited.
LEMMA BeginReading == ReadingInv /\ (BeginNewChapter \/ BeginEditChapter) => QuietReading
<1>1. ASSUME ReadingInv, NEW mode \in ChapterModes, NEW k \in Nat, NEW t \in Nat,
             HasChapters(novels, manager.project, manager.work, k),
             manager' = BeginChapter(manager, mode, k, t), stored' = Kept(manager'), NovelClick,
             UNCHANGED <<backendVars, calls, confirmed>>
      PROVE  QuietReading
  <2>1. PICK r : r = BeginChapter(manager, mode, k, t)
    OBVIOUS
  <2>2. /\ r \in Managers /\ ManagerFits(r, novels)
        /\ r.session = manager.session /\ r.request = manager.request /\ r.project = manager.project
        /\ r.works = manager.works /\ r.work = manager.work /\ r.copy = manager.copy
        /\ r.open = manager.open /\ r.loading = manager.loading /\ r.stale = manager.stale
    <3>1. /\ manager \in Managers /\ ManagerFits(manager, novels) /\ manager.work \in Nat
          /\ stored \subseteq Drafts
      BY <1>1, ReadingShapes
    <3>2. HasChapters(novels, manager.project, manager.work, k)
      BY <1>1
    <3> QED BY <2>1, <3>1, <3>2, BegunEditor
  <2>3. DialogMoves(r)
    <3>1. CopyCovers(manager, confirmed) /\ manager.session \in Nat /\ manager.request \in Nat
      BY <1>1, ReadingShapes
    <3>2. CopyCovers(r, confirmed)
      BY <2>2, <3>1 DEF CopyCovers
    <3> QED BY <2>2, <3>1, <3>2 DEF DialogMoves
  <2>4. stored' \subseteq Drafts
    BY <1>1, <2>1, <2>2, KeptDrafts, ReadingShapes DEF ManagerFits
  <2> QED BY <1>1, <2>1, <2>3, <2>4, ReadingShapes, NovelClickCounts DEF QuietReading, backendVars
<1>2. ASSUME ReadingInv, BeginNewChapter PROVE QuietReading
  <2>1. HasChapters(novels, manager.project, manager.work, 0)
    <3>1. manager.work # 0 /\ manager.work \in 1..Len(novels[manager.project])
      BY <1>2, ReadingShapes DEF BeginNewChapter, Browsing, ManagerFits
    <3>2. Len(novels[manager.project][manager.work]) \in Nat
      BY <1>2, <3>1, ReadingShapes, WorksTypes
    <3> QED BY <3>1, <3>2 DEF HasChapters
  <2> QED BY <1>1, <1>2, <2>1 DEF BeginNewChapter, ChapterModes
<1>3. ASSUME ReadingInv, BeginEditChapter PROVE QuietReading
  <2>1. PICK k, chapters : k = manager.chapter /\ chapters = manager.copy.chapters
    OBVIOUS
  <2>2. manager.copy # none /\ manager.copy.work = manager.work /\ k \in DOMAIN chapters
    BY <1>3, <2>1 DEF BeginEditChapter
  <2>3. chapters \in Seq(Seq(Nat) \ {<<>>})
    <3>1. manager.copy \in [work : Nat, chapters : Chapters]
      BY <1>3, <2>2, ReadingShapes DEF Managers, Copies
    <3> QED BY <2>1, <3>1 DEF Chapters
  <2>4. k \in Nat /\ k \in 1..Len(chapters) /\ Len(chapters) \in Nat
    BY <2>2, <2>3
  <2>5. Last(chapters[k]) \in Nat
    <3>1. PICK s : s = chapters[k]
      OBVIOUS
    <3>2. s \in Seq(Nat) /\ s # <<>>
      BY <2>3, <2>4, <3>1, ElementOfSeq
    <3>3. Len(s) \in 1..Len(s)
      BY <3>2, EmptySeq, LenProperties
    <3> QED BY <3>1, <3>2, <3>3, ElementOfSeq DEF Last
  <2>6. HasChapters(novels, manager.project, manager.work, k)
    <3>1. HasChapters(novels, manager.project, manager.work, Len(chapters))
      BY <1>3, <2>1, <2>2, ReadingShapes DEF ManagerFits
    <3>2. Len(novels[manager.project][manager.work]) \in Nat
      BY <1>3, <3>1, ReadingShapes, WorksTypes DEF HasChapters
    <3> QED BY <2>4, <3>1, <3>2 DEF HasChapters
  <2> QED BY <1>1, <1>3, <2>1, <2>4, <2>5, <2>6 DEF BeginEditChapter, ChapterModes
<1> QED BY <1>2, <1>3

---------------------------------------------------------------------------
(* Answers.                                                                *)

\* The dialog may stay as it is.
LEMMA DialogStays == ReadingInv => DialogMoves(manager)
BY ReadingShapes DEF DialogMoves

\* The types of a call under way.
LEMMA CallTypes ==
  ASSUME ReadingInv, NEW c \in calls
  PROVE  /\ c \in NovelCalls /\ c.kind \in {"works", "chapters"} \cup Saves /\ c.project \in NovelProjects
         /\ c.session \in Nat /\ c.request \in Nat /\ c.work \in Nat /\ c.chapter \in Nat /\ c.text \in Nat
         /\ c.copy \in Chapters /\ c.heads \subseteq Revisions /\ c.awaited \subseteq Revisions
         /\ CallFits(c, novels) /\ NotAhead(c, manager) /\ ReadCovers(c, manager, confirmed)
<1>1. c \in NovelCalls
  BY ReadingShapes
<1>2. CallFits(c, novels) /\ NotAhead(c, manager) /\ ReadCovers(c, manager, confirmed)
  BY DEF ReadingInv
<1> QED BY <1>1, <1>2 DEF NovelCalls

\* A call the backend has been at.
Handled(c, phase, copy, heads, awaited, w) ==
  [c EXCEPT !.phase = phase, !.copy = copy, !.heads = heads, !.awaited = awaited, !.work = w]

\* It is a call still, of the same visit.
LEMMA AtBackend ==
  ASSUME NEW c \in NovelCalls, NEW phase \in {"read", "written"}, NEW copy \in Chapters,
         NEW heads \in SUBSET Revisions, NEW w \in Nat, NEW awaited, awaited = InFlight(c, heads), NEW d,
         d = Handled(c, phase, copy, heads, awaited, w)
  PROVE  /\ d \in NovelCalls /\ d.phase = phase /\ d.copy = copy /\ d.heads = heads /\ d.work = w
         /\ d.kind = c.kind /\ d.project = c.project /\ d.session = c.session /\ d.request = c.request
         /\ d.chapter = c.chapter /\ d.text = c.text
<1>1. awaited \in SUBSET Revisions
  BY DEF InFlight
<1>2. d \in NovelCalls
  <2>1. phase \in {"asked", "read", "written"}
    OBVIOUS
  <2> QED BY <1>1, <2>1 DEF NovelCalls, Handled
<1> QED BY <1>2 DEF NovelCalls, Handled

\* What the backend reads has every save that was confirmed.
LEMMA BackendReadsReading == \A c \in calls : ReadingInv /\ BackendReads(c) => QuietReading
<1> SUFFICES ASSUME NEW c \in calls, ReadingInv, BackendReads(c) PROVE QuietReading
  OBVIOUS
<1>1. PICK p, w : p = c.project /\ w = c.work
  OBVIOUS
<1>2. PICK copy : copy = IF c.kind = "works" THEN <<>> ELSE NovelWorks(p)[w]
  OBVIOUS
<1>3. PICK heads : heads = Heads(p, w, copy)
  OBVIOUS
<1>4. PICK new : new = IF c.kind = "works" THEN Len(NovelWorks(p)) ELSE w
  OBVIOUS
<1>5. PICK awaited : awaited = InFlight(c, heads)
  OBVIOUS
<1>6. PICK d : d = [c EXCEPT !.phase = "read", !.copy = copy, !.heads = heads, !.awaited = awaited, !.work = new]
  OBVIOUS
<1>7. calls' = (calls \ {c}) \cup {d} /\ c.kind \in {"works"} \cup Reads
  BY <1>1, <1>2, <1>3, <1>4, <1>5, <1>6 DEF BackendReads, Advance
<1>8. /\ c \in NovelCalls /\ CallFits(c, novels) /\ novels \in Works /\ p \in NovelProjects /\ w \in Nat
      /\ novels[p] \in Seq(Chapters) /\ Len(novels[p]) \in Nat
  BY <1>1, CallTypes, ReadingShapes, WorksTypes
<1>9. new \in Nat
  BY <1>4, <1>8 DEF NovelWorks
<1>10. ASSUME c.kind \in Reads
       PROVE  /\ HasChapters(novels, p, w, Len(copy)) /\ copy = novels[p][w] /\ copy \in Chapters /\ new = w
  <2>1. HasChapters(novels, p, w, 0) /\ c.kind # "works"
    BY <1>1, <1>8, <1>10 DEF CallFits, Reads
  <2>2. w \in 1..Len(novels[p])
    BY <2>1 DEF HasChapters
  <2>3. copy = novels[p][w] /\ new = w
    BY <1>2, <1>4, <2>1 DEF NovelWorks
  <2>4. copy \in Chapters /\ Len(copy) \in Nat
    BY <1>8, <2>2, <2>3, WorksTypes
  <2> QED BY <2>2, <2>3, <2>4 DEF HasChapters
<1>11. copy \in Chapters /\ heads \in SUBSET Revisions
  <2>1. CASE c.kind = "works"
    <3>1. copy = <<>>
      BY <1>2, <2>1
    <3>2. heads = {}
      BY <1>3, <3>1 DEF Heads
    <3> QED BY <3>1, <3>2 DEF Chapters
  <2>2. CASE c.kind \in Reads
    <3>1. copy = novels[p][w] /\ copy \in Chapters /\ w \in 1..Len(novels[p])
      BY <1>10, <2>2 DEF HasChapters
    <3>2. DOMAIN copy = 1..Len(copy)
      BY <3>1 DEF Chapters
    <3>3. ASSUME NEW n \in DOMAIN copy PROVE RevisionOf(p, w, n) \in Revisions
      <4>1. Len(novels[p][w][n]) \in Nat /\ n \in Nat
        BY <1>8, <3>1, <3>2, <3>3, WorksTypes
      <4> QED BY <1>8, <4>1 DEF RevisionOf, Revisions
    <3> QED BY <1>3, <3>1, <3>3 DEF Heads
  <2> QED BY <1>7, <2>1, <2>2
<1>12. /\ d \in NovelCalls /\ d.phase = "read" /\ d.copy = copy /\ d.work = new /\ d.kind = c.kind
       /\ d.project = p /\ d.session = c.session /\ d.request = c.request
  <2>1. /\ d \in NovelCalls /\ d.phase = "read" /\ d.copy = copy /\ d.work = new /\ d.kind = c.kind
        /\ d.project = c.project /\ d.session = c.session /\ d.request = c.request
    <3>1. d = Handled(c, "read", copy, heads, awaited, new)
      BY <1>6 DEF Handled
    <3> QED BY <1>5, <1>8, <1>9, <1>11, <3>1, AtBackend
  <2> QED BY <1>1, <2>1
<1>13. NewCall(d, manager)
  <2>1. CallFits(d, novels)
    <3>1. CASE c.kind = "works"
      <4>1. new <= Len(novels[p])
        BY <1>4, <1>8, <3>1 DEF NovelWorks
      <4> QED BY <1>12, <3>1, <4>1 DEF CallFits, Reads
    <3>2. CASE c.kind \in Reads
      <4>1. HasChapters(novels, p, w, 0)
        BY <1>1, <1>8, <3>2 DEF CallFits
      <4> QED BY <1>10, <1>12, <3>2, <4>1 DEF CallFits, Reads
    <3> QED BY <1>7, <3>1, <3>2
  <2>2. NotAhead(d, manager)
    BY <1>12, CallTypes DEF NotAhead
  <2>3. ASSUME c.kind \in Reads PROVE Covers(copy, p, w, confirmed)
    <3>1. ASSUME NEW r \in confirmed, r.project = p, r.work = w
          PROVE r.chapter \in DOMAIN copy /\ Len(copy[r.chapter]) >= r.revision
      <4>1. PICK n, k : n = r.chapter /\ k = r.revision
        OBVIOUS
      <4>2. r \in Revisions /\ Written(novels, r)
        BY <3>1 DEF ReadingInv, NovelShapes
      <4>3. n \in Nat /\ k \in Nat
        BY <4>1, <4>2 DEF Revisions
      <4>4. HasChapters(novels, p, w, n) /\ n # 0 /\ k <= Len(novels[p][w][n])
        BY <3>1, <4>1, <4>2 DEF Written
      <4>5. w \in 1..Len(novels[p]) /\ n \in 1..Len(novels[p][w])
        BY <4>3, <4>4, <1>8, WorksTypes DEF HasChapters
      <4>6. Len(novels[p][w][n]) \in Nat
        BY <1>8, <4>5, WorksTypes
      <4>7. DOMAIN copy = 1..Len(copy) /\ copy = novels[p][w]
        BY <1>10, <2>3 DEF Chapters
      <4>8. n \in DOMAIN copy /\ Len(copy[n]) >= k
        BY <4>3, <4>4, <4>5, <4>6, <4>7
      <4> QED BY <4>1, <4>8
    <3> QED BY <3>1 DEF Covers
  <2>4. ReadCovers(d, manager, confirmed)
    BY <1>10, <1>12, <2>3 DEF ReadCovers
  <2> QED BY <1>12, <2>1, <2>2, <2>4 DEF NewCall
<1>14. manager' = manager /\ UNCHANGED <<novels, confirmed, stored, clicks>>
  BY DEF BackendReads, NovelIdle
<1> QED BY <1>7, <1>13, <1>14, DialogStays, ReadingShapes DEF QuietReading

\* The list of works is shown, and a work that is still there is read.
LEMMA WorksAnswerReading == \A c \in calls : ReadingInv /\ WorksAnswer(c) => QuietReading
<1> SUFFICES ASSUME NEW c \in calls, ReadingInv, WorksAnswer(c) PROVE QuietReading
  OBVIOUS
<1>1. /\ UNCHANGED <<novels, confirmed, stored, clicks>> /\ c.phase = "read" /\ c.kind = "works"
  BY DEF WorksAnswer, NovelIdle, backendVars
<1>2. CASE ~StillAsked(c, manager.listing)
  <2>1. manager' = manager /\ calls' \subseteq calls
    BY <1>2 DEF WorksAnswer
  <2> QED BY <1>1, <2>1, DialogStays, ReadingShapes DEF QuietReading
<1>3. CASE StillAsked(c, manager.listing)
  <2>1. PICK works, kept : /\ works = c.work
                           /\ kept = IF manager.work \in 1..works THEN manager.work
                                     ELSE IF works > 0 THEN 1 ELSE 0
    OBVIOUS
  <2>2. PICK m : m = [manager EXCEPT !.works = works]
    OBVIOUS
  <2>3. works \in Nat /\ works <= Len(novels[manager.project]) /\ manager \in Managers
    BY <1>1, <1>3, <2>1, CallTypes, ReadingShapes DEF CallFits, StillAsked
  <2>4. kept \in 0..works
    BY <2>1, <2>3
  <2>5. m \in Managers
    BY <2>2, <2>3, Zenon DEF Managers
  <2>6. /\ m.session = manager.session /\ m.request = manager.request /\ m.project = manager.project
        /\ m.works = works /\ m.work = manager.work /\ m.copy = manager.copy
        /\ m.open = manager.open /\ m.loading = manager.loading /\ m.stale = manager.stale
        /\ m.saving = manager.saving /\ m.mode = manager.mode /\ m.scope = manager.scope
    BY <2>2, <2>3 DEF Managers
  <2>7. ManagerFits(m, novels)
    BY <2>3, <2>6, ReadingShapes DEF ManagerFits
  <2>8. \/ manager' = m /\ calls' \subseteq calls
        \/ manager' = ReadChapters(m, kept) /\ calls' \subseteq calls \cup ReadCall(manager', 0)
    BY <1>3, <2>1, <2>2 DEF WorksAnswer
  <2>9. CASE manager' = m /\ calls' \subseteq calls
    <3>1. CopyCovers(m, confirmed)
      BY <2>6, ReadingShapes DEF CopyCovers
    <3>2. DialogMoves(m)
      BY <2>5, <2>6, <2>7, <3>1, ReadingShapes DEF DialogMoves
    <3> QED BY <1>1, <2>9, <3>2, ReadingShapes DEF QuietReading
  <2>10. CASE manager' = ReadChapters(m, kept) /\ calls' \subseteq calls \cup ReadCall(manager', 0)
    <3>1. PICK r : r = ReadChapters(m, kept)
      OBVIOUS
    <3>2. kept \in Nat /\ kept \in 0..Len(novels[m.project])
      BY <2>3, <2>4, <2>6, ReadingShapes
    <3>3. r \in Managers /\ r.request >= m.request /\ CopyCovers(r, confirmed) /\ r.session = m.session
      BY <2>5, <3>1, <3>2, ReadChaptersMoves
    <3>4. ManagerFits(r, novels)
      BY <2>5, <2>7, <3>1, <3>2, ReadingShapes, ReadChaptersFits
    <3>5. DialogMoves(r)
      BY <2>6, <3>3, <3>4, ReadingShapes DEF DialogMoves
    <3>6. ASSUME NEW d \in calls' \ calls PROVE NewCall(d, r)
      <4>1. d \in ReadCall(r, 0) /\ r.work <= Len(novels[r.project])
        BY <2>10, <3>1, <3>4, <3>6 DEF ManagerFits
      <4> QED BY <3>3, <4>1, ReadingShapes, ChaptersCall DEF NewCall
    <3> QED BY <1>1, <2>10, <3>1, <3>5, <3>6, ReadingShapes DEF QuietReading
  <2> QED BY <2>8, <2>9, <2>10
<1> QED BY <1>2, <1>3

\* The dialog is less busy than it was.
LEMMA SavingEnds ==
  ASSUME ReadingInv, NEW saving \in Flags, saving => manager.saving,
         NEW m, m = [manager EXCEPT !.saving = saving]
  PROVE  DialogMoves(m)
<1>1. manager \in Managers
  BY ReadingShapes
<1>2. m \in Managers
  BY <1>1, Zenon DEF Managers
<1>3. /\ m.session = manager.session /\ m.request = manager.request /\ m.project = manager.project
      /\ m.works = manager.works /\ m.work = manager.work /\ m.copy = manager.copy
      /\ m.open = manager.open /\ m.loading = manager.loading /\ m.stale = manager.stale
      /\ m.saving = saving /\ m.mode = manager.mode /\ m.scope = manager.scope
  BY <1>1 DEF Managers
<1> QED BY <1>2, <1>3, EditMoves, ReadingShapes DEF ManagerFits

\* The chapters are shown if they are still asked for: then they are new enough.
LEMMA ChaptersAnswerReading == \A c \in calls : ReadingInv /\ ChaptersAnswer(c) => QuietReading
<1> SUFFICES ASSUME NEW c \in calls, ReadingInv, ChaptersAnswer(c) PROVE QuietReading
  OBVIOUS
<1>1. /\ UNCHANGED <<novels, confirmed, stored, clicks>> /\ c.phase = "read" /\ c.kind \in Reads
      /\ calls' \subseteq calls
  BY DEF ChaptersAnswer, NovelIdle
<1>2. PICK saving : saving = Saving(c)
  OBVIOUS
<1>3. saving \in Flags /\ (saving => manager.saving)
  <2>1. CASE manager.saving /\ ~(c.kind = "reread" /\ SameVisit(c))
    BY <1>2, <2>1, ManagerValues DEF Saving
  <2>2. CASE ~(manager.saving /\ ~(c.kind = "reread" /\ SameVisit(c)))
    BY <1>2, <2>2, ManagerValues DEF Saving
  <2> QED BY <2>1, <2>2
<1>4. CASE ~ChapterReadCurrent(c)
  <2>1. manager' = [manager EXCEPT !.saving = saving]
    BY <1>2, <1>4 DEF ChaptersAnswer
  <2> QED BY <1>1, <1>3, <2>1, SavingEnds, ReadingShapes DEF QuietReading
<1>5. CASE ChapterReadCurrent(c)
  <2>1. c.request = manager.request /\ c.project = manager.project
    BY <1>5 DEF ChapterReadCurrent, StillAsked
  <2>2. PICK copy : copy = [work |-> c.work, chapters |-> c.copy]
    OBVIOUS
  <2>3. /\ copy \in [work : Nat, chapters : Chapters] /\ copy.work = c.work /\ copy.chapters = c.copy
        /\ HasChapters(novels, manager.project, c.work, Len(c.copy))
        /\ Covers(c.copy, manager.project, c.work, confirmed) /\ manager \in Managers
    BY <1>1, <2>1, <2>2, CallTypes, ReadingShapes DEF CallFits, ReadCovers
  <2>4. PICK chosen \in Nat :
          \/ manager' = [manager EXCEPT !.copy = copy, !.stale = FALSE, !.loading = FALSE, !.saving = saving,
                                        !.chapter = chosen]
          \/ manager' = [manager EXCEPT !.copy = copy, !.stale = FALSE, !.loading = FALSE, !.saving = saving,
                                        !.chapter = chosen, !.mode = "browse", !.saved = none, !.scope = none]
    <3>1. c.chapter \in Nat /\ manager.chapter \in Nat /\ (manager.saved # none => manager.saved.chapter \in Nat)
      <4>1. manager.saved # none => manager.saved \in Revisions
        BY <2>3 DEF Managers, Saveds
      <4> QED BY <2>3, <4>1, CallTypes DEF Managers, Revisions
    <3>2. PICK s, seen, chosen :
            /\ s = manager.saved
            /\ seen = (s # none /\ s.work = c.work /\ s.chapter \in DOMAIN c.copy
                        /\ Len(c.copy[s.chapter]) >= s.revision)
            /\ chosen = CASE seen -> s.chapter
                          [] manager.mode = "browse" /\ c.chapter \in DOMAIN c.copy -> c.chapter
                          [] manager.chapter \in DOMAIN c.copy -> manager.chapter
                          [] OTHER -> IF c.copy = <<>> THEN 0 ELSE 1
      OBVIOUS
    <3>3. chosen \in Nat
      BY <3>1, <3>2
    <3> QED BY <1>2, <1>5, <2>2, <3>2, <3>3 DEF ChaptersAnswer
  <2>5. PICK no : no = FALSE
    OBVIOUS
  <2>6. PICK m : m = [manager EXCEPT !.copy = copy, !.stale = no, !.loading = no, !.saving = saving,
                                     !.chapter = chosen]
    OBVIOUS
  <2>7. no \in Flags /\ copy \in Copies /\ "browse" \in DialogModes /\ none \in Saveds /\ none \in Scopes
    BY <2>3, <2>5, ManagerValues DEF Copies
  <2>8. m \in Managers
    BY <1>3, <2>3, <2>4, <2>6, <2>7, Zenon DEF Managers
  <2>9. /\ m.session = manager.session /\ m.request = manager.request /\ m.project = manager.project
        /\ m.works = manager.works /\ m.work = manager.work /\ m.copy = copy
        /\ m.open = manager.open /\ m.saving = saving /\ m.mode = manager.mode /\ m.scope = manager.scope
    BY <2>3, <2>6 DEF Managers
  <2>10. ManagerFits(m, novels)
    BY <1>3, <2>3, <2>9, ReadingShapes DEF ManagerFits
  <2>11. CopyCovers(m, confirmed)
    BY <2>3, <2>9 DEF CopyCovers
  <2>12. DialogMoves(m)
    BY <2>8, <2>9, <2>10, <2>11, ReadingShapes DEF DialogMoves
  <2>13. PICK r : r = [m EXCEPT !.mode = "browse", !.saved = none, !.scope = none]
    OBVIOUS
  <2>14. DialogMoves(r)
    <3>1. r \in Managers
      BY <2>7, <2>8, <2>13, Zenon DEF Managers
    <3>2. /\ r.session = m.session /\ r.request = m.request /\ r.project = m.project
          /\ r.works = m.works /\ r.work = m.work /\ r.copy = m.copy /\ r.open = m.open
          /\ r.loading = m.loading /\ r.stale = m.stale
          /\ r.saving = m.saving /\ r.mode = "browse" /\ r.scope = none
      BY <2>8, <2>13 DEF Managers
    <3>3. ManagerFits(r, novels)
      BY <2>10, <3>2 DEF ManagerFits, ChapterModes
    <3>4. CopyCovers(r, confirmed)
      BY <2>11, <3>2 DEF CopyCovers
    <3> QED BY <2>12, <3>1, <3>2, <3>3, <3>4 DEF DialogMoves
  <2>15. manager' = m \/ manager' = r
    BY <2>4, <2>5, <2>6, <2>13
  <2> QED BY <1>1, <2>12, <2>14, <2>15, ReadingShapes DEF QuietReading
<1> QED BY <1>4, <1>5

\* After a failed read there is nothing to offer.
LEMMA CallFailsReading == \A c \in calls : ReadingInv /\ NovelCallFails(c) => QuietReading
<1> SUFFICES ASSUME NEW c \in calls, ReadingInv, NovelCallFails(c) PROVE QuietReading
  OBVIOUS
<1>1. /\ UNCHANGED <<novels, confirmed, stored, clicks>> /\ calls' \subseteq calls
  BY DEF NovelCallFails, backendVars
<1>2. PICK saving, no : saving = Saving(c) /\ no = FALSE
  OBVIOUS
<1>3. saving \in Flags /\ (saving => manager.saving) /\ no \in Flags
  <2>1. CASE manager.saving /\ ~(c.kind = "reread" /\ SameVisit(c))
    BY <1>2, <2>1, ManagerValues DEF Saving
  <2>2. CASE ~(manager.saving /\ ~(c.kind = "reread" /\ SameVisit(c)))
    BY <1>2, <2>2, ManagerValues DEF Saving
  <2> QED BY <2>1, <2>2
<1>4. PICK m : m = [manager EXCEPT !.copy = none, !.chapter = 0, !.stale = TRUE, !.loading = no,
                                   !.saving = saving]
  OBVIOUS
<1>5. \/ manager' = m
      \/ manager' = [manager EXCEPT !.saving = no]
      \/ manager' = manager
  BY <1>2, <1>4 DEF NovelCallFails
<1>6. CASE manager' = m
  <2>1. manager \in Managers
    BY ReadingShapes
  <2>2. m \in Managers
    <3>1. none \in Copies /\ TRUE \in Flags /\ 0 \in Nat
      BY ManagerValues
    <3> QED BY <1>3, <1>4, <2>1, <3>1, Zenon DEF Managers
  <2>3. /\ m.session = manager.session /\ m.request = manager.request /\ m.project = manager.project
        /\ m.works = manager.works /\ m.work = manager.work /\ m.copy = none
        /\ m.open = manager.open /\ m.saving = saving /\ m.mode = manager.mode /\ m.scope = manager.scope
    BY <1>4, <2>1 DEF Managers
  <2>4. ManagerFits(m, novels) /\ CopyCovers(m, confirmed)
    BY <1>3, <2>3, ReadingShapes DEF ManagerFits, CopyCovers
  <2>5. DialogMoves(m)
    BY <2>2, <2>3, <2>4, ReadingShapes DEF DialogMoves
  <2> QED BY <1>1, <1>6, <2>5, ReadingShapes DEF QuietReading
<1>7. CASE manager' = [manager EXCEPT !.saving = no]
  <2>1. no => manager.saving
    BY <1>2
  <2> QED BY <1>1, <1>3, <1>7, <2>1, SavingEnds, ReadingShapes DEF QuietReading
<1>8. CASE manager' = manager
  BY <1>1, <1>8, DialogStays, ReadingShapes DEF QuietReading
<1> QED BY <1>5, <1>6, <1>7, <1>8

\* A new work's editor opens, and its chapters are read.
LEMMA CreatedReading == \A c \in calls : ReadingInv /\ WorkCreated(c) => QuietReading
<1> SUFFICES ASSUME NEW c \in calls, ReadingInv, WorkCreated(c) PROVE QuietReading
  OBVIOUS
<1>1. UNCHANGED <<novels, confirmed, clicks>> /\ c.phase = "written" /\ c.kind = "create"
  BY DEF WorkCreated, NovelIdle, backendVars
<1>2. CASE ~SameVisit(c)
  BY <1>1, <1>2, DialogStays, ReadingShapes DEF WorkCreated, QuietReading
<1>3. CASE SameVisit(c)
  <2>1. PICK w, no, copy : w = c.work /\ no = FALSE /\ copy = [work |-> w, chapters |-> <<>>]
    OBVIOUS
  <2>2. /\ manager \in Managers /\ HasChapters(novels, manager.project, w, 0) /\ w \in Nat
        /\ Len(novels[manager.project]) \in Nat /\ stored \subseteq Drafts
    BY <1>1, <1>3, <2>1, CallTypes, ReadingShapes DEF CallFits, SameVisit
  <2>3. no \in Flags /\ copy \in Copies /\ copy.work = w /\ copy.chapters = <<>>
    <3>1. <<>> \in Chapters
      BY DEF Chapters
    <3> QED BY <2>1, <2>2, <3>1, ManagerValues DEF Copies
  <2>4. PICK m : m = [manager EXCEPT !.works = w, !.work = w, !.copy = copy, !.chapter = 0, !.stale = no,
                                     !.saving = no]
    OBVIOUS
  <2>5. m \in Managers
    BY <2>2, <2>3, <2>4, Zenon DEF Managers
  <2>6. /\ m.session = manager.session /\ m.request = manager.request /\ m.project = manager.project
        /\ m.works = w /\ m.work = w /\ m.copy = copy /\ m.saving = no
        /\ m.open = manager.open /\ m.mode = manager.mode /\ m.scope = manager.scope
    BY <2>2, <2>4 DEF Managers
  <2>7. w \in 1..Len(novels[manager.project]) /\ w <= Len(novels[manager.project]) /\ w # 0
    BY <2>2 DEF HasChapters
  <2>8. ManagerFits(m, novels)
    <3>1. Len(<<>>) = 0 /\ ~no
      BY <2>1
    <3> QED BY <2>2, <2>3, <2>6, <2>7, <3>1, ReadingShapes DEF ManagerFits
  <2>9. PICK b : b = BeginChapter(m, "new_chapter", 0, 0)
    OBVIOUS
  <2>10. /\ b \in Managers /\ ManagerFits(b, novels) /\ b.session = m.session /\ b.request = m.request
         /\ b.project = m.project
    <3>1. HasChapters(novels, m.project, m.work, 0) /\ m.work \in Nat
      BY <2>2, <2>6
    <3>2. "new_chapter" \in ChapterModes
      BY DEF ChapterModes
    <3> QED BY <2>2, <2>5, <2>8, <2>9, <3>1, <3>2, BegunEditor
  <2>11. PICK r : r = ReadChapters(b, w)
    OBVIOUS
  <2>12. r \in Managers /\ r.request >= b.request /\ CopyCovers(r, confirmed) /\ r.session = b.session
    BY <2>2, <2>10, <2>11, ReadChaptersMoves
  <2>13. ManagerFits(r, novels)
    <3>1. w \in 0..Len(novels[b.project])
      BY <2>2, <2>6, <2>7, <2>10
    <3> QED BY <2>10, <2>11, <3>1, ReadingShapes, ReadChaptersFits
  <2>14. manager' = r /\ calls' = (calls \ {c}) \cup ReadCall(r, 0) /\ stored' = Kept(r)
    BY <1>3, <2>1, <2>4, <2>9, <2>11 DEF WorkCreated
  <2>15. DialogMoves(r)
    BY <2>6, <2>10, <2>12, <2>13, ReadingShapes DEF DialogMoves
  <2>16. ASSUME NEW d \in calls' \ calls PROVE NewCall(d, r)
    <3>1. d \in ReadCall(r, 0) /\ r.work <= Len(novels[r.project])
      BY <2>13, <2>14, <2>16 DEF ManagerFits
    <3> QED BY <2>12, <3>1, ReadingShapes, ChaptersCall DEF NewCall
  <2>17. stored' \subseteq Drafts
    BY <2>2, <2>12, <2>13, <2>14, KeptDrafts DEF ManagerFits
  <2> QED BY <1>1, <2>14, <2>15, <2>16, <2>17, ReadingShapes DEF QuietReading
<1> QED BY <1>2, <1>3

\* A publication changes nothing the dialog sees.
LEMMA PublishedReading == \A p \in NovelProjects : ReadingInv /\ Published(p) => QuietReading
<1> SUFFICES ASSUME NEW p \in NovelProjects, ReadingInv, Published(p) PROVE QuietReading
  OBVIOUS
<1>1. UNCHANGED <<novels, manager, calls, stored, confirmed>> /\ clicks' = clicks
  BY DEF Published, NovelIdle
<1> QED BY <1>1, DialogStays, ReadingShapes DEF QuietReading

---------------------------------------------------------------------------
(* Writes.                                                                 *)

\* Chapters that were there are there still, with their revisions.
ChaptersGrown(cs, ds) ==
  /\ Len(cs) <= Len(ds)
  /\ \A c \in 1..Len(cs) :
       /\ Len(cs[c]) <= Len(ds[c])
       /\ \A r \in 1..Len(cs[c]) : ds[c][r] = cs[c][r]

\* A text that is the newest revision of a chapter.
NewestText(ds, n, t) ==
  /\ n \in 1..Len(ds) /\ Len(ds[n]) \in Nat
  /\ \E r \in DOMAIN ds[n] : ds[n][r] = t

\* A new chapter comes after the others.
LEMMA ChapterAdded ==
  ASSUME NEW cs \in Chapters, NEW t \in Nat, NEW ds, ds = Append(cs, <<t>>)
  PROVE  ds \in Chapters /\ ChaptersGrown(cs, ds) /\ NewestText(ds, Len(cs) + 1, t)
<1>1. PICK new : new = <<t>>
  OBVIOUS
<1>2. new \in Seq(Nat) \ {<<>>} /\ Len(new) = 1 /\ new[1] = t /\ 1 \in DOMAIN new
  BY <1>1
<1>3. cs \in Seq(Seq(Nat) \ {<<>>}) /\ Len(cs) \in Nat
  BY DEF Chapters
<1>4. /\ ds \in Seq(Seq(Nat) \ {<<>>}) /\ Len(ds) = Len(cs) + 1 /\ ds[Len(cs) + 1] = new
      /\ \A c \in 1..Len(cs) : ds[c] = cs[c]
  BY <1>1, <1>2, <1>3, AppendProperties
<1>5. \A c \in 1..Len(cs) : Len(cs[c]) \in Nat
  <2>1. ASSUME NEW c \in 1..Len(cs) PROVE Len(cs[c]) \in Nat
    <3>1. cs[c] \in Seq(Nat)
      BY <1>3, ElementOfSeq
    <3> QED BY <3>1
  <2> QED BY <2>1
<1>6. ChaptersGrown(cs, ds)
  BY <1>3, <1>4, <1>5 DEF ChaptersGrown
<1>7. NewestText(ds, Len(cs) + 1, t)
  <2>1. PICK n : n = Len(cs) + 1
    OBVIOUS
  <2>2. n \in 1..Len(ds) /\ ds[n] = new
    BY <1>3, <1>4, <2>1
  <2> QED BY <1>2, <2>1, <2>2 DEF NewestText
<1> QED BY <1>4, <1>6, <1>7 DEF Chapters

\* A new revision comes after the chapter's others.
LEMMA RevisionAdded ==
  ASSUME NEW cs \in Chapters, NEW t \in Nat, NEW n \in 1..Len(cs), NEW ds,
         ds = [cs EXCEPT ![n] = Append(@, t)]
  PROVE  ds \in Chapters /\ ChaptersGrown(cs, ds) /\ NewestText(ds, n, t)
<1>1. PICK old, new : old = cs[n] /\ new = Append(old, t)
  OBVIOUS
<1>2. cs \in Seq(Seq(Nat) \ {<<>>}) /\ Len(cs) \in Nat /\ DOMAIN cs = 1..Len(cs)
  BY DEF Chapters
<1>3. old \in Seq(Nat) /\ Len(old) \in Nat
  <2>1. cs[n] \in Seq(Nat) \ {<<>>}
    BY <1>2, ElementOfSeq
  <2> QED BY <1>1, <2>1
<1>4. /\ new \in Seq(Nat) /\ new # <<>> /\ Len(new) = Len(old) + 1 /\ new[Len(old) + 1] = t
      /\ \A r \in 1..Len(old) : new[r] = old[r]
  BY <1>1, <1>3, AppendProperties
<1>5. ds = [cs EXCEPT ![n] = new]
  BY <1>1
<1>6. ds \in Seq(Seq(Nat) \ {<<>>}) /\ Len(ds) = Len(cs) /\ ds[n] = new
      /\ \A c \in 1..Len(cs) : c # n => ds[c] = cs[c]
  <2>1. PICK S : S = Seq(Nat) \ {<<>>}
    OBVIOUS
  <2>2. new \in S /\ cs \in Seq(S)
    BY <1>2, <1>4, <2>1
  <2>3. ds \in Seq(S) /\ Len(ds) = Len(cs) /\ \A c \in 1..Len(cs) : ds[c] = IF c = n THEN new ELSE cs[c]
    <3>1. ds = [c \in 1..Len(cs) |-> IF c = n THEN new ELSE cs[c]]
      BY <1>2, <1>5
    <3>2. \A c \in 1..Len(cs) : cs[c] \in S
      BY <2>2, ElementOfSeq
    <3>3. ds \in [1..Len(cs) -> S]
      BY <2>2, <3>1, <3>2
    <3>4. ds \in Seq(S) /\ Len(ds) = Len(cs)
      <4>1. PICK k \in Nat : k = Len(cs)
        BY <1>2
      <4>2. ds \in [1..k -> S]
        BY <3>3, <4>1
      <4>3. ds \in Seq(S)
        BY <4>1, <4>2, SeqDef, Zenon
      <4>4. Len(ds) = k
        BY <4>2, <4>3, LenProperties
      <4> QED BY <4>1, <4>3, <4>4
    <3> QED BY <3>1, <3>4
  <2> QED BY <2>1, <2>3
<1>7. ChaptersGrown(cs, ds)
  <2>1. ASSUME NEW c \in 1..Len(cs)
        PROVE  Len(cs[c]) <= Len(ds[c]) /\ \A r \in 1..Len(cs[c]) : ds[c][r] = cs[c][r]
    <3>1. CASE c = n
      <4>1. Len(old) <= Len(new) /\ \A r \in 1..Len(old) : new[r] = old[r]
        BY <1>3, <1>4
      <4> QED BY <1>1, <1>6, <3>1, <4>1
    <3>2. CASE c # n
      <4>1. ds[c] = cs[c]
        BY <1>6, <3>2
      <4>2. cs[c] \in Seq(Nat) \ {<<>>}
        BY <1>2, ElementOfSeq
      <4>3. Len(cs[c]) \in Nat
        BY <4>2
      <4> QED BY <4>1, <4>3
    <3> QED BY <3>1, <3>2
  <2> QED BY <1>2, <1>6, <2>1 DEF ChaptersGrown
<1>8. NewestText(ds, n, t)
  <2>1. Len(old) + 1 \in DOMAIN new /\ Len(new) \in Nat
    BY <1>3, <1>4
  <2> QED BY <1>4, <1>6, <2>1 DEF NewestText
<1> QED BY <1>6, <1>7, <1>8 DEF Chapters

\* A project whose works grew.
LEMMA WorksGrown ==
  ASSUME NEW n \in Works, NEW p \in NovelProjects, NEW works \in Seq(Chapters), NEW m,
         m = [n EXCEPT ![p] = works], Len(n[p]) <= Len(works),
         \A w \in 1..Len(n[p]) : ChaptersGrown(n[p][w], works[w])
  PROVE  m \in Works /\ m[p] = works /\ Grown(n, m)
<1>1. m \in Works /\ m[p] = works /\ \A q \in NovelProjects : q # p => m[q] = n[q]
  BY DEF Works
<1>2. Grown(n, n)
  BY GrownStays
<1>3. ASSUME NEW q \in NovelProjects
      PROVE  Len(n[q]) <= Len(m[q]) /\ \A w \in 1..Len(n[q]) : ChaptersGrown(n[q][w], m[q][w])
  <2>1. CASE q = p
    BY <1>1, <2>1
  <2>2. CASE q # p
    BY <1>1, <1>2, <2>2 DEF Grown, ChaptersGrown
  <2> QED BY <2>1, <2>2
<1>4. Grown(n, m)
  BY <1>3 DEF Grown, ChaptersGrown
<1> QED BY <1>1, <1>4

\* A work added or written to.
LEMMA WorkGrown ==
  ASSUME NEW old \in Seq(Chapters), NEW w \in 1..Len(old), NEW cs \in Chapters, ChaptersGrown(old[w], cs),
         NEW works, works = [old EXCEPT ![w] = cs]
  PROVE  /\ works \in Seq(Chapters) /\ Len(works) = Len(old) /\ works[w] = cs
         /\ \A v \in 1..Len(old) : ChaptersGrown(old[v], works[v])
<1>1. works \in Seq(Chapters) /\ Len(works) = Len(old) /\ works[w] = cs
      /\ \A v \in 1..Len(old) : v # w => works[v] = old[v]
  BY ExceptSeq
<1>2. ASSUME NEW v \in 1..Len(old), v # w PROVE ChaptersGrown(old[v], works[v])
  <2>1. PICK cv : cv = old[v]
    OBVIOUS
  <2>2. cv \in Seq(Seq(Nat) \ {<<>>}) /\ works[v] = cv
    BY <1>1, <1>2, <2>1, ElementOfSeq DEF Chapters
  <2>3. Len(cv) \in Nat /\ \A c \in 1..Len(cv) : Len(cv[c]) \in Nat
    <3>1. ASSUME NEW c \in 1..Len(cv) PROVE Len(cv[c]) \in Nat
      <4>1. cv[c] \in Seq(Nat)
        BY <2>2, ElementOfSeq
      <4> QED BY <4>1
    <3> QED BY <2>2, <3>1
  <2>4. ChaptersGrown(cv, cv)
    BY <2>3 DEF ChaptersGrown
  <2> QED BY <2>1, <2>2, <2>4
<1> QED BY <1>1, <1>2

\* A call whose writing is done.
Wrote(c, heads, awaited, w) ==
  [c EXCEPT !.phase = "written", !.heads = heads, !.awaited = awaited, !.work = w]

\* It is a call still, of the same visit.
LEMMA WroteCall ==
  ASSUME NEW c \in NovelCalls, NEW heads \in SUBSET Revisions, NEW w \in Nat,
         NEW awaited, awaited = InFlight(c, heads), NEW d, d = Wrote(c, heads, awaited, w)
  PROVE  /\ d \in NovelCalls /\ d.phase = "written" /\ d.heads = heads /\ d.work = w
         /\ d.kind = c.kind /\ d.project = c.project /\ d.session = c.session /\ d.request = c.request
         /\ d.chapter = c.chapter /\ d.text = c.text
<1>1. awaited \in SUBSET Revisions
  BY DEF InFlight
<1>2. d \in NovelCalls
  BY <1>1 DEF NovelCalls, Wrote
<1> QED BY <1>2 DEF NovelCalls, Wrote

\* A step that adds to the works and moves one call on.
LEMMA WritingReading ==
  ASSUME NEW c \in calls, NEW d \in NovelCalls, ReadingInv, calls' = (calls \ {c}) \cup {d},
         UNCHANGED <<manager, stored, confirmed, clicks>>, novels' \in Works, Grown(novels, novels'),
         CallFits(d, novels'), NotAhead(d, manager), ReadCovers(d, manager, confirmed)
  PROVE  ReadingStep
<1>1. NovelShapes'
  BY DEF ReadingInv, NovelShapes, Works
<1>2. manager \in Managers /\ novels \in Works /\ ManagerFits(manager, novels)
      /\ manager.session \in Nat /\ manager.request \in Nat
  BY ReadingShapes DEF ReadingInv
<1>3. ManagerFits(manager', novels')
  BY <1>2, GrownFitsReads
<1>4. CopyCovers(manager', confirmed')
  BY DEF ReadingInv
<1>5. manager'.session >= manager.session /\ manager'.request >= manager.request
  BY <1>2
<1> QED BY <1>1, <1>3, <1>4, <1>5 DEF ReadingStep

\* The backend adds a work, a chapter or a revision: nothing that was there goes.
LEMMA BackendWritesReading == \A c \in calls : ReadingInv /\ BackendWrites(c) => ReadingStep
<1> SUFFICES ASSUME NEW c \in calls, ReadingInv, BackendWrites(c) PROVE ReadingStep
  OBVIOUS
<1>1. PICK p, w, t, old : p = c.project /\ w = c.work /\ t = c.text /\ old = novels[p]
  OBVIOUS
<1>2. PICK chapter : chapter = IF c.chapter = 0 THEN Len(old[w]) + 1 ELSE c.chapter
  OBVIOUS
<1>3. PICK works : works = IF c.kind = "create" THEN Append(old, <<>>)
                           ELSE IF c.chapter = 0 THEN [old EXCEPT ![w] = Append(@, <<t>>)]
                           ELSE [old EXCEPT ![w][chapter] = Append(@, t)]
  OBVIOUS
<1>4. PICK r : r = [project |-> p, work |-> w, chapter |-> chapter, revision |-> Len(works[w][chapter])]
  OBVIOUS
<1>5. PICK new : new = IF c.kind = "create" THEN {} ELSE {r}
  OBVIOUS
<1>6. PICK awaited : awaited = InFlight(c, new)
  OBVIOUS
<1>7. PICK u : u = IF c.kind = "create" THEN Len(works) ELSE w
  OBVIOUS
<1>8. PICK d : d = Wrote(c, new, awaited, u)
  OBVIOUS
<1>9. novels' = [novels EXCEPT ![p] = works] /\ c.kind \in {"create", "save"}
  BY <1>1, <1>2, <1>3 DEF BackendWrites, NovelWorks
<1>10. calls' = (calls \ {c}) \cup {d}
  BY <1>1, <1>2, <1>3, <1>4, <1>5, <1>6, <1>7, <1>8 DEF BackendWrites, NovelWorks, Advance, Wrote
<1>11. UNCHANGED <<manager, stored, confirmed, clicks>>
  BY DEF BackendWrites, NovelIdle
<1>12. /\ c \in NovelCalls /\ CallFits(c, novels) /\ NotAhead(c, manager) /\ novels \in Works
       /\ p \in NovelProjects /\ w \in Nat /\ t \in Nat /\ c.chapter \in Nat
       /\ old \in Seq(Chapters) /\ Len(old) \in Nat
  BY <1>1, CallTypes, ReadingShapes, WorksTypes
<1>13. CASE c.kind = "create"
  <2>1. <<>> \in Chapters /\ works = Append(old, <<>>)
    BY <1>3, <1>13 DEF Chapters
  <2>2. works \in Seq(Chapters) /\ Len(works) = Len(old) + 1 /\ \A v \in 1..Len(old) : works[v] = old[v]
    BY <1>12, <2>1, AppendProperties
  <2>3. \A v \in 1..Len(old) : ChaptersGrown(old[v], works[v])
    BY <1>1, <1>12, <2>2, GrownStays DEF Grown, ChaptersGrown
  <2>4. novels' \in Works /\ novels'[p] = works /\ Grown(novels, novels')
    <3>1. PICK m : m = novels' /\ m = [novels EXCEPT ![p] = works]
      BY <1>9
    <3>2. Len(novels[p]) <= Len(works) /\ \A v \in 1..Len(novels[p]) : ChaptersGrown(novels[p][v], works[v])
      BY <1>1, <1>12, <2>2, <2>3
    <3>3. m \in Works /\ m[p] = works /\ Grown(novels, m)
      BY <1>12, <2>2, <3>1, <3>2, WorksGrown
    <3> QED BY <3>1, <3>3
  <2>5. u = Len(works) /\ u \in Nat /\ new = {}
    BY <1>5, <1>7, <1>13, <2>2
  <2>6. d \in NovelCalls /\ d.phase = "written" /\ d.work = u /\ d.kind = "create" /\ d.project = p
        /\ d.session = c.session
    <3>1. new \in SUBSET Revisions
      BY <2>5
    <3> QED BY <1>1, <1>6, <1>8, <1>12, <1>13, <2>5, <3>1, WroteCall
  <2>7. CallFits(d, novels')
    <3>1. u \in 1..Len(novels'[p])
      BY <1>12, <2>2, <2>4, <2>5
    <3>2. 0 \in 0..Len(novels'[p][u])
      BY <1>12, <2>4, <3>1, WorksTypes
    <3> QED BY <2>6, <3>1, <3>2 DEF CallFits, HasChapters, Reads
  <2>8. NotAhead(d, manager) /\ ReadCovers(d, manager, confirmed)
    BY <1>12, <2>6 DEF NotAhead, ReadCovers, Reads
  <2> QED BY <1>10, <1>11, <2>4, <2>6, <2>7, <2>8, WritingReading
<1>14. CASE c.kind = "save"
  <2>1. HasChapters(novels, p, w, c.chapter)
    BY <1>1, <1>12, <1>14 DEF CallFits
  <2>2. w \in 1..Len(old)
    BY <1>1, <2>1 DEF HasChapters
  <2>3. PICK cs : cs = old[w]
    OBVIOUS
  <2>4. cs \in Chapters /\ Len(cs) \in Nat /\ c.chapter \in 0..Len(cs)
    BY <1>1, <1>12, <2>1, <2>2, <2>3, WorksTypes DEF HasChapters
  <2>5. PICK ds : /\ works = [old EXCEPT ![w] = ds]
                  /\ ds \in Chapters /\ ChaptersGrown(cs, ds) /\ NewestText(ds, chapter, t)
    <3>1. CASE c.chapter = 0
      <4>1. PICK ds : ds = Append(cs, <<t>>)
        OBVIOUS
      <4>2. works = [old EXCEPT ![w] = ds] /\ chapter = Len(cs) + 1
        BY <1>2, <1>3, <1>14, <2>3, <3>1, <4>1
      <4>3. ds \in Chapters /\ ChaptersGrown(cs, ds) /\ NewestText(ds, Len(cs) + 1, t)
        BY <1>12, <2>4, <4>1, ChapterAdded
      <4> QED BY <4>2, <4>3
    <3>2. CASE c.chapter # 0
      <4>1. PICK ds : ds = [cs EXCEPT ![chapter] = Append(@, t)]
        OBVIOUS
      <4>2. works = [old EXCEPT ![w] = ds] /\ chapter = c.chapter
        BY <1>2, <1>3, <1>14, <2>3, <3>2, <4>1
      <4>3. chapter \in 1..Len(cs)
        BY <1>12, <2>4, <3>2, <4>2
      <4>4. ds \in Chapters /\ ChaptersGrown(cs, ds) /\ NewestText(ds, chapter, t)
        BY <1>12, <2>4, <4>1, <4>3, RevisionAdded
      <4> QED BY <4>2, <4>4
    <3> QED BY <3>1, <3>2
  <2>6. /\ works \in Seq(Chapters) /\ Len(works) = Len(old) /\ works[w] = ds
        /\ \A v \in 1..Len(old) : ChaptersGrown(old[v], works[v])
    BY <1>12, <2>2, <2>3, <2>5, WorkGrown
  <2>7. novels' \in Works /\ novels'[p] = works /\ Grown(novels, novels')
    <3>1. PICK m : m = novels' /\ m = [novels EXCEPT ![p] = works]
      BY <1>9
    <3>2. Len(novels[p]) <= Len(works) /\ \A v \in 1..Len(novels[p]) : ChaptersGrown(novels[p][v], works[v])
      BY <1>1, <1>12, <2>6
    <3>3. m \in Works /\ m[p] = works /\ Grown(novels, m)
      BY <1>12, <2>6, <3>1, <3>2, WorksGrown
    <3> QED BY <3>1, <3>3
  <2>8. u = w /\ new = {r} /\ chapter \in 1..Len(ds) /\ Len(ds[chapter]) \in Nat
    BY <1>5, <1>7, <1>14, <2>5 DEF NewestText
  <2>9. r \in Revisions /\ r.project = p /\ r.work = w /\ r.chapter = chapter /\ r.revision = Len(ds[chapter])
    <3>1. Len(ds) \in Nat /\ chapter \in Nat
      BY <2>5, <2>8 DEF Chapters
    <3> QED BY <1>4, <1>12, <2>6, <2>8, <3>1 DEF Revisions
  <2>10. HasChapters(novels', p, w, chapter) /\ chapter # 0 /\ Written(novels', r)
    <3>1. w \in 1..Len(novels'[p]) /\ novels'[p][w] = ds
      BY <2>2, <2>6, <2>7
    <3>2. chapter \in 0..Len(ds) /\ chapter # 0
      BY <2>8
    <3>3. r.revision <= Len(novels'[p][w][chapter])
      BY <2>8, <2>9, <3>1
    <3> QED BY <2>9, <3>1, <3>2, <3>3 DEF HasChapters, Written
  <2>11. HoldsText(novels', p, w, t)
    <3>1. novels'[p][w] = ds /\ chapter \in DOMAIN ds
      BY <2>5, <2>6, <2>7, <2>8 DEF Chapters
    <3> QED BY <2>5, <3>1 DEF HoldsText, NewestText
  <2>12. /\ d \in NovelCalls /\ d.phase = "written" /\ d.work = w /\ d.kind = "save" /\ d.project = p
         /\ d.session = c.session /\ d.heads = {r} /\ d.chapter = c.chapter /\ d.text = t
    <3>1. new \in SUBSET Revisions
      BY <2>8, <2>9
    <3> QED BY <1>1, <1>6, <1>8, <1>12, <1>14, <2>8, <3>1, WroteCall
  <2>13. CallFits(d, novels')
    <3>1. HasChapters(novels', p, w, c.chapter)
      BY <1>12, <2>1, <2>7, GrownKeeps
    <3> QED BY <2>9, <2>10, <2>11, <2>12, <3>1 DEF CallFits, Reads
  <2>14. NotAhead(d, manager) /\ ReadCovers(d, manager, confirmed)
    BY <1>12, <2>12 DEF NotAhead, ReadCovers, Reads
  <2> QED BY <1>10, <1>11, <2>7, <2>12, <2>13, <2>14, WritingReading
<1> QED BY <1>9, <1>13, <1>14

\* A save is reported only with a new read, so no older read is current.
LEMMA ChapterSavedReading == \A c \in calls : ReadingInv /\ ChapterSaved(c) => ReadingStep
<1> SUFFICES ASSUME NEW c \in calls, ReadingInv, ChapterSaved(c) PROVE ReadingStep
  OBVIOUS
<1>1. /\ UNCHANGED <<novels, clicks>> /\ c.phase = "written" /\ c.kind = "save" /\ stored' \subseteq stored
  BY DEF ChapterSaved, NovelIdle, backendVars
<1>2. novels \in Works /\ Grown(novels, novels')
  BY <1>1, ReadingShapes, GrownStays
<1>3. CASE ~SameVisit(c)
  <2>1. calls' = calls \ {c} /\ UNCHANGED <<manager, confirmed>>
    BY <1>3 DEF ChapterSaved
  <2> QED BY <1>1, <1>2, <2>1, ReadingShapes DEF ReadingStep, NovelShapes, ReadingInv
<1>4. CASE SameVisit(c)
  <2>1. PICK p, w, revision, key :
          p = c.project /\ w = c.work /\ revision = (CHOOSE r \in c.heads : TRUE)
          /\ key = <<c.project, c.work, c.chapter>>
    OBVIOUS
  <2>2. /\ p = manager.project /\ p \in NovelProjects /\ HasChapters(novels, p, w, c.chapter)
        /\ w \in Nat /\ c.chapter \in Nat /\ c.heads # {} /\ c.heads \subseteq Revisions
        /\ \A r \in c.heads : r.project = p /\ r.work = w /\ Written(novels, r)
        /\ manager \in Managers
    BY <1>1, <1>4, <2>1, CallTypes, ReadingShapes DEF CallFits, SameVisit
  <2>3. revision \in c.heads /\ revision \in Revisions /\ Written(novels, revision)
    BY <2>1, <2>2
  <2>4. PICK skip : skip = manager.skip \cup {key}
    OBVIOUS
  <2>5. skip \in Skips
    <3>1. key \in DraftKeys
      BY <2>1, <2>2 DEF DraftKeys
    <3> QED BY <2>2, <2>4, <3>1 DEF Managers, Skips
  <2>6. PICK m : m = [manager EXCEPT !.skip = skip, !.saved = revision]
    OBVIOUS
  <2>7. m \in Managers
    <3>1. revision \in Saveds
      BY <2>3 DEF Saveds
    <3> QED BY <2>2, <2>5, <2>6, <3>1, Zenon DEF Managers
  <2>8. /\ m.session = manager.session /\ m.request = manager.request /\ m.project = manager.project
        /\ m.works = manager.works /\ m.work = manager.work /\ m.copy = manager.copy
        /\ m.open = manager.open /\ m.saving = manager.saving /\ m.mode = manager.mode
        /\ m.scope = manager.scope
    BY <2>2, <2>6 DEF Managers
  <2>9. ManagerFits(m, novels)
    BY <2>8, ReadingShapes DEF ManagerFits
  <2>10. PICK r : r = ReadChapters(m, w)
    OBVIOUS
  <2>11. w # 0 /\ w \in 0..Len(novels[m.project])
    BY <2>2, <2>8 DEF HasChapters
  <2>12. /\ r \in Managers /\ r.request > m.request /\ r.request >= m.request
         /\ CopyCovers(r, confirmed') /\ r.session = m.session /\ r.project = m.project
    <3>1. PICK saves : saves = confirmed'
      OBVIOUS
    <3>2. /\ r \in Managers /\ r.request >= m.request /\ (w # 0 => r.request > m.request)
          /\ \A s : CopyCovers(r, s)
          /\ r.session = m.session /\ r.project = m.project
      <4>1. m \in Managers /\ w \in Nat /\ r = ReadChapters(m, w)
        BY <2>2, <2>7, <2>10
      <4> QED BY <4>1, ReadChaptersMoves
    <3>3. CopyCovers(r, saves)
      BY <3>2
    <3> QED BY <2>11, <3>1, <3>2, <3>3
  <2>13. ManagerFits(r, novels)
    BY <1>2, <2>7, <2>9, <2>10, <2>11, ReadChaptersFits
  <2>14. PICK d : d = Call(r, "reread", w, revision.chapter, 0)
    OBVIOUS
  <2>15. manager' = r /\ calls' = (calls \ {c}) \cup {d} /\ confirmed' = confirmed \cup {revision}
    BY <1>4, <2>1, <2>4, <2>6, <2>10, <2>14 DEF ChapterSaved
  <2>16. /\ d \in NovelCalls /\ CallFits(d, novels) /\ NotAhead(d, r) /\ ReadCovers(d, r, confirmed')
    <3>1. PICK n : n = revision.chapter
      OBVIOUS
    <3>2. n \in Nat /\ d = Call(r, "reread", w, n, 0)
      BY <2>3, <2>14, <3>1 DEF Revisions
    <3>3. /\ d \in NovelCalls /\ d.kind = "reread" /\ d.phase = "asked" /\ d.project = r.project
          /\ d.work = w /\ NotAhead(d, r) /\ ReadCovers(d, r, confirmed')
      <4>1. PICK kind, text : kind = "reread" /\ text = 0
        OBVIOUS
      <4>2. /\ r \in Managers /\ kind \in {"works", "chapters"} \cup Saves /\ w \in Nat /\ n \in Nat
            /\ text \in Nat /\ d = Call(r, kind, w, n, text)
        BY <2>2, <2>12, <3>2, <4>1 DEF Saves
      <4>3. /\ d \in NovelCalls /\ d.kind = kind /\ d.phase = "asked" /\ d.project = r.project
            /\ d.work = w /\ NotAhead(d, r) /\ \A saves : ReadCovers(d, r, saves)
        BY <4>2, AskedCall
      <4> QED BY <4>1, <4>3
    <3>4. r.project = p
      BY <2>2, <2>8, <2>12
    <3>5. HasChapters(novels, p, w, 0)
      <4>1. w \in 1..Len(novels[p]) /\ Len(novels[p][w]) \in Nat
        BY <1>2, <2>2, WorksTypes DEF HasChapters
      <4> QED BY <4>1 DEF HasChapters
    <3> QED BY <3>3, <3>4, <3>5 DEF CallFits
  <2>17. NovelShapes'
    <3>1. calls' \subseteq NovelCalls /\ confirmed' \subseteq Revisions
      BY <2>3, <2>15, <2>16, ReadingShapes DEF ReadingInv, NovelShapes
    <3> QED BY <1>1, <2>12, <2>15, <3>1 DEF ReadingInv, NovelShapes
  <2>18. manager'.session >= manager.session /\ manager'.request > manager.request
         /\ manager'.request >= manager.request
    BY <2>8, <2>12, <2>15, ReadingShapes
  <2> QED BY <1>1, <1>2, <2>3, <2>12, <2>13, <2>15, <2>16, <2>17, <2>18 DEF ReadingStep
<1> QED BY <1>3, <1>4

---------------------------------------------------------------------------
(* Every step.                                                             *)

\* A stuttering step reads nothing.
LEMMA StutterReading == ReadingInv /\ UNCHANGED novelVars => ReadingInv'
<1> SUFFICES ASSUME ReadingInv, UNCHANGED novelVars PROVE ReadingInv'
  OBVIOUS
<1>1. UNCHANGED <<novels, manager, calls, stored, confirmed, clicks>>
  BY DEF novelVars
<1> QED BY <1>1 DEF ReadingInv, NovelShapes

\* Every operation, answer and failure keeps the reads true.
LEMMA NextReading == ReadingInv /\ [NovelNext]_novelVars => ReadingInv'
<1> SUFFICES ASSUME ReadingInv, [NovelNext]_novelVars PROVE ReadingInv'
  OBVIOUS
<1>1. CASE OpenManager \/ CloseManager \/ RefreshWorks \/ RetryChapters
  BY <1>1, OpenReading, CloseReading, BrowseReading, RetryReading, QuietKept
<1>2. CASE \E n \in (IF manager.copy = none THEN {} ELSE DOMAIN manager.copy.chapters) : ChooseChapter(n)
  <2>1. \E n \in DOMAIN manager.copy.chapters : ChooseChapter(n)
    BY <1>2
  <2> QED BY <2>1, BrowseReading, QuietKept
<1>3. CASE \E p \in NovelProjects : SwitchNovelProject(p) \/ Published(p)
  BY <1>3, SwitchReading, PublishedReading, QuietKept
<1>4. CASE \E w \in 1..manager.works : ChooseWork(w)
  BY <1>4, ChooseWorkReading, QuietKept
<1>5. CASE BeginNewChapter \/ BeginEditChapter \/ TypeChapter \/ CancelChapter \/ CreateWork \/ PressSaveChapter
  BY <1>5, BeginReading, TypingReading, SaveReading, QuietKept
<1>6. ASSUME NEW c \in calls,
             BackendReads(c) \/ WorksAnswer(c) \/ ChaptersAnswer(c) \/ NovelCallFails(c) \/ WorkCreated(c)
      PROVE  ReadingInv'
  BY <1>6, BackendReadsReading, WorksAnswerReading, ChaptersAnswerReading, CallFailsReading, CreatedReading,
     QuietKept
<1>7. ASSUME NEW c \in calls, BackendWrites(c) \/ ChapterSaved(c) PROVE ReadingInv'
  BY <1>7, BackendWritesReading, ChapterSavedReading, ReadingKept
<1>8. CASE UNCHANGED novelVars
  BY <1>8, StutterReading
<1> QED BY <1>1, <1>2, <1>3, <1>4, <1>5, <1>6, <1>7, <1>8 DEF NovelNext

\* Each project starts with one work and a closed dialog.
LEMMA InitReading == NovelInit /\ WindowInit => ReadingInv
<1> SUFFICES ASSUME NovelInit, WindowInit PROVE ReadingInv
  OBVIOUS
<1>1. PICK first : first = [c \in 1..FirstChapters |-> <<c>>]
  OBVIOUS
<1>2. first \in Seq(Seq(Nat) \ {<<>>})
  <2>1. FirstChapters \in Nat
    BY NovelDeskAssumption
  <2>2. \A c \in 1..FirstChapters : <<c>> \in Seq(Nat) \ {<<>>}
    OBVIOUS
  <2>3. first \in [1..FirstChapters -> Seq(Nat) \ {<<>>}]
    BY <1>1, <2>2
  <2> QED BY <2>1, <2>3, SeqDef, Zenon
<1>3. novels \in [NovelProjects -> Seq(Chapters)]
  <2>1. first \in Chapters
    BY <1>2 DEF Chapters
  <2>2. <<first>> \in Seq(Chapters)
    BY <2>1
  <2>3. novels = [p \in NovelProjects |-> <<first>>]
    BY <1>1 DEF NovelInit
  <2> QED BY <2>2, <2>3
<1>4. PICK p \in NovelProjects : manager = NovelClosed(p)
  BY DEF NovelInit
<1>5. /\ manager \in Managers /\ manager.project = p /\ manager.works = 0 /\ manager.work = 0
      /\ manager.copy = none /\ manager.scope = none /\ manager.mode = "browse" /\ ~manager.saving
  BY <1>4, ClosedManager
<1>6. ManagerFits(manager, novels)
  <2>1. novels[p] \in Seq(Chapters) /\ Len(novels[p]) \in Nat
    BY <1>3
  <2> QED BY <1>5, <2>1 DEF ManagerFits, ChapterModes
<1>7. calls = {} /\ stored = {} /\ confirmed = {} /\ clicks \in Nat
  BY DEF NovelInit, WindowInit
<1> QED BY <1>3, <1>5, <1>6, <1>7 DEF ReadingInv, NovelShapes, CopyCovers

\* NovelAssetManager's reads: the chapters of the newest request, and those the
\* dialog shows while it is not reading, are at least as new as every revision it
\* has reported as saved.
THEOREM ReadingInvariant == NovelSpec => []ReadingInv
BY InitReading, NextReading, PTL DEF NovelSpec

\* "在确认新修订前不会引用旧正文": whatever reads were under way when a save was reported,
\* the chapters the dialog offers afterwards are at least that new.
THEOREM NoOldText == NovelSpec => []NoOldTextAfterSave
<1>1. ReadingInv => NoOldTextAfterSave
  BY DEF ReadingInv, CopyCovers, Covers, NoOldTextAfterSave, Browsing
<1> QED BY <1>1, ReadingInvariant, PTL

---------------------------------------------------------------------------
(* Drafts.                                                                 *)

\* What a step has to keep of the drafts.
DraftsKept ==
  /\ DraftsInv'
  /\ \A d \in stored \ stored' : clicks' # clicks \/ HoldsText(novels', d.key[1], d.key[2], d.text)


EditorSame(m, n) ==
  /\ m.project = n.project /\ m.mode = n.mode /\ m.saved = n.saved /\ m.scope = n.scope
  /\ m.draft = n.draft /\ m.skip = n.skip

\* A dialog that is not busy has nothing being saved.
LEMMA IdleSaves == DraftsInv /\ ~manager.saving => VisitSaves(manager, calls) = {}
BY DEF DraftsInv, OneSave

\* The saves of the visit when calls are added that save nothing.
LEMMA SavesOfVisit ==
  ASSUME NEW m, NEW n, NEW cs, NEW ds, m.session = n.session, m.project = n.project,
         \A c \in ds \ cs : c.kind \notin Saves
  PROVE  VisitSaves(n, ds) \subseteq VisitSaves(m, cs)
BY DEF VisitSaves

\* A new visit starts without saves.
LEMMA NewVisit ==
  ASSUME ReadingInv, manager'.session = manager.session + 1, \A c \in calls' \ calls : c.kind \notin Saves
  PROVE  VisitSaves(manager', calls') = {}
<1>1. manager.session \in Nat /\ \A c \in calls : c.session \in Nat /\ c.session <= manager.session
  BY ReadingShapes, CallTypes DEF NotAhead
<1>2. \A c \in calls : c.session # manager'.session
  BY <1>1
<1> QED BY <1>2 DEF VisitSaves

\* Saves that go on with the same editor.
LEMMA SavesGoOn ==
  ASSUME DraftsInv, VisitSaves(manager', calls') \subseteq VisitSaves(manager, calls),
         \A c \in VisitSaves(manager', calls') :
           manager'.saving /\ (c.kind = "save" => EditorSame(manager', manager))
  PROVE  /\ OneSave(manager', calls')
         /\ \A c \in VisitSaves(manager', calls') : SavesEditor(manager', c)
<1>1. OneSave(manager', calls')
  BY DEF DraftsInv, OneSave
<1>2. ASSUME NEW c \in VisitSaves(manager', calls') PROVE SavesEditor(manager', c)
  BY <1>2 DEF DraftsInv, SavesEditor, EditorSame
<1> QED BY <1>1, <1>2

\* The drafts of an editor that stays as it is.
LEMMA EditorStays ==
  ASSUME DraftsInv, EditorSame(manager', manager), stored' \subseteq stored
  PROVE  UniqueKeys(stored') /\ EditorStored(manager', stored')
BY DEF DraftsInv, UniqueKeys, EditorStored, EditorSame, DraftKey

\* Without an editor there is nothing to store.
LEMMA NoEditor ==
  ASSUME DraftsInv, manager'.mode \notin ChapterModes \/ manager'.saved # none, stored' \subseteq stored
  PROVE  UniqueKeys(stored') /\ EditorStored(manager', stored')
BY DEF DraftsInv, UniqueKeys, EditorStored

\* Nothing happens to the editor, to its save or to local storage.
LEMMA QuietDrafts ==
  ASSUME DraftsInv, manager'.session = manager.session, manager'.saving = manager.saving,
         EditorSame(manager', manager), stored' = stored, \A c \in calls' \ calls : c.kind \notin Saves
  PROVE  DraftsKept
<1>1. VisitSaves(manager', calls') \subseteq VisitSaves(manager, calls)
  BY DEF VisitSaves, EditorSame
<1>2. VisitSaves(manager', calls') # {} => manager'.saving
  BY <1>1 DEF DraftsInv, OneSave
<1> QED BY <1>1, <1>2, SavesGoOn, EditorStays DEF DraftsInv, DraftsKept

Keeps(m) == m.open /\ m.mode \in ChapterModes /\ DraftKey(m) \notin m.skip

\* The dialog's effect stores the editor's text, under its key.
LEMMA KeptText ==
  ASSUME NEW m, NEW ds, ds = Kept(m), UniqueKeys(stored),
         Keeps(m) \/ m.mode \notin ChapterModes \/ m.saved # none
  PROVE  UniqueKeys(ds) /\ EditorStored(m, ds)
<1>1. ASSUME Keeps(m) PROVE UniqueKeys(ds) /\ EditorStored(m, ds)
  <2>1. PICK key, text : key = DraftKey(m) /\ text = m.draft
    OBVIOUS
  <2>2. PICK new : new = [key |-> key, text |-> text]
    OBVIOUS
  <2>3. ds = (stored \ StoredAt(key)) \cup {new} /\ new.key = key /\ new.text = text
    BY <1>1, <2>1, <2>2 DEF Kept, ChapterModes, Keeps
  <2>4. \A d \in ds : d = new \/ (d \in stored /\ d.key # key)
    BY <2>3 DEF StoredAt
  <2>5. UniqueKeys(ds)
    BY <2>3, <2>4 DEF UniqueKeys
  <2>6. EditorStored(m, ds)
    BY <1>1, <2>1, <2>3, <2>4 DEF EditorStored, Keeps
  <2> QED BY <2>5, <2>6
<1>2. ASSUME ~Keeps(m) PROVE UniqueKeys(ds) /\ EditorStored(m, ds)
  <2>1. ds = stored
    BY <1>2 DEF Kept, ChapterModes, Keeps
  <2> QED BY <1>2, <2>1 DEF EditorStored
<1> QED BY <1>1, <1>2

\* The user's operations are counted.
LEMMA ClickCounts == ReadingInv /\ NovelClick => clicks' # clicks
BY ReadingShapes DEF NovelClick, Spend

\* The fields of the dialog that its editor and its saves depend on.
DialogFields == {"project", "open", "session", "saving", "mode", "scope", "draft", "saved", "skip"}
HasFields(m) == DialogFields \subseteq DOMAIN m

\* The dialog has them.
LEMMA DialogHasFields == \A m \in Managers : HasFields(m)
BY DEF Managers, HasFields, DialogFields

\* Reading a work's chapters leaves the editor alone.
LEMMA ReadChaptersEditor ==
  ASSUME NEW m, HasFields(m), NEW w, NEW r, r = ReadChapters(m, w)
  PROVE  /\ EditorSame(r, m) /\ r.session = m.session /\ r.saving = m.saving /\ r.open = m.open
         /\ HasFields(r)
<1>1. CASE w = 0
  <2>1. r = [m EXCEPT !.work = 0, !.copy = none, !.chapter = 0, !.stale = FALSE]
    BY <1>1 DEF ReadChapters
  <2> QED BY <2>1 DEF HasFields, DialogFields, EditorSame
<1>2. CASE w # 0
  <2>1. PICK request : r = [m EXCEPT !.work = w, !.request = request, !.loading = TRUE]
    BY <1>2 DEF ReadChapters
  <2> QED BY <2>1 DEF HasFields, DialogFields, EditorSame
<1> QED BY <1>1, <1>2

\* Asking for works or chapters saves nothing.
LEMMA AskingSavesNothing ==
  \A m, k : /\ Call(m, "works", 0, 0, 0).kind \notin Saves
            /\ \A c \in ReadCall(m, k) : c.kind \notin Saves
BY DEF Call, ReadCall, Saves

\* The editor of the visit before is stored again when the dialog opens.
LEMMA OpenDrafts == ReadingInv /\ DraftsInv /\ OpenManager => DraftsKept
<1> SUFFICES ASSUME ReadingInv, DraftsInv, OpenManager PROVE DraftsKept
  OBVIOUS
<1>1. PICK next, step : next = manager.listing + 1 /\ step = manager.session + 1
  OBVIOUS
<1>2. PICK m : m = [manager EXCEPT !.listing = next, !.open = TRUE, !.session = step]
  OBVIOUS
<1>3. HasFields(m) /\ EditorSame(m, manager) /\ m.session = step /\ m.open
  <2>1. HasFields(manager)
    BY ReadingShapes, DialogHasFields
  <2> QED BY <1>2, <2>1 DEF HasFields, DialogFields, EditorSame
<1>4. manager' = ReadChapters(m, manager.work)
  BY <1>1, <1>2 DEF OpenManager, ListWorks
<1>5. PICK r, w : r = manager' /\ w = manager.work /\ r = ReadChapters(m, w)
  BY <1>4
<1>6. EditorSame(r, m) /\ r.session = m.session /\ r.open = m.open
  <2>1. HasFields(m)
    BY <1>3
  <2> QED BY <1>5, <2>1, ReadChaptersEditor
<1>7. EditorSame(r, manager) /\ r.session = manager.session + 1 /\ r.open
  BY <1>1, <1>3, <1>6 DEF EditorSame
<1>8. VisitSaves(manager', calls') = {}
  <2>1. \A c \in calls' \ calls : c.kind \notin Saves
    BY AskingSavesNothing DEF OpenManager
  <2> QED BY <1>5, <1>7, <2>1, NewVisit
<1>9. UniqueKeys(stored') /\ EditorStored(manager', stored')
  <2>1. PICK ds : ds = stored' /\ ds = Kept(r)
    BY <1>5 DEF OpenManager
  <2>2. Keeps(r) \/ r.mode \notin ChapterModes \/ r.saved # none
    BY <1>7 DEF DraftsInv, EditorStored, EditorSame, Keeps, DraftKey
  <2>3. UniqueKeys(stored)
    BY DEF DraftsInv
  <2>4. UniqueKeys(ds) /\ EditorStored(r, ds)
    BY <2>1, <2>2, <2>3, KeptText
  <2> QED BY <1>5, <2>1, <2>4
<1>10. clicks' # clicks
  BY ClickCounts DEF OpenManager
<1> QED BY <1>8, <1>9, <1>10 DEF DraftsKept, DraftsInv, OneSave

\* The dialog closes, or is of another project.
LEMMA LeaveDrafts ==
  ReadingInv /\ DraftsInv /\ (CloseManager \/ \E p \in NovelProjects : SwitchNovelProject(p)) => DraftsKept
<1>1. ASSUME ReadingInv, DraftsInv, manager'.session = manager.session + 1,
             \A c \in calls' \ calls : c.kind \notin Saves, stored' = stored,
             EditorSame(manager', manager) \/ manager'.mode \notin ChapterModes
      PROVE  DraftsKept
  <2>1. VisitSaves(manager', calls') = {}
    BY <1>1, NewVisit
  <2>2. UniqueKeys(stored') /\ EditorStored(manager', stored')
    BY <1>1, EditorStays, NoEditor
  <2> QED BY <1>1, <2>1, <2>2 DEF DraftsKept, DraftsInv, OneSave
<1>2. ASSUME ReadingInv, DraftsInv, CloseManager PROVE DraftsKept
  <2>1. HasFields(manager)
    BY <1>2, ReadingShapes, DialogHasFields
  <2>2. PICK a, b, c : a = manager.session + 1 /\ b = manager.request + 1 /\ c = manager.listing + 1
    OBVIOUS
  <2>3. manager' = [manager EXCEPT !.open = FALSE, !.session = a, !.request = b, !.listing = c, !.loading = FALSE]
    BY <1>2, <2>2 DEF CloseManager
  <2>4. manager'.session = a /\ EditorSame(manager', manager)
    BY <2>1, <2>3 DEF HasFields, DialogFields, EditorSame
  <2> QED BY <1>1, <1>2, <2>2, <2>4 DEF CloseManager
<1>3. ASSUME NEW p \in NovelProjects, ReadingInv, DraftsInv, SwitchNovelProject(p) PROVE DraftsKept
  <2>1. PICK a, b, c : a = manager.session + 1 /\ b = manager.request + 1 /\ c = manager.listing + 1
    OBVIOUS
  <2>2. PICK base, o, s : base = NovelClosed(p) /\ o = manager.open /\ s = manager.skip
    OBVIOUS
  <2>3. manager' = [base EXCEPT !.open = o, !.session = a, !.request = b, !.listing = c, !.skip = s]
    BY <1>3, <2>1, <2>2 DEF SwitchNovelProject
  <2>4. HasFields(base) /\ base.mode = "browse"
    BY <2>2, ClosedManager, DialogHasFields
  <2>5. manager'.session = a /\ manager'.mode = "browse"
    BY <2>3, <2>4 DEF HasFields, DialogFields
  <2>6. \A d \in calls' \ calls : d.kind \notin Saves
    BY <1>3, AskingSavesNothing DEF SwitchNovelProject
  <2> QED BY <1>1, <1>3, <2>1, <2>5, <2>6 DEF SwitchNovelProject, ChapterModes
<1> QED BY <1>2, <1>3

\* Reading again, looking at another chapter, a publication: nothing is saved.
LEMMA BrowseDrafts ==
  ReadingInv /\ DraftsInv
  /\ (RefreshWorks \/ RetryChapters \/ (\E n \in DOMAIN manager.copy.chapters : ChooseChapter(n))
      \/ \E p \in NovelProjects : Published(p))
  => DraftsKept
<1> SUFFICES ASSUME ReadingInv, DraftsInv,
                    RefreshWorks \/ RetryChapters \/ (\E n \in DOMAIN manager.copy.chapters : ChooseChapter(n))
                    \/ \E p \in NovelProjects : Published(p)
             PROVE  DraftsKept
  OBVIOUS
<1>1. HasFields(manager)
  BY ReadingShapes, DialogHasFields
<1>2. CASE RefreshWorks
  <2>1. PICK next : manager' = [manager EXCEPT !.listing = next]
    BY <1>2 DEF RefreshWorks, ListWorks
  <2>2. manager'.session = manager.session /\ manager'.saving = manager.saving /\ EditorSame(manager', manager)
    BY <1>1, <2>1 DEF HasFields, DialogFields, EditorSame
  <2>3. \A c \in calls' \ calls : c.kind \notin Saves
    BY <1>2, AskingSavesNothing DEF RefreshWorks
  <2> QED BY <1>2, <2>2, <2>3, QuietDrafts DEF RefreshWorks
<1>3. CASE RetryChapters
  <2>1. PICK r : r = manager' /\ r = ReadChapters(manager, manager.work)
    BY <1>3 DEF RetryChapters
  <2>2. EditorSame(r, manager) /\ r.session = manager.session /\ r.saving = manager.saving
    BY <1>1, <2>1, ReadChaptersEditor
  <2>3. \A c \in calls' \ calls : c.kind \notin Saves
    BY <1>3, AskingSavesNothing DEF RetryChapters
  <2> QED BY <1>3, <2>1, <2>2, <2>3, QuietDrafts DEF RetryChapters
<1>4. ASSUME NEW n \in DOMAIN manager.copy.chapters, ChooseChapter(n) PROVE DraftsKept
  <2>1. manager' = [manager EXCEPT !.chapter = n]
    BY <1>4 DEF ChooseChapter
  <2>2. manager'.session = manager.session /\ manager'.saving = manager.saving /\ EditorSame(manager', manager)
    BY <1>1, <2>1 DEF HasFields, DialogFields, EditorSame
  <2> QED BY <1>4, <2>2, QuietDrafts DEF ChooseChapter
<1>5. ASSUME NEW p \in NovelProjects, Published(p) PROVE DraftsKept
  <2>1. UNCHANGED <<manager, calls, stored>>
    BY <1>5 DEF Published
  <2> QED BY <2>1, QuietDrafts DEF EditorSame
<1> QED BY <1>2, <1>3, <1>4, <1>5

\* The editor that opens is stored under its key, with the draft that was there.
LEMMA BegunKeeps ==
  ASSUME NEW m, HasFields(m), NEW mode \in ChapterModes, NEW k, NEW t, NEW r, r = BeginChapter(m, mode, k, t)
  PROVE  /\ r.session = m.session /\ r.project = m.project /\ r.open = m.open /\ r.saving = m.saving
         /\ r.mode = mode /\ r.saved = none /\ DraftKey(r) = <<m.project, m.work, k>>
         /\ r.draft = StoredOr(DraftKey(r), t) /\ DraftKey(r) \notin r.skip /\ HasFields(r)
         /\ m.open => Keeps(r)
<1>1. PICK key, scope, text, skip :
         /\ key = <<m.project, m.work, k>> /\ scope = [work |-> m.work, chapter |-> k]
         /\ text = StoredOr(key, t) /\ skip = m.skip \ {key}
  OBVIOUS
<1>2. r = [m EXCEPT !.mode = mode, !.scope = scope, !.saved = none, !.draft = text, !.skip = skip]
  BY <1>1 DEF BeginChapter
<1>3. /\ r.session = m.session /\ r.project = m.project /\ r.open = m.open /\ r.saving = m.saving
      /\ r.mode = mode /\ r.saved = none /\ r.scope = scope /\ r.draft = text /\ r.skip = skip
      /\ HasFields(r)
  BY <1>2 DEF HasFields, DialogFields
<1>4. DraftKey(r) = key
  BY <1>1, <1>3 DEF DraftKey
<1> QED BY <1>1, <1>3, <1>4 DEF Keeps

\* Another work is chosen while nothing is being saved or edited.
LEMMA ChooseWorkDrafts ==
  ReadingInv /\ DraftsInv /\ (\E w \in 1..manager.works : ChooseWork(w)) => DraftsKept
<1> SUFFICES ASSUME ReadingInv, DraftsInv, NEW w \in 1..manager.works, ChooseWork(w) PROVE DraftsKept
  OBVIOUS
<1>1. PICK m : m = [manager EXCEPT !.copy = none, !.chapter = 0, !.stale = FALSE, !.saved = none]
  OBVIOUS
<1>2. /\ HasFields(m) /\ m.session = manager.session /\ m.saving = manager.saving /\ m.mode = manager.mode
      /\ m.project = manager.project
  <2>1. HasFields(manager)
    BY ReadingShapes, DialogHasFields
  <2> QED BY <1>1, <2>1 DEF HasFields, DialogFields
<1>3. PICK r : r = manager' /\ r = ReadChapters(m, w)
  BY <1>1 DEF ChooseWork
<1>4. r.mode = m.mode /\ r.session = m.session /\ r.saving = m.saving /\ r.project = m.project
  BY <1>2, <1>3, ReadChaptersEditor DEF EditorSame
<1>5. ~manager.saving /\ manager.mode = "browse" /\ stored' = stored
  BY DEF ChooseWork
<1>6. VisitSaves(manager', calls') = {}
  <2>1. \A c \in calls' \ calls : c.kind \notin Saves
    BY AskingSavesNothing DEF ChooseWork
  <2>2. VisitSaves(manager', calls') \subseteq VisitSaves(manager, calls)
    BY <1>2, <1>3, <1>4, <2>1 DEF VisitSaves
  <2> QED BY <1>5, <2>2, IdleSaves
<1>7. UniqueKeys(stored') /\ EditorStored(manager', stored')
  BY <1>2, <1>3, <1>4, <1>5, NoEditor DEF ChapterModes
<1> QED BY <1>5, <1>6, <1>7 DEF DraftsKept, DraftsInv, OneSave

\* An editor that opens starts from the draft stored for its chapter, and stores it.
LEMMA BeginDrafts == ReadingInv /\ DraftsInv /\ (BeginNewChapter \/ BeginEditChapter) => DraftsKept
<1> SUFFICES ASSUME ReadingInv, DraftsInv, BeginNewChapter \/ BeginEditChapter PROVE DraftsKept
  OBVIOUS
<1>1. PICK mode, k, t : mode \in ChapterModes /\ manager' = BeginChapter(manager, mode, k, t)
  BY DEF BeginNewChapter, BeginEditChapter, ChapterModes
<1>2. /\ stored' = Kept(manager') /\ calls' = calls /\ manager.open /\ ~manager.saving /\ NovelClick
  BY DEF BeginNewChapter, BeginEditChapter, Browsing
<1>3. PICK r : r = manager' /\ r = BeginChapter(manager, mode, k, t)
  BY <1>1
<1>4. r.session = manager.session /\ r.project = manager.project /\ Keeps(r)
  <2>1. HasFields(manager)
    BY ReadingShapes, DialogHasFields
  <2> QED BY <1>1, <1>2, <1>3, <2>1, BegunKeeps
<1>5. VisitSaves(manager', calls') = {}
  <2>1. VisitSaves(manager', calls') \subseteq VisitSaves(manager, calls)
    BY <1>2, <1>3, <1>4 DEF VisitSaves
  <2> QED BY <1>2, <2>1, IdleSaves
<1>6. UniqueKeys(stored') /\ EditorStored(manager', stored')
  <2>1. PICK ds : ds = stored' /\ ds = Kept(r)
    BY <1>2, <1>3
  <2>2. UniqueKeys(stored)
    BY DEF DraftsInv
  <2>3. UniqueKeys(ds) /\ EditorStored(r, ds)
    BY <1>4, <2>1, <2>2, KeptText
  <2> QED BY <1>3, <2>1, <2>3
<1>7. clicks' # clicks
  BY <1>2, ClickCounts
<1> QED BY <1>5, <1>6, <1>7 DEF DraftsKept, DraftsInv, OneSave

\* Typing changes the stored text too; cancelling leaves it for the next visit.
LEMMA TypingDrafts == ReadingInv /\ DraftsInv /\ (TypeChapter \/ CancelChapter) => DraftsKept
<1> SUFFICES ASSUME ReadingInv, DraftsInv, TypeChapter \/ CancelChapter PROVE DraftsKept
  OBVIOUS
<1>1. HasFields(manager)
  BY ReadingShapes, DialogHasFields
<1>2. calls' = calls /\ ~manager.saving /\ clicks' # clicks
  BY ClickCounts DEF TypeChapter, CancelChapter, Editing
<1>3. CASE TypeChapter
  <2>1. PICK text : manager' = [manager EXCEPT !.draft = text]
    BY <1>3 DEF TypeChapter
  <2>2. PICK r : r = manager'
    OBVIOUS
  <2>3. /\ r.session = manager.session /\ r.project = manager.project /\ r.mode = manager.mode
        /\ r.scope = manager.scope /\ r.saved = manager.saved /\ r.skip = manager.skip
        /\ r.open = manager.open
    BY <1>1, <2>1, <2>2 DEF HasFields, DialogFields
  <2>4. Keeps(r)
    BY <1>3, <2>3 DEF TypeChapter, Editing, Keeps, DraftKey, DraftsInv, EditorStored, ChapterModes
  <2>5. PICK ds : ds = stored' /\ ds = Kept(r)
    BY <1>3, <2>2 DEF TypeChapter
  <2>6. UniqueKeys(stored)
    BY DEF DraftsInv
  <2>7. UniqueKeys(ds) /\ EditorStored(r, ds)
    BY <2>4, <2>5, <2>6, KeptText
  <2>8. VisitSaves(manager', calls') = {}
    <3>1. VisitSaves(manager', calls') \subseteq VisitSaves(manager, calls)
      BY <1>2, <2>2, <2>3 DEF VisitSaves
    <3> QED BY <1>2, <3>1, IdleSaves
  <2> QED BY <1>2, <2>2, <2>5, <2>7, <2>8 DEF DraftsKept, DraftsInv, OneSave
<1>4. CASE CancelChapter
  <2>1. manager' = [manager EXCEPT !.mode = "browse", !.scope = none, !.saved = none] /\ stored' = stored
    BY <1>4 DEF CancelChapter
  <2>2. manager'.session = manager.session /\ manager'.project = manager.project /\ manager'.mode = "browse"
    BY <1>1, <2>1 DEF HasFields, DialogFields
  <2>3. VisitSaves(manager', calls') = {}
    <3>1. VisitSaves(manager', calls') \subseteq VisitSaves(manager, calls)
      BY <1>2, <2>2 DEF VisitSaves
    <3> QED BY <1>2, <3>1, IdleSaves
  <2>4. UniqueKeys(stored') /\ EditorStored(manager', stored')
    BY <2>1, <2>2, NoEditor DEF ChapterModes
  <2> QED BY <1>2, <2>3, <2>4 DEF DraftsKept, DraftsInv, OneSave
<1> QED BY <1>3, <1>4

\* A save is of the text in the editor, and there is no other.
LEMMA SaveDrafts == ReadingInv /\ DraftsInv /\ (CreateWork \/ PressSaveChapter) => DraftsKept
<1> SUFFICES ASSUME ReadingInv, DraftsInv, CreateWork \/ PressSaveChapter PROVE DraftsKept
  OBVIOUS
<1>1. HasFields(manager)
  BY ReadingShapes, DialogHasFields
<1>2. ~manager.saving /\ stored' = stored
  BY DEF CreateWork, PressSaveChapter, Editing
<1>3. VisitSaves(manager, calls) = {}
  BY <1>2, IdleSaves
<1>4. ASSUME NEW c, calls' = calls \cup {c}, manager'.saving,
             manager'.session = manager.session, manager'.project = manager.project, SavesEditor(manager', c)
      PROVE  OneSave(manager', calls') /\ \A d \in VisitSaves(manager', calls') : SavesEditor(manager', d)
  <2>1. VisitSaves(manager', calls') \subseteq {c}
    BY <1>3, <1>4 DEF VisitSaves
  <2> QED BY <1>4, <2>1 DEF OneSave
<1>5. CASE CreateWork
  <2>1. manager' = [manager EXCEPT !.mode = "new_work", !.saving = TRUE]
    BY <1>5 DEF CreateWork
  <2>2. /\ manager'.mode = "new_work" /\ manager'.saving /\ manager'.session = manager.session
        /\ manager'.project = manager.project
    BY <1>1, <2>1 DEF HasFields, DialogFields
  <2>3. PICK c : c = Call(manager, "create", 0, 0, 0)
    OBVIOUS
  <2>4. calls' = calls \cup {c} /\ SavesEditor(manager', c)
    BY <1>5, <2>3 DEF CreateWork, Call, SavesEditor
  <2>5. UniqueKeys(stored') /\ EditorStored(manager', stored')
    BY <1>2, <2>2, NoEditor DEF ChapterModes
  <2> QED BY <1>2, <1>4, <2>2, <2>4, <2>5 DEF DraftsKept, DraftsInv
<1>6. CASE PressSaveChapter
  <2>1. manager' = [manager EXCEPT !.saving = TRUE]
    BY <1>6 DEF PressSaveChapter
  <2>2. EditorSame(manager', manager) /\ manager'.saving /\ manager'.session = manager.session
    BY <1>1, <2>1 DEF HasFields, DialogFields, EditorSame
  <2>3. PICK c : c = Call(manager, "save", manager.scope.work, manager.scope.chapter, manager.draft)
    OBVIOUS
  <2>4. calls' = calls \cup {c}
    BY <1>6, <2>3 DEF PressSaveChapter
  <2>5. SavesEditor(manager', c)
    BY <1>6, <2>2, <2>3 DEF PressSaveChapter, Editing, Call, SavesEditor, EditorSame, ChapterModes
  <2>6. UniqueKeys(stored') /\ EditorStored(manager', stored')
    BY <1>2, <2>2, EditorStays
  <2> QED BY <1>2, <1>4, <2>2, <2>4, <2>5, <2>6 DEF DraftsKept, DraftsInv, EditorSame
<1> QED BY <1>5, <1>6

\* The backend has been at a call: the visit's save is the same one.
LEMMA HandledDrafts ==
  ASSUME DraftsInv, NEW c \in calls, NEW d, calls' = (calls \ {c}) \cup {d}, UNCHANGED <<manager, stored>>,
         d.kind = c.kind, d.session = c.session, d.project = c.project,
         c.kind = "save" => d.work = c.work /\ d.chapter = c.chapter /\ d.text = c.text
  PROVE  DraftsKept
<1>1. CASE c \in VisitSaves(manager, calls)
  <2>1. VisitSaves(manager, calls) = {c} /\ manager.saving /\ SavesEditor(manager, c)
    BY <1>1 DEF DraftsInv, OneSave
  <2>2. VisitSaves(manager', calls') = {d}
    BY <1>1, <2>1 DEF VisitSaves
  <2>3. SavesEditor(manager', d)
    BY <2>1 DEF SavesEditor
  <2> QED BY <2>1, <2>2, <2>3 DEF DraftsKept, DraftsInv, OneSave
<1>2. CASE c \notin VisitSaves(manager, calls)
  <2>1. VisitSaves(manager', calls') \subseteq VisitSaves(manager, calls)
    BY <1>2 DEF VisitSaves
  <2>2. \A e \in VisitSaves(manager', calls') :
          manager'.saving /\ (e.kind = "save" => EditorSame(manager', manager))
    BY <2>1 DEF DraftsInv, OneSave, EditorSame
  <2> QED BY <2>1, <2>2, SavesGoOn DEF DraftsKept, DraftsInv
<1> QED BY <1>1, <1>2

\* The backend reads or writes.
LEMMA BackendDrafts ==
  \A c \in calls : ReadingInv /\ DraftsInv /\ (BackendReads(c) \/ BackendWrites(c)) => DraftsKept
<1> SUFFICES ASSUME NEW c \in calls, ReadingInv, DraftsInv, BackendReads(c) \/ BackendWrites(c)
             PROVE  DraftsKept
  OBVIOUS
<1>1. c \in NovelCalls
  BY CallTypes
<1>2. CASE BackendReads(c)
  <2>1. PICK copy, heads, awaited, w :
          calls' = (calls \ {c}) \cup {[c EXCEPT !.phase = "read", !.copy = copy, !.heads = heads,
                                                 !.awaited = awaited, !.work = w]}
    BY <1>2 DEF BackendReads, Advance
  <2>2. PICK d : d = [c EXCEPT !.phase = "read", !.copy = copy, !.heads = heads, !.awaited = awaited, !.work = w]
    OBVIOUS
  <2>3. d.kind = c.kind /\ d.session = c.session /\ d.project = c.project
    BY <1>1, <2>2 DEF NovelCalls
  <2>4. c.kind # "save" /\ UNCHANGED <<manager, stored>> /\ calls' = (calls \ {c}) \cup {d}
    BY <1>2, <2>1, <2>2 DEF BackendReads, Reads
  <2> QED BY <2>3, <2>4, HandledDrafts
<1>3. CASE BackendWrites(c)
  <2>1. PICK heads, awaited, w :
          /\ calls' = (calls \ {c}) \cup {Wrote(c, heads, awaited, w)}
          /\ c.kind = "save" => w = c.work
    BY <1>3 DEF BackendWrites, Advance, Wrote
  <2>2. PICK d : d = Wrote(c, heads, awaited, w)
    OBVIOUS
  <2>3. /\ d.kind = c.kind /\ d.session = c.session /\ d.project = c.project /\ d.work = w
        /\ d.chapter = c.chapter /\ d.text = c.text
    BY <1>1, <2>2 DEF NovelCalls, Wrote
  <2>4. UNCHANGED <<manager, stored>> /\ calls' = (calls \ {c}) \cup {d}
    BY <1>3, <2>1, <2>2 DEF BackendWrites
  <2> QED BY <2>1, <2>3, <2>4, HandledDrafts
<1> QED BY <1>2, <1>3

\* The list of works does not touch the editor.
LEMMA WorksAnswerDrafts == \A c \in calls : ReadingInv /\ DraftsInv /\ WorksAnswer(c) => DraftsKept
<1> SUFFICES ASSUME NEW c \in calls, ReadingInv, DraftsInv, WorksAnswer(c) PROVE DraftsKept
  OBVIOUS
<1>1. HasFields(manager)
  BY ReadingShapes, DialogHasFields
<1>2. PICK m : m = [manager EXCEPT !.works = c.work]
  OBVIOUS
<1>3. HasFields(m) /\ EditorSame(m, manager) /\ m.session = manager.session /\ m.saving = manager.saving
  BY <1>1, <1>2 DEF HasFields, DialogFields, EditorSame
<1>4. PICK kept : manager' = manager \/ manager' = m \/ manager' = ReadChapters(m, kept)
  BY <1>2 DEF WorksAnswer
<1>5. /\ EditorSame(manager', manager) /\ manager'.session = manager.session
      /\ manager'.saving = manager.saving
  <2>1. CASE manager' = ReadChapters(m, kept)
    <3>1. PICK r : r = manager' /\ r = ReadChapters(m, kept)
      BY <2>1
    <3>2. HasFields(m)
      BY <1>3
    <3>3. EditorSame(r, m) /\ r.session = m.session /\ r.saving = m.saving
      BY <3>1, <3>2, ReadChaptersEditor
    <3> QED BY <1>3, <3>1, <3>3 DEF EditorSame
  <2> QED BY <1>3, <1>4, <2>1 DEF EditorSame
<1>6. stored' = stored /\ \A d \in calls' \ calls : d.kind \notin Saves
  BY AskingSavesNothing DEF WorksAnswer
<1> QED BY <1>5, <1>6, QuietDrafts

\* A call of the visit that is over leaves only others behind.
LEMMA CallOver ==
  ASSUME DraftsInv, NEW c \in calls, \A d \in calls' \ calls : d.kind \notin Saves, c \notin calls',
         manager'.session = manager.session, manager'.project = manager.project
  PROVE  /\ VisitSaves(manager', calls') \subseteq VisitSaves(manager, calls) \ {c}
         /\ VisitSaves(manager', calls') # {} => manager.saving /\ ~(c.kind \in Saves /\ SameVisit(c))
<1>1. VisitSaves(manager', calls') \subseteq VisitSaves(manager, calls) \ {c}
  BY DEF VisitSaves
<1>2. ASSUME NEW d \in VisitSaves(manager', calls')
      PROVE  manager.saving /\ ~(c.kind \in Saves /\ SameVisit(c))
  <2>1. d \in VisitSaves(manager, calls) /\ d # c
    BY <1>1, <1>2
  <2>2. VisitSaves(manager, calls) = {d} /\ manager.saving
    BY <2>1 DEF DraftsInv, OneSave
  <2> QED BY <2>1, <2>2 DEF VisitSaves, SameVisit
<1> QED BY <1>1, <1>2

\* Chapters that are shown end the editing only when they confirm what was saved.
LEMMA ChaptersAnswerDrafts == \A c \in calls : ReadingInv /\ DraftsInv /\ ChaptersAnswer(c) => DraftsKept
<1> SUFFICES ASSUME NEW c \in calls, ReadingInv, DraftsInv, ChaptersAnswer(c) PROVE DraftsKept
  OBVIOUS
<1>1. HasFields(manager)
  BY ReadingShapes, DialogHasFields
<1>2. calls' = calls \ {c} /\ stored' = stored
  BY DEF ChaptersAnswer
<1>3. PICK saving, copy, chosen :
        /\ saving = Saving(c)
        /\ \/ manager' = [manager EXCEPT !.saving = saving]
           \/ manager' = [manager EXCEPT !.copy = copy, !.stale = FALSE, !.loading = FALSE, !.saving = saving,
                                         !.chapter = chosen]
           \/ /\ manager.saved # none
              /\ manager' = [manager EXCEPT !.copy = copy, !.stale = FALSE, !.loading = FALSE, !.saving = saving,
                                            !.chapter = chosen, !.mode = "browse", !.saved = none,
                                            !.scope = none]
  BY DEF ChaptersAnswer
<1>4. /\ manager'.session = manager.session /\ manager'.project = manager.project
      /\ manager'.saving = saving
      /\ EditorSame(manager', manager) \/ (manager.saved # none /\ manager'.mode = "browse")
  BY <1>1, <1>3 DEF HasFields, DialogFields, EditorSame
<1>5. /\ VisitSaves(manager', calls') \subseteq VisitSaves(manager, calls) \ {c}
      /\ VisitSaves(manager', calls') # {} => manager.saving /\ ~(c.kind \in Saves /\ SameVisit(c))
  BY <1>2, <1>4, CallOver
<1>6. \A d \in VisitSaves(manager', calls') :
        manager'.saving /\ (d.kind = "save" => EditorSame(manager', manager))
  <2>1. ASSUME NEW d \in VisitSaves(manager', calls') PROVE manager'.saving
    <3>1. manager.saving /\ ~(c.kind \in Saves /\ SameVisit(c))
      BY <1>5, <2>1
    <3> QED BY <1>3, <1>4, <3>1 DEF Saving, Saves
  <2>2. ASSUME NEW d \in VisitSaves(manager', calls'), d.kind = "save" PROVE EditorSame(manager', manager)
    BY <1>4, <1>5, <2>2 DEF DraftsInv, SavesEditor
  <2> QED BY <2>1, <2>2
<1>7. UniqueKeys(stored') /\ EditorStored(manager', stored')
  BY <1>2, <1>4, EditorStays, NoEditor DEF ChapterModes
<1> QED BY <1>2, <1>5, <1>6, <1>7, SavesGoOn DEF DraftsKept, DraftsInv

\* A call that failed leaves the editor and its draft as they are.
LEMMA CallFailsDrafts == \A c \in calls : ReadingInv /\ DraftsInv /\ NovelCallFails(c) => DraftsKept
<1> SUFFICES ASSUME NEW c \in calls, ReadingInv, DraftsInv, NovelCallFails(c) PROVE DraftsKept
  OBVIOUS
<1>1. HasFields(manager)
  BY ReadingShapes, DialogHasFields
<1>2. calls' = calls \ {c} /\ stored' = stored
  BY DEF NovelCallFails
<1>3. PICK saving :
        /\ saving = Saving(c)
        /\ \/ manager' = [manager EXCEPT !.copy = none, !.chapter = 0, !.stale = TRUE, !.loading = FALSE,
                                         !.saving = saving]
           \/ c.kind \in Saves /\ SameVisit(c) /\ manager' = [manager EXCEPT !.saving = FALSE]
           \/ manager' = manager
  BY DEF NovelCallFails, Saves
<1>4. /\ manager'.session = manager.session /\ EditorSame(manager', manager)
      /\ \/ manager'.saving = saving
         \/ c.kind \in Saves /\ SameVisit(c)
         \/ manager'.saving = manager.saving
  BY <1>1, <1>3 DEF HasFields, DialogFields, EditorSame
<1>5. /\ VisitSaves(manager', calls') \subseteq VisitSaves(manager, calls) \ {c}
      /\ VisitSaves(manager', calls') # {} => manager.saving /\ ~(c.kind \in Saves /\ SameVisit(c))
  BY <1>2, <1>4, CallOver DEF EditorSame
<1>6. ASSUME NEW d \in VisitSaves(manager', calls') PROVE manager'.saving
  <2>1. manager.saving /\ ~(c.kind \in Saves /\ SameVisit(c))
    BY <1>5, <1>6
  <2> QED BY <1>3, <1>4, <2>1 DEF Saving, Saves
<1>7. UniqueKeys(stored') /\ EditorStored(manager', stored')
  BY <1>2, <1>4, EditorStays
<1> QED BY <1>2, <1>4, <1>5, <1>6, <1>7, SavesGoOn DEF DraftsKept, DraftsInv

\* Storing the draft that was there stores nothing new over it.
LEMMA KeptAgain ==
  ASSUME NEW r, NEW t, NEW ds, ds = Kept(r), Keeps(r), r.draft = StoredOr(DraftKey(r), t),
         UniqueKeys(stored), stored \subseteq Drafts
  PROVE  stored \subseteq ds
<1>1. PICK key, text, new : key = DraftKey(r) /\ text = r.draft /\ new = [key |-> key, text |-> text]
  OBVIOUS
<1>2. ds = (stored \ StoredAt(key)) \cup {new}
  BY <1>1 DEF Kept, ChapterModes, Keeps
<1>3. ASSUME NEW d \in StoredAt(key) PROVE d = new
  <2>1. StoredAt(key) = {d} /\ d.key = key /\ d \in Drafts
    BY <1>3 DEF StoredAt, UniqueKeys
  <2>2. text = d.text
    BY <1>1, <2>1 DEF StoredOr
  <2> QED BY <1>1, <2>1, <2>2 DEF Drafts
<1> QED BY <1>2, <1>3

\* The first chapter of a new work is begun, with the draft that was there.
LEMMA CreatedDrafts == \A c \in calls : ReadingInv /\ DraftsInv /\ WorkCreated(c) => DraftsKept
<1> SUFFICES ASSUME NEW c \in calls, ReadingInv, DraftsInv, WorkCreated(c) PROVE DraftsKept
  OBVIOUS
<1>1. CASE ~SameVisit(c)
  <2>1. calls' = calls \ {c} /\ UNCHANGED <<manager, stored>>
    BY <1>1 DEF WorkCreated
  <2> QED BY <2>1, QuietDrafts DEF EditorSame
<1>2. CASE SameVisit(c)
  <2>1. PICK w, no, copy : w = c.work /\ no = FALSE /\ copy = [work |-> w, chapters |-> <<>>]
    OBVIOUS
  <2>2. PICK m : m = [manager EXCEPT !.works = w, !.work = w, !.copy = copy, !.chapter = 0, !.stale = no,
                                     !.saving = no]
    OBVIOUS
  <2>3. HasFields(m) /\ m.session = manager.session /\ m.project = manager.project /\ m.open = manager.open
    <3>1. HasFields(manager)
      BY ReadingShapes, DialogHasFields
    <3> QED BY <2>2, <3>1 DEF HasFields, DialogFields
  <2>4. PICK b, mode, zero : b = BeginChapter(m, mode, zero, zero) /\ mode = "new_chapter" /\ zero = 0
    OBVIOUS
  <2>5. manager.saving /\ manager.open
    <3>1. c \in VisitSaves(manager, calls)
      BY <1>2 DEF WorkCreated, VisitSaves, SameVisit, Saves
    <3> QED BY <3>1, ReadingShapes DEF DraftsInv, OneSave, ManagerFits
  <2>6. /\ b.session = m.session /\ b.project = m.project /\ HasFields(b) /\ Keeps(b)
        /\ b.draft = StoredOr(DraftKey(b), zero)
    <3>1. HasFields(m) /\ mode \in ChapterModes
      BY <2>3, <2>4 DEF ChapterModes
    <3>2. b = BeginChapter(m, mode, zero, zero)
      BY <2>4
    <3>3. /\ b.session = m.session /\ b.project = m.project /\ HasFields(b) /\ (m.open => Keeps(b))
          /\ b.draft = StoredOr(DraftKey(b), zero)
      BY <3>1, <3>2, BegunKeeps
    <3> QED BY <2>3, <2>5, <3>3
  <2>7. PICK r : r = ReadChapters(b, w)
    OBVIOUS
  <2>8. EditorSame(r, b) /\ r.session = b.session /\ r.open = b.open
    <3>1. HasFields(b)
      BY <2>6
    <3> QED BY <2>7, <3>1, ReadChaptersEditor
  <2>9. Keeps(r) /\ r.draft = StoredOr(DraftKey(r), zero)
    BY <2>6, <2>8 DEF Keeps, EditorSame, DraftKey
  <2>10. manager' = r /\ calls' = (calls \ {c}) \cup ReadCall(r, 0) /\ stored' = Kept(r)
    BY <1>2, <2>1, <2>2, <2>4, <2>7 DEF WorkCreated
  <2>11. PICK ds : ds = stored' /\ ds = Kept(r)
    BY <2>10
  <2>12. UniqueKeys(stored) /\ stored \subseteq Drafts
    BY ReadingShapes DEF DraftsInv
  <2>13. UniqueKeys(ds) /\ EditorStored(r, ds)
    BY <2>9, <2>11, <2>12, KeptText
  <2>14. stored \subseteq ds
    BY <2>9, <2>11, <2>12, KeptAgain
  <2>15. VisitSaves(manager', calls') = {}
    <3>1. \A d \in calls' \ calls : d.kind \notin Saves
      BY <2>10, AskingSavesNothing
    <3>2. c.kind \in Saves /\ c \notin calls'
      BY <2>10, AskingSavesNothing DEF WorkCreated, Saves
    <3>3. manager'.session = manager.session /\ manager'.project = manager.project
      BY <2>3, <2>6, <2>8, <2>10 DEF EditorSame
    <3> QED BY <1>2, <3>1, <3>2, <3>3, CallOver
  <2> QED BY <2>10, <2>11, <2>13, <2>14, <2>15 DEF DraftsKept, DraftsInv, OneSave
<1> QED BY <1>1, <1>2

\* A draft is dropped once its text is a revision.
LEMMA SavedDrafts == \A c \in calls : ReadingInv /\ DraftsInv /\ ChapterSaved(c) => DraftsKept
<1> SUFFICES ASSUME NEW c \in calls, ReadingInv, DraftsInv, ChapterSaved(c) PROVE DraftsKept
  OBVIOUS
<1>1. c.kind = "save" /\ c.phase = "written" /\ novels' = novels
  BY DEF ChapterSaved, backendVars
<1>2. CASE ~SameVisit(c)
  <2>1. calls' = calls \ {c} /\ UNCHANGED <<manager, stored>>
    BY <1>2 DEF ChapterSaved
  <2> QED BY <2>1, QuietDrafts DEF EditorSame
<1>3. CASE SameVisit(c)
  <2>1. PICK key, revision, w :
          key = <<c.project, c.work, c.chapter>> /\ revision = (CHOOSE r \in c.heads : TRUE) /\ w = c.work
    OBVIOUS
  <2>2. /\ revision # none /\ HoldsText(novels, c.project, c.work, c.text)
    <3>1. c.heads # {} /\ c.heads \subseteq Revisions /\ HoldsText(novels, c.project, c.work, c.text)
      BY <1>1, CallTypes DEF CallFits
    <3>2. revision \in Revisions
      BY <2>1, <3>1
    <3> QED BY <3>1, <3>2, NovelDeskAssumption DEF Revisions
  <2>3. VisitSaves(manager, calls) = {c} /\ manager.saving /\ SavesEditor(manager, c)
    <3>1. c \in VisitSaves(manager, calls)
      BY <1>1, <1>3 DEF VisitSaves, SameVisit, Saves
    <3> QED BY <3>1 DEF DraftsInv, OneSave
  <2>4. key = DraftKey(manager) /\ manager.draft = c.text /\ \A d \in StoredAt(key) : d.text = c.text
    <3>1. key = DraftKey(manager) /\ manager.draft = c.text
      BY <1>1, <1>3, <2>1, <2>3 DEF SavesEditor, DraftKey, SameVisit
    <3> QED BY <1>1, <2>3, <3>1 DEF SavesEditor, DraftsInv, EditorStored, StoredAt
  <2>5. PICK skip : skip = manager.skip \cup {key}
    OBVIOUS
  <2>6. PICK m : m = [manager EXCEPT !.skip = skip, !.saved = revision]
    OBVIOUS
  <2>7. /\ HasFields(m) /\ m.session = manager.session /\ m.project = manager.project
        /\ m.saving = manager.saving /\ m.saved = revision
    <3>1. HasFields(manager)
      BY ReadingShapes, DialogHasFields
    <3> QED BY <2>6, <3>1 DEF HasFields, DialogFields
  <2>8. PICK r : r = ReadChapters(m, w)
    OBVIOUS
  <2>9. EditorSame(r, m) /\ r.session = m.session /\ r.saving = m.saving
    <3>1. HasFields(m)
      BY <2>7
    <3> QED BY <2>8, <3>1, ReadChaptersEditor
  <2>10. PICK d : d = Call(r, "reread", w, revision.chapter, 0)
    OBVIOUS
  <2>11. manager' = r /\ calls' = (calls \ {c}) \cup {d} /\ stored' = stored \ StoredAt(key)
    BY <1>3, <2>1, <2>5, <2>6, <2>8, <2>10 DEF ChapterSaved
  <2>12. r.session = manager.session /\ r.project = manager.project /\ r.saving /\ r.saved # none
    BY <2>2, <2>3, <2>7, <2>9 DEF EditorSame
  <2>13. VisitSaves(manager', calls') \subseteq {d}
    BY <2>3, <2>11, <2>12 DEF VisitSaves
  <2>14. SavesEditor(manager', d)
    BY <2>10 DEF Call, SavesEditor
  <2>15. UniqueKeys(stored') /\ EditorStored(manager', stored')
    BY <2>11, <2>12, NoEditor
  <2>16. ASSUME NEW e \in stored \ stored' PROVE HoldsText(novels', e.key[1], e.key[2], e.text)
    <3>1. e \in StoredAt(key) /\ e.key = key
      BY <2>11, <2>16 DEF StoredAt
    <3>2. e.text = c.text /\ e.key[1] = c.project /\ e.key[2] = c.work
      BY <2>1, <2>4, <3>1
    <3> QED BY <1>1, <2>2, <3>2
  <2> QED BY <2>11, <2>12, <2>13, <2>14, <2>15, <2>16 DEF DraftsKept, DraftsInv, OneSave
<1> QED BY <1>2, <1>3

\* Every step keeps the drafts.
LEMMA NextDrafts == ReadingInv /\ DraftsInv /\ [NovelNext]_novelVars => DraftsKept
<1> SUFFICES ASSUME ReadingInv, DraftsInv, [NovelNext]_novelVars PROVE DraftsKept
  OBVIOUS
<1>1. CASE OpenManager \/ CloseManager \/ RefreshWorks \/ RetryChapters
  BY <1>1, OpenDrafts, LeaveDrafts, BrowseDrafts
<1>2. CASE \E n \in (IF manager.copy = none THEN {} ELSE DOMAIN manager.copy.chapters) : ChooseChapter(n)
  <2>1. \E n \in DOMAIN manager.copy.chapters : ChooseChapter(n)
    BY <1>2
  <2> QED BY <2>1, BrowseDrafts
<1>3. CASE \E p \in NovelProjects : SwitchNovelProject(p) \/ Published(p)
  BY <1>3, LeaveDrafts, BrowseDrafts
<1>4. CASE \E w \in 1..manager.works : ChooseWork(w)
  BY <1>4, ChooseWorkDrafts
<1>5. CASE BeginNewChapter \/ BeginEditChapter \/ TypeChapter \/ CancelChapter \/ CreateWork \/ PressSaveChapter
  BY <1>5, BeginDrafts, TypingDrafts, SaveDrafts
<1>6. ASSUME NEW c \in calls,
             BackendReads(c) \/ WorksAnswer(c) \/ ChaptersAnswer(c) \/ NovelCallFails(c) \/ BackendWrites(c)
             \/ WorkCreated(c) \/ ChapterSaved(c)
      PROVE  DraftsKept
  BY <1>6, BackendDrafts, WorksAnswerDrafts, ChaptersAnswerDrafts, CallFailsDrafts, CreatedDrafts, SavedDrafts
<1>7. CASE UNCHANGED novelVars
  <2>1. UNCHANGED <<manager, calls, stored>>
    BY <1>7 DEF novelVars
  <2> QED BY <2>1, QuietDrafts DEF EditorSame
<1> QED BY <1>1, <1>2, <1>3, <1>4, <1>5, <1>6, <1>7 DEF NovelNext

\* No draft, no editor and no call at first.
LEMMA InitDrafts == NovelInit => DraftsInv
<1> SUFFICES ASSUME NovelInit PROVE DraftsInv
  OBVIOUS
<1>1. manager.mode = "browse"
  BY ClosedManager DEF NovelInit
<1>2. calls = {} /\ stored = {}
  BY DEF NovelInit
<1> QED BY <1>1, <1>2 DEF DraftsInv, UniqueKeys, OneSave, VisitSaves, EditorStored, ChapterModes

\* NovelAssetManager's drafts: there is one per chapter, a visit saves one thing at
\* a time, and what is saved is the text that is in the editor and in storage.
THEOREM DraftsInvariant == NovelSpec => []DraftsInv
<1>1. ReadingInv /\ DraftsInv /\ [NovelNext]_novelVars => DraftsInv'
  BY NextDrafts DEF DraftsKept
<1> QED BY <1>1, InitDrafts, ReadingInvariant, PTL DEF NovelSpec

\* Local storage loses a draft only to the user's own operations, or once its text
\* is a revision of its work: no answer, late, failed or of another chapter, does.
THEOREM DraftsStay == NovelSpec => NovelDraftStays
<1>1. ReadingInv /\ DraftsInv /\ [NovelNext]_novelVars =>
        [\A d \in stored \ stored' :
           \/ clicks' # clicks
           \/ \E c \in DOMAIN novels'[d.key[1]][d.key[2]] :
                \E r \in DOMAIN novels'[d.key[1]][d.key[2]][c] :
                  novels'[d.key[1]][d.key[2]][c][r] = d.text]_novelVars
  BY NextDrafts DEF DraftsKept, HoldsText
<1> QED BY <1>1, DraftsInvariant, ReadingInvariant, PTL DEF NovelSpec, NovelDraftStays

\* The dialog is of a project and a work that are there, an editor has a chapter it
\* is for, and no chapter has two drafts.
THEOREM NovelsAreTyped == NovelSpec => []NovelTypeOK
<1>1. ReadingInv /\ DraftsInv => NovelTypeOK
  <2> SUFFICES ASSUME ReadingInv, DraftsInv PROVE NovelTypeOK
    OBVIOUS
  <2>1. manager.mode \in DialogModes /\ manager.project \in NovelProjects
    BY ReadingShapes DEF Managers
  <2>2. manager.work \in 0..Len(novels[manager.project])
    BY ReadingShapes DEF ManagerFits
  <2> QED BY <2>1, <2>2, ReadingShapes
          DEF NovelTypeOK, DialogModes, ChapterModes, ManagerFits, DraftsInv, UniqueKeys
<1> QED BY <1>1, DraftsInvariant, ReadingInvariant, PTL
=============================================================================
