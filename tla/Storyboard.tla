----------------------------- MODULE Storyboard -----------------------------
(***************************************************************************)
(* The Markdown workspace of a drama (components/video/                    *)
(* VideoMarkdownWorkspace.tsx, lib/documents.ts, lib/video): every chapter *)
(* goes through the stages source, plan, script, anchors, storyboard and   *)
(* quality check, each a document whose versions name the versions they    *)
(* were made from.  Drafts, reviews and AI results live beside them, and a *)
(* gate decides whether the storyboard may go to the video form.           *)
(*                                                                         *)
(* The drafts and the chosen versions outlive the page, which is unmounted *)
(* when the user opens another tab; the lock of its editors does not.      *)
(* Texts are numbers.  The wording a text must have (fields of a document, *)
(* verdict of a quality check) is part of whether it is accepted.  The     *)
(* project's model and format do not change here, and the library gets no  *)
(* newer revision of a chapter: anchors are always of the latest one.      *)
(***************************************************************************)
EXTENDS Window

CONSTANTS
  ChapterCount,    \* chapters of the novel, each a workspace
  StageCount,      \* the stages, in the order they depend on each other
  AnchorStage,     \* the stage that a later chapter inherits
  WorkCount,       \* operations that may be on their way at once
  MaxStoryClicks   \* bound on the user's operations

ASSUME StoryboardAssumption ==
  /\ ChapterCount \in Nat \ {0}
  /\ StageCount \in Nat
  /\ AnchorStage \in 2..(StageCount - 2)
  /\ WorkCount \in Nat \ {0}
  /\ MaxStoryClicks \in Nat

VARIABLES
  papers,  \* the saved versions, in the order of their saving
  sheets,  \* the drafts, by editor key
  desk,    \* what the page shows: chapter, stage, versions chosen
  works,   \* the operations on their way
  texts,   \* the number of texts written so far
  vetted   \* the texts an independent review passed

storyVars == <<papers, sheets, desk, works, texts, vetted, clicks, faults>>

Chapters == 1..ChapterCount
Stages == 1..StageCount
Source == 1
Board == StageCount - 1
Check == StageCount
Nearest == 3  \* how many earlier chapters a chapter inherits from
Works == 1..WorkCount
Versions == DOMAIN papers

NoReview == [of |-> 0, passed |-> FALSE]

---------------------------------------------------------------------------
(* The chain of documents.                                                 *)

LatestOf(S) == IF S = {} THEN 0 ELSE Max(S)

OfStage(c, s) == {v \in Versions : papers[v].home = c /\ papers[v].stage = s /\ ~papers[v].branch}

\* stageAsset: the version in production, 0 if the stage has none.
Current(c, s) == LatestOf(OfStage(c, s))

\* The head by which the backend judges a save: it knows documents, not stages.
DocumentHead(d) == LatestOf({v \in Versions : papers[v].document = d /\ ~papers[v].branch})

Upstream(s) == 1..(s - 1)
Passed(v) == papers[v].review.passed /\ papers[v].review.of = papers[v].text

\* anchorSnapshotIsCurrent: the anchors passed their review and name the current
\* documents, themselves passed.
Confirmed(c, v) ==
  /\ Passed(v)
  /\ \A s \in Upstream(AnchorStage) :
       LET head == Current(c, s)
       IN head # 0 /\ head \in papers[v].parents /\ (s = Source \/ Passed(head))

\* previousChapterAnchorAssets: the newest such anchors of the nearest earlier
\* chapters that have any.
Anchor(c) == LatestOf({v \in OfStage(c, AnchorStage) : Confirmed(c, v)})
Anchored(chapters) == {e \in chapters : Anchor(e) # 0}
Inherited(c) ==
  {Anchor(e) : e \in {e \in Anchored(1..(c - 1)) :
                       Cardinality(Anchored(e + 1 .. c - 1)) < Nearest}}

Dependencies(c, s) ==
  ({Current(c, u) : u \in Upstream(s)} \ {0}) \cup (IF s = AnchorStage THEN Inherited(c) ELSE {})

\* Mutant of StaleStages: what is behind a document above is not passed on.
StaleStagesDirect(c) ==
  {s \in Stages \ {Source} :
     /\ Current(c, s) # 0
     /\ \/ \E u \in Upstream(s) : Current(c, u) = 0
        \/ ~(Dependencies(c, s) \subseteq papers[Current(c, s)].parents)}

\* A document is stale when a document above it is missing or stale, or is not
\* one of those it was made from.
StaleStages(c) ==
  LET current == [s \in Stages |-> Current(c, s)]
      behind  == {s \in Stages \ {Source} : current[s] # 0 /\
                    ~(Dependencies(c, s) \subseteq papers[current[s]].parents)}
      stale[s \in Stages] ==
        /\ s # Source /\ current[s] # 0
        /\ s \in behind \/ \E u \in Upstream(s) : current[u] = 0 \/ stale[u]
  IN {s \in Stages : stale[s]}

UsableStages(c) ==
  LET stale == StaleStages(c)
  IN {s \in Stages : /\ Current(c, s) # 0 /\ s \notin stale
                     /\ s = Source \/ Passed(Current(c, s))}
DependenciesReady(c, s) == Upstream(s) \subseteq UsableStages(c)

\* gateReasons is empty: the storyboard may be sent to the video form.
Bindings(heads) == {heads[s] : s \in Upstream(Check)}
Gate(c) ==
  /\ \A s \in Stages : Current(c, s) # 0
  /\ papers[Current(c, Check)].bound = Bindings([s \in Stages |-> Current(c, s)])
  /\ Passed(Current(c, Check))
  /\ {Board, Check} \cap StaleStages(c) = {}

---------------------------------------------------------------------------
(* The editor.  A draft is kept per chapter, stage and version opened; its *)
(* mode says what a version that is not in production is edited for.       *)

Unwritten == [text |-> 0, asks |-> FALSE, review |-> NoReview]
Saved(v) == IF v = 0 THEN Unwritten
            ELSE [text |-> papers[v].text, asks |-> papers[v].asks, review |-> papers[v].review]

Chosen(c, s) == IF desk.chosen[c][s] # 0 THEN desk.chosen[c][s] ELSE Current(c, s)
KeyOf(c, s) == <<c, s, Chosen(c, s)>>
Key == KeyOf(desk.chapter, desk.stage)
Historical(k) == k[3] # Current(k[1], k[2]) /\ k[3] # 0 /\ Current(k[1], k[2]) # 0

Opened(k) ==
  LET saved == Saved(k[3])
  IN [text |-> saved.text, asks |-> saved.asks, review |-> saved.review,
      mode |-> IF Historical(k) THEN "view" ELSE "current"]
Draft(k) == IF k \in DOMAIN sheets THEN sheets[k] ELSE Opened(k)

ContentDirty(k) ==
  \/ Draft(k).text # Saved(k[3]).text
  \/ Draft(k).asks # Saved(k[3]).asks
  \/ Draft(k).mode \in {"preserve", "migrate"}
Dirty(k) == ContentDirty(k) \/ Draft(k).review # Saved(k[3]).review
HasDraft(c, s) == \E k \in DOMAIN sheets : k[1] = c /\ k[2] = s /\ Dirty(k)

ReviewValid(d) == d.review # NoReview /\ d.review.of = d.text
Busy == \E i \in Works : works[i].shown
CanEdit(k) == ~(Historical(k) /\ Draft(k).mode = "view")
NeedsChoice(k) == Historical(k) /\ Draft(k).mode \in {"view", "current"}

\* The drafts of these keys, and a new one.
SheetsWith(keys, k, d) == [key \in keys \cup {k} |-> IF key = k THEN d ELSE sheets[key]]

\* persistDraft: the draft is stored, and its version stays the chosen one.
KeepSheet(k, d) ==
  /\ sheets' = SheetsWith(DOMAIN sheets, k, d)
  /\ desk' = IF k[3] = 0 THEN desk ELSE [desk EXCEPT !.chosen[k[1]][k[2]] = k[3]]

Visits == Spend(MaxStoryClicks) /\ UNCHANGED <<papers, works, vetted, faults>>

Type ==
  /\ Visits
  /\ CanEdit(Key) /\ ~Busy
  /\ texts' = texts + 1
  /\ KeepSheet(Key, [Draft(Key) EXCEPT !.text = texts + 1, !.review = NoReview])

\* What the AI shall improve: typed, or taken over from the review.
AskFor ==
  /\ Visits
  /\ CanEdit(Key) /\ ~Busy
  /\ desk.stage # Source
  /\ KeepSheet(Key, [Draft(Key) EXCEPT !.asks = ~@])
  /\ UNCHANGED texts

OpenStage ==
  /\ Visits
  /\ \E s \in Stages \ {desk.stage} : desk' = [desk EXCEPT !.stage = s]
  /\ UNCHANGED <<sheets, texts>>

OpenChapter ==
  /\ Visits
  /\ \E c \in Chapters \ {desk.chapter} :
       /\ Current(c, Source) # 0
       /\ desk' = [desk EXCEPT !.chapter = c, !.stage = Source]
  /\ UNCHANGED <<sheets, texts>>

OpenVersion ==
  LET shown == Current(desk.chapter, desk.stage) IN
  /\ Visits
  /\ shown # 0
  /\ \E v \in Versions \ {Chosen(desk.chapter, desk.stage)} :
       /\ papers[v].document = papers[shown].document
       /\ desk' = [desk EXCEPT !.chosen[desk.chapter][desk.stage] = v]
  /\ UNCHANGED <<sheets, texts>>

BeginHistorical ==
  /\ Visits
  /\ NeedsChoice(Key)
  /\ \/ KeepSheet(Key, [Draft(Key) EXCEPT !.mode = "preserve"])
     \/ KeepSheet(Key, [Draft(Key) EXCEPT !.mode = "migrate", !.review = NoReview])
  /\ UNCHANGED texts

Discard ==
  /\ Visits
  /\ Dirty(Key) /\ ~Busy
  /\ sheets' = SheetsWith(DOMAIN sheets, Key, Opened(Key))
  /\ UNCHANGED <<desk, texts>>

\* A chapter chosen in the novel picker opens its workspace with the chapter's
\* text as the draft of its source; a draft there is replaced after a question.
PickChapter ==
  /\ Visits
  /\ \E c \in Chapters :
       LET v == Current(c, Source) IN
       /\ sheets' = SheetsWith(DOMAIN sheets, <<c, Source, v>>,
                               [text |-> texts + 1, asks |-> FALSE, review |-> NoReview,
                                mode |-> "current"])
       /\ desk' = [desk EXCEPT !.chapter = c, !.stage = Source, !.chosen[c][Source] = v]
  /\ texts' = texts + 1

\* Another tab and back: the page forgets that it is busy, the operations go on.
Remount ==
  /\ Busy
  /\ works' = [i \in Works |-> [works[i] EXCEPT !.shown = FALSE]]
  /\ Spend(MaxStoryClicks)
  /\ UNCHANGED <<papers, sheets, desk, texts, vetted, faults>>

---------------------------------------------------------------------------
(* The operations.  Each works on what it read when it was asked for.      *)

NoWork == [kind |-> "none", shown |-> FALSE]

Read(kind) ==
  [kind |-> kind, shown |-> TRUE, key |-> Key, read |-> Draft(Key),
   historical |-> Historical(Key), writing |-> FALSE, raced |-> FALSE,
   heads |-> [s \in Stages |-> Current(desk.chapter, s)],
   inherits |-> Inherited(desk.chapter), saved |-> [s \in Stages |-> 0], first |-> 0]

StartWork(kind) ==
  /\ \E i \in Works :
       /\ works[i] = NoWork /\ \A j \in 1..(i - 1) : works[j] # NoWork
       /\ works' = [works EXCEPT ![i] = Read(kind)]
  /\ UNCHANGED <<papers, sheets, desk, texts, vetted, faults>>

AtLiberty == ~Busy /\ Spend(MaxStoryClicks)
Ready == DependenciesReady(desk.chapter, desk.stage)

PressSave ==
  /\ AtLiberty
  /\ Dirty(Key) /\ Draft(Key).text # 0
  /\ ~NeedsChoice(Key)
  /\ desk.stage = Source \/ Draft(Key).mode = "preserve" \/ Ready
  /\ StartWork("save")

PressGenerate ==
  /\ AtLiberty
  /\ desk.stage # Source /\ CanEdit(Key) /\ ~ContentDirty(Key) /\ Ready
  /\ StartWork("generate")

PressReview ==
  /\ AtLiberty
  /\ desk.stage # Source /\ Draft(Key).text # 0 /\ ~NeedsChoice(Key)
  /\ Draft(Key).mode = "preserve" \/ Ready
  /\ StartWork("review")

PressOptimize ==
  /\ AtLiberty
  /\ desk.stage # Source /\ Draft(Key).text # 0 /\ Draft(Key).asks /\ CanEdit(Key)
  /\ Draft(Key).mode # "preserve" /\ (Historical(Key) => Draft(Key).mode = "migrate")
  /\ Ready
  /\ \A s \in desk.stage + 1 .. StageCount :
       Current(desk.chapter, s) # 0 => ~HasDraft(desk.chapter, s)
  /\ StartWork("optimize")

\* An answer ends an operation; the failing one leaves everything as it was.
WorkFails(i) ==
  /\ works[i] # NoWork
  /\ Fault
  /\ works' = [works EXCEPT ![i] = NoWork]
  /\ UNCHANGED <<papers, sheets, desk, texts, vetted, clicks>>

\* updateDraft: the draft that was read, with the answer's changes.
WriteBack(i, d) ==
  /\ KeepSheet(works[i].key, d)
  /\ works' = [works EXCEPT ![i] = NoWork]
  /\ UNCHANGED <<papers, clicks>>

Judged(t, passed) == [of |-> t, passed |-> passed]
Vet(t, passed) == vetted' = IF passed THEN vetted \cup {t} ELSE vetted

GenerateAnswers(i) ==
  LET d == [works[i].read EXCEPT !.text = texts + 1,
                                 !.mode = IF works[i].historical THEN "migrate" ELSE "current"]
  IN /\ works[i].kind = "generate"
     /\ texts' = texts + 1
     /\ \/ \E passed \in BOOLEAN :
             /\ Vet(texts + 1, passed)
             /\ WriteBack(i, [d EXCEPT !.review = Judged(texts + 1, passed)])
             /\ UNCHANGED faults
        \/ /\ Fault    \* the review failed: the draft is kept without one
           /\ WriteBack(i, [d EXCEPT !.review = NoReview])
           /\ UNCHANGED vetted

ReviewAnswers(i) ==
  /\ works[i].kind = "review"
  /\ \E passed \in BOOLEAN :
       /\ Vet(works[i].read.text, passed)
       /\ WriteBack(i, [works[i].read EXCEPT !.review = Judged(works[i].read.text, passed)])
  /\ UNCHANGED <<texts, faults>>

\* A version is added, and everyone else's idea of the heads may be out of date.
AddPaper(p) == papers' = Append(papers, p)
Race(i, w) == [j \in Works |-> IF j = i THEN w
                               ELSE IF works[j] = NoWork THEN NoWork
                               ELSE [works[j] EXCEPT !.raced = TRUE]]
DocumentOf(v) == IF v = 0 THEN Len(papers) + 1 ELSE papers[v].document

\* Refused unless the document's head is the version the caller took for it.
Conflict(parent, expected) == parent # 0 /\ DocumentHead(DocumentOf(parent)) # expected

Refused(i) ==
  /\ works' = [works EXCEPT ![i] = NoWork]
  /\ UNCHANGED <<papers, sheets, desk, texts, vetted, clicks, faults>>

\* The draft of the version that was edited gives way to that of the new one.
Succeed(c, s, old, d) ==
  /\ sheets' = SheetsWith(DOMAIN sheets \ {<<c, s, old>>}, <<c, s, Len(papers) + 1>>, d)
  /\ desk' = [desk EXCEPT !.chosen[c][s] = Len(papers) + 1]

SaveAnswers(i) ==
  LET w == works[i]
      c == w.key[1]
      s == w.key[2]
      parent == w.key[3]
      branch == w.read.mode = "preserve"
      review == IF ReviewValid(w.read) THEN w.read.review ELSE NoReview
      above == ({w.heads[u] : u \in Upstream(s)} \ {0})
               \cup (IF s = AnchorStage THEN w.inherits ELSE {})
  IN /\ w.kind = "save"
     /\ \/ ~branch /\ Conflict(parent, w.heads[s]) /\ Refused(i)
        \/ /\ branch \/ ~Conflict(parent, w.heads[s])
           /\ AddPaper([home |-> c, stage |-> s, document |-> DocumentOf(parent),
                       text |-> w.read.text, asks |-> w.read.asks, review |-> review,
                       branch |-> branch,
                       parents |-> IF branch THEN papers[parent].parents ELSE above,
                       bound |-> IF s = Check /\ ~branch THEN Bindings(w.heads) ELSE {}])
           /\ Succeed(c, s, parent, [w.read EXCEPT !.review = review,
                                                   !.mode = IF branch THEN "view" ELSE "current"])
           /\ works' = Race(i, NoWork)
           /\ UNCHANGED <<texts, vetted, clicks, faults>>

---------------------------------------------------------------------------
(* The optimization: the stage it was asked for and the ones below it that *)
(* exist are rewritten and reviewed; when all have passed, they are saved. *)

Cascade(w) == {s \in w.key[2]..StageCount : s = w.key[2] \/ w.heads[s] # 0}
Unsaved(w) == {s \in Cascade(w) : w.saved[s] = 0}
NewText(w, s) == w.first + s

\* The versions it goes on from: those it has saved, and those it read.
NowAsRead(w) == w.heads  \* mutant
Now(w) == [s \in Stages |-> IF w.saved[s] # 0 THEN w.saved[s] ELSE w.heads[s]]

\* What a version is made of: the documents it read, where it has saved another
\* version of one that one, and the anchors it read.
MadeOf(w, s) ==
  {Now(w)[u] : u \in {t \in Upstream(s) : w.heads[t] # 0}}
  \cup (IF s = AnchorStage THEN w.inherits ELSE {})

OptimizePrepared(i) ==
  LET w == works[i]
      first == texts + 1 - w.key[2]
  IN /\ w.kind = "optimize" /\ ~w.writing
     /\ texts' = texts + StageCount + 1 - w.key[2]
     /\ vetted' = vetted \cup {first + s : s \in Cascade(w)}
     /\ works' = [works EXCEPT ![i].writing = TRUE, ![i].first = first]
     /\ UNCHANGED <<papers, sheets, desk, clicks, faults>>

OptimizeSaves(i) ==
  LET w == works[i]
      c == w.key[1]
      s == Min(Unsaved(w))
      parent == IF s = w.key[2] THEN w.key[3] ELSE w.heads[s]
      review == Judged(NewText(w, s), TRUE)
      after == [w EXCEPT !.saved[s] = Len(papers) + 1]
  IN /\ w.kind = "optimize" /\ w.writing
     /\ \/ Conflict(parent, w.heads[s]) /\ Refused(i)
        \/ /\ ~Conflict(parent, w.heads[s])
           /\ AddPaper([home |-> c, stage |-> s, document |-> DocumentOf(parent),
                       text |-> NewText(w, s), asks |-> TRUE, review |-> review, branch |-> FALSE,
                       parents |-> MadeOf(w, s),
                       bound |-> IF s = Check THEN Bindings(Now(w)) ELSE {}])
           /\ Succeed(c, s, parent, [text |-> NewText(w, s), asks |-> TRUE, review |-> review,
                                     mode |-> "current"])
           /\ works' = Race(i, IF Unsaved(after) = {} THEN NoWork ELSE after)
           /\ UNCHANGED <<texts, vetted, clicks, faults>>

\* Another page, the library's, saves a version of one of these documents: it
\* passes no metadata on, so that the version belongs to no workspace.
LibrarySave ==
  /\ Spend(MaxStoryClicks)
  /\ \E d \in {papers[v].document : v \in Versions} :
       LET head == DocumentHead(d) IN
       AddPaper([papers[head] EXCEPT !.home = 0, !.text = texts + 1, !.asks = FALSE,
                                    !.review = NoReview, !.bound = {}])
  /\ works' = [i \in Works |-> IF works[i] = NoWork THEN NoWork
                               ELSE [works[i] EXCEPT !.raced = TRUE, !.shown = FALSE]]
  /\ texts' = texts + 1
  /\ UNCHANGED <<sheets, desk, vetted, faults>>

---------------------------------------------------------------------------
(* The session opens on a new drama, or on a finished chain of every       *)
(* chapter.  Of the first one's source there is then an older version.     *)

Chain ==
  LET At(c, s) == 1 + (c - 1) * StageCount + s
      First == [home |-> 1, stage |-> Source, document |-> 1, text |-> 1, asks |-> FALSE,
                review |-> NoReview, branch |-> FALSE, parents |-> {}, bound |-> {}]
  IN <<First>> \o
     [n \in 1..(ChapterCount * StageCount) |->
        LET c == 1 + (n - 1) \div StageCount
            s == 1 + ((n - 1) % StageCount)
        IN [First EXCEPT
              !.home = c, !.stage = s, !.document = IF n = 1 THEN 1 ELSE n + 1, !.text = n + 1,
              !.review = IF s = Source THEN NoReview ELSE Judged(n + 1, TRUE),
              !.parents = {At(c, u) : u \in Upstream(s)}
                          \cup (IF s = AnchorStage THEN {At(e, s) : e \in {e \in 1..(c - 1) : c - e <= Nearest}}
                              ELSE {}),
              !.bound = IF s = Check THEN {At(c, u) : u \in Upstream(s)} ELSE {}]]

StoryInit ==
  /\ papers \in {<<>>, Chain}
  /\ sheets = <<>>
  /\ desk = [chapter |-> 1, stage |-> Source, chosen |-> [c \in Chapters |-> [s \in Stages |-> 0]]]
  /\ works = [i \in Works |-> NoWork]
  /\ texts = Len(papers)
  /\ vetted = {v \in Versions : papers[v].stage # Source}

StoryNext ==
  \/ Type \/ AskFor \/ OpenStage \/ OpenChapter \/ OpenVersion \/ BeginHistorical \/ Discard
  \/ PickChapter \/ Remount \/ LibrarySave
  \/ PressSave \/ PressGenerate \/ PressReview \/ PressOptimize
  \/ \E i \in Works : \/ WorkFails(i) \/ GenerateAnswers(i) \/ ReviewAnswers(i) \/ SaveAnswers(i)
                      \/ OptimizePrepared(i) \/ OptimizeSaves(i)

StorySpec == StoryInit /\ WindowInit /\ [][StoryNext]_storyVars

---------------------------------------------------------------------------
(* Properties.                                                             *)

StoryTypeOK ==
  /\ \A v \in Versions : /\ papers[v].home \in {0} \cup Chapters
                         /\ papers[v].stage \in Stages
                         /\ papers[v].parents \subseteq 1..(v - 1)
                         /\ papers[v].text \in 1..texts
  /\ \A k \in DOMAIN sheets : sheets[k].mode \in {"current", "view", "preserve", "migrate"}
  /\ desk.chapter \in Chapters /\ desk.stage \in Stages
  /\ vetted \subseteq 1..texts

\* The gate looks at the storyboard and at the quality check only.  Whenever it
\* is open, every document of the chain is current, and its very text passed an
\* independent review.
GateIsTrue ==
  \A c \in Chapters : Gate(c) =>
    /\ Stages \subseteq UsableStages(c)
    /\ \A s \in Stages \ {Source} : papers[Current(c, s)].text \in vetted

\* An optimization that is not crossed by another save leaves nothing behind
\* that must be updated, and the gate open if the chain reaches it
\* (docs/VIDEO_WORKFLOW.md: the successful path does not stop at "needs an update").
CascadeSettles ==
  [][\A i \in Works, c \in Chapters :
       /\ works[i].kind = "optimize" /\ works[i].writing /\ ~works[i].raced
       /\ works[i].key[1] = c
       /\ works'[i] = NoWork /\ papers' # papers
       => /\ \A s \in Stages : s \in Cascade(works[i]) => (s \in UsableStages(c))'
          /\ Check \in Cascade(works[i]) => Gate(c)']_storyVars

\* A review, a draft or an optimization is written over the text it was made
\* from: what the user typed meanwhile is not lost.
TypedTextSurvives ==
  [][\A i \in Works :
       works[i].kind \in {"generate", "review", "optimize"} /\ works'[i] = NoWork /\ sheets' # sheets
       => (works[i].key \in DOMAIN sheets => sheets[works[i].key].text = works[i].read.text)]_storyVars
=============================================================================
