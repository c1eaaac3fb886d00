------------------------------ MODULE NovelDesk ------------------------------
(***************************************************************************)
(* The manager of novel sources (components/novel/NovelAssetManager.tsx)   *)
(* and the calls it makes (lib/novel/api.ts): works and chapters are read  *)
(* when the dialog opens or another work is chosen, a chapter is edited as *)
(* a draft that is also kept in local storage, and saving it makes a new   *)
(* revision.  Reading and saving also publish the newest revisions in the  *)
(* asset library.                                                          *)
(*                                                                         *)
(* A chapter is the sequence of its revisions' texts, a work the sequence  *)
(* of its chapters; texts are numbers, 0 the blank one.  Local storage     *)
(* never refuses a draft; archived works, chapter numbers and titles are   *)
(* left out.                                                               *)
(***************************************************************************)
EXTENDS Window

CONSTANTS
  NovelProjects,   \* projects
  FirstChapters,   \* chapters of each project's first work
  MaxNovelClicks   \* bound on the user's operations

ASSUME NovelDeskAssumption ==
  /\ NovelProjects # {} /\ FirstChapters \in Nat /\ MaxNovelClicks \in Nat
  /\ none \notin [work : Nat, chapter : Nat]
  /\ none \notin [project : NovelProjects, work : Nat, chapter : Nat, revision : Nat]

VARIABLES
  novels,      \* the backend's works, by project
  shared,      \* revisions published in the asset library
  publishing,  \* the revision being published, by project: there is one lock
  manager,     \* the dialog
  calls,       \* its calls under way
  stored,      \* drafts in local storage: their key and text
  confirmed,   \* revisions the dialog has reported as saved
  delivered    \* the revisions of the last read that was answered

novelVars == <<novels, shared, publishing, manager, calls, stored, confirmed, delivered, clicks, faults>>
backendVars == <<novels, shared, publishing, delivered>>

NovelClosed(project) ==
  [project |-> project, open |-> FALSE, session |-> 0, request |-> 0, listing |-> 0, works |-> 0,
   work |-> 0, copy |-> none, stale |-> FALSE, chapter |-> 0, mode |-> "browse", scope |-> none,
   draft |-> 0, saved |-> none, saving |-> FALSE, loading |-> FALSE, skip |-> {}]

NovelClick == Spend(MaxNovelClicks) /\ UNCHANGED faults
NovelIdle == UNCHANGED <<clicks, faults>>
NovelWorks(p) == novels[p]
RevisionOf(p, w, c) == [project |-> p, work |-> w, chapter |-> c, revision |-> Len(novels[p][w][c])]
Heads(p, w, copy) == {RevisionOf(p, w, c) : c \in DOMAIN copy}

---------------------------------------------------------------------------
(* Drafts in local storage.                                                *)

DraftKey(m) == <<m.project, m.scope.work, m.scope.chapter>>
StoredAt(key) == {d \in stored : d.key = key}
StoredOr(key, text) == IF StoredAt(key) = {} THEN text ELSE (CHOOSE d \in StoredAt(key) : TRUE).text

\* The effect that keeps the draft: not of another project's editor, nor of a
\* chapter that has just been saved.
Kept(m) ==
  IF m.open /\ m.mode \in {"new_chapter", "edit_chapter"} /\ DraftKey(m) \notin m.skip
  THEN (stored \ StoredAt(DraftKey(m))) \cup {[key |-> DraftKey(m), text |-> m.draft]}
  ELSE stored

---------------------------------------------------------------------------
(* Reading.                                                                *)

Call(m, kind, work, chapter, text) ==
  [kind |-> kind, project |-> m.project, session |-> m.session, phase |-> "asked",
   request |-> IF kind = "works" THEN m.listing ELSE m.request,
   work |-> work, chapter |-> chapter, text |-> text, copy |-> <<>>, heads |-> {}, awaited |-> {}]

ListWorks(m) == [m EXCEPT !.listing = @ + 1]
\* reloadSnapshot: without a work there is nothing to ask.
ReadChapters(m, w) ==
  IF w = 0 THEN [m EXCEPT !.work = 0, !.copy = none, !.chapter = 0, !.stale = FALSE]
  ELSE [m EXCEPT !.work = w, !.request = @ + 1, !.loading = TRUE]
ReadCall(m, chapter) == IF m.work = 0 THEN {} ELSE {Call(m, "chapters", m.work, chapter, 0)}
\* The newest request of this visit, in this project.
StillAsked(c, newest) == c.session = manager.session /\ c.request = newest /\ c.project = manager.project
Reads == {"chapters", "reread"}          \* the second ends a save

Browsing == /\ manager.open /\ ~manager.saving /\ ~manager.loading /\ ~manager.stale
            /\ manager.mode = "browse" /\ manager.work # 0
Editing == /\ manager.open /\ ~manager.saving /\ ~manager.loading /\ ~manager.stale
           /\ manager.mode \in {"new_chapter", "edit_chapter"}

OpenManager ==
  /\ NovelClick
  /\ ~manager.open
  /\ manager' = ReadChapters([ListWorks(manager) EXCEPT !.open = TRUE, !.session = @ + 1], manager.work)
  /\ calls' = calls \cup {Call(manager', "works", 0, 0, 0)} \cup ReadCall(manager', 0)
  /\ stored' = Kept(manager')
  /\ UNCHANGED <<backendVars, confirmed>>

\* A save that is running is not abandoned.
CloseManager ==
  /\ NovelClick
  /\ manager.open /\ ~manager.saving
  /\ manager' = [manager EXCEPT !.open = FALSE, !.session = @ + 1, !.request = @ + 1, !.listing = @ + 1,
                                !.loading = FALSE]
  /\ UNCHANGED <<backendVars, calls, stored, confirmed>>

\* The page moved to another project: everything in the dialog is reset.
SwitchNovelProject(p) ==
  /\ NovelClick
  /\ p # manager.project
  /\ manager' = [NovelClosed(p) EXCEPT !.open = manager.open, !.session = manager.session + 1,
                   !.request = manager.request + 1, !.listing = manager.listing + 1, !.skip = manager.skip]
  /\ calls' = calls \cup IF manager.open THEN {Call(manager', "works", 0, 0, 0)} ELSE {}
  /\ UNCHANGED <<backendVars, stored, confirmed>>

ChooseWork(w) ==
  /\ NovelClick
  /\ manager.open /\ ~manager.saving /\ ~manager.loading /\ manager.mode = "browse"
  /\ w \in 1..manager.works /\ w # manager.work
  /\ manager' = ReadChapters([manager EXCEPT !.copy = none, !.chapter = 0, !.stale = FALSE, !.saved = none], w)
  /\ calls' = calls \cup ReadCall(manager', 0)
  /\ UNCHANGED <<backendVars, stored, confirmed>>

\* The same list again, or another chapter of the work shown.
RefreshWorks ==
  /\ NovelClick
  /\ manager.open /\ ~manager.saving /\ manager.mode = "browse"
  /\ ~\E c \in calls : c.kind = "works" /\ StillAsked(c, manager.listing)
  /\ manager' = ListWorks(manager)
  /\ calls' = calls \cup {Call(manager', "works", 0, 0, 0)}
  /\ UNCHANGED <<backendVars, stored, confirmed>>

ChooseChapter(n) ==
  /\ NovelClick
  /\ Browsing /\ manager.copy # none /\ manager.copy.work = manager.work
  /\ n \in DOMAIN manager.copy.chapters /\ n # manager.chapter
  /\ manager' = [manager EXCEPT !.chapter = n]
  /\ UNCHANGED <<backendVars, calls, stored, confirmed>>

RetryChapters ==
  /\ NovelClick
  /\ manager.open /\ manager.stale /\ ~manager.loading
  /\ manager' = ReadChapters(manager, manager.work)
  /\ calls' = calls \cup ReadCall(manager', IF manager.saved = none THEN 0 ELSE manager.saved.chapter)
  /\ UNCHANGED <<backendVars, stored, confirmed>>

Advance(c, next) == calls' = (calls \ {c}) \cup {next}

\* publishNovelChapter: all chapters are published at once, but the lock of the
\* document store is the project's, so only the first of them gets it.
Publish(p, wanted) ==
  publishing' = [publishing EXCEPT ![p] =
    IF wanted \ shared = {} \/ @ # none THEN @
    ELSE CHOOSE r \in wanted \ shared : \A s \in wanted \ shared : r.chapter <= s.chapter]
\* The answer waits for the revision this call publishes, or finds being published.
InFlight(c, heads) ==
  IF publishing[c.project] = none \/ publishing[c.project] \in heads THEN heads ELSE {}
Awaited(c) == publishing[c.project] # none /\ publishing[c.project] \in c.awaited
Published(p) ==
  /\ publishing[p] # none
  /\ publishing' = [publishing EXCEPT ![p] = none]
  /\ \/ shared' = shared \cup {publishing[p]} /\ NovelIdle
     \/ Fault /\ UNCHANGED <<clicks, shared>>
  /\ UNCHANGED <<novels, manager, calls, stored, confirmed, delivered>>

\* novelWorkList and novelWorkGet: the copy is taken, then its chapters published.
BackendReads(c) ==
  /\ c.phase = "asked" /\ c.kind \in {"works"} \cup Reads
  /\ LET copy == IF c.kind = "works" THEN <<>> ELSE NovelWorks(c.project)[c.work]
         heads == Heads(c.project, c.work, copy)
     IN /\ Advance(c, [c EXCEPT !.phase = "read", !.copy = copy, !.heads = heads, !.awaited = InFlight(c, heads),
                                !.work = IF c.kind = "works" THEN Len(NovelWorks(c.project)) ELSE @])
        /\ Publish(c.project, heads)
  /\ NovelIdle /\ UNCHANGED <<novels, shared, manager, stored, confirmed, delivered>>

WorksAnswer(c) ==
  LET kept == IF manager.work \in 1..c.work THEN manager.work ELSE IF c.work > 0 THEN 1 ELSE 0
      m == [manager EXCEPT !.works = c.work]
  IN /\ c.phase = "read" /\ c.kind = "works"
     /\ IF ~StillAsked(c, manager.listing) THEN UNCHANGED manager /\ calls' = calls \ {c}
        ELSE IF kept = manager.work THEN manager' = m /\ calls' = calls \ {c}
        ELSE /\ manager' = ReadChapters(m, kept)
             /\ calls' = (calls \ {c}) \cup ReadCall(manager', 0)
     /\ NovelIdle /\ UNCHANGED <<backendVars, stored, confirmed>>

SameVisit(c) == c.session = manager.session /\ c.project = manager.project
Saving(c) == manager.saving /\ ~(c.kind = "reread" /\ SameVisit(c))

\* Mutant of ChapterReadCurrent: a read is shown whatever was asked since.
AnyRead(c) == TRUE

\* A read that confirms the saved revision ends the editing.
ChapterReadCurrent(c) == StillAsked(c, manager.request)
ChaptersAnswer(c) ==
  LET s == manager.saved
      has(n) == n \in DOMAIN c.copy
      seen == s # none /\ s.work = c.work /\ has(s.chapter) /\ Len(c.copy[s.chapter]) >= s.revision
      chosen == CASE seen                                       -> s.chapter
                  [] manager.mode = "browse" /\ has(c.chapter)  -> c.chapter
                  [] has(manager.chapter)                       -> manager.chapter
                  [] OTHER                                      -> IF c.copy = <<>> THEN 0 ELSE 1
      m == [manager EXCEPT !.copy = [work |-> c.work, chapters |-> c.copy], !.stale = FALSE,
                           !.loading = FALSE, !.saving = Saving(c), !.chapter = chosen]
  IN /\ c.phase = "read" /\ c.kind \in Reads /\ ~Awaited(c)
     /\ calls' = calls \ {c}
     /\ delivered' = c.heads
     /\ manager' = IF ~ChapterReadCurrent(c) THEN [manager EXCEPT !.saving = Saving(c)]
                   ELSE IF seen THEN [m EXCEPT !.mode = "browse", !.saved = none, !.scope = none]
                   ELSE m
     /\ NovelIdle /\ UNCHANGED <<novels, shared, publishing, stored, confirmed>>

NovelCallFails(c) ==
  /\ c.phase = "asked"
  /\ calls' = calls \ {c}
  /\ manager' = IF c.kind \in Reads /\ ChapterReadCurrent(c)
                THEN [manager EXCEPT !.copy = none, !.chapter = 0, !.stale = TRUE, !.loading = FALSE,
                                     !.saving = Saving(c)]
                ELSE IF c.kind \in {"create", "save", "reread"} /\ SameVisit(c)
                THEN [manager EXCEPT !.saving = FALSE]
                ELSE manager
  /\ Fault /\ UNCHANGED <<clicks, backendVars, stored, confirmed>>

---------------------------------------------------------------------------
(* Editing.                                                                *)

\* The chapter's draft of an earlier visit, or the text to start from.
BeginChapter(m, mode, chapter, text) ==
  LET key == <<m.project, m.work, chapter>> IN
  [m EXCEPT !.mode = mode, !.scope = [work |-> m.work, chapter |-> chapter], !.saved = none,
            !.draft = StoredOr(key, text), !.skip = @ \ {key}]

BeginNewChapter ==
  /\ NovelClick
  /\ Browsing
  /\ manager' = BeginChapter(manager, "new_chapter", 0, 0)
  /\ stored' = Kept(manager')
  /\ UNCHANGED <<backendVars, calls, confirmed>>

BeginEditChapter ==
  /\ NovelClick
  /\ Browsing /\ manager.copy # none /\ manager.copy.work = manager.work
  /\ manager.chapter \in DOMAIN manager.copy.chapters
  /\ manager' = BeginChapter(manager, "edit_chapter", manager.chapter, Last(manager.copy.chapters[manager.chapter]))
  /\ stored' = Kept(manager')
  /\ UNCHANGED <<backendVars, calls, confirmed>>

TypeChapter ==
  /\ NovelClick
  /\ Editing /\ manager.saved = none
  /\ manager' = [manager EXCEPT !.draft = 10 + clicks]
  /\ stored' = Kept(manager')
  /\ UNCHANGED <<backendVars, calls, confirmed>>

\* The stored draft stays for the next visit.
CancelChapter ==
  /\ NovelClick
  /\ \/ Editing
     \/ manager.open /\ ~manager.saving /\ manager.mode = "new_work"
  /\ manager' = [manager EXCEPT !.mode = "browse", !.scope = none, !.saved = none]
  /\ UNCHANGED <<backendVars, calls, stored, confirmed>>

CreateWork ==
  /\ NovelClick
  /\ manager.open /\ ~manager.saving /\ manager.mode \in {"browse", "new_work"}
  /\ manager' = [manager EXCEPT !.mode = "new_work", !.saving = TRUE]
  /\ calls' = calls \cup {Call(manager, "create", 0, 0, 0)}
  /\ UNCHANGED <<backendVars, stored, confirmed>>

PressSaveChapter ==
  /\ NovelClick
  /\ Editing /\ manager.saved = none /\ manager.draft # 0
  /\ manager' = [manager EXCEPT !.saving = TRUE]
  /\ calls' = calls \cup {Call(manager, "save", manager.scope.work, manager.scope.chapter, manager.draft)}
  /\ UNCHANGED <<backendVars, stored, confirmed>>

\* A new chapter, or a new revision of one; the answer waits for its publication.
BackendWrites(c) ==
  LET w == c.work
      chapter == IF c.chapter = 0 THEN Len(NovelWorks(c.project)[w]) + 1 ELSE c.chapter
      works == IF c.kind = "create" THEN Append(NovelWorks(c.project), <<>>)
               ELSE IF c.chapter = 0 THEN [NovelWorks(c.project) EXCEPT ![w] = Append(@, <<c.text>>)]
               ELSE [NovelWorks(c.project) EXCEPT ![w][chapter] = Append(@, c.text)]
      new == IF c.kind = "create" THEN {}
             ELSE {[project |-> c.project, work |-> w, chapter |-> chapter, revision |-> Len(works[w][chapter])]}
  IN /\ c.phase = "asked" /\ c.kind \in {"create", "save"}
     /\ novels' = [novels EXCEPT ![c.project] = works]
     /\ Advance(c, [c EXCEPT !.phase = "written", !.heads = new, !.awaited = InFlight(c, new),
                             !.work = IF c.kind = "create" THEN Len(works) ELSE w])
     /\ Publish(c.project, new)
     /\ NovelIdle /\ UNCHANGED <<shared, manager, stored, confirmed, delivered>>

WorkCreated(c) ==
  LET m == [manager EXCEPT !.works = c.work, !.work = c.work, !.copy = [work |-> c.work, chapters |-> <<>>],
                           !.chapter = 0, !.stale = FALSE, !.saving = FALSE]
      read == ReadChapters(BeginChapter(m, "new_chapter", 0, 0), c.work)
  IN /\ c.phase = "written" /\ c.kind = "create"
     /\ IF SameVisit(c)
        THEN /\ manager' = read /\ calls' = (calls \ {c}) \cup ReadCall(read, 0)
             /\ stored' = Kept(read)
        ELSE calls' = calls \ {c} /\ UNCHANGED <<manager, stored>>
     /\ NovelIdle /\ UNCHANGED <<backendVars, confirmed>>

\* Only now is the stored draft dropped; the dialog stays busy until the chapters
\* have been read again.
ChapterSaved(c) ==
  LET key == <<c.project, c.work, c.chapter>>
      revision == CHOOSE r \in c.heads : TRUE
      m == ReadChapters([manager EXCEPT !.skip = @ \cup {key}, !.saved = revision], c.work)
  IN /\ c.phase = "written" /\ c.kind = "save" /\ ~Awaited(c)
     /\ IF SameVisit(c)
        THEN /\ manager' = m /\ calls' = (calls \ {c}) \cup {Call(m, "reread", c.work, revision.chapter, 0)}
             /\ stored' = stored \ StoredAt(key)
             /\ confirmed' = confirmed \cup {revision}
        ELSE calls' = calls \ {c} /\ UNCHANGED <<manager, stored, confirmed>>
     /\ NovelIdle /\ UNCHANGED backendVars

---------------------------------------------------------------------------
\* Each project starts with one work.
NovelInit ==
  /\ novels = [p \in NovelProjects |-> <<[c \in 1..FirstChapters |-> <<c>>]>>]
  /\ shared = {} /\ publishing = [p \in NovelProjects |-> none]
  /\ \E p \in NovelProjects : manager = NovelClosed(p)
  /\ calls = {} /\ stored = {} /\ confirmed = {} /\ delivered = {}

NovelNext ==
  \/ OpenManager \/ CloseManager \/ RefreshWorks \/ RetryChapters
  \/ \E n \in (IF manager.copy = none THEN {} ELSE DOMAIN manager.copy.chapters) : ChooseChapter(n)
  \/ \E p \in NovelProjects : SwitchNovelProject(p) \/ Published(p)
  \/ \E w \in 1..manager.works : ChooseWork(w)
  \/ BeginNewChapter \/ BeginEditChapter \/ TypeChapter \/ CancelChapter \/ CreateWork \/ PressSaveChapter
  \/ \E c \in calls : \/ BackendReads(c) \/ WorksAnswer(c) \/ ChaptersAnswer(c) \/ NovelCallFails(c)
                      \/ BackendWrites(c) \/ WorkCreated(c) \/ ChapterSaved(c)

NovelSpec == NovelInit /\ WindowInit /\ [][NovelNext]_novelVars

---------------------------------------------------------------------------
NovelTypeOK ==
  /\ manager.project \in NovelProjects
  /\ manager.work \in 0..Len(novels[manager.project])
  /\ manager.mode \in {"browse", "new_work", "new_chapter", "edit_chapter"}
  /\ manager.mode \in {"new_chapter", "edit_chapter"} <=> manager.scope # none
  /\ \A c, d \in stored : c.key = d.key => c = d

\* A draft in local storage goes away, or is replaced, only by the user's typing or
\* once its text is a revision of the work: not by an answer that fails, that
\* comes after the dialog moved on, or that belongs to another chapter.
NovelDraftStays ==
  [][\A d \in stored \ stored' :
       \/ clicks' # clicks
       \/ \E c \in DOMAIN novels'[d.key[1]][d.key[2]] :
            \E r \in DOMAIN novels'[d.key[1]][d.key[2]][c] : novels'[d.key[1]][d.key[2]][c][r] = d.text]_novelVars

\* "在确认新修订前不会引用旧正文": once the dialog has reported a revision as saved, the
\* chapters it offers are at least that new, whatever reads were still under way.
NoOldTextAfterSave ==
  Browsing /\ manager.copy # none =>
    \A r \in confirmed :
      r.project = manager.project /\ r.work = manager.copy.work =>
        /\ r.chapter \in DOMAIN manager.copy.chapters
        /\ Len(manager.copy.chapters[r.chapter]) >= r.revision

\* CHANGELOG.md:128: "小说漫画保存或读取章节时发布共享 text/novel 资源".  When a read of a
\* work's chapters has been answered, each newest revision it read is in the
\* library.
EveryReadPublishes == delivered \subseteq shared
=============================================================================
