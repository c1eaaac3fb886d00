---------------------------- MODULE ComicRender ----------------------------
(***************************************************************************)
(* Rendering of comic pages (internal/comic render.go, visual.go, the      *)
(* images of store.go) beside a user who edits pages, the chapter's prompt *)
(* injection and the work's visual profile, and who may replace the        *)
(* reference image on disk.                                                *)
(*                                                                         *)
(* A render freezes its pages, the injection and the profile when it is    *)
(* admitted, copies the reference into a folder of its own after that      *)
(* transaction, and then pays for one page after the other.  The provider  *)
(* client writes image files before their rows exist.                      *)
(*                                                                         *)
(* One chapter.  A Markdown body, an injection and an image content are    *)
(* numbers; content zero is a file that is not there, and a profile whose  *)
(* reference is zero has none.                                             *)
(***************************************************************************)
EXTENDS Naturals, Sequences, FiniteSets, SequencesExt

CONSTANTS
  JobIds,      \* job identifiers (newID)
  Pages,       \* page prompts of the chapter, by page number
  Texts,       \* Markdown bodies of page prompts
  Complete,    \* [Texts -> BOOLEAN]: validate finds no issue in the body
  Injections,  \* prompt injections of the chapter
  Contents,    \* contents of reference images
  MaxAssets,   \* bound on the images of one answer (MaxImageBatch)
  MaxEdits     \* bound on the user's edits

ASSUME ComicRenderAssumption ==
  /\ Pages \subseteq Nat /\ IsFiniteSet(Pages)
  /\ Texts \subseteq Nat
  /\ Complete \in [Texts -> BOOLEAN]
  /\ Injections \subseteq Nat
  /\ Contents \subseteq Nat \ {0}
  /\ MaxAssets \in Nat \ {0}
  /\ MaxEdits \in Nat

VARIABLES
  docs,       \* page prompts; current: neither stale nor out of plan
  injection,  \* comic_md_render_options.prompt_injection
  profile,    \* comic_md_work_visual_profiles and its reference's sha256
  file,       \* content of the reference image on disk
  cache,      \* digestCache: the digest last computed for the file
  jobs,       \* comic_md_jobs of kind images
  images,     \* comic_md_images
  disk,       \* image files in the output directory
  snapshots,  \* reference folders of the jobs, <<job, content>>
  pc,         \* where each job's goroutine, or its admitting command, stands
  task,       \* its local variables
  app,        \* the process: open, closing (Close was called) or down
  edits,      \* edits of the user so far
  lost,       \* jobs whose terminal write failed
  requests,   \* history: what the provider was sent
  abandoned   \* history: files a crash, a panic or a failed call left behind

inputs == <<docs, injection, profile, file, cache>>
results == <<images, disk, abandoned>>
process == <<app, lost>>
vars == <<inputs, jobs, results, snapshots, pc, task, process, edits, requests>>

Terminal == {"succeeded", "failed", "interrupted"}
Locations == {"idle", "frozen", "admitted", "ready", "checked", "calling",
              "kept", "done", "panicked", "leaving"}

\* An image file, named by the job, the page and its place in the answer.
Files == JobIds \X Pages \X (1..MaxAssets)

\* The work's references as an image row remembers them (referencesSnapshot):
\* the saved digest and whether the file was there.
Board == Nat \X BOOLEAN

\* since: edits before admission (a history).
Job == [status : {"none", "running"} \cup Terminal, done : Nat, total : Nat,
        since : Nat]
NoJob == [status |-> "none", done |-> 0, total |-> 0, since |-> 0]

Page == [no : Pages, revision : Nat, text : Texts]
Image == [file : Files, text : Texts, injection : Injections, visual : Nat,
          board : Board]
Request == [job : JobIds, page : Pages, text : Texts, injection : Injections,
            visual : Nat, reference : Nat]

\* pages: frozen pages left; injection, visual, reference, board: frozen
\* inputs; assets: files of the current answer.
Task == [pages : Seq(Page), injection : Injections \cup {0}, visual : Nat,
         reference : Nat, board : Board, assets : Seq(Files)]
NoTask == [pages |-> <<>>, injection |-> 0, visual |-> 0, reference |-> 0,
           board |-> <<0, FALSE>>, assets |-> <<>>]

TypeOK ==
  /\ docs \in [Pages -> [revision : Nat, text : Texts, current : BOOLEAN]]
  /\ injection \in Injections
  /\ profile \in [revision : Nat, reference : Contents \cup {0}]
  /\ {file, cache} \subseteq Contents \cup {0}
  /\ jobs \in [JobIds -> Job]
  /\ images \subseteq Image
  /\ disk \subseteq Files /\ abandoned \subseteq Files
  /\ snapshots \subseteq JobIds \X (Contents \cup {0})
  /\ pc \in [JobIds -> Locations]
  /\ task \in [JobIds -> Task]
  /\ app \in {"open", "closing", "down"}
  /\ edits \in Nat
  /\ lost \subseteq JobIds
  /\ requests \subseteq Request

\* The pages are saved and current; the profile may hold the reference.
Init ==
  /\ docs \in [Pages -> {[revision |-> 1, text |-> t, current |-> TRUE] :
                           t \in {u \in Texts : Complete[u]}}]
  /\ injection \in Injections
  /\ file \in Contents /\ cache = file
  /\ profile \in {[revision |-> 0, reference |-> 0], [revision |-> 1, reference |-> file]}
  /\ jobs = [j \in JobIds |-> NoJob]
  /\ images = {} /\ disk = {} /\ abandoned = {} /\ snapshots = {} /\ requests = {}
  /\ pc = [j \in JobIds |-> "idle"]
  /\ task = [j \in JobIds |-> NoTask]
  /\ app = "open" /\ edits = 0 /\ lost = {}

---------------------------------------------------------------------------
(* The user's edits.                                                       *)

Edit ==
  /\ edits < MaxEdits /\ edits' = edits + 1
  /\ UNCHANGED <<jobs, results, snapshots, pc, task, process, requests>>

\* comic_md_document_save of a page.  It may acknowledge the page's upstream
\* and decides whether later pages, which inherit from it, are current.
SavePage(p, text, current) ==
  /\ Edit /\ app # "down"
  /\ \A q \in Pages : q < p => current[q] = docs[q].current
  /\ docs[p].current => current[p]
  /\ docs' = [q \in Pages |->
       [revision |-> IF q = p THEN docs[q].revision + 1 ELSE docs[q].revision,
        text     |-> IF q = p THEN text ELSE docs[q].text,
        current  |-> current[q]]]
  /\ UNCHANGED <<injection, profile, file, cache>>

\* An edit of the settings, the script, the storyboard, the source or an
\* earlier chapter: pages become stale or leave the plan, or come back.
EditUpstream(current) ==
  /\ Edit /\ app # "down"
  /\ docs' = [p \in Pages |-> [docs[p] EXCEPT !.current = current[p]]]
  /\ UNCHANGED <<injection, profile, file, cache>>

\* saveRenderOptions.
SaveInjection(text) ==
  /\ Edit /\ app # "down"
  /\ injection' = text
  /\ UNCHANGED <<docs, profile, file, cache>>

\* saveWorkVisualProfile: the digest of a reference is taken from its file.
SaveProfile(withReference) ==
  /\ Edit /\ app # "down"
  /\ withReference => file # 0
  /\ profile' = [revision |-> profile.revision + 1,
                 reference |-> IF withReference THEN file ELSE 0]
  /\ UNCHANGED <<docs, injection, file, cache>>

\* The image file is replaced or removed outside the program.  A file of the
\* old size and modification time keeps its cached digest.
ReplaceFile(content, sameStamp) ==
  /\ Edit /\ content # file
  /\ file' = content
  /\ cache' = IF sameStamp \/ content = 0 THEN cache ELSE content
  /\ UNCHANGED <<docs, injection, profile>>

---------------------------------------------------------------------------
(* Admission, and the copy of the reference after it.                      *)

\* cachedReferenceDigest.
cachedDigest == IF file = 0 THEN 0 ELSE cache

\* workVisualProfile and referencesSnapshot: the board as the workspace
\* shows it, with the cached digest.
currentBoard == <<profile.reference, cachedDigest = profile.reference>>

\* freezeVisual reads the file itself.
ReferenceUnchanged == profile.reference # 0 => file = profile.reference

\* renderPages accepts a revision that is current, in plan and complete.
Renderable(p, revision) ==
  /\ docs[p].revision = revision
  /\ docs[p].current /\ Complete[docs[p].text]

frozenPages(chosen) ==
  [i \in DOMAIN chosen |->
     [no |-> chosen[i], revision |-> docs[chosen[i]].revision,
      text |-> docs[chosen[i]].text]]

frozenAvailable(chosen) ==   \* mutant
  [pages |-> frozenPages(chosen), injection |-> injection, visual |-> profile.revision,
   reference |-> profile.reference, board |-> <<profile.reference, TRUE>>,
   assets |-> <<>>]
\* freezeRender and freezeVisual: what the job keeps of today's inputs.
frozen(chosen) ==
  [pages |-> frozenPages(chosen), injection |-> injection, visual |-> profile.revision,
   reference |-> profile.reference, board |-> currentBoard, assets |-> <<>>]

CallingJobs == {j \in JobIds : pc[j] = "calling"}   \* mutant
RunningJobs == {j \in JobIds : jobs[j].status = "running"}

\* render's transaction: pages, options and visual profile are frozen and
\* the job inserted (insertJob), unless one of the work is running.
Admit(j, chosen) ==
  /\ app # "down" /\ jobs[j].status = "none" /\ RunningJobs = {}
  /\ chosen # <<>>
  /\ \A i \in DOMAIN chosen : Renderable(chosen[i], docs[chosen[i]].revision)
  /\ ReferenceUnchanged
  /\ jobs' = [jobs EXCEPT ![j] = [status |-> "running", done |-> 0,
                                  total |-> Len(chosen), since |-> edits]]
  /\ task' = [task EXCEPT ![j] = frozen(chosen)]
  /\ pc' = [pc EXCEPT ![j] = "frozen"]
  /\ UNCHANGED <<inputs, results, snapshots, process, edits, requests>>

Live(j, location) == app # "down" /\ pc[j] = location
Goto(j, location) == pc' = [pc EXCEPT ![j] = location]

\* finishJob, after which the goroutine returns (leaving) or the command does.
End(j, outcome, location) ==
  /\ jobs' = [jobs EXCEPT ![j].status = IF @ = "running" THEN outcome ELSE @]
  /\ Goto(j, location)

DropSnapshot(j) == snapshots' = {s \in snapshots : s[1] # j}

CopyUnverified(j) ==   \* mutant
  /\ Live(j, "frozen")
  /\ Goto(j, "admitted")
  /\ snapshots' = snapshots \cup {<<j, IF task[j].reference = 0 THEN 0 ELSE file>>}
  /\ UNCHANGED <<inputs, jobs, results, task, process, edits, requests>>

\* materializeReferences: the file is read again and must still have the
\* frozen digest; a folder it cannot fill is removed and the job fails.
Materialize(j) ==
  /\ Live(j, "frozen")
  /\ \/ /\ task[j].reference # 0 => file = task[j].reference
        /\ snapshots' = snapshots \cup {<<j, task[j].reference>>}
        /\ Goto(j, "admitted")
        /\ UNCHANGED <<jobs, task>>
     \/ /\ End(j, "failed", "idle")
        /\ task' = [task EXCEPT ![j] = NoTask]
        /\ UNCHANGED snapshots
  /\ UNCHANGED <<inputs, results, process, edits, requests>>

StartUnlessClosed(j) ==   \* mutant
  /\ Live(j, "admitted") /\ app # "closing"
  /\ Goto(j, "ready")
  /\ UNCHANGED <<inputs, jobs, results, snapshots, task, process, edits, requests>>

\* start: a closed service interrupts the job and never runs it, so nothing
\* removes its folder before the next startup.
Start(j) ==
  /\ Live(j, "admitted")
  /\ \/ /\ app = "closing"
        /\ End(j, "interrupted", "idle")
        /\ task' = [task EXCEPT ![j] = NoTask]
     \/ /\ app # "closing"
        /\ Goto(j, "ready")
        /\ UNCHANGED <<jobs, task>>
  /\ UNCHANGED <<inputs, results, snapshots, process, edits, requests>>

---------------------------------------------------------------------------
(* runRender.                                                              *)

\* Before each page: a cancelled context interrupts.
CheckContext(j) ==
  /\ Live(j, "ready") /\ task[j].pages # <<>>
  /\ IF app = "closing" THEN End(j, "interrupted", "leaving")
     ELSE Goto(j, "checked") /\ UNCHANGED jobs
  /\ UNCHANGED <<inputs, results, snapshots, task, process, edits, requests>>

\* The page must still be the frozen revision, then the request is sent with
\* the frozen inputs and the references of the job's own folder.
Submit(j) ==
  /\ Live(j, "checked")
  /\ LET page == Head(task[j].pages)
     IN IF jobs[j].status # "running" \/ ~Renderable(page.no, page.revision)
          THEN End(j, "failed", "leaving") /\ UNCHANGED requests
          ELSE /\ requests' = requests \cup
                    {[job |-> j, page |-> page.no, text |-> page.text,
                      injection |-> task[j].injection, visual |-> task[j].visual,
                      reference |-> s[2]] : s \in {t \in snapshots : t[1] = j}}
               /\ Goto(j, "calling")
               /\ UNCHANGED jobs
  /\ UNCHANGED <<inputs, results, snapshots, task, process, edits>>

\* collect: SaveBytes writes the next image of the answer.
SaveAsset(j) ==
  /\ Live(j, "calling") /\ Len(task[j].assets) < MaxAssets
  /\ LET asset == <<j, Head(task[j].pages).no, Len(task[j].assets) + 1>>
     IN /\ task' = [task EXCEPT ![j].assets = Append(@, asset)]
        /\ disk' = disk \cup {asset}
  /\ UNCHANGED <<inputs, jobs, images, abandoned, snapshots, pc, process, edits, requests>>

\* The call fails, perhaps after some images were written, whose paths are
\* then lost; the shutdown's cancellation interrupts.
CallFails(j) ==
  /\ Live(j, "calling")
  /\ End(j, IF app = "closing" THEN "interrupted" ELSE "failed", "leaving")
  /\ task' = [task EXCEPT ![j].assets = <<>>]
  /\ abandoned' = abandoned \cup ToSet(task[j].assets)
  /\ UNCHANGED <<inputs, images, disk, snapshots, process, edits, requests>>

\* The call returns its images.
Returned(j) ==
  /\ Live(j, "calling") /\ task[j].assets # <<>>
  /\ Goto(j, "kept")
  /\ UNCHANGED <<inputs, jobs, results, snapshots, task, process, edits, requests>>

\* The IMMEDIATE transaction inserts a row per image and counts the page.
InsertRows(j) ==
  /\ Live(j, "kept")
  /\ images' = images \cup
       {[file |-> asset, text |-> Head(task[j].pages).text,
         injection |-> task[j].injection, visual |-> task[j].visual,
         board |-> task[j].board] : asset \in ToSet(task[j].assets)}
  /\ jobs' = [jobs EXCEPT ![j].done = @ + 1]
  /\ task' = [task EXCEPT ![j].pages = Tail(@), ![j].assets = <<>>]
  /\ Goto(j, "ready")
  /\ UNCHANGED <<inputs, disk, abandoned, snapshots, process, edits, requests>>

FinishWithFolder(j) ==   \* mutant
  /\ Live(j, "ready") /\ task[j].pages = <<>>
  /\ Goto(j, "done")
  /\ UNCHANGED <<inputs, jobs, results, snapshots, task, process, edits, requests>>

\* After the last page the folder is removed, then the job reads as finished.
RemoveReferences(j) ==
  /\ Live(j, "ready") /\ task[j].pages = <<>>
  /\ DropSnapshot(j)
  /\ Goto(j, "done")
  /\ UNCHANGED <<inputs, jobs, results, task, process, edits, requests>>

Finish(j) ==
  /\ Live(j, "done")
  /\ End(j, "succeeded", "leaving")
  /\ UNCHANGED <<inputs, results, snapshots, task, process, edits, requests>>

LeaveNothing(j) ==   \* mutant
  /\ Live(j, "leaving")
  /\ disk' = {f \in disk : f[1] # j}
  /\ DropSnapshot(j)
  /\ task' = [task EXCEPT ![j] = NoTask]
  /\ Goto(j, "idle")
  /\ UNCHANGED <<inputs, jobs, images, abandoned, process, edits, requests>>

LeaveFiles(j) ==   \* mutant
  /\ Live(j, "leaving")
  /\ DropSnapshot(j)
  /\ task' = [task EXCEPT ![j] = NoTask]
  /\ Goto(j, "idle")
  /\ UNCHANGED <<inputs, jobs, results, process, edits, requests>>

\* runRender returns: files whose rows were not inserted are removed, and by
\* its defer the folder.
Leave(j) ==
  /\ Live(j, "leaving")
  /\ disk' = disk \ ToSet(task[j].assets)
  /\ DropSnapshot(j)
  /\ task' = [task EXCEPT ![j] = NoTask]
  /\ Goto(j, "idle")
  /\ UNCHANGED <<inputs, jobs, images, abandoned, process, edits, requests>>

---------------------------------------------------------------------------
(* Failures and the process.                                               *)

\* withJob's function fails in the database and the job is marked failed.
StorageFails(j) ==
  /\ app # "down" /\ pc[j] \in {"checked", "kept"}
  /\ End(j, "failed", "leaving")
  /\ UNCHANGED <<inputs, results, snapshots, task, process, edits, requests>>

\* A panic runs the defer, forgets the answer's files, and then start's
\* recover interrupts the job.
Panic(j) ==
  /\ app # "down" /\ pc[j] \in {"ready", "checked", "calling", "kept", "done"}
  /\ DropSnapshot(j)
  /\ abandoned' = abandoned \cup ToSet(task[j].assets)
  /\ task' = [task EXCEPT ![j] = NoTask]
  /\ Goto(j, "panicked")
  /\ UNCHANGED <<inputs, jobs, images, disk, process, edits, requests>>

Recovered(j) ==
  /\ Live(j, "panicked")
  /\ End(j, "interrupted", "idle")
  /\ UNCHANGED <<inputs, results, snapshots, task, process, edits, requests>>

\* A terminal write, or withJob's connection, fails: it is logged and the
\* row still says running.
LoseJob(j) ==
  /\ app # "down" /\ pc[j] \notin {"idle", "leaving"}
  /\ pc[j] = "admitted" => app = "closing"
  /\ lost' = lost \cup {j}
  /\ LET returns == pc[j] \notin {"frozen", "admitted", "panicked"}
         forgets == pc[j] = "calling"
     IN /\ Goto(j, IF returns THEN "leaving" ELSE "idle")
        /\ task' = [task EXCEPT ![j] = IF returns /\ ~forgets THEN @ ELSE NoTask]
        /\ abandoned' = abandoned \cup IF forgets THEN ToSet(task[j].assets) ELSE {}
  /\ UNCHANGED <<inputs, jobs, images, disk, snapshots, app, edits, requests>>

Close ==
  /\ app = "open"
  /\ app' = "closing"
  /\ UNCHANGED <<inputs, jobs, results, snapshots, pc, task, edits, lost, requests>>

\* The process ends, with or without waiting for the goroutines; an answer's
\* files stay.
Stop ==
  /\ app # "down"
  /\ app' = "down"
  /\ abandoned' = abandoned \cup UNION {ToSet(task[j].assets) : j \in JobIds}
  /\ pc' = [j \in JobIds |-> "idle"]
  /\ task' = [j \in JobIds |-> NoTask]
  /\ UNCHANGED <<inputs, jobs, images, disk, snapshots, edits, lost, requests>>

\* Startup: Recover interrupts the rows left running and removes every
\* folder; the digest cache starts empty.
Restart ==
  /\ app = "down"
  /\ app' = "open"
  /\ jobs' = [j \in JobIds |->
                [jobs[j] EXCEPT !.status = IF @ = "running" THEN "interrupted" ELSE @]]
  /\ snapshots' = {}
  /\ cache' = file
  /\ UNCHANGED <<docs, injection, profile, file, results, pc, task, edits, lost,
                 requests>>

User ==
  \/ \E current \in [Pages -> BOOLEAN] :
       \/ \E p \in Pages, text \in Texts : SavePage(p, text, current)
       \/ EditUpstream(current)
  \/ \E text \in Injections : SaveInjection(text)
  \/ \E withReference \in BOOLEAN : SaveProfile(withReference)
  \/ \E content \in Contents \cup {0}, sameStamp \in BOOLEAN :
       ReplaceFile(content, sameStamp)

\* The pages a command may choose, in page order.
PageChoices ==
  {chosen \in BoundedSeq(Pages, Cardinality(Pages)) :
     \A i, k \in DOMAIN chosen : i < k => chosen[i] < chosen[k]}

Goroutine(j) ==
  \/ Materialize(j)
  \/ Start(j)
  \/ CheckContext(j)
  \/ Submit(j)
  \/ SaveAsset(j)
  \/ CallFails(j)
  \/ Returned(j)
  \/ InsertRows(j)
  \/ RemoveReferences(j)
  \/ Finish(j)
  \/ Leave(j)
  \/ Recovered(j)

Next ==
  \/ User
  \/ \E j \in JobIds : \/ \E chosen \in PageChoices : Admit(j, chosen)
                     \/ Goroutine(j)
                     \/ Panic(j) \/ StorageFails(j) \/ LoseJob(j)
  \/ Close
  \/ Stop
  \/ Restart

Spec == Init /\ [][Next]_vars

\* The Go scheduler runs goroutines and commands, and the image client's
\* deadline ends every call.  No user, crash or restart is owed.
FairSpec == Spec /\ \A j \in JobIds : WF_vars(Goroutine(j))

---------------------------------------------------------------------------
(* Properties.                                                             *)

\* However it renders, a job's row, goroutine and paid calls live as
\* JobLedger promises.
ledgerStatus == [j \in JobIds |-> jobs[j].status]
ledgerWork == [j \in JobIds |-> IF jobs[j].status = "none" THEN "no work" ELSE "work"]
ledgerWorker == [j \in JobIds |->
                   CASE pc[j] \in {"idle", "leaving"}    -> "idle"
                     [] pc[j] \in {"frozen", "admitted"} -> "admitted"
                     [] pc[j] = "calling"                -> "calling"
                     [] OTHER                            -> "active"]

Ledger == INSTANCE JobLedger WITH
  Works <- {"work"}, NoWork <- "no work",
  status <- ledgerStatus, work <- ledgerWork, worker <- ledgerWorker

ImplementsLedger == Ledger!Spec

ShownIgnoringProfile(i) ==   \* mutant
  LET doc == docs[i.file[2]]
  IN /\ doc.current /\ doc.text = i.text
     /\ i.injection = injection /\ i.file \in disk

\* chapterImages: the workspace shows an image as current while its page,
\* the injection, the visual profile and its file are as when it was made.
ShownAsCurrent(i) ==
  LET doc == docs[i.file[2]]
  IN /\ doc.current /\ doc.text = i.text
     /\ i.injection = injection
     /\ i.visual = profile.revision /\ i.board = currentBoard
     /\ i.file \in disk

\* An image shown as current was drawn by the provider from exactly what the
\* workspace now holds: this body, this injection, this constitution and a
\* reference with the saved digest, whatever was edited, reverted or replaced
\* on disk before, during and after its call.
CurrentImageIsTrue ==
  \A i \in images : ShownAsCurrent(i) =>
    [job |-> i.file[1], page |-> i.file[2], text |-> docs[i.file[2]].text,
     injection |-> injection, visual |-> profile.revision,
     reference |-> profile.reference] \in requests

\* A page that was paid for while nobody edited is not shown as outdated
\* when its row appears: admission, row and workspace agree on what the
\* inputs are, also where the digest cache is wrong.
NotBornOutdated ==
  [][\A i \in images' \ images :
       jobs[i.file[1]].since = edits => ShownAsCurrent(i)']_vars

\* The provider only ever sees a reference whose digest is the one admitted
\* with the job, though the file may be replaced before, while and after it
\* is copied.  (visual.go: an edited reference never reaches the provider.)
ReferencesAreTheAdmittedOnes ==
  \A j \in JobIds : pc[j] \in {"ready", "checked", "calling", "kept"} =>
    \A r \in requests : r.job = j => r.reference = task[j].reference

\* An image file without a row belongs to a call under way or a goroutine
\* about to remove it, unless a crash, a panic or a failed call left it.
NoUntrackedImages ==
  \A f \in disk \ abandoned :
    \/ \E i \in images : i.file = f
    \/ \E j \in JobIds : pc[j] # "idle" /\ f \in ToSet(task[j].assets)

\* The progress of a render is the number of its pages that have an image,
\* and the images are there: a failure keeps the pages already paid for, and
\* success means every chosen page.
PagesOf(j) == {i.file[2] : i \in {k \in images : k.file[1] = j}}
ProgressIsTrue ==
  /\ \A j \in JobIds :
       /\ jobs[j].done = Cardinality(PagesOf(j))
       /\ jobs[j].status = "succeeded" => jobs[j].done = jobs[j].total
  /\ \A i \in images : i.file \in disk

\* While the service is open a reference folder belongs to a job under way,
\* and none is left when a job reads as finished: copies of the user's
\* images do not pile up over failures, panics and restarts.
SnapshotsAreOwned ==
  \A s \in snapshots :
    /\ app = "open" => pc[s[1]] # "idle"
    /\ jobs[s[1]].status # "succeeded"

\* Every render comes to an end, on the command's side or the goroutine's.
EveryRenderEnds == \A j \in JobIds : (pc[j] # "idle") ~> (pc[j] = "idle")
=============================================================================
