----------------------------- MODULE ComicJobs -----------------------------
(***************************************************************************)
(* The text jobs of the comic workspace (internal/comic jobs.go, sync.go): *)
(* generation of one stage, optimization of a document with its downstream *)
(* documents, and the sync of a chapter, each running beside the user who  *)
(* keeps editing the same documents.                                       *)
(*                                                                         *)
(* One novel work.  A job reads the database when it is admitted and       *)
(* before each paid call, calls the provider without holding the database, *)
(* and applies the answer in an IMMEDIATE transaction that checks again    *)
(* what it relies on.  pc is where a job's goroutine stands, task its      *)
(* local variables.                                                        *)
(***************************************************************************)
EXTENDS Lineage

CONSTANTS
  JobIds,        \* job identifiers (newID)
  JobKinds,      \* the job kinds this instance admits
  Bodies,        \* [Kinds -> SUBSET Texts]: bodies users and models write
  Sources,       \* chapter texts users write
  InitialBooks,  \* books the work may start from
  MaxEdits       \* bound on the user's edits

Stages == {"settings", "script", "storyboard", "page_prompts"}

ASSUME ComicJobsAssumption ==
  /\ JobKinds \subseteq Stages \cup {"optimize", "sync"}
  /\ Bodies \in [Kinds -> SUBSET Texts]
  /\ Sources \subseteq Texts
  /\ InitialBooks \subseteq Books
  /\ MaxEdits \in Nat

VARIABLES
  book,       \* comic_md_documents and the chapters' current source revisions
  visual,     \* revision of the work visual profile
  injection,  \* revision of the render options (prompt injection)
  jobs,       \* comic_md_jobs
  pc,         \* where each job's goroutine stands
  task,       \* each goroutine's local variables
  app,        \* the process: open, closing (Close was called) or down
  edits,      \* edits of the user so far
  lost,       \* jobs whose terminal write failed
  billed      \* history: the documents each job has submitted to the provider

store == <<book, visual, injection>>
process == <<app, lost>>
vars == <<book, visual, injection, jobs, pc, task, app, edits, lost, billed>>

Terminal == {"succeeded", "failed", "interrupted"}

\* Why a job failed (the message finishJob stores).
Reasons == {"none", "provider", "answer", "source", "upstream", "visual",
            "edited", "guard", "plan", "blocked", "scope", "storage"}

Job == [status  : {"none", "running"} \cup Terminal,
        kind    : Stages \cup {"optimize", "sync", "none"},
        chapter : Chapters \cup {0},
        done    : Nat,       \* completed_pages
        total   : Nat,       \* total_pages
        output  : BOOLEAN,   \* output_markdown is kept
        reason  : Reasons]

NoJob == [status |-> "none", kind |-> "none", chapter |-> 0, done |-> 0,
          total |-> 0, output |-> FALSE, reason |-> "none"]

Locations == {"idle", "admitted", "authorize", "ready", "checked", "calling",
              "kept", "applied", "done"}

\* What the provider was shown: source text, bodies and inherited parts,
\* visual profile and injection.
Inputs == [texts : SUBSET (Slots \X Nat), source : Nat, visual : Nat, injection : Nat]

\* todo: targets left; revisions: target revisions at admission; source,
\* deps, visual, guard: frozen inputs; allowed, pages: what a sync may
\* rewrite or add; step: the documents of the current call; answer: their
\* new bodies.  Histories: read, what the call was shown; touched, what the
\* user changed since admission; since, the edits before admission.
Source(c) == <<c, "source", 0>>
Places == Slots \cup {Source(c) : c \in Chapters}
Task == [todo : Seq(Slots), revisions : SUBSET (Slots \X Nat), source : Nat,
         deps : Receipts, visual : Nat,
         guard : Guards, allowed : SUBSET Slots, pages : SUBSET Slots,
         step : SUBSET Slots,
         answer : [Slots -> Texts \cup {0}],
         read : Inputs, touched : SUBSET Places, since : Nat]

NoGuard == [source |-> 0, local |-> {}, upstream |-> {}]
NoInputs == [texts |-> {}, source |-> 0, visual |-> 0, injection |-> 0]
NoAnswer == [s \in Slots |-> 0]
NoTask == [todo |-> <<>>, revisions |-> {}, source |-> 0, deps |-> {},
           visual |-> 0, guard |-> NoGuard, allowed |-> {}, pages |-> {},
           step |-> {}, answer |-> NoAnswer, read |-> NoInputs,
           touched |-> {}, since |-> 0]

TypeOK ==
  /\ book \in Books
  /\ visual \in Nat /\ injection \in Nat /\ edits \in Nat
  /\ jobs \in [JobIds -> Job]
  /\ pc \in [JobIds -> Locations]
  /\ task \in [JobIds -> Task]
  /\ app \in {"open", "closing", "down"}
  /\ lost \subseteq JobIds
  /\ billed \in [JobIds -> SUBSET Slots]

Init ==
  /\ book \in InitialBooks
  /\ visual = 1 /\ injection = 1 /\ edits = 0
  /\ jobs = [j \in JobIds |-> NoJob]
  /\ pc = [j \in JobIds |-> "idle"]
  /\ task = [j \in JobIds |-> NoTask]
  /\ app = "open"
  /\ lost = {}
  /\ billed = [j \in JobIds |-> {}]

---------------------------------------------------------------------------
(* The user's edits.  Every command names the revision it edited and is    *)
(* refused unless that is still the current one, so an accepted edit       *)
(* starts from the current revision.                                       *)

\* History: the user changed place while these jobs were under way.
Touch(place) ==
  task' = [j \in JobIds |->
             IF pc[j] # "idle"
               THEN [task[j] EXCEPT !.touched = @ \cup {place}] ELSE task[j]]

Edit == app # "down" /\ edits < MaxEdits /\ edits' = edits + 1

\* comic_md_document_save, with or without acknowledging the upstream.
SaveDocument(s, text, acknowledge) ==
  /\ Edit
  /\ book' = saveDocuments(book, Only(s, text), acknowledge)
  /\ Touch(s)
  /\ UNCHANGED <<visual, injection, jobs, pc, app, lost, billed>>

\* A new chapter revision (internal/novel createChapterRevision).
SaveSource(c, text) ==
  /\ Edit
  /\ book' = [book EXCEPT !.source[c] = [revision |-> @.revision + 1, text |-> text]]
  /\ Touch(Source(c))
  /\ UNCHANGED <<visual, injection, jobs, pc, app, lost, billed>>

\* comic_md_work_visual_save.
SaveVisual ==
  /\ Edit
  /\ visual' = visual + 1
  /\ UNCHANGED <<book, injection, jobs, pc, task, app, lost, billed>>

\* comic_md_render_options_save.
SaveInjection ==
  /\ Edit
  /\ injection' = injection + 1
  /\ UNCHANGED <<book, visual, jobs, pc, task, app, lost, billed>>

---------------------------------------------------------------------------
(* Admission: one transaction freezes the inputs and inserts the job.      *)

CallingJobs == {j \in JobIds : pc[j] = "calling"}   \* mutant
RunningJobs == {j \in JobIds : jobs[j].status = "running"}

\* insertJob's check: no other job of the work is running.
Admissible(j) == app # "down" /\ jobs[j].status = "none" /\ RunningJobs = {}

\* insertJob's row, and the goroutine that start will run after the commit.
insertJob(j, kind, c, total, t) ==
  /\ jobs' = [jobs EXCEPT ![j] = [NoJob EXCEPT !.status = "running", !.kind = kind,
                                     !.chapter = c, !.total = total]]
  /\ pc' = [pc EXCEPT ![j] = "admitted"]
  /\ task' = [task EXCEPT ![j] = [t EXCEPT !.since = edits]]
  /\ UNCHANGED <<book, visual, injection, app, edits, lost, billed>>

\* The document a generation stage writes; page prompts are written as one.
stageSlot(c, stage) ==
  CASE stage = "settings"     -> Settings
    [] stage = "page_prompts" -> <<c, "page_prompt", 0>>
    [] OTHER                  -> <<c, stage, 0>>

generationDocuments(b, c, stage) ==   \* mutant
  {<<s, 1>> : s \in {t \in documents(b, c) : Kind(t) = Kind(stageSlot(c, stage))}}

\* generationTargets: the document versions a generation may overwrite.
generationTargets(b, c, stage) ==
  {<<s, b.docs[s].revision>> :
     s \in {t \in documents(b, c) : Kind(t) = Kind(stageSlot(c, stage))}}

earlierScripts(b, c) ==
  {s \in Slots : Exists(b, s) /\ Kind(s) = "script" /\ Chapter(s) < c}

\* The bodies a generation prompt is built from.
generationTexts(b, c, stage) ==
  LET s == stageSlot(c, stage)
  IN {<<t, Text(b, t)>> :
        t \in {u \in documents(b, c) :
                 \/ stageRank[Kind(u)] < stageRank[Kind(s)]
                 \/ stage = "settings" /\ u = Settings}}
     \cup {<<t, StatePart(b, t)>> :
              t \in {u \in earlierScripts(b, c) : stage = "script"}}

freezeGeneration(c, stage) ==
  LET s == stageSlot(c, stage)
  IN [NoTask EXCEPT
        !.source = book.source[c].revision,
        !.deps = receipt(book, s),
        !.visual = visual,
        !.revisions = generationTargets(book, c, stage),
        !.step = IF stage = "page_prompts"
                   THEN {<<c, "page_prompt", p>> : p \in Plan(book, c)} ELSE {s},
        !.read = [texts |-> generationTexts(book, c, stage),
                  source |-> book.source[c].text,
                  visual |-> visual, injection |-> 0]]

\* generate: the chapter has text, the earlier stages are complete and
\* current, and so are the earlier chapters' scripts for a script.
Generate(j, c, stage) ==
  /\ Admissible(j) /\ stage \in JobKinds \cap Stages
  /\ book.source[c].text # 0
  /\ \A kind \in {"settings", "script", "storyboard"} :
       stageRank[kind] < stageRank[Kind(stageSlot(c, stage))]
         => Ready(book, stageSlot(c, kind))
  /\ stage = "script" => \A s \in earlierScripts(book, c) : Ready(book, s)
  /\ insertJob(j, stage, c, 0, freezeGeneration(c, stage))

\* cascadeTargets: the root and its in-plan downstream documents.
cascadeTargets(b, c, root) ==
  {s \in inPlanDocuments(b, c) :
     IF Kind(root) = "page_prompt"
       THEN Kind(s) = "page_prompt" /\ PageNo(s) >= PageNo(root)
       ELSE stageRank[Kind(s)] >= stageRank[Kind(root)]}

allPages(b, c) == {s \in inPlanDocuments(b, c) : Kind(s) = "page_prompt"}

freezeOptimization(c, targets) ==
  [NoTask EXCEPT
     !.todo = inOrder(targets),
     !.revisions = {<<s, book.docs[s].revision>> : s \in targets},
     !.source = book.source[c].revision,
     !.visual = visual,
     !.guard = guard(book, c)]

\* optimize: one document with everything downstream of it, or every page.
Optimize(j, c, targets) ==
  /\ Admissible(j) /\ "optimize" \in JobKinds
  /\ \/ \E root \in documents(book, c) : targets = cascadeTargets(book, c, root)
     \/ /\ targets = allPages(book, c)
        /\ targets # {} /\ missingPages(book, c) = {}
  /\ \A s \in targets : ContextReady(book, s)
  /\ insertJob(j, "optimize", c, Cardinality(targets), freezeOptimization(c, targets))

\* sync: the plan the user confirmed, not blocked and not empty.
Sync(j, c) ==
  /\ Admissible(j) /\ "sync" \in JobKinds
  /\ LET targets == planTargets(book, c)
         missing == missingPages(book, c)
     IN
     /\ ~planBlocked(book, c)
     /\ targets \cup missing # {}
     /\ insertJob(j, "sync", c, Cardinality(targets) + Cardinality(missing),
                  [NoTask EXCEPT !.guard = guard(book, c),
                                 !.allowed = targets, !.pages = missing])

---------------------------------------------------------------------------
(* The goroutine: plumbing.                                                *)

Live(j, location) == app # "down" /\ pc[j] = location

\* finishJob by the goroutine, which then returns.
End(j, outcome, reason, row) ==
  /\ jobs' = [jobs EXCEPT ![j] = [row EXCEPT
                !.status = IF @ = "running" THEN outcome ELSE @,
                !.reason = reason]]
  /\ pc' = [pc EXCEPT ![j] = "idle"]
  /\ task' = [task EXCEPT ![j] = NoTask]

Fail(j, reason) == End(j, "failed", reason, jobs[j])
Interrupt(j) == End(j, "interrupted", "none", jobs[j])

Goto(j, location) == pc' = [pc EXCEPT ![j] = location]

StartUnlessClosed(j) ==   \* mutant
  /\ Live(j, "admitted") /\ app # "closing"
  /\ Goto(j, IF jobs[j].kind = "sync" THEN "authorize" ELSE "ready")
  /\ UNCHANGED <<jobs, task, store, edits, process, billed>>

\* start: a closed service interrupts the job it was handed.
Start(j) ==
  /\ Live(j, "admitted")
  /\ IF app = "closing" THEN Interrupt(j)
     ELSE /\ Goto(j, IF jobs[j].kind = "sync" THEN "authorize" ELSE "ready")
          /\ UNCHANGED <<jobs, task>>
  /\ UNCHANGED <<store, edits, process, billed>>

\* Before each update of an optimization or a sync: a cancelled context
\* interrupts.  Close may still come between this check and the request.
CheckContext(j) ==
  /\ Live(j, "ready")
  /\ \/ jobs[j].kind = "sync"
     \/ jobs[j].kind = "optimize" /\ task[j].todo # <<>>
  /\ IF app = "closing" THEN Interrupt(j)
     ELSE Goto(j, "checked") /\ UNCHANGED <<jobs, task>>
  /\ UNCHANGED <<store, edits, process, billed>>

\* complete: the request leaves for the provider.
Submit(j, t) ==
  /\ task' = [task EXCEPT ![j] = t]
  /\ billed' = [billed EXCEPT ![j] = @ \cup t.step]
  /\ jobs' = [jobs EXCEPT ![j].output = FALSE]
  /\ Goto(j, "calling")

\* A generation submits what it froze.
SubmitGeneration(j) ==
  /\ Live(j, "ready") /\ jobs[j].kind \in Stages
  /\ Submit(j, task[j])
  /\ UNCHANGED <<store, edits, process>>

\* Every saved product of the chapter and the inherited parts: what an
\* optimization or sync prompt is built from.
workspaceTexts(b, c) ==
  {<<s, Text(b, s)>> : s \in documents(b, c)}
    \cup {<<s, StatePart(b, s)>> :
             s \in {t \in upstream(b, <<c, "page_prompt", 0>>) :
                      Chapter(t) \notin {0, c}}}

workspaceInputs(c) ==
  [texts |-> workspaceTexts(book, c), source |-> book.source[c].text,
   visual |-> visual, injection |-> injection]

Revision(j, s) == (CHOOSE r \in task[j].revisions : r[1] = s)[2]

---------------------------------------------------------------------------
(* Optimization.                                                           *)

\* refreshOptimization and optimizationPreflight, before each target.
refusal(j, s) ==
  CASE guard(book, jobs[j].chapter) # task[j].guard -> "guard"
    [] visual # task[j].visual                      -> "visual"
    [] OutOfPlan(book, s)                           -> "plan"
    [] ~ContextReady(book, s)                       -> "upstream"
    [] book.source[jobs[j].chapter].revision # task[j].source -> "source"
    [] book.docs[s].revision # Revision(j, s)       -> "edited"
    [] OTHER                                        -> "none"

SubmitOptimization(j) ==
  /\ Live(j, "checked") /\ jobs[j].kind = "optimize"
  /\ LET s == Head(task[j].todo)
         c == jobs[j].chapter
     IN \/ /\ refusal(j, s) # "none"
           /\ Fail(j, refusal(j, s)) /\ UNCHANGED billed
        \/ /\ refusal(j, s) = "none"
           /\ Submit(j, [task[j] EXCEPT !.step = {s}, !.deps = receipt(book, s),
                                        !.read = workspaceInputs(c)])
  /\ UNCHANGED <<store, edits, process>>

\* The loop over the targets ends.
OptimizationDone(j) ==
  /\ Live(j, "ready") /\ jobs[j].kind = "optimize" /\ task[j].todo = <<>>
  /\ Goto(j, "done")
  /\ UNCHANGED <<store, jobs, task, edits, process, billed>>

KeepGuard(j) ==   \* mutant
  /\ Live(j, "applied") /\ jobs[j].kind = "optimize"
  /\ task' = [task EXCEPT ![j].todo = Tail(@)]
  /\ Goto(j, "ready")
  /\ UNCHANGED <<store, jobs, edits, process, billed>>

\* After the applying transaction committed, the guard is read again.
Reguard(j) ==
  /\ Live(j, "applied") /\ jobs[j].kind = "optimize"
  /\ task' = [task EXCEPT ![j].guard = guard(book, jobs[j].chapter),
                          ![j].todo = Tail(@)]
  /\ Goto(j, "ready")
  /\ UNCHANGED <<store, jobs, edits, process, billed>>

---------------------------------------------------------------------------
(* Sync.                                                                   *)

\* runSync: a submitted page also authorizes the chapter's later pages,
\* unless reading them fails, which is ignored.
Authorize(j) ==
  /\ Live(j, "authorize")
  /\ LET first == {PageNo(s) : s \in {t \in task[j].allowed \cup task[j].pages :
                                        Kind(t) = "page_prompt"}}
         later == {s \in allPages(book, jobs[j].chapter) :
                     \E p \in first : PageNo(s) >= p}
     IN \E seen \in {later, {}} : task' = [task EXCEPT ![j].allowed = @ \cup seen]
  /\ Goto(j, "ready")
  /\ UNCHANGED <<store, jobs, edits, process, billed>>

\* prepareSync: the next authorized update in pipeline order; a missing page
\* comes before existing later pages.  The empty set means done.
nextUpdate(j) ==
  LET targets == planTargets(book, jobs[j].chapter) \cap task[j].allowed
      missing == missingPages(book, jobs[j].chapter) \cap task[j].pages
      target == inOrder(targets)[1]
      page == inOrder(missing)[1]
  IN IF missing # {} /\ (targets = {} \/ (Kind(target) = "page_prompt"
                                           /\ PageNo(page) < PageNo(target)))
       THEN {page}
     ELSE IF targets # {} THEN {target} ELSE {}

syncRefusal(j) ==
  LET c == jobs[j].chapter
      step == nextUpdate(j)
  IN CASE guard(book, c) # task[j].guard                      -> "guard"
       [] planBlocked(book, c)                                -> "blocked"
       [] step = {} /\ ~planEmpty(book, c)                    -> "scope"
       [] \E s \in step : ~ContextReady(book, s)              -> "upstream"
       [] OTHER                                               -> "none"

SubmitSync(j) ==
  /\ Live(j, "checked") /\ jobs[j].kind = "sync"
  /\ \/ /\ syncRefusal(j) # "none"
        /\ Fail(j, syncRefusal(j)) /\ UNCHANGED billed
     \/ /\ syncRefusal(j) = "none" /\ nextUpdate(j) # {}
        /\ Submit(j, [task[j] EXCEPT !.step = nextUpdate(j),
                                     !.read = workspaceInputs(jobs[j].chapter)])
     \/ /\ syncRefusal(j) = "none" /\ nextUpdate(j) = {}
        /\ Goto(j, "done") /\ UNCHANGED <<jobs, task, billed>>
  /\ UNCHANGED <<store, edits, process>>

\* setSyncTotal: what was done and what is left.
remainingOnly(done, remaining) == remaining   \* mutant
syncTotal(done, remaining) == done + remaining

\* Only the job's own storyboard extends its authorized pages; then the
\* total is set again.
Extend(j) ==
  /\ Live(j, "applied") /\ jobs[j].kind = "sync"
  /\ LET c == jobs[j].chapter
         own == task[j].step = {Storyboard(c)}
         targets == planTargets(book, c)
         missing == missingPages(book, c)
         pageTargets == {s \in targets : Kind(s) = "page_prompt"}
         allowed == task[j].allowed \cup IF own THEN pageTargets ELSE {}
         pages == task[j].pages \cup IF own THEN missing ELSE {}
     IN /\ task' = [task EXCEPT ![j].allowed = allowed, ![j].pages = pages]
        /\ jobs' = [jobs EXCEPT ![j].total =
                      syncTotal(jobs[j].done, Cardinality((targets \cap allowed)
                                                            \cup (missing \cap pages)))]
  /\ Goto(j, "ready")
  /\ UNCHANGED <<store, edits, process, billed>>

---------------------------------------------------------------------------
(* The provider's answer.                                                  *)

\* The call fails: the shutdown's cancellation interrupts, anything else
\* fails the job; it is never sent again.
CallFails(j) ==
  /\ Live(j, "calling")
  /\ IF app = "closing" THEN Interrupt(j) ELSE Fail(j, "provider")
  /\ UNCHANGED <<store, edits, process, billed>>

\* A truncated or refused answer stays on the job for copying.
UnusableAnswer(j) ==
  /\ Live(j, "calling")
  /\ End(j, "failed", "answer", [jobs[j] EXCEPT !.output = TRUE])
  /\ UNCHANGED <<store, edits, process, billed>>

\* keepOutput: a complete answer is stored raw before it is judged.  Its
\* bodies may be wrong, and a page answer may hold other pages than asked.
Answers(j) ==
  IF jobs[j].kind = "page_prompts"
    THEN {a \in [Slots -> Bodies["page_prompt"] \cup {0}] :
            \A s \in Slots : a[s] # 0 => Kind(s) = "page_prompt"
                                          /\ Chapter(s) = jobs[j].chapter}
    ELSE {Only(s, text) : s \in task[j].step,
                          text \in UNION {Bodies[Kind(t)] : t \in task[j].step}}

KeepOutput(j, answer) ==
  /\ Live(j, "calling")
  /\ task' = [task EXCEPT ![j].answer = answer]
  /\ jobs' = [jobs EXCEPT ![j].output = TRUE]
  /\ Goto(j, "kept")
  /\ UNCHANGED <<store, edits, process, billed>>

Answered(answer) == {s \in Slots : answer[s] # 0}
ValidAnswer(answer) == \A s \in Answered(answer) : Complete[answer[s]]

---------------------------------------------------------------------------
(* Applying an answer, in one IMMEDIATE transaction.                       *)

\* The transaction saves the answer, acknowledging today's upstream.
SaveUnread(j) == book' = saveDocuments(book, task[j].answer, FALSE)   \* mutant
Save(j) == book' = saveDocuments(book, task[j].answer, TRUE)

Refuse(j, reason) == Fail(j, reason) /\ UNCHANGED book

\* applyGeneration: saves only while neither the source, the upstream
\* documents, the visual profile nor the target documents changed.
generationRefusal(j) ==
  LET c == jobs[j].chapter
      stage == jobs[j].kind
      t == task[j]
  IN CASE book.source[c].revision # t.source                  -> "source"
       [] receipt(book, stageSlot(c, stage)) # t.deps          -> "upstream"
       [] visual # t.visual                                    -> "visual"
       [] generationTargets(book, c, stage) # t.revisions      -> "edited"
       [] /\ stage = "page_prompts"
          /\ ~Ready(book, Storyboard(c))                       -> "upstream"
       [] /\ stage = "page_prompts"
          /\ Answered(t.answer) #
               {<<c, "page_prompt", p>> : p \in Plan(book, c)} -> "answer"
       [] ~ValidAnswer(t.answer)                               -> "answer"
       [] OTHER                                                -> "none"

ApplyGeneration(j) ==
  /\ Live(j, "kept") /\ jobs[j].kind \in Stages
  /\ IF generationRefusal(j) # "none" THEN Refuse(j, generationRefusal(j))
     ELSE Save(j) /\ End(j, "succeeded", "none", jobs[j])
  /\ UNCHANGED <<visual, injection, edits, process, billed>>

\* applyOptimization: the preflight again, then the save.
optimizationRefusal(j) ==
  LET c == jobs[j].chapter
      t == task[j]
      s == CHOOSE x \in t.step : TRUE
  IN CASE guard(book, c) # t.guard                 -> "guard"
       [] book.source[c].revision # t.source       -> "source"
       [] receipt(book, s) # t.deps                -> "upstream"
       [] book.docs[s].revision # Revision(j, s)   -> "edited"
       [] ~ValidAnswer(t.answer)                   -> "answer"
       [] OTHER                                    -> "none"

Completed(j) == jobs' = [jobs EXCEPT ![j].done = @ + 1]

ApplyOptimization(j) ==
  /\ Live(j, "kept") /\ jobs[j].kind = "optimize"
  /\ IF optimizationRefusal(j) # "none" THEN Refuse(j, optimizationRefusal(j))
     ELSE /\ Save(j) /\ Completed(j) /\ Goto(j, "applied")
          /\ UNCHANGED task
  /\ UNCHANGED <<visual, injection, edits, process, billed>>

\* applySync: the guard again; a sync never changes the page list; the new
\* guard is taken inside the transaction.
syncAnswerRefusal(j) ==
  LET c == jobs[j].chapter
      t == task[j]
      board == Storyboard(c)
  IN CASE guard(book, c) # t.guard  -> "guard"
       [] ~ValidAnswer(t.answer)    -> "answer"
       [] /\ t.step = {board}
          /\ PageList[t.answer[board]] # PageList[Text(book, board)] -> "answer"
       [] OTHER                     -> "none"

ApplySync(j) ==
  /\ Live(j, "kept") /\ jobs[j].kind = "sync"
  /\ IF syncAnswerRefusal(j) # "none" THEN Refuse(j, syncAnswerRefusal(j))
     ELSE /\ Save(j) /\ Completed(j) /\ Goto(j, "applied")
          /\ task' = [task EXCEPT ![j].guard = guard(book', jobs[j].chapter)]
  /\ UNCHANGED <<visual, injection, edits, process, billed>>

\* finish: every target is done.
Finish(j) ==
  /\ Live(j, "done")
  /\ End(j, "succeeded", "none", jobs[j])
  /\ UNCHANGED <<store, edits, process, billed>>

---------------------------------------------------------------------------
(* Failures and the process.                                               *)

\* start's recover: a panicking goroutine interrupts its job.
Panic(j) ==
  /\ app # "down" /\ pc[j] \notin {"idle", "admitted"}
  /\ Interrupt(j)
  /\ UNCHANGED <<store, edits, process, billed>>

\* A read or write of the goroutine fails; withJob still marks the job
\* failed, and what is saved stays.
StorageFails(j) ==
  /\ app # "down" /\ pc[j] \in {"checked", "calling", "kept", "applied"}
  /\ Fail(j, "storage")
  /\ UNCHANGED <<store, edits, process, billed>>

\* The database fails when the goroutine needs it: withJob and finish log
\* it, the goroutine returns, the row still says running.
LoseJob(j) ==
  /\ app # "down" /\ pc[j] # "idle"
  /\ lost' = lost \cup {j}
  /\ Goto(j, "idle")
  /\ task' = [task EXCEPT ![j] = NoTask]
  /\ UNCHANGED <<store, jobs, app, edits, billed>>

\* Close: closed is set and the jobs' context cancelled.
Close ==
  /\ app = "open"
  /\ app' = "closing"
  /\ UNCHANGED <<store, jobs, pc, task, edits, lost, billed>>

\* The process ends, with or without waiting for the goroutines.
Stop ==
  /\ app # "down"
  /\ app' = "down"
  /\ pc' = [j \in JobIds |-> "idle"]
  /\ task' = [j \in JobIds |-> NoTask]
  /\ UNCHANGED <<store, jobs, edits, lost, billed>>

\* Startup: Recover interrupts every job that still says running.
Restart ==
  /\ app = "down"
  /\ app' = "open"
  /\ jobs' = [j \in JobIds |->
                IF jobs[j].status = "running"
                  THEN [jobs[j] EXCEPT !.status = "interrupted"] ELSE jobs[j]]
  /\ UNCHANGED <<store, pc, task, edits, lost, billed>>

User ==
  \/ \E s \in Slots : \E text \in Bodies[Kind(s)], ack \in BOOLEAN :
       SaveDocument(s, text, ack)
  \/ \E c \in Chapters, text \in Sources : SaveSource(c, text)
  \/ SaveVisual
  \/ SaveInjection

Admit(j) ==
  /\ Admissible(j)
  /\ \E c \in Chapters :
    \/ \E stage \in Stages : Generate(j, c, stage)
    \/ "optimize" \in JobKinds /\ \E targets \in {allPages(book, c)} \cup
           {cascadeTargets(book, c, root) : root \in documents(book, c)} :
         Optimize(j, c, targets)
    \/ Sync(j, c)

\* The provider call returns, one way or another.
Returns(j) ==
  \/ CallFails(j)
  \/ UnusableAnswer(j)
  \/ \E answer \in Answers(j) : KeepOutput(j, answer)

Goroutine(j) ==
  \/ Start(j)
  \/ Authorize(j)
  \/ CheckContext(j)
  \/ SubmitGeneration(j)
  \/ SubmitOptimization(j)
  \/ OptimizationDone(j)
  \/ SubmitSync(j)
  \/ Returns(j)
  \/ ApplyGeneration(j)
  \/ ApplyOptimization(j)
  \/ Reguard(j)
  \/ ApplySync(j)
  \/ Extend(j)
  \/ Finish(j)

Next ==
  \/ User
  \/ \E j \in JobIds : \/ Admit(j)
                     \/ Goroutine(j)
                     \/ Panic(j) \/ StorageFails(j) \/ LoseJob(j)
  \/ Close
  \/ Stop
  \/ Restart

Spec == Init /\ [][Next]_vars

\* The Go scheduler runs the goroutines and the text client's deadline ends
\* every call.  No user, crash or restart is owed.
FairSpec == Spec /\ \A j \in JobIds : WF_vars(Goroutine(j))

---------------------------------------------------------------------------
(* Properties.                                                             *)

\* Whatever the jobs do to the documents, their rows, goroutines and calls
\* live as JobLedger promises: one running job per work, every goroutine
\* owns a running row, no terminal row changes.
ledgerStatus == [j \in JobIds |-> jobs[j].status]
ledgerWork == [j \in JobIds |-> IF jobs[j].status = "none" THEN "no work" ELSE "work"]
ledgerWorker == [j \in JobIds |->
                   IF pc[j] \in {"idle", "admitted", "calling"} THEN pc[j] ELSE "active"]

Ledger == INSTANCE JobLedger WITH
  Works <- {"work"}, NoWork <- "no work",
  status <- ledgerStatus, work <- ledgerWork, worker <- ledgerWorker

ImplementsLedger == Ledger!Spec

\* Job j applies an answer in this step.
Applies(j) == pc[j] = "kept" /\ pc'[j] # "kept" /\ book' # book

Submits(j) == pc[j] \in {"ready", "checked"} /\ pc'[j] = "calling"

\* An answer is saved only while every document and source text its prompt
\* was built from reads as it did then (and, for a generation, while the
\* visual profile does): edits, generations and chapter revisions made
\* during the paid call are noticed.
AppliedOnWhatWasRead ==
  [][\A j \in JobIds : Applies(j) =>
       LET c == jobs[j].chapter
           read == task[j].read
       IN /\ read.source = book.source[c].text
          /\ read.texts = IF jobs[j].kind \in Stages
                            THEN generationTexts(book, c, jobs[j].kind)
                            ELSE workspaceTexts(book, c)
          /\ jobs[j].kind \in Stages => read.visual = visual]_vars

\* No job writes a document the user saved after the job was admitted, in
\* any of its steps.
NeverOverwritesAnEdit ==
  [][\A j \in JobIds : Applies(j) =>
       Answered(task[j].answer) \cap task[j].touched = {}]_vars

\* A job submits a document to the provider at most once, however long the
\* cascade or the sync loop runs: nothing is billed again by itself.
PaidOnce ==
  [][\A j \in JobIds : Submits(j) => task'[j].step \cap billed[j] = {}]_vars

\* A sync submits nothing once the user changed a document or the text of
\* its chapter.
SyncStopsAtAnEdit ==
  [][\A j \in JobIds : Submits(j) /\ jobs[j].kind = "sync" =>
       \A place \in task[j].touched : Chapter(place) # jobs[j].chapter]_vars

\* What an optimization or a sync saves is current at once: nothing it
\* rewrites is left waiting for another paid update.
SavedIsCurrent ==
  [][\A j \in JobIds : Applies(j) /\ jobs[j].kind \notin Stages =>
       Answered(task[j].answer) \cap staleDocuments(book') = {}]_vars

StopsFor(j, reasons) ==
  /\ jobs[j].status = "running" /\ jobs'[j].status = "failed"
  /\ jobs'[j].reason \in reasons

\* A job ends with a message that blames a concurrent edit (of the source,
\* the upstream, the visual profile, the target, the guarded context) only
\* when the user really changed something since its admission: the job's own
\* saves never trip the checks that look for other people's.
BlamesOnlyEdits ==
  [][\A j \in JobIds :
       StopsFor(j, {"source", "visual", "edited", "guard"}
                     \cup IF jobs[j].kind \in Stages THEN {"upstream"} ELSE {})
         => edits > task[j].since]_vars

\* README: optimizing a document updates its downstream documents in
\* dependency order.  So an undisturbed optimization never stops because an
\* upstream document is stale.
OptimizationReachesDownstream ==
  [][\A j \in JobIds :
       jobs[j].kind = "optimize" /\ StopsFor(j, {"upstream"})
         => edits > task[j].since]_vars

\* The progress the user sees adds up: never more than the total, and the
\* whole of it when an optimization, or a sync nobody edited under, reports
\* success.
ProgressAddsUp ==
  \A j \in JobIds :
    /\ pc[j] # "idle"
    /\ \/ jobs[j].kind = "optimize"
       \/ jobs[j].kind = "sync" /\ task[j].touched = {}
    => /\ jobs[j].done <= jobs[j].total
       /\ pc[j] = "done" => jobs[j].done = jobs[j].total

\* jobs.go: the result is applied only if nothing it was based on changed
\* meanwhile.  The prompt of an optimization or a sync also holds the work's
\* visual profile and the render options.
NothingItWasBasedOnChanged ==
  [][\A j \in JobIds : Applies(j) /\ jobs[j].kind \notin Stages =>
       task[j].read.visual = visual /\ task[j].read.injection = injection]_vars

\* A job comes to an end, whatever the user edits and the provider answers:
\* the cascade and the sync loop terminate.
EveryJobEnds == \A j \in JobIds : (pc[j] # "idle") ~> (pc[j] = "idle")
=============================================================================
