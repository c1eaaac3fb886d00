-------------------------- MODULE ComicJobsProofs --------------------------
(***************************************************************************)
(* The text jobs of a comic work, for any chapters, pages, bodies, initial *)
(* books, edits and jobs: they live as JobLedger promises (whatever they   *)
(* read, check and save, every step of theirs is a step of the ledger or   *)
(* leaves it alone), and what they may rely on and what they promise.      *)
(***************************************************************************)
EXTENDS ComicJobs, LineageProofs, TLAPS

---------------------------------------------------------------------------
(* The ledger.                                                             *)


\* A row of comic_md_jobs, whatever is in its columns.
Columns == {"status", "kind", "chapter", "done", "total", "output", "reason"}
IsRow(r) == r = [column \in Columns |-> r[column]]

Rows ==
  /\ jobs = [j \in JobIds |-> jobs[j]]
  /\ \A j \in JobIds : IsRow(jobs[j]) /\ jobs[j].status \in {"none", "running"} \cup Terminal

LInv ==
  /\ Rows
  /\ pc \in [JobIds -> Locations]

\* An empty job table satisfies the invariant.
LEMMA InitLInv == Init => LInv
  BY DEF Init, LInv, Rows, IsRow, Columns, NoJob, Locations, Terminal

\* The building blocks of the goroutine's steps, seen from the ledger.
LEMMA EndsAJob ==
  ASSUME LInv, NEW j \in JobIds, NEW outcome \in Terminal, NEW reason, NEW row,
         IsRow(row), row.status = jobs[j].status,
         app # "down", pc[j] # "idle", End(j, outcome, reason, row),
         UNCHANGED process
  PROVE  LInv' /\ Ledger!End(j, outcome)
<1> USE DEF LInv, Rows, IsRow, Columns, Terminal, Locations, End
<1>1. LInv'
  OBVIOUS
<1>2. ledgerStatus' = [ledgerStatus EXCEPT ![j] = IF @ = "running" THEN outcome ELSE @]
  BY DEF ledgerStatus
<1>3. ledgerWorker' = [ledgerWorker EXCEPT ![j] = "idle"] /\ ledgerWorker[j] # "idle"
  BY DEF ledgerWorker
<1>4. ledgerWork' = ledgerWork
  BY DEF ledgerWork
<1> QED
  BY <1>1, <1>2, <1>3, <1>4 DEF Ledger!End, Ledger!FinishJob, process

\* A step that keeps every row's status and every worker's ledger state.
Quiet(j, location) ==
  /\ jobs' = [i \in JobIds |-> jobs'[i]]
  /\ \A i \in JobIds : IsRow(jobs'[i]) /\ jobs'[i].status = jobs[i].status
  /\ pc' = [pc EXCEPT ![j] = location]
  /\ UNCHANGED process

\* A quiet step between two places the ledger calls active is no ledger step.
LEMMA QuietStutters ==
  ASSUME LInv, NEW j \in JobIds, NEW location \in Locations, Quiet(j, location),
         pc[j] \notin {"idle", "admitted", "calling"},
         location \notin {"idle", "admitted", "calling"}
  PROVE  LInv' /\ UNCHANGED Ledger!vars
  BY DEF LInv, Rows, Quiet, process, Ledger!vars, ledgerStatus, ledgerWork, ledgerWorker

\* A quiet step from ready or checked to calling is the ledger's submit.
LEMMA QuietSubmits ==
  ASSUME LInv, NEW j \in JobIds, Quiet(j, "calling"), app # "down",
         pc[j] \in {"ready", "checked"}
  PROVE  LInv' /\ Ledger!Submit(j)
  BY DEF LInv, Rows, Quiet, process, Locations, Ledger!Submit,
         ledgerStatus, ledgerWork, ledgerWorker

\* A quiet step from calling to kept is the ledger's answer.
LEMMA QuietAnswers ==
  ASSUME LInv, NEW j \in JobIds, Quiet(j, "kept"), app # "down", pc[j] = "calling"
  PROVE  LInv' /\ Ledger!Answer(j)
  BY DEF LInv, Rows, Quiet, process, Locations, Ledger!Answer,
         ledgerStatus, ledgerWork, ledgerWorker

\* Every admission is one of the ledger's: the work has no running row.
LEMMA AdmitsAJob ==
  ASSUME LInv, NEW j \in JobIds, Admissible(j),
         NEW kind, NEW c, NEW total, NEW t, insertJob(j, kind, c, total, t)
  PROVE  LInv' /\ Ledger!Admit(j, "work")
<1> USE DEF LInv, Rows, IsRow, Columns, Admissible, insertJob, NoJob, Terminal, Locations, RunningJobs
<1>1. LInv'
  OBVIOUS
<1>2. ledgerStatus' = [ledgerStatus EXCEPT ![j] = "running"] /\ ledgerStatus[j] = "none"
  BY DEF ledgerStatus
<1>3. ledgerWorker' = [ledgerWorker EXCEPT ![j] = "admitted"]
  BY DEF ledgerWorker
<1>4. ledgerWork' = [ledgerWork EXCEPT ![j] = "work"]
  BY DEF ledgerWork
<1>5. Ledger!RunningIn("work") = {}
  BY DEF Ledger!RunningIn, ledgerStatus, ledgerWork
<1> QED
  BY <1>1, <1>2, <1>3, <1>4, <1>5 DEF Ledger!Admit

---------------------------------------------------------------------------

\* What a step of one goroutine is for the ledger.
Implements == LInv' /\ (Ledger!Next \/ UNCHANGED Ledger!vars)

\* start is the ledger's start: it runs the job or, closed, interrupts it.
LEMMA StartStep ==
  ASSUME LInv, NEW j \in JobIds, Start(j)
  PROVE  LInv' /\ Ledger!Start(j)
<1> USE DEF Start, Live
<1>1. CASE app = "closing"
  <2>1. LInv' /\ Ledger!End(j, "interrupted")
    BY <1>1, EndsAJob DEF Interrupt, LInv, Rows, Terminal
  <2>2. ledgerWorker[j] = "admitted"
    BY DEF ledgerWorker
  <2> QED BY <1>1, <2>1, <2>2 DEF Ledger!Start, Ledger!End
<1>2. CASE app # "closing"
  <2> USE DEF LInv, Rows, Goto, Locations, process
  <2>1. LInv'
    BY <1>2
  <2>2. ledgerWorker' = [ledgerWorker EXCEPT ![j] = "active"] /\ ledgerWorker[j] = "admitted"
    BY <1>2 DEF ledgerWorker
  <2>3. UNCHANGED <<ledgerStatus, ledgerWork>>
    BY <1>2 DEF ledgerStatus, ledgerWork
  <2> QED BY <1>2, <2>1, <2>2, <2>3 DEF Ledger!Start
<1> QED BY <1>1, <1>2

\* An ending step of a goroutine, whatever the reason, is a ledger end.
LEMMA FailStep ==
  ASSUME LInv, NEW j \in JobIds, NEW reason, app # "down", pc[j] # "idle",
         UNCHANGED process, Fail(j, reason) \/ Interrupt(j)
  PROVE  Implements
<1>1. ASSUME Fail(j, reason) PROVE LInv' /\ Ledger!End(j, "failed")
  BY <1>1, EndsAJob DEF Fail, LInv, Rows, Terminal
<1>2. ASSUME Interrupt(j) PROVE LInv' /\ Ledger!End(j, "interrupted")
  BY <1>2, EndsAJob DEF Interrupt, LInv, Rows, Terminal
<1> QED BY <1>1, <1>2 DEF Implements, Ledger!Next, Ledger!JobStep, Ledger!Terminal

\* A goroutine that finishes its job is a ledger end.
LEMMA SuccessStep ==
  ASSUME LInv, NEW j \in JobIds, app # "down", pc[j] # "idle",
         UNCHANGED process, End(j, "succeeded", "none", jobs[j])
  PROVE  Implements
<1>1. LInv' /\ Ledger!End(j, "succeeded")
  BY EndsAJob DEF LInv, Rows, Terminal
<1> QED BY <1>1 DEF Implements, Ledger!Next, Ledger!JobStep, Ledger!Terminal

\* A request that leaves for the provider is a ledger submit.
LEMMA SubmitStep ==
  ASSUME LInv, NEW j \in JobIds, NEW t, Submit(j, t), app # "down",
         pc[j] \in {"ready", "checked"}, UNCHANGED process
  PROVE  Implements
<1>1. jobs' = [jobs EXCEPT ![j].output = FALSE] /\ pc' = [pc EXCEPT ![j] = "calling"]
  BY DEF Submit, Goto
<1>3. IsRow(jobs[j]) => IsRow([jobs[j] EXCEPT !.output = FALSE])
  BY DEF IsRow, Columns
<1>4. Quiet(j, "calling")
  BY <1>1, <1>3 DEF Quiet, LInv, Rows, IsRow, Columns
<1>2. LInv' /\ Ledger!Submit(j)
  BY <1>4, QuietSubmits
<1> QED BY <1>2 DEF Implements, Ledger!Next, Ledger!JobStep

\* The goroutine goes on and leaves the rows alone, or only counts progress.
LEMMA MoveStep ==
  ASSUME LInv, NEW j \in JobIds, NEW location \in Locations, Goto(j, location),
         pc[j] \notin {"idle", "admitted", "calling"},
         location \notin {"idle", "admitted", "calling"}, UNCHANGED process,
         \/ UNCHANGED jobs
         \/ Completed(j)
         \/ \E total : jobs' = [jobs EXCEPT ![j].total = total]
  PROVE  Implements
<1>1. Quiet(j, location)
  BY DEF Quiet, Goto, Completed, LInv, Rows, IsRow, Columns
<1> QED BY <1>1, QuietStutters DEF Implements

\* keepOutput of a complete answer is a ledger answer.
LEMMA KeepStep ==
  ASSUME LInv, NEW j \in JobIds, NEW answer, KeepOutput(j, answer)
  PROVE  Implements
<1>1. /\ jobs' = [jobs EXCEPT ![j].output = TRUE] /\ pc' = [pc EXCEPT ![j] = "kept"]
      /\ app # "down" /\ pc[j] = "calling" /\ UNCHANGED process
  BY DEF KeepOutput, Live, Goto
<1>2. IsRow(jobs[j]) => IsRow([jobs[j] EXCEPT !.output = TRUE])
  BY DEF IsRow
<1>3. Quiet(j, "kept")
  BY <1>1, <1>2 DEF Quiet, LInv, Rows, IsRow, Columns
<1>4. LInv' /\ Ledger!Answer(j)
  BY <1>1, <1>3, QuietAnswers
<1> QED BY <1>4 DEF Implements, Ledger!Next, Ledger!JobStep

\* A truncated answer, kept for copying, ends the job as failed.
LEMMA UnusableStep ==
  ASSUME LInv, NEW j \in JobIds, UnusableAnswer(j)
  PROVE  Implements
<1> DEFINE row == [jobs[j] EXCEPT !.output = TRUE]
<1>1. IsRow(jobs[j]) /\ jobs[j].status \in {"none", "running"} \cup Terminal
  BY DEF LInv, Rows
<1>2. IsRow(row) /\ row.status = jobs[j].status
  BY <1>1 DEF IsRow, Columns
<1>3. /\ End(j, "failed", "answer", row) /\ app # "down" /\ pc[j] # "idle"
      /\ UNCHANGED process
  BY DEF UnusableAnswer, Live
<1> HIDE DEF row
<1>4. LInv' /\ Ledger!End(j, "failed")
  BY <1>2, <1>3, EndsAJob DEF Terminal
<1> QED BY <1>4 DEF Implements, Ledger!Next, Ledger!JobStep, Ledger!Terminal

\* Each step of a goroutine is a ledger step or leaves the ledger alone.
LEMMA GoroutineStep ==
  ASSUME LInv, NEW j \in JobIds, Goroutine(j)
  PROVE  Implements
<1> USE DEF Live
<1>1. CASE Start(j)
  BY <1>1, StartStep DEF Implements, Ledger!Next, Ledger!JobStep
<1>2. CASE Authorize(j)
  <2>1. /\ Goto(j, "ready") /\ pc[j] = "authorize" /\ UNCHANGED <<jobs, process>>
    BY <1>2 DEF Authorize
  <2> QED BY <2>1, MoveStep DEF Locations
<1>3. CASE SubmitGeneration(j)
  BY <1>3, SubmitStep DEF SubmitGeneration
<1>4. CASE SubmitOptimization(j)
  <2>1. /\ app # "down" /\ pc[j] = "checked" /\ UNCHANGED process
        /\ \/ \E reason : Fail(j, reason)
           \/ \E t : Submit(j, t)
    BY <1>4 DEF SubmitOptimization
  <2> QED BY <2>1, FailStep, SubmitStep
<1>5. CASE OptimizationDone(j)
  <2>1. /\ Goto(j, "done") /\ pc[j] = "ready" /\ UNCHANGED <<jobs, process>>
    BY <1>5 DEF OptimizationDone
  <2> QED BY <2>1, MoveStep DEF Locations
<1>6. CASE SubmitSync(j)
  <2>1. /\ app # "down" /\ pc[j] = "checked" /\ UNCHANGED process
        /\ \/ \E reason : Fail(j, reason)
           \/ \E t : Submit(j, t)
           \/ Goto(j, "done") /\ UNCHANGED jobs
    BY <1>6 DEF SubmitSync
  <2>2. CASE Goto(j, "done") /\ UNCHANGED jobs
    BY <2>1, <2>2, MoveStep DEF Locations
  <2> QED BY <2>1, <2>2, FailStep, SubmitStep
<1>7. CASE Returns(j)
  <2>1. CASE CallFails(j)
    BY <2>1, FailStep DEF CallFails
  <2>2. CASE UnusableAnswer(j)
    BY <2>2, UnusableStep
  <2>3. ASSUME NEW answer, KeepOutput(j, answer) PROVE Implements
    BY <2>3, KeepStep
  <2> QED BY <1>7, <2>1, <2>2, <2>3 DEF Returns
<1>8. CASE ApplyGeneration(j)
  <2>1. /\ app # "down" /\ pc[j] = "kept" /\ UNCHANGED process
        /\ \/ \E reason : Fail(j, reason)
           \/ End(j, "succeeded", "none", jobs[j])
    BY <1>8 DEF ApplyGeneration, Refuse
  <2> QED BY <2>1, FailStep, SuccessStep
<1>9. CASE ApplyOptimization(j)
  <2>1. /\ app # "down" /\ pc[j] = "kept" /\ UNCHANGED process
        /\ \/ \E reason : Fail(j, reason)
           \/ Completed(j) /\ Goto(j, "applied")
    BY <1>9 DEF ApplyOptimization, Refuse
  <2> QED BY <2>1, FailStep, MoveStep DEF Locations
<1>10. CASE Reguard(j)
  <2>1. /\ Goto(j, "ready") /\ pc[j] = "applied" /\ UNCHANGED <<jobs, process>>
    BY <1>10 DEF Reguard
  <2> QED BY <2>1, MoveStep DEF Locations
<1>11. CASE ApplySync(j)
  <2>1. /\ app # "down" /\ pc[j] = "kept" /\ UNCHANGED process
        /\ \/ \E reason : Fail(j, reason)
           \/ Completed(j) /\ Goto(j, "applied")
    BY <1>11 DEF ApplySync, Refuse
  <2> QED BY <2>1, FailStep, MoveStep DEF Locations
<1>12. CASE Extend(j)
  <2>1. /\ Goto(j, "ready") /\ pc[j] = "applied" /\ UNCHANGED process
        /\ \E total : jobs' = [jobs EXCEPT ![j].total = total]
    BY <1>12 DEF Extend
  <2> QED BY <2>1, MoveStep DEF Locations
<1>13. CASE Finish(j)
  BY <1>13, SuccessStep DEF Finish
<1>14. CASE CheckContext(j)
  <2>1. /\ app # "down" /\ pc[j] = "ready" /\ UNCHANGED process
        /\ \/ Interrupt(j)
           \/ Goto(j, "checked") /\ UNCHANGED jobs
    BY <1>14 DEF CheckContext
  <2> QED BY <2>1, FailStep, MoveStep DEF Locations
<1> QED
  BY <1>1, <1>2, <1>3, <1>4, <1>5, <1>6, <1>7, <1>8, <1>9, <1>10, <1>11, <1>12, <1>13, <1>14
  DEF Goroutine

\* generate, optimize and sync admit a job as the ledger does.
LEMMA AdmitStep ==
  ASSUME LInv, NEW j \in JobIds, Admit(j)
  PROVE  Implements
<1>1. PICK kind, c, total, t : insertJob(j, kind, c, total, t)
  BY DEF Admit, Generate, Optimize, Sync
<1>2. LInv' /\ Ledger!Admit(j, "work")
  BY <1>1, AdmitsAJob DEF Admit
<1> QED BY <1>2 DEF Implements, Ledger!Next

\* The user edits documents, sources and settings, never a job.
LEMMA UserStep ==
  ASSUME LInv, User
  PROVE  Implements
<1>1. UNCHANGED <<jobs, pc, app, lost>>
  BY DEF User, SaveDocument, SaveSource, SaveVisual, SaveInjection
<1> QED
  BY <1>1 DEF Implements, LInv, Rows, Ledger!vars, ledgerStatus, ledgerWork, ledgerWorker

\* Steps of the process, and a goroutine the database fails.
LEMMA ProcessStep ==
  ASSUME LInv, Close \/ Stop \/ Restart \/ \E j \in JobIds : LoseJob(j)
  PROVE  Implements
<1> USE DEF LInv, Rows
<1>1. CASE Close
  <2>1. LInv' /\ Ledger!Close
    BY <1>1 DEF Close, Ledger!Close, ledgerStatus, ledgerWork, ledgerWorker
  <2> QED BY <2>1 DEF Implements, Ledger!Next
<1>2. CASE Stop
  <2>1. LInv' /\ Ledger!Stop
    BY <1>2 DEF Stop, Locations, Ledger!Stop, ledgerStatus, ledgerWork, ledgerWorker
  <2> QED BY <2>1 DEF Implements, Ledger!Next
<1>3. CASE Restart
  <2>1. LInv'
    BY <1>3 DEF Restart, IsRow, Columns, Terminal
  <2>2. Ledger!Restart
    BY <1>3 DEF Restart, IsRow, Columns, Ledger!Restart, ledgerStatus, ledgerWork, ledgerWorker
  <2> QED BY <2>1, <2>2 DEF Implements, Ledger!Next
<1>4. ASSUME NEW j \in JobIds, LoseJob(j)
      PROVE  Implements
  <2>1. LInv'
    BY <1>4 DEF LoseJob, Goto, Locations
  <2>2. /\ app # "down" /\ pc[j] # "idle" /\ pc' = [pc EXCEPT ![j] = "idle"]
        /\ UNCHANGED <<jobs, app>>
    BY <1>4 DEF LoseJob, Goto
  <2>3. ledgerWorker' = [ledgerWorker EXCEPT ![j] = "idle"] /\ ledgerWorker[j] # "idle"
    BY <2>2 DEF Locations, ledgerWorker
  <2>4. UNCHANGED <<ledgerStatus, ledgerWork>>
    BY <2>2 DEF ledgerStatus, ledgerWork
  <2>5. lost' = lost \cup {j}
    BY <1>4 DEF LoseJob
  <2>6. Ledger!LoseJob(j)
    BY <2>2, <2>3, <2>4, <2>5 DEF Ledger!LoseJob
  <2> QED BY <2>1, <2>6 DEF Implements, Ledger!Next
<1> QED BY <1>1, <1>2, <1>3, <1>4

\* Every step keeps the invariant and is a step of the ledger or a stutter.
LEMMA StepImplements == LInv /\ [Next]_vars => LInv' /\ [Ledger!Next]_Ledger!vars
<1> SUFFICES ASSUME LInv, [Next]_vars
             PROVE  Implements
  BY DEF Implements
<1>1. ASSUME NEW j \in JobIds, Panic(j) PROVE Implements
  BY <1>1, FailStep DEF Panic
<1>3. ASSUME NEW j \in JobIds, StorageFails(j) PROVE Implements
  BY <1>3, FailStep DEF StorageFails
<1>2. CASE UNCHANGED vars
  BY <1>2 DEF vars, store, process, Implements, LInv, Rows,
              Ledger!vars, ledgerStatus, ledgerWork, ledgerWorker
<1> QED
  BY <1>1, <1>2, <1>3, UserStep, AdmitStep, GoroutineStep, ProcessStep DEF Next

\* The initial states are initial states of the ledger.
LEMMA InitImplements == Init => Ledger!Init
  BY DEF Init, Ledger!Init, NoJob, ledgerStatus, ledgerWork, ledgerWorker

\* The text jobs implement the ledger.
THEOREM JobsImplementLedger == Spec => ImplementsLedger
<1>1. Init => LInv
  BY InitLInv
<1>2. LInv /\ [Next]_vars => LInv'
  BY StepImplements
<1>3. Spec => []LInv
  BY <1>1, <1>2, PTL DEF Spec
<1>4. LInv /\ [Next]_vars => [Ledger!Next]_Ledger!vars
  BY StepImplements
<1> QED
  BY <1>3, <1>4, InitImplements, PTL DEF Spec, ImplementsLedger, Ledger!Spec

---------------------------------------------------------------------------
(* Types.                                                                  *)

\* A working goroutine has a running row with a chapter and a kind; it has a
\* target under way exactly where an optimization should have one.
Fits(row, location, t) ==
  location # "idle" =>
    /\ row.status = "running"
    /\ row.chapter \in Chapters
    /\ row.kind \in Stages \cup {"optimize", "sync"}
    /\ row.kind \in Stages => location \in {"admitted", "ready", "calling", "kept"}
    /\ row.kind = "optimize" => location # "authorize"
    /\ row.kind = "optimize" /\ location \in {"checked", "calling", "kept", "applied"} => t.todo # <<>>

AtWork(j) == Fits(jobs[j], pc[j], task[j])

\* One goroutine at a time.
Alone == \A i, j \in JobIds : jobs[i].status = "running" /\ jobs[j].status = "running" => i = j

\* No goroutine outlives the process.
NobodyWhenDown == app = "down" => \A j \in JobIds : pc[j] = "idle"

TInv == TypeOK /\ Alone /\ NobodyWhenDown /\ \A j \in JobIds : AtWork(j)

\* Rows stay rows.
LEMMA RowFields ==
  ASSUME NEW r \in Job
  PROVE  /\ \A outcome \in Terminal, reason \in Reasons :
              [r EXCEPT !.status = IF @ = "running" THEN outcome ELSE @, !.reason = reason] \in Job
         /\ \A status \in Terminal : [r EXCEPT !.status = status] \in Job
         /\ \A value \in BOOLEAN : [r EXCEPT !.output = value] \in Job
         /\ \A total \in Nat : [r EXCEPT !.total = total] \in Job
         /\ [r EXCEPT !.done = @ + 1] \in Job
<1> DEFINE Statuses == {"none", "running"} \cup Terminal
           JobKinds1 == Stages \cup {"optimize", "sync", "none"}
<1>1. /\ r = [status |-> r.status, kind |-> r.kind, chapter |-> r.chapter, done |-> r.done,
              total |-> r.total, output |-> r.output, reason |-> r.reason]
      /\ r.status \in Statuses /\ r.kind \in JobKinds1 /\ r.chapter \in Chapters \cup {0}
      /\ r.done \in Nat /\ r.total \in Nat /\ r.reason \in Reasons
  BY DEF Job
<1>2. r.output \in BOOLEAN
  BY Zenon DEF Job
<1>3. \A status \in Statuses, done, total \in Nat, output \in BOOLEAN, reason \in Reasons :
        [status |-> status, kind |-> r.kind, chapter |-> r.chapter, done |-> done,
         total |-> total, output |-> output, reason |-> reason] \in Job
  <2>1. Job = [status : Statuses, kind : JobKinds1, chapter : Chapters \cup {0}, done : Nat,
               total : Nat, output : BOOLEAN, reason : Reasons]
    BY DEF Job
  <2>2. r.kind \in JobKinds1 /\ r.chapter \in Chapters \cup {0}
    BY <1>1
  <2> HIDE DEF Statuses, JobKinds1
  <2> QED BY <2>1, <2>2, Zenon
<1> HIDE DEF JobKinds1
<1>4. ASSUME NEW outcome \in Terminal, NEW reason \in Reasons
      PROVE  [r EXCEPT !.status = IF @ = "running" THEN outcome ELSE @, !.reason = reason] \in Job
  <2> DEFINE ending == IF r.status = "running" THEN outcome ELSE r.status
  <2>1. ending \in Statuses
    BY <1>1
  <2> HIDE DEF ending
  <2>2. [r EXCEPT !.status = ending, !.reason = reason] =
          [status |-> ending, kind |-> r.kind, chapter |-> r.chapter, done |-> r.done,
           total |-> r.total, output |-> r.output, reason |-> reason]
    <3>1. r = [status |-> r.status, kind |-> r.kind, chapter |-> r.chapter, done |-> r.done,
               total |-> r.total, output |-> r.output, reason |-> r.reason]
      BY <1>1
    <3>2. [r EXCEPT !.status = ending] =
            [status |-> ending, kind |-> r.kind, chapter |-> r.chapter, done |-> r.done,
             total |-> r.total, output |-> r.output, reason |-> r.reason]
      BY <3>1
    <3>3. [r EXCEPT !.status = ending, !.reason = reason]
            = [[r EXCEPT !.status = ending] EXCEPT !.reason = reason]
      OBVIOUS
    <3>4. [[r EXCEPT !.status = ending] EXCEPT !.reason = reason] =
            [status |-> ending, kind |-> r.kind, chapter |-> r.chapter, done |-> r.done,
             total |-> r.total, output |-> r.output, reason |-> reason]
      <4> DEFINE half == [r EXCEPT !.status = ending]
      <4>1. half = [status |-> ending, kind |-> r.kind, chapter |-> r.chapter, done |-> r.done,
                    total |-> r.total, output |-> r.output, reason |-> r.reason]
        BY <3>2
      <4> HIDE DEF half
      <4>2. [half EXCEPT !.reason = reason] =
              [status |-> ending, kind |-> r.kind, chapter |-> r.chapter, done |-> r.done,
               total |-> r.total, output |-> r.output, reason |-> reason]
        BY <4>1
      <4> QED BY <4>2 DEF half
    <3> QED BY <3>3, <3>4
  <2>4. /\ r.done \in Nat /\ r.total \in Nat
    BY <1>1
  <2>5. [status |-> ending, kind |-> r.kind, chapter |-> r.chapter, done |-> r.done,
         total |-> r.total, output |-> r.output, reason |-> reason] \in Job
    <3> HIDE DEF Statuses
    <3> QED BY <1>2, <1>3, <2>1, <2>4, Zenon
  <2>3. [r EXCEPT !.status = ending, !.reason = reason] \in Job
    BY <2>2, <2>5, Zenon
  <2> QED BY <2>3 DEF ending
<1>5. ASSUME NEW status \in Terminal PROVE [r EXCEPT !.status = status] \in Job
  <2>1. [r EXCEPT !.status = status] =
          [status |-> status, kind |-> r.kind, chapter |-> r.chapter, done |-> r.done,
           total |-> r.total, output |-> r.output, reason |-> r.reason]
    BY <1>1
  <2>2. status \in Statuses
    OBVIOUS
  <2> QED BY <1>1, <1>2, <1>3, <2>1, <2>2
<1>6. ASSUME NEW value \in BOOLEAN PROVE [r EXCEPT !.output = value] \in Job
  <2>1. [r EXCEPT !.output = value] =
          [status |-> r.status, kind |-> r.kind, chapter |-> r.chapter, done |-> r.done,
           total |-> r.total, output |-> value, reason |-> r.reason]
    BY <1>1
  <2> QED BY <1>1, <1>3, <2>1
<1>7. ASSUME NEW total \in Nat PROVE [r EXCEPT !.total = total] \in Job
  <2>1. [r EXCEPT !.total = total] =
          [status |-> r.status, kind |-> r.kind, chapter |-> r.chapter, done |-> r.done,
           total |-> total, output |-> r.output, reason |-> r.reason]
    BY <1>1
  <2> QED BY <1>1, <1>2, <1>3, <2>1
<1>8. [r EXCEPT !.done = @ + 1] \in Job
  <2>1. [r EXCEPT !.done = @ + 1] =
          [status |-> r.status, kind |-> r.kind, chapter |-> r.chapter, done |-> r.done + 1,
           total |-> r.total, output |-> r.output, reason |-> r.reason]
    BY <1>1
  <2>2. r.done + 1 \in Nat
    BY <1>1
  <2> QED BY <1>1, <1>2, <1>3, <2>1, <2>2
<1> QED BY <1>4, <1>5, <1>6, <1>7, <1>8

\* So do tasks.
LEMMA TaskFields ==
  ASSUME NEW t \in Task
  PROVE  /\ \A todo \in Seq(Slots) : [t EXCEPT !.todo = todo] \in Task
         /\ \A g \in Guards : [t EXCEPT !.guard = g] \in Task
         /\ \A allowed \in SUBSET Slots : [t EXCEPT !.allowed = allowed] \in Task
         /\ \A pages \in SUBSET Slots : [t EXCEPT !.pages = pages] \in Task
         /\ \A step \in SUBSET Slots : [t EXCEPT !.step = step] \in Task
         /\ \A deps \in Receipts : [t EXCEPT !.deps = deps] \in Task
         /\ \A read \in Inputs : [t EXCEPT !.read = read] \in Task
         /\ \A touched \in SUBSET Places : [t EXCEPT !.touched = touched] \in Task
         /\ \A since \in Nat : [t EXCEPT !.since = since] \in Task
         /\ \A answer \in [Slots -> Texts \cup {0}] : [t EXCEPT !.answer = answer] \in Task
  BY DEF Task

\* A new task is a task.
LEMMA NoTaskIsTyped == NoTask \in Task
<1>1. /\ <<>> \in Seq(Slots) /\ NoGuard \in Guards /\ NoInputs \in Inputs /\ {} \in Receipts
      /\ NoAnswer \in [Slots -> Texts \cup {0}]
  BY DEF NoGuard, Guards, NoInputs, Inputs, Receipts, NoAnswer
<1> QED BY <1>1 DEF NoTask, Task

\* The initial state is well typed.
LEMMA InitTInv == Init => TInv
<1> SUFFICES ASSUME Init PROVE TInv
  OBVIOUS
<1>1. NoJob \in Job
  BY DEF NoJob, Job, Reasons
<1>2. TypeOK
  BY <1>1, NoTaskIsTyped, ComicJobsAssumption DEF Init, TypeOK, Locations
<1>3. Alone /\ NobodyWhenDown /\ \A j \in JobIds : AtWork(j)
  BY DEF Init, NoJob, Alone, NobodyWhenDown, AtWork, Fits
<1> QED BY <1>2, <1>3 DEF TInv

\* What an admission or a call freezes is typed.
LEMMA InputsAreTyped ==
  ASSUME NEW b \in Books, NEW c \in Chapters
  PROVE  /\ workspaceTexts(b, c) \subseteq Slots \X Nat
         /\ \A stage \in Stages : generationTexts(b, c, stage) \subseteq Slots \X Nat
         /\ \A stage \in Stages : generationTargets(b, c, stage) \subseteq Slots \X Nat
         /\ \A stage \in Stages : receipt(b, stageSlot(c, stage)) \in Receipts
         /\ \A s \in Slots : receipt(b, s) \in Receipts
         /\ \A p \in Plan(b, c) : <<c, "page_prompt", p>> \in Slots
         /\ \A stage \in Stages \ {"page_prompts"} : stageSlot(c, stage) \in Slots
<1>1. \A t \in Slots : Text(b, t) \in Nat /\ StatePart(b, t) \in Nat /\ b.docs[t].revision \in Nat
  BY BookParts
<1>2. ASSUME NEW stage \in Stages
      PROVE  /\ stageSlot(c, stage) \in {Settings, <<c, "page_prompt", 0>>, <<c, "script", 0>>, <<c, "storyboard", 0>>}
             /\ stage # "page_prompts" => stageSlot(c, stage) \in Slots
  BY DEF Stages, stageSlot, Slots
<1>3. ASSUME NEW stage \in Stages
      PROVE  LET s == stageSlot(c, stage) IN Kind(s) = "settings" \/ (Kind(s) \in Kinds /\ Chapter(s) \in Chapters)
  BY <1>2 DEF Kind, Chapter, Kinds, Settings
<1>4. \A d \in Chapters : b.source[d].text \in Nat
  BY BookParts
<1>5. \A stage \in Stages : receipt(b, stageSlot(c, stage)) \in Receipts
  BY <1>1, <1>3, <1>4, ReceiptIsTyped
<1>6. \A s \in Slots : receipt(b, s) \in Receipts
  <2>1. \A s \in Slots : Kind(s) = "settings" \/ (Kind(s) \in Kinds /\ Chapter(s) \in Chapters)
    BY SlotParts
  <2> QED BY <1>1, <1>4, <2>1, ReceiptIsTyped
<1>7. workspaceTexts(b, c) \subseteq Slots \X Nat
  BY <1>1 DEF workspaceTexts, documents, upstream
<1>8. ASSUME NEW stage \in Stages
      PROVE  generationTexts(b, c, stage) \subseteq Slots \X Nat
  BY <1>1 DEF generationTexts, documents, earlierScripts
<1>9. ASSUME NEW stage \in Stages
      PROVE  generationTargets(b, c, stage) \subseteq Slots \X Nat
  BY <1>1 DEF generationTargets, documents
<1>10. \A p \in Plan(b, c) : <<c, "page_prompt", p>> \in Slots
  BY PlannedPages DEF Slots
<1> QED BY <1>2, <1>5, <1>6, <1>7, <1>8, <1>9, <1>10

\* A step of one job's row, goroutine and variables keeps the types.
LEMMA OneJobStep ==
  ASSUME TInv, NEW j \in JobIds, NEW row \in Job, NEW location \in Locations, NEW t \in Task,
         jobs' = [jobs EXCEPT ![j] = row],
         pc' = [pc EXCEPT ![j] = location],
         task' = [task EXCEPT ![j] = t],
         row.status = "running" => jobs[j].status = "running" \/ RunningJobs = {},
         Fits(row, location, t), app # "down",
         book' \in Books, UNCHANGED <<visual, injection, app, edits>>,
         lost' \subseteq JobIds, billed' \in [JobIds -> SUBSET Slots]
  PROVE  TInv'
<1>1. /\ jobs \in [JobIds -> Job] /\ pc \in [JobIds -> Locations] /\ task \in [JobIds -> Task]
      /\ visual \in Nat /\ injection \in Nat /\ edits \in Nat /\ app \in {"open", "closing", "down"}
  BY DEF TInv, TypeOK
<1>2. jobs' \in [JobIds -> Job] /\ pc' \in [JobIds -> Locations] /\ task' \in [JobIds -> Task]
  BY <1>1
<1>3. TypeOK'
  BY <1>1, <1>2 DEF TypeOK
<1>4. \A i \in JobIds : /\ i # j => jobs'[i] = jobs[i] /\ pc'[i] = pc[i] /\ task'[i] = task[i]
                        /\ i = j => jobs'[i] = row /\ pc'[i] = location /\ task'[i] = t
  BY <1>1
<1>5. Alone'
  BY <1>4 DEF TInv, Alone, RunningJobs
<1>6. \A i \in JobIds : AtWork(i)'
  <2> TAKE i \in JobIds
  <2>1. CASE i = j
    BY <2>1, <1>4 DEF AtWork
  <2>2. CASE i # j
    <3>1. AtWork(i)
      BY DEF TInv
    <3> QED BY <2>2, <3>1, <1>4 DEF AtWork
  <2> QED BY <2>1, <2>2
<1> QED BY <1>3, <1>5, <1>6 DEF TInv, NobodyWhenDown

\* A job that ends.
LEMMA EndKeepsTypes ==
  ASSUME TInv, NEW j \in JobIds, NEW outcome \in Terminal, NEW reason \in Reasons,
         NEW row \in Job, row.status = jobs[j].status, app # "down",
         End(j, outcome, reason, row),
         book' \in Books, UNCHANGED <<visual, injection, app, edits, lost, billed>>
  PROVE  TInv'
<1> DEFINE after == [row EXCEPT !.status = IF @ = "running" THEN outcome ELSE @, !.reason = reason]
<1>1. after \in Job
  BY RowFields
<1>2. after.status # "running"
  BY DEF Terminal, Job
<1>3. /\ jobs' = [jobs EXCEPT ![j] = after] /\ pc' = [pc EXCEPT ![j] = "idle"]
      /\ task' = [task EXCEPT ![j] = NoTask]
  BY DEF End
<1> HIDE DEF after
<1>4. "idle" \in Locations /\ Fits(after, "idle", NoTask)
  BY DEF Locations, Fits
<1>5. lost' \subseteq JobIds /\ billed' \in [JobIds -> SUBSET Slots]
  BY DEF TInv, TypeOK
<1> QED BY <1>1, <1>2, <1>3, <1>4, <1>5, NoTaskIsTyped, OneJobStep

\* A job that fails or is interrupted.
LEMMA FailKeepsTypes ==
  ASSUME TInv, NEW j \in JobIds, NEW reason \in Reasons, app # "down",
         Fail(j, reason) \/ Interrupt(j) \/ End(j, "succeeded", "none", jobs[j]),
         book' \in Books, UNCHANGED <<visual, injection, app, edits, lost, billed>>
  PROVE  TInv'
<1>1. jobs[j] \in Job
  BY DEF TInv, TypeOK
<1>2. "none" \in Reasons
  BY DEF Reasons
<1> QED BY <1>1, <1>2, EndKeepsTypes DEF Fail, Interrupt, Terminal

\* A goroutine that goes on and leaves its row and variables alone.
LEMMA MoveKeepsTypes ==
  ASSUME TInv, NEW j \in JobIds, NEW location \in Locations, app # "down",
         Goto(j, location), UNCHANGED <<jobs, task>>,
         Fits(jobs[j], location, task[j]),
         book' \in Books, UNCHANGED <<visual, injection, app, edits, lost, billed>>
  PROVE  TInv'
<1>1. /\ jobs \in [JobIds -> Job] /\ task \in [JobIds -> Task]
      /\ lost \subseteq JobIds /\ billed \in [JobIds -> SUBSET Slots]
  BY DEF TInv, TypeOK
<1>2. /\ jobs' = [jobs EXCEPT ![j] = jobs[j]] /\ task' = [task EXCEPT ![j] = task[j]]
      /\ jobs[j] \in Job /\ task[j] \in Task
  BY <1>1
<1> QED BY <1>1, <1>2, OneJobStep DEF Goto

\* A request that leaves.
LEMMA SubmitKeepsTypes ==
  ASSUME TInv, NEW j \in JobIds, NEW t \in Task, app # "down",
         Submit(j, t), Fits(jobs[j], "calling", t),
         UNCHANGED <<book, visual, injection, app, edits, lost>>
  PROVE  TInv'
<1>1. /\ jobs \in [JobIds -> Job] /\ lost \subseteq JobIds /\ billed \in [JobIds -> SUBSET Slots] /\ book \in Books
  BY DEF TInv, TypeOK
<1> DEFINE row == [jobs[j] EXCEPT !.output = FALSE]
<1>2. row \in Job
  BY <1>1, RowFields
<1>3. row.status = jobs[j].status /\ row.chapter = jobs[j].chapter /\ row.kind = jobs[j].kind
  BY <1>1 DEF Job
<1>4. jobs' = [jobs EXCEPT ![j] = row] /\ pc' = [pc EXCEPT ![j] = "calling"] /\ task' = [task EXCEPT ![j] = t]
  BY DEF Submit, Goto
<1>5. t.step \subseteq Slots
  BY DEF Task
<1>6. billed' \in [JobIds -> SUBSET Slots]
  BY <1>1, <1>5 DEF Submit
<1> HIDE DEF row
<1>7. Fits(row, "calling", t)
  BY <1>3 DEF Fits
<1> QED BY <1>1, <1>2, <1>3, <1>4, <1>6, <1>7, OneJobStep DEF Locations

\* What a new chapter revision leaves of the book.
LEMMA NewSource ==
  ASSUME NEW b \in Books, NEW c \in Chapters, NEW text \in Texts, NEW after,
         after = [b EXCEPT !.source[c] = [revision |-> @.revision + 1, text |-> text]]
  PROVE  /\ after \in Books /\ after.docs = b.docs
         /\ after.source[c].revision = b.source[c].revision + 1
         /\ \A d \in Chapters \ {c} : after.source[d] = b.source[d]
         /\ Older(b, after)
<1>1. /\ b.docs \in [Slots -> Document] /\ b.source \in [Chapters -> Sourced]
      /\ b = [docs |-> b.docs, source |-> b.source]
      /\ \A d \in Chapters : b.source[d].revision \in Nat
      /\ \A s \in Slots : b.docs[s].revision \in Nat /\ (Exists(b, s) <=> Text(b, s) # 0)
      /\ b.docs[Settings].receipt = {}
  BY BookParts
<1> DEFINE new == [revision |-> b.source[c].revision + 1, text |-> text]
           sources == [b.source EXCEPT ![c] = new]
<1>2. new \in Sourced
  BY <1>1 DEF Sourced
<1>3. after = [b EXCEPT !.source = sources]
  OBVIOUS
<1>4. sources \in [Chapters -> Sourced] /\ sources[c] = new /\ \A d \in Chapters \ {c} : sources[d] = b.source[d]
  BY <1>1, <1>2
<1> HIDE DEF sources
<1>5. after = [docs |-> b.docs, source |-> sources]
  BY <1>1, <1>3
<1>6. after.docs = b.docs /\ after.source = sources
  BY <1>5
<1>7. after \in Books
  BY <1>1, <1>4, <1>5, <1>6 DEF Books, Exists, Text
<1>8. sources[c].revision = b.source[c].revision + 1
  BY <1>4
<1>9. Older(b, after)
  <2>1. \A d \in Chapters : /\ b.source[d].revision <= sources[d].revision
                            /\ b.source[d].revision = sources[d].revision => b.source[d] = sources[d]
    <3> TAKE d \in Chapters
    <3> HIDE DEF new
    <3> QED BY <1>1, <1>4, <1>8
  <2>2. \A s \in Slots : b.docs[s].revision <= after.docs[s].revision
    BY <1>1, <1>6
  <2> QED BY <2>1, <2>2, <1>6 DEF Older
<1> QED BY <1>4, <1>6, <1>7, <1>8, <1>9

\* One body is a set of new bodies.
LEMMA OnlyIsTyped ==
  ASSUME NEW s \in Slots, NEW text \in Texts
  PROVE  /\ Only(s, text) \in NewBodies /\ Only(s, text)[s] = text /\ text # 0
         /\ \A t \in Slots : t # s => Only(s, text)[t] = 0
  BY LineageAssumption DEF Only, NewBodies

\* What the user's edit leaves of the tasks under way.
LEMMA TouchEffect ==
  ASSUME TypeOK, NEW place \in Places, Touch(place)
  PROVE  /\ task' \in [JobIds -> Task]
         /\ \A j \in JobIds :
              /\ task'[j].todo = task[j].todo /\ task'[j].revisions = task[j].revisions
              /\ task'[j].source = task[j].source /\ task'[j].deps = task[j].deps
              /\ task'[j].visual = task[j].visual /\ task'[j].guard = task[j].guard
              /\ task'[j].allowed = task[j].allowed /\ task'[j].pages = task[j].pages
              /\ task'[j].step = task[j].step /\ task'[j].answer = task[j].answer
              /\ task'[j].read = task[j].read /\ task'[j].since = task[j].since
              /\ task'[j].touched = IF pc[j] # "idle" THEN task[j].touched \cup {place} ELSE task[j].touched
<1>1. task \in [JobIds -> Task]
  BY DEF TypeOK
<1>2. task' = [j \in JobIds |-> IF pc[j] # "idle" THEN [task[j] EXCEPT !.touched = @ \cup {place}] ELSE task[j]]
  BY DEF Touch
<1>3. ASSUME NEW j \in JobIds
      PROVE  [task[j] EXCEPT !.touched = @ \cup {place}] \in Task
  <2>1. task[j] \in Task /\ task[j].touched \cup {place} \in SUBSET Places
    BY <1>1 DEF Task
  <2> QED BY <2>1, TaskFields
<1>4. task' \in [JobIds -> Task]
  BY <1>1, <1>2, <1>3
<1>5. ASSUME NEW t \in Task
      PROVE  LET u == [t EXCEPT !.touched = @ \cup {place}]
             IN /\ u.todo = t.todo /\ u.revisions = t.revisions /\ u.source = t.source /\ u.deps = t.deps
                /\ u.visual = t.visual /\ u.guard = t.guard /\ u.allowed = t.allowed /\ u.pages = t.pages
                /\ u.step = t.step /\ u.answer = t.answer /\ u.read = t.read /\ u.since = t.since
                /\ u.touched = t.touched \cup {place}
  BY DEF Task
<1>6. \A j \in JobIds : /\ task[j] \in Task
                        /\ pc[j] # "idle" => task'[j] = [task[j] EXCEPT !.touched = @ \cup {place}]
                        /\ pc[j] = "idle" => task'[j] = task[j]
  BY <1>1, <1>2
<1>7. ASSUME NEW j \in JobIds, pc[j] # "idle"
      PROVE  LET u == task'[j]
                 t == task[j]
             IN /\ u.todo = t.todo /\ u.revisions = t.revisions /\ u.source = t.source /\ u.deps = t.deps
                /\ u.visual = t.visual /\ u.guard = t.guard /\ u.allowed = t.allowed /\ u.pages = t.pages
                /\ u.step = t.step /\ u.answer = t.answer /\ u.read = t.read /\ u.since = t.since
                /\ u.touched = t.touched \cup {place}
  <2>1. task[j] \in Task /\ task'[j] = [task[j] EXCEPT !.touched = @ \cup {place}]
    BY <1>6, <1>7
  <2> QED BY <2>1, <1>5
<1> QED BY <1>4, <1>6, <1>7

\* The bodies people write are bodies.
LEMMA WrittenBodies ==
  /\ \A s \in Slots : Bodies[Kind(s)] \subseteq Texts
  /\ \A kind \in Kinds : Bodies[kind] \subseteq Texts
  /\ Sources \subseteq Texts
  BY ComicJobsAssumption, SlotParts

\* The user's edits keep the types.
LEMMA UserKeepsTypes ==
  ASSUME TInv, User
  PROVE  TInv'
<1>1. TypeOK /\ Alone /\ NobodyWhenDown /\ \A j \in JobIds : AtWork(j)
  BY DEF TInv
<1>2. /\ book \in Books /\ visual \in Nat /\ injection \in Nat /\ edits \in Nat
      /\ jobs \in [JobIds -> Job] /\ pc \in [JobIds -> Locations] /\ task \in [JobIds -> Task]
      /\ app \in {"open", "closing", "down"} /\ lost \subseteq JobIds /\ billed \in [JobIds -> SUBSET Slots]
  BY <1>1 DEF TypeOK
<1>3. UNCHANGED <<jobs, pc, app, lost, billed>> /\ edits' = edits + 1
  BY DEF User, SaveDocument, SaveSource, SaveVisual, SaveInjection, Edit
<1>4. /\ book' \in Books /\ visual' \in Nat /\ injection' \in Nat
      /\ task' \in [JobIds -> Task] /\ \A j \in JobIds : task'[j].todo = task[j].todo
  <2>1. ASSUME NEW s \in Slots, NEW text \in Bodies[Kind(s)], NEW ack \in BOOLEAN, SaveDocument(s, text, ack)
        PROVE  <1>4!:
    <3>1. text \in Texts
      BY WrittenBodies
    <3>2. book' \in Books
      BY <1>2, <2>1, <3>1, OnlyIsTyped, SaveEffect DEF SaveDocument
    <3>3. s \in Places /\ Touch(s)
      BY <2>1 DEF SaveDocument, Places
    <3> QED BY <1>1, <1>2, <2>1, <3>2, <3>3, TouchEffect DEF SaveDocument
  <2>2. ASSUME NEW c \in Chapters, NEW text \in Sources, SaveSource(c, text)
        PROVE  <1>4!:
    <3>1. text \in Texts
      BY WrittenBodies
    <3>2. book' \in Books
      BY <1>2, <2>2, <3>1, NewSource DEF SaveSource
    <3>3. Source(c) \in Places /\ Touch(Source(c))
      BY <2>2 DEF SaveSource, Places
    <3> QED BY <1>1, <1>2, <2>2, <3>2, <3>3, TouchEffect DEF SaveSource
  <2>3. CASE SaveVisual
    BY <1>2, <2>3 DEF SaveVisual
  <2>4. CASE SaveInjection
    BY <1>2, <2>4 DEF SaveInjection
  <2> QED BY <2>1, <2>2, <2>3, <2>4 DEF User
<1>5. TypeOK'
  BY <1>2, <1>3, <1>4 DEF TypeOK
<1>6. Alone' /\ NobodyWhenDown' /\ \A j \in JobIds : AtWork(j)'
  BY <1>1, <1>3, <1>4 DEF Alone, NobodyWhenDown, AtWork, Fits
<1> QED BY <1>5, <1>6 DEF TInv

\* An admitted job.
LEMMA InsertKeepsTypes ==
  ASSUME TInv, NEW j \in JobIds, NEW kind \in Stages \cup {"optimize", "sync"}, NEW c \in Chapters,
         NEW total \in Nat, NEW t \in Task, Admissible(j), insertJob(j, kind, c, total, t)
  PROVE  TInv'
<1>1. /\ jobs \in [JobIds -> Job] /\ lost \subseteq JobIds /\ billed \in [JobIds -> SUBSET Slots]
      /\ book \in Books /\ edits \in Nat
  BY DEF TInv, TypeOK
<1> DEFINE row == [NoJob EXCEPT !.status = "running", !.kind = kind, !.chapter = c, !.total = total]
           u == [t EXCEPT !.since = edits]
<1>2. NoJob \in Job /\ NoJob.done = 0
  BY DEF NoJob, Job, Reasons
<1>3. /\ row \in Job /\ row.status = "running" /\ row.kind = kind
      /\ row.chapter = c /\ row.done = 0 /\ row.total = total
  <2> DEFINE r1 == [NoJob EXCEPT !.status = "running"]
             r2 == [r1 EXCEPT !.kind = kind]
             r3 == [r2 EXCEPT !.chapter = c]
  <2>1. row = [r3 EXCEPT !.total = total]
    OBVIOUS
  <2>2. r1 \in Job /\ r1.status = "running" /\ r1.done = 0
    BY <1>2 DEF Job
  <2> HIDE DEF r1, row
  <2>3. r2 \in Job /\ r2.status = "running" /\ r2.kind = kind /\ r2.done = 0
    BY <2>2 DEF Job
  <2> HIDE DEF r2
  <2>4. r3 \in Job /\ r3.status = "running" /\ r3.kind = kind /\ r3.chapter = c /\ r3.done = 0
    BY <2>3 DEF Job
  <2> HIDE DEF r3
  <2> QED BY <2>1, <2>4 DEF Job
<1> HIDE DEF row
<1>4. u \in Task
  BY <1>1, TaskFields
<1>5. /\ jobs' = [jobs EXCEPT ![j] = row] /\ pc' = [pc EXCEPT ![j] = "admitted"]
      /\ task' = [task EXCEPT ![j] = u] /\ RunningJobs = {} /\ app # "down"
      /\ UNCHANGED <<book, visual, injection, app, edits, lost, billed>>
  BY DEF insertJob, Admissible, row
<1> HIDE DEF u
<1>6. Fits(row, "admitted", u)
  BY <1>3 DEF Fits
<1> QED BY <1>1, <1>3, <1>4, <1>5, <1>6, OneJobStep DEF Locations

\* What generate freezes is a task.
LEMMA FrozenIsTyped ==
  ASSUME TypeOK, NEW c \in Chapters, NEW stage \in Stages
  PROVE  freezeGeneration(c, stage) \in Task
<1>1. book \in Books /\ visual \in Nat
  BY DEF TypeOK
<1> DEFINE source == book.source[c].revision
           deps == receipt(book, stageSlot(c, stage))
           revisions == generationTargets(book, c, stage)
           step == IF stage = "page_prompts"
                     THEN {<<c, "page_prompt", p>> : p \in Plan(book, c)} ELSE {stageSlot(c, stage)}
           read == [texts |-> generationTexts(book, c, stage), source |-> book.source[c].text,
                    visual |-> visual, injection |-> 0]
<1>2. source \in Nat /\ book.source[c].text \in Nat
  BY <1>1, BookParts
<1>3. deps \in Receipts /\ revisions \in SUBSET (Slots \X Nat) /\ generationTexts(book, c, stage) \subseteq Slots \X Nat
  BY <1>1, InputsAreTyped
<1>4. step \in SUBSET Slots
  BY <1>1, InputsAreTyped
<1>5. read \in Inputs
  BY <1>1, <1>2, <1>3 DEF Inputs
<1>6. freezeGeneration(c, stage) =
        [NoTask EXCEPT !.source = source, !.deps = deps, !.visual = visual, !.revisions = revisions,
                       !.step = step, !.read = read]
  BY DEF freezeGeneration
<1> HIDE DEF source, deps, revisions, step, read
<1>7. NoTask \in Task
  BY NoTaskIsTyped
<1>8. \A t \in Task : [t EXCEPT !.source = source, !.deps = deps, !.visual = visual,
                                !.revisions = revisions, !.step = step, !.read = read] \in Task
  BY <1>1, <1>2, <1>3, <1>4, <1>5 DEF Task
<1> QED BY <1>6, <1>7, <1>8

\* What optimize freezes is a task.
LEMMA CascadeIsTyped ==
  ASSUME TypeOK, NEW c \in Chapters, NEW targets \in SUBSET Slots
  PROVE  freezeOptimization(c, targets) \in Task /\ Cardinality(targets) \in Nat
<1>1. book \in Books /\ visual \in Nat
  BY DEF TypeOK
<1> DEFINE todo == inOrder(targets)
           revisions == {<<s, book.docs[s].revision>> : s \in targets}
           source == book.source[c].revision
           g == guard(book, c)
<1>2. source \in Nat /\ \A s \in Slots : book.docs[s].revision \in Nat
  BY <1>1, BookParts
<1>3. todo \in Seq(Slots) /\ g \in Guards /\ Cardinality(targets) \in Nat
  BY <1>1, InOrder, GuardIsTyped, FiniteSlots
<1>4. revisions \in SUBSET (Slots \X Nat)
  BY <1>2
<1>5. freezeOptimization(c, targets) =
        [NoTask EXCEPT !.todo = todo, !.revisions = revisions, !.source = source, !.visual = visual, !.guard = g]
  BY DEF freezeOptimization
<1> HIDE DEF source, todo, revisions, g
<1>6. \A t \in Task : [t EXCEPT !.todo = todo, !.revisions = revisions, !.source = source,
                                !.visual = visual, !.guard = g] \in Task
  BY <1>1, <1>2, <1>3, <1>4 DEF Task
<1> QED BY <1>3, <1>5, <1>6, NoTaskIsTyped

\* The documents an optimization, a plan or a missing page names are slots.
LEMMA TargetsAreSlots ==
  ASSUME NEW b \in Books, NEW c \in Chapters
  PROVE  /\ allPages(b, c) \subseteq Slots /\ \A root : cascadeTargets(b, c, root) \subseteq Slots
         /\ planTargets(b, c) \subseteq Slots /\ missingPages(b, c) \subseteq Slots
<1>1. documents(b, c) \subseteq Slots
  BY DEF documents
<1>2. missingPages(b, c) \subseteq Slots
  <2>1. \A p \in Pages : <<c, "page_prompt", p>> \in Slots
    BY DEF Slots
  <2> QED BY <2>1, PlannedPages DEF missingPages
<1>3. inPlanDocuments(b, c) \subseteq Slots
  BY <1>1 DEF inPlanDocuments
<1> QED BY <1>2, <1>3 DEF allPages, cascadeTargets, planTargets

\* Admissions keep the types.
LEMMA AdmitKeepsTypes ==
  ASSUME TInv, NEW j \in JobIds, Admit(j)
  PROVE  TInv'
<1>1. TypeOK /\ book \in Books
  BY DEF TInv, TypeOK
<1>2. ASSUME NEW c \in Chapters, NEW stage \in Stages, Generate(j, c, stage)
      PROVE  TInv'
  <2>1. Admissible(j) /\ insertJob(j, stage, c, 0, freezeGeneration(c, stage))
    BY <1>2 DEF Generate
  <2>2. freezeGeneration(c, stage) \in Task
    BY <1>1, FrozenIsTyped
  <2> QED BY <2>1, <2>2, InsertKeepsTypes
<1>3. ASSUME NEW c \in Chapters, NEW targets \in SUBSET Slots, Optimize(j, c, targets)
      PROVE  TInv'
  <2>1. Admissible(j) /\ insertJob(j, "optimize", c, Cardinality(targets), freezeOptimization(c, targets))
    BY <1>3 DEF Optimize
  <2>2. freezeOptimization(c, targets) \in Task /\ Cardinality(targets) \in Nat
    BY <1>1, CascadeIsTyped
  <2> QED BY <2>1, <2>2, InsertKeepsTypes
<1>4. ASSUME NEW c \in Chapters, Sync(j, c)
      PROVE  TInv'
  <2> DEFINE targets == planTargets(book, c)
             missing == missingPages(book, c)
             total == Cardinality(targets) + Cardinality(missing)
             t == [NoTask EXCEPT !.guard = guard(book, c), !.allowed = targets, !.pages = missing]
  <2>1. Admissible(j) /\ insertJob(j, "sync", c, total, t)
    BY <1>4 DEF Sync
  <2>2. targets \in SUBSET Slots /\ missing \in SUBSET Slots
    BY <1>1, TargetsAreSlots
  <2>3. total \in Nat
    BY <2>2, FiniteSlots
  <2>4. guard(book, c) \in Guards
    BY <1>1, GuardIsTyped
  <2> HIDE DEF targets, missing
  <2>5. t \in Task
    BY <2>2, <2>4, NoTaskIsTyped DEF Task
  <2> HIDE DEF t, total
  <2> QED BY <2>1, <2>3, <2>5, InsertKeepsTypes
<1>5. \A c \in Chapters : allPages(book, c) \in SUBSET Slots
                          /\ \A root \in documents(book, c) : cascadeTargets(book, c, root) \in SUBSET Slots
  BY <1>1, TargetsAreSlots
<1> QED BY <1>2, <1>3, <1>4, <1>5 DEF Admit

\* prepareSync takes the first, in pipeline order, of the stale authorized
\* documents and the missing authorized pages together.
LEMMA NextUpdate ==
  ASSUME NEW j \in JobIds, book \in Books, jobs[j].chapter \in Chapters
  PROVE  LET left == (planTargets(book, jobs[j].chapter) \cap task[j].allowed)
                       \cup (missingPages(book, jobs[j].chapter) \cap task[j].pages)
         IN /\ left \subseteq Slots
            /\ left = {} => nextUpdate(j) = {}
            /\ left # {} => \E s \in left : nextUpdate(j) = {s} /\ \A t \in left : ~Precedes(t, s)
<1> DEFINE c == jobs[j].chapter
           targets == planTargets(book, c) \cap task[j].allowed
           missing == missingPages(book, c) \cap task[j].pages
           target == inOrder(targets)[1]
           page == inOrder(missing)[1]
           paged == missing # {} /\ (targets = {} \/ (Kind(target) = "page_prompt"
                                                        /\ PageNo(page) < PageNo(target)))
<1>1. targets \in SUBSET Slots /\ missing \in SUBSET Slots
  BY TargetsAreSlots
<1>2. /\ targets # {} => target \in targets /\ \A t \in targets : ~Precedes(t, target)
      /\ missing # {} => page \in missing /\ \A t \in missing : ~Precedes(t, page)
  BY <1>1, FirstInOrder
<1>3. nextUpdate(j) = IF paged THEN {page} ELSE IF targets # {} THEN {target} ELSE {}
  BY DEF nextUpdate
<1>4. \A m \in missing : Chapter(m) = c /\ Kind(m) = "page_prompt"
  <2>1. \A m \in missingPages(book, c) : \E p : m = <<c, "page_prompt", p>>
    BY DEF missingPages
  <2> QED BY <2>1 DEF Chapter, Kind
<1>5. \A t \in targets : Chapter(t) \in {0, c}
  BY DEF planTargets, inPlanDocuments, documents
<1>6. \A s \in Slots : /\ Chapter(s) \in Nat /\ PageNo(s) \in Nat /\ Kind(s) \in Kinds
                       /\ Chapter(s) = 0 <=> s = Settings
  BY SlotParts
<1>7. Kind(Settings) = "settings"
  BY DEF Kind, Settings
<1> HIDE DEF c, targets, missing, target, page
<1>8. CASE paged
  <2>1. page \in missing /\ page \in Slots
    BY <1>1, <1>2, <1>8
  <2>2. ASSUME NEW t \in targets, Precedes(t, page)
        PROVE  FALSE
    <3>1. target \in targets /\ ~Precedes(t, target) /\ t \in Slots /\ target \in Slots
      BY <1>1, <1>2, <2>2
    <3>2. Kind(target) = "page_prompt" /\ PageNo(page) < PageNo(target)
      BY <1>8, <2>2
    <3>3. Chapter(target) = c /\ Chapter(page) = c /\ Kind(page) = "page_prompt"
      BY <1>4, <1>5, <1>6, <1>7, <2>1, <3>1, <3>2
    <3>4. Precedes(page, target)
      BY <3>2, <3>3 DEF Precedes
    <3> QED BY <2>1, <2>2, <3>1, <3>4, PipelineOrder
  <2>3. \A t \in targets \cup missing : ~Precedes(t, page)
    BY <1>2, <1>8, <2>2
  <2> QED BY <1>1, <1>3, <1>8, <2>1, <2>3 DEF c, targets, missing
<1>9. CASE ~paged /\ targets # {}
  <2>1. target \in targets /\ target \in Slots
    BY <1>1, <1>2, <1>9
  <2>2. ASSUME NEW m \in missing, Precedes(m, target)
        PROVE  FALSE
    <3>1. page \in missing /\ ~Precedes(m, page) /\ m \in Slots /\ page \in Slots
      BY <1>1, <1>2, <2>2
    <3>2. Chapter(m) = c /\ Kind(m) = "page_prompt" /\ Chapter(page) = c /\ Kind(page) = "page_prompt"
      BY <1>4, <3>1
    <3>3. Chapter(target) \in {0, c} /\ stageRank[Kind(target)] <= 3
      BY <1>5, <1>6, <2>1, Ranks DEF Kinds
    <3>4. Kind(target) = "page_prompt" /\ PageNo(m) < PageNo(target)
      BY <1>6, <2>1, <2>2, <3>1, <3>2, <3>3, Ranks DEF Precedes, Kinds
    <3>5. ~(PageNo(m) < PageNo(page))
      BY <3>1, <3>2 DEF Precedes
    <3>6. PageNo(page) < PageNo(target)
      BY <1>6, <2>1, <3>1, <3>4, <3>5
    <3> QED BY <1>9, <2>2, <3>4, <3>6
  <2>3. \A t \in targets \cup missing : ~Precedes(t, target)
    BY <1>2, <2>1, <2>2
  <2> QED BY <1>1, <1>3, <1>9, <2>1, <2>3 DEF c, targets, missing
<1>10. CASE ~paged /\ targets = {}
  <2>1. missing = {} /\ nextUpdate(j) = {}
    BY <1>3, <1>10
  <2> QED BY <1>10, <2>1 DEF c, targets, missing
<1> QED BY <1>8, <1>9, <1>10

\* What an admitted job may rely on.
LEMMA AtWorkParts ==
  ASSUME TInv, NEW j \in JobIds
  PROVE  /\ book \in Books /\ jobs[j] \in Job /\ task[j] \in Task /\ pc[j] \in Locations
         /\ jobs \in [JobIds -> Job] /\ pc \in [JobIds -> Locations] /\ task \in [JobIds -> Task]
         /\ lost \subseteq JobIds /\ billed \in [JobIds -> SUBSET Slots]
         /\ visual \in Nat /\ injection \in Nat /\ edits \in Nat
         /\ Fits(jobs[j], pc[j], task[j])
         /\ \A i \in JobIds : i # j /\ jobs[j].status = "running" => jobs[i].status # "running"
  BY DEF TInv, TypeOK, Alone, AtWork

\* start, the authorization, the check and the ends of the loops.
LEMMA MovesKeepTypes ==
  ASSUME TInv, NEW j \in JobIds,
         Start(j) \/ CheckContext(j) \/ OptimizationDone(j) \/ Finish(j) \/ Panic(j) \/ StorageFails(j) \/ CallFails(j)
  PROVE  TInv'
<1>1. app # "down" /\ book' = book /\ UNCHANGED <<visual, injection, app, edits, lost, billed>>
  BY DEF Start, CheckContext, OptimizationDone, Finish, Panic, StorageFails, CallFails, Live, store, process
<1>2. book' \in Books /\ Fits(jobs[j], pc[j], task[j])
  BY <1>1, AtWorkParts
<1>3. {"none", "provider", "storage"} \subseteq Reasons /\ {"ready", "authorize", "checked", "done"} \subseteq Locations
  BY DEF Reasons, Locations
<1>4. CASE Interrupt(j) \/ Fail(j, "provider") \/ Fail(j, "storage") \/ End(j, "succeeded", "none", jobs[j])
  BY <1>1, <1>2, <1>3, <1>4, FailKeepsTypes
<1>5. CASE Start(j) /\ ~Interrupt(j)
  <2>1. /\ pc[j] = "admitted" /\ UNCHANGED <<jobs, task>>
        /\ Goto(j, IF jobs[j].kind = "sync" THEN "authorize" ELSE "ready")
    BY <1>5 DEF Start, Live
  <2>2. CASE jobs[j].kind = "sync"
    <3>1. Fits(jobs[j], "authorize", task[j])
      BY <1>2, <2>1, <2>2 DEF Fits, Stages
    <3> QED BY <1>1, <1>2, <1>3, <2>1, <2>2, <3>1, MoveKeepsTypes
  <2>3. CASE jobs[j].kind # "sync"
    <3>1. Fits(jobs[j], "ready", task[j])
      BY <1>2, <2>1, <2>3 DEF Fits
    <3> QED BY <1>1, <1>2, <1>3, <2>1, <2>3, <3>1, MoveKeepsTypes
  <2> QED BY <2>2, <2>3
<1>6. CASE CheckContext(j) /\ ~Interrupt(j)
  <2>1. /\ pc[j] = "ready" /\ UNCHANGED <<jobs, task>> /\ Goto(j, "checked")
        /\ jobs[j].kind = "sync" \/ (jobs[j].kind = "optimize" /\ task[j].todo # <<>>)
    BY <1>6 DEF CheckContext, Live
  <2>2. Fits(jobs[j], "checked", task[j])
    BY <1>2, <2>1 DEF Fits, Stages
  <2> QED BY <1>1, <1>2, <1>3, <2>1, <2>2, MoveKeepsTypes
<1>7. CASE OptimizationDone(j)
  <2>1. /\ pc[j] = "ready" /\ UNCHANGED <<jobs, task>> /\ Goto(j, "done") /\ jobs[j].kind = "optimize"
    BY <1>7 DEF OptimizationDone, Live
  <2>2. Fits(jobs[j], "done", task[j])
    BY <1>2, <2>1 DEF Fits, Stages
  <2> QED BY <1>1, <1>2, <1>3, <2>1, <2>2, MoveKeepsTypes
<1> QED BY <1>4, <1>5, <1>6, <1>7 DEF Start, CheckContext, Finish, Panic, StorageFails, CallFails

\* The requests.
LEMMA SubmitsKeepTypes ==
  ASSUME TInv, NEW j \in JobIds, SubmitGeneration(j) \/ SubmitOptimization(j) \/ SubmitSync(j)
  PROVE  TInv'
<1>1. app # "down" /\ UNCHANGED <<book, visual, injection, app, edits, lost>>
  BY DEF SubmitGeneration, SubmitOptimization, SubmitSync, Live, store, process
<1>2. book' \in Books /\ book \in Books /\ task[j] \in Task /\ visual \in Nat /\ injection \in Nat /\ Fits(jobs[j], pc[j], task[j])
  BY <1>1, AtWorkParts
<1>3. ASSUME NEW c \in Chapters
      PROVE  workspaceInputs(c) \in Inputs
  <2>1. workspaceTexts(book, c) \in SUBSET (Slots \X Nat) /\ book.source[c].text \in Nat
    BY <1>2, InputsAreTyped, BookParts
  <2> QED BY <1>2, <2>1 DEF workspaceInputs, Inputs
<1>4. CASE SubmitGeneration(j)
  <2>1. /\ pc[j] = "ready" /\ jobs[j].kind \in Stages /\ Submit(j, task[j])
    BY <1>4 DEF SubmitGeneration, Live
  <2>2. Fits(jobs[j], "calling", task[j])
    BY <1>2, <2>1 DEF Fits, Stages
  <2> QED BY <1>1, <1>2, <2>1, <2>2, SubmitKeepsTypes
<1>5. CASE SubmitOptimization(j)
  <2> DEFINE s == Head(task[j].todo)
             c == jobs[j].chapter
             read == workspaceInputs(c)
             deps == receipt(book, s)
             u == [task[j] EXCEPT !.step = {s}, !.deps = deps, !.read = read]
  <2>1. pc[j] = "checked" /\ jobs[j].kind = "optimize"
    BY <1>5 DEF SubmitOptimization, Live
  <2>2. c \in Chapters /\ task[j].todo # <<>> /\ task[j].todo \in Seq(Slots)
    BY <1>2, <2>1 DEF Fits, Task
  <2>3. s \in Slots
    BY <2>2
  <2>4. read \in Inputs /\ deps \in Receipts /\ {s} \in SUBSET Slots
    BY <1>2, <1>3, <2>2, <2>3, InputsAreTyped
  <2>5. CASE Fail(j, refusal(j, s)) /\ UNCHANGED billed
    <3>1. refusal(j, s) \in Reasons
      BY DEF refusal, Reasons
    <3> QED BY <1>1, <1>2, <2>5, <3>1, FailKeepsTypes
  <2>6. CASE Submit(j, u)
    <3> HIDE DEF s, c, read, deps
    <3>1. u \in Task /\ u.todo = task[j].todo
      BY <1>2, <2>4 DEF Task
    <3>2. Fits(jobs[j], "calling", u)
      BY <1>2, <2>1, <3>1 DEF Fits, Stages
    <3> HIDE DEF u
    <3> QED BY <1>1, <2>1, <2>6, <3>1, <3>2, SubmitKeepsTypes
  <2> QED BY <1>5, <2>5, <2>6 DEF SubmitOptimization
<1>6. CASE SubmitSync(j)
  <2> DEFINE step == nextUpdate(j)
             c == jobs[j].chapter
             read == workspaceInputs(c)
             u == [task[j] EXCEPT !.step = step, !.read = read]
  <2>1. pc[j] = "checked" /\ jobs[j].kind = "sync"
    BY <1>6 DEF SubmitSync, Live
  <2>2. c \in Chapters
    BY <1>2, <2>1 DEF Fits
  <2>3. step \in SUBSET Slots
    BY <1>2, <2>2, NextUpdate
  <2>4. read \in Inputs
    BY <1>3, <2>2
  <2>5. CASE Fail(j, syncRefusal(j)) /\ UNCHANGED billed
    <3>1. syncRefusal(j) \in Reasons
      BY DEF syncRefusal, Reasons
    <3> QED BY <1>1, <1>2, <2>5, <3>1, FailKeepsTypes
  <2>6. CASE Submit(j, u)
    <3> HIDE DEF step, c, read
    <3>1. u \in Task
      BY <1>2, <2>3, <2>4 DEF Task
    <3>2. Fits(jobs[j], "calling", u)
      BY <1>2, <2>1 DEF Fits, Stages
    <3> HIDE DEF u
    <3> QED BY <1>1, <2>1, <2>6, <3>1, <3>2, SubmitKeepsTypes
  <2>7. CASE Goto(j, "done") /\ UNCHANGED <<jobs, task, billed>>
    <3>1. Fits(jobs[j], "done", task[j])
      BY <1>2, <2>1 DEF Fits, Stages
    <3> QED BY <1>1, <1>2, <2>7, <3>1, MoveKeepsTypes DEF Locations
  <2> QED BY <1>6, <2>5, <2>6, <2>7 DEF SubmitSync
<1> QED BY <1>4, <1>5, <1>6

\* An answer gives slots new bodies.
LEMMA AnswersAreTyped ==
  ASSUME TInv, NEW j \in JobIds, NEW answer \in Answers(j)
  PROVE  /\ answer \in NewBodies
         /\ jobs[j].kind # "page_prompts" => \E s \in task[j].step, text \in Texts : answer = Only(s, text)
<1>1. task[j].step \subseteq Slots
  BY AtWorkParts DEF Task
<1>2. CASE jobs[j].kind = "page_prompts"
  <2>1. Bodies["page_prompt"] \subseteq Texts
    BY WrittenBodies DEF Kinds
  <2>2. answer \in [Slots -> Bodies["page_prompt"] \cup {0}]
    BY <1>2 DEF Answers
  <2> QED BY <1>2, <2>1, <2>2 DEF NewBodies
<1>3. CASE jobs[j].kind # "page_prompts"
  <2>1. PICK s \in task[j].step, text \in UNION {Bodies[Kind(t)] : t \in task[j].step} : answer = Only(s, text)
    BY <1>3 DEF Answers
  <2>2. s \in Slots /\ text \in Texts
    BY <1>1, WrittenBodies
  <2>3. answer \in NewBodies
    BY <2>1, <2>2, OnlyIsTyped
  <2> QED BY <2>1, <2>2, <2>3
<1> QED BY <1>2, <1>3

\* The provider's answers.
LEMMA ReturnsKeepTypes ==
  ASSUME TInv, NEW j \in JobIds, Returns(j)
  PROVE  TInv'
<1>0. /\ book \in Books /\ jobs[j] \in Job /\ task[j] \in Task /\ Fits(jobs[j], pc[j], task[j])
      /\ lost \subseteq JobIds /\ billed \in [JobIds -> SUBSET Slots]
      /\ jobs \in [JobIds -> Job] /\ task \in [JobIds -> Task]
  BY AtWorkParts
<1>1. CASE UnusableAnswer(j)
  <2> DEFINE row == [jobs[j] EXCEPT !.output = TRUE]
  <2>1. row \in Job /\ row.status = jobs[j].status
    BY <1>0, RowFields DEF Job
  <2>2. /\ End(j, "failed", "answer", row) /\ app # "down"
        /\ UNCHANGED <<book, visual, injection, app, edits, lost, billed>>
    BY <1>1 DEF UnusableAnswer, Live, store, process
  <2> HIDE DEF row
  <2> QED BY <1>0, <2>1, <2>2, EndKeepsTypes DEF Terminal, Reasons
<1>2. ASSUME NEW answer \in Answers(j), KeepOutput(j, answer)
      PROVE  TInv'
  <2> DEFINE row == [jobs[j] EXCEPT !.output = TRUE]
             u == [task[j] EXCEPT !.answer = answer]
  <2>1. /\ jobs' = [jobs EXCEPT ![j] = row] /\ task' = [task EXCEPT ![j] = u] /\ pc' = [pc EXCEPT ![j] = "kept"]
        /\ pc[j] = "calling" /\ app # "down" /\ UNCHANGED <<book, visual, injection, app, edits, lost, billed>>
    BY <1>0, <1>2 DEF KeepOutput, Live, Goto, store, process
  <2>2. row \in Job /\ row.status = jobs[j].status /\ row.kind = jobs[j].kind /\ row.chapter = jobs[j].chapter
    BY <1>0, RowFields DEF Job
  <2>3. answer \in [Slots -> Texts \cup {0}]
    BY <1>2, AnswersAreTyped DEF NewBodies
  <2>4. u \in Task /\ u.todo = task[j].todo
    BY <1>0, <2>3 DEF Task
  <2> HIDE DEF row, u
  <2>5. Fits(row, "kept", u)
    BY <1>0, <2>1, <2>2, <2>4 DEF Fits, Stages
  <2>6. row.status = "running" => jobs[j].status = "running"
    BY <2>2
  <2> QED BY <1>0, <2>1, <2>2, <2>4, <2>5, <2>6, OneJobStep DEF Locations
<1> QED BY <1>1, <1>2, MovesKeepTypes DEF Returns

\* A step on the job's variables and its progress.
LEMMA ProgressKeepsTypes ==
  ASSUME TInv, NEW j \in JobIds, NEW location \in Locations, NEW t \in Task, app # "down",
         Goto(j, location), task' = [task EXCEPT ![j] = t],
         UNCHANGED jobs \/ Completed(j) \/ (\E total \in Nat : jobs' = [jobs EXCEPT ![j].total = total]),
         Fits(jobs[j], location, t),
         book' \in Books, UNCHANGED <<visual, injection, app, edits, lost, billed>>
  PROVE  TInv'
<1>0. /\ jobs[j] \in Job /\ jobs \in [JobIds -> Job] /\ lost \subseteq JobIds /\ billed \in [JobIds -> SUBSET Slots]
  BY AtWorkParts
<1>1. PICK row \in Job : /\ jobs' = [jobs EXCEPT ![j] = row]
                         /\ row.status = jobs[j].status /\ row.kind = jobs[j].kind /\ row.chapter = jobs[j].chapter
  <2>1. CASE UNCHANGED jobs
    <3>1. jobs' = [jobs EXCEPT ![j] = jobs[j]]
      BY <1>0, <2>1
    <3> QED BY <1>0, <3>1
  <2>2. CASE Completed(j)
    <3> DEFINE row == [jobs[j] EXCEPT !.done = @ + 1]
    <3>1. jobs' = [jobs EXCEPT ![j] = row]
      BY <1>0, <2>2 DEF Completed
    <3>2. row \in Job /\ row.status = jobs[j].status /\ row.kind = jobs[j].kind /\ row.chapter = jobs[j].chapter
      BY <1>0, RowFields DEF Job
    <3> HIDE DEF row
    <3> QED BY <3>1, <3>2
  <2>3. ASSUME NEW total \in Nat, jobs' = [jobs EXCEPT ![j].total = total]
        PROVE  \E row \in Job : /\ jobs' = [jobs EXCEPT ![j] = row]
                                /\ row.status = jobs[j].status /\ row.kind = jobs[j].kind
                                /\ row.chapter = jobs[j].chapter
    <3> DEFINE row == [jobs[j] EXCEPT !.total = total]
    <3>1. jobs' = [jobs EXCEPT ![j] = row]
      BY <1>0, <2>3
    <3>2. row \in Job /\ row.status = jobs[j].status /\ row.kind = jobs[j].kind /\ row.chapter = jobs[j].chapter
      BY <1>0, RowFields DEF Job
    <3> HIDE DEF row
    <3> QED BY <3>1, <3>2
  <2> QED BY <2>1, <2>2, <2>3
<1>2. Fits(row, location, t)
  BY <1>1 DEF Fits
<1>3. /\ pc' = [pc EXCEPT ![j] = location] /\ lost' \subseteq JobIds /\ billed' \in [JobIds -> SUBSET Slots]
      /\ row.status = "running" => jobs[j].status = "running"
  BY <1>0, <1>1 DEF Goto
<1> QED BY <1>1, <1>2, <1>3, OneJobStep

\* The applying transactions.
LEMMA AppliesKeepTypes ==
  ASSUME TInv, NEW j \in JobIds, ApplyGeneration(j) \/ ApplyOptimization(j) \/ ApplySync(j)
  PROVE  TInv' /\ (book' # book => book' = saveDocuments(book, task[j].answer, TRUE))
<1>0. /\ book \in Books /\ jobs[j] \in Job /\ task[j] \in Task /\ Fits(jobs[j], pc[j], task[j])
      /\ task \in [JobIds -> Task] /\ pc[j] = "kept" /\ app # "down"
      /\ UNCHANGED <<visual, injection, edits, app, lost, billed>>
  BY AtWorkParts DEF ApplyGeneration, ApplyOptimization, ApplySync, Live, process
<1>1. task[j].answer \in NewBodies
  BY <1>0 DEF Task, NewBodies
<1>2. book' = book \/ book' = saveDocuments(book, task[j].answer, TRUE)
  BY DEF ApplyGeneration, ApplyOptimization, ApplySync, Refuse, Save
<1>3. book' \in Books
  BY <1>0, <1>1, <1>2, SaveEffect
<1>4. jobs[j].chapter \in Chapters
  BY <1>0 DEF Fits
<1>5. CASE ApplyGeneration(j)
  <2>1. generationRefusal(j) \in Reasons /\ "none" \in Reasons
    BY DEF generationRefusal, Reasons
  <2>2. Fail(j, generationRefusal(j)) \/ End(j, "succeeded", "none", jobs[j])
    BY <1>5 DEF ApplyGeneration, Refuse
  <2> QED BY <1>0, <1>2, <1>3, <2>1, <2>2, FailKeepsTypes
<1>6. CASE ApplyOptimization(j)
  <2>1. optimizationRefusal(j) \in Reasons
    BY DEF optimizationRefusal, Reasons
  <2>2. CASE Fail(j, optimizationRefusal(j))
    BY <1>0, <1>2, <1>3, <2>1, <2>2, FailKeepsTypes
  <2>3. CASE Completed(j) /\ Goto(j, "applied") /\ UNCHANGED task
    <3>1. jobs[j].kind = "optimize"
      BY <1>6 DEF ApplyOptimization
    <3>2. Fits(jobs[j], "applied", task[j])
      BY <1>0, <3>1 DEF Fits, Stages
    <3>3. task' = [task EXCEPT ![j] = task[j]] /\ "applied" \in Locations
      BY <1>0, <2>3 DEF Locations
    <3> QED BY <1>0, <1>2, <1>3, <2>3, <3>2, <3>3, ProgressKeepsTypes
  <2> QED BY <1>6, <2>2, <2>3 DEF ApplyOptimization, Refuse
<1>7. CASE ApplySync(j)
  <2>1. syncAnswerRefusal(j) \in Reasons
    BY DEF syncAnswerRefusal, Reasons
  <2>2. CASE Fail(j, syncAnswerRefusal(j))
    BY <1>0, <1>2, <1>3, <2>1, <2>2, FailKeepsTypes
  <2>3. CASE Completed(j) /\ Goto(j, "applied") /\ task' = [task EXCEPT ![j].guard = guard(book', jobs[j].chapter)]
    <3> DEFINE g == guard(book', jobs[j].chapter)
               u == [task[j] EXCEPT !.guard = g]
    <3>1. jobs[j].kind = "sync"
      BY <1>7 DEF ApplySync
    <3>2. g \in Guards
      BY <1>3, <1>4, GuardIsTyped
    <3>3. task' = [task EXCEPT ![j] = u] /\ "applied" \in Locations
      BY <1>0, <2>3 DEF Locations
    <3> HIDE DEF g
    <3>4. u \in Task
      BY <1>0, <3>2 DEF Task
    <3>5. Fits(jobs[j], "applied", u)
      BY <1>0, <3>1 DEF Fits, Stages
    <3> HIDE DEF u
    <3> QED BY <1>0, <1>2, <1>3, <2>3, <3>3, <3>4, <3>5, ProgressKeepsTypes
  <2> QED BY <1>7, <2>2, <2>3 DEF ApplySync, Refuse
<1> QED BY <1>2, <1>5, <1>6, <1>7

\* What a goroutine remembers between two updates.
LEMMA MemoriesKeepTypes ==
  ASSUME TInv, NEW j \in JobIds, Authorize(j) \/ Reguard(j) \/ Extend(j)
  PROVE  TInv'
<1>0. /\ book \in Books /\ jobs[j] \in Job /\ task[j] \in Task /\ Fits(jobs[j], pc[j], task[j])
      /\ task \in [JobIds -> Task] /\ jobs \in [JobIds -> Job]
      /\ Goto(j, "ready") /\ "ready" \in Locations /\ app # "down" /\ pc[j] # "idle"
      /\ book' \in Books /\ UNCHANGED <<book, visual, injection, edits, app, lost, billed>>
  BY AtWorkParts DEF Authorize, Reguard, Extend, Live, store, process, Locations
<1>1. jobs[j].chapter \in Chapters
  BY <1>0 DEF Fits
<1>2. CASE Authorize(j)
  <2>1. PICK seen \in SUBSET Slots : task' = [task EXCEPT ![j].allowed = @ \cup seen]
    <3>1. allPages(book, jobs[j].chapter) \subseteq Slots
      BY <1>0, <1>1, TargetsAreSlots
    <3> QED BY <1>2, <3>1 DEF Authorize
  <2> DEFINE u == [task[j] EXCEPT !.allowed = @ \cup seen]
  <2>2. task' = [task EXCEPT ![j] = u] /\ UNCHANGED jobs
    BY <1>0, <1>2, <2>1 DEF Authorize
  <2>3. u \in Task
    BY <1>0, <2>1 DEF Task
  <2> HIDE DEF u
  <2>4. pc[j] = "authorize"
    BY <1>2 DEF Authorize, Live
  <2>5. Fits(jobs[j], "ready", u)
    BY <1>0, <2>4 DEF Fits, Stages
  <2> QED BY <1>0, <2>2, <2>3, <2>5, ProgressKeepsTypes
<1>3. CASE Reguard(j)
  <2> DEFINE g == guard(book, jobs[j].chapter)
             rest == Tail(task[j].todo)
             u == [task[j] EXCEPT !.guard = g, !.todo = rest]
  <2>1. task' = [task EXCEPT ![j] = u] /\ UNCHANGED jobs /\ pc[j] = "applied" /\ jobs[j].kind = "optimize"
    BY <1>0, <1>3 DEF Reguard, Live
  <2>2. g \in Guards
    BY <1>0, <1>1, GuardIsTyped
  <2>3. rest \in Seq(Slots)
    <3>1. task[j].todo # <<>> /\ task[j].todo \in Seq(Slots)
      BY <1>0, <2>1 DEF Fits, Task
    <3> QED BY <3>1
  <2> HIDE DEF g, rest
  <2>4. u \in Task
    BY <1>0, <2>2, <2>3 DEF Task
  <2> HIDE DEF u
  <2>5. Fits(jobs[j], "ready", u)
    BY <1>0, <2>1 DEF Fits
  <2> QED BY <1>0, <2>1, <2>4, <2>5, ProgressKeepsTypes
<1>4. CASE Extend(j)
  <2> DEFINE targets == planTargets(book, jobs[j].chapter)
             missing == missingPages(book, jobs[j].chapter)
             own == task[j].step = {Storyboard(jobs[j].chapter)}
             pageTargets == {s \in targets : Kind(s) = "page_prompt"}
             allowed == task[j].allowed \cup IF own THEN pageTargets ELSE {}
             pages == task[j].pages \cup IF own THEN missing ELSE {}
             left == (targets \cap allowed) \cup (missing \cap pages)
             total == syncTotal(jobs[j].done, Cardinality(left))
             u == [task[j] EXCEPT !.allowed = allowed, !.pages = pages]
  <2>1. /\ task' = [task EXCEPT ![j] = u] /\ jobs' = [jobs EXCEPT ![j].total = total]
        /\ pc[j] = "applied" /\ jobs[j].kind = "sync"
    BY <1>0, <1>4 DEF Extend, Live
  <2>2. targets \subseteq Slots /\ missing \subseteq Slots
    BY <1>0, <1>1, TargetsAreSlots
  <2>3. allowed \in SUBSET Slots /\ pages \in SUBSET Slots
    BY <1>0, <2>2 DEF Task
  <2>4. total \in Nat
    <3>1. left \in SUBSET Slots
      BY <2>2
    <3> HIDE DEF left
    <3>2. Cardinality(left) \in Nat
      BY <3>1, FiniteSlots
    <3>3. jobs[j].done \in Nat
      BY <1>0 DEF Job
    <3> QED BY <3>2, <3>3 DEF syncTotal
  <2> HIDE DEF allowed, pages, total
  <2>5. u \in Task
    BY <1>0, <2>3 DEF Task
  <2> HIDE DEF u
  <2>6. Fits(jobs[j], "ready", u)
    BY <1>0, <2>1 DEF Fits, Stages
  <2> QED BY <1>0, <2>1, <2>4, <2>5, <2>6, ProgressKeepsTypes
<1> QED BY <1>2, <1>3, <1>4

\* The process, and a goroutine the database fails.
LEMMA ProcessKeepsTypes ==
  ASSUME TInv, Close \/ Stop \/ Restart \/ \E j \in JobIds : LoseJob(j)
  PROVE  TInv'
<1>0. /\ book \in Books /\ visual \in Nat /\ injection \in Nat /\ edits \in Nat
      /\ jobs \in [JobIds -> Job] /\ pc \in [JobIds -> Locations] /\ task \in [JobIds -> Task]
      /\ app \in {"open", "closing", "down"} /\ lost \subseteq JobIds /\ billed \in [JobIds -> SUBSET Slots]
      /\ Alone /\ NobodyWhenDown /\ \A j \in JobIds : AtWork(j)
      /\ TypeOK
  BY DEF TInv, TypeOK
<1>1. CASE Close
  <2>1. /\ app' = "closing" /\ UNCHANGED <<book, visual, injection, jobs, pc, task, edits, lost, billed>>
    BY <1>1 DEF Close, store
  <2>2. TypeOK'
    BY <1>0, <2>1 DEF TypeOK
  <2>3. Alone' /\ NobodyWhenDown' /\ \A j \in JobIds : AtWork(j)'
    BY <1>0, <2>1 DEF Alone, NobodyWhenDown, AtWork, Fits
  <2> QED BY <2>2, <2>3 DEF TInv
<1>2. CASE Stop
  <2>1. /\ app' = "down" /\ pc' = [j \in JobIds |-> "idle"] /\ task' = [j \in JobIds |-> NoTask]
        /\ UNCHANGED <<book, visual, injection, jobs, edits, lost, billed>>
    BY <1>2 DEF Stop, store
  <2>2. pc' \in [JobIds -> Locations] /\ task' \in [JobIds -> Task]
    BY <2>1, NoTaskIsTyped DEF Locations
  <2>3. TypeOK'
    BY <1>0, <2>1, <2>2 DEF TypeOK
  <2>4. Alone' /\ NobodyWhenDown' /\ \A j \in JobIds : AtWork(j)'
    BY <1>0, <2>1 DEF Alone, NobodyWhenDown, AtWork, Fits
  <2> QED BY <2>3, <2>4 DEF TInv
<1>3. CASE Restart
  <2> DEFINE row(j) == IF jobs[j].status = "running" THEN [jobs[j] EXCEPT !.status = "interrupted"] ELSE jobs[j]
  <2>1. /\ app' = "open" /\ jobs' = [j \in JobIds |-> row(j)] /\ app = "down"
        /\ UNCHANGED <<book, visual, injection, pc, task, edits, lost, billed>>
    BY <1>3 DEF Restart, store
  <2>2. \A j \in JobIds : row(j) \in Job /\ row(j).status # "running"
    <3> TAKE j \in JobIds
    <3>1. jobs[j] \in Job /\ "interrupted" \in Terminal
      BY <1>0 DEF Terminal
    <3>2. [jobs[j] EXCEPT !.status = "interrupted"] \in Job
      BY <3>1, RowFields
    <3>3. [jobs[j] EXCEPT !.status = "interrupted"].status = "interrupted"
      BY <3>1 DEF Job
    <3> QED BY <3>1, <3>2, <3>3
  <2> HIDE DEF row
  <2>3. \A j \in JobIds : jobs'[j] = row(j)
    BY <2>1
  <2>4. jobs' \in [JobIds -> Job]
    BY <2>1, <2>2
  <2>5. TypeOK'
    BY <1>0, <2>1, <2>4 DEF TypeOK
  <2>6. Alone'
    BY <2>2, <2>3 DEF Alone
  <2>7. NobodyWhenDown' /\ \A j \in JobIds : AtWork(j)'
    BY <1>0, <2>1 DEF NobodyWhenDown, AtWork, Fits
  <2> QED BY <2>5, <2>6, <2>7 DEF TInv
<1>4. ASSUME NEW j \in JobIds, LoseJob(j)
      PROVE  TInv'
  <2>1. /\ jobs' = [jobs EXCEPT ![j] = jobs[j]] /\ pc' = [pc EXCEPT ![j] = "idle"] /\ task' = [task EXCEPT ![j] = NoTask]
        /\ app # "down" /\ lost' = lost \cup {j} /\ UNCHANGED <<book, visual, injection, app, edits, billed>>
    BY <1>0, <1>4 DEF LoseJob, Goto, store
  <2>2. /\ Fits(jobs[j], "idle", NoTask) /\ "idle" \in Locations /\ jobs[j] \in Job /\ lost' \subseteq JobIds
        /\ book' \in Books /\ billed' \in [JobIds -> SUBSET Slots]
    BY <1>0, <2>1 DEF Fits, Locations
  <2> QED BY <2>1, <2>2, NoTaskIsTyped, OneJobStep
<1> QED BY <1>1, <1>2, <1>3, <1>4

\* Every step keeps the types.
LEMMA StepKeepsTypes == TInv /\ [Next]_vars => TInv'
<1> SUFFICES ASSUME TInv, [Next]_vars PROVE TInv'
  OBVIOUS
<1>1. CASE UNCHANGED vars
  BY <1>1 DEF vars, TInv, TypeOK, Alone, NobodyWhenDown, AtWork, Fits
<1>2. ASSUME NEW j \in JobIds, Goroutine(j) PROVE TInv'
  BY <1>2, MovesKeepTypes, MemoriesKeepTypes, SubmitsKeepTypes, ReturnsKeepTypes, AppliesKeepTypes
     DEF Goroutine
<1> QED BY <1>1, <1>2, UserKeepsTypes, AdmitKeepsTypes, MovesKeepTypes, ProcessKeepsTypes DEF Next

\* Every variable keeps its type.  The documents and sources the user and the
\* jobs write, the rows and what the goroutines froze stay of the kinds the
\* code declares, and at most one row runs.
THEOREM TextJobsAreTyped == Spec => []TypeOK
<1>1. TInv => TypeOK
  BY DEF TInv
<1> QED BY <1>1, InitTInv, StepKeepsTypes, PTL DEF Spec

---------------------------------------------------------------------------
(* Who acts.  While a job is under way no other job is, so only the user,  *)
(* its own goroutine and Close take a step it can notice.                  *)

Working(j) == pc[j] # "idle"

\* Nothing a goroutine looks at changes.
Unnoticed == UNCHANGED <<book, visual, injection, jobs, pc, task, edits, billed>>

\* A job that is under way after a step was admitted by it, or was under way
\* before it and only the user, its goroutine or nobody acted.
LEMMA WhoActs ==
  ASSUME TInv, [Next]_vars, NEW j \in JobIds, Working(j)'
  PROVE  \/ Admit(j)
         \/ Working(j) /\ (User \/ Goroutine(j) \/ Unnoticed)
<1>1. ASSUME NEW i \in JobIds, i # j, Admit(i) \/ Goroutine(i) \/ Panic(i) \/ StorageFails(i) \/ LoseJob(i)
      PROVE  FALSE
  <2>1. pc'[j] = pc[j]
    <3>1. pc \in [JobIds -> Locations]
      BY DEF TInv, TypeOK
    <3>2. \E location : pc' = [pc EXCEPT ![i] = location]
      <4>1. CASE Admit(i)
        BY <4>1 DEF Admit, Generate, Optimize, Sync, insertJob
      <4>2. CASE Panic(i) \/ StorageFails(i) \/ LoseJob(i)
        BY <4>2 DEF Panic, StorageFails, LoseJob, Interrupt, Fail, End, Goto
      <4>3. CASE Goroutine(i)
        <5> USE DEF Goto, Interrupt, Fail, End, Submit, Refuse
        <5>1. CASE Start(i) \/ Authorize(i) \/ CheckContext(i) \/ SubmitGeneration(i) \/ OptimizationDone(i)
          BY <5>1 DEF Start, Authorize, CheckContext, SubmitGeneration, OptimizationDone
        <5>2. CASE SubmitOptimization(i) \/ SubmitSync(i) \/ Returns(i)
          BY <5>2 DEF SubmitOptimization, SubmitSync, Returns, CallFails, UnusableAnswer, KeepOutput
        <5>3. CASE ApplyGeneration(i) \/ ApplyOptimization(i) \/ ApplySync(i)
          BY <5>3 DEF ApplyGeneration, ApplyOptimization, ApplySync
        <5>4. CASE Reguard(i) \/ Extend(i) \/ Finish(i)
          BY <5>4 DEF Reguard, Extend, Finish
        <5> QED BY <4>3, <5>1, <5>2, <5>3, <5>4 DEF Goroutine
      <4> QED BY <1>1, <4>1, <4>2, <4>3
    <3> QED BY <1>1, <3>1, <3>2
  <2>2. jobs[j].status = "running"
    BY <2>1, AtWorkParts DEF Working, Fits
  <2>3. CASE Admit(i)
    BY <2>2, <2>3 DEF Admit, Admissible, RunningJobs
  <2>4. CASE ~Admit(i)
    <3>1. pc[i] # "idle"
      BY <1>1, <2>4 DEF Goroutine, Panic, StorageFails, LoseJob, Live, Start, Authorize, CheckContext,
         SubmitGeneration, SubmitOptimization, OptimizationDone, SubmitSync, Returns, CallFails, UnusableAnswer,
         KeepOutput, ApplyGeneration, ApplyOptimization, Reguard, ApplySync, Extend, Finish
    <3>2. jobs[i].status = "running"
      BY <3>1, AtWorkParts DEF Fits
    <3> QED BY <1>1, <2>2, <3>2, AtWorkParts
  <2> QED BY <2>3, <2>4
<1>2. ASSUME Panic(j) \/ StorageFails(j) \/ LoseJob(j) \/ Stop
      PROVE  FALSE
  <2>1. pc \in [JobIds -> Locations]
    BY DEF TInv, TypeOK
  <2> QED BY <1>2, <2>1 DEF Panic, StorageFails, LoseJob, Interrupt, Fail, End, Goto, Stop, Working
<1>3. ASSUME Restart PROVE FALSE
  BY <1>3 DEF Restart, Working, TInv, NobodyWhenDown
<1>4. CASE UNCHANGED vars \/ Close
  BY <1>4 DEF vars, Close, store, Unnoticed, Working
<1>5. CASE User
  BY <1>5 DEF User, SaveDocument, SaveSource, SaveVisual, SaveInjection, Working
<1>6. CASE Goroutine(j)
  <2>1. Working(j)
    BY <1>6 DEF Working, Goroutine, Live, Start, Authorize, CheckContext,
         SubmitGeneration, SubmitOptimization, OptimizationDone, SubmitSync, Returns, CallFails, UnusableAnswer,
         KeepOutput, ApplyGeneration, ApplyOptimization, Reguard, ApplySync, Extend, Finish
  <2> QED BY <1>6, <2>1
<1> QED BY <1>1, <1>2, <1>3, <1>4, <1>5, <1>6 DEF Next

\* What a goroutine that stays under way does to its own row and variables.
Held(j) ==   \* what a job keeps from its admission on
  /\ jobs'[j].kind = jobs[j].kind /\ jobs'[j].chapter = jobs[j].chapter
  /\ task'[j].revisions = task[j].revisions /\ task'[j].source = task[j].source
  /\ task'[j].visual = task[j].visual /\ task'[j].since = task[j].since
SameTargets(j) == task'[j].todo = task[j].todo /\ task'[j].allowed = task[j].allowed /\ task'[j].pages = task[j].pages
SameCall(j) == task'[j].step = task[j].step /\ task'[j].deps = task[j].deps /\ task'[j].read = task[j].read
SameGuarded(j) == book' = book /\ task'[j].guard = task[j].guard
SameCount(j) == jobs'[j].done = jobs[j].done /\ jobs'[j].total = jobs[j].total

Moves(j) ==
  /\ SameTargets(j) /\ SameCall(j) /\ SameGuarded(j) /\ SameCount(j) /\ billed'[j] = billed[j]
  /\ \/ pc[j] = "admitted" /\ pc'[j] = "authorize" /\ jobs[j].kind = "sync"
     \/ pc[j] = "admitted" /\ pc'[j] = "ready" /\ jobs[j].kind # "sync"
     \/ pc[j] = "ready" /\ pc'[j] = "checked" /\ jobs[j].kind \in {"optimize", "sync"}
     \/ pc[j] = "ready" /\ pc'[j] = "done" /\ jobs[j].kind = "optimize" /\ task[j].todo = <<>>
     \/ pc[j] = "checked" /\ pc'[j] = "done" /\ jobs[j].kind = "sync" /\ syncRefusal(j) = "none" /\ nextUpdate(j) = {}

Authorizes(j) ==
  /\ pc[j] = "authorize" /\ pc'[j] = "ready" /\ jobs[j].kind = "sync"
  /\ SameCall(j) /\ SameGuarded(j) /\ SameCount(j) /\ billed'[j] = billed[j]
  /\ task'[j].pages = task[j].pages /\ task[j].allowed \subseteq task'[j].allowed

Asks(j) ==   \* the request leaves
  /\ pc'[j] = "calling" /\ SameTargets(j) /\ SameGuarded(j) /\ SameCount(j)
  /\ billed'[j] = billed[j] \cup task'[j].step
AsksGeneration(j) == Asks(j) /\ pc[j] = "ready" /\ jobs[j].kind \in Stages /\ SameCall(j)
AsksOptimization(j) ==
  LET s == Head(task[j].todo)
  IN /\ Asks(j) /\ pc[j] = "checked" /\ jobs[j].kind = "optimize" /\ refusal(j, s) = "none"
     /\ task'[j].step = {s} /\ task'[j].deps = receipt(book, s)
     /\ task'[j].read = workspaceInputs(jobs[j].chapter)
AsksSync(j) ==
  /\ Asks(j) /\ pc[j] = "checked" /\ jobs[j].kind = "sync" /\ syncRefusal(j) = "none"
  /\ nextUpdate(j) # {} /\ task'[j].step = nextUpdate(j)
  /\ task'[j].read = workspaceInputs(jobs[j].chapter)

KeepsAnswer(j) ==
  /\ pc[j] = "calling" /\ pc'[j] = "kept" /\ task'[j].answer \in Answers(j)
  /\ SameTargets(j) /\ SameCall(j) /\ SameGuarded(j) /\ SameCount(j) /\ billed'[j] = billed[j]

Applied(j) ==
  /\ pc[j] = "kept" /\ pc'[j] = "applied" /\ Save(j)
  /\ SameTargets(j) /\ SameCall(j) /\ task'[j].answer = task[j].answer /\ billed'[j] = billed[j]
  /\ jobs'[j].done = jobs[j].done + 1 /\ jobs'[j].total = jobs[j].total
AppliesOptimization(j) ==
  /\ Applied(j) /\ jobs[j].kind = "optimize" /\ optimizationRefusal(j) = "none"
  /\ task'[j].guard = task[j].guard
AppliesSync(j) ==
  /\ Applied(j) /\ jobs[j].kind = "sync" /\ syncAnswerRefusal(j) = "none"
  /\ task'[j].guard = guard(book', jobs[j].chapter)

Reguards(j) ==
  /\ pc[j] = "applied" /\ pc'[j] = "ready" /\ jobs[j].kind = "optimize"
  /\ book' = book /\ task'[j].guard = guard(book, jobs[j].chapter)
  /\ task'[j].todo = Tail(task[j].todo) /\ SameCall(j) /\ SameCount(j) /\ billed'[j] = billed[j]

Extends(j) ==
  LET c == jobs[j].chapter
      own == task[j].step = {Storyboard(c)}
      targets == planTargets(book, c)
      missing == missingPages(book, c)
      pageTargets == {s \in targets : Kind(s) = "page_prompt"}
  IN /\ pc[j] = "applied" /\ pc'[j] = "ready" /\ jobs[j].kind = "sync"
     /\ SameCall(j) /\ SameGuarded(j) /\ billed'[j] = billed[j]
     /\ task'[j].allowed = task[j].allowed \cup IF own THEN pageTargets ELSE {}
     /\ task'[j].pages = task[j].pages \cup IF own THEN missing ELSE {}
     /\ jobs'[j].done = jobs[j].done
     /\ jobs'[j].total = jobs[j].done + Cardinality((targets \cap task'[j].allowed) \cup (missing \cap task'[j].pages))

OwnStep(j) ==
  \/ Moves(j) \/ Authorizes(j) \/ AsksGeneration(j) \/ AsksOptimization(j) \/ AsksSync(j)
  \/ KeepsAnswer(j) \/ AppliesOptimization(j) \/ AppliesSync(j) \/ Reguards(j) \/ Extends(j)

\* A step of the goroutine that does not end the job is one of those.
LEMMA OwnSteps ==
  ASSUME TInv, NEW j \in JobIds, Goroutine(j), Working(j)'
  PROVE  /\ UNCHANGED <<visual, injection, edits>> /\ task'[j].touched = task[j].touched
         /\ Held(j) /\ OwnStep(j)
<1>0. /\ jobs \in [JobIds -> Job] /\ pc \in [JobIds -> Locations] /\ task \in [JobIds -> Task]
      /\ billed \in [JobIds -> SUBSET Slots] /\ jobs[j] \in Job /\ task[j] \in Task /\ Fits(jobs[j], pc[j], task[j])
  BY AtWorkParts
<1>2. /\ ~Interrupt(j) /\ \A reason : ~Fail(j, reason)
      /\ \A outcome, reason, row : ~End(j, outcome, reason, row)
  BY <1>0 DEF Interrupt, Fail, End, Working
<1>3. UNCHANGED <<visual, injection, edits>>
  BY DEF Goroutine, Start, Authorize, CheckContext, SubmitGeneration, SubmitOptimization, OptimizationDone,
         SubmitSync, Returns, CallFails, UnusableAnswer, KeepOutput, ApplyGeneration, ApplyOptimization,
         Reguard, ApplySync, Extend, Finish, store
<1> DEFINE SameFields(t, u) == /\ u.source = t.source /\ u.visual = t.visual /\ u.revisions = t.revisions
                        /\ u.touched = t.touched /\ u.since = t.since
<1>4. CASE Start(j) \/ CheckContext(j) \/ OptimizationDone(j)
  <2>1. UNCHANGED <<book, jobs, task, billed>>
    BY <1>2, <1>4 DEF Start, CheckContext, OptimizationDone, store
  <2>2. Moves(j)
    <3>1. \/ pc[j] = "admitted" /\ pc'[j] = "authorize" /\ jobs[j].kind = "sync"
          \/ pc[j] = "admitted" /\ pc'[j] = "ready" /\ jobs[j].kind # "sync"
          \/ pc[j] = "ready" /\ pc'[j] = "checked" /\ jobs[j].kind \in {"optimize", "sync"}
          \/ pc[j] = "ready" /\ pc'[j] = "done" /\ jobs[j].kind = "optimize" /\ task[j].todo = <<>>
      BY <1>0, <1>2, <1>4 DEF Start, CheckContext, OptimizationDone, Live, Goto
    <3> QED BY <2>1, <3>1 DEF Moves, SameTargets, SameCall, SameGuarded, SameCount
  <2> QED BY <1>3, <2>1, <2>2 DEF Held, OwnStep
<1>5. CASE Authorize(j)
  <2>1. /\ pc[j] = "authorize" /\ pc'[j] = "ready" /\ UNCHANGED <<book, jobs, billed>>
    BY <1>0, <1>5 DEF Authorize, Live, Goto, store
  <2>2. jobs[j].kind = "sync"
    BY <1>0, <2>1 DEF Fits
  <2>3. PICK seen : task' = [task EXCEPT ![j].allowed = @ \cup seen]
    BY <1>5 DEF Authorize
  <2>4. task'[j] = [task[j] EXCEPT !.allowed = @ \cup seen]
    BY <1>0, <2>3
  <2>5. Authorizes(j) /\ Held(j) /\ task'[j].touched = task[j].touched
    BY <1>0, <2>1, <2>2, <2>4 DEF Authorizes, SameCall, SameGuarded, SameCount, Held, Task
  <2> QED BY <1>3, <2>5 DEF OwnStep
<1>6. ASSUME NEW t \in Task, Submit(j, t), book' = book,
             t.todo = task[j].todo, t.allowed = task[j].allowed, t.pages = task[j].pages, t.guard = task[j].guard,
             SameFields(task[j], t)
      PROVE  task'[j] = t /\ Asks(j) /\ Held(j) /\ task'[j].touched = task[j].touched
  <2>1. /\ task'[j] = t /\ pc'[j] = "calling" /\ billed'[j] = billed[j] \cup t.step
        /\ jobs'[j] = [jobs[j] EXCEPT !.output = FALSE]
    BY <1>0, <1>6 DEF Submit, Goto
  <2>2. /\ jobs'[j].kind = jobs[j].kind /\ jobs'[j].chapter = jobs[j].chapter
        /\ jobs'[j].done = jobs[j].done /\ jobs'[j].total = jobs[j].total
    BY <1>0, <2>1 DEF Job
  <2> QED BY <1>6, <2>1, <2>2 DEF Asks, Held, SameTargets, SameGuarded, SameCount
<1>7. CASE SubmitGeneration(j)
  <2>1. pc[j] = "ready" /\ jobs[j].kind \in Stages /\ Submit(j, task[j]) /\ book' = book
    BY <1>7 DEF SubmitGeneration, Live, store
  <2>2. task'[j] = task[j] /\ Asks(j) /\ Held(j) /\ task'[j].touched = task[j].touched
    BY <1>0, <1>6, <2>1
  <2> QED BY <1>3, <2>1, <2>2 DEF OwnStep, AsksGeneration, SameCall
<1>8. CASE SubmitOptimization(j)
  <2> DEFINE s == Head(task[j].todo)
             read == workspaceInputs(jobs[j].chapter)
             deps == receipt(book, s)
             u == [task[j] EXCEPT !.step = {s}, !.deps = deps, !.read = read]
  <2>1. /\ pc[j] = "checked" /\ jobs[j].kind = "optimize" /\ refusal(j, s) = "none" /\ Submit(j, u) /\ book' = book
    BY <1>2, <1>8 DEF SubmitOptimization, Live, store
  <2> HIDE DEF s, read, deps
  <2>2. /\ u.step = {s} /\ u.deps = deps /\ u.read = read
        /\ u.todo = task[j].todo /\ u.allowed = task[j].allowed /\ u.pages = task[j].pages /\ u.guard = task[j].guard
        /\ SameFields(task[j], u)
    BY <1>0 DEF Task
  <2>3. task'[j] = u /\ pc'[j] = "calling" /\ u \in Task
    <3>1. task'[j] = u /\ pc'[j] = "calling"
      BY <1>0, <2>1 DEF Submit, Goto
    <3>2. TInv'
      BY <1>8, SubmitsKeepTypes
    <3> QED BY <3>1, <3>2 DEF TInv, TypeOK
  <2> HIDE DEF u
  <2>4. Asks(j) /\ Held(j) /\ task'[j].touched = task[j].touched
    BY <1>6, <2>1, <2>2, <2>3
  <2> QED BY <1>3, <2>1, <2>2, <2>3, <2>4 DEF OwnStep, AsksOptimization, s, read, deps
<1>9. CASE SubmitSync(j)
  <2> DEFINE step == nextUpdate(j)
             read == workspaceInputs(jobs[j].chapter)
             u == [task[j] EXCEPT !.step = step, !.read = read]
  <2>1. CASE Submit(j, u) /\ syncRefusal(j) = "none" /\ step # {}
    <3>1. pc[j] = "checked" /\ jobs[j].kind = "sync" /\ book' = book
      BY <1>9 DEF SubmitSync, Live, store
    <3>0. TInv'
      BY <1>9, SubmitsKeepTypes
    <3> HIDE DEF step, read
    <3>2. /\ u.step = step /\ u.read = read
          /\ u.todo = task[j].todo /\ u.allowed = task[j].allowed /\ u.pages = task[j].pages /\ u.guard = task[j].guard
          /\ SameFields(task[j], u)
      BY <1>0 DEF Task
    <3>3. task'[j] = u /\ pc'[j] = "calling"
      BY <1>0, <2>1 DEF Submit, Goto
    <3>5. u \in Task
      BY <3>0, <3>3 DEF TInv, TypeOK
    <3> HIDE DEF u
    <3>4. Asks(j) /\ Held(j) /\ task'[j].touched = task[j].touched
      BY <1>6, <2>1, <3>1, <3>2, <3>3, <3>5
    <3> QED BY <1>3, <2>1, <3>1, <3>2, <3>3, <3>4 DEF OwnStep, AsksSync, step, read
  <2>2. CASE syncRefusal(j) = "none" /\ step = {} /\ Goto(j, "done") /\ UNCHANGED <<jobs, task, billed>>
    <3>1. pc[j] = "checked" /\ jobs[j].kind = "sync" /\ book' = book /\ pc'[j] = "done"
      BY <1>0, <1>9, <2>2 DEF SubmitSync, Live, store, Goto
    <3>2. Moves(j)
      BY <2>2, <3>1 DEF Moves, SameTargets, SameCall, SameGuarded, SameCount
    <3> QED BY <1>3, <2>2, <3>2 DEF OwnStep, Held
  <2> QED BY <1>2, <1>9, <2>1, <2>2 DEF SubmitSync
<1>10. CASE Returns(j)
  <2>1. PICK answer \in Answers(j) : KeepOutput(j, answer)
    BY <1>2, <1>10 DEF Returns, CallFails, UnusableAnswer
  <2>2. /\ pc[j] = "calling" /\ pc'[j] = "kept" /\ UNCHANGED <<book, billed>>
        /\ task'[j] = [task[j] EXCEPT !.answer = answer] /\ jobs'[j] = [jobs[j] EXCEPT !.output = TRUE]
    BY <1>0, <2>1 DEF KeepOutput, Live, Goto, store
  <2>3. /\ task'[j].answer = answer /\ SameTargets(j) /\ SameCall(j) /\ SameGuarded(j)
        /\ SameFields(task[j], task'[j])
    BY <1>0, <2>2 DEF Task, SameTargets, SameCall, SameGuarded
  <2>4. jobs'[j].kind = jobs[j].kind /\ jobs'[j].chapter = jobs[j].chapter /\ SameCount(j)
    BY <1>0, <2>2 DEF Job, SameCount
  <2> QED BY <1>3, <2>1, <2>2, <2>3, <2>4 DEF OwnStep, KeepsAnswer, Held
<1>11. CASE ApplyGeneration(j) \/ ApplyOptimization(j) \/ ApplySync(j)
  <2>1. /\ ~ApplyGeneration(j) /\ pc[j] = "kept" /\ billed' = billed
        /\ Save(j) /\ Completed(j) /\ Goto(j, "applied")
    BY <1>2, <1>11 DEF ApplyGeneration, ApplyOptimization, ApplySync, Refuse, Live
  <2>2. /\ pc'[j] = "applied" /\ jobs'[j] = [jobs[j] EXCEPT !.done = @ + 1]
    BY <1>0, <2>1 DEF Completed, Goto
  <2>3. /\ jobs'[j].kind = jobs[j].kind /\ jobs'[j].chapter = jobs[j].chapter
        /\ jobs'[j].done = jobs[j].done + 1 /\ jobs'[j].total = jobs[j].total
    BY <1>0, <2>2 DEF Job
  <2>4. CASE ApplyOptimization(j)
    <3>1. UNCHANGED task /\ jobs[j].kind = "optimize" /\ optimizationRefusal(j) = "none"
      BY <1>2, <2>4 DEF ApplyOptimization, Refuse
    <3>2. Applied(j)
      BY <2>1, <2>2, <2>3, <3>1 DEF Applied, SameTargets, SameCall
    <3> QED BY <1>3, <2>3, <3>1, <3>2 DEF OwnStep, AppliesOptimization, Held
  <2>5. CASE ApplySync(j)
    <3> DEFINE g == guard(book', jobs[j].chapter)
    <3>1. /\ task' = [task EXCEPT ![j].guard = g] /\ jobs[j].kind = "sync"
          /\ syncAnswerRefusal(j) = "none"
      BY <1>2, <2>5 DEF ApplySync, Refuse
    <3> HIDE DEF g
    <3>2. task'[j] = [task[j] EXCEPT !.guard = g]
      BY <1>0, <3>1
    <3>3. /\ task'[j].guard = g /\ SameTargets(j) /\ SameCall(j) /\ task'[j].answer = task[j].answer
          /\ SameFields(task[j], task'[j])
      BY <1>0, <3>2 DEF Task, SameTargets, SameCall
    <3>4. Applied(j)
      BY <2>1, <2>2, <2>3, <3>3 DEF Applied
    <3> QED BY <1>3, <2>3, <3>1, <3>3, <3>4 DEF OwnStep, AppliesSync, Held, g
  <2> QED BY <1>11, <2>1, <2>4, <2>5
<1>12. CASE Reguard(j)
  <2> DEFINE g == guard(book, jobs[j].chapter)
             rest == Tail(task[j].todo)
  <2>1. /\ pc[j] = "applied" /\ pc'[j] = "ready" /\ jobs[j].kind = "optimize" /\ UNCHANGED <<book, jobs, billed>>
        /\ task'[j] = [task[j] EXCEPT !.guard = g, !.todo = rest]
    BY <1>0, <1>12 DEF Reguard, Live, Goto, store
  <2> HIDE DEF g, rest
  <2>2. task'[j].guard = g /\ task'[j].todo = rest /\ SameCall(j) /\ SameFields(task[j], task'[j])
    BY <1>0, <2>1 DEF Task, SameCall
  <2> QED BY <1>3, <2>1, <2>2 DEF OwnStep, Reguards, Held, SameCount, g, rest
<1>13. CASE Extend(j)
  <2> DEFINE targets == planTargets(book, jobs[j].chapter)
             missing == missingPages(book, jobs[j].chapter)
             own == task[j].step = {Storyboard(jobs[j].chapter)}
             pageTargets == {s \in targets : Kind(s) = "page_prompt"}
             allowed == task[j].allowed \cup IF own THEN pageTargets ELSE {}
             pages == task[j].pages \cup IF own THEN missing ELSE {}
             total == jobs[j].done + Cardinality((targets \cap allowed) \cup (missing \cap pages))
  <2>1. /\ pc[j] = "applied" /\ pc'[j] = "ready" /\ jobs[j].kind = "sync" /\ UNCHANGED <<book, billed>>
        /\ task'[j] = [task[j] EXCEPT !.allowed = allowed, !.pages = pages]
        /\ jobs'[j] = [jobs[j] EXCEPT !.total = total]
    BY <1>0, <1>13 DEF Extend, Live, Goto, store, syncTotal
  <2> HIDE DEF allowed, pages, total
  <2>2. /\ task'[j].allowed = allowed /\ task'[j].pages = pages
        /\ SameCall(j) /\ SameGuarded(j) /\ SameFields(task[j], task'[j])
    BY <1>0, <2>1 DEF Task, SameCall, SameGuarded
  <2>3. /\ jobs'[j].kind = jobs[j].kind /\ jobs'[j].chapter = jobs[j].chapter
        /\ jobs'[j].done = jobs[j].done /\ jobs'[j].total = total
    BY <1>0, <2>1 DEF Job
  <2>4. /\ task'[j].allowed = task[j].allowed \cup IF own THEN pageTargets ELSE {}
        /\ task'[j].pages = task[j].pages \cup IF own THEN missing ELSE {}
        /\ total = jobs[j].done + Cardinality((targets \cap task'[j].allowed) \cup (missing \cap task'[j].pages))
    BY <2>2 DEF allowed, pages, total
  <2>5. Extends(j)
    BY <2>1, <2>2, <2>3, <2>4 DEF Extends
  <2> QED BY <1>3, <2>2, <2>3, <2>5 DEF OwnStep, Held
<1>14. ~Finish(j)
  BY <1>2 DEF Finish
<1> QED BY <1>4, <1>5, <1>7, <1>8, <1>9, <1>10, <1>11, <1>12, <1>13, <1>14 DEF Goroutine

\* Documents and sources of here the user touched have new revisions since b.
NewSince(j, b, here) ==
  /\ \A s \in Slots \cap here : s \in task[j].touched => b.docs[s].revision < book.docs[s].revision
  /\ \A c \in Chapters : Source(c) \in task[j].touched \cap here
                         => b.source[c].revision < book.source[c].revision

\* The user's edit, seen from a job that is under way.
LEMMA UserSteps ==
  ASSUME TInv, NEW j \in JobIds, Working(j), User
  PROVE  /\ jobs' = jobs /\ pc' = pc /\ billed' = billed /\ edits' = edits + 1
         /\ Older(book, book')
         /\ Held(j) /\ SameTargets(j) /\ SameCall(j) /\ SameCount(j)
         /\ task'[j].guard = task[j].guard /\ task'[j].answer = task[j].answer
         /\ task[j].touched \subseteq task'[j].touched
         /\ task'[j].touched = {} => book' = book
         /\ \A s \in Slots : s \in task'[j].touched \ task[j].touched
                               => book'.docs[s].revision = book.docs[s].revision + 1
         /\ \A c \in Chapters : Source(c) \in task'[j].touched \ task[j].touched
                               => book'.source[c].revision = book.source[c].revision + 1
<1>0. TypeOK /\ book \in Books
  BY DEF TInv, TypeOK
<1>1. jobs' = jobs /\ pc' = pc /\ billed' = billed /\ edits' = edits + 1
  BY DEF User, SaveDocument, SaveSource, SaveVisual, SaveInjection, Edit
<1>2. SameCount(j)
  BY <1>1 DEF SameCount
<1>3. ASSUME NEW place \in Places, Touch(place)
      PROVE  /\ Held(j) /\ SameTargets(j) /\ SameCall(j)
             /\ task'[j].guard = task[j].guard /\ task'[j].answer = task[j].answer
             /\ task'[j].touched = task[j].touched \cup {place}
  <2>1. /\ task'[j].todo = task[j].todo /\ task'[j].revisions = task[j].revisions
        /\ task'[j].source = task[j].source /\ task'[j].deps = task[j].deps
        /\ task'[j].visual = task[j].visual /\ task'[j].guard = task[j].guard
        /\ task'[j].allowed = task[j].allowed /\ task'[j].pages = task[j].pages
        /\ task'[j].step = task[j].step /\ task'[j].answer = task[j].answer
        /\ task'[j].read = task[j].read /\ task'[j].since = task[j].since
        /\ task'[j].touched = task[j].touched \cup {place}
    BY <1>0, <1>3, TouchEffect DEF Working
  <2> QED BY <1>1, <2>1 DEF Held, SameTargets, SameCall
<1>4. \A s \in Slots, c \in Chapters : s # Source(c)
  BY SlotParts DEF Source, Kind, Kinds
<1>5. \A c, d \in Chapters : Source(c) = Source(d) => c = d
  BY DEF Source
<1>6. ASSUME NEW s \in Slots, NEW text \in Bodies[Kind(s)], NEW ack \in BOOLEAN, SaveDocument(s, text, ack)
      PROVE  /\ Older(book, book') /\ s \in Places /\ Touch(s)
             /\ book'.docs[s].revision = book.docs[s].revision + 1
  <2>1. text \in Texts
    BY WrittenBodies
  <2>2. Only(s, text) \in NewBodies /\ Only(s, text)[s] # 0
    BY <2>1, OnlyIsTyped
  <2>3. book' = saveDocuments(book, Only(s, text), ack) /\ Touch(s) /\ s \in Places
    BY <1>6 DEF SaveDocument, Places
  <2> QED BY <1>0, <2>2, <2>3, SavesGrow, SaveEffect
<1>7. ASSUME NEW c \in Chapters, NEW text \in Sources, SaveSource(c, text)
      PROVE  /\ Older(book, book') /\ Source(c) \in Places /\ Touch(Source(c))
             /\ book'.source[c].revision = book.source[c].revision + 1
  <2>1. text \in Texts
    BY WrittenBodies
  <2>2. /\ book' = [book EXCEPT !.source[c] = [revision |-> @.revision + 1, text |-> text]]
        /\ Touch(Source(c)) /\ Source(c) \in Places
    BY <1>7 DEF SaveSource, Places
  <2>3. Older(book, book')
    BY <1>0, <2>1, <2>2, NewSource
  <2>4. book'.source[c].revision = book.source[c].revision + 1
    <3>1. book = [docs |-> book.docs, source |-> book.source] /\ book.source \in [Chapters -> Sourced]
      BY <1>0, BookParts
    <3>2. book'.source = [book.source EXCEPT ![c] = [revision |-> @.revision + 1, text |-> text]]
      BY <2>2, <3>1
    <3> QED BY <3>1, <3>2
  <2> QED BY <2>2, <2>3, <2>4
<1>8. CASE SaveVisual \/ SaveInjection
  <2>1. book' = book /\ task' = task
    BY <1>8 DEF SaveVisual, SaveInjection
  <2> QED BY <1>0, <1>1, <1>2, <2>1, OlderIsReflexive DEF Held, SameTargets, SameCall
<1>9. CASE \E s \in Slots : \E text \in Bodies[Kind(s)], ack \in BOOLEAN : SaveDocument(s, text, ack)
  <2>1. PICK s \in Slots : /\ Older(book, book') /\ s \in Places /\ Touch(s)
                           /\ book'.docs[s].revision = book.docs[s].revision + 1
    BY <1>6, <1>9
  <2>2. task'[j].touched = task[j].touched \cup {s}
    BY <1>3, <2>1
  <2> QED BY <1>1, <1>2, <1>3, <1>4, <2>1, <2>2
<1>10. CASE \E c \in Chapters, text \in Sources : SaveSource(c, text)
  <2>1. PICK c \in Chapters : /\ Older(book, book') /\ Source(c) \in Places /\ Touch(Source(c))
                              /\ book'.source[c].revision = book.source[c].revision + 1
    BY <1>7, <1>10
  <2>2. task'[j].touched = task[j].touched \cup {Source(c)}
    BY <1>3, <2>1
  <2> QED BY <1>1, <1>2, <1>3, <1>4, <1>5, <2>1, <2>2
<1> QED BY <1>8, <1>9, <1>10 DEF User

\* An own step leaves the book as it is or saves an answer.
LEMMA OwnBook ==
  ASSUME TInv, NEW j \in JobIds, OwnStep(j)
  PROVE  /\ Older(book, book')
         /\ book' # book => Applied(j) /\ jobs[j].kind \in {"optimize", "sync"}
<1>1. book \in Books /\ task[j] \in Task
  BY AtWorkParts
<1>2. book' = book \/ (Applied(j) /\ jobs[j].kind \in {"optimize", "sync"})
  BY DEF OwnStep, Moves, Authorizes, AsksGeneration, AsksOptimization, AsksSync, Asks, KeepsAnswer,
         AppliesOptimization, AppliesSync, Reguards, Extends, SameGuarded
<1>3. Applied(j) => Older(book, book')
  <2>1. task[j].answer \in NewBodies
    BY <1>1 DEF Task, NewBodies
  <2> QED BY <1>1, <2>1, SavesGrow DEF Applied, Save
<1> QED BY <1>1, <1>2, <1>3, OlderIsReflexive

\* What an admission leaves in the row and in the variables.
Admitted(j) ==
  /\ jobs[j].status = "none" /\ pc'[j] = "admitted" /\ jobs'[j].chapter \in Chapters /\ jobs'[j].done = 0
  /\ task'[j].since = edits /\ task'[j].touched = {}
  /\ UNCHANGED <<book, visual, injection, edits, billed>>
AdmitsGeneration(j) ==
  LET c == jobs'[j].chapter
      stage == jobs'[j].kind
      s == stageSlot(c, stage)
  IN /\ Admitted(j) /\ stage \in Stages
     /\ task'[j].source = book.source[c].revision /\ task'[j].deps = receipt(book, s)
     /\ task'[j].visual = visual /\ task'[j].revisions = generationTargets(book, c, stage)
     /\ task'[j].read = [texts |-> generationTexts(book, c, stage), source |-> book.source[c].text,
                         visual |-> visual, injection |-> 0]
     /\ stage # "page_prompts" => task'[j].step = {s}
     /\ stage = "page_prompts" => Ready(book, Storyboard(c))
AdmitsOptimization(j) ==
  LET c == jobs'[j].chapter
  IN /\ Admitted(j) /\ jobs'[j].kind = "optimize"
     /\ task'[j].source = book.source[c].revision /\ task'[j].visual = visual /\ task'[j].guard = guard(book, c)
     /\ \E targets \in SUBSET documents(book, c) :
          /\ task'[j].todo = inOrder(targets)
          /\ task'[j].revisions = {<<s, book.docs[s].revision>> : s \in targets}
          /\ jobs'[j].total = Cardinality(targets)
AdmitsSync(j) ==
  LET c == jobs'[j].chapter
      targets == planTargets(book, c)
      missing == missingPages(book, c)
  IN /\ Admitted(j) /\ jobs'[j].kind = "sync"
     /\ task'[j].guard = guard(book, c) /\ task'[j].allowed = targets /\ task'[j].pages = missing
     /\ jobs'[j].total = Cardinality(targets) + Cardinality(missing)


\* Every admission is of one of the three kinds.
LEMMA AdmitSteps ==
  ASSUME TInv, NEW j \in JobIds, Admit(j)
  PROVE  AdmitsGeneration(j) \/ AdmitsOptimization(j) \/ AdmitsSync(j)
<1>0. /\ jobs \in [JobIds -> Job] /\ pc \in [JobIds -> Locations] /\ task \in [JobIds -> Task]
      /\ edits \in Nat /\ visual \in Nat /\ book \in Books /\ TypeOK
  BY AtWorkParts DEF TInv
<1>1. ASSUME NEW kind \in Stages \cup {"optimize", "sync"}, NEW c \in Chapters, NEW total \in Nat, NEW t \in Task,
             t.touched = {}, Admissible(j), insertJob(j, kind, c, total, t)
      PROVE  /\ Admitted(j) /\ jobs'[j].kind = kind /\ jobs'[j].chapter = c /\ jobs'[j].total = total
             /\ task'[j].source = t.source /\ task'[j].deps = t.deps /\ task'[j].visual = t.visual
             /\ task'[j].revisions = t.revisions /\ task'[j].read = t.read /\ task'[j].step = t.step
             /\ task'[j].guard = t.guard /\ task'[j].todo = t.todo
             /\ task'[j].allowed = t.allowed /\ task'[j].pages = t.pages
  <2> DEFINE row == [NoJob EXCEPT !.status = "running", !.kind = kind, !.chapter = c, !.total = total]
  <2>1. /\ jobs' = [jobs EXCEPT ![j] = row] /\ pc' = [pc EXCEPT ![j] = "admitted"]
        /\ task' = [task EXCEPT ![j] = [t EXCEPT !.since = edits]]
        /\ UNCHANGED <<book, visual, injection, app, edits, lost, billed>> /\ jobs[j].status = "none"
    BY <1>1 DEF insertJob, Admissible
  <2>2. row.kind = kind /\ row.chapter = c /\ row.total = total /\ row.done = 0
    BY DEF NoJob
  <2> HIDE DEF row
  <2>3. jobs'[j] = row /\ pc'[j] = "admitted" /\ task'[j] = [t EXCEPT !.since = edits]
    BY <1>0, <2>1
  <2>4. /\ task'[j].source = t.source /\ task'[j].deps = t.deps /\ task'[j].visual = t.visual
        /\ task'[j].revisions = t.revisions /\ task'[j].read = t.read /\ task'[j].step = t.step
        /\ task'[j].guard = t.guard /\ task'[j].todo = t.todo
        /\ task'[j].allowed = t.allowed /\ task'[j].pages = t.pages
        /\ task'[j].touched = t.touched /\ task'[j].since = edits
    BY <2>3 DEF Task
  <2> QED BY <1>1, <2>1, <2>2, <2>3, <2>4 DEF Admitted
<1>2. ASSUME NEW c \in Chapters, NEW stage \in Stages, Generate(j, c, stage)
      PROVE  AdmitsGeneration(j)
  <2> DEFINE t == freezeGeneration(c, stage)
             s == stageSlot(c, stage)
             read == [texts |-> generationTexts(book, c, stage), source |-> book.source[c].text,
                      visual |-> visual, injection |-> 0]
             source == book.source[c].revision
             deps == receipt(book, s)
             revisions == generationTargets(book, c, stage)
             step == IF stage = "page_prompts" THEN {<<c, "page_prompt", p>> : p \in Plan(book, c)} ELSE {s}
  <2>1. t = [NoTask EXCEPT !.source = source, !.deps = deps, !.visual = visual, !.revisions = revisions,
                           !.step = step, !.read = read]
    BY DEF freezeGeneration
  <2>2. NoTask \in Task /\ NoTask.touched = {}
    BY NoTaskIsTyped DEF NoTask
  <2>3. t \in Task
    BY <1>0, FrozenIsTyped
  <2> HIDE DEF t, read, source, deps, revisions, step
  <2>4. /\ t.source = source /\ t.deps = deps /\ t.visual = visual /\ t.revisions = revisions
        /\ t.step = step /\ t.read = read /\ t.touched = {}
    BY <2>1, <2>2 DEF Task
  <2>5. Admissible(j) /\ insertJob(j, stage, c, 0, t)
    BY <1>2 DEF Generate, t
  <2>6. /\ Admitted(j) /\ jobs'[j].kind = stage /\ jobs'[j].chapter = c
        /\ task'[j].source = source /\ task'[j].deps = deps /\ task'[j].visual = visual
        /\ task'[j].revisions = revisions /\ task'[j].read = read /\ task'[j].step = step
    BY <1>1, <2>3, <2>4, <2>5
  <2>7. stage = "page_prompts" => Ready(book, Storyboard(c))
    <3>1. ASSUME stage = "page_prompts"
          PROVE  /\ stageRank["storyboard"] < stageRank[Kind(stageSlot(c, stage))]
                 /\ stageSlot(c, "storyboard") = Storyboard(c)
      BY <3>1, Ranks DEF stageSlot, Kind, Storyboard
    <3> QED BY <1>2, <3>1 DEF Generate
  <2>8. stage # "page_prompts" => step = {s}
    BY DEF step
  <2> QED BY <2>6, <2>7, <2>8 DEF AdmitsGeneration, read, source, deps, revisions
<1>3. ASSUME NEW c \in Chapters, NEW targets \in SUBSET documents(book, c), Optimize(j, c, targets)
      PROVE  AdmitsOptimization(j)
  <2> DEFINE t == freezeOptimization(c, targets)
             todo == inOrder(targets)
             revisions == {<<s, book.docs[s].revision>> : s \in targets}
             source == book.source[c].revision
             g == guard(book, c)
  <2>1. t = [NoTask EXCEPT !.todo = todo, !.revisions = revisions, !.source = source, !.visual = visual, !.guard = g]
    BY DEF freezeOptimization
  <2>2. NoTask \in Task /\ NoTask.touched = {}
    BY NoTaskIsTyped DEF NoTask
  <2>3. t \in Task /\ Cardinality(targets) \in Nat
    <3>1. targets \in SUBSET Slots
      BY DEF documents
    <3> QED BY <1>0, <3>1, CascadeIsTyped
  <2> HIDE DEF t, todo, revisions, source, g
  <2>4. /\ t.todo = todo /\ t.revisions = revisions /\ t.source = source /\ t.visual = visual /\ t.guard = g
        /\ t.touched = {}
    BY <2>1, <2>2 DEF Task
  <2>5. Admissible(j) /\ insertJob(j, "optimize", c, Cardinality(targets), t)
    BY <1>3 DEF Optimize, t
  <2>6. /\ Admitted(j) /\ jobs'[j].kind = "optimize" /\ jobs'[j].chapter = c /\ jobs'[j].total = Cardinality(targets)
        /\ task'[j].todo = todo /\ task'[j].revisions = revisions /\ task'[j].source = source
        /\ task'[j].visual = visual /\ task'[j].guard = g
    BY <1>1, <2>3, <2>4, <2>5
  <2> QED BY <2>6 DEF AdmitsOptimization, todo, revisions, source, g
<1>4. ASSUME NEW c \in Chapters, Sync(j, c)
      PROVE  AdmitsSync(j)
  <2> DEFINE targets == planTargets(book, c)
             missing == missingPages(book, c)
             total == Cardinality(targets) + Cardinality(missing)
             g == guard(book, c)
             t == [NoTask EXCEPT !.guard = g, !.allowed = targets, !.pages = missing]
  <2>1. Admissible(j) /\ insertJob(j, "sync", c, total, t)
    BY <1>4 DEF Sync
  <2>2. targets \in SUBSET Slots /\ missing \in SUBSET Slots /\ g \in Guards
    BY <1>0, TargetsAreSlots, GuardIsTyped
  <2>3. total \in Nat
    BY <2>2, FiniteSlots
  <2>4. NoTask \in Task /\ NoTask.touched = {}
    BY NoTaskIsTyped DEF NoTask
  <2> HIDE DEF targets, missing, total, g
  <2>5. t \in Task /\ t.guard = g /\ t.allowed = targets /\ t.pages = missing /\ t.touched = {}
    BY <2>2, <2>4 DEF Task
  <2> HIDE DEF t
  <2>6. /\ Admitted(j) /\ jobs'[j].kind = "sync" /\ jobs'[j].chapter = c /\ jobs'[j].total = total
        /\ task'[j].guard = g /\ task'[j].allowed = targets /\ task'[j].pages = missing
    BY <1>1, <2>1, <2>3, <2>5
  <2> QED BY <2>6 DEF AdmitsSync, targets, missing, total, g
<1>5. \A c \in Chapters : /\ allPages(book, c) \subseteq documents(book, c)
                          /\ \A root : cascadeTargets(book, c, root) \subseteq documents(book, c)
  BY DEF allPages, cascadeTargets, inPlanDocuments
<1> QED BY <1>2, <1>3, <1>4, <1>5 DEF Admit

\* What a goroutine read stays older than the book, and what the user touched
\* stays new.
LEMMA StaysOlder ==
  ASSUME TInv, TInv', NEW j \in JobIds, Working(j), NEW b \in Books, NEW here, Older(b, book), NewSince(j, b, here),
         User \/ (OwnStep(j) /\ task'[j].touched = task[j].touched) \/ Unnoticed
  PROVE  Older(b, book') /\ NewSince(j, b, here)'
<1>0. book \in Books /\ book' \in Books
  BY DEF TInv, TypeOK
<1>1. /\ \A s \in Slots : b.docs[s].revision \in Nat /\ book.docs[s].revision \in Nat /\ book'.docs[s].revision \in Nat
      /\ \A c \in Chapters : /\ b.source[c].revision \in Nat /\ book.source[c].revision \in Nat
                             /\ book'.source[c].revision \in Nat
  BY <1>0, BookParts
<1>2. Older(book, book')
  BY <1>0, UserSteps, OwnBook, OlderIsReflexive DEF Unnoticed
<1>3. Older(b, book')
  BY <1>0, <1>2, OlderIsTransitive
<1>4. /\ \A s \in Slots : s \in task'[j].touched \ task[j].touched => book.docs[s].revision < book'.docs[s].revision
      /\ \A c \in Chapters : Source(c) \in task'[j].touched \ task[j].touched
                               => book.source[c].revision < book'.source[c].revision
  <2>1. CASE User
    BY <1>1, <2>1, UserSteps
  <2>2. CASE ~User
    <3>1. task'[j].touched = task[j].touched
      BY <2>2 DEF Unnoticed
    <3> QED BY <3>1
  <2> QED BY <2>1, <2>2
<1>5. NewSince(j, b, here)'
  <2>1. \A s \in Slots : /\ b.docs[s].revision <= book.docs[s].revision
                         /\ book.docs[s].revision <= book'.docs[s].revision
    BY <1>2 DEF Older
  <2>2. \A c \in Chapters : /\ b.source[c].revision <= book.source[c].revision
                            /\ book.source[c].revision <= book'.source[c].revision
    BY <1>2 DEF Older
  <2>3. ASSUME NEW s \in Slots \cap here, s \in task'[j].touched
        PROVE  b.docs[s].revision < book'.docs[s].revision
    BY <1>1, <1>4, <2>1, <2>3 DEF NewSince
  <2>4. ASSUME NEW c \in Chapters, Source(c) \in task'[j].touched \cap here
        PROVE  b.source[c].revision < book'.source[c].revision
    BY <1>1, <1>4, <2>2, <2>4 DEF NewSince
  <2> QED BY <2>3, <2>4 DEF NewSince
<1> QED BY <1>3, <1>5

---------------------------------------------------------------------------
(* What a job remembers.                                                   *)

\* A job was admitted before the edits it can blame.
Begun(j) == task[j].since \in Nat /\ task[j].since <= edits

\* One step of the job or beside it.
Acts(j) == Admit(j) \/ (Working(j) /\ Begun(j) /\ (User \/ Goroutine(j) \/ Unnoticed))

\* The kept answer holds bodies for what was asked; only a page answer may
\* hold other pages of the chapter.
Answering(j) ==
  LET t == task[j]
  IN pc[j] = "kept" =>
       /\ jobs[j].kind # "page_prompts" => \E s \in t.step, text \in Texts : t.answer = Only(s, text)
       /\ jobs[j].kind = "page_prompts" =>
            \A s \in Answered(t.answer) : Kind(s) = "page_prompt" /\ Chapter(s) = jobs[j].chapter

\* A generation works from a book that was current when it was admitted.
Frozen(j) ==
  LET c == jobs[j].chapter
      stage == jobs[j].kind
      t == task[j]
  IN stage \in Stages =>
       \E b \in Books :
         /\ Older(b, book) /\ NewSince(j, b, Places)
         /\ t.source = b.source[c].revision /\ t.deps = receipt(b, stageSlot(c, stage))
         /\ t.revisions = generationTargets(b, c, stage)
         /\ t.read.texts = generationTexts(b, c, stage)
         /\ t.read.source = b.source[c].text /\ t.read.visual = t.visual
         /\ stage # "page_prompts" => t.step = {stageSlot(c, stage)}
         /\ stage = "page_prompts" => Ready(b, Storyboard(c))
         /\ edits = t.since => b = book /\ visual = t.visual

\* A job is admitted before its edits.
LEMMA BeginsOnce ==
  ASSUME TInv, NEW j \in JobIds, Working(j)', Acts(j)
  PROVE  Begun(j)'
<1>0. edits \in Nat
  BY DEF TInv, TypeOK
<1>1. CASE Admit(j)
  <2>1. task'[j].since = edits /\ edits' = edits
    BY <1>1, AdmitSteps DEF AdmitsGeneration, AdmitsOptimization, AdmitsSync, Admitted
  <2> QED BY <1>0, <2>1 DEF Begun
<1>2. CASE Working(j) /\ Begun(j) /\ User
  BY <1>0, <1>2, UserSteps DEF Begun, Held
<1>3. CASE Working(j) /\ Begun(j) /\ Goroutine(j)
  BY <1>0, <1>3, OwnSteps DEF Begun, Held
<1>4. CASE Working(j) /\ Begun(j) /\ Unnoticed
  BY <1>4 DEF Begun, Unnoticed
<1> QED BY <1>1, <1>2, <1>3, <1>4 DEF Acts

\* Only keepOutput writes an answer.
LEMMA AnswersAreKept ==
  ASSUME TInv, NEW j \in JobIds, Working(j)', Acts(j), Working(j) => Answering(j)
  PROVE  Answering(j)'
<1>1. CASE Admit(j)
  BY <1>1, AdmitSteps DEF AdmitsGeneration, AdmitsOptimization, AdmitsSync, Admitted, Answering
<1>2. CASE Working(j) /\ Begun(j) /\ User
  BY <1>2, UserSteps DEF Answering, SameCall, Answered
<1>3. CASE Working(j) /\ Begun(j) /\ Goroutine(j)
  <2>1. OwnStep(j) /\ Held(j)
    BY <1>3, OwnSteps
  <2>2. CASE KeepsAnswer(j)
    <3>1. CASE jobs[j].kind # "page_prompts"
      <4>1. \E s \in task[j].step, text \in Texts : task'[j].answer = Only(s, text)
        BY <2>2, <3>1, AnswersAreTyped DEF KeepsAnswer
      <4> QED BY <2>1, <2>2, <3>1, <4>1 DEF KeepsAnswer, SameCall, Held, Answering
    <3>2. CASE jobs[j].kind = "page_prompts"
      <4>1. \A s \in Slots : task'[j].answer[s] # 0 => Kind(s) = "page_prompt" /\ Chapter(s) = jobs[j].chapter
        BY <2>2, <3>2 DEF KeepsAnswer, Answers
      <4> QED BY <2>1, <3>2, <4>1 DEF Held, Answering, Answered
    <3> QED BY <3>1, <3>2
  <2>3. CASE ~KeepsAnswer(j)
    <3>1. pc'[j] # "kept"
      BY <2>1, <2>3 DEF OwnStep, Moves, Authorizes, AsksGeneration, AsksOptimization, AsksSync, Asks,
         AppliesOptimization, AppliesSync, Applied, Reguards, Extends
    <3> QED BY <3>1 DEF Answering
  <2> QED BY <2>2, <2>3
<1>4. CASE Working(j) /\ Begun(j) /\ Unnoticed
  BY <1>4 DEF Answering, Unnoticed, Answered
<1> QED BY <1>1, <1>2, <1>3, <1>4 DEF Acts

\* A generation keeps what it froze until it applies its answer.
LEMMA FrozenStays ==
  ASSUME TInv, TInv', NEW j \in JobIds, Working(j)', Acts(j), Working(j) => Frozen(j)
  PROVE  Frozen(j)'
<1>0. book \in Books /\ edits \in Nat
  BY DEF TInv, TypeOK
<1>1. CASE Admit(j)
  <2>1. CASE AdmitsGeneration(j)
    <3>1. book' = book /\ visual' = visual /\ task'[j].touched = {} /\ Older(book, book')
      BY <1>0, <2>1, OlderIsReflexive DEF AdmitsGeneration, Admitted
    <3>2. NewSince(j, book, Places)'
      BY <3>1 DEF NewSince
    <3> QED BY <1>0, <2>1, <3>1, <3>2 DEF AdmitsGeneration, Frozen
  <2>2. CASE AdmitsOptimization(j) \/ AdmitsSync(j)
    BY <2>2 DEF AdmitsOptimization, AdmitsSync, Frozen, Stages
  <2> QED BY <1>1, <2>1, <2>2, AdmitSteps
<1>2. ASSUME Working(j), Begun(j), User \/ Goroutine(j) \/ Unnoticed
      PROVE  Frozen(j)'
  <2> SUFFICES ASSUME jobs'[j].kind \in Stages PROVE Frozen(j)'
    BY DEF Frozen
  <2>1. /\ Held(j) /\ SameCall(j)
        /\ User \/ (OwnStep(j) /\ task'[j].touched = task[j].touched) \/ Unnoticed
        /\ edits' = task[j].since => edits = task[j].since /\ book' = book /\ visual' = visual
    <3>1. CASE User
      BY <1>0, <1>2, <3>1, UserSteps DEF Begun
    <3>2. CASE Goroutine(j)
      <4>1. /\ Held(j) /\ OwnStep(j) /\ task'[j].touched = task[j].touched /\ edits' = edits /\ visual' = visual
        BY <3>2, OwnSteps
      <4>2. jobs[j].kind \in Stages
        BY <4>1 DEF Held
      <4>3. Moves(j) \/ AsksGeneration(j) \/ KeepsAnswer(j)
        BY <4>1, <4>2 DEF Stages, OwnStep, Authorizes, AsksOptimization, AsksSync, AppliesOptimization,
           AppliesSync, Reguards, Extends
      <4> QED BY <4>1, <4>3 DEF Moves, AsksGeneration, Asks, KeepsAnswer, SameGuarded
    <3>3. CASE Unnoticed
      BY <3>3 DEF Unnoticed, Held, SameCall
    <3> QED BY <1>2, <3>1, <3>2, <3>3
  <2>2. jobs[j].kind \in Stages /\ Frozen(j)
    BY <1>2, <2>1 DEF Held
  <2>3. PICK b \in Books :
          /\ Older(b, book) /\ NewSince(j, b, Places)
          /\ task[j].source = b.source[jobs[j].chapter].revision
          /\ task[j].deps = receipt(b, stageSlot(jobs[j].chapter, jobs[j].kind))
          /\ task[j].revisions = generationTargets(b, jobs[j].chapter, jobs[j].kind)
          /\ task[j].read.texts = generationTexts(b, jobs[j].chapter, jobs[j].kind)
          /\ task[j].read.source = b.source[jobs[j].chapter].text /\ task[j].read.visual = task[j].visual
          /\ jobs[j].kind # "page_prompts" => task[j].step = {stageSlot(jobs[j].chapter, jobs[j].kind)}
          /\ jobs[j].kind = "page_prompts" => Ready(b, Storyboard(jobs[j].chapter))
          /\ edits = task[j].since => b = book /\ visual = task[j].visual
    BY <2>2 DEF Frozen
  <2>4. Older(b, book') /\ NewSince(j, b, Places)'
    BY <1>2, <2>1, <2>3, StaysOlder
  <2> QED BY <2>1, <2>3, <2>4 DEF Frozen, Held, SameCall
<1> QED BY <1>1, <1>2 DEF Acts

\* An optimization works through distinct targets, and knows the revision each
\* had when it was admitted; while nobody edits, the targets left, the source,
\* the visual profile and the guarded context are as it knows them.
Targeted(j) ==
  LET c == jobs[j].chapter
      t == task[j]
  IN jobs[j].kind = "optimize" =>
       \E b \in Books, T \in SUBSET Slots :
         /\ Older(b, book) /\ NewSince(j, b, Places)
         /\ t.revisions = {<<s, b.docs[s].revision>> : s \in T}
         /\ \A i \in DOMAIN t.todo : t.todo[i] \in T /\ Chapter(t.todo[i]) \in {0, c}
         /\ \A i, k \in DOMAIN t.todo : t.todo[i] = t.todo[k] => i = k
         /\ pc[j] \in {"calling", "kept", "applied"} => t.step = {Head(t.todo)}
         /\ edits = t.since =>
              /\ visual = t.visual /\ book.source[c].revision = t.source
              /\ pc[j] # "applied" => guard(book, c) = t.guard
              /\ \A i \in DOMAIN t.todo :
                   (pc[j] = "applied" /\ i = 1) \/ book.docs[t.todo[i]].revision = b.docs[t.todo[i]].revision

\* An optimization keeps its targets.
LEMMA TargetsStay ==
  ASSUME TInv, TInv', NEW j \in JobIds, Working(j)', Acts(j),
         Working(j) => Targeted(j) /\ Answering(j)
  PROVE  Targeted(j)'
<1>0. book \in Books /\ book' \in Books /\ edits \in Nat /\ task[j] \in Task /\ task'[j] \in Task
      /\ Fits(jobs[j], pc[j], task[j]) /\ (Fits(jobs[j], pc[j], task[j]))'
  BY DEF TInv, TypeOK, AtWork
<1>1. CASE Admit(j)
  <2>1. CASE AdmitsOptimization(j)
    <3>1. /\ book' = book /\ visual' = visual /\ edits' = edits /\ task'[j].touched = {} /\ Older(book, book')
          /\ jobs'[j].kind = "optimize" /\ pc'[j] = "admitted"
      BY <1>0, <2>1, OlderIsReflexive DEF AdmitsOptimization, Admitted
    <3>2. NewSince(j, book, Places)'
      BY <3>1 DEF NewSince
    <3>3. PICK targets \in SUBSET documents(book, jobs'[j].chapter) :
            /\ task'[j].todo = inOrder(targets)
            /\ task'[j].revisions = {<<s, book.docs[s].revision>> : s \in targets}
      BY <2>1 DEF AdmitsOptimization
    <3>4. targets \in SUBSET Slots /\ \A s \in targets : Chapter(s) \in {0, jobs'[j].chapter}
      BY DEF documents
    <3>5. /\ \A i \in DOMAIN task'[j].todo : task'[j].todo[i] \in targets
          /\ \A i, k \in DOMAIN task'[j].todo : task'[j].todo[i] = task'[j].todo[k] => i = k
      <4>1. /\ inOrder(targets) \in Seq(Slots)
            /\ \A i \in DOMAIN inOrder(targets) : inOrder(targets)[i] \in targets
            /\ \A i, k \in DOMAIN inOrder(targets) : i < k => Precedes(inOrder(targets)[i], inOrder(targets)[k])
        BY <3>4, InOrder
      <4>2. \A i \in DOMAIN inOrder(targets) : i \in Nat /\ inOrder(targets)[i] \in Slots
        BY <4>1
      <4>3. ASSUME NEW i \in DOMAIN inOrder(targets), NEW k \in DOMAIN inOrder(targets),
                   inOrder(targets)[i] = inOrder(targets)[k], i # k
            PROVE  FALSE
        BY <4>1, <4>2, <4>3, PipelineOrder
      <4> QED BY <3>3, <4>1, <4>3
    <3>6. /\ task'[j].source = book.source[jobs'[j].chapter].revision /\ task'[j].visual = visual
          /\ task'[j].guard = guard(book, jobs'[j].chapter)
      BY <2>1 DEF AdmitsOptimization
    <3> QED BY <1>0, <3>1, <3>2, <3>3, <3>4, <3>5, <3>6 DEF Targeted
  <2>2. CASE AdmitsGeneration(j) \/ AdmitsSync(j)
    BY <2>2 DEF AdmitsGeneration, AdmitsSync, Targeted, Stages
  <2> QED BY <1>1, <2>1, <2>2, AdmitSteps
<1>2. ASSUME Working(j), Begun(j), User \/ Goroutine(j) \/ Unnoticed, jobs'[j].kind = "optimize"
      PROVE  Targeted(j)'
  <2> DEFINE c == jobs[j].chapter
             t == task[j]
  <2>1. /\ Held(j)
        /\ User \/ (OwnStep(j) /\ task'[j].touched = t.touched) \/ Unnoticed
    BY <1>2, UserSteps, OwnSteps DEF Unnoticed, Held
  <2>2. jobs[j].kind = "optimize" /\ Targeted(j) /\ Answering(j) /\ jobs'[j].chapter = c
    BY <1>2, <2>1, UserSteps, OwnSteps DEF Held, Unnoticed
  <2>3. PICK b \in Books, T \in SUBSET Slots :
         /\ Older(b, book) /\ NewSince(j, b, Places)
         /\ t.revisions = {<<s, b.docs[s].revision>> : s \in T}
         /\ \A i \in DOMAIN t.todo : t.todo[i] \in T /\ Chapter(t.todo[i]) \in {0, c}
         /\ \A i, k \in DOMAIN t.todo : t.todo[i] = t.todo[k] => i = k
         /\ pc[j] \in {"calling", "kept", "applied"} => t.step = {Head(t.todo)}
         /\ edits = t.since =>
              /\ visual = t.visual /\ book.source[c].revision = t.source
              /\ pc[j] # "applied" => guard(book, c) = t.guard
              /\ \A i \in DOMAIN t.todo :
                   (pc[j] = "applied" /\ i = 1) \/ book.docs[t.todo[i]].revision = b.docs[t.todo[i]].revision
    BY <2>2 DEF Targeted
  <2>4. Older(b, book') /\ NewSince(j, b, Places)'
    BY <1>2, <2>1, <2>3, StaysOlder, OwnSteps
  <2>5. CASE User
    <3>1. edits' # task'[j].since
      BY <1>0, <1>2, <2>5, UserSteps DEF Begun, Held
    <3>2. Held(j) /\ SameTargets(j) /\ SameCall(j) /\ pc' = pc
      BY <1>2, <2>5, UserSteps
    <3> QED BY <2>2, <2>3, <2>4, <3>1, <3>2 DEF Targeted, Held, SameTargets, SameCall
  <2>6. CASE Unnoticed
    BY <2>2, <2>3, <2>4, <2>6 DEF Targeted, Unnoticed
  <2>7. CASE Goroutine(j)
    <3>1. Held(j) /\ OwnStep(j) /\ edits' = edits /\ visual' = visual
      BY <1>2, <2>7, OwnSteps
    <3>2. CASE Moves(j) \/ AsksOptimization(j) \/ KeepsAnswer(j)
      <4>1. /\ SameTargets(j) /\ book' = book /\ task'[j].guard = t.guard
            /\ pc[j] # "applied" /\ pc'[j] # "applied"
        BY <3>2 DEF Moves, AsksOptimization, Asks, KeepsAnswer, SameGuarded
      <4>2. pc'[j] \in {"calling", "kept", "applied"} => task'[j].step = {Head(t.todo)}
        BY <2>3, <3>2 DEF Moves, AsksOptimization, Asks, KeepsAnswer, SameCall
      <4> QED BY <2>2, <2>3, <2>4, <3>1, <4>1, <4>2 DEF Targeted, Held, SameTargets
    <3>3. CASE AppliesOptimization(j)
      <4>1. /\ SameTargets(j) /\ SameCall(j) /\ pc[j] = "kept" /\ pc'[j] = "applied" /\ Save(j)
        BY <3>3 DEF AppliesOptimization, Applied
      <4>2. t.step = {Head(t.todo)} /\ t.todo \in Seq(Slots) /\ t.todo # <<>>
        BY <1>0, <2>2, <2>3, <4>1 DEF Task, Fits
      <4>3. Head(t.todo) = t.todo[1] /\ 1 \in DOMAIN t.todo
        BY <4>2
      <4>4. PICK text \in Texts : t.answer = Only(t.todo[1], text)
        BY <2>2, <4>1, <4>2, <4>3 DEF Answering, Stages
      <4>5. \A i \in DOMAIN t.todo : i # 1 => t.todo[i] \in Slots /\ t.answer[t.todo[i]] = 0
        BY <2>3, <4>2, <4>3, <4>4 DEF Only
      <4>6. t.answer \in NewBodies
        BY <1>0 DEF Task, NewBodies
      <4>7. /\ book'.source = book.source
            /\ \A i \in DOMAIN t.todo : i # 1 => book'.docs[t.todo[i]] = book.docs[t.todo[i]]
        BY <1>0, <4>1, <4>5, <4>6, SaveEffect DEF Save
      <4>8. ASSUME edits' = task'[j].since
            PROVE  /\ visual' = task'[j].visual /\ book'.source[jobs'[j].chapter].revision = task'[j].source
                   /\ \A i \in DOMAIN task'[j].todo :
                        i = 1 \/ book'.docs[task'[j].todo[i]].revision = b.docs[task'[j].todo[i]].revision
        BY <2>2, <2>3, <3>1, <4>1, <4>7, <4>8 DEF Held, SameTargets
      <4>9. /\ task'[j].todo = t.todo /\ task'[j].step = {Head(t.todo)} /\ task'[j].revisions = t.revisions
            /\ pc'[j] = "applied" /\ jobs'[j].chapter = c
        BY <2>2, <3>1, <4>1, <4>2 DEF Held, SameTargets, SameCall
      <4>10. /\ task'[j].revisions = {<<s, b.docs[s].revision>> : s \in T}
             /\ \A i \in DOMAIN task'[j].todo : task'[j].todo[i] \in T /\ Chapter(task'[j].todo[i]) \in {0, jobs'[j].chapter}
             /\ \A i, k \in DOMAIN task'[j].todo : task'[j].todo[i] = task'[j].todo[k] => i = k
        BY <2>3, <4>9
      <4> HIDE DEF c, t
      <4> QED BY <2>4, <4>8, <4>9, <4>10 DEF Targeted
    <3>4. CASE Reguards(j)
      <4>1. t.todo \in Seq(Slots) /\ t.todo # <<>>
        BY <1>0, <2>2, <3>4 DEF Task, Fits, Reguards
      <4>2. \A i \in DOMAIN Tail(t.todo) : i + 1 \in DOMAIN t.todo /\ i + 1 # 1 /\ Tail(t.todo)[i] = t.todo[i + 1]
        BY <4>1
      <4>3. /\ task'[j].todo = Tail(t.todo) /\ book' = book /\ pc[j] = "applied" /\ pc'[j] = "ready"
            /\ task'[j].guard = guard(book, c)
        BY <3>4 DEF Reguards
      <4>4. \A i \in DOMAIN task'[j].todo : task'[j].todo[i] \in T /\ Chapter(task'[j].todo[i]) \in {0, c}
        BY <2>3, <4>2, <4>3
      <4>5. \A i, k \in DOMAIN task'[j].todo : task'[j].todo[i] = task'[j].todo[k] => i = k
        <5>1. DOMAIN Tail(t.todo) \subseteq Nat
          BY <4>1
        <5>2. SUFFICES ASSUME NEW i \in DOMAIN Tail(t.todo), NEW k \in DOMAIN Tail(t.todo),
                              Tail(t.todo)[i] = Tail(t.todo)[k]
                       PROVE  i = k
          BY <4>3
        <5>3. i + 1 = k + 1
          BY <2>3, <4>2, <5>2
        <5> QED BY <5>1, <5>3
      <4>6. ASSUME edits' = task'[j].since
            PROVE  /\ visual' = task'[j].visual /\ book'.source[jobs'[j].chapter].revision = task'[j].source
                   /\ \A i \in DOMAIN task'[j].todo :
                        book'.docs[task'[j].todo[i]].revision = b.docs[task'[j].todo[i]].revision
        BY <2>2, <2>3, <3>1, <4>2, <4>3, <4>6 DEF Held
      <4> QED BY <2>2, <2>3, <2>4, <3>1, <4>3, <4>4, <4>5, <4>6 DEF Targeted, Held
    <3> QED BY <2>2, <3>1, <3>2, <3>3, <3>4 DEF Stages, OwnStep, Authorizes, AsksGeneration, AsksSync,
            AppliesSync, Extends
  <2> QED BY <1>2, <2>5, <2>6, <2>7
<1> QED BY <1>1, <1>2 DEF Acts, Targeted

\* What an optimization or a sync sends is read from a book that its guard
\* describes; the document it asks for is one of the chapter or, for an
\* optimization, the settings, and its upstream is complete and current.
Asked(j) ==
  LET c == jobs[j].chapter
      t == task[j]
  IN jobs[j].kind \in {"optimize", "sync"} /\ pc[j] \in {"calling", "kept"} =>
       \E b \in Books :
         /\ Older(b, book) /\ guard(b, c) = t.guard
         /\ t.read.texts = workspaceTexts(b, c) /\ t.read.source = b.source[c].text
         /\ \E s \in Slots : /\ t.step = {s} /\ ContextReady(b, s)
                             /\ Chapter(s) = c \/ (jobs[j].kind = "optimize" /\ s = Settings)

\* A sync never rewrites the settings.
LEMMA NextUpdateIsLocal ==
  ASSUME NEW j \in JobIds, book \in Books, jobs[j].chapter \in Chapters, nextUpdate(j) # {}
  PROVE  \E s \in Slots : nextUpdate(j) = {s} /\ Chapter(s) = jobs[j].chapter
<1> DEFINE c == jobs[j].chapter
<1>1. PICK s \in planTargets(book, c) \cup missingPages(book, c) : nextUpdate(j) = {s}
  BY NextUpdate
<1>2. s \in Slots
  BY TargetsAreSlots
<1>3. CASE s \in planTargets(book, c)
  <2>1. Chapter(s) \in {0, c} /\ s \in staleDocuments(book)
    BY <1>3 DEF planTargets, inPlanDocuments, documents
  <2>2. Settings \notin staleDocuments(book)
    BY SettingsAreCurrent, BookParts
  <2> QED BY <1>1, <1>2, <2>1, <2>2, SlotParts
<1>4. CASE s \in missingPages(book, c)
  <2>1. \E p : s = <<c, "page_prompt", p>>
    BY <1>4 DEF missingPages
  <2> QED BY <1>1, <1>2, <2>1 DEF Chapter
<1> QED BY <1>3, <1>4

\* Each call reads its own context.
LEMMA EachCallReads ==
  ASSUME TInv, TInv', NEW j \in JobIds, Working(j)', Acts(j),
         Working(j) => Asked(j) /\ Targeted(j)
  PROVE  Asked(j)'
<1>0. book \in Books /\ book' \in Books /\ task[j] \in Task /\ Fits(jobs[j], pc[j], task[j])
  BY DEF TInv, TypeOK, AtWork
<1>1. CASE Admit(j)
  BY <1>1, AdmitSteps DEF AdmitsGeneration, AdmitsOptimization, AdmitsSync, Admitted, Asked
<1>2. CASE Working(j) /\ User
  <2>1. /\ Held(j) /\ SameCall(j) /\ Older(book, book') /\ pc' = pc /\ task'[j].guard = task[j].guard
    BY <1>2, UserSteps
  <2>2. \A b \in Books : Older(b, book) => Older(b, book')
    BY <1>0, <2>1, OlderIsTransitive
  <2> QED BY <1>2, <2>1, <2>2 DEF Asked, Held, SameCall
<1>3. CASE Working(j) /\ Unnoticed
  BY <1>3 DEF Asked, Unnoticed
<1>4. CASE Working(j) /\ Goroutine(j)
  <2>1. Held(j) /\ OwnStep(j) /\ Working(j) /\ jobs[j].chapter \in Chapters
    BY <1>0, <1>4, OwnSteps DEF Fits, Working
  <2> DEFINE c == jobs[j].chapter
  <2>2. CASE AsksOptimization(j)
    <3> DEFINE s == Head(task[j].todo)
    <3>1. /\ task'[j].step = {s} /\ task'[j].read = workspaceInputs(c) /\ refusal(j, s) = "none"
          /\ book' = book /\ task'[j].guard = task[j].guard /\ pc[j] = "checked" /\ jobs[j].kind = "optimize"
      BY <2>2 DEF AsksOptimization, Asks, SameGuarded
    <3>2. guard(book, c) = task[j].guard /\ ContextReady(book, s)
      BY <3>1 DEF refusal
    <3>3. task[j].todo # <<>> /\ task[j].todo \in Seq(Slots)
      BY <1>0, <3>1 DEF Fits, Task
    <3>4. s = task[j].todo[1] /\ 1 \in DOMAIN task[j].todo /\ s \in Slots
      BY <3>3
    <3>5. \A i \in DOMAIN task[j].todo : Chapter(task[j].todo[i]) \in {0, c}
      BY <2>1, <3>1 DEF Targeted
    <3>6. Chapter(s) = c \/ s = Settings
      BY <3>4, <3>5, SlotParts
    <3> HIDE DEF s
    <3>7. task'[j].read.texts = workspaceTexts(book, c) /\ task'[j].read.source = book.source[c].text
      BY <3>1 DEF workspaceInputs
    <3>8. Older(book, book') /\ jobs'[j].chapter = c /\ jobs'[j].kind = "optimize"
      BY <1>0, <2>1, <3>1, OlderIsReflexive DEF Held
    <3> QED BY <1>0, <3>1, <3>2, <3>4, <3>6, <3>7, <3>8 DEF Asked
  <2>3. CASE AsksSync(j)
    <3>1. /\ task'[j].step = nextUpdate(j) /\ task'[j].read = workspaceInputs(c) /\ syncRefusal(j) = "none"
          /\ nextUpdate(j) # {} /\ book' = book /\ task'[j].guard = task[j].guard /\ jobs[j].kind = "sync"
      BY <2>3 DEF AsksSync, Asks, SameGuarded
    <3>2. PICK s \in Slots : nextUpdate(j) = {s} /\ Chapter(s) = c
      BY <1>0, <2>1, <3>1, NextUpdateIsLocal
    <3>3. guard(book, c) = task[j].guard /\ ContextReady(book, s)
      BY <3>1, <3>2 DEF syncRefusal
    <3>4. task'[j].read.texts = workspaceTexts(book, c) /\ task'[j].read.source = book.source[c].text
      BY <3>1 DEF workspaceInputs
    <3>5. Older(book, book') /\ jobs'[j].chapter = c
      BY <1>0, <2>1, <3>1, OlderIsReflexive DEF Held
    <3> QED BY <1>0, <3>1, <3>2, <3>3, <3>4, <3>5 DEF Asked
  <2>4. CASE KeepsAnswer(j)
    BY <2>1, <2>4, <1>4 DEF KeepsAnswer, SameCall, SameGuarded, Held, Asked
  <2>5. CASE jobs[j].kind \in Stages
    BY <2>1, <2>5 DEF Held, Asked, Stages
  <2>6. CASE ~AsksOptimization(j) /\ ~AsksSync(j) /\ ~KeepsAnswer(j) /\ jobs[j].kind \notin Stages
    <3>1. pc'[j] \notin {"calling", "kept"}
      BY <2>1, <2>6 DEF OwnStep, Moves, Authorizes, AsksGeneration, AppliesOptimization, AppliesSync, Applied,
         Reguards, Extends
    <3> QED BY <3>1 DEF Asked
  <2> QED BY <2>2, <2>3, <2>4, <2>5, <2>6
<1> QED BY <1>1, <1>2, <1>3, <1>4 DEF Acts

\* A sync's guard describes a book that has the chapter as it is, unless the
\* user edited the chapter since.
Here(c) == {place \in Places : Chapter(place) = c}

Guarded(j) ==
  LET c == jobs[j].chapter
      t == task[j]
  IN jobs[j].kind = "sync" =>
       /\ \E b \in Books : Older(b, book) /\ guard(b, c) = t.guard /\ NewSince(j, b, Here(c))
       /\ edits = t.since => guard(book, c) = t.guard

\* While the guard holds, the user has not touched the chapter.
LEMMA GuardedIsUntouched ==
  ASSUME TInv, NEW j \in JobIds, Guarded(j), jobs[j].kind = "sync", jobs[j].chapter \in Chapters,
         guard(book, jobs[j].chapter) = task[j].guard
  PROVE  \A place \in task[j].touched : Chapter(place) # jobs[j].chapter
<1> DEFINE c == jobs[j].chapter
<1>0. book \in Books /\ task[j] \in Task
  BY DEF TInv, TypeOK
<1>1. PICK b \in Books : Older(b, book) /\ guard(b, c) = task[j].guard /\ NewSince(j, b, Here(c))
  BY DEF Guarded
<1>2. SameGuard(b, book, c)
  BY <1>0, <1>1 DEF SameGuard
<1>3. b.source[c] = book.source[c] /\ \A s \in Slots : Chapter(s) = c => b.docs[s] = book.docs[s]
  BY <1>2, GuardedChapter
<1>4. /\ \A s \in Slots : book.docs[s].revision \in Nat
      /\ book.source[c].revision \in Nat
  BY <1>0, BookParts
<1>5. SUFFICES ASSUME NEW place \in task[j].touched, Chapter(place) = c PROVE FALSE
  OBVIOUS
<1>6. place \in Places
  BY <1>0 DEF Task
<1>7. CASE place \in Slots
  <2>1. b.docs[place].revision < book.docs[place].revision
    BY <1>1, <1>5, <1>6, <1>7 DEF NewSince, Here
  <2> QED BY <1>3, <1>4, <1>5, <1>7, <2>1
<1>8. CASE place \notin Slots
  <2>1. PICK d \in Chapters : place = Source(d)
    BY <1>6, <1>8 DEF Places
  <2>2. d = c
    BY <1>5, <2>1 DEF Source, Chapter
  <2>3. b.source[c].revision < book.source[c].revision
    BY <1>1, <1>5, <1>6, <2>1, <2>2 DEF NewSince, Here
  <2> QED BY <1>3, <1>4, <2>3
<1> QED BY <1>7, <1>8

\* A sync keeps its guard until it takes the next one inside its own save.
LEMMA GuardStays ==
  ASSUME TInv, TInv', NEW j \in JobIds, Working(j)', Acts(j), Working(j) => Guarded(j)
  PROVE  Guarded(j)'
<1>0. /\ book \in Books /\ book' \in Books /\ edits \in Nat /\ task'[j] \in Task
      /\ Fits(jobs[j], pc[j], task[j])
  BY DEF TInv, TypeOK, AtWork
<1>1. CASE Admit(j)
  <2>1. CASE AdmitsSync(j)
    <3>1. /\ book' = book /\ Older(book, book') /\ task'[j].touched = {}
          /\ task'[j].guard = guard(book, jobs'[j].chapter)
      BY <1>0, <2>1, OlderIsReflexive DEF AdmitsSync, Admitted
    <3>2. NewSince(j, book, Here(jobs[j].chapter))'
      BY <3>1 DEF NewSince
    <3> QED BY <1>0, <3>1, <3>2 DEF Guarded
  <2>2. CASE AdmitsGeneration(j) \/ AdmitsOptimization(j)
    BY <2>2 DEF AdmitsGeneration, AdmitsOptimization, Guarded, Stages
  <2> QED BY <1>1, <2>1, <2>2, AdmitSteps
<1>2. ASSUME Working(j), Begun(j), User \/ Goroutine(j) \/ Unnoticed, jobs'[j].kind = "sync"
      PROVE  Guarded(j)'
  <2> DEFINE c == jobs[j].chapter
  <2>1. /\ Held(j)
        /\ User \/ (OwnStep(j) /\ task'[j].touched = task[j].touched) \/ Unnoticed
    BY <1>2, UserSteps, OwnSteps DEF Unnoticed, Held
  <2>2. jobs[j].kind = "sync" /\ jobs'[j].chapter = c /\ Guarded(j) /\ c \in Chapters
    BY <1>0, <1>2, <2>1 DEF Held, Fits, Working
  <2>3. CASE AppliesSync(j)
    <3>1. /\ guard(book, c) = task[j].guard /\ task'[j].guard = guard(book', c)
          /\ task'[j].touched = task[j].touched
      <4>1. syncAnswerRefusal(j) = "none" /\ task'[j].guard = guard(book', c) /\ pc[j] = "kept" /\ pc'[j] = "applied"
        BY <2>3 DEF AppliesSync, Applied
      <4>2. guard(book, c) = task[j].guard
        BY <4>1 DEF syncAnswerRefusal
      <4>3. ~User /\ ~Unnoticed
        BY <1>2, <4>1, UserSteps DEF Unnoticed
      <4> QED BY <2>1, <4>1, <4>2, <4>3
    <3>2. \A place \in task'[j].touched : Chapter(place) # c
      BY <2>2, <3>1, GuardedIsUntouched
    <3>3. \A s \in Slots \cap Here(c) : s \notin task'[j].touched
      BY <3>2 DEF Here
    <3>4. \A d \in Chapters : Source(d) \notin task'[j].touched \cap Here(c)
      BY <3>2 DEF Here
    <3>5. PICK b \in Books : b = book'
      BY <1>0
    <3>6. PICK d \in Chapters : d = c
      BY <2>2
    <3>7. NewSince(j, b, Here(d))'
      BY <3>3, <3>4, <3>6 DEF NewSince, Here
    <3>8. Older(b, book') /\ guard(b, d) = task'[j].guard /\ jobs'[j].chapter = d
      BY <2>2, <3>1, <3>5, <3>6, OlderIsReflexive
    <3>9. guard(book, d)' = guard(b, d)
      BY <3>1, <3>6, <3>8
    <3> QED BY <3>5, <3>7, <3>8, <3>9 DEF Guarded
  <2>4. CASE ~AppliesSync(j)
    <3>1. /\ task'[j].guard = task[j].guard
          /\ edits' = task'[j].since => edits = task[j].since /\ book' = book
      <4>1. CASE User
        BY <1>0, <1>2, <4>1, UserSteps DEF Begun, Held
      <4>2. CASE Unnoticed
        BY <4>2 DEF Unnoticed
      <4>3. CASE Goroutine(j)
        <5>1. OwnStep(j) /\ edits' = edits
          BY <1>2, <4>3, OwnSteps
        <5>2. Moves(j) \/ Authorizes(j) \/ AsksSync(j) \/ KeepsAnswer(j) \/ Extends(j)
          BY <2>2, <2>4, <5>1 DEF OwnStep, AsksGeneration, AsksOptimization, AppliesOptimization, Reguards, Stages
        <5>3. SameGuarded(j)
          BY <5>2 DEF Moves, Authorizes, AsksSync, Asks, KeepsAnswer, Extends
        <5> QED BY <2>1, <5>1, <5>3 DEF SameGuarded, Held
      <4> QED BY <1>2, <4>1, <4>2, <4>3
    <3>2. PICK b \in Books : Older(b, book) /\ guard(b, c) = task[j].guard /\ NewSince(j, b, Here(c))
      BY <2>2 DEF Guarded
    <3>3. Older(b, book') /\ NewSince(j, b, Here(c))'
      BY <1>2, <2>1, <2>2, <3>2, StaysOlder
    <3> QED BY <2>2, <3>1, <3>2, <3>3 DEF Guarded
  <2> QED BY <2>3, <2>4
<1> QED BY <1>1, <1>2 DEF Acts, Guarded

\* What a job remembers, all of it.
Remembers(j) == Begun(j) /\ Answering(j) /\ Frozen(j) /\ Targeted(j) /\ Asked(j) /\ Guarded(j)

MInv == TInv /\ \A j \in JobIds : Working(j) => Remembers(j)

\* Nobody works at first, and every step keeps what the jobs remember.
LEMMA MInvHolds ==
  /\ Init => MInv
  /\ MInv /\ [Next]_vars => MInv'
<1>1. Init => MInv
  BY InitTInv DEF Init, MInv, Working
<1>2. ASSUME MInv, [Next]_vars PROVE MInv'
  <2>1. TInv /\ TInv'
    BY <1>2, StepKeepsTypes DEF MInv
  <2>2. ASSUME NEW j \in JobIds, Working(j)'
        PROVE  Remembers(j)'
    <3>1. Working(j) => Remembers(j)
      BY <1>2 DEF MInv
    <3>2. Admit(j) \/ (Working(j) /\ (User \/ Goroutine(j) \/ Unnoticed))
      BY <1>2, <2>1, <2>2, WhoActs
    <3>3. Acts(j)
      BY <3>1, <3>2 DEF Acts, Remembers
    <3>4. Begun(j)'
      BY <2>1, <2>2, <3>3, BeginsOnce
    <3>5. Answering(j)'
      BY <2>1, <2>2, <3>1, <3>3, AnswersAreKept DEF Remembers
    <3>6. Frozen(j)'
      BY <2>1, <2>2, <3>1, <3>3, FrozenStays DEF Remembers
    <3>7. Targeted(j)'
      BY <2>1, <2>2, <3>1, <3>3, TargetsStay DEF Remembers
    <3>8. Asked(j)'
      BY <2>1, <2>2, <3>1, <3>3, EachCallReads DEF Remembers
    <3>9. Guarded(j)'
      BY <2>1, <2>2, <3>1, <3>3, GuardStays DEF Remembers
    <3> QED BY <3>4, <3>5, <3>6, <3>7, <3>8, <3>9 DEF Remembers
  <2> QED BY <2>1, <2>2 DEF MInv
<1> QED BY <1>1, <1>2

---------------------------------------------------------------------------
(* What a step does to a job, seen from its answer and its end.            *)

\* Only one goroutine is under way at a time.
LEMMA OneWorks ==
  ASSUME TInv, NEW j \in JobIds, Working(j), NEW i \in JobIds, Working(i)
  PROVE  i = j
<1>1. jobs[i].status = "running" /\ jobs[j].status = "running"
  BY AtWorkParts DEF Working, Fits
<1> QED BY <1>1 DEF TInv, Alone

\* A goroutine that acts is under way.
LEMMA ActsAtWork ==
  ASSUME NEW i \in JobIds, Goroutine(i) \/ Panic(i) \/ StorageFails(i) \/ LoseJob(i)
  PROVE  Working(i)
BY DEF Working, Goroutine, Panic, StorageFails, LoseJob, Live, Start, Authorize, CheckContext,
       SubmitGeneration, SubmitOptimization, OptimizationDone, SubmitSync, Returns, CallFails, UnusableAnswer,
       KeepOutput, ApplyGeneration, ApplyOptimization, Reguard, ApplySync, Extend, Finish

\* An answer that changes the book is applied by its own job's transaction,
\* which refused nothing.
LEMMA WhoApplies ==
  ASSUME TInv, [Next]_vars, NEW j \in JobIds, Applies(j)
  PROVE  \/ jobs[j].kind \in Stages /\ generationRefusal(j) = "none" /\ Save(j) /\ ApplyGeneration(j)
         \/ AppliesOptimization(j) /\ Goroutine(j)
         \/ AppliesSync(j) /\ Goroutine(j)
<1>1. Working(j) /\ pc[j] = "kept" /\ pc'[j] # "kept" /\ book' # book
  BY DEF Applies, Working
<1>2. Goroutine(j)
  <2>1. ASSUME NEW i \in JobIds, Goroutine(i)
        PROVE  Goroutine(j)
    <3>1. Working(i)
      BY <2>1, ActsAtWork
    <3> QED BY <1>1, <2>1, <3>1, OneWorks
  <2>2. ~User
    BY <1>1 DEF User, SaveDocument, SaveSource, SaveVisual, SaveInjection
  <2>3. \A i \in JobIds : ~Admit(i) /\ ~Panic(i) /\ ~StorageFails(i) /\ ~LoseJob(i)
    BY <1>1 DEF Admit, Generate, Optimize, Sync, insertJob, Panic, StorageFails, LoseJob, store
  <2>4. ~Close /\ ~Stop /\ ~Restart /\ ~UNCHANGED vars
    BY <1>1 DEF Close, Stop, Restart, vars, store
  <2> QED BY <2>1, <2>2, <2>3, <2>4 DEF Next
<1>3. CASE Working(j)'
  <2>1. OwnStep(j) /\ Applied(j)
    BY <1>1, <1>2, <1>3, OwnSteps, OwnBook
  <2>2. AppliesOptimization(j) \/ AppliesSync(j)
    BY <1>1, <2>1 DEF OwnStep, Moves, Authorizes, AsksGeneration, AsksOptimization, AsksSync, Asks, KeepsAnswer,
         Reguards, Extends, SameGuarded
  <2> QED BY <1>2, <2>2
<1>4. CASE ~Working(j)'
  <2>1. pc' # [pc EXCEPT ![j] = "applied"]
    BY <1>4, AtWorkParts DEF Working
  <2>2. ApplyGeneration(j)
    BY <1>1, <1>2, <2>1 DEF Goroutine, Start, Authorize, CheckContext, SubmitGeneration, SubmitOptimization,
         OptimizationDone, SubmitSync, Returns, CallFails, UnusableAnswer, KeepOutput, ApplyOptimization,
         Reguard, ApplySync, Extend, Finish, Refuse, Goto, store
  <2> QED BY <1>1, <2>2 DEF ApplyGeneration, Refuse
<1> QED BY <1>3, <1>4

\* A request that leaves is one of the job's own.
LEMMA WhoSubmits ==
  ASSUME TInv, [Next]_vars, NEW j \in JobIds, Submits(j)
  PROVE  AsksGeneration(j) \/ AsksOptimization(j) \/ AsksSync(j)
<1>1. Working(j)' /\ Working(j) /\ pc[j] # "calling" /\ pc'[j] = "calling"
  BY DEF Submits, Working
<1>2. ~Admit(j) /\ ~User /\ ~Unnoticed
  <2>1. jobs[j].status = "running"
    BY <1>1, AtWorkParts DEF Working, Fits
  <2> QED BY <1>1, <2>1, UserSteps DEF Unnoticed, Admit, Admissible
<1>3. Goroutine(j)
  BY <1>1, <1>2, WhoActs
<1>4. OwnStep(j)
  BY <1>1, <1>3, OwnSteps
<1> QED BY <1>1, <1>4 DEF OwnStep, Moves, Authorizes, KeepsAnswer, AppliesOptimization, AppliesSync, Applied,
         Reguards, Extends

---------------------------------------------------------------------------
(* Edits are not overwritten.                                              *)

\* The stages' slots.
LEMMA StageSlots ==
  ASSUME NEW c \in Chapters, NEW stage \in Stages
  PROVE  LET s == stageSlot(c, stage)
         IN /\ stage = "settings" => s = Settings /\ Kind(s) = "settings"
            /\ stage \in {"script", "storyboard"} => s = <<c, stage, 0>> /\ s \in Slots /\ Kind(s) = stage
            /\ stage = "page_prompts" => s = <<c, "page_prompt", 0>> /\ Kind(s) = "page_prompt"
            /\ stage # "page_prompts" => s \in Slots
            /\ Chapter(s) \in {0, c} /\ (stage # "settings" => Chapter(s) = c)
BY DEF Stages, stageSlot, Settings, Slots, Kind, Chapter

\* One body is one document answered.
LEMMA AnsweredOnce ==
  ASSUME NEW j \in JobIds, Answering(j), pc[j] = "kept", jobs[j].kind # "page_prompts", task[j] \in Task
  PROVE  \E s \in task[j].step : s \in Slots /\ Answered(task[j].answer) = {s}
<1>1. PICK s \in task[j].step, text \in Texts : task[j].answer = Only(s, text)
  BY DEF Answering
<1>2. s \in Slots
  BY DEF Task
<1>3. Answered(task[j].answer) = {s}
  BY <1>1, <1>2, OnlyIsTyped DEF Answered
<1> QED BY <1>2, <1>3

\* The revision a job remembers of a target.
LEMMA RevisionOf ==
  ASSUME NEW j \in JobIds, NEW s, NEW n, <<s, n>> \in task[j].revisions,
         \A r \in task[j].revisions : r[1] = s => r[2] = n
  PROVE  Revision(j, s) = n
<1>1. \E r \in task[j].revisions : r[1] = s
  <2>1. <<s, n>>[1] = s
    OBVIOUS
  <2> QED BY <2>1
<1> DEFINE x == CHOOSE r \in task[j].revisions : r[1] = s
<1>2. x \in task[j].revisions /\ x[1] = s
  BY <1>1
<1> QED BY <1>2 DEF Revision

\* A generation's targets keep their revisions.
LEMMA GenerationKeepsEdits ==
  ASSUME MInv, NEW j \in JobIds, Working(j), pc[j] = "kept", jobs[j].kind \in Stages, generationRefusal(j) = "none"
  PROVE  Answered(task[j].answer) \cap task[j].touched = {}
<1> DEFINE c == jobs[j].chapter
           stage == jobs[j].kind
           t == task[j]
<1>0. Frozen(j) /\ Answering(j) /\ book \in Books /\ t \in Task /\ c \in Chapters
  BY AtWorkParts DEF MInv, Remembers, Working, Fits
<1>1. PICK b \in Books :
         /\ Older(b, book) /\ NewSince(j, b, Places) /\ t.revisions = generationTargets(b, c, stage)
         /\ stage # "page_prompts" => t.step = {stageSlot(c, stage)}
  BY <1>0 DEF Frozen
<1>2. /\ generationTargets(book, c, stage) = generationTargets(b, c, stage)
      /\ stage = "page_prompts" => Answered(t.answer) = {<<c, "page_prompt", p>> : p \in Plan(book, c)}
  BY <1>1 DEF generationRefusal
<1>3. \A s \in Answered(t.answer) : s \in Slots /\ Kind(s) = Kind(stageSlot(c, stage)) /\ Chapter(s) \in {0, c}
  <2>1. CASE stage = "page_prompts"
    <3>1. \A s \in Answered(t.answer) : Kind(s) = "page_prompt" /\ Chapter(s) = c
      BY <1>0, <2>1 DEF Answering
    <3> QED BY <1>0, <2>1, <3>1, StageSlots DEF Answered
  <2>2. CASE stage # "page_prompts"
    <3>1. Answered(t.answer) = {stageSlot(c, stage)}
      BY <1>0, <1>1, <2>2, AnsweredOnce
    <3> QED BY <1>0, <2>2, <3>1, StageSlots
  <2> QED BY <2>1, <2>2
<1>4. SUFFICES ASSUME NEW s \in Answered(t.answer), s \in t.touched PROVE FALSE
  OBVIOUS
<1>5. s \in Slots /\ Kind(s) = Kind(stageSlot(c, stage)) /\ Chapter(s) \in {0, c}
  BY <1>3, <1>4
<1>6. b.docs[s].revision < book.docs[s].revision /\ b.docs[s].revision \in Nat /\ book.docs[s].revision \in Nat
  BY <1>0, <1>1, <1>4, <1>5, BookParts DEF NewSince, Places
<1>7. <<s, book.docs[s].revision>> \in generationTargets(book, c, stage)
  BY <1>5, <1>6 DEF generationTargets, documents, Exists
<1>8. <<s, book.docs[s].revision>> \in generationTargets(b, c, stage)
  BY <1>2, <1>7
<1>9. book.docs[s].revision = b.docs[s].revision
  BY <1>8 DEF generationTargets
<1> QED BY <1>6, <1>9

\* No answer overwrites an edit.
LEMMA AppliesKeepEdits ==
  ASSUME MInv, [Next]_vars, NEW j \in JobIds, Applies(j)
  PROVE  Answered(task[j].answer) \cap task[j].touched = {}
<1> DEFINE c == jobs[j].chapter
           t == task[j]
<1>0. TInv /\ Working(j) /\ Remembers(j) /\ book \in Books /\ t \in Task /\ c \in Chapters /\ pc[j] = "kept"
      /\ Fits(jobs[j], pc[j], t)
  BY AtWorkParts DEF MInv, Working, Fits, Applies
<1>1. CASE jobs[j].kind \in Stages /\ generationRefusal(j) = "none"
  BY <1>0, <1>1, GenerationKeepsEdits
<1>2. CASE AppliesOptimization(j)
  <2>1. jobs[j].kind = "optimize" /\ optimizationRefusal(j) = "none"
    BY <1>2 DEF AppliesOptimization
  <2>2. PICK b \in Books, T \in SUBSET Slots :
         /\ NewSince(j, b, Places) /\ t.revisions = {<<s, b.docs[s].revision>> : s \in T}
         /\ \A i \in DOMAIN t.todo : t.todo[i] \in T
         /\ t.step = {Head(t.todo)}
    BY <1>0, <2>1 DEF Remembers, Targeted
  <2>3. t.todo \in Seq(Slots) /\ t.todo # <<>>
    BY <1>0, <2>1 DEF Fits, Task
  <2> DEFINE s == Head(t.todo)
  <2>4. s \in T /\ s \in Slots
    BY <2>2, <2>3
  <2> HIDE DEF s
  <2>5. Answered(t.answer) = {s} /\ t.step = {s}
    BY <1>0, <2>1, <2>2, AnsweredOnce DEF Remembers, Stages, s
  <2>6. Revision(j, s) = b.docs[s].revision
    <3>1. <<s, b.docs[s].revision>> \in t.revisions
      BY <2>2, <2>4
    <3>2. \A r \in t.revisions : r[1] = s => r[2] = b.docs[s].revision
      BY <2>2
    <3> QED BY <3>1, <3>2, RevisionOf
  <2>7. (CHOOSE x \in t.step : TRUE) = s
    BY <2>5
  <2>8. book.docs[s].revision = Revision(j, s)
    BY <2>1, <2>7 DEF optimizationRefusal
  <2>9. s \in t.touched => b.docs[s].revision < book.docs[s].revision
    BY <2>2, <2>4 DEF NewSince, Places
  <2>10. b.docs[s].revision \in Nat
    BY <2>4, BookParts
  <2> QED BY <2>5, <2>6, <2>8, <2>9, <2>10
<1>3. CASE AppliesSync(j)
  <2>1. jobs[j].kind = "sync" /\ syncAnswerRefusal(j) = "none"
    BY <1>3 DEF AppliesSync
  <2>2. guard(book, c) = t.guard
    BY <2>1 DEF syncAnswerRefusal
  <2>3. \A place \in t.touched : Chapter(place) # c
    BY <1>0, <2>1, <2>2, GuardedIsUntouched DEF Remembers
  <2>4. PICK s \in Slots : t.step = {s} /\ Chapter(s) = c
    BY <1>0, <2>1 DEF Remembers, Asked
  <2>5. Answered(t.answer) = {s}
    BY <1>0, <2>1, <2>4, AnsweredOnce DEF Remembers
  <2> QED BY <2>3, <2>4, <2>5
<1> QED BY <1>0, <1>1, <1>2, <1>3, WhoApplies

\* An answer never overwrites what the user saved after the job was admitted:
\* a generation and an optimization find their targets at the revisions they
\* know, and a sync finds its whole chapter as its guard says.
THEOREM EditsAreKept == Spec => NeverOverwritesAnEdit
<1>1. MInv /\ [Next]_vars => [\A j \in JobIds : Applies(j) => Answered(task[j].answer) \cap task[j].touched = {}]_vars
  BY AppliesKeepEdits
<1> QED BY <1>1, MInvHolds, PTL DEF Spec, NeverOverwritesAnEdit

\* A sync asks for nothing once its chapter was edited: its guard no longer
\* holds.
LEMMA SyncsStop ==
  ASSUME MInv, [Next]_vars, NEW j \in JobIds, Submits(j), jobs[j].kind = "sync"
  PROVE  \A place \in task[j].touched : Chapter(place) # jobs[j].chapter
<1>0. TInv /\ Working(j) /\ Remembers(j) /\ jobs[j].chapter \in Chapters
  BY AtWorkParts DEF MInv, Working, Fits, Submits
<1>1. AsksSync(j)
  BY <1>0, WhoSubmits DEF AsksGeneration, AsksOptimization, Stages
<1>2. syncRefusal(j) = "none"
  BY <1>1 DEF AsksSync
<1>3. guard(book, jobs[j].chapter) = task[j].guard
  BY <1>2 DEF syncRefusal
<1> QED BY <1>0, <1>3, GuardedIsUntouched DEF Remembers

\* A sync submits nothing for a chapter the user edited since its admission.
THEOREM SyncsStopAtEdits == Spec => SyncStopsAtAnEdit
<1>1. MInv /\ [Next]_vars => [\A j \in JobIds : Submits(j) /\ jobs[j].kind = "sync" =>
                                \A place \in task[j].touched : Chapter(place) # jobs[j].chapter]_vars
  BY SyncsStop
<1> QED BY <1>1, MInvHolds, PTL DEF Spec, SyncStopsAtAnEdit

---------------------------------------------------------------------------
(* Answers are applied on what was read.                                   *)

\* An unchanged guard leaves the prompt of a chapter task as it was.
LEMMA GuardedWorkspace ==
  ASSUME NEW c \in Chapters, NEW b1, NEW b2, SameGuard(b1, b2, c)
  PROVE  workspaceTexts(b1, c) = workspaceTexts(b2, c) /\ b1.source[c].text = b2.source[c].text
<1> DEFINE page == <<c, "page_prompt", 0>>
           far(b) == {t \in upstream(b, page) : Chapter(t) \notin {0, c}}
<1>1. documents(b1, c) = documents(b2, c)
  BY GuardedPages
<1>2. \A s \in documents(b1, c) : Text(b1, s) = Text(b2, s)
  BY GuardedParts, SlotParts DEF documents, SameContent
<1>3. ASSUME NEW b
      PROVE  far(b) = {t \in Slots : /\ Chapter(t) < c
                                     /\ \/ Kind(t) = "script" /\ Exists(b, t)
                                        \/ Kind(t) = "page_prompt" /\ Exists(b, t) /\ ~OutOfPlan(b, t)}
  <2>1. /\ Chapter(page) = c /\ Kind(page) = "page_prompt" /\ PageNo(page) = 0
        /\ Chapter(Settings) = 0 /\ c \in Nat /\ c # 0
    BY LineageAssumption DEF Chapter, Kind, PageNo, Settings
  <2>2. \A t \in Slots : Chapter(t) \in Nat /\ (Kind(t) = "page_prompt" => PageNo(t) \in Nat)
    BY SlotParts
  <2>3. \A t \in Slots : Kind(t) \in {"script", "page_prompt"} => t # Settings /\ Chapter(t) # 0
    BY SlotParts DEF Kind, Settings
  <2> HIDE DEF page
  <2> QED BY <2>1, <2>2, <2>3 DEF upstream, DependsOn
<1>4. far(b1) = far(b2) /\ \A t \in far(b1) : StatePart(b1, t) = StatePart(b2, t)
  <2> HIDE DEF page, far
  <2> QED BY <1>3, GuardedParts
<1>5. b1.source[c] = b2.source[c]
  BY GuardedChapter
<1>6. \A b : workspaceTexts(b, c) = {<<s, Text(b, s)>> : s \in documents(b, c)}
                                      \cup {<<s, StatePart(b, s)>> : s \in far(b)}
  BY DEF workspaceTexts
<1> HIDE DEF far
<1> QED BY <1>1, <1>2, <1>4, <1>5, <1>6

\* Unchanged targets and an unchanged receipt leave the prompt of a generation
\* as it was.
LEMMA FrozenTexts ==
  ASSUME NEW c \in Chapters, NEW stage \in Stages, NEW b1 \in Books, NEW b2 \in Books, Older(b1, b2),
         generationTargets(b1, c, stage) = generationTargets(b2, c, stage),
         receipt(b1, stageSlot(c, stage)) = receipt(b2, stageSlot(c, stage))
  PROVE  generationTexts(b1, c, stage) = generationTexts(b2, c, stage)
<1> DEFINE s == stageSlot(c, stage)
           read(b) == {u \in documents(b, c) : \/ stageRank[Kind(u)] < stageRank[Kind(s)]
                                               \/ stage = "settings" /\ u = Settings}
           handed(b) == {u \in earlierScripts(b, c) : stage = "script"}
<1>0. \A b : generationTexts(b, c, stage) = {<<t, Text(b, t)>> : t \in read(b)}
                                              \cup {<<t, StatePart(b, t)>> : t \in handed(b)}
  BY DEF generationTexts
<1>1. SUFFICES /\ read(b1) = read(b2) /\ \A t \in read(b1) : Text(b1, t) = Text(b2, t)
               /\ handed(b1) = handed(b2) /\ \A t \in handed(b1) : StatePart(b1, t) = StatePart(b2, t)
  <2> HIDE DEF read, handed
  <2> QED BY <1>0
<1>2. CASE stage = "settings"
  <2>1. s = Settings /\ Kind(s) = "settings" /\ stageRank[Kind(s)] = 0
    BY <1>2, StageSlots, Ranks
  <2>2. \A u \in Slots : ~(stageRank[Kind(u)] < 0)
    BY SlotParts, Ranks DEF Kinds
  <2>3. \A b : read(b) = {u \in documents(b, c) : u = Settings} /\ handed(b) = {}
    BY <1>2, <2>1, <2>2 DEF documents
  <2>4. Settings \in Slots /\ Chapter(Settings) = 0 /\ Kind(Settings) = "settings"
    BY DEF Slots, Chapter, Kind, Settings
  <2>5. \A b : generationTargets(b, c, stage) = {<<u, b.docs[u].revision>> : u \in read(b)}
    <3>1. \A b : {u \in documents(b, c) : Kind(u) = Kind(s)} = read(b)
      BY <2>1, <2>3, <2>4, SlotParts DEF documents
    <3> HIDE DEF read
    <3> QED BY <3>1 DEF generationTargets
  <2>6. \A b : Settings \in read(b) <=> Exists(b, Settings)
    BY <2>3, <2>4 DEF documents
  <2> HIDE DEF read, handed
  <2>7. /\ Settings \in read(b1) <=> Settings \in read(b2)
        /\ Settings \in read(b1) => b1.docs[Settings].revision = b2.docs[Settings].revision
    <3>1. \A b : \A e \in generationTargets(b, c, stage) : e = <<Settings, b.docs[Settings].revision>>
      BY <2>3, <2>5
    <3>2. \A b : Settings \in read(b) => <<Settings, b.docs[Settings].revision>> \in generationTargets(b, c, stage)
      BY <2>5
    <3>3. \A b : Settings \notin read(b) => generationTargets(b, c, stage) = {}
      BY <2>3, <2>5
    <3> QED BY <3>1, <3>2, <3>3
  <2>8. Settings \in read(b1) => b1.docs[Settings] = b2.docs[Settings]
    BY <2>4, <2>7 DEF Older
  <2> QED BY <2>3, <2>7, <2>8 DEF Text
<1>3. CASE stage # "settings"
  <2>1. Chapter(s) = c /\ Kind(s) \in Kinds /\ Kind(s) # "settings"
    BY <1>3, StageSlots DEF Stages, Kinds
  <2>2. /\ \A t \in Slots : Chapter(t) \in {0, c} /\ stageRank[Kind(t)] < stageRank[Kind(s)]
                               => SameContent(b1, b2, t)
        /\ \A t \in Slots : Kind(t) = "script" /\ Chapter(t) < c
                               => Exists(b1, t) = Exists(b2, t) /\ StatePart(b1, t) = StatePart(b2, t)
    <3> HIDE DEF s
    <3>1. receipt(b1, s) = receipt(b2, s)
      BY DEF s
    <3> QED BY <2>1, <3>1, ReceiptTells
  <2>3. read(b1) = read(b2) /\ \A t \in read(b1) : Text(b1, t) = Text(b2, t)
    BY <1>3, <2>2 DEF documents, SameContent
  <2>4. handed(b1) = handed(b2) /\ \A t \in handed(b1) : StatePart(b1, t) = StatePart(b2, t)
    BY <2>2 DEF earlierScripts
  <2> QED BY <2>3, <2>4
<1> QED BY <1>2, <1>3

\* What the prompt was built from, when the answer is applied.
LEMMA AppliesOnWhatWasRead ==
  ASSUME MInv, [Next]_vars, NEW j \in JobIds, Applies(j)
  PROVE  LET c == jobs[j].chapter
             read == task[j].read
         IN /\ read.source = book.source[c].text
            /\ read.texts = IF jobs[j].kind \in Stages
                              THEN generationTexts(book, c, jobs[j].kind)
                              ELSE workspaceTexts(book, c)
            /\ jobs[j].kind \in Stages => read.visual = visual
<1> DEFINE c == jobs[j].chapter
           t == task[j]
<1>0. TInv /\ Working(j) /\ Remembers(j) /\ book \in Books /\ c \in Chapters /\ pc[j] = "kept"
  BY AtWorkParts DEF MInv, Working, Fits, Applies
<1>1. CASE jobs[j].kind \in Stages /\ generationRefusal(j) = "none"
  <2> DEFINE stage == jobs[j].kind
  <2>1. PICK b \in Books :
          /\ Older(b, book)
          /\ t.source = b.source[c].revision /\ t.deps = receipt(b, stageSlot(c, stage))
          /\ t.revisions = generationTargets(b, c, stage)
          /\ t.read.texts = generationTexts(b, c, stage)
          /\ t.read.source = b.source[c].text /\ t.read.visual = t.visual
    BY <1>0, <1>1 DEF Remembers, Frozen
  <2>2. /\ book.source[c].revision = t.source /\ receipt(book, stageSlot(c, stage)) = t.deps
        /\ visual = t.visual /\ generationTargets(book, c, stage) = t.revisions
    BY <1>1 DEF generationRefusal
  <2>3. generationTexts(b, c, stage) = generationTexts(book, c, stage)
    BY <1>0, <1>1, <2>1, <2>2, FrozenTexts
  <2>4. b.source[c] = book.source[c]
    BY <1>0, <2>1, <2>2 DEF Older
  <2> QED BY <1>1, <2>1, <2>2, <2>3, <2>4
<1>2. ASSUME jobs[j].kind \in {"optimize", "sync"}, guard(book, c) = t.guard
      PROVE  t.read.source = book.source[c].text /\ t.read.texts = workspaceTexts(book, c)
  <2>1. PICK b \in Books : /\ Older(b, book) /\ guard(b, c) = t.guard
                           /\ t.read.texts = workspaceTexts(b, c) /\ t.read.source = b.source[c].text
    BY <1>0, <1>2 DEF Remembers, Asked
  <2>2. SameGuard(b, book, c)
    BY <1>0, <1>2, <2>1 DEF SameGuard
  <2> QED BY <1>0, <2>1, <2>2, GuardedWorkspace
<1>3. CASE AppliesOptimization(j)
  <2>1. jobs[j].kind = "optimize" /\ optimizationRefusal(j) = "none"
    BY <1>3 DEF AppliesOptimization
  <2>2. guard(book, c) = t.guard
    BY <2>1 DEF optimizationRefusal
  <2> QED BY <1>2, <2>1, <2>2 DEF Stages
<1>4. CASE AppliesSync(j)
  <2>1. jobs[j].kind = "sync" /\ syncAnswerRefusal(j) = "none"
    BY <1>4 DEF AppliesSync
  <2>2. guard(book, c) = t.guard
    BY <2>1 DEF syncAnswerRefusal
  <2> QED BY <1>2, <2>1, <2>2 DEF Stages
<1> QED BY <1>0, <1>1, <1>3, <1>4, WhoApplies

\* An answer is applied only while everything its prompt was built from still
\* reads as it did.  The prompt of an optimization or a sync is covered by the
\* guard, the prompt of a generation by the receipt, the source revision, the
\* visual profile and, for the settings, the target's own revision.
THEOREM AnswersMatchTheirPrompts == Spec => AppliedOnWhatWasRead
<1>1. MInv /\ [Next]_vars =>
        [\A j \in JobIds : Applies(j) =>
           LET c == jobs[j].chapter
               read == task[j].read
           IN /\ read.source = book.source[c].text
              /\ read.texts = IF jobs[j].kind \in Stages
                                THEN generationTexts(book, c, jobs[j].kind)
                                ELSE workspaceTexts(book, c)
              /\ jobs[j].kind \in Stages => read.visual = visual]_vars
  BY AppliesOnWhatWasRead
<1> QED BY <1>1, MInvHolds, PTL DEF Spec, AppliedOnWhatWasRead

---------------------------------------------------------------------------
(* What is saved is current.                                               *)

\* What an optimization or a sync applies: the answer for the one document it
\* asked for, whose context is still complete and current.
LEMMA AppliesToOne ==
  ASSUME MInv, NEW j \in JobIds, AppliesOptimization(j) \/ AppliesSync(j)
  PROVE  LET c == jobs[j].chapter
         IN /\ guard(book, c) = task[j].guard /\ task[j].answer \in NewBodies
            /\ \E s \in Slots : /\ task[j].step = {s} /\ Answered(task[j].answer) = {s}
                                /\ task[j].answer[s] # 0 /\ \A t \in Slots : t # s => task[j].answer[t] = 0
                                /\ s = Settings \/ (Chapter(s) = c /\ ContextReady(book, s))
                                /\ jobs[j].kind = "sync" => Chapter(s) = c
<1> DEFINE c == jobs[j].chapter
           t == task[j]
<1>0. Applied(j) /\ jobs[j].kind \in {"optimize", "sync"} /\ pc[j] = "kept" /\ Working(j)
  BY DEF AppliesOptimization, AppliesSync, Applied, Working
<1>1. Asked(j) /\ Answering(j) /\ book \in Books /\ t \in Task /\ c \in Chapters
  BY <1>0, AtWorkParts DEF MInv, Remembers, Working, Fits
<1>2. guard(book, c) = t.guard
  BY DEF AppliesOptimization, AppliesSync, optimizationRefusal, syncAnswerRefusal
<1>3. PICK b \in Books : /\ Older(b, book) /\ guard(b, c) = t.guard
                         /\ \E s \in Slots : /\ t.step = {s} /\ ContextReady(b, s)
                                             /\ Chapter(s) = c \/ (jobs[j].kind = "optimize" /\ s = Settings)
  BY <1>0, <1>1 DEF Asked
<1>4. PICK s \in Slots : /\ t.step = {s} /\ ContextReady(b, s)
                         /\ Chapter(s) = c \/ (jobs[j].kind = "optimize" /\ s = Settings)
  BY <1>3
<1>5. Answered(t.answer) = {s}
  BY <1>0, <1>1, <1>4, AnsweredOnce
<1>6. t.answer \in NewBodies
  BY <1>1 DEF Task, NewBodies
<1>7. t.answer[s] # 0 /\ \A u \in Slots : u # s => t.answer[u] = 0
  BY <1>5 DEF Answered
<1>8. Chapter(s) = c => ContextReady(book, s)
  <2>1. SameGuard(b, book, c)
    BY <1>1, <1>2, <1>3 DEF SameGuard
  <2> QED BY <1>1, <1>4, <2>1, GuardedPlan
<1> QED BY <1>0, <1>2, <1>4, <1>5, <1>6, <1>7, <1>8

\* Nothing an optimization or a sync saves is stale.
LEMMA AppliesCurrent ==
  ASSUME MInv, [Next]_vars, NEW j \in JobIds, Applies(j), jobs[j].kind \notin Stages
  PROVE  Answered(task[j].answer) \cap staleDocuments(book') = {}
<1>1. AppliesOptimization(j) \/ AppliesSync(j)
  BY WhoApplies DEF MInv
<1>2. book' = saveDocuments(book, task[j].answer, TRUE) /\ book \in Books
  BY <1>1 DEF AppliesOptimization, AppliesSync, Applied, Save, MInv, TInv, TypeOK
<1>3. PICK s \in Slots : /\ Answered(task[j].answer) = {s}
                         /\ task[j].answer[s] # 0 /\ \A t \in Slots : t # s => task[j].answer[t] = 0
                         /\ s = Settings \/ ContextReady(book, s)
  BY <1>1, AppliesToOne
<1>4. task[j].answer \in NewBodies
  BY <1>1, AppliesToOne
<1>5. s \notin staleDocuments(book')
  <2>1. CASE s = Settings
    <3>1. book' \in Books
      BY <1>2, <1>4, SaveEffect
    <3> QED BY <2>1, <3>1, SettingsAreCurrent, BookParts
  <2>2. CASE ContextReady(book, s)
    BY <1>2, <1>3, <1>4, <2>2, SaveIsCurrent
  <2> QED BY <1>3, <2>1, <2>2
<1> QED BY <1>3, <1>5

\* A paid update is not stale as soon as it is saved: the guard found the
\* chapter and what it inherits as they were when the call was made, the
\* document's upstream was complete and current then, and the save records it.
THEOREM UpdatesAreCurrent == Spec => SavedIsCurrent
<1>1. MInv /\ [Next]_vars => [\A j \in JobIds : Applies(j) /\ jobs[j].kind \notin Stages =>
                                Answered(task[j].answer) \cap staleDocuments(book') = {}]_vars
  BY AppliesCurrent
<1> QED BY <1>1, MInvHolds, PTL DEF Spec, SavedIsCurrent

---------------------------------------------------------------------------
(* Nobody is blamed for nothing.                                           *)

Blames == {"source", "visual", "edited", "guard", "upstream"}

\* The check a job's step refuses with.
Refused(j, reason) ==
  \/ pc[j] = "checked" /\ jobs[j].kind = "optimize" /\ reason = refusal(j, Head(task[j].todo))
  \/ pc[j] = "checked" /\ jobs[j].kind = "sync" /\ reason = syncRefusal(j)
  \/ pc[j] = "kept" /\ jobs[j].kind \in Stages /\ reason = generationRefusal(j)
  \/ pc[j] = "kept" /\ jobs[j].kind = "optimize" /\ reason = optimizationRefusal(j)
  \/ pc[j] = "kept" /\ jobs[j].kind = "sync" /\ reason = syncAnswerRefusal(j)

\* A job that ends with a blame was refused by one of its own checks.
LEMMA WhoBlames ==
  ASSUME TInv, [Next]_vars, NEW j \in JobIds, StopsFor(j, Blames)
  PROVE  Working(j) /\ Refused(j, jobs'[j].reason)
<1>0. /\ jobs[j].status = "running" /\ jobs'[j].status = "failed" /\ jobs'[j].reason \in Blames
      /\ jobs \in [JobIds -> Job]
  BY AtWorkParts DEF StopsFor
<1>1. ~User /\ ~Close /\ ~Stop /\ ~Restart /\ ~UNCHANGED vars
  <2>1. ~Restart
    <3>1. Restart => jobs'[j] = [jobs[j] EXCEPT !.status = "interrupted"]
      BY <1>0 DEF Restart
    <3>2. jobs[j] \in Job
      BY <1>0
    <3>3. Restart => jobs'[j].status = "interrupted"
      BY <3>1, <3>2 DEF Job
    <3> QED BY <1>0, <3>3
  <2> QED BY <1>0, <2>1 DEF User, SaveDocument, SaveSource, SaveVisual, SaveInjection, Close, Stop, vars
<1>2. \A i \in JobIds : ~Admit(i) /\ ~LoseJob(i)
  BY <1>0 DEF Admit, Admissible, RunningJobs, LoseJob
<1>3. PICK i \in JobIds : Goroutine(i) \/ Panic(i) \/ StorageFails(i)
  BY <1>1, <1>2 DEF Next
<1>4. i = j
  <2>1. Working(i)
    BY <1>3, ActsAtWork
  <2>2. jobs[i].status = "running"
    BY <2>1, AtWorkParts DEF Working, Fits
  <2> QED BY <1>0, <2>2 DEF TInv, Alone
<1>5. Working(j)
  BY <1>3, <1>4, ActsAtWork
<1>6. /\ \A reason : Fail(j, reason) => jobs'[j].reason = reason
      /\ ~Interrupt(j) /\ ~End(j, "succeeded", "none", jobs[j])
  <2>1. \A outcome, reason : End(j, outcome, reason, jobs[j]) =>
          jobs'[j].reason = reason /\ jobs'[j].status = outcome
    <3>1. SUFFICES ASSUME NEW outcome, NEW reason, End(j, outcome, reason, jobs[j])
                   PROVE  jobs'[j].reason = reason /\ jobs'[j].status = outcome
      OBVIOUS
    <3>2. jobs'[j] = [jobs[j] EXCEPT !.status = outcome, !.reason = reason]
      BY <1>0, <3>1 DEF End
    <3>3. jobs[j] \in Job
      BY <1>0
    <3> QED BY <3>2, <3>3 DEF Job
  <2> QED BY <1>0, <2>1 DEF Fail, Interrupt
<1>7. jobs' # jobs
  BY <1>0
<1>8. ~UnusableAnswer(j)
  <2>1. SUFFICES ASSUME UnusableAnswer(j) PROVE FALSE
    OBVIOUS
  <2> DEFINE row == [jobs[j] EXCEPT !.output = TRUE]
  <2>2. row \in Job
    BY <1>0, RowFields
  <2>3. End(j, "failed", "answer", row)
    BY <2>1 DEF UnusableAnswer
  <2> HIDE DEF row
  <2>4. jobs'[j] = [row EXCEPT !.status = IF @ = "running" THEN "failed" ELSE @, !.reason = "answer"]
    BY <1>0, <2>3 DEF End
  <2>5. jobs'[j].reason = "answer"
    BY <2>2, <2>4 DEF Job
  <2> QED BY <1>0, <2>5 DEF Blames
<1>9. /\ ~Panic(j) /\ ~StorageFails(j) /\ ~Start(j) /\ ~Authorize(j) /\ ~CheckContext(j) /\ ~OptimizationDone(j)
       /\ ~CallFails(j) /\ ~Reguard(j) /\ ~Finish(j)
  BY <1>0, <1>6, <1>7 DEF Panic, StorageFails, Start, Authorize, CheckContext, OptimizationDone, CallFails,
     Reguard, Finish, Blames
<1>10. \A t : ~Submit(j, t)
  <2>1. SUFFICES ASSUME NEW t, Submit(j, t) PROVE FALSE
    OBVIOUS
  <2>2. jobs'[j] = [jobs[j] EXCEPT !.output = FALSE]
    BY <1>0, <2>1 DEF Submit
  <2>3. jobs'[j].status = jobs[j].status
    BY <1>0, <2>2 DEF Job
  <2> QED BY <1>0, <2>3
<1>11. ~SubmitGeneration(j) /\ ~Extend(j) /\ ~Completed(j) /\ \A answer : ~KeepOutput(j, answer)
  <2>1. ~SubmitGeneration(j)
    BY <1>10 DEF SubmitGeneration
  <2>2. ASSUME Extend(j) PROVE FALSE
    <3>1. PICK total : jobs' = [jobs EXCEPT ![j].total = total]
      BY <2>2 DEF Extend
    <3>2. jobs'[j] = [jobs[j] EXCEPT !.total = total]
      BY <1>0, <3>1
    <3>3. jobs'[j].status = jobs[j].status
      BY <1>0, <3>2 DEF Job
    <3> QED BY <1>0, <3>3
  <2>3. ASSUME Completed(j) PROVE FALSE
    <3>1. jobs'[j] = [jobs[j] EXCEPT !.done = @ + 1]
      BY <1>0, <2>3 DEF Completed
    <3>2. jobs'[j].status = jobs[j].status
      BY <1>0, <3>1 DEF Job
    <3> QED BY <1>0, <3>2
  <2>4. ASSUME NEW answer, KeepOutput(j, answer) PROVE FALSE
    <3>1. jobs'[j] = [jobs[j] EXCEPT !.output = TRUE]
      BY <1>0, <2>4 DEF KeepOutput
    <3>2. jobs'[j].status = jobs[j].status
      BY <1>0, <3>1 DEF Job
    <3> QED BY <1>0, <3>2
  <2> QED BY <2>1, <2>2, <2>3, <2>4
<1>12. \/ SubmitOptimization(j) \/ SubmitSync(j)
       \/ ApplyGeneration(j) \/ ApplyOptimization(j) \/ ApplySync(j)
  BY <1>3, <1>4, <1>8, <1>9, <1>11 DEF Goroutine, Returns
<1>13. CASE SubmitOptimization(j)
  <2>1. Fail(j, refusal(j, Head(task[j].todo))) /\ pc[j] = "checked" /\ jobs[j].kind = "optimize"
    BY <1>10, <1>13 DEF SubmitOptimization, Live
  <2> QED BY <1>5, <1>6, <2>1 DEF Refused
<1>14. CASE SubmitSync(j)
  <2>1. Fail(j, syncRefusal(j)) /\ pc[j] = "checked" /\ jobs[j].kind = "sync"
    BY <1>7, <1>10, <1>14 DEF SubmitSync, Live
  <2> QED BY <1>5, <1>6, <2>1 DEF Refused
<1>15. CASE ApplyGeneration(j)
  <2>1. Fail(j, generationRefusal(j)) /\ pc[j] = "kept" /\ jobs[j].kind \in Stages
    BY <1>6, <1>15 DEF ApplyGeneration, Live, Refuse
  <2> QED BY <1>5, <1>6, <2>1 DEF Refused
<1>16. CASE ApplyOptimization(j)
  <2>1. Fail(j, optimizationRefusal(j)) /\ pc[j] = "kept" /\ jobs[j].kind = "optimize"
    BY <1>11, <1>16 DEF ApplyOptimization, Live, Refuse
  <2> QED BY <1>5, <1>6, <2>1 DEF Refused
<1>17. CASE ApplySync(j)
  <2>1. Fail(j, syncAnswerRefusal(j)) /\ pc[j] = "kept" /\ jobs[j].kind = "sync"
    BY <1>11, <1>17 DEF ApplySync, Live, Refuse
  <2> QED BY <1>5, <1>6, <2>1 DEF Refused
<1> QED BY <1>12, <1>13, <1>14, <1>15, <1>16, <1>17

\* While nobody edits, no check finds an edit.
LEMMA UneditedIsNotBlamed ==
  ASSUME MInv, NEW j \in JobIds, Working(j), edits = task[j].since, NEW reason, Refused(j, reason)
  PROVE  /\ reason \notin {"source", "visual", "edited", "guard"}
         /\ jobs[j].kind \in Stages => reason # "upstream"
<1> DEFINE c == jobs[j].chapter
           t == task[j]
<1>0. Remembers(j) /\ Fits(jobs[j], pc[j], t) /\ t \in Task /\ book \in Books /\ c \in Chapters
  BY AtWorkParts DEF MInv, Working, Fits
<1>1. CASE jobs[j].kind = "optimize" /\ pc[j] \in {"checked", "kept"}
  <2>1. PICK b \in Books, T \in SUBSET Slots :
         /\ t.revisions = {<<s, b.docs[s].revision>> : s \in T}
         /\ \A i \in DOMAIN t.todo : t.todo[i] \in T
         /\ pc[j] \in {"calling", "kept", "applied"} => t.step = {Head(t.todo)}
         /\ edits = t.since =>
              /\ visual = t.visual /\ book.source[c].revision = t.source
              /\ pc[j] # "applied" => guard(book, c) = t.guard
              /\ \A i \in DOMAIN t.todo :
                   (pc[j] = "applied" /\ i = 1) \/ book.docs[t.todo[i]].revision = b.docs[t.todo[i]].revision
    BY <1>0, <1>1 DEF Remembers, Targeted
  <2>2. t.todo \in Seq(Slots) /\ t.todo # <<>>
    BY <1>0, <1>1 DEF Fits, Task
  <2> DEFINE s == Head(t.todo)
  <2>3. s \in T /\ book.docs[s].revision = b.docs[s].revision
    BY <1>1, <2>1, <2>2
  <2>4. visual = t.visual /\ book.source[c].revision = t.source /\ guard(book, c) = t.guard
    BY <1>1, <2>1
  <2> HIDE DEF s
  <2>5. book.docs[s].revision = Revision(j, s)
    <3>1. <<s, b.docs[s].revision>> \in t.revisions
      BY <2>1, <2>3
    <3>2. \A r \in t.revisions : r[1] = s => r[2] = b.docs[s].revision
      BY <2>1
    <3> QED BY <2>3, <3>1, <3>2, RevisionOf
  <2>6. refusal(j, s) \notin {"source", "visual", "edited", "guard"}
    BY <2>4, <2>5 DEF refusal
  <2>7. pc[j] = "kept" => optimizationRefusal(j) \notin {"source", "visual", "edited", "guard"}
    <3>1. pc[j] = "kept" => (CHOOSE x \in t.step : TRUE) = s
      BY <2>1 DEF s
    <3> QED BY <2>4, <2>5, <3>1 DEF optimizationRefusal
  <2> QED BY <1>1, <2>6, <2>7 DEF Refused, Stages, s
<1>2. CASE jobs[j].kind = "sync"
  <2>1. guard(book, c) = t.guard
    BY <1>0, <1>2 DEF Remembers, Guarded
  <2>2. syncRefusal(j) \notin {"source", "visual", "edited", "guard"}
    BY <2>1 DEF syncRefusal
  <2>3. syncAnswerRefusal(j) \notin {"source", "visual", "edited", "guard"}
    BY <2>1 DEF syncAnswerRefusal
  <2> QED BY <1>2, <2>2, <2>3 DEF Refused, Stages
<1>3. CASE jobs[j].kind \in Stages
  <2> DEFINE stage == jobs[j].kind
  <2>1. /\ t.source = book.source[c].revision /\ t.deps = receipt(book, stageSlot(c, stage))
        /\ t.revisions = generationTargets(book, c, stage) /\ visual = t.visual
        /\ stage = "page_prompts" => Ready(book, Storyboard(c))
    BY <1>0, <1>3 DEF Remembers, Frozen
  <2>2. generationRefusal(j) \in {"answer", "none"}
    BY <2>1 DEF generationRefusal
  <2> QED BY <1>3, <2>2 DEF Refused, Stages
<1> QED BY <1>1, <1>2, <1>3 DEF Refused

\* A job blames an edit only when there was one: whatever a job saves itself,
\* its next checks compare with what it knows of its own saves.
THEOREM OnlyEditsAreBlamed == Spec => BlamesOnlyEdits
<1>1. ASSUME MInv, [Next]_vars, NEW j \in JobIds,
             StopsFor(j, {"source", "visual", "edited", "guard"}
                           \cup IF jobs[j].kind \in Stages THEN {"upstream"} ELSE {})
      PROVE  edits > task[j].since
  <2>1. StopsFor(j, Blames)
    BY <1>1 DEF StopsFor, Blames
  <2>2. Working(j) /\ Refused(j, jobs'[j].reason) /\ TInv
    BY <1>1, <2>1, WhoBlames DEF MInv
  <2>3. edits # task[j].since
    BY <1>1, <2>2, UneditedIsNotBlamed DEF StopsFor
  <2>4. Begun(j) /\ edits \in Nat
    BY <1>1, <2>2 DEF MInv, Remembers, TInv, TypeOK
  <2> QED BY <2>3, <2>4 DEF Begun
<1>2. MInv /\ [Next]_vars =>
        [\A j \in JobIds :
           StopsFor(j, {"source", "visual", "edited", "guard"}
                         \cup IF jobs[j].kind \in Stages THEN {"upstream"} ELSE {})
             => edits > task[j].since]_vars
  BY <1>1
<1> QED BY <1>2, MInvHolds, PTL DEF Spec, BlamesOnlyEdits

---------------------------------------------------------------------------
(* Nothing is paid twice.                                                  *)

\* What a sync may still ask for in book b.
Left(b, c, t) == (planTargets(b, c) \cap t.allowed) \cup (missingPages(b, c) \cap t.pages)

\* What a sync has paid for precedes what is left, in a book its guard
\* describes; the update under way is the first of what was left.
PaidSync(j, b) ==
  LET c == jobs[j].chapter
      t == task[j]
  IN /\ Older(b, book) /\ guard(b, c) = t.guard
     /\ pc[j] \in {"ready", "checked"} => \A s \in billed[j], u \in Left(b, c, t) : Precedes(s, u)
     /\ pc[j] \in {"calling", "kept", "applied"} =>
          \E s \in Slots :
            /\ t.step = {s} /\ \A paid \in billed[j] : paid = s \/ Precedes(paid, s)
            /\ pc[j] # "applied" => \A u \in Left(b, c, t) : ~Precedes(u, s)
            /\ pc[j] = "applied" => \A u \in Left(b, c, t) : Precedes(s, u)

\* What a job has paid for.
Paid(j) ==
  LET t == task[j]
  IN /\ pc[j] \in {"admitted", "authorize"} => billed[j] = {}
     /\ jobs[j].kind \in Stages /\ pc[j] = "ready" => billed[j] = {}
     /\ jobs[j].kind = "optimize" =>
          \A i \in DOMAIN t.todo :
            t.todo[i] \notin billed[j] \/ (i = 1 /\ pc[j] \in {"calling", "kept", "applied"})
     /\ jobs[j].kind = "sync" => \E b \in Books : PaidSync(j, b)

\* A job that was never admitted has paid for nothing.
Unpaid(j) == jobs[j].status = "none" => billed[j] = {}

\* A row is new only once, and a job that was never admitted pays for nothing.
LEMMA UnpaidStays ==
  ASSUME TInv, [Next]_vars, NEW j \in JobIds, Unpaid(j)
  PROVE  Unpaid(j)'
<1>0. /\ jobs \in [JobIds -> Job] /\ billed \in [JobIds -> SUBSET Slots]
      /\ pc \in [JobIds -> Locations] /\ task \in [JobIds -> Task]
  BY AtWorkParts
<1>1. jobs'[j].status = "none" => jobs[j].status = "none"
  <2>1. LInv
    BY <1>0 DEF LInv, Rows, IsRow, Columns, Job
  <2>2. [Ledger!Next]_Ledger!vars
    BY <2>1, StepImplements
  <2>3. ledgerStatus'[j] = "none" => ledgerStatus[j] = "none"
    <3>1. ledgerStatus = [i \in JobIds |-> ledgerStatus[i]]
      BY DEF ledgerStatus
    <3> HIDE DEF ledgerStatus
    <3> QED BY <2>2, <3>1 DEF Ledger!Next, Ledger!vars, Ledger!Admit, Ledger!JobStep, Ledger!Start, Ledger!Submit,
            Ledger!Answer, Ledger!End, Ledger!LoseJob, Ledger!Close, Ledger!Stop, Ledger!Restart,
            Ledger!FinishJob, Ledger!Terminal
  <2> QED BY <2>3 DEF ledgerStatus
<1>2. jobs[j].status = "none" => billed'[j] = billed[j]
  <2>1. SUFFICES ASSUME jobs[j].status = "none", billed' # billed PROVE billed'[j] = billed[j]
    OBVIOUS
  <2>2. PICK i \in JobIds : Goroutine(i)
    BY <2>1 DEF Next, vars, User, SaveDocument, SaveSource, SaveVisual, SaveInjection, Admit, Generate, Optimize,
       Sync, insertJob, Panic, StorageFails, LoseJob, Close, Stop, Restart
  <2>3. i # j
    BY <2>1, <2>2, ActsAtWork, AtWorkParts DEF Working, Fits
  <2>4. \E t : Submit(i, t)
    BY <2>1, <2>2 DEF Goroutine, Start, Authorize, CheckContext, SubmitGeneration, SubmitOptimization,
       OptimizationDone, SubmitSync, Returns, CallFails, UnusableAnswer, KeepOutput, ApplyGeneration,
       ApplyOptimization, Reguard, ApplySync, Extend, Finish
  <2> QED BY <1>0, <2>3, <2>4 DEF Submit
<1> QED BY <1>1, <1>2 DEF Unpaid

\* A sync's call is for the first of what is left.
LEMMA AsksForTheFirst ==
  ASSUME MInv, NEW j \in JobIds, AsksSync(j), Working(j)
  PROVE  LET c == jobs[j].chapter
         IN /\ guard(book, c) = task[j].guard
            /\ \E s \in Left(book, c, task[j]) : /\ s \in Slots /\ task'[j].step = {s}
                                                 /\ \A u \in Left(book, c, task[j]) : ~Precedes(u, s)
<1> DEFINE c == jobs[j].chapter
<1>0. book \in Books /\ c \in Chapters
  BY AtWorkParts DEF MInv, Working, Fits
<1>1. syncRefusal(j) = "none" /\ nextUpdate(j) # {} /\ task'[j].step = nextUpdate(j)
  BY DEF AsksSync
<1>2. guard(book, c) = task[j].guard
  BY <1>1 DEF syncRefusal
<1>3. /\ Left(book, c, task[j]) \subseteq Slots
      /\ \E s \in Left(book, c, task[j]) : nextUpdate(j) = {s} /\ \A u \in Left(book, c, task[j]) : ~Precedes(u, s)
  BY <1>0, <1>1, NextUpdate DEF Left
<1> QED BY <1>1, <1>2, <1>3

\* Two books with one guard leave the same updates.
LEMMA GuardedLeft ==
  ASSUME NEW c \in Chapters, NEW b1, NEW b2, SameGuard(b1, b2, c), NEW t
  PROVE  Left(b1, c, t) = Left(b2, c, t)
BY GuardedPlan, GuardedPages DEF Left

\* An own step of a sync keeps what is paid before what is left.
LEMMA SyncPaysOnce ==
  ASSUME MInv, TInv', NEW j \in JobIds, Working(j), OwnStep(j), Held(j), jobs[j].kind = "sync", Paid(j)
  PROVE  \E b \in Books : PaidSync(j, b)'
<1> DEFINE c == jobs[j].chapter
           t == task[j]
<1>0. /\ TInv /\ Remembers(j) /\ book \in Books /\ book' \in Books /\ c \in Chapters /\ jobs'[j].chapter = c
      /\ billed[j] \in SUBSET Slots /\ t \in Task
  BY AtWorkParts DEF MInv, Working, Fits, Held, TInv, TypeOK
<1>1. PICK b \in Books : PaidSync(j, b)
  BY DEF Paid
<1>2. Older(b, book')
  BY <1>0, <1>1, OwnBook, OlderIsTransitive DEF PaidSync
<1>3. CASE Moves(j) \/ KeepsAnswer(j)
  <2>1. /\ SameTargets(j) /\ SameCall(j) /\ task'[j].guard = t.guard /\ billed'[j] = billed[j]
        /\ \/ pc'[j] \in {"ready", "checked"} /\ pc[j] \in {"ready", "admitted"}
           \/ pc'[j] = "kept" /\ pc[j] = "calling"
           \/ pc'[j] \in {"authorize", "done"}
        /\ pc[j] = "admitted" => pc'[j] = "authorize"
    BY <1>3 DEF Moves, KeepsAnswer, SameGuarded
  <2>2. Left(b, c, task'[j]) = Left(b, c, t)
    BY <2>1 DEF Left, SameTargets
  <2>3. PaidSync(j, b)'
    BY <1>0, <1>1, <1>2, <2>1, <2>2 DEF PaidSync, SameCall
  <2> QED BY <2>3
<1>4. CASE Authorizes(j)
  <2>1. billed'[j] = {} /\ pc'[j] = "ready" /\ task'[j].guard = t.guard
    BY <1>4 DEF Authorizes, SameGuarded, Paid
  <2>2. PaidSync(j, b)'
    BY <1>0, <1>1, <1>2, <2>1 DEF PaidSync
  <2> QED BY <2>2
<1>5. CASE AsksSync(j)
  <2>1. PICK s \in Left(book, c, t) : /\ s \in Slots /\ task'[j].step = {s} /\ guard(book, c) = t.guard
                                      /\ \A u \in Left(book, c, t) : ~Precedes(u, s)
    BY <1>5, AsksForTheFirst
  <2>2. /\ SameTargets(j) /\ task'[j].guard = t.guard /\ pc[j] = "checked" /\ pc'[j] = "calling"
        /\ billed'[j] = billed[j] \cup {s}
    BY <1>5, <2>1 DEF AsksSync, Asks, SameGuarded
  <2>3. SameGuard(b, book, c)
    BY <1>0, <1>1, <2>1 DEF SameGuard, PaidSync
  <2>4. Left(b, c, t) = Left(book, c, t)
    BY <1>0, <2>3, GuardedLeft
  <2>5. \A paid \in billed[j] : Precedes(paid, s)
    BY <1>1, <2>1, <2>2, <2>4 DEF PaidSync
  <2>6. Left(b, c, task'[j]) = Left(b, c, t)
    BY <2>2 DEF Left, SameTargets
  <2>7. \A paid \in billed'[j] : paid = s \/ Precedes(paid, s)
    BY <2>2, <2>5
  <2>8. \A u \in Left(b, c, task'[j]) : ~Precedes(u, s)
    BY <2>1, <2>4, <2>6
  <2>9. guard(b, c) = task'[j].guard
    BY <1>1, <2>2 DEF PaidSync
  <2>10. PaidSync(j, b)'
    BY <1>0, <1>2, <2>1, <2>2, <2>7, <2>8, <2>9 DEF PaidSync
  <2> QED BY <2>10
<1>6. CASE AppliesSync(j)
  <2>1. /\ pc[j] = "kept" /\ pc'[j] = "applied" /\ SameTargets(j) /\ SameCall(j) /\ billed'[j] = billed[j]
        /\ book' = saveDocuments(book, t.answer, TRUE) /\ task'[j].guard = guard(book', c)
    BY <1>6 DEF AppliesSync, Applied, Save
  <2>2. guard(book, c) = t.guard /\ t.answer \in NewBodies
    BY <1>6, AppliesToOne
  <2>3. PICK s \in Slots : /\ t.step = {s} /\ t.answer[s] # 0 /\ \A u \in Slots : u # s => t.answer[u] = 0
                           /\ Chapter(s) = c /\ ContextReady(book, s)
    <3>1. Chapter(Settings) # c
      BY <1>0, LineageAssumption DEF Chapter, Settings
    <3> QED BY <1>6, <3>1, AppliesToOne
  <2>4. SameGuard(b, book, c)
    BY <1>0, <1>1, <2>2 DEF SameGuard, PaidSync
  <2>5. Left(b, c, t) = Left(book, c, t)
    BY <1>0, <2>4, GuardedLeft
  <2>6. /\ \A paid \in billed[j] : paid = s \/ Precedes(paid, s)
        /\ \A u \in Left(book, c, t) : ~Precedes(u, s)
    BY <1>1, <2>1, <2>3, <2>5 DEF PaidSync
  <2>7. PICK after \in Books : after = book'
    BY <1>0
  <2>8. /\ \A u \in planTargets(after, c) : Precedes(s, u) \/ (Precedes(u, s) /\ u \in planTargets(book, c))
        /\ \A u \in missingPages(after, c) : Precedes(s, u) \/ (Precedes(u, s) /\ u \in missingPages(book, c))
    <3>1. PICK texts \in NewBodies : texts = t.answer
      BY <2>2
    <3>2. PICK d \in Chapters : d = c
      BY <1>0
    <3>3. after = saveDocuments(book, texts, TRUE) /\ book \in Books
      BY <1>0, <2>1, <2>7, <3>1
    <3>4. Chapter(s) = d /\ texts[s] # 0 /\ (\A u \in Slots : u # s => texts[u] = 0) /\ ContextReady(book, s)
      BY <2>3, <3>1, <3>2
    <3> HIDE DEF c, t
    <3>5. /\ \A u \in planTargets(after, d) : Precedes(s, u) \/ (Precedes(u, s) /\ u \in planTargets(book, d))
          /\ \A u \in missingPages(after, d) : Precedes(s, u) \/ (Precedes(u, s) /\ u \in missingPages(book, d))
      BY <3>3, <3>4, SaveMovesForward
    <3> QED BY <3>2, <3>5
  <2>9. \A u \in Left(after, c, t) : Precedes(s, u)
    BY <2>6, <2>8 DEF Left
  <2>10. Left(after, c, task'[j]) = Left(after, c, t)
    BY <2>1 DEF Left, SameTargets
  <2>11. Older(after, book') /\ guard(after, c) = task'[j].guard
    BY <1>0, <2>1, <2>7, OlderIsReflexive
  <2>12. task'[j].step = {s}
    BY <2>1, <2>3 DEF SameCall
  <2>13. PaidSync(j, after)'
    BY <1>0, <2>1, <2>6, <2>9, <2>10, <2>11, <2>12 DEF PaidSync
  <2> QED BY <2>13
<1>7. CASE Extends(j)
  <2>1. /\ pc[j] = "applied" /\ pc'[j] = "ready" /\ billed'[j] = billed[j] /\ task'[j].guard = t.guard
        /\ LET own == t.step = {Storyboard(c)}
           IN /\ task'[j].allowed = t.allowed \cup IF own THEN {u \in planTargets(book, c) : Kind(u) = "page_prompt"}
                                                          ELSE {}
              /\ task'[j].pages = t.pages \cup IF own THEN missingPages(book, c) ELSE {}
    BY <1>7 DEF Extends, SameGuarded
  <2>2. PICK s \in Slots : /\ t.step = {s} /\ \A paid \in billed[j] : paid = s \/ Precedes(paid, s)
                           /\ \A u \in Left(b, c, t) : Precedes(s, u)
    BY <1>1, <2>1 DEF PaidSync
  <2>3. \A u \in Left(b, c, task'[j]) : u \in Slots /\ (u \in Left(b, c, t) \/ (s = Storyboard(c) /\ Kind(u) = "page_prompt"
                                                                               /\ Chapter(u) = c))
    <3>1. \A u \in missingPages(b, c) : u \in Slots /\ Kind(u) = "page_prompt" /\ Chapter(u) = c
      <4>1. \A u \in missingPages(b, c) : \E p : u = <<c, "page_prompt", p>>
        BY DEF missingPages
      <4> QED BY <1>0, <4>1, TargetsAreSlots DEF Kind, Chapter
    <3>2. \A u \in planTargets(b, c) : u \in Slots /\ (Kind(u) = "page_prompt" => Chapter(u) = c)
      <4>1. \A u \in planTargets(b, c) : u \in Slots /\ Chapter(u) \in {0, c}
        BY DEF planTargets, inPlanDocuments, documents
      <4> QED BY <4>1, SlotParts DEF Settings, Kind
    <3>3. t.step = {Storyboard(c)} => s = Storyboard(c)
      BY <2>2
    <3>4. \A u \in Left(b, c, task'[j]) \ Left(b, c, t) :
            /\ t.step = {Storyboard(c)}
            /\ u \in missingPages(b, c) \/ (u \in planTargets(b, c) /\ Kind(u) = "page_prompt")
      BY <2>1 DEF Left
    <3>5. \A u \in Left(b, c, task'[j]) : u \in planTargets(b, c) \cup missingPages(b, c)
      BY DEF Left
    <3> QED BY <3>1, <3>2, <3>3, <3>4, <3>5
  <2>4. \A u \in Slots : Kind(u) = "page_prompt" /\ Chapter(u) = c => Precedes(Storyboard(c), u)
    BY Ranks DEF Precedes, Storyboard, Chapter, Kind
  <2>5. \A u \in Left(b, c, task'[j]) : u \in Slots /\ Precedes(s, u)
    BY <2>2, <2>3, <2>4
  <2>6. \A paid \in billed'[j], u \in Left(b, c, task'[j]) : Precedes(paid, u)
    BY <1>0, <2>1, <2>2, <2>5, PipelineOrder
  <2>7. guard(b, c) = task'[j].guard
    BY <1>1, <2>1 DEF PaidSync
  <2>8. PaidSync(j, b)'
    BY <1>0, <1>2, <2>1, <2>6, <2>7 DEF PaidSync
  <2> QED BY <2>8
<1> QED BY <1>3, <1>4, <1>5, <1>6, <1>7 DEF OwnStep, AsksGeneration, AsksOptimization, AppliesOptimization, Reguards, Stages

\* An own step of an optimization leaves every target but the one under way
\* unpaid.
LEMMA OptimizationPaysOnce ==
  ASSUME MInv, NEW j \in JobIds, Working(j), OwnStep(j), jobs[j].kind = "optimize", Paid(j)
  PROVE  \A i \in DOMAIN task'[j].todo :
           task'[j].todo[i] \notin billed'[j] \/ (i = 1 /\ pc'[j] \in {"calling", "kept", "applied"})
<1> DEFINE t == task[j]
           todo == t.todo
           open == {"calling", "kept", "applied"}
<1>0. /\ Remembers(j) /\ Fits(jobs[j], pc[j], t) /\ todo \in Seq(Slots)
      /\ pc[j] \in {"checked", "calling", "kept", "applied"} => todo # <<>>
  <2>1. Remembers(j) /\ Fits(jobs[j], pc[j], t) /\ t \in Task
    BY AtWorkParts DEF MInv
  <2> QED BY <2>1 DEF Fits, Task
<1>1. \A i \in DOMAIN todo : todo[i] \notin billed[j] \/ (i = 1 /\ pc[j] \in open)
  BY DEF Paid
<1>2. \A i, k \in DOMAIN todo : todo[i] = todo[k] => i = k
  BY <1>0 DEF Remembers, Targeted
<1>3. CASE Moves(j)
  <2>1. task'[j].todo = todo /\ billed'[j] = billed[j] /\ pc[j] \notin open
    BY <1>3 DEF Moves, SameTargets
  <2> QED BY <1>1, <2>1
<1>4. CASE AsksOptimization(j)
  <2>1. /\ task'[j].todo = todo /\ billed'[j] = billed[j] \cup {Head(todo)} /\ pc[j] = "checked" /\ pc'[j] = "calling"
    BY <1>4 DEF AsksOptimization, Asks, SameTargets
  <2>2. Head(todo) = todo[1] /\ 1 \in DOMAIN todo
    BY <1>0, <2>1
  <2> QED BY <1>1, <1>2, <2>1, <2>2
<1>5. CASE KeepsAnswer(j) \/ AppliesOptimization(j)
  <2>1. task'[j].todo = todo /\ billed'[j] = billed[j] /\ pc'[j] \in open
    BY <1>5 DEF KeepsAnswer, AppliesOptimization, Applied, SameTargets
  <2> QED BY <1>1, <2>1
<1>6. CASE Reguards(j)
  <2>1. task'[j].todo = Tail(todo) /\ billed'[j] = billed[j] /\ pc[j] = "applied"
    BY <1>6 DEF Reguards
  <2>2. \A i \in DOMAIN Tail(todo) : i + 1 \in DOMAIN todo /\ i + 1 # 1 /\ Tail(todo)[i] = todo[i + 1]
    BY <1>0, <2>1
  <2> QED BY <1>1, <2>1, <2>2
<1> QED BY <1>3, <1>4, <1>5, <1>6 DEF OwnStep, Authorizes, AsksGeneration, AsksSync, AppliesSync, Extends, Stages

\* Jobs know what they paid for.
LEMMA PaidStays ==
  ASSUME MInv, MInv', [Next]_vars, NEW j \in JobIds, Working(j)', Unpaid(j), Working(j) => Paid(j)
  PROVE  Paid(j)'
<1>0. TInv /\ TInv' /\ Remembers(j)' /\ book \in Books /\ book' \in Books
  BY DEF MInv, TInv, TypeOK
<1>1. CASE Admit(j)
  <2>1. Admitted(j)
    BY <1>0, <1>1, AdmitSteps DEF AdmitsGeneration, AdmitsOptimization, AdmitsSync
  <2>2. billed'[j] = {} /\ pc'[j] = "admitted"
    BY <2>1 DEF Admitted, Unpaid
  <2>3. jobs'[j].kind = "sync" => \E b \in Books : PaidSync(j, b)'
    <3>1. SUFFICES ASSUME jobs'[j].kind = "sync" PROVE \E b \in Books : PaidSync(j, b)'
      OBVIOUS
    <3>2. PICK b \in Books : Older(b, book') /\ guard(b, jobs'[j].chapter) = task'[j].guard
      BY <1>0, <3>1 DEF Remembers, Guarded
    <3>3. PaidSync(j, b)'
      BY <2>2, <3>2 DEF PaidSync
    <3> QED BY <3>3
  <2> QED BY <2>2, <2>3 DEF Paid
<1>2. CASE Working(j) /\ User
  <2>1. /\ jobs' = jobs /\ pc' = pc /\ billed' = billed /\ Older(book, book')
        /\ task'[j].todo = task[j].todo /\ task'[j].allowed = task[j].allowed /\ task'[j].pages = task[j].pages
        /\ task'[j].step = task[j].step /\ task'[j].guard = task[j].guard
    BY <1>0, <1>2, UserSteps DEF SameTargets, SameCall
  <2>2. ASSUME NEW b \in Books, PaidSync(j, b) PROVE PaidSync(j, b)'
    <3>1. Older(b, book')
      BY <1>0, <2>1, <2>2, OlderIsTransitive DEF PaidSync
    <3>2. Left(b, jobs[j].chapter, task'[j]) = Left(b, jobs[j].chapter, task[j])
      BY <2>1 DEF Left
    <3> QED BY <2>1, <2>2, <3>1, <3>2 DEF PaidSync
  <2> QED BY <1>2, <2>1, <2>2 DEF Paid
<1>3. CASE Working(j) /\ Unnoticed
  BY <1>3 DEF Paid, PaidSync, Unnoticed, Left
<1>4. CASE Working(j) /\ Goroutine(j)
  <2>1. OwnStep(j) /\ Held(j)
    BY <1>0, <1>4, OwnSteps
  <2>2. jobs[j].kind = "sync" => \E b \in Books : PaidSync(j, b)'
    BY <1>0, <1>4, <2>1, SyncPaysOnce
  <2>3. jobs[j].kind = "optimize" =>
          \A i \in DOMAIN task'[j].todo :
            task'[j].todo[i] \notin billed'[j] \/ (i = 1 /\ pc'[j] \in {"calling", "kept", "applied"})
    BY <1>4, <2>1, OptimizationPaysOnce
  <2>4. /\ pc'[j] \in {"admitted", "authorize"} => billed'[j] = {}
        /\ jobs[j].kind \in Stages /\ pc'[j] = "ready" => billed'[j] = {}
    BY <1>4, <2>1 DEF OwnStep, Moves, Authorizes, AsksGeneration, AsksOptimization, AsksSync, Asks, KeepsAnswer,
       AppliesOptimization, AppliesSync, Applied, Reguards, Extends, Paid, Stages
  <2> QED BY <2>1, <2>2, <2>3, <2>4 DEF Paid, Held
<1> QED BY <1>0, <1>1, <1>2, <1>3, <1>4, WhoActs

PInv == MInv /\ \A j \in JobIds : Unpaid(j) /\ (Working(j) => Paid(j))

\* Nothing is paid at first, and every job keeps its account.
LEMMA PInvHolds ==
  /\ Init => PInv
  /\ PInv /\ [Next]_vars => PInv'
<1>1. Init => PInv
  BY MInvHolds DEF Init, PInv, Working, Unpaid
<1>2. ASSUME PInv, [Next]_vars PROVE PInv'
  <2>1. MInv /\ MInv' /\ TInv
    BY <1>2, MInvHolds DEF PInv, MInv
  <2>2. \A j \in JobIds : Unpaid(j)'
    BY <1>2, <2>1, UnpaidStays DEF PInv
  <2>3. \A j \in JobIds : Working(j)' => Paid(j)'
    BY <1>2, <2>1, PaidStays DEF PInv
  <2> QED BY <2>1, <2>2, <2>3 DEF PInv
<1> QED BY <1>1, <1>2

\* What a job submits it has not submitted before.
LEMMA SubmitsNew ==
  ASSUME PInv, [Next]_vars, NEW j \in JobIds, Submits(j)
  PROVE  task'[j].step \cap billed[j] = {}
<1>0. /\ MInv /\ TInv /\ Working(j) /\ Remembers(j) /\ Paid(j) /\ jobs[j].chapter \in Chapters
      /\ Fits(jobs[j], pc[j], task[j]) /\ task[j] \in Task /\ book \in Books
  BY AtWorkParts DEF PInv, MInv, Working, Fits, Submits
<1>1. CASE AsksGeneration(j)
  BY <1>0, <1>1 DEF AsksGeneration, Paid
<1>2. CASE AsksOptimization(j)
  <2>1. task'[j].step = {Head(task[j].todo)} /\ pc[j] = "checked" /\ jobs[j].kind = "optimize"
    BY <1>2 DEF AsksOptimization
  <2>2. task[j].todo \in Seq(Slots) /\ task[j].todo # <<>>
    BY <1>0, <2>1 DEF Fits, Task
  <2>3. Head(task[j].todo) = task[j].todo[1] /\ 1 \in DOMAIN task[j].todo
    BY <2>2
  <2> QED BY <1>0, <2>1, <2>3 DEF Paid
<1>3. CASE AsksSync(j)
  <2> DEFINE c == jobs[j].chapter
  <2>1. jobs[j].kind = "sync" /\ pc[j] = "checked"
    BY <1>3 DEF AsksSync
  <2>2. PICK s \in Left(book, c, task[j]) : s \in Slots /\ task'[j].step = {s} /\ guard(book, c) = task[j].guard
    BY <1>0, <1>3, AsksForTheFirst
  <2>3. PICK b \in Books : PaidSync(j, b)
    BY <1>0, <2>1 DEF Paid
  <2>4. SameGuard(b, book, c)
    BY <1>0, <2>2, <2>3 DEF SameGuard, PaidSync
  <2>5. s \in Left(b, c, task[j])
    BY <1>0, <2>2, <2>4, GuardedLeft
  <2>6. \A paid \in billed[j] : Precedes(paid, s)
    BY <2>1, <2>3, <2>5 DEF PaidSync
  <2> QED BY <2>2, <2>6, PipelineOrder
<1> QED BY <1>0, <1>1, <1>2, <1>3, WhoSubmits

\* No document is submitted twice by one job.  An optimization goes through
\* distinct targets; in a sync everything paid for precedes, in pipeline
\* order, whatever may still be asked for: a saved document is current and
\* only what stands behind it becomes stale.
THEOREM NothingIsPaidTwice == Spec => PaidOnce
<1>1. PInv /\ [Next]_vars => [\A j \in JobIds : Submits(j) => task'[j].step \cap billed[j] = {}]_vars
  BY SubmitsNew
<1> QED BY <1>1, PInvHolds, PTL DEF Spec, PaidOnce

---------------------------------------------------------------------------
(* Progress.                                                               *)

\* The updates done and the updates left make up the total: for an
\* optimization always, for a sync while the user touches nothing.
Counted(j) ==
  LET c == jobs[j].chapter
      t == task[j]
      done == jobs[j].done
      total == jobs[j].total
      left == Cardinality(Left(book, c, t))
  IN /\ jobs[j].kind = "optimize" =>
          /\ pc[j] \in {"admitted", "ready", "checked", "calling", "kept"} => total = done + Len(t.todo)
          /\ pc[j] = "applied" => total + 1 = done + Len(t.todo)
          /\ pc[j] = "done" => total = done
     /\ jobs[j].kind = "sync" /\ t.touched = {} =>
          /\ pc[j] \in {"admitted", "authorize"} => planTargets(book, c) \subseteq t.allowed
          /\ pc[j] \in {"admitted", "authorize", "ready", "checked"} => total = done + left
          /\ pc[j] \in {"calling", "kept"} => done < total
          /\ pc[j] = "applied" => done <= total
          /\ pc[j] = "done" => total = done

\* An admission counts its targets.
LEMMA AdmitsCounted ==
  ASSUME TInv, NEW j \in JobIds, Admit(j)
  PROVE  Counted(j)'
<1>0. book \in Books
  BY DEF TInv, TypeOK
<1>1. CASE AdmitsGeneration(j)
  BY <1>1 DEF AdmitsGeneration, Counted, Stages
<1>2. CASE AdmitsOptimization(j)
  <2>1. PICK targets \in SUBSET documents(book, jobs'[j].chapter) :
          task'[j].todo = inOrder(targets) /\ jobs'[j].total = Cardinality(targets)
    BY <1>2 DEF AdmitsOptimization
  <2>2. targets \in SUBSET Slots
    BY DEF documents
  <2>3. jobs'[j].done = 0 /\ pc'[j] = "admitted" /\ jobs'[j].kind = "optimize"
    BY <1>2 DEF AdmitsOptimization, Admitted
  <2>4. Len(task'[j].todo) = jobs'[j].total /\ jobs'[j].total \in Nat
    BY <2>1, <2>2, InOrder, FiniteSlots
  <2> QED BY <2>3, <2>4 DEF Counted
<1>3. CASE AdmitsSync(j)
  <2> DEFINE c == jobs'[j].chapter
             targets == planTargets(book, c)
             missing == missingPages(book, c)
  <2>1. /\ book' = book /\ pc'[j] = "admitted" /\ jobs'[j].done = 0 /\ jobs'[j].kind = "sync" /\ c \in Chapters
        /\ task'[j].allowed = targets /\ task'[j].pages = missing
        /\ jobs'[j].total = Cardinality(targets) + Cardinality(missing)
    BY <1>3 DEF AdmitsSync, Admitted
  <2>2. targets \in SUBSET Slots /\ missing \in SUBSET Slots
    BY <1>0, <2>1, TargetsAreSlots
  <2>3. targets \cap missing = {}
    <3>1. \A s \in targets : Exists(book, s)
      BY DEF planTargets, inPlanDocuments, documents
    <3>2. \A s \in missing : ~Exists(book, s)
      BY DEF missingPages
    <3> QED BY <3>1, <3>2
  <2>4. Left(book', c, task'[j]) = targets \cup missing
    BY <2>1 DEF Left
  <2> HIDE DEF targets, missing
  <2>5. Cardinality(targets \cup missing) = Cardinality(targets) + Cardinality(missing)
    <3>1. IsFiniteSet(targets) /\ IsFiniteSet(missing) /\ Cardinality(targets) \in Nat /\ Cardinality(missing) \in Nat
      BY <2>2, FiniteSlots
    <3>2. Cardinality(targets \cup missing)
            = Cardinality(targets) + Cardinality(missing) - Cardinality(targets \cap missing)
      BY <3>1, FS_Union
    <3>3. Cardinality({}) = 0
      BY FS_EmptySet
    <3>4. Cardinality(targets \cap missing) = 0
      BY <2>3, <3>3
    <3> QED BY <3>1, <3>2, <3>4
  <2>6. Cardinality(targets) \in Nat /\ Cardinality(missing) \in Nat
    BY <2>2, FiniteSlots
  <2>7. jobs'[j].total = jobs'[j].done + Cardinality(Left(book', c, task'[j]))
    BY <2>1, <2>4, <2>5, <2>6
  <2>8. planTargets(book', c) \subseteq task'[j].allowed
    BY <2>1 DEF targets
  <2> QED BY <2>1, <2>7, <2>8 DEF Counted
<1> QED BY <1>1, <1>2, <1>3, AdmitSteps

\* An own step of an optimization counts its targets.
LEMMA OptimizationCounts ==
  ASSUME TInv, NEW j \in JobIds, Working(j), OwnStep(j), Held(j), jobs[j].kind = "optimize", Counted(j)
  PROVE  Counted(j)'
<1> DEFINE todo == task[j].todo
<1>0. /\ jobs[j].done \in Nat /\ jobs[j].total \in Nat /\ todo \in Seq(Slots) /\ Len(todo) \in Nat
      /\ pc[j] \in {"checked", "calling", "kept", "applied"} => todo # <<>>
  <2>1. jobs[j] \in Job /\ task[j] \in Task /\ Fits(jobs[j], pc[j], task[j])
    BY AtWorkParts
  <2> QED BY <2>1 DEF Fits, Task, Job
<1>1. CASE Moves(j)
  <2>1. /\ task'[j].todo = todo /\ SameCount(j)
        /\ \/ pc[j] \in {"admitted", "ready"} /\ pc'[j] \in {"ready", "checked"}
           \/ pc[j] = "ready" /\ pc'[j] = "done" /\ todo = <<>>
    BY <1>1 DEF Moves, SameTargets
  <2> QED BY <1>0, <2>1 DEF Counted, Held, SameCount
<1>2. CASE AsksOptimization(j) \/ KeepsAnswer(j)
  <2>1. /\ task'[j].todo = todo /\ SameCount(j)
        /\ pc[j] \in {"checked", "calling"} /\ pc'[j] \in {"calling", "kept"}
    BY <1>2 DEF AsksOptimization, Asks, KeepsAnswer, SameTargets
  <2> QED BY <1>0, <2>1 DEF Counted, Held, SameCount
<1>3. CASE AppliesOptimization(j)
  <2>1. /\ task'[j].todo = todo /\ jobs'[j].done = jobs[j].done + 1 /\ jobs'[j].total = jobs[j].total
        /\ pc[j] = "kept" /\ pc'[j] = "applied"
    BY <1>3 DEF AppliesOptimization, Applied, SameTargets
  <2> QED BY <1>0, <2>1 DEF Counted, Held
<1>4. CASE Reguards(j)
  <2>1. /\ task'[j].todo = Tail(todo) /\ SameCount(j) /\ pc[j] = "applied" /\ pc'[j] = "ready"
    BY <1>4 DEF Reguards
  <2>2. Len(Tail(todo)) = Len(todo) - 1 /\ Len(todo) >= 1
    BY <1>0, <2>1
  <2>3. jobs[j].total + 1 = jobs[j].done + Len(todo)
    BY <2>1 DEF Counted
  <2>4. jobs'[j].total = jobs'[j].done + Len(task'[j].todo)
    <3>1. Len(task'[j].todo) = Len(todo) - 1
      BY <2>1, <2>2
    <3>2. jobs'[j].done = jobs[j].done /\ jobs'[j].total = jobs[j].total
      BY <2>1 DEF SameCount
    <3> HIDE DEF todo
    <3> QED BY <1>0, <2>3, <3>1, <3>2
  <2> QED BY <2>1, <2>4 DEF Counted, Held
<1> QED BY <1>1, <1>2, <1>3, <1>4 DEF OwnStep, Authorizes, AsksGeneration, AsksSync, AppliesSync, Extends, Stages

\* An own step of a sync counts its updates.
LEMMA SyncCounts ==
  ASSUME TInv, NEW j \in JobIds, Working(j), OwnStep(j), Held(j), jobs[j].kind = "sync", Counted(j),
         task'[j].touched = task[j].touched
  PROVE  Counted(j)'
<1> DEFINE c == jobs[j].chapter
           t == task[j]
           done == jobs[j].done
           total == jobs[j].total
           left == Left(book, c, t)
<1>0. /\ done \in Nat /\ total \in Nat /\ book \in Books /\ c \in Chapters /\ jobs'[j].chapter = c
      /\ jobs'[j].kind = "sync"
  <2>1. jobs[j] \in Job /\ Fits(jobs[j], pc[j], task[j]) /\ book \in Books
    BY AtWorkParts
  <2> QED BY <2>1 DEF Fits, Job, Held, Working
<1>1. left \subseteq Slots /\ Cardinality(left) \in Nat /\ (Cardinality(left) = 0 <=> left = {})
  <2>1. left \in SUBSET Slots
    BY <1>0, TargetsAreSlots DEF Left
  <2>2. IsFiniteSet(left) /\ Cardinality(left) \in Nat
    BY <2>1, FiniteSlots
  <2> HIDE DEF left
  <2> QED BY <2>1, <2>2, FS_EmptySet
<1>2. SUFFICES ASSUME t.touched = {} PROVE Counted(j)'
  BY <1>0 DEF Counted
<1> HIDE DEF c, left
<1>3. CASE Moves(j)
  <2>1. /\ SameTargets(j) /\ book' = book /\ SameCount(j)
        /\ \/ pc[j] = "admitted" /\ pc'[j] = "authorize"
           \/ pc[j] = "ready" /\ pc'[j] = "checked"
           \/ pc[j] = "checked" /\ pc'[j] = "done" /\ nextUpdate(j) = {}
    BY <1>3 DEF Moves, SameGuarded
  <2>2. Left(book', c, task'[j]) = left
    BY <2>1 DEF Left, SameTargets, left
  <2>3. nextUpdate(j) = {} => left = {}
    BY <1>0, NextUpdate DEF Left, left, c
  <2> QED BY <1>0, <1>1, <1>2, <2>1, <2>2, <2>3 DEF Counted, SameCount, SameTargets, left, c
<1>4. CASE Authorizes(j)
  <2>1. /\ pc[j] = "authorize" /\ pc'[j] = "ready" /\ book' = book /\ SameCount(j)
        /\ task'[j].pages = t.pages /\ t.allowed \subseteq task'[j].allowed
    BY <1>4 DEF Authorizes, SameGuarded
  <2>2. planTargets(book, c) \subseteq t.allowed /\ total = done + Cardinality(left)
    BY <1>2, <2>1 DEF Counted, c, left
  <2>3. Left(book', c, task'[j]) = left
    BY <2>1, <2>2 DEF Left, left
  <2> QED BY <1>0, <2>1, <2>2, <2>3 DEF Counted, SameCount, c
<1>5. CASE AsksSync(j)
  <2>1. pc[j] = "checked" /\ pc'[j] = "calling" /\ SameCount(j) /\ nextUpdate(j) # {}
    BY <1>5 DEF AsksSync, Asks
  <2>2. left # {}
    BY <1>0, <2>1, NextUpdate DEF Left, left, c
  <2>3. total = done + Cardinality(left)
    BY <1>2, <2>1 DEF Counted, c, left
  <2> QED BY <1>0, <1>1, <2>1, <2>2, <2>3 DEF Counted, SameCount
<1>6. CASE KeepsAnswer(j)
  <2>1. pc[j] = "calling" /\ pc'[j] = "kept" /\ SameCount(j)
    BY <1>6 DEF KeepsAnswer
  <2> QED BY <1>0, <1>2, <2>1 DEF Counted, SameCount
<1>7. CASE AppliesSync(j)
  <2>1. pc[j] = "kept" /\ pc'[j] = "applied" /\ jobs'[j].done = done + 1 /\ jobs'[j].total = total
    BY <1>7 DEF AppliesSync, Applied
  <2>2. done < total
    BY <1>2, <2>1 DEF Counted
  <2>3. done + 1 <= total
    BY <1>0, <2>2
  <2> QED BY <1>0, <2>1, <2>3 DEF Counted
<1>8. CASE Extends(j)
  <2>1. /\ pc'[j] = "ready" /\ book' = book
        /\ jobs'[j].done = done
        /\ jobs'[j].total = done + Cardinality(Left(book, c, task'[j]))
    BY <1>8 DEF Extends, SameGuarded, Left, c
  <2> QED BY <1>0, <2>1 DEF Counted
<1> QED BY <1>3, <1>4, <1>5, <1>6, <1>7, <1>8 DEF OwnStep, AsksGeneration, AsksOptimization, AppliesOptimization,
        Reguards, Stages

CInv == TInv /\ \A j \in JobIds : Working(j) => Counted(j)

\* Every step keeps the count.
LEMMA CInvHolds ==
  /\ Init => CInv
  /\ CInv /\ [Next]_vars => CInv'
<1>1. Init => CInv
  BY InitTInv DEF Init, CInv, Working
<1>2. ASSUME CInv, [Next]_vars PROVE CInv'
  <2>1. TInv /\ TInv'
    BY <1>2, StepKeepsTypes DEF CInv
  <2>2. ASSUME NEW j \in JobIds, Working(j)'
        PROVE  Counted(j)'
    <3>1. CASE Admit(j)
      BY <2>1, <3>1, AdmitsCounted
    <3>2. CASE Working(j) /\ Unnoticed
      BY <1>2, <3>2 DEF CInv, Counted, Unnoticed
    <3>3. CASE Working(j) /\ User
      <4>1. /\ jobs' = jobs /\ pc' = pc /\ SameTargets(j) /\ task[j].touched \subseteq task'[j].touched
            /\ task'[j].touched = {} => book' = book
        BY <2>1, <3>3, UserSteps
      <4>2. book' = book => Left(book', jobs[j].chapter, task'[j]) = Left(book, jobs[j].chapter, task[j])
        BY <4>1 DEF Left, SameTargets
      <4> QED BY <1>2, <3>3, <4>1, <4>2 DEF CInv, Counted, SameTargets
    <3>4. CASE Working(j) /\ Goroutine(j)
      <4>1. OwnStep(j) /\ Held(j) /\ task'[j].touched = task[j].touched /\ Counted(j)
        BY <1>2, <2>1, <2>2, <3>4, OwnSteps DEF CInv
      <4>2. jobs[j].kind \in Stages \cup {"optimize", "sync"}
        BY <2>1, <3>4, AtWorkParts DEF Fits, Working
      <4>3. jobs[j].kind \in Stages => Counted(j)'
        BY <4>1 DEF Held, Counted, Stages
      <4> QED BY <2>1, <3>4, <4>1, <4>2, <4>3, OptimizationCounts, SyncCounts
    <3> QED BY <1>2, <2>1, <2>2, <3>1, <3>2, <3>3, <3>4, WhoActs
  <2> QED BY <2>1, <2>2 DEF CInv
<1> QED BY <1>1, <1>2

\* The progress a job reports never passes its total and is the whole of it
\* at the end: for an optimization whatever happens, for a sync as long as
\* the user touches nothing, because then the updates left in the book are
\* the total less what was done.
THEOREM ProgressIsExact == Spec => []ProgressAddsUp
<1>1. ASSUME CInv PROVE ProgressAddsUp
  <2>1. SUFFICES ASSUME NEW j \in JobIds, pc[j] # "idle",
                        jobs[j].kind = "optimize" \/ (jobs[j].kind = "sync" /\ task[j].touched = {})
                 PROVE  jobs[j].done <= jobs[j].total /\ (pc[j] = "done" => jobs[j].done = jobs[j].total)
    BY DEF ProgressAddsUp
  <2> DEFINE left == Left(book, jobs[j].chapter, task[j])
  <2>2. /\ Counted(j) /\ jobs[j] \in Job /\ task[j] \in Task /\ book \in Books /\ Fits(jobs[j], pc[j], task[j])
        /\ pc[j] \in Locations
    BY <1>1, <2>1, AtWorkParts DEF CInv, Working
  <2>3. jobs[j].done \in Nat /\ jobs[j].total \in Nat
    BY <2>2 DEF Job
  <2>4. CASE jobs[j].kind = "optimize"
    <3>1. task[j].todo \in Seq(Slots) /\ Len(task[j].todo) \in Nat /\ pc[j] # "authorize"
          /\ (pc[j] = "applied" => task[j].todo # <<>>)
      BY <2>1, <2>2, <2>4 DEF Fits, Task
    <3>2. pc[j] = "applied" => Len(task[j].todo) >= 1
      BY <3>1
    <3>3. /\ pc[j] \in {"admitted", "ready", "checked", "calling", "kept"} =>
                jobs[j].total = jobs[j].done + Len(task[j].todo)
          /\ pc[j] = "applied" => jobs[j].total + 1 = jobs[j].done + Len(task[j].todo)
          /\ pc[j] = "done" => jobs[j].total = jobs[j].done
      BY <2>2, <2>4 DEF Counted
    <3>4. pc[j] \in {"admitted", "ready", "checked", "calling", "kept"} => jobs[j].done <= jobs[j].total
      BY <2>3, <3>1, <3>3
    <3>5. pc[j] \in {"applied", "done"} => jobs[j].done <= jobs[j].total
      <4> DEFINE n == Len(task[j].todo)
                 done == jobs[j].done
                 total == jobs[j].total
      <4>1. n \in Nat /\ done \in Nat /\ total \in Nat
        BY <2>3, <3>1
      <4>2. pc[j] = "applied" => n >= 1 /\ total + 1 = done + n
        BY <3>2, <3>3
      <4>3. pc[j] = "done" => total = done
        BY <3>3
      <4> HIDE DEF n, done, total
      <4>4. pc[j] = "applied" => done <= total
        BY <4>1, <4>2
      <4>5. pc[j] = "done" => done <= total
        BY <4>1, <4>3
      <4> QED BY <4>4, <4>5 DEF done, total
    <3>6. pc[j] \in {"admitted", "ready", "checked", "calling", "kept", "applied", "done"}
      BY <2>1, <2>2, <3>1 DEF Locations
    <3>7. pc[j] = "done" => jobs[j].done = jobs[j].total
      BY <3>3
    <3> QED BY <3>4, <3>5, <3>6, <3>7
  <2>5. CASE jobs[j].kind = "sync" /\ task[j].touched = {}
    <3>1. left \in SUBSET Slots
      BY <2>1, <2>2, TargetsAreSlots DEF Left, Fits
    <3>2. Cardinality(left) \in Nat
      BY <3>1, FiniteSlots
    <3>3. /\ pc[j] \in {"admitted", "authorize", "ready", "checked"} =>
                jobs[j].total = jobs[j].done + Cardinality(left)
          /\ pc[j] \in {"calling", "kept"} => jobs[j].done < jobs[j].total
          /\ pc[j] = "applied" => jobs[j].done <= jobs[j].total
          /\ pc[j] = "done" => jobs[j].total = jobs[j].done
      BY <2>2, <2>5 DEF Counted
    <3> HIDE DEF left
    <3> QED BY <2>1, <2>2, <2>3, <3>2, <3>3 DEF Locations
  <2> QED BY <2>1, <2>4, <2>5
<1> QED BY <1>1, CInvHolds, PTL DEF Spec
=============================================================================
