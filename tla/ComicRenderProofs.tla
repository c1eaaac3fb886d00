------------------------- MODULE ComicRenderProofs -------------------------
(***************************************************************************)
(* Renders live as JobLedger promises, every reference folder has its      *)
(* owner, and what a render leaves behind is right, for any jobs, pages,   *)
(* contents and edits: images that show what the workspace says they show, *)
(* files that have rows, and progress that counts pages.                   *)
(***************************************************************************)
EXTENDS ComicRender, FiniteSetTheorems, SequenceTheorems, TLAPS

\* A row of comic_md_jobs, whatever is in its columns.
Columns == {"status", "done", "total", "since"}
IsRow(r) == r = [column \in Columns |-> r[column]]

Rows ==
  /\ jobs = [j \in JobIds |-> jobs[j]]
  /\ \A j \in JobIds : IsRow(jobs[j]) /\ jobs[j].status \in {"none", "running"} \cup Terminal

LInv ==
  /\ Rows
  /\ pc \in [JobIds -> Locations]

\* An empty job table satisfies the invariant.
LEMMA InitLInv == Init => LInv
  BY DEF Init, LInv, Rows, IsRow, Columns, NoJob, Locations, Terminal

\* What a step is for the ledger.
Implements == LInv' /\ (Ledger!Next \/ UNCHANGED Ledger!vars)

---------------------------------------------------------------------------
(* The building blocks of the steps, seen from the ledger.                 *)

\* Whoever ends the row of a job under way ends it in the ledger.
LEMMA EndsAJob ==
  ASSUME LInv, NEW j \in JobIds, NEW outcome \in Terminal,
         NEW location \in {"idle", "leaving"}, End(j, outcome, location),
         app # "down", pc[j] \notin {"idle", "leaving"}, UNCHANGED process
  PROVE  LInv' /\ Ledger!End(j, outcome)
<1> USE DEF LInv, Rows, IsRow, Columns, Terminal, Locations, End, Goto
<1>1. LInv'
  OBVIOUS
<1>2. ledgerStatus' = [ledgerStatus EXCEPT ![j] = IF @ = "running" THEN outcome ELSE @]
  BY DEF ledgerStatus
<1>3. ledgerWorker' = [ledgerWorker EXCEPT ![j] = "idle"] /\ ledgerWorker[j] # "idle"
  BY DEF ledgerWorker
<1>4. ledgerWork' = ledgerWork
  BY DEF ledgerWork
<1> QED
  BY <1>1, <1>2, <1>3, <1>4 DEF Ledger!End, Ledger!FinishJob, process

\* An ending step, whatever the outcome.
LEMMA EndStep ==
  ASSUME LInv, NEW j \in JobIds, NEW outcome \in Terminal,
         NEW location \in {"idle", "leaving"}, End(j, outcome, location),
         app # "down", pc[j] \notin {"idle", "leaving"}, UNCHANGED process
  PROVE  Implements
<1>1. LInv' /\ Ledger!End(j, outcome)
  BY EndsAJob
<1> QED
  BY <1>1 DEF Implements, Ledger!Next, Ledger!JobStep, Ledger!Terminal, Terminal

\* What the ledger calls the worker at a location.
WorkerAt(location) ==
  CASE location \in {"idle", "leaving"}    -> "idle"
    [] location \in {"frozen", "admitted"} -> "admitted"
    [] location = "calling"                -> "calling"
    [] OTHER                               -> "active"

\* A step that moves one job and keeps every row's status.
Moves(j, location) ==
  /\ jobs' = [i \in JobIds |-> jobs'[i]]
  /\ \A i \in JobIds : IsRow(jobs'[i]) /\ jobs'[i].status = jobs[i].status
  /\ pc' = [pc EXCEPT ![j] = location]
  /\ UNCHANGED process

\* Such a step changes at most the worker of its job in the ledger.
LEMMA MovesOneWorker ==
  ASSUME LInv, NEW j \in JobIds, NEW location \in Locations, Moves(j, location)
  PROVE  /\ LInv'
         /\ ledgerWorker' = [ledgerWorker EXCEPT ![j] = WorkerAt(location)]
         /\ ledgerWorker[j] = WorkerAt(pc[j])
         /\ UNCHANGED <<ledgerStatus, ledgerWork, app, lost>>
<1> USE DEF LInv, Rows, Moves, process
<1>1. LInv'
  OBVIOUS
<1>2. ledgerWorker' = [ledgerWorker EXCEPT ![j] = WorkerAt(location)]
  BY DEF ledgerWorker, WorkerAt
<1>3. ledgerWorker[j] = WorkerAt(pc[j])
  BY DEF ledgerWorker, WorkerAt
<1>4. UNCHANGED <<ledgerStatus, ledgerWork>>
  BY DEF ledgerStatus, ledgerWork
<1> QED
  BY <1>1, <1>2, <1>3, <1>4

\* Moving on without a change of the ledger's worker is a stutter, leaving
\* for the provider its submit, coming back its answer.
LEMMA MoveStep ==
  ASSUME LInv, NEW j \in JobIds, NEW location \in Locations, Moves(j, location),
         app # "down",
         \/ WorkerAt(location) = WorkerAt(pc[j])
         \/ WorkerAt(pc[j]) = "active" /\ WorkerAt(location) = "calling"
         \/ WorkerAt(pc[j]) = "calling" /\ WorkerAt(location) = "active"
  PROVE  Implements
<1>1. /\ LInv'
      /\ ledgerWorker' = [ledgerWorker EXCEPT ![j] = WorkerAt(location)]
      /\ ledgerWorker[j] = WorkerAt(pc[j])
      /\ UNCHANGED <<ledgerStatus, ledgerWork, app, lost>>
  BY MovesOneWorker
<1>2. CASE WorkerAt(location) = WorkerAt(pc[j])
  <2>1. ledgerWorker' = ledgerWorker
    BY <1>1, <1>2 DEF ledgerWorker
  <2> QED BY <1>1, <2>1 DEF Implements, Ledger!vars
<1>3. CASE WorkerAt(pc[j]) = "active" /\ WorkerAt(location) = "calling"
  <2>1. Ledger!Submit(j)
    BY <1>1, <1>3 DEF Ledger!Submit
  <2> QED BY <1>1, <2>1 DEF Implements, Ledger!Next, Ledger!JobStep
<1>4. CASE WorkerAt(pc[j]) = "calling" /\ WorkerAt(location) = "active"
  <2>1. Ledger!Answer(j)
    BY <1>1, <1>4 DEF Ledger!Answer
  <2> QED BY <1>1, <2>1 DEF Implements, Ledger!Next, Ledger!JobStep
<1> QED BY <1>2, <1>3, <1>4

\* A goroutine that only goes on, or only counts a page.
LEMMA GoStep ==
  ASSUME LInv, NEW j \in JobIds, NEW location \in Locations, Goto(j, location),
         app # "down", UNCHANGED process,
         UNCHANGED jobs \/ jobs' = [jobs EXCEPT ![j].done = @ + 1],
         \/ WorkerAt(location) = WorkerAt(pc[j])
         \/ WorkerAt(pc[j]) = "active" /\ WorkerAt(location) = "calling"
         \/ WorkerAt(pc[j]) = "calling" /\ WorkerAt(location) = "active"
  PROVE  Implements
<1>1. Moves(j, location)
  BY DEF Moves, Goto, LInv, Rows, IsRow, Columns
<1> QED BY <1>1, MoveStep

---------------------------------------------------------------------------
(* The steps.                                                              *)

\* render admits a job as the ledger does: the work has no running row.
LEMMA AdmitStep ==
  ASSUME LInv, NEW j \in JobIds, NEW chosen, Admit(j, chosen)
  PROVE  Implements
<1> USE DEF LInv, Rows, IsRow, Columns, Admit, Terminal, Locations, RunningJobs, process
<1>1. LInv'
  OBVIOUS
<1>2. ledgerStatus' = [ledgerStatus EXCEPT ![j] = "running"] /\ ledgerStatus[j] = "none"
  BY DEF ledgerStatus
<1>3. ledgerWorker' = [ledgerWorker EXCEPT ![j] = "admitted"]
  BY DEF ledgerWorker
<1>4. ledgerWork' = [ledgerWork EXCEPT ![j] = "work"]
  BY DEF ledgerWork
<1>5. Ledger!RunningIn("work") = {}
  BY DEF Ledger!RunningIn, ledgerStatus, ledgerWork
<1>6. Ledger!Admit(j, "work")
  BY <1>2, <1>3, <1>4, <1>5 DEF Ledger!Admit
<1> QED
  BY <1>1, <1>6 DEF Implements, Ledger!Next

\* start runs the job or, closed, interrupts it.
LEMMA StartStep ==
  ASSUME LInv, NEW j \in JobIds, Start(j)
  PROVE  Implements
<1>1. CASE app = "closing"
  BY <1>1, EndStep DEF Start, Live, Terminal
<1>2. CASE app # "closing"
  <2>1. Moves(j, "ready") /\ pc[j] = "admitted" /\ app # "down"
    BY <1>2 DEF Start, Live, Moves, Goto, LInv, Rows
  <2>2. /\ LInv' /\ UNCHANGED <<ledgerStatus, ledgerWork, app, lost>>
        /\ ledgerWorker' = [ledgerWorker EXCEPT ![j] = "active"]
        /\ ledgerWorker[j] = "admitted"
    BY <2>1, MovesOneWorker DEF Locations, WorkerAt
  <2>3. Ledger!Start(j)
    BY <1>2, <2>1, <2>2 DEF Ledger!Start
  <2> QED BY <2>2, <2>3 DEF Implements, Ledger!Next, Ledger!JobStep
<1> QED BY <1>1, <1>2

\* Each step of a goroutine is a ledger step or leaves the ledger alone.
LEMMA GoroutineStep ==
  ASSUME LInv, NEW j \in JobIds, Goroutine(j)
  PROVE  Implements
<1> USE DEF Live, Terminal, Locations, WorkerAt
<1>1. CASE Materialize(j)
  <2>1. CASE End(j, "failed", "idle")
    BY <1>1, <2>1, EndStep DEF Materialize
  <2>2. CASE Goto(j, "admitted") /\ UNCHANGED jobs
    BY <1>1, <2>2, GoStep DEF Materialize
  <2> QED BY <1>1, <2>1, <2>2 DEF Materialize
<1>2. CASE Start(j)
  BY <1>2, StartStep
<1>3. CASE CheckContext(j)
  BY <1>3, EndStep, GoStep DEF CheckContext
<1>4. CASE Submit(j)
  BY <1>4, EndStep, GoStep DEF Submit
<1>5. CASE SaveAsset(j)
  BY <1>5 DEF SaveAsset, Implements, LInv, Rows, process, Ledger!vars,
              ledgerStatus, ledgerWork, ledgerWorker
<1>6. CASE CallFails(j)
  BY <1>6, EndStep DEF CallFails
<1>7. CASE Returned(j)
  BY <1>7, GoStep DEF Returned
<1>8. CASE InsertRows(j)
  BY <1>8, GoStep DEF InsertRows
<1>9. CASE RemoveReferences(j)
  BY <1>9, GoStep DEF RemoveReferences
<1>10. CASE Finish(j)
  BY <1>10, EndStep DEF Finish
<1>11. CASE Leave(j)
  BY <1>11, GoStep DEF Leave
<1>12. CASE Recovered(j)
  BY <1>12, EndStep DEF Recovered
<1> QED
  BY <1>1, <1>2, <1>3, <1>4, <1>5, <1>6, <1>7, <1>8, <1>9, <1>10, <1>11, <1>12
  DEF Goroutine

\* A goroutine that panics, whose database fails, or whose last write is lost.
LEMMA FailureStep ==
  ASSUME LInv, NEW j \in JobIds, Panic(j) \/ StorageFails(j) \/ LoseJob(j)
  PROVE  Implements
<1>1. CASE Panic(j)
  BY <1>1, GoStep DEF Panic, Locations, WorkerAt
<1>2. CASE StorageFails(j)
  BY <1>2, EndStep DEF StorageFails, Terminal
<1>3. CASE LoseJob(j)
  <2> DEFINE location == IF pc[j] \notin {"frozen", "admitted", "panicked"}
                           THEN "leaving" ELSE "idle"
  <2>1. /\ app # "down" /\ pc[j] \notin {"idle", "leaving"}
        /\ pc' = [pc EXCEPT ![j] = location]
        /\ lost' = lost \cup {j} /\ UNCHANGED <<jobs, app>>
    BY <1>3 DEF LoseJob, Goto
  <2>2. LInv'
    BY <2>1 DEF LInv, Rows, Locations
  <2>3. ledgerWorker' = [ledgerWorker EXCEPT ![j] = "idle"] /\ ledgerWorker[j] # "idle"
    BY <2>1 DEF LInv, Locations, ledgerWorker
  <2>4. UNCHANGED <<ledgerStatus, ledgerWork>>
    BY <2>1 DEF ledgerStatus, ledgerWork
  <2>5. Ledger!LoseJob(j)
    BY <2>1, <2>3, <2>4 DEF Ledger!LoseJob
  <2> QED BY <2>2, <2>5 DEF Implements, Ledger!Next
<1> QED BY <1>1, <1>2, <1>3

\* Steps of the process.
LEMMA ProcessStep ==
  ASSUME LInv, Close \/ Stop \/ Restart
  PROVE  Implements
<1> USE DEF LInv, Rows
<1>1. CASE Close
  <2>1. LInv' /\ Ledger!Close
    BY <1>1 DEF Close, Ledger!Close, ledgerStatus, ledgerWork, ledgerWorker
  <2> QED BY <2>1 DEF Implements, Ledger!Next
<1>2. CASE Stop
  <2>1. LInv' /\ Ledger!Stop
    BY <1>2 DEF Stop, Locations, Ledger!Stop, ledgerStatus, ledgerWork, ledgerWorker
  <2> QED BY <2>1 DEF Implements, Ledger!Next
<1>3. CASE Restart
  <2>1. LInv'
    BY <1>3 DEF Restart, IsRow, Columns, Terminal
  <2>2. \A j \in JobIds :
          jobs'[j].status = IF jobs[j].status = "running" THEN "interrupted" ELSE jobs[j].status
    BY <1>3 DEF Restart, IsRow, Columns
  <2>3. ledgerStatus' = [j \in JobIds |->
          IF ledgerStatus[j] = "running" THEN "interrupted" ELSE ledgerStatus[j]]
    BY <2>2 DEF ledgerStatus
  <2>4. UNCHANGED ledgerWork
    BY <2>2 DEF ledgerWork
  <2>5. UNCHANGED <<ledgerWorker, lost>> /\ app = "down" /\ app' = "open"
    BY <1>3 DEF Restart, ledgerWorker
  <2>6. Ledger!Restart
    BY <2>3, <2>4, <2>5 DEF Ledger!Restart
  <2> QED BY <2>1, <2>6 DEF Implements, Ledger!Next
<1> QED BY <1>1, <1>2, <1>3

\* The user changes inputs, never a job.
LEMMA UserStep ==
  ASSUME LInv, User
  PROVE  Implements
<1>1. UNCHANGED <<jobs, pc, app, lost>>
  BY DEF User, Edit, process, SavePage, EditUpstream, SaveInjection, SaveProfile, ReplaceFile
<1> QED
  BY <1>1 DEF Implements, LInv, Rows, Ledger!vars, ledgerStatus, ledgerWork, ledgerWorker

\* Every step keeps the invariant and is a step of the ledger or a stutter.
LEMMA StepImplements == LInv /\ [Next]_vars => LInv' /\ [Ledger!Next]_Ledger!vars
<1> SUFFICES ASSUME LInv, [Next]_vars
             PROVE  Implements
  BY DEF Implements
<1>1. CASE UNCHANGED vars
  BY <1>1 DEF vars, process, Implements, LInv, Rows,
              Ledger!vars, ledgerStatus, ledgerWork, ledgerWorker
<1> QED
  BY <1>1, UserStep, AdmitStep, GoroutineStep, FailureStep, ProcessStep DEF Next

\* The initial states are initial states of the ledger.
LEMMA InitImplements == Init => Ledger!Init
  BY DEF Init, Ledger!Init, NoJob, ledgerStatus, ledgerWork, ledgerWorker

\* Renders implement the ledger: one running job per work, attended rows and
\* final outcomes, whatever happens to their files.
THEOREM RendersImplementLedger == Spec => ImplementsLedger
<1>1. Init => LInv
  BY InitLInv
<1>2. LInv /\ [Next]_vars => LInv'
  BY StepImplements
<1>3. Spec => []LInv
  BY <1>1, <1>2, PTL DEF Spec
<1>4. LInv /\ [Next]_vars => [Ledger!Next]_Ledger!vars
  BY StepImplements
<1> QED
  BY <1>3, <1>4, InitImplements, PTL DEF Spec, ImplementsLedger, Ledger!Spec

---------------------------------------------------------------------------
(* Who owns a reference folder, and what the provider is sent.             *)

TaskColumns == {"pages", "injection", "visual", "reference", "board", "assets"}
IsTask(t) == t = [column \in TaskColumns |-> t[column]]

\* Every row of a job under way says running, and nobody works for a job
\* that was never admitted or in a process that is down.
Attended ==
  \A j \in JobIds :
    /\ pc[j] \notin {"idle", "leaving"} => jobs[j].status = "running"
    /\ jobs[j].status = "none" => pc[j] = "idle"
    /\ app = "down" => pc[j] = "idle"

Shapes ==
  /\ LInv
  /\ task = [j \in JobIds |-> task[j]]
  /\ \A j \in JobIds : IsTask(task[j])
  /\ Attended

\* A folder's job was admitted, has not finished well, and while the service
\* is open somebody who will remove the folder is still working for it.
Owned ==
  \A s \in snapshots :
    /\ s[1] \in JobIds
    /\ app = "open" => pc[s[1]] # "idle"
    /\ pc[s[1]] \notin {"frozen", "done", "panicked"}
    /\ jobs[s[1]].status \notin {"none", "succeeded"}

Working == {"admitted", "ready", "checked", "calling", "kept"}

\* A folder holds the reference admitted with its job, and so does every
\* request of the job.
Admitted ==
  /\ \A s \in snapshots : pc[s[1]] \in Working => s[2] = task[s[1]].reference
  /\ \A r \in requests :
       /\ r.job \in JobIds /\ jobs[r.job].status # "none"
       /\ pc[r.job] \notin {"frozen", "admitted"}
       /\ pc[r.job] \in Working => r.reference = task[r.job].reference

RInv == Shapes /\ Owned /\ Admitted

\* With no folder and no request the invariant holds.
LEMMA InitRInv == Init => RInv
<1> SUFFICES ASSUME Init PROVE RInv
  OBVIOUS
<1>1. LInv
  BY InitLInv
<1> QED
  BY <1>1 DEF Init, RInv, Shapes, Attended, IsTask, TaskColumns, NoTask, NoJob, Owned, Admitted

---------------------------------------------------------------------------
(* What a step of one job has to respect.                                  *)

\* Only job j moves: nobody else's place, row or reference changes.
OnlyJob(j) ==
  /\ \A i \in JobIds \ {j} :
       pc'[i] = pc[i] /\ jobs'[i].status = jobs[i].status /\ task'[i] = task[i]
  /\ task' = [i \in JobIds |-> task'[i]]
  /\ IsTask(task'[j])
  /\ app # "down" /\ app' = app

\* The row of j fits its place.
AttendedAt(j) ==
  /\ pc'[j] \notin {"idle", "leaving"} => jobs'[j].status = "running"
  /\ jobs'[j].status = "none" => pc'[j] = "idle"

\* The folder of j, if the step leaves one, still has its owner.
OwnedAt(j) ==
  \A s \in snapshots' : s[1] = j =>
    /\ app = "open" => pc'[j] # "idle"
    /\ pc'[j] \notin {"frozen", "done", "panicked"}
    /\ jobs'[j].status \notin {"none", "succeeded"}

\* Nobody comes to work with another reference.
SameReference(j) ==
  pc'[j] \in Working => pc[j] \in Working /\ task'[j].reference = task[j].reference

\* A job with requests is not admitted again.
NotReadmitted(j) ==
  (\E r \in requests : r.job = j) =>
    jobs'[j].status # "none" /\ pc'[j] \notin {"frozen", "admitted"}

\* A step of one job that respects all that, and adds neither a folder nor a
\* request, keeps the invariant.
LEMMA OneJobRInv ==
  ASSUME RInv, LInv', NEW j \in JobIds, OnlyJob(j), AttendedAt(j), OwnedAt(j),
         SameReference(j), NotReadmitted(j),
         snapshots' \subseteq snapshots, UNCHANGED requests
  PROVE  RInv'
<1>1. Shapes'
  BY DEF RInv, Shapes, OnlyJob, Attended, AttendedAt
<1>2. Owned'
  <2> SUFFICES ASSUME NEW s \in snapshots'
               PROVE  /\ s[1] \in JobIds
                      /\ app' = "open" => pc'[s[1]] # "idle"
                      /\ pc'[s[1]] \notin {"frozen", "done", "panicked"}
                      /\ jobs'[s[1]].status \notin {"none", "succeeded"}
    BY DEF Owned
  <2>1. s \in snapshots /\ s[1] \in JobIds
    BY DEF RInv, Owned
  <2>2. CASE s[1] = j
    BY <2>1, <2>2 DEF OwnedAt, OnlyJob
  <2>3. CASE s[1] # j
    BY <2>1, <2>3 DEF RInv, Owned, OnlyJob
  <2> QED BY <2>2, <2>3
<1>3. Admitted'
  <2>1. ASSUME NEW s \in snapshots', pc'[s[1]] \in Working
        PROVE  s[2] = task'[s[1]].reference
    <3>1. s \in snapshots /\ s[1] \in JobIds
      BY DEF RInv, Owned
    <3>2. pc[s[1]] \in Working /\ task'[s[1]].reference = task[s[1]].reference
      BY <2>1, <3>1 DEF OnlyJob, SameReference
    <3> QED BY <3>1, <3>2 DEF RInv, Admitted
  <2>2. ASSUME NEW r \in requests'
        PROVE  /\ r.job \in JobIds /\ jobs'[r.job].status # "none"
               /\ pc'[r.job] \notin {"frozen", "admitted"}
               /\ pc'[r.job] \in Working => r.reference = task'[r.job].reference
    <3>1. /\ r \in requests /\ r.job \in JobIds /\ jobs[r.job].status # "none"
          /\ pc[r.job] \notin {"frozen", "admitted"}
          /\ pc[r.job] \in Working => r.reference = task[r.job].reference
      BY DEF RInv, Admitted
    <3>2. CASE r.job = j
      BY <3>1, <3>2 DEF NotReadmitted, SameReference
    <3>3. CASE r.job # j
      BY <3>1, <3>3 DEF OnlyJob
    <3> QED BY <3>2, <3>3
  <2> QED BY <2>1, <2>2 DEF Admitted
<1> QED BY <1>1, <1>2, <1>3 DEF RInv

\* What is known of a job whose goroutine is under way.
LEMMA UnderWay ==
  ASSUME RInv, NEW j \in JobIds
  PROVE  /\ pc[j] \in Locations
         /\ jobs[j].status \in {"none", "running"} \cup Terminal
         /\ pc[j] \notin {"idle", "leaving"} => jobs[j].status = "running"
         /\ jobs[j].status = "none" => pc[j] = "idle"
         /\ \A s \in snapshots : s[1] = j =>
              pc[j] \notin {"frozen", "done", "panicked"} /\
              jobs[j].status \notin {"none", "succeeded"}
         /\ \A r \in requests : r.job = j =>
              jobs[j].status # "none" /\ pc[j] \notin {"frozen", "admitted"}
  BY DEF RInv, Shapes, Attended, LInv, Rows, Owned, Admitted

\* How a row changes when it ends.
LEMMA Ends ==
  ASSUME RInv, NEW j \in JobIds, NEW outcome \in Terminal, NEW location,
         End(j, outcome, location)
  PROVE  /\ pc'[j] = location
         /\ jobs[j].status = "running" => jobs'[j].status = outcome
         /\ jobs[j].status # "running" => jobs'[j].status = jobs[j].status
         /\ \A i \in JobIds \ {j} : pc'[i] = pc[i] /\ jobs'[i].status = jobs[i].status
  BY DEF RInv, Shapes, LInv, Rows, IsRow, Columns, End, Goto

\* How a goroutine goes on.
LEMMA Goes ==
  ASSUME RInv, NEW j \in JobIds, NEW location, Goto(j, location),
         UNCHANGED jobs \/ jobs' = [jobs EXCEPT ![j].done = @ + 1]
  PROVE  /\ pc'[j] = location
         /\ \A i \in JobIds : jobs'[i].status = jobs[i].status
         /\ \A i \in JobIds \ {j} : pc'[i] = pc[i]
  BY DEF RInv, Shapes, LInv, Rows, IsRow, Columns, Goto

\* How its local variables change: dropped, or other answers and pages.
LEMMA Forgets ==
  ASSUME RInv, NEW j \in JobIds, task' = [task EXCEPT ![j] = NoTask]
  PROVE  /\ \A i \in JobIds \ {j} : task'[i] = task[i]
         /\ task' = [i \in JobIds |-> task'[i]] /\ IsTask(task'[j])
  BY DEF RInv, Shapes, IsTask, TaskColumns, NoTask

\* Or kept, but for its pages and answer.
LEMMA Keeps ==
  ASSUME RInv, NEW j \in JobIds, NEW a, NEW p,
         \/ UNCHANGED task
         \/ task' = [task EXCEPT ![j].assets = a]
         \/ task' = [task EXCEPT ![j].pages = p, ![j].assets = a]
  PROVE  /\ \A i \in JobIds \ {j} : task'[i] = task[i]
         /\ task' = [i \in JobIds |-> task'[i]] /\ IsTask(task'[j])
         /\ task'[j].reference = task[j].reference
  BY DEF RInv, Shapes, IsTask, TaskColumns

---------------------------------------------------------------------------
(* The steps.                                                              *)

\* Admission starts a job without folder or request.
LEMMA AdmitRInv ==
  ASSUME RInv, LInv', NEW j \in JobIds, NEW chosen, Admit(j, chosen)
  PROVE  RInv'
<1>1. /\ pc'[j] = "frozen" /\ jobs[j].status = "none" /\ jobs'[j].status = "running"
      /\ \A i \in JobIds \ {j} : pc'[i] = pc[i] /\ jobs'[i].status = jobs[i].status
      /\ app # "down" /\ UNCHANGED <<snapshots, requests, app>>
  BY DEF Admit, process, RInv, Shapes, LInv, Rows
<1>2. OnlyJob(j)
  BY <1>1 DEF Admit, OnlyJob, RInv, Shapes, IsTask, TaskColumns, frozen
<1>3. AttendedAt(j) /\ OwnedAt(j) /\ SameReference(j) /\ NotReadmitted(j)
  BY <1>1, UnderWay DEF AttendedAt, OwnedAt, SameReference, NotReadmitted, Working
<1> QED BY <1>1, <1>2, <1>3, OneJobRInv

\* Copying the reference makes the one new folder, with the admitted content.
LEMMA MaterializeRInv ==
  ASSUME RInv, LInv', NEW j \in JobIds, Materialize(j)
  PROVE  RInv'
<1>1. CASE End(j, "failed", "idle") /\ task' = [task EXCEPT ![j] = NoTask]
           /\ UNCHANGED snapshots
  <2>1. UNCHANGED <<requests, app>> /\ pc[j] = "frozen" /\ app # "down"
    BY DEF Materialize, Live, process
  <2>2. OnlyJob(j)
    BY <1>1, <2>1, Ends, Forgets DEF OnlyJob, Terminal
  <2>3. pc'[j] = "idle" /\ jobs'[j].status = "failed"
    BY <1>1, <2>1, Ends, UnderWay DEF Terminal
  <2>4. AttendedAt(j) /\ OwnedAt(j) /\ SameReference(j) /\ NotReadmitted(j)
    BY <1>1, <2>1, <2>3, UnderWay DEF AttendedAt, OwnedAt, SameReference, NotReadmitted, Working
  <2> QED BY <1>1, <2>1, <2>2, <2>4, OneJobRInv
<1>2. CASE snapshots' = snapshots \cup {<<j, task[j].reference>>}
           /\ Goto(j, "admitted") /\ UNCHANGED <<jobs, task>>
  <2>1. UNCHANGED <<requests, app>> /\ pc[j] = "frozen" /\ app # "down"
    BY DEF Materialize, Live, process
  <2>2. /\ pc'[j] = "admitted" /\ \A i \in JobIds \ {j} : pc'[i] = pc[i]
        /\ jobs[j].status = "running"
    BY <1>2, <2>1, Goes, UnderWay
  <2>3. Shapes'
    BY <1>2, <2>1, <2>2 DEF RInv, Shapes, Attended
  <2>4. Owned'
    BY <1>2, <2>1, <2>2 DEF RInv, Owned
  <2>5. ASSUME NEW s \in snapshots', pc'[s[1]] \in Working
        PROVE  s[2] = task'[s[1]].reference
    <3>1. CASE s \in snapshots
      <4>1. s[1] \in JobIds /\ s[1] # j
        BY <2>1, <3>1 DEF RInv, Owned
      <4> QED BY <1>2, <2>2, <2>5, <3>1, <4>1 DEF RInv, Admitted
    <3>2. CASE s = <<j, task[j].reference>>
      BY <1>2, <3>2
    <3> QED BY <1>2, <3>1, <3>2
  <2>6. Admitted'
    BY <1>2, <2>1, <2>2, <2>5 DEF RInv, Admitted
  <2> QED BY <2>3, <2>4, <2>6 DEF RInv
<1> QED BY <1>1, <1>2 DEF Materialize

\* Submitting sends what is in the job's own folder, the admitted reference.
LEMMA SubmitRInv ==
  ASSUME RInv, LInv', NEW j \in JobIds, Submit(j)
  PROVE  RInv'
<1>1. /\ pc[j] = "checked" /\ jobs[j].status = "running" /\ app # "down"
      /\ UNCHANGED <<task, snapshots, app>>
  BY UnderWay DEF Submit, Live, process
<1>2. CASE End(j, "failed", "leaving") /\ UNCHANGED requests
  <2>1. OnlyJob(j)
    BY <1>1, <1>2, Ends, Keeps DEF OnlyJob, Terminal
  <2>2. pc'[j] = "leaving" /\ jobs'[j].status = "failed"
    BY <1>1, <1>2, Ends DEF Terminal
  <2>3. AttendedAt(j) /\ OwnedAt(j) /\ SameReference(j) /\ NotReadmitted(j)
    BY <2>2 DEF AttendedAt, OwnedAt, SameReference, NotReadmitted, Working
  <2> QED BY <1>1, <1>2, <2>1, <2>3, OneJobRInv
<1>3. CASE /\ Goto(j, "calling") /\ UNCHANGED jobs
           /\ \A r \in requests' : \/ r \in requests
                                   \/ /\ r.job = j
                                      /\ \E s \in snapshots : s[1] = j /\ r.reference = s[2]
  <2>1. pc'[j] = "calling" /\ \A i \in JobIds \ {j} : pc'[i] = pc[i]
    BY <1>3, Goes
  <2>2. Shapes'
    BY <1>1, <1>3, <2>1 DEF RInv, Shapes, Attended
  <2>3. Owned'
    BY <1>1, <1>3, <2>1 DEF RInv, Owned
  <2>4. \A s \in snapshots' : pc'[s[1]] \in Working => s[2] = task'[s[1]].reference
    BY <1>1, <2>1 DEF RInv, Owned, Admitted, Working
  <2>5. ASSUME NEW r \in requests'
        PROVE  /\ r.job \in JobIds /\ jobs'[r.job].status # "none"
               /\ pc'[r.job] \notin {"frozen", "admitted"}
               /\ pc'[r.job] \in Working => r.reference = task'[r.job].reference
    <3>1. CASE r \in requests
      BY <1>1, <1>3, <2>1, <3>1 DEF RInv, Admitted, Working
    <3>2. CASE r.job = j /\ \E s \in snapshots : s[1] = j /\ r.reference = s[2]
      BY <1>1, <1>3, <2>1, <3>2 DEF RInv, Admitted, Working
    <3> QED BY <1>3, <3>1, <3>2
  <2> QED BY <2>2, <2>3, <2>4, <2>5 DEF RInv, Admitted
<1> QED BY <1>2, <1>3 DEF Submit

\* Every other step of a goroutine or of the admitting command respects what
\* a step of one job has to.
LEMMA GoroutineRInv ==
  ASSUME RInv, LInv', NEW j \in JobIds, Goroutine(j)
  PROVE  RInv'
<1> USE DEF Live, Terminal
<1> DEFINE Rest == AttendedAt(j) /\ OwnedAt(j) /\ SameReference(j) /\ NotReadmitted(j)
                   /\ snapshots' \subseteq snapshots /\ UNCHANGED requests
<1>1. CASE Start(j)
  <2>1. CASE app = "closing"
    <3>1. OnlyJob(j)
      BY <1>1, <2>1, Ends, Forgets DEF Start, OnlyJob, process
    <3>2. /\ pc[j] = "admitted" /\ pc'[j] = "idle" /\ jobs'[j].status = "interrupted"
          /\ UNCHANGED <<snapshots, requests>>
      BY <1>1, <2>1, Ends, UnderWay DEF Start
    <3>3. Rest
      BY <2>1, <3>2, UnderWay DEF AttendedAt, OwnedAt, SameReference, NotReadmitted, Working
    <3> QED BY <3>1, <3>3, OneJobRInv
  <2>2. CASE app # "closing"
    <3>1. OnlyJob(j)
      BY <1>1, <2>2, Goes, Keeps DEF Start, OnlyJob, process
    <3>2. /\ pc[j] = "admitted" /\ pc'[j] = "ready" /\ jobs'[j].status = "running"
          /\ UNCHANGED <<snapshots, requests, task>>
      BY <1>1, <2>2, Goes, UnderWay DEF Start
    <3>3. Rest
      BY <3>2, UnderWay DEF AttendedAt, OwnedAt, SameReference, NotReadmitted, Working
    <3> QED BY <3>1, <3>3, OneJobRInv
  <2> QED BY <2>1, <2>2
<1>2. CASE CheckContext(j)
  <2>1. OnlyJob(j)
    BY <1>2, Ends, Goes, Keeps DEF CheckContext, OnlyJob, process
  <2>2. /\ pc[j] = "ready" /\ UNCHANGED <<snapshots, requests, task>>
        /\ \/ pc'[j] = "leaving" /\ jobs'[j].status = "interrupted"
           \/ pc'[j] = "checked" /\ jobs'[j].status = "running"
    BY <1>2, Ends, Goes, UnderWay DEF CheckContext
  <2>3. Rest
    BY <2>2, UnderWay DEF AttendedAt, OwnedAt, SameReference, NotReadmitted, Working
  <2> QED BY <2>1, <2>3, OneJobRInv
<1>3. CASE SaveAsset(j)
  <2>1. OnlyJob(j) /\ task'[j].reference = task[j].reference
    BY <1>3, Keeps DEF SaveAsset, OnlyJob, process
  <2>2. pc[j] = "calling" /\ UNCHANGED <<pc, jobs, snapshots, requests>>
    BY <1>3 DEF SaveAsset
  <2>3. Rest
    BY <2>1, <2>2, UnderWay DEF AttendedAt, OwnedAt, SameReference, NotReadmitted, Working
  <2> QED BY <2>1, <2>3, OneJobRInv
<1>4. CASE CallFails(j)
  <2>1. OnlyJob(j)
    BY <1>4, Ends, Keeps DEF CallFails, OnlyJob, process
  <2>2. /\ pc[j] = "calling" /\ UNCHANGED <<snapshots, requests>>
        /\ pc'[j] = "leaving" /\ jobs'[j].status \in {"interrupted", "failed"}
    BY <1>4, Ends, UnderWay DEF CallFails
  <2>3. Rest
    BY <2>2, UnderWay DEF AttendedAt, OwnedAt, SameReference, NotReadmitted, Working
  <2> QED BY <2>1, <2>3, OneJobRInv
<1>5. CASE Returned(j)
  <2>1. OnlyJob(j)
    BY <1>5, Goes, Keeps DEF Returned, OnlyJob, process
  <2>2. /\ pc[j] = "calling" /\ UNCHANGED <<task, snapshots, requests>>
        /\ pc'[j] = "kept" /\ jobs'[j].status = "running"
    BY <1>5, Goes, UnderWay DEF Returned
  <2>3. Rest
    BY <2>2, UnderWay DEF AttendedAt, OwnedAt, SameReference, NotReadmitted, Working
  <2> QED BY <2>1, <2>3, OneJobRInv
<1>6. CASE InsertRows(j)
  <2>1. OnlyJob(j) /\ task'[j].reference = task[j].reference
    BY <1>6, Goes, Keeps DEF InsertRows, OnlyJob, process
  <2>2. /\ pc[j] = "kept" /\ UNCHANGED <<snapshots, requests>>
        /\ pc'[j] = "ready" /\ jobs'[j].status = "running"
    BY <1>6, Goes, UnderWay DEF InsertRows
  <2>3. Rest
    BY <2>1, <2>2, UnderWay DEF AttendedAt, OwnedAt, SameReference, NotReadmitted, Working
  <2> QED BY <2>1, <2>3, OneJobRInv
<1>7. CASE RemoveReferences(j)
  <2>1. OnlyJob(j)
    BY <1>7, Goes, Keeps DEF RemoveReferences, OnlyJob, process
  <2>2. /\ pc[j] = "ready" /\ snapshots' = {s \in snapshots : s[1] # j}
        /\ UNCHANGED requests /\ pc'[j] = "done" /\ jobs'[j].status = "running"
    BY <1>7, Goes, UnderWay DEF RemoveReferences, DropSnapshot
  <2>3. Rest
    BY <2>2, UnderWay DEF AttendedAt, OwnedAt, SameReference, NotReadmitted, Working
  <2> QED BY <2>1, <2>3, OneJobRInv
<1>8. CASE Finish(j)
  <2>1. OnlyJob(j)
    BY <1>8, Ends, Keeps DEF Finish, OnlyJob, process
  <2>2. /\ pc[j] = "done" /\ UNCHANGED <<snapshots, requests>>
        /\ pc'[j] = "leaving" /\ jobs'[j].status = "succeeded"
    BY <1>8, Ends, UnderWay DEF Finish
  <2>3. Rest
    BY <2>2, UnderWay DEF AttendedAt, OwnedAt, SameReference, NotReadmitted, Working
  <2> QED BY <2>1, <2>3, OneJobRInv
<1>9. CASE Leave(j)
  <2>1. OnlyJob(j)
    BY <1>9, Goes, Forgets DEF Leave, OnlyJob, process
  <2>2. /\ pc[j] = "leaving" /\ snapshots' = {s \in snapshots : s[1] # j}
        /\ UNCHANGED requests /\ pc'[j] = "idle" /\ jobs'[j].status = jobs[j].status
    BY <1>9, Goes DEF Leave, DropSnapshot
  <2>3. Rest
    BY <2>2, UnderWay DEF AttendedAt, OwnedAt, SameReference, NotReadmitted, Working
  <2> QED BY <2>1, <2>3, OneJobRInv
<1>10. CASE Recovered(j)
  <2>1. OnlyJob(j)
    BY <1>10, Ends, Keeps DEF Recovered, OnlyJob, process
  <2>2. /\ pc[j] = "panicked" /\ UNCHANGED <<snapshots, requests>>
        /\ pc'[j] = "idle" /\ jobs'[j].status = "interrupted"
    BY <1>10, Ends, UnderWay DEF Recovered
  <2>3. Rest
    BY <2>2, UnderWay DEF AttendedAt, OwnedAt, SameReference, NotReadmitted, Working
  <2> QED BY <2>1, <2>3, OneJobRInv
<1> QED
  BY <1>1, <1>2, <1>3, <1>4, <1>5, <1>6, <1>7, <1>8, <1>9, <1>10,
     MaterializeRInv, SubmitRInv DEF Goroutine

\* A panic, a failing database or a lost write keeps it.
LEMMA FailureRInv ==
  ASSUME RInv, LInv', NEW j \in JobIds, Panic(j) \/ StorageFails(j) \/ LoseJob(j)
  PROVE  RInv'
<1> USE DEF Terminal
<1> DEFINE Rest == AttendedAt(j) /\ OwnedAt(j) /\ SameReference(j) /\ NotReadmitted(j)
                   /\ snapshots' \subseteq snapshots /\ UNCHANGED requests
<1>1. CASE Panic(j)
  <2>1. OnlyJob(j)
    BY <1>1, Goes, Forgets DEF Panic, OnlyJob, process
  <2>2. /\ pc[j] \in {"ready", "checked", "calling", "kept", "done"}
        /\ snapshots' = {s \in snapshots : s[1] # j}
        /\ UNCHANGED requests /\ pc'[j] = "panicked" /\ jobs'[j].status = "running"
    BY <1>1, Goes, UnderWay DEF Panic, DropSnapshot
  <2>3. Rest
    BY <2>2, UnderWay DEF AttendedAt, OwnedAt, SameReference, NotReadmitted, Working
  <2> QED BY <2>1, <2>3, OneJobRInv
<1>2. CASE StorageFails(j)
  <2>1. OnlyJob(j)
    BY <1>2, Ends, Keeps DEF StorageFails, OnlyJob, process
  <2>2. /\ pc[j] \in {"checked", "kept"} /\ UNCHANGED <<snapshots, requests>>
        /\ pc'[j] = "leaving" /\ jobs'[j].status = "failed"
    BY <1>2, Ends, UnderWay DEF StorageFails
  <2>3. Rest
    BY <2>2, UnderWay DEF AttendedAt, OwnedAt, SameReference, NotReadmitted, Working
  <2> QED BY <2>1, <2>3, OneJobRInv
<1>3. CASE LoseJob(j)
  <2>1. /\ app # "down" /\ pc[j] \notin {"idle", "leaving"}
        /\ pc[j] = "admitted" => app = "closing"
        /\ UNCHANGED <<jobs, snapshots, app, requests>>
        /\ Goto(j, IF pc[j] \notin {"frozen", "admitted", "panicked"} THEN "leaving" ELSE "idle")
    BY <1>3 DEF LoseJob
  <2>2. task' = [task EXCEPT ![j] = NoTask] \/ UNCHANGED task
    <3>1. task' = [task EXCEPT ![j] = task[j]] => UNCHANGED task
      BY DEF RInv, Shapes
    <3> QED BY <1>3, <3>1 DEF LoseJob
  <2>3. pc'[j] = (IF pc[j] \notin {"frozen", "admitted", "panicked"} THEN "leaving" ELSE "idle")
        /\ \A i \in JobIds \ {j} : pc'[i] = pc[i]
    BY <2>1, Goes
  <2>4. OnlyJob(j)
    BY <2>1, <2>2, <2>3, Forgets, Keeps DEF OnlyJob
  <2>5. Rest
    BY <2>1, <2>3, UnderWay DEF AttendedAt, OwnedAt, SameReference, NotReadmitted, Working
  <2> QED BY <2>4, <2>5, OneJobRInv
<1> QED BY <1>1, <1>2, <1>3

\* Close, the process's end and the next startup keep it: the startup
\* removes every folder before anybody works again.
LEMMA ProcessRInv ==
  ASSUME RInv, LInv', Close \/ Stop \/ Restart
  PROVE  RInv'
<1>1. CASE Close
  <2>1. UNCHANGED <<jobs, pc, task, snapshots, requests>> /\ app' = "closing"
    BY <1>1 DEF Close, results
  <2> QED BY <2>1 DEF RInv, Shapes, Attended, Owned, Admitted
<1>2. CASE Stop
  <2>1. /\ UNCHANGED <<jobs, snapshots, requests>> /\ app' # "open"
        /\ pc' = [j \in JobIds |-> "idle"] /\ task' = [j \in JobIds |-> NoTask]
    BY <1>2 DEF Stop
  <2>2. Shapes'
    BY <2>1 DEF RInv, Shapes, Attended, IsTask, TaskColumns, NoTask
  <2>3. Owned'
    BY <2>1 DEF RInv, Owned
  <2>4. Admitted'
    BY <2>1 DEF RInv, Owned, Admitted, Working
  <2> QED BY <2>2, <2>3, <2>4 DEF RInv
<1>3. CASE Restart
  <2>1. /\ UNCHANGED <<pc, task, requests>> /\ snapshots' = {} /\ app' = "open"
        /\ \A j \in JobIds : jobs'[j].status =
             IF jobs[j].status = "running" THEN "interrupted" ELSE jobs[j].status
    BY <1>3 DEF Restart, RInv, Shapes, LInv, Rows, IsRow, Columns
  <2>2. \A j \in JobIds : pc[j] = "idle"
    BY <1>3 DEF Restart, RInv, Shapes, Attended
  <2>3. Shapes'
    BY <2>1, <2>2 DEF RInv, Shapes, Attended
  <2>4. Owned' /\ Admitted'
    BY <2>1, <2>2 DEF RInv, Owned, Admitted
  <2> QED BY <2>3, <2>4 DEF RInv
<1> QED BY <1>1, <1>2, <1>3

\* The user edits inputs, which no folder and no request follows.
LEMMA UserRInv ==
  ASSUME RInv, LInv', User \/ UNCHANGED vars
  PROVE  RInv'
<1>1. UNCHANGED <<jobs, pc, task, app, snapshots, requests>>
  BY DEF vars, process, User, Edit, SavePage, EditUpstream, SaveInjection, SaveProfile, ReplaceFile
<1> QED
  BY <1>1 DEF RInv, Shapes, Attended, IsTask, Owned, Admitted

\* The invariant is inductive.
LEMMA NextRInv == RInv /\ [Next]_vars => RInv'
<1> SUFFICES ASSUME RInv, [Next]_vars PROVE RInv'
  OBVIOUS
<1>1. LInv'
  BY StepImplements DEF RInv, Shapes
<1> QED
  BY <1>1, AdmitRInv, GoroutineRInv, FailureRInv, ProcessRInv, UserRInv DEF Next

\* The invariant holds in every reachable state.
LEMMA AlwaysRInv == Spec => []RInv
  BY InitRInv, NextRInv, PTL DEF Spec

\* While the service is open every reference folder belongs to a job under
\* way, and a job that succeeded has none.
THEOREM FoldersAreOwned == Spec => []SnapshotsAreOwned
<1>1. RInv => SnapshotsAreOwned
  BY DEF RInv, Owned, SnapshotsAreOwned
<1> QED BY <1>1, AlwaysRInv, PTL

\* The provider is only sent the reference that was admitted with the job.
THEOREM OnlyAdmittedReferencesAreSent == Spec => []ReferencesAreTheAdmittedOnes
<1>1. RInv => ReferencesAreTheAdmittedOnes
  BY DEF RInv, Admitted, Working, ReferencesAreTheAdmittedOnes
<1> QED BY <1>1, AlwaysRInv, PTL

---------------------------------------------------------------------------
(* Images, files and progress.                                             *)

\* A goroutine that works has the page it works on and what was admitted.
Holding == Working \cup {"frozen"}
HasItsInputs ==
  \A j \in JobIds :
    /\ pc[j] \in {"checked", "calling", "kept"} => task[j].pages # <<>>
    /\ pc[j] \in Holding => task[j].injection \in Injections

TInv == TypeOK /\ HasItsInputs

---------------------------------------------------------------------------
(* What was drawn.                                                         *)

\* The request a job sends for a page, and the one an image answers.
requestFor(j, page) ==
  [job |-> j, page |-> page.no, text |-> page.text, injection |-> task[j].injection,
   visual |-> task[j].visual, reference |-> task[j].reference]
requestOf(i) ==
  [job |-> i.file[1], page |-> i.file[2], text |-> i.text, injection |-> i.injection,
   visual |-> i.visual, reference |-> i.board[1]]

\* A working job has its folder, what it waits for was requested, and what an
\* image row says was requested.
FolderHeld == \A j \in JobIds : pc[j] \in Working => <<j, task[j].reference>> \in snapshots
BoardHeld == \A j \in JobIds : task[j].board[1] = task[j].reference
CallRequested ==
  \A j \in JobIds : pc[j] \in {"calling", "kept"} =>
    requestFor(j, Head(task[j].pages)) \in requests
ImagesRequested == \A i \in images : requestOf(i) \in requests
DrawnInv == FolderHeld /\ BoardHeld /\ CallRequested /\ ImagesRequested

---------------------------------------------------------------------------
(* Files and progress.                                                     *)

\* The files of an answer are there and belong to the page under way.
AnswerHeld ==
  \A j \in JobIds :
    /\ pc[j] = "kept" => task[j].assets # <<>>
    /\ task[j].assets # <<>> => pc[j] \in {"calling", "kept", "leaving"} /\ task[j].pages # <<>>
    /\ \A f \in ToSet(task[j].assets) :
         f \in disk /\ f[1] = j /\ f[2] = Head(task[j].pages).no
FilesTracked ==
  \A f \in disk \ abandoned :
    (\E i \in images : i.file = f) \/ (\E j \in JobIds : f \in ToSet(task[j].assets))
ImagesThere == \A i \in images : i.file \in disk /\ jobs[i.file[1]].status # "none"

\* The pages left are in order and have no image yet; the others have.
PagesLeft ==
  \A j \in JobIds :
    /\ \A a, b \in DOMAIN task[j].pages : a < b => task[j].pages[a].no < task[j].pages[b].no
    /\ \A a \in DOMAIN task[j].pages : task[j].pages[a].no \notin PagesOf(j)
Counted ==
  \A j \in JobIds :
    /\ IsFiniteSet(PagesOf(j)) /\ jobs[j].done = Cardinality(PagesOf(j))
    /\ pc[j] \in Holding \cup {"done"} =>
         jobs[j].done + Len(task[j].pages) = jobs[j].total
    /\ pc[j] = "done" => task[j].pages = <<>>
    /\ jobs[j].status = "succeeded" => jobs[j].done = jobs[j].total
FilesInv == AnswerHeld /\ FilesTracked /\ ImagesThere /\ PagesLeft /\ Counted

---------------------------------------------------------------------------
(* Nothing edited since.                                                   *)

\* While nobody edits, what a working job was admitted with is what the
\* workspace holds.
AsAdmitted(j) ==
  /\ task[j].injection = injection /\ task[j].visual = profile.revision
  /\ task[j].board = currentBoard
  /\ \A a \in DOMAIN task[j].pages :
       LET page == task[j].pages[a]
       IN docs[page.no].current /\ docs[page.no].text = page.text
FreshInv ==
  \A j \in JobIds :
    /\ jobs[j].since <= edits
    /\ pc[j] \in Holding /\ jobs[j].since = edits => AsAdmitted(j)

SInv == RInv /\ TInv /\ DrawnInv /\ FilesInv /\ FreshInv

---------------------------------------------------------------------------
(* Types.                                                                  *)

\* What is read of the profile and the reference is a number.
LEMMA InputTypes ==
  ASSUME TypeOK
  PROVE  profile.revision \in Nat /\ profile.reference \in Nat /\ cachedDigest \in Nat
<1>1. Contents \cup {0} \subseteq Nat
  BY ComicRenderAssumption
<1>2. profile \in [revision : Nat, reference : Contents \cup {0}]
  BY DEF TypeOK
<1>3. cache \in Contents \cup {0}
  BY DEF TypeOK
<1> QED BY <1>1, <1>2, <1>3 DEF cachedDigest

\* Local variables of nobody.
LEMMA NoTaskType == NoTask \in Task
<1>1. <<>> \in Seq(Page) /\ <<>> \in Seq(Files)
  BY EmptySeq
<1>2. <<0, FALSE>> \in Board
  BY DEF Board
<1> QED BY <1>1, <1>2 DEF NoTask, Task

\* The initial state is typed.
LEMMA InitTInv == Init => TInv
<1> SUFFICES ASSUME Init PROVE TInv
  OBVIOUS
<1>1. docs \in [Pages -> [revision : Nat, text : Texts, current : BOOLEAN]]
  <2> DEFINE saved == {[revision |-> 1, text |-> t, current |-> TRUE] :
                         t \in {u \in Texts : Complete[u]}}
  <2>1. saved \subseteq [revision : Nat, text : Texts, current : BOOLEAN]
    <3>1. \A t \in Texts : [revision |-> 1, text |-> t, current |-> TRUE]
                            \in [revision : Nat, text : Texts, current : BOOLEAN]
      OBVIOUS
    <3> QED BY <3>1, Zenon
  <2>2. docs \in [Pages -> saved]
    BY DEF Init
  <2> HIDE DEF saved
  <2> QED BY <2>1, <2>2
<1>2. /\ injection \in Injections /\ {file, cache} \subseteq Contents \cup {0}
      /\ profile \in [revision : Nat, reference : Contents \cup {0}]
  BY DEF Init
<1>3. jobs \in [JobIds -> Job] /\ pc \in [JobIds -> Locations]
  BY DEF Init, Job, NoJob, Locations
<1>4. task \in [JobIds -> Task]
  BY NoTaskType DEF Init
<1> QED
  BY <1>1, <1>2, <1>3, <1>4 DEF Init, TInv, TypeOK, HasItsInputs, Holding, Working

\* The user's edits keep the types of the inputs.
LEMMA UserTInv ==
  ASSUME TInv, User
  PROVE  TInv'
<1>1. UNCHANGED <<jobs, images, disk, abandoned, snapshots, pc, task, app, lost, requests>>
  BY DEF User, Edit, results, process, SavePage, EditUpstream, SaveInjection, SaveProfile,
         ReplaceFile
<1>2. /\ docs' \in [Pages -> [revision : Nat, text : Texts, current : BOOLEAN]]
      /\ injection' \in Injections
      /\ profile' \in [revision : Nat, reference : Contents \cup {0}]
      /\ {file', cache'} \subseteq Contents \cup {0} /\ edits' \in Nat
  BY DEF TInv, TypeOK, User, Edit, SavePage, EditUpstream, SaveInjection, SaveProfile,
         ReplaceFile
<1> QED BY <1>1, <1>2 DEF TInv, TypeOK, HasItsInputs

\* The pages a command freezes are typed.
LEMMA ChosenType ==
  ASSUME NEW chosen \in PageChoices
  PROVE  /\ chosen \in Seq(Pages)
         /\ \A i, k \in DOMAIN chosen : i < k => chosen[i] < chosen[k]
<1>1. Cardinality(Pages) \in Nat
  BY ComicRenderAssumption, FS_CardinalityType
<1> QED BY <1>1, SeqDef DEF PageChoices, BoundedSeq, SeqOf

\* The pages a command freezes, with their bodies, and its whole task are typed.
LEMMA FrozenType ==
  ASSUME TypeOK, NEW chosen \in PageChoices
  PROVE  /\ frozenPages(chosen) \in Seq(Page)
         /\ Len(frozenPages(chosen)) = Len(chosen)
         /\ DOMAIN frozenPages(chosen) = DOMAIN chosen
         /\ \A i \in DOMAIN chosen : frozenPages(chosen)[i] =
              [no |-> chosen[i], revision |-> docs[chosen[i]].revision,
               text |-> docs[chosen[i]].text]
         /\ frozen(chosen) \in Task
<1>1. chosen \in Seq(Pages)
  BY ChosenType
<1>2. /\ Len(chosen) \in Nat /\ DOMAIN chosen = 1..Len(chosen)
      /\ \A i \in 1..Len(chosen) : chosen[i] \in Pages
  BY <1>1, LenProperties, ElementOfSeq
<1>3. frozenPages(chosen) \in [1..Len(chosen) -> Page]
  BY <1>2 DEF frozenPages, Page, TypeOK
<1>4. frozenPages(chosen) \in Seq(Page) /\ Len(frozenPages(chosen)) = Len(chosen)
  BY <1>2, <1>3
<1>5. currentBoard \in Board
  <2>1. profile.reference \in Nat
    BY InputTypes
  <2>2. (cachedDigest = profile.reference) \in BOOLEAN
    OBVIOUS
  <2> QED BY <2>1, <2>2, Zenon DEF currentBoard, Board
<1>6. frozen(chosen) \in Task
  <2>1. <<>> \in Seq(Files)
    BY EmptySeq
  <2>2. profile.revision \in Nat /\ profile.reference \in Nat /\ injection \in Injections
    BY InputTypes DEF TypeOK
  <2>3. frozenPages(chosen) \in Seq(Page) /\ injection \in Injections \cup {0}
    BY <1>4, <2>2
  <2> HIDE DEF frozenPages, currentBoard, Board, Page, Files
  <2> QED BY <1>5, <2>1, <2>2, <2>3 DEF frozen, Task
<1> QED BY <1>2, <1>4, <1>6 DEF frozenPages

\* What a step of job j keeps of the types.
Others(j) == \A i \in JobIds \ {j} : pc'[i] = pc[i] /\ task'[i] = task[i]
HasItsInputsAt(j) ==
  /\ pc'[j] \in {"checked", "calling", "kept"} => task'[j].pages # <<>>
  /\ pc'[j] \in Holding => task'[j].injection \in Injections

\* Then the step keeps the types.
LEMMA OneJobTInv ==
  ASSUME TInv, NEW j \in JobIds, Others(j), HasItsInputsAt(j),
         jobs' \in [JobIds -> Job], pc' \in [JobIds -> Locations],
         task' \in [JobIds -> Task], UNCHANGED <<inputs, process, edits>>,
         images' \subseteq Image, disk' \subseteq Files, abandoned' \subseteq Files,
         snapshots' \subseteq JobIds \X (Contents \cup {0}), requests' \subseteq Request
  PROVE  TInv'
<1>1. TypeOK'
  BY DEF TInv, TypeOK, inputs, process
<1>2. HasItsInputs'
  BY DEF TInv, HasItsInputs, Others, HasItsInputsAt, inputs
<1> QED BY <1>1, <1>2 DEF TInv

\* How a job ends or goes on.
LEMMA EndType ==
  ASSUME TypeOK, NEW j \in JobIds, NEW outcome \in Terminal, NEW location \in Locations,
         End(j, outcome, location)
  PROVE  /\ jobs' \in [JobIds -> Job] /\ pc' \in [JobIds -> Locations]
         /\ pc'[j] = location /\ \A i \in JobIds \ {j} : pc'[i] = pc[i]
         /\ \A i \in JobIds : /\ jobs'[i].done = jobs[i].done
                              /\ jobs'[i].total = jobs[i].total
                              /\ jobs'[i].since = jobs[i].since
         /\ \A i \in JobIds \ {j} : jobs'[i] = jobs[i]
         /\ jobs'[j].status = IF jobs[j].status = "running" THEN outcome ELSE jobs[j].status
  BY DEF TypeOK, End, Goto, Job

\* A goroutine that goes on.
LEMMA GoType ==
  ASSUME TypeOK, NEW j \in JobIds, NEW location \in Locations, Goto(j, location)
  PROVE  /\ pc' \in [JobIds -> Locations]
         /\ pc'[j] = location /\ \A i \in JobIds \ {j} : pc'[i] = pc[i]
  BY DEF TypeOK, Goto

\* Its local variables forgotten.
LEMMA ForgetType ==
  ASSUME TypeOK, NEW j \in JobIds, task' = [task EXCEPT ![j] = NoTask]
  PROVE  /\ task' \in [JobIds -> Task] /\ task'[j] = NoTask
         /\ \A i \in JobIds \ {j} : task'[i] = task[i]
  BY NoTaskType DEF TypeOK

\* Its answer given up.
LEMMA DropType ==
  ASSUME TypeOK, NEW j \in JobIds, task' = [task EXCEPT ![j].assets = <<>>]
  PROVE  /\ task' \in [JobIds -> Task] /\ task'[j] = [task[j] EXCEPT !.assets = <<>>]
         /\ \A i \in JobIds \ {j} : task'[i] = task[i]
<1>1. <<>> \in Seq(Files)
  BY EmptySeq
<1> QED BY <1>1 DEF TypeOK, Task

\* An answer's files are image files.
LEMMA AssetTypes ==
  ASSUME TypeOK, NEW j \in JobIds
  PROVE  ToSet(task[j].assets) \subseteq Files
<1>1. task[j].assets \in Seq(Files)
  BY DEF TypeOK, Task
<1> QED BY <1>1, LenProperties, ElementOfSeq DEF ToSet

\* The next page is a page.
LEMMA HeadType ==
  ASSUME TypeOK, NEW j \in JobIds, task[j].pages # <<>>
  PROVE  /\ Head(task[j].pages) \in Page /\ Tail(task[j].pages) \in Seq(Page)
         /\ Len(task[j].pages) \in Nat \ {0}
         /\ DOMAIN task[j].pages = 1..Len(task[j].pages)
         /\ Head(task[j].pages) = task[j].pages[1]
         /\ Len(Tail(task[j].pages)) = Len(task[j].pages) - 1
         /\ DOMAIN Tail(task[j].pages) = 1..(Len(task[j].pages) - 1)
         /\ \A a \in 1..(Len(task[j].pages) - 1) : Tail(task[j].pages)[a] = task[j].pages[a + 1]
<1>1. task[j].pages \in Seq(Page)
  BY DEF TypeOK, Task
<1>2. Tail(task[j].pages) \in Seq(Page) /\ Head(task[j].pages) \in Page
  BY <1>1, HeadTailProperties
<1>3. Len(Tail(task[j].pages)) = Len(task[j].pages) - 1
  BY <1>1, HeadTailProperties
<1>4. Len(task[j].pages) \in Nat \ {0} /\ DOMAIN task[j].pages = 1..Len(task[j].pages)
  BY <1>1, EmptySeq, LenProperties
<1>5. DOMAIN Tail(task[j].pages) = 1..(Len(task[j].pages) - 1)
  BY <1>2, <1>3, LenProperties
<1>6. \A a \in 1..(Len(task[j].pages) - 1) : Tail(task[j].pages)[a] = task[j].pages[a + 1]
  BY <1>1, <1>3, HeadTailProperties
<1> QED BY <1>1, <1>2, <1>3, <1>4, <1>5, <1>6

\* Admission.
LEMMA AdmitTInv ==
  ASSUME RInv, TInv, NEW j \in JobIds, NEW chosen \in PageChoices, Admit(j, chosen)
  PROVE  TInv'
<1>1. frozen(chosen) \in Task /\ Len(chosen) \in Nat
  BY FrozenType, ChosenType, LenProperties DEF TInv
<1>2. /\ task' \in [JobIds -> Task] /\ task'[j] = frozen(chosen)
      /\ \A i \in JobIds \ {j} : task'[i] = task[i]
  <2> HIDE DEF frozen
  <2> QED BY <1>1 DEF Admit, TInv, TypeOK
<1>3. /\ pc' \in [JobIds -> Locations] /\ pc'[j] = "frozen"
      /\ \A i \in JobIds \ {j} : pc'[i] = pc[i]
  BY DEF Admit, TInv, TypeOK, Locations
<1>4. jobs' \in [JobIds -> Job]
  BY <1>1 DEF Admit, TInv, TypeOK, Job
<1>5. Others(j) /\ HasItsInputsAt(j)
  <2>1. task'[j].injection = injection
    BY <1>2 DEF frozen
  <2> QED BY <1>2, <1>3, <2>1 DEF Others, HasItsInputsAt, TInv, TypeOK
<1> QED
  BY <1>2, <1>3, <1>4, <1>5, OneJobTInv DEF Admit, results, TInv, TypeOK

\* What a page and its job's inputs make is a request, and its rows images.
LEMMA RequestType ==
  ASSUME TInv, NEW j \in JobIds, NEW page \in Page, NEW s \in snapshots, pc[j] \in Holding
  PROVE  [job |-> j, page |-> page.no, text |-> page.text,
          injection |-> task[j].injection, visual |-> task[j].visual,
          reference |-> s[2]] \in Request
<1>1. s[2] \in Nat
  <2>1. s[2] \in Contents \cup {0}
    BY DEF TInv, TypeOK
  <2>2. Contents \cup {0} \subseteq Nat
    BY ComicRenderAssumption
  <2> QED BY <2>1, <2>2
<1>2. task[j].visual \in Nat /\ task[j].injection \in Injections
  BY DEF TInv, TypeOK, Task, HasItsInputs
<1>3. page.no \in Pages /\ page.text \in Texts
  BY DEF Page
<1> QED BY <1>1, <1>2, <1>3 DEF Request

\* A file of the answer makes an image row.
LEMMA RowType ==
  ASSUME TInv, NEW j \in JobIds, NEW page \in Page, NEW asset \in Files, pc[j] \in Holding
  PROVE  [file |-> asset, text |-> page.text, injection |-> task[j].injection,
          visual |-> task[j].visual, board |-> task[j].board] \in Image
<1>1. /\ task[j].visual \in Nat /\ task[j].injection \in Injections
      /\ task[j].board \in Board
  BY DEF TInv, TypeOK, Task, HasItsInputs
<1>2. page.text \in Texts
  BY DEF Page
<1> QED BY <1>1, <1>2 DEF Image

\* The steps of a goroutine.
LEMMA GoroutineTInv ==
  ASSUME RInv, TInv, NEW j \in JobIds, Goroutine(j)
  PROVE  TInv'
<1> USE DEF Live, Terminal, Locations
<1> DEFINE Same == UNCHANGED <<inputs, process, edits>>
           Kept == images' \subseteq Image /\ disk' \subseteq Files /\ abandoned' \subseteq Files
                   /\ snapshots' \subseteq JobIds \X (Contents \cup {0})
                   /\ requests' \subseteq Request
<1>t. TypeOK
  BY DEF TInv
<1>k. /\ images \subseteq Image /\ disk \subseteq Files /\ abandoned \subseteq Files
      /\ snapshots \subseteq JobIds \X (Contents \cup {0}) /\ requests \subseteq Request
      /\ jobs \in [JobIds -> Job] /\ pc \in [JobIds -> Locations] /\ task \in [JobIds -> Task]
  BY <1>t DEF TypeOK
<1>1. CASE Materialize(j)
  <2>1. CASE End(j, "failed", "idle") /\ task' = [task EXCEPT ![j] = NoTask]
             /\ UNCHANGED snapshots
    <3>1. Kept /\ Same
      BY <1>1, <1>k, <2>1 DEF Materialize, results
    <3>2. Others(j) /\ HasItsInputsAt(j)
      BY <1>t, <2>1, EndType, ForgetType DEF Others, HasItsInputsAt, Holding, Working
    <3> QED BY <1>t, <2>1, <3>1, <3>2, EndType, ForgetType, OneJobTInv
  <2>2. CASE /\ task[j].reference # 0 => file = task[j].reference
             /\ snapshots' = snapshots \cup {<<j, task[j].reference>>}
             /\ Goto(j, "admitted") /\ UNCHANGED <<jobs, task>>
    <3>0. task[j].reference \in Contents \cup {0}
      BY <1>t, <2>2 DEF TypeOK
    <3>1. Kept /\ Same
      BY <1>1, <1>k, <2>2, <3>0 DEF Materialize, results
    <3>2. Others(j) /\ HasItsInputsAt(j)
      BY <1>1, <1>t, <2>2, GoType
      DEF Others, HasItsInputsAt, Holding, Working, TInv, HasItsInputs, Materialize
    <3> QED BY <1>t, <1>k, <2>2, <3>1, <3>2, GoType, OneJobTInv
  <2> QED BY <1>1, <2>1, <2>2 DEF Materialize
<1>2. CASE Start(j)
  <2>1. Kept /\ Same
    BY <1>2, <1>k DEF Start, results
  <2>2. CASE app = "closing"
    <3>1. Others(j) /\ HasItsInputsAt(j)
      BY <1>2, <1>t, <2>2, EndType, ForgetType
      DEF Start, Others, HasItsInputsAt, Holding, Working
    <3> QED BY <1>2, <1>t, <2>1, <2>2, <3>1, EndType, ForgetType, OneJobTInv DEF Start
  <2>3. CASE app # "closing"
    <3>1. Others(j) /\ HasItsInputsAt(j)
      BY <1>2, <1>t, <2>3, GoType
      DEF Start, Others, HasItsInputsAt, Holding, Working, TInv, HasItsInputs
    <3> QED BY <1>2, <1>t, <1>k, <2>1, <2>3, <3>1, GoType, OneJobTInv DEF Start
  <2> QED BY <2>2, <2>3
<1>3. CASE CheckContext(j)
  <2>1. Kept /\ Same /\ UNCHANGED task
    BY <1>3, <1>k DEF CheckContext, results
  <2>2. jobs' \in [JobIds -> Job] /\ pc' \in [JobIds -> Locations]
    BY <1>3, <1>t, <1>k, EndType, GoType DEF CheckContext
  <2>3. Others(j) /\ HasItsInputsAt(j)
    BY <1>3, <1>t, EndType, GoType
    DEF CheckContext, Others, HasItsInputsAt, Holding, Working, TInv, HasItsInputs
  <2> QED BY <1>k, <2>1, <2>2, <2>3, OneJobTInv
<1>4. CASE Submit(j)
  <2>1. images' \subseteq Image /\ disk' \subseteq Files /\ abandoned' \subseteq Files
        /\ snapshots' \subseteq JobIds \X (Contents \cup {0}) /\ Same /\ UNCHANGED task
        /\ pc[j] = "checked"
    BY <1>4, <1>k DEF Submit, results
  <2>2. requests' \subseteq Request
    <3>1. Head(task[j].pages) \in Page
      BY <1>t, <2>1, HeadType DEF TInv, HasItsInputs
    <3>2. pc[j] \in Holding
      BY <2>1 DEF Holding, Working
    <3> QED BY <1>4, <1>k, <3>1, <3>2, RequestType DEF Submit
  <2>3. jobs' \in [JobIds -> Job] /\ pc' \in [JobIds -> Locations]
    BY <1>4, <1>t, <1>k, EndType, GoType DEF Submit
  <2>4. Others(j) /\ HasItsInputsAt(j)
    BY <1>4, <1>t, EndType, GoType
    DEF Submit, Others, HasItsInputsAt, Holding, Working, TInv, HasItsInputs
  <2> QED BY <1>k, <2>1, <2>2, <2>3, <2>4, OneJobTInv
<1>5. CASE SaveAsset(j)
  <2>1. pc[j] = "calling" /\ UNCHANGED <<jobs, images, abandoned, snapshots, pc, requests>>
        /\ Same
    BY <1>5 DEF SaveAsset
  <2> DEFINE asset == <<j, Head(task[j].pages).no, Len(task[j].assets) + 1>>
  <2>2. task' = [task EXCEPT ![j].assets = Append(@, asset)] /\ disk' = disk \cup {asset}
        /\ Len(task[j].assets) < MaxAssets
    BY <1>5 DEF SaveAsset
  <2>3. Head(task[j].pages) \in Page /\ task[j].assets \in Seq(Files)
    BY <1>t, <1>k, <2>1, HeadType DEF TInv, HasItsInputs, Task
  <2>4. asset \in Files
    <3>1. Head(task[j].pages).no \in Pages /\ Len(task[j].assets) + 1 \in 1..MaxAssets
      BY <2>2, <2>3, LenProperties, ComicRenderAssumption DEF Page
    <3> QED BY <3>1 DEF Files
  <2> HIDE DEF asset
  <2>5. Append(task[j].assets, asset) \in Seq(Files)
    BY <2>3, <2>4, AppendProperties
  <2>6. task' \in [JobIds -> Task] /\ \A i \in JobIds \ {j} : task'[i] = task[i]
    BY <1>k, <2>2, <2>5 DEF Task
  <2>7. task'[j].pages = task[j].pages /\ task'[j].injection = task[j].injection
    BY <1>k, <2>2 DEF Task
  <2>8. Others(j) /\ HasItsInputsAt(j)
    BY <2>1, <2>6, <2>7 DEF Others, HasItsInputsAt, TInv, HasItsInputs
  <2> QED BY <1>k, <2>1, <2>2, <2>4, <2>6, <2>8, OneJobTInv
<1>6. CASE CallFails(j)
  <2>1. Kept /\ Same
    BY <1>6, <1>k, <1>t, AssetTypes DEF CallFails
  <2>2. jobs' \in [JobIds -> Job] /\ pc' \in [JobIds -> Locations] /\ pc'[j] = "leaving"
        /\ \A i \in JobIds \ {j} : pc'[i] = pc[i]
    BY <1>6, <1>t, EndType DEF CallFails
  <2>3. Others(j) /\ HasItsInputsAt(j)
    BY <1>6, <1>t, <2>2, DropType DEF CallFails, Others, HasItsInputsAt, Holding, Working
  <2> QED BY <1>6, <1>t, <2>1, <2>2, <2>3, DropType, OneJobTInv DEF CallFails
<1>7. CASE Returned(j)
  <2>1. Kept /\ Same /\ UNCHANGED <<task, jobs>> /\ pc[j] = "calling"
    BY <1>7, <1>k DEF Returned, results
  <2>2. pc' \in [JobIds -> Locations] /\ pc'[j] = "kept" /\ \A i \in JobIds \ {j} : pc'[i] = pc[i]
    BY <1>7, <1>t, GoType DEF Returned
  <2>3. Others(j) /\ HasItsInputsAt(j)
    BY <2>1, <2>2 DEF Others, HasItsInputsAt, Holding, Working, TInv, HasItsInputs
  <2> QED BY <1>k, <2>1, <2>2, <2>3, OneJobTInv
<1>8. CASE InsertRows(j)
  <2>1. pc[j] = "kept" /\ UNCHANGED <<disk, abandoned, snapshots, requests>> /\ Same
    BY <1>8 DEF InsertRows
  <2>2. Head(task[j].pages) \in Page /\ Tail(task[j].pages) \in Seq(Page)
    BY <1>t, <2>1, HeadType DEF TInv, HasItsInputs
  <2>3. images' \subseteq Image
    BY <1>8, <1>k, <1>t, <2>1, <2>2, RowType, AssetTypes DEF InsertRows, Holding, Working
  <2>4. jobs' \in [JobIds -> Job]
    <3>1. jobs' = [jobs EXCEPT ![j] = [jobs[j] EXCEPT !.done = @ + 1]]
      BY <1>8, <1>k DEF InsertRows, Job
    <3>2. [jobs[j] EXCEPT !.done = @ + 1] \in Job
      BY <1>k DEF Job
    <3> QED BY <1>k, <3>1, <3>2
  <2>5. pc' \in [JobIds -> Locations] /\ pc'[j] = "ready" /\ \A i \in JobIds \ {j} : pc'[i] = pc[i]
    BY <1>8, <1>t, GoType DEF InsertRows
  <2>6. task' \in [JobIds -> Task] /\ task'[j].injection = task[j].injection
        /\ \A i \in JobIds \ {j} : task'[i] = task[i]
    <3>1. <<>> \in Seq(Files)
      BY EmptySeq
    <3>2. task' = [task EXCEPT ![j] = [task[j] EXCEPT !.pages = Tail(@), !.assets = <<>>]]
      BY <1>8, <1>k DEF InsertRows, Task
    <3>3. [task[j] EXCEPT !.pages = Tail(@), !.assets = <<>>] \in Task
      BY <1>k, <2>2, <3>1 DEF Task
    <3> QED BY <1>k, <3>2, <3>3 DEF Task
  <2>7. Others(j) /\ HasItsInputsAt(j)
    BY <2>1, <2>5, <2>6 DEF Others, HasItsInputsAt, TInv, HasItsInputs, Holding, Working
  <2> QED BY <1>k, <2>1, <2>3, <2>4, <2>5, <2>6, <2>7, OneJobTInv
<1>9. CASE RemoveReferences(j)
  <2>1. Kept /\ Same /\ UNCHANGED <<task, jobs>>
    BY <1>9, <1>k DEF RemoveReferences, results, DropSnapshot
  <2>2. pc' \in [JobIds -> Locations] /\ pc'[j] = "done" /\ \A i \in JobIds \ {j} : pc'[i] = pc[i]
    BY <1>9, <1>t, GoType DEF RemoveReferences
  <2>3. Others(j) /\ HasItsInputsAt(j)
    BY <2>1, <2>2 DEF Others, HasItsInputsAt, Holding, Working
  <2> QED BY <1>k, <2>1, <2>2, <2>3, OneJobTInv
<1>10. CASE Finish(j)
  <2>1. Kept /\ Same /\ UNCHANGED task
    BY <1>10, <1>k DEF Finish, results
  <2>2. Others(j) /\ HasItsInputsAt(j)
    BY <1>10, <1>t, <2>1, EndType DEF Finish, Others, HasItsInputsAt, Holding, Working
  <2> QED BY <1>10, <1>t, <1>k, <2>1, <2>2, EndType, OneJobTInv DEF Finish
<1>11. CASE Leave(j)
  <2>1. Kept /\ Same /\ UNCHANGED jobs
    BY <1>11, <1>k DEF Leave, DropSnapshot
  <2>2. Others(j) /\ HasItsInputsAt(j)
    BY <1>11, <1>t, GoType, ForgetType DEF Leave, Others, HasItsInputsAt, Holding, Working
  <2> QED BY <1>11, <1>t, <1>k, <2>1, <2>2, GoType, ForgetType, OneJobTInv DEF Leave
<1>12. CASE Recovered(j)
  <2>1. Kept /\ Same /\ UNCHANGED task
    BY <1>12, <1>k DEF Recovered, results
  <2>2. Others(j) /\ HasItsInputsAt(j)
    BY <1>12, <1>t, <2>1, EndType DEF Recovered, Others, HasItsInputsAt, Holding, Working
  <2> QED BY <1>12, <1>t, <1>k, <2>1, <2>2, EndType, OneJobTInv DEF Recovered
<1> QED
  BY <1>1, <1>2, <1>3, <1>4, <1>5, <1>6, <1>7, <1>8, <1>9, <1>10, <1>11, <1>12 DEF Goroutine

\* Failures.
LEMMA FailureTInv ==
  ASSUME RInv, TInv, NEW j \in JobIds, Panic(j) \/ StorageFails(j) \/ LoseJob(j)
  PROVE  TInv'
<1> USE DEF Terminal, Locations
<1> DEFINE Same == UNCHANGED <<inputs, app, edits, images, disk, requests>>
           Kept == abandoned' \subseteq Files /\ snapshots' \subseteq snapshots
<1>t. TypeOK
  BY DEF TInv
<1>k. /\ images \subseteq Image /\ disk \subseteq Files /\ abandoned \subseteq Files
      /\ snapshots \subseteq JobIds \X (Contents \cup {0}) /\ requests \subseteq Request
      /\ jobs \in [JobIds -> Job] /\ pc \in [JobIds -> Locations] /\ task \in [JobIds -> Task]
      /\ lost \subseteq JobIds /\ ToSet(task[j].assets) \subseteq Files
  BY <1>t, AssetTypes DEF TypeOK
<1>1. CASE Panic(j)
  <2>1. Kept /\ Same /\ UNCHANGED <<jobs, lost>>
    BY <1>1, <1>k DEF Panic, DropSnapshot, process
  <2>2. Others(j) /\ HasItsInputsAt(j)
    BY <1>1, <1>t, GoType, ForgetType DEF Panic, Others, HasItsInputsAt, Holding, Working
  <2> QED
    BY <1>1, <1>t, <1>k, <2>1, <2>2, GoType, ForgetType, OneJobTInv DEF Panic, process
<1>2. CASE StorageFails(j)
  <2>1. Kept /\ Same /\ UNCHANGED <<task, lost>>
    BY <1>2, <1>k DEF StorageFails, results, process
  <2>2. Others(j) /\ HasItsInputsAt(j)
    BY <1>2, <1>t, <2>1, EndType DEF StorageFails, Others, HasItsInputsAt, Holding, Working
  <2> QED
    BY <1>2, <1>t, <1>k, <2>1, <2>2, EndType, OneJobTInv DEF StorageFails, process
<1>3. CASE LoseJob(j)
  <2>1. Kept /\ Same /\ UNCHANGED jobs /\ lost' \subseteq JobIds
    BY <1>3, <1>k DEF LoseJob
  <2>2. /\ pc' \in [JobIds -> Locations] /\ pc'[j] \in {"leaving", "idle"}
        /\ \A i \in JobIds \ {j} : pc'[i] = pc[i]
    BY <1>3, <1>t, GoType DEF LoseJob
  <2>3. task' = [task EXCEPT ![j] = NoTask] \/ UNCHANGED task
    <3>1. task' = [task EXCEPT ![j] = task[j]] => UNCHANGED task
      BY <1>k
    <3> QED BY <1>3, <3>1 DEF LoseJob
  <2>4. task' \in [JobIds -> Task] /\ \A i \in JobIds \ {j} : task'[i] = task[i]
    BY <1>t, <1>k, <2>3, ForgetType
  <2>5. TypeOK'
    BY <1>t, <1>k, <2>1, <2>2, <2>4 DEF TypeOK, inputs
  <2>6. HasItsInputs'
    BY <2>1, <2>2, <2>4 DEF TInv, HasItsInputs, Holding, Working, inputs
  <2> QED BY <2>5, <2>6 DEF TInv
<1> QED BY <1>1, <1>2, <1>3

\* The process.
LEMMA ProcessTInv ==
  ASSUME RInv, TInv, Close \/ Stop \/ Restart
  PROVE  TInv'
<1>t. TypeOK
  BY DEF TInv
<1>1. CASE Close
  BY <1>1 DEF Close, TInv, TypeOK, HasItsInputs, inputs, results
<1>2. CASE Stop
  <2>1. abandoned' \subseteq Files
    BY <1>2, <1>t, AssetTypes DEF Stop, TypeOK
  <2>2. task' \in [JobIds -> Task] /\ pc' \in [JobIds -> Locations]
    BY <1>2, NoTaskType DEF Stop, Locations
  <2>3. TypeOK'
    BY <1>2, <1>t, <2>1, <2>2 DEF Stop, TypeOK, inputs
  <2>4. HasItsInputs'
    BY <1>2 DEF Stop, HasItsInputs, Holding, Working
  <2> QED BY <2>3, <2>4 DEF TInv
<1>3. CASE Restart
  <2>1. jobs' \in [JobIds -> Job]
    BY <1>3, <1>t DEF Restart, TypeOK, Job, Terminal
  <2>2. TypeOK'
    BY <1>3, <1>t, <2>1 DEF Restart, TypeOK, results
  <2>3. HasItsInputs'
    BY <1>3 DEF Restart, TInv, HasItsInputs
  <2> QED BY <2>2, <2>3 DEF TInv
<1> QED BY <1>1, <1>2, <1>3

\* Every step keeps the types.
LEMMA NextTInv == RInv /\ TInv /\ [Next]_vars => TInv'
<1> SUFFICES ASSUME RInv, TInv, [Next]_vars PROVE TInv'
  OBVIOUS
<1>1. CASE UNCHANGED vars
  BY <1>1 DEF vars, inputs, results, process, TInv, TypeOK, HasItsInputs
<1> QED
  BY <1>1, UserTInv, AdmitTInv, GoroutineTInv, FailureTInv, ProcessTInv DEF Next

\* The types hold in every reachable state.
THEOREM RendersAreTyped == Spec => []TypeOK
<1>1. Spec => [](RInv /\ TInv)
  BY InitRInv, InitTInv, NextRInv, NextTInv, PTL DEF Spec
<1>2. TInv => TypeOK
  BY DEF TInv
<1> QED BY <1>1, <1>2, PTL

---------------------------------------------------------------------------
(* What was drawn: the proof.                                              *)

\* Nothing was drawn yet.
LEMMA InitDrawn == Init => DrawnInv
  BY DEF Init, DrawnInv, FolderHeld, BoardHeld, CallRequested, ImagesRequested, NoTask, Working

\* What a step of job j has to respect.
DrawnAt(j) ==
  /\ pc'[j] \in Working => <<j, task'[j].reference>> \in snapshots'
  /\ task'[j].board[1] = task'[j].reference
  /\ pc'[j] \in {"calling", "kept"} => requestFor(j, Head(task[j].pages))' \in requests'
  /\ \A i \in images' \ images : requestOf(i) \in requests'

\* Then the step keeps what was drawn.
LEMMA OneJobDrawn ==
  ASSUME DrawnInv, NEW j \in JobIds, Others(j), DrawnAt(j),
         \A s \in snapshots : s[1] # j => s \in snapshots', requests \subseteq requests'
  PROVE  DrawnInv'
<1>1. FolderHeld'
  BY DEF DrawnInv, FolderHeld, Others, DrawnAt
<1>2. BoardHeld'
  BY DEF DrawnInv, BoardHeld, Others, DrawnAt
<1>3. CallRequested'
  <2> SUFFICES ASSUME NEW i \in JobIds, pc'[i] \in {"calling", "kept"}
               PROVE  requestFor(i, Head(task[i].pages))' \in requests'
    BY DEF CallRequested
  <2>1. CASE i = j
    BY <2>1 DEF DrawnAt
  <2>2. CASE i # j
    BY <2>2 DEF DrawnInv, CallRequested, Others, requestFor
  <2> QED BY <2>1, <2>2
<1>4. ImagesRequested'
  BY DEF DrawnInv, ImagesRequested, DrawnAt
<1> QED BY <1>1, <1>2, <1>3, <1>4 DEF DrawnInv

\* A step after which the job works no more, and which draws nothing.
LEMMA RestsDrawn ==
  ASSUME DrawnInv, NEW j \in JobIds, Others(j), pc'[j] \notin Working,
         task'[j].board[1] = task'[j].reference, UNCHANGED <<images, requests>>,
         \A s \in snapshots : s[1] # j => s \in snapshots'
  PROVE  DrawnInv'
<1>1. DrawnAt(j)
  BY DEF DrawnAt, Working
<1> QED BY <1>1, OneJobDrawn

\* Admission freezes the saved digest of the reference with the board.
LEMMA AdmitDrawn ==
  ASSUME TInv, DrawnInv, NEW j \in JobIds, NEW chosen \in PageChoices, Admit(j, chosen)
  PROVE  DrawnInv'
<1>1. task'[j].board[1] = task'[j].reference /\ \A i \in JobIds \ {j} : task'[i] = task[i]
  BY DEF Admit, TInv, TypeOK, frozen, currentBoard
<1>2. pc'[j] = "frozen" /\ \A i \in JobIds \ {j} : pc'[i] = pc[i]
  BY DEF Admit, TInv, TypeOK
<1> QED BY <1>1, <1>2, RestsDrawn DEF Admit, results, Others, Working

\* The folder is made before the job works, the request is sent before its
\* images, and the rows say what the request said.
LEMMA GoroutineDrawn ==
  ASSUME TInv, AnswerHeld, DrawnInv, NEW j \in JobIds, Goroutine(j)
  PROVE  DrawnInv'
<1> USE DEF Live, Terminal, Locations
<1>t. TypeOK
  BY DEF TInv
<1>k. pc \in [JobIds -> Locations] /\ task \in [JobIds -> Task]
  BY <1>t DEF TypeOK
<1>b. task[j].board[1] = task[j].reference /\ NoTask.board[1] = NoTask.reference
  BY DEF DrawnInv, BoardHeld, NoTask
<1>1. CASE Materialize(j)
  <2>1. CASE End(j, "failed", "idle") /\ task' = [task EXCEPT ![j] = NoTask]
             /\ UNCHANGED snapshots
    BY <1>1, <1>t, <1>b, <2>1, EndType, ForgetType, RestsDrawn
    DEF Materialize, results, Others, Working
  <2>2. CASE /\ snapshots' = snapshots \cup {<<j, task[j].reference>>}
             /\ Goto(j, "admitted") /\ UNCHANGED <<jobs, task>>
    BY <1>1, <1>t, <1>b, <2>2, GoType, OneJobDrawn DEF Materialize, results, Others, DrawnAt
  <2> QED BY <1>1, <2>1, <2>2 DEF Materialize
<1>2. CASE Start(j)
  <2>1. CASE app = "closing"
    BY <1>2, <1>t, <1>b, <2>1, EndType, ForgetType, RestsDrawn
    DEF Start, results, Others, Working
  <2>2. CASE app # "closing"
    BY <1>2, <1>t, <1>b, <2>2, GoType, OneJobDrawn
    DEF Start, results, Others, DrawnAt, DrawnInv, FolderHeld, Working
  <2> QED BY <2>1, <2>2
<1>3. CASE CheckContext(j)
  <2>1. CASE app = "closing"
    BY <1>3, <1>t, <1>b, <2>1, EndType, RestsDrawn DEF CheckContext, results, Others, Working
  <2>2. CASE app # "closing"
    BY <1>3, <1>t, <1>b, <2>2, GoType, OneJobDrawn
    DEF CheckContext, results, Others, DrawnAt, DrawnInv, FolderHeld, Working
  <2> QED BY <2>1, <2>2
<1>4. CASE Submit(j)
  <2>1. CASE End(j, "failed", "leaving") /\ UNCHANGED requests
    BY <1>4, <1>t, <1>b, <2>1, EndType, RestsDrawn DEF Submit, results, Others, Working
  <2>2. CASE Goto(j, "calling") /\ UNCHANGED jobs /\ requests' = requests \cup
              {[job |-> j, page |-> Head(task[j].pages).no, text |-> Head(task[j].pages).text,
                injection |-> task[j].injection, visual |-> task[j].visual,
                reference |-> s[2]] : s \in {t \in snapshots : t[1] = j}}
    <3>1. <<j, task[j].reference>> \in snapshots /\ UNCHANGED <<task, snapshots, images>>
      BY <1>4 DEF Submit, results, DrawnInv, FolderHeld, Working
    <3>2. requestFor(j, Head(task[j].pages)) \in requests'
      BY <2>2, <3>1 DEF requestFor
    <3>3. pc'[j] = "calling" /\ Others(j)
      BY <1>t, <2>2, <3>1, GoType DEF Others
    <3>4. requestFor(j, Head(task[j].pages))' \in requests'
      BY <3>1, <3>2 DEF requestFor
    <3>5. DrawnAt(j)
      BY <1>b, <3>1, <3>3, <3>4 DEF DrawnAt
    <3> QED BY <2>2, <3>1, <3>3, <3>5, OneJobDrawn
  <2> QED BY <1>4, <2>1, <2>2 DEF Submit
<1>5. CASE SaveAsset(j)
  <2>1. UNCHANGED <<images, snapshots, pc, requests>> /\ pc[j] = "calling"
    BY <1>5 DEF SaveAsset
  <2>2. /\ \A i \in JobIds \ {j} : task'[i] = task[i]
        /\ task'[j].pages = task[j].pages /\ task'[j].injection = task[j].injection
        /\ task'[j].visual = task[j].visual /\ task'[j].reference = task[j].reference
        /\ task'[j].board = task[j].board
    BY <1>5, <1>k DEF SaveAsset, Task
  <2>3. requestFor(j, Head(task[j].pages))' \in requests'
    BY <2>1, <2>2 DEF requestFor, DrawnInv, CallRequested
  <2>4. DrawnAt(j)
    BY <1>b, <2>1, <2>2, <2>3 DEF DrawnAt, DrawnInv, FolderHeld
  <2> QED BY <2>1, <2>2, <2>4, OneJobDrawn DEF Others
<1>6. CASE CallFails(j)
  <2>1. pc'[j] = "leaving" /\ \A i \in JobIds \ {j} : pc'[i] = pc[i]
    BY <1>6, <1>t, EndType DEF CallFails
  <2>2. task'[j].board = task[j].board /\ task'[j].reference = task[j].reference
        /\ \A i \in JobIds \ {j} : task'[i] = task[i]
    BY <1>6, <1>k DEF CallFails, Task
  <2> QED BY <1>6, <1>b, <2>1, <2>2, RestsDrawn DEF CallFails, Others, Working
<1>7. CASE Returned(j)
  <2>1. UNCHANGED <<images, snapshots, requests, task>> /\ pc[j] = "calling" /\ pc'[j] = "kept"
        /\ Others(j)
    BY <1>7, <1>t, GoType DEF Returned, results, Others
  <2>2. requestFor(j, Head(task[j].pages))' \in requests'
    BY <2>1 DEF requestFor, DrawnInv, CallRequested
  <2>3. DrawnAt(j)
    BY <1>b, <2>1, <2>2 DEF DrawnAt, DrawnInv, FolderHeld, Working
  <2> QED BY <2>1, <2>3, OneJobDrawn
<1>8. CASE InsertRows(j)
  <2>1. UNCHANGED <<snapshots, requests>> /\ pc[j] = "kept" /\ pc'[j] = "ready"
        /\ \A i \in JobIds \ {j} : pc'[i] = pc[i]
    BY <1>8, <1>t, GoType DEF InsertRows
  <2>2. task'[j].board = task[j].board /\ task'[j].reference = task[j].reference
        /\ \A i \in JobIds \ {j} : task'[i] = task[i]
    BY <1>8, <1>k DEF InsertRows, Task
  <2>3. \A i \in images' \ images : requestOf(i) \in requests'
    <3>1. requestFor(j, Head(task[j].pages)) \in requests
      BY <2>1 DEF DrawnInv, CallRequested
    <3> SUFFICES ASSUME NEW asset \in ToSet(task[j].assets), NEW i,
                        i = [file |-> asset, text |-> Head(task[j].pages).text,
                             injection |-> task[j].injection, visual |-> task[j].visual,
                             board |-> task[j].board]
                 PROVE  requestOf(i) \in requests
      BY <1>8, <2>1 DEF InsertRows
    <3>2. asset[1] = j /\ asset[2] = Head(task[j].pages).no
      BY DEF AnswerHeld
    <3>3. requestOf(i) = requestFor(j, Head(task[j].pages))
      BY <1>b, <3>2 DEF requestOf, requestFor
    <3> QED BY <3>1, <3>3
  <2>4. DrawnAt(j)
    BY <1>b, <2>1, <2>2, <2>3 DEF DrawnAt, DrawnInv, FolderHeld, Working
  <2> QED BY <2>1, <2>2, <2>4, OneJobDrawn DEF Others
<1>9. CASE RemoveReferences(j)
  BY <1>9, <1>t, <1>b, GoType, RestsDrawn
  DEF RemoveReferences, DropSnapshot, results, Others, Working
<1>10. CASE Finish(j)
  BY <1>10, <1>t, <1>b, EndType, RestsDrawn DEF Finish, results, Others, Working
<1>11. CASE Leave(j)
  BY <1>11, <1>t, <1>b, GoType, ForgetType, RestsDrawn
  DEF Leave, DropSnapshot, Others, Working
<1>12. CASE Recovered(j)
  BY <1>12, <1>t, <1>b, EndType, RestsDrawn DEF Recovered, results, Others, Working
<1> QED
  BY <1>1, <1>2, <1>3, <1>4, <1>5, <1>6, <1>7, <1>8, <1>9, <1>10, <1>11, <1>12 DEF Goroutine

\* After a failure the job works no more.
LEMMA FailureDrawn ==
  ASSUME TInv, DrawnInv, NEW j \in JobIds, Panic(j) \/ StorageFails(j) \/ LoseJob(j)
  PROVE  DrawnInv'
<1> USE DEF Terminal, Locations
<1>t. TypeOK
  BY DEF TInv
<1>b. task[j].board[1] = task[j].reference /\ NoTask.board[1] = NoTask.reference
  BY DEF DrawnInv, BoardHeld, NoTask
<1>1. CASE Panic(j)
  BY <1>1, <1>t, <1>b, GoType, ForgetType, RestsDrawn
  DEF Panic, DropSnapshot, Others, Working
<1>2. CASE StorageFails(j)
  BY <1>2, <1>t, <1>b, EndType, RestsDrawn DEF StorageFails, results, Others, Working
<1>3. CASE LoseJob(j)
  <2>1. UNCHANGED <<images, snapshots, requests>> /\ pc'[j] \in {"leaving", "idle"}
        /\ \A i \in JobIds \ {j} : pc'[i] = pc[i]
    BY <1>3, <1>t, GoType DEF LoseJob
  <2>2. task' = [task EXCEPT ![j] = NoTask] \/ task' = [task EXCEPT ![j] = task[j]]
    BY <1>3 DEF LoseJob
  <2>3. task'[j].board[1] = task'[j].reference /\ \A i \in JobIds \ {j} : task'[i] = task[i]
    BY <1>t, <1>b, <2>2 DEF TypeOK
  <2> QED BY <2>1, <2>3, RestsDrawn DEF Others, Working
<1> QED BY <1>1, <1>2, <1>3

\* The process and the user draw nothing.
LEMMA AsideDrawn ==
  ASSUME RInv, TInv, DrawnInv, Close \/ Stop \/ Restart \/ User \/ UNCHANGED vars
  PROVE  DrawnInv'
<1>1. CASE Stop
  BY <1>1 DEF Stop, DrawnInv, FolderHeld, BoardHeld, CallRequested, ImagesRequested, NoTask,
              Working
<1>2. CASE Restart
  <2>1. \A j \in JobIds : pc[j] = "idle"
    BY <1>2 DEF Restart, RInv, Shapes, Attended
  <2> QED
    BY <1>2, <2>1 DEF Restart, results, DrawnInv, FolderHeld, BoardHeld, CallRequested,
                      ImagesRequested, Working
<1>3. CASE Close \/ User \/ UNCHANGED vars
  <2>1. UNCHANGED <<images, snapshots, pc, task, requests>>
    BY <1>3 DEF vars, Close, User, Edit, results, SavePage, EditUpstream, SaveInjection,
                SaveProfile, ReplaceFile
  <2> QED
    BY <2>1 DEF DrawnInv, FolderHeld, BoardHeld, CallRequested, ImagesRequested, requestFor,
                requestOf
<1> QED BY <1>1, <1>2, <1>3

\* Every step keeps what was drawn.
LEMMA NextDrawn == RInv /\ TInv /\ AnswerHeld /\ DrawnInv /\ [Next]_vars => DrawnInv'
  BY AdmitDrawn, GoroutineDrawn, FailureDrawn, AsideDrawn DEF Next

---------------------------------------------------------------------------
(* Files and progress: the proof.                                          *)

\* The set of a sequence.
LEMMA ToSetEmpty == ToSet(<<>>) = {}
  BY DEF ToSet

\* A sequence that is not empty has an element.
LEMMA ToSetSome ==
  ASSUME NEW S, NEW s \in Seq(S), s # <<>>
  PROVE  \E f \in S : f \in ToSet(s)
<1>1. Len(s) \in Nat \ {0} /\ DOMAIN s = 1..Len(s)
  BY EmptySeq, LenProperties
<1>2. s[1] \in S /\ 1 \in DOMAIN s
  BY <1>1, ElementOfSeq
<1> QED BY <1>2 DEF ToSet

\* Appending adds one.
LEMMA ToSetAppend ==
  ASSUME NEW S, NEW s \in Seq(S), NEW e \in S
  PROVE  ToSet(Append(s, e)) = ToSet(s) \cup {e}
<1>1. /\ Len(s) \in Nat /\ DOMAIN s = 1..Len(s)
      /\ DOMAIN Append(s, e) = 1..(Len(s) + 1)
      /\ \A i \in 1..Len(s) : Append(s, e)[i] = s[i]
      /\ Append(s, e)[Len(s) + 1] = e
  BY LenProperties, AppendProperties
<1> QED BY <1>1 DEF ToSet

\* The invariant at job j, after a step.
AnswerHeldAt(j) ==
  /\ pc'[j] = "kept" => task'[j].assets # <<>>
  /\ task'[j].assets # <<>> =>
       pc'[j] \in {"calling", "kept", "leaving"} /\ task'[j].pages # <<>>
  /\ \A f \in ToSet(task'[j].assets) :
       f \in disk' /\ f[1] = j /\ f[2] = Head(task'[j].pages).no
PagesLeftAt(j) ==
  /\ \A a, b \in DOMAIN task'[j].pages : a < b => task'[j].pages[a].no < task'[j].pages[b].no
  /\ \A a \in DOMAIN task'[j].pages : task'[j].pages[a].no \notin PagesOf(j)'
CountedAt(j) ==
  /\ IsFiniteSet(PagesOf(j)') /\ jobs'[j].done = Cardinality(PagesOf(j)')
  /\ pc'[j] \in Holding \cup {"done"} =>
       jobs'[j].done + Len(task'[j].pages) = jobs'[j].total
  /\ pc'[j] = "done" => task'[j].pages = <<>>
  /\ jobs'[j].status = "succeeded" => jobs'[j].done = jobs'[j].total

\* A step of one job touches only its own files, rows and row.
LEMMA OneJobFiles ==
  ASSUME TInv, FilesInv, NEW j \in JobIds, Others(j), \A i \in JobIds \ {j} : jobs'[i] = jobs[i],
         \A f \in disk : f[1] # j => f \in disk',
         images \subseteq images', \A i \in images' \ images : i.file[1] = j,
         FilesTracked', ImagesThere', AnswerHeldAt(j), PagesLeftAt(j), CountedAt(j)
  PROVE  FilesInv'
<1>1. \A i \in JobIds \ {j} : PagesOf(i)' = PagesOf(i)
  BY DEF PagesOf
<1>2. AnswerHeld'
  <2> SUFFICES ASSUME NEW i \in JobIds
               PROVE  /\ pc'[i] = "kept" => task'[i].assets # <<>>
                      /\ task'[i].assets # <<>> =>
                           pc'[i] \in {"calling", "kept", "leaving"} /\ task'[i].pages # <<>>
                      /\ \A f \in ToSet(task'[i].assets) :
                           f \in disk' /\ f[1] = i /\ f[2] = Head(task'[i].pages).no
    BY DEF AnswerHeld
  <2>1. CASE i = j
    BY <2>1 DEF AnswerHeldAt
  <2>2. CASE i # j
    BY <2>2 DEF FilesInv, AnswerHeld, Others
  <2> QED BY <2>1, <2>2
<1>3. PagesLeft'
  <2> SUFFICES ASSUME NEW i \in JobIds
               PROVE  /\ \A a, b \in DOMAIN task'[i].pages :
                           a < b => task'[i].pages[a].no < task'[i].pages[b].no
                      /\ \A a \in DOMAIN task'[i].pages : task'[i].pages[a].no \notin PagesOf(i)'
    BY DEF PagesLeft
  <2>1. CASE i = j
    BY <2>1 DEF PagesLeftAt
  <2>2. CASE i # j
    BY <1>1, <2>2 DEF FilesInv, PagesLeft, Others
  <2> QED BY <2>1, <2>2
<1>4. Counted'
  <2> SUFFICES ASSUME NEW i \in JobIds
               PROVE  /\ IsFiniteSet(PagesOf(i)') /\ jobs'[i].done = Cardinality(PagesOf(i)')
                      /\ pc'[i] \in Holding \cup {"done"} =>
                           jobs'[i].done + Len(task'[i].pages) = jobs'[i].total
                      /\ pc'[i] = "done" => task'[i].pages = <<>>
                      /\ jobs'[i].status = "succeeded" => jobs'[i].done = jobs'[i].total
    BY DEF Counted
  <2>1. CASE i = j
    BY <2>1 DEF CountedAt
  <2>2. CASE i # j
    <3>1. PagesOf(i)' = PagesOf(i) /\ jobs'[i] = jobs[i] /\ pc'[i] = pc[i] /\ task'[i] = task[i]
      BY <1>1, <2>2 DEF Others
    <3> QED BY <3>1 DEF FilesInv, Counted
  <2> QED BY <2>1, <2>2
<1> QED BY <1>2, <1>3, <1>4 DEF FilesInv

\* How the local variables of a job change in a step that writes no file and
\* no row: the pages stay, or all is dropped, and an answer is dropped only
\* when its files are abandoned.
Drops(j) ==
  /\ task'[j].pages = task[j].pages \/ task'[j].pages = <<>>
  /\ \/ task'[j].assets = task[j].assets /\ task'[j].pages = task[j].pages
     \/ task'[j].assets = <<>> /\ ToSet(task[j].assets) \subseteq abandoned'

\* How its place and row change in such a step.
GoesOn(j) ==
  /\ pc'[j] = "kept" => task'[j].assets # <<>>
  /\ task'[j].assets # <<>> => pc'[j] \in {"calling", "kept", "leaving"}
  /\ pc'[j] \in Holding \cup {"done"} =>
       pc[j] \in Holding \cup {"done"} /\ task'[j].pages = task[j].pages
  /\ pc'[j] = "done" => task[j].pages = <<>>
  /\ jobs'[j].done = jobs[j].done /\ jobs'[j].total = jobs[j].total
  /\ jobs'[j].status = "succeeded" => jobs[j].status = "succeeded" \/ pc[j] = "done"
  /\ jobs'[j].status = "none" => jobs[j].status = "none"

\* Such a step leaves files, rows and progress as they are.
LEMMA QuietFiles ==
  ASSUME TInv, FilesInv, NEW j \in JobIds, Others(j), \A i \in JobIds \ {j} : jobs'[i] = jobs[i],
         UNCHANGED <<images, disk>>, abandoned \subseteq abandoned', Drops(j), GoesOn(j)
  PROVE  FilesInv'
<1>1. PagesOf(j)' = PagesOf(j)
  BY DEF PagesOf
<1>2. task'[j].assets # <<>> => task'[j].pages = task[j].pages /\ task'[j].assets = task[j].assets
  BY DEF Drops
<1>3. AnswerHeldAt(j)
  <2>1. task'[j].assets # <<>> =>
          pc'[j] \in {"calling", "kept", "leaving"} /\ task'[j].pages # <<>>
    BY <1>2 DEF GoesOn, FilesInv, AnswerHeld
  <2>2. \A f \in ToSet(task'[j].assets) :
          f \in disk' /\ f[1] = j /\ f[2] = Head(task'[j].pages).no
    BY <1>2, ToSetEmpty DEF FilesInv, AnswerHeld
  <2> QED BY <2>1, <2>2 DEF AnswerHeldAt, GoesOn
<1>4. PagesLeftAt(j)
  <2>1. DOMAIN <<>> = {}
    OBVIOUS
  <2>2. CASE task'[j].pages = task[j].pages
    BY <1>1, <2>2 DEF PagesLeftAt, FilesInv, PagesLeft
  <2>3. CASE task'[j].pages = <<>>
    BY <2>1, <2>3 DEF PagesLeftAt
  <2> QED BY <2>2, <2>3 DEF Drops
<1>5. CountedAt(j)
  <2>1. pc[j] = "done" => jobs[j].done = jobs[j].total
    <3>1. jobs[j].done \in Nat
      BY DEF TInv, TypeOK, Job
    <3>2. Len(<<>>) = 0
      OBVIOUS
    <3> QED BY <3>1, <3>2 DEF FilesInv, Counted
  <2> QED BY <1>1, <2>1 DEF CountedAt, GoesOn, FilesInv, Counted
<1>6. FilesTracked'
  <2> SUFFICES ASSUME NEW f \in disk \ abandoned', \A i \in images : i.file # f
               PROVE  \E i \in JobIds : f \in ToSet(task'[i].assets)
    BY DEF FilesTracked
  <2>1. PICK i \in JobIds : f \in ToSet(task[i].assets)
    BY DEF FilesInv, FilesTracked
  <2>2. CASE i = j
    BY <2>1, <2>2 DEF Drops
  <2>3. CASE i # j
    BY <2>1, <2>3 DEF Others
  <2> QED BY <2>2, <2>3
<1>7. ImagesThere'
  <2>1. \A i \in images : i.file[1] \in JobIds
    BY DEF TInv, TypeOK, Image, Files
  <2> QED BY <2>1 DEF FilesInv, ImagesThere, GoesOn
<1> QED BY <1>3, <1>4, <1>5, <1>6, <1>7, OneJobFiles

\* Nothing is there yet.
LEMMA InitFiles == Init => FilesInv
<1> SUFFICES ASSUME Init PROVE FilesInv
  OBVIOUS
<1>1. \A j \in JobIds : PagesOf(j) = {}
  BY DEF Init, PagesOf
<1>2. /\ \A j \in JobIds : task[j] = NoTask /\ jobs[j] = NoJob /\ pc[j] = "idle"
      /\ images = {} /\ disk = {}
  BY DEF Init
<1>3. DOMAIN <<>> = {} /\ ToSet(<<>>) = {}
  BY ToSetEmpty
<1>4. AnswerHeld /\ FilesTracked /\ ImagesThere /\ PagesLeft
  BY <1>1, <1>2, <1>3 DEF AnswerHeld, FilesTracked, ImagesThere, PagesLeft, NoTask
<1>5. Counted
  <2>1. IsFiniteSet({}) /\ Cardinality({}) = 0
    BY FS_EmptySet
  <2>2. \A j \in JobIds : jobs[j].done = 0 /\ jobs[j].status = "none" /\ pc[j] = "idle"
    BY <1>2 DEF NoJob
  <2> QED BY <1>1, <2>1, <2>2 DEF Counted, Holding, Working
<1> QED BY <1>4, <1>5 DEF FilesInv

\* A job is admitted with its pages in order, none of them drawn.
LEMMA AdmitFiles ==
  ASSUME RInv, TInv, FilesInv, NEW j \in JobIds, NEW chosen \in PageChoices, Admit(j, chosen)
  PROVE  FilesInv'
<1>1. /\ frozenPages(chosen) \in Seq(Page) /\ Len(frozenPages(chosen)) = Len(chosen)
      /\ DOMAIN frozenPages(chosen) = DOMAIN chosen
      /\ \A a \in DOMAIN chosen : frozenPages(chosen)[a].no = chosen[a]
      /\ \A a, b \in DOMAIN chosen : a < b => chosen[a] < chosen[b]
  <2>1. /\ frozenPages(chosen) \in Seq(Page) /\ Len(frozenPages(chosen)) = Len(chosen)
        /\ DOMAIN frozenPages(chosen) = DOMAIN chosen
    BY FrozenType DEF TInv
  <2>2. \A a \in DOMAIN chosen : frozenPages(chosen)[a].no = chosen[a]
    BY DEF frozenPages
  <2>3. \A a, b \in DOMAIN chosen : a < b => chosen[a] < chosen[b]
    BY ChosenType
  <2> QED BY <2>1, <2>2, <2>3
<1>2. /\ task'[j].pages = frozenPages(chosen) /\ task'[j].assets = <<>>
      /\ \A i \in JobIds \ {j} : task'[i] = task[i]
  BY DEF Admit, TInv, TypeOK, frozen
<1>3. /\ pc'[j] = "frozen" /\ \A i \in JobIds \ {j} : pc'[i] = pc[i]
      /\ jobs[j].status = "none" /\ jobs'[j].status = "running"
      /\ jobs'[j].done = 0 /\ jobs'[j].total = Len(chosen)
      /\ \A i \in JobIds \ {j} : jobs'[i] = jobs[i]
      /\ UNCHANGED <<images, disk, abandoned>>
  BY DEF Admit, TInv, TypeOK, results
<1>4. PagesOf(j) = {} /\ PagesOf(j)' = {}
  BY <1>3 DEF PagesOf, FilesInv, ImagesThere
<1>5. AnswerHeldAt(j)
  BY <1>2, <1>3, ToSetEmpty DEF AnswerHeldAt
<1>6. PagesLeftAt(j)
  BY <1>1, <1>2, <1>4 DEF PagesLeftAt
<1>7. CountedAt(j)
  <2>1. IsFiniteSet({}) /\ Cardinality({}) = 0
    BY FS_EmptySet
  <2>2. Len(chosen) \in Nat
    BY ChosenType, LenProperties
  <2> QED BY <1>1, <1>2, <1>3, <1>4, <2>1, <2>2 DEF CountedAt
<1>8. FilesTracked'
  <2>1. pc[j] = "idle"
    BY <1>3, UnderWay
  <2>2. ToSet(task[j].assets) = {}
    BY <2>1, ToSetEmpty DEF FilesInv, AnswerHeld
  <2> QED BY <1>2, <1>3, <2>2 DEF FilesInv, FilesTracked
<1>9. ImagesThere'
  BY <1>3 DEF TInv, TypeOK, Image, Files, FilesInv, ImagesThere
<1> QED
  BY <1>2, <1>3, <1>5, <1>6, <1>7, <1>8, <1>9, OneJobFiles DEF Others

\* The provider client writes an image into the answer.
LEMMA SaveAssetFiles ==
  ASSUME TInv, FilesInv, NEW j \in JobIds, SaveAsset(j)
  PROVE  FilesInv'
<1> DEFINE asset == <<j, Head(task[j].pages).no, Len(task[j].assets) + 1>>
<1>1. /\ pc[j] = "calling" /\ UNCHANGED <<jobs, images, abandoned, pc>>
      /\ disk' = disk \cup {asset} /\ Len(task[j].assets) < MaxAssets
      /\ task' = [task EXCEPT ![j].assets = Append(@, asset)]
  BY DEF SaveAsset, Live
<1>2. Head(task[j].pages) \in Page /\ task[j].assets \in Seq(Files) /\ task[j].pages # <<>>
  BY <1>1, HeadType DEF TInv, TypeOK, HasItsInputs, Task
<1>3. asset \in Files
  <2>1. Head(task[j].pages).no \in Pages /\ Len(task[j].assets) + 1 \in 1..MaxAssets
    BY <1>1, <1>2, LenProperties, ComicRenderAssumption DEF Page
  <2> QED BY <2>1 DEF Files
<1>4. /\ task'[j].pages = task[j].pages /\ task'[j].assets = Append(task[j].assets, asset)
      /\ \A i \in JobIds \ {j} : task'[i] = task[i]
  BY <1>1 DEF TInv, TypeOK, Task
<1>a. asset[1] = j /\ asset[2] = Head(task[j].pages).no
  OBVIOUS
<1> HIDE DEF asset
<1>5. ToSet(task'[j].assets) = ToSet(task[j].assets) \cup {asset}
  BY <1>2, <1>3, <1>4, ToSetAppend
<1>6. AnswerHeldAt(j)
  BY <1>1, <1>2, <1>4, <1>5, <1>a DEF AnswerHeldAt, FilesInv, AnswerHeld
<1>7. PagesOf(j)' = PagesOf(j)
  BY <1>1 DEF PagesOf
<1>8. PagesLeftAt(j) /\ CountedAt(j)
  BY <1>1, <1>4, <1>7 DEF PagesLeftAt, CountedAt, FilesInv, PagesLeft, Counted
<1>9. FilesTracked'
  <2> SUFFICES ASSUME NEW f \in disk', f \notin abandoned, \A i \in images : i.file # f
               PROVE  \E i \in JobIds : f \in ToSet(task'[i].assets)
    BY <1>1 DEF FilesTracked
  <2>1. CASE f = asset
    BY <1>5, <2>1
  <2>2. CASE f # asset
    <3>1. PICK i \in JobIds : f \in ToSet(task[i].assets)
      BY <1>1, <2>2 DEF FilesInv, FilesTracked
    <3> QED BY <1>4, <1>5, <3>1
  <2> QED BY <2>1, <2>2
<1>10. ImagesThere'
  BY <1>1 DEF FilesInv, ImagesThere
<1> QED
  BY <1>1, <1>4, <1>6, <1>8, <1>9, <1>10, OneJobFiles DEF Others

\* The rows of an answer are inserted and its page counted.
LEMMA InsertRowsFiles ==
  ASSUME RInv, TInv, FilesInv, NEW j \in JobIds, InsertRows(j)
  PROVE  FilesInv'
<1> DEFINE row(asset) == [file |-> asset, text |-> Head(task[j].pages).text,
                          injection |-> task[j].injection, visual |-> task[j].visual,
                          board |-> task[j].board]
           page == Head(task[j].pages).no
<1>1. /\ pc[j] = "kept" /\ UNCHANGED <<disk, abandoned>>
      /\ images' = images \cup {row(asset) : asset \in ToSet(task[j].assets)}
      /\ jobs' = [jobs EXCEPT ![j].done = @ + 1]
      /\ task' = [task EXCEPT ![j].pages = Tail(@), ![j].assets = <<>>]
      /\ pc' = [pc EXCEPT ![j] = "ready"]
  BY DEF InsertRows, Live, Goto
<1>2. task[j].pages # <<>> /\ task[j].assets # <<>>
  BY <1>1 DEF TInv, HasItsInputs, FilesInv, AnswerHeld
<1>3. /\ task'[j].pages = Tail(task[j].pages) /\ task'[j].assets = <<>>
      /\ \A i \in JobIds \ {j} : task'[i] = task[i]
  BY <1>1 DEF TInv, TypeOK, Task
<1>4. /\ pc'[j] = "ready" /\ \A i \in JobIds \ {j} : pc'[i] = pc[i]
      /\ \A i \in JobIds \ {j} : jobs'[i] = jobs[i]
      /\ jobs'[j].done = jobs[j].done + 1 /\ jobs'[j].total = jobs[j].total
      /\ jobs'[j].status = jobs[j].status /\ jobs[j].status = "running"
  <2>1. jobs \in [JobIds -> Job] /\ pc \in [JobIds -> Locations]
    BY DEF TInv, TypeOK
  <2>2. jobs[j].status = "running"
    BY <1>1, UnderWay
  <2>3. /\ \A i \in JobIds \ {j} : jobs'[i] = jobs[i]
        /\ jobs'[j].done = jobs[j].done + 1 /\ jobs'[j].total = jobs[j].total
        /\ jobs'[j].status = jobs[j].status
    BY <1>1, <2>1 DEF Job
  <2> QED BY <1>1, <2>1, <2>2, <2>3
<1>5. \A f \in ToSet(task[j].assets) : f \in disk /\ f[1] = j /\ f[2] = page
  BY DEF FilesInv, AnswerHeld
<1>6. \A i \in images' \ images : i.file \in ToSet(task[j].assets)
  BY <1>1
<1>7. PagesOf(j)' = PagesOf(j) \cup {page}
  <2>1. PICK f : f \in ToSet(task[j].assets)
    BY <1>2, ToSetSome DEF TInv, TypeOK, Task
  <2>2. row(f) \in images' /\ row(f).file[1] = j /\ row(f).file[2] = page
    BY <1>1, <1>5, <2>1
  <2>3. page \in PagesOf(j)'
    BY <2>2, Zenon DEF PagesOf
  <2>4. PagesOf(j) \subseteq PagesOf(j)'
    BY <1>1 DEF PagesOf
  <2>5. PagesOf(j)' \subseteq PagesOf(j) \cup {page}
    BY <1>1, <1>5, <1>6 DEF PagesOf
  <2> QED BY <2>3, <2>4, <2>5
<1>8. /\ Len(task[j].pages) \in Nat \ {0} /\ DOMAIN task[j].pages = 1..Len(task[j].pages)
      /\ page = task[j].pages[1].no
      /\ Len(task'[j].pages) = Len(task[j].pages) - 1
      /\ DOMAIN task'[j].pages = 1..(Len(task[j].pages) - 1)
      /\ \A a \in 1..(Len(task[j].pages) - 1) : task'[j].pages[a] = task[j].pages[a + 1]
  BY <1>2, <1>3, HeadType DEF TInv
<1>9. AnswerHeldAt(j)
  BY <1>3, <1>4, ToSetEmpty DEF AnswerHeldAt
<1>10. PagesLeftAt(j)
  <2>1. \A a, b \in DOMAIN task[j].pages : a < b => task[j].pages[a].no < task[j].pages[b].no
    BY DEF FilesInv, PagesLeft
  <2>2. \A a \in DOMAIN task[j].pages : task[j].pages[a].no \notin PagesOf(j)
    BY DEF FilesInv, PagesLeft
  <2>3. \A a \in DOMAIN task[j].pages : task[j].pages[a].no \in Nat
    <3> SUFFICES ASSUME NEW a \in 1..Len(task[j].pages) PROVE task[j].pages[a].no \in Nat
      BY <1>8
    <3>1. task[j].pages \in Seq(Page)
      BY DEF TInv, TypeOK, Task
    <3>2. task[j].pages[a] \in Page
      BY <3>1, ElementOfSeq
    <3>3. Pages \subseteq Nat
      BY ComicRenderAssumption
    <3> QED BY <3>2, <3>3 DEF Page
  <2> HIDE DEF page
  <2>4. \A a, b \in DOMAIN task'[j].pages : a < b => task'[j].pages[a].no < task'[j].pages[b].no
    <3> SUFFICES ASSUME NEW a \in 1..(Len(task[j].pages) - 1),
                        NEW b \in 1..(Len(task[j].pages) - 1), a < b
                 PROVE  task'[j].pages[a].no < task'[j].pages[b].no
      BY <1>8
    <3>1. a + 1 \in DOMAIN task[j].pages /\ b + 1 \in DOMAIN task[j].pages /\ a + 1 < b + 1
      BY <1>8
    <3>2. task[j].pages[a + 1].no < task[j].pages[b + 1].no
      BY <2>1, <3>1
    <3>3. task'[j].pages[a] = task[j].pages[a + 1] /\ task'[j].pages[b] = task[j].pages[b + 1]
      BY <1>8
    <3> QED BY <3>2, <3>3
  <2>5. \A a \in DOMAIN task'[j].pages : task'[j].pages[a].no \notin PagesOf(j)'
    <3> SUFFICES ASSUME NEW a \in 1..(Len(task[j].pages) - 1)
                 PROVE  task[j].pages[a + 1].no \notin PagesOf(j) \cup {page}
      BY <1>7, <1>8
    <3>1. a + 1 \in DOMAIN task[j].pages /\ 1 \in DOMAIN task[j].pages /\ 1 < a + 1
      BY <1>8
    <3>2. task[j].pages[1].no < task[j].pages[a + 1].no
      BY <2>1, <3>1
    <3> QED BY <1>8, <2>2, <2>3, <3>1, <3>2
  <2> QED BY <2>4, <2>5 DEF PagesLeftAt
<1>11. CountedAt(j)
  <2>1. page \notin PagesOf(j)
    <3>1. 1 \in DOMAIN task[j].pages
      BY <1>8
    <3> QED BY <1>8, <3>1 DEF FilesInv, PagesLeft
  <2>2. IsFiniteSet(PagesOf(j)) /\ jobs[j].done = Cardinality(PagesOf(j))
    BY DEF FilesInv, Counted
  <2> HIDE DEF page
  <2>3. IsFiniteSet(PagesOf(j)') /\ Cardinality(PagesOf(j)') = Cardinality(PagesOf(j)) + 1
    BY <1>7, <2>1, <2>2, FS_AddElement
  <2>4. jobs[j].done + Len(task[j].pages) = jobs[j].total /\ jobs[j].done \in Nat
    BY <1>1 DEF FilesInv, Counted, TInv, TypeOK, Job, Holding, Working
  <2> QED BY <1>4, <1>8, <2>2, <2>3, <2>4 DEF CountedAt
<1>12. FilesTracked'
  <2> SUFFICES ASSUME NEW f \in disk, f \notin abandoned, \A i \in images' : i.file # f
               PROVE  \E i \in JobIds : f \in ToSet(task'[i].assets)
    BY <1>1 DEF FilesTracked
  <2>1. PICK i \in JobIds : f \in ToSet(task[i].assets)
    BY <1>1 DEF FilesInv, FilesTracked
  <2>2. i # j
    <3>1. \A asset \in ToSet(task[j].assets) : row(asset) \in images' /\ row(asset).file = asset
      BY <1>1
    <3> QED BY <2>1, <3>1
  <2> QED BY <1>3, <2>1, <2>2
<1>13. ImagesThere'
  <2> SUFFICES ASSUME NEW i \in images'
               PROVE  i.file \in disk /\ jobs'[i.file[1]].status # "none"
    BY <1>1 DEF ImagesThere
  <2>1. CASE i \in images
    BY <1>4, <2>1 DEF FilesInv, ImagesThere, TInv, TypeOK, Image, Files
  <2>2. CASE i \notin images
    BY <1>4, <1>5, <1>6, <2>2
  <2> QED BY <2>1, <2>2
<1> QED
  BY <1>1, <1>3, <1>4, <1>5, <1>6, <1>9, <1>10, <1>11, <1>12, <1>13, OneJobFiles DEF Others

\* runRender returns and removes the files that have no rows.
LEMMA LeaveFilesInv ==
  ASSUME TInv, FilesInv, NEW j \in JobIds, Leave(j)
  PROVE  FilesInv'
<1>1. /\ pc[j] = "leaving" /\ UNCHANGED <<jobs, images, abandoned>>
      /\ disk' = disk \ ToSet(task[j].assets)
      /\ task'[j] = NoTask /\ pc'[j] = "idle" /\ Others(j)
  BY GoType, ForgetType DEF Leave, Live, Others, TInv, Locations
<1>2. \A f \in ToSet(task[j].assets) : f[1] = j
  BY DEF FilesInv, AnswerHeld
<1>3. \A i \in images : i.file \notin ToSet(task[j].assets)
  <2> SUFFICES ASSUME NEW i \in images, i.file \in ToSet(task[j].assets) PROVE FALSE
    OBVIOUS
  <2>1. task[j].assets # <<>>
    BY ToSetEmpty
  <2>2. task[j].pages # <<>> /\ i.file[1] = j /\ i.file[2] = Head(task[j].pages).no
    BY <2>1 DEF FilesInv, AnswerHeld
  <2>3. 1 \in DOMAIN task[j].pages /\ Head(task[j].pages) = task[j].pages[1]
    BY <2>2, HeadType DEF TInv
  <2>4. i.file[2] \in PagesOf(j)
    BY <2>2 DEF PagesOf
  <2> QED BY <2>2, <2>3, <2>4 DEF FilesInv, PagesLeft
<1>4. ImagesThere'
  BY <1>1, <1>3 DEF FilesInv, ImagesThere
<1>5. FilesTracked'
  BY <1>1 DEF FilesInv, FilesTracked, Others
<1>6. PagesOf(j)' = PagesOf(j)
  BY <1>1 DEF PagesOf
<1>7. AnswerHeldAt(j)
  BY <1>1, ToSetEmpty DEF AnswerHeldAt, NoTask
<1>8. PagesLeftAt(j)
  <2>1. DOMAIN <<>> = {}
    OBVIOUS
  <2> QED BY <1>1, <2>1 DEF PagesLeftAt, NoTask
<1>9. CountedAt(j)
  BY <1>1, <1>6 DEF CountedAt, FilesInv, Counted, Holding, Working
<1> QED
  BY <1>1, <1>2, <1>4, <1>5, <1>7, <1>8, <1>9, OneJobFiles

\* The other steps of a goroutine write no file and no row.
LEMMA GoroutineFiles ==
  ASSUME RInv, TInv, FilesInv, NEW j \in JobIds, Goroutine(j)
  PROVE  FilesInv'
<1> USE DEF Live, Terminal, Locations
<1>t. TypeOK
  BY DEF TInv
<1>a. /\ task[j].assets # <<>> => pc[j] \in {"calling", "kept", "leaving"}
      /\ pc[j] = "kept" => task[j].assets # <<>>
      /\ pc[j] = "done" => task[j].pages = <<>>
      /\ ToSet(<<>>) = {} /\ NoTask.pages = <<>> /\ NoTask.assets = <<>>
      /\ \A i \in JobIds \ {j} : UNCHANGED jobs => jobs'[i] = jobs[i]
  BY ToSetEmpty DEF FilesInv, AnswerHeld, Counted, NoTask
<1>1. CASE Materialize(j)
  <2>1. pc[j] = "frozen" /\ UNCHANGED <<images, disk, abandoned>>
    BY <1>1 DEF Materialize, results
  <2>2. CASE End(j, "failed", "idle") /\ task' = [task EXCEPT ![j] = NoTask]
    BY <1>t, <1>a, <2>1, <2>2, EndType, ForgetType, UnderWay, QuietFiles
    DEF Others, Drops, GoesOn, Holding, Working
  <2>3. CASE Goto(j, "admitted") /\ UNCHANGED <<jobs, task>>
    BY <1>t, <1>a, <2>1, <2>3, GoType, QuietFiles DEF Others, Drops, GoesOn, Holding, Working
  <2> QED BY <1>1, <2>2, <2>3 DEF Materialize
<1>2. CASE Start(j)
  <2>1. pc[j] = "admitted" /\ UNCHANGED <<images, disk, abandoned>>
    BY <1>2 DEF Start, results
  <2>2. CASE End(j, "interrupted", "idle") /\ task' = [task EXCEPT ![j] = NoTask]
    BY <1>t, <1>a, <2>1, <2>2, EndType, ForgetType, UnderWay, QuietFiles
    DEF Others, Drops, GoesOn, Holding, Working
  <2>3. CASE Goto(j, "ready") /\ UNCHANGED <<jobs, task>>
    BY <1>t, <1>a, <2>1, <2>3, GoType, QuietFiles DEF Others, Drops, GoesOn, Holding, Working
  <2> QED BY <1>2, <2>2, <2>3 DEF Start
<1>3. CASE CheckContext(j)
  <2>1. pc[j] = "ready" /\ UNCHANGED <<task, images, disk, abandoned>>
    BY <1>3 DEF CheckContext, results
  <2>2. CASE End(j, "interrupted", "leaving")
    BY <1>t, <1>a, <2>1, <2>2, EndType, UnderWay, QuietFiles
    DEF Others, Drops, GoesOn, Holding, Working
  <2>3. CASE Goto(j, "checked") /\ UNCHANGED jobs
    BY <1>t, <1>a, <2>1, <2>3, GoType, QuietFiles DEF Others, Drops, GoesOn, Holding, Working
  <2> QED BY <1>3, <2>2, <2>3 DEF CheckContext
<1>4. CASE Submit(j)
  <2>1. pc[j] = "checked" /\ UNCHANGED <<task, images, disk, abandoned>>
    BY <1>4 DEF Submit, results
  <2>2. CASE End(j, "failed", "leaving")
    BY <1>t, <1>a, <2>1, <2>2, EndType, UnderWay, QuietFiles
    DEF Others, Drops, GoesOn, Holding, Working
  <2>3. CASE Goto(j, "calling") /\ UNCHANGED jobs
    BY <1>t, <1>a, <2>1, <2>3, GoType, QuietFiles DEF Others, Drops, GoesOn, Holding, Working
  <2> QED BY <1>4, <2>2, <2>3 DEF Submit
<1>6. CASE CallFails(j)
  <2>1. pc[j] = "calling" /\ UNCHANGED <<images, disk>>
        /\ abandoned' = abandoned \cup ToSet(task[j].assets)
    BY <1>6 DEF CallFails
  <2>2. PICK outcome \in {"interrupted", "failed"} : End(j, outcome, "leaving")
    BY <1>6 DEF CallFails
  <2>3. /\ task'[j].pages = task[j].pages /\ task'[j].assets = <<>>
        /\ \A i \in JobIds \ {j} : task'[i] = task[i]
    BY <1>6, <1>t DEF CallFails, TypeOK, Task
  <2> QED
    BY <1>t, <1>a, <2>1, <2>2, <2>3, EndType, UnderWay, QuietFiles
    DEF Others, Drops, GoesOn, Holding, Working
<1>7. CASE Returned(j)
  <2>1. /\ pc[j] = "calling" /\ UNCHANGED <<jobs, task, images, disk, abandoned>>
        /\ task[j].assets # <<>> /\ Goto(j, "kept")
    BY <1>7 DEF Returned, results
  <2> QED
    BY <1>t, <1>a, <2>1, GoType, QuietFiles DEF Others, Drops, GoesOn, Holding, Working
<1>9. CASE RemoveReferences(j)
  <2>1. /\ pc[j] = "ready" /\ UNCHANGED <<jobs, task, images, disk, abandoned>>
        /\ task[j].pages = <<>> /\ Goto(j, "done")
    BY <1>9 DEF RemoveReferences, results
  <2> QED
    BY <1>t, <1>a, <2>1, GoType, QuietFiles DEF Others, Drops, GoesOn, Holding, Working
<1>10. CASE Finish(j)
  <2>1. /\ pc[j] = "done" /\ UNCHANGED <<task, images, disk, abandoned>>
        /\ End(j, "succeeded", "leaving")
    BY <1>10 DEF Finish, results
  <2> QED
    BY <1>t, <1>a, <2>1, EndType, UnderWay, QuietFiles
    DEF Others, Drops, GoesOn, Holding, Working
<1>12. CASE Recovered(j)
  <2>1. /\ pc[j] = "panicked" /\ UNCHANGED <<task, images, disk, abandoned>>
        /\ End(j, "interrupted", "idle")
    BY <1>12 DEF Recovered, results
  <2> QED
    BY <1>t, <1>a, <2>1, EndType, UnderWay, QuietFiles
    DEF Others, Drops, GoesOn, Holding, Working
<1> QED
  BY <1>1, <1>2, <1>3, <1>4, <1>6, <1>7, <1>9, <1>10, <1>12,
     SaveAssetFiles, InsertRowsFiles, LeaveFilesInv DEF Goroutine

\* A failure gives the files of a call up or leaves them to runRender's end.
LEMMA FailureFiles ==
  ASSUME RInv, TInv, FilesInv, NEW j \in JobIds, Panic(j) \/ StorageFails(j) \/ LoseJob(j)
  PROVE  FilesInv'
<1> USE DEF Live, Terminal, Locations
<1>t. TypeOK
  BY DEF TInv
<1>a. /\ task[j].assets # <<>> => pc[j] \in {"calling", "kept", "leaving"}
      /\ ToSet(<<>>) = {} /\ NoTask.pages = <<>> /\ NoTask.assets = <<>>
      /\ \A i \in JobIds \ {j} : UNCHANGED jobs => jobs'[i] = jobs[i]
  BY ToSetEmpty DEF FilesInv, AnswerHeld, NoTask
<1>1. CASE Panic(j)
  <2>1. /\ UNCHANGED <<jobs, images, disk>> /\ Goto(j, "panicked")
        /\ abandoned' = abandoned \cup ToSet(task[j].assets)
        /\ task' = [task EXCEPT ![j] = NoTask]
    BY <1>1 DEF Panic
  <2> QED
    BY <1>t, <1>a, <2>1, GoType, ForgetType, QuietFiles
    DEF Others, Drops, GoesOn, Holding, Working
<1>2. CASE StorageFails(j)
  <2>1. UNCHANGED <<task, images, disk, abandoned>> /\ End(j, "failed", "leaving")
    BY <1>2 DEF StorageFails, results
  <2> QED
    BY <1>t, <1>a, <2>1, EndType, QuietFiles DEF Others, Drops, GoesOn, Holding, Working
<1>3. CASE LoseJob(j)
  <2> DEFINE returns == pc[j] \notin {"frozen", "admitted", "panicked"}
             forgets == pc[j] = "calling"
  <2>1. /\ UNCHANGED <<jobs, images, disk>> /\ Goto(j, IF returns THEN "leaving" ELSE "idle")
        /\ abandoned' = abandoned \cup IF forgets THEN ToSet(task[j].assets) ELSE {}
        /\ task' = [task EXCEPT ![j] = IF returns /\ ~forgets THEN task[j] ELSE NoTask]
    BY <1>3 DEF LoseJob
  <2>2. /\ pc'[j] = IF returns THEN "leaving" ELSE "idle"
        /\ task'[j] = IF returns /\ ~forgets THEN task[j] ELSE NoTask
        /\ Others(j)
    BY <1>t, <2>1, GoType DEF Others, TypeOK
  <2>3. Drops(j)
    BY <1>a, <2>1, <2>2 DEF Drops
  <2>4. GoesOn(j)
    BY <1>a, <2>1, <2>2 DEF GoesOn, Holding, Working
  <2> QED BY <1>a, <2>1, <2>2, <2>3, <2>4, QuietFiles
<1> QED BY <1>1, <1>2, <1>3

\* The process ends and starts, and the user edits.
LEMMA AsideFiles ==
  ASSUME RInv, TInv, FilesInv, Close \/ Stop \/ Restart \/ User \/ UNCHANGED vars
  PROVE  FilesInv'
<1>1. UNCHANGED <<images, disk>> /\ \A j \in JobIds : PagesOf(j)' = PagesOf(j)
  BY DEF vars, results, Close, Stop, Restart, User, Edit, SavePage, EditUpstream,
         SaveInjection, SaveProfile, ReplaceFile, PagesOf
<1>2. CASE Stop
  <2>1. /\ \A j \in JobIds : task'[j] = NoTask /\ pc'[j] = "idle"
        /\ UNCHANGED jobs
        /\ abandoned' = abandoned \cup UNION {ToSet(task[j].assets) : j \in JobIds}
    BY <1>2 DEF Stop
  <2>2. DOMAIN <<>> = {} /\ ToSet(<<>>) = {} /\ NoTask.pages = <<>> /\ NoTask.assets = <<>>
    BY ToSetEmpty DEF NoTask
  <2>3. AnswerHeld' /\ PagesLeft'
    BY <2>1, <2>2 DEF AnswerHeld, PagesLeft
  <2>4. FilesTracked'
    BY <1>1, <2>1 DEF FilesInv, FilesTracked
  <2>5. ImagesThere' /\ Counted'
    BY <1>1, <2>1 DEF FilesInv, ImagesThere, Counted, Holding, Working
  <2> QED BY <2>3, <2>4, <2>5 DEF FilesInv
<1>3. CASE Restart
  <2>1. UNCHANGED <<task, pc, abandoned>> /\ \A j \in JobIds : pc[j] = "idle"
    BY <1>3 DEF Restart, results, RInv, Shapes, Attended
  <2>2. \A j \in JobIds : /\ jobs'[j].done = jobs[j].done /\ jobs'[j].total = jobs[j].total
                          /\ jobs'[j].status = "succeeded" => jobs[j].status = "succeeded"
                          /\ jobs'[j].status = "none" => jobs[j].status = "none"
    BY <1>3 DEF Restart, TInv, TypeOK, Job
  <2>3. AnswerHeld' /\ FilesTracked' /\ PagesLeft'
    BY <1>1, <2>1 DEF FilesInv, AnswerHeld, FilesTracked, PagesLeft
  <2>4. ImagesThere'
    BY <1>1, <2>2 DEF FilesInv, ImagesThere, TInv, TypeOK, Image, Files
  <2>5. Counted'
    BY <1>1, <2>1, <2>2 DEF FilesInv, Counted, Holding, Working
  <2> QED BY <2>3, <2>4, <2>5 DEF FilesInv
<1>4. CASE Close \/ User \/ UNCHANGED vars
  <2>1. UNCHANGED <<jobs, pc, task, abandoned>>
    BY <1>4 DEF vars, results, Close, User, Edit, SavePage, EditUpstream, SaveInjection,
                SaveProfile, ReplaceFile
  <2> QED
    BY <1>1, <2>1 DEF FilesInv, AnswerHeld, FilesTracked, ImagesThere, PagesLeft, Counted
<1> QED BY <1>2, <1>3, <1>4

\* Every step keeps files and progress.
LEMMA NextFiles == RInv /\ TInv /\ FilesInv /\ [Next]_vars => FilesInv'
  BY AdmitFiles, GoroutineFiles, FailureFiles, AsideFiles DEF Next

---------------------------------------------------------------------------
(* Nothing edited since: the proof.                                        *)

\* Nobody works yet.
LEMMA InitFresh == Init => FreshInv
  BY DEF Init, FreshInv, NoJob, Holding, Working

\* What a step of job j has to respect: it goes on with what it was admitted
\* with, on pages it already had.
Continues(j) ==
  /\ jobs'[j].since = jobs[j].since
  /\ pc'[j] \in Holding => pc[j] \in Holding
  /\ pc'[j] \in Holding =>
       /\ task'[j].injection = task[j].injection /\ task'[j].visual = task[j].visual
       /\ task'[j].board = task[j].board
       /\ \A a \in DOMAIN task'[j].pages :
            \E b \in DOMAIN task[j].pages : task'[j].pages[a] = task[j].pages[b]

\* Then the step keeps what the job was admitted with.
LEMMA OneJobFresh ==
  ASSUME FreshInv, NEW j \in JobIds, Others(j), Continues(j), UNCHANGED <<inputs, edits>>,
         \A i \in JobIds \ {j} : jobs'[i].since = jobs[i].since
  PROVE  FreshInv'
<1>1. currentBoard' = currentBoard
  BY DEF currentBoard, cachedDigest, inputs
<1>2. \A i \in JobIds \ {j} : AsAdmitted(i)' <=> AsAdmitted(i)
  BY <1>1 DEF AsAdmitted, Others, inputs
<1>3. pc'[j] \in Holding /\ AsAdmitted(j) => AsAdmitted(j)'
  BY <1>1 DEF AsAdmitted, Continues, inputs
<1> QED BY <1>2, <1>3 DEF FreshInv, Others, Continues

\* What is admitted is what the workspace holds now.
LEMMA AdmitFresh ==
  ASSUME RInv, TInv, FreshInv, NEW j \in JobIds, NEW chosen \in PageChoices, Admit(j, chosen)
  PROVE  FreshInv'
<1>1. /\ jobs'[j].since = edits /\ UNCHANGED <<inputs, edits>>
      /\ \A i \in JobIds \ {j} : jobs'[i] = jobs[i]
      /\ task'[j] = frozen(chosen) /\ Others(j)
  BY DEF Admit, TInv, TypeOK, Others
<1>2. currentBoard' = currentBoard /\ edits \in Nat
  BY <1>1 DEF currentBoard, cachedDigest, inputs, TInv, TypeOK
<1>3. AsAdmitted(j)'
  <2>1. \A a \in DOMAIN frozenPages(chosen) :
          /\ docs[frozenPages(chosen)[a].no].current
          /\ docs[frozenPages(chosen)[a].no].text = frozenPages(chosen)[a].text
    BY DEF Admit, Renderable, frozenPages
  <2>2. /\ task'[j].injection = injection /\ task'[j].visual = profile.revision
        /\ task'[j].board = currentBoard /\ task'[j].pages = frozenPages(chosen)
    BY <1>1 DEF frozen
  <2> HIDE DEF frozenPages
  <2> QED BY <1>1, <1>2, <2>1, <2>2 DEF AsAdmitted, inputs
<1>4. \A i \in JobIds \ {j} : AsAdmitted(i)' <=> AsAdmitted(i)
  BY <1>1, <1>2 DEF AsAdmitted, Others, inputs
<1> QED BY <1>1, <1>2, <1>3, <1>4 DEF FreshInv, Others

\* A job under way, or failing, works on with what it was admitted with.
LEMMA JobFresh ==
  ASSUME RInv, TInv, FreshInv, NEW j \in JobIds,
         Goroutine(j) \/ Panic(j) \/ StorageFails(j) \/ LoseJob(j)
  PROVE  FreshInv'
<1> USE DEF Live, Terminal, Locations
<1>t. TypeOK
  BY DEF TInv
<1>1. UNCHANGED <<inputs, edits>>
  BY DEF Goroutine, Materialize, Start, CheckContext, Submit, SaveAsset, CallFails, Returned,
         InsertRows, RemoveReferences, Finish, Leave, Recovered, Panic, StorageFails, LoseJob
<1>2. \A i \in JobIds : jobs'[i].since = jobs[i].since
  <2>1. CASE jobs' = [jobs EXCEPT ![j].done = @ + 1] \/ UNCHANGED jobs
    BY <1>t, <2>1 DEF TypeOK, Job
  <2>2. CASE \E outcome \in Terminal, location \in Locations : End(j, outcome, location)
    BY <1>t, <2>2, EndType
  <2> QED
    BY <2>1, <2>2
    DEF Goroutine, Materialize, Start, CheckContext, Submit, SaveAsset, CallFails, Returned,
        InsertRows, RemoveReferences, Finish, Leave, Recovered, Panic, StorageFails, LoseJob
<1>3. Others(j)
  <2>1. \A i \in JobIds \ {j} : pc'[i] = pc[i]
    BY <1>t
    DEF TypeOK, Goroutine, Materialize, Start, CheckContext, Submit, SaveAsset, CallFails,
        Returned, InsertRows, RemoveReferences, Finish, Leave, Recovered, Panic, StorageFails,
        LoseJob, End, Goto
  <2>2. \A i \in JobIds \ {j} : task'[i] = task[i]
    BY <1>t
    DEF TypeOK, Goroutine, Materialize, Start, CheckContext, Submit, SaveAsset, CallFails,
        Returned, InsertRows, RemoveReferences, Finish, Leave, Recovered, Panic, StorageFails,
        LoseJob
  <2> QED BY <2>1, <2>2 DEF Others
<1>4. pc'[j] \in Holding => pc[j] \in Holding
  BY <1>t DEF TypeOK, Goroutine, Materialize, Start, CheckContext, Submit, SaveAsset, CallFails,
              Returned, InsertRows, RemoveReferences, Finish, Leave, Recovered, Panic,
              StorageFails, LoseJob, End, Goto, Holding, Working
<1>5. pc'[j] \in Holding =>
        /\ task'[j].injection = task[j].injection /\ task'[j].visual = task[j].visual
        /\ task'[j].board = task[j].board
        /\ \A a \in DOMAIN task'[j].pages :
             \E b \in DOMAIN task[j].pages : task'[j].pages[a] = task[j].pages[b]
  <2> SUFFICES ASSUME pc'[j] \in Holding
               PROVE  /\ task'[j].injection = task[j].injection
                      /\ task'[j].visual = task[j].visual /\ task'[j].board = task[j].board
                      /\ \A a \in DOMAIN task'[j].pages :
                           \E b \in DOMAIN task[j].pages : task'[j].pages[a] = task[j].pages[b]
    OBVIOUS
  <2>1. CASE InsertRows(j)
    <3>1. pc[j] = "kept" /\ task' = [task EXCEPT ![j].pages = Tail(@), ![j].assets = <<>>]
      BY <2>1 DEF InsertRows
    <3>2. /\ task'[j].pages = Tail(task[j].pages) /\ task'[j].injection = task[j].injection
          /\ task'[j].visual = task[j].visual /\ task'[j].board = task[j].board
      BY <1>t, <3>1 DEF TypeOK, Task
    <3>3. task[j].pages # <<>>
      BY <3>1 DEF TInv, HasItsInputs
    <3>4. \A a \in DOMAIN Tail(task[j].pages) :
            \E b \in DOMAIN task[j].pages : Tail(task[j].pages)[a] = task[j].pages[b]
      <4>1. \A a \in 1..(Len(task[j].pages) - 1) :
              Tail(task[j].pages)[a] = task[j].pages[a + 1] /\ a + 1 \in DOMAIN task[j].pages
        BY <1>t, <3>3, HeadType
      <4> QED BY <1>t, <3>3, <4>1, HeadType
    <3> QED BY <3>2, <3>4
  <2>2. CASE SaveAsset(j)
    <3>1. /\ task'[j].pages = task[j].pages /\ task'[j].injection = task[j].injection
          /\ task'[j].visual = task[j].visual /\ task'[j].board = task[j].board
      BY <1>t, <2>2 DEF SaveAsset, TypeOK, Task
    <3> QED BY <3>1
  <2>3. CASE ~InsertRows(j) /\ ~SaveAsset(j)
    <3>1. UNCHANGED task
      BY <1>t, <2>3
      DEF TypeOK, Goroutine, Materialize, Start, CheckContext, Submit, CallFails,
          Returned, RemoveReferences, Finish, Leave, Recovered, Panic,
          StorageFails, LoseJob, End, Goto, Holding, Working
    <3> QED BY <3>1
  <2> QED BY <2>1, <2>2, <2>3
<1> QED BY <1>1, <1>2, <1>3, <1>4, <1>5, OneJobFresh DEF Continues

\* An edit makes every job older; nobody works while the process starts.
LEMMA AsideFresh ==
  ASSUME RInv, TInv, FreshInv, Close \/ Stop \/ Restart \/ User \/ UNCHANGED vars
  PROVE  FreshInv'
<1>1. CASE User
  <2>1. edits' = edits + 1 /\ UNCHANGED jobs /\ edits \in Nat
    BY <1>1 DEF User, Edit, SavePage, EditUpstream, SaveInjection, SaveProfile, ReplaceFile,
                TInv, TypeOK
  <2>2. \A j \in JobIds : jobs[j].since \in Nat
    BY DEF TInv, TypeOK, Job
  <2> QED BY <2>1, <2>2 DEF FreshInv
<1>2. CASE Stop
  BY <1>2 DEF Stop, FreshInv, Holding, Working
<1>3. CASE Restart
  <2>1. UNCHANGED <<pc, edits>> /\ \A j \in JobIds : pc[j] = "idle"
    BY <1>3 DEF Restart, RInv, Shapes, Attended
  <2>2. \A j \in JobIds : jobs'[j].since = jobs[j].since
    BY <1>3 DEF Restart, TInv, TypeOK, Job
  <2> QED BY <2>1, <2>2 DEF FreshInv, Holding, Working
<1>4. CASE Close \/ UNCHANGED vars
  <2>1. UNCHANGED <<docs, injection, profile, file, cache, jobs, pc, task, edits>>
    BY <1>4 DEF vars, inputs, Close
  <2> QED BY <2>1 DEF FreshInv, AsAdmitted, currentBoard, cachedDigest
<1> QED BY <1>1, <1>2, <1>3, <1>4

\* Every step keeps it.
LEMMA NextFresh == RInv /\ TInv /\ FreshInv /\ [Next]_vars => FreshInv'
  BY AdmitFresh, JobFresh, AsideFresh DEF Next

---------------------------------------------------------------------------
(* The theorems.                                                           *)

\* The whole invariant is inductive.
LEMMA NextSInv == SInv /\ [Next]_vars => SInv'
  BY NextRInv, NextTInv, NextDrawn, NextFiles, NextFresh DEF SInv, FilesInv

\* The invariant holds in every reachable state.
LEMMA AlwaysSInv == Spec => []SInv
<1>1. Init => SInv
  BY InitRInv, InitTInv, InitDrawn, InitFiles, InitFresh DEF SInv
<1> QED BY <1>1, NextSInv, PTL DEF Spec

\* An image shown as current was drawn from what the workspace now holds.
THEOREM CurrentImagesAreTrue == Spec => []CurrentImageIsTrue
<1>1. SInv => CurrentImageIsTrue
  <2> SUFFICES ASSUME SInv, NEW i \in images, ShownAsCurrent(i)
               PROVE  [job |-> i.file[1], page |-> i.file[2], text |-> docs[i.file[2]].text,
                       injection |-> injection, visual |-> profile.revision,
                       reference |-> profile.reference] \in requests
    BY DEF CurrentImageIsTrue
  <2>1. requestOf(i) \in requests
    BY DEF SInv, DrawnInv, ImagesRequested
  <2>2. i.board[1] = profile.reference
    BY DEF ShownAsCurrent, currentBoard
  <2> QED BY <2>1, <2>2 DEF requestOf, ShownAsCurrent
<1> QED BY <1>1, AlwaysSInv, PTL

\* An image file without a row has somebody who will remove it, or was left
\* by a crash, a panic or a failed call.
THEOREM ImagesAreTracked == Spec => []NoUntrackedImages
<1>1. SInv => NoUntrackedImages
  <2> SUFFICES ASSUME SInv, NEW f \in disk \ abandoned, \A i \in images : i.file # f
               PROVE  \E j \in JobIds : pc[j] # "idle" /\ f \in ToSet(task[j].assets)
    BY DEF NoUntrackedImages
  <2>1. PICK j \in JobIds : f \in ToSet(task[j].assets)
    BY DEF SInv, FilesInv, FilesTracked
  <2>2. task[j].assets # <<>>
    BY <2>1, ToSetEmpty
  <2> QED BY <2>1, <2>2 DEF SInv, FilesInv, AnswerHeld
<1> QED BY <1>1, AlwaysSInv, PTL

\* A render's progress is the number of its pages that have an image, and a
\* render that succeeded has one for every page it was asked for.
THEOREM ProgressCountsPages == Spec => []ProgressIsTrue
<1>1. SInv => ProgressIsTrue
  BY DEF SInv, FilesInv, Counted, ImagesThere, ProgressIsTrue
<1> QED BY <1>1, AlwaysSInv, PTL

\* A page paid for while nobody edited is not outdated when its row appears.
LEMMA BornCurrent ==
  ASSUME SInv, [Next]_vars, NEW i \in images' \ images, jobs[i.file[1]].since = edits
  PROVE  ShownAsCurrent(i)'
<1>1. PICK j \in JobIds : InsertRows(j)
  BY DEF vars, results, Next, User, Edit, SavePage, EditUpstream, SaveInjection, SaveProfile,
         ReplaceFile, Admit, Goroutine, Materialize, Start, CheckContext, Submit, SaveAsset,
         CallFails, Returned, RemoveReferences, Finish, Leave, Recovered, Panic, StorageFails,
         LoseJob, Close, Stop, Restart
<1> DEFINE page == Head(task[j].pages)
<1>2. /\ pc[j] = "kept" /\ UNCHANGED <<docs, injection, profile, file, cache, disk>>
      /\ images' = images \cup
           {[file |-> asset, text |-> page.text, injection |-> task[j].injection,
             visual |-> task[j].visual, board |-> task[j].board] :
               asset \in ToSet(task[j].assets)}
  BY <1>1 DEF InsertRows, Live, inputs
<1>3. PICK asset \in ToSet(task[j].assets) :
        i = [file |-> asset, text |-> page.text, injection |-> task[j].injection,
             visual |-> task[j].visual, board |-> task[j].board]
  BY <1>2
<1>4. asset[1] = j /\ asset[2] = page.no /\ asset \in disk
  BY DEF SInv, FilesInv, AnswerHeld
<1>5. AsAdmitted(j)
  BY <1>2, <1>3, <1>4 DEF SInv, FreshInv, Holding, Working
<1>6. 1 \in DOMAIN task[j].pages /\ page = task[j].pages[1]
  BY <1>2, HeadType DEF SInv, TInv, HasItsInputs
<1>7. docs[page.no].current /\ docs[page.no].text = page.text
  BY <1>5, <1>6 DEF AsAdmitted
<1>8. currentBoard' = currentBoard
  BY <1>2 DEF currentBoard, cachedDigest
<1> QED BY <1>2, <1>3, <1>4, <1>5, <1>7, <1>8 DEF ShownAsCurrent, AsAdmitted

\* So admission, row and workspace agree on what the inputs of a page are.
THEOREM PagesAreBornCurrent == Spec => NotBornOutdated
<1>1. SInv /\ [Next]_vars =>
        [\A i \in images' \ images : jobs[i.file[1]].since = edits => ShownAsCurrent(i)']_vars
  BY BornCurrent
<1> QED BY <1>1, AlwaysSInv, PTL DEF Spec, NotBornOutdated
=============================================================================
