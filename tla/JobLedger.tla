----------------------------- MODULE JobLedger -----------------------------
(***************************************************************************)
(* The life of the comic background jobs of internal/comic, whatever they  *)
(* compute: the rows of comic_md_jobs, the goroutine behind each row, the  *)
(* paid call it may have in flight, and the process around them.           *)
(*                                                                         *)
(* A job is admitted in one IMMEDIATE transaction, its goroutine is        *)
(* started after that transaction commits, and only the goroutine, or the  *)
(* recovery of the next process, ends it.  The process may be killed       *)
(* between any two steps; the instance lock keeps a second one away.       *)
(***************************************************************************)

CONSTANTS
  JobIds,     \* job identifiers (newID)
  Works,      \* novel works
  NoWork      \* the work of a job that was never admitted

ASSUME JobLedgerAssumption == NoWork \notin Works

VARIABLES
  status,   \* comic_md_jobs.status, "none" before the row exists
  work,     \* comic_md_jobs.novel_work_id
  worker,   \* the goroutine behind a job
  app,      \* the process: serving, closed by Close, or gone
  lost      \* jobs whose last write failed, for good

vars == <<status, work, worker, app, lost>>

Terminal == {"succeeded", "failed", "interrupted"}

TypeOK ==
  /\ status \in [JobIds -> {"none", "running"} \cup Terminal]
  /\ work \in [JobIds -> Works \cup {NoWork}]
  /\ worker \in [JobIds -> {"idle", "admitted", "active", "calling"}]
  /\ app \in {"open", "closing", "down"}
  /\ lost \subseteq JobIds

Init ==
  /\ status = [j \in JobIds |-> "none"]
  /\ work = [j \in JobIds |-> NoWork]
  /\ worker = [j \in JobIds |-> "idle"]
  /\ app = "open"
  /\ lost = {}

---------------------------------------------------------------------------
(* Steps of the service.                                                   *)

CallingIn(w) == {j \in JobIds : work[j] = w /\ worker[j] = "calling"}   \* mutant
RunningIn(w) == {j \in JobIds : work[j] = w /\ status[j] = "running"}

\* insertJob inside the admission transaction of generate, optimize, sync or
\* render: one running job per novel work.
Admit(j, w) ==
  /\ app # "down"
  /\ status[j] = "none"
  /\ RunningIn(w) = {}
  /\ status' = [status EXCEPT ![j] = "running"]
  /\ work' = [work EXCEPT ![j] = w]
  /\ worker' = [worker EXCEPT ![j] = "admitted"]
  /\ UNCHANGED <<app, lost>>

\* finishJob: only a running job reaches a terminal state.
FinishJob(j, outcome) ==
  status' = [status EXCEPT ![j] = IF @ = "running" THEN outcome ELSE @]

StartForgotten(j) ==   \* mutant
  /\ app # "down"
  /\ worker[j] = "admitted"
  /\ worker' = [worker EXCEPT ![j] = IF app = "closing" THEN "idle" ELSE "active"]
  /\ UNCHANGED <<status, work, app, lost>>

\* start: a closed service interrupts the job instead of running it.
Start(j) ==
  /\ app # "down"
  /\ worker[j] = "admitted"
  /\ IF app = "closing"
       THEN /\ FinishJob(j, "interrupted")
            /\ worker' = [worker EXCEPT ![j] = "idle"]
       ELSE /\ worker' = [worker EXCEPT ![j] = "active"]
            /\ UNCHANGED status
  /\ UNCHANGED <<work, app, lost>>

\* The goroutine hands a request to the paid provider.
Submit(j) ==
  /\ app # "down"
  /\ worker[j] = "active"
  /\ worker' = [worker EXCEPT ![j] = "calling"]
  /\ UNCHANGED <<status, work, app, lost>>

\* The provider call returned and the job goes on with its answer.
Answer(j) ==
  /\ app # "down"
  /\ worker[j] = "calling"
  /\ worker' = [worker EXCEPT ![j] = "active"]
  /\ UNCHANGED <<status, work, app, lost>>

\* The goroutine ends its job: succeeded, failed (withJob), interrupted
\* (shutdown or the recover of a panic), or failed by the admitting command
\* itself before start (render).
End(j, outcome) ==
  /\ app # "down"
  /\ worker[j] # "idle"
  /\ FinishJob(j, outcome)
  /\ worker' = [worker EXCEPT ![j] = "idle"]
  /\ UNCHANGED <<work, app, lost>>

\* withJob and finish only log a failing database: the goroutine returns and
\* the row still says running.
LoseJob(j) ==
  /\ app # "down"
  /\ worker[j] # "idle"
  /\ lost' = lost \cup {j}
  /\ worker' = [worker EXCEPT ![j] = "idle"]
  /\ UNCHANGED <<status, work, app>>

---------------------------------------------------------------------------
(* Steps of the process.                                                   *)

\* Close: no job starts any more and the service context is cancelled.
Close ==
  /\ app = "open"
  /\ app' = "closing"
  /\ UNCHANGED <<status, work, worker, lost>>

\* The process ends: after Close waited for the goroutines, after it gave up
\* waiting, or by a crash at any moment.
Stop ==
  /\ app # "down"
  /\ app' = "down"
  /\ worker' = [j \in JobIds |-> "idle"]
  /\ UNCHANGED <<status, work, lost>>

RestartAgain ==   \* mutant
  /\ app = "down"
  /\ app' = "open"
  /\ status' = [j \in JobIds |->
                  IF status[j] \in {"running", "failed"} THEN "interrupted" ELSE status[j]]
  /\ UNCHANGED <<work, worker, lost>>

\* Startup: Recover interrupts every job an earlier process left running,
\* before any command is served.
Restart ==
  /\ app = "down"
  /\ app' = "open"
  /\ status' = [j \in JobIds |->
                  IF status[j] = "running" THEN "interrupted" ELSE status[j]]
  /\ UNCHANGED <<work, worker, lost>>

JobStep(j) ==
  \/ Start(j)
  \/ Submit(j)
  \/ Answer(j)
  \/ \E outcome \in Terminal : End(j, outcome)

Next ==
  \/ \E j \in JobIds : \/ \E w \in Works : Admit(j, w)
                       \/ JobStep(j)
                       \/ LoseJob(j)
  \/ Close
  \/ Stop
  \/ Restart

Spec == Init /\ [][Next]_vars

---------------------------------------------------------------------------
(* Properties.                                                             *)

\* Two jobs of one novel work are never running together, so two paid
\* requests never work on the same documents (insertJob's promise), across
\* panics, shutdowns, lost writes and restarts.
OneJobPerWork ==
  \A i, j \in JobIds :
    (status[i] = "running" /\ status[j] = "running" /\ work[i] = work[j])
      => i = j

\* A goroutine, and so a paid call in flight, always belongs to a running row:
\* nobody can admit a second job for its work while it may still bill.  And a row
\* says running only while someone will end it: its goroutine or, once the process
\* died or a terminal write failed, the next startup.
RunningIsAttended ==
  \A j \in JobIds :
    /\ worker[j] # "idle" => status[j] = "running"
    /\ status[j] = "running" => worker[j] # "idle" \/ app = "down" \/ j \in lost

\* No step takes a job out of a terminal state, and none starts a call for
\* it: a late answer, a panic or a recovery cannot revive a finished job.
TerminalIsForever ==
  [][\A j \in JobIds :
       status[j] \in Terminal =>
         status'[j] = status[j] /\ worker'[j] # "calling"]_vars
=============================================================================
