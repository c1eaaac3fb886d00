----------------------------- MODULE VideoTask -----------------------------
(***************************************************************************)
(* One video shot (GenerateVideo of internal/gen/video.go): a task is      *)
(* submitted once, polled until the provider ends it, and its file is      *)
(* downloaded.  The provider bills a task from the moment it exists, so    *)
(* the run gives up on one only when the provider does, at the deadline,   *)
(* or when it is refused.                                                  *)
(***************************************************************************)
EXTENDS Download

VARIABLES
  run,        \* the run: its phase, and why it failed
  task,       \* external: the provider's tasks for this run, and their state
  late        \* the polling deadline has passed

taskVars == <<run, task, late>>
videoTaskVars == <<downloadVars, taskVars>>

TaskInit ==
  /\ DownloadInit
  /\ run = [phase |-> "new", cause |-> "none"]
  /\ task = [count |-> 0, state |-> "none"]
  /\ late = FALSE

Fails(cause) == run' = [phase |-> "failed", cause |-> cause]

---------------------------------------------------------------------------
(* The provider and the clock.                                             *)

ProviderEnds ==
  /\ task.state = "running"
  /\ \E state \in {"completed", "failed"} : task' = [task EXCEPT !.state = state]
  /\ UNCHANGED <<run, late, downloadVars>>

DeadlinePasses ==
  /\ run.phase = "polling" /\ ~ late
  /\ late' = TRUE
  /\ UNCHANGED <<run, task, downloadVars>>

---------------------------------------------------------------------------
(* The run.                                                                *)

\* create: one POST.  The provider may have made the task although its answer
\* is an error, is lost or names no task.
Create ==
  /\ run.phase = "new"
  /\ \/ /\ task' = [count |-> task.count + 1, state |-> "running"]
        /\ \/ run' = [run EXCEPT !.phase = "polling"]
           \/ Fails("create")
     \/ UNCHANGED task /\ Fails("create")
  /\ UNCHANGED <<late, downloadVars>>

\* A poll met a network error, a transient status or an unreadable answer: it
\* is repeated until the deadline.
PollTroubled ==
  /\ run.phase = "polling"
  /\ IF late THEN Fails("deadline") ELSE UNCHANGED run
  /\ UNCHANGED <<task, late, downloadVars>>

\* The provider answers with a lasting error, or the context ended.
PollRefused ==
  /\ run.phase = "polling"
  /\ Fails("refused")
  /\ UNCHANGED <<task, late, downloadVars>>

\* The provider tells the task's state.
PollAnswered ==
  /\ run.phase = "polling"
  /\ \/ task.state = "completed" /\ run' = [run EXCEPT !.phase = "fetching"] /\ Open
     \/ task.state = "failed" /\ Fails("provider") /\ UNCHANGED downloadVars
     \/ /\ task.state = "running"
        /\ IF late THEN Fails("deadline") ELSE UNCHANGED run
        /\ UNCHANGED downloadVars
  /\ UNCHANGED <<task, late>>

Downloads ==
  /\ run.phase = "fetching"
  /\ DownloadStep
  /\ UNCHANGED taskVars

\* The download ended: a valid MP4 is stored, anything else fails the run.
Ends ==
  /\ run.phase = "fetching"
  /\ \/ fetch.phase = "done" /\ run' = [run EXCEPT !.phase = "done"]
     \/ fetch.phase = "done" /\ Fails("stored")
     \/ fetch.phase = "failed" /\ Fails("download")
  /\ UNCHANGED <<task, late, downloadVars>>

TaskNext ==
  \/ Create \/ PollTroubled \/ PollRefused \/ PollAnswered \/ Downloads \/ Ends
  \/ ProviderEnds \/ DeadlinePasses
  \/ Replace /\ UNCHANGED taskVars

TaskSpec == TaskInit /\ [][TaskNext]_videoTaskVars

---------------------------------------------------------------------------
(* Properties.                                                             *)

Units == Versions \X Nat
Validators == {noTag} \cup {Tag[v] : v \in Versions}

\* The download, the run and the provider's task keep their shapes, and a body
\* never outgrows its limit.
TaskTypeOK ==
  /\ served \in Versions
  /\ fetch \in [phase : {"idle", "asking", "reading", "done", "failed"}, attempt : 0..Attempts,
                body : Seq(Units), validator : Validators, version : Versions \cup {noTag},
                next : Nat]
  /\ Len(fetch.body) <= Limit
  /\ run \in [phase : {"new", "polling", "fetching", "done", "failed"},
              cause : {"none", "create", "deadline", "refused", "provider", "stored", "download"}]
  /\ task \in [count : Nat, state : {"none", "running", "completed", "failed"}]
  /\ late \in BOOLEAN

\* A finished video is one whole version of the file of a task the provider
\* completed, never a join of two or a part, however often the download was
\* resumed; and a run that was billed once is never billed again and gives up
\* polling a living task only once the deadline has passed.
VideoIsWhole ==
  /\ run.phase = "done" =>
       task.state = "completed" /\ \E v \in Versions : fetch.body = Whole(v)
  /\ task.count <= 1
  /\ run.cause = "deadline" => late
=============================================================================
