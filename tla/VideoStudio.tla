---------------------------- MODULE VideoStudio ----------------------------
(***************************************************************************)
(* Paid video runs (pages/VideoPanel.tsx, lib/generateVideo.ts,            *)
(* store/useRunStore.ts and the retry of pages/AssetsPage.tsx): a run      *)
(* requests the shots of a form one by one and saves each before the next; *)
(* a failed run leaves a group that the panel offers to complete, and a    *)
(* failed task that the asset center offers to retry.                      *)
(*                                                                         *)
(* A run outlives the page that started it: the form, the active project,  *)
(* the library and other runs change between any two of its awaits.        *)
(***************************************************************************)
EXTENDS Library

ASSUME VideoStudioAssumption == VideoProjects # {} /\ Requests # {}

VARIABLES
  current,    \* the active project
  drafts,     \* the video form of each project
  resume,     \* useRunStore.videoResume: the group that may be completed
  videoBusy,  \* useRunStore.videoBusy
  retryingTask, \* useRunStore.retryingTaskId
  asking,     \* confirmations on screen, each with what was captured at the click
  runs        \* the calls of generateVideo, by task

studioVars == <<current, drafts, resume, videoBusy, retryingTask, asking, runs>>
rowVars == <<dbAssets, dbTasks, assets, tasks>>
videoVars == <<libraryVars, studioVars, clicks, faults>>

Callers == {"panel", "retry"}
Ended == {"completed", "failed"}

\* "group" is 0 for a new group; "home" is the project the panel showed, "of"
\* the task that is retried.
Intents == [by : Callers, request : Requests, group : 0..MaxTasks,
            home : VideoProjects, of : 0..MaxTasks]

\* A call of generateVideo: "group" is the row its videos are saved under,
\* "done" the shots that are behind it.
Runs == [intent : Intents,
         phase : {"persist", "request", "save", "finish", "failing", "mark"} \cup Ended,
         project : VideoProjects, group : TaskIds, done : SUBSET Shots]

VideoTypeOK ==
  /\ LibraryTypeOK
  /\ current \in VideoProjects
  /\ drafts \in [VideoProjects -> Requests]
  /\ resume \in [group : TaskIds, request : Requests, project : VideoProjects] \cup {none}
  /\ videoBusy \in BOOLEAN
  /\ retryingTask \in 0..MaxTasks
  /\ asking \in Seq(Intents)
  /\ runs \in Seq(Runs) /\ Len(runs) <= MaxTasks

VideoInit ==
  /\ LibraryInit
  /\ current = CHOOSE p \in VideoProjects : TRUE
  /\ drafts = [p \in VideoProjects |-> CHOOSE q \in Requests : TRUE]
  /\ resume = none
  /\ videoBusy = FALSE
  /\ retryingTask = 0
  /\ asking = <<>>
  /\ runs = <<>>

---------------------------------------------------------------------------
(* What the panel offers.                                                  *)

SavedShots(shown, project, group) ==
  {s \in Shots : \E a \in shown : a.project = project /\ a.group = group /\ a.shot = s}

\* Mutant of Fingerprint: the form's contents are left out.
FingerprintOfProject(project, request) == <<project>>

\* videoRequestFingerprint: resuming skips shots by number, so the form must
\* still be the request whose shots were paid for.
Fingerprint(project, request) == <<project, request>>

\* The effect on the form of the group's own project: another request forgets
\* the group.
AfterEdit(offer, project, request) ==
  IF offer # none /\ offer.project = project
     /\ Fingerprint(offer.project, offer.request) # Fingerprint(project, request)
  THEN none ELSE offer

SavedShotNos ==
  IF resume # none
     /\ Fingerprint(resume.project, resume.request) = Fingerprint(current, drafts[current])
  THEN SavedShots(assets, current, resume.group) ELSE {}

IsSingleton(set) == \E x \in set : set = {x}

Resumable == SavedShotNos \notin {{}, Shots}

BilledShots(scope) == IF scope = "resume" THEN Shots \ SavedShotNos ELSE Shots

PanelIntent(scope) ==
  [by |-> "panel", request |-> drafts[current], home |-> current, of |-> 0,
   group |-> IF scope = "resume" THEN resume.group ELSE 0]

---------------------------------------------------------------------------
(* generateVideo.                                                          *)

\* The call up to its first await: a resumed group skips the shots the library
\* shows under it, in the project the run belongs to.
StartRun(intent, project) ==
  LET i == Len(runs) + 1
      group == IF intent.group = 0 THEN i ELSE intent.group
  IN /\ i <= MaxTasks
     /\ runs' = Append(runs, [intent |-> intent, phase |-> "persist", project |-> project,
                              group |-> group,
                              done |-> IF intent.group = 0 THEN {}
                                       ELSE SavedShots(assets, project, group)])
     /\ tasks' = [tasks EXCEPT ![i] = "running"]

Goto(i, phase) == runs' = [runs EXCEPT ![i].phase = phase]
Ahead(done) == IF done = Shots THEN "finish" ELSE "request"
NextShot(run) == Min(Shots \ run.done)

PersistRunning(i) ==
  /\ runs[i].phase = "persist"
  /\ PersistTask(i, "running")
  /\ Goto(i, Ahead(runs[i].done))
  /\ UNCHANGED <<dbAssets, assets, tasks, current, drafts, resume, videoBusy,
                 retryingTask, asking, faults>>

\* runVideo has answered: the shot is paid for.
ShotProduced(i) ==
  /\ runs[i].phase = "request"
  /\ Goto(i, "save")
  /\ UNCHANGED <<rowVars, current, drafts, resume, videoBusy, retryingTask, asking, faults>>

SaveShot(i) ==
  LET run == runs[i]
      done == run.done \cup {NextShot(run)}
      video == [project |-> run.project, group |-> run.group, shot |-> NextShot(run),
                request |-> run.intent.request]
  IN /\ run.phase = "save"
     /\ PersistAssets({video})
     /\ AddAssets({video})
     /\ runs' = [runs EXCEPT ![i].done = done, ![i].phase = Ahead(done)]
     /\ UNCHANGED <<dbTasks, tasks, current, drafts, resume, videoBusy, retryingTask,
                    asking, faults>>

\* The last row is written; the caller follows.
FinishRun(i) ==
  /\ runs[i].phase = "finish"
  /\ PersistTask(i, "success")
  /\ UpdateTask(i, "success")
  /\ IF runs[i].intent.by = "panel"
     THEN /\ Goto(i, "completed")
          /\ resume' = none
          /\ videoBusy' = FALSE
     ELSE /\ Goto(i, "mark")
          /\ UNCHANGED <<resume, videoBusy>>
  /\ UNCHANGED <<dbAssets, assets, current, drafts, retryingTask, asking, faults>>

\* Any await of the run fails: the store is told first, then the row.
RunFails(i) ==
  /\ runs[i].phase \in {"persist", "request", "save", "finish"}
  /\ Fault
  /\ UpdateTask(i, "error")
  /\ runs' = [runs EXCEPT ![i].phase = "failing",
                          ![i].done = IF runs[i].phase = "persist" THEN {} ELSE @]
  /\ UNCHANGED <<dbAssets, dbTasks, assets, current, drafts, resume, videoBusy,
                 retryingTask, asking>>

\* The group a failed run leaves.  One that reported no saved shot leaves an
\* earlier offer; one that saved them all leaves nothing to complete.
OfferAfter(run) ==
  IF run.done = {} THEN resume
  ELSE IF run.done = Shots THEN none
  ELSE AfterEdit([group |-> run.group, request |-> run.intent.request,
                  project |-> run.intent.home],
                 run.intent.home, drafts[run.intent.home])

RunFailed(i) ==
  /\ runs[i].phase = "failing"
  /\ Goto(i, "failed")
  /\ \/ PersistTask(i, "error") /\ UNCHANGED faults
     \/ Fault /\ UNCHANGED dbTasks          \* only logged
  /\ IF runs[i].intent.by = "panel"
     THEN /\ resume' = OfferAfter(runs[i])
          /\ videoBusy' = FALSE
          /\ UNCHANGED retryingTask
     ELSE /\ retryingTask' = 0
          /\ UNCHANGED <<resume, videoBusy>>
  /\ UNCHANGED <<dbAssets, assets, tasks, current, drafts, asking>>

\* recordRetried: the row is marked if it can be, the page in any case.
MarkRetried(i) ==
  LET old == runs[i].intent.of IN
  /\ runs[i].phase = "mark"
  /\ Goto(i, "completed")
  /\ retryingTask' = 0
  /\ UpdateTask(old, "retried")
  /\ \/ dbTasks[old] # "absent" /\ PersistTask(old, "retried") /\ UNCHANGED faults
     \/ dbTasks[old] = "absent" /\ UNCHANGED <<dbTasks, faults>>
     \/ Fault /\ UNCHANGED dbTasks
  /\ UNCHANGED <<dbAssets, assets, current, drafts, resume, videoBusy, asking>>

RunStep ==
  /\ \E i \in DOMAIN runs :
       \/ PersistRunning(i) \/ ShotProduced(i) \/ SaveShot(i) \/ FinishRun(i)
       \/ RunFails(i) \/ RunFailed(i) \/ MarkRetried(i)
  /\ UNCHANGED <<reload, startupLoad, events, clicks>>

---------------------------------------------------------------------------
(* The user.                                                               *)

\* One billed shot starts at once, several ask first.
ClickRun(scope) ==
  /\ Spend(MaxVideoClicks)
  /\ ~videoBusy
  /\ scope = "resume" => Resumable
  /\ IF IsSingleton(BilledShots(scope))
     THEN /\ StartRun(PanelIntent(scope), current)
          /\ videoBusy' = TRUE
          /\ UNCHANGED asking
     ELSE /\ Len(asking) < 2
          /\ asking' = Append(asking, PanelIntent(scope))
          /\ UNCHANGED <<runs, tasks, videoBusy>>
  /\ UNCHANGED <<dbAssets, dbTasks, assets, reload, startupLoad, events, current, drafts, resume,
                 retryingTask, faults>>

ClickRetry(i) ==
  /\ Spend(MaxVideoClicks)
  /\ i \in DOMAIN runs
  /\ runs[i].project = current
  /\ tasks[i] = "error"
  /\ retryingTask = 0
  /\ Len(asking) < 2
  /\ asking' = Append(asking, [by |-> "retry", request |-> runs[i].intent.request,
                               group |-> runs[i].group, home |-> runs[i].project, of |-> i])
  /\ UNCHANGED <<rowVars, reload, startupLoad, events, current, drafts, resume, videoBusy,
                 retryingTask, runs, faults>>

\* Mutant of StillAllowed: the flag is not read again after the confirmation.
StillAllowedAsAsked(intent) ==
  IF intent.by = "panel" THEN TRUE
  ELSE retryingTask = 0 /\ tasks[intent.of] # "retried"

\* What has changed while the dialog was open: another run, another retry, the
\* task itself.  The panel's run goes to the project active by now, the retry
\* to the task's own.
StillAllowed(intent) ==
  IF intent.by = "panel" THEN ~videoBusy
  ELSE retryingTask = 0 /\ tasks[intent.of] # "retried"

Answer(k, agreed) ==
  LET intent == asking[k] IN
  /\ asking' = RemoveAt(asking, k)
  /\ IF agreed /\ StillAllowed(intent)
     THEN IF intent.by = "panel"
          THEN /\ StartRun(intent, current)
               /\ videoBusy' = TRUE
               /\ UNCHANGED retryingTask
          ELSE /\ StartRun(intent, intent.home)
               /\ retryingTask' = intent.of
               /\ UNCHANGED videoBusy
     ELSE UNCHANGED <<runs, tasks, videoBusy, retryingTask>>
  /\ UNCHANGED <<dbAssets, dbTasks, assets, reload, startupLoad, events, current, drafts, resume,
                 clicks, faults>>

EditForm(request) ==
  /\ Spend(MaxVideoClicks)
  /\ request # drafts[current]
  /\ drafts' = [drafts EXCEPT ![current] = request]
  /\ resume' = AfterEdit(resume, current, request)
  /\ UNCHANGED <<rowVars, reload, startupLoad, events, current, videoBusy, retryingTask, asking,
                 runs, faults>>

\* A switch that was under way settles: the form is the project's own draft.
SwitchTo(project) ==
  /\ Spend(MaxVideoClicks)
  /\ project # current
  /\ current' = project
  /\ resume' = AfterEdit(resume, project, drafts[project])
  /\ UNCHANGED <<rowVars, reload, startupLoad, events, drafts, videoBusy, retryingTask, asking,
                 runs, faults>>

RefreshHistory ==
  /\ Spend(MaxVideoClicks)
  /\ RequestReload({})
  /\ UNCHANGED <<rowVars, startupLoad, events, studioVars, faults>>

VideoNext ==
  \/ LibraryNext /\ UNCHANGED studioVars
  \/ RunStep
  \/ \E scope \in {"all", "resume"} : ClickRun(scope)
  \/ \E i \in TaskIds : ClickRetry(i)
  \/ \E k \in DOMAIN asking, agreed \in BOOLEAN : Answer(k, agreed)
  \/ \E request \in Requests : EditForm(request)
  \/ \E project \in VideoProjects : SwitchTo(project)
  \/ RefreshHistory

VideoSpec == VideoInit /\ [][VideoNext]_videoVars

---------------------------------------------------------------------------
(* Properties.                                                             *)

\* A run reported as successful has every shot of its form behind it, under its
\* own group and project and made from its own request, the ones it skipped
\* included: resuming never passes an older request's video off as this one's.
NothingSkippedUnpaid ==
  \A i \in DOMAIN runs : runs[i].phase \in {"mark", "completed"} =>
    \A s \in Shots : \E a \in dbAssets :
      /\ a.project = runs[i].project
      /\ a.group = runs[i].group
      /\ a.shot = s
      /\ a.request = runs[i].intent.request

\* However many dialogs are open and however often the page is left, the panel
\* has one paid run at a time and is free again when it ends.
PanelRuns == {i \in DOMAIN runs : runs[i].intent.by = "panel" /\ runs[i].phase \notin Ended}

PanelRunsOnce ==
  /\ \A i, j \in PanelRuns : i = j
  /\ videoBusy <=> PanelRuns # {}

\* What generateVideo.ts promises of a resumed group: no shot that is already
\* saved under it is requested again.
NoShotPaidTwice ==
  \A i \in DOMAIN runs : runs[i].phase = "request" =>
    NextShot(runs[i]) \notin {a.shot : a \in {b \in dbAssets : b.group = runs[i].group}}
=============================================================================
