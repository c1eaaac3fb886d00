------------------------------ MODULE Library ------------------------------
(***************************************************************************)
(* The window's library (store/useLibraryStore.ts, lib/dbWrite.ts and, of  *)
(* App.tsx, loadStartup and the history listener): the assets and tasks    *)
(* the pages show, the rows behind them, and the two reads that replace    *)
(* the first by the second.                                                *)
(*                                                                         *)
(* The local REST interface writes rows too and announces each by an event *)
(* with a growing revision; the window reloads and acknowledges.  Requests *)
(* for a reload join the one under way.  loadStartup, which the banner's   *)
(* button repeats, reads the history on its own and joins nothing.         *)
(*                                                                         *)
(* The session begins when the first startup has loaded the empty history. *)
(* No statement of the program deletes an asset or a task.                 *)
(***************************************************************************)
EXTENDS Window

CONSTANTS
  ShotCount,      \* shots of a video request
  VideoProjects,  \* projects whose videos are generated
  Requests,       \* contents of a video form
  MaxTasks,       \* bound on the tasks of a session
  MaxRevisions,   \* bound on the assets the REST interface produces
  MaxVideoClicks  \* bound on the user's operations

ASSUME LibraryAssumption ==
  /\ ShotCount \in Nat \ {0}
  /\ none \notin VideoProjects \cup Requests
  /\ MaxTasks \in Nat
  /\ MaxRevisions \in Nat
  /\ MaxVideoClicks \in Nat

VARIABLES
  dbAssets, dbTasks,  \* the rows
  assets, tasks,      \* what the pages show
  reload,             \* refreshLibraryHistory: the reload under way
  startupLoad,        \* loadStartup: its latest run, and the banner it may raise
  events              \* the listener: announced, heard, waiting and acknowledged

libraryVars == <<dbAssets, dbTasks, assets, tasks, reload, startupLoad, events>>

Shots == 1..ShotCount
TaskIds == 1..MaxTasks
Statuses == {"absent", "running", "success", "error", "retried"}

\* A video of a shot, or an asset the REST interface produced.
Assets == [project : VideoProjects \cup {none}, group : 0..MaxTasks,
           shot : 0..(ShotCount + MaxRevisions), request : Requests \cup {none}]

External(r) == [project |-> none, group |-> 0, shot |-> r, request |-> none]

LibraryTypeOK ==
  /\ dbAssets \subseteq Assets
  /\ assets \subseteq Assets
  /\ dbTasks \in [TaskIds -> Statuses]
  /\ tasks \in [TaskIds -> Statuses]
  /\ reload \in [phase : {"idle", "assets", "tasks", "deliver"}, seen : SUBSET Assets,
                 seenTasks : [TaskIds -> Statuses], queued : BOOLEAN,
                 acks : SUBSET (1..MaxRevisions)]
  /\ startupLoad \in [phase : {"idle", "assets", "tasks", "land"}, seen : SUBSET Assets,
                      seenTasks : [TaskIds -> Statuses], banner : BOOLEAN]
  /\ events \in [revision : 0..MaxRevisions, pending : 0..MaxRevisions,
                 timer : BOOLEAN, acked : 0..MaxRevisions]

NoTasks == [i \in TaskIds |-> "absent"]
IdleReload == [phase |-> "idle", seen |-> {}, seenTasks |-> NoTasks,
               queued |-> FALSE, acks |-> {}]

StartupAt(phase, banner) ==
  [phase |-> phase, seen |-> {}, seenTasks |-> NoTasks, banner |-> banner]

LibraryInit ==
  /\ dbAssets = {}
  /\ assets = {}
  /\ dbTasks = NoTasks
  /\ tasks = NoTasks
  /\ reload = IdleReload
  /\ startupLoad = StartupAt("idle", FALSE)
  /\ events = [revision |-> 0, pending |-> 0, timer |-> FALSE, acked |-> 0]

\* The operations of the library that others await.
PersistAssets(new) == dbAssets' = dbAssets \cup new
AddAssets(new) == assets' = assets \cup new
PersistTask(i, status) == dbTasks' = [dbTasks EXCEPT ![i] = status]
\* A task that a reload has dropped from memory stays dropped.
UpdateTask(i, status) ==
  tasks' = [tasks EXCEPT ![i] = IF @ = "absent" THEN @ ELSE status]

---------------------------------------------------------------------------
(* The reload.                                                             *)

\* Mutant of RequestReload: a reload under way answers for the new request too.
RequestReloadJoined(acks) ==
  reload' = IF reload.phase = "idle"
            THEN [IdleReload EXCEPT !.phase = "assets", !.acks = acks]
            ELSE [reload EXCEPT !.acks = @ \cup acks]

\* A request during a reload joins it, and makes it read everything again.
RequestReload(acks) ==
  reload' = IF reload.phase = "idle"
            THEN [IdleReload EXCEPT !.phase = "assets", !.acks = acks]
            ELSE [reload EXCEPT !.queued = TRUE, !.acks = @ \cup acks]

LoadAssetRows ==
  /\ reload.phase = "assets"
  /\ reload' = [reload EXCEPT !.phase = "tasks", !.seen = dbAssets]
  /\ UNCHANGED <<dbAssets, dbTasks, assets, tasks, startupLoad, events, clicks, faults>>

LoadTaskRows ==
  /\ reload.phase = "tasks"
  /\ reload' = [reload EXCEPT !.phase = "deliver", !.seenTasks = dbTasks]
  /\ UNCHANGED <<dbAssets, dbTasks, assets, tasks, startupLoad, events, clicks, faults>>

\* Both lists are replaced; then everyone who waited is answered, the listener
\* acknowledging the revision it had heard of when it asked.
Deliver ==
  /\ reload.phase = "deliver"
  /\ assets' = reload.seen
  /\ tasks' = reload.seenTasks
  /\ IF reload.queued
     THEN /\ reload' = [reload EXCEPT !.phase = "assets", !.queued = FALSE]
          /\ UNCHANGED events
     ELSE /\ reload' = IdleReload
          /\ events' = [events EXCEPT !.acked = Max(reload.acks \cup {@})]
  /\ UNCHANGED <<dbAssets, dbTasks, startupLoad, clicks, faults>>

\* Everyone who waited is refused, whatever had been queued meanwhile.
ReloadFails ==
  /\ reload.phase # "idle"
  /\ Fault
  /\ reload' = IdleReload
  /\ UNCHANGED <<dbAssets, dbTasks, assets, tasks, startupLoad, events, clicks>>

---------------------------------------------------------------------------
(* loadStartup, again.  Only its latest run writes anything.               *)

feedVars == <<dbAssets, dbTasks, reload, events>>

\* Nothing comes of it but the banner, whose first reason stays.
AppInfoFails ==
  /\ ~startupLoad.banner
  /\ Fault
  /\ startupLoad' = [startupLoad EXCEPT !.banner = TRUE]
  /\ UNCHANGED <<feedVars, assets, tasks, clicks>>

LoadAgain ==
  /\ startupLoad.banner
  /\ Spend(MaxVideoClicks)
  /\ startupLoad' = StartupAt("assets", FALSE)
  /\ UNCHANGED <<feedVars, assets, tasks, faults>>

StartupReads ==
  /\ \/ /\ startupLoad.phase = "assets"
        /\ startupLoad' = [startupLoad EXCEPT !.phase = "tasks", !.seen = dbAssets]
     \/ /\ startupLoad.phase = "tasks"
        /\ startupLoad' = [startupLoad EXCEPT !.phase = "land", !.seenTasks = dbTasks]
  /\ UNCHANGED <<feedVars, assets, tasks, clicks, faults>>

\* A history that cannot be read counts as an empty one.
StartupReadFails ==
  /\ startupLoad.phase \in {"assets", "tasks"}
  /\ Fault
  /\ startupLoad' = StartupAt("land", startupLoad.banner)
  /\ UNCHANGED <<feedVars, assets, tasks, clicks>>

\* The database, the settings or another store of the same step failed.
StartupFails ==
  /\ startupLoad.phase # "idle"
  /\ Fault
  /\ startupLoad' = StartupAt("idle", TRUE)
  /\ UNCHANGED <<feedVars, assets, tasks, clicks>>

\* Everything else is loaded: what the run has read replaces both lists.
StartupLands ==
  /\ startupLoad.phase = "land"
  /\ assets' = startupLoad.seen
  /\ tasks' = startupLoad.seenTasks
  /\ startupLoad' = StartupAt("idle", startupLoad.banner)
  /\ UNCHANGED <<feedVars, clicks, faults>>

---------------------------------------------------------------------------
(* The listener.                                                           *)

ProduceAsset ==
  /\ events.revision < MaxRevisions
  /\ events' = [events EXCEPT !.revision = @ + 1]
  /\ PersistAssets({External(events.revision + 1)})
  /\ UNCHANGED <<dbTasks, assets, tasks, reload, startupLoad, clicks, faults>>

\* Each event starts the debounce over; the newest revision is kept.
HearEvent ==
  /\ events.pending < events.revision
  /\ \E r \in events.pending + 1 .. events.revision :
       events' = [events EXCEPT !.pending = r, !.timer = TRUE]
  /\ UNCHANGED <<dbAssets, dbTasks, assets, tasks, reload, startupLoad, clicks, faults>>

DebounceFires ==
  /\ events.timer
  /\ events' = [events EXCEPT !.timer = FALSE]
  /\ RequestReload({events.pending})
  /\ UNCHANGED <<dbAssets, dbTasks, assets, tasks, startupLoad, clicks, faults>>

LibraryNext ==
  \/ LoadAssetRows \/ LoadTaskRows \/ Deliver \/ ReloadFails
  \/ AppInfoFails \/ LoadAgain \/ StartupReads \/ StartupReadFails \/ StartupFails
  \/ StartupLands
  \/ ProduceAsset \/ HearEvent \/ DebounceFires

---------------------------------------------------------------------------
(* Properties.                                                             *)

\* A revision is acknowledged only when everything produced up to it is on the
\* page, and only a startup's late read may take it off again: no reload, joined,
\* queued or failed, no paid run and no retry does.  (What such a startup puts on
\* the page, App.tsx:118, is an older history, or an empty one.)
AckedIsShown ==
  [][\/ StartupLands
     \/ \A r \in 1..events'.acked :
          \/ External(r) \in assets'
          \/ events'.acked = events.acked /\ External(r) \notin assets]_libraryVars
=============================================================================
