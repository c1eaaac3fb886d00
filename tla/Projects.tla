------------------------------ MODULE Projects ------------------------------
(***************************************************************************)
(* The projects of the window (store/useProjectStore.ts,                   *)
(* store/projectDrafts.ts, App.tsx, components/ProjectSettingsPage.tsx,    *)
(* store/useGenerationImportQueue.ts): one chain of settings writes, the   *)
(* image and video forms that belong to one project at a time, the drafts  *)
(* of the projects the user has left, and the requests the asset page      *)
(* queues for the forms.                                                   *)
(*                                                                         *)
(* Every write awaits the backend, so clicks, typing and earlier writes    *)
(* interleave between its two statements.  What follows the second one     *)
(* (the store, the forms) runs before any other event and is one step.     *)
(***************************************************************************)
EXTENDS Window

CONSTANTS
  ProjectIds,      \* project identifiers (makeProject never repeats one)
  Profiles,        \* production profiles
  DefaultProfile,  \* the profile of a new project
  MaxProjectClicks \* bound on the user's operations

ASSUME ProjectsAssumption ==
  /\ DefaultProfile \in Profiles
  /\ none \notin ProjectIds
  /\ none \notin [text : ProjectIds \cup {none}, refs : ProjectIds \cup {none}]
  /\ MaxProjectClicks \in Nat

VARIABLES
  projects,   \* the store: list, profiles and active project
  rows,       \* the settings rows "projects" and "active_project"
  chain,      \* writeChain: operations queued, the head is the one that writes
  written,    \* the head has written its first row
  switchSeq,  \* the latest switch requested
  forms,      \* the image and video forms and the project they belong to
  stash,      \* drafts of the projects the user has left
  imports,    \* requests of the asset page, by project: pending, then waiting
  picker,     \* the project of the entries the import picker shows
  typing,     \* the project whose prompt text is not committed yet
  dialog,     \* the modal on top
  startup     \* loadStartup: latest run and how far it is

projectVars == <<projects, rows, chain, written, switchSeq, forms, stash,
                 imports, picker, typing, dialog, startup, clicks, faults>>

Owners == ProjectIds \cup {none}

\* What a form holds, named by the project it was written for: its text, and
\* the assets its references and shots point at.
Contents == [text : Owners, refs : Owners]
Blank == [text |-> none, refs |-> none]

\* Identifiers do not repeat.
Lists == {list \in Seq(ProjectIds) : IsInjective(list)}
Tables == [list : Lists, profile : [ProjectIds -> Profiles], active : Owners]

Operations == [kind : {"load", "create", "remove", "update", "switch"},
               project : Owners, profile : Profiles, seq : Nat]

Dialogs == [kind : {"none", "remove", "handoff", "settings"},
            project : Owners, profile : Profiles, saving : BOOLEAN]

Phases == {"loading", "loaded", "ready", "failed"}

ProjectsTypeOK ==
  /\ projects \in Tables
  /\ rows \in Tables
  /\ chain \in Seq(Operations)
  /\ written \in BOOLEAN
  /\ switchSeq \in Nat
  /\ forms \in [project : Owners, text : Owners, refs : Owners]
  /\ stash \in [ProjectIds -> Contents \cup {none}]
  /\ imports \in Seq(ProjectIds)
  /\ picker \in Owners
  /\ typing \in Owners
  /\ dialog \in Dialogs
  /\ startup \in [run : Nat, phase : Phases, banner : BOOLEAN]
  /\ clicks \in 0..MaxProjectClicks
  /\ faults \in 0..MaxFaults

Listed == ToSet(projects.list)
Active == IF projects.active \in Listed THEN projects.active ELSE none
Content == [text |-> forms.text, refs |-> forms.refs]
\* The filter takes away one entry at most, as identifiers do not repeat.
Without(list, id) ==
  IF id \in ToSet(list) THEN RemoveAt(list, CHOOSE i \in DOMAIN list : list[i] = id) ELSE list

Operation(kind, project, seq) ==
  [kind |-> kind, project |-> project, profile |-> DefaultProfile, seq |-> seq]

Closed == [kind |-> "none", project |-> none, profile |-> DefaultProfile, saving |-> FALSE]

ProjectsInit ==
  /\ projects = [list |-> <<>>, profile |-> [p \in ProjectIds |-> DefaultProfile],
                 active |-> none]
  /\ rows \in {r \in [list : {<<>>} \cup {<<p>> : p \in ProjectIds}
                             \cup {<<p, q>> : p \in ProjectIds, q \in ProjectIds},
                      profile : {[p \in ProjectIds |-> DefaultProfile]},
                      active : Owners] :
                 IsInjective(r.list) /\ r.active \in ToSet(r.list) \cup {none}}
  /\ chain = <<Operation("load", none, 1)>>
  /\ written = FALSE
  /\ switchSeq = 0
  /\ forms = [project |-> none, text |-> none, refs |-> none]
  /\ stash = [p \in ProjectIds |-> none]
  /\ imports = <<>>
  /\ picker = none
  /\ typing = none
  /\ dialog = Closed
  /\ startup \in [run : {1}, phase : {"loading"}, banner : BOOLEAN]
  /\ WindowInit

---------------------------------------------------------------------------
(* The write chain.                                                        *)

\* Identifiers that are in no list yet.
Fresh == ProjectIds \ (Listed \cup ToSet(rows.list) \cup {p \in ProjectIds : stash[p] # none})

Grown(table) ==
  {[table EXCEPT !.list = Append(@, p), !.profile[p] = DefaultProfile] : p \in Fresh}

Refilled(table) == IF table.list = <<>> THEN Grown(table) ELSE {table}

Emptied(table) == Grown([table EXCEPT !.list = <<>>])

\* The tables an operation may write: it reads the store when its turn comes.
\* A "projects" row that cannot be read counts as no projects.
Rewritten(op) ==
  CASE op.kind = "load" -> Refilled(rows) \cup (IF faults < MaxFaults THEN Emptied(rows) ELSE {})
    [] op.kind = "create" -> Grown(projects)
    [] op.kind = "remove" -> Refilled([projects EXCEPT !.list = Without(@, op.project)])
    [] op.kind = "update" -> {[projects EXCEPT !.profile =
                                [p \in ProjectIds |->
                                  IF p = op.project /\ p \in Listed THEN op.profile ELSE @[p]]]}
    [] op.kind = "switch" -> {projects}

WriteProjects ==
  /\ chain # <<>>
  /\ ~written
  /\ written' = TRUE
  /\ \E table \in Rewritten(Head(chain)) :
       rows' = [rows EXCEPT !.list = table.list, !.profile = table.profile]
  /\ faults' = IF Head(chain).kind = "load" /\ rows.list # <<>> /\ rows'.list # rows.list
               THEN faults + 1 ELSE faults
  /\ UNCHANGED <<projects, chain, switchSeq, forms, stash, imports, picker, typing,
                 dialog, startup, clicks>>

ActiveAfter(op) ==
  CASE op.kind = "load" -> IF rows.active \in ToSet(rows.list) THEN rows.active
                           ELSE Head(rows.list)
    [] op.kind = "create" -> Last(rows.list)
    [] op.kind = "remove" -> IF projects.active \in {op.project, none} THEN Head(rows.list)
                             ELSE projects.active
    [] op.kind = "update" -> IF projects.active = none THEN op.project ELSE projects.active
    [] op.kind = "switch" -> op.project

\* Mutant of MoveForms: the forms that are left are not stashed.
MoveFormsForgetful(target, removed) ==
  LET kept == IF removed = none THEN stash ELSE [stash EXCEPT ![removed] = none]
      draft == IF target = none \/ kept[target] = none THEN Blank ELSE kept[target]
  IN /\ forms' = [project |-> target, text |-> draft.text, refs |-> draft.refs]
     /\ stash' = IF target = none THEN kept ELSE [kept EXCEPT ![target] = none]
     /\ imports' = <<>>

\* stashProjectDrafts, dropProjectDraft, clearProjectScopedGenerationState and
\* restoreProjectDrafts, in this order.
MoveForms(target, removed) ==
  LET left == IF forms.project = none THEN stash
              ELSE [stash EXCEPT ![forms.project] = Content]
      kept == IF removed = none THEN left ELSE [left EXCEPT ![removed] = none]
      draft == IF target = none \/ kept[target] = none THEN Blank ELSE kept[target]
  IN /\ forms' = [project |-> target, text |-> draft.text, refs |-> draft.refs]
     /\ stash' = IF target = none THEN kept ELSE [kept EXCEPT ![target] = none]
     /\ imports' = <<>>

\* The settings page starts over when the project it shows is another object.
ShowSettings(project) ==
  [dialog EXCEPT !.kind = "settings", !.project = project,
                 !.profile = IF project = none THEN DefaultProfile ELSE projects'.profile[project]]

Refreshed(op, project) ==
  IF dialog.kind = "settings" /\ (project # dialog.project \/ op.kind \in {"load", "update"})
  THEN ShowSettings(project) ELSE dialog

\* Mutant of Settle: a switch that a later one overtook still moves the forms.
SettleOvertaken ==
  /\ written
  /\ LET op == Head(chain)
         project == IF ActiveAfter(op) \in ToSet(rows.list) THEN ActiveAfter(op) ELSE none
         superseded == op.kind = "switch" /\ op.seq # switchSeq
     IN
     /\ rows' = [rows EXCEPT !.active = ActiveAfter(op)]
     /\ projects' = IF superseded THEN projects ELSE rows'
     /\ IF op.kind \in {"load", "update"} THEN UNCHANGED <<forms, stash, imports>>
        ELSE MoveForms(project, IF op.kind = "remove" THEN op.project ELSE none)
     /\ dialog' = CASE op.kind = "create" -> ShowSettings(project)
                    [] op.kind = "update" -> Closed
                    [] OTHER -> Refreshed(op, project)
     /\ startup' = IF op.kind = "load" /\ op.seq = startup.run
                   THEN [startup EXCEPT !.phase = "loaded"] ELSE startup
  /\ chain' = Tail(chain)
  /\ written' = FALSE
  /\ UNCHANGED <<switchSeq, picker, typing, clicks, faults>>

\* The second row is written: the store follows, then whoever awaited it.  A
\* superseded switch has written its row and changes nothing else.
Settle ==
  /\ written
  /\ LET op == Head(chain)
         project == IF ActiveAfter(op) \in ToSet(rows.list) THEN ActiveAfter(op) ELSE none
         superseded == op.kind = "switch" /\ op.seq # switchSeq
     IN
     /\ rows' = [rows EXCEPT !.active = ActiveAfter(op)]
     /\ projects' = IF superseded THEN projects ELSE rows'
     /\ IF superseded \/ op.kind \in {"load", "update"} THEN UNCHANGED <<forms, stash, imports>>
        ELSE MoveForms(project, IF op.kind = "remove" THEN op.project ELSE none)
     /\ dialog' = CASE superseded -> dialog
                    [] op.kind = "create" -> ShowSettings(project)
                    [] op.kind = "update" -> Closed
                    [] OTHER -> Refreshed(op, project)
     /\ startup' = IF op.kind = "load" /\ op.seq = startup.run
                   THEN [startup EXCEPT !.phase = "loaded"] ELSE startup
  /\ chain' = Tail(chain)
  /\ written' = FALSE
  /\ UNCHANGED <<switchSeq, picker, typing, clicks, faults>>

\* A statement fails: the store keeps what it had, the caller shows the error.
Reject ==
  /\ chain # <<>>
  /\ Fault
  /\ LET op == Head(chain) IN
     /\ startup' = IF op.kind = "load" /\ op.seq = startup.run
                   THEN [startup EXCEPT !.phase = "failed", !.banner = TRUE] ELSE startup
     /\ dialog' = IF op.kind = "update" THEN [dialog EXCEPT !.saving = FALSE] ELSE dialog
  /\ chain' = Tail(chain)
  /\ written' = FALSE
  /\ UNCHANGED <<projects, rows, switchSeq, forms, stash, imports, picker, typing, clicks>>

---------------------------------------------------------------------------
(* Startup and its retry.                                                  *)

\* The other loads are done: forms that no project has taken are bound.
FinishStartup ==
  /\ startup.phase = "loaded"
  /\ startup' = [startup EXCEPT !.phase = "ready"]
  /\ forms' = IF Active # none THEN [forms EXCEPT !.project = Active] ELSE forms
  /\ UNCHANGED <<projects, rows, chain, written, switchSeq, stash, imports, picker,
                 typing, dialog, clicks, faults>>

Click ==
  /\ Spend(MaxProjectClicks)
  /\ dialog.kind = "none"
  /\ typing = none            \* leaving the prompt field commits it

RetryStartup ==
  /\ Click
  /\ startup.banner
  /\ startup' = [run |-> startup.run + 1, phase |-> "loading", banner |-> FALSE]
  /\ chain' = Append(chain, Operation("load", none, startup.run + 1))
  /\ UNCHANGED <<projects, rows, written, switchSeq, forms, stash, imports, picker,
                 typing, dialog, faults>>

---------------------------------------------------------------------------
(* The project switcher and the production profile.                        *)

SwitchProject(id) ==
  /\ Click
  /\ id \in Listed
  /\ id # projects.active
  /\ switchSeq' = switchSeq + 1
  /\ chain' = Append(chain, Operation("switch", id, switchSeq + 1))
  /\ UNCHANGED <<projects, rows, written, forms, stash, imports, picker, typing,
                 dialog, startup, faults>>

CreateProject ==
  /\ Click
  /\ chain' = Append(chain, Operation("create", none, 0))
  /\ UNCHANGED <<projects, rows, written, switchSeq, forms, stash, imports, picker,
                 typing, dialog, startup, faults>>

RemoveProject ==
  /\ Click
  /\ projects.active # none
  /\ dialog' = [dialog EXCEPT !.kind = "remove", !.project = projects.active]
  /\ UNCHANGED <<projects, rows, chain, written, switchSeq, forms, stash, imports,
                 picker, typing, startup, faults>>

\* The project removed is the one that was active when the dialog opened.
AnswerRemove(agreed) ==
  /\ dialog.kind = "remove"
  /\ dialog' = [dialog EXCEPT !.kind = "none", !.project = none]
  /\ chain' = IF agreed THEN Append(chain, Operation("remove", dialog.project, 0)) ELSE chain
  /\ UNCHANGED <<projects, rows, written, switchSeq, forms, stash, imports, picker,
                 typing, startup, clicks, faults>>

OpenSettings ==
  /\ Click
  /\ Active # none
  /\ dialog' = [dialog EXCEPT !.kind = "settings", !.project = Active,
                              !.profile = projects.profile[Active]]
  /\ UNCHANGED <<projects, rows, chain, written, switchSeq, forms, stash, imports,
                 picker, typing, startup, faults>>

EditProfile(profile) ==
  /\ dialog.kind = "settings"
  /\ dialog.project # none
  /\ profile # dialog.profile
  /\ Spend(MaxProjectClicks)
  /\ dialog' = [dialog EXCEPT !.profile = profile]
  /\ UNCHANGED <<projects, rows, chain, written, switchSeq, forms, stash, imports,
                 picker, typing, startup, faults>>

SaveSettings ==
  /\ dialog.kind = "settings"
  /\ dialog.project # none
  /\ ~dialog.saving
  /\ dialog.profile # projects.profile[dialog.project]
  /\ dialog' = [dialog EXCEPT !.saving = TRUE]
  /\ chain' = Append(chain, [Operation("update", dialog.project, 0)
                               EXCEPT !.profile = dialog.profile])
  /\ UNCHANGED <<projects, rows, written, switchSeq, forms, stash, imports, picker,
                 typing, startup, clicks, faults>>

CloseSettings ==
  /\ dialog.kind = "settings"
  /\ dialog' = [Closed EXCEPT !.saving = dialog.saving]
  /\ UNCHANGED <<projects, rows, chain, written, switchSeq, forms, stash, imports,
                 picker, typing, startup, clicks, faults>>

---------------------------------------------------------------------------
(* The forms.                                                              *)

\* A keystroke waits in the prompt field for a pause (SHOT_PROMPT_DEBOUNCE_MS).
TypePrompt ==
  /\ Click
  /\ forms.project # none
  /\ typing' = forms.project
  /\ UNCHANGED <<projects, rows, chain, written, switchSeq, forms, stash, imports,
                 picker, dialog, startup, faults>>

\* The pause, or leaving the field: the text goes into the live shots.
CommitPrompt ==
  /\ typing # none
  /\ forms' = [forms EXCEPT !.text = typing]
  /\ typing' = none
  /\ UNCHANGED <<projects, rows, chain, written, switchSeq, stash, imports, picker,
                 dialog, startup, clicks, faults>>

QueueImport ==
  /\ Click
  /\ projects.active # none
  /\ imports' = Append(imports, projects.active)
  /\ UNCHANGED <<projects, rows, chain, written, switchSeq, forms, stash, picker,
                 typing, dialog, startup, faults>>

\* The form page takes the pending request, and drops one of another project.
TakeImport ==
  /\ imports # <<>>
  /\ picker' = IF Head(imports) = projects.active THEN Head(imports) ELSE picker
  /\ imports' = Tail(imports)
  /\ UNCHANGED <<projects, rows, chain, written, switchSeq, forms, stash, typing,
                 dialog, startup, clicks, faults>>

\* Mutant of ImportStillCurrent: the entries are applied whatever is active now.
ImportUnchecked == TRUE

\* Applying the picker re-checks, after its last await, that the project of
\* the entries is still the active one.
ImportStillCurrent == picker = projects.active

ApplyImport ==
  /\ picker # none
  /\ ImportStillCurrent
  /\ forms' = [forms EXCEPT !.refs = picker]
  /\ picker' = none
  /\ UNCHANGED <<projects, rows, chain, written, switchSeq, stash, imports, typing,
                 dialog, startup, clicks, faults>>

ClosePicker ==
  /\ picker # none
  /\ picker' = none
  /\ UNCHANGED <<projects, rows, chain, written, switchSeq, forms, stash, imports,
                 typing, dialog, startup, clicks, faults>>

\* sendStoryboardToVideo replaces every shot; written shots ask first.
SendStoryboard ==
  /\ Click
  /\ Active # none
  /\ IF forms.text # none
     THEN /\ dialog' = [dialog EXCEPT !.kind = "handoff", !.project = projects.active]
          /\ UNCHANGED forms
     ELSE /\ forms' = [forms EXCEPT !.text = projects.active, !.refs = projects.active]
          /\ UNCHANGED dialog
  /\ UNCHANGED <<projects, rows, chain, written, switchSeq, stash, imports, picker,
                 typing, startup, faults>>

AnswerHandoff(agreed) ==
  /\ dialog.kind = "handoff"
  /\ dialog' = [dialog EXCEPT !.kind = "none", !.project = none]
  /\ forms' = IF agreed /\ projects.active = dialog.project
              THEN [forms EXCEPT !.text = dialog.project, !.refs = dialog.project]
              ELSE forms
  /\ UNCHANGED <<projects, rows, chain, written, switchSeq, stash, imports, picker,
                 typing, startup, clicks, faults>>

ProjectsNext ==
  \/ WriteProjects \/ Settle \/ Reject \/ FinishStartup \/ RetryStartup
  \/ \E id \in ProjectIds : SwitchProject(id)
  \/ CreateProject \/ RemoveProject \/ OpenSettings \/ SaveSettings \/ CloseSettings
  \/ \E agreed \in BOOLEAN : AnswerRemove(agreed) \/ AnswerHandoff(agreed)
  \/ \E profile \in Profiles : EditProfile(profile)
  \/ TypePrompt \/ CommitPrompt \/ QueueImport \/ TakeImport \/ ApplyImport
  \/ ClosePicker \/ SendStoryboard

ProjectsSpec == ProjectsInit /\ [][ProjectsNext]_projectVars

---------------------------------------------------------------------------
(* Properties.                                                             *)

\* Once startup has bound the forms, they belong to the active project: no
\* sequence of switches, creations, removals and failures of the two writes
\* leaves one project selected over another project's forms.
FormsFollowActive ==
  startup.phase = "ready" /\ Active # none => forms.project = Active

\* What the image and video forms hold for a project survives until the
\* project is removed: leaving it, coming back, failing to leave it or creating
\* and removing others changes nothing.  Only an edit of the forms on screen
\* does, or a startup that binds them.
Held(p) == IF forms.project = p THEN Content
           ELSE IF stash[p] = none THEN Blank ELSE stash[p]

DraftsSurvive ==
  [][\A p \in ProjectIds :
       Held(p)' # Held(p) =>
         \/ UNCHANGED <<projects, startup>> /\ forms.project = p /\ forms'.project = p
         \/ p \notin Listed'
         \/ startup'.phase # startup.phase]_projectVars

\* References never cross projects: imports queued for, picked from or sent by
\* one project end up in its own forms or nowhere, however slow the switch
\* under way is.  (A startup that is about to bind the forms is excepted: a
\* retry may have found another active project.)
Crossed == \E p \in ProjectIds : Held(p).refs \notin {none, p}

ReferencesStayHome ==
  [][Crossed' => Crossed \/ startup' # startup \/ startup.phase = "loaded"]_projectVars
=============================================================================
