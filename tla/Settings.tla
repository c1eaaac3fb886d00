------------------------------ MODULE Settings ------------------------------
(***************************************************************************)
(* The settings page (components/SettingsPage.tsx) over the stored         *)
(* settings and the configuration of the backend (lib/settings.ts): the    *)
(* page reads the stored settings when it opens, the user edits profiles   *)
(* and chooses the default one, and saving writes the settings and then    *)
(* hands the default profile to the backend.                               *)
(*                                                                         *)
(* A profile is its id and the count of the user's edit that last wrote    *)
(* it.  The page stays mounted while it is closed, so answers land later.  *)
(* The global fields behave like one more profile and are left out, like   *)
(* the catalogs of models; no two saves ever run at once.                  *)
(***************************************************************************)
EXTENDS Window

CONSTANTS
  FirstProfiles,     \* profiles stored at the start
  MaxSettingsClicks  \* bound on the user's operations

ASSUME SettingsAssumption == FirstProfiles \in Nat /\ MaxSettingsClicks \in Nat

VARIABLES
  settings,   \* the row of the table: profiles and the default one
  config,     \* the profile the backend uses
  settingsPage,      \* the settings page
  reads,      \* reads of the row under way
  saving      \* the save under way

settingsVars == <<settings, config, settingsPage, reads, saving, clicks, faults>>
SettingsClick == Spend(MaxSettingsClicks) /\ UNCHANGED faults
SettingsIdle == UNCHANGED <<clicks, faults>>

ProfileIds(profiles) == {profiles[i].id : i \in DOMAIN profiles}
FirstId(profiles) == IF profiles = <<>> THEN 0 ELSE profiles[1].id
\* The default profile, or the first one.
Applied(s) ==
  IF s.active \in ProfileIds(s.profiles)
  THEN SelectSeq(s.profiles, LAMBDA p : p.id = s.active)[1]
  ELSE IF s.profiles = <<>> THEN none ELSE s.profiles[1]

---------------------------------------------------------------------------
(* Opening and closing.                                                    *)

\* loadForm: the form stays hidden until the row has been read.
LoadForm(p) == [p EXCEPT !.request = @ + 1, !.loaded = FALSE, !.failed = FALSE]
Reading(p) == reads \cup {[request |-> p.request, read |-> none, behind |-> FALSE]}

OpenPage ==
  /\ SettingsClick
  /\ ~settingsPage.open
  /\ settingsPage' = LoadForm([settingsPage EXCEPT !.open = TRUE, !.profiles = <<>>,
                                                  !.dirty = FALSE, !.removed = FALSE])
  /\ reads' = Reading(settingsPage')
  /\ UNCHANGED <<settings, config, saving>>

RetryLoad ==
  /\ SettingsClick
  /\ settingsPage.open /\ settingsPage.failed
  /\ settingsPage' = LoadForm(settingsPage) /\ reads' = Reading(settingsPage')
  /\ UNCHANGED <<settings, config, saving>>

\* The user has confirmed that unsaved changes may go.
ClosePage ==
  /\ SettingsClick
  /\ settingsPage.open
  /\ settingsPage' = [settingsPage EXCEPT !.open = FALSE]
  /\ UNCHANGED <<settings, config, reads, saving>>

\* loadSettings; the read is behind a save that has not written the row yet.
RowRead(r) ==
  /\ r.read = none
  /\ reads' = (reads \ {r}) \cup {[r EXCEPT !.read = settings, !.behind = saving.phase = "asked"]}
  /\ SettingsIdle /\ UNCHANGED <<settings, config, settingsPage, saving>>

FormLoaded(r) ==
  /\ r.read # none
  /\ reads' = reads \ {r}
  /\ settingsPage' =
       IF r.request # settingsPage.request THEN settingsPage
       ELSE [settingsPage EXCEPT !.profiles = r.read.profiles, !.active = r.read.active,
                                 !.selected = IF r.read.active # 0 THEN r.read.active ELSE FirstId(r.read.profiles),
                                 !.dirty = FALSE, !.loaded = TRUE, !.behind = r.behind]
  /\ SettingsIdle /\ UNCHANGED <<settings, config, saving>>

ReadFails(r) ==
  /\ r.read = none
  /\ reads' = reads \ {r}
  /\ settingsPage' = [settingsPage EXCEPT !.failed = @ \/ r.request = settingsPage.request]
  /\ Fault /\ UNCHANGED <<clicks, settings, config, saving>>

---------------------------------------------------------------------------
(* Editing.                                                                *)

FormShown == settingsPage.open /\ settingsPage.loaded
Marked(p) == [p EXCEPT !.dirty = TRUE, !.edits = @ + 1]

SelectProfile(id) ==
  /\ SettingsClick
  /\ FormShown /\ id \in ProfileIds(settingsPage.profiles) /\ id # settingsPage.selected
  /\ settingsPage' = [settingsPage EXCEPT !.selected = id]
  /\ UNCHANGED <<settings, config, reads, saving>>

AddConfig ==
  /\ SettingsClick
  /\ FormShown
  /\ LET id == FirstProfiles + clicks'
     IN settingsPage' = Marked([settingsPage EXCEPT !.selected = id,
                                  !.profiles = Append(@, [id |-> id, text |-> 0])])
  /\ UNCHANGED <<settings, config, reads, saving>>

UpdateSelected ==
  /\ SettingsClick
  /\ FormShown /\ settingsPage.selected \in ProfileIds(settingsPage.profiles)
  /\ settingsPage' = Marked([settingsPage EXCEPT !.profiles =
       [i \in DOMAIN @ |-> IF @[i].id = settingsPage.selected THEN [@[i] EXCEPT !.text = clicks'] ELSE @[i]]])
  /\ UNCHANGED <<settings, config, reads, saving>>

RemoveConfig(id) ==
  /\ SettingsClick
  /\ FormShown /\ id \in ProfileIds(settingsPage.profiles)
  /\ LET rest == SelectSeq(settingsPage.profiles, LAMBDA p : p.id # id)
     IN settingsPage' = Marked([settingsPage EXCEPT !.profiles = rest, !.removed = TRUE,
                           !.active = IF @ = id THEN FirstId(rest) ELSE @,
                           !.selected = IF @ = id THEN FirstId(rest) ELSE @])
  /\ UNCHANGED <<settings, config, reads, saving>>

---------------------------------------------------------------------------
(* Saving.                                                                 *)

NoSave == [phase |-> "none"]
HasChanges == settingsPage.dirty \/ settingsPage.removed

\* persist: the whole form as it is now, with the default the caller wants.
Persist(active, back) ==
  /\ saving' = [phase |-> "asked", row |-> [profiles |-> settingsPage.profiles, active |-> active],
                edits |-> settingsPage.edits, removed |-> settingsPage.removed, back |-> back]
  /\ settingsPage' = [settingsPage EXCEPT !.busy = TRUE, !.active = active]

PressSaveSettings ==
  /\ SettingsClick
  /\ FormShown /\ HasChanges /\ ~settingsPage.busy
  /\ Persist(settingsPage.active, settingsPage.active)
  /\ UNCHANGED <<settings, config, reads>>

\* The star moves at once.
SetDefault ==
  /\ SettingsClick
  /\ FormShown /\ ~settingsPage.busy
  /\ settingsPage.selected \in ProfileIds(settingsPage.profiles)
  /\ settingsPage.selected # (IF settingsPage.active = 0 THEN FirstId(settingsPage.profiles) ELSE settingsPage.active)
  /\ Persist(settingsPage.selected, settingsPage.active)
  /\ UNCHANGED <<settings, config, reads>>

RowWritten ==
  /\ saving.phase = "asked"
  /\ settings' = saving.row
  /\ saving' = [saving EXCEPT !.phase = "written"]
  /\ SettingsIdle /\ UNCHANGED <<config, settingsPage, reads>>

\* Mutant of Covered: a save marks the form clean, edits made meanwhile too.
CoveredAll(p, s) == [p EXCEPT !.dirty = FALSE, !.removed = FALSE]

\* The edits made while the save was under way were not part of it.
Covered(p, s) ==
  IF p.edits = s.edits THEN [p EXCEPT !.dirty = FALSE, !.removed = FALSE] ELSE p

\* applyActive: without a profile the backend keeps what it holds, unless the
\* user has deleted the last one.
SettingsSaved ==
  /\ saving.phase = "written"
  /\ config' = IF Applied(saving.row) # none THEN Applied(saving.row)
               ELSE IF saving.removed THEN none ELSE config
  /\ settingsPage' = [Covered(settingsPage, saving) EXCEPT !.busy = FALSE]
  /\ saving' = NoSave
  /\ SettingsIdle /\ UNCHANGED <<settings, reads>>

\* Mutant of SaveFails: the page stays busy after a failed save.
SaveFailsBusy ==
  /\ saving.phase # "none"
  /\ saving' = NoSave
  /\ settingsPage' = [settingsPage EXCEPT
                        !.active = IF saving.row.active # saving.back THEN saving.back ELSE @]
  /\ Fault /\ UNCHANGED <<clicks, settings, config, reads>>

\* The read, the write or the backend refuses; setDefault takes its star back.
SaveFails ==
  /\ saving.phase # "none"
  /\ saving' = NoSave
  /\ settingsPage' = [settingsPage EXCEPT !.busy = FALSE,
                        !.active = IF saving.row.active # saving.back THEN saving.back ELSE @]
  /\ Fault /\ UNCHANGED <<clicks, settings, config, reads>>

---------------------------------------------------------------------------
SettingsInit ==
  /\ LET profiles == [i \in 1..FirstProfiles |-> [id |-> i, text |-> 0]]
     IN settings = [profiles |-> profiles, active |-> FirstId(profiles)]
  /\ config = Applied(settings)
  /\ settingsPage = [open |-> FALSE, loaded |-> FALSE, failed |-> FALSE, request |-> 0, profiles |-> <<>>,
              active |-> 0, selected |-> 0, dirty |-> FALSE, removed |-> FALSE, busy |-> FALSE,
              edits |-> 0, behind |-> FALSE]
  /\ reads = {} /\ saving = NoSave

SettingsNext ==
  \/ OpenPage \/ RetryLoad \/ ClosePage
  \/ \E r \in reads : RowRead(r) \/ FormLoaded(r) \/ ReadFails(r)
  \/ \E id \in ProfileIds(settingsPage.profiles) : SelectProfile(id) \/ RemoveConfig(id)
  \/ AddConfig \/ UpdateSelected \/ PressSaveSettings \/ SetDefault
  \/ RowWritten \/ SettingsSaved \/ SaveFails

SettingsSpec == SettingsInit /\ WindowInit /\ [][SettingsNext]_settingsVars

---------------------------------------------------------------------------
SettingsTypeOK ==
  /\ settings.active \in 0..(FirstProfiles + MaxSettingsClicks)
  /\ settingsPage.busy <=> saving.phase # "none"
  /\ \A r \in reads : r.request \in 1..settingsPage.request

\* A form without unsaved changes shows the profiles that are stored: no edit is
\* ever taken for saved that no save carried, however edits, saves that fail half
\* way, reloads and late answers follow each other.  (A page opened again before
\* the save of its last visit had written may have read the row of before.)
CleanFormIsStored ==
  FormShown /\ ~settingsPage.busy /\ ~HasChanges /\ ~settingsPage.behind => settingsPage.profiles = settings.profiles
=============================================================================
