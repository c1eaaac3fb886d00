---------------------------- MODULE MediaImport ----------------------------
(***************************************************************************)
(* Importing references into a video shot (pages/VideoPanel.tsx,           *)
(* components/AssetImportPicker.tsx, components/MediaHostingDialog.tsx):   *)
(* local media are first uploaded to the hosting service the picker names, *)
(* so three awaits lie between the click and the shot it changes.  Until   *)
(* they are over the picker may be closed and opened again, the shot       *)
(* edited, a slow project switch settle and the service be replaced.       *)
(***************************************************************************)
EXTENDS Window, FiniteSets

CONSTANTS
  ImportProjects,  \* projects
  Endpoints,       \* hosting services
  ImportCount,     \* local media of each project
  MaxImportClicks  \* bound on the user's operations

ASSUME MediaImportAssumption ==
  /\ ImportProjects # {}
  /\ Endpoints # {}
  /\ none \notin Endpoints
  /\ ImportCount \in Nat \ {0}
  /\ MaxImportClicks \in Nat

VARIABLES
  onScreen,   \* the active project
  shotRefs,   \* per project, the media its target shot refers to
  chooser,    \* the import picker
  hosting,    \* the service stored, the one shown, the status read under way
  importing,  \* the handler behind the picker's button
  published,  \* publishedMedia: what has an address, by service
  sent        \* uploads: where to, and what was shown at the click

importVars == <<onScreen, shotRefs, chooser, hosting, importing, published, sent,
                clicks, faults>>

LocalMedia == [home : ImportProjects, number : 1..ImportCount]

ImportTypeOK ==
  /\ onScreen \in ImportProjects
  /\ shotRefs \in [ImportProjects -> SUBSET LocalMedia]
  /\ chooser \in [open : BOOLEAN, session : 0..MaxImportClicks, chosen : SUBSET LocalMedia]
  /\ hosting.stored \in Endpoints \cup {none}
  /\ hosting.shown \in Endpoints \cup {none}
  /\ hosting.status \in Endpoints \cup {none, "unread", "asked"}
  /\ importing.phase \in {"idle", "hosting", "uploading", "landing"}
  /\ importing.chosen \subseteq LocalMedia
  /\ \A p \in published : p.endpoint \in Endpoints /\ p.media \in LocalMedia
  /\ \A u \in sent : u.endpoint \in Endpoints

AtRest == [phase |-> "idle", append |-> FALSE, project |-> none, session |-> 0,
           was |-> {}, chosen |-> {}, shown |-> none, endpoint |-> none, got |-> {}]

ImportInit ==
  /\ onScreen = CHOOSE p \in ImportProjects : TRUE
  /\ shotRefs = [p \in ImportProjects |-> {}]
  /\ chooser = [open |-> FALSE, session |-> 0, chosen |-> {}]
  /\ hosting = [stored |-> CHOOSE e \in Endpoints : TRUE, shown |-> none, status |-> "unread"]
  /\ importing = AtRest
  /\ published = {}
  /\ sent = {}

---------------------------------------------------------------------------
(* The picker.                                                             *)

OpenChooser ==
  /\ Spend(MaxImportClicks)
  /\ ~chooser.open
  /\ chooser' = [chooser EXCEPT !.open = TRUE, !.chosen = {}]
  /\ hosting' = [hosting EXCEPT !.status = "asked"]
  /\ UNCHANGED <<onScreen, shotRefs, importing, published, sent, faults>>

\* The next apply belongs to another session; a status still on its way is
\* dropped.
Shut == [open |-> FALSE, session |-> chooser.session + 1, chosen |-> {}]
ShutHosting == [hosting EXCEPT !.status = "unread"]

CloseChooser ==
  /\ Spend(MaxImportClicks)
  /\ chooser.open
  /\ chooser' = Shut
  /\ hosting' = ShutHosting
  /\ UNCHANGED <<onScreen, shotRefs, importing, published, sent, faults>>

\* Only media of the active project are listed.
ToggleChosen(m) ==
  /\ chooser.open
  /\ Spend(MaxImportClicks)
  /\ m.home = onScreen
  /\ chooser' = [chooser EXCEPT !.chosen = IF m \in @ THEN @ \ {m} ELSE @ \cup {m}]
  /\ UNCHANGED <<onScreen, shotRefs, hosting, importing, published, sent, faults>>

ReadStatus ==
  /\ hosting.status = "asked"
  /\ hosting' = [hosting EXCEPT !.status = hosting.stored]
  /\ UNCHANGED <<onScreen, shotRefs, chooser, importing, published, sent, clicks, faults>>

ShowStatus ==
  /\ hosting.status \notin {"unread", "asked"}
  /\ hosting' = [hosting EXCEPT !.shown = hosting.status, !.status = "unread"]
  /\ UNCHANGED <<onScreen, shotRefs, chooser, importing, published, sent, clicks, faults>>

\* The dialog saves another service, and the picker shows it.
SaveHosting(endpoint) ==
  /\ chooser.open
  /\ Spend(MaxImportClicks)
  /\ endpoint # hosting.stored
  /\ hosting' = [hosting EXCEPT !.stored = endpoint, !.shown = endpoint]
  /\ UNCHANGED <<onScreen, shotRefs, chooser, importing, published, sent, faults>>

---------------------------------------------------------------------------
(* applyImportedVideoAssets.                                               *)

Unpublished(chosen, endpoint) ==
  {m \in chosen : [endpoint |-> endpoint, media |-> m] \notin published}

\* What the shot refers to once the import is in.
Resolved(append, was, chosen) == IF append THEN was \cup chosen ELSE chosen

Land(project, refs) ==
  /\ shotRefs' = [shotRefs EXCEPT ![project] = refs]
  /\ chooser' = Shut
  /\ importing' = AtRest

\* Media with an address need no upload, and their import no await.
PressApply(append) ==
  /\ Spend(MaxImportClicks)
  /\ chooser.open
  /\ chooser.chosen # {}
  /\ importing.phase = "idle"
  /\ IF Unpublished(chooser.chosen, hosting.shown) = {}
     THEN /\ Land(onScreen, Resolved(append, shotRefs[onScreen], chooser.chosen))
          /\ hosting' = ShutHosting
     ELSE /\ importing' = [AtRest EXCEPT !.phase = "hosting", !.append = append,
                             !.project = onScreen, !.session = chooser.session,
                             !.was = shotRefs[onScreen], !.chosen = chooser.chosen,
                             !.shown = hosting.shown]
          /\ UNCHANGED <<shotRefs, chooser, hosting>>
  /\ UNCHANGED <<onScreen, published, sent, faults>>

\* Mutant of ImportStillHere: the project alone is compared after an upload.
ImportInProject == onScreen = importing.project

ImportStillHere ==
  /\ onScreen = importing.project
  /\ chooser.session = importing.session
  /\ shotRefs[onScreen] = importing.was

\* Mutant of SameService: the media go wherever the settings point now.
AnyService == TRUE

\* The service is the one shown at the click, or none was shown then.
SameService == importing.shown \in {none, hosting.stored}

\* mediaHostingGet answers: another service is shown, and not used.
HostingKnown ==
  /\ importing.phase = "hosting"
  /\ hosting' = [hosting EXCEPT !.shown = hosting.stored]
  /\ importing' = IF SameService /\ ImportStillHere
                  THEN [importing EXCEPT !.phase = "uploading", !.endpoint = hosting.stored]
                  ELSE AtRest
  /\ UNCHANGED <<onScreen, shotRefs, chooser, published, sent, clicks, faults>>

\* publishMedia refuses when the service was replaced since; of several media
\* some may fail.
Upload ==
  /\ importing.phase = "uploading"
  /\ IF hosting.stored = importing.endpoint
     THEN \E got \in SUBSET Unpublished(importing.chosen, importing.shown) :
            /\ importing' = [importing EXCEPT !.phase = "landing", !.got = got]
            /\ sent' = sent \cup {[endpoint |-> hosting.stored, shown |-> importing.shown]}
            /\ IF got = Unpublished(importing.chosen, importing.shown)
               THEN UNCHANGED faults ELSE Fault
     ELSE importing' = AtRest /\ UNCHANGED <<sent, faults>>
  /\ UNCHANGED <<onScreen, shotRefs, chooser, hosting, published, clicks>>

\* The addresses are kept; they reach the shot if all are there and it still is.
Uploaded ==
  /\ importing.phase = "landing"
  /\ published' = published \cup {[endpoint |-> importing.endpoint, media |-> m] :
                                    m \in importing.got}
  /\ LET complete == \A m \in importing.chosen :
                       [endpoint |-> importing.endpoint, media |-> m] \in published'
     IN IF ImportStillHere /\ complete
        THEN /\ Land(onScreen, Resolved(importing.append, importing.was, importing.chosen))
             /\ hosting' = ShutHosting
        ELSE importing' = AtRest /\ UNCHANGED <<shotRefs, chooser, hosting>>
  /\ UNCHANGED <<onScreen, sent, clicks, faults>>

ImportFails ==
  /\ importing.phase \in {"hosting", "uploading"}
  /\ Fault
  /\ importing' = AtRest
  /\ UNCHANGED <<onScreen, shotRefs, chooser, hosting, published, sent, clicks>>

---------------------------------------------------------------------------
(* What happens meanwhile.                                                 *)

\* removeHostedVideo, behind the closed picker.
DropReference(m) ==
  /\ Spend(MaxImportClicks)
  /\ ~chooser.open
  /\ m \in shotRefs[onScreen]
  /\ shotRefs' = [shotRefs EXCEPT ![onScreen] = @ \ {m}]
  /\ UNCHANGED <<onScreen, chooser, hosting, importing, published, sent, faults>>

\* A switch settles: the forms move, and the picker starts over for the project.
ProjectSettles(project) ==
  /\ Spend(MaxImportClicks)
  /\ project # onScreen
  /\ onScreen' = project
  /\ chooser' = [chooser EXCEPT !.chosen = {}]
  /\ UNCHANGED <<shotRefs, hosting, importing, published, sent, faults>>

ImportNext ==
  \/ OpenChooser \/ CloseChooser \/ ReadStatus \/ ShowStatus
  \/ \E m \in LocalMedia : ToggleChosen(m) \/ DropReference(m)
  \/ \E endpoint \in Endpoints : SaveHosting(endpoint)
  \/ \E append \in BOOLEAN : PressApply(append)
  \/ HostingKnown \/ Upload \/ Uploaded \/ ImportFails
  \/ \E project \in ImportProjects : ProjectSettles(project)

ImportSpec == ImportInit /\ WindowInit /\ [][ImportNext]_importVars

---------------------------------------------------------------------------
(* Properties.                                                             *)

\* An import whose uploads took their time changes the shot only while its
\* picker is on screen, brings in media of the shot's own project only, and
\* appended to a shot neither loses what the shot has by now nor brings back
\* what the user has removed since the click.
ImportStaysCurrent ==
  [][\A p \in ImportProjects :
       importing' # importing /\ importing.phase # "idle" /\ shotRefs'[p] # shotRefs[p] =>
         /\ chooser.open
         /\ \A m \in shotRefs'[p] : m.home = p
         /\ importing.append =>
              /\ shotRefs[p] \subseteq shotRefs'[p]
              /\ shotRefs'[p] \ shotRefs[p] \subseteq importing.chosen]_importVars

\* Local media leave the machine only for the service that was on screen when
\* the user agreed, whoever replaced it between the click and the upload.
UploadsGoWhereShown == \A u \in sent : u.shown \in {none, u.endpoint}
=============================================================================
