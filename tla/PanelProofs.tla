--------------------------- MODULE PanelProofs ----------------------------
(***************************************************************************)
(* Proofs about the panels that work on pictures and videos, MediaImport,  *)
(* ImageStudio, VideoStudio with the Library it writes to, and VideoForm,  *)
(* for any projects, services, media, requests, shots and number of clicks *)
(* and faults: an import leaves the machine for the service that was shown *)
(* and changes the shot only while it is still about it; late results are  *)
(* offered only where they were asked for, records name references that    *)
(* are there and the progress shown is the current run's; the library      *)
(* shows what it acknowledged, a resumed run skips only shots that were    *)
(* paid for and saved, and the panel has one run of its own; the backend   *)
(* accepts every form the panel submits.                                   *)
(***************************************************************************)
EXTENDS MediaImport, ImageStudio, VideoStudio, VideoForm, Storyboard,
        WellFoundedInduction, SequenceTheorems, FiniteSetTheorems, TLAPS

---------------------------------------------------------------------------
(* MediaImport.                                                            *)

Services == Endpoints \cup {none}

\* The shapes of the state.
Hostings == [stored : Services, shown : Services, status : Services \cup {"unread", "asked"}]
Choosers == [open : BOOLEAN, session : Nat, chosen : SUBSET LocalMedia]
Importings == [phase : {"idle", "hosting", "uploading", "landing"}, append : BOOLEAN,
               project : ImportProjects \cup {none}, session : Nat,
               was : SUBSET LocalMedia, chosen : SUBSET LocalMedia,
               shown : Services, endpoint : Services, got : SUBSET LocalMedia]

ImportShapes ==
  /\ onScreen \in ImportProjects
  /\ shotRefs \in [ImportProjects -> SUBSET LocalMedia]
  /\ chooser \in Choosers
  /\ hosting \in Hostings
  /\ importing \in Importings

\* Before it uploads, the handler has compared the service with the one shown.
ServiceCompared ==
  importing.phase = "uploading" => importing.shown \in {none, importing.endpoint}

\* Media stay with their project, in the shots, the picker and the handler.
RefsAtHome == \A p \in ImportProjects : \A m \in shotRefs[p] : m.home = p
ChosenAtHome == \A m \in chooser.chosen : m.home = onScreen
ImportAtHome == importing.phase # "idle" => \A m \in importing.chosen : m.home = importing.project

\* A session is not used again: the handler's is over, or the picker is open.
SessionOpen ==
  importing.phase # "idle" =>
    /\ importing.session <= chooser.session
    /\ importing.session = chooser.session => chooser.open

ImportInv ==
  /\ ImportShapes
  /\ ServiceCompared
  /\ RefsAtHome
  /\ ChosenAtHome
  /\ ImportAtHome
  /\ SessionOpen
  /\ UploadsGoWhereShown

---------------------------------------------------------------------------
\* The handler at rest and the picker shut have the right shapes.
LEMMA RestShape == AtRest \in Importings /\ AtRest.phase = "idle"
  BY DEF AtRest, Importings, Services

\* Shutting the picker ends its session.
LEMMA ShutShape ==
  ASSUME chooser \in Choosers
  PROVE  /\ Shut \in Choosers
         /\ Shut.chosen = {}
         /\ Shut.session = chooser.session + 1
  BY DEF Shut, Choosers

\* A status on its way is dropped.
LEMMA ShutHostingShape ==
  ASSUME hosting \in Hostings
  PROVE  ShutHosting \in Hostings
  BY DEF ShutHosting, Hostings

\* The initial states satisfy the invariant.
LEMMA InitImportInv == ImportInit => ImportInv
<1> SUFFICES ASSUME ImportInit PROVE ImportInv
  OBVIOUS
<1>1. onScreen \in ImportProjects
  BY MediaImportAssumption DEF ImportInit
<1>2. hosting \in Hostings
  <2>1. (CHOOSE e \in Endpoints : TRUE) \in Endpoints
    BY MediaImportAssumption
  <2> QED
    BY <2>1 DEF ImportInit, Hostings, Services
<1>3. chooser \in Choosers /\ chooser.chosen = {}
  BY DEF ImportInit, Choosers
<1>4. importing \in Importings /\ importing.phase = "idle"
  BY RestShape DEF ImportInit
<1>5. shotRefs = [p \in ImportProjects |-> {}] /\ sent = {}
  BY DEF ImportInit
<1> QED
  BY <1>1, <1>2, <1>3, <1>4, <1>5
  DEF ImportInv, ImportShapes, ServiceCompared, RefsAtHome, ChosenAtHome, ImportAtHome, SessionOpen,
      UploadsGoWhereShown

---------------------------------------------------------------------------
\* Landing keeps every part of the invariant that it touches, when what lands
\* belongs to the shot's project.
LEMMA LandImportInv ==
  ASSUME ImportInv,
         NEW refs \in SUBSET LocalMedia,
         \A m \in refs : m.home = onScreen,
         Land(onScreen, refs),
         hosting' = ShutHosting,
         onScreen' = onScreen, sent' = sent
  PROVE  ImportInv'
<1>1. chooser' \in Choosers /\ chooser'.chosen = {}
  BY ShutShape DEF Land, ImportInv, ImportShapes
<1>2. hosting' \in Hostings
  BY ShutHostingShape DEF ImportInv, ImportShapes
<1>3. importing' \in Importings /\ importing'.phase = "idle"
  BY RestShape DEF Land
<1>4. /\ shotRefs' \in [ImportProjects -> SUBSET LocalMedia]
      /\ RefsAtHome'
  BY DEF Land, ImportInv, ImportShapes, RefsAtHome
<1> QED
  BY <1>1, <1>2, <1>3, <1>4
  DEF ImportInv, ImportShapes, ServiceCompared, ChosenAtHome, ImportAtHome, SessionOpen,
      UploadsGoWhereShown

\* An import that gives up leaves the rest as it is.
LEMMA GiveUpImportInv ==
  ASSUME ImportInv, importing' = AtRest, hosting' \in Hostings,
         UNCHANGED <<onScreen, shotRefs, chooser, sent>>
  PROVE  ImportInv'
<1>1. importing' \in Importings /\ importing'.phase = "idle"
  BY RestShape
<1> QED
  BY <1>1
  DEF ImportInv, ImportShapes, ServiceCompared, RefsAtHome, ChosenAtHome, ImportAtHome, SessionOpen,
      UploadsGoWhereShown

\* The picker, the status and the dialog do not touch the handler.
LEMMA PickerImportInv ==
  ASSUME ImportInv,
         \/ OpenChooser \/ CloseChooser \/ ReadStatus \/ ShowStatus
         \/ \E m \in LocalMedia : ToggleChosen(m)
         \/ \E endpoint \in Endpoints : SaveHosting(endpoint)
  PROVE  ImportInv'
<1> USE DEF ImportInv, ImportShapes
<1>1. UNCHANGED <<onScreen, shotRefs, importing, sent>>
  BY DEF OpenChooser, CloseChooser, ReadStatus, ShowStatus, ToggleChosen, SaveHosting
<1>2. hosting' \in Hostings
  <2>1. CASE OpenChooser BY <2>1 DEF OpenChooser, Hostings, Services
  <2>2. CASE CloseChooser BY <2>2, ShutHostingShape DEF CloseChooser
  <2>3. CASE ReadStatus BY <2>3 DEF ReadStatus, Hostings, Services
  <2>4. CASE ShowStatus BY <2>4 DEF ShowStatus, Hostings, Services
  <2>5. CASE \E m \in LocalMedia : ToggleChosen(m) BY <2>5 DEF ToggleChosen
  <2>6. CASE \E endpoint \in Endpoints : SaveHosting(endpoint)
    BY <2>6 DEF SaveHosting, Hostings, Services
  <2> QED
    BY <2>1, <2>2, <2>3, <2>4, <2>5, <2>6
<1>3. /\ chooser' \in Choosers
      /\ ChosenAtHome'
      /\ SessionOpen'
  <2>1. CASE OpenChooser
    BY <2>1, <1>1 DEF OpenChooser, Choosers, ChosenAtHome, SessionOpen
  <2>2. CASE CloseChooser
    <3>1. /\ chooser' \in Choosers /\ chooser'.chosen = {}
          /\ chooser'.session = chooser.session + 1
      BY <2>2, ShutShape DEF CloseChooser
    <3>2. SessionOpen'
      BY <1>1, <3>1 DEF SessionOpen, Importings, Choosers
    <3> QED
      BY <3>1, <3>2 DEF ChosenAtHome
  <2>3. CASE UNCHANGED chooser
    BY <2>3, <1>1 DEF ChosenAtHome, SessionOpen
  <2>4. CASE \E m \in LocalMedia : ToggleChosen(m)
    BY <2>4, <1>1 DEF ToggleChosen, Choosers, ChosenAtHome, SessionOpen
  <2> QED
    BY <2>1, <2>2, <2>3, <2>4 DEF ReadStatus, ShowStatus, SaveHosting
<1> QED
  BY <1>1, <1>2, <1>3 DEF ServiceCompared, RefsAtHome, ImportAtHome, UploadsGoWhereShown

\* What an import brings in belongs to the project it was started in.
LEMMA ResolvedAtHome ==
  ASSUME NEW append \in BOOLEAN, NEW was \in SUBSET LocalMedia,
         NEW chosen \in SUBSET LocalMedia, NEW project,
         \A m \in was : m.home = project,
         \A m \in chosen : m.home = project
  PROVE  /\ Resolved(append, was, chosen) \in SUBSET LocalMedia
         /\ \A m \in Resolved(append, was, chosen) : m.home = project
  BY DEF Resolved

\* A click imports at once, or freezes what it saw for the handler.
LEMMA PressApplyImportInv ==
  ASSUME ImportInv, NEW append \in BOOLEAN, PressApply(append)
  PROVE  ImportInv'
<1> USE DEF ImportInv, ImportShapes
<1>1. /\ onScreen' = onScreen /\ sent' = sent /\ chooser.open
      /\ shotRefs[onScreen] \in SUBSET LocalMedia
      /\ \A m \in shotRefs[onScreen] : m.home = onScreen
      /\ chooser.chosen \in SUBSET LocalMedia
      /\ \A m \in chooser.chosen : m.home = onScreen
  BY DEF PressApply, RefsAtHome, ChosenAtHome, Choosers
<1>2. CASE Unpublished(chooser.chosen, hosting.shown) = {}
  <2> DEFINE refs == Resolved(append, shotRefs[onScreen], chooser.chosen)
  <2>1. Land(onScreen, refs) /\ hosting' = ShutHosting
    BY <1>2 DEF PressApply
  <2>2. refs \in SUBSET LocalMedia /\ \A m \in refs : m.home = onScreen
    BY <1>1, ResolvedAtHome
  <2> HIDE DEF refs
  <2> QED
    BY <1>1, <2>1, <2>2, LandImportInv
<1>3. CASE Unpublished(chooser.chosen, hosting.shown) # {}
  <2>1. /\ importing' = [AtRest EXCEPT !.phase = "hosting", !.append = append,
                             !.project = onScreen, !.session = chooser.session,
                             !.was = shotRefs[onScreen], !.chosen = chooser.chosen,
                             !.shown = hosting.shown]
        /\ UNCHANGED <<shotRefs, chooser, hosting>>
    BY <1>3 DEF PressApply
  <2>2. importing' = [phase |-> "hosting", append |-> append, project |-> onScreen,
                      session |-> chooser.session, was |-> shotRefs[onScreen],
                      chosen |-> chooser.chosen, shown |-> hosting.shown,
                      endpoint |-> none, got |-> {}]
    BY <2>1 DEF AtRest
  <2>3. importing' \in Importings
    BY <1>1, <2>2 DEF Importings, Hostings, Choosers, Services
  <2>4. /\ importing'.phase = "hosting" /\ importing'.session = chooser.session
        /\ importing'.chosen = chooser.chosen /\ importing'.project = onScreen
    BY <2>2
  <2> QED
    BY <1>1, <2>1, <2>3, <2>4
    DEF ServiceCompared, RefsAtHome, ChosenAtHome, ImportAtHome, SessionOpen,
        UploadsGoWhereShown, Choosers
<1> QED
  BY <1>2, <1>3

\* The service is compared once its answer is there.
LEMMA HostingKnownImportInv ==
  ASSUME ImportInv, HostingKnown
  PROVE  ImportInv'
<1> USE DEF ImportInv, ImportShapes
<1>1. hosting' \in Hostings
  BY DEF HostingKnown, Hostings, Services
<1>2. UNCHANGED <<onScreen, shotRefs, chooser, sent>>
  BY DEF HostingKnown
<1>3. CASE SameService /\ ImportStillHere
  <2>1. importing' = [importing EXCEPT !.phase = "uploading", !.endpoint = hosting.stored]
    BY <1>3 DEF HostingKnown
  <2>2. importing' \in Importings
    BY <2>1 DEF Importings, Hostings
  <2>3. /\ importing'.shown = importing.shown /\ importing'.endpoint = hosting.stored
        /\ importing'.session = importing.session /\ importing'.chosen = importing.chosen
        /\ importing'.project = importing.project
    BY <2>1 DEF Importings
  <2>4. importing.phase # "idle"
    BY DEF HostingKnown
  <2> QED
    BY <1>1, <1>2, <1>3, <2>2, <2>3, <2>4
    DEF ServiceCompared, RefsAtHome, ChosenAtHome, ImportAtHome, SessionOpen,
        UploadsGoWhereShown, SameService
<1>4. CASE ~(SameService /\ ImportStillHere)
  BY <1>1, <1>2, <1>4, GiveUpImportInv DEF HostingKnown
<1> QED
  BY <1>3, <1>4

\* An upload goes to the service compared, or not at all.
LEMMA UploadImportInv ==
  ASSUME ImportInv, Upload
  PROVE  ImportInv'
<1> USE DEF ImportInv, ImportShapes
<1>1. UNCHANGED <<onScreen, shotRefs, chooser, hosting>> /\ importing.phase = "uploading"
  BY DEF Upload
<1>2. CASE hosting.stored = importing.endpoint
  <2>1. PICK got \in SUBSET Unpublished(importing.chosen, importing.shown) :
          /\ importing' = [importing EXCEPT !.phase = "landing", !.got = got]
          /\ sent' = sent \cup {[endpoint |-> hosting.stored, shown |-> importing.shown]}
    BY <1>2 DEF Upload
  <2>2. got \in SUBSET LocalMedia
    BY DEF Unpublished, Importings
  <2>3. importing' \in Importings
    BY <2>1, <2>2 DEF Importings
  <2>4. /\ importing'.phase = "landing" /\ importing'.session = importing.session
        /\ importing'.chosen = importing.chosen /\ importing'.project = importing.project
    BY <2>1 DEF Importings
  <2>5. UploadsGoWhereShown'
    BY <1>1, <1>2, <2>1 DEF UploadsGoWhereShown, ServiceCompared
  <2> QED
    BY <1>1, <2>3, <2>4, <2>5
    DEF ServiceCompared, RefsAtHome, ChosenAtHome, ImportAtHome, SessionOpen
<1>3. CASE hosting.stored # importing.endpoint
  BY <1>1, <1>3, GiveUpImportInv DEF Upload
<1> QED
  BY <1>2, <1>3

\* What was uploaded lands where it was asked for.
LEMMA UploadedImportInv ==
  ASSUME ImportInv, Uploaded
  PROVE  ImportInv'
<1> USE DEF ImportInv, ImportShapes
<1>1. /\ onScreen' = onScreen /\ sent' = sent
      /\ importing.phase # "idle"
  BY DEF Uploaded
<1>2. CASE importing' = AtRest /\ UNCHANGED <<shotRefs, chooser, hosting>>
  BY <1>1, <1>2, GiveUpImportInv
<1>3. CASE /\ ImportStillHere
           /\ Land(onScreen, Resolved(importing.append, importing.was, importing.chosen))
           /\ hosting' = ShutHosting
  <2> DEFINE refs == Resolved(importing.append, importing.was, importing.chosen)
  <2>1. /\ importing.append \in BOOLEAN
        /\ importing.was \in SUBSET LocalMedia /\ importing.chosen \in SUBSET LocalMedia
    BY DEF Importings
  <2>2. /\ \A m \in importing.was : m.home = onScreen
        /\ \A m \in importing.chosen : m.home = onScreen
    BY <1>1, <1>3 DEF ImportStillHere, RefsAtHome, ImportAtHome
  <2>3. refs \in SUBSET LocalMedia /\ \A m \in refs : m.home = onScreen
    BY <2>1, <2>2, ResolvedAtHome
  <2>4. Land(onScreen, refs)
    BY <1>3
  <2> HIDE DEF refs
  <2> QED
    BY <1>1, <1>3, <2>3, <2>4, LandImportInv
<1> QED
  BY <1>2, <1>3 DEF Uploaded

\* Failures, removed references and settled switches keep the invariant.
LEMMA MeanwhileImportInv ==
  ASSUME ImportInv,
         \/ ImportFails
         \/ \E m \in LocalMedia : DropReference(m)
         \/ \E project \in ImportProjects : ProjectSettles(project)
  PROVE  ImportInv'
<1> USE DEF ImportInv, ImportShapes
<1>1. CASE ImportFails
  BY <1>1, GiveUpImportInv DEF ImportFails
<1>2. CASE \E m \in LocalMedia : DropReference(m)
  BY <1>2
  DEF DropReference, ServiceCompared, RefsAtHome, ChosenAtHome, ImportAtHome, SessionOpen,
      UploadsGoWhereShown
<1>3. CASE \E project \in ImportProjects : ProjectSettles(project)
  BY <1>3
  DEF ProjectSettles, Choosers, ServiceCompared, RefsAtHome, ChosenAtHome, ImportAtHome,
      SessionOpen, UploadsGoWhereShown
<1> QED
  BY <1>1, <1>2, <1>3

---------------------------------------------------------------------------
\* The invariant is inductive.
LEMMA NextImportInv == ImportInv /\ [ImportNext]_importVars => ImportInv'
<1> SUFFICES ASSUME ImportInv, [ImportNext]_importVars PROVE ImportInv'
  OBVIOUS
<1>1. CASE UNCHANGED importVars
  BY <1>1
  DEF importVars, ImportInv, ImportShapes, ServiceCompared, RefsAtHome, ChosenAtHome, ImportAtHome,
      SessionOpen, UploadsGoWhereShown
<1>2. CASE \E append \in BOOLEAN : PressApply(append)
  BY <1>2, PressApplyImportInv
<1>3. CASE HostingKnown
  BY <1>3, HostingKnownImportInv
<1>4. CASE Upload
  BY <1>4, UploadImportInv
<1>5. CASE Uploaded
  BY <1>5, UploadedImportInv
<1>6. CASE \/ ImportFails
           \/ \E m \in LocalMedia : DropReference(m)
           \/ \E project \in ImportProjects : ProjectSettles(project)
  BY <1>6, MeanwhileImportInv
<1>7. CASE \/ OpenChooser \/ CloseChooser \/ ReadStatus \/ ShowStatus
           \/ \E m \in LocalMedia : ToggleChosen(m)
           \/ \E endpoint \in Endpoints : SaveHosting(endpoint)
  BY <1>7, PickerImportInv
<1> QED
  BY <1>1, <1>2, <1>3, <1>4, <1>5, <1>6, <1>7 DEF ImportNext

\* The invariant holds of every behaviour.
THEOREM ImportInvariant == ImportSpec => []ImportInv
<1>1. ImportInit => ImportInv
  BY InitImportInv
<1>2. ImportInv /\ [ImportNext]_importVars => ImportInv'
  BY NextImportInv
<1> QED
  BY <1>1, <1>2, PTL DEF ImportSpec

\* Local media are uploaded only to the service shown at the click, for any
\* number of services, media and interleaved replacements of the service.
THEOREM UploadsAgreed == ImportSpec => []UploadsGoWhereShown
<1>1. ImportInv => UploadsGoWhereShown
  BY DEF ImportInv
<1> QED
  BY <1>1, ImportInvariant, PTL

---------------------------------------------------------------------------
\* What a handler that slept may do to a shot.
LEMMA StepStaysCurrent ==
  ASSUME ImportInv, ImportNext,
         NEW p \in ImportProjects,
         importing' # importing, importing.phase # "idle", shotRefs'[p] # shotRefs[p]
  PROVE  /\ chooser.open
         /\ \A m \in shotRefs'[p] : m.home = p
         /\ importing.append =>
              /\ shotRefs[p] \subseteq shotRefs'[p]
              /\ shotRefs'[p] \ shotRefs[p] \subseteq importing.chosen
<1>1. ImportInv'
  BY NextImportInv
<1>2. \A m \in shotRefs'[p] : m.home = p
  BY <1>1 DEF ImportInv, RefsAtHome
<1>3. Uploaded
  <2>1. importing' # importing /\ shotRefs' # shotRefs /\ importing.phase # "idle"
    OBVIOUS
  <2> QED
    BY <2>1
    DEF ImportNext, OpenChooser, CloseChooser, ReadStatus, ShowStatus, ToggleChosen,
        DropReference, SaveHosting, PressApply, HostingKnown, Upload, ImportFails,
        ProjectSettles
<1>4. /\ ImportStillHere
      /\ shotRefs' = [shotRefs EXCEPT ![onScreen] =
                         Resolved(importing.append, importing.was, importing.chosen)]
  BY <1>3 DEF Uploaded, Land
<1>5. chooser.open
  BY <1>4 DEF ImportInv, SessionOpen, ImportStillHere
<1>6. p = onScreen /\ shotRefs[p] = importing.was
  BY <1>4 DEF ImportInv, ImportShapes, ImportStillHere
<1>7. shotRefs'[p] = Resolved(importing.append, importing.was, importing.chosen)
  BY <1>4, <1>6 DEF ImportInv, ImportShapes
<1> QED
  BY <1>2, <1>5, <1>6, <1>7 DEF Resolved

\* A late import changes the shot only on its own screen, brings in media of
\* the shot's project only, and loses nothing when it appends.
THEOREM ImportsStayCurrent == ImportSpec => ImportStaysCurrent
<1> DEFINE Late(p) == importing' # importing /\ importing.phase # "idle" /\ shotRefs'[p] # shotRefs[p]
           Fit(p) == /\ chooser.open
                     /\ \A m \in shotRefs'[p] : m.home = p
                     /\ importing.append =>
                          /\ shotRefs[p] \subseteq shotRefs'[p]
                          /\ shotRefs'[p] \ shotRefs[p] \subseteq importing.chosen
           Step == \A p \in ImportProjects : Late(p) => Fit(p)
<1>1. ImportInv /\ [ImportNext]_importVars => [Step]_importVars
  <2> SUFFICES ASSUME ImportInv, ImportNext, NEW p \in ImportProjects, Late(p)
               PROVE  Fit(p)
    OBVIOUS
  <2> QED
    BY StepStaysCurrent
<1> QED
  BY <1>1, ImportInvariant, PTL DEF ImportSpec, ImportStaysCurrent

---------------------------------------------------------------------------
(* Types of imports.                                                       *)

\* A session is over for a click, or for an import that took one.
SessionsPaid ==
  /\ clicks \in 0..MaxImportClicks
  /\ chooser.session + (IF importing.phase = "idle" THEN 0 ELSE 1) <= clicks

\* There is a service, and it is the one that uploads go to.
ServiceThere ==
  /\ hosting.stored \in Endpoints
  /\ importing.phase \in {"uploading", "landing"} => importing.endpoint \in Endpoints

AddressesTyped ==
  /\ \A p \in published : p.endpoint \in Endpoints /\ p.media \in LocalMedia
  /\ \A u \in sent : u.endpoint \in Endpoints

ImportTypeInv == SessionsPaid /\ ServiceThere /\ AddressesTyped

\* Every step keeps them.
LEMMA NextImportType ==
  ASSUME ImportShapes, ImportTypeInv, [ImportNext]_importVars
  PROVE  ImportTypeInv'
<1> USE DEF ImportTypeInv, SessionsPaid, ServiceThere, AddressesTyped
<1>1. /\ chooser.session \in Nat /\ clicks \in Nat /\ clicks <= MaxImportClicks
      /\ MaxImportClicks \in Nat
  BY MediaImportAssumption DEF ImportShapes, Choosers
<1>2. CASE UNCHANGED importVars
  BY <1>2 DEF importVars
<1>3. CASE \/ OpenChooser \/ ReadStatus \/ ShowStatus
           \/ \E m \in LocalMedia : ToggleChosen(m) \/ DropReference(m)
           \/ \E endpoint \in Endpoints : SaveHosting(endpoint)
           \/ \E project \in ImportProjects : ProjectSettles(project)
  <2>1. /\ clicks' = clicks \/ (clicks < MaxImportClicks /\ clicks' = clicks + 1)
        /\ UNCHANGED <<importing, published, sent>>
    BY <1>3 DEF OpenChooser, ReadStatus, ShowStatus, ToggleChosen, DropReference,
                SaveHosting, ProjectSettles, Spend
  <2>2. chooser'.session = chooser.session
    BY <1>3 DEF ImportShapes, Choosers, OpenChooser, ReadStatus, ShowStatus, ToggleChosen,
                DropReference, SaveHosting, ProjectSettles
  <2>3. hosting'.stored \in Endpoints
    BY <1>3 DEF ImportShapes, Hostings, OpenChooser, ReadStatus, ShowStatus, ToggleChosen,
                DropReference, SaveHosting, ProjectSettles
  <2> QED BY <1>1, <2>1, <2>2, <2>3
<1>4. CASE CloseChooser
  BY <1>1, <1>4 DEF CloseChooser, Spend, Shut, ShutHosting, ImportShapes, Hostings
<1>5. ASSUME NEW append \in BOOLEAN, PressApply(append) PROVE ImportTypeInv'
  <2>1. /\ clicks' = clicks + 1 /\ clicks < MaxImportClicks /\ importing.phase = "idle"
        /\ UNCHANGED <<published, sent>>
    BY <1>5 DEF PressApply, Spend
  <2>2. CASE /\ chooser' = Shut /\ importing' = AtRest /\ hosting' = ShutHosting
    BY <1>1, <2>1, <2>2 DEF Shut, AtRest, ShutHosting, ImportShapes, Hostings
  <2>3. CASE /\ UNCHANGED <<chooser, hosting>>
             /\ importing'.phase = "hosting"
    BY <1>1, <2>1, <2>3
  <2>4. importing' = [AtRest EXCEPT !.phase = "hosting", !.append = append,
                        !.project = onScreen, !.session = chooser.session,
                        !.was = shotRefs[onScreen], !.chosen = chooser.chosen,
                        !.shown = hosting.shown] => importing'.phase = "hosting"
    BY DEF AtRest
  <2> QED BY <1>5, <2>2, <2>3, <2>4 DEF PressApply, Land
<1>6. CASE HostingKnown \/ Upload \/ ImportFails
  <2>1. UNCHANGED <<chooser, published, clicks>> /\ importing.phase # "idle"
    BY <1>6 DEF HostingKnown, Upload, ImportFails
  <2>2. AtRest.phase = "idle"
    BY DEF AtRest
  <2>3. CASE HostingKnown
    <3>1. importing' = AtRest \/
          importing' = [importing EXCEPT !.phase = "uploading", !.endpoint = hosting.stored]
      BY <2>3 DEF HostingKnown
    <3>2. hosting'.stored = hosting.stored /\ sent' = sent
      BY <2>3 DEF HostingKnown, ImportShapes, Hostings
    <3>3. importing'.phase # "idle" => importing'.endpoint \in Endpoints
      BY <2>2, <3>1 DEF ImportShapes, Importings
    <3> QED BY <1>1, <2>1, <3>2, <3>3
  <2>4. CASE Upload /\ hosting.stored = importing.endpoint
    <3>1. PICK got : importing' = [importing EXCEPT !.phase = "landing", !.got = got]
      BY <2>4 DEF Upload
    <3>2. importing'.endpoint = importing.endpoint /\ hosting' = hosting
      BY <2>4, <3>1 DEF Upload, ImportShapes, Importings
    <3>3. \A u \in sent' : u.endpoint \in Endpoints
      <4>1. PICK one : one = [endpoint |-> hosting.stored, shown |-> importing.shown]
        OBVIOUS
      <4>2. sent' = sent \cup {one} /\ one.endpoint \in Endpoints
        BY <2>4, <4>1 DEF Upload
      <4> QED BY <4>2
    <3> QED BY <1>1, <2>1, <2>4, <3>2, <3>3
  <2>5. CASE ImportFails \/ (Upload /\ hosting.stored # importing.endpoint)
    <3>1. importing' = AtRest /\ UNCHANGED <<hosting, sent>>
      BY <2>5 DEF ImportFails, Upload
    <3> QED BY <1>1, <2>1, <2>2, <3>1
  <2> QED BY <1>6, <2>3, <2>4, <2>5
<1>7. CASE Uploaded
  <2>1. clicks' = clicks /\ sent' = sent /\ importing.phase = "landing"
    BY <1>7 DEF Uploaded
  <2>2. \A p \in published' : p.endpoint \in Endpoints /\ p.media \in LocalMedia
    <3>1. importing.endpoint \in Endpoints /\ importing.got \subseteq LocalMedia
      BY <2>1 DEF ImportShapes, Importings
    <3> QED BY <1>7, <3>1 DEF Uploaded
  <2>3. CASE chooser' = Shut /\ importing' = AtRest /\ hosting' = ShutHosting
    BY <1>1, <2>1, <2>2, <2>3 DEF Shut, AtRest, ShutHosting, ImportShapes, Hostings
  <2>4. CASE importing' = AtRest /\ UNCHANGED <<chooser, hosting>>
    BY <1>1, <2>1, <2>2, <2>4 DEF AtRest
  <2> QED BY <1>7, <2>3, <2>4 DEF Uploaded, Land
<1> QED
  BY <1>2, <1>3, <1>4, <1>5, <1>6, <1>7 DEF ImportNext

\* The initial states have them.
LEMMA InitImportType == ImportInit /\ WindowInit => ImportTypeInv
<1> SUFFICES ASSUME ImportInit, WindowInit PROVE ImportTypeInv
  OBVIOUS
<1>1. hosting.stored \in Endpoints
  <2>1. (CHOOSE e \in Endpoints : TRUE) \in Endpoints
    BY MediaImportAssumption
  <2> QED BY <2>1 DEF ImportInit
<1>2. clicks = 0 /\ chooser.session = 0 /\ importing.phase = "idle" /\ published = {} /\ sent = {}
  BY DEF ImportInit, WindowInit, AtRest
<1>3. SessionsPaid
  BY <1>2, MediaImportAssumption DEF SessionsPaid
<1> QED
  BY <1>1, <1>2, <1>3 DEF ImportTypeInv, ServiceThere, AddressesTyped

\* The types follow from the shapes and them.
LEMMA ImportTyped == ImportShapes /\ ImportTypeInv => ImportTypeOK
<1> SUFFICES ASSUME ImportShapes, ImportTypeInv PROVE ImportTypeOK
  OBVIOUS
<1>1. chooser \in [open : BOOLEAN, session : 0..MaxImportClicks, chosen : SUBSET LocalMedia]
  <2>1. chooser.session \in Nat /\ chooser.session <= MaxImportClicks /\ MaxImportClicks \in Nat
    BY MediaImportAssumption DEF ImportShapes, Choosers, ImportTypeInv, SessionsPaid
  <2>2. chooser.session \in 0..MaxImportClicks
    BY <2>1
  <2> QED BY <2>2 DEF ImportShapes, Choosers
<1>2. hosting.shown \in Services /\ hosting.status \in Services \cup {"unread", "asked"}
  BY DEF ImportShapes, Hostings
<1>3. importing.phase \in {"idle", "hosting", "uploading", "landing"} /\ importing.chosen \subseteq LocalMedia
  BY DEF ImportShapes, Importings
<1> QED
  BY <1>1, <1>2, <1>3 DEF ImportShapes, Services, ImportTypeInv, ServiceThere, AddressesTyped, ImportTypeOK

\* The form's media, the picker, the service and the uploads keep their types.
THEOREM ImportsAreTyped == ImportSpec => []ImportTypeOK
<1>1. ImportInit /\ WindowInit => ImportTypeInv
  BY InitImportType
<1>2. ImportInv /\ ImportTypeInv /\ [ImportNext]_importVars => ImportTypeInv'
  BY NextImportType DEF ImportInv
<1>3. ImportInv /\ ImportTypeInv => ImportTypeOK
  BY ImportTyped DEF ImportInv
<1> QED BY <1>1, <1>2, <1>3, ImportInvariant, PTL DEF ImportSpec

---------------------------------------------------------------------------
(* ImageStudio.                                                            *)

Entries == Templates \cup {none}

\* The shapes of the state.
Phases == {"idle", "listen", "persist", "request", "save", "finish", "failing"}
Waits == {"files", "download", "case", "optimize"}
StudioRuns == [phase : Phases, number : Nat, project : ImageProjects \cup {none}, form : PaintForms]
Panels == [busy : BOOLEAN, progress : Nat, batch : Nat]
Polishes == [open : BOOLEAN, session : Nat, source : Origins, asked : SUBSET Nat, result : Nat]
Shelves == [open : BOOLEAN, session : Nat, entry : Entries, busy : BOOLEAN,
            optimized : Entries]

ImageShapes ==
  /\ paintIn \in ImageProjects
  /\ paint \in [ImageProjects -> PaintForms]
  /\ \A w \in awaited : w.by \in Waits /\ w.entry \in Entries /\ w.prompt \in Origins
  /\ paintRun \in StudioRuns
  /\ paintShown \in Panels
  /\ \A g \in gallery : g.form \in PaintForms
  /\ polish \in Polishes
  /\ shelf \in Shelves

\* A form as it was taken into a run and kept with its pictures.
Backed(f) == f.sources \subseteq f.refs
CopiesBacked == Backed(paintRun.form) /\ \A g \in gallery : Backed(g.form)

\* The panel is busy exactly while a run is under way.
BusyIsRunning == paintShown.busy <=> paintRun.phase # "idle"

ImageInv ==
  /\ ImageShapes
  /\ SourcesBacked
  /\ CopiesBacked
  /\ BusyIsRunning
  /\ OffersBelong
  /\ ProgressIsCurrent

---------------------------------------------------------------------------
\* The initial states satisfy the invariant.
LEMMA InitImageInv == ImageInit => ImageInv
<1> SUFFICES ASSUME ImageInit PROVE ImageInv
  OBVIOUS
<1>1. paintIn \in ImageProjects
  BY ImageStudioAssumption DEF ImageInit
<1>2. EmptyPaint \in PaintForms /\ Backed(EmptyPaint)
  BY DEF EmptyPaint, PaintForms, Origins, Backed
<1>4. Idle \in StudioRuns /\ Idle.phase = "idle" /\ Idle.form = EmptyPaint
  BY <1>2 DEF Idle, StudioRuns, Phases
<1>5. paintShown \in Panels /\ ~paintShown.busy /\ paintShown.progress = 0
  BY DEF ImageInit, Panels
<1>6. polish \in Polishes /\ polish.result = 0
  BY DEF ImageInit, Polishes, Origins
<1>7. shelf \in Shelves /\ shelf.optimized = none
  BY DEF ImageInit, Shelves, Entries
<1>8. /\ paint = [p \in ImageProjects |-> EmptyPaint] /\ awaited = {}
      /\ paintRun = Idle /\ gallery = {}
  BY DEF ImageInit
<1> QED
  BY <1>1, <1>2, <1>4, <1>5, <1>6, <1>7, <1>8
  DEF ImageInv, ImageShapes, SourcesBacked, CopiesBacked, BusyIsRunning, OffersBelong,
      ProgressIsCurrent, Backed

---------------------------------------------------------------------------
(* What the operations make of a form.                                     *)

\* Editing the prompt keeps references and records.
LEMMA PromptForm ==
  ASSUME NEW f \in PaintForms, Backed(f), NEW prompt \in Origins, NEW template \in Entries
  PROVE  /\ [f EXCEPT !.prompt = prompt] \in PaintForms
         /\ Backed([f EXCEPT !.prompt = prompt])
         /\ [f EXCEPT !.prompt = prompt, !.template = template] \in PaintForms
         /\ Backed([f EXCEPT !.prompt = prompt, !.template = template])
  BY DEF PaintForms, Backed, Entries

\* References come with their records.
LEMMA ReferencedForm ==
  ASSUME NEW f \in PaintForms, Backed(f), NEW chosen \in SUBSET Paintings,
         NEW append \in BOOLEAN
  PROVE  /\ Referenced(f, chosen, append) \in PaintForms
         /\ Backed(Referenced(f, chosen, append))
<1>1. CASE append
  BY <1>1 DEF Referenced, PaintForms, Backed
<1>2. CASE ~append
  BY <1>2 DEF Referenced, PaintForms, Backed
<1> QED
  BY <1>1, <1>2

\* References leave with their records.
LEMMA RemovedForm ==
  ASSUME NEW f \in PaintForms, Backed(f), NEW gone
  PROVE  /\ [f EXCEPT !.refs = @ \ gone, !.sources = @ \ gone] \in PaintForms
         /\ Backed([f EXCEPT !.refs = @ \ gone, !.sources = @ \ gone])
         /\ [f EXCEPT !.refs = {}, !.sources = {}] \in PaintForms
         /\ Backed([f EXCEPT !.refs = {}, !.sources = {}])
  BY DEF PaintForms, Backed

\* A pick brings its records, or none.
LEMMA PickedForm ==
  ASSUME NEW f \in PaintForms, NEW entry \in Entries, NEW text \in Origins,
         NEW refs \in SUBSET Paintings
  PROVE  /\ Picked(f, entry, text, refs) \in PaintForms
         /\ Backed(Picked(f, entry, text, refs))
<1>1. CASE refs = {}
  BY <1>1 DEF Picked, PaintForms, Backed, Entries
<1>2. CASE refs # {}
  BY <1>2 DEF Picked, PaintForms, Backed, Entries
<1> QED
  BY <1>1, <1>2

\* Sessions are counted on.
LEMMA NextSessions ==
  ASSUME ImageShapes
  PROVE  polish.session + 1 \in Nat /\ shelf.session + 1 \in Nat
  BY DEF ImageShapes, Polishes, Shelves

\* A closed library offers nothing.
LEMMA ShelfClosedShape ==
  ASSUME ImageShapes
  PROVE  ShelfClosed \in Shelves /\ ShelfClosed.optimized = none
  BY NextSessions DEF ShelfClosed, ImageShapes, Shelves, Entries

\* Setting the form shown keeps all forms.
LEMMA SetPaintForms ==
  ASSUME ImageShapes, SourcesBacked, NEW f \in PaintForms, Backed(f), SetPaint(f)
  PROVE  paint' \in [ImageProjects -> PaintForms] /\ SourcesBacked'
  BY DEF ImageShapes, SourcesBacked, SetPaint, Backed

\* The form shown.
LEMMA ShownForm ==
  ASSUME ImageShapes, SourcesBacked
  PROVE  Shown \in PaintForms /\ Backed(Shown)
  BY DEF ImageShapes, SourcesBacked, Shown, Backed

---------------------------------------------------------------------------
(* The form and its references.                                            *)

\* Copies and the rest of the state stay as they are.
Aside == <<awaited, paintRun, paintShown, gallery, polish, shelf>>

\* A click on the page changes nothing but the form.
LEMMA PaintsImageInv ==
  ASSUME ImageInv, NEW f \in PaintForms, Backed(f), Paints(f)
  PROVE  ImageInv'
<1>1. SetPaint(f) /\ UNCHANGED paintIn /\ UNCHANGED Aside
  BY DEF Paints, Aside
<1>2. paint' \in [ImageProjects -> PaintForms] /\ SourcesBacked'
  BY <1>1, SetPaintForms DEF ImageInv
<1> QED
  BY <1>1, <1>2
  DEF ImageInv, ImageShapes, CopiesBacked, BusyIsRunning, OffersBelong, ProgressIsCurrent, Aside

\* The clicks that change the form.
LEMMA FormClicksImageInv ==
  ASSUME ImageInv,
         \/ TypeImagePrompt \/ RemoveReferences
         \/ \E chosen \in SUBSET Paintings, append \in BOOLEAN : ApplyReferences(chosen, append)
         \/ \E a \in Paintings : AddReferenceAsset(a) \/ RemoveReferenceAt(a)
         \/ \E g \in gallery : LoadImageAsset(g)
  PROVE  ImageInv'
<1>1. Shown \in PaintForms /\ Backed(Shown)
  BY ShownForm DEF ImageInv
<1>2. CASE TypeImagePrompt
  <2>1. "typed" \in Origins /\ none \in Entries
    BY DEF Origins, Entries
  <2> QED
    BY <1>1, <1>2, <2>1, PromptForm, PaintsImageInv DEF TypeImagePrompt
<1>3. CASE RemoveReferences
  BY <1>1, <1>3, RemovedForm, PaintsImageInv DEF RemoveReferences
<1>4. ASSUME NEW chosen \in SUBSET Paintings, NEW append \in BOOLEAN,
             ApplyReferences(chosen, append)
      PROVE  ImageInv'
  BY <1>1, <1>4, ReferencedForm, PaintsImageInv DEF ApplyReferences
<1>5. ASSUME NEW a \in Paintings, AddReferenceAsset(a)
      PROVE  ImageInv'
  BY <1>1, <1>5, ReferencedForm, PaintsImageInv DEF AddReferenceAsset
<1>6. ASSUME NEW a \in Paintings, RemoveReferenceAt(a)
      PROVE  ImageInv'
  BY <1>1, <1>6, RemovedForm, PaintsImageInv DEF RemoveReferenceAt
<1>7. ASSUME NEW g \in gallery, LoadImageAsset(g)
      PROVE  ImageInv'
  <2> DEFINE text == IF g.form.prompt = none THEN none ELSE "typed"
             f == [g.form EXCEPT !.prompt = text, !.template = none]
  <2>1. g.form \in PaintForms /\ Backed(g.form)
    BY DEF ImageInv, ImageShapes, CopiesBacked
  <2>2. text \in Origins /\ none \in Entries
    BY DEF Origins, Entries
  <2>3. f \in PaintForms /\ Backed(f)
    BY <2>1, <2>2, PromptForm
  <2>4. [g.form EXCEPT !.template = none, !.prompt = text] = f
    BY <2>1 DEF PaintForms
  <2>5. Paints(f)
    BY <1>7, <2>4 DEF LoadImageAsset
  <2> HIDE DEF f
  <2> QED
    BY <2>3, <2>5, PaintsImageInv
<1> QED
  BY <1>2, <1>3, <1>4, <1>5, <1>6, <1>7

\* What the tickets must be.
Waiting(w) == w.by \in Waits /\ w.entry \in Entries /\ w.prompt \in Origins

\* A ticket taken out or put in, with a library that offers what it offered.
LEMMA WaitsImageInv ==
  ASSUME ImageInv, NEW w, awaited' \subseteq awaited \cup {w}, Waiting(w),
         UNCHANGED <<paintIn, paint, paintRun, paintShown, gallery, polish>>,
         shelf' \in Shelves, shelf'.optimized = shelf.optimized, shelf'.entry = shelf.entry
  PROVE  ImageInv'
<1>1. \A v \in awaited' : v.by \in Waits /\ v.entry \in Entries /\ v.prompt \in Origins
  BY DEF ImageInv, ImageShapes, Waiting
<1> QED
  BY <1>1
  DEF ImageInv, ImageShapes, SourcesBacked, CopiesBacked, BusyIsRunning, OffersBelong,
      ProgressIsCurrent

\* Pictures and texts that are asked for.
LEMMA AskedImageInv ==
  ASSUME ImageInv, ImportFiles \/ PickAsReference \/ RunOptimize
  PROVE  ImageInv'
<1>1. shelf \in Shelves /\ shelf.entry \in Entries /\ shelf.entry \in Origins
  BY DEF ImageInv, ImageShapes, Shelves, Entries, Origins
<1>2. none \in Entries /\ none \in Origins
  BY DEF Entries, Origins
<1>3. CASE ImportFiles
  <2>1. PICK w : w = [Ticket("files") EXCEPT !.home = paintIn]
    OBVIOUS
  <2>2. Waiting(w)
    BY <1>2, <2>1 DEF Ticket, Waiting, Waits
  <2>3. /\ awaited' = awaited \cup {w} /\ shelf' = shelf
        /\ UNCHANGED <<paintIn, paint, paintRun, paintShown, gallery, polish>>
    BY <1>3, <2>1 DEF ImportFiles
  <2> QED BY <1>1, <2>2, <2>3, WaitsImageInv
<1>4. CASE PickAsReference
  <2>1. PICK w : w = [Ticket("download") EXCEPT !.session = shelf.session, !.entry = shelf.entry,
                                                !.prompt = shelf.entry]
    OBVIOUS
  <2>2. Waiting(w)
    BY <1>1, <2>1 DEF Ticket, Waiting, Waits
  <2>3. /\ awaited' = awaited \cup {w} /\ shelf' = [shelf EXCEPT !.busy = TRUE]
        /\ UNCHANGED <<paintIn, paint, paintRun, paintShown, gallery, polish>>
    BY <1>4, <2>1 DEF PickAsReference
  <2>4. shelf' \in Shelves /\ shelf'.optimized = shelf.optimized /\ shelf'.entry = shelf.entry
    BY <1>1, <2>3 DEF Shelves
  <2> QED BY <2>2, <2>3, <2>4, WaitsImageInv
<1>5. CASE RunOptimize
  <2>1. PICK w : w = [Ticket("optimize") EXCEPT !.entry = shelf.entry]
    OBVIOUS
  <2>2. Waiting(w)
    BY <1>1, <1>2, <2>1 DEF Ticket, Waiting, Waits
  <2>3. /\ awaited' = awaited \cup {w} /\ shelf' = [shelf EXCEPT !.busy = TRUE]
        /\ UNCHANGED <<paintIn, paint, paintRun, paintShown, gallery, polish>>
    BY <1>5, <2>1 DEF RunOptimize
  <2>4. shelf' \in Shelves /\ shelf'.optimized = shelf.optimized /\ shelf'.entry = shelf.entry
    BY <1>1, <2>3 DEF Shelves
  <2> QED BY <2>2, <2>3, <2>4, WaitsImageInv
<1> QED BY <1>3, <1>4, <1>5

Answered(w) ==
  \/ FilesImported(w) \/ CaseDownloaded(w) \/ CaseImported(w) \/ FetchFails(w)
  \/ OptimizeAnswers(w) \/ OptimizeFails(w)

\* Pictures and texts that arrive, and what they find.
LEMMA AnsweredImageInv ==
  ASSUME ImageInv, NEW w \in awaited, Answered(w)
  PROVE  ImageInv'
<1>1. Waiting(w) /\ shelf \in Shelves
  BY DEF ImageInv, ImageShapes, Waiting
<1>2. Shown \in PaintForms /\ Backed(Shown)
  BY ShownForm DEF ImageInv
<1>3. ASSUME awaited' = awaited \ {w}
      PROVE  \A v \in awaited' : v.by \in Waits /\ v.entry \in Entries /\ v.prompt \in Origins
  BY <1>3 DEF ImageInv, ImageShapes
<1>4. CASE FilesImported(w)
  <2>1. PICK a \in Paintings :
          IF paintIn = w.home THEN SetPaint(Referenced(Shown, {a}, FALSE))
          ELSE UNCHANGED paint
    BY <1>4 DEF FilesImported
  <2>2. paint' \in [ImageProjects -> PaintForms] /\ SourcesBacked'
    <3>1. Referenced(Shown, {a}, FALSE) \in PaintForms /\ Backed(Referenced(Shown, {a}, FALSE))
      BY <1>2, ReferencedForm
    <3>2. CASE SetPaint(Referenced(Shown, {a}, FALSE))
      BY <3>1, <3>2, SetPaintForms DEF ImageInv
    <3>3. CASE UNCHANGED paint
      BY <3>3 DEF ImageInv, ImageShapes, SourcesBacked
    <3> QED
      BY <2>1, <3>2, <3>3
  <2>3. awaited' = awaited \ {w} /\ UNCHANGED <<paintIn, paintRun, paintShown, gallery, polish, shelf>>
    BY <1>4 DEF FilesImported
  <2> QED
    BY <1>3, <2>2, <2>3
    DEF ImageInv, ImageShapes, CopiesBacked, BusyIsRunning, OffersBelong, ProgressIsCurrent
<1>5. CASE CaseDownloaded(w)
  <2>1. PICK v : v = [w EXCEPT !.by = "case", !.home = paintIn]
    OBVIOUS
  <2>2. /\ awaited' = (awaited \ {w}) \cup {v} /\ shelf' = shelf
        /\ UNCHANGED <<paintIn, paint, paintRun, paintShown, gallery, polish>>
    BY <1>5, <2>1 DEF CaseDownloaded
  <2>3. v.by \in {"case", w.by} /\ v.entry = w.entry /\ v.prompt = w.prompt
    BY <2>1
  <2>4. Waiting(v)
    BY <1>1, <2>3 DEF Waiting, Waits
  <2> QED BY <1>1, <2>2, <2>4, WaitsImageInv
<1>6. CASE CaseImported(w)
  <2>1. \/ UNCHANGED <<paint, shelf>>
        \/ /\ \E a \in Paintings : SetPaint(Picked(Shown, w.entry, w.prompt, {a}))
           /\ shelf' = ShelfClosed
    BY <1>6 DEF CaseImported
  <2>2. awaited' = awaited \ {w} /\ UNCHANGED <<paintIn, paintRun, paintShown, gallery, polish>>
    BY <1>6 DEF CaseImported
  <2>3. CASE UNCHANGED <<paint, shelf>>
    BY <1>1, <2>2, <2>3, WaitsImageInv
  <2>4. CASE /\ \E a \in Paintings : SetPaint(Picked(Shown, w.entry, w.prompt, {a}))
             /\ shelf' = ShelfClosed
    <3>1. PICK a \in Paintings : SetPaint(Picked(Shown, w.entry, w.prompt, {a}))
      BY <2>4
    <3>2. /\ Picked(Shown, w.entry, w.prompt, {a}) \in PaintForms
          /\ Backed(Picked(Shown, w.entry, w.prompt, {a}))
      BY <1>1, <1>2, PickedForm DEF Waiting
    <3>3. paint' \in [ImageProjects -> PaintForms] /\ SourcesBacked'
      BY <3>1, <3>2, SetPaintForms DEF ImageInv
    <3>4. shelf' \in Shelves /\ shelf'.optimized = none
      BY <2>4, ShelfClosedShape DEF ImageInv
    <3> QED
      BY <1>3, <2>2, <3>3, <3>4
      DEF ImageInv, ImageShapes, CopiesBacked, BusyIsRunning, OffersBelong, ProgressIsCurrent
  <2> QED
    BY <2>1, <2>3, <2>4
<1>7. CASE FetchFails(w) \/ OptimizeFails(w)
  <2>1. PICK busy \in BOOLEAN : shelf' = [shelf EXCEPT !.busy = busy]
    BY <1>1, <1>7 DEF FetchFails, OptimizeFails, Shelves
  <2>2. shelf' \in Shelves /\ shelf'.optimized = shelf.optimized /\ shelf'.entry = shelf.entry
    BY <1>1, <2>1 DEF Shelves
  <2>3. awaited' = awaited \ {w} /\ UNCHANGED <<paintIn, paint, paintRun, paintShown, gallery, polish>>
    BY <1>7 DEF FetchFails, OptimizeFails
  <2> QED BY <1>1, <2>2, <2>3, WaitsImageInv
<1>8. CASE OptimizeAnswers(w)
  <2>1. awaited' = awaited \ {w} /\ UNCHANGED <<paintIn, paint, paintRun, paintShown, gallery, polish>>
    BY <1>8 DEF OptimizeAnswers
  <2>2. shelf' = [shelf EXCEPT !.busy = FALSE,
                              !.optimized = IF shelf.entry = w.entry THEN w.entry ELSE @]
    BY <1>8 DEF OptimizeAnswers
  <2>3. /\ shelf' \in Shelves /\ shelf'.entry = shelf.entry
        /\ shelf'.optimized \in {none, shelf.entry}
    BY <1>1, <2>2 DEF Waiting, Shelves, ImageInv, OffersBelong
  <2> QED
    BY <1>3, <2>1, <2>3
    DEF ImageInv, ImageShapes, SourcesBacked, CopiesBacked, BusyIsRunning, OffersBelong,
        ProgressIsCurrent
<1> QED
  BY <1>4, <1>5, <1>6, <1>7, <1>8 DEF Answered

---------------------------------------------------------------------------
(* The run.                                                                *)

\* What neither the run nor its progress touches.
RunAside == <<paintIn, paint, awaited, polish, shelf>>

\* A run under way stays one, or leaves the panel free.
LEMMA RunImageInv ==
  ASSUME ImageInv, RunImage \/ RunAdvances \/ RunProgress \/ RunSaves \/ ImageRunFails \/ ImageRunEnds
  PROVE  ImageInv'
<1> USE DEF ImageInv, ImageShapes
<1>1. UNCHANGED RunAside
  BY DEF RunAside, RunImage, RunAdvances, RunProgress, RunSaves, ImageRunFails, ImageRunEnds
<1>2. /\ SourcesBacked' /\ OffersBelong'
      /\ paintIn' \in ImageProjects /\ paint' \in [ImageProjects -> PaintForms]
      /\ (\A w \in awaited : w.by \in Waits /\ w.entry \in Entries /\ w.prompt \in Origins)'
      /\ polish' \in Polishes /\ shelf' \in Shelves
  BY <1>1 DEF RunAside, SourcesBacked, OffersBelong
<1>3. /\ paintRun' \in StudioRuns /\ paintShown' \in Panels
      /\ (\A g \in gallery : g.form \in PaintForms)'
      /\ CopiesBacked' /\ BusyIsRunning' /\ ProgressIsCurrent'
  <2>1. CASE RunImage
    <3>1. Shown \in PaintForms /\ Backed(Shown)
      BY ShownForm
    <3>2. paintRun' \in StudioRuns /\ paintRun'.form = Shown /\ paintRun'.phase = "listen"
      BY <2>1, <3>1 DEF RunImage, StudioRuns, Phases
    <3>3. paintShown' \in Panels /\ paintShown'.busy /\ paintShown'.progress = 0
      BY <2>1 DEF RunImage, Panels
    <3> QED
      BY <2>1, <3>1, <3>2, <3>3 DEF RunImage, CopiesBacked, BusyIsRunning, ProgressIsCurrent
  <2>2. ASSUME NEW phase \in Phases \ {"idle"}, paintRun.phase # "idle", PaintGoto(phase)
        PROVE  /\ paintRun' \in StudioRuns /\ paintRun'.form = paintRun.form
               /\ paintRun'.phase # "idle" /\ paintRun'.number = paintRun.number
    BY <2>2 DEF PaintGoto, StudioRuns, Phases
  <2>3. CASE RunAdvances \/ ImageRunFails
    <3>1. /\ paintRun' \in StudioRuns /\ paintRun'.form = paintRun.form
          /\ paintRun'.phase # "idle" /\ paintRun'.number = paintRun.number
          /\ paintRun.phase # "idle"
      BY <2>2, <2>3 DEF RunAdvances, ImageRunFails, Phases
    <3> QED
      BY <2>3, <3>1
      DEF RunAdvances, ImageRunFails, CopiesBacked, BusyIsRunning, ProgressIsCurrent
  <2>4. CASE RunProgress
    <3>1. /\ paintShown' \in Panels /\ paintShown'.busy = paintShown.busy
          /\ paintShown'.progress = paintRun.number
          /\ paintRun.phase # "idle" /\ UNCHANGED <<paintRun, gallery>>
      BY <2>4 DEF RunProgress, Panels, StudioRuns
    <3> QED
      BY <3>1 DEF CopiesBacked, BusyIsRunning, ProgressIsCurrent
  <2>5. CASE RunSaves
    <3>1. /\ paintRun' \in StudioRuns /\ paintRun'.form = paintRun.form
          /\ paintRun'.phase # "idle" /\ paintRun'.number = paintRun.number
          /\ paintRun.phase # "idle"
      BY <2>2, <2>5 DEF RunSaves, Phases
    <3>2. /\ gallery' = gallery \cup {[project |-> paintRun.project, form |-> paintRun.form]}
          /\ UNCHANGED paintShown
          /\ paintRun.form \in PaintForms
      BY <2>5 DEF RunSaves, StudioRuns
    <3> QED
      BY <3>1, <3>2 DEF CopiesBacked, BusyIsRunning, ProgressIsCurrent
  <2>6. CASE ImageRunEnds
    <3>1. paintRun' \in StudioRuns /\ paintRun'.form = paintRun.form /\ paintRun'.phase = "idle"
      BY <2>6 DEF ImageRunEnds, PaintGoto, StudioRuns, Phases
    <3>2. paintShown' \in Panels /\ ~paintShown'.busy /\ paintShown'.progress = 0
      BY <2>6 DEF ImageRunEnds, Panels, StudioRuns
    <3> QED
      BY <2>6, <3>1, <3>2 DEF ImageRunEnds, CopiesBacked, BusyIsRunning, ProgressIsCurrent
  <2> QED
    BY <2>1, <2>3, <2>4, <2>5, <2>6
<1> QED
  BY <1>2, <1>3

\* A settled switch moves the page and clears the results shown.
LEMMA SwitchImageInv ==
  ASSUME ImageInv, NEW project \in ImageProjects, SwitchPaint(project)
  PROVE  ImageInv'
<1>1. /\ paintShown' \in Panels /\ paintShown'.busy = paintShown.busy
      /\ paintShown'.progress = paintShown.progress
  BY DEF SwitchPaint, ImageInv, ImageShapes, Panels
<1> QED
  BY <1>1
  DEF SwitchPaint, ImageInv, ImageShapes, SourcesBacked, CopiesBacked, BusyIsRunning, OffersBelong,
      ProgressIsCurrent

---------------------------------------------------------------------------
(* The dialogs.                                                            *)

\* The optimization dialog offers the answer of its own session.
LEMMA PolishImageInv ==
  ASSUME ImageInv,
         \/ OpenPolish \/ AskPolish \/ ClosePolish \/ AdoptPolish
         \/ \E session \in polish.asked : PolishAnswers(session)
  PROVE  ImageInv'
<1> USE DEF ImageInv, ImageShapes
<1>1. Shown \in PaintForms /\ Backed(Shown)
  BY ShownForm
<1>2. PolishClosed \in Polishes /\ PolishClosed.result = 0
  BY NextSessions DEF PolishClosed, Polishes
<1>3. UNCHANGED <<paintIn, awaited, paintRun, paintShown, gallery, shelf>>
  BY DEF OpenPolish, AskPolish, ClosePolish, AdoptPolish, PolishAnswers
<1>4. polish' \in Polishes /\ polish'.result \in {0, polish'.session}
  <2>1. CASE OpenPolish
    <3>1. Shown.prompt \in Origins
      BY <1>1 DEF PaintForms
    <3> QED
      BY <2>1, <3>1, NextSessions DEF OpenPolish, Polishes
  <2>2. CASE AskPolish
    BY <2>2 DEF AskPolish, Polishes, OffersBelong
  <2>3. CASE ClosePolish \/ AdoptPolish
    BY <2>3, <1>2 DEF ClosePolish, AdoptPolish
  <2>4. ASSUME NEW session \in polish.asked, PolishAnswers(session)
        PROVE  polish' \in Polishes /\ polish'.result \in {0, polish'.session}
    <3>1. session \in Nat
      BY DEF Polishes
    <3>2. CASE session = polish.session
      BY <2>4, <3>1, <3>2 DEF PolishAnswers, Polishes, OffersBelong
    <3>3. CASE session # polish.session
      BY <2>4, <3>1, <3>3 DEF PolishAnswers, Polishes, OffersBelong
    <3> QED
      BY <3>2, <3>3
  <2> QED
    BY <2>1, <2>2, <2>3, <2>4
<1>5. paint' \in [ImageProjects -> PaintForms] /\ SourcesBacked'
  <2>1. CASE UNCHANGED paint
    BY <2>1 DEF SourcesBacked
  <2>2. CASE AdoptPolish
    <3>1. polish.source \in Origins
      BY DEF Polishes
    <3>2. none \in Entries
      BY DEF Entries
    <3>3. /\ [Shown EXCEPT !.prompt = polish.source] \in PaintForms
          /\ Backed([Shown EXCEPT !.prompt = polish.source])
      BY <1>1, <3>1, <3>2, PromptForm
    <3> QED
      BY <2>2, <3>3, SetPaintForms DEF AdoptPolish
  <2> QED
    BY <2>1, <2>2 DEF OpenPolish, AskPolish, ClosePolish, PolishAnswers
<1> QED
  BY <1>3, <1>4, <1>5
  DEF CopiesBacked, BusyIsRunning, OffersBelong, ProgressIsCurrent

\* The library offers an optimized text under the entry it was made from.
LEMMA ShelfImageInv ==
  ASSUME ImageInv,
         \/ OpenShelf \/ CloseShelf \/ PickPrompt
         \/ \E entry \in Templates : OpenEntry(entry)
  PROVE  ImageInv'
<1> USE DEF ImageInv, ImageShapes
<1>1. Shown \in PaintForms /\ Backed(Shown)
  BY ShownForm
<1>2. ShelfClosed \in Shelves /\ ShelfClosed.optimized = none
  BY ShelfClosedShape
<1>3. UNCHANGED <<paintIn, awaited, paintRun, paintShown, gallery, polish>>
  BY DEF OpenShelf, CloseShelf, PickPrompt, OpenEntry
<1>4. shelf' \in Shelves /\ shelf'.optimized \in {none, shelf'.entry}
  <2>1. CASE OpenShelf
    BY <2>1, NextSessions DEF OpenShelf, Shelves, OffersBelong
  <2>2. CASE CloseShelf \/ PickPrompt
    BY <2>2, <1>2 DEF CloseShelf, PickPrompt
  <2>5. ASSUME NEW entry \in Templates, OpenEntry(entry)
        PROVE  shelf' \in Shelves /\ shelf'.optimized \in {none, shelf'.entry}
    BY <2>5 DEF OpenEntry, Shelves, Entries
  <2> QED
    BY <2>1, <2>2, <2>5
<1>5. paint' \in [ImageProjects -> PaintForms] /\ SourcesBacked'
  <2>1. CASE UNCHANGED paint
    BY <2>1 DEF SourcesBacked
  <2>2. CASE PickPrompt
    <3> DEFINE text == IF shelf.optimized = none THEN shelf.entry ELSE shelf.optimized
               f == Picked(Shown, shelf.entry, text, {})
    <3>1. shelf.entry \in Entries /\ text \in Origins
      BY DEF Shelves, Entries, Origins
    <3>2. f \in PaintForms /\ Backed(f)
      BY <1>1, <3>1, PickedForm
    <3>3. SetPaint(f)
      BY <2>2 DEF PickPrompt
    <3> HIDE DEF f
    <3> QED
      BY <3>2, <3>3, SetPaintForms
  <2> QED
    BY <2>1, <2>2 DEF OpenShelf, CloseShelf, OpenEntry
<1> QED
  BY <1>3, <1>4, <1>5
  DEF CopiesBacked, BusyIsRunning, OffersBelong, ProgressIsCurrent

---------------------------------------------------------------------------
\* The invariant is inductive.
LEMMA NextImageInv == ImageInv /\ [ImageNext]_imageVars => ImageInv'
<1> SUFFICES ASSUME ImageInv, [ImageNext]_imageVars PROVE ImageInv'
  OBVIOUS
<1>1. CASE UNCHANGED imageVars
  BY <1>1
  DEF imageVars, ImageInv, ImageShapes, SourcesBacked, CopiesBacked, BusyIsRunning, OffersBelong,
      ProgressIsCurrent
<1>2. CASE \/ TypeImagePrompt \/ RemoveReferences
           \/ \E chosen \in SUBSET Paintings, append \in BOOLEAN : ApplyReferences(chosen, append)
           \/ \E a \in Paintings : AddReferenceAsset(a) \/ RemoveReferenceAt(a)
           \/ \E g \in gallery : LoadImageAsset(g)
  BY <1>2, FormClicksImageInv
<1>3. CASE ImportFiles \/ PickAsReference \/ RunOptimize \/ \E w \in awaited : Answered(w)
  BY <1>3, AskedImageInv, AnsweredImageInv
<1>4. CASE RunImage \/ RunAdvances \/ RunProgress \/ RunSaves \/ ImageRunFails \/ ImageRunEnds
  BY <1>4, RunImageInv
<1>5. CASE \E project \in ImageProjects : SwitchPaint(project)
  BY <1>5, SwitchImageInv
<1>6. CASE \/ OpenPolish \/ AskPolish \/ ClosePolish \/ AdoptPolish
           \/ \E session \in polish.asked : PolishAnswers(session)
  BY <1>6, PolishImageInv
<1>7. CASE \/ OpenShelf \/ CloseShelf \/ PickPrompt
           \/ \E entry \in Templates : OpenEntry(entry)
  BY <1>7, ShelfImageInv
<1> QED
  BY <1>1, <1>2, <1>3, <1>4, <1>5, <1>6, <1>7 DEF ImageNext, Answered

\* The invariant holds of every behaviour.
THEOREM ImageInvariant == ImageSpec => []ImageInv
<1>1. ImageInit => ImageInv
  BY InitImageInv
<1>2. ImageInv /\ [ImageNext]_imageVars => ImageInv'
  BY NextImageInv
<1> QED
  BY <1>1, <1>2, PTL DEF ImageSpec

\* A late result of the optimization dialog or the prompt library is offered
\* only in the session, or under the entry, it was asked for.
THEOREM OffersStay == ImageSpec => []OffersBelong
<1>1. ImageInv => OffersBelong
  BY DEF ImageInv
<1> QED
  BY <1>1, ImageInvariant, PTL

\* Whatever is picked, removed, loaded or arrives late, a form's records name
\* references that are in the form.
THEOREM RecordsAreBacked == ImageSpec => []SourcesBacked
<1>1. ImageInv => SourcesBacked
  BY DEF ImageInv
<1> QED
  BY <1>1, ImageInvariant, PTL

\* The panel never shows the progress of a run that is over.
THEOREM ProgressBelongs == ImageSpec => []ProgressIsCurrent
<1>1. ImageInv => ProgressIsCurrent
  BY DEF ImageInv
<1> QED
  BY <1>1, ImageInvariant, PTL

---------------------------------------------------------------------------
(* Types of the image form.                                                *)

\* Runs and their pictures are of a project, and no progress is of a run to come.
RunsTyped ==
  /\ paintRun.phase # "idle" => paintRun.project \in ImageProjects
  /\ paintShown.progress <= paintRun.number
  /\ \A g \in gallery : g.project \in ImageProjects

\* Every step keeps it.
LEMMA NextRunsTyped ==
  ASSUME ImageShapes, RunsTyped, [ImageNext]_imageVars
  PROVE  RunsTyped'
<1>1. paintRun.number \in Nat /\ paintShown.progress \in Nat /\ paintShown.progress <= paintRun.number
  BY DEF ImageShapes, StudioRuns, Panels, RunsTyped
<1>2. CASE UNCHANGED <<paintRun, gallery>> /\ paintShown'.progress = paintShown.progress
  BY <1>2 DEF RunsTyped
<1>3. CASE RunImage
  <2>1. /\ paintRun' = [phase |-> "listen", number |-> paintRun.number + 1,
                        project |-> paintIn, form |-> Shown]
        /\ paintShown' = [paintShown EXCEPT !.busy = TRUE, !.progress = 0]
        /\ gallery' = gallery
    BY <1>3 DEF RunImage
  <2>2. paintShown'.progress = 0
    BY <2>1 DEF ImageShapes, Panels
  <2> QED BY <1>1, <2>1, <2>2 DEF ImageShapes, RunsTyped
<1>4. ASSUME NEW phase, PaintGoto(phase), paintRun.phase # "idle",
             gallery' = gallery \/
             gallery' = gallery \cup {[project |-> paintRun.project, form |-> paintRun.form]},
             paintShown'.progress \in {0, paintShown.progress}
      PROVE  RunsTyped'
  <2>1. paintRun'.project = paintRun.project /\ paintRun'.number = paintRun.number
    BY <1>4 DEF PaintGoto, ImageShapes, StudioRuns
  <2>2. paintRun.project \in ImageProjects
    BY <1>4 DEF RunsTyped
  <2>3. \A g \in gallery' : g.project \in ImageProjects
    <3>1. PICK new : new = [project |-> paintRun.project, form |-> paintRun.form]
      OBVIOUS
    <3>2. new.project \in ImageProjects /\ gallery' \subseteq gallery \cup {new}
      BY <1>4, <2>2, <3>1
    <3> QED BY <3>2 DEF RunsTyped
  <2> QED BY <1>1, <1>4, <2>1, <2>2, <2>3 DEF RunsTyped
<1>5. CASE RunAdvances \/ RunSaves \/ ImageRunFails
  <2>1. /\ \E phase : PaintGoto(phase)
        /\ paintRun.phase # "idle" /\ paintShown' = paintShown
        /\ gallery' = gallery \/
           gallery' = gallery \cup {[project |-> paintRun.project, form |-> paintRun.form]}
    BY <1>5 DEF RunAdvances, RunSaves, ImageRunFails
  <2> QED BY <1>4, <2>1
<1>6. CASE ImageRunEnds
  <2>1. PaintGoto("idle") /\ gallery' = gallery /\ paintShown'.progress = 0
        /\ paintRun.phase # "idle"
    BY <1>6 DEF ImageRunEnds
  <2> QED BY <1>4, <2>1
<1>7. CASE RunProgress
  <2>1. /\ UNCHANGED <<paintRun, gallery>>
        /\ paintShown'.progress = paintRun.number
    BY <1>7 DEF RunProgress, ImageShapes, Panels
  <2> QED BY <1>1, <2>1 DEF RunsTyped
<1>8. CASE \E project \in ImageProjects : SwitchPaint(project)
  <2>1. UNCHANGED <<paintRun, gallery>> /\ paintShown'.progress = paintShown.progress
    BY <1>8 DEF SwitchPaint, ImageShapes, Panels
  <2> QED BY <1>2, <2>1
<1>9. CASE \/ TypeImagePrompt \/ RemoveReferences
           \/ \E chosen \in SUBSET Paintings, append \in BOOLEAN : ApplyReferences(chosen, append)
           \/ \E a \in Paintings : AddReferenceAsset(a) \/ RemoveReferenceAt(a)
           \/ \E g \in gallery : LoadImageAsset(g)
  BY <1>2, <1>9 DEF TypeImagePrompt, RemoveReferences, ApplyReferences, AddReferenceAsset,
                    RemoveReferenceAt, LoadImageAsset, Paints
<1>10. CASE ImportFiles \/ PickAsReference \/ RunOptimize \/ \E w \in awaited : Answered(w)
  BY <1>2, <1>10 DEF ImportFiles, PickAsReference, RunOptimize, Answered, FilesImported, CaseDownloaded,
                     CaseImported, FetchFails, OptimizeAnswers, OptimizeFails
<1>11. CASE \/ OpenPolish \/ AskPolish \/ ClosePolish \/ AdoptPolish
            \/ \E session \in polish.asked : PolishAnswers(session)
  BY <1>2, <1>11 DEF OpenPolish, AskPolish, ClosePolish, AdoptPolish, PolishAnswers
<1>12. CASE \/ OpenShelf \/ CloseShelf \/ PickPrompt
            \/ \E entry \in Templates : OpenEntry(entry)
  BY <1>2, <1>12 DEF OpenShelf, CloseShelf, PickPrompt, OpenEntry
<1>13. CASE UNCHANGED imageVars
  BY <1>2, <1>13 DEF imageVars
<1> QED
  BY <1>3, <1>5, <1>6, <1>7, <1>8, <1>9, <1>10, <1>11, <1>12, <1>13 DEF ImageNext, Answered

\* Types follow from the shapes and this.
LEMMA ImageTyped == ImageShapes /\ RunsTyped => ImageTypeOK
<1> SUFFICES ASSUME ImageShapes, RunsTyped PROVE ImageTypeOK
  OBVIOUS
<1>1. paintShown.busy \in BOOLEAN /\ paintShown.progress \in 0..paintRun.number
  BY DEF ImageShapes, Panels, StudioRuns, RunsTyped
<1>2. /\ paintRun.phase \in Phases
      /\ \A w \in awaited : w.by \in Waits
      /\ polish.open \in BOOLEAN /\ shelf.entry \in Entries
  BY DEF ImageShapes, StudioRuns, Polishes, Shelves
<1> QED BY <1>1, <1>2 DEF ImageShapes, RunsTyped, ImageTypeOK, Phases, Entries, Waits

\* There is no run and no picture at first.
LEMMA InitRunsTyped == ImageInit => RunsTyped
  BY DEF ImageInit, Idle, RunsTyped

\* The forms, the run, what the panel shows of it and the pictures keep their types.
THEOREM ImagesAreTyped == ImageSpec => []ImageTypeOK
<1>1. ImageInit => RunsTyped
  BY InitRunsTyped
<1>2. ImageInv /\ RunsTyped /\ [ImageNext]_imageVars => RunsTyped'
  BY NextRunsTyped DEF ImageInv
<1>3. ImageInv /\ RunsTyped => ImageTypeOK
  BY ImageTyped DEF ImageInv
<1> QED BY <1>1, <1>2, <1>3, ImageInvariant, PTL DEF ImageSpec

---------------------------------------------------------------------------
(* Numbers.                                                                *)

\* Some number of a set is the least.
LEMMA LeastNumber ==
  ASSUME NEW S \in SUBSET Nat, S # {}
  PROVE  \E m \in S : \A n \in S : m <= n
<1>1. \E R : IsWellFoundedOn(R, Nat) /\ \A x, y \in Nat : <<x, y>> \in R <=> x < y
  <2>1. \A x, y \in Nat : <<x, y>> \in OpToRel(<, Nat) <=> x < y
    BY DEF OpToRel
  <2> WITNESS OpToRel(<, Nat)
  <2>2. IsWellFoundedOn(OpToRel(<, Nat), Nat)
    BY NatLessThanWellFounded
  <2> QED BY <2>1, <2>2
<1>2. PICK R : IsWellFoundedOn(R, Nat) /\ \A x, y \in Nat : <<x, y>> \in R <=> x < y
  BY <1>1
<1>3. PICK m \in S : \A n \in S : ~(<<n, m>> \in R)
  <2>1. S \subseteq Nat /\ S # {} /\ IsWellFoundedOn(R, Nat)
    BY <1>2
  <2> QED BY <2>1, WFMin
<1>4. \A n \in S : ~(n < m) /\ n \in Nat /\ m \in Nat
  BY <1>2, <1>3
<1> QED BY <1>4

\* The least number of a set of numbers is one of them, below the others.
LEMMA MinIsLeast ==
  ASSUME NEW S \in SUBSET Nat, S # {}
  PROVE  Min(S) \in S /\ \A n \in S : Min(S) <= n
<1>1. PICK m \in S : \A n \in S : m <= n
  BY LeastNumber
<1> QED BY <1>1 DEF Min

\* Some number of a bounded set is the greatest.
LEMMA MaxIsGreatest ==
  ASSUME NEW bound \in Nat, NEW S \in SUBSET (0..bound), S # {}
  PROVE  Max(S) \in S /\ \A n \in S : n <= Max(S)
<1> DEFINE T == {t \in Nat : bound - t \in S}
<1>1. T # {}
  <2>1. PICK s \in S : TRUE
    OBVIOUS
  <2>2. bound - s \in Nat /\ bound - (bound - s) = s
    OBVIOUS
  <2> QED BY <2>1, <2>2
<1>2. PICK t \in T : \A u \in T : t <= u
  <2>1. T \in SUBSET Nat
    OBVIOUS
  <2> HIDE DEF T
  <2> QED BY <1>1, <2>1, LeastNumber
<1>3. PICK m \in S : m = bound - t
  OBVIOUS
<1>4. \A n \in S : m >= n
  <2> TAKE n \in S
  <2>1. bound - n \in Nat /\ bound - (bound - n) = n
    OBVIOUS
  <2>2. t <= bound - n
    BY <1>2, <2>1
  <2> QED BY <2>1, <2>2, <1>3
<1>5. Max(S) \in S /\ \A n \in S : Max(S) >= n
  BY <1>4 DEF Max
<1> QED BY <1>5

---------------------------------------------------------------------------
(* Library.                                                                *)

\* What is in memory, and what a reload or a startup has read, has been written.
Written ==
  assets \subseteq dbAssets /\ reload.seen \subseteq dbAssets /\ startupLoad.seen \subseteq dbAssets

\* Every asset announced has its row, and the listener heard only of those.
Loaded(upTo, set) == \A r \in 1..upTo : External(r) \in set
Announced ==
  /\ Loaded(events.revision, dbAssets)
  /\ events.pending <= events.revision /\ events.acked <= events.revision
  /\ events.timer => events.pending >= 1
  /\ \A r \in reload.acks : r <= events.revision

\* A reload has read at least what was acknowledged, and what it will
\* acknowledge unless it reads again.
Covers ==
  reload.phase \in {"tasks", "deliver"} =>
    /\ Loaded(events.acked, reload.seen)
    /\ ~reload.queued => \A r \in reload.acks : Loaded(r, reload.seen)

LibraryInv == LibraryTypeOK /\ Written /\ Announced /\ Covers

Reloads == [phase : {"idle", "assets", "tasks", "deliver"}, seen : SUBSET Assets,
            seenTasks : [TaskIds -> Statuses], queued : BOOLEAN, acks : SUBSET (1..MaxRevisions)]
Startups == [phase : {"idle", "assets", "tasks", "land"}, seen : SUBSET Assets,
             seenTasks : [TaskIds -> Statuses], banner : BOOLEAN]

\* A reload that is not running has the shape of a reload.
LEMMA IdleIsShaped == IdleReload \in Reloads
BY DEF IdleReload, Reloads, NoTasks, Statuses

\* So has a startup that has read nothing yet.
LEMMA StartupIsShaped ==
  ASSUME NEW phase \in {"idle", "assets", "tasks", "land"}, NEW banner \in BOOLEAN
  PROVE  StartupAt(phase, banner) \in Startups
BY DEF StartupAt, Startups, NoTasks, Statuses

\* A row that another client writes is a row of the table, of no run.
LEMMA ExternalIsAsset ==
  ASSUME NEW r \in 1..MaxRevisions
  PROVE  External(r) \in Assets /\ External(r).group = 0 /\ External(r).project = none
BY LibraryAssumption DEF External, Assets

\* The library starts empty, so its invariant holds.
LEMMA LibraryInitInv == LibraryInit => LibraryInv
<1> SUFFICES ASSUME LibraryInit PROVE LibraryInv
  OBVIOUS
<1>1. reload \in Reloads /\ reload.phase = "idle" /\ reload.seen = {} /\ reload.acks = {}
  BY IdleIsShaped DEF LibraryInit, IdleReload
<1>2. startupLoad \in Startups /\ startupLoad.seen = {}
  BY StartupIsShaped DEF LibraryInit, StartupAt
<1>3. /\ dbAssets = {} /\ assets = {} /\ dbTasks = NoTasks /\ tasks = NoTasks
      /\ events = [revision |-> 0, pending |-> 0, timer |-> FALSE, acked |-> 0]
  BY DEF LibraryInit
<1>4. LibraryTypeOK
  <2>1. NoTasks \in [TaskIds -> Statuses]
    BY DEF NoTasks, Statuses
  <2>2. events \in [revision : 0..MaxRevisions, pending : 0..MaxRevisions,
                   timer : BOOLEAN, acked : 0..MaxRevisions]
    BY <1>3, LibraryAssumption
  <2> QED BY <1>1, <1>2, <1>3, <2>1, <2>2 DEF LibraryTypeOK, Reloads, Startups
<1>5. Written /\ Announced /\ Covers
  BY <1>1, <1>2, <1>3 DEF Written, Announced, Covers, Loaded
<1> QED BY <1>4, <1>5 DEF LibraryInv

\* Loading more of the rows keeps what was loaded.
LEMMA LoadedGrows ==
  ASSUME NEW upTo, NEW set, NEW set2, set \subseteq set2, Loaded(upTo, set)
  PROVE  Loaded(upTo, set2)
BY DEF Loaded

\* A run that writes videos, or nothing at all, leaves the reload right.
LEMMA WritesKeepLibrary ==
  ASSUME LibraryInv, LibraryTypeOK', UNCHANGED <<reload, startupLoad, events>>,
         dbAssets \subseteq dbAssets', assets \subseteq assets', assets' \subseteq dbAssets'
  PROVE  LibraryInv'
<1>1. Written'
  BY DEF LibraryInv, Written
<1>2. Announced'
  BY DEF LibraryInv, Announced, Loaded
<1>3. Covers'
  BY DEF LibraryInv, Covers, Loaded
<1> QED BY <1>1, <1>2, <1>3 DEF LibraryInv

\* A request for a reload acknowledges nothing that was not announced.
LEMMA RequestKeepsLibrary ==
  ASSUME LibraryInv, NEW acks \in SUBSET (1..MaxRevisions), \A r \in acks : r <= events.revision,
         RequestReload(acks), UNCHANGED <<rowVars, startupLoad>>,
         events' \in [revision : 0..MaxRevisions, pending : 0..MaxRevisions,
                      timer : BOOLEAN, acked : 0..MaxRevisions],
         events'.revision = events.revision, events'.pending = events.pending,
         events'.acked = events.acked, events'.timer => events.timer
  PROVE  LibraryInv'
<1>1. CASE reload.phase = "idle"
  <2>1. reload' = [phase |-> "assets", seen |-> {}, seenTasks |-> NoTasks, queued |-> FALSE,
                   acks |-> acks]
    BY <1>1 DEF RequestReload, IdleReload
  <2>2. LibraryTypeOK'
    BY <2>1 DEF LibraryInv, LibraryTypeOK, rowVars, NoTasks, Statuses
  <2> QED BY <2>1, <2>2
    DEF LibraryInv, rowVars, Written, Announced, Covers
<1>2. CASE reload.phase # "idle"
  <2>1. reload' = [reload EXCEPT !.queued = TRUE, !.acks = @ \cup acks]
    BY <1>2 DEF RequestReload
  <2>2. LibraryTypeOK'
    BY <2>1 DEF LibraryInv, LibraryTypeOK, rowVars
  <2>3. /\ reload'.phase = reload.phase /\ reload'.seen = reload.seen
        /\ reload'.queued /\ reload'.acks = reload.acks \cup acks
    BY <2>1 DEF LibraryInv, LibraryTypeOK
  <2> QED BY <2>2, <2>3
    DEF LibraryInv, rowVars, Written, Announced, Covers
<1> QED BY <1>1, <1>2

\* A delivery shows what was read and acknowledges the newest request in it.
LEMMA DeliverKeepsLibrary ==
  ASSUME LibraryInv, Deliver
  PROVE  LibraryInv'
<1> USE DEF LibraryInv
<1>1. /\ assets' = reload.seen /\ dbAssets' = dbAssets /\ tasks' = reload.seenTasks /\ dbTasks' = dbTasks
      /\ startupLoad' = startupLoad
      /\ Loaded(events.acked, reload.seen) /\ reload.seen \subseteq dbAssets
  BY DEF Deliver, Covers, Written
<1>2. CASE reload.queued
  <2>1. reload' = [reload EXCEPT !.phase = "assets", !.queued = FALSE] /\ events' = events
    BY <1>2 DEF Deliver
  <2>2. LibraryTypeOK'
    BY <1>1, <2>1 DEF LibraryTypeOK
  <2>3. reload'.phase = "assets" /\ reload'.seen = reload.seen /\ reload'.acks = reload.acks
    BY <2>1 DEF LibraryTypeOK
  <2> QED BY <1>1, <2>1, <2>2, <2>3
    DEF Written, Announced, Covers, Loaded
<1>3. CASE ~reload.queued
  <2> DEFINE acked == Max(reload.acks \cup {events.acked})
  <2>1. reload' = IdleReload /\ events' = [events EXCEPT !.acked = acked]
    BY <1>3 DEF Deliver
  <2>2. acked \in reload.acks \cup {events.acked}
    <3>1. reload.acks \cup {events.acked} \in SUBSET (0..MaxRevisions)
      BY DEF LibraryTypeOK
    <3> QED BY <3>1, MaxIsGreatest, LibraryAssumption
  <2>3. Loaded(acked, reload.seen) /\ acked <= events.revision /\ acked \in 0..MaxRevisions
    BY <1>1, <1>3, <2>2 DEF Deliver, Covers, Announced, LibraryTypeOK
  <2> HIDE DEF acked
  <2>4. /\ reload' \in Reloads /\ reload'.phase = "idle" /\ reload'.seen = {} /\ reload'.acks = {}
    BY <2>1, IdleIsShaped DEF IdleReload
  <2>5. /\ events' \in [revision : 0..MaxRevisions, pending : 0..MaxRevisions,
                        timer : BOOLEAN, acked : 0..MaxRevisions]
        /\ events'.revision = events.revision /\ events'.pending = events.pending
        /\ events'.timer = events.timer /\ events'.acked = acked
    BY <2>1, <2>3 DEF LibraryTypeOK
  <2>6. LibraryTypeOK'
    BY <1>1, <2>4, <2>5 DEF LibraryTypeOK, Reloads
  <2> QED BY <1>1, <2>3, <2>4, <2>5, <2>6
    DEF Written, Announced, Covers, Loaded
<1> QED BY <1>2, <1>3

\* A startup replaces what is shown by rows, and touches nothing else.
LEMMA StartupKeepsLibrary ==
  ASSUME LibraryInv, UNCHANGED feedVars,
         startupLoad' \in Startups, startupLoad'.seen \subseteq dbAssets,
         \/ UNCHANGED <<assets, tasks>>
         \/ assets' = startupLoad.seen /\ tasks' = startupLoad.seenTasks
  PROVE  LibraryInv'
<1>1. UNCHANGED <<dbAssets, dbTasks, reload, events>>
  BY DEF feedVars
<1>2. /\ assets' \subseteq Assets /\ assets' \subseteq dbAssets /\ tasks' \in [TaskIds -> Statuses]
  BY DEF LibraryInv, LibraryTypeOK, Written
<1>3. LibraryTypeOK'
  BY <1>1, <1>2 DEF LibraryInv, LibraryTypeOK, Startups
<1> QED BY <1>1, <1>2, <1>3 DEF LibraryInv, Written, Announced, Covers, Loaded

StartupStep ==
  \/ AppInfoFails \/ LoadAgain \/ StartupReads \/ StartupReadFails \/ StartupFails
  \/ StartupLands

\* A startup writes no row, and only one that lands writes what is shown.
LEMMA StartupFeedsNothing ==
  ASSUME StartupStep
  PROVE  /\ UNCHANGED <<dbAssets, dbTasks, reload, events>>
         /\ UNCHANGED <<assets, tasks>> \/ StartupLands
<1>1. UNCHANGED feedVars
  BY DEF StartupStep, AppInfoFails, LoadAgain, StartupReads, StartupReadFails, StartupFails,
         StartupLands
<1>2. UNCHANGED <<assets, tasks>> \/ StartupLands
  BY DEF StartupStep, AppInfoFails, LoadAgain, StartupReads, StartupReadFails, StartupFails
<1> QED BY <1>1, <1>2 DEF feedVars

\* Every step of the reload, of a startup and of the listener keeps the invariant.
LEMMA LibraryNextInv ==
  ASSUME LibraryInv, LibraryNext
  PROVE  LibraryInv'
<1> USE DEF LibraryInv
<1>1. CASE LoadAssetRows
  <2>1. /\ reload' = [reload EXCEPT !.phase = "tasks", !.seen = dbAssets]
        /\ UNCHANGED <<dbAssets, dbTasks, assets, tasks, startupLoad, events>>
    BY <1>1 DEF LoadAssetRows
  <2>2. LibraryTypeOK'
    BY <2>1 DEF LibraryTypeOK
  <2>3. reload'.phase = "tasks" /\ reload'.seen = dbAssets /\ reload'.acks = reload.acks
    BY <2>1 DEF LibraryTypeOK
  <2>4. \A r \in 0..events.revision : Loaded(r, dbAssets)
    BY DEF Announced, Loaded, LibraryTypeOK
  <2>5. Covers'
    BY <2>1, <2>3, <2>4 DEF Covers, Announced, LibraryTypeOK, Loaded
  <2> QED BY <2>1, <2>2, <2>3, <2>5 DEF Written, Announced, Loaded
<1>2. CASE LoadTaskRows
  <2>1. /\ reload' = [reload EXCEPT !.phase = "deliver", !.seenTasks = dbTasks]
        /\ UNCHANGED <<dbAssets, dbTasks, assets, tasks, startupLoad, events>> /\ reload.phase = "tasks"
    BY <1>2 DEF LoadTaskRows
  <2>2. LibraryTypeOK'
    BY <2>1 DEF LibraryTypeOK
  <2>3. /\ reload'.phase = "deliver" /\ reload'.seen = reload.seen /\ reload'.acks = reload.acks
        /\ reload'.queued = reload.queued
    BY <2>1 DEF LibraryTypeOK
  <2> QED BY <2>1, <2>2, <2>3 DEF Written, Announced, Covers, Loaded
<1>3. CASE Deliver
  BY <1>3, DeliverKeepsLibrary
<1>4. CASE ReloadFails
  <2>1. /\ reload' \in Reloads /\ reload'.phase = "idle" /\ reload'.seen = {} /\ reload'.acks = {}
        /\ UNCHANGED <<dbAssets, dbTasks, assets, tasks, startupLoad, events>>
    BY <1>4, IdleIsShaped DEF ReloadFails, IdleReload
  <2> QED BY <2>1 DEF LibraryTypeOK, Reloads, Written, Announced, Covers, Loaded
<1>8. CASE AppInfoFails \/ LoadAgain \/ StartupReads \/ StartupReadFails \/ StartupFails
  <2>1. UNCHANGED <<feedVars, assets, tasks>>
    BY <1>8 DEF AppInfoFails, LoadAgain, StartupReads, StartupReadFails, StartupFails
  <2>2. startupLoad \in Startups
    BY DEF LibraryTypeOK, Startups
  <2>3. CASE AppInfoFails
    <3>1. startupLoad' = [startupLoad EXCEPT !.banner = TRUE]
      BY <2>3 DEF AppInfoFails
    <3>2. startupLoad' \in Startups /\ startupLoad'.seen = startupLoad.seen
      BY <2>2, <3>1 DEF Startups
    <3> HIDE DEF LibraryInv
    <3> QED BY <2>1, <3>2, StartupKeepsLibrary DEF LibraryInv, Written
  <2>4. CASE LoadAgain \/ StartupReadFails \/ StartupFails
    <3>1. \E phase \in {"idle", "assets", "tasks", "land"}, banner \in BOOLEAN :
            startupLoad' = StartupAt(phase, banner)
      BY <2>2, <2>4 DEF LoadAgain, StartupReadFails, StartupFails, Startups
    <3>2. startupLoad' \in Startups /\ startupLoad'.seen = {}
      BY <3>1, StartupIsShaped DEF StartupAt
    <3> HIDE DEF LibraryInv
    <3> QED BY <2>1, <3>2, StartupKeepsLibrary
  <2>5. CASE StartupReads
    <3>1. \/ startupLoad' = [startupLoad EXCEPT !.phase = "tasks", !.seen = dbAssets]
          \/ startupLoad' = [startupLoad EXCEPT !.phase = "land", !.seenTasks = dbTasks]
      BY <2>5 DEF StartupReads
    <3>2. startupLoad' \in Startups /\ startupLoad'.seen \in {dbAssets, startupLoad.seen}
      BY <2>2, <3>1 DEF Startups, LibraryTypeOK
    <3> HIDE DEF LibraryInv
    <3> QED BY <2>1, <3>2, StartupKeepsLibrary DEF LibraryInv, Written
  <2> QED BY <1>8, <2>3, <2>4, <2>5
<1>9. CASE StartupLands
  <2>1. /\ UNCHANGED feedVars /\ startupLoad' = StartupAt("idle", startupLoad.banner)
        /\ assets' = startupLoad.seen /\ tasks' = startupLoad.seenTasks
    BY <1>9 DEF StartupLands
  <2>2. startupLoad' \in Startups /\ startupLoad'.seen = {}
    BY <2>1, StartupIsShaped DEF StartupAt, LibraryTypeOK
  <2> HIDE DEF LibraryInv
  <2> QED BY <2>1, <2>2, StartupKeepsLibrary
<1>5. CASE ProduceAsset
  <2> DEFINE r == events.revision + 1
  <2>1. /\ events' = [events EXCEPT !.revision = r] /\ dbAssets' = dbAssets \cup {External(r)}
        /\ UNCHANGED <<dbTasks, assets, tasks, reload, startupLoad>> /\ r \in 1..MaxRevisions
    BY <1>5, LibraryAssumption DEF ProduceAsset, PersistAssets, LibraryTypeOK
  <2>2. /\ events' \in [revision : 0..MaxRevisions, pending : 0..MaxRevisions,
                        timer : BOOLEAN, acked : 0..MaxRevisions]
        /\ events'.revision = r /\ events'.pending = events.pending
        /\ events'.timer = events.timer /\ events'.acked = events.acked
    BY <2>1 DEF LibraryTypeOK
  <2>3. LibraryTypeOK'
    BY <2>1, <2>2, ExternalIsAsset DEF LibraryTypeOK
  <2>4. Loaded(r, dbAssets')
    BY <2>1 DEF Announced, Loaded, LibraryTypeOK
  <2>5. Announced'
    BY <2>1, <2>2, <2>4 DEF Announced, LibraryTypeOK
  <2> QED BY <2>1, <2>2, <2>3, <2>5 DEF Written, Covers, Loaded
<1>6. CASE HearEvent
  <2>1. PICK r \in events.pending + 1 .. events.revision :
          events' = [events EXCEPT !.pending = r, !.timer = TRUE]
    BY <1>6 DEF HearEvent
  <2>2. /\ r \in 1..MaxRevisions /\ r <= events.revision
        /\ events \in [revision : 0..MaxRevisions, pending : 0..MaxRevisions,
                       timer : BOOLEAN, acked : 0..MaxRevisions]
    BY LibraryAssumption DEF LibraryTypeOK
  <2>4. /\ events' \in [revision : 0..MaxRevisions, pending : 0..MaxRevisions,
                        timer : BOOLEAN, acked : 0..MaxRevisions]
        /\ events'.revision = events.revision /\ events'.pending = r
        /\ events'.acked = events.acked
    <3>1. PICK heard \in BOOLEAN : events' = [events EXCEPT !.pending = r, !.timer = heard]
      BY <2>1
    <3> HIDE DEF LibraryInv
    <3>2. events' = [revision |-> events.revision, pending |-> r, timer |-> heard, acked |-> events.acked]
      BY <3>1, <2>2
    <3>3. /\ events.revision \in 0..MaxRevisions /\ r \in 0..MaxRevisions /\ events.acked \in 0..MaxRevisions
      BY <2>2
    <3> QED BY <3>2, <3>3
  <2>3. UNCHANGED <<dbAssets, dbTasks, assets, tasks, reload, startupLoad>>
    BY <1>6 DEF HearEvent
  <2> QED BY <2>2, <2>3, <2>4 DEF LibraryTypeOK, Written, Announced, Covers, Loaded
<1>7. CASE DebounceFires
  <2>1. /\ events.timer /\ events' = [events EXCEPT !.timer = FALSE]
        /\ RequestReload({events.pending}) /\ UNCHANGED <<rowVars, startupLoad>>
    BY <1>7 DEF DebounceFires, rowVars
  <2>2. {events.pending} \in SUBSET (1..MaxRevisions) /\ events.pending <= events.revision
    BY <2>1 DEF Announced, LibraryTypeOK
  <2>3. /\ events' \in [revision : 0..MaxRevisions, pending : 0..MaxRevisions,
                        timer : BOOLEAN, acked : 0..MaxRevisions]
        /\ events'.revision = events.revision /\ events'.pending = events.pending
        /\ events'.acked = events.acked /\ ~events'.timer
    BY <2>1 DEF LibraryTypeOK
  <2> HIDE DEF LibraryInv
  <2> QED BY <2>1, <2>2, <2>3, RequestKeepsLibrary
<1> QED BY <1>1, <1>2, <1>3, <1>4, <1>5, <1>6, <1>7, <1>8, <1>9 DEF LibraryNext

---------------------------------------------------------------------------
(* VideoStudio.                                                            *)

\* A group's first run, all that resume or retry it and all its videos have
\* one request.
SameRequest(group, request) == group \in DOMAIN runs /\ runs[group].intent.request = request
GroupsAgree ==
  /\ \A a \in dbAssets : a.group # 0 => SameRequest(a.group, a.request)
  /\ \A i \in DOMAIN runs : SameRequest(runs[i].group, runs[i].intent.request)
  /\ resume # none => SameRequest(resume.group, resume.request)
AskedAgree == \A k \in DOMAIN asking : asking[k].group # 0 => SameRequest(asking[k].group, asking[k].request)

\* Shots that are behind a run are saved as its own.
SavedFor(run, s) ==
  \E a \in dbAssets : /\ a.project = run.project /\ a.group = run.group
                      /\ a.shot = s /\ a.request = run.intent.request
DoneIsSaved ==
  \A i \in DOMAIN runs :
    /\ \A s \in runs[i].done : SavedFor(runs[i], s)
    /\ runs[i].phase \in {"finish", "mark", "completed"} => runs[i].done = Shots
    /\ runs[i].phase \in {"request", "save"} => runs[i].done # Shots
    /\ runs[i].phase = "mark" => runs[i].intent.by # "panel"

VideoInv ==
  VideoTypeOK /\ LibraryInv /\ GroupsAgree /\ AskedAgree /\ DoneIsSaved /\ PanelRunsOnce

\* No run has been started, so the invariant of the runs holds.
LEMMA VideoInitInv == VideoInit => VideoInv
<1> SUFFICES ASSUME VideoInit PROVE VideoInv
  OBVIOUS
<1>1. LibraryInv /\ LibraryTypeOK /\ dbAssets = {}
  BY LibraryInitInv DEF VideoInit, LibraryInit, LibraryInv
<1>2. current \in VideoProjects /\ drafts \in [VideoProjects -> Requests]
  BY VideoStudioAssumption DEF VideoInit
<1>3. /\ resume = none /\ videoBusy = FALSE /\ retryingTask = 0 /\ asking = <<>> /\ runs = <<>>
      /\ retryingTask \in 0..MaxTasks /\ Len(runs) <= MaxTasks
  BY LibraryAssumption DEF VideoInit
<1>4. asking \in Seq(Intents) /\ runs \in Seq(Runs) /\ videoBusy \in BOOLEAN
  <2>1. <<>> \in Seq(Intents) /\ <<>> \in Seq(Runs)
    OBVIOUS
  <2> QED BY <1>3, <2>1
<1>5. resume \in [group : TaskIds, request : Requests, project : VideoProjects] \cup {none}
  BY <1>3
<1>6. VideoTypeOK
  BY <1>1, <1>2, <1>3, <1>4, <1>5 DEF VideoTypeOK
<1> QED
  BY <1>1, <1>3, <1>6 DEF VideoInv, GroupsAgree, AskedAgree, DoneIsSaved, PanelRunsOnce, PanelRuns

\* A run that moves on, seen by everyone else.
Changed(i, phase, done) == runs' = [runs EXCEPT ![i] = [@ EXCEPT !.phase = phase, !.done = done]]
\* A step of one run leaves the others, and what the run was asked for.
LEMMA ChangedRun ==
  ASSUME VideoTypeOK, NEW i \in DOMAIN runs, NEW phase, NEW done \in SUBSET Shots,
         phase \in {"persist", "request", "save", "finish", "failing", "mark"} \cup Ended,
         Changed(i, phase, done)
  PROVE  /\ runs' \in Seq(Runs) /\ Len(runs') = Len(runs) /\ DOMAIN runs' = DOMAIN runs
         /\ \A k \in DOMAIN runs : /\ runs'[k].intent = runs[k].intent /\ runs'[k].group = runs[k].group
                                   /\ runs'[k].project = runs[k].project
                                   /\ k # i => runs'[k] = runs[k]
         /\ runs'[i].phase = phase /\ runs'[i].done = done
<1>1. runs \in Seq(Runs) /\ runs[i] \in Runs
  BY DEF VideoTypeOK
<1>2. /\ [runs[i] EXCEPT !.phase = phase, !.done = done] \in Runs
      /\ [runs[i] EXCEPT !.phase = phase, !.done = done].phase = phase
      /\ [runs[i] EXCEPT !.phase = phase, !.done = done].done = done
      /\ [runs[i] EXCEPT !.phase = phase, !.done = done].intent = runs[i].intent
      /\ [runs[i] EXCEPT !.phase = phase, !.done = done].group = runs[i].group
      /\ [runs[i] EXCEPT !.phase = phase, !.done = done].project = runs[i].project
  BY <1>1 DEF Runs
<1> DEFINE run == [runs[i] EXCEPT !.phase = phase, !.done = done]
<1>3. runs' = [runs EXCEPT ![i] = run]
  BY DEF Changed
<1> HIDE DEF run
<1>4. /\ run \in Runs /\ run.phase = phase /\ run.done = done
      /\ run.intent = runs[i].intent /\ run.group = runs[i].group /\ run.project = runs[i].project
  BY <1>2 DEF run
<1> QED BY <1>1, <1>3, <1>4

\* Whatever a run does, it keeps the groups, its own shots and the panel's flag:
\* what it writes is its own, and the panel is free when its run ends.
WritesItsOwn(i, done) ==
  /\ UNCHANGED <<reload, startupLoad, events, current, drafts, asking>>
  /\ dbAssets \subseteq dbAssets' /\ assets \subseteq assets' /\ assets' \subseteq dbAssets'
  /\ \A a \in dbAssets' \ dbAssets : a.group = runs[i].group /\ a.request = runs[i].intent.request
  /\ \A s \in done \ runs[i].done :
       \E a \in dbAssets' : /\ a.project = runs[i].project /\ a.group = runs[i].group
                            /\ a.shot = s /\ a.request = runs[i].intent.request
OffersItsOwn ==
  /\ resume' \in [group : TaskIds, request : Requests, project : VideoProjects] \cup {none}
  /\ resume' # none => SameRequest(resume'.group, resume'.request)
  /\ retryingTask' \in 0..MaxTasks
RunPhases == {"persist", "request", "save", "finish", "failing", "mark"} \cup Ended
PhaseFits(i, phase, done) ==
  /\ phase \in RunPhases /\ done \in SUBSET Shots
  /\ phase \in {"finish", "mark", "completed"} => done = Shots
  /\ phase \in {"request", "save"} => done # Shots
  /\ phase = "mark" => runs[i].intent.by # "panel"
FreesThePanel(i, phase) ==
  IF runs[i].intent.by = "panel" /\ phase \in Ended THEN videoBusy' = FALSE
                                                   ELSE videoBusy' = videoBusy

\* A run that writes for its own request keeps the groups on one request.
LEMMA GroupsKept ==
  ASSUME GroupsAgree, AskedAgree, NEW i \in DOMAIN runs, NEW done, WritesItsOwn(i, done), OffersItsOwn,
         DOMAIN runs' = DOMAIN runs,
         \A k \in DOMAIN runs : runs'[k].intent = runs[k].intent /\ runs'[k].group = runs[k].group
  PROVE  GroupsAgree' /\ AskedAgree'
<1>1. ASSUME NEW g, NEW r, SameRequest(g, r) PROVE SameRequest(g, r)'
  BY <1>1 DEF SameRequest
<1>2. \A a \in dbAssets' : a.group # 0 => SameRequest(a.group, a.request)'
  <2> SUFFICES ASSUME NEW a \in dbAssets', a.group # 0 PROVE SameRequest(a.group, a.request)'
    OBVIOUS
  <2>1. CASE a \in dbAssets
    BY <2>1, <1>1 DEF GroupsAgree
  <2>2. CASE a \notin dbAssets
    <3>1. a.group = runs[i].group /\ a.request = runs[i].intent.request
      BY <2>2 DEF WritesItsOwn
    <3>2. SameRequest(runs[i].group, runs[i].intent.request)
      BY DEF GroupsAgree
    <3> QED BY <3>1, <3>2, <1>1
  <2> QED BY <2>1, <2>2
<1>3. \A k \in DOMAIN runs' : SameRequest(runs[k].group, runs[k].intent.request)'
  <2> SUFFICES ASSUME NEW k \in DOMAIN runs PROVE SameRequest(runs[k].group, runs[k].intent.request)'
    OBVIOUS
  <2>1. SameRequest(runs[k].group, runs[k].intent.request)
    BY DEF GroupsAgree
  <2>2. runs'[k].group = runs[k].group /\ runs'[k].intent = runs[k].intent
    OBVIOUS
  <2> QED BY <2>1, <2>2 DEF SameRequest
<1>4. (resume # none => SameRequest(resume.group, resume.request))'
  BY <1>1 DEF OffersItsOwn
<1>5. AskedAgree'
  <2> SUFFICES ASSUME NEW k \in DOMAIN asking, asking[k].group # 0
               PROVE  SameRequest(asking[k].group, asking[k].request)'
    BY DEF WritesItsOwn, AskedAgree
  <2>1. SameRequest(asking[k].group, asking[k].request) /\ asking' = asking
    BY DEF WritesItsOwn, AskedAgree
  <2> QED BY <2>1 DEF SameRequest
<1> QED BY <1>2, <1>3, <1>4, <1>5 DEF GroupsAgree

\* A run that saves the shot it passes keeps its shots saved.
LEMMA SavedKept ==
  ASSUME DoneIsSaved, NEW i \in DOMAIN runs, NEW phase, NEW done,
         WritesItsOwn(i, done), PhaseFits(i, phase, done),
         DOMAIN runs' = DOMAIN runs,
         \A k \in DOMAIN runs : /\ runs'[k].intent = runs[k].intent /\ runs'[k].group = runs[k].group
                                /\ runs'[k].project = runs[k].project
                                /\ k # i => runs'[k] = runs[k],
         runs'[i].phase = phase, runs'[i].done = done
  PROVE  DoneIsSaved'
<1> SUFFICES ASSUME NEW k \in DOMAIN runs
             PROVE  /\ \A s \in runs'[k].done : SavedFor(runs[k], s)'
                    /\ runs'[k].phase \in {"finish", "mark", "completed"} => runs'[k].done = Shots
                    /\ runs'[k].phase \in {"request", "save"} => runs'[k].done # Shots
                    /\ runs'[k].phase = "mark" => runs'[k].intent.by # "panel"
  BY DEF DoneIsSaved
<1>1. /\ runs'[k].intent = runs[k].intent /\ runs'[k].group = runs[k].group
      /\ runs'[k].project = runs[k].project
  OBVIOUS
<1>2. \A s \in runs[k].done : SavedFor(runs[k], s)'
  <2> TAKE s \in runs[k].done
  <2>1. PICK a \in dbAssets : /\ a.project = runs[k].project /\ a.group = runs[k].group
                              /\ a.shot = s /\ a.request = runs[k].intent.request
    BY DEF DoneIsSaved, SavedFor
  <2>2. a \in dbAssets'
    BY DEF WritesItsOwn
  <2> QED BY <1>1, <2>1, <2>2 DEF SavedFor
<1>3. CASE k # i
  <2>1. runs'[k] = runs[k]
    BY <1>3
  <2> QED BY <1>2, <2>1 DEF DoneIsSaved
<1>4. CASE k = i
  <2>1. \A s \in done \ runs[i].done : SavedFor(runs[k], s)'
    <3> TAKE s \in done \ runs[i].done
    <3>1. PICK a \in dbAssets' : /\ a.project = runs[i].project /\ a.group = runs[i].group
                                 /\ a.shot = s /\ a.request = runs[i].intent.request
      BY DEF WritesItsOwn
    <3> QED BY <1>1, <1>4, <3>1 DEF SavedFor
  <2>2. \A s \in runs'[k].done : SavedFor(runs[k], s)'
    BY <1>2, <1>4, <2>1
  <2> QED BY <1>4, <2>2 DEF PhaseFits
<1> QED BY <1>3, <1>4

\* A run that frees the panel when it ends leaves at most one of its runs.
LEMMA PanelKept ==
  ASSUME PanelRunsOnce, videoBusy \in BOOLEAN, NEW i \in DOMAIN runs, NEW phase,
         runs[i].phase \notin Ended, FreesThePanel(i, phase),
         DOMAIN runs' = DOMAIN runs,
         \A k \in DOMAIN runs : runs'[k].intent = runs[k].intent /\ (k # i => runs'[k] = runs[k]),
         runs'[i].phase = phase
  PROVE  PanelRunsOnce'
<1>1. CASE runs[i].intent.by # "panel"
  <2>1. PanelRuns' = PanelRuns
    BY <1>1 DEF PanelRuns
  <2>2. videoBusy' = videoBusy
    BY <1>1 DEF FreesThePanel
  <2> QED BY <2>1, <2>2 DEF PanelRunsOnce
<1>2. CASE runs[i].intent.by = "panel"
  <2>1. i \in PanelRuns
    BY <1>2 DEF PanelRuns
  <2>2. \A k \in PanelRuns : k = i
    BY <2>1 DEF PanelRunsOnce
  <2>3. \A k \in DOMAIN runs : k \in PanelRuns' <=> k = i /\ phase \notin Ended
    <3> TAKE k \in DOMAIN runs
    <3>1. CASE k # i
      BY <3>1, <2>2 DEF PanelRuns
    <3>2. CASE k = i
      BY <3>2, <1>2 DEF PanelRuns
    <3> QED BY <3>1, <3>2
  <2>4. videoBusy
    BY <2>1 DEF PanelRunsOnce
  <2>5. PanelRuns' \subseteq DOMAIN runs
    BY DEF PanelRuns
  <2>6. CASE phase \in Ended
    <3>1. PanelRuns' = {} /\ videoBusy' = FALSE
      BY <1>2, <2>3, <2>5, <2>6 DEF FreesThePanel
    <3> QED BY <3>1 DEF PanelRunsOnce
  <2>7. CASE phase \notin Ended
    <3>1. PanelRuns' = {i} /\ videoBusy' = videoBusy
      BY <1>2, <2>3, <2>5, <2>7 DEF FreesThePanel
    <3> QED BY <2>4, <3>1 DEF PanelRunsOnce
  <2> QED BY <2>6, <2>7
<1> QED BY <1>1, <1>2

\* A step of one run that meets those three conditions keeps the invariant.
LEMMA RunMoves ==
  ASSUME VideoInv, NEW i \in DOMAIN runs, NEW phase, NEW done,
         Changed(i, phase, done), runs[i].phase \notin Ended, PhaseFits(i, phase, done),
         LibraryTypeOK', WritesItsOwn(i, done), OffersItsOwn, FreesThePanel(i, phase)
  PROVE  VideoInv'
<1>0. VideoTypeOK /\ LibraryInv /\ GroupsAgree /\ AskedAgree /\ DoneIsSaved /\ PanelRunsOnce
  BY DEF VideoInv
<1>1. /\ runs' \in Seq(Runs) /\ Len(runs') = Len(runs) /\ DOMAIN runs' = DOMAIN runs
      /\ \A k \in DOMAIN runs : /\ runs'[k].intent = runs[k].intent /\ runs'[k].group = runs[k].group
                                /\ runs'[k].project = runs[k].project
                                /\ k # i => runs'[k] = runs[k]
      /\ runs'[i].phase = phase /\ runs'[i].done = done
  BY <1>0, ChangedRun DEF PhaseFits, RunPhases
<1>2. LibraryInv'
  BY <1>0, WritesKeepLibrary DEF WritesItsOwn
<1>3. VideoTypeOK'
  <2>1. videoBusy' \in BOOLEAN
    BY <1>0 DEF VideoTypeOK, FreesThePanel
  <2> QED BY <1>0, <1>1, <2>1 DEF VideoTypeOK, WritesItsOwn, OffersItsOwn
<1>4. GroupsAgree' /\ AskedAgree'
  BY <1>0, <1>1, GroupsKept
<1>5. DoneIsSaved'
  BY <1>0, <1>1, SavedKept
<1>6. PanelRunsOnce'
  BY <1>0, <1>1, PanelKept DEF VideoTypeOK
<1> QED BY <1>2, <1>3, <1>4, <1>5, <1>6 DEF VideoInv

---------------------------------------------------------------------------
(* The steps of a run.                                                     *)

\* What every step of a run leaves alone, and where it is going.
LEMMA GotoChanges ==
  ASSUME VideoTypeOK, NEW i \in DOMAIN runs, NEW phase, Goto(i, phase)
  PROVE  Changed(i, phase, runs[i].done)
<1>1. runs[i] \in Runs /\ runs \in Seq(Runs)
  BY DEF VideoTypeOK
<1>2. [runs[i] EXCEPT !.phase = phase] = [runs[i] EXCEPT !.phase = phase, !.done = runs[i].done]
  BY <1>1 DEF Runs
<1> QED BY <1>1, <1>2 DEF Goto, Changed

\* A run that writes no video writes nothing of anyone.
LEMMA WritesNothing ==
  ASSUME VideoInv, NEW i \in DOMAIN runs, NEW done, done \subseteq runs[i].done,
         UNCHANGED <<reload, startupLoad, events, current, drafts, asking, dbAssets, assets>>
  PROVE  WritesItsOwn(i, done)
BY DEF WritesItsOwn, VideoInv, LibraryInv, Written

\* Keeping or taking back the offer to resume offers nothing new.
LEMMA KeepsOffers ==
  ASSUME VideoInv, resume' = resume \/ resume' = none, retryingTask' \in {0, retryingTask}
  PROVE  OffersItsOwn
BY LibraryAssumption DEF OffersItsOwn, VideoInv, VideoTypeOK, GroupsAgree

\* What a run holds has its type.
LEMMA RunTypes ==
  ASSUME VideoInv, NEW i \in DOMAIN runs
  PROVE  /\ runs[i] \in Runs /\ runs[i].intent \in Intents /\ runs[i].done \in SUBSET Shots
         /\ i \in TaskIds /\ runs[i].group \in TaskIds /\ LibraryTypeOK
         /\ runs[i].project \in VideoProjects
<1>1. runs \in Seq(Runs) /\ Len(runs) <= MaxTasks /\ LibraryTypeOK
  BY DEF VideoInv, VideoTypeOK
<1>2. runs[i] \in Runs /\ i \in 1..Len(runs) /\ Len(runs) \in Nat
  BY <1>1
<1>3. i \in TaskIds
  BY <1>1, <1>2, LibraryAssumption DEF TaskIds
<1> QED BY <1>1, <1>2, <1>3 DEF Runs

\* The shot a run asks for next is one that is not behind it.
LEMMA NextShotIsNew ==
  ASSUME NEW done \in SUBSET Shots, done # Shots
  PROVE  Min(Shots \ done) \in Shots \ done
<1>1. PICK S : S = Shots \ done
  OBVIOUS
<1>2. S # {} /\ S \in SUBSET Nat
  <2>1. Shots \subseteq Nat
    BY LibraryAssumption DEF Shots
  <2>2. \E s \in Shots : s \notin done
    OBVIOUS
  <2> QED BY <1>1, <2>1, <2>2
<1>3. Min(S) \in S
  BY <1>2, MinIsLeast
<1> QED BY <1>1, <1>3

\* The row of the task is written as running.
LEMMA StepPersistRunning ==
  ASSUME VideoInv, NEW i \in DOMAIN runs, PersistRunning(i), UNCHANGED <<reload, startupLoad, events>>
  PROVE  VideoInv'
<1> DEFINE done == runs[i].done
           phase == Ahead(done)
<1>1. Changed(i, phase, done) /\ runs[i].phase = "persist"
  BY GotoChanges DEF PersistRunning, VideoInv
<1>2. PhaseFits(i, phase, done)
  BY RunTypes DEF PhaseFits, RunPhases, Ahead
<1>3. LibraryTypeOK'
  BY RunTypes DEF PersistRunning, PersistTask, LibraryTypeOK, Statuses
<1>4. WritesItsOwn(i, done)
  BY WritesNothing DEF PersistRunning
<1>5. OffersItsOwn
  BY KeepsOffers DEF PersistRunning
<1>6. FreesThePanel(i, phase)
  BY DEF PersistRunning, FreesThePanel, Ahead, Ended
<1> HIDE DEF phase, done
<1> QED BY <1>1, <1>2, <1>3, <1>4, <1>5, <1>6, RunMoves DEF Ended

\* The service answers with the next shot, which is paid for.
LEMMA StepShotProduced ==
  ASSUME VideoInv, NEW i \in DOMAIN runs, ShotProduced(i), UNCHANGED <<reload, startupLoad, events>>
  PROVE  VideoInv'
<1> DEFINE done == runs[i].done
<1>1. Changed(i, "save", done) /\ runs[i].phase = "request"
  BY GotoChanges DEF ShotProduced, VideoInv
<1>2. PhaseFits(i, "save", done)
  BY <1>1, RunTypes DEF PhaseFits, RunPhases, VideoInv, DoneIsSaved
<1>3. LibraryTypeOK'
  BY RunTypes DEF ShotProduced, rowVars, LibraryTypeOK
<1>4. WritesItsOwn(i, done)
  BY WritesNothing DEF ShotProduced, rowVars
<1>5. OffersItsOwn
  BY KeepsOffers DEF ShotProduced
<1>6. FreesThePanel(i, "save")
  BY DEF ShotProduced, FreesThePanel, Ended
<1> HIDE DEF done
<1> QED BY <1>1, <1>2, <1>3, <1>4, <1>5, <1>6, RunMoves DEF Ended

\* The video is saved under the request of the run.
LEMMA StepSaveShot ==
  ASSUME VideoInv, NEW i \in DOMAIN runs, SaveShot(i), UNCHANGED <<reload, startupLoad, events>>
  PROVE  VideoInv'
<1> DEFINE run == runs[i]
           s == NextShot(run)
           done == run.done \cup {s}
           phase == Ahead(done)
           video == [project |-> run.project, group |-> run.group, shot |-> s,
                     request |-> run.intent.request]
<1>0. run.phase = "save" /\ s \in Shots
  <2>1. run.phase = "save" /\ run.done \in SUBSET Shots /\ run.done # Shots
    BY RunTypes DEF SaveShot, VideoInv, DoneIsSaved
  <2> QED BY <2>1, NextShotIsNew DEF NextShot
<1>1. Changed(i, phase, done)
  <2>1. runs' = [runs EXCEPT ![i].done = done, ![i].phase = phase]
    BY DEF SaveShot
  <2>2. runs \in Seq(Runs) /\ run \in Runs
    BY RunTypes DEF VideoInv, VideoTypeOK
  <2>3. [run EXCEPT !.done = done, !.phase = phase] = [run EXCEPT !.phase = phase, !.done = done]
    BY <2>2 DEF Runs
  <2> HIDE DEF done, phase
  <2> QED BY <2>1, <2>2, <2>3 DEF Changed
<1>2. PhaseFits(i, phase, done)
  BY <1>0, RunTypes DEF PhaseFits, RunPhases, Ahead
<1>3. /\ dbAssets' = dbAssets \cup {video} /\ assets' = assets \cup {video}
      /\ UNCHANGED <<dbTasks, tasks, current, drafts, resume, videoBusy, retryingTask, asking>>
  BY DEF SaveShot, PersistAssets, AddAssets
<1>4. video \in Assets
  <2>1. /\ run.project \in VideoProjects \cup {none} /\ run.group \in 0..MaxTasks
        /\ run.intent.request \in Requests \cup {none} /\ s \in 0..(ShotCount + MaxRevisions)
    BY <1>0, RunTypes, LibraryAssumption DEF Intents, TaskIds, Shots
  <2> HIDE DEF s, run
  <2> QED BY <2>1 DEF Assets
<1>5. LibraryTypeOK'
  BY <1>3, <1>4, RunTypes DEF LibraryTypeOK
<1>6. WritesItsOwn(i, done)
  <2>1. /\ video.project = run.project /\ video.group = run.group /\ video.shot = s
        /\ video.request = run.intent.request
    OBVIOUS
  <2> HIDE DEF video
  <2> QED BY <1>3, <2>1 DEF WritesItsOwn, VideoInv, LibraryInv, Written
<1>7. OffersItsOwn
  BY <1>3, KeepsOffers
<1>8. FreesThePanel(i, phase)
  BY <1>3 DEF FreesThePanel, Ahead, Ended
<1> HIDE DEF phase, done
<1> QED BY <1>0, <1>1, <1>2, <1>5, <1>6, <1>7, <1>8, RunMoves DEF Ended

\* A run with every shot behind it writes its row as completed.
LEMMA StepFinishRun ==
  ASSUME VideoInv, NEW i \in DOMAIN runs, FinishRun(i), UNCHANGED <<reload, startupLoad, events>>
  PROVE  VideoInv'
<1> DEFINE done == runs[i].done
           phase == IF runs[i].intent.by = "panel" THEN "completed" ELSE "mark"
<1>1. Changed(i, phase, done) /\ runs[i].phase = "finish"
  BY GotoChanges DEF FinishRun, VideoInv
<1>2. PhaseFits(i, phase, done)
  BY <1>1, RunTypes DEF PhaseFits, RunPhases, Ended, VideoInv, DoneIsSaved
<1>3. LibraryTypeOK'
  BY RunTypes DEF FinishRun, PersistTask, UpdateTask, LibraryTypeOK, Statuses
<1>4. WritesItsOwn(i, done)
  BY WritesNothing DEF FinishRun
<1>5. OffersItsOwn
  BY KeepsOffers DEF FinishRun
<1>6. FreesThePanel(i, phase)
  BY DEF FinishRun, FreesThePanel, Ended
<1> HIDE DEF phase, done
<1> QED BY <1>1, <1>2, <1>3, <1>4, <1>5, <1>6, RunMoves DEF Ended

\* A service or a disk fails the run.
LEMMA StepRunFails ==
  ASSUME VideoInv, NEW i \in DOMAIN runs, RunFails(i), UNCHANGED <<reload, startupLoad, events>>
  PROVE  VideoInv'
<1> DEFINE done == IF runs[i].phase = "persist" THEN {} ELSE runs[i].done
<1>0. runs[i].phase \in {"persist", "request", "save", "finish"}
  BY DEF RunFails
<1>1. Changed(i, "failing", done)
  <2>1. runs \in Seq(Runs) /\ runs[i] \in Runs
    BY RunTypes DEF VideoInv, VideoTypeOK
  <2>2. runs' = [runs EXCEPT ![i].phase = "failing", ![i].done = IF runs[i].phase = "persist" THEN {} ELSE @]
    BY DEF RunFails
  <2> QED BY <2>1, <2>2 DEF Changed, Runs
<1>2. PhaseFits(i, "failing", done)
  BY RunTypes DEF PhaseFits, RunPhases
<1>3. LibraryTypeOK'
  BY RunTypes DEF RunFails, UpdateTask, LibraryTypeOK, Statuses
<1>4. WritesItsOwn(i, done)
  BY WritesNothing DEF RunFails
<1>5. OffersItsOwn
  BY KeepsOffers DEF RunFails
<1>6. FreesThePanel(i, "failing")
  BY DEF RunFails, FreesThePanel, Ended
<1> HIDE DEF done
<1> QED BY <1>0, <1>1, <1>2, <1>3, <1>4, <1>5, <1>6, RunMoves DEF Ended

\* The failed run writes its row and offers to resume.
LEMMA StepRunFailed ==
  ASSUME VideoInv, NEW i \in DOMAIN runs, RunFailed(i), UNCHANGED <<reload, startupLoad, events>>
  PROVE  VideoInv'
<1> DEFINE done == runs[i].done
<1>1. Changed(i, "failed", done) /\ runs[i].phase = "failing"
  BY GotoChanges DEF RunFailed, VideoInv
<1>2. PhaseFits(i, "failed", done)
  BY RunTypes DEF PhaseFits, RunPhases, Ended
<1>3. LibraryTypeOK'
  BY RunTypes DEF RunFailed, PersistTask, LibraryTypeOK, Statuses
<1>4. WritesItsOwn(i, done)
  BY WritesNothing DEF RunFailed
<1>5. CASE runs[i].intent.by = "panel"
  <2> DEFINE offer == [group |-> runs[i].group, request |-> runs[i].intent.request,
                       project |-> runs[i].intent.home]
  <2>1. /\ offer \in [group : TaskIds, request : Requests, project : VideoProjects]
        /\ SameRequest(offer.group, offer.request)
    BY RunTypes DEF Intents, VideoInv, GroupsAgree
  <2>2. resume' \in {resume, none, offer} /\ retryingTask' = retryingTask /\ videoBusy' = FALSE
    BY <1>5 DEF RunFailed, OfferAfter, AfterEdit
  <2> HIDE DEF offer
  <2>3. OffersItsOwn
    BY <2>1, <2>2 DEF OffersItsOwn, VideoInv, VideoTypeOK, GroupsAgree
  <2>4. FreesThePanel(i, "failed")
    BY <1>5, <2>2 DEF FreesThePanel, Ended
  <2> HIDE DEF done
  <2> QED BY <1>1, <1>2, <1>3, <1>4, <2>3, <2>4, RunMoves DEF Ended
<1>6. CASE runs[i].intent.by # "panel"
  <2>1. OffersItsOwn
    BY <1>6, KeepsOffers DEF RunFailed
  <2>2. FreesThePanel(i, "failed")
    BY <1>6 DEF FreesThePanel, RunFailed
  <2> HIDE DEF done
  <2> QED BY <1>1, <1>2, <1>3, <1>4, <2>1, <2>2, RunMoves DEF Ended
<1> QED BY <1>5, <1>6

\* A retry that completed marks the task it repeated.
LEMMA StepMarkRetried ==
  ASSUME VideoInv, NEW i \in DOMAIN runs, MarkRetried(i), UNCHANGED <<reload, startupLoad, events>>
  PROVE  VideoInv'
<1> DEFINE done == runs[i].done
<1>1. Changed(i, "completed", done) /\ runs[i].phase = "mark"
  BY GotoChanges DEF MarkRetried, VideoInv
<1>2. PhaseFits(i, "completed", done)
  BY <1>1, RunTypes DEF PhaseFits, RunPhases, Ended, VideoInv, DoneIsSaved
<1>3. LibraryTypeOK'
  BY RunTypes DEF MarkRetried, PersistTask, UpdateTask, LibraryTypeOK, Statuses
<1>4. WritesItsOwn(i, done)
  BY WritesNothing DEF MarkRetried
<1>5. OffersItsOwn
  BY KeepsOffers DEF MarkRetried
<1>6. FreesThePanel(i, "completed")
  BY <1>1 DEF MarkRetried, FreesThePanel, VideoInv, DoneIsSaved
<1> HIDE DEF done
<1> QED BY <1>1, <1>2, <1>3, <1>4, <1>5, <1>6, RunMoves DEF Ended

---------------------------------------------------------------------------
(* The user.                                                               *)

\* A run that starts skips only shots saved under its group in its project.
LEMMA NewRun ==
  ASSUME VideoInv, NEW intent \in Intents, NEW project \in VideoProjects, StartRun(intent, project),
         intent.group # 0 => SameRequest(intent.group, intent.request),
         UNCHANGED <<dbAssets, dbTasks, assets, reload, startupLoad, events, current, drafts, resume>>,
         asking' \in Seq(Intents),
         \A k \in DOMAIN asking' : \E l \in DOMAIN asking : asking'[k] = asking[l],
         retryingTask' \in 0..MaxTasks,
         IF intent.by = "panel" THEN ~videoBusy /\ videoBusy' = TRUE ELSE videoBusy' = videoBusy
  PROVE  VideoInv'
<1> DEFINE i == Len(runs) + 1
           group == IF intent.group = 0 THEN i ELSE intent.group
           done == IF intent.group = 0 THEN {} ELSE SavedShots(assets, project, group)
           run == [intent |-> intent, phase |-> "persist", project |-> project,
                   group |-> group, done |-> done]
<1>0. /\ VideoTypeOK /\ LibraryInv /\ LibraryTypeOK /\ GroupsAgree /\ AskedAgree /\ DoneIsSaved
      /\ PanelRunsOnce /\ runs \in Seq(Runs) /\ assets \subseteq dbAssets
  BY DEF VideoInv, VideoTypeOK, LibraryInv, Written
<1>1. /\ runs' = Append(runs, run) /\ tasks' = [tasks EXCEPT ![i] = "running"] /\ i <= MaxTasks
  BY DEF StartRun
<1>2. i \in TaskIds /\ group \in TaskIds
  BY <1>0, <1>1, LibraryAssumption DEF TaskIds, Intents
<1>3. done \in SUBSET Shots
  BY DEF SavedShots
<1>4. /\ run \in Runs /\ run.intent = intent /\ run.phase = "persist" /\ run.project = project
      /\ run.group = group /\ run.done = done
  BY <1>2, <1>3 DEF Runs
<1>5. intent.group = 0 => group = i
  OBVIOUS
<1>6. intent.group # 0 => group = intent.group
  OBVIOUS
<1>7. \A s \in done : intent.group # 0 /\ \E a \in dbAssets : a.project = project /\ a.group = group /\ a.shot = s
  BY <1>0 DEF SavedShots
<1> HIDE DEF group, done, run
<1>8. /\ runs' \in Seq(Runs) /\ Len(runs') = i /\ DOMAIN runs' = DOMAIN runs \cup {i} /\ i \notin DOMAIN runs
      /\ runs'[i] = run /\ \A k \in DOMAIN runs : runs'[k] = runs[k]
  BY <1>0, <1>1, <1>4
<1> HIDE DEF i
<1>9. LibraryInv'
  <2>1. LibraryTypeOK'
    BY <1>0, <1>1 DEF LibraryTypeOK, Statuses
  <2> QED BY <1>0, <2>1, WritesKeepLibrary DEF LibraryInv, Written
<1>10. VideoTypeOK'
  <2>1. videoBusy' \in BOOLEAN /\ Len(runs') <= MaxTasks
    BY <1>0, <1>1, <1>8 DEF VideoTypeOK
  <2> QED BY <1>0, <1>8, <1>9, <2>1 DEF VideoTypeOK, LibraryInv
<1>11. ASSUME NEW g, NEW r, SameRequest(g, r) PROVE SameRequest(g, r)'
  BY <1>8, <1>11 DEF SameRequest
<1>own. PICK own : own = group
  OBVIOUS
<1>12. SameRequest(own, intent.request)'
  <2>1. CASE intent.group = 0
    <3>1. own \in DOMAIN runs' /\ runs'[own].intent = intent
      BY <1>4, <1>5, <1>8, <1>own, <2>1
    <3> QED BY <3>1 DEF SameRequest
  <2>2. CASE intent.group # 0
    BY <1>6, <1>11, <1>own, <2>2
  <2> QED BY <2>1, <2>2
<1>13. GroupsAgree'
  <2>1. (\A a \in dbAssets : a.group # 0 => SameRequest(a.group, a.request))'
    BY <1>0, <1>11 DEF GroupsAgree
  <2>2. (resume # none => SameRequest(resume.group, resume.request))'
    BY <1>0, <1>11 DEF GroupsAgree
  <2>3. ASSUME NEW k \in DOMAIN runs' PROVE SameRequest(runs[k].group, runs[k].intent.request)'
    <3>1. CASE k = i
      <4>1. runs'[k].group = own /\ runs'[k].intent.request = intent.request
        BY <1>4, <1>8, <1>own, <3>1
      <4> QED BY <1>12, <4>1 DEF SameRequest
    <3>2. CASE k # i
      <4>1. k \in DOMAIN runs /\ runs'[k] = runs[k]
        BY <1>8, <3>2, <2>3
      <4>2. SameRequest(runs[k].group, runs[k].intent.request)
        BY <1>0, <4>1 DEF GroupsAgree
      <4>3. PICK g, r : g = runs[k].group /\ r = runs[k].intent.request
        OBVIOUS
      <4>4. SameRequest(g, r)'
        BY <1>11, <4>2, <4>3
      <4> QED BY <4>1, <4>3, <4>4 DEF SameRequest
    <3> QED BY <3>1, <3>2
  <2> QED BY <2>1, <2>2, <2>3 DEF GroupsAgree
<1>14. AskedAgree'
  <2> SUFFICES ASSUME NEW k \in DOMAIN asking', asking'[k].group # 0
               PROVE  SameRequest(asking[k].group, asking[k].request)'
    BY DEF AskedAgree
  <2>1. PICK l \in DOMAIN asking : asking'[k] = asking[l]
    OBVIOUS
  <2>2. PICK g, r : g = asking[l].group /\ r = asking[l].request
    OBVIOUS
  <2>3. SameRequest(g, r)
    BY <1>0, <2>1, <2>2 DEF AskedAgree
  <2>4. SameRequest(g, r)'
    BY <1>11, <2>3
  <2> QED BY <2>1, <2>2, <2>4 DEF SameRequest
<1>15. DoneIsSaved'
  <2> SUFFICES ASSUME NEW k \in DOMAIN runs'
               PROVE  /\ \A s \in runs'[k].done : SavedFor(runs[k], s)'
                      /\ runs'[k].phase \in {"finish", "mark", "completed"} => runs'[k].done = Shots
                      /\ runs'[k].phase \in {"request", "save"} => runs'[k].done # Shots
                      /\ runs'[k].phase = "mark" => runs'[k].intent.by # "panel"
    BY DEF DoneIsSaved
  <2>1. CASE k = i
    <3>1. runs'[k] = run
      BY <1>8, <2>1
    <3>2. ASSUME NEW s \in done PROVE SavedFor(runs[k], s)'
      <4>1. PICK a \in dbAssets : a.project = project /\ a.group = group /\ a.shot = s
        BY <1>7
      <4>2. SameRequest(a.group, a.request)
        BY <1>0, <1>2, <4>1 DEF GroupsAgree, TaskIds
      <4>3. SameRequest(a.group, intent.request)
        BY <1>6, <1>7, <4>1
      <4>4. a.request = intent.request
        BY <4>2, <4>3 DEF SameRequest
      <4> QED BY <1>4, <3>1, <4>1, <4>4 DEF SavedFor
    <3> QED BY <1>4, <3>1, <3>2
  <2>2. CASE k # i
    <3>1. k \in DOMAIN runs /\ runs'[k] = runs[k]
      BY <1>8, <2>2
    <3>2. \A s \in runs[k].done : SavedFor(runs[k], s)'
      BY <1>0, <3>1 DEF DoneIsSaved, SavedFor
    <3> QED BY <1>0, <3>1, <3>2 DEF DoneIsSaved
  <2> QED BY <2>1, <2>2
<1>16. PanelRunsOnce'
  <2>1. CASE intent.by = "panel"
    <3>1. PanelRuns = {} /\ videoBusy' = TRUE
      BY <1>0, <2>1 DEF PanelRunsOnce
    <3>2. \A k \in DOMAIN runs : k \notin PanelRuns'
      <4> TAKE k \in DOMAIN runs
      <4>1. runs'[k] = runs[k] /\ k \notin PanelRuns
        BY <1>8, <3>1
      <4> QED BY <4>1 DEF PanelRuns
    <3>3. i \in PanelRuns'
      BY <1>4, <1>8, <2>1 DEF PanelRuns, Ended
    <3>4. PanelRuns' = {i}
      BY <1>8, <3>2, <3>3 DEF PanelRuns
    <3> QED BY <3>1, <3>4 DEF PanelRunsOnce
  <2>2. CASE intent.by # "panel"
    <3>1. PanelRuns' = PanelRuns /\ videoBusy' = videoBusy
      BY <1>4, <1>8, <2>2 DEF PanelRuns
    <3> QED BY <1>0, <3>1 DEF PanelRunsOnce
  <2> QED BY <2>1, <2>2
<1> QED BY <1>9, <1>10, <1>13, <1>14, <1>15, <1>16 DEF VideoInv

\* Without a step of a run, only what is asked for has to be looked at.
LEMMA RunsRest ==
  ASSUME VideoInv, LibraryInv', UNCHANGED <<runs, videoBusy, retryingTask>>,
         dbAssets \subseteq dbAssets', \A a \in dbAssets' \ dbAssets : a.group = 0,
         current' \in VideoProjects, drafts' \in [VideoProjects -> Requests],
         resume' = resume \/ resume' = none,
         asking' \in Seq(Intents),
         \A k \in DOMAIN asking' : \/ \E l \in DOMAIN asking : asking'[k] = asking[l]
                                 \/ asking'[k].group = 0
                                 \/ SameRequest(asking'[k].group, asking'[k].request)
  PROVE  VideoInv'
<1>0. /\ VideoTypeOK /\ GroupsAgree /\ AskedAgree /\ DoneIsSaved /\ PanelRunsOnce /\ runs' = runs
      /\ videoBusy' = videoBusy
  BY DEF VideoInv
<1>1. VideoTypeOK'
  BY <1>0 DEF VideoTypeOK, LibraryInv
<1>2. GroupsAgree'
  <2>1. \A a \in dbAssets' : a.group # 0 => SameRequest(a.group, a.request)
    BY <1>0 DEF GroupsAgree
  <2> QED BY <1>0, <2>1 DEF GroupsAgree, SameRequest
<1>3. AskedAgree'
  <2>1. \A k \in DOMAIN asking' : asking'[k].group # 0 => SameRequest(asking'[k].group, asking'[k].request)
    BY <1>0 DEF AskedAgree
  <2> QED BY <1>0, <2>1 DEF AskedAgree, SameRequest
<1>4. DoneIsSaved'
  <2>1. \A run, s : SavedFor(run, s) => \E a \in dbAssets' :
           a.project = run.project /\ a.group = run.group /\ a.shot = s /\ a.request = run.intent.request
    BY DEF SavedFor
  <2>2. \A i \in DOMAIN runs : \A s \in runs[i].done : \E a \in dbAssets' :
           /\ a.project = runs[i].project /\ a.group = runs[i].group
           /\ a.shot = s /\ a.request = runs[i].intent.request
    BY <1>0, <2>1 DEF DoneIsSaved
  <2> QED BY <1>0, <2>2 DEF DoneIsSaved, SavedFor
<1>5. PanelRunsOnce'
  BY <1>0 DEF PanelRunsOnce, PanelRuns
<1> QED BY <1>1, <1>2, <1>3, <1>4, <1>5 DEF VideoInv

\* What the user sees while deciding is not disturbed by reloads and events.
LEMMA LibrarySteps ==
  ASSUME VideoInv, LibraryNext, UNCHANGED studioVars
  PROVE  VideoInv'
<1>1. LibraryInv'
  BY LibraryNextInv DEF VideoInv
<1>2. dbAssets \subseteq dbAssets' /\ \A a \in dbAssets' \ dbAssets : a.group = 0
  <2>1. CASE ProduceAsset
    BY <2>1 DEF ProduceAsset, PersistAssets, External
  <2>2. CASE UNCHANGED dbAssets
    BY <2>2
  <2>3. CASE StartupStep
    BY <2>3, StartupFeedsNothing
  <2> QED BY <2>1, <2>2, <2>3
    DEF LibraryNext, StartupStep, LoadAssetRows, LoadTaskRows, Deliver, ReloadFails, HearEvent,
        DebounceFires
<1>3. UNCHANGED <<runs, videoBusy, retryingTask, current, drafts, resume, asking>>
  BY DEF studioVars
<1> QED BY <1>1, <1>2, <1>3, RunsRest DEF VideoInv, VideoTypeOK

\* The group the panel offers to complete was paid for with the form it shows.
LEMMA PanelIntentAgrees ==
  ASSUME VideoInv, NEW scope \in {"all", "resume"}, scope = "resume" => Resumable
  PROVE  /\ PanelIntent(scope) \in Intents /\ PanelIntent(scope).by = "panel"
         /\ PanelIntent(scope).group # 0 =>
              SameRequest(PanelIntent(scope).group, PanelIntent(scope).request)
<1>0. VideoTypeOK /\ GroupsAgree
  BY DEF VideoInv
<1>1. CASE scope = "all"
  BY <1>0, <1>1, LibraryAssumption DEF PanelIntent, Intents, Callers, VideoTypeOK
<1>2. CASE scope = "resume"
  <2>1. /\ resume # none
        /\ Fingerprint(resume.project, resume.request) = Fingerprint(current, drafts[current])
    BY <1>2 DEF Resumable, SavedShotNos
  <2>2. resume.request = drafts[current] /\ resume.group \in 0..MaxTasks
    BY <1>0, <2>1, LibraryAssumption DEF Fingerprint, VideoTypeOK, TaskIds
  <2>3. SameRequest(resume.group, drafts[current])
    BY <1>0, <2>1, <2>2 DEF GroupsAgree
  <2>4. PanelIntent(scope) = [by |-> "panel", request |-> drafts[current], home |-> current, of |-> 0,
                              group |-> resume.group]
    BY <1>2 DEF PanelIntent
  <2> QED BY <1>0, <2>2, <2>3, <2>4, LibraryAssumption DEF Intents, Callers, VideoTypeOK
<1> QED BY <1>1, <1>2

\* The panel starts a run, resumed or new.
LEMMA StepClickRun ==
  ASSUME VideoInv, NEW scope \in {"all", "resume"}, ClickRun(scope)
  PROVE  VideoInv'
<1>0. VideoTypeOK /\ LibraryInv
  BY DEF VideoInv
<1>1. PICK intent : intent = PanelIntent(scope)
  OBVIOUS
<1>2. /\ intent \in Intents /\ intent.by = "panel"
      /\ intent.group # 0 => SameRequest(intent.group, intent.request)
  BY <1>1, PanelIntentAgrees DEF ClickRun
<1>3. UNCHANGED <<dbAssets, dbTasks, assets, reload, startupLoad, events, current, drafts, resume, retryingTask>>
  BY DEF ClickRun
<1>4. CASE IsSingleton(BilledShots(scope))
  <2>1. StartRun(intent, current) /\ ~videoBusy /\ videoBusy' = TRUE /\ asking' = asking
    BY <1>1, <1>4 DEF ClickRun
  <2>2. asking' \in Seq(Intents) /\ current \in VideoProjects /\ retryingTask' \in 0..MaxTasks
    BY <1>0, <1>3, <2>1 DEF VideoTypeOK
  <2> QED BY <1>2, <1>3, <2>1, <2>2, NewRun
<1>5. CASE ~IsSingleton(BilledShots(scope))
  <2>1. asking' = Append(asking, intent) /\ UNCHANGED <<runs, tasks, videoBusy>>
    BY <1>1, <1>5 DEF ClickRun
  <2>2. asking \in Seq(Intents)
    BY <1>0 DEF VideoTypeOK
  <2>3. /\ asking' \in Seq(Intents)
        /\ \A k \in DOMAIN asking' : asking'[k] = intent \/ (k \in DOMAIN asking /\ asking'[k] = asking[k])
    BY <1>2, <2>1, <2>2
  <2>4. LibraryInv'
    BY <1>0, <1>3, <2>1, WritesKeepLibrary DEF LibraryInv, LibraryTypeOK, Written
  <2>5. \A k \in DOMAIN asking' : \/ \E l \in DOMAIN asking : asking'[k] = asking[l]
                                 \/ asking'[k].group = 0
                                 \/ SameRequest(asking'[k].group, asking'[k].request)
    BY <1>2, <2>3
  <2> QED BY <1>0, <1>3, <2>1, <2>3, <2>4, <2>5, RunsRest DEF VideoTypeOK
<1> QED BY <1>4, <1>5

\* The task list asks to confirm a retry.
LEMMA StepClickRetry ==
  ASSUME VideoInv, NEW i \in TaskIds, ClickRetry(i)
  PROVE  VideoInv'
<1>0. VideoTypeOK /\ LibraryInv /\ GroupsAgree
  BY DEF VideoInv
<1>1. PICK intent : intent = [by |-> "retry", request |-> runs[i].intent.request,
                             group |-> runs[i].group, home |-> runs[i].project, of |-> i]
  OBVIOUS
<1>2. i \in DOMAIN runs
  BY DEF ClickRetry
<1>3. intent \in Intents /\ SameRequest(intent.group, intent.request)
  <2>1. /\ runs[i].intent.request \in Requests /\ runs[i].group \in 0..MaxTasks
        /\ runs[i].project \in VideoProjects /\ i \in 0..MaxTasks
    BY <1>2, RunTypes, LibraryAssumption DEF Intents, TaskIds
  <2> QED BY <1>0, <1>1, <1>2, <2>1 DEF Intents, Callers, GroupsAgree
<1>4. /\ UNCHANGED <<dbAssets, dbTasks, assets, tasks, reload, startupLoad, events, current, drafts, resume,
                    retryingTask, runs, videoBusy>>
      /\ asking' = Append(asking, intent)
  BY <1>1 DEF ClickRetry, rowVars
<1>5. asking \in Seq(Intents)
  BY <1>0 DEF VideoTypeOK
<1>6. /\ asking' \in Seq(Intents)
      /\ \A k \in DOMAIN asking' : asking'[k] = intent \/ (k \in DOMAIN asking /\ asking'[k] = asking[k])
  BY <1>3, <1>4, <1>5
<1>7. LibraryInv'
  BY <1>0, <1>4, WritesKeepLibrary DEF LibraryInv, LibraryTypeOK, Written
<1>8. \A k \in DOMAIN asking' : \/ \E l \in DOMAIN asking : asking'[k] = asking[l]
                               \/ asking'[k].group = 0
                               \/ SameRequest(asking'[k].group, asking'[k].request)
  BY <1>3, <1>6
<1> QED BY <1>0, <1>4, <1>6, <1>7, <1>8, RunsRest DEF VideoTypeOK

\* An answered question leaves the others.
LEMMA AnsweredAsking ==
  ASSUME NEW s \in Seq(Intents), NEW k \in DOMAIN s
  PROVE  /\ RemoveAt(s, k) \in Seq(Intents)
         /\ \A l \in DOMAIN RemoveAt(s, k) : \E m \in DOMAIN s : RemoveAt(s, k)[l] = s[m]
<1> DEFINE front == SubSeq(s, 1, k - 1)
           back == SubSeq(s, k + 1, Len(s))
<1>1. k \in 1..Len(s) /\ Len(s) \in Nat
  OBVIOUS
<1>2. /\ front \in Seq(Intents) /\ Len(front) = k - 1
      /\ \A l \in 1..k - 1 : front[l] = s[l]
  BY <1>1
<1>3. /\ back \in Seq(Intents) /\ Len(back) = Len(s) - k
      /\ \A l \in 1..Len(s) - k : back[l] = s[k + l]
  BY <1>1
<1>4. RemoveAt(s, k) = front \o back
  BY DEF RemoveAt
<1> HIDE DEF front, back
<1>5. /\ RemoveAt(s, k) \in Seq(Intents) /\ Len(RemoveAt(s, k)) = Len(s) - 1
      /\ \A l \in 1..Len(s) - 1 : RemoveAt(s, k)[l] = IF l <= k - 1 THEN front[l] ELSE back[l - (k - 1)]
  BY <1>1, <1>2, <1>3, <1>4
<1>6. \A l \in 1..Len(s) - 1 : \E m \in DOMAIN s : RemoveAt(s, k)[l] = s[m]
  <2> TAKE l \in 1..Len(s) - 1
  <2>1. CASE l <= k - 1
    BY <1>1, <1>2, <1>5, <2>1
  <2>2. CASE l > k - 1
    <3>1. l - (k - 1) \in 1..Len(s) - k /\ k + (l - (k - 1)) = l + 1 /\ l + 1 \in DOMAIN s
      BY <1>1, <2>2
    <3>2. RemoveAt(s, k)[l] = back[l - (k - 1)] /\ back[l - (k - 1)] = s[k + (l - (k - 1))]
      BY <1>1, <1>3, <1>5, <2>2, <3>1
    <3> QED BY <3>1, <3>2
  <2> QED BY <1>1, <2>1, <2>2
<1>7. PICK t : t = RemoveAt(s, k)
  OBVIOUS
<1>8. t \in Seq(Intents) /\ DOMAIN t = 1..Len(s) - 1
  BY <1>1, <1>5, <1>7
<1> QED BY <1>6, <1>7, <1>8

\* The confirmation is answered, and the retry starts a run.
LEMMA StepAnswer ==
  ASSUME VideoInv, NEW k \in DOMAIN asking, NEW agreed \in BOOLEAN, Answer(k, agreed)
  PROVE  VideoInv'
<1>0. VideoTypeOK /\ LibraryInv /\ AskedAgree
  BY DEF VideoInv
<1>1. PICK intent : intent = asking[k]
  OBVIOUS
<1>2. intent \in Intents /\ (intent.group # 0 => SameRequest(intent.group, intent.request))
  BY <1>0, <1>1 DEF VideoTypeOK, AskedAgree
<1>3. /\ asking' \in Seq(Intents)
      /\ \A l \in DOMAIN asking' : \E m \in DOMAIN asking : asking'[l] = asking[m]
  BY <1>0, AnsweredAsking DEF Answer, VideoTypeOK
<1>4. UNCHANGED <<dbAssets, dbTasks, assets, reload, startupLoad, events, current, drafts, resume>>
  BY DEF Answer
<1>5. intent.home \in VideoProjects /\ intent.of \in 0..MaxTasks /\ current \in VideoProjects
  BY <1>0, <1>2 DEF Intents, VideoTypeOK
<1>6. CASE agreed /\ StillAllowed(intent) /\ intent.by = "panel"
  <2>1. StartRun(intent, current) /\ ~videoBusy /\ videoBusy' = TRUE /\ retryingTask' = retryingTask
    BY <1>1, <1>6 DEF Answer, StillAllowed
  <2>2. retryingTask' \in 0..MaxTasks
    BY <1>0, <2>1 DEF VideoTypeOK
  <2> QED BY <1>2, <1>3, <1>4, <1>5, <1>6, <2>1, <2>2, NewRun
<1>7. CASE agreed /\ StillAllowed(intent) /\ intent.by # "panel"
  <2>1. StartRun(intent, intent.home) /\ videoBusy' = videoBusy /\ retryingTask' = intent.of
    BY <1>1, <1>7 DEF Answer
  <2> QED BY <1>2, <1>3, <1>4, <1>5, <1>7, <2>1, NewRun
<1>8. CASE ~(agreed /\ StillAllowed(intent))
  <2>1. UNCHANGED <<runs, tasks, videoBusy, retryingTask>>
    BY <1>1, <1>8 DEF Answer
  <2>2. LibraryInv'
    BY <1>0, <1>4, <2>1, WritesKeepLibrary DEF LibraryInv, LibraryTypeOK, Written
  <2> QED BY <1>0, <1>3, <1>4, <2>1, <2>2, RunsRest DEF VideoTypeOK
<1> QED BY <1>6, <1>7, <1>8

\* Edits and switches may only forget the offer.
LEMMA StepsOfForms ==
  ASSUME VideoInv,
         \/ \E request \in Requests : EditForm(request)
         \/ \E project \in VideoProjects : SwitchTo(project)
  PROVE  VideoInv'
<1>0. VideoTypeOK /\ LibraryInv
  BY DEF VideoInv
<1>1. /\ UNCHANGED <<dbAssets, dbTasks, assets, tasks, reload, startupLoad, events, runs, videoBusy, retryingTask, asking>>
      /\ resume' = resume \/ resume' = none
      /\ current' \in VideoProjects /\ drafts' \in [VideoProjects -> Requests]
  BY <1>0 DEF EditForm, SwitchTo, rowVars, AfterEdit, VideoTypeOK
<1>2. LibraryInv'
  BY <1>0, <1>1, WritesKeepLibrary DEF LibraryInv, LibraryTypeOK, Written
<1> QED BY <1>0, <1>1, <1>2, RunsRest DEF VideoTypeOK

\* A refresh asks for a reload of the library.
LEMMA StepRefreshHistory ==
  ASSUME VideoInv, RefreshHistory
  PROVE  VideoInv'
<1>0. VideoTypeOK /\ LibraryInv /\ LibraryTypeOK
  BY DEF VideoInv, LibraryInv
<1>1. /\ RequestReload({}) /\ UNCHANGED <<rowVars, startupLoad>> /\ events' = events
      /\ UNCHANGED <<runs, videoBusy, retryingTask, current, drafts, resume, asking>>
  BY DEF RefreshHistory, studioVars
<1>2. LibraryInv'
  BY <1>0, <1>1, RequestKeepsLibrary DEF LibraryTypeOK
<1>3. dbAssets' = dbAssets
  BY <1>1 DEF rowVars
<1> QED BY <1>0, <1>1, <1>2, <1>3, RunsRest DEF VideoTypeOK

\* Every step keeps the invariant.
LEMMA VideoNextInv == VideoInv /\ [VideoNext]_videoVars => VideoInv'
<1> SUFFICES ASSUME VideoInv, [VideoNext]_videoVars PROVE VideoInv'
  OBVIOUS
<1>1. CASE LibraryNext /\ UNCHANGED studioVars
  BY <1>1, LibrarySteps
<1>2. CASE RunStep
  BY <1>2, StepPersistRunning, StepShotProduced, StepSaveShot, StepFinishRun, StepRunFails,
     StepRunFailed, StepMarkRetried DEF RunStep
<1>3. CASE \E scope \in {"all", "resume"} : ClickRun(scope)
  BY <1>3, StepClickRun
<1>4. CASE \E i \in TaskIds : ClickRetry(i)
  BY <1>4, StepClickRetry
<1>5. CASE \E k \in DOMAIN asking, agreed \in BOOLEAN : Answer(k, agreed)
  BY <1>5, StepAnswer
<1>6. CASE \/ \E request \in Requests : EditForm(request)
           \/ \E project \in VideoProjects : SwitchTo(project)
  BY <1>6, StepsOfForms
<1>7. CASE RefreshHistory
  BY <1>7, StepRefreshHistory
<1>8. CASE UNCHANGED videoVars
  <2>1. /\ UNCHANGED <<dbAssets, dbTasks, assets, tasks, reload, startupLoad, events>>
        /\ UNCHANGED <<current, drafts, resume, videoBusy, retryingTask, asking, runs>>
    BY <1>8 DEF videoVars, libraryVars, studioVars
  <2>2. LibraryInv'
    BY <2>1, WritesKeepLibrary DEF VideoInv, LibraryInv, LibraryTypeOK, Written
  <2> QED BY <2>1, <2>2, RunsRest DEF VideoInv, VideoTypeOK
<1> QED BY <1>1, <1>2, <1>3, <1>4, <1>5, <1>6, <1>7, <1>8 DEF VideoNext

\* The library, the panel's offers and runs keep their types.
THEOREM VideosAreTyped == VideoSpec => []VideoTypeOK
<1>1. VideoInv => VideoTypeOK
  BY DEF VideoInv
<1> QED BY <1>1, VideoInitInv, VideoNextInv, PTL DEF VideoSpec

\* Acknowledging nothing and forgetting no asset.
ShowsOn == events'.acked = events.acked /\ assets \subseteq assets'

\* A step acknowledges nothing and forgets no asset, but for deliveries and
\* startups that land.
LEMMA OthersShowOn == LibraryInv /\ [VideoNext]_videoVars => Deliver \/ StartupLands \/ ShowsOn
<1> SUFFICES ASSUME LibraryInv, [VideoNext]_videoVars, ~Deliver, ~StartupLands PROVE ShowsOn
  OBVIOUS
<1>1. CASE LibraryNext
  <2>1. CASE LoadAssetRows \/ LoadTaskRows \/ ReloadFails
    BY <2>1 DEF LoadAssetRows, LoadTaskRows, ReloadFails, ShowsOn
  <2>2. CASE StartupStep
    BY <2>2, StartupFeedsNothing DEF ShowsOn
  <2>3. CASE ProduceAsset
    BY <2>3 DEF ProduceAsset, LibraryInv, LibraryTypeOK, ShowsOn
  <2>4. CASE HearEvent
    BY <2>4 DEF HearEvent, LibraryInv, LibraryTypeOK, ShowsOn
  <2>5. CASE DebounceFires
    BY <2>5 DEF DebounceFires, LibraryInv, LibraryTypeOK, ShowsOn
  <2> QED
    BY <1>1, <2>1, <2>2, <2>3, <2>4, <2>5 DEF LibraryNext, StartupStep
<1>2. CASE RunStep
  <2>1. PICK i \in DOMAIN runs :
          \/ PersistRunning(i) \/ ShotProduced(i) \/ SaveShot(i) \/ FinishRun(i)
          \/ RunFails(i) \/ RunFailed(i) \/ MarkRetried(i)
    BY <1>2 DEF RunStep
  <2>2. events' = events
    BY <1>2 DEF RunStep
  <2>3. assets \subseteq assets'
    BY <2>1 DEF PersistRunning, ShotProduced, SaveShot, FinishRun, RunFails, RunFailed, MarkRetried,
                AddAssets, rowVars
  <2> QED BY <2>2, <2>3 DEF ShowsOn
<1>3. CASE \E scope \in {"all", "resume"} : ClickRun(scope)
  BY <1>3 DEF ClickRun, ShowsOn
<1>4. CASE \E i \in TaskIds : ClickRetry(i)
  BY <1>4 DEF ClickRetry, rowVars, ShowsOn
<1>5. CASE \E k \in DOMAIN asking, agreed \in BOOLEAN : Answer(k, agreed)
  BY <1>5 DEF Answer, ShowsOn
<1>6. CASE \/ \E request \in Requests : EditForm(request)
           \/ \E project \in VideoProjects : SwitchTo(project)
           \/ RefreshHistory
  BY <1>6 DEF EditForm, SwitchTo, RefreshHistory, rowVars, ShowsOn
<1>7. CASE UNCHANGED videoVars
  BY <1>7 DEF videoVars, libraryVars, ShowsOn
<1> QED BY <1>1, <1>2, <1>3, <1>4, <1>5, <1>6, <1>7 DEF VideoNext

\* A delivery shows everything it acknowledges, and what was acknowledged before.
LEMMA DeliverShows ==
  ASSUME LibraryInv, Deliver
  PROVE  Loaded(events'.acked, assets')
<1>1. /\ assets' = reload.seen /\ reload.phase = "deliver" /\ Loaded(events.acked, reload.seen)
  BY DEF Deliver, LibraryInv, Covers
<1>2. CASE reload.queued
  BY <1>1, <1>2 DEF Deliver
<1>3. CASE ~reload.queued
  <2> DEFINE acked == Max(reload.acks \cup {events.acked})
  <2>1. events' = [events EXCEPT !.acked = acked]
    BY <1>3 DEF Deliver
  <2>2. acked \in reload.acks \cup {events.acked}
    <3>1. reload.acks \cup {events.acked} \in SUBSET (0..MaxRevisions)
      BY DEF LibraryInv, LibraryTypeOK
    <3> QED BY <3>1, MaxIsGreatest, LibraryAssumption
  <2> HIDE DEF acked
  <2>3. events'.acked = acked
    BY <2>1 DEF LibraryInv, LibraryTypeOK
  <2> QED BY <1>1, <1>3, <2>2, <2>3 DEF LibraryInv, Covers
<1> QED BY <1>2, <1>3

\* AckedIsShown: the window acknowledges a revision of the history only when
\* everything announced up to it is on the page, and no reload, joined, queued or
\* failed, no paid run and no retry takes it off again: only loadStartup's own
\* late read of the history does.
THEOREM AcknowledgedIsShown == VideoSpec => AckedIsShown
<1> DEFINE Shows ==
      \/ StartupLands
      \/ \A r \in 1..events'.acked :
           \/ External(r) \in assets'
           \/ events'.acked = events.acked /\ External(r) \notin assets
<1>1. ASSUME VideoInv, [VideoNext]_videoVars PROVE Shows
  <2>1. CASE Deliver
    BY <1>1, <2>1, DeliverShows DEF Loaded, VideoInv
  <2>2. CASE ShowsOn
    BY <2>2 DEF ShowsOn
  <2> QED BY <1>1, <2>1, <2>2, OthersShowOn DEF VideoInv
<1>2. VideoInv /\ [VideoNext]_videoVars => [Shows]_libraryVars
  BY <1>1
<1> QED BY <1>2, VideoInitInv, VideoNextInv, PTL DEF VideoSpec, AckedIsShown

\* NothingSkippedUnpaid: a run reported as successful has every shot of its
\* form, saved under its group and project and made from its own request, those
\* it skipped because an earlier run had paid for them included.
THEOREM SkippedIsPaid == VideoSpec => []NothingSkippedUnpaid
<1>1. VideoInv => NothingSkippedUnpaid
  BY DEF VideoInv, DoneIsSaved, SavedFor, NothingSkippedUnpaid
<1> QED BY <1>1, VideoInitInv, VideoNextInv, PTL DEF VideoSpec

\* PanelRunsOnce: the panel has one paid run at a time, however many
\* confirmations are open, and is free again when it ends.
THEOREM OnePaidRun == VideoSpec => []PanelRunsOnce
<1>1. VideoInv => PanelRunsOnce
  BY DEF VideoInv
<1> QED BY <1>1, VideoInitInv, VideoNextInv, PTL DEF VideoSpec

---------------------------------------------------------------------------
(* VideoForm.                                                              *)

\* A list of shots, whatever the shots are, of which there is one.
Shot(shots) == \E S : shots \in Seq(S) \ {<<>>}

IsForm(f) ==
  /\ f = [model |-> f.model, mode |-> f.mode, format |-> f.format, images |-> f.images,
          videos |-> f.videos, shots |-> f.shots, manifest |-> f.manifest]
  /\ Shot(f.shots)

FormInv ==
  /\ IsForm(form)
  /\ submitted # none => IsForm(submitted.form)

\* Shots stay shots when each of them is replaced, and when one is.
LEMMA ShotsReplaced ==
  ASSUME NEW shots, Shot(shots)
  PROVE  /\ \A capability, mode : Shot(Clamped(shots, capability, mode))
         /\ \A i, shot : Shot([shots EXCEPT ![i] = shot])
         /\ \A shot : Shot(Append(shots, shot))
         /\ \A i \in DOMAIN shots : Len(shots) > 1 => Shot(RemoveAt(shots, i))
<1>1. PICK S : shots \in Seq(S) \ {<<>>}
  BY DEF Shot
<1>2. shots \in Seq(S) /\ Len(shots) \in Nat /\ Len(shots) >= 1 /\ DOMAIN shots = 1..Len(shots)
  BY <1>1, EmptySeq
<1>3. ASSUME NEW new, DOMAIN new = DOMAIN shots, new = [i \in DOMAIN shots |-> new[i]] PROVE Shot(new)
  <2>1. PICK T : T = {new[i] : i \in DOMAIN shots}
    OBVIOUS
  <2>2. new \in [1..Len(shots) -> T]
    BY <1>2, <1>3, <2>1
  <2>3. new \in Seq(T)
    BY <1>2, <2>2
  <2>4. new # <<>>
    BY <1>2, <1>3
  <2> QED BY <2>3, <2>4 DEF Shot
<1>4. ASSUME NEW capability, NEW mode PROVE Shot(Clamped(shots, capability, mode))
  <2>1. PICK new : new = Clamped(shots, capability, mode)
    OBVIOUS
  <2>2. DOMAIN new = DOMAIN shots /\ new = [i \in DOMAIN shots |-> new[i]]
    BY <2>1 DEF Clamped
  <2> QED BY <1>3, <2>1, <2>2
<1>5. ASSUME NEW i, NEW shot PROVE Shot([shots EXCEPT ![i] = shot])
  <2>1. PICK new : new = [shots EXCEPT ![i] = shot]
    OBVIOUS
  <2>2. DOMAIN new = DOMAIN shots /\ new = [k \in DOMAIN shots |-> new[k]]
    BY <2>1
  <2> QED BY <1>3, <2>1, <2>2
<1>6. ASSUME NEW shot PROVE Shot(Append(shots, shot))
  <2>1. shots \in Seq(S \cup {shot}) /\ shot \in S \cup {shot}
    BY <1>2, SeqMonotonic
  <2>2. Append(shots, shot) \in Seq(S \cup {shot}) /\ Append(shots, shot) # <<>>
    BY <2>1, AppendProperties
  <2> QED BY <2>2 DEF Shot
<1>7. ASSUME NEW i \in DOMAIN shots, Len(shots) > 1 PROVE Shot(RemoveAt(shots, i))
  <2>1. PICK one, two : one = SubSeq(shots, 1, i - 1) /\ two = SubSeq(shots, i + 1, Len(shots))
    OBVIOUS
  <2>2. /\ one \in Seq(S) /\ Len(one) = i - 1
        /\ two \in Seq(S) /\ Len(two) = Len(shots) - i
    <3>1. i \in 1..Len(shots)
      BY <1>2
    <3>2. one \in Seq(S) /\ Len(one) = i - 1
      BY <1>2, <2>1, <3>1, SubSeqProperties
    <3>3. two \in Seq(S) /\ Len(two) = Len(shots) - i
      BY <1>2, <2>1, <3>1, SubSeqProperties
    <3> QED BY <3>2, <3>3
  <2>3. one \o two \in Seq(S) /\ Len(one \o two) = Len(one) + Len(two)
    BY <2>2, ConcatProperties
  <2>4. one \o two # <<>>
    BY <1>2, <1>7, <2>2, <2>3, EmptySeq
  <2> QED BY <2>1, <2>3, <2>4 DEF RemoveAt, Shot
<1> QED
  BY <1>4, <1>5, <1>6, <1>7

\* The form starts with one shot.
LEMMA FormInitInv == FormInit => FormInv
<1> SUFFICES ASSUME FormInit PROVE FormInv
  OBVIOUS
<1>1. PICK shot : shot = EmptyShot(1, 5)
  OBVIOUS
<1>2. Shot(<<shot>>)
  <2>1. <<shot>> \in Seq({shot}) \ {<<>>}
    OBVIOUS
  <2> QED BY <2>1 DEF Shot
<1>3. PICK model : model = CHOOSE m \in Models : TRUE
  OBVIOUS
<1>4. form = [model |-> model, mode |-> "text", format |-> "720p", images |-> {}, videos |-> {},
              shots |-> <<shot>>, manifest |-> none]
  BY <1>1, <1>3 DEF FormInit
<1>5. IsForm(form)
  BY <1>2, <1>4 DEF IsForm
<1> QED
  BY <1>5 DEF FormInit, FormInv

\* An edit that leaves a form a form.
LEMMA EditKeepsForm ==
  ASSUME FormInv, IsForm(form'), submitted' = submitted
  PROVE  FormInv'
BY DEF FormInv, IsForm

\* Every operation leaves the form with shots.
LEMMA StepForm ==
  ASSUME FormInv, [FormNext]_formVars
  PROVE  FormInv'
<1>1. IsForm(form) /\ Shot(form.shots)
  BY DEF FormInv, IsForm
<1>2. ASSUME NEW model PROVE IsForm(Converged(form, model))
  <2>1. PICK mode, format, shots : /\ mode = ChooseSupported(form.mode, Capability(model).modes)
                                   /\ format = ChooseSupported(form.format, Capability(model).formats)
                                   /\ shots = Clamped(form.shots, Capability(model), mode)
    OBVIOUS
  <2>2. Shot(shots)
    BY <1>1, <2>1, ShotsReplaced
  <2>3. Converged(form, model) = [form EXCEPT !.model = model, !.mode = mode, !.shots = shots,
                                              !.format = format]
    BY <1>1, <2>1 DEF Converged, IsForm
  <2> QED BY <1>1, <2>2, <2>3 DEF IsForm
<1>3. ASSUME NEW model, SelectModel(model) PROVE FormInv'
  <2>1. IsForm(form') /\ submitted' = submitted
    BY <1>1, <1>2, <1>3 DEF SelectModel, Clicked, IsForm
  <2> QED BY <2>1, EditKeepsForm
<1>4. ASSUME ConvergeTimer PROVE FormInv'
  <2>1. IsForm(form') /\ submitted' = submitted
    BY <1>1, <1>2, <1>4 DEF ConvergeTimer
  <2> QED BY <2>1, EditKeepsForm
<1>5. ASSUME NEW mode, SelectMode(mode) PROVE FormInv'
  <2>1. PICK first : form' = [form EXCEPT !.mode = mode,
                         !.shots = Clamped(@, Capability(form.model), mode),
                         !.images = CASE mode = "text" -> {}
                                      [] mode = "first_frame" -> first
                                      [] OTHER -> @,
                         !.videos = IF mode = "reference" THEN @ ELSE {}]
    BY <1>5 DEF SelectMode, Edit, Clicked
  <2>2. PICK shots : shots = Clamped(form.shots, Capability(form.model), mode)
    OBVIOUS
  <2>3. Shot(shots) /\ submitted' = submitted
    BY <1>1, <1>5, <2>2, ShotsReplaced DEF SelectMode, Edit, Clicked
  <2>4. IsForm(form')
    BY <1>1, <2>1, <2>2, <2>3 DEF IsForm
  <2> QED BY <2>3, <2>4, EditKeepsForm
<1>6. ASSUME NEW images, NEW videos, SetMaterials(images, videos) PROVE FormInv'
  <2>1. IsForm(form') /\ submitted' = submitted
    BY <1>1, <1>6 DEF SetMaterials, Edit, Clicked, IsForm
  <2> QED BY <2>1, EditKeepsForm
<1>7. ASSUME NEW shots, Shot(shots), form' = [form EXCEPT !.shots = shots], submitted' = submitted
      PROVE  FormInv'
  <2>1. IsForm(form')
    BY <1>1, <1>7 DEF IsForm
  <2> QED BY <1>7, <2>1, EditKeepsForm
<1>8. CASE AddShot
  <2>1. PICK shot : shot = EmptyShot(10 + clicks, FirstDuration)
    OBVIOUS
  <2>2. form' = [form EXCEPT !.shots = Append(form.shots, shot)] /\ submitted' = submitted
    BY <1>1, <1>8, <2>1 DEF AddShot, Edit, Clicked, IsForm
  <2> QED BY <1>1, <1>7, <2>2, ShotsReplaced
<1>9. CASE ReleaseManifest
  <2>1. IsForm(form') /\ submitted' = submitted
    BY <1>1, <1>9 DEF ReleaseManifest, Edit, Clicked, IsForm
  <2> QED BY <2>1, EditKeepsForm
<1>10. CASE SubmitForm
  BY <1>1, <1>10 DEF SubmitForm, FormInv, IsForm
<1>11. CASE ReuseHistory
  <2>1. form' = submitted.form /\ submitted' = submitted /\ IsForm(submitted.form)
    BY <1>11 DEF ReuseHistory, Clicked, FormInv
  <2> QED BY <2>1, EditKeepsForm
<1>12. \A shots \in Storyboards : Shot(shots)
  BY VideoFormAssumption DEF Shot
<1>13. ASSUME NEW shots \in Storyboards, NEW model, Handoff(shots, model) PROVE FormInv'
  <2>1. PICK format, manifest : /\ format = Head(Capabilities[model].formats)
                                /\ manifest = [model |-> model, format |-> format,
                                               shots |-> Approved(shots)]
    OBVIOUS
  <2>2. /\ form' = [form EXCEPT !.model = model, !.mode = "text", !.format = format, !.images = {},
                                !.videos = {}, !.shots = shots, !.manifest = manifest]
        /\ submitted' = submitted
    BY <1>13, <2>1 DEF Handoff, Clicked
  <2>3. IsForm(form')
    BY <1>1, <1>12, <2>2 DEF IsForm
  <2> QED BY <2>2, <2>3, EditKeepsForm
<1>14. ASSUME NEW shots \in Storyboards, NEW target, ImportStoryboard(shots, target) PROVE FormInv'
  BY <1>7, <1>12, <1>14 DEF ImportStoryboard, Clicked
<1>15. ASSUME NEW i \in DOMAIN form.shots, RemoveShot(i) PROVE FormInv'
  <2>1. form' = [form EXCEPT !.shots = RemoveAt(form.shots, i)] /\ submitted' = submitted
    BY <1>1, <1>15 DEF RemoveShot, Edit, Clicked, IsForm
  <2> QED BY <1>1, <1>7, <1>15, <2>1, ShotsReplaced DEF RemoveShot
<1>16. ASSUME NEW i, NEW shot, submitted' = submitted, NEW f, f.shots = form.shots, IsForm(f),
              form' = [f EXCEPT !.shots = [form.shots EXCEPT ![i] = shot]]
       PROVE  FormInv'
  <2>1. PICK shots : shots = [form.shots EXCEPT ![i] = shot]
    OBVIOUS
  <2>2. Shot(shots)
    BY <1>1, <2>1, ShotsReplaced
  <2>3. IsForm(form')
    BY <1>16, <2>1, <2>2 DEF IsForm
  <2> QED BY <1>16, <2>3, EditKeepsForm
<1>17. ASSUME NEW i, NEW d, SetDuration(i, d) PROVE FormInv'
  <2>1. PICK shot : shot = [form.shots[i] EXCEPT !.duration = d]
    OBVIOUS
  <2>2. form' = [form EXCEPT !.shots = [form.shots EXCEPT ![i] = shot]] /\ submitted' = submitted
    BY <1>1, <1>17, <2>1 DEF SetDuration, Edit, Clicked, IsForm
  <2> QED BY <1>1, <1>16, <2>2
<1>18. ASSUME NEW i, NEW text, CommitShotPrompt(i, text) PROVE FormInv'
  <2>1. PICK shot : shot = [form.shots[i] EXCEPT !.text = text]
    OBVIOUS
  <2>2. form' = [form EXCEPT !.shots = [form.shots EXCEPT ![i] = shot]] /\ submitted' = submitted
    BY <1>1, <1>18, <2>1 DEF CommitShotPrompt, Edit, Clicked, IsForm
  <2> QED BY <1>1, <1>16, <2>2
<1>19. ASSUME NEW i, NEW chosen, NEW append, NEW direct, ImportReferences(i, chosen, append, direct)
       PROVE  FormInv'
  <2>1. PICK shot, strategy : /\ submitted' = submitted
                              /\ form' = [form EXCEPT !.mode = strategy, !.shots[i] = shot]
    BY <1>19 DEF ImportReferences, Clicked
  <2>2. PICK f : f = [form EXCEPT !.mode = strategy]
    OBVIOUS
  <2>3. IsForm(f) /\ f.shots = form.shots
    BY <1>1, <2>2 DEF IsForm
  <2>4. form' = [f EXCEPT !.shots = [form.shots EXCEPT ![i] = shot]]
    BY <1>1, <2>1, <2>2 DEF IsForm
  <2> QED BY <1>16, <2>1, <2>3, <2>4
<1>20. ASSUME NEW i, NEW a, RemoveLocal(i, a) \/ RemoveHosted(i, a) PROVE FormInv'
  <2>1. PICK shot : submitted' = submitted /\ form' = [form EXCEPT !.shots[i] = shot]
    BY <1>20 DEF RemoveLocal, RemoveHosted, Clicked
  <2>2. form' = [form EXCEPT !.shots = [form.shots EXCEPT ![i] = shot]]
    BY <1>1, <2>1 DEF IsForm
  <2> QED BY <1>1, <1>16, <2>1, <2>2
<1>21. CASE UNCHANGED formVars
  BY <1>21 DEF formVars, FormInv, IsForm
<1> QED
  BY <1>3, <1>4, <1>5, <1>6, <1>8, <1>9, <1>10, <1>11, <1>13, <1>14, <1>15, <1>17, <1>18, <1>19, <1>20,
     <1>21 DEF FormNext

\* What the panel accepts of a form with shots, generateVideo accepts
\* (SubmittedIsAccepted), the two known cases excepted.
THEOREM PanelIsNoLooser == FormSpec => []SubmittedIsAccepted
<1>1. FormInv => SubmittedIsAccepted
  <2> SUFFICES ASSUME FormInv, PanelAccepts(form), \A i \in DOMAIN form.shots : ~KnownGap(form.shots[i])
               PROVE  GenerateAccepts(form)
    BY DEF SubmittedIsAccepted
  <2>1. form.shots # <<>>
    BY DEF FormInv, IsForm, Shot
  <2>2. ~ManifestMismatch(form) /\ form.images \cup form.videos \subseteq Public
    BY DEF PanelAccepts
  <2>3. ASSUME NEW i \in DOMAIN form.shots
        PROVE  /\ form.shots[i].urls \cup form.shots[i].clips \subseteq Public
               /\ LocalImagesBelong(form.shots[i])
               /\ ReferencesFit(form.shots[i], form)
    <3>1. PICK shot : shot = form.shots[i]
      OBVIOUS
    <3>2. PanelAcceptsShot(shot, form) /\ ~KnownGap(shot)
      BY <3>1 DEF PanelAccepts
    <3>3. ShotImages(shot, form) \cup ShotVideos(shot, form) \subseteq Public
      BY <3>2 DEF PanelAcceptsShot
    <3>4. shot.urls \cup shot.clips \subseteq Public
      BY <3>3 DEF ShotImages, ShotVideos
    <3>5. ASSUME ModeOf(shot, form.mode) = "text"
          PROVE  ImageCount(shot, form) = 0 /\ VideoCount(shot, form) = 0
      <4>1. /\ shot.urls = {} /\ shot.locals = {} /\ shot.clips = {}
            /\ form.images = {} /\ form.videos = {}
        BY <3>2, <3>5 DEF PanelAcceptsShot, OwnReferences, KnownGap
      <4>2. ShotImages(shot, form) = {} /\ ShotVideos(shot, form) = {}
        BY <4>1 DEF ShotImages, ShotVideos
      <4> QED BY <4>1, <4>2, FS_EmptySet DEF ImageCount, VideoCount
    <3>6. ReferencesFit(shot, form)
      BY <3>2, <3>5 DEF ReferencesFit, PanelAcceptsShot
    <3> QED BY <3>1, <3>2, <3>4, <3>6 DEF KnownGap
  <2> QED
    BY <2>1, <2>2, <2>3 DEF GenerateAccepts
<1>2. FormInv /\ [FormNext]_formVars => FormInv'
  BY StepForm
<1> QED
  BY <1>1, <1>2, FormInitInv, PTL DEF FormSpec


---------------------------------------------------------------------------
(* Storyboard.                                                             *)

\* The shapes of the state.
Reviews == [of : Nat, passed : BOOLEAN]
Papers == [home : {0} \cup Chapters, stage : Stages, document : Nat, text : Nat, asks : BOOLEAN,
           review : Reviews, branch : BOOLEAN, parents : SUBSET Nat, bound : SUBSET Nat]
SheetModes == {"current", "view", "preserve", "migrate"}
Sheets == [text : Nat, asks : BOOLEAN, review : Reviews, mode : SheetModes]
Keys == Chapters \X Stages \X Nat
Desks == [chapter : Chapters, stage : Stages, chosen : [Chapters -> [Stages -> Nat]]]
StoryWorks == [kind : {"save", "generate", "review", "optimize"}, shown : BOOLEAN, key : Keys,
               read : Sheets, historical : BOOLEAN, writing : BOOLEAN, raced : BOOLEAN,
               heads : [Stages -> Nat], inherits : SUBSET Nat, saved : [Stages -> Nat], first : Int]

StoryShapes ==
  /\ clicks \in Nat /\ texts \in Nat
  /\ papers \in Seq(Papers)
  /\ \A k \in DOMAIN sheets : k \in Keys /\ sheets[k] \in Sheets
  /\ desk \in Desks
  /\ works \in [Works -> StoryWorks \cup {NoWork}]
  /\ vetted \subseteq 1..texts

\* A review that passed is one that was made of a text.
ReviewTrue(review) == review.passed => review.of \in vetted

\* A version that was passed, or needs no review.
Sound(v) == v \in Versions /\ (papers[v].stage = Source \/ Passed(v))

\* A saved version: what it was made from is there, what it is bound to is sound,
\* and its document has a version in production.
PaperTrue(v) ==
  /\ papers[v].text \in 1..texts
  /\ papers[v].parents \subseteq 1..(v - 1)
  /\ ReviewTrue(papers[v].review)
  /\ \A b \in papers[v].bound : b = 0 \/ Sound(b)
  /\ \E u \in Versions : papers[u].document = papers[v].document /\ ~papers[u].branch

\* A draft of a version: one that preserves it is of a version that is there.
SheetTrue(k, d) ==
  /\ d.text <= texts
  /\ ReviewTrue(d.review)
  /\ k[3] <= Len(papers)
  /\ d.mode = "preserve" => k[3] # 0

\* An operation under way: the heads it read are there, those it builds on were
\* sound, and what it has saved and will save has passed.
WorkTrue(w) ==
  /\ SheetTrue(w.key, w.read)
  /\ \A s \in Stages : w.heads[s] <= Len(papers)
  /\ w.inherits \subseteq 1..Len(papers)
  /\ w.kind \in {"save", "review"} => w.read.text # 0
  /\ w.kind = "optimize" \/ (w.kind = "save" /\ w.key[2] # Source /\ w.read.mode # "preserve") =>
       \A u \in Upstream(w.key[2]) : Sound(w.heads[u])
  /\ \A s \in Stages : w.saved[s] = 0 \/ Sound(w.saved[s])
  /\ ~w.writing => \A s \in Stages : w.saved[s] = 0
  /\ w.writing => /\ Unsaved(w) # {}
                  /\ \A s \in Cascade(w) : NewText(w, s) \in vetted

ChosenExist == \A c \in Chapters, s \in Stages : desk.chosen[c][s] <= Len(papers)

StoryInv ==
  /\ StoryShapes /\ ChosenExist
  /\ \A v \in Versions : PaperTrue(v)
  /\ \A k \in DOMAIN sheets : SheetTrue(k, sheets[k])
  /\ \A i \in Works : works[i] # NoWork => WorkTrue(works[i])

---------------------------------------------------------------------------
(* The chain.                                                              *)

\* The parts of a version.
LEMMA PaperShape ==
  ASSUME StoryShapes, NEW v \in Versions
  PROVE  /\ papers[v] \in Papers /\ v \in 1..Len(papers) /\ Len(papers) \in Nat
         /\ papers[v].stage \in Stages /\ papers[v].document \in Nat
         /\ papers[v].text \in Nat /\ papers[v].asks \in BOOLEAN
         /\ papers[v].review \in Reviews /\ papers[v].branch \in BOOLEAN
         /\ papers[v].parents \in SUBSET Nat /\ papers[v].bound \in SUBSET Nat
<1>1. papers \in Seq(Papers) /\ v \in 1..Len(papers)
  BY DEF StoryShapes, Versions
<1>2. papers[v] \in Papers
  BY <1>1
<1> QED BY <1>1, <1>2 DEF Papers

\* The newest of some versions is one of them, if there are any.
LEMMA LatestIsThere ==
  ASSUME StoryShapes, NEW S \in SUBSET Versions
  PROVE  /\ LatestOf(S) \in S \cup {0} /\ LatestOf(S) \in 0..Len(papers)
         /\ S # {} => LatestOf(S) \in S
<1>1. Len(papers) \in Nat /\ S \in SUBSET (0..Len(papers))
  BY DEF StoryShapes, Versions
<1>2. S # {} => LatestOf(S) \in S
  BY <1>1, MaxIsGreatest DEF LatestOf
<1>3. CASE S = {}
  <2>1. LatestOf(S) = 0
    BY <1>3 DEF LatestOf
  <2> QED BY <1>1, <1>3, <2>1
<1>4. CASE S # {}
  <2>1. LatestOf(S) \in S
    BY <1>2, <1>4
  <2>2. LatestOf(S) \in 0..Len(papers)
    BY <1>1, <2>1
  <2> QED BY <2>1, <2>2
<1> QED BY <1>3, <1>4

\* The version in production is one of its chapter and stage, if there is one.
LEMMA CurrentIsThere ==
  ASSUME StoryShapes, NEW c, NEW s
  PROVE  /\ Current(c, s) \in 0..Len(papers)
         /\ Current(c, s) # 0 => /\ Current(c, s) \in Versions
                                 /\ papers[Current(c, s)].stage = s
<1>1. OfStage(c, s) \in SUBSET Versions
  BY DEF OfStage
<1>2. Current(c, s) = LatestOf(OfStage(c, s))
  BY DEF Current
<1>3. Current(c, s) \in OfStage(c, s) \cup {0} /\ Current(c, s) \in 0..Len(papers)
  BY <1>1, <1>2, LatestIsThere
<1> QED BY <1>3 DEF OfStage

\* A document some version of which is in production has a head.
LEMMA HeadIsThere ==
  ASSUME StoryShapes, NEW v \in Versions, ~papers[v].branch
  PROVE  LET head == DocumentHead(papers[v].document) IN
         head \in Versions /\ papers[head].document = papers[v].document /\ ~papers[head].branch
<1> DEFINE S == {u \in Versions : papers[u].document = papers[v].document /\ ~papers[u].branch}
<1>1. S \in SUBSET Versions /\ v \in S
  OBVIOUS
<1>2. DocumentHead(papers[v].document) = LatestOf(S)
  BY DEF DocumentHead
<1>3. LatestOf(S) \in S
  <2> HIDE DEF S
  <2> QED BY <1>1, LatestIsThere
<1> QED BY <1>2, <1>3

\* The anchors a chapter inherits are versions.
LEMMA InheritedAreThere ==
  ASSUME StoryShapes, NEW c \in Chapters
  PROVE  Inherited(c) \subseteq 1..Len(papers)
<1>1. ASSUME NEW e \in 1..(c - 1) PROVE Anchor(e) \in 0..Len(papers)
  <2>1. {v \in OfStage(e, AnchorStage) : Confirmed(e, v)} \in SUBSET Versions
    BY DEF OfStage
  <2> QED BY <2>1, LatestIsThere DEF Anchor
<1>2. Len(papers) \in Nat
  BY DEF StoryShapes
<1>3. \A n \in (0..Len(papers)) \ {0} : n \in 1..Len(papers)
  BY <1>2
<1> QED BY <1>1, <1>3 DEF Inherited, Anchored

\* A stage that may be worked on has sound documents above it.
LEMMA ReadyIsSound ==
  ASSUME StoryShapes, NEW c, NEW s, DependenciesReady(c, s), NEW u \in Upstream(s)
  PROVE  Sound(Current(c, u))
<1>1. u \in UsableStages(c)
  BY DEF DependenciesReady
<1>2. Current(c, u) # 0 /\ (u = Source \/ Passed(Current(c, u)))
  BY <1>1 DEF UsableStages
<1> QED BY <1>2, CurrentIsThere DEF Sound

---------------------------------------------------------------------------
(* The gate.                                                               *)

\* A document that is not made of all those it depends on.
Behind(c, s) ==
  s # Source /\ Current(c, s) # 0 /\ ~(Dependencies(c, s) \subseteq papers[Current(c, s)].parents)

\* The stages above one, and those above them.
LEMMA UpstreamShape ==
  ASSUME NEW s \in Stages, NEW u \in Upstream(s)
  PROVE  /\ u \in Stages /\ u \in Nat /\ s \in Nat /\ u < s /\ Upstream(u) \subseteq Upstream(s)
         /\ s # Source
  BY StoryboardAssumption DEF Stages, Upstream, Source

\* What the recursion over the stages comes to: a document is stale if it, or one
\* above it, is missing something.
LEMMA StaleIs ==
  ASSUME NEW c, NEW s \in Stages
  PROVE  s \in StaleStages(c) <=>
           /\ s # Source /\ Current(c, s) # 0
           /\ Behind(c, s) \/ \E u \in Upstream(s) : Current(c, u) = 0 \/ Behind(c, u)
<1> DEFINE head == [t \in Stages |-> Current(c, t)]
           behind == {t \in Stages \ {Source} : head[t] # 0 /\
                        ~(Dependencies(c, t) \subseteq papers[head[t]].parents)}
           stale == CHOOSE f : f = [t \in Stages |->
                      /\ t # Source /\ head[t] # 0
                      /\ t \in behind \/ \E w \in Upstream(t) : head[w] = 0 \/ f[w]]
           F == [t \in Stages |->
                  /\ t # Source /\ head[t] # 0
                  /\ t \in behind \/ \E w \in Upstream(t) : head[w] = 0 \/ w \in behind]
<1>1. StaleStages(c) = {t \in Stages : stale[t]}
  BY DEF StaleStages
<1>2. \A t \in Stages : head[t] = Current(c, t) /\ (t \in behind <=> Behind(c, t))
  BY DEF Behind
<1>3. \A t \in behind : t # Source /\ head[t] # 0 /\ t \in Stages
  OBVIOUS
<1>4. \A t \in Stages : \A w \in Upstream(t) :
        /\ w \in Stages /\ w \in Nat /\ t \in Nat /\ w < t
        /\ \A x \in Upstream(w) : x \in Upstream(t)
  BY UpstreamShape
<1> HIDE DEF head, behind
<1>5. F = [t \in Stages |->
             /\ t # Source /\ head[t] # 0
             /\ t \in behind \/ \E w \in Upstream(t) : head[w] = 0 \/ F[w]]
  <2> SUFFICES ASSUME NEW t \in Stages
               PROVE  (\E w \in Upstream(t) : head[w] = 0 \/ w \in behind)
                        <=> (\E w \in Upstream(t) : head[w] = 0 \/ F[w])
    OBVIOUS
  <2>1. ASSUME NEW w \in Upstream(t), w \in behind PROVE F[w]
    BY <1>3, <1>4, <2>1
  <2>2. ASSUME NEW w \in Upstream(t), F[w]
        PROVE  \E x \in Upstream(t) : head[x] = 0 \/ x \in behind
    BY <1>4, <2>2
  <2> QED BY <2>1, <2>2
<1>6. \A t \in Stages : F[t] <=>
        /\ t # Source /\ head[t] # 0
        /\ t \in behind \/ \E w \in Upstream(t) : head[w] = 0 \/ w \in behind
  OBVIOUS
<1>7. \A t \in Stages : F[t] <=>
        /\ t # Source /\ head[t] # 0
        /\ t \in behind \/ \E w \in Upstream(t) : head[w] = 0 \/ F[w]
  BY <1>5
<1> HIDE DEF F
<1>8. stale = [t \in Stages |->
                 /\ t # Source /\ head[t] # 0
                 /\ t \in behind \/ \E w \in Upstream(t) : head[w] = 0 \/ stale[w]]
  BY <1>5
<1> HIDE DEF stale
<1>9. \A t \in Stages : stale[t] <=>
        /\ t # Source /\ head[t] # 0
        /\ t \in behind \/ \E w \in Upstream(t) : head[w] = 0 \/ stale[w]
  BY <1>8
<1>10. \A t \in Stages : stale[t] <=> F[t]
  <2> DEFINE apart == {t \in Stages : ~(stale[t] <=> F[t])}
  <2> SUFFICES ASSUME apart # {} PROVE FALSE
    OBVIOUS
  <2>1. apart \in SUBSET Nat
    BY StoryboardAssumption DEF Stages
  <2>2. PICK t \in apart : \A x \in apart : t <= x
    <3> HIDE DEF apart
    <3> QED BY <2>1, LeastNumber
  <2>3. \A w \in Upstream(t) : stale[w] <=> F[w]
    BY <1>4, <2>2
  <2> QED BY <1>7, <1>9, <2>2, <2>3
<1>11. s \in StaleStages(c) <=> F[s]
  BY <1>1, <1>10
<1>12. \A u \in Upstream(s) : u \in Stages
  BY <1>4
<1> QED BY <1>2, <1>6, <1>11, <1>12

\* Staleness goes down the whole chain: below a missing or stale document every
\* document is stale.
LEMMA StaleBelow ==
  ASSUME NEW c, NEW s \in Stages \ {Source}, Current(c, s) # 0,
         NEW u \in Upstream(s), Current(c, u) = 0 \/ u \in StaleStages(c)
  PROVE  s \in StaleStages(c)
<1>1. u \in Stages /\ Upstream(u) \subseteq Upstream(s)
  BY UpstreamShape
<1> QED BY <1>1, StaleIs

\* An open gate is true of every stage.
LEMMA OpenGateIsTrue ==
  ASSUME StoryInv, NEW c \in Chapters, Gate(c)
  PROVE  /\ Stages \subseteq UsableStages(c)
         /\ \A s \in Stages \ {Source} : papers[Current(c, s)].text \in vetted
<1>1. StoryShapes /\ \A v \in Versions : PaperTrue(v)
  BY DEF StoryInv
<1>2. /\ Check \in Stages \ {Source} /\ Upstream(Check) = Stages \ {Check}
      /\ Check \notin StaleStages(c) /\ \A s \in Stages : Current(c, s) # 0
      /\ Passed(Current(c, Check))
  BY StoryboardAssumption DEF Gate, Check, Source, Stages, Upstream
<1>3. \A s \in Stages : Current(c, s) \in Versions /\ papers[Current(c, s)].stage = s
  BY <1>1, <1>2, CurrentIsThere
<1>4. ASSUME NEW s \in Stages, s # Source PROVE Passed(Current(c, s))
  <2>1. CASE s = Check
    BY <1>2, <2>1
  <2>2. CASE s # Check
    <3>1. Current(c, s) \in papers[Current(c, Check)].bound
      BY <1>2, <2>2 DEF Gate, Bindings
    <3>2. PaperTrue(Current(c, Check))
      BY <1>1, <1>2, <1>3
    <3>3. Sound(Current(c, s))
      BY <1>2, <3>1, <3>2 DEF PaperTrue
    <3> QED BY <1>3, <1>4, <3>3 DEF Sound
  <2> QED BY <2>1, <2>2
<1>5. ASSUME NEW s \in Stages PROVE s \notin StaleStages(c)
  BY <1>2, <1>5, StaleBelow
<1>6. Stages \subseteq UsableStages(c)
  BY <1>2, <1>4, <1>5 DEF UsableStages
<1>7. ASSUME NEW s \in Stages, s # Source PROVE papers[Current(c, s)].text \in vetted
  BY <1>1, <1>3, <1>4, <1>7 DEF PaperTrue, ReviewTrue, Passed
<1> QED BY <1>6, <1>7

---------------------------------------------------------------------------
(* What stays true while versions and texts are added.                     *)

Grows ==
  /\ Versions \subseteq Versions' /\ Len(papers) <= Len(papers')
  /\ \A v \in Versions : papers'[v] = papers[v]
  /\ texts <= texts' /\ vetted \subseteq vetted'

\* Saved versions, drafts and operations stay as true as they were.
LEMMA GrowsKeeps ==
  ASSUME StoryShapes, StoryShapes', Grows
  PROVE  /\ \A v : Sound(v) => Sound(v)'
         /\ \A review : ReviewTrue(review) => ReviewTrue(review)'
         /\ \A v \in Versions : PaperTrue(v) => PaperTrue(v)'
         /\ \A k \in Keys, d \in Sheets : SheetTrue(k, d) => SheetTrue(k, d)'
         /\ \A w \in StoryWorks : WorkTrue(w) => WorkTrue(w)'
<1>1. /\ texts \in Nat /\ texts' \in Nat /\ Len(papers) \in Nat /\ Len(papers') \in Nat
      /\ Versions \subseteq Versions' /\ Len(papers) <= Len(papers')
      /\ \A v \in Versions : papers'[v] = papers[v]
      /\ texts <= texts' /\ vetted \subseteq vetted'
  BY DEF StoryShapes, Grows
<1>2. \A v : Sound(v) => Sound(v)'
  BY <1>1 DEF Sound, Passed
<1>3. \A review : ReviewTrue(review) => ReviewTrue(review)'
  BY <1>1 DEF ReviewTrue
<1>4. ASSUME NEW v \in Versions, PaperTrue(v) PROVE PaperTrue(v)'
  <2>1. papers[v].text \in Nat /\ papers[v].text \in 1..texts'
    BY <1>1, <1>4, PaperShape DEF PaperTrue
  <2>2. \E u \in Versions : papers'[u].document = papers[v].document /\ ~papers'[u].branch
    BY <1>1, <1>4 DEF PaperTrue
  <2>3. \A b \in papers[v].bound : b = 0 \/ Sound(b)'
    BY <1>2, <1>4 DEF PaperTrue
  <2>4. ReviewTrue(papers[v].review)' /\ papers[v].parents \subseteq 1..(v - 1)
    BY <1>1, <1>4 DEF PaperTrue, ReviewTrue
  <2>5. papers'[v] = papers[v]
    BY <1>1
  <2> QED BY <1>1, <2>1, <2>2, <2>3, <2>4, <2>5 DEF PaperTrue, ReviewTrue
<1>5. ASSUME NEW k \in Keys, NEW d \in Sheets, SheetTrue(k, d) PROVE SheetTrue(k, d)'
  <2>1. k[3] \in Nat /\ d.text \in Nat
    BY DEF Keys, Sheets
  <2> QED BY <1>1, <1>5, <2>1 DEF SheetTrue, ReviewTrue
<1>6. ASSUME NEW w \in StoryWorks, WorkTrue(w) PROVE WorkTrue(w)'
  <2>1. /\ w.key \in Keys /\ w.read \in Sheets /\ w.heads \in [Stages -> Nat]
        /\ w.inherits \in SUBSET Nat
    BY DEF StoryWorks
  <2>2. SheetTrue(w.key, w.read)'
    BY <1>5, <1>6, <2>1 DEF WorkTrue
  <2>3. \A s \in Stages : w.heads[s] <= Len(papers')
    BY <1>1, <1>6, <2>1 DEF WorkTrue
  <2>4. w.inherits \subseteq 1..Len(papers')
    BY <1>1, <1>6, <2>1 DEF WorkTrue
  <2>5. w.kind = "optimize" \/ (w.kind = "save" /\ w.key[2] # Source /\ w.read.mode # "preserve")
          => \A u \in Upstream(w.key[2]) : Sound(w.heads[u])'
    BY <1>2, <1>6 DEF WorkTrue
  <2>6. \A s \in Stages : w.saved[s] = 0 \/ Sound(w.saved[s])'
    BY <1>2, <1>6 DEF WorkTrue
  <2> QED BY <1>1, <1>6, <2>2, <2>3, <2>4, <2>5, <2>6 DEF WorkTrue
<1> QED BY <1>2, <1>3, <1>4, <1>5, <1>6

\* Adding a version of the right shape.
LEMMA AddGrows ==
  ASSUME StoryShapes, NEW p \in Papers, papers' = Append(papers, p),
         texts <= texts', vetted \subseteq vetted'
  PROVE  /\ Grows /\ papers' \in Seq(Papers)
         /\ Len(papers') = Len(papers) + 1 /\ papers'[Len(papers) + 1] = p
         /\ Versions' = Versions \cup {Len(papers) + 1}
<1>1. papers \in Seq(Papers) /\ Len(papers) \in Nat
  BY DEF StoryShapes
<1>2. /\ papers' \in Seq(Papers) /\ Len(papers') = Len(papers) + 1
      /\ papers'[Len(papers) + 1] = p /\ \A v \in 1..Len(papers) : papers'[v] = papers[v]
  BY <1>1, AppendProperties
<1>3. Versions = 1..Len(papers) /\ Versions' = 1..(Len(papers) + 1)
  BY <1>1, <1>2 DEF Versions
<1> QED BY <1>1, <1>2, <1>3 DEF Grows

\* Texts may be written and vetted without a version.
LEMMA SameGrows ==
  ASSUME StoryShapes, UNCHANGED papers, texts <= texts', vetted \subseteq vetted'
  PROVE  Grows
<1>1. Len(papers) \in Nat /\ Versions' = Versions
  BY DEF StoryShapes, Versions
<1> QED BY <1>1 DEF Grows

\* The invariant after a step, part by part.
LEMMA StepByParts ==
  ASSUME StoryInv, StoryShapes', ChosenExist', Grows,
         \A v \in Versions' \ Versions : PaperTrue(v)',
         \A k, d : k \in DOMAIN sheets' /\ sheets'[k] = d
                     => (k \in DOMAIN sheets /\ sheets[k] = d) \/ SheetTrue(k, d)',
         \A w : \A i \in Works : works'[i] = w =>
           w = NoWork \/ works[i] = w \/ (w \in StoryWorks /\ WorkTrue(w)) \/ WorkTrue(w)'
  PROVE  StoryInv'
<1>1. /\ StoryShapes /\ \A v \in Versions : PaperTrue(v)
      /\ \A k \in DOMAIN sheets : SheetTrue(k, sheets[k])
      /\ \A i \in Works : works[i] # NoWork => WorkTrue(works[i])
      /\ \A k \in DOMAIN sheets : k \in Keys /\ sheets[k] \in Sheets
      /\ \A i \in Works : works[i] # NoWork => works[i] \in StoryWorks
  BY DEF StoryInv, StoryShapes
<1>2. \A v \in Versions' : PaperTrue(v)'
  BY <1>1, GrowsKeeps
<1>3. ASSUME NEW k \in DOMAIN sheets' PROVE SheetTrue(k, sheets[k])'
  <2>1. PICK d : d = sheets'[k]
    OBVIOUS
  <2>2. SheetTrue(k, d)'
    BY <1>1, <2>1, GrowsKeeps
  <2> QED BY <2>1, <2>2 DEF SheetTrue, ReviewTrue
<1>4. ASSUME NEW i \in Works, works'[i] # NoWork PROVE WorkTrue(works[i])'
  <2>1. PICK w : w = works'[i]
    OBVIOUS
  <2>2. WorkTrue(w)'
    BY <1>1, <1>4, <2>1, GrowsKeeps
  <2> QED BY <2>1, <2>2 DEF WorkTrue, SheetTrue, ReviewTrue, Sound, Passed
<1>5. \A k \in DOMAIN sheets' : SheetTrue(k, sheets[k])'
  BY <1>3
<1>6. \A i \in Works : works'[i] # NoWork => WorkTrue(works[i])'
  BY <1>4
<1> QED BY <1>2, <1>5, <1>6 DEF StoryInv

---------------------------------------------------------------------------
(* The editor.                                                             *)

\* What a version holds, as a draft.
LEMMA SavedShape ==
  ASSUME StoryInv, NEW v \in 0..Len(papers)
  PROVE  /\ Saved(v).text \in Nat /\ Saved(v).asks \in BOOLEAN /\ Saved(v).review \in Reviews
         /\ Saved(v).text <= texts /\ ReviewTrue(Saved(v).review)
<1>1. StoryShapes /\ \A u \in Versions : PaperTrue(u)
  BY DEF StoryInv
<1>2. texts \in Nat /\ Len(papers) \in Nat
  BY <1>1 DEF StoryShapes
<1>3. CASE v = 0
  BY <1>2, <1>3 DEF Saved, Unwritten, NoReview, Reviews, ReviewTrue
<1>4. CASE v # 0
  <2>1. v \in Versions
    BY <1>2, <1>4 DEF Versions, StoryShapes
  <2>2. PaperTrue(v)
    BY <1>1, <2>1
  <2>3. Saved(v) = [text |-> papers[v].text, asks |-> papers[v].asks, review |-> papers[v].review]
    BY <1>4 DEF Saved
  <2> QED BY <1>1, <1>2, <2>1, <2>2, <2>3, PaperShape DEF PaperTrue
<1> QED BY <1>3, <1>4

\* A version that is opened is not preserved yet.
LEMMA OpenedIsTrue ==
  ASSUME StoryInv, NEW k \in Keys, k[3] \in 0..Len(papers)
  PROVE  Opened(k) \in Sheets /\ SheetTrue(k, Opened(k))
<1>1. PICK d : d = Opened(k)
  OBVIOUS
<1>2. /\ d \in Sheets /\ d.mode # "preserve" /\ d.text = Saved(k[3]).text
      /\ d.review = Saved(k[3]).review
  BY <1>1, SavedShape DEF Opened, Sheets, SheetModes
<1>3. Len(papers) \in Nat
  BY DEF StoryInv, StoryShapes
<1> QED BY <1>1, <1>2, <1>3, SavedShape DEF SheetTrue

\* The version chosen is one that is there.
LEMMA KeyShape ==
  ASSUME StoryInv
  PROVE  /\ Key \in Keys /\ Key[3] \in 0..Len(papers) /\ Key[2] = desk.stage
         /\ desk.chapter \in Chapters /\ desk.stage \in Stages
         /\ desk.chosen \in [Chapters -> [Stages -> Nat]]
<1>1. StoryShapes /\ ChosenExist /\ Len(papers) \in Nat
  BY DEF StoryInv, StoryShapes
<1>2. /\ desk.chapter \in Chapters /\ desk.stage \in Stages
      /\ desk.chosen \in [Chapters -> [Stages -> Nat]]
  BY <1>1 DEF StoryShapes, Desks
<1>3. Chosen(desk.chapter, desk.stage) \in 0..Len(papers)
  BY <1>1, <1>2, CurrentIsThere DEF Chosen, ChosenExist
<1> QED BY <1>1, <1>2, <1>3 DEF Key, KeyOf, Keys

\* The draft of a version that is there is true.
LEMMA DraftIsTrue ==
  ASSUME StoryInv, NEW k \in Keys, k[3] \in 0..Len(papers)
  PROVE  Draft(k) \in Sheets /\ SheetTrue(k, Draft(k))
<1>1. StoryShapes /\ \A key \in DOMAIN sheets : SheetTrue(key, sheets[key])
  BY DEF StoryInv
<1>2. CASE k \in DOMAIN sheets
  BY <1>1, <1>2 DEF Draft, StoryShapes
<1>3. CASE k \notin DOMAIN sheets
  BY <1>3, OpenedIsTrue DEF Draft
<1> QED BY <1>2, <1>3

\* Choosing a version.
LEMMA ChosenShape ==
  ASSUME NEW shown \in Desks, NEW length \in Nat, NEW k \in Keys, k[3] <= length,
         \A c \in Chapters, s \in Stages : shown.chosen[c][s] <= length,
         NEW new, new = [shown EXCEPT !.chosen[k[1]][k[2]] = k[3]]
  PROVE  new \in Desks /\ \A c \in Chapters, s \in Stages : new.chosen[c][s] <= length
<1>1. /\ shown.chosen \in [Chapters -> [Stages -> Nat]]
      /\ k[1] \in Chapters /\ k[2] \in Stages /\ k[3] \in Nat
  BY DEF Desks, Keys
<1> DEFINE chosen == [shown.chosen EXCEPT ![k[1]] = [@ EXCEPT ![k[2]] = k[3]]]
<1>2. new = [shown EXCEPT !.chosen = chosen]
  BY <1>1
<1>3. chosen \in [Chapters -> [Stages -> Nat]]
  BY <1>1
<1>4. new \in Desks /\ new.chosen = chosen
  <2> HIDE DEF chosen
  <2> QED BY <1>1, <1>2, <1>3 DEF Desks
<1>5. \A c \in Chapters, s \in Stages :
        chosen[c][s] = IF c = k[1] /\ s = k[2] THEN k[3] ELSE shown.chosen[c][s]
  BY <1>1
<1> QED BY <1>4, <1>5

\* What is shown moves to a version that is there.
LEMMA ChosenMoves ==
  ASSUME StoryShapes, ChosenExist, NEW k \in Keys, Len(papers') \in Nat,
         Len(papers) <= Len(papers'), k[3] <= Len(papers'),
         desk' = [desk EXCEPT !.chosen[k[1]][k[2]] = k[3]]
  PROVE  desk' \in Desks /\ ChosenExist'
<1>1. /\ desk \in Desks /\ desk.chosen \in [Chapters -> [Stages -> Nat]] /\ Len(papers) \in Nat
  BY DEF StoryShapes, Desks
<1>2. \A c \in Chapters, s \in Stages : desk.chosen[c][s] <= Len(papers')
  <2> TAKE c \in Chapters, s \in Stages
  <2>1. desk.chosen[c][s] \in Nat /\ desk.chosen[c][s] <= Len(papers)
    BY <1>1 DEF ChosenExist
  <2> QED BY <1>1, <2>1
<1>3. desk' \in Desks /\ \A c \in Chapters, s \in Stages : desk'.chosen[c][s] <= Len(papers')
  BY <1>1, <1>2, ChosenShape
<1> QED BY <1>3 DEF ChosenExist

\* One draft changes, and texts may be written.
LEMMA SheetStep ==
  ASSUME StoryInv, clicks' \in Nat, texts' \in Nat, texts <= texts',
         UNCHANGED <<papers, works, vetted>>, desk' \in Desks, ChosenExist',
         NEW k \in Keys, NEW d \in Sheets, sheets' = SheetsWith(DOMAIN sheets, k, d), SheetTrue(k, d)'
  PROVE  StoryInv'
<1>1. StoryShapes
  BY DEF StoryInv
<1>2. \A key, e : key \in DOMAIN sheets' /\ sheets'[key] = e
                    => (key \in DOMAIN sheets /\ sheets[key] = e) \/ (key = k /\ e = d)
  BY DEF SheetsWith
<1>3. StoryShapes'
  BY <1>1, <1>2 DEF StoryShapes
<1>4. Grows
  BY <1>1, SameGrows
<1>5. Versions' = Versions
  BY DEF Versions
<1> QED BY <1>2, <1>3, <1>4, <1>5, StepByParts

\* A draft is kept.
LEMMA KeepStep ==
  ASSUME StoryInv, clicks' \in Nat, texts' \in Nat, texts <= texts',
         UNCHANGED <<papers, works, vetted>>,
         NEW k \in Keys, NEW d \in Sheets, KeepSheet(k, d), SheetTrue(k, d)'
  PROVE  StoryInv'
<1>1. StoryShapes /\ ChosenExist /\ Len(papers) \in Nat /\ desk \in Desks /\ k[3] \in Nat
  BY DEF StoryInv, StoryShapes, Keys
<1>2. k[3] <= Len(papers)
  BY DEF SheetTrue
<1>3. desk' \in Desks /\ ChosenExist'
  <2>1. CASE k[3] = 0
    BY <1>1, <2>1 DEF KeepSheet, ChosenExist
  <2>2. CASE k[3] # 0
    <3>1. desk' = [desk EXCEPT !.chosen[k[1]][k[2]] = k[3]]
      BY <2>2 DEF KeepSheet
    <3>2. Len(papers') \in Nat /\ Len(papers) <= Len(papers') /\ k[3] <= Len(papers')
      BY <1>1, <1>2
    <3> QED BY ONLY <1>1, <3>1, <3>2, ChosenMoves
  <2> QED BY <2>1, <2>2
<1> QED BY <1>3, SheetStep DEF KeepSheet

\* The draft on screen.
LEMMA OnScreen ==
  ASSUME StoryInv
  PROVE  \E k \in Keys, d \in Sheets :
           /\ k = Key /\ d = Draft(Key) /\ SheetTrue(k, d)
           /\ k[3] \in 0..Len(papers) /\ k[2] = desk.stage
  BY KeyShape, DraftIsTrue

\* A visit changes no version, no operation and no verdict.
LEMMA VisitShape ==
  ASSUME StoryInv, Visits
  PROVE  clicks' \in Nat /\ UNCHANGED <<papers, works, vetted>> /\ texts \in Nat
         /\ StoryShapes /\ Len(papers) \in Nat
  BY DEF Visits, Spend, StoryInv, StoryShapes

\* No review.
LEMMA NoReviewShape == NoReview \in Reviews /\ ~NoReview.passed
  BY DEF NoReview, Reviews

\* A draft keeps what it says of its text's review, or has none.
LEMMA ChangedDraft ==
  ASSUME StoryInv, UNCHANGED <<papers, vetted>>, texts' \in Nat, texts <= texts',
         NEW k \in Keys, NEW b \in Sheets, SheetTrue(k, b), NEW d \in Sheets,
         d.text = b.text \/ d.text <= texts', d.review \in {b.review, NoReview},
         d.mode = b.mode \/ (d.mode = "preserve" => k[3] # 0)
  PROVE  SheetTrue(k, d)'
<1>1. texts \in Nat /\ b.text \in Nat
  BY DEF StoryInv, StoryShapes, Sheets
<1>2. ReviewTrue(d.review)'
  BY DEF SheetTrue, ReviewTrue, NoReview
<1> QED BY <1>1, <1>2 DEF SheetTrue

\* Typing, and asking for improvements, is of the draft on screen.
LEMMA TypeKeepsInv ==
  ASSUME StoryInv, Type \/ AskFor
  PROVE  StoryInv'
<1>1. Visits
  BY DEF Type, AskFor
<1>2. PICK k \in Keys, b \in Sheets :
        k = Key /\ b = Draft(Key) /\ SheetTrue(k, b) /\ k[3] \in 0..Len(papers)
  BY OnScreen
<1>3. CASE Type
  <2>1. texts' = texts + 1 /\ KeepSheet(k, [b EXCEPT !.text = texts + 1, !.review = NoReview])
    BY <1>2, <1>3 DEF Type
  <2>2. PICK d : d = [b EXCEPT !.text = texts + 1, !.review = NoReview]
    OBVIOUS
  <2>3. d \in Sheets /\ d.text = texts' /\ d.review = NoReview /\ d.mode = b.mode
    <3>1. texts' \in Nat
      BY <1>1, <2>1, VisitShape
    <3> QED BY <2>1, <2>2, <3>1, NoReviewShape DEF Sheets
  <2>4. texts' \in Nat /\ texts <= texts' /\ d.text <= texts'
    BY <1>1, <2>1, <2>3, VisitShape
  <2>5. SheetTrue(k, d)'
    BY <1>1, <1>2, <2>3, <2>4, VisitShape, ChangedDraft
  <2> QED BY <1>1, <2>1, <2>2, <2>3, <2>4, <2>5, VisitShape, KeepStep
<1>4. CASE AskFor
  <2>1. UNCHANGED texts /\ KeepSheet(k, [b EXCEPT !.asks = ~@])
    BY <1>2, <1>4 DEF AskFor
  <2>2. PICK d : d = [b EXCEPT !.asks = ~@]
    OBVIOUS
  <2>3. d \in Sheets /\ d.text = b.text /\ d.review = b.review /\ d.mode = b.mode
    BY <2>2 DEF Sheets
  <2>4. texts' \in Nat /\ texts <= texts'
    BY <1>1, <2>1, VisitShape
  <2>5. SheetTrue(k, d)'
    BY <1>1, <1>2, <2>3, <2>4, VisitShape, ChangedDraft
  <2> QED BY <1>1, <2>1, <2>2, <2>3, <2>4, <2>5, VisitShape, KeepStep
<1> QED BY <1>3, <1>4

\* A version that is not in production is preserved as a branch or taken over.
LEMMA HistoricalKeepsInv ==
  ASSUME StoryInv, BeginHistorical
  PROVE  StoryInv'
<1>1. Visits /\ UNCHANGED texts
  BY DEF BeginHistorical
<1>2. PICK k \in Keys, b \in Sheets :
        k = Key /\ b = Draft(Key) /\ SheetTrue(k, b) /\ k[3] \in 0..Len(papers)
  BY OnScreen
<1>3. k[3] # 0
  BY <1>2 DEF BeginHistorical, NeedsChoice, Historical
<1>4. \/ KeepSheet(k, [b EXCEPT !.mode = "preserve"])
      \/ KeepSheet(k, [b EXCEPT !.mode = "migrate", !.review = NoReview])
  BY <1>2 DEF BeginHistorical
<1>5. PICK d : /\ KeepSheet(k, d)
               /\ \/ d = [b EXCEPT !.mode = "preserve"]
                  \/ d = [b EXCEPT !.mode = "migrate", !.review = NoReview]
  BY <1>4
<1>6. d \in Sheets /\ d.text = b.text /\ d.review \in {b.review, NoReview}
  <2>1. CASE d = [b EXCEPT !.mode = "preserve"]
    BY <2>1 DEF Sheets, SheetModes
  <2>2. CASE d = [b EXCEPT !.mode = "migrate", !.review = NoReview]
    BY <2>2, NoReviewShape DEF Sheets, SheetModes
  <2> QED BY <1>5, <2>1, <2>2
<1>7. texts' \in Nat /\ texts <= texts'
  BY <1>1, VisitShape
<1>8. SheetTrue(k, d)'
  BY <1>1, <1>2, <1>3, <1>6, <1>7, VisitShape, ChangedDraft
<1> QED BY <1>1, <1>5, <1>6, <1>7, <1>8, VisitShape, KeepStep

\* Discarding goes back to the version, picking a chapter to its text.
LEMMA DiscardKeepsInv ==
  ASSUME StoryInv, Discard
  PROVE  StoryInv'
<1>1. Visits /\ UNCHANGED <<texts, desk>> /\ StoryShapes /\ ChosenExist
  BY DEF Discard, StoryInv
<1>2. PICK k \in Keys : k = Key /\ k[3] \in 0..Len(papers)
  BY OnScreen
<1>3. PICK d \in Sheets : d = Opened(k) /\ SheetTrue(k, d)
  BY <1>2, OpenedIsTrue
<1>4. sheets' = SheetsWith(DOMAIN sheets, k, d)
  BY <1>2, <1>3 DEF Discard
<1>5. texts' \in Nat /\ texts <= texts' /\ d.mode = d.mode
  BY <1>1, VisitShape
<1>6. SheetTrue(k, d)'
  BY <1>1, <1>3, <1>5, VisitShape, ChangedDraft
<1>7. desk' \in Desks /\ ChosenExist'
  BY <1>1, VisitShape DEF StoryShapes, ChosenExist
<1> QED BY <1>1, <1>4, <1>5, <1>6, <1>7, VisitShape, SheetStep

\* A chapter is chosen: its text becomes the draft of the chapter's source.
LEMMA PickKeepsInv ==
  ASSUME StoryInv, PickChapter
  PROVE  StoryInv'
<1>1. Visits /\ StoryShapes /\ ChosenExist /\ texts' = texts + 1
  BY DEF PickChapter, StoryInv
<1>2. texts' \in Nat /\ texts <= texts' /\ Len(papers) \in Nat /\ texts \in Nat
  BY <1>1, VisitShape
<1>3. PICK c \in Chapters :
        /\ sheets' = SheetsWith(DOMAIN sheets, <<c, Source, Current(c, Source)>>,
                                [text |-> texts + 1, asks |-> FALSE, review |-> NoReview,
                                 mode |-> "current"])
        /\ desk' = [desk EXCEPT !.chapter = c, !.stage = Source,
                                !.chosen[c][Source] = Current(c, Source)]
  BY DEF PickChapter
<1>4. PICK v \in 0..Len(papers) : v = Current(c, Source)
  BY <1>1, CurrentIsThere
<1>5. PICK k, d : /\ k = <<c, Source, v>>
                  /\ d = [text |-> texts + 1, asks |-> FALSE, review |-> NoReview,
                          mode |-> "current"]
  OBVIOUS
<1>6. Source \in Stages
  BY StoryboardAssumption DEF Stages, Source
<1>7. k \in Keys /\ d \in Sheets /\ k[3] = v
  BY <1>2, <1>4, <1>5, <1>6 DEF Keys, Sheets, SheetModes, Reviews, NoReview
<1>8. SheetTrue(k, d)'
  <2>1. ReviewTrue(d.review)'
    BY <1>5 DEF ReviewTrue, NoReview
  <2>2. Len(papers') = Len(papers)
    BY <1>1, VisitShape
  <2> QED BY <1>1, <1>2, <1>4, <1>5, <1>7, <2>1, <2>2 DEF SheetTrue
<1>9. desk' \in Desks /\ ChosenExist'
  <2>1. PICK desk1 : desk1 = [desk EXCEPT !.chosen[c][Source] = v]
    OBVIOUS
  <2>2. desk1 \in Desks /\ \A e \in Chapters, s \in Stages : desk1.chosen[e][s] <= Len(papers)
    <3>1. k[1] = c /\ k[2] = Source /\ k[3] = v /\ desk \in Desks
      BY <1>1, <1>5 DEF StoryShapes
    <3>2. k[3] <= Len(papers) /\ desk1 = [desk EXCEPT !.chosen[k[1]][k[2]] = k[3]]
      BY <1>2, <1>4, <2>1, <3>1
    <3> QED BY <1>1, <1>2, <1>7, <3>1, <3>2, ChosenShape DEF ChosenExist
  <2>3. desk' = [desk1 EXCEPT !.chapter = c, !.stage = Source]
    BY <1>1, <1>3, <1>4, <2>1 DEF StoryShapes, Desks
  <2>4. desk' \in Desks /\ desk'.chosen = desk1.chosen
    BY <1>6, <2>2, <2>3 DEF Desks
  <2> QED BY <1>1, <2>2, <2>4, VisitShape DEF ChosenExist
<1>10. sheets' = SheetsWith(DOMAIN sheets, k, d)
  BY <1>3, <1>4, <1>5
<1> QED BY <1>1, <1>2, <1>7, <1>8, <1>9, <1>10, VisitShape, SheetStep

\* What is shown changes, nothing else.
LEMMA OpeningKeepsInv ==
  ASSUME StoryInv, OpenStage \/ OpenChapter \/ OpenVersion
  PROVE  StoryInv'
<1>1. Visits /\ UNCHANGED <<sheets, texts>> /\ StoryShapes /\ ChosenExist
  BY DEF OpenStage, OpenChapter, OpenVersion, StoryInv
<1>2. Source \in Stages
  BY StoryboardAssumption DEF Stages, Source
<1>3. desk' \in Desks /\ ChosenExist'
  <2>1. CASE OpenStage
    BY <1>1, <2>1, VisitShape DEF OpenStage, StoryShapes, Desks, ChosenExist
  <2>2. CASE OpenChapter
    BY <1>1, <1>2, <2>2, VisitShape DEF OpenChapter, StoryShapes, Desks, ChosenExist
  <2>3. CASE OpenVersion
    <3>1. PICK v \in Versions : desk' = [desk EXCEPT !.chosen[desk.chapter][desk.stage] = v]
      BY <2>3 DEF OpenVersion
    <3>2. PICK k : k = <<desk.chapter, desk.stage, v>>
      OBVIOUS
    <3>3. v \in 1..Len(papers) /\ v \in Nat /\ v <= Len(papers)
      BY <1>1, VisitShape DEF Versions, StoryShapes
    <3>4. k \in Keys /\ k[1] = desk.chapter /\ k[2] = desk.stage /\ k[3] = v
      BY <3>2, <3>3, KeyShape DEF Keys
    <3>5. desk' = [desk EXCEPT !.chosen[k[1]][k[2]] = k[3]]
      BY <3>1, <3>4
    <3>6. Len(papers') \in Nat /\ Len(papers) <= Len(papers') /\ k[3] <= Len(papers')
      BY <1>1, <3>3, <3>4, VisitShape
    <3> QED BY ONLY <1>1, <3>4, <3>5, <3>6, ChosenMoves
  <2> QED BY <2>1, <2>2, <2>3
<1>4. StoryShapes'
  BY <1>1, <1>3, VisitShape DEF StoryShapes
<1>5. Grows /\ Versions' = Versions
  BY <1>1, VisitShape, SameGrows DEF Versions
<1>6. \A k, d : k \in DOMAIN sheets' /\ sheets'[k] = d => (k \in DOMAIN sheets /\ sheets[k] = d)
  BY <1>1
<1>7. \A w : \A i \in Works : works'[i] = w => works[i] = w
  BY <1>1, VisitShape
<1> QED BY <1>3, <1>4, <1>5, <1>6, <1>7, StepByParts

---------------------------------------------------------------------------
(* The operations.                                                         *)

\* An operation that is hidden or raced has read and saved the same.
LEMMA AlikeWork ==
  ASSUME NEW w \in StoryWorks, NEW x, NEW shown \in BOOLEAN, NEW raced \in BOOLEAN,
         x = [w EXCEPT !.shown = shown, !.raced = raced]
  PROVE  x \in StoryWorks /\ (WorkTrue(w) => WorkTrue(x))
<1>1. /\ x \in StoryWorks /\ x.kind = w.kind /\ x.key = w.key /\ x.read = w.read
      /\ x.writing = w.writing /\ x.heads = w.heads /\ x.inherits = w.inherits
      /\ x.saved = w.saved /\ x.first = w.first
  BY DEF StoryWorks
<1>2. Cascade(x) = Cascade(w) /\ Unsaved(x) = Unsaved(w) /\ \A s : NewText(x, s) = NewText(w, s)
  BY <1>1 DEF Cascade, Unsaved, NewText
<1> QED BY <1>1, <1>2 DEF WorkTrue

\* An operation under way is true.
LEMMA WorkShape ==
  ASSUME StoryInv, NEW i \in Works, works[i] # NoWork
  PROVE  works[i] \in StoryWorks /\ WorkTrue(works[i])
  BY DEF StoryInv, StoryShapes

\* A save by one of them, or by nobody here, races the others.
LEMMA RacedWorks ==
  ASSUME StoryInv, NEW i, NEW x, x = NoWork \/ x \in StoryWorks, works' = Race(i, x)
  PROVE  /\ works' \in [Works -> StoryWorks \cup {NoWork}]
         /\ \A w : \A j \in Works : works'[j] = w =>
              w = NoWork \/ (w \in StoryWorks /\ WorkTrue(w)) \/ (j = i /\ w = x)
<1>1. works' = [j \in Works |-> IF j = i THEN x
                                ELSE IF works[j] = NoWork THEN NoWork
                                ELSE [works[j] EXCEPT !.raced = TRUE]]
  BY DEF Race
<1>2. ASSUME NEW j \in Works, NEW w, works'[j] = w
      PROVE  w = NoWork \/ (w \in StoryWorks /\ WorkTrue(w)) \/ (j = i /\ w = x)
  <2>1. CASE j = i \/ works[j] = NoWork
    BY <1>1, <1>2, <2>1
  <2>2. CASE j # i /\ works[j] # NoWork
    <3>1. PICK v \in StoryWorks : v = works[j] /\ WorkTrue(v)
      BY <2>2, WorkShape
    <3>2. w = [v EXCEPT !.raced = TRUE]
      BY <1>1, <1>2, <2>2, <3>1
    <3>3. v.shown \in BOOLEAN /\ w = [v EXCEPT !.shown = v.shown, !.raced = TRUE]
      BY <3>2 DEF StoryWorks
    <3> QED BY <3>1, <3>3, AlikeWork
  <2> QED BY <2>1, <2>2
<1>3. \A j \in Works : works'[j] \in StoryWorks \cup {NoWork}
  BY <1>2
<1> QED BY <1>1, <1>2, <1>3

\* Operations change, and nothing else.
LEMMA WorksStep ==
  ASSUME StoryInv, clicks' \in Nat, UNCHANGED <<papers, sheets, desk, texts, vetted>>,
         works' \in [Works -> StoryWorks \cup {NoWork}],
         \A w : \A i \in Works : works'[i] = w =>
           w = NoWork \/ works[i] = w \/ (w \in StoryWorks /\ WorkTrue(w))
  PROVE  StoryInv'
<1>1. StoryShapes /\ ChosenExist /\ texts \in Nat
  BY DEF StoryInv, StoryShapes
<1>2. StoryShapes' /\ ChosenExist'
  BY <1>1 DEF StoryShapes, ChosenExist
<1>3. Grows /\ Versions' = Versions
  BY <1>1, SameGrows DEF Versions
<1>4. \A k, d : k \in DOMAIN sheets' /\ sheets'[k] = d => (k \in DOMAIN sheets /\ sheets[k] = d)
  OBVIOUS
<1> QED BY <1>2, <1>3, <1>4, StepByParts

\* Leaving the page hides its operations.
LEMMA RemountKeepsInv ==
  ASSUME StoryInv, Remount
  PROVE  StoryInv'
<1>1. /\ clicks' \in Nat /\ UNCHANGED <<papers, sheets, desk, texts, vetted>>
      /\ works' = [i \in Works |-> [works[i] EXCEPT !.shown = FALSE]]
  BY DEF Remount, Spend, StoryInv, StoryShapes
<1>2. ASSUME NEW i \in Works, NEW w, works'[i] = w
      PROVE  w = NoWork \/ (w \in StoryWorks /\ WorkTrue(w))
  <2>1. CASE works[i] = NoWork
    BY <1>1, <1>2, <2>1 DEF NoWork
  <2>2. CASE works[i] # NoWork
    <3>1. PICK v \in StoryWorks : v = works[i] /\ WorkTrue(v)
      BY <2>2, WorkShape
    <3>2. w = [v EXCEPT !.shown = FALSE]
      BY <1>1, <1>2, <3>1
    <3>3. v.raced \in BOOLEAN /\ w = [v EXCEPT !.shown = FALSE, !.raced = v.raced]
      BY <3>2 DEF StoryWorks
    <3> QED BY <3>1, <3>3, AlikeWork
  <2> QED BY <2>1, <2>2
<1>3. \A i \in Works : works'[i] \in StoryWorks \cup {NoWork}
  BY <1>2
<1>4. works' \in [Works -> StoryWorks \cup {NoWork}]
  BY <1>1, <1>3
<1> QED BY <1>1, <1>2, <1>4, WorksStep

\* An operation that fails, or is refused, leaves everything as it was.
LEMMA EndKeepsInv ==
  ASSUME StoryInv, NEW i \in Works, WorkFails(i) \/ Refused(i)
  PROVE  StoryInv'
<1>1. /\ clicks' \in Nat /\ UNCHANGED <<papers, sheets, desk, texts, vetted>>
      /\ works' = [works EXCEPT ![i] = NoWork]
      /\ works \in [Works -> StoryWorks \cup {NoWork}]
  BY DEF WorkFails, Refused, StoryInv, StoryShapes
<1>2. works' \in [Works -> StoryWorks \cup {NoWork}]
  BY <1>1
<1>3. \A w : \A j \in Works : works'[j] = w => w = NoWork \/ works[j] = w
  BY <1>1
<1> QED BY <1>1, <1>2, <1>3, WorksStep

\* What an operation reads when it is asked for.
LEMMA ReadShape ==
  ASSUME StoryInv, NEW kind \in {"save", "generate", "review", "optimize"}
  PROVE  Read(kind) \in StoryWorks
<1>1. PICK k \in Keys, d \in Sheets : k = Key /\ d = Draft(Key)
  BY OnScreen
<1>2. /\ StoryShapes /\ desk.chapter \in Chapters /\ \A s : Current(desk.chapter, s) \in Nat
      /\ Inherited(desk.chapter) \in SUBSET Nat
  <2>1. StoryShapes /\ desk.chapter \in Chapters /\ Len(papers) \in Nat
    BY KeyShape DEF StoryInv, StoryShapes
  <2>2. Inherited(desk.chapter) \subseteq 1..Len(papers)
    BY <2>1, InheritedAreThere
  <2>3. \A s : Current(desk.chapter, s) \in 0..Len(papers)
    BY <2>1, CurrentIsThere
  <2> QED BY <2>1, <2>2, <2>3
<1>3. PICK heads \in [Stages -> Nat], inherits \in SUBSET Nat :
        heads = [s \in Stages |-> Current(desk.chapter, s)] /\ inherits = Inherited(desk.chapter)
  BY <1>2
<1>4. PICK saved \in [Stages -> Nat] : saved = [s \in Stages |-> 0]
  OBVIOUS
<1>5. PICK historical \in BOOLEAN : historical = Historical(Key)
  BY DEF Historical
<1>6. Read(kind) = [kind |-> kind, shown |-> TRUE, key |-> k, read |-> d,
                    historical |-> historical, writing |-> FALSE, raced |-> FALSE,
                    heads |-> heads, inherits |-> inherits, saved |-> saved, first |-> 0]
  BY <1>1, <1>3, <1>4, <1>5 DEF Read
<1> QED BY <1>6 DEF StoryWorks

\* An operation builds on the heads it found sound.
LEMMA ReadIsTrue ==
  ASSUME StoryInv, NEW kind \in {"save", "generate", "review", "optimize"},
         kind \in {"save", "review"} => Draft(Key).text # 0,
         kind = "optimize" \/ (kind = "save" /\ desk.stage # Source
                               /\ Draft(Key).mode # "preserve") => Ready
  PROVE  WorkTrue(Read(kind))
<1>1. PICK r \in StoryWorks : r = Read(kind)
  BY ReadShape
<1>2. /\ r.kind = kind /\ r.key = Key /\ r.read = Draft(Key) /\ ~r.writing
      /\ r.heads = [s \in Stages |-> Current(desk.chapter, s)]
      /\ r.inherits = Inherited(desk.chapter) /\ r.saved = [s \in Stages |-> 0]
  BY <1>1 DEF Read
<1>3. StoryShapes /\ SheetTrue(Key, Draft(Key)) /\ Key[2] = desk.stage
      /\ desk.chapter \in Chapters /\ desk.stage \in Stages /\ Len(papers) \in Nat
  BY KeyShape, OnScreen DEF StoryInv, StoryShapes
<1>4. \A s \in Stages : r.heads[s] <= Len(papers)
  BY <1>2, <1>3, CurrentIsThere
<1>5. r.inherits \subseteq 1..Len(papers)
  BY <1>2, <1>3, InheritedAreThere
<1>6. ASSUME kind = "optimize" \/ (kind = "save" /\ desk.stage # Source
                                   /\ Draft(Key).mode # "preserve"),
             NEW u \in Upstream(desk.stage)
      PROVE  Sound(r.heads[u])
  <2>1. u \in Stages
    BY <1>3, StoryboardAssumption DEF Upstream, Stages
  <2>2. Sound(Current(desk.chapter, u))
    BY <1>3, <1>6, ReadyIsSound DEF Ready
  <2> QED BY <1>2, <2>1, <2>2
<1>7. \A s \in Stages : r.saved[s] = 0
  BY <1>2
<1>8. SheetTrue(r.key, r.read)
  BY <1>2, <1>3
<1>9. r.kind \in {"save", "review"} => r.read.text # 0
  BY <1>2
<1>10. r.kind = "optimize" \/ (r.kind = "save" /\ r.key[2] # Source /\ r.read.mode # "preserve")
         => \A u \in Upstream(r.key[2]) : Sound(r.heads[u])
  BY <1>2, <1>3, <1>6
<1>11. WorkTrue(r)
  BY <1>2, <1>4, <1>5, <1>7, <1>8, <1>9, <1>10 DEF WorkTrue
<1> QED BY <1>1, <1>11

\* Asking for an operation starts one that is true.
LEMMA PressKeepsInv ==
  ASSUME StoryInv, PressSave \/ PressGenerate \/ PressReview \/ PressOptimize
  PROVE  StoryInv'
<1>1. clicks' \in Nat
  BY DEF PressSave, PressGenerate, PressReview, PressOptimize, AtLiberty, Spend, StoryInv,
         StoryShapes
<1>2. PICK kind \in {"save", "generate", "review", "optimize"} :
        /\ StartWork(kind)
        /\ kind \in {"save", "review"} => Draft(Key).text # 0
        /\ kind = "optimize" \/ (kind = "save" /\ desk.stage # Source
                                 /\ Draft(Key).mode # "preserve") => Ready
  <2>1. CASE PressSave
    BY <2>1 DEF PressSave
  <2>2. CASE PressGenerate
    BY <2>2 DEF PressGenerate
  <2>3. CASE PressReview
    BY <2>3 DEF PressReview
  <2>4. CASE PressOptimize
    BY <2>4 DEF PressOptimize
  <2> QED BY <2>1, <2>2, <2>3, <2>4
<1>3. PICK r \in StoryWorks : r = Read(kind) /\ WorkTrue(r)
  BY <1>2, ReadShape, ReadIsTrue
<1>4. PICK i \in Works : works' = [works EXCEPT ![i] = r]
  BY <1>2, <1>3 DEF StartWork
<1>5. /\ UNCHANGED <<papers, sheets, desk, texts, vetted>>
      /\ works \in [Works -> StoryWorks \cup {NoWork}]
  BY <1>2 DEF StartWork, StoryInv, StoryShapes
<1>6. works' \in [Works -> StoryWorks \cup {NoWork}]
  BY <1>4, <1>5
<1>7. \A w : \A j \in Works : works'[j] = w => works[j] = w \/ w = r
  BY <1>4, <1>5
<1> QED BY <1>1, <1>3, <1>5, <1>6, <1>7, WorksStep

\* The draft that was read comes back with a text and a verdict.
LEMMA AnswerStep ==
  ASSUME StoryInv, NEW i \in Works, works[i] # NoWork, NEW d \in Sheets, WriteBack(i, d),
         texts' \in Nat, texts <= texts', vetted \subseteq vetted', vetted' \subseteq 1..texts',
         d.text <= texts', ReviewTrue(d.review)',
         d.mode # "preserve" \/ d.mode = works[i].read.mode
  PROVE  StoryInv'
<1>1. PICK w \in StoryWorks : w = works[i] /\ WorkTrue(w)
  BY WorkShape
<1>2. PICK k \in Keys : k = w.key /\ k[3] \in 0..Len(papers)
  <2>1. w.key \in Keys
    BY DEF StoryWorks
  <2>2. w.key[3] \in Nat /\ w.key[3] <= Len(papers) /\ Len(papers) \in Nat
    BY <1>1, <2>1 DEF WorkTrue, SheetTrue, Keys, StoryInv, StoryShapes
  <2> QED BY <2>1, <2>2
<1>3. /\ KeepSheet(k, d) /\ works' = [works EXCEPT ![i] = NoWork] /\ UNCHANGED <<papers, clicks>>
  BY <1>1, <1>2 DEF WriteBack
<1>4. StoryShapes /\ ChosenExist /\ Len(papers) \in Nat /\ desk \in Desks
  BY DEF StoryInv, StoryShapes
<1>5. desk' \in Desks /\ ChosenExist'
  <2>1. CASE k[3] = 0
    BY <1>3, <1>4, <2>1 DEF KeepSheet, ChosenExist
  <2>2. CASE k[3] # 0
    <3>1. desk' = [desk EXCEPT !.chosen[k[1]][k[2]] = k[3]]
      BY <1>3, <2>2 DEF KeepSheet
    <3>2. Len(papers') \in Nat /\ Len(papers) <= Len(papers') /\ k[3] <= Len(papers')
      BY <1>2, <1>3, <1>4
    <3> QED BY ONLY <1>2, <1>4, <3>1, <3>2, ChosenMoves
  <2> QED BY <2>1, <2>2
<1>6. \A key, e : key \in DOMAIN sheets' /\ sheets'[key] = e
                    => (key \in DOMAIN sheets /\ sheets[key] = e) \/ (key = k /\ e = d)
  BY <1>3 DEF KeepSheet, SheetsWith
<1>7. works' \in [Works -> StoryWorks \cup {NoWork}]
      /\ \A v : \A j \in Works : works'[j] = v => v = NoWork \/ works[j] = v
  BY <1>3, <1>4 DEF StoryShapes
<1>8. StoryShapes'
  BY <1>3, <1>4, <1>5, <1>6, <1>7 DEF StoryShapes
<1>9. Grows /\ Versions' = Versions
  BY <1>3, <1>4, SameGrows DEF Versions
<1>10. SheetTrue(k, d)'
  <2>1. k[3] <= Len(papers')
    BY <1>2, <1>3, <1>4
  <2>2. d.mode = "preserve" => k[3] # 0
    BY <1>1, <1>2 DEF WorkTrue, SheetTrue
  <2> QED BY <2>1, <2>2 DEF SheetTrue
<1> QED BY <1>5, <1>6, <1>7, <1>8, <1>9, <1>10, StepByParts

\* A draft with another review.
LEMMA ReviewedShape ==
  ASSUME NEW d \in Sheets, NEW review \in Reviews
  PROVE  LET e == [d EXCEPT !.review = review]
         IN e \in Sheets /\ e.text = d.text /\ e.mode = d.mode /\ e.review = review
  BY DEF Sheets

\* A generated text comes with the verdict on it, or without one.
LEMMA GenerateKeepsInv ==
  ASSUME StoryInv, NEW i \in Works, GenerateAnswers(i)
  PROVE  StoryInv'
<1>1. works[i].kind = "generate" /\ works[i] # NoWork /\ texts' = texts + 1
  <2>1. works[i].kind = "generate" /\ texts' = texts + 1
    BY DEF GenerateAnswers
  <2> QED BY <2>1 DEF NoWork
<1>2. PICK w \in StoryWorks : w = works[i] /\ WorkTrue(w)
  BY <1>1, WorkShape
<1>3. PICK r \in Sheets : r = w.read
  BY DEF StoryWorks
<1>4. texts \in Nat /\ vetted \subseteq 1..texts /\ texts' \in Nat /\ texts <= texts'
  BY <1>1 DEF StoryInv, StoryShapes
<1>5. PICK d : d = [r EXCEPT !.text = texts + 1,
                             !.mode = IF works[i].historical THEN "migrate" ELSE "current"]
  OBVIOUS
<1>6. d \in Sheets /\ d.text = texts' /\ d.mode # "preserve"
  BY <1>1, <1>4, <1>5 DEF Sheets, SheetModes
<1>7. ASSUME NEW passed \in BOOLEAN, Vet(texts + 1, passed),
             WriteBack(i, [d EXCEPT !.review = Judged(texts + 1, passed)])
      PROVE  StoryInv'
  <2>1. PICK review \in Reviews : review = Judged(texts + 1, passed)
    BY <1>1, <1>4 DEF Judged, Reviews
  <2>2. PICK e \in Sheets : /\ e = [d EXCEPT !.review = review] /\ e.text = d.text
                            /\ e.mode = d.mode /\ e.review = review
    BY <1>6, ReviewedShape
  <2>3. /\ vetted \subseteq vetted' /\ vetted' \subseteq 1..texts'
        /\ passed => texts + 1 \in vetted'
    BY <1>1, <1>4, <1>7 DEF Vet
  <2>4. review.passed = passed /\ review.of = texts + 1
    BY <2>1 DEF Judged
  <2>5. ReviewTrue(e.review)'
    BY <2>2, <2>3, <2>4 DEF ReviewTrue
  <2>6. WriteBack(i, e) /\ e.text <= texts'
    BY <1>4, <1>6, <1>7, <2>1, <2>2
  <2> QED BY <1>1, <1>4, <1>6, <2>2, <2>3, <2>5, <2>6, AnswerStep
<1>8. ASSUME WriteBack(i, [d EXCEPT !.review = NoReview]), UNCHANGED vetted
      PROVE  StoryInv'
  <2>1. PICK e \in Sheets : /\ e = [d EXCEPT !.review = NoReview] /\ e.text = d.text
                            /\ e.mode = d.mode /\ e.review = NoReview
    BY <1>6, NoReviewShape, ReviewedShape
  <2>2. ReviewTrue(e.review)'
    BY <2>1, NoReviewShape DEF ReviewTrue
  <2>3. WriteBack(i, e) /\ e.text <= texts' /\ vetted \subseteq vetted' /\ vetted' \subseteq 1..texts'
    BY <1>1, <1>4, <1>6, <1>8, <2>1
  <2> QED BY <1>1, <1>4, <1>6, <2>1, <2>2, <2>3, AnswerStep
<1>9. \/ \E passed \in BOOLEAN : /\ Vet(texts + 1, passed)
                                 /\ WriteBack(i, [d EXCEPT !.review = Judged(texts + 1, passed)])
      \/ WriteBack(i, [d EXCEPT !.review = NoReview]) /\ UNCHANGED vetted
  BY <1>2, <1>3, <1>5 DEF GenerateAnswers
<1> QED BY <1>7, <1>8, <1>9

\* A verdict is kept with the draft it was made of.
LEMMA ReviewKeepsInv ==
  ASSUME StoryInv, NEW i \in Works, ReviewAnswers(i)
  PROVE  StoryInv'
<1>1. works[i].kind = "review" /\ works[i] # NoWork /\ UNCHANGED texts
  BY DEF ReviewAnswers, NoWork
<1>2. PICK w \in StoryWorks : w = works[i] /\ WorkTrue(w)
  BY <1>1, WorkShape
<1>3. PICK r \in Sheets : r = w.read
  BY DEF StoryWorks
<1>4. texts \in Nat /\ vetted \subseteq 1..texts /\ texts' \in Nat /\ texts <= texts'
  BY <1>1 DEF StoryInv, StoryShapes
<1>5. r.text \in 1..texts
  BY <1>1, <1>2, <1>3, <1>4 DEF WorkTrue, SheetTrue, Sheets
<1>6. PICK passed \in BOOLEAN :
        /\ Vet(r.text, passed)
        /\ WriteBack(i, [r EXCEPT !.review = Judged(r.text, passed)])
  BY <1>2, <1>3 DEF ReviewAnswers
<1>7. PICK review \in Reviews : review = Judged(r.text, passed)
  BY DEF Judged, Reviews, Sheets
<1>8. PICK d \in Sheets : /\ d = [r EXCEPT !.review = review] /\ d.text = r.text
                          /\ d.mode = r.mode /\ d.review = review
  BY ReviewedShape
<1>9. /\ vetted \subseteq vetted' /\ vetted' \subseteq 1..texts'
      /\ passed => r.text \in vetted'
  BY <1>1, <1>4, <1>5, <1>6 DEF Vet
<1>10. review.passed = passed /\ review.of = r.text
  BY <1>7 DEF Judged
<1>11. ReviewTrue(d.review)'
  BY <1>8, <1>9, <1>10 DEF ReviewTrue
<1>12. WriteBack(i, d) /\ d.text <= texts' /\ d.mode = works[i].read.mode
  BY <1>1, <1>2, <1>3, <1>4, <1>5, <1>6, <1>7, <1>8
<1> QED BY <1>1, <1>4, <1>9, <1>11, <1>12, AnswerStep

\* The cascade's new texts are written, and all of them have passed.
LEMMA PreparedKeepsInv ==
  ASSUME StoryInv, NEW i \in Works, OptimizePrepared(i)
  PROVE  StoryInv'
<1>1. works[i].kind = "optimize" /\ ~works[i].writing /\ works[i] # NoWork
  BY DEF OptimizePrepared, NoWork
<1>2. PICK w \in StoryWorks : w = works[i] /\ WorkTrue(w)
  BY <1>1, WorkShape
<1>3. PICK first : first = texts + 1 - w.key[2]
  OBVIOUS
<1>4. /\ texts' = texts + StageCount + 1 - w.key[2]
      /\ vetted' = vetted \cup {first + s : s \in Cascade(w)}
      /\ works' = [works EXCEPT ![i].writing = TRUE, ![i].first = first]
      /\ UNCHANGED <<papers, sheets, desk, clicks>>
  BY <1>2, <1>3 DEF OptimizePrepared
<1>5. /\ StoryShapes /\ ChosenExist /\ texts \in Nat /\ vetted \subseteq 1..texts
      /\ works \in [Works -> StoryWorks \cup {NoWork}]
  BY DEF StoryInv, StoryShapes
<1>6. w.key[2] \in 1..StageCount /\ StageCount \in Nat
  BY StoryboardAssumption DEF StoryWorks, Keys, Stages
<1>7. \A s \in Cascade(w) : s \in Stages /\ first + s \in 1..texts' /\ s \in Int
  BY <1>3, <1>4, <1>5, <1>6 DEF Cascade, Stages
<1>8. /\ texts' \in Nat /\ texts <= texts' /\ first \in Int
      /\ vetted \subseteq vetted' /\ vetted' \subseteq 1..texts'
  <2>1. texts' \in Nat /\ texts <= texts' /\ first \in Int
    BY <1>3, <1>4, <1>5, <1>6
  <2> QED BY <1>4, <1>5, <1>7, <2>1
<1>9. PICK x : x = [w EXCEPT !.writing = TRUE, !.first = first]
  OBVIOUS
<1>10. /\ x \in StoryWorks /\ x.kind = w.kind /\ x.key = w.key /\ x.read = w.read
       /\ x.writing /\ x.heads = w.heads /\ x.inherits = w.inherits
       /\ x.saved = w.saved /\ x.first = first
  BY <1>8, <1>9 DEF StoryWorks
<1>11. works' = [works EXCEPT ![i] = x]
  BY <1>2, <1>4, <1>5, <1>9
<1>12. works' \in [Works -> StoryWorks \cup {NoWork}]
       /\ \A v : \A j \in Works : works'[j] = v => works[j] = v \/ v = x
  BY <1>5, <1>10, <1>11
<1>13. StoryShapes' /\ ChosenExist'
  BY <1>4, <1>5, <1>8, <1>12 DEF StoryShapes, ChosenExist
<1>14. Grows /\ Versions' = Versions
  BY <1>4, <1>5, <1>8, SameGrows DEF Versions
<1>15. WorkTrue(w)'
  BY <1>2, <1>5, <1>13, <1>14, GrowsKeeps
<1>16. Cascade(x) = Cascade(w) /\ \A s \in Cascade(x) : NewText(x, s) \in vetted'
  BY <1>4, <1>10 DEF Cascade, NewText
<1>17. Unsaved(x) # {}
  <2>1. w.key[2] \in Cascade(x) /\ x.saved[w.key[2]] = 0
    BY <1>1, <1>2, <1>6, <1>10 DEF Cascade, WorkTrue, Stages
  <2> QED BY <2>1 DEF Unsaved
<1>18. WorkTrue(x)'
  BY <1>10, <1>15, <1>16, <1>17 DEF WorkTrue
<1>19. \A k, d : k \in DOMAIN sheets' /\ sheets'[k] = d => (k \in DOMAIN sheets /\ sheets[k] = d)
  BY <1>4
<1> QED BY <1>12, <1>13, <1>14, <1>18, <1>19, StepByParts

\* What makes a version that is added true.
LEMMA AddedIsTrue ==
  ASSUME StoryShapes, StoryShapes', NEW p \in Papers, papers' = Append(papers, p),
         texts <= texts', vetted \subseteq vetted', NEW n, n = Len(papers) + 1,
         p.text \in 1..texts', p.parents \subseteq 1..Len(papers), ReviewTrue(p.review),
         \A b \in p.bound : b = 0 \/ Sound(b),
         ~p.branch \/ \E u \in Versions : papers[u].document = p.document /\ ~papers[u].branch
  PROVE  PaperTrue(n)'
<1>1. /\ Grows /\ Versions' = Versions \cup {n} /\ papers'[n] = p
      /\ \A u \in Versions : papers'[u] = papers[u]
  BY AddGrows DEF Grows
<1>2. \A b \in p.bound : b = 0 \/ Sound(b)'
  BY <1>1, GrowsKeeps
<1>3. ReviewTrue(p.review)'
  BY <1>1, GrowsKeeps
<1>4. \E u \in Versions' : papers'[u].document = p.document /\ ~papers'[u].branch
  BY <1>1
<1>5. p.parents \subseteq 1..(n - 1)
  <2>1. Len(papers) \in Nat /\ n - 1 = Len(papers)
    BY DEF StoryShapes
  <2> QED BY <2>1
<1> QED BY <1>1, <1>2, <1>3, <1>4, <1>5 DEF PaperTrue, ReviewTrue

\* The draft of a version that is added takes the place of the old one's.
LEMMA SucceedShape ==
  ASSUME StoryInv, NEW c \in Chapters, NEW s \in Stages, NEW old, NEW d \in Sheets,
         Succeed(c, s, old, d), Len(papers') = Len(papers) + 1
  PROVE  \E k \in Keys :
         /\ k = <<c, s, Len(papers) + 1>>
         /\ \A key \in DOMAIN sheets' : key \in Keys /\ sheets'[key] \in Sheets
         /\ \A key, e : key \in DOMAIN sheets' /\ sheets'[key] = e
                          => (key \in DOMAIN sheets /\ sheets[key] = e) \/ (key = k /\ e = d)
         /\ desk' \in Desks /\ ChosenExist'
<1>1. StoryShapes /\ ChosenExist /\ Len(papers) \in Nat
  BY DEF StoryInv, StoryShapes
<1>2. PICK k \in Keys : k = <<c, s, Len(papers) + 1>>
  <2>1. Len(papers) + 1 \in Nat
    BY <1>1
  <2>2. <<c, s, Len(papers) + 1>> \in Chapters \X Stages \X Nat
    BY <2>1
  <2> QED BY <2>2 DEF Keys
<1>3. sheets' = SheetsWith(DOMAIN sheets \ {<<c, s, old>>}, k, d)
  BY <1>2 DEF Succeed
<1>4. \A key, e : key \in DOMAIN sheets' /\ sheets'[key] = e
                    => (key \in DOMAIN sheets /\ sheets[key] = e) \/ (key = k /\ e = d)
  BY <1>3 DEF SheetsWith
<1>5. \A key \in DOMAIN sheets' : key \in Keys /\ sheets'[key] \in Sheets
  BY <1>1, <1>4 DEF StoryShapes
<1>6. desk' = [desk EXCEPT !.chosen[k[1]][k[2]] = k[3]]
  BY <1>2 DEF Succeed
<1>7. Len(papers') \in Nat /\ Len(papers) <= Len(papers') /\ k[3] <= Len(papers')
  BY <1>1, <1>2
<1>8. desk' \in Desks /\ ChosenExist'
  BY ONLY <1>1, <1>2, <1>6, <1>7, ChosenMoves
<1> QED BY <1>2, <1>4, <1>5, <1>8

\* An operation saves a true version, with a true draft of it.
LEMMA SaveStep ==
  ASSUME StoryInv, NEW i \in Works, NEW c \in Chapters, NEW s \in Stages, NEW old,
         NEW d \in Sheets, NEW p \in Papers, NEW x,
         AddPaper(p), Succeed(c, s, old, d), works' = Race(i, x),
         UNCHANGED <<texts, vetted, clicks>>,
         p.text \in 1..texts, p.parents \subseteq 1..Len(papers), ReviewTrue(p.review),
         \A b \in p.bound : b = 0 \/ Sound(b),
         ~p.branch \/ \E u \in Versions : papers[u].document = p.document /\ ~papers[u].branch,
         d.text <= texts, ReviewTrue(d.review),
         x = NoWork \/ x \in StoryWorks,
         StoryShapes' => x = NoWork \/ WorkTrue(x)'
  PROVE  StoryInv'
<1>1. /\ StoryShapes /\ papers' = Append(papers, p) /\ texts <= texts' /\ vetted \subseteq vetted'
      /\ Len(papers) \in Nat
  BY DEF AddPaper, StoryInv, StoryShapes
<1>2. /\ Grows /\ papers' \in Seq(Papers) /\ Len(papers') = Len(papers) + 1
      /\ Versions' = Versions \cup {Len(papers) + 1}
  BY <1>1, AddGrows
<1>3. PICK k \in Keys :
         /\ k = <<c, s, Len(papers) + 1>>
         /\ \A key \in DOMAIN sheets' : key \in Keys /\ sheets'[key] \in Sheets
         /\ \A key, e : key \in DOMAIN sheets' /\ sheets'[key] = e
                          => (key \in DOMAIN sheets /\ sheets[key] = e) \/ (key = k /\ e = d)
         /\ desk' \in Desks /\ ChosenExist'
  BY <1>2, SucceedShape
<1>4. /\ works' \in [Works -> StoryWorks \cup {NoWork}]
      /\ \A w : \A j \in Works : works'[j] = w =>
           w = NoWork \/ (w \in StoryWorks /\ WorkTrue(w)) \/ w = x
  BY RacedWorks
<1>5. StoryShapes'
  BY <1>1, <1>2, <1>3, <1>4 DEF StoryShapes
<1>6. PICK n : n = Len(papers) + 1
  OBVIOUS
<1>7. PaperTrue(n)'
  BY <1>1, <1>5, <1>6, AddedIsTrue
<1>8. \A v \in Versions' \ Versions : PaperTrue(v)'
  BY <1>2, <1>6, <1>7
<1>9. SheetTrue(k, d)'
  <2>1. ReviewTrue(d.review)' /\ d.text <= texts'
    BY <1>1 DEF ReviewTrue
  <2>2. k[3] <= Len(papers') /\ k[3] # 0
    BY <1>1, <1>2, <1>3
  <2> QED BY <2>1, <2>2 DEF SheetTrue
<1>10. \A key, e : key \in DOMAIN sheets' /\ sheets'[key] = e
                     => (key \in DOMAIN sheets /\ sheets[key] = e) \/ SheetTrue(key, e)'
  BY <1>3, <1>9
<1>11. \A w : \A j \in Works : works'[j] = w =>
           w = NoWork \/ (w \in StoryWorks /\ WorkTrue(w)) \/ WorkTrue(w)'
  BY <1>4, <1>5
<1> QED BY <1>2, <1>3, <1>5, <1>8, <1>10, <1>11, StepByParts

\* Operation i of a save or a cascade reads of its documents what is there.
LEMMA WorkParts ==
  ASSUME StoryInv, NEW i \in Works, works[i] # NoWork
  PROVE  /\ works[i].key[1] \in Chapters /\ works[i].key[2] \in Stages
         /\ works[i].key[3] \in 0..Len(papers)
         /\ works[i].read \in Sheets /\ works[i].read.text \in Nat
         /\ works[i].read.text <= texts /\ ReviewTrue(works[i].read.review)
         /\ \A s \in Stages : works[i].heads[s] \in 0..Len(papers)
         /\ works[i].inherits \subseteq 1..Len(papers)
         /\ StoryShapes /\ Len(papers) \in Nat /\ texts \in Nat
<1>1. PICK w \in StoryWorks : w = works[i] /\ WorkTrue(w)
  BY WorkShape
<1>2. /\ w.key \in Keys /\ w.read \in Sheets /\ w.heads \in [Stages -> Nat]
  BY DEF StoryWorks
<1>3. /\ w.key[1] \in Chapters /\ w.key[2] \in Stages /\ w.key[3] \in Nat /\ w.read.text \in Nat
      /\ \A s \in Stages : w.heads[s] \in Nat
  BY <1>2 DEF Keys, Sheets
<1>4. StoryShapes /\ Len(papers) \in Nat /\ texts \in Nat
  BY DEF StoryInv, StoryShapes
<1> QED BY <1>1, <1>2, <1>3, <1>4 DEF WorkTrue, SheetTrue

\* The document of a version, or a new one.
LEMMA DocumentShape ==
  ASSUME StoryShapes, NEW v \in 0..Len(papers)
  PROVE  DocumentOf(v) \in Nat
<1>1. Len(papers) \in Nat
  BY DEF StoryShapes
<1>2. CASE v = 0
  BY <1>1, <1>2 DEF DocumentOf
<1>3. CASE v # 0
  <2>1. v \in Versions
    BY <1>1, <1>3 DEF Versions, StoryShapes
  <2> QED BY <1>3, <2>1, PaperShape DEF DocumentOf
<1> QED BY <1>2, <1>3

\* A saved draft is a version made of the heads that were read.
LEMMA SaveKeepsInv ==
  ASSUME StoryInv, NEW i \in Works, SaveAnswers(i)
  PROVE  StoryInv'
<1>1. works[i].kind = "save" /\ works[i] # NoWork
  <2>1. works[i].kind = "save"
    BY DEF SaveAnswers
  <2> QED BY <2>1 DEF NoWork
<1>2. PICK w \in StoryWorks : w = works[i] /\ WorkTrue(w)
  BY <1>1, WorkShape
<1>3. /\ w.key[1] \in Chapters /\ w.key[2] \in Stages /\ w.key[3] \in 0..Len(papers)
      /\ w.read \in Sheets /\ w.read.text \in Nat /\ w.read.text <= texts
      /\ ReviewTrue(w.read.review) /\ w.inherits \subseteq 1..Len(papers)
      /\ StoryShapes /\ Len(papers) \in Nat /\ texts \in Nat
      /\ \A u \in Stages : w.heads[u] \in 0..Len(papers)
  BY <1>1, <1>2, WorkParts
<1> DEFINE c == w.key[1]
           s == w.key[2]
           parent == w.key[3]
           branch == w.read.mode = "preserve"
           review == IF ReviewValid(w.read) THEN w.read.review ELSE NoReview
           above == ({w.heads[u] : u \in Upstream(s)} \ {0})
                    \cup (IF s = AnchorStage THEN w.inherits ELSE {})
           parents == IF branch THEN papers[parent].parents ELSE above
           bound == IF s = Check /\ ~branch THEN Bindings(w.heads) ELSE {}
           p == [home |-> c, stage |-> s, document |-> DocumentOf(parent),
                 text |-> w.read.text, asks |-> w.read.asks, review |-> review,
                 branch |-> branch, parents |-> parents, bound |-> bound]
           mode == IF branch THEN "view" ELSE "current"
           d == [w.read EXCEPT !.review = review, !.mode = mode]
<1>4. CASE Refused(i)
  BY <1>4, EndKeepsInv
<1>5. CASE /\ AddPaper(p) /\ Succeed(c, s, parent, d) /\ works' = Race(i, NoWork)
           /\ UNCHANGED <<texts, vetted, clicks>>
  <2>1. review \in Reviews /\ ReviewTrue(review)
    BY <1>3, NoReviewShape DEF Sheets, ReviewTrue
  <2>2. \A u \in Upstream(s) : u \in Stages /\ w.heads[u] \in 0..Len(papers)
    BY <1>3, StoryboardAssumption DEF Upstream, Stages
  <2>3. parents \subseteq 1..Len(papers)
    <3>1. CASE branch
      <4>1. parent # 0
        BY <1>2, <3>1 DEF WorkTrue, SheetTrue
      <4>2. parent \in Versions /\ parent \in 1..Len(papers)
        BY <1>3, <4>1 DEF Versions, StoryShapes
      <4>3. PaperTrue(parent)
        BY <4>2 DEF StoryInv
      <4>4. papers[parent].parents \subseteq 1..(parent - 1)
        BY <4>3 DEF PaperTrue
      <4> QED BY <1>3, <3>1, <4>2, <4>4
    <3>2. CASE ~branch
      <4>1. \A n \in (0..Len(papers)) \ {0} : n \in 1..Len(papers)
        BY <1>3
      <4> QED BY <1>3, <2>2, <3>2, <4>1
    <3> QED BY <3>1, <3>2
  <2>4. \A b \in bound : Sound(b) /\ b \in Nat
    <3>1. CASE s = Check /\ ~branch
      <4>1. s # Source
        BY <3>1, StoryboardAssumption DEF Check, Source
      <4>2. \A u \in Upstream(s) : Sound(w.heads[u]) /\ w.heads[u] \in Nat
        BY <1>1, <1>2, <1>3, <2>2, <3>1, <4>1 DEF WorkTrue
      <4> QED BY <3>1, <4>2 DEF Bindings
    <3>2. CASE ~(s = Check /\ ~branch)
      BY <3>2
    <3> QED BY <3>1, <3>2
  <2>5. DocumentOf(parent) \in Nat
    BY <1>3, DocumentShape
  <2>6. ~branch \/ \E u \in Versions : papers[u].document = DocumentOf(parent) /\ ~papers[u].branch
    <3>1. ASSUME branch
          PROVE  \E u \in Versions : papers[u].document = DocumentOf(parent) /\ ~papers[u].branch
      <4>1. parent # 0
        BY <1>2, <3>1 DEF WorkTrue, SheetTrue
      <4>2. parent \in Versions
        BY <1>3, <4>1 DEF Versions, StoryShapes
      <4>3. PaperTrue(parent)
        BY <4>2 DEF StoryInv
      <4> QED BY <4>1, <4>3 DEF PaperTrue, DocumentOf
    <3> QED BY <3>1
  <2>7. /\ w.read.text \in 1..texts
    BY <1>1, <1>2, <1>3 DEF WorkTrue
  <2>8. parents \in SUBSET Nat /\ bound \in SUBSET Nat
    <3> HIDE DEF parents, bound
    <3> QED BY <1>3, <2>3, <2>4
  <2>9. w.read.asks \in BOOLEAN /\ branch \in BOOLEAN /\ mode \in SheetModes
    BY <1>3 DEF Sheets, SheetModes
  <2> HIDE DEF parents, bound, review, branch, mode
  <2>10. p \in Papers /\ p.text = w.read.text /\ p.parents = parents /\ p.review = review
         /\ p.bound = bound /\ p.branch = branch /\ p.document = DocumentOf(parent)
    BY <1>3, <2>1, <2>5, <2>7, <2>8, <2>9 DEF Papers
  <2>11. d \in Sheets /\ d.text = w.read.text /\ d.review = review
    BY <1>3, <2>1, <2>9 DEF Sheets
  <2> HIDE DEF p, d
  <2> QED BY <1>3, <1>5, <2>1, <2>3, <2>4, <2>6, <2>7, <2>10, <2>11, SaveStep
<1>6. \/ Refused(i)
      \/ /\ AddPaper(p) /\ Succeed(c, s, parent, d) /\ works' = Race(i, NoWork)
         /\ UNCHANGED <<texts, vetted, clicks>>
  BY <1>2 DEF SaveAnswers
<1> QED BY <1>4, <1>5, <1>6

\* The cascade's next version is made of those it saved before and of the heads it
\* read, and it has passed.
LEMMA OptimizeKeepsInv ==
  ASSUME StoryInv, NEW i \in Works, OptimizeSaves(i)
  PROVE  StoryInv'
<1>1. works[i].kind = "optimize" /\ works[i].writing /\ works[i] # NoWork
  <2>1. works[i].kind = "optimize" /\ works[i].writing
    BY DEF OptimizeSaves
  <2> QED BY <2>1 DEF NoWork
<1>2. PICK w \in StoryWorks : w = works[i] /\ WorkTrue(w)
  BY <1>1, WorkShape
<1>3. /\ w.key[1] \in Chapters /\ w.key[2] \in Stages /\ w.key[3] \in 0..Len(papers)
      /\ w.inherits \subseteq 1..Len(papers)
      /\ StoryShapes /\ Len(papers) \in Nat /\ texts \in Nat
      /\ \A u \in Stages : w.heads[u] \in 0..Len(papers)
  BY <1>1, <1>2, WorkParts
<1>4. PICK s : s = Min(Unsaved(w))
  OBVIOUS
<1>5. Cascade(w) \subseteq Stages /\ Unsaved(w) \in SUBSET Nat /\ Unsaved(w) # {}
  BY <1>1, <1>2, <1>3, StoryboardAssumption DEF Cascade, Unsaved, Stages, WorkTrue
<1>6. s \in Unsaved(w) /\ \A u \in Unsaved(w) : s <= u
  BY <1>4, <1>5, MinIsLeast
<1>7. s \in Stages /\ s \in Cascade(w) /\ w.saved[s] = 0
  BY <1>5, <1>6 DEF Unsaved
<1> DEFINE c == w.key[1]
           parent == IF s = w.key[2] THEN w.key[3] ELSE w.heads[s]
           now == Now(w)
           text == NewText(w, s)
           review == Judged(text, TRUE)
           parents == MadeOf(w, s)
           bound == IF s = Check THEN Bindings(now) ELSE {}
           p == [home |-> c, stage |-> s, document |-> DocumentOf(parent), text |-> text,
                 asks |-> TRUE, review |-> review, branch |-> FALSE, parents |-> parents,
                 bound |-> bound]
           d == [text |-> text, asks |-> TRUE, review |-> review, mode |-> "current"]
           after == [w EXCEPT !.saved[s] = Len(papers) + 1]
           x == IF Unsaved(after) = {} THEN NoWork ELSE after
<1>8. CASE Refused(i)
  BY <1>8, EndKeepsInv
<1>9. CASE /\ AddPaper(p) /\ Succeed(c, s, parent, d) /\ works' = Race(i, x)
           /\ UNCHANGED <<texts, vetted, clicks>>
  <2>1. text \in vetted /\ text \in 1..texts /\ text \in Nat
    BY <1>1, <1>2, <1>3, <1>7 DEF WorkTrue, StoryShapes
  <2>2. \A u \in Upstream(s) : u \in Stages /\ u \in Nat /\ u < s
    BY <1>7, StoryboardAssumption DEF Upstream, Stages
  <2>3. \A u \in Stages : w.saved[u] \in Nat /\ (w.saved[u] = 0 \/ Sound(w.saved[u]))
    BY <1>2 DEF WorkTrue, StoryWorks
  <2>4. \A u \in Upstream(s) : now[u] \in 0..Len(papers) /\ (now[u] = 0 \/ Sound(now[u]))
    <3> SUFFICES ASSUME NEW u \in Upstream(s)
                 PROVE  now[u] \in 0..Len(papers) /\ (now[u] = 0 \/ Sound(now[u]))
      OBVIOUS
    <3>1. CASE w.saved[u] # 0
      <4>1. now[u] = w.saved[u] /\ Sound(w.saved[u]) /\ w.saved[u] \in Nat
        BY <2>2, <2>3, <3>1 DEF Now
      <4> QED BY <1>3, <4>1 DEF Sound, Versions, StoryShapes
    <3>2. CASE w.saved[u] = 0
      <4>1. now[u] = w.heads[u] /\ w.heads[u] \in 0..Len(papers)
        BY <1>3, <2>2, <3>2 DEF Now
      <4>2. u \notin Cascade(w)
        BY <1>6, <2>2, <1>5, <1>7, <3>2 DEF Unsaved, Stages
      <4>3. u < w.key[2] \/ w.heads[u] = 0
        BY <1>3, <2>2, <4>2, StoryboardAssumption DEF Cascade, Stages
      <4>4. ASSUME u < w.key[2] PROVE Sound(w.heads[u])
        <5>1. u \in Upstream(w.key[2])
          BY <1>3, <2>2, <4>4 DEF Upstream, Stages
        <5> QED BY <1>1, <1>2, <5>1 DEF WorkTrue
      <4> QED BY <4>1, <4>3, <4>4
    <3> QED BY <3>1, <3>2
  <2>5. parents \subseteq 1..Len(papers)
    <3>1. \A n \in (0..Len(papers)) \ {0} : n \in 1..Len(papers)
      BY <1>3
    <3>2. \A u \in Upstream(s) : w.heads[u] # 0 => now[u] # 0
      BY <2>2 DEF Now
    <3> QED BY <1>3, <2>4, <3>1, <3>2 DEF MadeOf
  <2> HIDE DEF now
  <2>6. \A b \in bound : b \in Nat /\ (b = 0 \/ Sound(b))
    BY <2>4, <1>3 DEF Bindings
  <2>7. parent \in 0..Len(papers)
    BY <1>3, <1>7
  <2>8. DocumentOf(parent) \in Nat
    BY <1>3, <2>7, DocumentShape
  <2>9. review \in Reviews /\ ReviewTrue(review) /\ review.passed /\ review.of = text
    BY <2>1 DEF Judged, Reviews, ReviewTrue
  <2>10. parents \in SUBSET Nat /\ bound \in SUBSET Nat
    <3> HIDE DEF parents, bound
    <3> QED BY <1>3, <2>5, <2>6
  <2> HIDE DEF parents, bound, review, text, parent
  <2>11. p \in Papers /\ p.text = text /\ p.parents = parents /\ p.review = review
         /\ p.bound = bound /\ ~p.branch
    BY <1>3, <1>7, <2>1, <2>8, <2>9, <2>10 DEF Papers
  <2>12. d \in Sheets /\ d.text = text /\ d.review = review
    BY <2>1, <2>9 DEF Sheets, SheetModes
  <2> HIDE DEF p, d
  <2>13. PICK n \in Nat : n = Len(papers) + 1
    BY <1>3
  <2>14. PICK a \in StoryWorks : /\ a = after /\ a.kind = w.kind /\ a.key = w.key
                                 /\ a.read = w.read /\ a.writing = w.writing
                                 /\ a.heads = w.heads /\ a.inherits = w.inherits
                                 /\ a.first = w.first /\ a.saved = [w.saved EXCEPT ![s] = n]
    <3>1. PICK saved \in [Stages -> Nat] : saved = [w.saved EXCEPT ![s] = n]
      BY <1>7, <2>13 DEF StoryWorks
    <3>2. after = [w EXCEPT !.saved = saved]
      BY <2>13, <3>1
    <3>3. [w EXCEPT !.saved = saved] \in StoryWorks
      BY DEF StoryWorks
    <3> QED BY <3>1, <3>2, <3>3 DEF StoryWorks
  <2>15. x = NoWork \/ (x = a /\ Unsaved(a) # {})
    BY <2>14
  <2> HIDE DEF x, after
  <2>16. ASSUME StoryShapes', Unsaved(a) # {} PROVE WorkTrue(a)'
    <3>1. papers' = Append(papers, p) /\ texts <= texts' /\ vetted \subseteq vetted'
      BY <1>3, <1>9 DEF AddPaper
    <3>2. Grows /\ papers'[n] = p /\ n \in Versions'
      BY <1>3, <2>11, <2>13, <3>1, AddGrows
    <3>3. WorkTrue(w)'
      BY <1>2, <1>3, <2>16, <3>2, GrowsKeeps
    <3>4. Sound(n)'
      BY <2>9, <2>11, <3>2 DEF Sound, Passed
    <3>5. \A u \in Stages : a.saved[u] = 0 \/ Sound(a.saved[u])'
      <4>1. \A u \in Stages : a.saved[u] = IF u = s THEN n ELSE w.saved[u]
        BY <2>14 DEF StoryWorks
      <4>2. \A u \in Stages : w.saved[u] = 0 \/ Sound(w.saved[u])'
        BY <3>3 DEF WorkTrue
      <4> TAKE u \in Stages
      <4>3. CASE u = s
        BY <3>4, <4>1, <4>3
      <4>4. CASE u # s
        BY <4>1, <4>2, <4>4
      <4> QED BY <4>3, <4>4
    <3>6. Cascade(a) = Cascade(w) /\ \A u : NewText(a, u) = NewText(w, u)
      BY <2>14 DEF Cascade, NewText
    <3> QED BY <1>1, <1>2, <2>14, <2>16, <3>3, <3>5, <3>6 DEF WorkTrue
  <2>17. PICK y : y = x
    OBVIOUS
  <2>18. y = NoWork \/ (y = a /\ Unsaved(a) # {})
    BY <2>15, <2>17
  <2>19. StoryShapes' => y = NoWork \/ WorkTrue(y)'
    BY <2>16, <2>18
  <2>20. (y = NoWork \/ y \in StoryWorks) /\ works' = Race(i, y)
    BY <1>9, <2>17, <2>18
  <2>21. /\ p.text \in 1..texts /\ p.parents \subseteq 1..Len(papers) /\ ReviewTrue(p.review)
         /\ \A b \in p.bound : b = 0 \/ Sound(b)
         /\ d.text <= texts /\ ReviewTrue(d.review)
    BY <1>3, <2>1, <2>5, <2>6, <2>9, <2>11, <2>12
  <2>22. /\ AddPaper(p) /\ Succeed(c, s, parent, d) /\ UNCHANGED <<texts, vetted, clicks>>
         /\ c \in Chapters /\ p \in Papers /\ ~p.branch /\ d \in Sheets
    BY <1>3, <1>9, <2>11, <2>12
  <2> QED BY <1>7, <2>19, <2>20, <2>21, <2>22, SaveStep
<1>10. \/ Refused(i)
       \/ /\ AddPaper(p) /\ Succeed(c, s, parent, d) /\ works' = Race(i, x)
          /\ UNCHANGED <<texts, vetted, clicks>>
  BY <1>2, <1>4 DEF OptimizeSaves
<1> QED BY <1>8, <1>9, <1>10

\* The library's version is made of what its document's head was made of.
LEMMA LibraryKeepsInv ==
  ASSUME StoryInv, LibrarySave
  PROVE  StoryInv'
<1>1. PICK v \in Versions :
        /\ papers' = Append(papers, [papers[DocumentHead(papers[v].document)] EXCEPT
                                       !.home = 0, !.text = texts + 1, !.asks = FALSE,
                                       !.review = NoReview, !.bound = {}])
        /\ works' = [i \in Works |-> IF works[i] = NoWork THEN NoWork
                                     ELSE [works[i] EXCEPT !.raced = TRUE, !.shown = FALSE]]
  BY DEF LibrarySave, AddPaper
<1>2. texts' = texts + 1 /\ UNCHANGED <<sheets, desk, vetted>> /\ clicks' = clicks + 1
  BY DEF LibrarySave, Spend
<1>3. /\ StoryShapes /\ ChosenExist /\ texts \in Nat /\ Len(papers) \in Nat /\ clicks \in Nat
      /\ Versions = 1..Len(papers) /\ vetted \subseteq 1..texts
  BY DEF StoryInv, StoryShapes, Versions
<1>4. PICK u \in Versions : papers[u].document = papers[v].document /\ ~papers[u].branch
  BY DEF StoryInv, PaperTrue
<1>5. PICK head \in Versions : head = DocumentHead(papers[v].document) /\ ~papers[head].branch
  BY <1>3, <1>4, HeadIsThere
<1>6. papers[head] \in Papers /\ PaperTrue(head)
  BY <1>3, PaperShape DEF StoryInv
<1>7. PICK p : p = [papers[head] EXCEPT !.home = 0, !.text = texts + 1, !.asks = FALSE,
                                        !.review = NoReview, !.bound = {}]
  OBVIOUS
<1>8. /\ p \in Papers /\ p.text = texts + 1 /\ p.review = NoReview /\ p.bound = {} /\ ~p.branch
      /\ p.parents = papers[head].parents
  <2>1. PICK q \in Papers : q = papers[head]
    BY <1>6
  <2>2. p = [home |-> 0, stage |-> q.stage, document |-> q.document, text |-> texts + 1,
             asks |-> FALSE, review |-> NoReview, branch |-> q.branch, parents |-> q.parents,
             bound |-> {}]
    BY <1>7, <2>1 DEF Papers
  <2>3. texts + 1 \in Nat /\ ~q.branch
    BY <1>3, <1>5, <2>1
  <2> QED BY <2>1, <2>2, <2>3, NoReviewShape DEF Papers
<1>9. /\ papers' = Append(papers, p) /\ texts' \in Nat /\ texts <= texts'
      /\ vetted \subseteq vetted' /\ vetted' \subseteq 1..texts' /\ p.text \in 1..texts'
  <2>1. papers' = Append(papers, p)
    BY <1>1, <1>5, <1>7
  <2>2. /\ texts' \in Nat /\ texts <= texts' /\ p.text \in 1..texts'
        /\ 1..texts \subseteq 1..texts'
    BY <1>2, <1>3, <1>8
  <2> QED BY <1>2, <1>3, <2>1, <2>2
<1>10. /\ Grows /\ papers' \in Seq(Papers) /\ Len(papers') = Len(papers) + 1
      /\ Versions' = Versions \cup {Len(papers) + 1}
  BY <1>3, <1>8, <1>9, AddGrows
<1>11. ASSUME NEW i \in Works, NEW w, works'[i] = w
       PROVE  w = NoWork \/ (w \in StoryWorks /\ WorkTrue(w))
  <2>1. CASE works[i] = NoWork
    BY <1>1, <1>11, <2>1
  <2>2. CASE works[i] # NoWork
    <3>1. PICK y \in StoryWorks : y = works[i] /\ WorkTrue(y)
      BY <2>2, WorkShape
    <3>2. w = [y EXCEPT !.shown = FALSE, !.raced = TRUE]
      BY <1>1, <1>11, <2>2, <3>1 DEF StoryWorks
    <3> QED BY <3>1, <3>2, AlikeWork
  <2> QED BY <2>1, <2>2
<1>12. works' \in [Works -> StoryWorks \cup {NoWork}]
  <2>1. \A i \in Works : works'[i] \in StoryWorks \cup {NoWork}
    BY <1>11
  <2> QED BY <1>1, <2>1
<1>13. StoryShapes'
  <2>1. clicks' \in Nat /\ UNCHANGED <<sheets, desk>>
    BY <1>3, <1>2
  <2> QED BY <1>3, <1>9, <1>10, <1>12, <2>1 DEF StoryShapes
<1>14. ChosenExist'
  <2> SUFFICES ASSUME NEW c \in Chapters, NEW s \in Stages
               PROVE  desk.chosen[c][s] <= Len(papers')
    BY <1>2 DEF ChosenExist
  <2>1. desk.chosen[c][s] \in Nat
    BY <1>3 DEF StoryShapes, Desks
  <2> QED BY <1>3, <1>10, <2>1 DEF ChosenExist
<1>15. PICK n : n = Len(papers) + 1
  OBVIOUS
<1>16. p.parents \subseteq 1..Len(papers)
  <2>1. p.parents \subseteq 1..(head - 1) /\ head \in 1..Len(papers)
    BY <1>3, <1>6, <1>8 DEF PaperTrue
  <2> QED BY <1>3, <2>1
<1>17. ReviewTrue(p.review)
  BY <1>8, NoReviewShape DEF ReviewTrue
<1>18. PaperTrue(n)'
  BY <1>3, <1>8, <1>9, <1>13, <1>15, <1>16, <1>17, AddedIsTrue
<1>19. \A y \in Versions' \ Versions : PaperTrue(y)'
  BY <1>10, <1>15, <1>18
<1>20. \A k, d : k \in DOMAIN sheets' /\ sheets'[k] = d => (k \in DOMAIN sheets /\ sheets[k] = d)
  BY <1>2
<1>21. \A w : \A i \in Works : works'[i] = w => w = NoWork \/ (w \in StoryWorks /\ WorkTrue(w))
  BY <1>11
<1> QED BY <1>10, <1>13, <1>14, <1>19, <1>20, <1>21, StepByParts

---------------------------------------------------------------------------
(* The chain the session may open on.                                      *)

\* The chapter and the stage of the n-th document, counted from nothing.
LEMMA Position ==
  ASSUME NEW n \in Nat, NEW k \in Nat \ {0}
  PROVE  n \div k \in Nat /\ n % k \in 0..(k - 1) /\ n = k * (n \div k) + (n % k)
  OBVIOUS

\* Multiples of a number are apart by the number.
LEMMA ProductsGrow ==
  ASSUME NEW k \in Nat, NEW m \in Nat, NEW n \in Nat, m <= n
  PROVE  k * m \in Nat /\ k * m <= k * n /\ (m < n => k * m + k <= k * n)
<1>1. PICK j \in Nat : n = m + j
  <2>1. n - m \in Nat /\ n = m + (n - m)
    OBVIOUS
  <2> QED BY <2>1
<1>2. k * n = k * m + k * j /\ k * m \in Nat /\ k * j \in Nat
  BY <1>1
<1>3. ASSUME m < n PROVE k <= k * j
  <2>1. PICK i \in Nat : j = i + 1
    <3>1. j - 1 \in Nat /\ j = (j - 1) + 1
      BY <1>1, <1>3
    <3> QED BY <3>1
  <2>2. k * j = k * i + k /\ k * i \in Nat
    BY <2>1
  <2> QED BY <2>2
<1> QED BY <1>2, <1>3

\* A number has one quotient and one remainder.
LEMMA PositionIs ==
  ASSUME NEW k \in Nat \ {0}, NEW m \in Nat, NEW r \in 0..(k - 1)
  PROVE  (k * m + r) \div k = m /\ (k * m + r) % k = r
<1>1. PICK n \in Nat, x \in Nat : x = k * m /\ n = x + r
  <2>1. k * m \in Nat
    OBVIOUS
  <2> QED BY <2>1
<1>2. PICK q \in Nat, t \in 0..(k - 1) : q = n \div k /\ t = n % k /\ n = k * q + t
  BY Position
<1>3. PICK y \in Nat : y = k * q
  OBVIOUS
<1>4. n = y + t
  BY <1>2, <1>3
<1>5. ~(q < m)
  <2> SUFFICES ASSUME q < m PROVE FALSE
    OBVIOUS
  <2>1. y + k <= x
    BY <1>1, <1>3, ProductsGrow
  <2> QED BY <1>1, <1>4, <2>1
<1>6. ~(m < q)
  <2> SUFFICES ASSUME m < q PROVE FALSE
    OBVIOUS
  <2>1. x + k <= y
    BY <1>1, <1>3, ProductsGrow
  <2> QED BY <1>1, <1>4, <2>1
<1>7. q = m /\ y = x
  BY <1>1, <1>3, <1>5, <1>6
<1>8. t = r
  BY <1>1, <1>4, <1>7
<1> QED BY <1>1, <1>2, <1>7, <1>8

\* The documents of a finished chain: each is named by its text, made of earlier
\* ones, and passed unless it is a source; every stage of every chapter has one.
LEMMA ChainShape ==
  /\ Chain \in Seq(Papers) /\ Len(Chain) \in Nat
  /\ \A v \in 1..Len(Chain) :
       /\ Chain[v].text = v /\ ~Chain[v].branch
       /\ Chain[v].parents \subseteq 1..(v - 1) /\ Chain[v].bound \subseteq 1..Len(Chain)
       /\ Chain[v].review = IF Chain[v].stage = Source THEN NoReview ELSE Judged(v, TRUE)
  /\ \A c \in Chapters, s \in Stages :
       \E v \in 1..Len(Chain) : Chain[v].home = c /\ Chain[v].stage = s
<1> DEFINE At(c, s) == 1 + (c - 1) * StageCount + s
           First == [home |-> 1, stage |-> Source, document |-> 1, text |-> 1, asks |-> FALSE,
                     review |-> NoReview, branch |-> FALSE, parents |-> {}, bound |-> {}]
           total == ChapterCount * StageCount
           chapter(n) == 1 + (n - 1) \div StageCount
           stage(n) == 1 + ((n - 1) % StageCount)
           review(n) == IF stage(n) = Source THEN NoReview ELSE Judged(n + 1, TRUE)
           parents(n) == {At(chapter(n), u) : u \in Upstream(stage(n))}
                         \cup (IF stage(n) = AnchorStage
                               THEN {At(e, stage(n)) : e \in {e \in 1..(chapter(n) - 1) :
                                                              chapter(n) - e <= Nearest}}
                               ELSE {})
           bound(n) == IF stage(n) = Check
                       THEN {At(chapter(n), u) : u \in Upstream(stage(n))} ELSE {}
           rest == [n \in 1..total |->
                      [First EXCEPT
                         !.home = chapter(n), !.stage = stage(n),
                         !.document = IF n = 1 THEN 1 ELSE n + 1, !.text = n + 1,
                         !.review = review(n), !.parents = parents(n), !.bound = bound(n)]]
<1>1. /\ ChapterCount \in Nat \ {0} /\ StageCount \in Nat \ {0} /\ total \in Nat
      /\ Source \in Stages /\ Source = 1
  BY StoryboardAssumption DEF Stages, Source
<1>2. First \in Papers
  BY <1>1, NoReviewShape DEF Papers, Chapters
<1>3. ASSUME NEW n \in 1..total
      PROVE  /\ chapter(n) \in Chapters /\ stage(n) \in Stages
             /\ parents(n) \subseteq 1..n /\ bound(n) \subseteq 1..n
  <2>1. PICK q \in Nat, r \in 0..(StageCount - 1) :
          q = (n - 1) \div StageCount /\ r = (n - 1) % StageCount /\ n - 1 = StageCount * q + r
    <3>1. n - 1 \in Nat
      BY <1>1
    <3> QED BY <1>1, <3>1, Position
  <2>2. chapter(n) = q + 1 /\ stage(n) = r + 1
    BY <1>1, <2>1
  <2>3. StageCount * q \in Nat /\ total = StageCount * ChapterCount
    BY <1>1
  <2>4. q < ChapterCount
    <3> SUFFICES ASSUME ChapterCount <= q PROVE FALSE
      BY <1>1
    <3>1. StageCount * ChapterCount <= StageCount * q
      BY <1>1, ProductsGrow
    <3>2. n - 1 < total
      BY <1>1
    <3> HIDE DEF total
    <3> QED BY <1>1, <2>1, <2>3, <3>1, <3>2
  <2>5. chapter(n) \in Chapters /\ stage(n) \in Stages
    BY <1>1, <2>2, <2>4 DEF Chapters, Stages
  <2>6. ASSUME NEW u \in Upstream(stage(n)) PROVE At(chapter(n), u) \in 1..n
    <3>1. u \in 1..r
      BY <1>1, <2>1, <2>2, <2>6 DEF Upstream
    <3>2. At(chapter(n), u) = 1 + StageCount * q + u
      BY <1>1, <2>2
    <3> HIDE DEF At
    <3> QED BY <1>1, <2>1, <2>3, <3>1, <3>2
  <2>7. ASSUME NEW e \in 1..(chapter(n) - 1) PROVE At(e, stage(n)) \in 1..n
    <3>1. PICK m \in Nat : e = m + 1 /\ m < q
      <4>1. e - 1 \in Nat /\ e = (e - 1) + 1 /\ e - 1 < q
        BY <2>2, <2>7
      <4> QED BY <4>1
    <3>2. StageCount * m \in Nat /\ StageCount * m + StageCount <= StageCount * q
      BY <1>1, <3>1, ProductsGrow
    <3>3. At(e, stage(n)) = 1 + StageCount * m + stage(n)
      BY <1>1, <2>2, <3>1
    <3> HIDE DEF At
    <3> QED BY <1>1, <2>1, <2>2, <2>3, <3>2, <3>3
  <2> HIDE DEF At, chapter, stage
  <2> QED BY <2>5, <2>6, <2>7
<1>10. ASSUME NEW c \in Chapters, NEW s \in Stages
       PROVE  \E n \in 1..total : chapter(n) = c /\ stage(n) = s
  <2>1. PICK q \in Nat, r \in 0..(StageCount - 1) : c = q + 1 /\ s = r + 1
    <3>1. c - 1 \in Nat /\ s - 1 \in 0..(StageCount - 1) /\ c = (c - 1) + 1 /\ s = (s - 1) + 1
      BY <1>1 DEF Chapters, Stages
    <3> QED BY <3>1
  <2>2. PICK x \in Nat : x = StageCount * q
    BY <1>1
  <2>3. x + StageCount <= total
    <3>1. q < ChapterCount /\ q <= ChapterCount
      BY <1>1, <2>1 DEF Chapters
    <3>2. StageCount * q + StageCount <= StageCount * ChapterCount
      BY <1>1, <3>1, ProductsGrow
    <3>3. StageCount * ChapterCount = total
      BY <1>1
    <3> HIDE DEF total
    <3> QED BY <1>1, <2>2, <3>2, <3>3
  <2>4. PICK n \in Nat : n = x + r + 1
    BY <2>2
  <2>5. n \in 1..total /\ n - 1 = x + r
    <3> HIDE DEF total
    <3> QED BY <1>1, <2>1, <2>2, <2>3, <2>4
  <2>6. (n - 1) \div StageCount = q /\ (n - 1) % StageCount = r
    BY <1>1, <2>2, <2>5, PositionIs
  <2>7. chapter(n) = c /\ stage(n) = s
    BY <1>1, <2>1, <2>6
  <2> HIDE DEF chapter, stage, total
  <2> QED BY <2>5, <2>7
<1> HIDE DEF At, chapter, stage, parents, bound, total
<1>4. ASSUME NEW n \in 1..total
      PROVE  /\ rest[n] \in Papers /\ rest[n].text = n + 1 /\ ~rest[n].branch
             /\ rest[n].parents = parents(n) /\ rest[n].bound = bound(n)
             /\ rest[n].review = review(n) /\ rest[n].stage = stage(n)
             /\ rest[n].home = chapter(n)
  <2>1. n \in Nat /\ (IF n = 1 THEN 1 ELSE n + 1) \in Nat
    BY <1>1
  <2>2. review(n) \in Reviews
    BY <2>1, NoReviewShape DEF Judged, Reviews
  <2>3. parents(n) \in SUBSET Nat /\ bound(n) \in SUBSET Nat
    BY <1>3, <2>1
  <2> HIDE DEF review
  <2>4. PICK document \in Nat : document = IF n = 1 THEN 1 ELSE n + 1
    BY <2>1
  <2>5. rest[n] = [home |-> chapter(n), stage |-> stage(n), document |-> document,
                   text |-> n + 1, asks |-> FALSE, review |-> review(n), branch |-> FALSE,
                   parents |-> parents(n), bound |-> bound(n)]
    BY <2>4
  <2>6. n + 1 \in Nat
    BY <2>1
  <2> HIDE DEF rest, First
  <2>7. PICK x : x = rest[n]
    OBVIOUS
  <2>8. /\ x.home = chapter(n) /\ x.stage = stage(n) /\ x.document = document
        /\ x.text = n + 1 /\ x.asks = FALSE /\ x.review = review(n) /\ x.branch = FALSE
        /\ x.parents = parents(n) /\ x.bound = bound(n)
    BY <2>5, <2>7
  <2>9. x \in Papers
    BY <1>3, <2>2, <2>3, <2>5, <2>6, <2>7 DEF Papers
  <2> QED BY <2>7, <2>8, <2>9
<1>5. rest \in Seq(Papers) /\ Len(rest) = total
  <2>1. DOMAIN rest = 1..total /\ rest = [n \in 1..total |-> rest[n]]
    OBVIOUS
  <2> HIDE DEF rest
  <2>2. rest \in [1..total -> Papers]
    BY <1>4, <2>1
  <2> QED BY <1>1, <2>1, <2>2
<1>6. Chain = <<First>> \o rest
  BY DEF Chain, At, chapter, stage, parents, bound, total
<1> HIDE DEF rest
<1>7. /\ Chain \in Seq(Papers) /\ Len(Chain) = total + 1 /\ Chain[1] = First
      /\ \A n \in 1..total : Chain[n + 1] = rest[n]
  <2> HIDE DEF First
  <2>1. <<First>> \in Seq(Papers) /\ Len(<<First>>) = 1 /\ <<First>>[1] = First
    BY <1>2
  <2> QED BY <1>1, <1>5, <1>6, <2>1, ConcatProperties
<1>8. \A v \in 1..Len(Chain) :
        /\ Chain[v].text = v /\ ~Chain[v].branch
        /\ Chain[v].parents \subseteq 1..(v - 1) /\ Chain[v].bound \subseteq 1..Len(Chain)
        /\ Chain[v].review = IF Chain[v].stage = Source THEN NoReview ELSE Judged(v, TRUE)
  <2> TAKE v \in 1..Len(Chain)
  <2>1. CASE v = 1
    <3>1. /\ Chain[1].text = 1 /\ ~Chain[1].branch /\ Chain[1].parents = {}
          /\ Chain[1].bound = {} /\ Chain[1].review = NoReview /\ Chain[1].stage = Source
      BY <1>7
    <3> QED BY <2>1, <3>1
  <2> HIDE DEF First
  <2>2. CASE v # 1
    <3>1. PICK n \in 1..total : v = n + 1
      <4>1. v - 1 \in 1..total /\ v = (v - 1) + 1
        BY <1>1, <1>7, <2>2
      <4> QED BY <4>1
    <3>2. Chain[v] = rest[n] /\ v - 1 = n /\ 1..n \subseteq 1..Len(Chain)
      BY <1>1, <1>7, <3>1
    <3> QED BY <1>3, <1>4, <3>1, <3>2
  <2> QED BY <2>1, <2>2
<1> HIDE DEF First, review
<1>9. Chain \in Seq(Papers) /\ Len(Chain) \in Nat
  BY <1>1, <1>7
<1>11. ASSUME NEW c \in Chapters, NEW s \in Stages
       PROVE  \E v \in 1..Len(Chain) : Chain[v].home = c /\ Chain[v].stage = s
  <2>1. PICK n \in 1..total : chapter(n) = c /\ stage(n) = s
    BY <1>10
  <2>2. Chain[n + 1].home = c /\ Chain[n + 1].stage = s
    BY <1>4, <1>7, <2>1
  <2>3. n + 1 \in 1..Len(Chain)
    BY <1>1, <1>7
  <2> QED BY <2>2, <2>3
<1> QED BY <1>8, <1>9, <1>11

\* The session opens in the invariant.
LEMMA InitStoryInv == StoryInit /\ WindowInit => StoryInv
<1> SUFFICES ASSUME StoryInit, WindowInit PROVE StoryInv
  OBVIOUS
<1>1. /\ papers \in {<<>>, Chain} /\ sheets = <<>> /\ works = [i \in Works |-> NoWork]
      /\ desk = [chapter |-> 1, stage |-> Source,
                 chosen |-> [c \in Chapters |-> [s \in Stages |-> 0]]]
      /\ texts = Len(papers) /\ vetted = {v \in Versions : papers[v].stage # Source}
      /\ clicks = 0
  BY DEF StoryInit, WindowInit
<1>2. /\ papers \in Seq(Papers) /\ Len(papers) \in Nat
      /\ \A v \in 1..Len(papers) :
           /\ papers[v].text = v /\ ~papers[v].branch
           /\ papers[v].parents \subseteq 1..(v - 1) /\ papers[v].bound \subseteq 1..Len(papers)
           /\ papers[v].review = IF papers[v].stage = Source THEN NoReview ELSE Judged(v, TRUE)
  <2>1. CASE papers = <<>>
    BY <2>1
  <2>2. CASE papers = Chain
    BY <2>2, ChainShape
  <2> QED BY <1>1, <2>1, <2>2
<1>3. Versions = 1..Len(papers)
  BY <1>2 DEF Versions
<1>4. DOMAIN sheets = {}
  BY <1>1
<1>5. desk \in Desks
  <2>1. 1 \in Chapters /\ Source \in Stages
    BY StoryboardAssumption DEF Chapters, Stages, Source
  <2> QED BY <1>1, <2>1 DEF Desks
<1>6. works \in [Works -> StoryWorks \cup {NoWork}] /\ vetted \subseteq 1..texts
  BY <1>1, <1>3
<1>7. StoryShapes
  BY <1>1, <1>2, <1>4, <1>5, <1>6 DEF StoryShapes
<1>8. ChosenExist
  BY <1>1, <1>2 DEF ChosenExist
<1>9. ASSUME NEW v \in Versions PROVE PaperTrue(v)
  <2>1. \A b \in Versions : Sound(b)
    <3> TAKE b \in Versions
    <3>1. /\ papers[b].text = b
          /\ papers[b].stage # Source => papers[b].review = Judged(b, TRUE)
      BY <1>2, <1>3
    <3> QED BY <3>1 DEF Sound, Passed, Judged
  <2>2. ReviewTrue(papers[v].review)
    <3>1. CASE papers[v].stage = Source
      <4>1. papers[v].review = NoReview
        BY <1>2, <1>3, <3>1
      <4> QED BY <4>1 DEF ReviewTrue, NoReview
    <3>2. CASE papers[v].stage # Source
      <4>1. papers[v].review = Judged(v, TRUE) /\ v \in vetted
        BY <1>1, <1>2, <1>3, <3>2
      <4> QED BY <4>1 DEF ReviewTrue, Judged
    <3> QED BY <3>1, <3>2
  <2> QED BY <1>1, <1>2, <1>3, <2>1, <2>2 DEF PaperTrue
<1> QED BY <1>1, <1>4, <1>7, <1>8, <1>9 DEF StoryInv

---------------------------------------------------------------------------
(* The invariant, and what it is for.                                      *)

\* Every step keeps the invariant.
LEMMA NextStoryInv == StoryInv /\ [StoryNext]_storyVars => StoryInv'
<1> SUFFICES ASSUME StoryInv, [StoryNext]_storyVars PROVE StoryInv'
  OBVIOUS
<1>1. CASE Type \/ AskFor
  BY <1>1, TypeKeepsInv
<1>2. CASE OpenStage \/ OpenChapter \/ OpenVersion
  BY <1>2, OpeningKeepsInv
<1>3. CASE BeginHistorical
  BY <1>3, HistoricalKeepsInv
<1>4. CASE Discard
  BY <1>4, DiscardKeepsInv
<1>5. CASE PickChapter
  BY <1>5, PickKeepsInv
<1>6. CASE Remount
  BY <1>6, RemountKeepsInv
<1>7. CASE LibrarySave
  BY <1>7, LibraryKeepsInv
<1>8. CASE PressSave \/ PressGenerate \/ PressReview \/ PressOptimize
  BY <1>8, PressKeepsInv
<1>9. ASSUME NEW i \in Works, WorkFails(i) PROVE StoryInv'
  BY <1>9, EndKeepsInv
<1>10. ASSUME NEW i \in Works, GenerateAnswers(i) PROVE StoryInv'
  BY <1>10, GenerateKeepsInv
<1>11. ASSUME NEW i \in Works, ReviewAnswers(i) PROVE StoryInv'
  BY <1>11, ReviewKeepsInv
<1>12. ASSUME NEW i \in Works, SaveAnswers(i) PROVE StoryInv'
  BY <1>12, SaveKeepsInv
<1>13. ASSUME NEW i \in Works, OptimizePrepared(i) PROVE StoryInv'
  BY <1>13, PreparedKeepsInv
<1>14. ASSUME NEW i \in Works, OptimizeSaves(i) PROVE StoryInv'
  BY <1>14, OptimizeKeepsInv
<1>15. CASE UNCHANGED storyVars
  <2>1. UNCHANGED <<papers, sheets, desk, works, texts, vetted, clicks>>
    BY <1>15 DEF storyVars
  <2>2. clicks' \in Nat /\ works' \in [Works -> StoryWorks \cup {NoWork}]
    BY <2>1 DEF StoryInv, StoryShapes
  <2> QED BY <2>1, <2>2, WorksStep
<1> QED
  BY <1>1, <1>2, <1>3, <1>4, <1>5, <1>6, <1>7, <1>8, <1>9, <1>10, <1>11, <1>12, <1>13, <1>14,
     <1>15 DEF StoryNext

\* The invariant holds of every behaviour.
THEOREM StoryInvariant == StorySpec => []StoryInv
<1>1. StoryInit /\ WindowInit => StoryInv
  BY InitStoryInv
<1>2. StoryInv /\ [StoryNext]_storyVars => StoryInv'
  BY NextStoryInv
<1> QED BY <1>1, <1>2, PTL DEF StorySpec

\* The gate in front of the video form looks at the storyboard and at the quality
\* check only; whenever it is open, every document of the chain is current and its
\* very text passed a review (VideoMarkdownWorkspace.tsx), for any number of
\* chapters, stages, operations, races and failures.
THEOREM GatesAreTrue == StorySpec => []GateIsTrue
<1>1. StoryInv => GateIsTrue
  BY OpenGateIsTrue DEF GateIsTrue
<1> QED BY <1>1, StoryInvariant, PTL

\* Type correctness of the staged documents: what a version was made from was
\* there before it, and only texts there are have been reviewed.
THEOREM StoriesAreTyped == StorySpec => []StoryTypeOK
<1>1. StoryInv => StoryTypeOK
  <2> SUFFICES ASSUME StoryInv PROVE StoryTypeOK
    OBVIOUS
  <2>1. StoryShapes /\ \A v \in Versions : PaperTrue(v)
    BY DEF StoryInv
  <2>2. \A v \in Versions : papers[v].home \in {0} \cup Chapters /\ papers[v].stage \in Stages
    BY <2>1, PaperShape DEF Papers
  <2>3. \A k \in DOMAIN sheets : sheets[k].mode \in SheetModes
    BY <2>1 DEF StoryShapes, Sheets
  <2>4. desk.chapter \in Chapters /\ desk.stage \in Stages /\ vetted \subseteq 1..texts
    BY <2>1 DEF StoryShapes, Desks
  <2> QED BY <2>1, <2>2, <2>3, <2>4 DEF StoryTypeOK, PaperTrue, SheetModes
<1> QED BY <1>1, StoryInvariant, PTL

---------------------------------------------------------------------------
(* Cascades.                                                               *)

\* A document that is made of all those it depends on.
Fresh(c, s) ==
  Current(c, s) # 0 /\ (s = Source \/ Dependencies(c, s) \subseteq papers[Current(c, s)].parents)

\* ... and passed, if it must.
Done(c, s) == Fresh(c, s) /\ (s = Source \/ Passed(Current(c, s)))

\* A chain has no document without those above it.
NoGaps == \A c \in Chapters, s \in Stages :
            OfStage(c, s) # {} => \A u \in Upstream(s) : OfStage(c, u) # {}

\* The heads that were read are versions of their stages, without gaps.
HeadsInPlace(w) ==
  \A s \in Stages : w.heads[s] # 0 =>
     w.heads[s] \in OfStage(w.key[1], s) /\ \A u \in Upstream(s) : w.heads[u] # 0

\* What an optimization that nobody crosses finds and leaves: the heads are those it
\* takes for them, all is done above it and where it has saved, from the top down.
Settled(w) ==
  LET c == w.key[1] IN
  /\ \A s \in Stages : Current(c, s) = Now(w)[s]
  /\ Inherited(c) = w.inherits
  /\ \A u \in Upstream(w.key[2]) : Done(c, u)
  /\ \A s \in Stages : w.saved[s] # 0 =>
       /\ s \in Cascade(w) /\ \A u \in Cascade(w) : u < s => w.saved[u] # 0
       /\ Done(c, s)
       /\ s = Check => papers[w.saved[s]].bound = Bindings(Now(w))

WorkSettles(w) == HeadsInPlace(w) /\ (w.kind = "optimize" /\ ~w.raced => Settled(w))

AtWork == {works[i] : i \in Works} \ {NoWork}

SettleInv == StoryInv /\ NoGaps /\ \A w \in AtWork : WorkSettles(w)

---------------------------------------------------------------------------
(* Done documents.                                                         *)

\* A stage all of whose documents above are done is usable with its own.
LEMMA DoneIsUsable ==
  ASSUME NEW c, NEW s \in Stages, Done(c, s), \A u \in Upstream(s) : Done(c, u)
  PROVE  s \in UsableStages(c)
<1>1. \A u \in Upstream(s) : u \in Stages /\ Current(c, u) # 0 /\ ~Behind(c, u)
  BY UpstreamShape DEF Done, Fresh, Behind
<1>2. Current(c, s) # 0 /\ ~Behind(c, s)
  BY DEF Done, Fresh, Behind
<1>3. s \notin StaleStages(c)
  BY <1>1, <1>2, StaleIs
<1> QED BY <1>2, <1>3 DEF UsableStages, Done

\* A usable stage is done.
LEMMA UsableIsDone ==
  ASSUME NEW c, NEW s \in UsableStages(c)
  PROVE  Done(c, s)
<1>1. s \in Stages /\ Current(c, s) # 0 /\ s \notin StaleStages(c)
      /\ (s = Source \/ Passed(Current(c, s)))
  BY DEF UsableStages
<1>2. s = Source \/ ~Behind(c, s)
  BY <1>1, StaleIs
<1> QED BY <1>1, <1>2 DEF Done, Fresh, Behind

---------------------------------------------------------------------------
(* What a version that is added changes.                                   *)

\* Only the stage it is added to has another version in production.
LEMMA AddedInStage ==
  ASSUME StoryShapes, NEW p \in Papers, papers' = Append(papers, p),
         texts <= texts', vetted \subseteq vetted'
  PROVE  /\ \A d, t : OfStage(d, t) \subseteq OfStage(d, t)'
         /\ \A d, t : p.home # d \/ p.stage # t \/ p.branch =>
              OfStage(d, t)' = OfStage(d, t) /\ Current(d, t)' = Current(d, t)
         /\ ~p.branch => \A d, t : p.home = d /\ p.stage = t =>
              Len(papers) + 1 \in OfStage(d, t)' /\ Current(d, t)' = Len(papers) + 1
<1>1. PICK n \in Nat : n = Len(papers) + 1
  BY DEF StoryShapes
<1>2. /\ papers'[n] = p /\ Versions' = Versions \cup {n} /\ Grows
      /\ \A v \in Versions : papers'[v] = papers[v]
  BY <1>1, AddGrows DEF Grows
<1>3. \A v \in Versions : v # n /\ v <= n /\ v \in Nat
  BY <1>1 DEF Versions, StoryShapes
<1>4. \A d, t : OfStage(d, t)' = OfStage(d, t) \cup
                  (IF p.home = d /\ p.stage = t /\ ~p.branch THEN {n} ELSE {})
  <2> TAKE d, t
  <2>1. PICK new : new = IF p.home = d /\ p.stage = t /\ ~p.branch THEN {n} ELSE {}
    OBVIOUS
  <2>2. \A v \in Versions \cup {n} :
          papers'[v].home = d /\ papers'[v].stage = t /\ ~papers'[v].branch
            <=> v \in OfStage(d, t) \cup new
    BY <1>2, <1>3, <2>1 DEF OfStage
  <2>3. OfStage(d, t)' = {v \in Versions \cup {n} :
          papers'[v].home = d /\ papers'[v].stage = t /\ ~papers'[v].branch}
    BY <1>2 DEF OfStage
  <2>4. OfStage(d, t) \cup new \subseteq Versions \cup {n}
    BY <2>1 DEF OfStage
  <2> QED BY <2>1, <2>2, <2>3, <2>4
<1>5. ASSUME NEW d, NEW t, p.home # d \/ p.stage # t \/ p.branch
      PROVE  OfStage(d, t)' = OfStage(d, t) /\ Current(d, t)' = Current(d, t)
  <2>1. OfStage(d, t)' = OfStage(d, t)
    BY <1>4, <1>5
  <2> QED BY <2>1 DEF Current, LatestOf
<1>6. ASSUME ~p.branch, NEW d, NEW t, p.home = d, p.stage = t
      PROVE  n \in OfStage(d, t)' /\ Current(d, t)' = n
  <2>1. PICK S : S = OfStage(d, t)' /\ S = OfStage(d, t) \cup {n}
    BY <1>4, <1>6
  <2>2. n \in S /\ \A v \in S : v \in Nat /\ v <= n
    <3>1. \A v \in OfStage(d, t) : v \in Nat /\ v <= n
      BY <1>3 DEF OfStage
    <3>2. n \in Nat /\ n <= n
      OBVIOUS
    <3> QED BY <2>1, <3>1, <3>2
  <2>3. Max(S) = n
    <3>1. S \in SUBSET (0..n) /\ S # {}
      BY <2>2
    <3>2. PICK m : m = Max(S) /\ m \in S /\ \A v \in S : v <= m
      BY <3>1, MaxIsGreatest
    <3>3. m \in Nat /\ m <= n /\ n <= m
      BY <2>2, <3>2
    <3> QED BY <3>2, <3>3
  <2>4. Current(d, t)' = Max(S)
    BY <2>1, <2>2 DEF Current, LatestOf
  <2> QED BY <2>1, <2>2, <2>3, <2>4
<1> QED BY <1>1, <1>4, <1>5, <1>6

\* A chapter inherits from the earlier ones only.
LEMMA AddedInherits ==
  ASSUME StoryShapes, NEW p \in Papers, papers' = Append(papers, p),
         texts <= texts', vetted \subseteq vetted',
         NEW c \in Chapters, p.home = c \/ p.home = 0
  PROVE  Inherited(c)' = Inherited(c)
<1>1. \A v \in Versions : papers'[v] = papers[v]
  BY AddGrows DEF Grows
<1>2. ASSUME NEW e \in 1..(c - 1)
      PROVE  {v \in OfStage(e, AnchorStage) : Confirmed(e, v)}'
               = {v \in OfStage(e, AnchorStage) : Confirmed(e, v)}
  <2>1. p.home # e
    BY DEF Chapters
  <2>2. \A t : OfStage(e, t)' = OfStage(e, t) /\ Current(e, t)' = Current(e, t)
    BY <2>1, AddedInStage
  <2>3. \A t : OfStage(e, t) \subseteq Versions /\ Current(e, t) \in Versions \cup {0}
    <3> TAKE t
    <3>1. OfStage(e, t) \in SUBSET Versions
      BY DEF OfStage
    <3> QED BY <3>1, LatestIsThere DEF Current
  <2>4. \A v \in Versions : Passed(v)' <=> Passed(v)
    BY <1>1 DEF Passed
  <2>5. \A t : Current(e, t) # 0 => (Passed(Current(e, t))' <=> Passed(Current(e, t)))
    BY <1>1, <2>2, <2>3 DEF Passed
  <2>6. ASSUME NEW v \in OfStage(e, AnchorStage) PROVE Confirmed(e, v)' <=> Confirmed(e, v)
    <3>1. v \in Versions /\ papers'[v] = papers[v]
      BY <1>1, <2>3
    <3> QED BY <2>2, <2>4, <2>5, <3>1 DEF Confirmed
  <2> QED BY <2>2, <2>6
<1>3. \A e \in 1..(c - 1) : Anchor(e)' = Anchor(e)
  BY <1>2 DEF Anchor, LatestOf
<1>4. Anchored(1..(c - 1))' = Anchored(1..(c - 1))
  BY <1>3 DEF Anchored
<1>5. \A e \in 1..(c - 1) : Anchored(e + 1 .. c - 1)' = Anchored(e + 1 .. c - 1)
  <2> TAKE e \in 1..(c - 1)
  <2>1. e + 1 .. c - 1 \subseteq 1..(c - 1)
    BY DEF Chapters
  <2> QED BY <1>3, <2>1 DEF Anchored
<1>6. Anchored(1..(c - 1)) \subseteq 1..(c - 1)
  BY DEF Anchored
<1> QED BY <1>3, <1>4, <1>5, <1>6 DEF Inherited

\* What is done above the stage that gets a version stays done.
LEMMA DoneStays ==
  ASSUME StoryShapes, NEW p \in Papers, papers' = Append(papers, p),
         texts <= texts', vetted \subseteq vetted',
         NEW c \in Chapters, NEW t \in Stages, p.home = c, t < p.stage, Done(c, t)
  PROVE  Done(c, t)'
<1>1. \A u \in Upstream(t) : u # p.stage
  BY DEF Upstream, Papers, Stages
<1>2. \A u \in Upstream(t) : Current(c, u)' = Current(c, u)
  BY <1>1, AddedInStage
<1>3. Current(c, t)' = Current(c, t)
  BY AddedInStage DEF Papers, Stages
<1>4. Inherited(c)' = Inherited(c)
  BY AddedInherits
<1>5. Dependencies(c, t)' = Dependencies(c, t)
  BY <1>2, <1>4 DEF Dependencies
<1>6. PICK v : v = Current(c, t) /\ v # 0
  BY DEF Done, Fresh
<1>7. papers'[v] = papers[v]
  BY <1>6, CurrentIsThere, AddGrows DEF Grows
<1> QED BY <1>3, <1>5, <1>6, <1>7 DEF Done, Fresh, Passed

---------------------------------------------------------------------------
(* Steps.                                                                  *)

\* Without a new version the chains are what they were.
LEMMA SameChains ==
  ASSUME UNCHANGED papers
  PROVE  /\ \A c, s : OfStage(c, s)' = OfStage(c, s)
         /\ \A c, s : Current(c, s)' = Current(c, s)
         /\ \A c : Inherited(c)' = Inherited(c)
         /\ \A c, s : Done(c, s)' <=> Done(c, s)
<1>1. \A c, s : OfStage(c, s)' = OfStage(c, s)
  BY DEF OfStage, Versions
<1>2. \A c, s : Current(c, s)' = Current(c, s)
  BY <1>1 DEF Current, LatestOf
<1>3. \A c, v : Confirmed(c, v)' <=> Confirmed(c, v)
  BY <1>2 DEF Confirmed, Passed
<1>4. \A e : {v \in OfStage(e, AnchorStage) : Confirmed(e, v)}'
               = {v \in OfStage(e, AnchorStage) : Confirmed(e, v)}
  BY <1>1, <1>3
<1>5. \A e : Anchor(e)' = Anchor(e)
  BY <1>4 DEF Anchor, LatestOf
<1>6. \A c : Inherited(c)' = Inherited(c)
  <2>1. \A S : Anchored(S)' = Anchored(S)
    BY <1>5 DEF Anchored
  <2> QED BY <1>5, <2>1 DEF Inherited
<1>7. \A c, s : Dependencies(c, s)' = Dependencies(c, s)
  BY <1>2, <1>6 DEF Dependencies
<1>8. \A c, s : Done(c, s)' <=> Done(c, s)
  BY <1>2, <1>7 DEF Done, Fresh, Passed
<1> QED BY <1>1, <1>2, <1>6, <1>8

\* Nor does an operation find anything else.
LEMMA SameSettles ==
  ASSUME UNCHANGED papers, NEW w, WorkSettles(w)
  PROVE  WorkSettles(w)'
<1>1. HeadsInPlace(w)'
  BY SameChains DEF WorkSettles, HeadsInPlace
<1>2. ASSUME Settled(w) PROVE Settled(w)'
  BY <1>2, SameChains DEF Settled, Now, Bindings, Cascade
<1> QED BY <1>1, <1>2 DEF WorkSettles

\* An operation that only proceeds, or is no longer shown, settles as it did.
LEMMA AlikeSettles ==
  ASSUME NEW w, NEW x, WorkSettles(w),
         x.kind = w.kind, x.raced = w.raced, x.key = w.key, x.heads = w.heads,
         x.saved = w.saved, x.inherits = w.inherits
  PROVE  WorkSettles(x)
<1>1. HeadsInPlace(x)
  BY DEF WorkSettles, HeadsInPlace
<1>2. Now(x) = Now(w) /\ Cascade(x) = Cascade(w)
  BY DEF Now, Cascade
<1>3. ASSUME Settled(w) PROVE Settled(x)
  BY <1>2, <1>3 DEF Settled
<1> QED BY <1>1, <1>3 DEF WorkSettles

\* A step that adds no version.
LEMMA SettleStep ==
  ASSUME SettleInv, StoryInv', UNCHANGED papers,
         \A i \in Works : \A x : works'[i] = x => x = NoWork \/ works[i] = x \/ WorkSettles(x)
  PROVE  SettleInv'
<1>1. NoGaps'
  BY SameChains DEF SettleInv, NoGaps
<1>2. \A w \in AtWork' : WorkSettles(w)
  BY DEF SettleInv, AtWork
<1>3. \A w \in AtWork' : WorkSettles(w)'
  BY <1>2, SameSettles
<1> QED BY <1>1, <1>3 DEF SettleInv

\* The heads that were read stay where they are.
LEMMA HeadsStay ==
  ASSUME StoryShapes, NEW p \in Papers, papers' = Append(papers, p),
         texts <= texts', vetted \subseteq vetted',
         NEW w, NEW x, HeadsInPlace(w), x.key = w.key, x.heads = w.heads
  PROVE  HeadsInPlace(x)'
<1>1. HeadsInPlace(x)
  BY DEF HeadsInPlace
<1> QED BY <1>1, AddedInStage DEF HeadsInPlace

\* A step that adds a version: the documents above it are there, and every other
\* operation has been crossed.
LEMMA AddSettles ==
  ASSUME SettleInv, StoryInv', NEW p \in Papers, papers' = Append(papers, p),
         texts <= texts', vetted \subseteq vetted',
         p.home = 0 \/ p.branch \/ \A u \in Upstream(p.stage) : OfStage(p.home, u) # {},
         \A i \in Works : \A x : works'[i] = x =>
           \/ x = NoWork \/ WorkSettles(x)'
           \/ \E w \in AtWork : x.raced /\ x.key = w.key /\ x.heads = w.heads
  PROVE  SettleInv'
<1>1. StoryShapes /\ NoGaps /\ \A w \in AtWork : WorkSettles(w)
  BY DEF SettleInv, StoryInv
<1>2. NoGaps'
  <2> SUFFICES ASSUME NEW c \in Chapters, NEW s \in Stages, OfStage(c, s)' # {},
                      NEW u \in Upstream(s)
               PROVE  OfStage(c, u)' # {}
    BY DEF NoGaps
  <2>1. OfStage(c, u) \subseteq OfStage(c, u)'
    BY <1>1, AddedInStage
  <2>2. CASE OfStage(c, s) # {}
    BY <1>1, <2>1, <2>2 DEF NoGaps
  <2>3. CASE OfStage(c, s) = {}
    <3>1. p.home = c /\ p.stage = s /\ ~p.branch
      BY <1>1, <2>3, AddedInStage
    <3>2. c # 0
      BY DEF Chapters
    <3> QED BY <2>1, <3>1, <3>2
  <2> QED BY <2>2, <2>3
<1>3. ASSUME NEW x \in AtWork' PROVE WorkSettles(x)'
  <2>1. CASE \E w \in AtWork : x.raced /\ x.key = w.key /\ x.heads = w.heads
    <3>1. PICK w \in AtWork : x.raced /\ x.key = w.key /\ x.heads = w.heads
      BY <2>1
    <3>2. HeadsInPlace(w)
      BY <1>1 DEF WorkSettles
    <3>3. HeadsInPlace(x)'
      BY <1>1, <3>1, <3>2, HeadsStay
    <3> QED BY <3>1, <3>3 DEF WorkSettles
  <2> QED BY <2>1 DEF AtWork
<1> QED BY <1>2, <1>3 DEF SettleInv

\* The documents of a chapter, as they are when an operation begins.
LEMMA HeadsRead ==
  ASSUME StoryShapes, NoGaps, NEW c \in Chapters, NEW w,
         w.key[1] = c, w.heads = [s \in Stages |-> Current(c, s)]
  PROVE  HeadsInPlace(w)
<1>1. \A s \in Stages : Current(c, s) # 0 => Current(c, s) \in OfStage(c, s)
  <2> TAKE s \in Stages
  <2>1. OfStage(c, s) \in SUBSET Versions
    BY DEF OfStage
  <2> QED BY <2>1, LatestIsThere DEF Current
<1>2. ASSUME NEW s \in Stages, OfStage(c, s) # {} PROVE Current(c, s) # 0
  <2>1. OfStage(c, s) \in SUBSET Versions /\ 0 \notin Versions
    BY DEF OfStage, Versions, StoryShapes
  <2> QED BY <1>2, <2>1, LatestIsThere DEF Current
<1>3. ASSUME NEW s \in Stages, w.heads[s] # 0
      PROVE  w.heads[s] \in OfStage(c, s) /\ \A u \in Upstream(s) : w.heads[u] # 0
  <2>1. w.heads[s] \in OfStage(c, s)
    BY <1>1, <1>3
  <2>2. ASSUME NEW u \in Upstream(s) PROVE w.heads[u] # 0
    <3>1. u \in Stages /\ OfStage(c, u) # {}
      BY <2>1, UpstreamShape DEF NoGaps
    <3> QED BY <1>2, <3>1
  <2> QED BY <2>1, <2>2
<1> QED BY <1>3 DEF HeadsInPlace

\* An optimization begins with everything done above it.
LEMMA ReadSettles ==
  ASSUME SettleInv, NEW kind \in {"save", "generate", "review", "optimize"},
         kind = "optimize" => Ready
  PROVE  WorkSettles(Read(kind))
<1>1. PICK r : r = Read(kind)
  OBVIOUS
<1>2. PICK c \in Chapters, s \in Stages : c = desk.chapter /\ s = desk.stage
  BY KeyShape DEF SettleInv
<1>3. /\ r.kind = kind /\ r.key[1] = c /\ r.key[2] = s /\ r.heads = [t \in Stages |-> Current(c, t)]
      /\ r.inherits = Inherited(c) /\ r.saved = [t \in Stages |-> 0]
  BY <1>1, <1>2 DEF Read, Key, KeyOf
<1>4. HeadsInPlace(r)
  BY <1>3, HeadsRead DEF SettleInv, StoryInv
<1>5. ASSUME kind = "optimize" PROVE Settled(r)
  <2>1. \A t \in Stages : Current(c, t) = Now(r)[t]
    BY <1>3 DEF Now
  <2>2. \A u \in Upstream(s) : Done(c, u)
    BY <1>2, <1>5, UsableIsDone DEF Ready, DependenciesReady
  <2> QED BY <1>3, <2>1, <2>2 DEF Settled
<1> QED BY <1>1, <1>3, <1>4, <1>5 DEF WorkSettles

\* An operation begins.
LEMMA PressSettles ==
  ASSUME SettleInv, StoryInv', PressSave \/ PressGenerate \/ PressReview \/ PressOptimize
  PROVE  SettleInv'
<1>1. PICK kind \in {"save", "generate", "review", "optimize"} :
        StartWork(kind) /\ (kind = "optimize" => Ready)
  <2>1. CASE PressSave
    BY <2>1 DEF PressSave
  <2>2. CASE PressGenerate
    BY <2>2 DEF PressGenerate
  <2>3. CASE PressReview
    BY <2>3 DEF PressReview
  <2>4. CASE PressOptimize
    BY <2>4 DEF PressOptimize
  <2> QED BY <2>1, <2>2, <2>3, <2>4
<1>2. PICK r : r = Read(kind) /\ WorkSettles(r)
  BY <1>1, ReadSettles
<1>3. UNCHANGED papers /\ \E i \in Works : works' = [works EXCEPT ![i] = r]
  BY <1>1, <1>2 DEF StartWork
<1>4. \A i \in Works : \A x : works'[i] = x => works[i] = x \/ x = r
  BY <1>3 DEF SettleInv, StoryInv, StoryShapes
<1> QED BY <1>2, <1>3, <1>4, SettleStep

\* What the user does at the editor leaves the operations alone.
LEMMA VisitSettles ==
  ASSUME SettleInv, StoryInv', UNCHANGED <<papers, works>>
  PROVE  SettleInv'
  BY SettleStep

\* An operation that ends without a version is gone.
LEMMA EndSettles ==
  ASSUME SettleInv, StoryInv', UNCHANGED papers, NEW i \in Works,
         works' = [works EXCEPT ![i] = NoWork]
  PROVE  SettleInv'
<1>1. \A j \in Works : \A x : works'[j] = x => x = NoWork \/ works[j] = x
  BY DEF SettleInv, StoryInv, StoryShapes
<1> QED BY <1>1, SettleStep

\* The page forgets what is under way, the operations go on.
LEMMA RemountSettles ==
  ASSUME SettleInv, StoryInv', Remount
  PROVE  SettleInv'
<1>1. ASSUME NEW i \in Works, works[i] # NoWork PROVE WorkSettles(works'[i])
  <2>1. PICK w \in StoryWorks : w = works[i] /\ WorkSettles(w)
    BY <1>1, WorkShape DEF SettleInv, AtWork
  <2>2. PICK x : x = works'[i] /\ x = [w EXCEPT !.shown = FALSE]
    BY <2>1 DEF Remount
  <2>3. /\ x.kind = w.kind /\ x.raced = w.raced /\ x.key = w.key /\ x.heads = w.heads
        /\ x.saved = w.saved /\ x.inherits = w.inherits
    BY <2>2 DEF StoryWorks
  <2> QED BY <2>1, <2>2, <2>3, AlikeSettles
<1>2. ASSUME NEW i \in Works, NEW x, works[i] = NoWork, works'[i] = x PROVE x = NoWork
  <2>1. works' = [j \in Works |-> [works[j] EXCEPT !.shown = FALSE]]
    BY DEF Remount
  <2> QED BY <1>2, <2>1 DEF NoWork
<1>3. UNCHANGED papers
  BY DEF Remount
<1> QED BY <1>1, <1>2, <1>3, SettleStep

\* The texts of a cascade are written, no version is.
LEMMA PreparedSettles ==
  ASSUME SettleInv, StoryInv', NEW i \in Works, OptimizePrepared(i)
  PROVE  SettleInv'
<1>1. /\ works[i].kind = "optimize" /\ UNCHANGED papers /\ works[i] # NoWork
  BY DEF OptimizePrepared, NoWork
<1>2. PICK w \in StoryWorks : w = works[i] /\ WorkSettles(w)
  BY <1>1, WorkShape DEF SettleInv, AtWork
<1>3. PICK first : first = texts + 1 - w.key[2]
  OBVIOUS
<1>4. PICK x : x = [w EXCEPT !.writing = TRUE, !.first = first]
  OBVIOUS
<1>5. works' = [works EXCEPT ![i] = x]
  BY <1>2, <1>3, <1>4 DEF OptimizePrepared, SettleInv, StoryInv, StoryShapes
<1>6. /\ x.kind = w.kind /\ x.raced = w.raced /\ x.key = w.key /\ x.heads = w.heads
      /\ x.saved = w.saved /\ x.inherits = w.inherits
  BY <1>4 DEF StoryWorks
<1>7. WorkSettles(x)
  BY <1>2, <1>6, AlikeSettles
<1>8. \A j \in Works : \A y : works'[j] = y => works[j] = y \/ y = x
  BY <1>5 DEF SettleInv, StoryInv, StoryShapes
<1> QED BY <1>1, <1>7, <1>8, SettleStep

\* A version that is added is one of the right shape.
LEMMA AddedShape ==
  ASSUME StoryShapes, StoryShapes', NEW p, papers' = Append(papers, p)
  PROVE  p \in Papers
<1>1. papers \in Seq(Papers \cup {p}) /\ papers' \in Seq(Papers)
  BY DEF StoryShapes
<1>2. Len(papers') = Len(papers) + 1 /\ papers'[Len(papers) + 1] = p
  BY <1>1, AppendProperties
<1>3. Len(papers) + 1 \in 1..Len(papers')
  BY <1>1, <1>2
<1> QED BY <1>1, <1>2, <1>3

\* The operations that a save has crossed.
LEMMA CrossedWorks ==
  ASSUME StoryInv, NEW i, NEW x, works' = Race(i, x)
  PROVE  \A j \in Works : \A y : works'[j] = y =>
           \/ y = NoWork \/ (j = i /\ y = x)
           \/ \E w \in AtWork : y.raced /\ y.key = w.key /\ y.heads = w.heads
<1>1. works' = [j \in Works |-> IF j = i THEN x
                                ELSE IF works[j] = NoWork THEN NoWork
                                ELSE [works[j] EXCEPT !.raced = TRUE]]
  BY DEF Race
<1> SUFFICES ASSUME NEW j \in Works, NEW y, works'[j] = y, j # i, works[j] # NoWork
             PROVE  \E w \in AtWork : y.raced /\ y.key = w.key /\ y.heads = w.heads
  BY <1>1
<1>2. PICK w \in StoryWorks : w = works[j] /\ w \in AtWork
  BY WorkShape DEF AtWork
<1>3. y = [w EXCEPT !.raced = TRUE]
  BY <1>1, <1>2
<1>4. y.raced /\ y.key = w.key /\ y.heads = w.heads
  BY <1>3 DEF StoryWorks
<1> QED BY <1>2, <1>4

\* Where a head that was read is sound, its stage has a version.
LEMMA HeadsAbove ==
  ASSUME StoryShapes, NEW w, HeadsInPlace(w), NEW u \in Stages, Sound(w.heads[u])
  PROVE  w.heads[u] # 0 /\ OfStage(w.key[1], u) # {}
<1>1. w.heads[u] # 0
  BY DEF Sound, Versions, StoryShapes
<1> QED BY <1>1 DEF HeadsInPlace

\* A draft is saved: a branch is of no chain, a version in production has those
\* above it.
LEMMA SaveSettles ==
  ASSUME SettleInv, StoryInv', NEW i \in Works, SaveAnswers(i)
  PROVE  SettleInv'
<1>1. works[i].kind = "save" /\ works[i] # NoWork
  BY DEF SaveAnswers, NoWork
<1>2. PICK w \in StoryWorks : w = works[i] /\ WorkTrue(w) /\ WorkSettles(w)
  BY <1>1, WorkShape DEF SettleInv, AtWork
<1>3. CASE Refused(i)
  BY <1>3, EndSettles DEF Refused
<1>4. CASE ~Refused(i)
  <2> DEFINE c == w.key[1]
             s == w.key[2]
             parent == w.key[3]
             branch == w.read.mode = "preserve"
             review == IF ReviewValid(w.read) THEN w.read.review ELSE NoReview
             above == ({w.heads[u] : u \in Upstream(s)} \ {0})
                      \cup (IF s = AnchorStage THEN w.inherits ELSE {})
             document == DocumentOf(parent)
             parents == IF branch THEN papers[parent].parents ELSE above
             bound == IF s = Check /\ ~branch THEN Bindings(w.heads) ELSE {}
             new == [home |-> c, stage |-> s, document |-> document, text |-> w.read.text,
                     asks |-> w.read.asks, review |-> review, branch |-> branch,
                     parents |-> parents, bound |-> bound]
  <2>1. AddPaper(new) /\ works' = Race(i, NoWork) /\ UNCHANGED <<texts, vetted>>
    BY <1>2, <1>4 DEF SaveAnswers
  <2> HIDE DEF review, document, parents, bound
  <2>2. PICK p : papers' = Append(papers, p) /\ p = new
    BY <2>1 DEF AddPaper
  <2>3. p.home = c /\ p.stage = s /\ p.branch = branch
    BY <2>2
  <2> HIDE DEF new, above
  <2>4. StoryShapes /\ p \in Papers /\ texts <= texts' /\ vetted \subseteq vetted'
    BY <2>1, <2>2, AddedShape DEF SettleInv, StoryInv, StoryShapes
  <2>5. ASSUME ~p.branch, NEW u \in Upstream(p.stage) PROVE OfStage(p.home, u) # {}
    <3>1. w.key[2] \in Stages
      BY DEF StoryWorks, Keys
    <3>2. u \in Stages /\ w.key[2] # Source
      BY <2>3, <2>5, <3>1, UpstreamShape
    <3>3. Sound(w.heads[u])
      BY <1>1, <1>2, <2>3, <2>5, <3>2 DEF WorkTrue
    <3> QED BY <1>2, <2>3, <2>4, <3>2, <3>3, HeadsAbove DEF WorkSettles
  <2>6. \A j \in Works : \A y : works'[j] = y =>
           y = NoWork \/ \E v \in AtWork : y.raced /\ y.key = v.key /\ y.heads = v.heads
    BY <2>1, CrossedWorks DEF SettleInv
  <2> QED BY <2>2, <2>4, <2>5, <2>6, AddSettles
<1> QED BY <1>3, <1>4

\* A version saved elsewhere belongs to no chain.
LEMMA LibrarySettles ==
  ASSUME SettleInv, StoryInv', LibrarySave
  PROVE  SettleInv'
<1>1. PICK v \in Versions :
        /\ papers' = Append(papers, [papers[DocumentHead(papers[v].document)] EXCEPT
                                       !.home = 0, !.text = texts + 1, !.asks = FALSE,
                                       !.review = NoReview, !.bound = {}])
        /\ works' = [i \in Works |-> IF works[i] = NoWork THEN NoWork
                                     ELSE [works[i] EXCEPT !.raced = TRUE, !.shown = FALSE]]
  BY DEF LibrarySave, AddPaper
<1>2. texts' = texts + 1 /\ UNCHANGED vetted
  BY DEF LibrarySave
<1>3. StoryShapes /\ StoryShapes' /\ texts <= texts' /\ vetted \subseteq vetted'
  <2>1. StoryShapes /\ StoryShapes' /\ texts \in Nat
    BY DEF SettleInv, StoryInv, StoryShapes
  <2> QED BY <1>2, <2>1
<1>4. PICK u \in Versions : papers[u].document = papers[v].document /\ ~papers[u].branch
  BY DEF SettleInv, StoryInv, PaperTrue
<1>5. PICK head \in Versions, q \in Papers : head = DocumentHead(papers[v].document) /\ q = papers[head]
  BY <1>3, <1>4, HeadIsThere, PaperShape
<1>6. PICK p : /\ papers' = Append(papers, p) /\ p.home = 0
  <2>1. [q EXCEPT !.home = 0, !.text = texts + 1, !.asks = FALSE, !.review = NoReview,
                  !.bound = {}].home = 0
    BY DEF Papers
  <2> QED BY <1>1, <1>5, <2>1
<1>9. p \in Papers
  BY <1>3, <1>6, AddedShape
<1>7. ASSUME NEW j \in Works, NEW y, works'[j] = y, works[j] # NoWork
      PROVE  \E w \in AtWork : y.raced /\ y.key = w.key /\ y.heads = w.heads
  <2>1. PICK w \in StoryWorks : w = works[j] /\ w \in AtWork
    BY <1>7, WorkShape DEF AtWork, SettleInv
  <2>2. y = [w EXCEPT !.raced = TRUE, !.shown = FALSE]
    BY <1>1, <1>7, <2>1
  <2>3. y.raced /\ y.key = w.key /\ y.heads = w.heads
    BY <2>2 DEF StoryWorks
  <2> QED BY <2>1, <2>3
<1>8. \A j \in Works : \A y : works'[j] = y =>
        y = NoWork \/ \E w \in AtWork : y.raced /\ y.key = w.key /\ y.heads = w.heads
  BY <1>1, <1>7
<1> QED BY <1>3, <1>6, <1>8, <1>9, AddSettles

\* A save of a cascade: operation w, of stage s, adds p as the n-th version and is a
\* from then on.
CascadeSave(w, s, n, p, a) ==
  /\ s \in Stages /\ w.saved[s] = 0 /\ \A u \in Unsaved(w) : s <= u
  /\ n = Len(papers) + 1 /\ n # 0
  /\ papers' = Append(papers, p) /\ p.home = w.key[1] /\ p.stage = s /\ ~p.branch
  /\ p.parents = MadeOf(w, s)
  /\ s = Check => p.bound = Bindings(Now(w))
  /\ p.review.passed /\ p.review.of = p.text
  /\ a.kind = w.kind /\ a.key = w.key /\ a.raced = w.raced
  /\ a.heads = w.heads /\ a.inherits = w.inherits
  /\ a.saved = [w.saved EXCEPT ![s] = n]
  /\ UNCHANGED <<texts, vetted>>

\* What the code's step comes to.
LEMMA CascadeShape ==
  ASSUME StoryInv, StoryInv', NEW i \in Works, OptimizeSaves(i), ~Refused(i),
         NEW w, w = works[i]
  PROVE  \E s \in Cascade(w), n \in Nat, p \in Papers, a \in StoryWorks :
           /\ CascadeSave(w, s, n, p, a)
           /\ works' = Race(i, IF Unsaved(a) = {} THEN NoWork ELSE a)
<1>1. works[i].kind = "optimize" /\ works[i].writing /\ works[i] # NoWork
  <2>1. works[i].kind = "optimize" /\ works[i].writing
    BY DEF OptimizeSaves
  <2> QED BY <2>1 DEF NoWork
<1>2. w \in StoryWorks /\ WorkTrue(w)
  BY <1>1, WorkShape
<1>3. PICK s : s = Min(Unsaved(w))
  OBVIOUS
<1>4. s \in Cascade(w) /\ s \in Stages /\ w.saved[s] = 0 /\ \A u \in Unsaved(w) : s <= u
  <2>1. Cascade(w) \subseteq Stages /\ Unsaved(w) \in SUBSET Nat /\ Unsaved(w) # {}
    <3>1. w.key[2] \in Stages
      BY <1>2 DEF StoryWorks, Keys
    <3>2. w.writing /\ Unsaved(w) # {}
      BY <1>1, <1>2 DEF WorkTrue
    <3> QED BY <3>1, <3>2, StoryboardAssumption DEF Cascade, Unsaved, Stages
  <2>2. s \in Unsaved(w) /\ \A u \in Unsaved(w) : s <= u
    BY <1>3, <2>1, MinIsLeast
  <2> QED BY <2>1, <2>2 DEF Unsaved
<1>5. PICK n \in Nat : n = Len(papers) + 1 /\ n # 0
  BY DEF StoryInv, StoryShapes
<1> DEFINE c == w.key[1]
           parent == IF s = w.key[2] THEN w.key[3] ELSE w.heads[s]
           document == DocumentOf(parent)
           text == NewText(w, s)
           review == Judged(text, TRUE)
           parents == MadeOf(w, s)
           bound == IF s = Check THEN Bindings(Now(w)) ELSE {}
           new == [home |-> c, stage |-> s, document |-> document, text |-> text,
                   asks |-> TRUE, review |-> review, branch |-> FALSE, parents |-> parents,
                   bound |-> bound]
           after == [w EXCEPT !.saved[s] = Len(papers) + 1]
           x == IF Unsaved(after) = {} THEN NoWork ELSE after
<1>6. AddPaper(new) /\ works' = Race(i, x) /\ UNCHANGED <<texts, vetted>>
  BY <1>3 DEF OptimizeSaves
<1>7. review.passed /\ review.of = text
  BY DEF Judged
<1> HIDE DEF text, review, document
<1>8. PICK p : /\ papers' = Append(papers, p) /\ p.home = c /\ p.stage = s /\ ~p.branch
               /\ p.parents = parents /\ p.bound = bound /\ p.review = review /\ p.text = text
  <2> HIDE DEF parents, bound
  <2>1. new.home = c /\ new.stage = s /\ ~new.branch /\ new.parents = parents
        /\ new.bound = bound /\ new.review = review /\ new.text = text
    OBVIOUS
  <2> HIDE DEF new
  <2> QED BY <1>6, <2>1 DEF AddPaper
<1>9. p \in Papers
  BY <1>8, AddedShape DEF StoryInv
<1>10. PICK a \in StoryWorks : /\ a = after /\ a.kind = w.kind /\ a.key = w.key
                               /\ a.raced = w.raced /\ a.heads = w.heads
                               /\ a.inherits = w.inherits /\ a.saved = [w.saved EXCEPT ![s] = n]
  <2>1. PICK saved \in [Stages -> Nat] : saved = [w.saved EXCEPT ![s] = n]
    BY <1>2, <1>4 DEF StoryWorks
  <2>2. after = [w EXCEPT !.saved = saved]
    BY <1>5, <2>1
  <2>3. [w EXCEPT !.saved = saved] \in StoryWorks
    BY <1>2 DEF StoryWorks
  <2> HIDE DEF after
  <2>4. PICK a \in StoryWorks : a = after /\ a = [w EXCEPT !.saved = saved]
    BY <2>2, <2>3
  <2>5. /\ a.kind = w.kind /\ a.key = w.key /\ a.raced = w.raced /\ a.heads = w.heads
        /\ a.inherits = w.inherits /\ a.saved = saved
    BY <1>2, <2>4 DEF StoryWorks
  <2> QED BY <2>1, <2>4, <2>5
<1>11. x = IF Unsaved(a) = {} THEN NoWork ELSE a
  BY <1>10
<1>12. parents = MadeOf(w, s) /\ (s = Check => bound = Bindings(Now(w)))
  OBVIOUS
<1> HIDE DEF parents, bound, x, after, new
<1>13. CascadeSave(w, s, n, p, a)
  BY <1>4, <1>5, <1>6, <1>7, <1>8, <1>10, <1>12 DEF CascadeSave
<1>14. works' = Race(i, IF Unsaved(a) = {} THEN NoWork ELSE a)
  BY <1>6, <1>11
<1> QED BY <1>4, <1>5, <1>9, <1>10, <1>13, <1>14

\* After a save of its own an optimization that nobody has crossed is as settled
\* as before, with one stage more.
LEMMA CascadeSettlesOn ==
  ASSUME StoryInv, NEW w \in StoryWorks, WorkSettles(w), w.kind = "optimize",
         NEW s \in Cascade(w), NEW n \in Nat, NEW p \in Papers, NEW a \in StoryWorks,
         CascadeSave(w, s, n, p, a)
  PROVE  WorkSettles(a)'
<1> USE DEF CascadeSave
<1>1. StoryShapes /\ texts <= texts' /\ vetted \subseteq vetted'
  BY DEF StoryInv, StoryShapes
<1>2. HeadsInPlace(a)'
  BY <1>1, HeadsStay DEF WorkSettles
<1>3. ASSUME Settled(w) PROVE Settled(a)'
  <2>1. PICK c \in Chapters : c = w.key[1]
    BY DEF StoryWorks, Keys
  <2>2. PICK k \in Stages : k = w.key[2]
    BY DEF StoryWorks, Keys
  <2>3. /\ \A u \in Stages : Current(c, u) = Now(w)[u]
        /\ Inherited(c) = w.inherits /\ \A u \in Upstream(k) : Done(c, u)
        /\ \A t \in Stages : w.saved[t] # 0 =>
             /\ t \in Cascade(w) /\ \A u \in Cascade(w) : u < t => w.saved[u] # 0
             /\ Done(c, t)
    BY <1>3, <2>1, <2>2 DEF Settled
  <2>4. \A u \in Stages : a.saved[u] = IF u = s THEN n ELSE w.saved[u]
    BY DEF StoryWorks
  <2>5. Cascade(a) = Cascade(w) /\ \A u \in Cascade(w) : u \in Int /\ k <= u
    BY <2>2, StoryboardAssumption DEF Cascade, Stages
  <2>6. \A u \in Stages : Now(a)[u] = IF u = s THEN n ELSE Now(w)[u]
    BY <2>4 DEF Now
  <2>7. Versions' = Versions \cup {n} /\ papers'[n] = p
    BY <1>1, AddGrows
  <2>8. Current(c, s)' = n /\ \A u \in Stages : u # s => Current(c, u)' = Current(c, u)
    BY <1>1, <2>1, AddedInStage
  <2>9. Inherited(c)' = Inherited(c)
    BY <1>1, <2>1, AddedInherits
  <2>10. \A u \in Stages : Current(c, u)' = Now(a)[u]
    BY <2>3, <2>6, <2>8
  <2>11. \A t \in Stages : t < s /\ Done(c, t) => Done(c, t)'
    BY <1>1, <2>1, DoneStays
  <2>12. \A u \in Upstream(s) : u \in Stages /\ u # s /\ u < s
    BY UpstreamShape
  <2>13. \A u \in Upstream(k) : Done(c, u)'
    <3> TAKE u \in Upstream(k)
    <3>1. u \in Stages /\ u < k /\ k <= s /\ u \in Int /\ k \in Int /\ s \in Int
      BY <2>5, UpstreamShape, StoryboardAssumption DEF Stages
    <3> QED BY <2>3, <2>11, <3>1
  <2>14. Dependencies(c, s)' = p.parents
    <3>1. \A u \in Upstream(s) : Current(c, u)' = Now(w)[u]
      BY <2>3, <2>8, <2>12
    <3>2. ASSUME NEW u \in Upstream(s) PROVE w.heads[u] # 0
      <4>1. CASE s = k
        <5>1. Now(w)[u] # 0
          BY <2>3, <2>12, <4>1 DEF Done, Fresh
        <5>2. u \notin Cascade(w)
          BY <2>5, <2>12, <4>1, StoryboardAssumption DEF Stages
        <5> QED BY <2>3, <2>12, <5>1, <5>2 DEF Now
      <4>2. CASE s # k
        <5>1. w.heads[s] # 0
          BY <2>2, <4>2 DEF Cascade
        <5> QED BY <5>1 DEF WorkSettles, HeadsInPlace
      <4> QED BY <4>1, <4>2
    <3>3. \A u \in Upstream(s) : Now(w)[u] # 0
      BY <2>12, <3>2 DEF Now
    <3>4. {Now(w)[u] : u \in {t \in Upstream(s) : w.heads[t] # 0}}
            = {Now(w)[u] : u \in Upstream(s)} \ {0}
      BY <3>2, <3>3
    <3> QED BY <2>3, <2>9, <3>1, <3>4 DEF Dependencies, MadeOf
  <2>15. Done(c, s)'
    BY <2>7, <2>8, <2>14 DEF Done, Fresh, Passed
  <2>16. ASSUME NEW t \in Stages, w.saved[t] # 0 PROVE t < s
    <3>1. t \in Int /\ s \in Int /\ t # s
      BY <2>16, StoryboardAssumption DEF Stages
    <3>2. ~(s < t)
      BY <2>3, <2>16
    <3> QED BY <3>1, <3>2
  <2>17. ASSUME NEW t \in Stages, a.saved[t] # 0
         PROVE  /\ t \in Cascade(a) /\ \A u \in Cascade(a) : u < t => a.saved[u] # 0
                /\ Done(c, t)'
    <3>1. \A u \in Cascade(w) : u \in Stages
      BY StoryboardAssumption, <2>2 DEF Cascade, Stages
    <3>2. CASE t = s
      <4>1. \A u \in Cascade(w) : u < s => w.saved[u] # 0
        <5> SUFFICES ASSUME NEW u \in Cascade(w), u < s, w.saved[u] = 0 PROVE FALSE
          OBVIOUS
        <5>1. u \in Unsaved(w) /\ u \in Int /\ s \in Int
          BY <2>5 DEF Unsaved
        <5> QED BY <5>1
      <4> QED BY <2>4, <2>5, <2>15, <3>1, <3>2, <4>1
    <3>3. CASE t # s
      <4>1. w.saved[t] # 0 /\ t < s
        BY <2>4, <2>16, <2>17, <3>3
      <4>2. Done(c, t)' /\ t \in Cascade(w) /\ \A u \in Cascade(w) : u < t => w.saved[u] # 0
        BY <2>3, <2>11, <4>1
      <4> QED BY <2>4, <2>5, <3>1, <4>2
    <3> QED BY <3>2, <3>3
  <2>18. ASSUME a.saved[Check] # 0, Check \in Stages
         PROVE  papers'[a.saved[Check]].bound = Bindings(Now(a))
    <3>1. s = Check
      <4>1. s \in Int /\ Check \in Int /\ s <= Check
        BY StoryboardAssumption DEF Stages, Check
      <4> QED BY <2>4, <2>16, <2>18, <4>1
    <3>2. Bindings(Now(a)) = Bindings(Now(w))
      BY <2>6, <2>12, <3>1 DEF Bindings
    <3> QED BY <2>4, <2>7, <3>1, <3>2
  <2>19. /\ a.key[1] = c /\ a.key[2] = k /\ Inherited(c)' = a.inherits
    BY <2>1, <2>2, <2>3, <2>9
  <2> QED BY <2>10, <2>13, <2>17, <2>18, <2>19 DEF Settled
<1> QED BY <1>2, <1>3 DEF WorkSettles

\* A cascade's save.
LEMMA OptimizeSettles ==
  ASSUME SettleInv, StoryInv', NEW i \in Works, OptimizeSaves(i)
  PROVE  SettleInv'
<1>1. works[i].kind = "optimize" /\ works[i] # NoWork
  BY DEF OptimizeSaves, NoWork
<1>2. PICK w \in StoryWorks : w = works[i] /\ WorkTrue(w) /\ WorkSettles(w)
  BY <1>1, WorkShape DEF SettleInv, AtWork
<1>3. StoryInv /\ StoryShapes
  BY DEF SettleInv, StoryInv
<1>4. CASE Refused(i)
  BY <1>4, EndSettles DEF Refused
<1>5. CASE ~Refused(i)
  <2>1. PICK s \in Cascade(w), n \in Nat, p \in Papers, a \in StoryWorks :
           /\ CascadeSave(w, s, n, p, a)
           /\ works' = Race(i, IF Unsaved(a) = {} THEN NoWork ELSE a)
    BY <1>2, <1>3, <1>5, CascadeShape
  <2>2. texts <= texts' /\ vetted \subseteq vetted'
    BY <1>3, <2>1 DEF StoryShapes, CascadeSave
  <2>3. WorkSettles(a)'
    BY <1>1, <1>2, <1>3, <2>1, <2>2, CascadeSettlesOn
  <2>4. ASSUME NEW u \in Upstream(s) PROVE OfStage(w.key[1], u) # {}
    <3>1. u \in Stages
      BY <2>1, UpstreamShape DEF CascadeSave
    <3>2. CASE s = w.key[2]
      <4>1. Sound(w.heads[u])
        BY <1>1, <1>2, <3>2 DEF WorkTrue
      <4> QED BY <1>2, <1>3, <3>1, <4>1, HeadsAbove DEF WorkSettles
    <3>3. CASE s # w.key[2]
      <4>1. w.heads[s] # 0
        BY <3>3 DEF Cascade
      <4> QED BY <1>2, <2>1, <3>1, <4>1 DEF WorkSettles, HeadsInPlace, CascadeSave
    <3> QED BY <3>2, <3>3
  <2>5. \A j \in Works : \A y : works'[j] = y =>
           \/ y = NoWork \/ y = a
           \/ \E v \in AtWork : y.raced /\ y.key = v.key /\ y.heads = v.heads
    BY <1>3, <2>1, CrossedWorks
  <2> QED BY <2>1, <2>2, <2>3, <2>4, <2>5, AddSettles DEF CascadeSave
<1> QED BY <1>4, <1>5

\* What a settled optimization leaves when it has saved everything.
SettledFact ==
  \A w \in StoryWorks :
    StoryShapes /\ HeadsInPlace(w) /\ Settled(w) /\ Unsaved(w) = {} =>
      /\ \A s \in Cascade(w) : s \in UsableStages(w.key[1])
      /\ Check \in Cascade(w) => Gate(w.key[1])

\* It does.
LEMMA SettledNow == SettledFact
<1> SUFFICES ASSUME NEW w \in StoryWorks, StoryShapes, HeadsInPlace(w), Settled(w),
                    Unsaved(w) = {}
             PROVE  /\ \A s \in Cascade(w) : s \in UsableStages(w.key[1])
                    /\ Check \in Cascade(w) => Gate(w.key[1])
  BY DEF SettledFact
<1>1. PICK c \in Chapters, k \in Stages : c = w.key[1] /\ k = w.key[2]
  BY DEF StoryWorks, Keys
<1>2. \A s \in Cascade(w) : s \in Stages /\ w.saved[s] # 0 /\ Done(c, s)
  <2>1. \A s \in Cascade(w) : s \in Stages
    BY <1>1, StoryboardAssumption DEF Cascade, Stages
  <2> QED BY <1>1, <2>1 DEF Unsaved, Settled
<1>3. ASSUME NEW s \in Cascade(w), NEW u \in Upstream(s) PROVE Done(c, u)
  <2>1. u \in Stages /\ u < s /\ u \in Int /\ k \in Int
    BY <1>2, UpstreamShape, StoryboardAssumption DEF Stages
  <2>2. CASE u < k
    <3>1. u \in Upstream(k)
      BY <2>1, <2>2, StoryboardAssumption DEF Upstream, Stages
    <3> QED BY <1>1, <3>1 DEF Settled
  <2>3. CASE k <= u
    <3>1. u = k \/ w.heads[u] # 0
      <4>1. CASE s = k
        BY <2>1, <2>3, <4>1
      <4>2. CASE s # k
        BY <1>1, <1>2, <4>2 DEF Cascade, HeadsInPlace
      <4> QED BY <4>1, <4>2
    <3>2. u \in Cascade(w)
      BY <1>1, <2>1, <2>3, <3>1, StoryboardAssumption DEF Cascade, Stages
    <3> QED BY <1>2, <3>2
  <2> QED BY <2>1, <2>2, <2>3
<1>4. \A s \in Cascade(w) : s \in UsableStages(c)
  BY <1>2, <1>3, DoneIsUsable
<1>5. ASSUME Check \in Cascade(w) PROVE Gate(c)
  <2>1. /\ Check \in Stages /\ Board \in Stages /\ Check # Source
        /\ Upstream(Check) = Stages \ {Check}
    BY StoryboardAssumption DEF Check, Board, Source, Stages, Upstream
  <2>2. \A s \in Stages : Done(c, s)
    BY <1>2, <1>3, <1>5, <2>1
  <2>3. \A s \in Stages : s \in UsableStages(c)
    BY <2>2, UpstreamShape, DoneIsUsable
  <2>4. /\ \A s \in Stages : Current(c, s) # 0 /\ s \notin StaleStages(c)
        /\ Passed(Current(c, Check))
    BY <2>1, <2>3 DEF UsableStages
  <2>5. w.saved[Check] # 0 /\ \A s \in Stages : Current(c, s) = Now(w)[s]
    BY <1>1, <1>2, <1>5 DEF Settled
  <2>6. papers[Current(c, Check)].bound = Bindings(Now(w))
    <3>1. Current(c, Check) = w.saved[Check]
      BY <2>1, <2>5 DEF Now
    <3> QED BY <1>1, <2>1, <2>5, <3>1 DEF Settled
  <2>7. Bindings(Now(w)) = Bindings([s \in Stages |-> Current(c, s)])
    BY <2>1, <2>5 DEF Bindings
  <2> QED BY <2>1, <2>4, <2>6, <2>7 DEF Gate
<1> QED BY <1>1, <1>4, <1>5

\* The same, after a step.
LEMMA SettledThen == SettledFact'
  BY SettledNow, PTL

\* A save by another leaves an operation under way.
LEMMA RaceKeeps ==
  ASSUME NEW j, NEW x, works' = Race(j, x), NEW i \in Works, i # j, works[i] \in StoryWorks
  PROVE  works'[i] # NoWork
<1>1. PICK w \in StoryWorks : w = works[i]
  OBVIOUS
<1>2. w # NoWork
  BY DEF NoWork, StoryWorks
<1>3. works'[i] = [w EXCEPT !.raced = TRUE]
  BY <1>1, <1>2 DEF Race
<1>4. [w EXCEPT !.raced = TRUE].kind = w.kind /\ w.kind # "none"
  BY DEF StoryWorks
<1> QED BY <1>3, <1>4 DEF NoWork

---------------------------------------------------------------------------
(* The invariant, and what it is for.                                      *)

\* A new drama and a finished chain have no gaps.
LEMMA InitSettles == StoryInit /\ WindowInit => SettleInv
<1> SUFFICES ASSUME StoryInit, WindowInit PROVE SettleInv
  OBVIOUS
<1>1. StoryInv
  BY InitStoryInv
<1>2. NoGaps
  <2>1. CASE papers = <<>>
    BY <2>1 DEF NoGaps, OfStage, Versions
  <2>2. CASE papers = Chain
    <3>1. Versions = 1..Len(papers)
      BY <1>1 DEF StoryInv, StoryShapes, Versions
    <3>2. \A c \in Chapters, s \in Stages : OfStage(c, s) # {}
      BY <2>2, <3>1, ChainShape DEF OfStage
    <3> QED BY <3>2, UpstreamShape DEF NoGaps
  <2> QED BY <2>1, <2>2 DEF StoryInit
<1>3. AtWork = {}
  BY DEF StoryInit, AtWork
<1> QED BY <1>1, <1>2, <1>3 DEF SettleInv

\* Every step keeps it.
LEMMA NextSettles == SettleInv /\ [StoryNext]_storyVars => SettleInv'
<1> SUFFICES ASSUME SettleInv, [StoryNext]_storyVars PROVE SettleInv'
  OBVIOUS
<1>1. StoryInv'
  BY NextStoryInv DEF SettleInv
<1>2. CASE Type \/ AskFor \/ BeginHistorical \/ Discard
  BY <1>1, <1>2, VisitSettles DEF Type, AskFor, BeginHistorical, Discard, Visits
<1>3. CASE OpenStage \/ OpenChapter \/ OpenVersion \/ PickChapter
  BY <1>1, <1>3, VisitSettles DEF OpenStage, OpenChapter, OpenVersion, PickChapter, Visits
<1>4. CASE Remount
  BY <1>1, <1>4, RemountSettles
<1>5. CASE LibrarySave
  BY <1>1, <1>5, LibrarySettles
<1>6. CASE PressSave \/ PressGenerate \/ PressReview \/ PressOptimize
  BY <1>1, <1>6, PressSettles
<1>7. ASSUME NEW i \in Works, WorkFails(i) PROVE SettleInv'
  BY <1>1, <1>7, EndSettles DEF WorkFails
<1>8. ASSUME NEW i \in Works, GenerateAnswers(i) \/ ReviewAnswers(i) PROVE SettleInv'
  <2>1. UNCHANGED papers /\ works' = [works EXCEPT ![i] = NoWork]
    BY <1>8 DEF GenerateAnswers, ReviewAnswers, WriteBack
  <2> QED BY <1>1, <2>1, EndSettles
<1>9. ASSUME NEW i \in Works, SaveAnswers(i) PROVE SettleInv'
  BY <1>1, <1>9, SaveSettles
<1>10. ASSUME NEW i \in Works, OptimizePrepared(i) PROVE SettleInv'
  BY <1>1, <1>10, PreparedSettles
<1>11. ASSUME NEW i \in Works, OptimizeSaves(i) PROVE SettleInv'
  BY <1>1, <1>11, OptimizeSettles
<1>12. CASE UNCHANGED storyVars
  BY <1>1, <1>12, VisitSettles DEF storyVars
<1> QED
  BY <1>2, <1>3, <1>4, <1>5, <1>6, <1>7, <1>8, <1>9, <1>10, <1>11, <1>12 DEF StoryNext

\* Only a cascade's own save ends it with a new version.
LEMMA EndsByItsSave ==
  ASSUME StoryInv, [StoryNext]_storyVars, NEW i \in Works, works[i].kind = "optimize",
         works'[i] = NoWork, papers' # papers
  PROVE  OptimizeSaves(i) /\ ~Refused(i)
<1>1. works[i] # NoWork
  BY DEF NoWork
<1>2. works[i] \in StoryWorks
  BY <1>1, WorkShape
<1>3. ~(Type \/ AskFor \/ BeginHistorical \/ Discard \/ OpenStage \/ OpenChapter \/ OpenVersion
        \/ PickChapter \/ Remount)
  BY DEF Type, AskFor, BeginHistorical, Discard, OpenStage, OpenChapter, OpenVersion, PickChapter,
         Visits, Remount
<1>4. ~(PressSave \/ PressGenerate \/ PressReview \/ PressOptimize)
  BY DEF PressSave, PressGenerate, PressReview, PressOptimize, StartWork
<1>5. ASSUME LibrarySave PROVE FALSE
  <2>1. PICK w \in StoryWorks : w = works[i] /\ w.kind = "optimize"
    BY <1>2
  <2>2. PICK y : y = [w EXCEPT !.raced = TRUE, !.shown = FALSE]
    OBVIOUS
  <2>3. y.kind = "optimize"
    BY <2>1, <2>2 DEF StoryWorks
  <2>4. y = NoWork
    BY <1>1, <1>5, <2>1, <2>2 DEF LibrarySave
  <2> QED BY <2>3, <2>4 DEF NoWork
<1>6. ASSUME NEW j \in Works PROVE ~(WorkFails(j) \/ GenerateAnswers(j) \/ ReviewAnswers(j)
                                     \/ OptimizePrepared(j) \/ Refused(j))
  BY DEF WorkFails, GenerateAnswers, ReviewAnswers, OptimizePrepared, Refused, WriteBack
<1>7. ASSUME NEW j \in Works, SaveAnswers(j) PROVE FALSE
  <2>1. works[j].kind = "save" /\ works' = Race(j, NoWork)
    BY <1>6, <1>7 DEF SaveAnswers
  <2> QED BY <1>2, <2>1, RaceKeeps
<1>8. ASSUME NEW j \in Works, OptimizeSaves(j) PROVE j = i
  <2>1. \E x : works' = Race(j, x)
    BY <1>6, <1>8 DEF OptimizeSaves
  <2> QED BY <1>2, <2>1, RaceKeeps
<1>9. ~UNCHANGED storyVars
  BY DEF storyVars
<1> QED BY <1>3, <1>4, <1>5, <1>6, <1>7, <1>8, <1>9 DEF StoryNext

\* An optimization of a drama's stages that no other save has crossed leaves nothing
\* behind that must be updated, and the gate open if it went down to the quality check
\* (docs/VIDEO_WORKFLOW.md), for any number of chapters, stages and operations.
THEOREM CascadesSettle == StorySpec => CascadeSettles
<1>1. StoryInit /\ WindowInit => SettleInv
  BY InitSettles
<1>2. SettleInv /\ [StoryNext]_storyVars => SettleInv'
  BY NextSettles
<1>3. ASSUME SettleInv, SettleInv', [StoryNext]_storyVars, NEW i \in Works, NEW c \in Chapters,
             works[i].kind = "optimize", works[i].writing, ~works[i].raced,
             works[i].key[1] = c, works'[i] = NoWork, papers' # papers
      PROVE  /\ \A s \in Stages : s \in Cascade(works[i]) => (s \in UsableStages(c))'
             /\ Check \in Cascade(works[i]) => Gate(c)'
  <2>1. StoryInv /\ StoryInv' /\ StoryShapes' /\ OptimizeSaves(i) /\ ~Refused(i)
    BY <1>3, EndsByItsSave DEF SettleInv, StoryInv
  <2>2. works[i] # NoWork
    BY <1>3 DEF NoWork
  <2>3. PICK w \in StoryWorks : w = works[i] /\ WorkSettles(w)
    BY <1>3, <2>1, <2>2, WorkShape DEF SettleInv, AtWork
  <2>4. PICK s \in Cascade(w), n \in Nat, p \in Papers, a \in StoryWorks :
          /\ CascadeSave(w, s, n, p, a)
          /\ works' = Race(i, IF Unsaved(a) = {} THEN NoWork ELSE a)
    BY <2>1, <2>3, CascadeShape
  <2>5. WorkSettles(a)'
    BY <1>3, <2>1, <2>3, <2>4, CascadeSettlesOn
  <2>6. a.kind = "optimize" /\ ~a.raced /\ a.key[1] = c /\ Cascade(a) = Cascade(w)
    BY <1>3, <2>3, <2>4 DEF CascadeSave, Cascade
  <2>7. Unsaved(a) = {}
    <3>1. works'[i] = IF Unsaved(a) = {} THEN NoWork ELSE a
      BY <2>4 DEF Race
    <3> QED BY <1>3, <2>6, <3>1 DEF NoWork
  <2>8. HeadsInPlace(a)' /\ Settled(a)'
    BY <2>5, <2>6 DEF WorkSettles
  <2>9. /\ \A t \in Cascade(a) : (t \in UsableStages(a.key[1]))'
        /\ Check \in Cascade(a) => Gate(a.key[1])'
    BY <2>1, <2>7, <2>8, SettledThen DEF SettledFact, Unsaved, Cascade
  <2> QED BY <2>3, <2>6, <2>9
<1>4. SettleInv /\ SettleInv' /\ [StoryNext]_storyVars =>
        \A i \in Works, c \in Chapters :
          /\ works[i].kind = "optimize" /\ works[i].writing /\ ~works[i].raced
          /\ works[i].key[1] = c
          /\ works'[i] = NoWork /\ papers' # papers
          => /\ \A s \in Stages : s \in Cascade(works[i]) => (s \in UsableStages(c))'
             /\ Check \in Cascade(works[i]) => Gate(c)'
  BY <1>3
<1> QED BY <1>1, <1>2, <1>4, PTL DEF StorySpec, CascadeSettles
=============================================================================
