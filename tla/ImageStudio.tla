---------------------------- MODULE ImageStudio ----------------------------
(***************************************************************************)
(* Image generation (pages/GeneratePanel.tsx, lib/generate.ts,             *)
(* store/useGenerationStore.ts, store/useRunStore.ts,                      *)
(* components/OptimizePromptDialog.tsx, components/PromptLibrary.tsx,      *)
(* lib/caseImage.ts): one form per project with the template its prompt    *)
(* came from and the records of its references, one paid run at a time,    *)
(* and four kinds of late answers, any number of which may be out, that    *)
(* may find another form, another dialog or another entry on screen.       *)
(***************************************************************************)
EXTENDS Window

CONSTANTS
  ImageProjects,   \* projects
  Templates,       \* entries of the prompt library
  PictureCount,    \* pictures of each project
  MaxImageClicks   \* bound on the user's operations

ASSUME ImageStudioAssumption ==
  /\ ImageProjects # {}
  /\ none \notin Templates \cup ImageProjects
  /\ PictureCount \in Nat \ {0}
  /\ MaxImageClicks \in Nat

VARIABLES
  paintIn,    \* the active project
  paint,      \* useGenerationStore: the image form of each project
  awaited,    \* pictures on their way into the asset library, and optimized texts
  paintRun,   \* the call of generateImage
  paintShown, \* useRunStore: busy, progress, latest batch
  gallery,    \* generated pictures and the form they were made from
  polish,     \* OptimizePromptDialog
  shelf       \* the prompt library

imageVars == <<paintIn, paint, awaited, paintRun, paintShown, gallery, polish,
               shelf, clicks, faults>>

Paintings == [home : ImageProjects, number : 1..PictureCount]
Origins == Templates \cup {none, "typed"}

\* The form: where its prompt comes from, the template it names, the
\* references and the pictures that its reference records name.
PaintForms == [prompt : Origins, template : Templates \cup {none},
               refs : SUBSET Paintings, sources : SUBSET Paintings]

ImageTypeOK ==
  /\ paintIn \in ImageProjects
  /\ paint \in [ImageProjects -> PaintForms]
  /\ \A w \in awaited : w.by \in {"files", "download", "case", "optimize"}
  /\ paintRun.phase \in {"idle", "listen", "persist", "request", "save", "finish", "failing"}
  /\ paintShown.busy \in BOOLEAN
  /\ paintShown.progress \in 0..paintRun.number
  /\ \A g \in gallery : g.project \in ImageProjects /\ g.form \in PaintForms
  /\ polish.open \in BOOLEAN
  /\ shelf.entry \in Templates \cup {none}

EmptyPaint == [prompt |-> none, template |-> none, refs |-> {}, sources |-> {}]
Idle == [phase |-> "idle", number |-> 0, project |-> none, form |-> EmptyPaint]

\* What a click waits for: who asked, in which session, under which entry.
Ticket(by) == [by |-> by, home |-> none, session |-> 0, entry |-> none, prompt |-> none,
               at |-> clicks]

ImageInit ==
  /\ paintIn = CHOOSE p \in ImageProjects : TRUE
  /\ paint = [p \in ImageProjects |-> EmptyPaint]
  /\ awaited = {}
  /\ paintRun = Idle
  /\ paintShown = [busy |-> FALSE, progress |-> 0, batch |-> 0]
  /\ gallery = {}
  /\ polish = [open |-> FALSE, session |-> 0, source |-> none, asked |-> {}, result |-> 0]
  /\ shelf = [open |-> FALSE, session |-> 0, entry |-> none, busy |-> FALSE,
              optimized |-> none]

---------------------------------------------------------------------------
(* The form.                                                               *)

Shown == paint[paintIn]
SetPaint(f) == paint' = [paint EXCEPT ![paintIn] = f]
NoDialog == ~polish.open /\ ~shelf.open

\* A click on the page itself: no dialog is on top of it.
Paints(f) ==
  /\ NoDialog
  /\ Spend(MaxImageClicks)
  /\ SetPaint(f)
  /\ UNCHANGED <<paintIn, awaited, paintRun, paintShown, gallery, polish, shelf, faults>>

\* Typing detaches the prompt from its template; so does applyImport with a
\* prompt, replaced or merged.
TypeImagePrompt == Paints([Shown EXCEPT !.prompt = "typed", !.template = none])

\* applyReferenceEntries; "append" keeps what is there.
Referenced(f, chosen, append) ==
  [f EXCEPT !.refs = chosen \cup IF append THEN @ ELSE {},
            !.sources = chosen \cup IF append THEN @ ELSE {}]

ApplyReferences(chosen, append) ==
  /\ chosen # {}
  /\ \A a \in chosen : a.home = paintIn
  /\ Paints(Referenced(Shown, chosen, append))

\* addReferenceAsset: the same picture is not added twice.
AddReferenceAsset(a) ==
  /\ a.home = paintIn
  /\ a \notin Shown.refs
  /\ Paints(Referenced(Shown, {a}, TRUE))

\* The record of a removed reference no longer names it.
RemoveReferenceAt(a) ==
  /\ a \in Shown.refs
  /\ Paints([Shown EXCEPT !.refs = @ \ {a}, !.sources = @ \ {a}])

RemoveReferences ==
  /\ Shown.refs # {}
  /\ Paints([Shown EXCEPT !.refs = {}, !.sources = {}])

\* load: what the record does not hold is cleared, never inherited.
LoadImageAsset(g) ==
  /\ g.project = paintIn
  /\ Paints([g.form EXCEPT !.template = none,
                           !.prompt = IF @ = none THEN none ELSE "typed"])

\* importExternalReferences: the files go to the project of the click.
ImportFiles ==
  /\ NoDialog
  /\ Spend(MaxImageClicks)
  /\ awaited' = awaited \cup {[Ticket("files") EXCEPT !.home = paintIn]}
  /\ UNCHANGED <<paintIn, paint, paintRun, paintShown, gallery, polish, shelf, faults>>

\* An imported file is not applied to the form of another project.
FilesImported(w) ==
  /\ w.by = "files"
  /\ awaited' = awaited \ {w}
  /\ \E a \in Paintings :
       /\ a.home = w.home
       /\ IF paintIn = w.home THEN SetPaint(Referenced(Shown, {a}, FALSE))
          ELSE UNCHANGED paint
  /\ UNCHANGED <<paintIn, paintRun, paintShown, gallery, polish, shelf, clicks, faults>>

\* A slow switch settles: results that have ended are no longer shown.
SwitchPaint(project) ==
  /\ project # paintIn
  /\ Spend(MaxImageClicks)
  /\ paintIn' = project
  /\ paintShown' = [paintShown EXCEPT !.batch = 0]
  /\ UNCHANGED <<paint, awaited, paintRun, gallery, polish, shelf, faults>>

---------------------------------------------------------------------------
(* The run.                                                                *)

PaintGoto(phase) == paintRun' = [paintRun EXCEPT !.phase = phase]

RunImage ==
  /\ NoDialog
  /\ Spend(MaxImageClicks)
  /\ Shown.prompt # none
  /\ ~paintShown.busy
  /\ paintRun' = [phase |-> "listen", number |-> paintRun.number + 1,
                  project |-> paintIn, form |-> Shown]
  /\ paintShown' = [paintShown EXCEPT !.busy = TRUE, !.progress = 0]
  /\ UNCHANGED <<paintIn, paint, awaited, gallery, polish, shelf, faults>>

\* The subscription, the task's row and the request, in this order; a failed
\* subscription does not stop the run.
RunAdvances ==
  /\ \/ paintRun.phase = "listen" /\ PaintGoto("persist")
     \/ paintRun.phase = "persist" /\ PaintGoto("request")
     \/ paintRun.phase = "request" /\ PaintGoto("save")
  /\ UNCHANGED <<paintIn, paint, awaited, paintShown, gallery, polish, shelf, clicks, faults>>

\* Steps of the backend, heard until generateImage unsubscribes.
RunProgress ==
  /\ paintRun.phase \in {"request", "save", "finish", "failing"}
  /\ paintShown' = [paintShown EXCEPT !.progress = paintRun.number]
  /\ UNCHANGED <<paintIn, paint, awaited, paintRun, gallery, polish, shelf, clicks, faults>>

\* The assets are new, saved and shown.
RunSaves ==
  /\ paintRun.phase = "save"
  /\ PaintGoto("finish")
  /\ gallery' = gallery \cup {[project |-> paintRun.project, form |-> paintRun.form]}
  /\ UNCHANGED <<paintIn, paint, awaited, paintShown, polish, shelf, clicks, faults>>

\* Anything but the subscription and the task's last row fails, or the service
\* returned nothing or a known asset.
ImageRunFails ==
  /\ paintRun.phase \in {"persist", "request", "save"}
  /\ Fault
  /\ PaintGoto("failing")
  /\ UNCHANGED <<paintIn, paint, awaited, paintShown, gallery, polish, shelf, clicks>>

\* The task's row is written, or only a log line; then the panel is free.
ImageRunEnds ==
  /\ paintRun.phase \in {"finish", "failing"}
  /\ PaintGoto("idle")
  /\ paintShown' = [busy |-> FALSE, progress |-> 0,
                    batch |-> IF paintRun.phase = "finish" THEN paintRun.number
                              ELSE paintShown.batch]
  /\ UNCHANGED <<paintIn, paint, awaited, gallery, polish, shelf, clicks, faults>>

---------------------------------------------------------------------------
(* OptimizePromptDialog: every opening and closing is a new session.       *)

OpenPolish ==
  /\ NoDialog
  /\ Shown.prompt # none
  /\ Spend(MaxImageClicks)
  /\ polish' = [polish EXCEPT !.open = TRUE, !.session = @ + 1,
                              !.source = Shown.prompt, !.result = 0]
  /\ UNCHANGED <<paintIn, paint, awaited, paintRun, paintShown, gallery, shelf, faults>>

PolishClosed == [polish EXCEPT !.open = FALSE, !.session = @ + 1, !.result = 0]

AskPolish ==
  /\ polish.open
  /\ polish.session \notin polish.asked
  /\ Spend(MaxImageClicks)
  /\ polish' = [polish EXCEPT !.asked = @ \cup {polish.session}]
  /\ UNCHANGED <<paintIn, paint, awaited, paintRun, paintShown, gallery, shelf, faults>>

\* Mutant of PolishAnswers: the answer of an earlier session is shown.
PolishAnswersAny(session) ==
  /\ session \in polish.asked
  /\ polish' = [polish EXCEPT !.asked = @ \ {session}, !.result = session]
  /\ UNCHANGED <<paintIn, paint, awaited, paintRun, paintShown, gallery, shelf,
                 clicks, faults>>

\* An answer for a session that is over is dropped.
PolishAnswers(session) ==
  /\ session \in polish.asked
  /\ polish' = [polish EXCEPT !.asked = @ \ {session},
                              !.result = IF session = polish.session THEN session ELSE @]
  /\ UNCHANGED <<paintIn, paint, awaited, paintRun, paintShown, gallery, shelf,
                 clicks, faults>>

ClosePolish ==
  /\ polish.open
  /\ Spend(MaxImageClicks)
  /\ polish' = PolishClosed
  /\ UNCHANGED <<paintIn, paint, awaited, paintRun, paintShown, gallery, shelf, faults>>

\* The prompt is replaced, the template stays: the result is made from it.
AdoptPolish ==
  /\ polish.open
  /\ polish.result # 0
  /\ SetPaint([Shown EXCEPT !.prompt = polish.source])
  /\ polish' = PolishClosed
  /\ UNCHANGED <<paintIn, awaited, paintRun, paintShown, gallery, shelf, clicks, faults>>

---------------------------------------------------------------------------
(* The prompt library.                                                     *)

OpenShelf ==
  /\ NoDialog
  /\ Spend(MaxImageClicks)
  /\ shelf' = [shelf EXCEPT !.open = TRUE, !.session = @ + 1]
  /\ UNCHANGED <<paintIn, paint, awaited, paintRun, paintShown, gallery, polish, faults>>

ShelfClosed == [shelf EXCEPT !.open = FALSE, !.session = @ + 1, !.entry = none,
                             !.busy = FALSE, !.optimized = none]

CloseShelf ==
  /\ shelf.open
  /\ Spend(MaxImageClicks)
  /\ shelf' = ShelfClosed
  /\ UNCHANGED <<paintIn, paint, awaited, paintRun, paintShown, gallery, polish, faults>>

OpenEntry(entry) ==
  /\ shelf.open
  /\ shelf.entry # entry
  /\ Spend(MaxImageClicks)
  /\ shelf' = [shelf EXCEPT !.entry = entry, !.optimized = none]
  /\ UNCHANGED <<paintIn, paint, awaited, paintRun, paintShown, gallery, polish, faults>>

RunOptimize ==
  /\ shelf.open
  /\ shelf.entry # none
  /\ ~shelf.busy
  /\ Spend(MaxImageClicks)
  /\ awaited' = awaited \cup {[Ticket("optimize") EXCEPT !.entry = shelf.entry]}
  /\ shelf' = [shelf EXCEPT !.busy = TRUE]
  /\ UNCHANGED <<paintIn, paint, paintRun, paintShown, gallery, polish, faults>>

\* The result belongs to the entry it was asked for; whatever the library waits
\* for by then, it is free again.
OptimizeAnswers(w) ==
  /\ w.by = "optimize"
  /\ awaited' = awaited \ {w}
  /\ shelf' = [shelf EXCEPT !.busy = FALSE,
                            !.optimized = IF shelf.entry = w.entry THEN w.entry ELSE @]
  /\ UNCHANGED <<paintIn, paint, paintRun, paintShown, gallery, polish, clicks, faults>>

OptimizeFails(w) ==
  /\ w.by = "optimize"
  /\ Fault
  /\ awaited' = awaited \ {w}
  /\ shelf' = [shelf EXCEPT !.busy = FALSE]
  /\ UNCHANGED <<paintIn, paint, paintRun, paintShown, gallery, polish, clicks>>

\* The picked prompt: the optimized text if there is one.  Its records start
\* over; its references stay unless the pick brings one.
Picked(f, entry, text, refs) ==
  [f EXCEPT !.prompt = text, !.template = entry, !.sources = refs,
            !.refs = IF refs = {} THEN @ ELSE refs]

PickPrompt ==
  /\ shelf.open
  /\ shelf.entry # none
  /\ ~shelf.busy
  /\ SetPaint(Picked(Shown, shelf.entry,
                     IF shelf.optimized = none THEN shelf.entry ELSE shelf.optimized, {}))
  /\ shelf' = ShelfClosed
  /\ UNCHANGED <<paintIn, awaited, paintRun, paintShown, gallery, polish, clicks, faults>>

\* pickAsReference: the picture is downloaded, then imported into the project
\* that is active by then, and applied if the library has not been closed.
PickAsReference ==
  /\ shelf.open
  /\ shelf.entry # none
  /\ ~shelf.busy
  /\ Spend(MaxImageClicks)
  /\ awaited' = awaited \cup
       {[Ticket("download") EXCEPT !.session = shelf.session, !.entry = shelf.entry,
                                   !.prompt = shelf.entry]}
  /\ shelf' = [shelf EXCEPT !.busy = TRUE]
  /\ UNCHANGED <<paintIn, paint, paintRun, paintShown, gallery, polish, faults>>

CaseDownloaded(w) ==
  /\ w.by = "download"
  /\ awaited' = (awaited \ {w}) \cup {[w EXCEPT !.by = "case", !.home = paintIn]}
  /\ UNCHANGED <<paintIn, paint, paintRun, paintShown, gallery, polish, shelf, clicks, faults>>

CaseImported(w) ==
  /\ w.by = "case"
  /\ awaited' = awaited \ {w}
  /\ IF w.session = shelf.session
     THEN /\ \E a \in Paintings :
               /\ a.home = w.home
               /\ SetPaint(Picked(Shown, w.entry, w.prompt, {a}))
          /\ shelf' = ShelfClosed
     ELSE UNCHANGED <<paint, shelf>>
  /\ UNCHANGED <<paintIn, paintRun, paintShown, gallery, polish, clicks, faults>>

FetchFails(w) ==
  /\ w.by # "optimize"
  /\ Fault
  /\ awaited' = awaited \ {w}
  /\ shelf' = [shelf EXCEPT !.busy = @ /\ w.session # shelf.session]
  /\ UNCHANGED <<paintIn, paint, paintRun, paintShown, gallery, polish, clicks>>

ImageNext ==
  \/ TypeImagePrompt \/ RemoveReferences \/ ImportFiles
  \/ \E chosen \in SUBSET Paintings, append \in BOOLEAN : ApplyReferences(chosen, append)
  \/ \E a \in Paintings : AddReferenceAsset(a) \/ RemoveReferenceAt(a)
  \/ \E g \in gallery : LoadImageAsset(g)
  \/ \E project \in ImageProjects : SwitchPaint(project)
  \/ RunImage \/ RunAdvances \/ RunProgress \/ RunSaves \/ ImageRunFails \/ ImageRunEnds
  \/ OpenPolish \/ AskPolish \/ ClosePolish \/ AdoptPolish
  \/ \E session \in polish.asked : PolishAnswers(session)
  \/ OpenShelf \/ CloseShelf \/ RunOptimize \/ PickPrompt \/ PickAsReference
  \/ \E entry \in Templates : OpenEntry(entry)
  \/ \E w \in awaited :
       \/ FilesImported(w) \/ CaseDownloaded(w) \/ CaseImported(w) \/ FetchFails(w)
       \/ OptimizeAnswers(w) \/ OptimizeFails(w)

ImageSpec == ImageInit /\ WindowInit /\ [][ImageNext]_imageVars

---------------------------------------------------------------------------
(* Properties.                                                             *)

\* The records a generated picture is traced by name references that are in its
\* form: no removal, replacement, pick or late import leaves a record behind.
SourcesBacked == \A p \in ImageProjects : paint[p].sources \subseteq paint[p].refs

\* What useGenerationStore.ts says of the template: it goes with the prompt.  A
\* form names a template only over a prompt that was made from it.
TemplateGoesWithPrompt ==
  \A p \in ImageProjects : paint[p].template \in {none, paint[p].prompt}

\* A late result is offered only where it was asked for: the dialog's in the
\* session of its request, the library's under the entry it was made from.
OffersBelong ==
  /\ polish.result \in {0, polish.session}
  /\ shelf.optimized \in {none, shelf.entry}

\* The panel shows the progress of the run under way and of no other.
ProgressIsCurrent ==
  paintShown.progress # 0 => paintShown.busy /\ paintShown.progress = paintRun.number
=============================================================================
