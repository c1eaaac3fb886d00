------------------------------ MODULE ComicDesk ------------------------------
(***************************************************************************)
(* The comic workspace of a chapter (components/novel/                     *)
(* MarkdownComicWorkspace.tsx, MarkdownDocumentEditor.tsx,                 *)
(* mdWorkspaceState.ts, ComicStyleReferencePanel.tsx,                      *)
(* store/useComicMdWorkspace.ts): a polled copy of what the backend holds, *)
(* an editor with a draft per document, drafts on older versions, the      *)
(* chapter's injection, the work's visual constitution with its reference  *)
(* pictures, and the commands that save them or start a job.               *)
(*                                                                         *)
(* The backend appears as these pages see it: a save is refused unless it  *)
(* names the newest revision, one job runs at a time, and a job saves its  *)
(* documents one by one until an edit stops it (module ComicJobs has the   *)
(* rest).                                                                  *)
(* Texts are numbers, each typed once; the chapter stays selected; older   *)
(* versions are read when they are opened.                                 *)
(***************************************************************************)
EXTENDS Window

CONSTANTS
  DocCount,        \* documents of the chapter, in the order they depend on each other
  OpCount,         \* saves and optimizations of editors that may be under way
  StylePictures,   \* pictures that may be the work's style references
  MaxComicClicks   \* bound on the user's operations

ASSUME ComicDeskAssumption ==
  DocCount \in Nat \ {0} /\ OpCount \in Nat \ {0} /\ MaxComicClicks \in Nat

VARIABLES
  comicStore, \* the backend: versions, outdated documents, asides, jobs
  page,       \* the copy of it on screen
  reading,    \* the latest read of it: superseded ones are not shown
  live,       \* the unsaved draft of each document, with the revision it is based on
  older,      \* drafts on older versions
  opened,     \* the version each editor shows, 0 for the draft
  editor,     \* the editor on screen
  ops,        \* what editors have under way
  notes,      \* unsaved injection, constitution and references, and their conflict
  upload,     \* the references on screen when an upload began
  action      \* what the workspace has under way

comicVars == <<comicStore, page, reading, live, older, opened, editor, ops, notes, upload,
               action, clicks, faults>>

Docs == 1..DocCount
Ops == 1..OpCount
Unsaid == [text |-> 0, base |-> 0]       \* no draft
NoPictures == {0}                        \* no draft of the references
NoOp == [kind |-> "none"]
NoProfile == [text |-> 0, references |-> {}, revision |-> 0]
Unsent == {"visual", "visualSaved", "before"}  \* the text is still to be sent
AtEase == [todo |-> <<>>]
Unasked == [job |-> 0]

Revision(s, d) == Len(s.versions[d])
HeadText(s, d) == Last(s.versions[d])
Running(s) == \E i \in DOMAIN s.jobs : s.jobs[i].status = "running"

\* hasMdDraftChanges: another text, or the same on an older revision.
Changed(draft, s, d) ==
  draft # Unsaid /\ (draft.text # HeadText(s, d) \/ draft.base # Revision(s, d))

Version == opened[editor.doc]
OlderDraft(d, v) == {o \in older : o.doc = d /\ o.version = v}

\* What the editor shows: a version, its draft, the draft or the newest version.
Visible ==
  LET d == editor.doc IN
  IF Version # 0
  THEN IF OlderDraft(d, Version) # {} THEN (CHOOSE o \in OlderDraft(d, Version) : TRUE).text
       ELSE comicStore.versions[d][Version]
  ELSE IF live[d] # Unsaid THEN live[d].text ELSE HeadText(page, d)

AnotherVersion ==
  Version # 0 /\ (Version # Revision(page, editor.doc) \/ Visible # HeadText(page, editor.doc))
DirtyEditor == Changed(live[editor.doc], page, editor.doc) \/ AnotherVersion
CanSave ==
  \/ editor.doc \in page.outdated \/ Visible # HeadText(page, editor.doc)
  \/ Version \notin {0, Revision(page, editor.doc)}

InjectionDirty ==
  notes.injection # Unsaid
    /\ notes.injection # [text |-> page.injection.text, base |-> page.injection.revision]
Constitution == IF notes.constitution # 0 THEN notes.constitution ELSE page.visual.text
References == IF notes.references # NoPictures THEN notes.references ELSE page.visual.references
VisualDirty == Constitution # page.visual.text \/ References # page.visual.references

\* What saveWorkVisual sends, and what it drops once that is saved, whatever was
\* typed since.
Profile ==
  [text |-> Constitution, references |-> References, revision |-> page.visual.revision]
WithoutVisual ==
  [notes EXCEPT !.constitution = 0, !.references = NoPictures, !.conflict = FALSE]

EditorBusy == \E i \in Ops : ops[i] # NoOp /\ ops[i].live
ComicClick == Spend(MaxComicClicks) /\ UNCHANGED faults
ComicIdle == UNCHANGED <<clicks, faults>>
Asked == reading' = [phase |-> "asked"]

---------------------------------------------------------------------------
(* The editor.                                                             *)

\* What a save would send now.
Submitted ==
  LET d == editor.doc IN
  [text |-> Visible, draft |-> live[d],
   expected |-> IF live[d] # Unsaid THEN live[d].base ELSE Revision(page, d)]

\* An editor that is left keeps what it showed; its saves go on without it.
OpenDocument(d) ==
  /\ ComicClick
  /\ d # editor.doc
  /\ editor' = [doc |-> d, epoch |-> 0, pending |-> Unasked]
  /\ ops' = [i \in Ops |-> IF ops[i] = NoOp \/ ~ops[i].live THEN ops[i]
                           ELSE [ops[i] EXCEPT !.live = FALSE, !.sent =
                                   IF ops[i].phase \in Unsent THEN Submitted ELSE @]]
  /\ UNCHANGED <<comicStore, page, reading, live, older, opened, notes, upload, action>>

Navigate(v) ==
  /\ ComicClick
  /\ ~EditorBusy
  /\ v # Version
  /\ opened' = [opened EXCEPT ![editor.doc] = v]
  /\ editor' = [editor EXCEPT !.epoch = @ + 1]
  /\ UNCHANGED <<comicStore, page, reading, live, older, ops, notes, upload, action>>

\* Typing is possible while a save or an optimization is under way.
EditComic ==
  LET d == editor.doc
      text == 10 + clicks
      base == IF live[d] # Unsaid THEN live[d].base ELSE Revision(page, d)
  IN /\ ComicClick
     /\ editor' = [editor EXCEPT !.epoch = @ + 1]
     /\ IF Version # 0
        THEN /\ older' = (older \ OlderDraft(d, Version))
                           \cup {[doc |-> d, version |-> Version, text |-> text]}
             /\ UNCHANGED live
        ELSE live' = [live EXCEPT ![d] = [text |-> text, base |-> base]] /\ UNCHANGED older
     /\ UNCHANGED <<comicStore, page, reading, opened, ops, notes, upload, action>>

\* The draft is kept, on the newest revision shown.
RebaseDraft ==
  LET d == editor.doc
      next == [live[d] EXCEPT !.base = Revision(page, d)]
  IN /\ ComicClick
     /\ Version = 0 /\ live[d] # Unsaid /\ live[d].base # Revision(page, d)
     /\ live' = [live EXCEPT ![d] = IF Changed(next, page, d) THEN next ELSE Unsaid]
     /\ UNCHANGED <<comicStore, page, reading, older, opened, editor, ops, notes, upload, action>>

\* persistVisible and optimize, as far as they are decided at the click.
Begin(kind, phase, visual) ==
  LET d == editor.doc
      ack == kind = "save" /\ d \in page.outdated /\ ~DirtyEditor
  IN \E i \in Ops :
       /\ ops[i] = NoOp /\ \A j \in 1..(i - 1) : ops[j] # NoOp
       /\ ops' = [ops EXCEPT ![i] =
            [kind |-> kind, live |-> TRUE, doc |-> d, version |-> Version, phase |-> phase,
             visual |-> visual, epoch |-> editor.epoch, ack |-> ack, sent |-> Submitted, shown |-> Revision(page, d),
             needed |-> \/ ack \/ AnotherVersion \/ Visible # HeadText(page, d)
                        \/ Version = 0 /\ Changed(live[d], page, d)]]

PressSaveText ==
  /\ ComicClick
  /\ ~EditorBusy /\ CanSave
  /\ Begin("save", "sent", NoProfile)
  /\ UNCHANGED <<comicStore, page, reading, live, older, opened, editor, notes, upload, action>>

\* The other documents an optimization goes on to rewrite must have no draft.
\* beforeOptimize saves the work's visual constitution first, as the click saw it.
ComicCascade(d) == d..DocCount
PressOptimizeText ==
  /\ ComicClick
  /\ ~EditorBusy /\ ~Running(page) /\ action = AtEase
  /\ \A e \in ComicCascade(editor.doc) \ {editor.doc} : ~Changed(live[e], page, e)
  /\ IF VisualDirty THEN ~notes.conflict /\ Begin("optimize", "visual", Profile)
                    ELSE Begin("optimize", "before", NoProfile)
  /\ UNCHANGED <<comicStore, page, reading, live, older, opened, editor, notes, upload, action>>

\* Refused when another save came first: the conflict is shown, the optimization over.
SaveVisualFirst(i) ==
  LET op == ops[i] IN
  /\ op # NoOp /\ op.phase = "visual"
  /\ IF op.visual.revision = comicStore.visual.revision
     THEN /\ comicStore' = [comicStore EXCEPT !.visual = [op.visual EXCEPT !.revision = @ + 1]]
          /\ ops' = [ops EXCEPT ![i].phase = "visualSaved"]
          /\ UNCHANGED <<notes, reading>>
     ELSE /\ notes' = [notes EXCEPT !.conflict = TRUE]
          /\ ops' = [ops EXCEPT ![i].phase = "refresh"] /\ Asked
          /\ UNCHANGED comicStore
  /\ ComicIdle /\ UNCHANGED <<page, live, older, opened, editor, upload, action>>

VisualSavedFirst(i) ==
  /\ ops[i] # NoOp /\ ops[i].phase = "visualSaved"
  /\ notes' = WithoutVisual
  /\ ops' = [ops EXCEPT ![i].phase = "before", ![i].visual = NoProfile]
  /\ ComicIdle /\ UNCHANGED <<comicStore, page, reading, live, older, opened, editor, upload, action>>

EndOp(i) == ops' = [ops EXCEPT ![i] = NoOp]

\* What is saved is what the editor shows by now.
SendText(i) ==
  /\ ops[i] # NoOp /\ ops[i].phase = "before"
  /\ ops' = [ops EXCEPT ![i].phase = IF ops[i].needed THEN "sent" ELSE "saved",
                        ![i].sent = IF ops[i].live THEN Submitted ELSE @]
  /\ ComicIdle /\ UNCHANGED <<comicStore, page, reading, live, older, opened, editor, notes, upload, action>>

\* The backend takes the save when it names the newest revision; what depends on
\* the document is outdated from then on.
TakeText(i) ==
  LET op == ops[i]
      d == op.doc
      expected == IF op.version = 0 THEN op.sent.expected ELSE op.shown
  IN /\ op # NoOp /\ op.phase = "sent"
     /\ IF expected = Revision(comicStore, d)
        THEN /\ comicStore' = [comicStore EXCEPT !.versions[d] = Append(@, op.sent.text),
                  !.outdated = (IF op.ack THEN @ \ {d} ELSE @) \cup (d + 1 .. DocCount)]
             /\ ops' = [ops EXCEPT ![i].phase = "answer", ![i].shown = Revision(comicStore, d) + 1]
        ELSE EndOp(i) /\ UNCHANGED comicStore
     /\ ComicIdle /\ UNCHANGED <<page, reading, live, older, opened, editor, notes, upload, action>>

\* Mutant of Settled: the answer of a save clears the draft as it is now.
SettledBlindly(draft, submitted, revision) == Unsaid

\* After a save the submitted draft goes and a newer one is kept on the new revision.
Settled(draft, submitted, revision) ==
  IF draft = submitted \/ draft = Unsaid THEN Unsaid ELSE [draft EXCEPT !.base = revision]

AnswerText(i) ==
  LET op == ops[i]
      d == op.doc
      typed == Visible
  IN /\ op # NoOp /\ op.phase = "answer"
     /\ IF ~op.live THEN EndOp(i) /\ UNCHANGED <<live, older, opened, reading>>
        ELSE /\ Asked
             /\ ops' = [ops EXCEPT ![i].phase = IF op.kind = "save" THEN "refresh" ELSE "saved"]
             /\ IF op.version = 0
                THEN /\ live' = [live EXCEPT ![d] = Settled(@, op.sent.draft, op.shown)]
                     /\ UNCHANGED <<older, opened>>
                ELSE /\ opened' = [opened EXCEPT ![d] = op.shown]
                     /\ older' = IF typed = op.sent.text THEN older
                                 ELSE older \cup {[doc |-> d, version |-> op.shown, text |-> typed]}
                     /\ UNCHANGED live
     /\ ComicIdle /\ UNCHANGED <<comicStore, page, editor, notes, upload, action>>

\* The job is asked for only by an editor still on screen, on the saved revision.
Admits(s) == ~Running(s)
Job(kind, d, targets) ==
  [kind |-> kind, doc |-> d, status |-> "running", targets |-> targets,
   revisions |-> [e \in Docs |-> Revision(comicStore, e)]]
StillOpen(i) == ops[i].live
SubmitOptimize(i) ==
  LET op == ops[i]
      d == op.doc
  IN /\ op # NoOp /\ op.phase = "saved"
     /\ IF StillOpen(i) /\ Admits(comicStore) /\ op.shown = Revision(comicStore, d)
        THEN /\ comicStore' = [comicStore EXCEPT !.jobs = Append(@, Job("optimize", d, ComicCascade(d)))]
             /\ editor' = IF op.live
                          THEN [editor EXCEPT !.pending = [job |-> Len(comicStore.jobs) + 1,
                                                           revision |-> op.shown, epoch |-> op.epoch]]
                          ELSE editor
             /\ ops' = [ops EXCEPT ![i].phase = "refresh"] /\ Asked
        ELSE EndOp(i) /\ UNCHANGED <<comicStore, editor, reading>>
     /\ ComicIdle /\ UNCHANGED <<page, live, older, opened, notes, upload, action>>

EndRefresh(i) ==
  /\ ops[i] # NoOp /\ ops[i].phase = "refresh"
  /\ EndOp(i)
  /\ ComicIdle /\ UNCHANGED <<comicStore, page, reading, live, older, opened, editor, notes, upload, action>>

---------------------------------------------------------------------------
(* The backend's jobs and the polled copy.                                 *)

\* A job saves the first of the documents it has left, while nothing it was
\* prompted with was edited since it was admitted, other than by itself. What
\* depends on the document is outdated until its turn comes.
AfterSaving(job, d) == [job EXCEPT !.targets = @ \ {d}, !.revisions[d] = @ + 1]
Watched(job) == IF job.kind = "generate" THEN 1..job.doc ELSE Docs
JobSaves ==
  \E i \in DOMAIN comicStore.jobs :
    LET job == comicStore.jobs[i] IN
    \E d \in job.targets :
      /\ job.status = "running" /\ \A e \in job.targets : d <= e
      /\ \A e \in Watched(job) : job.revisions[e] = Revision(comicStore, e)
      /\ comicStore' = [comicStore EXCEPT
           !.versions[d] = Append(@, 100 + 10 * i + d),
           !.outdated = (@ \ {d}) \cup (d + 1 .. DocCount),
           !.jobs[i] = AfterSaving(job, d)]
      /\ ComicIdle /\ UNCHANGED <<page, reading, live, older, opened, editor, ops, notes, upload, action>>

\* It fails at an edit, a refused text or a closed program, and keeps what it
\* has saved; pictures are not followed here.
JobEnds ==
  \E i \in DOMAIN comicStore.jobs, status \in {"succeeded", "failed"} :
    /\ comicStore.jobs[i].status = "running"
    /\ status = "succeeded" => comicStore.jobs[i].targets = {}
    /\ comicStore' = [comicStore EXCEPT !.jobs[i].status = status]
    /\ ComicIdle /\ UNCHANGED <<page, reading, live, older, opened, editor, ops, notes, upload, action>>

Poll ==
  /\ page # comicStore /\ reading.phase = "none"
  /\ Asked
  /\ ComicIdle /\ UNCHANGED <<comicStore, page, live, older, opened, editor, ops, notes, upload, action>>

ReadWorkspace ==
  /\ reading.phase = "asked"
  /\ reading' = [phase |-> "read", copy |-> comicStore]
  /\ ComicIdle /\ UNCHANGED <<comicStore, page, live, older, opened, editor, ops, notes, upload, action>>

\* A finished optimization opens its result when the user has done nothing since:
\* over a draft as an opened version, otherwise as the current text.
ShowWorkspace ==
  LET next == reading.copy
      d == editor.doc
      p == editor.pending
      ended == p # Unasked /\ next.jobs[p.job].status # "running"
      show == /\ ended /\ next.jobs[p.job].status = "succeeded"
              /\ Revision(next, d) > p.revision /\ editor.epoch = p.epoch
  IN /\ reading.phase = "read"
     /\ reading' = [phase |-> "none"]
     /\ page' = next
     /\ editor' = IF ended THEN [editor EXCEPT !.pending = Unasked] ELSE editor
     /\ opened' = IF show THEN [opened EXCEPT ![d] = IF Changed(live[d], next, d)
                                                     THEN Revision(next, d) ELSE 0]
                  ELSE opened
     /\ ComicIdle /\ UNCHANGED <<comicStore, live, older, ops, notes, upload, action>>

---------------------------------------------------------------------------
(* Injection, constitution and references.                                 *)

TypeInjection ==
  /\ ComicClick
  /\ notes' = [notes EXCEPT !.injection = [text |-> 10 + clicks, base |->
                 IF @ # Unsaid THEN @.base ELSE page.injection.revision]]
  /\ UNCHANGED <<comicStore, page, reading, live, older, opened, editor, ops, upload, action>>

RebaseInjection ==
  /\ ComicClick
  /\ notes.injection # Unsaid /\ notes.injection.base # page.injection.revision
  /\ notes' = [notes EXCEPT !.injection.base = page.injection.revision]
  /\ UNCHANGED <<comicStore, page, reading, live, older, opened, editor, ops, upload, action>>

\* The constitution can be typed whatever is under way.
TypeConstitution ==
  /\ ComicClick
  /\ notes' = [notes EXCEPT !.constitution = 10 + clicks]
  /\ UNCHANGED <<comicStore, page, reading, live, older, opened, editor, ops, upload, action>>

Disabled == action # AtEase \/ Running(page)
PickReferences(pictures) ==
  /\ ComicClick
  /\ ~Disabled /\ pictures # References
  /\ notes' = [notes EXCEPT !.references = pictures]
  /\ UNCHANGED <<comicStore, page, reading, live, older, opened, editor, ops, upload, action>>

\* Pictures from disk are added to the references there were at the click.
UploadReferences ==
  /\ ComicClick
  /\ ~Disabled /\ upload = NoPictures
  /\ upload' = References
  /\ UNCHANGED <<comicStore, page, reading, live, older, opened, editor, ops, notes, action>>
ReferencesUploaded(p) ==
  /\ upload # NoPictures
  /\ notes' = [notes EXCEPT !.references = upload \cup {p}]
  /\ upload' = NoPictures
  /\ ComicIdle /\ UNCHANGED <<comicStore, page, reading, live, older, opened, editor, ops, action>>

\* After a conflict: the server's text, or the draft on the newest revision.
ResolveConflict(keep) ==
  /\ ComicClick
  /\ notes.conflict
  /\ notes' = IF keep THEN [notes EXCEPT !.conflict = FALSE]
              ELSE [notes EXCEPT !.conflict = FALSE, !.constitution = 0, !.references = NoPictures]
  /\ UNCHANGED <<comicStore, page, reading, live, older, opened, editor, ops, upload, action>>

---------------------------------------------------------------------------
(* The workspace's buttons: one command at a time, in steps.               *)

\* Of the constitution what the click saw is saved, of the injection what is typed
\* by then. Pages with a draft are not rendered, targets with a draft not synced.
Press(todo) ==
  /\ ComicClick
  /\ action = AtEase
  /\ action' = [todo |-> todo, sent |-> Unsaid, page |-> page, doc |-> editor.doc,
                constitution |-> Constitution, references |-> References,
                dirty |-> VisualDirty, injection |-> InjectionDirty, conflict |-> notes.conflict]
  /\ UNCHANGED <<comicStore, page, reading, live, older, opened, editor, ops, notes, upload>>

Clean(d) == ~Changed(live[d], page, d)
PressSaveInjection == InjectionDirty /\ Press(<<"injection">>)
PressSaveVisual == ~Disabled /\ VisualDirty /\ ~notes.conflict /\ Press(<<"visual">>)
PressExtract == ~Disabled /\ References # {} /\ ~notes.conflict /\ Press(<<"visual", "extract">>)
PressComicGenerate == ~Disabled /\ Press(<<"visual", "generate">>)
PressRender ==
  /\ ~Disabled /\ Clean(DocCount) /\ DocCount \notin page.outdated
  /\ Press(<<"injection", "visual", "render">>)
PressSync ==
  /\ ~Disabled /\ page.outdated # {} /\ \A d \in page.outdated : Clean(d)
  /\ Press(<<"sync">>)

Doing(step) == action # AtEase /\ action.todo # <<>> /\ action.todo[1] = step
Proceed == action' = [action EXCEPT !.todo = Tail(@), !.sent = Unsaid]
GiveUp == action' = [action EXCEPT !.todo = <<>>]

InjectionStep ==
  /\ Doing("injection") /\ action.sent = Unsaid
  /\ IF ~action.injection THEN Proceed /\ UNCHANGED comicStore
     ELSE IF notes.injection.base # comicStore.injection.revision
     THEN GiveUp /\ UNCHANGED comicStore
     ELSE /\ comicStore' = [comicStore EXCEPT !.injection =
                              [text |-> notes.injection.text, revision |-> @.revision + 1]]
          /\ action' = [action EXCEPT !.sent = notes.injection,
                                      !.page.injection.revision = comicStore.injection.revision + 1]
  /\ ComicIdle /\ UNCHANGED <<page, reading, live, older, opened, editor, ops, notes, upload>>

InjectionSaved ==
  /\ Doing("injection") /\ action.sent # Unsaid
  /\ notes' = [notes EXCEPT !.injection = Settled(@, action.sent, action.page.injection.revision)]
  /\ Proceed
  /\ ComicIdle /\ UNCHANGED <<comicStore, page, reading, live, older, opened, editor, ops, upload>>

\* Taken or refused; a refusal shows the conflict and reads the workspace again.
VisualStep ==
  /\ Doing("visual") /\ action.sent = Unsaid
  /\ IF ~action.dirty THEN Proceed /\ UNCHANGED <<comicStore, notes>>
     ELSE IF action.conflict THEN GiveUp /\ UNCHANGED <<comicStore, notes>>
     ELSE IF action.page.visual.revision # comicStore.visual.revision
     THEN GiveUp /\ notes' = [notes EXCEPT !.conflict = TRUE] /\ UNCHANGED comicStore
     ELSE /\ comicStore' = [comicStore EXCEPT !.visual =
               [text |-> action.constitution, references |-> action.references,
                revision |-> @.revision + 1]]
          /\ action' = [action EXCEPT !.sent = [text |-> action.constitution, base |-> 1]]
          /\ UNCHANGED notes
  /\ ComicIdle /\ UNCHANGED <<page, reading, live, older, opened, editor, ops, upload>>

VisualSaved ==
  /\ Doing("visual") /\ action.sent # Unsaid
  /\ notes' = WithoutVisual
  /\ Proceed
  /\ ComicIdle /\ UNCHANGED <<comicStore, page, reading, live, older, opened, editor, ops, upload>>

ExtractStep ==
  /\ Doing("extract")
  /\ notes' = [notes EXCEPT !.constitution = 200 + clicks]
  /\ Proceed
  /\ ComicIdle /\ UNCHANGED <<comicStore, page, reading, live, older, opened, editor, ops, upload>>

\* The backend starts a job, or refuses: one is running, or what it names is old.
JobStep ==
  LET step == action.todo[1]
      current == \A d \in Docs : Revision(action.page, d) = Revision(comicStore, d)
      fits == CASE step = "generate" -> TRUE
                [] step = "render"   -> /\ action.page.injection.revision = comicStore.injection.revision
                                        /\ Revision(action.page, DocCount) = Revision(comicStore, DocCount)
                [] step = "sync"     -> current /\ action.page.outdated = comicStore.outdated
      targets == CASE step = "generate" -> {action.doc}
                   [] step = "render"   -> {}
                   [] step = "sync"     -> comicStore.outdated
  IN /\ \/ Doing("generate") \/ Doing("render") \/ Doing("sync")
     /\ comicStore' = IF fits /\ Admits(comicStore)
                      THEN [comicStore EXCEPT !.jobs = Append(@, Job(step, action.doc, targets))]
                      ELSE comicStore
     /\ GiveUp
     /\ ComicIdle /\ UNCHANGED <<page, reading, live, older, opened, editor, ops, notes, upload>>

EndAction ==
  /\ action # AtEase /\ action.todo = <<>>
  /\ action' = AtEase /\ Asked
  /\ ComicIdle /\ UNCHANGED <<comicStore, page, live, older, opened, editor, ops, notes, upload>>

---------------------------------------------------------------------------
ComicStart(r) ==
  [versions |-> [d \in Docs |-> <<d>>], outdated |-> {}, jobs |-> <<>>,
   injection |-> [text |-> r, revision |-> r],
   visual |-> [text |-> r, references |-> {}, revision |-> r]]

\* The workspace may have been read before the last saves of its previous visit
\* were taken.
ComicInit ==
  /\ \E r \in 1..2 : comicStore = ComicStart(r)
  /\ page = ComicStart(1) /\ reading = [phase |-> "none"]
  /\ live = [d \in Docs |-> Unsaid] /\ older = {} /\ opened = [d \in Docs |-> 0]
  /\ editor = [doc |-> 1, epoch |-> 0, pending |-> Unasked]
  /\ ops = [i \in Ops |-> NoOp]
  /\ notes = [injection |-> Unsaid, constitution |-> 0, references |-> NoPictures, conflict |-> FALSE]
  /\ upload = NoPictures /\ action = AtEase

ComicNext ==
  \/ \E d \in Docs : OpenDocument(d)
  \/ \E v \in 0..Revision(page, editor.doc) : Navigate(v)
  \/ EditComic \/ RebaseDraft \/ PressSaveText \/ PressOptimizeText
  \/ \E i \in Ops : SaveVisualFirst(i) \/ VisualSavedFirst(i)
  \/ \E i \in Ops : SendText(i) \/ TakeText(i) \/ AnswerText(i) \/ SubmitOptimize(i) \/ EndRefresh(i)
  \/ JobSaves \/ JobEnds \/ Poll \/ ReadWorkspace \/ ShowWorkspace
  \/ TypeInjection \/ RebaseInjection \/ TypeConstitution \/ UploadReferences
  \/ \E s \in SUBSET StylePictures : PickReferences(s)
  \/ \E p \in StylePictures : ReferencesUploaded(p)
  \/ \E keep \in BOOLEAN : ResolveConflict(keep)
  \/ PressSaveInjection \/ PressSaveVisual \/ PressExtract \/ PressComicGenerate \/ PressRender \/ PressSync
  \/ InjectionStep \/ InjectionSaved \/ VisualStep \/ VisualSaved \/ ExtractStep \/ JobStep \/ EndAction

ComicSpec == ComicInit /\ WindowInit /\ [][ComicNext]_comicVars

---------------------------------------------------------------------------
ComicTypeOK ==
  /\ DOMAIN live = Docs /\ DOMAIN opened = Docs /\ DOMAIN ops = Ops
  /\ \A d \in Docs : live[d].base \in 0..Revision(comicStore, d) /\ opened[d] \in 0..Revision(comicStore, d)
  /\ \A d \in Docs : Revision(page, d) <= Revision(comicStore, d)
  /\ page.outdated \subseteq Docs /\ editor.doc \in Docs

SavedText(s, d) == {s.versions[d][r] : r \in DOMAIN s.versions[d]}

\* What was typed into a document or into the injection goes away only when the
\* user changes it or when the backend has saved it: the answer to a save, a
\* finished optimization or a poll never takes newer text along.
TypingIsKept ==
  [][clicks' = clicks =>
       /\ \A d \in Docs : live[d] # Unsaid /\ live'[d].text # live[d].text
                            => live[d].text \in SavedText(comicStore', d)
       /\ \A o \in older : o \in older'
       /\ notes.injection # Unsaid /\ notes'.injection.text # notes.injection.text
            => notes.injection.text = comicStore'.injection.text]_comicVars

\* An optimization that goes on to rewrite other documents is submitted only
\* when none of them holds unsaved typing, however long its own save took.
SubmittedOverClean ==
  [][Len(comicStore'.jobs) > Len(comicStore.jobs) /\ Last(comicStore'.jobs).kind = "optimize" =>
       LET d == Last(comicStore'.jobs).doc IN
       \A e \in ComicCascade(d) \ {d} :
         live[e] = Unsaid \/ live[e].text \in SavedText(comicStore, e)]_comicVars
=============================================================================
