# Verification of Image-Client

Image-Client is a desktop application (Wails 2: a Go backend in `src/internal`,
a React window in `src/src`) that produces images, videos and comics from novels
with paid AI services. It keeps its projects in one local SQLite database. This
directory holds TLA+ models of its core logic, the TLC runs that check them on
small instances and the TLAPS proofs of what holds for every instance.

Three parts are modelled, those where a mistake costs the user money or work:

- the **comic workspace** of the backend (`internal/comic`). A background job
  reads the documents of a novel chapter, calls a paid text or image service for
  minutes without holding the database, and writes documents and images beside a
  user who goes on editing;
- the **window** (`src/src`). Its stores, panels and dialogs await the backend
  between almost any two statements; the user, who never waits, switches
  projects, closes dialogs, types and clicks again before the answer is there;
- the **services of the backend** beside them: the novel commands with their
  receipts (`internal/novel`), the video task with its resumed download
  (`internal/gen/video.go`, `platform/download.go`) and the upgrade of the
  database (`store/migrate.go`), where calls are repeated, connections drop and
  the process dies between two steps.

## 1. Inventory

| Component | State | Operations | Talks to |
|---|---|---|---|
| Job lifecycle (`comic/comic.go`, `store.go`) | rows of `comic_md_jobs`; one goroutine per row; `closed` and the service context | admission (`insertJob`), `start`, `withJob`, `finish`, `interrupt`, `Close`, `Recover` | shell (startup, shutdown), text service |
| Document lineage (`comic/lineage.go`, `markdown.go`, `store.go`) | `comic_md_documents`, `comic_md_revisions`, the receipt of each document | `saveDocument`; derived: stale, out of plan, plan, guard, context | novel chapters, visual profile |
| Text jobs (`comic/jobs.go`, `sync.go`) | frozen inputs, targets, guard, authorized documents of each goroutine | generate, optimize, sync; their refusals, saves and progress | lineage, text service |
| Rendering (`comic/render.go`, `visual.go`) | image rows and files, per-job reference snapshots, digest cache | render, save visual profile, import references | image service, media |
| Novel works (`novel/*.go`) | works, chapters, numbered revisions, receipts of idempotent commands | create a work, save a chapter text; list, read | comic (source revision) |
| Video tasks (`gen/video.go`) | remote task id, poll state | create once, poll with back-off, download | provider, download |
| Download (`platform/download.go`) | bytes received, validator, attempt | resume, start afresh, give up | HTTP server |
| Migration (`store/migrate.go`) | schema version, backups | refuse newer, back up, migrate, prune | startup |
| History feed (`store/history.go`) | revision, acknowledged revision, listener | publish, acknowledge, status | REST, window |
| Media (`media/*.go`) | asset files and rows, hosting settings, prompt library cache | import, promote, delete, publish | database, disk, network |
| Settings (`config/*.go`) | one settings file | validate, merge, save | window, REST |
| REST interface (`restapi/*.go`) | listener, running requests | start, drain, shutdown, handlers | gen, media, history |
| Shell (`app/*.go`, `ipc/*.go`, `main.go`) | services, closers, instance lock | wire, serve, shut down | all |
| Projects (`store/useProjectStore.ts`, `projectDrafts.ts`, `App.tsx`) | list, active project, write chain, forms on screen, stashed drafts, queued imports | load, create, remove, switch, save settings, hand over a storyboard | SQL bridge, both panels |
| Library (`store/useLibraryStore.ts`, `lib/dbWrite.ts`, `App.tsx`) | assets and tasks in memory and in rows, the reload and the startup under way, acknowledged revision | persist, add, update, reload, load again, listen | history feed, all pages |
| Video panel (`pages/VideoPanel.tsx`, `lib/generateVideo.ts`, `useVideoStore.ts`, `useRunStore.ts`) | form, models, import records, runs, resume offer | edit, validate, run, resume, retry, import references | library, hosting, provider |
| Image panel (`pages/GeneratePanel.tsx`, `lib/generate.ts`, prompt library) | form, template, records, run, dialogs | edit, import, run, optimize a prompt, pick a case | library, provider, text service |
| Storyboard workflow (`components/video`, `lib/documents.ts`, `lib/video`) | versions, drafts, reviews, chosen versions | generate, optimize, review, save, discard, gate | text service, library, video form |
| Comic page (`components/novel/Markdown*`, `useComicMdWorkspace.ts`) | polled workspace, drafts, editor, injection, constitution | poll, edit, save, optimize, generate, render, sync | text jobs, rendering |
| Novel manager (`NovelAssetManager.tsx`, `lib/novel/api.ts`) | works, chapters, draft, local storage | read, edit, save, publish | novel, library |
| Asset centre (`AssetsPage.tsx`, `AssetDetailModal.tsx`, `AssetPicker.tsx`) | item shown, draft, its work, scope, sources | open, edit, save, optimize, pick | library, text service |
| Settings page (`SettingsPage.tsx`, `lib/settings.ts`) | profiles, default, dirty, busy | read, edit, save, set default | settings row, backend |
| Agents and prompts (`useAgentStore.ts`, `PromptManager.tsx`) | agents, versions | edit, toggle, save | settings row |

What is hard in it:

- *Interleaving.* The user edits documents, chapters, the visual profile and the
  render options while a job waits for its answer; two commands may admit jobs
  at the same time.
- *Atomicity.* A job's reads (admission, before each call) and its write are
  separate transactions; between them everything may change. Some reads happen
  after the write committed (the next guard of a cascade).
- *Failure.* The service fails, truncates or answers nonsense; a goroutine
  panics; the database refuses the last write of a job; the process is killed.
- *Termination.* A sync plans again after every save and buys the next document
  until its plan is empty.
- *Stale answers.* In the window an answer may find another project, another
  dialog session, another version or newer typing than the request left behind;
  each handler decides alone what it may still change.
- *Copies.* The library in memory, the polled comic workspace, the settings form
  and the manager's chapters are copies of rows that others write too.

`PROJECT.json` lists every hazard at its line. What makes each component
correct: one paid job per work at a time and no abandoned row (lifecycle); a
document is current exactly while its upstream reads as it did when it was
written (lineage); nothing of the user is overwritten, nothing is bought twice
and the reported outcome is true (text jobs); one image per checked page and no
orphan files (rendering); one effect per command key and strictly increasing
revisions (novel); one provider task per request (video); never a file joined
from two versions (download); old or new schema with a good backup (migration);
forms, drafts and references stay with their project (projects); what is
acknowledged has been shown, and no reload takes it away (library); no shot is paid twice or skipped unpaid, and
what the button allows is accepted (video panel); an open gate stands for a
reviewed, current chain (storyboard); a late answer never lands on something
else and never takes typing along (all dialogs); a form that says it is saved is
saved (settings).

## 2. Modules

| Module | Models | Runs |
|---|---|---|
| `JobLedger` | life of a job row, its goroutine and the process, whatever it computes | `backend` |
| `Lineage` | receipts, staleness, guard, plan, document save (pure operators) | through `ComicJobs` |
| `ComicJobs` | the three text jobs beside the user; implements `JobLedger` | `comic_*` |
| `ComicRender` | rendering of pages: frozen inputs, reference folder, paid images, files and rows; implements `JobLedger` | `comic_render*` |
| `ReceiptBook` | what the novel commands promise: one effect per key, one answer, numbered texts (abstract) | `backend` |
| `NovelCommands` | those commands, statement by statement, with receipts, rollbacks and crashes; implements `ReceiptBook` | `backend` |
| `Download` | a download that is retried and resumed, beside a server that replaces files | `backend` |
| `VideoTask` | a video task, created, polled and fetched (extends `Download`) | `backend` |
| `SchemaUpgrade` | backup, pruning and migrations of the database | `backend` |
| `Window` | what the window's components share: clicks and failing answers | through the others |
| `Projects` | write chain, switches, forms and their drafts | `window` |
| `Library` | memory, rows, reload, the startup's own read, history events | `window`, `video_resume` |
| `VideoStudio` | paid video runs, resume and retry (extends `Library`) | `window`, `video_resume` |
| `VideoForm` | the video form, its models and its two validators | `window` |
| `MediaImport` | uploading and importing references | `window` |
| `ImageStudio` | image form, runs, prompt dialog and library | `window` |
| `Storyboard` | staged documents, drafts, reviews, the gate | `window`, `story_typing` |
| `ComicDesk` | the comic page over a polled workspace | `window` |
| `AssetDesk` | asset centre, asset dialog, picker | `window` |
| `NovelDesk` | the novel manager, its drafts, publication | `window`, `novel_publish` |
| `Settings` | the settings page | `window` |
| `BackendProofs` | theorems about the rows of jobs, the novel commands, the video task and its download, the upgrade | |
| `LineageProofs` | lemmas and theorems about the operators of `Lineage` | |
| `ComicJobsProofs` | the text jobs implement `JobLedger`; what they read, save, bill and report | |
| `ComicRenderProofs` | renders implement `JobLedger`; theorems about their folders, images, files and progress | |
| `PanelProofs`, `DeskProofs`, `NovelProofs`, `ComicDeskProofs` | theorems of the window (`MediaImport`, `ImageStudio`, `VideoStudio` and `Library`, `VideoForm`, `Storyboard`; `AssetDesk`, `Settings`, `Projects`; `NovelDesk`; `ComicDesk`) | |
| `MCBackend`, `MCComicJobs`, `MCComicRender`, `MCWindow`, `MCVideo`, `MCStory`, `MCNovel` | small instances | |

### JobLedger

`status`, `work` are columns of `comic_md_jobs`; `worker` is the goroutine:
`admitted` between the commit of the admission and `start`, `active`, `calling`
while a request is at the provider. `app` is `open`, `closing` after `Close` set
`closed` and cancelled the context, `down` when the process is gone. `lost`
remembers the jobs whose last write failed. A crash is `Stop` at any moment; the
instance lock (`platform/lock.go`) is why there is one process, and `wire.go`
calls `Recover` before any command is registered, so `Restart` is one step.

### Lineage

A document is a slot `<<chapter, kind, page>>` (settings belong to the work). A
Markdown body is a number: `Part` is the section later prompts inherit,
`Complete` whether `validate` finds no issue, `PageList` the pages a storyboard
lists. A book (`Books`) has a body in every row and settings without a receipt.
A receipt is the set of upstream hashes. `staleDocuments` is the loop of
`loadBook`, as a function that is defined from documents further upstream, which
the loop has decided before; `guard`, `planTargets`, `missingPages` and
`planBlocked` are `book.guard` and `book.plan`. Equal hashes stand for equal
content. Receipts written by the previous version of the application
(`decodeLegacy`) are not modelled.

### ComicJobs

One work. `pc` says where a goroutine stands and `task` holds its locals:

    admitted -> (authorize) -> ready -> checked -> calling -> kept -> applied -> ready ... -> done -> idle

- admission (`Generate`, `Optimize`, `Sync`) is one transaction: it reads the
  book, refuses or freezes, and inserts the row;
- `CheckContext` and `SubmitOptimization`/`SubmitSync` are the check of the
  context and the preflight before each call; `Submit` is the request;
- `CallFails`, `UnusableAnswer`, `KeepOutput` are the ways a call returns. The
  answer's bodies are arbitrary: incomplete ones, other pages than asked;
- `Apply...` is the IMMEDIATE transaction that checks again and saves;
- `Reguard` and `Extend` are the reads after that transaction;
- `Panic`, `StorageFails`, `LoseJob`, `Close`, `Stop`, `Restart` may come
  between any two of them, and so may every edit of the user.

`billed`, and `read`, `touched`, `since` of `task`, are history variables: no
guard reads them.

Merged steps: the small reads at the end of a sync update (`Extend`) are one
step, and so are the saves of the pages of one generation, which are in one
transaction. `Authorize` may see nothing, because the code ignores that read's
error.

### ComicRender

One chapter and the render jobs of its work. A render goes through

    frozen -> admitted -> ready -> checked -> calling -> kept -> ready ... -> done -> leaving -> idle

- `Admit` is the transaction of `render`: it accepts pages that are current, in
  plan and complete, reads the reference file against its saved digest and
  freezes pages, injection, profile revision and references in `task`;
- `Materialize` copies the reference into the job's folder (`snapshots`) after
  that transaction, reading the file again; `Start` runs the goroutine;
- `CheckContext`, `Submit` are the context check and the check of the page before
  each paid call; `SaveAsset` is the provider client writing one image file
  (`disk`), `Returned` and `CallFails` end the call;
- `InsertRows` is the transaction that inserts the rows (`images`) and counts the
  page; `RemoveReferences`, `Finish`, `Leave` end the job, its folder and the
  files without rows;
- `Panic`/`Recovered`, `StorageFails`, `LoseJob`, `Close`, `Stop`, `Restart` as
  before.

The user saves pages, edits anything upstream, the injection and the profile,
and replaces the reference file on disk (`ReplaceFile`, outside the program).
What is upstream of a page is one flag, `current`: how it is computed is
`Lineage`. The work's references are one image, its content a number with zero
for a missing file. `cache` is the digest the workspace believes in
(`digestCache`): a file replaced with the same size and modification time keeps
its old digest. The prompt injection of a single rerun is left out, since the
staleness of an image does not look at it. `requests`, `abandoned` and `since`
are history variables; no guard reads them.

### NovelCommands and ReceiptBook

`calls` are the calls of the two writing commands; a caller that hears nothing,
or an error, may call again under the same key, which is another member of
`Calls`. `db` are the committed tables, `draft` what the open IMMEDIATE
transaction sees, `tx` that transaction: whose it is, its next statement and what
the statements before found. A new identifier is the call that made it, since a
call makes at most one work, one chapter and one revision.

    text: check -> receipt -> chapter -> revision -> point -> save -> commit
    work:          receipt -> work -> save -> commit

`LookUpReceipt` is the first half of `withReceipt` (a repeat goes straight to
`commit` with the stored answer, another payload is refused), `SaveReceipt` the
second. `StatementFails` rolls back at any statement, `Crash` ends the process
with every call it has not answered. A request's hash is the request.
`ReceiptBook` has no transactions, statements, versions or pointers: a command
takes effect in one step, once under its key, a text goes to the end of its
chapter's list, and a caller hears the answer of that step or an error.
`KeepsTheBook` says that `NovelCommands` implements it.

### Download and VideoTask

The unit `i` of a version `v` of the content is `<<v, i>>`, so a body that joins
two versions, or has a gap, shows. `fetch` holds the variables of `Download` and
of the attempt under way; `Retry` is the end of an attempt in its loop. What
decides the next attempt is the answer: `Resume` (206 from where the body
stops), `StartAfresh` (206 from elsewhere, 416), `FullBody` (any other 2xx),
`AttemptFails` and `Refused`. The server is external and may replace the file
between any two steps (`Replace`); it is taken to honour If-Range, and not to
replace content it gives no validator for, which is what the comment in
`downloadAttempt` relies on ("result URLs name immutable files").

`run` is `GenerateVideo`, `task` the provider's task (external), `late` whether
the polling deadline has passed. `Create` may make a task whose answer is lost;
the run then fails and the task is never polled, as in the code.

### SchemaUpgrade

`Launch` is `Open` up to the decision what to do, `TakeCopy`, `Verify`,
`Rename` and `Prune` are `backupBeforeMigration`, `Migrate` one migration with
its `user_version`. `Quit` is the end of the program, a failing step or a kill,
between any two of them. `Builds` are the builds the user may start in any
order; `edits` counts the user's work, so that a backup taken before some of it
is told from one taken after. `origin` is a history variable: the database as
the last upgrade that took a backup found it. Backups carry the number of the
start as their stamp: the clock is taken to go forward between starts. With a
clock set back `pruneBackups` would take the new backup for an old one.

### The window

JavaScript runs one handler at a time up to its next `await`. So in all window
modules a step is what lies between two awaits: the click and the code up to the
request; the backend's effect; the answer and the code after it. Between them
anything else may happen, and several requests may be on their way. `Window`
holds what the modules share: `clicks`, which bounds the user's operations, and
`faults`, which bounds failing reads, writes and calls (`MaxFaults`). Texts,
pictures and documents are numbers or model values.

**Projects.** `chain` is `writeChain`: operations queued by `serialize`; the head
writes two rows (`WriteProjects`, `Settle`) and may fail before either
(`Reject`). `Settle` includes what the caller does after its await: the store,
and `moveFormsToProject` (stash the forms, drop the draft of a removed project,
clear the queue, restore). `switchSeq` is why a switch that was overtaken does
not move the forms. `stash` holds the drafts, `imports` the import queue,
`typing` the prompt field's debounce, `dialog` the one modal, `startup` the
phases of `loadStartup` and its retry.

**Library.** `assets`/`tasks` are the memory, `dbAssets`/`dbTasks` the rows.
`refreshLibraryHistory` is three steps (`LoadAssetRows`, `LoadTaskRows`,
`Deliver`); a request during a reload queues another. `events` is the listener:
announced, heard, debounced, acknowledged. The REST interface is external: it
writes a row and announces it. `startupLoad` is the latest run of `loadStartup`
after the first: the banner's button (`LoadAgain`) starts it, it reads the
history outside the reload's joining and queueing (`StartupReads`; a failed read
is an empty history, `StartupReadFails`) and replaces both lists when everything
else has loaded (`StartupLands`), while reloads, runs and the listener go on. A
run that a later one overtakes writes nothing. What raises the banner is
`AppInfoFails` or `StartupFails`. No statement of the program deletes an asset
or a task, so rows only grow.

**VideoStudio.** A run goes through

    persist -> request -> save -> request ... -> finish -> completed (or failing -> failed)

one shot after the other. `resume` is the offer a failed run leaves
(`videoResume`), with the fingerprint of its form; `asking` are confirmations on
screen, each with what was captured at the click; `ClickRetry` is the retry of
the asset centre, whose run uses the same function and ends in `MarkRetried`.

**VideoForm.** One operator per handler that changes the form; `PanelAccepts` is
`validationError`, which enables the button, `GenerateAccepts` the checks of
`generateVideo`. `Capabilities` gives each model its modes, durations and limits;
`Unknown` is a model without a definition, whose form is clamped by a timer.

**MediaImport.** `importing` is the handler behind the picker's button:
`hosting` (the status is read again), `uploading`, `landing`. `chooser.session`
is `pickerSession`; `sent` remembers where each upload went and what was on
screen at the click (history, no guard reads it).

**ImageStudio.** `paint` is the image form of each project with its template and
reference records; `polish` the prompt dialog and `shelf` the prompt library;
`paintRun` the paid run, `paintShown` what the panel shows of it. `awaited` is a
set of tickets, one per call that is out: pictures on their way into the
library, and optimizations of the prompt library. Neither waits for the one
before: opening an entry again frees its button, and any number of imports may
be running.

**Storyboard.** `papers` are the saved versions with the versions they were made
from (`parents`), their review and, for the quality check, what it is bound to;
`sheets` are the drafts by editor key (chapter, stage, version opened); `works`
the operations under way. A generation is one request and one review, an
optimization prepares every text first and then saves stage after stage
(`OptimizeSaves`), which other saves may cross (`raced`). `Gate` is
`gateReasons`; the issues a storyboard's fields may have narrow it further and are
left out. A stage inherits the anchors of the three nearest earlier chapters that
have them (`Anchored`, `Nearest`). `MadeOf` is what a save records as its parents:
the versions the operation read, replaced by what it has saved since where there
was a version before. That a chapter gets a newer revision in the library, which
`loadLatestChapterRevision` takes over and which outdates the anchors made from
the older one, is not modelled. `LibrarySave` is the save of the asset dialog, which shares the
versions. The session opens on a new drama or on a finished chain.

**ComicDesk.** `comicStore` is the backend as the page sees it, `page` the copy the last
poll left. `ops` are the editor's saves and optimizations, which
outlive the editor; `action` the workspace's own commands as the list of steps
still to do; `notes` the drafts of injection, constitution and references. An
optimization first saves an unsaved constitution (`SaveVisualFirst`,
`VisualSavedFirst`, which drops its draft), then the
editor's text, then asks. It meets `ComicJobs` at the commands: a save names the
revision it is based on, one job runs at a time, and a job saves its documents
one by one until an edit stops it (`JobSaves`, `JobEnds`).

**AssetDesk.** `detail` is the dialog (item shown, draft, dirty, whether its text
was read), `detailWork` its save or optimization, `preview` what the page asked
for, `sources` the project whose novels are listed, `picking` the picker. A text
records the item the model was asked about.

**NovelDesk.** `manager` is the dialog, `calls` its requests, `stored` the drafts
in local storage, `publishing` the lock of `saveDocumentVersion`, `confirmed`
and `delivered` history variables.

**Settings.** `settings` is the stored row, `config` the profile the backend
uses, `settingsPage` the page, `reads` reads under way, `saving` the save. A
profile is its id and the edit that last wrote it. `behind` marks a form read
before the save of the last visit had written.

## 3. Runs

| Run | Instance | Question |
|---|---|---|
| `backend` | one scene each: 3 jobs, 2 works; 3 calls, 2 keys, 2 texts, 2 places, 1 older work; 3 versions of 2 to 4 units, limit 3, 4 attempts; 2 builds, 3 backups kept, 6 starts, 2 edits | invariants of the rows and goroutines; refinement of `ReceiptBook`; what a stored video is made of; whether an upgrade can be undone |
| `comic_workspace` | 1 job of any kind, 1 chapter, 2 pages, 4 starting books, 2 edits | what a paid answer may overwrite, what is billed, what is reported |
| `comic_chapters` | 2 jobs (script, sync), 2 chapters, 1 page, 1 edit | inheritance between chapters, what an answer is applied over; refinement of `JobLedger` |
| `comic_ends` | 1 job of any kind, 2 pages, 1 edit, fairness | every job ends |
| `comic_render` | 1 job, 2 pages, 2 injections, 2 reference contents, 2 images per answer, 2 edits | what a current image was drawn from, which files and folders remain |
| `comic_render_twice` | 2 jobs, 1 page with two bodies, 1 edit, fairness | images of the first render beside the second; refinement of `JobLedger`; every render ends |
| `window` | every window component, one per scene; 3 to 8 clicks each, 2 faults | the 17 properties of the window |
| `video_resume` | 1 project, 2 shots, 3 tasks, 4 clicks, 1 fault | is a shot ever paid twice? disagreement 3 |
| `story_typing` | 1 chapter of four stages, 1 operation, 4 clicks | does an answer leave alone what was typed while it was out? disagreement 4 |
| `novel_publish` | 1 work of 2 chapters, 3 clicks | does every read publish what it read? disagreement 5 |
| `comic_cascade`, `comic_visual` | smallest that shows it | disagreements 1 and 2 |

Bounds. Three jobs are one running job in each of two works plus a later job of
the same work. Two pages are needed for a page that inherits from an earlier
one, for a missing page between existing ones and for a storyboard that drops a
page; two chapters for inherited state. Storyboard bodies list one page, two
pages, or are incomplete; page bodies are complete or not; the user has at least
one other body for each kind, so an edit can change the text or keep it. A
render needs two pages to stop between them, two images of one answer for a
partly saved answer, two contents for a replaced reference. `comic_render` has a
complete and an incomplete page body, `comic_render_twice` two complete ones. The starting books are an
empty work, a full chapter, a chapter with a missing page and one that is stale
with a page outside the plan. `MaxEdits` bounds the user's edits: one edit
disturbs a job once; two let the user edit and revert, or edit two documents a
check looks at separately. Every other counter is bounded by these.

The `backend` run has its components side by side as well: they share no state,
`MCInit` chooses a scene. Three calls are a command, its repeat and one that
uses the key for something else, or three saves to one chapter; two places a free
and a taken one. Of the three versions of a file one fits, one is larger than the
limit and one has no validator; four attempts are two interruptions, a fresh
start and one more. Six starts are enough for four backups, one more than are
kept, by turns of an older and a newer build that each fail or finish. Its
deadlock check is off because calls, starts and attempts are bounded and a task
ends. It assumes no fairness: its properties are about what may not happen.

The `window` run checks ten components side by side. They share no state but
`clicks` and `faults`, so their product would add interleavings that no property
can tell apart: `MCInit` chooses a `scene`, and only that component moves. Where
components do meet (the library and the video runs, the two panels' forms and
the projects) they are in one module or one extends the other. Bounds: three
projects in `Projects` (one left, one reached, one removed) and two elsewhere;
two faults, so that a failure may meet the retry of another; two shots and two
requests, for a run that fails between its shots and a form that changed before
it is resumed; two models whose modes and durations differ in both directions;
two hosting services; two chapters of four stages (source, anchors, storyboard,
check) with one operation under way, opened on no document and on a finished chain; two comic documents and two operations of
editors. Clicks: three reach a switch that overtakes another, four a second
edit after a save, six and eight what needs a dialog opened, closed and opened
again while an answer is out; loading again after a failed startup is a click of
the library's scene. The scenes add up to 2.7 million states, of which the comic
page has 1.1 million, the library with the video runs 0.6 and the image panel 0.1. Deadlock is not checked in the window's runs,
because the user may stop after the last click.

Fairness (`FairSpec`): weak fairness of each goroutine, and of the command that
copies a render's reference. The Go scheduler runs a runnable goroutine and the
client's deadline (text or image) ends each call, so every step of a goroutine
eventually happens. Nothing is assumed of the user, `Close`,
crashes, restarts or failing writes. `CHECK_DEADLOCK` stays on: the process can
always stop and start again.

The properties, in words, are above their definitions. Definitions marked
`\* mutant` or `\* Mutant of` are plausible bugs of the definition that follows
them; no specification uses them, they show that a property would notice such a
bug.

What `window` shows: forms belong to the active project, drafts survive every
order of switches and failures, references never cross projects; a revision is
acknowledged only once it is on the page, and only a startup that loads again
takes it off; a successful run has every shot of its own request
behind it and the panel has one paid run at a time; an enabled button is a form
that is accepted, but for two cases (below); uploads go where the user was shown
and imports land where they were asked for; late prompts are offered where they
were asked for; an open gate stands for current, reviewed documents, and an optimization that no other
save crosses leaves every stage it rewrote usable; the comic page never drops typing; the asset dialog never offers an answer for something
else; the novel manager never goes back to an older text; a clean settings form
is the stored one.

Three more properties are stated in their modules and are not in `MCWindow.cfg`,
to keep the run short: `ShownIsReferenced` (VideoForm), `SubmittedOverClean`
(ComicDesk) and `NovelDraftStays` (NovelDesk). No
counterexample exists on the instance of `window`; to check them again, guard
each by its scene as `MCWindow` does and add it to the cfg. `NovelDraftStays` is
proved (section 5).

## 4. Disagreements between the code and what it says

1. **A cascade stops at its own side effect** (`comic_cascade`). In a work with
   two chapters, optimizing the shared settings makes the earlier chapter's
   documents stale; every later step of the cascade refuses while an upstream
   document is stale, so the job fails after its first paid call although nobody
   edited. README and CHANGELOG say the downstream texts are updated.
2. **The visual profile is not compared again** (`comic_visual`).
   An optimization or a sync applies an answer although the visual profile or
   the render options in its prompt were changed during the call; the comment at
   the top of `jobs.go` says a result is applied only if nothing it was based on
   changed. Generations do check the profile.
3. **A shot already paid for may be paid again** (`video_resume`). The shots to
   skip are read from the library in memory (`generateVideo.ts:160`). A reload
   that read the rows before a shot was saved, and is delivered after the run
   failed, takes the shot out of memory; the retry buys it again, although the
   comment above says this must not happen.
4. **An answer replaces what was typed while it was out** (`story_typing`). The
   editors of the Markdown workspace are locked while an operation runs, because
   "edits typed meanwhile were silently overwritten"
   (`VideoMarkdownWorkspace.tsx:1260-1262`). The lock belongs to the page and the
   drafts do not: after a visit to another tab the page is a new one, without the
   lock, and the operation still writes back the draft of its click (line 896).
5. **A read publishes one chapter only** (`novel_publish`). Chapters are
   published without a parent, so all have the same lock in
   `saveDocumentVersion` (`lib/documents.ts:193`); reading a work publishes them
   together, and all but the first fail with a logged warning. CHANGELOG says
   reading chapters publishes them. The next read publishes the next one.

Smaller observations, in no run:

- Optimizing a page outside the plan succeeds with nothing done: `cascadeTargets`
  drops the root, so the refusal for such a page (`jobs.go:470-471`) is
  unreachable, and the job reports the document as optimized and saved.
- The total of a sync is exact only while nobody edits: settings that are edited
  and reverted between an update and its recount leave it off (`ProgressAddsUp`
  says so).
- A sync of a missing page whose earlier page is incomplete is admitted and
  fails at its first check, since the plan looks only at the targets' upstream.
- A sync that starts from an incomplete stale document can be blocked after its
  first paid update without any edit: the document is then current, no target
  any more, and still incomplete.
- The guard of a cascade is read again after its save committed; an edit between
  the two is absorbed and later targets proceed. `NeverOverwritesAnEdit` holds
  nevertheless, because each target's own revision is checked.
- A service that closes between the copy of a render's reference and its `start`
  leaves the folder until the next startup, although the caller is said to remove
  it when the job ends (`visual.go:220-222`); the same holds when the terminal
  write of that job fails. Hence the condition `app = "open"` in
  `SnapshotsAreOwned`.
- When a later image of one answer cannot be saved, the files of the earlier ones
  have no row and nobody removes them (`collect` in `gen/image.go`): they are in
  `abandoned`.
- A reference replaced by a file of the same size and modification time keeps the
  digest in `digestCache` until a restart, and the availability an image row
  remembers follows that digest. The job itself reads the file, so no wrong
  reference is ever sent (`ReferencesAreTheAdmittedOnes`).

Of the window, by component:

- *Projects.* A failed read of the row "projects" is swallowed and the list is
  written anew (`useProjectStore.ts:105-114`); so is a create after a rejected
  load. A switch checks that its project exists before it waits in the chain, so
  one that follows a removal leaves an active id without a project. A superseded
  or failed switch may leave another active project in the row than in memory.
  A retry of the startup rebinds the forms without clearing them. Saving
  settings after a slow switch shows the old project's profile
  (`ProjectSettingsPage.tsx:118-119`), and a prompt whose debounce ends after
  one is committed to the new forms (`VideoPanel.tsx:348-356`).
- *Library.* An asset added between a reload's read and its delivery vanishes
  from memory until the next reload (the cause of 3); so does a task's newer
  status. A failed reload drops queued acknowledgements. **The banner's retry
  (`App.tsx:337`) puts what it read itself into memory** (`App.tsx:107, 118-119`),
  over every reload that was delivered, and acknowledged, in between; when that
  read fails the memory is emptied, until the next reload. Hence the exception
  `StartupLands` in `AckedIsShown`. A shot paid for in between is bought again by
  a retry of its run, as in 3; a run never counts a shot as paid that is not
  (`NothingSkippedUnpaid` holds with these steps).
- *Video form.* The panel accepts a text shot beside common materials, and a
  local picture of no project, which `generateVideo` then refuses
  (`KnownGap`). It does not check that a shot's strategy is one the model still
  has. Importing a storyboard keeps import records of other shots whose ids are
  used again.
- *Image panel.* A template may stay over a prompt it was not made for, against
  `useGenerationStore.ts:41-43` (`TemplateGoesWithPrompt` states it; adopting an
  optimized prompt breaks it, `GeneratePanel.tsx:758`). A failed
  `persistAssets` loses a paid picture from the library.
- *Storyboard.* A save from the asset dialog passes no workflow id
  (`AssetDetailModal.tsx:264-277`); its version becomes the head, and the
  workflow's own saves are refused from then on. A review made against one
  version of the source is kept when the text is saved with a newer one.
- *Comic page.* The constitution stays editable during its save or extraction
  and what is typed then is dropped (`MarkdownComicWorkspace.tsx:221-224,
  244-246`). A read slower than the poll of three seconds is always superseded.
  Drafts on older versions do not stop an optimization of other documents.
- *Asset dialog.* The answer to a save reopens a dialog that was closed
  meanwhile, which then cannot be closed (`AssetDetailModal.tsx:173, 235-238,
  278`). A text that could not be read leaves the draft of the document before
  in the editor. Text typed during a save or an optimization is lost.
- *Settings.* When the default profile is deleted and another is made the
  default at once, a failing save takes the star back to a profile that is gone
  (`SettingsPage.tsx:374-382`). A page closed and opened again before its save
  had written may show the old row as saved (the case `behind` of
  `CleanFormIsStored`).

## 5. Proofs

### Backend

`BackendProofs` proves what the `backend` run checks, for every value of the
constants, from the assumptions of the four modules alone.

- *Jobs.* The type invariant, `OneJobPerWork`, `RunningIsAttended` and
  `TerminalIsForever` of `JobLedger`, for any sets of jobs and works. The
  inductive invariant `IInv` is their conjunction with `DownIsIdle`: without it,
  `Restart` could take the row away under a goroutine that outlived its process,
  and a later `End` would find no running row.
- *Novel commands.* `CommandsKeepTheBook`: `NovelCommands` implements
  `ReceiptBook`. The invariant `CommandsInv` says that committed revisions are
  numbered without a gap and every chapter points to its newest (`TablesOK`),
  that a call still to take effect has left no row (`Unused`), that a committed
  call has its receipt, and, for each statement, what the draft is to the
  committed tables (`Progress`): equal up to the lookup, then with exactly the
  rows inserted so far. It is needed because the book changes at `Commit` only,
  where nothing is checked any more: that the key was unused, the work active
  and the place free is what earlier statements found, and it is still true
  because `db` cannot change under an open transaction. A commit is then one
  step of the book (`WorkIsSaved`, `TextIsSaved`, `CommitApplies`), a rollback, a
  refusal or a crash is callers giving up (`RollbackGivesUp`, `CrashGivesUp`), an
  answer is a reply (`DeliverReplies`), and all else is hidden
  (`StatementsAreHidden`).
- *Video task.* `VideosAreWhole`. `FetchInv` says that the bytes received are the
  beginning of the version their validator names, and of the one still served if
  it has none (`From`); so a server that continues continues that version.
  `RunInv` ties the run to the provider's task and to the download.
- *Upgrade.* `UpgradeIsUndoable`. `UpgradeInv` says that the backup of `origin`
  is the newest of all (`NewestKeeps`), so that pruning, which keeps at least
  one, cannot take it, and that the copy being verified is of the file the start
  found, which no one changes before the program is open.

The type invariants `CommandsTypeOK`, `TaskTypeOK` and `UpgradeTypeOK` are
proved with them (`CommandsAreTyped`, `TasksAreTyped`, `UpgradeIsTyped`).

### Comic jobs and renders

`ComicJobsProofs` proves `JobsImplementLedger`: every step of a text job is a
step of `JobLedger` or leaves it alone, for any chapters, pages, bodies, initial
books, number of jobs and edits. The invariant `LInv` says only that rows have
their columns and a legal status and that `pc` is a location; the proof has one
lemma per kind of step (ending, quiet, submitting, answering, admitting). With
`BackendProofs` it gives one running job per work, attended rows and final
outcomes for the real jobs.

Of renders, `ComicRenderProofs` proves the same (`RendersImplementLedger`), for any
pages, bodies, injections, reference contents and edits; here the ledger's `idle`
is both `leaving` and `idle`, since the row has ended while the goroutine still
cleans up. It also proves `SnapshotsAreOwned` and `ReferencesAreTheAdmittedOnes`.
The invariant `RInv` is `Shapes` (who is at work has a running row, nobody is at
work in a process that is down), `Owned` (no folder of a job that was never
admitted, is not copied yet or is done) and `Admitted` (a folder and a request of
a job at work hold the reference admitted with it). `Owned` is needed because a
folder already there when a job is admitted could be sent with it, and `Admitted`
because a request copies what is in the folder, not what was frozen. Its main
lemma, `OneJobRInv`, reduces each step to what it does at its own job.

It also proves the rest of what a render promises: `TypeOK`,
`CurrentImageIsTrue`, `NoUntrackedImages`, `ProgressIsTrue` and `NotBornOutdated`.
The invariant `SInv` adds to `RInv`:

- `DrawnInv`: the folder a working job needs is there with the reference it was
  admitted with, the page it waits for was requested with its own body,
  injection and profile, and every image row repeats a request that was sent.
  An image shown as current then equals the workspace because its request does.
- `FilesInv`: the files of an answer belong to the page at the head of the list
  and are on disk, every file has a row, a goroutine that holds it or a failure
  that abandoned it; the pages left are in order and without image, and those
  done plus those left are the total. The order is what makes a page that was
  drawn never come back; an answer with several images still counts one page.
- `FreshInv`: while nobody edits, what a job holds is what the workspace holds.

### Lineage and the text jobs

`LineageProofs` collects what the operators of `Lineage` do, for any chapters,
pages and bodies:

- `StaleIsBroken`: the loop of `loadBook` has one outcome, and staleness spreads
  two steps at most; `StaleEquation` is the form the other proofs use.
- `StalenessLooksBack`, `ReceiptLooksBack`: both depend on earlier documents only.
- `GuardedPlan`: books with the same guard have the same receipts, the same stale
  documents and the same plan in that chapter (`GuardedReceipt`,
  `GuardedStaleness`). This is why comparing the guard is enough.
- `ReceiptTells`: an unchanged receipt means unchanged upstream text, which is
  what a generation relies on, as it has no guard.
- `SaveIsCurrent`, `SaveMovesForward`: a save on current upstream documents is
  current, and what it leaves to do comes after it or was left before it.

`ComicJobsProofs` also proves of the text jobs every safety and action property their
passing runs check (`AppliedOnWhatWasRead` in `comic_chapters` only, where an earlier
chapter can change), and `TypeOK`: `NeverOverwritesAnEdit`, `SyncStopsAtAnEdit`,
`AppliedOnWhatWasRead`, `SavedIsCurrent`, `BlamesOnlyEdits`, `PaidOnce` and
`ProgressAddsUp`, for any chapters, pages, bodies, edits and number of jobs, from
the assumptions of `ComicJobs` and `Lineage`. It has four invariants:

- `TInv`: types, that a goroutine at work has a running row and the locals of its
  location (`Fits`), that one job runs at a time (`Alone`) and none in a process
  that is down. All others need `Alone`: a second job's save would be an edit
  nobody counts.
- `MInv` adds `Remembers`: for each goroutine there was a book `b`, not newer than
  today's in any revision (`Older`), that it read: its frozen revisions, texts,
  receipt and guard are those of `b` (`Frozen`, `Targeted`, `Asked`, `Guarded`),
  and everything edited since has a higher revision than in `b` (`NewSince`). So
  an equal revision means an unedited document, and an equal guard an unedited
  chapter. That nothing was edited since admission keeps `b` and today's book
  together; this half gives `BlamesOnlyEdits`.
- `PInv` adds what was billed (`Paid`): a cascade's remaining targets are not in
  it, and what a sync paid for precedes everything it still may do (`Left`). With
  `SaveMovesForward` a sync never returns to a document, which no counter in the
  code enforces.
- `CInv` adds the count (`Counted`): done plus left is the total, up to the step
  between a save and the next plan.

The step relation is first reduced to the cases a job can tell apart (`OwnStep`:
it moves, authorizes, asks, keeps an answer, applies it, guards again, ends),
each with the values it changes; the preservation lemmas go by these cases.

### Window

The window's eleven components are proved about, each from the assumptions its module and
those it extends declare, for any number of projects, clicks and faults:

- `PanelProofs`, of `MediaImport`: `UploadsGoWhereShown`, `ImportStaysCurrent`, `ImportTypeOK`. The
  invariant says of the handler under way that the service it will send to was
  compared with the one shown (`ServiceCompared`), that everything it carries
  and everything the shots and the picker hold is of their own project
  (`RefsAtHome`, `ChosenAtHome`, `ImportAtHome`), and that its picker session is
  over or still open (`SessionOpen`): without it a picker opened later could have
  the session of an older import. That sessions stay below the bound of clicks
  (`SessionsPaid`) holds because an import under way has a click to its credit.
- `PanelProofs`, of `ImageStudio`: `OffersBelong`, `SourcesBacked`, `ProgressIsCurrent`,
  `ImageTypeOK`. The
  forms a run and a finished picture keep have only records of their own
  references (`CopiesBacked`; loading a picture puts its form back), and the
  panel is busy exactly while a run is under way (`BusyIsRunning`), without which
  a late progress event could be shown.
- `PanelProofs`, of `VideoStudio` with the `Library` it extends: `VideoTypeOK`,
  `AckedIsShown`, `NothingSkippedUnpaid`, `PanelRunsOnce`. `LibraryInv` says that memory
  and what a reload or a startup read are rows of the table (`Written`), that the row
  of every announced revision is there and no acknowledgement is ahead of it
  (`Announced`), and that a reload that has read holds everything acknowledged, and
  what it will acknowledge unless it will run again (`Covers`): a delivery replaces the
  memory, so what was acknowledged before has to be in what it read. It does not say
  that the memory holds what was acknowledged, which a late startup breaks; so
  `AckedIsShown` is an action property: every other step leaves what is shown, and a
  step that acknowledges shows all of it. `VideoInv` adds that a
  group has one request, the one of its first run, its videos, the offer to resume
  and the retries awaiting confirmation (`GroupsAgree`, `AskedAgree`), and that
  shots behind a run are saved under its project, group and request
  (`DoneIsSaved`). Without the first a video found under the group could be of
  another storyboard. A step of a run is proved once for all (`RunMoves`), from what
  it writes, which phase it reaches and whether it frees the panel.
- `PanelProofs`, of `VideoForm`: `SubmittedIsAccepted`. The handlers keep a form with
  its fields and at least one shot (`FormInv`), which is all the comparison of the
  panel's checks with the backend's needs.
- `PanelProofs`, of `Storyboard`: `GateIsTrue`, `StoryTypeOK`, `CascadeSettles`. The gate asks whether the
  check passed, is bound to the documents in production, and whether it or the
  storyboard is stale; the rest is the invariant's. A version is made of earlier
  ones, its review is of a text that was reviewed, what a check is bound to is sound
  (passed, or a source), and every document has a version in production
  (`PaperTrue`); a draft's review, too, is of a text that was reviewed
  (`SheetTrue`); the versions a save or an optimization builds on were sound when it
  read them, and what it has saved, and will save, has passed (`WorkTrue`). Since a
  version never changes, what was sound stays so, however late the save. That an
  open gate leaves no stage stale is in the operators alone (`StaleIs`: a document is
  stale when it, or one above it, is missing something), which says in one step what
  the recursive function of `StaleStages` comes to. For the cascade `SettleInv` adds that a chain has no
  document without those above it (`NoGaps`), that the versions an operation read are
  of their stages (`HeadsInPlace`), and of an optimization nobody has crossed (`Settled`)
  that the documents in production are those it read or has saved since, that what is
  above it is done, and that it has saved from the top down, each document made of
  today's and the check bound to them. So its last save leaves nothing stale. An
  operation that was crossed owes nothing of this, and any save under another one
  crosses it.
- `DeskProofs`, of `AssetDesk`: `AssetTypeOK` and `AnswerStaysWithVersion`, from "the dialog shows an item
  that is in the library, with a text that was read for it" (`ItemHeld`,
  `DraftBelongs`). Versions are only appended, so the text of an item stays.
- `DeskProofs`, of `Settings`: `CleanFormIsStored`. A save under way carries the form as it
  was at its edit count, and the form is dirty after any later edit
  (`SaveCarriesForm`); the read the form waits for has the stored row or is
  behind a save (`ReadsAwaited`, `ReadsCurrent`).
- `DeskProofs`, of `Projects`: `ProjectsTypeOK`, `FormsFollowActive`, `DraftsSurvive`,
  `ReferencesStayHome`. `ProjectsInv` says what the operation at the head of the queue
  has written so far (`UnderWay`), that what waits behind it and in the dialog fits
  the lists (`QueuedFits`, `DialogFits`), that loads are queued only by a startup that
  still waits for the last of them (`LoadsFit`), and that the forms are bound to the
  active project, or to none while something is under way (`FormsFit`). A load that
  was overtaken by a retry must find unbound forms; without `LoadsFit` it could bind
  them to a project that is no longer active.
- `NovelProofs`, of `NovelDesk`: `NoOldTextAfterSave`, `NovelDraftStays`, `NovelTypeOK`.
  `ReadingInv` says that the chapters on display, once nothing is being read, and
  those an answer to the newest request carries, cover every revision reported as
  saved (`CopyCovers`, `ReadCovers`), that no call is ahead of the dialog
  (`NotAhead`), and that dialog and calls name works and chapters that are there
  (`ManagerFits`, `CallFits`). It holds because a save is reported only together
  with a new request: what older reads carry stops mattering at that moment
  (`ReadingKept`). `DraftsInv` says that a visit has one save under way and is
  busy with it (`OneSave`), that it is of the text in the editor (`SavesEditor`),
  and that this is the text in storage (`EditorStored`). Without `OneSave` the
  answer of one save could drop the draft typed for another.
- `ComicDeskProofs`, of `ComicDesk`: `TypingIsKept`, `ComicTypeOK`. A copy of the
  workspace, shown or just read, has a beginning of each document's versions
  (`CopiesAreBehind`), and drafts and operations name revisions there are
  (`RevisionsExist`), so that an acknowledged text is still a revision when the
  answer drops its draft. At most one operation is the editor's on screen, and
  it is about the editor's document (`OneEditor`). `OpsSafe` says, phase by phase,
  what it has sent: the draft it will drop, or a text that is saved already.
  `PendingSafe` says that an optimization the page still waits for has left no
  unsaved draft unless something was typed since, the editor's epoch telling;
  without it the finished job could take newer typing along. `InjectionSent` is the
  same for the injection, saved while the page is busy.

Each proof has one lemma per group of actions that disturb the same parts, and
`NextIInv` puts them together.

Only model-checked: liveness (`EveryJobEnds`, `EveryRenderEnds`, by nature out of
the prover's reach), and of `WindowTypeOK` the parts of `Settings` and `VideoForm`; the
theorems above give its other eight. Those two follow lists that `SelectSeq` filters,
whose recursive definition the provers cannot use. The type
invariants of `JobLedger`, `ComicJobs`, `ComicRender` and of the three other backend
modules are proved and in no run: what TLC would find there it finds through the
properties that depend on them.

## 6. Not modelled

Of the backend:

- the history feed's own counters (`store/history.go`) and the REST interface
  (`restapi`), with the settings files two writers may save at once
  (`config/save.go`, `media/hosting.go`); the window's side of them is in
  `Library`, `MediaImport` and `Settings`;
- the files behind an import, a promotion or a deletion of assets (`media`), and
  the cache of the prompt library;
- the requests to the text and image services (`gen`): for the jobs a call is a
  step that fails, is cut short or answers.

Of the window: `useAgentStore` and the prompt manager. Reading them shows that a
version whose add failed can be persisted by an earlier toggle queued behind it,
and that saving a prompt as a version marks text typed meanwhile as saved.

Neither proved nor in a run: `ShownIsReferenced` (`VideoForm`) and
`SubmittedOverClean` (`ComicDesk`); section 3 says how to check them.

Of rendering, the import of references and the extraction of a constitution
(its window side is in `ComicDesk`) are not modelled in the backend. Of the
window's components, what is left out is named at the top of each module.

Left out for good: pixel work and encoders (`media/imageops.go`,
`webpenc.go`), prompt wording, proxies, logging, the rendering of React
components, SQL bridge statements, acceptance scripts, generated and test code.
They have no order of steps to get wrong, or are I/O of the operating system.
