----------------------------- MODULE VideoForm -----------------------------
(***************************************************************************)
(* The video form (pages/VideoPanel.tsx, store/useVideoStore.ts): models   *)
(* and what they support, shots and their references, the records of what  *)
(* was imported, the manifest of a reviewed storyboard, and the two        *)
(* validators a form passes before it is paid for: the panel's own, that   *)
(* enables the button, and the one of lib/generateVideo.ts.                *)
(***************************************************************************)
EXTENDS Window

CONSTANTS
  Pictures, Clips,   \* assets of the project, by kind
  Public,            \* assets whose path is a public HTTPS URL
  Unassigned,        \* assets of no project, shown in the default one
  Models,            \* models with a capability definition
  Unknown,           \* a model name without one
  Capabilities,      \* what each of Models supports
  Storyboards,       \* shots a storyboard may resolve to
  MaxFormClicks      \* bound on the user's operations

Media == Pictures \cup Clips
Modes == {"text", "first_frame", "reference"}

Strategies == Modes \cup {none}
FormShots == [id : Nat, text : BOOLEAN, duration : Nat, strategy : Strategies, locals : SUBSET Pictures,
              urls : SUBSET Pictures, clips : SUBSET Clips, ids : SUBSET Media]

ASSUME VideoFormAssumption ==
  /\ Public \cup Unassigned \subseteq Media
  /\ Clips \subseteq Public
  /\ Unknown \notin Models
  /\ DOMAIN Capabilities = Models
  /\ Storyboards \subseteq Seq(FormShots) \ {<<>>}
  /\ MaxFormClicks \in Nat

VARIABLES
  form,     \* useVideoStore, without the records
  records,  \* importedSources: reference imports, by shot
  submitted,\* the parameters of a task in the history
  converging \* modelConvergeTimer: the unknown model that is clamped next

formVars == <<form, records, submitted, converging, clicks, faults>>

ShotOf(id, text, duration, strategy, locals, urls, clips, ids) ==
  [id |-> id, text |-> text, duration |-> duration, strategy |-> strategy,
   locals |-> locals, urls |-> urls, clips |-> clips, ids |-> ids]

EmptyShot(id, duration) == ShotOf(id, FALSE, duration, none, {}, {}, {}, {})

FormTypeOK ==
  /\ form.model \in Models \cup {Unknown}
  /\ form.mode \in Modes
  /\ form.images \subseteq Pictures /\ form.videos \subseteq Clips
  /\ form.shots \in Seq(FormShots) \ {<<>>}
  /\ \A r \in records : r.materials \subseteq [asset : Media, hosted : BOOLEAN]
  /\ converging \in {none, Unknown}

---------------------------------------------------------------------------
(* Models.                                                                 *)

FallbackCapability ==
  [modes |-> <<"text", "first_frame">>, durations |-> <<1, 5>>, formats |-> <<"720p">>,
   referenceDuration |-> 5, images |-> 1, videos |-> 0, total |-> 0, exact |-> 0]

Capability(model) == IF model \in Models THEN Capabilities[model] ELSE FallbackCapability

DurationOptions(capability, mode) ==
  IF mode = "reference"
  THEN SelectSeq(capability.durations, LAMBDA d : d <= capability.referenceDuration)
  ELSE capability.durations

ChooseSupported(value, options) ==
  IF value \in ToSet(options) \/ options = <<>> THEN value ELSE Head(options)

ModeOf(shot, mode) == IF shot.strategy = none THEN mode ELSE shot.strategy

Clamped(shots, capability, mode) ==
  [i \in DOMAIN shots |->
     [shots[i] EXCEPT !.duration = ChooseSupported(@, DurationOptions(capability,
                                                         ModeOf(shots[i], mode)))]]

Converged(f, model) ==
  LET capability == Capability(model)
      mode == ChooseSupported(f.mode, capability.modes)
  IN [f EXCEPT !.model = model, !.mode = mode,
               !.shots = Clamped(@, capability, mode),
               !.format = ChooseSupported(@, capability.formats)]

---------------------------------------------------------------------------
(* Validation.                                                             *)

\* A shot with references of its own leaves the common ones aside.
ShotImages(shot, f) ==
  IF shot.urls \cup shot.locals # {} THEN shot.urls ELSE f.images
ShotVideos(shot, f) == IF shot.clips # {} THEN shot.clips ELSE f.videos
ImageCount(shot, f) == Cardinality(ShotImages(shot, f)) + Cardinality(shot.locals)
VideoCount(shot, f) == Cardinality(ShotVideos(shot, f))
OwnReferences(shot) == shot.urls \cup shot.locals \cup shot.clips

\* What a manifest approves of a shot.
Approved(shots) ==
  [i \in DOMAIN shots |->
     [shots[i] EXCEPT !.id = i, !.strategy = ModeOf(shots[i], "text")]]

ManifestMismatch(f) ==
  /\ f.manifest # none
  /\ \/ f.model # f.manifest.model
     \/ f.format # f.manifest.format
     \/ Approved(f.shots) # f.manifest.shots

\* Empty references, or ids that name no picture or clip on screen.
Unresolved(shot) == shot.ids \ Media # {}

WithinLimits(images, videos, capability) ==
  /\ images <= capability.images
  /\ videos <= capability.videos
  /\ capability.total # 0 => images + videos <= capability.total

\* Mutant of PanelAcceptsShot: a first frame is not asked for.
PanelAcceptsFrameless(shot, f) ==
  LET capability == Capability(f.model)
      mode == ModeOf(shot, f.mode)
      images == ImageCount(shot, f)
      videos == VideoCount(shot, f)
  IN /\ mode # "text" => ~Unresolved(shot)
     /\ shot.duration \in ToSet(DurationOptions(capability, mode))
     /\ ShotImages(shot, f) \cup ShotVideos(shot, f) \subseteq Public
     /\ WithinLimits(images, videos, capability)
     /\ mode = "text" => OwnReferences(shot) = {}
     /\ mode = "reference" => /\ images + videos > 0
                              /\ capability.exact # 0 => images = capability.exact
     /\ shot.text

PanelAcceptsShot(shot, f) ==
  LET capability == Capability(f.model)
      mode == ModeOf(shot, f.mode)
      images == ImageCount(shot, f)
      videos == VideoCount(shot, f)
  IN /\ mode # "text" => ~Unresolved(shot)
     /\ shot.duration \in ToSet(DurationOptions(capability, mode))
     /\ ShotImages(shot, f) \cup ShotVideos(shot, f) \subseteq Public
     /\ WithinLimits(images, videos, capability)
     /\ mode = "text" => OwnReferences(shot) = {}
     /\ mode = "first_frame" => images = 1 /\ videos = 0
     /\ mode = "reference" => /\ images + videos > 0
                              /\ capability.exact # 0 => images = capability.exact
     /\ shot.text

\* validationError = null.
PanelAccepts(f) ==
  LET capability == Capability(f.model)
      own == \E i \in DOMAIN f.shots : OwnReferences(f.shots[i]) # {}
  IN /\ f.model \in Models
     /\ ~ManifestMismatch(f)
     /\ \A i \in DOMAIN f.shots : PanelAcceptsShot(f.shots[i], f)
     /\ f.images \cup f.videos \subseteq Public
     /\ WithinLimits(Cardinality(f.images), Cardinality(f.videos), capability)
     /\ f.format \in ToSet(capability.formats)
     /\ f.mode = "text" => f.images \cup f.videos = {}
     /\ f.mode = "first_frame" /\ ~own => Cardinality(f.images) = 1
     /\ f.mode = "reference" /\ ~own =>
          /\ f.images \cup f.videos # {}
          /\ capability.exact # 0 => Cardinality(f.images) = capability.exact

\* validateLocalImages: pictures of the run's own project.
LocalImagesBelong(shot) == shot.locals \subseteq Pictures \ Unassigned

\* validateShotReferences.
ReferencesFit(shot, f) ==
  LET mode == ModeOf(shot, f.mode)
      images == ImageCount(shot, f)
      videos == VideoCount(shot, f)
  IN /\ mode = "text" => images + videos = 0
     /\ mode = "first_frame" => images = 1 /\ videos = 0
     /\ mode = "reference" => images + videos > 0

\* What generateVideo checks before it creates a task.
GenerateAccepts(f) ==
  /\ ~ManifestMismatch(f)
  /\ f.shots # <<>>
  /\ f.images \cup f.videos \subseteq Public
  /\ \A i \in DOMAIN f.shots :
       /\ f.shots[i].urls \cup f.shots[i].clips \subseteq Public
       /\ LocalImagesBelong(f.shots[i])
       /\ ReferencesFit(f.shots[i], f)

---------------------------------------------------------------------------
(* The user's operations.                                                  *)

Clicked(f, r, c) ==
  /\ Spend(MaxFormClicks)
  /\ form' = f
  /\ records' = r
  /\ converging' = c
  /\ UNCHANGED <<submitted, faults>>

Edit(f) == Clicked(f, records, converging)

FormInit ==
  /\ form = [model |-> CHOOSE m \in Models : TRUE, mode |-> "text", format |-> "720p",
             images |-> {}, videos |-> {}, shots |-> <<EmptyShot(1, 5)>>, manifest |-> none]
  /\ records = {}
  /\ submitted = none
  /\ converging = none

SelectModel(model) ==
  IF model \in Models THEN Clicked(Converged(form, model), records, none)
  ELSE Clicked([form EXCEPT !.model = model], records, model)

\* Typing has paused on a name that is still unknown.
ConvergeTimer ==
  /\ converging # none
  /\ form' = IF form.model = converging THEN Converged(form, converging) ELSE form
  /\ converging' = none
  /\ UNCHANGED <<records, submitted, clicks, faults>>

SelectMode(mode) ==
  /\ mode \in ToSet(Capability(form.model).modes)
  /\ \E first \in {i \in SUBSET form.images : Cardinality(i) = Min({1, Cardinality(form.images)})} :
       Edit([form EXCEPT !.mode = mode,
                         !.shots = Clamped(@, Capability(form.model), mode),
                         !.images = CASE mode = "text" -> {}
                                      [] mode = "first_frame" -> first
                                      [] OTHER -> @,
                         !.videos = IF mode = "reference" THEN @ ELSE {}])

\* The textareas of public addresses, shown for the modes that use them.
SetMaterials(images, videos) ==
  /\ form.mode # "text"
  /\ Cardinality(images) <= IF form.mode = "first_frame" THEN 1
                            ELSE Capability(form.model).images
  /\ videos = {} \/ form.mode = "reference"
  /\ Cardinality(videos) <= Capability(form.model).videos
  /\ Edit([form EXCEPT !.images = images, !.videos = videos])

FirstDuration == Head(DurationOptions(Capability(form.model), form.mode))

AddShot == Edit([form EXCEPT !.shots = Append(@, EmptyShot(10 + clicks, FirstDuration))])

RemoveShot(i) ==
  /\ Len(form.shots) > 1
  /\ Edit([form EXCEPT !.shots = RemoveAt(@, i)])

SetDuration(i, duration) ==
  /\ duration \in ToSet(DurationOptions(Capability(form.model), ModeOf(form.shots[i], form.mode)))
  /\ Edit([form EXCEPT !.shots[i].duration = duration])

CommitShotPrompt(i, text) == Edit([form EXCEPT !.shots[i].text = text])

ReleaseManifest ==
  /\ form.manifest # none
  /\ Edit([form EXCEPT !.manifest = none])

\* sendStoryboardToVideo: the whole form is replaced and its conditions kept.
Handoff(shots, model) ==
  LET format == Head(Capabilities[model].formats) IN
  Clicked([form EXCEPT !.model = model, !.mode = "text", !.format = format,
                       !.images = {}, !.videos = {}, !.shots = shots,
                       !.manifest = [model |-> model, format |-> format,
                                     shots |-> Approved(shots)]],
          {}, converging)

\* resolveImportedStoryboardShots: as the handoff, without its conditions; what
\* was imported for other shots stays on record.
ImportStoryboard(shots, target) ==
  /\ form.manifest = none
  /\ Clicked([form EXCEPT !.shots = shots],
             {r \in records : r.shot # form.shots[target].id}, converging)

---------------------------------------------------------------------------
(* References of a shot.                                                   *)

Ids(materials) == {m.asset : m \in materials}

\* The last statements of applyImportedVideoAssets: pictures that are sent
\* directly become local references, the others public addresses.
ImportReferences(i, chosen, append, direct) ==
  LET shot == form.shots[i]
      local == IF direct THEN {a \in chosen \cap Pictures : a \notin Public} ELSE {}
      hosted == chosen \ local
      locals == local \cup IF append THEN shot.locals ELSE {}
      urls == (hosted \cap Pictures) \cup IF append THEN shot.urls ELSE {}
      clips == (hosted \cap Clips) \cup IF append THEN shot.clips ELSE {}
      ids == chosen \cup IF append THEN shot.ids ELSE {}
      images == Cardinality(urls) + Cardinality(locals)
      capability == Capability(form.model)
      strategy == IF images = 1 /\ clips = {} /\ "first_frame" \in ToSet(capability.modes)
                  THEN "first_frame" ELSE "reference"
      record == [shot |-> shot.id,
                 materials |-> {[asset |-> a, hosted |-> a \in hosted] : a \in chosen}]
  IN /\ form.manifest = none
     /\ chosen # {}
     /\ WithinLimits(images, Cardinality(clips), capability)
     /\ strategy \in ToSet(capability.modes)
     /\ strategy = "reference" /\ capability.exact # 0 => images = capability.exact
     /\ Clicked([form EXCEPT !.mode = strategy,
                   !.shots[i] = ShotOf(shot.id, shot.text, shot.duration, strategy,
                                       locals, urls, clips, ids)],
                {record} \cup {r \in records : append \/ r.shot # shot.id}, converging)

\* A record's ids mirror its remaining material; an emptied record goes.
Stripped(shot, Gone(_)) ==
  {r \in {IF r.shot = shot.id
          THEN [r EXCEPT !.materials = {m \in @ : ~Gone(m)}] ELSE r : r \in records} :
     r.materials # {}}

\* What still stands behind an id of the shot.
Retained(shot, locals, left) ==
  locals \cup UNION {Ids(r.materials) : r \in {x \in left : x.shot = shot.id}}

\* The shot without the references, under no strategy when none is left.
Reduced(shot, locals, urls, clips, ids) ==
  ShotOf(shot.id, shot.text, shot.duration,
         IF locals \cup urls \cup clips = {} THEN none ELSE shot.strategy,
         locals, urls, clips, ids)

RemoveLocal(i, a) ==
  LET shot == form.shots[i]
      left == Stripped(shot, LAMBDA m : m.asset = a /\ ~m.hosted)
      locals == shot.locals \ {a}
  IN /\ a \in shot.locals
     /\ Clicked([form EXCEPT !.shots[i] =
                   Reduced(shot, locals, shot.urls, shot.clips,
                           IF a \in Retained(shot, locals, left) THEN shot.ids
                           ELSE shot.ids \ {a})],
                left, converging)

\* A public address is removed by its value: the ids of the records it came
\* from go with it, unless something else stands behind them.
RemoveHosted(i, a) ==
  LET shot == form.shots[i]
      Gone(m) == m.asset = a /\ (m.hosted \/ a \in Public)
      left == Stripped(shot, Gone)
      removed == UNION {{m.asset : m \in {x \in r.materials : Gone(x)}} :
                          r \in {x \in records : x.shot = shot.id}}
      ids == {id \in shot.ids : id \notin removed \/ id \in Retained(shot, shot.locals, left)}
  IN /\ a \in shot.urls \cup shot.clips
     /\ Clicked([form EXCEPT !.shots[i] =
                   Reduced(shot, shot.locals, shot.urls \ {a}, shot.clips \ {a}, ids)],
                left, converging)

---------------------------------------------------------------------------
(* The run and the history.                                                *)

SubmitForm ==
  /\ Spend(MaxFormClicks)
  /\ PanelAccepts(form)
  /\ submitted = none
  /\ submitted' = [form |-> form, records |-> records]
  /\ UNCHANGED <<form, records, converging, faults>>

\* Parameters of the history are normalised: an address is kept, an empty list
\* of shots becomes the default one.
ReuseHistory ==
  /\ submitted # none
  /\ form # submitted.form
  /\ Clicked(submitted.form, submitted.records, converging)

FormNext ==
  \/ \E model \in Models \cup {Unknown} : SelectModel(model)
  \/ ConvergeTimer
  \/ \E mode \in Modes : SelectMode(mode)
  \/ \E images \in SUBSET (Pictures \cap Public), videos \in SUBSET Clips :
       SetMaterials(images, videos)
  \/ AddShot \/ ReleaseManifest \/ SubmitForm \/ ReuseHistory
  \/ \E shots \in Storyboards, model \in Models : Handoff(shots, model)
  \/ \E i \in DOMAIN form.shots :
       \/ RemoveShot(i)
       \/ \E d \in {1, 5, 10} : SetDuration(i, d)
       \/ \E text \in BOOLEAN : CommitShotPrompt(i, text)
       \/ \E shots \in Storyboards : ImportStoryboard(shots, i)
       \/ \E chosen \in SUBSET Media, append, direct \in BOOLEAN :
            ImportReferences(i, chosen, append, direct)
       \/ \E a \in Media : RemoveLocal(i, a) \/ RemoveHosted(i, a)

FormSpec == FormInit /\ [][FormNext]_formVars

---------------------------------------------------------------------------
(* Properties.                                                             *)

\* The button is enabled only for a form that generateVideo then accepts, so a
\* confirmed run does not end on a check of its own.  Two cases the panel lets
\* through are excepted: a local picture of no project, and a text shot beside
\* common materials, which the panel leaves out and generateVideo counts.
KnownGap(shot) ==
  \/ ~LocalImagesBelong(shot)
  \/ ModeOf(shot, form.mode) = "text" /\ form.images \cup form.videos # {}

SubmittedIsAccepted ==
  PanelAccepts(form) =>
    GenerateAccepts(form) \/ \E i \in DOMAIN form.shots : KnownGap(form.shots[i])

\* A picture or clip the shot shows is among the ids its lineage is written
\* from, whichever of its two forms, local or hosted, was removed on the way.
ShownIsReferenced ==
  \A i \in DOMAIN form.shots : OwnReferences(form.shots[i]) \subseteq form.shots[i].ids
=============================================================================
