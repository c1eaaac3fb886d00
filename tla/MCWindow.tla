------------------------------ MODULE MCWindow ------------------------------
(***************************************************************************)
(* The window's components for the model checker.  They share no state but *)
(* the user and the backend's faults, so they are checked side by side in  *)
(* one run: a scene is chosen at the start and only its component moves.   *)
(***************************************************************************)
EXTENDS Projects, VideoStudio, VideoForm, MediaImport, ImageStudio, Storyboard, ComicDesk,
        AssetDesk, NovelDesk, Settings

CONSTANTS p1, p2, p3, pa, pb, ca, m1, m2

VARIABLE scene

\* Two models: one with every mode, one without references; only the first has
\* the longer shots, only the second the shortest.
TwoModels == [m \in {m1, m2} |->
  IF m = m1
  THEN [modes |-> <<"text", "first_frame", "reference">>, durations |-> <<5, 10>>,
        formats |-> <<"720p", "480p">>, referenceDuration |-> 5,
        images |-> 2, videos |-> 1, total |-> 2, exact |-> 0]
  ELSE [modes |-> <<"text", "first_frame">>, durations |-> <<1, 5>>, formats |-> <<"480p">>,
        referenceDuration |-> 5, images |-> 1, videos |-> 0, total |-> 0, exact |-> 0]]

\* A storyboard of one shot with a first frame, and one of two shots, the second
\* longer than references allow.
TwoStoryboards ==
  {<<ShotOf(1, TRUE, 5, "first_frame", {pb}, {}, {}, {pb})>>,
   <<ShotOf(1, TRUE, 5, "text", {}, {}, {}, {}),
     ShotOf(2, TRUE, 10, "reference", {}, {pa}, {ca}, {pa, ca})>>}

---------------------------------------------------------------------------
Scenes == {"projects", "videos", "form", "import", "images", "story", "comic", "assets",
           "novel", "settings"}

ofProjects == <<projects, rows, chain, written, switchSeq, forms, stash, imports, picker,
                typing, dialog, startup>>
ofVideos   == <<libraryVars, studioVars>>
ofForm     == <<form, records, submitted, converging>>
ofImport   == <<onScreen, shotRefs, chooser, hosting, importing, published, sent>>
ofImages   == <<paintIn, paint, awaited, paintRun, paintShown, gallery, polish, shelf>>
ofStory    == <<papers, sheets, desk, works, texts, vetted>>
ofComic    == <<comicStore, page, reading, live, older, opened, editor, ops, notes, upload,
                action>>
ofAssets   == <<dialogVars, pageVars>>
ofNovel    == <<novels, shared, publishing, manager, calls, stored, confirmed, delivered>>
ofSettings == <<settings, config, settingsPage, reads, saving>>

\* Where a component may start in several ways, a scene that is not its own
\* starts in one of them.
MCInit ==
  /\ scene \in Scenes
  /\ ProjectsInit /\ VideoInit /\ FormInit /\ ImportInit /\ ImageInit /\ StoryInit
  /\ ComicInit /\ AssetInit /\ NovelInit /\ SettingsInit
  /\ scene = "projects" \/ (rows.list = <<>> /\ rows.active = none /\ startup.banner)
  /\ scene = "comic" \/ comicStore = ComicStart(1)
  /\ scene = "assets" \/ place.project = p1
  /\ scene = "novel" \/ manager = NovelClosed(p1)
  /\ scene = "story" \/ papers = <<>>

MCNext ==
  \/ /\ scene = "projects" /\ ProjectsNext
     /\ UNCHANGED <<scene, ofVideos, ofForm, ofImport, ofImages, ofStory, ofComic, ofAssets,
                    ofNovel, ofSettings>>
  \/ /\ scene = "videos" /\ VideoNext
     /\ UNCHANGED <<scene, ofProjects, ofForm, ofImport, ofImages, ofStory, ofComic, ofAssets,
                    ofNovel, ofSettings>>
  \/ /\ scene = "form" /\ FormNext
     /\ UNCHANGED <<scene, ofProjects, ofVideos, ofImport, ofImages, ofStory, ofComic, ofAssets,
                    ofNovel, ofSettings>>
  \/ /\ scene = "import" /\ ImportNext
     /\ UNCHANGED <<scene, ofProjects, ofVideos, ofForm, ofImages, ofStory, ofComic, ofAssets,
                    ofNovel, ofSettings>>
  \/ /\ scene = "images" /\ ImageNext
     /\ UNCHANGED <<scene, ofProjects, ofVideos, ofForm, ofImport, ofStory, ofComic, ofAssets,
                    ofNovel, ofSettings>>
  \/ /\ scene = "story" /\ StoryNext
     /\ UNCHANGED <<scene, ofProjects, ofVideos, ofForm, ofImport, ofImages, ofComic, ofAssets,
                    ofNovel, ofSettings>>
  \/ /\ scene = "comic" /\ ComicNext
     /\ UNCHANGED <<scene, ofProjects, ofVideos, ofForm, ofImport, ofImages, ofStory, ofAssets,
                    ofNovel, ofSettings>>
  \/ /\ scene = "assets" /\ AssetNext
     /\ UNCHANGED <<scene, ofProjects, ofVideos, ofForm, ofImport, ofImages, ofStory, ofComic,
                    ofNovel, ofSettings>>
  \/ /\ scene = "novel" /\ NovelNext
     /\ UNCHANGED <<scene, ofProjects, ofVideos, ofForm, ofImport, ofImages, ofStory, ofComic,
                    ofAssets, ofSettings>>
  \/ /\ scene = "settings" /\ SettingsNext
     /\ UNCHANGED <<scene, ofProjects, ofVideos, ofForm, ofImport, ofImages, ofStory, ofComic,
                    ofAssets, ofNovel>>

MCVars == <<scene, clicks, faults, ofProjects, ofVideos, ofForm, ofImport, ofImages, ofStory,
            ofComic, ofAssets, ofNovel, ofSettings>>

MCSpec == MCInit /\ [][MCNext]_MCVars

\* Type correctness of every component: each keeps its stores, dialogs and
\* operations on their way in the shapes its code declares.
WindowTypeOK ==
  CASE scene = "projects" -> ProjectsTypeOK
    [] scene = "videos"   -> VideoTypeOK
    [] scene = "form"     -> FormTypeOK
    [] scene = "import"   -> ImportTypeOK
    [] scene = "images"   -> ImageTypeOK
    [] scene = "story"    -> StoryTypeOK
    [] scene = "comic"    -> ComicTypeOK
    [] scene = "assets"   -> AssetTypeOK
    [] scene = "novel"    -> NovelTypeOK
    [] scene = "settings" -> SettingsTypeOK
=============================================================================
