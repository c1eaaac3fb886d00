SPECIFICATION MCSpec
CONSTANTS
  none = none
  p1 = p1
  p2 = p2
  p3 = p3
  pa = pa
  pb = pb
  ca = ca
  m1 = m1
  m2 = m2
  MaxFaults = 2
  ProjectIds = {p1, p2, p3}
  Profiles = {0, 1}
  DefaultProfile = 0
  MaxProjectClicks = 3
  ShotCount = 2
  VideoProjects = {p1, p2}
  Requests = {q1, q2}
  MaxTasks = 2
  MaxRevisions = 1
  MaxVideoClicks = 3
  Pictures = {pa, pb}
  Clips = {ca}
  Public = {pa, ca}
  Unassigned = {}
  Models = {m1, m2}
  Unknown = unknown
  Capabilities <- TwoModels
  Storyboards <- TwoStoryboards
  MaxFormClicks = 4
  ImportProjects = {p1, p2}
  Endpoints = {e1, e2}
  ImportCount = 1
  MaxImportClicks = 8
  ImageProjects = {p1, p2}
  Templates = {t1, t2}
  PictureCount = 1
  MaxImageClicks = 6
  ChapterCount = 2
  StageCount = 4
  AnchorStage = 2
  WorkCount = 1
  MaxStoryClicks = 4
  DocCount = 2
  OpCount = 2
  StylePictures = {1}
  MaxComicClicks = 3
  AssetProjects = {p1, p2}
  MaxAssetClicks = 4
  NovelProjects = {p1, p2}
  FirstChapters = 2
  MaxNovelClicks = 4
  FirstProfiles = 2
  MaxSettingsClicks = 5
INVARIANTS
  WindowTypeOK
  FormsFollowActive
  NothingSkippedUnpaid
  PanelRunsOnce
  UploadsGoWhereShown
  SubmittedIsAccepted
  OffersBelong
  GateIsTrue
  AnswerStaysWithVersion
  NoOldTextAfterSave
  CleanFormIsStored
PROPERTIES
  DraftsSurvive
  AckedIsShown
  ReferencesStayHome
  ImportStaysCurrent
  TypingIsKept
  CascadeSettles
CHECK_DEADLOCK FALSE
