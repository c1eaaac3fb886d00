CONSTANTS
  ja = ja
  jb = jb
  Chapters = {1}
  Pages = {1, 2}
  Texts <- MCTexts
  Part <- MCPart
  Complete <- MCComplete
  PageList <- MCPageList
  Bodies <- MCBadBodies
  Sources <- MCSources
  JobIds <- MCJob
  JobKinds = {"settings", "script", "storyboard", "page_prompts", "optimize", "sync"}
  InitialBooks <- MCWrittenBooks
  MaxEdits = 1
SPECIFICATION FairSpec
PROPERTIES
  EveryJobEnds
