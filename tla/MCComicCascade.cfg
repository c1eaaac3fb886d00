CONSTANTS
  ja = ja
  jb = jb
  Chapters = {1, 2}
  Pages = {1}
  Texts <- MCTexts
  Part <- MCPart
  Complete <- MCComplete
  PageList <- MCPageList
  Bodies <- MCBodies
  Sources <- MCSources
  JobIds <- MCJob
  JobKinds = {"optimize"}
  InitialBooks <- MCChapterBooks
  MaxEdits = 0
SPECIFICATION Spec
PROPERTIES
  OptimizationReachesDownstream
