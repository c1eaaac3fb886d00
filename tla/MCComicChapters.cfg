CONSTANTS
  ja = ja
  jb = jb
  Chapters = {1, 2}
  Pages = {1}
  Texts <- MCTexts
  Part <- MCPart
  Complete <- MCComplete
  PageList <- MCPageList
  Bodies <- MCBodies
  Sources <- MCSources
  JobIds <- MCTwoJobs
  JobKinds = {"script", "sync"}
  InitialBooks <- MCChapterBooks
  MaxEdits = 1
SPECIFICATION Spec
PROPERTIES
  ImplementsLedger
  AppliedOnWhatWasRead
