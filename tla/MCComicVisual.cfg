CONSTANTS
  ja = ja
  jb = jb
  Chapters = {1}
  Pages = {1, 2}
  Texts <- MCTexts
  Part <- MCPart
  Complete <- MCComplete
  PageList <- MCPageList
  Bodies <- MCBadBodies
  Sources <- MCSources
  JobIds <- MCJob
  JobKinds = {"optimize"}
  InitialBooks <- MCWrittenBooks
  MaxEdits = 1
SPECIFICATION Spec
PROPERTIES
  NothingItWasBasedOnChanged
