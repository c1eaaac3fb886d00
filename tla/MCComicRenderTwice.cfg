CONSTANTS
  ja = ja
  jb = jb
  JobIds <- MCTwoJobs
  Pages = {1}
  Texts = {1, 2}
  Complete <- MCComplete
  Injections = {1}
  Contents = {1, 2}
  MaxAssets = 1
  MaxEdits = 1
SPECIFICATION FairSpec
PROPERTIES
  ImplementsLedger
  EveryRenderEnds
