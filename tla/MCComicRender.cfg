CONSTANTS
  ja = ja
  jb = jb
  JobIds <- MCJob
  Pages = {1, 2}
  Texts = {1, 3}
  Complete <- MCComplete
  Injections = {1, 2}
  Contents = {1, 2}
  MaxAssets = 2
  MaxEdits = 2
SPECIFICATION Spec
INVARIANTS
  CurrentImageIsTrue
  ReferencesAreTheAdmittedOnes
  NoUntrackedImages
  ProgressIsTrue
  SnapshotsAreOwned
PROPERTIES
  NotBornOutdated
