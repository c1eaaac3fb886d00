CONSTANTS
  j1 = j1
  j2 = j2
  j3 = j3
  w1 = w1
  w2 = w2
  JobIds <- MCJobIds
  Works <- MCWorks
  NoWork = none
  c1 = c1
  c2 = c2
  c3 = c3
  none = none
  Calls <- MCCalls
  Keys = {k1, k2}
  Texts = {t1, t2}
  Places = {1, 2}
  OldWorks = {w0}
  v1 = v1
  v2 = v2
  v3 = v3
  Versions <- MCVersions
  Size <- MCSize
  Tag <- MCTag
  noTag = none
  Attempts = 4
  Limit = 3
  Builds = {1, 3}
  BackupsKept = 3
  MaxEdits = 2
  MaxStarts = 6
SYMMETRY MCSymmetry
SPECIFICATION MCSpec
CHECK_DEADLOCK FALSE
INVARIANTS
  OneJobPerWork
  RunningIsAttended
  VideoIsWhole
  UpgradeCanBeUndone
PROPERTIES
  TerminalIsForever
  KeepsTheBook
