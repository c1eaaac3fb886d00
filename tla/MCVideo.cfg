SPECIFICATION MCSpec
CONSTANTS
  none = none
  MaxFaults = 1
  ShotCount = 2
  VideoProjects = {p1}
  Requests = {q1}
  MaxTasks = 3
  MaxRevisions = 0
  MaxVideoClicks = 4
INVARIANT NoShotPaidTwice
CHECK_DEADLOCK FALSE
