SPECIFICATION MCSpec
CONSTANTS
  none = none
  MaxFaults = 0
  NovelProjects = {p1}
  FirstChapters = 2
  MaxNovelClicks = 3
INVARIANT EveryReadPublishes
CHECK_DEADLOCK FALSE
