SPECIFICATION MCSpec
CONSTANTS
  none = none
  MaxFaults = 0
  ChapterCount = 1
  StageCount = 4
  AnchorStage = 2
  WorkCount = 1
  MaxStoryClicks = 4
PROPERTY TypedTextSurvives
CHECK_DEADLOCK FALSE
