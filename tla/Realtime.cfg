SPECIFICATION RealtimeLiveSpec
CONSTANTS
  MaxItems = 2
  PlanSteps = 2
CHECK_DEADLOCK FALSE
INVARIANT TurnActedOnce
PROPERTY NewestOnly NothingForgotten
