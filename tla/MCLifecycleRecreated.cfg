SPECIFICATION Spec
CONSTANTS
  Pieces = {"cu", "ru"}
  MaxPlacers = 2
  MaxSplits = 2
  MaxUserSplits = 0
  MaxAborts = 0
INVARIANT FinishedHasItsSplit
CHECK_DEADLOCK FALSE
