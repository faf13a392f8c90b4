SPECIFICATION Spec
CONSTANTS
  Pieces = {"cu", "ru"}
  MaxPlacers = 2
  MaxSplits = 2
  MaxUserSplits = 2
  MaxAborts = 1
INVARIANT TypeOK
PROPERTIES SplitIsServed NothingLeft
CHECK_DEADLOCK FALSE
