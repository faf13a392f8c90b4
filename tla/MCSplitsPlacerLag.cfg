SPECIFICATION Spec
CONSTANTS
  p = p  q = q  s1 = s1  s2 = s2
  NoPosition = NoPosition
  Positions = {p, q}
  Names = {s1, s2}
  SplitName <- MCSplitName
  InitialRUs <- FreshRUs
  Outcomes <- ContendedOutcomes
  MaxFaults = 0
  MaxCrashes = 0
  MaxEdits = 0
INVARIANT SplitsMatchPositions
