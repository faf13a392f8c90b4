SPECIFICATION Spec
CONSTANTS
  p = p  q = q  s1 = s1  s2 = s2
  NoPosition = NoPosition
  Positions = {p, q}
  Names = {s1, s2}
  SplitName <- MCSplitName
  InitialRUs <- MCInitialRUs
  Outcomes <- MCOutcomes
  MaxFaults = 2
  MaxCrashes = 1
  MaxEdits = 1
INVARIANTS TypeOK FinishedHasSplits FinishedCountsRUs SplitsMatchOnePlacement
PROPERTIES StaleRunsKeepReport PlacerSettles
