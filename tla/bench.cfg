SPECIFICATION MCSpec
CONSTANTS
  d1 = d1
  d2 = d2
  None = None
  Drives = {d1, d2}
  Buses = {1, 2}
  MaxId = 2
  Resets = 1
  MaxRuns = 2
  MaxFaults = 2
  Ranges <- MCRanges
  Targets <- MCTargets
  MaxStops = 1
INVARIANTS HitsAreReal FoundAll
PROPERTIES DoubtfulNeverSaved ZeroedAfterCali
CHECK_DEADLOCK FALSE
