CONSTANTS
  Callers = {c1, c2}
  Mixes <- Mixed
  MaxClock = 1
  Ring = 2
  Post = 1
  Grace = 1
SPECIFICATION Spec
SYMMETRY Alike
INVARIANTS FlushCovers RecordingComplete DumpsWhole
CHECK_DEADLOCK FALSE
