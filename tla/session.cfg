CONSTANTS
  main = main
  other = other
  Owner = main
  Others = {other}
  Plans <- MCPlans
  Cap = 2
  Ticks = 2
SPECIFICATION Spec
INVARIANTS RepliesKept PausedIsQuiet ClosedIsIdle
PROPERTY ShownCatchesUp
CHECK_DEADLOCK FALSE
