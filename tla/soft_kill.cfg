CONSTANTS
  RearmNeedsNormal = FALSE
  PlainCalls = {"park", "disarm", "move"}
  HeedingCalls = {"park", "recover", "arm", "move"}
SPECIFICATION Spec
PROPERTIES ParkIsAnswered DisarmLasts SlateIsClean RecoveryCompletes
