CONSTANTS
  Arm = {a1, a2}
  Wheels = {w}
  Top = 3
  Lead = 2
  Handlers = {h1, h2}
  Mixes <- Mixed
SPECIFICATION Spec
INVARIANTS FrozenUntilReleased
PROPERTIES StopSettles SiblingsBraced
CHECK_DEADLOCK FALSE
