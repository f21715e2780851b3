CONSTANTS
  StaleMs = 2
  RingFrames = 2
  PeerKills = {"NORMAL", "SOFT_REQ"}
SPECIFICATION Spec
PROPERTY SilenceIsHard
