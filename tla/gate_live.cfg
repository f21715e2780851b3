CONSTANTS
  PlantImages <- LiveImages
  BenchOps <- LiveOps
  Protocols = {"RS", "DM"}
  PeerKills = {"NORMAL"}
  MaxSeq = 2
  MaxWire = 2
  SoftMs = 1
  HardMs = 2
  LeaseMs = 3
  QuietMs = 2
  StuckMs = 3
SPECIFICATION Spec
PROPERTIES LatestWins EstopTakesEffect SilenceStopsDrive SilenceEndsBench
