CONSTANTS
  PlantImages <- SafetyImages
  BenchOps <- SafetyOps
  Protocols = {"RS", "DM", "CM"}
  PeerKills = {"NORMAL", "SOFT_REQ"}
  MaxSeq = 3
  MaxWire = 2
  SoftMs = 1
  HardMs = 2
  LeaseMs = 3
  QuietMs = 2
  StuckMs = 3
SPECIFICATION Safety
INVARIANTS IInv NoStaleDrive
PROPERTIES AppliedInOrder AckOnlyParked LeaseCutsDrive
