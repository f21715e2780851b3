CONSTANTS
  FrameLen = 6
  MagicLen = 3
  HeaderLen = 4
  Checks = {TRUE, FALSE}
  RingCap = 4
  Frames = 4
  MaxFaults = 2
  MaxSkip = 7
  RingBytes = {a, b}
  RingSize = 4
  MaxPush = 3
  MaxRead = 2
SPECIFICATION MCSpec
INVARIANT GarbledCostsOneFrame
PROPERTIES StuckOnlyWhenSplit ImplementsFifo
