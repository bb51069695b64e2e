SPECIFICATION Spec
CONSTANTS
  Depth = 2
  HwDepth = 2
  MaxArrivals = 4
  DroppedMod = 8
  Malformed = Malformed
  Nothing = Nothing
INVARIANT EveryFrameAccounted
INVARIANT ClassOrderKept
PROPERTY PathDrains
