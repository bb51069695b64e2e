SPECIFICATION Spec
CONSTANTS
  id1 = id1
  id2 = id2
  p1 = p1
  p2 = p2
  Depth = 2
  Ids <- MCIds
  Payloads <- MCPayloads
  Malformed = Malformed
  Nothing = Nothing
  DroppedMod = 2
PROPERTY FifoSpec
PROPERTY SlotBeingReadIsStable
