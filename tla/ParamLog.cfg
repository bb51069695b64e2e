SPECIFICATION Spec
CONSTANTS
  Dids = {vin, custom}
  Values = {v1, v2}
  Unset = Unset
  Erased = Erased
  Torn = Torn
  Nothing = Nothing
  SlotCount = 3
INVARIANT TypeOK
INVARIANT StoreIsDurable
PROPERTY DurableSpec
PROPERTY BootLeavesRoom
