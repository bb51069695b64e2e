SPECIFICATION Spec
CONSTANTS
  PassiveAt = 1
  BusOffAt = 2
  MaxFailures = 2
  Period = 1
  Settle = 2
  EventMod = 4
  Buses = {"good", "noisy", "dominant"}
PROPERTY VerdictSound
PROPERTY NoNeedlessReset
PROPERTY RecoversWhenHealed
