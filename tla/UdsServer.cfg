SPECIFICATION Spec
CONSTANTS
  S3 = 2
  Delay = 2
  MaxAttempts = 2
  TimeMod = 16
  StartAt = 15
  Horizon = 3
  Services = {"10", "22", "27", "2E", "31", "3E"}
  Suppressible = {"27"}
INVARIANT TypeOK
INVARIANT SessionExpires
INVARIANT DelayHolds
INVARIANT DelayEnds
INVARIANT PendingIsOwed
INVARIANT RamIsDurable
PROPERTY SessionKept
PROPERTY LockedBySessionChange
PROPERTY FinalResponse
