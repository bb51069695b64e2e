SPECIFICATION Spec
CONSTANTS
  S3 = 2
  Delay = 2
  MaxAttempts = 2
  TimeMod = 16
  StartAt = 1
  Horizon = 1
  Services = {"10", "31"}
  Suppressible = {"31"}
INVARIANT PendingIsOwed
