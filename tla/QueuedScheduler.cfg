SPECIFICATION SchedulerSpec
CONSTANTS
  Nodes = {"ecu1", "ecu2"}
  Exclusive = {"02", "03"}
  Default = "01"
  DefaultRetries = 1
  MaxJobs = 3
INVARIANT SessionsExclusive
PROPERTY EveryJobResolved
CHECK_DEADLOCK FALSE
