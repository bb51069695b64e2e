SPECIFICATION WatchdogSpec
CONSTANTS
  Refresh = 30
  Delay = 11
  Work = 1
  RecoverWork = 12
  RecoverPeriod = 60
  Closed = 22
  Open = 48
INVARIANT NoWatchdogReset
