SPECIFICATION LinksSpec
CONSTANTS
  Lens = {1, 4}
  Capacity = 4
  MaxMsgs = 2
  BlockSize = 2
  Stmin = 1
  SnMod = 4
  NAs = 1
  NBs = 1
  NCr = 1
  NAr = 1
  Mailboxes = 2
  LossBudget = 0
  ForeignBudget = 0
  AppTraffic = TRUE
  Prompt = FALSE
  Requests = {1, 4}
  Responses = {1, 4}
  SendTimeout = 1
  CallTimeout = 1
INVARIANT WholeUnlessAborted
PROPERTY UnreadMessageKept
PROPERTY NobodyStuck
