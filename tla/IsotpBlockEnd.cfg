SPECIFICATION Spec
CONSTANTS
  Lens = {3}
  Capacity = 3
  MaxMsgs = 1
  BlockSize = 2
  Stmin = 1
  SnMod = 4
  NAs = 2
  NBs = 2
  NCr = 2
  NAr = 2
  Mailboxes = 2
  LossBudget = 0
  ForeignBudget = 0
  AppTraffic = FALSE
  Prompt = TRUE
INVARIANT DeliveredIsNotTimeout
