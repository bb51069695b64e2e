SPECIFICATION LinksSpec
CONSTANTS
  Lens = {1, 4, 6, 7}
  Capacity = 6
  MaxMsgs = 3
  BlockSize = 2
  Stmin = 0
  SnMod = 4
  NAs = 2
  NBs = 2
  NCr = 2
  NAr = 2
  Mailboxes = 2
  LossBudget = 2
  ForeignBudget = 1
  AppTraffic = FALSE
  Prompt = TRUE
  Requests = {1, 3, 6, 7}
  Responses = {1, 4, 6}
  SendTimeout = 3
  CallTimeout = 4
INVARIANT LinksTypeOK
INVARIANT DeliveredIsNotTimeout
INVARIANT GrantRespected
INVARIANT EndsAgree
INVARIANT WholeUnlessAborted
PROPERTY NodeLinkSpec
PROPERTY NobodyStuck
