SPECIFICATION Spec
CONSTANTS
  QueueCapacity = 2
  MaxPolls = 1
  MaxFragments = 2
  Deferred = {"2E"}
  Services = {"22", "2E"}
  LongRequests = {"2E"}
  Retries = 1
  MaxRequests = 2
INVARIANT ResponseIntact
INVARIANT InSync
PROPERTY NewestKept
PROPERTY EndpointFreed
PROPERTY ExchangeAnswered
