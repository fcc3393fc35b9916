SPECIFICATION FairSpec
CONSTANTS
  c1 = c1
  c2 = c2
  plain = plain
  shop404 = shop404
  Callers <- MCCallers
  Urls <- MCUrls
  CodesIn <- MCCodesIn
  Statuses <- MCStatuses
  MaxSize = 1
  Ttl = 1
  Timeout = 1
  Proxied = FALSE
  Retrying = TRUE
  MaxRetries = 2
  InitialDelay = 1
  BackoffFactor = 4
  MaxDelay = 2
INVARIANTS
  IInv
  FailuresAreNoPages
  GivesUpHonestly
  CallTimeBounded
  CacheBounded
PROPERTIES
  CacheKeepsLive
  EveryCallReturns
