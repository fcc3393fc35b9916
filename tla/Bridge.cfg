SPECIFICATION FairSpec
CONSTANTS
  c1 = c1
  c2 = c2
  shop = shop
  selector = selector
  Calls <- MCCalls
  Domains <- MCDomains
  DomainOf <- MCDomainOf
  Facts <- MCFacts
  MaxPages = 2
  MaxRecords = 1
INVARIANTS
  DirsInOrder
  PagesCountedOnce
PROPERTIES
  LossHasACause
  EveryCallReturns
CHECK_DEADLOCK FALSE
