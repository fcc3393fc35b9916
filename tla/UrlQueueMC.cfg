SPECIFICATION Spec
CONSTANTS
  u1 = u1
  u2 = u2
  u3 = u3
  Urls <- MCUrls
  Offers <- MCOffers
  Batches <- MCBatches
INVARIANTS
  IInv
PROPERTIES
  VisitedStaysOut
  ImplementsDedupQueue
