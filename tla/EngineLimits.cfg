SPECIFICATION Spec
CONSTANTS
  None = None
  u1 = u1
  u2 = u2
  u3 = u3
  p1 = p1
  p2 = p2
  Urls <- ThreeUrls
  StartUrls <- OneStart
  Permits <- TwoPermits
  MaxPages = 2
  MaxDepth = 1
  FollowLinks = TRUE
  HasAgent = TRUE
  Replies <- MCReplies
  Stamps <- OneStamp
SYMMETRY PermitSymmetry
INVARIANTS
  IInv
  WithinPageLimit
  EveryFetchCounted
  RowKeepsUp
