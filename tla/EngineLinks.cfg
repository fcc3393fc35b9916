SPECIFICATION FairSpec
CONSTANTS
  None = None
  u1 = u1
  u2 = u2
  u3 = u3
  p1 = p1
  p2 = p2
  Urls <- ThreeUrls
  StartUrls <- TwoUrls
  Permits <- TwoPermits
  MaxPages = None
  MaxDepth = None
  FollowLinks = TRUE
  HasAgent = FALSE
  Replies <- NoReplies
  Stamps <- OneStamp
INVARIANTS
  BudgetCountsVisited
  IdleExitMeansNoTasks
  IdleStatsFinal
PROPERTIES
  ImplementsFrontier
  Termination
  StartUrlsFetched
