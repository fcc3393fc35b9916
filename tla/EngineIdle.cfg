SPECIFICATION Spec
CONSTANTS
  None = None
  u1 = u1
  u2 = u2
  u3 = u3
  p1 = p1
  p2 = p2
  Urls <- TwoUrls
  StartUrls <- OneStart
  Permits <- OnePermit
  MaxPages = None
  MaxDepth = None
  FollowLinks = TRUE
  HasAgent = FALSE
  Replies <- NoReplies
  Stamps <- OneStamp
INVARIANTS
  IdleMeansDone
