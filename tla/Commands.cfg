SPECIFICATION FairSpec
CONSTANTS
  typed = typed
  home = home
  a = a
  b = b
  first = first
  second = second
  Texts = 2
  Capacity = 1
  MaxFaults = 1
  Found <- MCFound
  MinRecords = 2
  MaxNav = 2
  Pages <- MCPages
  MaxPages = 3
  Links <- MCLinks
  Seed = typed
  Sites <- MCSites
  MaxDepth = 2
INVARIANTS
  IInv
  OkMeansDone
  AnswersKept
  ValidatedWasJudged
  PoorResultTriedAll
  WalkIsExact
PROPERTIES
  CommandEnds
