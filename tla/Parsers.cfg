SPECIFICATION Spec
CONSTANTS
  HexDigits = 2
  MinPerBlock = 2
  Header = 1
  Mark <- MCMark
  Digits <- MCDigits
  Answers <- MCAnswers
  Texts <- MCTexts
  Pages <- MCPages
  Domains <- MCDomains
  Patterns <- MCPatterns
  Scripts <- MCScripts
  Limits <- MCLimits
  Documents <- MCDocuments
  Paths <- MCPaths
  Responses <- MCResponses
  Containers <- MCContainers
  Plans <- MCPlans
  Prices <- MCPrices
INVARIANTS
  AnswersAreRead
  LinksAreFound
  PageDataIsRead
  RecordsAreOwn
  NothingStopsActions
