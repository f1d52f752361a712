CONSTANTS
  t1 = t1
  t2 = t2
  h1 = h1
  h2 = h2
  NoDecision = NoDecision
  Incomplete = Incomplete
  ZeroQuote = "zero"
  Quotes <- MCQuotes
  Facts <- LiveFacts
  Policy <- LivePolicy
  Plan <- LivePlan
  Tasks <- MCTasks
  Handlers <- MCOneHandler
  MaxVersion = 2
  MaxLines = 2
  MaxResponses = 1
  MayFail = TRUE
  MayCrash = FALSE
  FailMayRaise = FALSE
SPECIFICATION Spec
SYMMETRY Symmetry
PROPERTY WrittenLinesAreKept
