CONSTANTS
  t1 = t1
  t2 = t2
  h1 = h1
  h2 = h2
  NoDecision = NoDecision
  Incomplete = Incomplete
  ZeroQuote = "zero"
  Quotes <- MCQuotes
  Facts <- MCFacts
  Policy <- MCPolicy
  Plan <- MCPlan
  Tasks <- MCTasks
  Handlers <- MCOneHandler
  MaxVersion = 2
  MaxLines = 2
  MaxResponses = 1
  MayFail = FALSE
  MayCrash = FALSE
  FailMayRaise = FALSE
SPECIFICATION Spec
SYMMETRY Symmetry
INVARIANT NewApprovalRequested
