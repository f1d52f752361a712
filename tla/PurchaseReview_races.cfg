CONSTANTS
  t1 = t1
  t2 = t2
  h1 = h1
  h2 = h2
  NoDecision = NoDecision
  Incomplete = Incomplete
  ZeroQuote = "zero"
  Quotes <- MCQuotes
  Facts <- RaceFacts
  Policy <- RacePolicy
  Plan <- RacePlan
  Tasks <- MCTasks
  Handlers <- MCTwoHandlers
  MaxVersion = 2
  MaxLines = 2
  MaxResponses = 3
  MayFail = TRUE
  MayCrash = TRUE
  FailMayRaise = TRUE
SPECIFICATION Spec
SYMMETRY Symmetry
INVARIANT TypeOK
INVARIANT OneVersionOrdered
INVARIANT WholePlanOrdered
INVARIANT CompletedIsJustified
PROPERTY OrderedUnderStandingApproval
PROPERTY SavedDecisionsNeverChange
PROPERTY ImplementsApprovedOrdering
