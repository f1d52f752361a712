CONSTANTS
  Unlimited = Unlimited
  NoPlan = NoPlan
  MaxOptions = 5
  MaxStates = 10
  LotBound = 8
  Cases <- MCCases
SPECIFICATION Spec
INVARIANTS
  TypeOK
  PolicyQuantityIsRight
  PlanKeepsLimits
  PruningLosesNothing
  PlanIsBest
  OnlyFinalLineRounds
  PlanAgreesWithPolicy
