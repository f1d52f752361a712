CONSTANTS
  Unlimited = Unlimited
  NoPlan = NoPlan
  MaxOptions = 5
  MaxStates = 10
  LotBound = 8
  Cases <- OverbuyCases
SPECIFICATION Spec
INVARIANT FinalIsLineSum
