CONSTANTS
  rec1 = rec1
  e1 = e1
  k1 = k1
  k2 = k2
  c1 = c1
  c2 = c2
  r1 = r1
  r2 = r2
  NoKey = NoKey
  NoCall = NoCall
  NoSales = NoSales
  Planned <- MCPlanned
  Events <- MCEvents
  BuyerKeys <- MCKeys
  Creators <- MCCreators
  Receivers <- MCReceivers
  Observed <- MCObserved
  Window <- MCWindow
  AllFacts <- SpikeFacts
  MaxReviews = 3
  MayCrash = FALSE
SPECIFICATION Spec
INVARIANT OneActiveReview
CHECK_DEADLOCK FALSE
