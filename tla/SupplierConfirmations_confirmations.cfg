CONSTANTS
  e1 = e1
  e2 = e2
  e3 = e3
  e4 = e4
  h1 = h1
  h2 = h2
  NoEvent = NoEvent
  Events <- MCEvents
  Handlers <- MCHandlers
  MaxOrders = 2
  MaxQuantity = 3
  Target = 3
  MaxRecovery = 1
SPECIFICATION Spec
SYMMETRY Symmetry
INVARIANT TypeOK
INVARIANT PartialIsFollowedUp
INVARIANT RecoveryBounded
INVARIANT ConfirmedIsLargest
PROPERTY EventsAreTakenOnce
