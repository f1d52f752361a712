CONSTANTS
  e1 = e1
  e2 = e2
  e3 = e3
  e4 = e4
  h1 = h1
  h2 = h2
  NoEvent = NoEvent
  Events <- MCEvents
  Handlers <- MCHandlers
  MaxOrders = 1
  MaxQuantity = 2
  Target = 2
  MaxRecovery = 2
SPECIFICATION Spec
PROPERTY ConfirmedNeverShrinks
