SPECIFICATION Spec
CONSTANTS
  c1 = c1
  c2 = c2
  m1 = m1
  s1 = s1
  s2 = s2
  e1 = e1
  e2 = e2
  Card <- TwoCards
  Manual <- OneManual
  Pickup <- OneCard
  Courier <- OtherCard
  Slots <- TwoSlots
  EventIds <- OneId
  RefundResults <- AnyAnswer
  CourierStates <- CourierTrip
CHECK_DEADLOCK FALSE
CONSTRAINT OneOrder
INVARIANTS
  TypeOK
  LedgerMatchesStatus
PROPERTIES
  StatusMovesAreLegal
