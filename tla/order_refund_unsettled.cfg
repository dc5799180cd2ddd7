SPECIFICATION Spec
CONSTANTS
  c1 = c1
  c2 = c2
  m1 = m1
  s1 = s1
  s2 = s2
  e1 = e1
  e2 = e2
  Card <- OneCard
  Manual <- Nobody
  Pickup <- OneCard
  Courier <- Nobody
  Slots <- OneSlot
  EventIds <- OneId
  RefundResults <- AnyAnswer
  CourierStates <- CourierTrip
CHECK_DEADLOCK FALSE
INVARIANTS
  RefundedMeansReturned
