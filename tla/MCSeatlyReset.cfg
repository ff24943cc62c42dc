SPECIFICATION Spec
CONSTANTS
  a = a
  b = b
  c = c
  card = card
  wallet = wallet
  p1 = p1
  p2 = p2
  c1 = c1
  p3 = p3
  c3 = c3
  u1 = u1
  u2 = u2
  Seat = {a, b}
  Ghost = {}
  Request = {card, wallet}
  Delivery = {p1, c1, p3, c3}
  NoTxn = NoTxn
  InitialStatus <- MCInitialStatus
  SeatLists <- MCOneSeatList
  Method <- MCMethod
  User = {u1, u2}
  UserOf <- MCUserOf
  NoCustomer = NoCustomer
  OldCustomer = {u1}
  Replicas = FALSE
  CheckoutOf <- MCCheckoutOf
  Reports <- MCReports
  Genuine = {p1, c1, p3, c3}
  Connections = 2
  SeatFirst = TRUE
  MaxFaults = 1
  AllowReset = TRUE
INVARIANTS
  BookedMeansPaid
  AckedMeansRecorded
PROPERTIES
  DeletedRowsFrozen
CHECK_DEADLOCK FALSE
