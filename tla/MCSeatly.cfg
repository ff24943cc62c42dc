SPECIFICATION Spec
CONSTANTS
  a = a
  b = b
  c = c
  card = card
  wallet = wallet
  p1 = p1
  p2 = p2
  c1 = c1
  p3 = p3
  c3 = c3
  u1 = u1
  u2 = u2
  Seat = {a, b, c}
  Ghost = {}
  Request = {card, wallet}
  Delivery = {p1, c1, p3, c3}
  NoTxn = NoTxn
  InitialStatus <- MCInitialStatus
  SeatLists <- MCSeatLists
  Method <- MCStripe
  User = {u1}
  UserOf <- MCOneUser
  NoCustomer = NoCustomer
  OldCustomer = {}
  Replicas = TRUE
  CheckoutOf <- MCCheckoutOf
  Reports <- MCReports
  Genuine = {p1, c1, p3, c3}
  Connections = 2
  SeatFirst = TRUE
  MaxFaults = 1
  AllowReset = FALSE
INVARIANTS
  NoDoubleClaim
  BookedMeansPaid
  StripePaidHasSeat
  AckedMeansRecorded
  PaidIsFindable
  LeakedHoldsNoRow
  SessionsHaveOwnCustomer
  CustomersAccountedFor
PROPERTIES
  SaleSpec
SYMMETRY MCSymmetry
CHECK_DEADLOCK FALSE
