SPECIFICATION CreateSpec
CONSTANTS
  a = a
  b = b
  c = c
  sold = sold
  ghost = ghost
  Seat = {a, b, c, sold}
  Ghost = {ghost}
  Request = {r1, r2, r3}
  Delivery = {}
  NoTxn = NoTxn
  InitialStatus <- MCInitialStatus
  SeatLists <- MCCrossingSeatLists
PROPERTIES
  EveryCallEnds
  ReservationSpec
CHECK_DEADLOCK FALSE
