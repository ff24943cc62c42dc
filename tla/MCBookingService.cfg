SPECIFICATION CreateSpec
CONSTANTS
  a = a
  b = b
  c = c
  sold = sold
  ghost = ghost
  Seat = {a, b, c, sold}
  Ghost = {ghost}
  Request = {r1, r2, r3}
  Delivery = {}
  NoTxn = NoTxn
  InitialStatus <- MCInitialStatus
  SeatLists <- MCSeatLists
SYMMETRY MCSymmetry
INVARIANTS
  CreateInv
  SeatsAccountedFor
  WholeListOrNothing
  BookingsHaveJobs
  RefusalLeavesNothing
  ConflictJustified
  NotEverybodyLoses
CHECK_DEADLOCK FALSE
