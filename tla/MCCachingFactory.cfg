SPECIFICATION CacheSpec
CONSTANTS
  x = x
  y = y
  z = z
  k1 = k1
  k2 = k2
  Call = {x, y, z}
  PayloadOf <- MCPayloadOf
  Conn = {k1, k2}
  ConnOf <- MCConnOf
  Absent = Absent
INVARIANTS
  WatchGuards
  DoubleAddHasCause
PROPERTIES
  AddTakesEffect
CHECK_DEADLOCK FALSE
