SPECIFICATION CacheSpec
CONSTANTS
  x = x
  y = y
  z = z
  k1 = k1
  k2 = k2
  Call = {x, y}
  PayloadOf <- MCPayloadOf
  Conn = {k1}
  ConnOf <- MCOneProcess
  Absent = Absent
INVARIANTS
  NoDoubleAdd
CHECK_DEADLOCK FALSE
