SPECIFICATION SessionSpec
CONSTANTS
  first = first
  again = again
  other = other
  shared = shared
  own = own
  b = b
  Login = {first, again, other}
  Email = {shared, own}
  EmailOf <- MCEmailOf
  Conn = {k1, k2, k3}
  Nobody = Nobody
  MaxLeaked = 1
  Browser = {b}
  BrowserOf <- MCBrowserOf
  Stale = Stale
INVARIANTS
  LoginInv
  PoolConserved
  TokenMeansUser
  SessionTypeOK
  CallersHaveUsers
PROPERTIES
  EveryLoginEnds
  PoolRecovers
CHECK_DEADLOCK FALSE
