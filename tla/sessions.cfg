SPECIFICATION FairSpec
CONSTANTS
  b1 = b1
  b2 = b2
  c1 = c1
  c2 = c2
  c3 = c3
  None = None
  Token = {1, 2, 3, 4}
  Tab = {b1, b2}
  Call = {c1, c2, c3}
  TabOf <- TwoTabs
  Faults = {"lost", "expiry", "disabled"}
INVARIANTS
  OneTokenPerSession
  CookieIsGood
PROPERTIES
  ChainNeverForks
  CallsEnd
CHECK_DEADLOCK FALSE
