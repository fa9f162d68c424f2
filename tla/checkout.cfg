SPECIFICATION Spec
CONSTANTS
  u1 = u1
  u2 = u2
  r1 = r1
  r2 = r2
  Absent = Absent
  User = {u1, u2}
  Request = {r1, r2}
  Date = {1, 2}
  Weekend = {2}
  Lists <- MCLists
  Fees = {0, 525}
  FirstList <- Full
  FirstFee = 525
  EnvFee = 0
  FirstTerms <- MCFirst
  Terms <- MCTerms
  Asks <- MCAsks
  MaxBookings = 2
  MaxEdits = 1
SYMMETRY SameGuests
INVARIANTS
  TypeOK
  PerUserLimit
  ChargedFairly
  HoldsWhatItOwes
CHECK_DEADLOCK FALSE
