SPECIFICATION Spec
CONSTANTS
  p1 = p1
  r1 = r1
  r2 = r2
  None = None
  Listing = {p1}
  Request = {r1, r2}
  MaxVersion = 2
  KycRequired = TRUE
SYMMETRY EitherRequest
INVARIANTS
  TypeOK
  OneInForce
  QueueIsQualified
  SoldWasApproved
CHECK_DEADLOCK FALSE
