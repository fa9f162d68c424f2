SPECIFICATION Spec
CONSTANTS
  x1 = x1
  x2 = x2
  x3 = x3
  r1 = r1
  r2 = r2
  None = None
  Row = {x1, x2, x3}
  Request = {r1, r2}
  Captured = 2
  Asked = {1}
  Faults = {"refusal", "die", "lostReply", "earlyReport"}
SYMMETRY RowsAndRequests
INVARIANTS
  CompletedIsPaid
  RefundedIsPaid
CHECK_DEADLOCK FALSE
