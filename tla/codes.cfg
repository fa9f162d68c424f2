SPECIFICATION Spec
CONSTANTS
  r1 = r1
  r2 = r2
  a1 = a1
  a2 = a2
  None = None
  Request = {r1, r2}
  Account = {a1, a2}
  Media = {"phone", "email"}
  Uses = {"enter", "attach"}
  MaxCodes = 2
  MaxAttempts = 3
  MaxSends = 1
  Faults = {"gateway", "lapse", "taken", "die"}
SYMMETRY AnyOfBoth
INVARIANTS
  ClaimedOnce
  GuessBudget
  HolderProved
CHECK_DEADLOCK FALSE
