SPECIFICATION FairSpec
CONSTANTS
  e1 = e1
  r1 = r1
  r2 = r2
  None = None
  Event = {e1}
  Request = {r1, r2}
  TypeOf <- Confirmation
  Mailed = {e1}
  Messaged = {e1}
  EmailAttempts = 2
  Concurrency = 1
  RedisConfigured = TRUE
  Preferences <- MutedOrBoth
  Faults = {"crash", "redis", "timeout", "smtp", "replyLost", "drain", "database", "wipe"}
INVARIANTS
  TypeOK
  NoMoreCopies
PROPERTIES
  QueuedSettles
  HandedOver
  OwedIsTried
CHECK_DEADLOCK FALSE
