SPECIFICATION FairSpec
CONSTANTS
  s1 = s1
  s2 = s2
  w1 = w1
  w2 = w2
  r1 = r1
  None = None
  Stay = {s1, s2}
  Stars = {1, 2}
  Writer = {w1, w2}
  MaxWrites = 2
  Reader = {r1}
  Faults = {"slow", "lost", "die"}
  MaxFaults = 1
INVARIANTS
  RatingIsTrue
  KeptIsFresh
PROPERTIES
  PageCatchesUp
CHECK_DEADLOCK FALSE
