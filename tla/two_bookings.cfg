SPECIFICATION Spec
CONSTANTS
  b1 = b1
  b2 = b2
  p1 = p1
  p2 = p2
  r1 = r1
  r2 = r2
  None = None
  Booking = {b1, b2}
  Payment = {p1}
  Date = {0}
  Request = {r1, r2}
  StayOf <- SameNight
  BookingOf <- OnlyP1ForB1
  WithCoupon = {b1,b2}
  CouponMax = 2
  LastDay = 1
  Endpoints = {"create","order","report","cancel","adminCancel","sweep","block"}
  Faults = {}
SYMMETRY Requests
INVARIANTS
  NightHeldOnce
  DeadHoldsNothing
  OnlyTornLoseNights
  BookedMeansHeld
  BlockedIsFree
  RedemptionsCovered
PROPERTIES
  SellsDates
CHECK_DEADLOCK FALSE
