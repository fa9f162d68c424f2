SPECIFICATION Spec
CONSTANTS
  b1 = b1
  b2 = b2
  p1 = p1
  p2 = p2
  r1 = r1
  r2 = r2
  None = None
  Booking = {b1}
  Payment = {p1}
  Date = {0}
  Request = {r1, r2}
  StayOf <- OneStay
  BookingOf <- OnlyP1ForB1
  WithCoupon = {}
  CouponMax = 1
  LastDay = 0
  Endpoints = {"create", "order", "report", "cancel"}
  Faults = {}
INVARIANTS
  ConfirmedHoldsNights
CHECK_DEADLOCK FALSE
