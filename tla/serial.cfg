SPECIFICATION FairSpec
CONSTANTS
  b1 = b1
  b2 = b2
  p1 = p1
  p2 = p2
  r1 = r1
  r2 = r2
  None = None
  Booking = {b1, b2}
  Payment = {p1}
  Date = {0, 1}
  Request = {r1}
  StayOf <- Overlap
  BookingOf <- OnlyP1ForB1
  WithCoupon = {}
  CouponMax = 1
  LastDay = 1
  Endpoints = {"create", "order", "poll", "report", "verify", "cancel", "adminCancel", "complete", "sweep", "refund", "delete", "block"}
  Faults = {"gatewayDown", "refusal", "lostReply"}
PROPERTIES
  NoPaymentLost
CHECK_DEADLOCK FALSE
