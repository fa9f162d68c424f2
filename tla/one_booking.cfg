SPECIFICATION Spec
CONSTANTS
  b1 = b1
  b2 = b2
  p1 = p1
  p2 = p2
  r1 = r1
  r2 = r2
  None = None
  Booking = {b1}
  Payment = {p1, p2}
  Date = {0}
  Request = {r1, r2}
  StayOf <- OneStay
  BookingOf <- BothForB1
  WithCoupon = {}
  CouponMax = 1
  LastDay = 1
  Endpoints = {"create", "order", "report", "verify", "cancel", "complete", "refund", "delete"}
  Faults = {"die", "gatewayDown", "refusal", "lostReply"}
SYMMETRY RequestsAndPayments
INVARIANTS
  ConfirmedWasPaid
  OneOpenPayment
  RefundsAreReal
PROPERTIES
  CapturedStaysRecorded
CHECK_DEADLOCK FALSE
