------------------------------ MODULE Statuses ------------------------------
(***************************************************************************)
(* The two status machines every handler of the booking engine consults:   *)
(* what a booking and what a payment may become next, and the named sets   *)
(* of statuses the guards and the conditional updates are written with.    *)
(***************************************************************************)

BookingStatus ==
  {"PENDING", "PAYMENT_PENDING", "CONFIRMED", "CANCELLED",
   "COMPLETED", "EXPIRED", "FAILED", "REFUNDED"}

BookingTransitions ==
  [s \in BookingStatus |->
     CASE s = "PENDING"         -> {"PAYMENT_PENDING", "CANCELLED", "FAILED", "EXPIRED"}
       [] s = "PAYMENT_PENDING" -> {"CONFIRMED", "FAILED", "CANCELLED", "EXPIRED"}
       [] s = "CONFIRMED"       -> {"CANCELLED", "COMPLETED", "REFUNDED"}
       [] s \in {"CANCELLED", "EXPIRED", "FAILED"} -> {"REFUNDED"}
       [] OTHER                 -> {}]

\* assertBookingTransition: unlike its payment twin it also refuses s -> s.
BookingMay(s, t) == t \in BookingTransitions[s]

AwaitingPayment == {"PENDING", "PAYMENT_PENDING"}

CancellableTwice == AwaitingPayment \union {"CONFIRMED", "CANCELLED"}       \* mutant
Cancellable      == AwaitingPayment \union {"CONFIRMED"}

PaymentStatus ==
  {"CREATED", "PENDING", "PROCESSING", "SUCCESS", "FAILED", "CANCELLED",
   "EXPIRED", "REFUND_PENDING", "REFUNDED", "REFUND_FAILED"}

PaymentTransitions ==
  [s \in PaymentStatus |->
     CASE s = "CREATED"        -> {"PENDING", "CANCELLED", "EXPIRED", "FAILED"}
       [] s = "PENDING"        -> {"PROCESSING", "SUCCESS", "FAILED", "CANCELLED", "EXPIRED"}
       [] s = "PROCESSING"     -> {"SUCCESS", "FAILED", "EXPIRED", "PENDING"}
       [] s = "SUCCESS"        -> {"REFUND_PENDING", "REFUNDED"}
       [] s = "FAILED"         -> {"PENDING", "PROCESSING", "SUCCESS"}
       [] s = "CANCELLED"      -> {"PROCESSING", "SUCCESS"}
       [] s = "EXPIRED"        -> {"PROCESSING", "SUCCESS", "REFUNDED"}
       [] s = "REFUND_PENDING" -> {"REFUNDED", "REFUND_FAILED", "SUCCESS"}
       [] s = "REFUND_FAILED"  -> {"REFUND_PENDING"}
       [] OTHER                -> {}]

PaymentMay(s, t) == s = t \/ t \in PaymentTransitions[s]

OpenPayment    == {"CREATED", "PENDING", "PROCESSING"}
SettledPayment == {"SUCCESS", "REFUND_PENDING", "REFUNDED", "REFUND_FAILED"}

CapturableInTime  == OpenPayment \union {"FAILED"}                     \* mutant
CapturablePayment == OpenPayment \union {"FAILED", "EXPIRED", "CANCELLED"}

RefundStatus == {"REQUESTED", "PROCESSING", "COMPLETED", "FAILED"}
OpenRefund   == {"REQUESTED", "PROCESSING"}
=============================================================================
