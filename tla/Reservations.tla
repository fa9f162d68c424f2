---------------------------- MODULE Reservations ----------------------------
(***************************************************************************)
(* The booking engine: bookings, the nights they hold, the calendar rows,  *)
(* the payments and refunds behind them, and the payment gateway.          *)
(*                                                                         *)
(* Every HTTP call, webhook delivery or sweep in flight is a request r,    *)
(* whose job[r] says at which statement the handler stands, what it read   *)
(* before (possibly no longer true) and what it does when that is done.    *)
(* A step of a job is one database transaction, or the read or the gateway *)
(* call between two of them, so requests interleave exactly where the      *)
(* handlers await.                                                         *)
(*                                                                         *)
(* The transactions run at PostgreSQL's default level, READ COMMITTED.     *)
(* Three of them touch a booking without locking its row first and are two *)
(* steps each, holding other rows' locks in between: the settlement, which *)
(* reads the nights and the booking before it writes them, and the         *)
(* cancellation and the expiry, which delete nights and release dates      *)
(* before they reach the booking.  Every other transaction writes at once. *)
(***************************************************************************)
EXTENDS Integers, FiniteSets, Statuses

CONSTANTS
  Booking,      \* booking ids a guest may create
  Payment,      \* payment rows that may be created
  Date,         \* dates of one listing
  Request,      \* handlers that may be in flight at once
  None,         \* no payment
  StayOf,       \* the nights each booking asks for
  BookingOf,    \* the booking each payment row is made for
  WithCoupon,   \* bookings made with the (one) coupon
  CouponMax,    \* its maxRedemptions
  LastDay,      \* bound on the calendar: days past this one do not come
  Endpoints,    \* handlers this instance exercises
  Faults        \* what may go wrong in this instance

AllEndpoints ==
  {"create", "order", "poll", "report", "verify", "cancel", "adminCancel",
   "complete", "sweep", "refund", "delete", "block"}
AllFaults == {"die", "gatewayDown", "refusal", "lostReply"}

ASSUME ConstantsOK ==
  /\ Date \subseteq Nat
  /\ LastDay \in Nat
  /\ CouponMax \in Nat
  /\ StayOf \in [Booking -> (SUBSET Date) \ {{}}]
  /\ BookingOf \in [Payment -> Booking]
  /\ WithCoupon \subseteq Booking
  /\ None \notin Payment \union Booking
  /\ Endpoints \subseteq AllEndpoints
  /\ Faults \subseteq AllFaults

VARIABLES
  booking,    \* status column of Booking, "none" before the row exists
  nights,     \* BookingNight rows of each booking
  calendar,   \* status column of Availability; no row reads as AVAILABLE
  payment,    \* status column of Payment, "none" without a row
  refund,     \* status of the payment's latest Refund row
  redeemed,   \* Coupon.redemptionCount
  order,      \* the gateway's order: ACTIVE can still be paid
  payback,    \* the gateway's refund of that order
  aged,       \* bookings older than BOOKING_EXPIRE_MINUTES
  today,      \* the current date
  job,        \* what each request is doing
  torn,       \* history: bookings a settlement and a release wrote at once
  crossed,    \* history: coupon bookings two handlers worked at together
  raced       \* history: dates blocked by one handler, taken by another

rows == <<booking, nights, calendar, payment, refund, redeemed>>
gateway == <<order, payback>>
clock == <<aged, today>>
work == <<job, torn, crossed, raced>>
vars == <<booking, nights, calendar, payment, refund, redeemed,
          order, payback, aged, today, job, torn, crossed, raced>>

-----------------------------------------------------------------------------
(* Jobs.                                                                   *)

Step ==
  {"idle", "create.insert", "order.read", "order.tx", "settle.tx",
   "settle.commit", "fail.write", "expire.read", "expire.tx", "expire.commit",
   "cancel.tx", "cancel.commit", "cancel.payments", "refund.request",
   "refund.gateway", "complete.write", "block.write", "delete.write"}

\* What the handler still has to do after the step it is at.
Then == {"end", "expire", "expire+order", "order", "block"}

Job == [step  : Step,
        then  : Then,
        b     : Booking \union {None},
        p     : Payment \union {None},
        seen  : BookingStatus \union PaymentStatus \union {"none"},
        dates : SUBSET Date,
        freed : SUBSET Date]    \* calendar rows it released, not committed

NoJob == [step |-> "idle", then |-> "end", b |-> None, p |-> None,
          seen |-> "none", dates |-> {}, freed |-> {}]

Idle(r) == job[r] = NoJob
At(r, step) == job[r].step = step

\* Transactions that deleted b's nights, or claimed one of its payments to
\* confirm it, and have not committed yet.
Releasing(b)  == {q \in Request : job[q].b = b /\ job[q].step \in {"cancel.commit", "expire.commit"}}
Confirming(b) == {q \in Request : job[q].b = b /\ At(q, "settle.commit")}

Creating(d) == {q \in Request : At(q, "create.insert") /\ d \in StayOf[job[q].b]}
Blocking(d) == {q \in Request : /\ d \in job[q].dates
                                /\ At(q, "block.write") \/ job[q].then = "block"}

Torn(b)    == Releasing(b) # {} /\ Confirming(b) # {}
Crossed(b) == \E q, s \in Request : q # s /\ job[q].b = b /\ job[s].b = b
Raced(d)   == Creating(d) # {} /\ Blocking(d) # {}

\* A request goes on; what then overlaps is remembered, and read by no guard.
Go(r, j) ==
  /\ job' = [job EXCEPT ![r] = j]
  /\ torn' = torn \union {b \in Booking : Torn(b)'}
  /\ crossed' = crossed \union {b \in WithCoupon : Crossed(b)'}
  /\ raced' = raced \union {d \in Date : Raced(d)'}

Stop(r) == Go(r, NoJob)          \* the handler returned, or threw

\* The handler resumes where the finished call was made from.
Resume(j) ==
  CASE j.then = "end"          -> NoJob
    [] j.then = "expire"       -> [j EXCEPT !.step = "expire.read", !.then = "end",
                                            !.p = None, !.seen = "none", !.dates = {}]
    [] j.then = "expire+order" -> [j EXCEPT !.step = "expire.read", !.then = "order",
                                            !.p = None, !.seen = "none", !.dates = {}]
    [] j.then = "order"        -> [j EXCEPT !.step = "order.read", !.then = "end",
                                            !.p = None, !.seen = "none", !.dates = {}]
    [] OTHER                   -> [j EXCEPT !.step = "block.write", !.then = "end",
                                            !.p = None, !.seen = "none",
                                            !.dates = {d \in j.dates : d >= today}]

NewJob(step, b) == [NoJob EXCEPT !.step = step, !.b = b]

-----------------------------------------------------------------------------
(* Queries.                                                                *)

PaymentsOf(b) == {p \in Payment : BookingOf[p] = b /\ payment[p] # "none"}

OpenUnlessPending(b) ==                                       \* mutant
  {p \in PaymentsOf(b) : payment[p] \in OpenPayment \ {"PENDING"}}

OpenPayments(b) == {p \in PaymentsOf(b) : payment[p] \in OpenPayment}

\* Payment rows a settlement has claimed, by an update not yet committed:
\* whoever writes one of them waits.
Locked == {job[q].p : q \in {q \in Request : At(q, "settle.commit")}}
LockedOf(b) == {p \in Locked : BookingOf[p] = b}

\* Calendar rows under a release not yet committed, and the coupon's row
\* under a decrement: whoever writes them waits.
LockedDates == UNION {job[q].freed : q \in Request}
GivesBack(j) == j.b \in WithCoupon /\ j.seen # "CONFIRMED"
CouponLocked == \E q \in Request : At(q, "cancel.commit") /\ GivesBack(job[q])

HeldByOthers(b) == UNION {nights[c] : c \in Booking \ {b}}

\* assertRangeAvailable: no blocked or booked calendar row, nobody else's
\* night, and check-in (the first night) not in the past.
RangeAvailable(b) ==
  \A d \in StayOf[b] : /\ d >= today
                       /\ calendar[d] = "AVAILABLE"
                       /\ d \notin HeldByOthers(b)

ReleasesNothing(dates) == {}                \* mutant

\* releaseBooked: whatever booking made the row BOOKED.
ToRelease(dates) == {d \in dates : calendar[d] = "BOOKED"}

\* The order the gateway reports as paid, not merely as started.
CapturedEarly(p) == order[p] \in {"ACTIVE", "PAID"}           \* mutant
Captured(p) == order[p] = "PAID"

-----------------------------------------------------------------------------
Init ==
  /\ booking  = [b \in Booking |-> "none"]
  /\ nights   = [b \in Booking |-> {}]
  /\ calendar = [d \in Date |-> "AVAILABLE"]
  /\ payment  = [p \in Payment |-> "none"]
  /\ refund   = [p \in Payment |-> "none"]
  /\ redeemed = 0
  /\ order    = [p \in Payment |-> "none"]
  /\ payback  = [p \in Payment |-> "none"]
  /\ aged     = {}
  /\ today    = 0
  /\ job      = [r \in Request |-> NoJob]
  /\ torn = {} /\ crossed = {} /\ raced = {}

-----------------------------------------------------------------------------
(* POST /bookings.  Inside the transaction the availability check and the  *)
(* inserts are separate statements: two guests can both pass the check,    *)
(* and the unique index on the nights decides.                             *)

CreateCheck(r, b) ==
  /\ "create" \in Endpoints
  /\ Idle(r)
  /\ booking[b] = "none"
  /\ \A q \in Request : job[q].b # b
  /\ RangeAvailable(b)
  /\ Go(r, NewJob("create.insert", b))
  /\ UNCHANGED <<rows, gateway, clock>>

NightsUnchecked(b) == TRUE                                    \* mutant

\* The unique index (propertyId, date) of BookingNight.
NightsUnique(b) == StayOf[b] \intersect HeldByOthers(b) = {}

\* incrementRedemption: the conditional UPDATE that takes one redemption.
CouponLeft(b) == b \in WithCoupon => redeemed < CouponMax

\* Waits for whoever is deleting one of its nights, or holds the coupon.
CreateInsert(r) ==
  LET b == job[r].b IN
  /\ At(r, "create.insert")
  /\ \A c \in Booking : Releasing(c) # {} => StayOf[b] \intersect nights[c] = {}
  /\ b \in WithCoupon => ~CouponLocked
  /\ Stop(r)
  /\ IF NightsUnique(b) /\ CouponLeft(b)
       THEN /\ booking' = [booking EXCEPT ![b] = "PENDING"]
            /\ nights' = [nights EXCEPT ![b] = StayOf[b]]
            /\ redeemed' = IF b \in WithCoupon THEN redeemed + 1 ELSE redeemed
       ELSE UNCHANGED <<booking, nights, redeemed>>
  /\ UNCHANGED <<calendar, payment, refund, gateway, clock>>

-----------------------------------------------------------------------------
(* Settlement: the gateway says what became of an order.                   *)

\* settleCapturedPayment up to its second look at the gateway: idempotent
\* once settled.
StartSettle(j, p) ==
  IF payment[p] \in SettledPayment THEN Resume(j)
  ELSE [j EXCEPT !.step = "settle.tx", !.p = p, !.dates = {}]

\* markFailed up to its update.  The status it judges is the one it read.
StartFail(j, p) ==
  IF payment[p] \in {"SUCCESS", "REFUND_PENDING", "REFUNDED"} THEN Resume(j)
  ELSE IF PaymentMay(payment[p], "FAILED")
         THEN [j EXCEPT !.step = "fail.write", !.p = p, !.seen = payment[p]]
         ELSE NoJob

\* reconcile / applyNotification, the order's state known.
Reconciled(j, p) ==
  IF Captured(p) THEN StartSettle(j, p)
  ELSE IF order[p] = "FAILED" THEN StartFail(j, p) ELSE Resume(j)

\* The webhook of a finished order, the guest's return from the checkout
\* page, or the admin's reconcile.
ReportOrder(r, p) ==
  /\ "report" \in Endpoints
  /\ Idle(r)
  /\ payment[p] # "none"
  /\ Captured(p) \/ order[p] = "FAILED"
  /\ Go(r, Reconciled(NewJob("idle", BookingOf[p]), p))
  /\ UNCHANGED <<rows, gateway, clock>>

\* POST /payments/verify: whatever is not verified is marked failed, though
\* the order may still be payable, and though it may be paid: no answer from
\* the gateway, or another transaction id than the paid one, verifies nothing.
VerifyCheckout(r, p) ==
  /\ "verify" \in Endpoints
  /\ Idle(r)
  /\ payment[p] # "none"
  /\ \E verified \in {FALSE, Captured(p)} :
       LET j == NewJob("idle", BookingOf[p]) IN
       Go(r, IF verified THEN StartSettle(j, p) ELSE StartFail(j, p))
  /\ UNCHANGED <<rows, gateway, clock>>

\* The partial unique index: one open payment per booking.  Moving p to
\* PROCESSING while another payment is open aborts the transaction.
OpenSlotTaken(p) == OpenPayments(BookingOf[p]) \ {p} # {}

CanConfirmNightless(b) == booking[b] \in AwaitingPayment       \* mutant
CanConfirm(b) == nights[b] # {} /\ booking[b] \in AwaitingPayment

\* Captured, but the stay cannot be confirmed any more: refund it.
Unconfirmed(j) == [j EXCEPT !.step = "refund.request"]

\* requireCapturedFacts throws: the gateway, asked again, does not answer.
SettleRefused(r) ==
  /\ At(r, "settle.tx")
  /\ "gatewayDown" \in Faults
  /\ Stop(r)
  /\ UNCHANGED <<rows, gateway, clock>>

\* The claim of the payment, and what is read after it.
SettleTx(r) ==
  LET p == job[r].p
      b == BookingOf[p]
  IN
  /\ At(r, "settle.tx")
  /\ Captured(p)
  /\ \/ /\ payment[p] \notin CapturablePayment
        /\ Go(r, Resume(job[r]))
        /\ UNCHANGED payment
     \/ /\ payment[p] \in CapturablePayment
        /\ LockedOf(b) = {}
        /\ OpenSlotTaken(p) \/ (CanConfirm(b) /\ ~BookingMay(booking[b], "CONFIRMED"))
        /\ Stop(r)
        /\ UNCHANGED payment
     \/ /\ payment[p] \in CapturablePayment
        /\ LockedOf(b) = {}
        /\ ~OpenSlotTaken(p)
        /\ IF ~CanConfirm(b)
             THEN /\ payment' = [payment EXCEPT ![p] = "SUCCESS"]
                  /\ Go(r, Unconfirmed(job[r]))
             ELSE /\ BookingMay(booking[b], "CONFIRMED")
                  /\ Go(r, [job[r] EXCEPT !.step = "settle.commit", !.dates = nights[b]])
                  /\ UNCHANGED payment
  /\ UNCHANGED <<booking, nights, calendar, refund, redeemed, gateway, clock>>

\* Its writes, by id, for the nights it read.
SettleCommit(r) ==
  LET p == job[r].p IN
  /\ At(r, "settle.commit")
  /\ job[r].dates \intersect LockedDates = {}
  /\ payment' = [payment EXCEPT ![p] = "SUCCESS"]
  /\ booking' = [booking EXCEPT ![BookingOf[p]] = "CONFIRMED"]
  /\ calendar' = [d \in Date |-> IF d \in job[r].dates THEN "BOOKED" ELSE calendar[d]]
  /\ Go(r, Resume(job[r]))
  /\ UNCHANGED <<nights, refund, redeemed, gateway, clock>>

\* The unconditional update at the end of markFailed; a deleted row throws.
FailWrite(r) ==
  LET p == job[r].p IN
  /\ At(r, "fail.write")
  /\ p \notin Locked
  /\ IF payment[p] = "none"
       THEN Stop(r) /\ UNCHANGED payment
       ELSE /\ payment' = [payment EXCEPT ![p] = "FAILED"]
            /\ Go(r, Resume(job[r]))
  /\ UNCHANGED <<booking, nights, calendar, refund, redeemed, gateway, clock>>

-----------------------------------------------------------------------------
(* recoverOpenBooking and expireAbandoned.                                 *)

\* The orders the gateway answers for right now.
Answered(ps) == IF "gatewayDown" \in Faults THEN SUBSET ps ELSE {ps}

\* Reconcile the open payment (there is at most one), then expire.
Recover(r, b, then) ==
  LET j == [NewJob("idle", b) EXCEPT !.then = then] IN
  \E known \in Answered(OpenPayments(b)) :
    IF known = {} THEN Go(r, Resume(j))
    ELSE \E p \in known : Go(r, Reconciled(j, p))

\* GET /bookings/:id on an open booking, and the page's reconcile poll.
Poll(r, b) ==
  /\ "poll" \in Endpoints
  /\ Idle(r)
  /\ booking[b] # "none"
  /\ Recover(r, b, "expire")
  /\ UNCHANGED <<rows, gateway, clock>>

\* The admin's expire-abandoned sweep reaches booking b.
Sweep(r, b) ==
  /\ "sweep" \in Endpoints
  /\ Idle(r)
  /\ booking[b] # "none"
  /\ Go(r, NewJob("expire.read", b))
  /\ UNCHANGED <<rows, gateway, clock>>

\* Every payment's order is asked for; the first one found paid is settled
\* instead of expiring.  No answer counts as unpaid.
ExpireRead(r) ==
  LET b == job[r].b IN
  /\ At(r, "expire.read")
  /\ IF booking[b] \in AwaitingPayment /\ b \in aged
       THEN \E known \in Answered(PaymentsOf(b)) :
              LET paid == {p \in known : Captured(p)} IN
              IF paid = {}
                THEN Go(r, [job[r] EXCEPT !.step = "expire.tx", !.dates = nights[b]])
                ELSE \E p \in paid : Go(r, StartSettle(job[r], p))
       ELSE Go(r, Resume(job[r]))
  /\ UNCHANGED <<rows, gateway, clock>>

NightsKept(b) == nights                     \* mutant

\* Both ways out of a booking delete all its BookingNight rows.
NightsDeleted(b) == [nights EXCEPT ![b] = {}]

\* Deleting b's nights and releasing dates waits for whoever did so and has
\* not committed.
MayRelease(b, dates) ==
  /\ nights[b] = {} \/ Releasing(b) = {}
  /\ ToRelease(dates) \intersect LockedDates = {}

\* The rows the transaction released; the booking and its nights go with it.
Released(r) ==
  calendar' = [d \in Date |-> IF d \in job[r].freed THEN "AVAILABLE" ELSE calendar[d]]

ExpireTx(r) ==
  /\ At(r, "expire.tx")
  /\ MayRelease(job[r].b, job[r].dates)
  /\ Go(r, [job[r] EXCEPT !.step = "expire.commit", !.freed = ToRelease(job[r].dates)])
  /\ UNCHANGED <<rows, gateway, clock>>

ExpireCommit(r) ==
  LET b == job[r].b IN
  /\ At(r, "expire.commit")
  /\ Locked \intersect OpenPayments(b) = {}
  /\ booking' = [booking EXCEPT ![b] = "EXPIRED"]
  /\ nights' = NightsDeleted(b)
  /\ Released(r)
  /\ payment' = [p \in Payment |-> IF p \in OpenPayments(b) THEN "EXPIRED" ELSE payment[p]]
  /\ Go(r, Resume([job[r] EXCEPT !.freed = {}]))
  /\ UNCHANGED <<refund, redeemed, gateway, clock>>

-----------------------------------------------------------------------------
(* POST /payments/orders.                                                  *)

CreateOrder(r, b) ==
  /\ "order" \in Endpoints
  /\ Idle(r)
  /\ booking[b] # "none"
  /\ Recover(r, b, "expire+order")
  /\ UNCHANGED <<rows, gateway, clock>>

OrderRead(r) ==
  LET b == job[r].b IN
  /\ At(r, "order.read")
  /\ IF booking[b] \in AwaitingPayment /\ RangeAvailable(b) /\ OpenPayments(b) = {}
       THEN Go(r, [job[r] EXCEPT !.step = "order.tx", !.seen = booking[b]])
       ELSE Stop(r)          \* refused, or the open order is handed back
  /\ UNCHANGED <<rows, gateway, clock>>

\* The re-read under the booking's row lock.
HasOpenOrder(b) == OpenPayments(b) # {}

\* Under that lock, but writing by the status read before it.  A payment of
\* the booking claimed meanwhile, though not open, is waited for.
OrderTx(r) ==
  LET b == job[r].b
      fresh == {p \in Payment : BookingOf[p] = b /\ order[p] = "none"}
  IN
  /\ At(r, "order.tx")
  /\ HasOpenOrder(b) \/ LockedOf(b) = {}
  /\ Stop(r)
  /\ IF HasOpenOrder(b) \/ fresh = {}
       THEN UNCHANGED <<booking, payment, order>>
       ELSE \E p \in fresh :
              /\ ~OpenSlotTaken(p)
              /\ order' = [order EXCEPT ![p] = "ACTIVE"]
              /\ payment' = [payment EXCEPT ![p] = "PENDING"]
              /\ booking' = IF job[r].seen = "PENDING"
                              THEN [booking EXCEPT ![b] = "PAYMENT_PENDING"]
                              ELSE booking
  /\ UNCHANGED <<nights, calendar, refund, redeemed, payback, clock>>

-----------------------------------------------------------------------------
(* POST /bookings/:id/cancel and the admin's cancellation, which may also  *)
(* block the nights it read before cancelling.                             *)

StartCancel(r, b, then) ==
  /\ Idle(r)
  /\ booking[b] \in Cancellable
  /\ Go(r, [NewJob("cancel.tx", b) EXCEPT !.then = then, !.seen = booking[b],
                                          !.dates = nights[b]])
  /\ UNCHANGED <<rows, gateway, clock>>

Cancel(r, b) == "cancel" \in Endpoints /\ StartCancel(r, b, "end")

AdminCancel(r, b) == "adminCancel" \in Endpoints /\ StartCancel(r, b, "block")

\* decrementRedemption: GREATEST(count - 1, 0), unless the stay was confirmed.
GiveBack(j) ==
  IF GivesBack(j) /\ redeemed > 0 THEN redeemed - 1 ELSE redeemed

CancelTx(r) ==
  /\ At(r, "cancel.tx")
  /\ MayRelease(job[r].b, job[r].dates)
  /\ GivesBack(job[r]) => ~CouponLocked
  /\ Go(r, [job[r] EXCEPT !.step = "cancel.commit", !.freed = ToRelease(job[r].dates)])
  /\ UNCHANGED <<rows, gateway, clock>>

CancelCommit(r) ==
  LET b == job[r].b IN
  /\ At(r, "cancel.commit")
  /\ booking' = [booking EXCEPT ![b] = "CANCELLED"]
  /\ nights' = NightsDeleted(b)
  /\ Released(r)
  /\ redeemed' = GiveBack(job[r])
  /\ Go(r, [job[r] EXCEPT !.freed = {},
                          !.step = IF job[r].seen = "CONFIRMED" THEN "refund.request"
                                                                ELSE "cancel.payments"])
  /\ UNCHANGED <<payment, refund, gateway, clock>>

\* A settlement holds its payment and takes the booking's row before the
\* calendar's.  Who already holds rows it needs and wants one it has waits
\* for it in a circle: an expiry or a release of the same booking, or a new
\* order held up by the claimed payment.  The database aborts one of the two.
Deadlock(r) ==
  LET b == job[r].b IN
  /\ \E q \in Confirming(b) :
       /\ \/ At(r, "expire.commit") /\ job[q].p \in OpenPayments(b)
          \/ r \in Releasing(b) /\ job[q].dates \intersect job[r].freed # {}
          \/ At(r, "order.tx") /\ ~HasOpenOrder(b)
       /\ Stop(q) \/ Stop(r)
  /\ UNCHANGED <<rows, gateway, clock>>

EveryPayment(b) == PaymentsOf(b)                               \* mutant

\* cancelOpenPayments.
Unpaid(b) == {p \in PaymentsOf(b) : payment[p] \in {"CREATED", "PENDING"}}

CancelPayments(r) ==
  LET unpaid == Unpaid(job[r].b) IN
  /\ At(r, "cancel.payments")
  /\ Locked \intersect unpaid = {}
  /\ payment' = [p \in Payment |-> IF p \in unpaid THEN "CANCELLED" ELSE payment[p]]
  /\ Go(r, Resume(job[r]))
  /\ UNCHANGED <<booking, nights, calendar, refund, redeemed, gateway, clock>>

-----------------------------------------------------------------------------
(* Refunds in full; partial ones and the rows' races are Refunds.tla.      *)

AdminRefund(r, b) ==
  /\ "refund" \in Endpoints
  /\ Idle(r)
  /\ booking[b] # "none"
  /\ Go(r, NewJob("refund.request", b))
  /\ UNCHANGED <<rows, gateway, clock>>

\* The payment the caller named, else one that holds captured money.
Refundable(j) ==
  IF j.p # None THEN {j.p}
  ELSE {p \in PaymentsOf(j.b) : payment[p] \in {"SUCCESS", "REFUND_PENDING", "REFUND_FAILED"}}

RefundRequest(r) ==
  /\ At(r, "refund.request")
  /\ IF Refundable(job[r]) = {}
       THEN Go(r, Resume(job[r])) /\ UNCHANGED <<payment, refund>>
       ELSE \E p \in Refundable(job[r]) :
              IF payment[p] = "none" \/ refund[p] \in OpenRefund \union {"COMPLETED"}
                THEN Go(r, Resume(job[r])) /\ UNCHANGED <<payment, refund>>
                ELSE /\ p \notin Locked
                     /\ refund' = [refund EXCEPT ![p] = "REQUESTED"]
                     /\ payment' = [payment EXCEPT ![p] = "REFUND_PENDING"]
                     /\ Go(r, [job[r] EXCEPT !.step = "refund.gateway", !.p = p])
  /\ UNCHANGED <<booking, nights, calendar, redeemed, gateway, clock>>

\* finalizeRefundedPayment of a full refund: the payment first, then the
\* booking, unless its status refuses (which throws, the payment written).
Finalize(p) ==
  LET b == BookingOf[p] IN
  /\ p \notin Locked
  /\ payment' = [payment EXCEPT ![p] = "REFUNDED"]
  /\ booking' = IF BookingMay(booking[b], "REFUNDED")
                  THEN [booking EXCEPT ![b] = "REFUNDED"] ELSE booking

\* The refund's row gets the provider's id and status.
Accepted(p) == [refund EXCEPT ![p] = "PROCESSING"]

\* The gateway took the refund and its answer was recorded.
RefundAccepted(r) ==
  LET p == job[r].p IN
  /\ At(r, "refund.gateway")
  /\ payback' = [payback EXCEPT ![p] = "PENDING"]
  /\ refund' = Accepted(p)
  /\ Go(r, Resume(job[r]))
  /\ UNCHANGED <<booking, nights, calendar, payment, redeemed, order, clock>>

\* The gateway took it and reports it failed: the row says so, the payment
\* stays as it is.
RefundFailed(r) ==
  LET p == job[r].p IN
  /\ "refusal" \in Faults
  /\ At(r, "refund.gateway")
  /\ payback' = [payback EXCEPT ![p] = "FAILED"]
  /\ refund' = [refund EXCEPT ![p] = "FAILED"]
  /\ Go(r, Resume(job[r]))
  /\ UNCHANGED <<booking, nights, calendar, payment, redeemed, order, clock>>

\* The gateway refunded on the spot.
RefundDone(r) ==
  LET p == job[r].p IN
  /\ At(r, "refund.gateway")
  /\ payback' = [payback EXCEPT ![p] = "DONE"]
  /\ refund' = [refund EXCEPT ![p] = "COMPLETED"]
  /\ Finalize(p)
  /\ Go(r, IF BookingMay(booking[BookingOf[p]], "REFUNDED") \/ booking[BookingOf[p]] = "REFUNDED"
             THEN Resume(job[r]) ELSE NoJob)
  /\ UNCHANGED <<nights, calendar, redeemed, order, clock>>

\* The gateway refused: reported, not thrown.
RefundRefused(r) ==
  LET p == job[r].p IN
  /\ "refusal" \in Faults
  /\ At(r, "refund.gateway")
  /\ p \notin Locked
  /\ refund' = [refund EXCEPT ![p] = "FAILED"]
  /\ payment' = [payment EXCEPT ![p] = "REFUND_FAILED"]
  /\ Go(r, Resume(job[r]))
  /\ UNCHANGED <<booking, nights, calendar, redeemed, gateway, clock>>

\* The gateway took the refund but its answer never arrived: the call throws
\* and the row keeps no provider id.
RefundReplyLost(r) ==
  /\ "lostReply" \in Faults
  /\ At(r, "refund.gateway")
  /\ payback' = [payback EXCEPT ![job[r].p] = "PENDING"]
  /\ Stop(r)
  /\ UNCHANGED <<rows, order, clock>>

PaidBackEarly(p) == payback[p] \in {"PENDING", "DONE"}   \* mutant

\* mapProviderRefundStatus: COMPLETED only for a finished refund.
PaidBack(p) == payback[p] = "DONE"

\* completeRefundFromProvider, from the webhook or reconcileRefunds: only a
\* row whose provider id was recorded is found.
RefundReport(r, p) ==
  /\ Idle(r)
  /\ refund[p] = "PROCESSING"
  /\ \/ /\ PaidBack(p)
        /\ refund' = [refund EXCEPT ![p] = "COMPLETED"]
        /\ Finalize(p)
     \/ /\ payback[p] = "FAILED"
        /\ p \notin Locked
        /\ refund' = [refund EXCEPT ![p] = "FAILED"]
        /\ payment' = [payment EXCEPT ![p] = "REFUND_FAILED"]
        /\ UNCHANGED booking
  /\ UNCHANGED <<nights, calendar, redeemed, gateway, clock, work>>

-----------------------------------------------------------------------------
(* The owner's and the admin's other handlers.                             *)

Complete(r, b) ==
  /\ "complete" \in Endpoints
  /\ Idle(r)
  /\ booking[b] # "none"
  /\ BookingMay(booking[b], "COMPLETED")
  /\ \A d \in StayOf[b] : d < today
  /\ Go(r, NewJob("complete.write", b))
  /\ UNCHANGED <<rows, gateway, clock>>

CompleteWrite(r) ==
  /\ At(r, "complete.write")
  /\ booking' = [booking EXCEPT ![job[r].b] = "COMPLETED"]
  /\ Stop(r)
  /\ UNCHANGED <<nights, calendar, payment, refund, redeemed, gateway, clock>>

BlockableByDate(d) == d >= today                              \* mutant

Blockable(d) == /\ d >= today
                /\ \A b \in Booking : d \notin nights[b]

Block(r, d) ==
  /\ "block" \in Endpoints
  /\ Idle(r)
  /\ Blockable(d)
  /\ Go(r, [NoJob EXCEPT !.step = "block.write", !.dates = {d}])
  /\ UNCHANGED <<rows, gateway, clock>>

\* The upserts of block, and of the admin's cancellation.
BlockWrite(r) ==
  /\ At(r, "block.write")
  /\ job[r].dates \intersect LockedDates = {}
  /\ calendar' = [d \in Date |-> IF d \in job[r].dates THEN "BLOCKED" ELSE calendar[d]]
  /\ Stop(r)
  /\ UNCHANGED <<booking, nights, payment, refund, redeemed, gateway, clock>>

Unblock(r, d) ==
  /\ "block" \in Endpoints
  /\ Idle(r)
  /\ calendar[d] = "BLOCKED"
  /\ calendar' = [calendar EXCEPT ![d] = "AVAILABLE"]
  /\ UNCHANGED <<booking, nights, payment, refund, redeemed, gateway, clock, work>>

Deletable == {"CREATED", "FAILED", "CANCELLED", "EXPIRED"}

DeletePayment(r, p) ==
  /\ "delete" \in Endpoints
  /\ Idle(r)
  /\ payment[p] \in Deletable
  /\ refund[p] = "none"
  /\ Go(r, [NewJob("delete.write", BookingOf[p]) EXCEPT !.p = p])
  /\ UNCHANGED <<rows, gateway, clock>>

\* Deletes by id alone; only a Refund row (onDelete: Restrict) stops it.
DeleteWrite(r) ==
  LET p == job[r].p IN
  /\ At(r, "delete.write")
  /\ p \notin Locked
  /\ payment' = IF refund[p] = "none" THEN [payment EXCEPT ![p] = "none"] ELSE payment
  /\ Stop(r)
  /\ UNCHANGED <<booking, nights, calendar, refund, redeemed, gateway, clock>>

-----------------------------------------------------------------------------
(* The gateway, the guest, the clock, and requests that die.               *)

Pay(p) ==
  /\ order[p] = "ACTIVE"
  /\ order' = [order EXCEPT ![p] = "PAID"]
  /\ UNCHANGED <<rows, payback, clock, work>>

OrderFails(p) ==
  /\ order[p] = "ACTIVE"
  /\ order' = [order EXCEPT ![p] = "FAILED"]
  /\ UNCHANGED <<rows, payback, clock, work>>

PaybackEnds(p) ==
  /\ payback[p] = "PENDING"
  /\ \E s \in IF "refusal" \in Faults THEN {"DONE", "FAILED"} ELSE {"DONE"} :
       payback' = [payback EXCEPT ![p] = s]
  /\ UNCHANGED <<rows, order, clock, work>>

HoldElapses(b) ==
  /\ booking[b] \in AwaitingPayment
  /\ b \notin aged
  /\ aged' = aged \union {b}
  /\ UNCHANGED <<rows, gateway, today, work>>

DayPasses ==
  /\ today < LastDay
  /\ today' = today + 1
  /\ UNCHANGED <<rows, gateway, aged, work>>

\* The process is killed, or an awaited call (audit row, notification row,
\* gateway request) throws: what was committed stays, the rest is not done.
Die(r) ==
  /\ "die" \in Faults
  /\ ~Idle(r)
  /\ Stop(r)
  /\ UNCHANGED <<rows, gateway, clock>>

-----------------------------------------------------------------------------
Begin(r) ==
  \/ \E b \in Booking : \/ CreateCheck(r, b) \/ CreateOrder(r, b) \/ Poll(r, b)
                        \/ Sweep(r, b) \/ Cancel(r, b) \/ AdminCancel(r, b)
                        \/ AdminRefund(r, b) \/ Complete(r, b)
  \/ \E p \in Payment : \/ ReportOrder(r, p) \/ VerifyCheckout(r, p)
                        \/ DeletePayment(r, p) \/ RefundReport(r, p)
  \/ \E d \in Date : Block(r, d) \/ Unblock(r, d)

Work(r) ==
  \/ CreateInsert(r) \/ SettleRefused(r) \/ SettleTx(r) \/ SettleCommit(r) \/ FailWrite(r)
  \/ ExpireRead(r) \/ ExpireTx(r) \/ ExpireCommit(r) \/ OrderRead(r) \/ OrderTx(r)
  \/ CancelTx(r) \/ CancelCommit(r) \/ CancelPayments(r) \/ Deadlock(r)
  \/ RefundRequest(r) \/ RefundAccepted(r) \/ RefundFailed(r) \/ RefundDone(r)
  \/ RefundRefused(r) \/ RefundReplyLost(r)
  \/ CompleteWrite(r) \/ BlockWrite(r) \/ DeleteWrite(r)

World ==
  \/ \E p \in Payment : Pay(p) \/ OrderFails(p) \/ PaybackEnds(p)
  \/ \E b \in Booking : HoldElapses(b)
  \/ DayPasses

Next == (\E r \in Request : Begin(r) \/ Work(r) \/ Die(r)) \/ World

Spec == Init /\ [][Next]_vars

-----------------------------------------------------------------------------
(* Properties.                                                             *)

\* Every variable keeps its type.
TypeOK ==
  /\ booking \in [Booking -> BookingStatus \union {"none"}]
  /\ nights \in [Booking -> SUBSET Date]
  /\ calendar \in [Date -> {"AVAILABLE", "BLOCKED", "BOOKED"}]
  /\ payment \in [Payment -> PaymentStatus \union {"none"}]
  /\ refund \in [Payment -> RefundStatus \union {"none"}]
  /\ redeemed \in Nat
  /\ order \in [Payment -> {"none", "ACTIVE", "PAID", "FAILED"}]
  /\ payback \in [Payment -> {"none", "PENDING", "DONE", "FAILED"}]
  /\ aged \subseteq Booking
  /\ today \in Nat
  /\ job \in [Request -> Job]
  /\ torn \subseteq Booking /\ crossed \subseteq WithCoupon /\ raced \subseteq Date

\* A night is held by at most one booking, whatever requests raced for it
\* (create's check passes for both; the unique index decides).
NightHeldOnce ==
  \A b, c \in Booking : b # c => nights[b] \intersect nights[c] = {}

\* A confirmed booking holds every night of its stay.  The code means it to
\* (payments.service.spec.ts:519) and a torn settlement breaks it.
ConfirmedHoldsNights ==
  \A b \in Booking : booking[b] = "CONFIRMED" => nights[b] = StayOf[b]

\* Only a settlement and a release of one booking in flight at the same time
\* can do that: whatever else overlaps, a retried checkout that reopens a
\* dead booking included, nothing is confirmed without its nights.
OnlyTornLoseNights ==
  \A b \in Booking : booking[b] = "CONFIRMED" => nights[b] = StayOf[b] \/ b \in torn

\* A cancelled or expired booking has given all its nights back, also when a
\* late capture or a second cancel arrived in between.
DeadHoldsNothing ==
  \A b \in Booking : booking[b] \in {"CANCELLED", "EXPIRED"} => nights[b] = {}

\* A calendar row reads BOOKED only while some booking holds that night: no
\* order of confirmations and (stale) releases leaves a date unsellable for
\* good, a torn settlement's nights excepted.
BookedMeansHeld ==
  \A d \in Date : calendar[d] = "BOOKED" =>
    \E b \in Booking : d \in nights[b] \/ (b \in torn /\ d \in StayOf[b])

\* No confirmation without captured money: a stay that is or was confirmed
\* and not refunded has an order the gateway was really paid for.
ConfirmedWasPaid ==
  \A b \in Booking : booking[b] \in {"CONFIRMED", "COMPLETED"} =>
    \E p \in Payment : BookingOf[p] = b /\ order[p] = "PAID"

\* At most one payment of a booking is open, so a guest is never asked to
\* pay two orders the API itself considers payable.
OneOpenPayment ==
  \A b \in Booking : \A p, q \in PaymentsOf(b) :
    payment[p] \in OpenPayment /\ payment[q] \in OpenPayment => p = q

\* Money goes back only for captured orders, and a payment or refund is
\* recorded as refunded only when the gateway really paid it back.
RefundsAreReal ==
  \A p \in Payment :
    /\ payback[p] # "none" => order[p] = "PAID"
    /\ refund[p] = "COMPLETED" => payback[p] = "DONE"
    /\ payment[p] = "REFUNDED" => refund[p] = "COMPLETED"

\* A payment recorded as captured stays so, whichever cancellation, expiry,
\* checkout or settlement read it before: only markFailed and the
\* administrator's deletion, which write by id, can overwrite it.
CapturedStaysRecorded ==
  [][\A p \in Payment : payment[p] \in SettledPayment =>
       payment'[p] \in SettledPayment \union {"FAILED", "none"}]_vars

\* The coupon's limit holds however creations and cancellations interleave.
CouponWithinLimit == redeemed <= CouponMax

\* Every stay still reserved under the coupon is counted, or the coupon could
\* be used beyond its limit: racing guests lose no increment, and nothing is
\* given back twice but by two handlers that meet at one booking.
RedemptionsCovered ==
  crossed = {} =>
    Cardinality({b \in WithCoupon :
                   booking[b] \in AwaitingPayment \union {"CONFIRMED", "COMPLETED"}}) <= redeemed

\* A date that was blocked is one nobody has booked, unless it was taken by a
\* creation in flight together with the blocking.
BlockedIsFree ==
  \A d \in Date \ raced : calendar[d] = "BLOCKED" => \A b \in Booking : d \notin nights[b]

-----------------------------------------------------------------------------
(* Liveness.  Handlers that await resume; the gateway redelivers a webhook *)
(* until it is taken.  Nothing is assumed of guests, hosts and             *)
(* administrators.                                                         *)

Resumes == \A r \in Request : WF_vars(Work(r))

\* Strong fairness step by step, so that a handler that dies now and then is
\* still taken through by some later delivery.
Redelivers ==
  /\ \A p \in Payment : SF_vars(\E r \in Request : ReportOrder(r, p))
  /\ \A r \in Request : /\ SF_vars(SettleTx(r))
                        /\ SF_vars(SettleCommit(r))
                        /\ SF_vars(FailWrite(r))
                        /\ SF_vars(RefundRequest(r))
                        /\ SF_vars(RefundAccepted(r) \/ RefundDone(r))

FairSpec == Spec /\ Resumes /\ Redelivers

\* The stay is confirmed for the money, the money is on its way back, or the
\* gateway's refusal of the refund is on record for the administrator.
Served(p) ==
  \/ payment[p] = "SUCCESS" /\ booking[BookingOf[p]] \in {"CONFIRMED", "COMPLETED"}
  \/ payback[p] # "none"
  \/ payment[p] = "REFUND_FAILED"

\* No payment is lost: once the guest has paid an order the API knows of, the
\* stay gets confirmed or the money goes back, unless the administrator
\* deletes the record of the payment first (settlement, payments.service.ts:675-840).
NoPaymentLost ==
  \A p \in Payment :
    (order[p] = "PAID" /\ payment[p] # "none") ~> (Served(p) \/ payment[p] = "none")

-----------------------------------------------------------------------------
(* What it all amounts to for the dates of the listing.                    *)

Sold == {b \in Booking : booking[b] = "CONFIRMED"}

Dates == INSTANCE Inventory WITH held <- nights, sold <- Sold, torn <- torn

\* Bookings sell the listing's dates as the abstract inventory does: held all
\* or nothing, by one booking, and confirmed only while held or torn.
SellsDates == Dates!Spec

=============================================================================
