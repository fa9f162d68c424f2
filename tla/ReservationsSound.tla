-------------------------- MODULE ReservationsSound --------------------------
(***************************************************************************)
(* The booking engine's promises for any bookings, payments, dates,        *)
(* requests, endpoints and faults: types, nights, sales, money, blocked    *)
(* dates and coupons.                                                      *)
(***************************************************************************)
EXTENDS Reservations, FiniteSetTheorems, TLAPS

(***************************************************************************)
(* Type correctness of the booking engine, on which its other proofs rest. *)
(* A handler that lost track of its booking or payment would be one step   *)
(* from an ill-typed row, so types are proved together with JobSound.      *)
(***************************************************************************)

\* Steps that write the payment the job names.
OnPayment == {"settle.tx", "settle.commit", "fail.write", "refund.gateway", "delete.write"}

\* A job at work names its booking, and a payment only if it is that
\* booking's.
JobSound(j) ==
  /\ j \in Job
  /\ j.step \notin {"idle", "block.write"} => j.b \in Booking
  /\ j.step \in OnPayment => j.p \in Payment /\ BookingOf[j.p] = j.b
  /\ j.step = "refund.request" /\ j.p # None => j.p \in Payment /\ BookingOf[j.p] = j.b
  /\ j.step \in {"cancel.tx", "cancel.commit"} => j.p = None

JobsSound == \A r \in Request : JobSound(job[r])

Typed == TypeOK /\ JobsSound

\* The part of it that a handler's step writes itself.
WorkTyped ==
  /\ job \in [Request -> Job]
  /\ JobsSound
  /\ torn \subseteq Booking /\ crossed \subseteq WithCoupon /\ raced \subseteq Date

-----------------------------------------------------------------------------
(* The operators that build jobs return sound ones.                        *)

\* A handler that is done is at no booking.
LEMMA NoJobSound == NoJob \in Job /\ JobSound(NoJob)
BY DEF JobSound, NoJob, Job, Step, Then, OnPayment

\* A handler's fresh job is sound, unless it starts at a payment.
LEMMA NewJobSound ==
  ASSUME NEW step \in Step, NEW b \in Booking
  PROVE  /\ NewJob(step, b) \in Job
         /\ NewJob(step, b).b = b
         /\ NewJob(step, b).step = step
         /\ step \notin OnPayment => JobSound(NewJob(step, b))
BY DEF JobSound, NewJob, NoJob, Job, Then

\* A job that names its booking is sound wherever its handler resumes.
LEMMA ResumeSound ==
  ASSUME NEW j \in Job, j.b \in Booking
  PROVE  JobSound(Resume(j))
<1>1. CASE j.then = "end"
  BY <1>1, NoJobSound DEF Resume
<1>2. CASE j.then = "expire"
  BY <1>2 DEF Resume, JobSound, Job, Step, Then, OnPayment
<1>3. CASE j.then = "expire+order"
  BY <1>3 DEF Resume, JobSound, Job, Step, Then, OnPayment
<1>4. CASE j.then = "order"
  BY <1>4 DEF Resume, JobSound, Job, Step, Then, OnPayment
<1>5. CASE j.then = "block"
  BY <1>5 DEF Resume, JobSound, Job, Step, Then, OnPayment
<1>. QED BY <1>1, <1>2, <1>3, <1>4, <1>5 DEF Job, Then

\* The settlement of a reported order of the job's booking is sound.
LEMMA ReconciledSound ==
  ASSUME TypeOK, NEW j \in Job, NEW p \in Payment,
         j.b \in Booking, BookingOf[p] = j.b
  PROVE  /\ JobSound(StartSettle(j, p))
         /\ JobSound(StartFail(j, p))
         /\ JobSound(Reconciled(j, p))
<1>1. JobSound(StartSettle(j, p))
  <2>1. JobSound([j EXCEPT !.step = "settle.tx", !.p = p, !.dates = {}])
    BY DEF JobSound, Job, Step, OnPayment
  <2>. QED BY <2>1, ResumeSound DEF StartSettle
<1>2. JobSound(StartFail(j, p))
  <2>1. payment[p] \in PaymentStatus \union {"none"}
    BY DEF TypeOK
  <2>2. JobSound([j EXCEPT !.step = "fail.write", !.p = p, !.seen = payment[p]])
    BY <2>1 DEF JobSound, Job, Step, OnPayment
  <2>. QED BY <2>2, ResumeSound, NoJobSound DEF StartFail
<1>. QED BY <1>1, <1>2, ResumeSound DEF Reconciled

\* Going on to a statement that writes no payment keeps a job sound.
LEMMA StepSound ==
  ASSUME NEW j \in Job, j.b \in Booking,
         NEW step \in {"expire.tx", "expire.commit", "order.tx", "cancel.payments", "refund.request"},
         NEW dates \in SUBSET Date, NEW seen \in BookingStatus \union {"none"},
         step = "refund.request" /\ j.p # None => j.p \in Payment /\ BookingOf[j.p] = j.b
  PROVE  /\ JobSound([j EXCEPT !.step = step])
         /\ JobSound([j EXCEPT !.step = step, !.dates = dates])
         /\ JobSound([j EXCEPT !.step = step, !.seen = seen])
<1>1. /\ step \in Step /\ step \notin OnPayment
      /\ seen \in BookingStatus \union PaymentStatus \union {"none"}
  BY DEF Step, OnPayment
<1>2. JobSound([j EXCEPT !.step = step])
  BY <1>1 DEF JobSound, Job
<1>3. JobSound([j EXCEPT !.step = step, !.dates = dates])
  BY <1>1 DEF JobSound, Job
<1>4. JobSound([j EXCEPT !.step = step, !.seen = seen])
  BY <1>1 DEF JobSound, Job
<1>. QED BY <1>2, <1>3, <1>4

\* Moving one request to a sound job leaves all jobs sound.
LEMMA GoSound ==
  ASSUME Typed, NEW r \in Request, NEW j, JobSound(j), Go(r, j)
  PROVE  WorkTyped'
<1>1. job' \in [Request -> Job]
  BY DEF Typed, TypeOK, Go, JobSound
<1>2. ASSUME NEW q \in Request PROVE JobSound(job'[q])
  BY DEF Typed, TypeOK, JobsSound, Go
<1>3. torn' \subseteq Booking /\ crossed' \subseteq WithCoupon /\ raced' \subseteq Date
  BY DEF Typed, TypeOK, Go
<1>. QED BY <1>1, <1>2, <1>3 DEF WorkTyped, JobsSound, JobSound

\* Nothing but jobs changed.
LEMMA OnlyJobs ==
  ASSUME Typed, UNCHANGED <<rows, gateway, clock>>, WorkTyped'
  PROVE  Typed'
BY DEF Typed, TypeOK, WorkTyped, rows, gateway, clock

-----------------------------------------------------------------------------
(* Every action keeps types and jobs sound, by the endpoint it belongs to. *)

\* Reconciling before an expiry or a checkout.
LEMMA RecoverTyped ==
  ASSUME Typed, NEW r \in Request, NEW b \in Booking,
         NEW then \in Then, Recover(r, b, then),
         UNCHANGED <<rows, gateway, clock>>
  PROVE  Typed'
<1>. DEFINE j == [NewJob("idle", b) EXCEPT !.then = then]
<1>1. NewJob("idle", b) \in Job /\ NewJob("idle", b).b = b
  BY NewJobSound DEF Step
<1>2. j \in Job /\ j.b = b
  BY <1>1 DEF Job
<1>. HIDE DEF j
<1>3. PICK known \in Answered(OpenPayments(b)) :
        IF known = {} THEN Go(r, Resume(j))
        ELSE \E p \in known : Go(r, Reconciled(j, p))
  BY DEF Recover, j
<1>4. \A p \in known : p \in Payment /\ BookingOf[p] = b
  BY <1>3 DEF Answered, OpenPayments, PaymentsOf
<1>5. CASE known = {}
  BY <1>2, <1>3, <1>5, ResumeSound, GoSound, OnlyJobs
<1>6. CASE known # {}
  <2>1. PICK p \in known : Go(r, Reconciled(j, p))
    BY <1>3, <1>6
  <2>. QED BY <1>2, <1>4, <2>1, ReconciledSound, GoSound, OnlyJobs DEF Typed
<1>. QED BY <1>5, <1>6

\* The requests that only start, and the two that write at once.
LEMMA BeginTyped ==
  ASSUME Typed, ConstantsOK, NEW r \in Request, Begin(r)
  PROVE  Typed'
<1>1. ASSUME NEW b \in Booking, CreateCheck(r, b) PROVE Typed'
  BY <1>1, NewJobSound, GoSound, OnlyJobs DEF CreateCheck, Step, OnPayment
<1>2. ASSUME NEW b \in Booking, CreateOrder(r, b) PROVE Typed'
  BY <1>2, RecoverTyped DEF CreateOrder, Then
<1>3. ASSUME NEW b \in Booking, Poll(r, b) PROVE Typed'
  BY <1>3, RecoverTyped DEF Poll, Then
<1>4. ASSUME NEW b \in Booking, Sweep(r, b) PROVE Typed'
  BY <1>4, NewJobSound, GoSound, OnlyJobs DEF Sweep, Step, OnPayment
<1>5. ASSUME NEW b \in Booking, NEW then \in Then, StartCancel(r, b, then) PROVE Typed'
  <2>1. /\ booking[b] \in BookingStatus \union {"none"}
        /\ nights[b] \in SUBSET Date
    BY DEF Typed, TypeOK
  <2>2. JobSound([NewJob("cancel.tx", b) EXCEPT !.then = then, !.seen = booking[b],
                                                !.dates = nights[b]])
    BY <2>1 DEF NewJob, NoJob, JobSound, Job, Step, Then, OnPayment
  <2>. QED BY <1>5, <2>2, GoSound, OnlyJobs DEF StartCancel
<1>6. ASSUME NEW b \in Booking, Cancel(r, b) \/ AdminCancel(r, b) PROVE Typed'
  BY <1>5, <1>6 DEF Cancel, AdminCancel, Then
<1>7. ASSUME NEW b \in Booking, AdminRefund(r, b) PROVE Typed'
  BY <1>7, NewJobSound, GoSound, OnlyJobs DEF AdminRefund, Step, OnPayment
<1>8. ASSUME NEW b \in Booking, Complete(r, b) PROVE Typed'
  BY <1>8, NewJobSound, GoSound, OnlyJobs DEF Complete, Step, OnPayment
<1>9. ASSUME NEW p \in Payment PROVE BookingOf[p] \in Booking
  BY <1>9 DEF ConstantsOK
<1>10. ASSUME NEW p \in Payment, ReportOrder(r, p) \/ VerifyCheckout(r, p) PROVE Typed'
  <2>1. NewJob("idle", BookingOf[p]) \in Job /\ NewJob("idle", BookingOf[p]).b = BookingOf[p]
    BY <1>9, NewJobSound DEF Step
  <2>2. PICK j : JobSound(j) /\ Go(r, j)
    BY <1>9, <1>10, <2>1, ReconciledSound DEF ReportOrder, VerifyCheckout, Typed
  <2>. QED BY <1>10, <2>2, GoSound, OnlyJobs DEF ReportOrder, VerifyCheckout
<1>11. ASSUME NEW p \in Payment, DeletePayment(r, p) PROVE Typed'
  <2>1. NewJob("delete.write", BookingOf[p]) \in Job
    BY <1>9, NewJobSound DEF Step
  <2>2. JobSound([NewJob("delete.write", BookingOf[p]) EXCEPT !.p = p])
    BY <1>9, <2>1, NewJobSound DEF JobSound, Job, Step, OnPayment
  <2>. QED BY <1>11, <2>2, GoSound, OnlyJobs DEF DeletePayment
<1>12. ASSUME NEW p \in Payment, RefundReport(r, p) PROVE Typed'
  BY <1>9, <1>12 DEF RefundReport, Finalize, Typed, TypeOK, JobsSound, gateway, clock, work,
                     RefundStatus, PaymentStatus, BookingStatus
<1>13. ASSUME NEW d \in Date, Block(r, d) PROVE Typed'
  <2>1. JobSound([NoJob EXCEPT !.step = "block.write", !.dates = {d}])
    BY <1>13, NoJobSound DEF JobSound, Job, Step, OnPayment
  <2>. QED BY <1>13, <2>1, GoSound, OnlyJobs DEF Block
<1>14. ASSUME NEW d \in Date, Unblock(r, d) PROVE Typed'
  BY <1>14 DEF Unblock, Typed, TypeOK, JobsSound, gateway, clock, work
<1>. QED BY <1>1, <1>2, <1>3, <1>4, <1>6, <1>7, <1>8, <1>10, <1>11, <1>12, <1>13, <1>14
         DEF Begin

\* What an acting request's job gives its statement to work with.
LEMMA AtWork ==
  ASSUME Typed, NEW r \in Request, job[r].step \notin {"idle", "block.write"}
  PROVE  /\ JobSound(job[r]) /\ job[r] \in Job
         /\ job[r].b \in Booking
         /\ job[r].dates \in SUBSET Date
         /\ JobSound(Resume(job[r])) /\ JobSound(NoJob)
BY ResumeSound, NoJobSound DEF Typed, TypeOK, JobsSound, JobSound, Job

\* A release under way keeps a handler's job sound.
LEMMA FreedSound ==
  ASSUME NEW j \in Job, JobSound(j), j.b \in Booking, NEW freed \in SUBSET Date,
         NEW step \in {"expire.commit", "cancel.commit"}, step = "cancel.commit" => j.p = None
  PROVE  /\ JobSound([j EXCEPT !.step = step, !.freed = freed])
         /\ JobSound(Resume([j EXCEPT !.freed = freed]))
<1>1. JobSound([j EXCEPT !.step = step, !.freed = freed])
  BY DEF JobSound, Job, Step, OnPayment
<1>2. [j EXCEPT !.freed = freed] \in Job /\ [j EXCEPT !.freed = freed].b \in Booking
  BY DEF Job
<1>. QED BY <1>1, <1>2, ResumeSound

\* The statements of settlement.
LEMMA SettleTyped ==
  ASSUME Typed, ConstantsOK, NEW r \in Request,
         SettleRefused(r) \/ SettleTx(r) \/ SettleCommit(r) \/ FailWrite(r)
  PROVE  Typed'
<1>. DEFINE p == job[r].p
            b == job[r].b
<1>1. /\ job[r].step \in OnPayment
      /\ JobSound(job[r]) /\ job[r] \in Job
      /\ b \in Booking
      /\ job[r].dates \in SUBSET Date
      /\ JobSound(Resume(job[r])) /\ JobSound(NoJob)
  BY AtWork DEF SettleRefused, SettleTx, SettleCommit, FailWrite, At, OnPayment
<1>2. p \in Payment /\ BookingOf[p] = b /\ nights[b] \in SUBSET Date
  BY <1>1 DEF JobSound, Typed, TypeOK
<1>3. CASE SettleRefused(r)
  BY <1>1, <1>3, GoSound, OnlyJobs DEF SettleRefused, Stop
<1>4. CASE SettleTx(r)
  <2>1. JobSound(Unconfirmed(job[r]))
    BY <1>1, <1>2 DEF Unconfirmed, JobSound, Job, Step, OnPayment
  <2>2. JobSound([job[r] EXCEPT !.step = "settle.commit", !.dates = nights[b]])
    BY <1>1, <1>2 DEF JobSound, Job, Step, OnPayment
  <2>3. \E j : JobSound(j) /\ Go(r, j)
    BY <1>1, <1>2, <1>4, <2>1, <2>2 DEF SettleTx, Stop
  <2>4. WorkTyped'
    BY <2>3, GoSound
  <2>5. payment' = payment \/ payment' = [payment EXCEPT ![p] = "SUCCESS"]
    BY <1>4 DEF SettleTx
  <2>6. payment' \in [Payment -> PaymentStatus \union {"none"}]
    BY <2>5 DEF Typed, TypeOK, PaymentStatus
  <2>. QED BY <1>4, <2>4, <2>6 DEF SettleTx, Typed, TypeOK, WorkTyped, gateway, clock
<1>5. CASE SettleCommit(r)
  <2>1. WorkTyped'
    BY <1>1, <1>5, GoSound DEF SettleCommit
  <2>2. /\ booking' \in [Booking -> BookingStatus \union {"none"}]
        /\ payment' \in [Payment -> PaymentStatus \union {"none"}]
        /\ calendar' \in [Date -> {"AVAILABLE", "BLOCKED", "BOOKED"}]
    BY <1>5 DEF SettleCommit, Typed, TypeOK, BookingStatus, PaymentStatus
  <2>. QED BY <1>5, <2>1, <2>2 DEF SettleCommit, Typed, TypeOK, WorkTyped, gateway, clock
<1>6. CASE FailWrite(r)
  <2>1. WorkTyped'
    BY <1>1, <1>6, GoSound DEF FailWrite, Stop
  <2>. QED BY <1>6, <2>1 DEF FailWrite, Typed, TypeOK, WorkTyped, PaymentStatus, gateway, clock
<1>. QED BY <1>3, <1>4, <1>5, <1>6

\* A release keeps the calendar's type.
LEMMA ReleasedType ==
  ASSUME Typed, NEW r \in Request, Released(r)
  PROVE  calendar' \in [Date -> {"AVAILABLE", "BLOCKED", "BOOKED"}]
BY DEF Released, Typed, TypeOK

\* A handler the database aborts was at work, and is then at rest.
LEMMA DeadlockTyped ==
  ASSUME Typed, NEW r \in Request, Deadlock(r)
  PROVE  Typed'
<1>1. PICK q \in Request : Stop(q)
  BY DEF Deadlock, Confirming
<1>. QED BY <1>1, NoJobSound, GoSound, OnlyJobs DEF Stop, Deadlock

\* The statements of creation, expiry and checkout.
LEMMA CheckoutTyped ==
  ASSUME Typed, ConstantsOK, NEW r \in Request,
         \/ CreateInsert(r) \/ ExpireRead(r) \/ ExpireTx(r) \/ ExpireCommit(r)
         \/ OrderRead(r) \/ OrderTx(r)
  PROVE  Typed'
<1>. DEFINE b == job[r].b
<1>1. /\ JobSound(job[r]) /\ job[r] \in Job
      /\ b \in Booking
      /\ JobSound(Resume(job[r])) /\ JobSound(NoJob)
      /\ nights[b] \in SUBSET Date
      /\ booking[b] \in BookingStatus \union {"none"}
  BY AtWork DEF CreateInsert, ExpireRead, ExpireTx, ExpireCommit, OrderRead, OrderTx, At,
                Typed, TypeOK
<1>2. CASE CreateInsert(r)
  <2>1. WorkTyped'
    BY <1>1, <1>2, GoSound DEF CreateInsert, Stop
  <2>2. StayOf[b] \in SUBSET Date
    BY <1>1 DEF ConstantsOK
  <2>. QED BY <1>1, <1>2, <2>1, <2>2 DEF CreateInsert, Typed, TypeOK, WorkTyped, BookingStatus, gateway, clock
<1>3. CASE ExpireRead(r)
  <2>1. JobSound([job[r] EXCEPT !.step = "expire.tx", !.dates = nights[b]])
    BY <1>1, StepSound
  <2>2. ASSUME NEW p \in PaymentsOf(b) PROVE JobSound(StartSettle(job[r], p))
    BY <1>1, <2>2, ReconciledSound DEF PaymentsOf, Typed
  <2>3. PICK j : JobSound(j) /\ Go(r, j)
    BY <1>1, <1>3, <2>1, <2>2 DEF ExpireRead, Answered
  <2>. QED BY <1>3, <2>3, GoSound, OnlyJobs DEF ExpireRead
<1>4. CASE ExpireTx(r)
  <2>1. ToRelease(job[r].dates) \in SUBSET Date
    BY <1>1 DEF ToRelease, Job
  <2>2. JobSound([job[r] EXCEPT !.step = "expire.commit", !.freed = ToRelease(job[r].dates)])
    BY <1>1, <2>1, FreedSound
  <2>. QED BY <1>4, <2>2, GoSound, OnlyJobs DEF ExpireTx
<1>5. CASE ExpireCommit(r)
  <2>1. JobSound(Resume([job[r] EXCEPT !.freed = {}]))
    BY <1>1, FreedSound
  <2>2. WorkTyped'
    BY <1>5, <2>1, GoSound DEF ExpireCommit
  <2>3. calendar' \in [Date -> {"AVAILABLE", "BLOCKED", "BOOKED"}]
    BY <1>5, ReleasedType DEF ExpireCommit
  <2>4. payment' \in [Payment -> PaymentStatus \union {"none"}]
    BY <1>5 DEF ExpireCommit, Typed, TypeOK, PaymentStatus
  <2>5. /\ booking' \in [Booking -> BookingStatus \union {"none"}]
        /\ nights' \in [Booking -> SUBSET Date]
    BY <1>5 DEF ExpireCommit, NightsDeleted, Typed, TypeOK, BookingStatus
  <2>. QED BY <1>5, <2>2, <2>3, <2>4, <2>5 DEF ExpireCommit, Typed, TypeOK, WorkTyped, gateway, clock
<1>6. CASE OrderRead(r)
  <2>1. JobSound([job[r] EXCEPT !.step = "order.tx", !.seen = booking[b]])
    BY <1>1, StepSound
  <2>. QED BY <1>1, <1>6, <2>1, GoSound, OnlyJobs DEF OrderRead, Stop
<1>7. CASE OrderTx(r)
  <2>1. WorkTyped'
    BY <1>1, <1>7, GoSound DEF OrderTx, Stop
  <2>2. /\ order' \in [Payment -> {"none", "ACTIVE", "PAID", "FAILED"}]
        /\ payment' \in [Payment -> PaymentStatus \union {"none"}]
        /\ booking' \in [Booking -> BookingStatus \union {"none"}]
    BY <1>7 DEF OrderTx, Typed, TypeOK, PaymentStatus, BookingStatus
  <2>. QED BY <1>7, <2>1, <2>2 DEF OrderTx, Typed, TypeOK, WorkTyped, clock
<1>. QED BY <1>2, <1>3, <1>4, <1>5, <1>6, <1>7

\* The statements of cancellation and of the other endpoints' writes.
LEMMA CancelTyped ==
  ASSUME Typed, NEW r \in Request,
         \/ CancelTx(r) \/ CancelCommit(r) \/ CancelPayments(r)
         \/ CompleteWrite(r) \/ BlockWrite(r) \/ DeleteWrite(r)
  PROVE  Typed'
<1>. DEFINE b == job[r].b
<1>1. CASE CancelTx(r)
  <2>1. /\ JobSound(job[r]) /\ job[r] \in Job /\ b \in Booking /\ job[r].p = None
    BY <1>1, AtWork DEF CancelTx, At, JobSound
  <2>2. ToRelease(job[r].dates) \in SUBSET Date
    BY <2>1 DEF ToRelease, Job
  <2>3. JobSound([job[r] EXCEPT !.step = "cancel.commit", !.freed = ToRelease(job[r].dates)])
    BY <2>1, <2>2, FreedSound
  <2>. QED BY <1>1, <2>3, GoSound, OnlyJobs DEF CancelTx
<1>6. CASE CancelCommit(r)
  <2>1. /\ JobSound(job[r]) /\ job[r] \in Job /\ b \in Booking
        /\ job[r].step = "cancel.commit" /\ job[r].p = None
    BY <1>6, AtWork DEF CancelCommit, At, JobSound
  <2>2. /\ JobSound([job[r] EXCEPT !.freed = {}, !.step = "refund.request"])
        /\ JobSound([job[r] EXCEPT !.freed = {}, !.step = "cancel.payments"])
    BY <2>1 DEF JobSound, Job, Step, OnPayment
  <2>3. WorkTyped'
    <3>1. \E j : JobSound(j) /\ Go(r, j)
      BY <1>6, <2>2 DEF CancelCommit
    <3>. QED BY <3>1, GoSound
  <2>4. calendar' \in [Date -> {"AVAILABLE", "BLOCKED", "BOOKED"}]
    BY <1>6, ReleasedType DEF CancelCommit
  <2>5. /\ booking' \in [Booking -> BookingStatus \union {"none"}]
        /\ nights' \in [Booking -> SUBSET Date]
    BY <1>6 DEF CancelCommit, NightsDeleted, Typed, TypeOK, BookingStatus
  <2>6. redeemed' \in Nat
    BY <1>6 DEF CancelCommit, GiveBack, Typed, TypeOK
  <2>. QED BY <1>6, <2>3, <2>4, <2>5, <2>6 DEF CancelCommit, Typed, TypeOK, WorkTyped, gateway, clock
<1>2. CASE CancelPayments(r)
  <2>1. JobSound(Resume(job[r]))
    BY <1>2, AtWork DEF CancelPayments, At
  <2>2. WorkTyped'
    BY <1>2, <2>1, GoSound DEF CancelPayments
  <2>3. payment' \in [Payment -> PaymentStatus \union {"none"}]
    BY <1>2 DEF CancelPayments, Typed, TypeOK, PaymentStatus
  <2>. QED BY <1>2, <2>2, <2>3 DEF CancelPayments, Typed, TypeOK, WorkTyped, gateway, clock
<1>3. CASE CompleteWrite(r)
  <2>1. WorkTyped'
    BY <1>3, NoJobSound, GoSound DEF CompleteWrite, Stop
  <2>. QED BY <1>3, <2>1 DEF CompleteWrite, Typed, TypeOK, WorkTyped, BookingStatus, gateway, clock
<1>4. CASE BlockWrite(r)
  <2>1. WorkTyped'
    BY <1>4, NoJobSound, GoSound DEF BlockWrite, Stop
  <2>. QED BY <1>4, <2>1 DEF BlockWrite, Typed, TypeOK, WorkTyped, gateway, clock
<1>5. CASE DeleteWrite(r)
  <2>1. WorkTyped'
    BY <1>5, NoJobSound, GoSound DEF DeleteWrite, Stop
  <2>. QED BY <1>5, <2>1 DEF DeleteWrite, Typed, TypeOK, WorkTyped, gateway, clock
<1>. QED BY <1>1, <1>2, <1>3, <1>4, <1>5, <1>6

\* The statements of refunding.
LEMMA RefundTyped ==
  ASSUME Typed, NEW r \in Request,
         \/ RefundRequest(r) \/ RefundAccepted(r) \/ RefundFailed(r) \/ RefundDone(r)
         \/ RefundRefused(r) \/ RefundReplyLost(r)
  PROVE  Typed'
<1>. DEFINE b == job[r].b
            p == job[r].p
<1>1. /\ JobSound(job[r]) /\ job[r] \in Job /\ b \in Booking
      /\ JobSound(Resume(job[r])) /\ JobSound(NoJob)
  BY AtWork DEF RefundRequest, RefundAccepted, RefundFailed, RefundDone, RefundRefused, RefundReplyLost, At
<1>2. CASE RefundRequest(r)
  <2>1. CASE Go(r, Resume(job[r])) /\ UNCHANGED <<payment, refund>>
    BY <1>1, <1>2, <2>1, GoSound, OnlyJobs DEF RefundRequest, rows
  <2>2. ASSUME NEW q \in Refundable(job[r]),
               refund' = [refund EXCEPT ![q] = "REQUESTED"],
               payment' = [payment EXCEPT ![q] = "REFUND_PENDING"],
               Go(r, [job[r] EXCEPT !.step = "refund.gateway", !.p = q])
        PROVE  Typed'
    <3>1. q \in Payment /\ BookingOf[q] = b
      BY <1>1, <1>2 DEF Refundable, PaymentsOf, RefundRequest, At, JobSound
    <3>2. JobSound([job[r] EXCEPT !.step = "refund.gateway", !.p = q])
      BY <1>1, <3>1 DEF JobSound, Job, Step, OnPayment
    <3>3. WorkTyped'
      BY <2>2, <3>2, GoSound
    <3>. QED BY <1>2, <2>2, <3>3 DEF RefundRequest, Typed, TypeOK, WorkTyped, PaymentStatus, RefundStatus,
                                     gateway, clock
  <2>. QED BY <1>2, <2>1, <2>2 DEF RefundRequest
<1>3. CASE RefundAccepted(r)
  <2>1. WorkTyped'
    BY <1>1, <1>3, GoSound DEF RefundAccepted
  <2>. QED BY <1>3, <2>1 DEF RefundAccepted, Accepted, Typed, TypeOK, WorkTyped, RefundStatus, clock
<1>4. CASE RefundDone(r)
  <2>1. WorkTyped'
    BY <1>1, <1>4, GoSound DEF RefundDone
  <2>. QED BY <1>4, <2>1 DEF RefundDone, Finalize, Typed, TypeOK, WorkTyped, RefundStatus, PaymentStatus,
                             BookingStatus, clock
<1>5. CASE RefundRefused(r)
  <2>1. WorkTyped'
    BY <1>1, <1>5, GoSound DEF RefundRefused
  <2>. QED BY <1>5, <2>1 DEF RefundRefused, Typed, TypeOK, WorkTyped, RefundStatus, PaymentStatus,
                             gateway, clock
<1>6. CASE RefundReplyLost(r)
  <2>1. WorkTyped'
    BY <1>1, <1>6, GoSound DEF RefundReplyLost, Stop
  <2>. QED BY <1>6, <2>1 DEF RefundReplyLost, Typed, TypeOK, WorkTyped, rows, clock
<1>7. CASE RefundFailed(r)
  <2>1. WorkTyped'
    BY <1>1, <1>7, GoSound DEF RefundFailed
  <2>. QED BY <1>7, <2>1 DEF RefundFailed, Typed, TypeOK, WorkTyped, RefundStatus, clock
<1>. QED BY <1>2, <1>3, <1>4, <1>5, <1>6, <1>7

\* The gateway, the guest, the clock, and a handler that dies.
LEMMA WorldTyped ==
  ASSUME Typed, World \/ \E r \in Request : Die(r)
  PROVE  Typed'
<1>1. ASSUME NEW r \in Request, Die(r) PROVE Typed'
  BY <1>1, NoJobSound, GoSound, OnlyJobs DEF Die, Stop
<1>2. CASE World
  <2>1. UNCHANGED rows /\ UNCHANGED <<job, torn, crossed, raced>>
    BY <1>2 DEF World, Pay, OrderFails, PaybackEnds, HoldElapses, DayPasses, work
  <2>2. /\ order' \in [Payment -> {"none", "ACTIVE", "PAID", "FAILED"}]
        /\ payback' \in [Payment -> {"none", "PENDING", "DONE", "FAILED"}]
    BY <1>2 DEF World, Pay, OrderFails, PaybackEnds, HoldElapses, DayPasses, Typed, TypeOK,
                gateway
  <2>3. aged' \subseteq Booking /\ today' \in Nat
    BY <1>2 DEF World, Pay, OrderFails, PaybackEnds, HoldElapses, DayPasses, Typed, TypeOK,
                clock
  <2>. QED BY <2>1, <2>2, <2>3 DEF Typed, TypeOK, JobsSound, rows
<1>. QED BY <1>1, <1>2

-----------------------------------------------------------------------------
\* Every step of the booking engine keeps types and jobs sound.
LEMMA NextTyped ==
  ASSUME Typed, ConstantsOK, [Next]_vars
  PROVE  Typed'
<1>1. ASSUME NEW r \in Request, Begin(r) PROVE Typed'
  BY <1>1, BeginTyped
<1>2. ASSUME NEW r \in Request, Work(r) PROVE Typed'
  BY <1>2, SettleTyped, CheckoutTyped, CancelTyped, RefundTyped, DeadlockTyped DEF Work
<1>3. CASE UNCHANGED vars
  BY <1>3 DEF vars, Typed, TypeOK, JobsSound
<1>. QED BY <1>1, <1>2, <1>3, WorldTyped DEF Next

\* Initially no request is in flight and no row exists.
LEMMA InitTyped == Init => Typed
BY NoJobSound DEF Init, Typed, TypeOK, JobsSound

\* Every behaviour of the booking engine keeps every variable's type, and no
\* request ever writes a booking or payment other than the one it is about.
THEOREM TypesHold == Spec => [](TypeOK /\ JobsSound)
<1>1. Typed /\ [Next]_vars => Typed'
  BY ConstantsOK, NextTyped
<1>. QED BY <1>1, InitTyped, PTL DEF Spec, Typed

-----------------------------------------------------------------------------
(***************************************************************************)
(* Why no night is sold twice and none is kept by a dead booking.          *)
(*                                                                         *)
(* NightHeldOnce and DeadHoldsNothing are not inductive.  A booking's      *)
(* nights can only ever shrink once its row exists (Shrinks), and a        *)
(* handler that will release nights read them after that, so it knows at   *)
(* least the nights that are still there (KnowsRows); the one handler that *)
(* adds nights is alone at its booking (CreatesAlone).                     *)
(***************************************************************************)

\* A booking without a row has no nights, payment, refund or order.
UnbornHasNothing ==
  \A b \in Booking : booking[b] = "none" =>
    /\ nights[b] = {}
    /\ \A p \in Payment : BookingOf[p] = b =>
         payment[p] = "none" /\ refund[p] = "none" /\ order[p] = "none"

\* Nights come and go together.
AllOrNothing == \A b \in Booking : nights[b] \in {{}, StayOf[b]}

\* Where a handler stands that read the nights it is about to delete.
Releases == {"cancel.tx", "expire.tx", "cancel.commit", "expire.commit"}

\* What a handler that read its booking's row can rely on.
KnowsRows(j) ==
  /\ j.step \notin {"idle", "create.insert", "block.write"} => booking[j.b] # "none"
  /\ j.step \in Releases => nights[j.b] \subseteq j.dates

\* A create between its check and its insert: nobody else knows the booking.
CreatesAlone(r) ==
  At(r, "create.insert") =>
    /\ booking[job[r].b] = "none"
    /\ \A q \in Request \ {r} : job[q].b # job[r].b

JobsInOrder == \A r \in Request : KnowsRows(job[r]) /\ CreatesAlone(r)

NightsInOrder ==
  /\ Typed
  /\ UnbornHasNothing
  /\ AllOrNothing
  /\ NightHeldOnce
  /\ DeadHoldsNothing
  /\ JobsInOrder

-----------------------------------------------------------------------------
(* Every step but the two of create.                                       *)

\* No booking is born, nights only go, and they go from whoever dies.
Shrinks ==
  /\ \A b \in Booking :
       /\ booking'[b] = "none" <=> booking[b] = "none"
       /\ nights'[b] \in {nights[b], {}}
       /\ booking'[b] \in {"CANCELLED", "EXPIRED"} =>
            booking'[b] = booking[b] \/ nights'[b] = {}
  /\ \A p \in Payment :
       booking[BookingOf[p]] = "none" =>
         /\ payment'[p] = payment[p]
         /\ refund'[p] = refund[p]
         /\ order'[p] = order[p]

\* The handler goes on with its booking, or ends.
Follows(k, b) ==
  \/ k = NoJob
  \/ /\ k.b = b
     /\ k.step \notin Releases \union {"create.insert"}

\* A step that only shrinks, by a handler that knows its booking.
LEMMA ShrinkKeepsOrder ==
  ASSUME NightsInOrder, ConstantsOK, Typed', Shrinks,
         \/ UNCHANGED job
         \/ \E r \in Request : \E j : Go(r, j) /\ KnowsRows(j)' /\ j.step # "create.insert"
                                  /\ (j.b \in Booking => booking[j.b] # "none")
  PROVE  NightsInOrder'
<1>1. UnbornHasNothing'
  BY DEF UnbornHasNothing, Shrinks, NightsInOrder, ConstantsOK
<1>2. AllOrNothing' /\ NightHeldOnce'
  BY DEF AllOrNothing, NightHeldOnce, Shrinks, NightsInOrder
<1>3. DeadHoldsNothing'
  BY DEF DeadHoldsNothing, Shrinks, NightsInOrder
<1>4. ASSUME NEW q \in Request, KnowsRows(job[q]) PROVE KnowsRows(job[q])' \/ job'[q] # job[q]
  <2>1. JobSound(job[q])
    BY DEF NightsInOrder, Typed, JobsSound
  <2>. QED BY <1>4, <2>1 DEF KnowsRows, Shrinks, JobSound, Releases
<1>5. ASSUME NEW q \in Request, At(q, "create.insert")
      PROVE  booking'[job[q].b] = "none" /\ booking[job[q].b] = "none" /\ job[q].b \in Booking
  <2>1. JobSound(job[q]) /\ CreatesAlone(q)
    BY DEF NightsInOrder, Typed, JobsSound, JobsInOrder
  <2>. QED BY <1>5, <2>1 DEF CreatesAlone, At, JobSound, Shrinks
<1>6. JobsInOrder'
  <2>1. CASE UNCHANGED job
    BY <1>4, <1>5, <2>1 DEF JobsInOrder, NightsInOrder, CreatesAlone, At
  <2>2. ASSUME NEW r \in Request, NEW j, Go(r, j), KnowsRows(j)', j.step # "create.insert",
               j.b \in Booking => booking[j.b] # "none"
        PROVE  JobsInOrder'
    <3>1. job'[r] = j /\ \A q \in Request \ {r} : job'[q] = job[q]
      BY <2>2 DEF Go, NightsInOrder, Typed, TypeOK
    <3>2. ASSUME NEW q \in Request PROVE KnowsRows(job[q])'
      BY <1>4, <2>2, <3>1 DEF JobsInOrder, NightsInOrder, KnowsRows
    <3>3. ASSUME NEW q \in Request PROVE CreatesAlone(q)'
      <4>1. CASE q = r
        BY <2>2, <3>1, <4>1 DEF CreatesAlone, At
      <4>2. CASE q # r /\ At(q, "create.insert")
        <5>1. j.b # job[q].b
          BY <1>5, <2>2, <4>2
        <5>. QED BY <1>5, <3>1, <4>2, <5>1 DEF CreatesAlone, At, JobsInOrder, NightsInOrder
      <4>3. CASE q # r /\ ~At(q, "create.insert")
        BY <3>1, <4>3 DEF CreatesAlone, At
      <4>. QED BY <4>1, <4>2, <4>3
    <3>. QED BY <3>2, <3>3 DEF JobsInOrder
  <2>. QED BY <2>1, <2>2
<1>. QED BY <1>1, <1>2, <1>3, <1>6 DEF NightsInOrder

\* What the handler does next is about the same booking.
LEMMA ResumeFollows ==
  ASSUME NEW j \in Job
  PROVE  Follows(Resume(j), j.b)
<1>1. CASE j.then = "end"
  BY <1>1 DEF Resume, Follows
<1>2. CASE j.then \in {"expire", "expire+order", "order"}
  BY <1>2 DEF Resume, Follows, Job, Releases
<1>3. CASE j.then = "block"
  BY <1>3 DEF Resume, Follows, Job, Releases
<1>. QED BY <1>1, <1>2, <1>3 DEF Job, Then

\* So is what it does about a reported order.
LEMMA ReconciledFollows ==
  ASSUME NEW j \in Job, NEW p \in Payment
  PROVE  /\ Follows(StartSettle(j, p), j.b)
         /\ Follows(StartFail(j, p), j.b)
         /\ Follows(Reconciled(j, p), j.b)
<1>1. Follows(StartSettle(j, p), j.b)
  BY ResumeFollows DEF StartSettle, Follows, Job, Releases
<1>2. Follows(StartFail(j, p), j.b)
  BY ResumeFollows DEF StartFail, Follows, Job, Releases
<1>. QED BY <1>1, <1>2, ResumeFollows DEF Reconciled

\* A handler that goes on with a booking it knows, while rows only shrink.
LEMMA MovesOn ==
  ASSUME NightsInOrder, ConstantsOK, Typed', Shrinks, NEW r \in Request,
         NEW b \in Booking, booking[b] # "none", NEW k, Go(r, k), Follows(k, b)
  PROVE  NightsInOrder'
<1>1. KnowsRows(k)' /\ k.step # "create.insert" /\ (k.b \in Booking => booking[k.b] # "none")
  BY DEF KnowsRows, Follows, NoJob, Shrinks, ConstantsOK, Releases
<1>. QED BY <1>1, ShrinkKeepsOrder

\* A handler that changed no row.
LEMMA OnlyJobsShrinks == UNCHANGED <<booking, nights, payment, refund, order>> => Shrinks
BY DEF Shrinks

-----------------------------------------------------------------------------
(* The order is kept by every action.                                      *)

\* recoverOpenBooking reconciles or resumes, for the same booking.
LEMMA RecoverInOrder ==
  ASSUME NightsInOrder, ConstantsOK, Typed', NEW r \in Request, NEW b \in Booking,
         booking[b] # "none", NEW then \in Then, Recover(r, b, then),
         UNCHANGED <<rows, gateway, clock>>
  PROVE  NightsInOrder'
<1>. DEFINE j == [NewJob("idle", b) EXCEPT !.then = then]
<1>1. NewJob("idle", b) \in Job /\ NewJob("idle", b).b = b
  BY NewJobSound DEF Step
<1>2. j \in Job /\ j.b = b
  BY <1>1 DEF Job
<1>. HIDE DEF j
<1>3. PICK known \in Answered(OpenPayments(b)) :
        IF known = {} THEN Go(r, Resume(j))
        ELSE \E p \in known : Go(r, Reconciled(j, p))
  BY DEF Recover, j
<1>4. known \subseteq Payment
  BY <1>3 DEF Answered, OpenPayments, PaymentsOf
<1>5. \E k : Go(r, k) /\ Follows(k, b)
  BY <1>2, <1>3, <1>4, ResumeFollows, ReconciledFollows
<1>. QED BY <1>5, MovesOn, OnlyJobsShrinks DEF rows, gateway

\* A handler that begins knows the rows it has just read.
LEMMA BeginInOrder ==
  ASSUME NightsInOrder, ConstantsOK, Typed', NEW r \in Request, Begin(r)
  PROVE  NightsInOrder'
<1>1. ASSUME NEW b \in Booking, CreateCheck(r, b) PROVE NightsInOrder'
  <2>1. /\ job' = [job EXCEPT ![r] = NewJob("create.insert", b)]
        /\ UNCHANGED <<booking, nights, payment, refund, order>>
    BY <1>1 DEF CreateCheck, Go, rows, gateway
  <2>2. /\ job'[r].b = b /\ job'[r].step = "create.insert"
        /\ \A q \in Request \ {r} : job'[q] = job[q]
    BY <2>1, NewJobSound DEF NightsInOrder, Typed, TypeOK, Step
  <2>3. \A q \in Request : KnowsRows(job[q])'
    BY <2>1, <2>2 DEF NightsInOrder, JobsInOrder, KnowsRows, Releases
  <2>4. ASSUME NEW q \in Request PROVE CreatesAlone(q)'
    BY <1>1, <2>1, <2>2 DEF CreateCheck, NightsInOrder, JobsInOrder, CreatesAlone, At
  <2>. QED BY <2>1, <2>3, <2>4 DEF NightsInOrder, JobsInOrder, UnbornHasNothing, AllOrNothing,
                                   NightHeldOnce, DeadHoldsNothing
<1>2. ASSUME NEW b \in Booking, CreateOrder(r, b) \/ Poll(r, b) PROVE NightsInOrder'
  BY <1>2, RecoverInOrder DEF CreateOrder, Poll, Then
<1>3. ASSUME NEW b \in Booking, booking[b] # "none", NEW k, k.b = b, Go(r, k),
             k.step \notin Releases \union {"create.insert"}, UNCHANGED <<rows, gateway, clock>>
      PROVE  NightsInOrder'
  <2>1. Follows(k, b)
    BY <1>3 DEF Follows
  <2>2. Shrinks
    BY <1>3, OnlyJobsShrinks DEF rows, gateway
  <2>. QED BY <1>3, <2>1, <2>2, MovesOn
<1>4. ASSUME NEW b \in Booking, Sweep(r, b) \/ AdminRefund(r, b) \/ Complete(r, b)
      PROVE  NightsInOrder'
  <2>1. PICK step \in {"expire.read", "refund.request", "complete.write"} :
          /\ Go(r, NewJob(step, b))
          /\ booking[b] # "none" /\ UNCHANGED <<rows, gateway, clock>>
    BY <1>4 DEF Sweep, AdminRefund, Complete
  <2>2. NewJob(step, b).b = b /\ NewJob(step, b).step = step
    BY <2>1, NewJobSound DEF Step
  <2>. QED BY <1>3, <2>1, <2>2 DEF Releases
<1>5. ASSUME NEW b \in Booking, NEW then \in Then, StartCancel(r, b, then)
      PROVE  NightsInOrder'
  <2>. DEFINE start == [NewJob("cancel.tx", b) EXCEPT !.then = then, !.seen = booking[b],
                                                      !.dates = nights[b]]
  <2>0. start.b = b /\ start.step = "cancel.tx" /\ start.dates = nights[b] /\ Go(r, start)
    BY <1>5 DEF StartCancel, NewJob, NoJob
  <2>. HIDE DEF start
  <2>1. PICK k : Go(r, k) /\ k.b = b /\ k.step = "cancel.tx" /\ k.dates = nights[b]
    BY <2>0
  <2>2. booking[b] # "none"
    BY <1>5 DEF StartCancel, Cancellable, AwaitingPayment
  <2>3. UNCHANGED <<booking, nights, payment, refund, order>>
    BY <1>5 DEF StartCancel, rows, gateway
  <2>4. KnowsRows(k)' /\ k.step # "create.insert" /\ booking[k.b] # "none"
    BY <2>1, <2>2, <2>3 DEF KnowsRows, Releases
  <2>. QED BY <2>1, <2>3, <2>4, OnlyJobsShrinks, ShrinkKeepsOrder
<1>6. ASSUME NEW b \in Booking, Cancel(r, b) \/ AdminCancel(r, b) PROVE NightsInOrder'
  BY <1>5, <1>6 DEF Cancel, AdminCancel, Then
<1>7. ASSUME NEW p \in Payment, payment[p] # "none"
      PROVE  BookingOf[p] \in Booking /\ booking[BookingOf[p]] # "none"
  BY <1>7 DEF ConstantsOK, NightsInOrder, UnbornHasNothing
<1>8. ASSUME NEW p \in Payment, ReportOrder(r, p) \/ VerifyCheckout(r, p) PROVE NightsInOrder'
  <2>1. NewJob("idle", BookingOf[p]) \in Job /\ NewJob("idle", BookingOf[p]).b = BookingOf[p]
    BY <1>7, <1>8, NewJobSound DEF Step, ReportOrder, VerifyCheckout
  <2>2. \E k : Go(r, k) /\ Follows(k, BookingOf[p])
    BY <1>8, <2>1, ReconciledFollows DEF ReportOrder, VerifyCheckout
  <2>. QED BY <1>7, <1>8, <2>2, MovesOn, OnlyJobsShrinks DEF ReportOrder, VerifyCheckout, rows, gateway
<1>9. ASSUME NEW p \in Payment, DeletePayment(r, p) PROVE NightsInOrder'
  <2>. DEFINE k == [NewJob("delete.write", BookingOf[p]) EXCEPT !.p = p]
  <2>1. k.b = BookingOf[p] /\ k.step = "delete.write"
    BY DEF NewJob, NoJob
  <2>. HIDE DEF k
  <2>2. Go(r, k) /\ payment[p] # "none" /\ UNCHANGED <<rows, gateway, clock>>
    BY <1>9 DEF DeletePayment, Deletable, k
  <2>. QED BY <1>3, <1>7, <2>1, <2>2 DEF Releases
<1>10. ASSUME NEW p \in Payment, RefundReport(r, p) PROVE NightsInOrder'
  <2>1. BookingOf[p] \in Booking /\ booking[BookingOf[p]] # "none"
    BY <1>10 DEF RefundReport, ConstantsOK, NightsInOrder, UnbornHasNothing
  <2>2. /\ UNCHANGED <<nights, order, job>>
        /\ \A q \in Payment \ {p} : payment'[q] = payment[q] /\ refund'[q] = refund[q]
        /\ \A b \in Booking : booking'[b] # booking[b] =>
             b = BookingOf[p] /\ booking'[b] = "REFUNDED"
    BY <1>10 DEF RefundReport, Finalize, NightsInOrder, Typed, TypeOK, gateway, work
  <2>3. Shrinks
    BY <2>1, <2>2 DEF Shrinks
  <2>. QED BY <2>2, <2>3, ShrinkKeepsOrder
<1>11. ASSUME NEW d \in Date, Block(r, d) PROVE NightsInOrder'
  <2>. DEFINE k == [NoJob EXCEPT !.step = "block.write", !.dates = {d}]
  <2>1. k.b = None /\ k.step = "block.write"
    BY DEF NoJob
  <2>. HIDE DEF k
  <2>2. Go(r, k) /\ UNCHANGED <<booking, nights, payment, refund, order>>
    BY <1>11 DEF Block, rows, gateway, k
  <2>3. KnowsRows(k)' /\ k.step # "create.insert" /\ k.b \notin Booking
    BY <2>1 DEF KnowsRows, ConstantsOK, Releases
  <2>. QED BY <2>2, <2>3, OnlyJobsShrinks, ShrinkKeepsOrder
<1>12. ASSUME NEW d \in Date, Unblock(r, d) PROVE NightsInOrder'
  BY <1>12, OnlyJobsShrinks, ShrinkKeepsOrder DEF Unblock, gateway, work
<1>. QED BY <1>1, <1>2, <1>4, <1>6, <1>8, <1>9, <1>10, <1>11, <1>12 DEF Begin

\* A handler at work past its create knows its booking, and what follows the
\* statement it is at is about that booking.
LEMMA AtBooking ==
  ASSUME NightsInOrder, NEW r \in Request,
         job[r].step \notin {"idle", "create.insert", "block.write"}
  PROVE  /\ job[r] \in Job
         /\ job[r].b \in Booking
         /\ booking[job[r].b] # "none"
         /\ Follows(NoJob, job[r].b)
         /\ Follows(Resume(job[r]), job[r].b)
         /\ job[r].step \in OnPayment => job[r].p \in Payment /\ BookingOf[job[r].p] = job[r].b
BY AtWork, ResumeFollows DEF NightsInOrder, JobsInOrder, KnowsRows, Follows, JobSound

\* The insert is the one step by which nights are added, and the index only
\* lets it add nights nobody holds.
LEMMA CreateInsertInOrder ==
  ASSUME NightsInOrder, ConstantsOK, Typed', NEW r \in Request, CreateInsert(r)
  PROVE  NightsInOrder'
<1>. DEFINE b == job[r].b
<1>1. /\ b \in Booking /\ booking[b] = "none" /\ nights[b] = {}
      /\ \A q \in Request \ {r} : job[q].b # b
  BY DEF CreateInsert, At, NightsInOrder, Typed, JobsSound, JobSound, JobsInOrder, CreatesAlone,
         UnbornHasNothing
<1>2. /\ job'[r] = NoJob
      /\ \A q \in Request \ {r} : job'[q] = job[q]
      /\ UNCHANGED <<payment, refund, order>>
  BY DEF CreateInsert, Stop, Go, NightsInOrder, Typed, TypeOK, gateway
<1>3. CASE UNCHANGED <<booking, nights>>
  <2>1. Shrinks
    BY <1>2, <1>3, OnlyJobsShrinks
  <2>2. Go(r, NoJob) /\ KnowsRows(NoJob)' /\ NoJob.step # "create.insert" /\ NoJob.b \notin Booking
    BY DEF CreateInsert, Stop, KnowsRows, NoJob, ConstantsOK, Releases
  <2>. QED BY <2>1, <2>2, ShrinkKeepsOrder
<1>4. CASE /\ NightsUnique(b)
           /\ booking' = [booking EXCEPT ![b] = "PENDING"]
           /\ nights' = [nights EXCEPT ![b] = StayOf[b]]
  <2>1. /\ booking'[b] = "PENDING" /\ nights'[b] = StayOf[b]
        /\ \A c \in Booking \ {b} : booking'[c] = booking[c] /\ nights'[c] = nights[c]
    BY <1>1, <1>4 DEF NightsInOrder, Typed, TypeOK
  <2>2. \A c \in Booking \ {b} : StayOf[b] \intersect nights[c] = {}
    BY <1>4 DEF NightsUnique, HeldByOthers
  <2>3. UnbornHasNothing' /\ AllOrNothing' /\ NightHeldOnce' /\ DeadHoldsNothing'
    BY <1>2, <2>1, <2>2 DEF NightsInOrder, UnbornHasNothing, AllOrNothing, NightHeldOnce,
                            DeadHoldsNothing
  <2>4. ASSUME NEW q \in Request PROVE KnowsRows(job[q])' /\ CreatesAlone(q)'
    <3>1. CASE q = r
      BY <1>2, <3>1 DEF KnowsRows, CreatesAlone, At, NoJob, Releases
    <3>2. CASE q # r
      <4>1. job'[q] = job[q] /\ job[q].b # b /\ JobSound(job[q])
        BY <1>1, <1>2, <3>2 DEF NightsInOrder, Typed, JobsSound
      <4>2. job'[r].b \notin Booking
        BY <1>2 DEF NoJob, ConstantsOK
      <4>. QED BY <1>2, <2>1, <3>2, <4>1, <4>2
               DEF NightsInOrder, JobsInOrder, KnowsRows, CreatesAlone, At, JobSound, Releases
    <3>. QED BY <3>1, <3>2
  <2>. QED BY <2>3, <2>4 DEF NightsInOrder, JobsInOrder
<1>. QED BY <1>3, <1>4 DEF CreateInsert

\* The releases' first step touches no row the order is about.
LEMMA ReleaseInOrder ==
  ASSUME NightsInOrder, ConstantsOK, Typed', NEW r \in Request,
         ExpireTx(r) \/ CancelTx(r)
  PROVE  NightsInOrder'
<1>1. /\ job[r] \in Job /\ job[r].b \in Booking /\ booking[job[r].b] # "none"
      /\ nights[job[r].b] \subseteq job[r].dates
  BY AtBooking DEF ExpireTx, CancelTx, At, NightsInOrder, JobsInOrder, KnowsRows, Releases
<1>2. PICK step \in {"expire.commit", "cancel.commit"} :
        Go(r, [job[r] EXCEPT !.step = step, !.freed = ToRelease(job[r].dates)])
  BY DEF ExpireTx, CancelTx
<1>. DEFINE next == [job[r] EXCEPT !.step = step, !.freed = ToRelease(job[r].dates)]
<1>3. next.step = step /\ next.b = job[r].b /\ next.dates = job[r].dates /\ Go(r, next)
  BY <1>1, <1>2 DEF Job
<1>4. UNCHANGED <<booking, nights, payment, refund, order>>
  BY DEF ExpireTx, CancelTx, rows, gateway
<1>. HIDE DEF next
<1>5. PICK k : Go(r, k) /\ k.step = step /\ k.b = job[r].b /\ k.dates = job[r].dates
  BY <1>3
<1>6. KnowsRows(k)' /\ k.step # "create.insert" /\ booking[k.b] # "none"
  BY <1>1, <1>4, <1>5 DEF KnowsRows
<1>. QED BY <1>4, <1>5, <1>6, OnlyJobsShrinks, ShrinkKeepsOrder

\* Settlement and expiry.
LEMMA SettleInOrder ==
  ASSUME NightsInOrder, ConstantsOK, Typed', NEW r \in Request,
         \/ SettleRefused(r) \/ SettleTx(r) \/ SettleCommit(r) \/ FailWrite(r)
         \/ ExpireRead(r) \/ ExpireTx(r) \/ ExpireCommit(r)
  PROVE  NightsInOrder'
<1>. DEFINE b == job[r].b
            p == job[r].p
<1>1. /\ job[r] \in Job /\ b \in Booking /\ booking[b] # "none"
      /\ Follows(NoJob, b) /\ Follows(Resume(job[r]), b)
      /\ job[r].step \in OnPayment => p \in Payment /\ BookingOf[p] = b
  BY AtBooking DEF SettleRefused, SettleTx, SettleCommit, FailWrite, ExpireRead, ExpireTx,
                   ExpireCommit, At
<1>2. ASSUME /\ UNCHANGED <<nights, refund, order>>
             /\ booking' = [booking EXCEPT ![b] = "CONFIRMED"] \/ UNCHANGED booking
             /\ (\E s \in PaymentStatus : payment' = [payment EXCEPT ![p] = s]) \/ UNCHANGED payment
             /\ job[r].step \in OnPayment
      PROVE  Shrinks
  <2>1. \A q \in Payment : booking[BookingOf[q]] = "none" => payment'[q] = payment[q]
    BY <1>1, <1>2 DEF NightsInOrder, Typed, TypeOK
  <2>2. \A c \in Booking : booking'[c] # booking[c] => c = b /\ booking'[c] = "CONFIRMED"
    BY <1>2 DEF NightsInOrder, Typed, TypeOK
  <2>. QED BY <1>1, <1>2, <2>1, <2>2 DEF Shrinks
<1>3. CASE SettleTx(r)
  <2>1. Follows(Unconfirmed(job[r]), b)
    BY <1>1 DEF Follows, Unconfirmed, Job, Releases
  <2>2. Follows([job[r] EXCEPT !.step = "settle.commit", !.dates = nights[b]], b)
    BY <1>1 DEF Follows, Job, Releases
  <2>3. \E k : Go(r, k) /\ Follows(k, b)
    BY <1>1, <1>3, <2>1, <2>2 DEF SettleTx, Stop, At, OnPayment
  <2>4. Shrinks
    BY <1>1, <1>2, <1>3 DEF SettleTx, At, OnPayment, PaymentStatus, gateway
  <2>. QED BY <1>1, <2>3, <2>4, MovesOn
<1>4. CASE SettleCommit(r)
  <2>1. Shrinks
    BY <1>1, <1>2, <1>4 DEF SettleCommit, At, OnPayment, PaymentStatus, gateway
  <2>. QED BY <1>1, <1>4, <2>1, MovesOn DEF SettleCommit
<1>9. CASE SettleRefused(r)
  BY <1>1, <1>9, MovesOn, OnlyJobsShrinks DEF SettleRefused, Stop, rows, gateway
<1>5. CASE FailWrite(r)
  <2>1. Shrinks
    BY <1>2, <1>5 DEF FailWrite, At, OnPayment, PaymentStatus, gateway
  <2>. QED BY <1>1, <1>5, <2>1, MovesOn DEF FailWrite, Stop
<1>6. CASE ExpireRead(r)
  <2>1. UNCHANGED <<booking, nights, payment, refund, order>>
    BY <1>6 DEF ExpireRead, rows, gateway
  <2>2. CASE \E k : Go(r, k) /\ Follows(k, b)
    BY <1>1, <2>1, <2>2, MovesOn, OnlyJobsShrinks
  <2>3. CASE Go(r, [job[r] EXCEPT !.step = "expire.tx", !.dates = nights[b]])
    <3>. DEFINE next == [job[r] EXCEPT !.step = "expire.tx", !.dates = nights[b]]
    <3>1. next.b = b /\ next.step = "expire.tx" /\ next.dates = nights[b] /\ Go(r, next)
      BY <1>1, <2>3 DEF Job
    <3>. HIDE DEF next
    <3>2. PICK k : Go(r, k) /\ k.b = b /\ k.step = "expire.tx" /\ k.dates = nights[b]
      BY <3>1
    <3>3. KnowsRows(k)' /\ k.step # "create.insert" /\ booking[k.b] # "none"
      BY <1>1, <2>1, <3>2 DEF KnowsRows, Releases
    <3>. QED BY <2>1, <3>2, <3>3, OnlyJobsShrinks, ShrinkKeepsOrder
  <2>4. \A q \in PaymentsOf(b) : Follows(StartSettle(job[r], q), b)
    BY <1>1, ReconciledFollows DEF PaymentsOf
  <2>. QED BY <1>1, <1>6, <2>2, <2>3, <2>4 DEF ExpireRead, Answered
<1>7. CASE ExpireTx(r)
  BY <1>7, ReleaseInOrder
<1>8. CASE ExpireCommit(r)
  <2>1. /\ booking'[b] = "EXPIRED" /\ nights'[b] = {}
        /\ \A c \in Booking \ {b} : booking'[c] = booking[c] /\ nights'[c] = nights[c]
        /\ \A q \in Payment : BookingOf[q] # b => payment'[q] = payment[q]
        /\ UNCHANGED <<refund, order>>
    BY <1>1, <1>8 DEF ExpireCommit, NightsDeleted, OpenPayments, PaymentsOf, NightsInOrder, Typed,
                      TypeOK, gateway
  <2>2. Shrinks
    BY <1>1, <2>1 DEF Shrinks
  <2>3. Follows(Resume([job[r] EXCEPT !.freed = {}]), b)
    <3>1. [job[r] EXCEPT !.freed = {}] \in Job /\ [job[r] EXCEPT !.freed = {}].b = b
      BY <1>1 DEF Job
    <3>. QED BY <3>1, ResumeFollows
  <2>. QED BY <1>1, <1>8, <2>2, <2>3, MovesOn DEF ExpireCommit
<1>. QED BY <1>3, <1>4, <1>5, <1>6, <1>7, <1>8, <1>9

\* A handler the database aborts to end a deadlock.
LEMMA DeadlockInOrder ==
  ASSUME NightsInOrder, ConstantsOK, Typed', NEW r \in Request, Deadlock(r)
  PROVE  NightsInOrder'
<1>1. PICK q \in Request : Go(q, NoJob)
  BY DEF Deadlock, Confirming, Stop
<1>2. KnowsRows(NoJob)' /\ NoJob.step # "create.insert" /\ NoJob.b \notin Booking
  BY DEF KnowsRows, NoJob, ConstantsOK, Releases
<1>3. Shrinks
  BY OnlyJobsShrinks DEF Deadlock, rows, gateway
<1>. QED BY <1>1, <1>2, <1>3, ShrinkKeepsOrder

\* Checkout, cancellation, refunds and the other writes.
LEMMA WorkInOrder ==
  ASSUME NightsInOrder, ConstantsOK, Typed', NEW r \in Request,
         \/ OrderRead(r) \/ OrderTx(r) \/ CancelTx(r) \/ CancelCommit(r) \/ CancelPayments(r)
         \/ RefundRequest(r) \/ RefundAccepted(r) \/ RefundFailed(r) \/ RefundDone(r)
         \/ RefundRefused(r) \/ RefundReplyLost(r)
         \/ CompleteWrite(r) \/ DeleteWrite(r)
  PROVE  NightsInOrder'
<1>. DEFINE b == job[r].b
            p == job[r].p
<1>1. /\ job[r] \in Job /\ b \in Booking /\ booking[b] # "none"
      /\ Follows(NoJob, b) /\ Follows(Resume(job[r]), b)
      /\ job[r].step \in OnPayment => p \in Payment /\ BookingOf[p] = b
  BY AtBooking DEF OrderRead, OrderTx, CancelTx, CancelCommit, CancelPayments, RefundRequest,
                   RefundAccepted, RefundFailed, RefundDone, RefundRefused, RefundReplyLost, CompleteWrite, DeleteWrite, At
<1>3. ASSUME /\ \A c \in Booking \ {b} : booking'[c] = booking[c]
             /\ \/ booking'[b] \notin {"none", "CANCELLED", "EXPIRED"}
                \/ booking'[b] = booking[b]
             /\ UNCHANGED nights
             /\ \A q \in Payment : BookingOf[q] # b =>
                  payment'[q] = payment[q] /\ refund'[q] = refund[q] /\ order'[q] = order[q]
      PROVE  Shrinks
  BY <1>1, <1>3 DEF Shrinks
<1>4. CASE OrderRead(r)
  <2>1. Follows([job[r] EXCEPT !.step = "order.tx", !.seen = booking[b]], b)
    BY <1>1 DEF Follows, Job, Releases
  <2>. QED BY <1>1, <1>4, <2>1, MovesOn, OnlyJobsShrinks DEF OrderRead, Stop, rows, gateway
<1>5. CASE OrderTx(r)
  <2>1. Shrinks
    BY <1>3, <1>5 DEF OrderTx, NightsInOrder, Typed, TypeOK
  <2>. QED BY <1>1, <1>5, <2>1, MovesOn DEF OrderTx, Stop
<1>2. CASE CancelTx(r)
  BY <1>2, ReleaseInOrder
<1>6. CASE CancelCommit(r)
  <2>1. /\ booking'[b] = "CANCELLED" /\ nights'[b] = {}
        /\ \A c \in Booking \ {b} : booking'[c] = booking[c] /\ nights'[c] = nights[c]
        /\ UNCHANGED <<payment, refund, order>>
    BY <1>1, <1>6 DEF CancelCommit, NightsDeleted, NightsInOrder, Typed, TypeOK, gateway
  <2>2. Shrinks
    BY <1>1, <2>1 DEF Shrinks
  <2>3. \A step \in {"refund.request", "cancel.payments"} :
          Follows([job[r] EXCEPT !.freed = {}, !.step = step], b)
    BY <1>1 DEF Follows, Job, Releases
  <2>4. \E k : Go(r, k) /\ Follows(k, b)
    BY <1>6, <2>3 DEF CancelCommit
  <2>. QED BY <1>1, <2>2, <2>4, MovesOn
<1>7. CASE CancelPayments(r)
  <2>1. /\ UNCHANGED <<booking, nights, refund, order>>
        /\ \A q \in Payment : BookingOf[q] # b => payment'[q] = payment[q]
    BY <1>7 DEF CancelPayments, Unpaid, PaymentsOf, gateway
  <2>2. Shrinks
    BY <1>3, <2>1
  <2>. QED BY <1>1, <1>7, <2>2, MovesOn DEF CancelPayments
<1>8. CASE RefundRequest(r)
  <2>1. JobSound(job[r])
    BY DEF NightsInOrder, Typed, JobsSound
  <2>2. \A q \in Refundable(job[r]) : q \in Payment /\ BookingOf[q] = b
    BY <1>8, <2>1 DEF RefundRequest, At, Refundable, PaymentsOf, JobSound
  <2>3. \A q \in Payment : Follows([job[r] EXCEPT !.step = "refund.gateway", !.p = q], b)
    BY <1>1 DEF Follows, Job, Releases
  <2>4. \E k : Go(r, k) /\ Follows(k, b)
    BY <1>1, <1>8, <2>2, <2>3 DEF RefundRequest
  <2>5. \/ UNCHANGED <<payment, refund>>
        \/ \E q \in Refundable(job[r]) : /\ payment' = [payment EXCEPT ![q] = "REFUND_PENDING"]
                                        /\ refund' = [refund EXCEPT ![q] = "REQUESTED"]
    BY <1>8 DEF RefundRequest
  <2>6. \A q \in Payment : BookingOf[q] # b => payment'[q] = payment[q] /\ refund'[q] = refund[q]
    BY <2>2, <2>5 DEF NightsInOrder, Typed, TypeOK
  <2>7. UNCHANGED <<booking, nights, order>>
    BY <1>8 DEF RefundRequest, gateway
  <2>8. Shrinks
    BY <1>3, <2>6, <2>7
  <2>. QED BY <1>1, <2>4, <2>8, MovesOn
<1>9. CASE RefundAccepted(r) \/ RefundFailed(r) \/ RefundRefused(r)
  <2>1. p \in Payment /\ BookingOf[p] = b
    BY <1>1, <1>9 DEF RefundAccepted, RefundFailed, RefundRefused, At, OnPayment
  <2>2. Shrinks
    BY <1>3, <1>9, <2>1 DEF RefundAccepted, Accepted, RefundFailed, RefundRefused, NightsInOrder,
                            Typed, TypeOK, gateway
  <2>. QED BY <1>1, <1>9, <2>2, MovesOn DEF RefundAccepted, RefundFailed, RefundRefused
<1>10. CASE RefundDone(r)
  <2>1. p \in Payment /\ BookingOf[p] = b
    BY <1>1, <1>10 DEF RefundDone, At, OnPayment
  <2>2. Shrinks
    BY <1>3, <1>10, <2>1 DEF RefundDone, Finalize, NightsInOrder, Typed, TypeOK
  <2>. QED BY <1>1, <1>10, <2>2, MovesOn DEF RefundDone
<1>11. CASE RefundReplyLost(r)
  <2>1. Shrinks
    BY <1>11, OnlyJobsShrinks DEF RefundReplyLost, rows
  <2>. QED BY <1>1, <1>11, <2>1, MovesOn DEF RefundReplyLost, Stop
<1>12. CASE CompleteWrite(r)
  <2>1. Shrinks
    BY <1>3, <1>12 DEF CompleteWrite, NightsInOrder, Typed, TypeOK, gateway
  <2>. QED BY <1>1, <1>12, <2>1, MovesOn DEF CompleteWrite, Stop
<1>13. CASE DeleteWrite(r)
  <2>1. p \in Payment /\ BookingOf[p] = b
    BY <1>1, <1>13 DEF DeleteWrite, At, OnPayment
  <2>2. Shrinks
    BY <1>3, <1>13, <2>1 DEF DeleteWrite, NightsInOrder, Typed, TypeOK, gateway
  <2>. QED BY <1>1, <1>13, <2>2, MovesOn DEF DeleteWrite, Stop
<1>. QED BY <1>2, <1>4, <1>5, <1>6, <1>7, <1>8, <1>9, <1>10, <1>11, <1>12, <1>13

\* A handler that ends, and the world around the handlers.
LEMMA WorldInOrder ==
  ASSUME NightsInOrder, ConstantsOK, Typed',
         World \/ \E r \in Request : Die(r) \/ BlockWrite(r)
  PROVE  NightsInOrder'
<1>1. ASSUME NEW r \in Request, Die(r) \/ BlockWrite(r) PROVE NightsInOrder'
  <2>1. Go(r, NoJob) /\ UNCHANGED <<booking, nights, payment, refund, order>>
    BY <1>1 DEF Die, BlockWrite, Stop, rows, gateway
  <2>2. KnowsRows(NoJob)' /\ NoJob.step # "create.insert" /\ NoJob.b \notin Booking
    BY DEF KnowsRows, NoJob, ConstantsOK, Releases
  <2>. QED BY <2>1, <2>2, OnlyJobsShrinks, ShrinkKeepsOrder
<1>2. CASE World
  <2>1. UNCHANGED <<booking, nights, payment, refund, job>>
    BY <1>2 DEF World, Pay, OrderFails, PaybackEnds, HoldElapses, DayPasses, rows, work
  <2>2. \A p \in Payment : order'[p] # order[p] => order[p] # "none"
    BY <1>2 DEF World, Pay, OrderFails, PaybackEnds, HoldElapses, DayPasses, gateway,
                NightsInOrder, Typed, TypeOK
  <2>3. Shrinks
    BY <2>1, <2>2 DEF Shrinks, NightsInOrder, UnbornHasNothing, ConstantsOK
  <2>. QED BY <2>1, <2>3, ShrinkKeepsOrder
<1>. QED BY <1>1, <1>2

-----------------------------------------------------------------------------
(* What holds of every behaviour.                                          *)

\* Every step keeps the nights in order.
LEMMA NextInOrder ==
  ASSUME NightsInOrder, ConstantsOK, [Next]_vars
  PROVE  NightsInOrder'
<1>1. Typed'
  BY NextTyped DEF NightsInOrder
<1>2. ASSUME NEW r \in Request, Begin(r) PROVE NightsInOrder'
  BY <1>1, <1>2, BeginInOrder
<1>3. ASSUME NEW r \in Request, Work(r) PROVE NightsInOrder'
  BY <1>1, <1>3, CreateInsertInOrder, SettleInOrder, DeadlockInOrder, WorkInOrder, WorldInOrder
     DEF Work
<1>4. CASE UNCHANGED vars
  BY <1>1, <1>4, OnlyJobsShrinks, ShrinkKeepsOrder DEF vars
<1>. QED BY <1>1, <1>2, <1>3, <1>4, WorldInOrder DEF Next

\* Nothing exists at first.
LEMMA InitInOrder == ConstantsOK /\ Init => NightsInOrder
BY InitTyped DEF Init, NightsInOrder, UnbornHasNothing, AllOrNothing, NightHeldOnce,
                 DeadHoldsNothing, JobsInOrder, KnowsRows, CreatesAlone, At, NoJob, Releases

\* Nights are always in order.
LEMMA AlwaysInOrder == Spec => []NightsInOrder
<1>1. NightsInOrder /\ [Next]_vars => NightsInOrder'
  BY ConstantsOK, NextInOrder
<1>2. Init => NightsInOrder
  BY ConstantsOK, InitInOrder
<1>. QED BY <1>1, <1>2, PTL DEF Spec

\* A night is held by at most one booking, whatever requests race for it and
\* however many bookings, dates and requests there are.
THEOREM NightsHeldOnce == Spec => []NightHeldOnce
BY AlwaysInOrder, PTL DEF NightsInOrder

\* A cancelled or expired booking has given all its nights back.
THEOREM DeadHoldNothing == Spec => []DeadHoldsNothing
BY AlwaysInOrder, PTL DEF NightsInOrder

-----------------------------------------------------------------------------
(***************************************************************************)
(* What the booking engine promises for its dates: confirmed stays hold    *)
(* their nights, the calendar shows no night as booked that nobody holds,  *)
(* and the whole implements Inventory, but for the stays that a settlement *)
(* and a release of their nights tore.                                     *)
(*                                                                         *)
(* Inductive with what the two transactions rely on between their steps: a *)
(* settlement still has the nights it read unless its booking is torn      *)
(* (SettleKnows), and a release has freed each BOOKED night it is about to *)
(* delete unless a torn stay booked it since (FreesBooked).                *)
(***************************************************************************)

\* A settlement and a release of one booking under way together are noticed.
TornKnown == \A b \in Booking : Torn(b) => b \in torn

SettleKnows(j) ==
  j.step = "settle.commit" =>
    /\ j.dates \subseteq StayOf[j.b]
    /\ j.b \in torn \/ (nights[j.b] = StayOf[j.b] /\ j.dates = StayOf[j.b])

TornStay(d) == \E b \in torn : d \in StayOf[b]

Commits == {"settle.commit", "cancel.commit", "expire.commit"}

FreesBooked(j) ==
  j.step \in {"cancel.commit", "expire.commit"} =>
    \A d \in nights[j.b] : calendar[d] = "BOOKED" => d \in j.freed \/ TornStay(d)

SalesInOrder ==
  /\ TornKnown
  /\ \A r \in Request : SettleKnows(job[r]) /\ FreesBooked(job[r])
  /\ OnlyTornLoseNights
  /\ BookedMeansHeld

\* A step of the abstract inventory, or none.
DatesStep == Dates!Next \/ UNCHANGED <<nights, Sold, torn>>

\* A handler goes on to no commit, so no stay is torn.
GoesOff(r, k) == Go(r, k) /\ k.step \notin Commits

\* No nights move, nobody is newly confirmed and no date newly booked.
SellsNothing ==
  /\ UNCHANGED <<nights, torn>>
  /\ \A q \in Request : job'[q] = job[q] \/ job'[q].step \notin Commits
  /\ \A d \in Date : calendar'[d] = "BOOKED" => calendar[d] = "BOOKED"
  /\ \E b \in Booking :
       /\ \A c \in Booking \ {b} : booking'[c] = booking[c]
       /\ booking'[b] = "CONFIRMED" => booking[b] = "CONFIRMED"

\* Where a handler resumes is no commit.
LEMMA ResumeElsewhere ==
  ASSUME NEW j \in Job
  PROVE  Resume(j).step \notin Commits
BY DEF Resume, NoJob, Job, Then, Commits

\* A step of a handler at no commit, or none, tears nothing.
LEMMA GoesOffTearsNot ==
  ASSUME Typed, Typed', TornKnown,
         UNCHANGED work \/ \E r \in Request : \E k : GoesOff(r, k)
  PROVE  /\ UNCHANGED torn
         /\ TornKnown'
         /\ \A q \in Request : job'[q] = job[q] \/ job'[q].step \notin Commits
<1>1. CASE UNCHANGED work
  BY <1>1 DEF work, TornKnown, Torn, Releasing, Confirming, At
<1>2. ASSUME NEW r \in Request, NEW k, GoesOff(r, k)
      PROVE  /\ UNCHANGED torn
             /\ TornKnown'
             /\ \A q \in Request : job'[q] = job[q] \/ job'[q].step \notin Commits
  <2>1. \A q \in Request : job'[q] = IF q = r THEN k ELSE job[q]
    BY <1>2 DEF GoesOff, Go, Typed, TypeOK
  <2>2. \A b \in Booking : Torn(b)' => Torn(b)
    BY <1>2, <2>1 DEF Torn, Releasing, Confirming, At, GoesOff, Commits
  <2>3. torn' = torn
    BY <1>2, <2>2 DEF GoesOff, Go, TornKnown
  <2>. QED BY <1>2, <2>1, <2>2, <2>3 DEF TornKnown, GoesOff
<1>. QED BY <1>1, <1>2

\* Where nothing is sold, what was sold still holds its nights.
LEMMA SellsNothingKeeps ==
  ASSUME Typed, ConstantsOK, SalesInOrder, SellsNothing, TornKnown'
  PROVE  SalesInOrder' /\ DatesStep
<1>1. OnlyTornLoseNights' /\ BookedMeansHeld'
  BY DEF SalesInOrder, OnlyTornLoseNights, BookedMeansHeld, SellsNothing
<1>2. ASSUME NEW q \in Request PROVE SettleKnows(job[q])' /\ FreesBooked(job[q])'
  <2>1. job[q].step \in Commits => job[q].b \in Booking /\ nights[job[q].b] \subseteq Date
    BY DEF Typed, TypeOK, JobsSound, JobSound, Commits
  <2>2. CASE job'[q] = job[q]
    BY <2>1, <2>2 DEF SalesInOrder, SettleKnows, FreesBooked, TornStay, SellsNothing, Commits
  <2>3. CASE job'[q].step \notin Commits
    BY <2>3 DEF SettleKnows, FreesBooked, Commits
  <2>. QED BY <2>2, <2>3 DEF SellsNothing
<1>3. PICK b \in Booking : /\ \A c \in Booking \ {b} : booking'[c] = booking[c]
                           /\ booking'[b] = "CONFIRMED" => booking[b] = "CONFIRMED"
  BY DEF SellsNothing
<1>4. Sold' = Sold \/ Sold' = Sold \ {b}
  BY <1>3 DEF Sold
<1>5. DatesStep
  BY <1>4 DEF DatesStep, Dates!Next, Dates!Close, SellsNothing
<1>. QED BY <1>1, <1>2, <1>5 DEF SalesInOrder

-----------------------------------------------------------------------------
(* The settlement and the releases, in their two steps.                    *)

\* A handler goes to its commit: its booking may be torn by that, but then
\* was held, or torn before.
LEMMA CommitsNext ==
  ASSUME NightsInOrder, ConstantsOK, Typed', SalesInOrder, NEW r \in Request, NEW k,
         Go(r, k), k.b \in Booking, UNCHANGED <<booking, nights, calendar>>,
         nights[k.b] = StayOf[k.b] \/ k.step # "settle.commit",
         SettleKnows(k), FreesBooked(k)
  PROVE  SalesInOrder' /\ DatesStep
<1>. DEFINE b == k.b
<1>1. \A q \in Request : job'[q] = IF q = r THEN k ELSE job[q]
  BY DEF Go, NightsInOrder, Typed, TypeOK
<1>2. \A c \in Booking : Torn(c)' => Torn(c) \/ (c = b /\ k.step \in Commits)
  BY <1>1 DEF Torn, Releasing, Confirming, At, Commits
<1>3. torn' = torn \/ torn' = torn \union {b}
  BY <1>2 DEF Go, SalesInOrder, TornKnown
<1>4. TornKnown'
  BY <1>2 DEF Go, SalesInOrder, TornKnown
<1>5. \A d : TornStay(d) => TornStay(d)'
  BY <1>3 DEF TornStay
<1>6. ASSUME NEW q \in Request PROVE SettleKnows(job[q])' /\ FreesBooked(job[q])'
  <2>1. SettleKnows(job'[q]) /\ FreesBooked(job'[q])
    BY <1>1 DEF SalesInOrder
  <2>. QED BY <1>3, <1>5, <2>1 DEF SettleKnows, FreesBooked
<1>7. OnlyTornLoseNights' /\ BookedMeansHeld'
  BY <1>3 DEF SalesInOrder, OnlyTornLoseNights, BookedMeansHeld
<1>8. Sold' = Sold
  BY DEF Sold
<1>9. torn' # torn => nights[b] = StayOf[b] \/ b \in torn
  <2>1. SUFFICES ASSUME torn' # torn, k.step # "settle.commit" PROVE nights[b] = StayOf[b] \/ b \in torn
    OBVIOUS
  <2>2. Torn(b)' /\ b \notin torn
    BY <1>2, <2>1 DEF Go, SalesInOrder, TornKnown
  <2>3. PICK q \in Request : job'[q].step = "settle.commit" /\ job'[q].b = b
    BY <2>2 DEF Torn, Confirming, At
  <2>4. job[q].step = "settle.commit" /\ job[q].b = b
    BY <1>1, <2>1, <2>3
  <2>. QED BY <2>4 DEF SalesInOrder, SettleKnows
<1>10. DatesStep
  BY <1>3, <1>8, <1>9 DEF DatesStep, Dates!Next, Dates!Tear
<1>. QED BY <1>4, <1>6, <1>7, <1>10 DEF SalesInOrder

\* The settlement's reads: a stay it is about to confirm holds all its nights.
LEMMA SettleTxSells ==
  ASSUME NightsInOrder, ConstantsOK, Typed', SalesInOrder, NEW r \in Request, SettleTx(r)
  PROVE  SalesInOrder' /\ DatesStep
<1>. DEFINE b == job[r].b
            p == job[r].p
            next == [job[r] EXCEPT !.step = "settle.commit", !.dates = nights[b]]
<1>1. /\ job[r] \in Job /\ b \in Booking /\ p \in Payment /\ BookingOf[p] = b
      /\ job[r].step = "settle.tx"
  BY AtBooking DEF SettleTx, At, OnPayment
<1>2. UNCHANGED <<booking, nights, calendar>>
  BY DEF SettleTx
<1>3. CASE \E k : GoesOff(r, k)
  BY <1>1, <1>2, <1>3, GoesOffTearsNot, SellsNothingKeeps DEF SellsNothing, NightsInOrder, SalesInOrder
<1>4. CASE CanConfirm(b) /\ Go(r, next)
  <2>1. next.step = "settle.commit" /\ next.b = b /\ next.dates = nights[b] /\ nights[b] = StayOf[b]
    BY <1>1, <1>4 DEF Job, CanConfirm, NightsInOrder, AllOrNothing
  <2>. HIDE DEF next
  <2>2. PICK k : k.step = "settle.commit" /\ k.b = b /\ k.dates = nights[b] /\ Go(r, k)
    BY <1>4, <2>1
  <2>3. SettleKnows(k) /\ FreesBooked(k)
    BY <2>1, <2>2 DEF SettleKnows, FreesBooked
  <2>. QED BY <1>1, <1>2, <2>1, <2>2, <2>3, CommitsNext
<1>5. /\ Resume(job[r]).step \notin Commits /\ NoJob.step \notin Commits
      /\ Unconfirmed(job[r]).step \notin Commits
  BY <1>1, ResumeElsewhere DEF NoJob, Unconfirmed, Commits, Job
<1>. QED BY <1>1, <1>3, <1>4, <1>5 DEF SettleTx, Stop, GoesOff

\* A release's first step frees the booked nights among those it read, and
\* knows all that are left to delete.
LEMMA ReleaseTxSells ==
  ASSUME NightsInOrder, ConstantsOK, Typed', SalesInOrder, NEW r \in Request,
         ExpireTx(r) \/ CancelTx(r)
  PROVE  SalesInOrder' /\ DatesStep
<1>1. /\ job[r] \in Job /\ job[r].b \in Booking /\ nights[job[r].b] \subseteq job[r].dates
  BY AtBooking DEF ExpireTx, CancelTx, At, NightsInOrder, JobsInOrder, KnowsRows, Releases
<1>2. PICK step \in {"expire.commit", "cancel.commit"} :
        Go(r, [job[r] EXCEPT !.step = step, !.freed = ToRelease(job[r].dates)])
  BY DEF ExpireTx, CancelTx
<1>. DEFINE next == [job[r] EXCEPT !.step = step, !.freed = ToRelease(job[r].dates)]
<1>3. next.step = step /\ next.b = job[r].b /\ next.freed = ToRelease(job[r].dates) /\ Go(r, next)
  BY <1>1, <1>2 DEF Job
<1>. HIDE DEF next
<1>4. PICK k : k.step = step /\ k.b = job[r].b /\ k.freed = ToRelease(job[r].dates) /\ Go(r, k)
  BY <1>3
<1>5. SettleKnows(k) /\ FreesBooked(k)
  BY <1>1, <1>4 DEF SettleKnows, FreesBooked, ToRelease
<1>6. UNCHANGED <<booking, nights, calendar>>
  BY DEF ExpireTx, CancelTx, rows
<1>. QED BY <1>1, <1>4, <1>5, <1>6, CommitsNext

\* The settlement's writes are a Sell: the nights are held, or torn.
LEMMA SettleCommitSells ==
  ASSUME NightsInOrder, ConstantsOK, Typed', SalesInOrder, NEW r \in Request, SettleCommit(r)
  PROVE  SalesInOrder' /\ DatesStep
<1>. DEFINE b == job[r].b
<1>1. /\ job[r] \in Job /\ b \in Booking /\ BookingOf[job[r].p] = b
      /\ job[r].step = "settle.commit"
      /\ job[r].dates \subseteq StayOf[b]
      /\ b \in torn \/ (nights[b] = StayOf[b] /\ job[r].dates = StayOf[b])
  BY AtBooking DEF SettleCommit, At, OnPayment, SalesInOrder, SettleKnows
<1>2. /\ \A c \in Booking : booking'[c] = IF c = b THEN "CONFIRMED" ELSE booking[c]
      /\ \A d \in Date : calendar'[d] = "BOOKED" => d \in job[r].dates \/ calendar[d] = "BOOKED"
      /\ UNCHANGED nights
  BY <1>1 DEF SettleCommit, NightsInOrder, Typed, TypeOK
<1>3. UNCHANGED torn /\ TornKnown' /\ \A q \in Request : job'[q] = job[q] \/ job'[q].step \notin Commits
  BY <1>1, GoesOffTearsNot, ResumeElsewhere DEF SettleCommit, GoesOff, SalesInOrder, NightsInOrder
<1>4. OnlyTornLoseNights'
  BY <1>1, <1>2, <1>3 DEF SalesInOrder, OnlyTornLoseNights
<1>5. BookedMeansHeld'
  BY <1>1, <1>2, <1>3 DEF SalesInOrder, BookedMeansHeld
<1>6. ASSUME NEW q \in Request PROVE SettleKnows(job[q])' /\ FreesBooked(job[q])'
  <2>1. CASE job'[q].step \notin Commits
    BY <2>1 DEF SettleKnows, FreesBooked, Commits
  <2>2. CASE job'[q] = job[q] /\ job[q].step = "settle.commit"
    BY <1>2, <1>3, <2>2 DEF SalesInOrder, SettleKnows, FreesBooked
  <2>3. CASE job'[q] = job[q] /\ job[q].step \in {"cancel.commit", "expire.commit"}
    <3>. DEFINE c == job[q].b
    <3>1. c \in Booking /\ nights[c] \subseteq Date /\ nights[c] \subseteq StayOf[c]
      BY <2>3, AtBooking DEF NightsInOrder, Typed, TypeOK, AllOrNothing
    <3>2. c = b => b \in torn
      BY <1>1, <2>3 DEF SalesInOrder, TornKnown, Torn, Releasing, Confirming, At
    <3>3. ASSUME NEW d \in nights[c], d \in job[r].dates PROVE TornStay(d)
      BY <1>1, <3>1, <3>2, <3>3 DEF TornStay, NightsInOrder, NightHeldOnce
    <3>4. ASSUME NEW d \in nights[c], calendar'[d] = "BOOKED" PROVE d \in job[q].freed \/ TornStay(d)
      <4>1. d \in Date
        BY <3>1
      <4>2. CASE d \in job[r].dates
        BY <3>3, <4>2
      <4>3. CASE calendar[d] = "BOOKED"
        BY <2>3, <4>3 DEF SalesInOrder, FreesBooked
      <4>. QED BY <1>2, <3>4, <4>1, <4>2, <4>3
    <3>. QED BY <1>2, <1>3, <2>3, <3>4 DEF SettleKnows, FreesBooked, TornStay
  <2>. QED BY <1>3, <2>1, <2>2, <2>3 DEF Commits
<1>7. Sold' = Sold \union {b}
  BY <1>1, <1>2 DEF Sold
<1>8. DatesStep
  BY <1>1, <1>2, <1>3, <1>7 DEF DatesStep, Dates!Next, Dates!Sell
<1>. QED BY <1>3, <1>4, <1>5, <1>6, <1>8 DEF SalesInOrder

\* A release's commit is a Release: the nights go, and those that were booked
\* are free again.
LEMMA ReleaseCommitSells ==
  ASSUME NightsInOrder, ConstantsOK, Typed', SalesInOrder, NEW r \in Request,
         ExpireCommit(r) \/ CancelCommit(r)
  PROVE  SalesInOrder' /\ DatesStep
<1>. DEFINE b == job[r].b
<1>1. /\ job[r] \in Job /\ b \in Booking
      /\ job[r].step \in {"cancel.commit", "expire.commit"}
      /\ nights[b] \subseteq Date
  BY AtBooking DEF ExpireCommit, CancelCommit, At, NightsInOrder, Typed, TypeOK
<1>2. /\ \A c \in Booking : nights'[c] = IF c = b THEN {} ELSE nights[c]
      /\ \A d \in Date : calendar'[d] = IF d \in job[r].freed THEN "AVAILABLE" ELSE calendar[d]
      /\ \A c \in Booking \ {b} : booking'[c] = booking[c]
      /\ booking'[b] \in {"CANCELLED", "EXPIRED"}
  BY <1>1 DEF ExpireCommit, CancelCommit, NightsDeleted, Released, NightsInOrder, Typed, TypeOK
<1>3. \E k : GoesOff(r, k)
  <2>1. [job[r] EXCEPT !.freed = {}] \in Job
    BY <1>1 DEF Job
  <2>2. Resume([job[r] EXCEPT !.freed = {}]).step \notin Commits
    BY <2>1, ResumeElsewhere
  <2>3. \A step \in {"refund.request", "cancel.payments"} :
          [job[r] EXCEPT !.freed = {}, !.step = step].step \notin Commits
    BY <1>1 DEF Job, Commits
  <2>. QED BY <2>2, <2>3 DEF ExpireCommit, CancelCommit, GoesOff
<1>4. UNCHANGED torn /\ TornKnown' /\ \A q \in Request : job'[q] = job[q] \/ job'[q].step \notin Commits
  BY <1>3, GoesOffTearsNot DEF SalesInOrder, NightsInOrder
<1>5. OnlyTornLoseNights'
  BY <1>2, <1>4 DEF SalesInOrder, OnlyTornLoseNights
<1>6. BookedMeansHeld'
  <2>1. ASSUME NEW d \in nights[b], d \notin job[r].freed, calendar[d] = "BOOKED" PROVE TornStay(d)
    BY <1>1, <2>1 DEF SalesInOrder, FreesBooked
  <2>. QED BY <1>1, <1>2, <1>4, <2>1 DEF SalesInOrder, BookedMeansHeld, TornStay,
                                         NightsInOrder, Typed, TypeOK
<1>7. ASSUME NEW q \in Request PROVE SettleKnows(job[q])' /\ FreesBooked(job[q])'
  <2>1. CASE job'[q].step \notin Commits
    BY <2>1 DEF SettleKnows, FreesBooked, Commits
  <2>2. CASE job'[q] = job[q] /\ job[q].step = "settle.commit"
    <3>1. job[q].b \in Booking /\ SettleKnows(job[q])
      BY <2>2, AtBooking DEF SalesInOrder
    <3>2. job[q].b = b => b \in torn
      BY <1>1, <2>2 DEF SalesInOrder, TornKnown, Torn, Releasing, Confirming, At
    <3>. QED BY <1>2, <1>4, <2>2, <3>1, <3>2 DEF SettleKnows, FreesBooked
  <2>3. CASE job'[q] = job[q] /\ job[q].step \in {"cancel.commit", "expire.commit"}
    <3>1. job[q].b \in Booking /\ FreesBooked(job[q]) /\ nights[job[q].b] \subseteq Date
      BY <2>3, AtBooking DEF SalesInOrder, NightsInOrder, Typed, TypeOK
    <3>. QED BY <1>2, <1>4, <2>3, <3>1 DEF SettleKnows, FreesBooked, TornStay
  <2>. QED BY <1>4, <2>1, <2>2, <2>3 DEF Commits
<1>8. Sold' = Sold \ {b}
  BY <1>2 DEF Sold
<1>9. DatesStep
  <2>1. nights' = [nights EXCEPT ![b] = {}]
    BY DEF ExpireCommit, CancelCommit, NightsDeleted
  <2>. QED BY <1>1, <1>4, <1>8, <2>1 DEF DatesStep, Dates!Next, Dates!Release
<1>. QED BY <1>4, <1>5, <1>6, <1>7, <1>9 DEF SalesInOrder

-----------------------------------------------------------------------------
(* Every other action sells nothing, or takes nights nobody holds.         *)

\* A creation is a Hold of the abstract inventory, or nothing.
LEMMA CreateInsertSells ==
  ASSUME NightsInOrder, ConstantsOK, Typed', SalesInOrder, NEW r \in Request, CreateInsert(r)
  PROVE  SalesInOrder' /\ DatesStep
<1>. DEFINE b == job[r].b
<1>1. /\ b \in Booking /\ booking[b] = "none" /\ nights[b] = {}
      /\ \A q \in Request \ {r} : job[q].b # b
  BY DEF CreateInsert, At, NightsInOrder, Typed, JobsSound, JobSound, JobsInOrder, CreatesAlone,
         UnbornHasNothing
<1>2. UNCHANGED torn /\ TornKnown' /\ \A q \in Request : job'[q] = job[q] \/ job'[q].step \notin Commits
  BY GoesOffTearsNot DEF CreateInsert, Stop, NoJob, GoesOff, Commits, SalesInOrder, NightsInOrder
<1>3. CASE UNCHANGED <<booking, nights>>
  BY <1>1, <1>2, <1>3, SellsNothingKeeps DEF CreateInsert, SellsNothing, NightsInOrder
<1>4. CASE /\ NightsUnique(b)
           /\ booking' = [booking EXCEPT ![b] = "PENDING"]
           /\ nights' = [nights EXCEPT ![b] = StayOf[b]]
  <2>1. /\ booking'[b] = "PENDING" /\ nights'[b] = StayOf[b]
        /\ \A c \in Booking \ {b} : booking'[c] = booking[c] /\ nights'[c] = nights[c]
        /\ UNCHANGED calendar
    BY <1>1, <1>4 DEF CreateInsert, NightsInOrder, Typed, TypeOK
  <2>2. OnlyTornLoseNights' /\ BookedMeansHeld'
    BY <1>1, <1>2, <2>1 DEF SalesInOrder, OnlyTornLoseNights, BookedMeansHeld
  <2>3. ASSUME NEW q \in Request PROVE SettleKnows(job[q])' /\ FreesBooked(job[q])'
    <3>1. CASE job'[q].step \notin Commits
      BY <3>1 DEF SettleKnows, FreesBooked, Commits
    <3>2. CASE job'[q] = job[q] /\ job[q].step \in Commits
      <4>1. q # r
        BY <3>2 DEF CreateInsert, At, Commits
      <4>2. job[q].b \in Booking \ {b} /\ SettleKnows(job[q]) /\ FreesBooked(job[q])
        BY <1>1, <3>2, <4>1, AtBooking DEF SalesInOrder, Commits
      <4>. QED BY <1>2, <2>1, <3>2, <4>2 DEF SettleKnows, FreesBooked, TornStay
    <3>. QED BY <1>2, <3>1, <3>2
  <2>4. Sold' = Sold
    BY <1>1, <2>1 DEF Sold
  <2>5. \A c \in Booking : StayOf[b] \intersect nights[c] = {}
    BY <1>1, <1>4 DEF NightsUnique, HeldByOthers
  <2>6. Dates!Hold(b)
    BY <1>1, <1>2, <1>4, <2>4, <2>5 DEF Dates!Hold, Dates!Free
  <2>. QED BY <1>1, <1>2, <2>2, <2>3, <2>6 DEF SalesInOrder, DatesStep, Dates!Next
<1>. QED BY <1>3, <1>4 DEF CreateInsert

\* The statements that change one booking to something else than confirmed,
\* or only the calendar, or neither.
LEMMA OtherWorkSells ==
  ASSUME NightsInOrder, ConstantsOK, Typed', SalesInOrder, NEW r \in Request,
         \/ SettleRefused(r) \/ FailWrite(r) \/ ExpireRead(r)
         \/ OrderRead(r) \/ OrderTx(r) \/ CancelPayments(r)
         \/ RefundRequest(r) \/ RefundAccepted(r) \/ RefundFailed(r) \/ RefundDone(r)
         \/ RefundRefused(r) \/ RefundReplyLost(r)
         \/ CompleteWrite(r) \/ DeleteWrite(r)
  PROVE  SalesInOrder' /\ DatesStep
<1>. DEFINE b == job[r].b
<1>1. /\ b \in Booking /\ job[r] \in Job
      /\ job[r].step \in OnPayment => BookingOf[job[r].p] = b /\ job[r].p \in Payment
  BY AtBooking DEF SettleRefused, FailWrite, ExpireRead, OrderRead, OrderTx, CancelPayments,
       RefundRequest, RefundAccepted, RefundFailed, RefundDone, RefundRefused, RefundReplyLost,
       CompleteWrite, DeleteWrite, At
<1>2. UNCHANGED <<nights, calendar>>
  BY DEF SettleRefused, FailWrite, ExpireRead, OrderRead, OrderTx, CancelPayments,
       RefundRequest, RefundAccepted, RefundFailed, RefundDone, RefundRefused, RefundReplyLost,
       CompleteWrite, DeleteWrite, rows
<1>3. \/ UNCHANGED booking
      \/ \E s \in {"PAYMENT_PENDING", "REFUNDED", "COMPLETED"} : booking' = [booking EXCEPT ![b] = s]
  BY <1>1 DEF SettleRefused, FailWrite, ExpireRead, OrderRead, OrderTx, CancelPayments,
       RefundRequest, RefundAccepted, RefundFailed, RefundDone, RefundRefused, RefundReplyLost,
       CompleteWrite, DeleteWrite, Finalize, At, OnPayment, rows
<1>4. \E k : GoesOff(r, k)
  <2>1. Resume(job[r]).step \notin Commits /\ NoJob.step \notin Commits
    BY <1>1, ResumeElsewhere DEF NoJob, Commits
  <2>2. CASE ~(ExpireRead(r) \/ OrderRead(r) \/ RefundRequest(r))
    BY <2>1, <2>2 DEF SettleRefused, FailWrite, OrderTx, CancelPayments, RefundAccepted,
         RefundFailed, RefundDone, RefundRefused, RefundReplyLost, CompleteWrite, DeleteWrite,
         Stop, GoesOff
  <2>3. CASE ExpireRead(r)
    <3>1. [job[r] EXCEPT !.step = "expire.tx", !.dates = nights[b]].step \notin Commits
      BY <1>1 DEF Job, Commits
    <3>2. \A p \in PaymentsOf(b) : StartSettle(job[r], p).step \notin Commits
      BY <1>1, <2>1 DEF StartSettle, Job, Commits
    <3>. QED BY <2>1, <2>3, <3>1, <3>2 DEF ExpireRead, Answered, GoesOff
  <2>4. CASE OrderRead(r)
    <3>1. [job[r] EXCEPT !.step = "order.tx", !.seen = booking[b]].step \notin Commits
      BY <1>1 DEF Job, Commits
    <3>. QED BY <2>1, <2>4, <3>1 DEF OrderRead, Stop, GoesOff
  <2>5. CASE RefundRequest(r)
    <3>1. \A p : [job[r] EXCEPT !.step = "refund.gateway", !.p = p].step \notin Commits
      BY <1>1 DEF Job, Commits
    <3>. QED BY <2>1, <2>5, <3>1 DEF RefundRequest, GoesOff
  <2>. QED BY <2>2, <2>3, <2>4, <2>5
<1>5. UNCHANGED torn /\ TornKnown' /\ \A q \in Request : job'[q] = job[q] \/ job'[q].step \notin Commits
  BY <1>4, GoesOffTearsNot DEF SalesInOrder, NightsInOrder
<1>6. SellsNothing
  BY <1>1, <1>2, <1>3, <1>5 DEF SellsNothing, NightsInOrder, Typed, TypeOK
<1>. QED BY <1>5, <1>6, SellsNothingKeeps DEF NightsInOrder

\* What begins is at no commit yet.
LEMMA BeginGoesOff ==
  ASSUME ConstantsOK, NEW r \in Request, Begin(r)
  PROVE  UNCHANGED work \/ \E k : GoesOff(r, k)
<1>1. ASSUME NEW b \in Booking, NEW step \in Step \ Commits, Go(r, NewJob(step, b))
      PROVE  \E k : GoesOff(r, k)
  <2>1. NewJob(step, b).step = step
    BY <1>1, NewJobSound
  <2>. QED BY <1>1, <2>1 DEF GoesOff
<1>2. ASSUME NEW j \in Job, NEW p \in Payment, j.step \notin Commits
      PROVE  /\ StartSettle(j, p).step \notin Commits
             /\ StartFail(j, p).step \notin Commits
             /\ Reconciled(j, p).step \notin Commits
  BY <1>2, ResumeElsewhere DEF StartSettle, StartFail, Reconciled, NoJob, Job, Commits
<1>3. ASSUME NEW b \in Booking, NEW then \in Then, Recover(r, b, then)
      PROVE  \E k : GoesOff(r, k)
  <2>. DEFINE j == [NewJob("idle", b) EXCEPT !.then = then]
  <2>1. j \in Job /\ j.step \notin Commits
    BY DEF NewJob, NoJob, Job, Step, Then, Commits
  <2>. HIDE DEF j
  <2>2. PICK known \in Answered(OpenPayments(b)) :
          IF known = {} THEN Go(r, Resume(j))
          ELSE \E p \in known : Go(r, Reconciled(j, p))
    BY <1>3 DEF Recover, j
  <2>3. known \subseteq Payment
    BY <2>2 DEF Answered, OpenPayments, PaymentsOf
  <2>. QED BY <1>2, <2>1, <2>2, <2>3, ResumeElsewhere DEF GoesOff
<1>4. ASSUME NEW b \in Booking, NEW then \in Then, StartCancel(r, b, then)
      PROVE  \E k : GoesOff(r, k)
  <2>. DEFINE k == [NewJob("cancel.tx", b) EXCEPT !.then = then, !.seen = booking[b],
                                                  !.dates = nights[b]]
  <2>1. k.step = "cancel.tx"
    BY DEF NewJob, NoJob
  <2>2. Go(r, k)
    BY <1>4 DEF StartCancel
  <2>. HIDE DEF k
  <2>. QED BY <2>1, <2>2 DEF GoesOff, Commits
<1>5. ASSUME NEW b \in Booking, \/ CreateCheck(r, b) \/ CreateOrder(r, b) \/ Poll(r, b)
                                \/ Sweep(r, b) \/ Cancel(r, b) \/ AdminCancel(r, b)
                                \/ AdminRefund(r, b) \/ Complete(r, b)
      PROVE  \E k : GoesOff(r, k)
  BY <1>1, <1>3, <1>4, <1>5 DEF CreateCheck, CreateOrder, Poll, Sweep, Cancel, AdminCancel,
       AdminRefund, Complete, Step, Then, Commits
<1>6. ASSUME NEW p \in Payment, ReportOrder(r, p) \/ VerifyCheckout(r, p)
      PROVE  \E k : GoesOff(r, k)
  <2>1. NewJob("idle", BookingOf[p]) \in Job /\ NewJob("idle", BookingOf[p]).step \notin Commits
    BY DEF NewJob, NoJob, Job, Step, Then, Commits, ConstantsOK
  <2>. QED BY <1>2, <1>6, <2>1 DEF ReportOrder, VerifyCheckout, GoesOff
<1>7. ASSUME NEW p \in Payment, DeletePayment(r, p) PROVE \E k : GoesOff(r, k)
  <2>. DEFINE k == [NewJob("delete.write", BookingOf[p]) EXCEPT !.p = p]
  <2>1. k.step = "delete.write"
    BY DEF NewJob, NoJob
  <2>2. Go(r, k)
    BY <1>7 DEF DeletePayment
  <2>. HIDE DEF k
  <2>. QED BY <2>1, <2>2 DEF GoesOff, Commits
<1>8. ASSUME NEW p \in Payment, RefundReport(r, p) PROVE UNCHANGED work
  BY <1>8 DEF RefundReport
<1>9. ASSUME NEW d \in Date, Block(r, d) \/ Unblock(r, d)
      PROVE  UNCHANGED work \/ \E k : GoesOff(r, k)
  <2>. DEFINE k == [NoJob EXCEPT !.step = "block.write", !.dates = {d}]
  <2>1. k.step = "block.write"
    BY DEF NoJob
  <2>2. UNCHANGED work \/ Go(r, k)
    BY <1>9 DEF Block, Unblock
  <2>. HIDE DEF k
  <2>. QED BY <2>1, <2>2 DEF GoesOff, Commits
<1>. QED BY <1>5, <1>6, <1>7, <1>8, <1>9 DEF Begin

\* The rest writes the calendar at most, or is a late refund report.
LEMMA StartSells ==
  ASSUME NightsInOrder, ConstantsOK, Typed', SalesInOrder,
         \/ World \/ UNCHANGED vars
         \/ \E r \in Request : Begin(r) \/ Die(r) \/ Deadlock(r) \/ BlockWrite(r)
  PROVE  SalesInOrder' /\ DatesStep
<1>1. UNCHANGED work \/ \E r \in Request : \E k : GoesOff(r, k)
  <2>1. CASE World \/ UNCHANGED vars
    BY <2>1 DEF World, Pay, OrderFails, PaybackEnds, HoldElapses, DayPasses, vars, work
  <2>2. ASSUME NEW r \in Request, Die(r) \/ Deadlock(r) \/ BlockWrite(r)
        PROVE  \E q \in Request : \E k : GoesOff(q, k)
    BY <2>2 DEF Die, Deadlock, Confirming, BlockWrite, Stop, NoJob, GoesOff, Commits
  <2>. QED BY <2>1, <2>2, BeginGoesOff
<1>2. UNCHANGED torn /\ TornKnown' /\ \A q \in Request : job'[q] = job[q] \/ job'[q].step \notin Commits
  BY <1>1, GoesOffTearsNot DEF SalesInOrder, NightsInOrder
<1>3. UNCHANGED nights /\ \A d \in Date : calendar'[d] = "BOOKED" => calendar[d] = "BOOKED"
  <2>1. ASSUME NEW r \in Request, Begin(r)
        PROVE  UNCHANGED nights /\ \A d \in Date : calendar'[d] = "BOOKED" => calendar[d] = "BOOKED"
    <3>1. ASSUME NEW d \in Date, Unblock(r, d)
          PROVE  UNCHANGED nights /\ \A e \in Date : calendar'[e] = "BOOKED" => calendar[e] = "BOOKED"
      BY <3>1 DEF Unblock, NightsInOrder, Typed, TypeOK
    <3>2. CASE UNCHANGED <<nights, calendar>>
      BY <3>2
    <3>. QED BY <2>1, <3>1, <3>2 DEF Begin, CreateCheck, CreateOrder, Poll, Sweep, Cancel,
           AdminCancel, StartCancel, AdminRefund, Complete, ReportOrder, VerifyCheckout,
           DeletePayment, RefundReport, Block, rows
  <2>. QED BY <2>1 DEF World, Pay, OrderFails, PaybackEnds, HoldElapses, DayPasses, Die, Deadlock,
                       BlockWrite, rows, vars
<1>4. \/ UNCHANGED booking
      \/ \E b \in Booking : booking' = [booking EXCEPT ![b] = "REFUNDED"]
  <2>1. ASSUME NEW r \in Request, Begin(r)
        PROVE  \/ UNCHANGED booking
               \/ \E b \in Booking : booking' = [booking EXCEPT ![b] = "REFUNDED"]
    <3>1. ASSUME NEW p \in Payment, RefundReport(r, p)
          PROVE  \/ UNCHANGED booking
                 \/ \E b \in Booking : booking' = [booking EXCEPT ![b] = "REFUNDED"]
      <4>1. BookingOf[p] \in Booking
        BY DEF ConstantsOK
      <4>. QED BY <3>1, <4>1 DEF RefundReport, Finalize
    <3>. QED BY <2>1, <3>1 DEF Begin, CreateCheck, CreateOrder, Poll, Sweep, Cancel, AdminCancel,
           StartCancel, AdminRefund, Complete, ReportOrder, VerifyCheckout, DeletePayment, Block,
           Unblock, rows
  <2>. QED BY <2>1 DEF World, Pay, OrderFails, PaybackEnds, HoldElapses, DayPasses, Die, Deadlock,
                       BlockWrite, rows, vars
<1>5. CASE Booking = {}
  BY <1>2, <1>3, <1>5 DEF SalesInOrder, OnlyTornLoseNights, BookedMeansHeld, SettleKnows,
       FreesBooked, TornStay, DatesStep, Sold, Commits, NightsInOrder, Typed, TypeOK, JobsSound,
       JobSound
<1>6. CASE Booking # {}
  <2>1. SellsNothing
    BY <1>2, <1>3, <1>4, <1>6 DEF SellsNothing, NightsInOrder, Typed, TypeOK
  <2>. QED BY <1>2, <2>1, SellsNothingKeeps DEF NightsInOrder
<1>. QED BY <1>5, <1>6

-----------------------------------------------------------------------------
\* A step of the engine keeps the sales in order and is one of the inventory.
LEMMA NextSells ==
  ASSUME NightsInOrder, ConstantsOK, SalesInOrder, [Next]_vars
  PROVE  SalesInOrder' /\ DatesStep
<1>1. Typed'
  BY NextTyped DEF NightsInOrder
<1>2. ASSUME NEW r \in Request, Work(r) PROVE SalesInOrder' /\ DatesStep
  BY <1>1, <1>2, CreateInsertSells, SettleTxSells, SettleCommitSells, ReleaseTxSells,
     ReleaseCommitSells, OtherWorkSells, StartSells DEF Work
<1>. QED BY <1>1, <1>2, StartSells DEF Next

\* At first nothing is sold, and nothing torn.
LEMMA InitSells == Init => SalesInOrder /\ Dates!Init
BY DEF Init, SalesInOrder, TornKnown, Torn, Releasing, Confirming, At, NoJob, SettleKnows,
       FreesBooked, OnlyTornLoseNights, BookedMeansHeld, Dates!Init, Sold

\* A confirmed booking holds every night of its stay, unless a settlement and
\* a release of it were in flight together.
THEOREM ConfirmedHold == Spec => []OnlyTornLoseNights
<1>1. NightsInOrder /\ SalesInOrder /\ [Next]_vars => SalesInOrder'
  BY ConstantsOK, NextSells
<1>2. SalesInOrder => OnlyTornLoseNights
  BY DEF SalesInOrder
<1>. QED BY <1>1, <1>2, InitSells, AlwaysInOrder, PTL DEF Spec

\* No date stays marked as booked that nobody holds, a torn stay's excepted.
THEOREM BookedAreHeld == Spec => []BookedMeansHeld
<1>1. NightsInOrder /\ SalesInOrder /\ [Next]_vars => SalesInOrder'
  BY ConstantsOK, NextSells
<1>2. SalesInOrder => BookedMeansHeld
  BY DEF SalesInOrder
<1>. QED BY <1>1, <1>2, InitSells, AlwaysInOrder, PTL DEF Spec

\* The engine sells its dates as the abstract inventory does: every step of
\* every handler is one of the inventory's, or none.
THEOREM EngineSellsDates == Spec => SellsDates
<1>1. NightsInOrder /\ SalesInOrder /\ [Next]_vars
        => SalesInOrder' /\ [Dates!Next]_<<nights, Sold, torn>>
  BY ConstantsOK, NextSells DEF DatesStep
<1>. QED BY <1>1, InitSells, AlwaysInOrder, PTL DEF Spec, SellsDates, Dates!Spec

-----------------------------------------------------------------------------
(***************************************************************************)
(* Why money and bookings agree: nothing is confirmed unpaid, nothing is   *)
(* refunded that was not captured, no refund is recorded that was not paid *)
(* out, and what was captured stays on record.                             *)
(*                                                                         *)
(* What makes it inductive is what the handlers carry: a settlement and a  *)
(* refund are only ever under way for an order the gateway was paid for    *)
(* (KnowsPaid), and a refund row is at the gateway for one handler only    *)
(* (RefundsAlone).                                                         *)
(***************************************************************************)

\* The gateway has the money for one of b's orders.
WasPaid(b) == \E p \in Payment : BookingOf[p] = b /\ order[p] = "PAID"

\* A settlement or refund under way is of a paid order; a stay that is
\* being completed was paid for.
KnowsPaid(j) ==
  /\ j.step \in {"settle.tx", "settle.commit", "refund.gateway"} => order[j.p] = "PAID"
  /\ j.step = "refund.request" /\ j.p # None => order[j.p] = "PAID"
  /\ j.step = "complete.write" => WasPaid(j.b)

\* The refund row a handler is at the gateway for is its own.
RefundsAlone(r) ==
  At(r, "refund.gateway") =>
    /\ refund[job[r].p] = "REQUESTED"
    /\ \A q \in Request \ {r} : At(q, "refund.gateway") => job[q].p # job[r].p

\* A payment recorded as captured was captured.
SettledIsPaid == \A p \in Payment : payment[p] \in SettledPayment => order[p] = "PAID"

\* OneOpenPayment, without counting.
OpenIsAlone ==
  \A p, q \in Payment :
    payment[p] \in OpenPayment /\ payment[q] \in OpenPayment /\ BookingOf[p] = BookingOf[q]
      => p = q

MoneyInOrder ==
  /\ SettledIsPaid
  /\ ConfirmedWasPaid
  /\ OpenIsAlone
  /\ RefundsAreReal
  /\ CouponWithinLimit
  /\ \A r \in Request : KnowsPaid(job[r]) /\ RefundsAlone(r)

-----------------------------------------------------------------------------
(* What every action leaves alone, and what follows from that.             *)

PaidStays == \A p \in Payment : order[p] = "PAID" => order'[p] = "PAID"

\* No payment is newly settled or opened, no refund moves.
NoMoneyMoves ==
  /\ PaidStays
  /\ UNCHANGED <<refund, payback>>
  /\ \A p \in Payment :
       /\ payment'[p] \in SettledPayment =>
            \/ payment'[p] = payment[p]
            \/ order[p] = "PAID" /\ payment'[p] # "REFUNDED"
       /\ payment'[p] \in OpenPayment => payment[p] \in OpenPayment
  /\ \A b \in Booking : booking'[b] \in {"CONFIRMED", "COMPLETED"} =>
                          booking'[b] = booking[b] \/ WasPaid(b)
  /\ redeemed' <= CouponMax

\* A handler that goes on, other than to the gateway for a refund.
GoesOn(r, k) == Go(r, k) /\ KnowsPaid(k) /\ k.step # "refund.gateway"

\* What a handler knows about a paid order stays true.
LEMMA KnowsPaidStays ==
  ASSUME PaidStays, NEW j, JobSound(j), KnowsPaid(j)
  PROVE  KnowsPaid(j)'
<1>1. WasPaid(j.b) => WasPaid(j.b)'
  BY DEF WasPaid, PaidStays
<1>. QED BY <1>1 DEF KnowsPaid, PaidStays, JobSound, OnPayment

\* Jobs that go on, while refunds at the gateway are left alone.
LEMMA GoesOnKeeps ==
  ASSUME MoneyInOrder, Typed, Typed', PaidStays,
         \/ UNCHANGED job
         \/ \E r \in Request : \E k : GoesOn(r, k),
         \A q \in Request : At(q, "refund.gateway") /\ job'[q] = job[q]
                              => refund'[job[q].p] = refund[job[q].p]
  PROVE  \A r \in Request : KnowsPaid(job[r])' /\ RefundsAlone(r)'
<1>1. ASSUME NEW q \in Request, job'[q] = job[q]
      PROVE  KnowsPaid(job[q])'
  <2>1. JobSound(job[q]) /\ KnowsPaid(job[q])
    BY DEF Typed, JobsSound, MoneyInOrder
  <2>2. ASSUME NEW j, j = job[q] PROVE KnowsPaid(j)'
    BY <2>1, <2>2, KnowsPaidStays
  <2>3. PICK j : j = job[q]
    OBVIOUS
  <2>4. KnowsPaid(j)' /\ j = job'[q]
    BY <1>1, <2>2, <2>3
  <2>. QED BY <2>4 DEF KnowsPaid, WasPaid
<1>2. ASSUME NEW q \in Request, job'[q] = job[q],
             \A s \in Request : job'[s] = job[s] \/ job'[s].step # "refund.gateway"
      PROVE  RefundsAlone(q)'
  BY <1>2 DEF MoneyInOrder, RefundsAlone, At
<1>3. CASE UNCHANGED job
  BY <1>1, <1>2, <1>3
<1>4. ASSUME NEW r \in Request, NEW k, GoesOn(r, k)
      PROVE  \A q \in Request : KnowsPaid(job[q])' /\ RefundsAlone(q)'
  <2>1. job'[r] = k /\ \A q \in Request \ {r} : job'[q] = job[q]
    BY <1>4 DEF GoesOn, Go, Typed, TypeOK
  <2>2. JobSound(k)
    BY <2>1 DEF Typed, JobsSound
  <2>3. KnowsPaid(k)'
    BY <1>4, <2>2, KnowsPaidStays DEF GoesOn
  <2>4. KnowsPaid(job[r])'
    BY <2>1, <2>3 DEF KnowsPaid, WasPaid
  <2>5. RefundsAlone(r)'
    BY <1>4, <2>1 DEF RefundsAlone, At, GoesOn
  <2>. QED BY <1>1, <1>2, <1>4, <2>1, <2>4, <2>5 DEF GoesOn
<1>. QED BY <1>3, <1>4

\* A step that moves no money, by a handler that goes on.
LEMMA NoMoneyMovesKeeps ==
  ASSUME MoneyInOrder, Typed, Typed', NoMoneyMoves,
         \/ UNCHANGED job
         \/ \E r \in Request : \E k : GoesOn(r, k)
  PROVE  MoneyInOrder'
<1>1. SettledIsPaid' /\ OpenIsAlone'
  BY DEF MoneyInOrder, SettledIsPaid, OpenIsAlone, NoMoneyMoves, PaidStays
<1>2. ConfirmedWasPaid'
  <2>1. ASSUME NEW b \in Booking, booking'[b] \in {"CONFIRMED", "COMPLETED"} PROVE WasPaid(b)
    BY <2>1 DEF NoMoneyMoves, MoneyInOrder, ConfirmedWasPaid, WasPaid
  <2>2. \A b \in Booking : WasPaid(b) => WasPaid(b)'
    BY DEF WasPaid, NoMoneyMoves, PaidStays
  <2>. QED BY <2>1, <2>2 DEF ConfirmedWasPaid, WasPaid
<1>3. RefundsAreReal'
  BY DEF RefundsAreReal, NoMoneyMoves, PaidStays, MoneyInOrder, SettledPayment
<1>4. CouponWithinLimit'
  BY DEF CouponWithinLimit, NoMoneyMoves
<1>5. \A r \in Request : KnowsPaid(job[r])' /\ RefundsAlone(r)'
  BY GoesOnKeeps DEF NoMoneyMoves
<1>. QED BY <1>1, <1>2, <1>3, <1>4, <1>5 DEF MoneyInOrder

-----------------------------------------------------------------------------
(* The jobs the handlers go on with know their order is paid.              *)

\* Where a handler resumes, it is neither settling nor refunding.
LEMMA ResumeKnows ==
  ASSUME NEW j \in Job
  PROVE  KnowsPaid(Resume(j)) /\ Resume(j).step # "refund.gateway"
<1>1. CASE j.then = "end"
  BY <1>1 DEF Resume, KnowsPaid, NoJob
<1>2. CASE j.then \in {"expire", "expire+order", "order"}
  BY <1>2 DEF Resume, KnowsPaid, Job
<1>3. CASE j.then = "block"
  BY <1>3 DEF Resume, KnowsPaid, Job
<1>. QED BY <1>1, <1>2, <1>3 DEF Job, Then

\* A settlement starts for a paid order only.
LEMMA ReconciledKnows ==
  ASSUME NEW j \in Job, NEW p \in Payment
  PROVE  /\ order[p] = "PAID" => KnowsPaid(StartSettle(j, p))
         /\ KnowsPaid(StartFail(j, p))
         /\ KnowsPaid(Reconciled(j, p))
         /\ StartSettle(j, p).step # "refund.gateway"
         /\ StartFail(j, p).step # "refund.gateway"
         /\ Reconciled(j, p).step # "refund.gateway"
<1>1. /\ order[p] = "PAID" => KnowsPaid(StartSettle(j, p))
      /\ StartSettle(j, p).step # "refund.gateway"
  BY ResumeKnows DEF StartSettle, KnowsPaid, Job
<1>2. KnowsPaid(StartFail(j, p)) /\ StartFail(j, p).step # "refund.gateway"
  BY ResumeKnows DEF StartFail, KnowsPaid, NoJob, Job
<1>. QED BY <1>1, <1>2, ResumeKnows DEF Reconciled, Captured

-----------------------------------------------------------------------------
(* Every action keeps it.                                                  *)

\* A handler that only goes on.
LEMMA OnlyGoesOn ==
  ASSUME MoneyInOrder, Typed, Typed', NEW r \in Request, NEW k, GoesOn(r, k),
         UNCHANGED <<rows, gateway>>
  PROVE  MoneyInOrder'
<1>1. booking' = booking /\ payment' = payment /\ refund' = refund /\ redeemed' = redeemed
  BY DEF rows
<1>2. order' = order /\ payback' = payback
  BY DEF gateway
<1>3. redeemed <= CouponMax
  BY DEF MoneyInOrder, CouponWithinLimit
<1>4. NoMoneyMoves
  BY <1>1, <1>2, <1>3 DEF NoMoneyMoves, PaidStays
<1>. QED BY <1>4, NoMoneyMovesKeeps

\* A handler that begins has moved no money yet.
LEMMA BeginKeepsMoney ==
  ASSUME MoneyInOrder, Typed, Typed', ConstantsOK, NEW r \in Request, Begin(r),
         \A p \in Payment : ~RefundReport(r, p)
  PROVE  MoneyInOrder'
<1>1. ASSUME NEW b \in Booking, NEW step \in Step, Go(r, NewJob(step, b)),
             step \notin {"settle.tx", "settle.commit", "refund.gateway", "complete.write"},
             UNCHANGED <<rows, gateway>>
      PROVE  MoneyInOrder'
  <2>1. GoesOn(r, NewJob(step, b))
    BY <1>1, NewJobSound DEF GoesOn, KnowsPaid, NewJob, NoJob
  <2>. QED BY <1>1, <2>1, OnlyGoesOn
<1>2. ASSUME NEW b \in Booking, CreateCheck(r, b) \/ Sweep(r, b) \/ AdminRefund(r, b)
      PROVE  MoneyInOrder'
  BY <1>1, <1>2 DEF CreateCheck, Sweep, AdminRefund, Step
<1>3. ASSUME NEW b \in Booking, NEW then \in Then, Recover(r, b, then), UNCHANGED <<rows, gateway>>
      PROVE  MoneyInOrder'
  <2>. DEFINE j == [NewJob("idle", b) EXCEPT !.then = then]
  <2>1. NewJob("idle", b) \in Job
    BY NewJobSound DEF Step
  <2>2. j \in Job
    BY <2>1 DEF Job
  <2>. HIDE DEF j
  <2>3. PICK known \in Answered(OpenPayments(b)) :
          IF known = {} THEN Go(r, Resume(j))
          ELSE \E p \in known : Go(r, Reconciled(j, p))
    BY <1>3 DEF Recover, j
  <2>4. known \subseteq Payment
    BY <2>3 DEF Answered, OpenPayments, PaymentsOf
  <2>5. \E k : GoesOn(r, k)
    BY <2>2, <2>3, <2>4, ResumeKnows, ReconciledKnows DEF GoesOn
  <2>. QED BY <1>3, <2>5, OnlyGoesOn
<1>4. ASSUME NEW b \in Booking, CreateOrder(r, b) \/ Poll(r, b) PROVE MoneyInOrder'
  BY <1>3, <1>4 DEF CreateOrder, Poll, Then
<1>5. ASSUME NEW b \in Booking, NEW then \in Then, StartCancel(r, b, then) PROVE MoneyInOrder'
  <2>. DEFINE k == [NewJob("cancel.tx", b) EXCEPT !.then = then, !.seen = booking[b],
                                                  !.dates = nights[b]]
  <2>1. KnowsPaid(k) /\ k.step # "refund.gateway"
    BY DEF KnowsPaid, NewJob, NoJob
  <2>2. Go(r, k) /\ UNCHANGED <<rows, gateway>>
    BY <1>5 DEF StartCancel
  <2>. HIDE DEF k
  <2>3. \E j : GoesOn(r, j)
    BY <2>1, <2>2 DEF GoesOn
  <2>. QED BY <2>2, <2>3, OnlyGoesOn
<1>6. ASSUME NEW b \in Booking, Cancel(r, b) \/ AdminCancel(r, b) PROVE MoneyInOrder'
  BY <1>5, <1>6 DEF Cancel, AdminCancel, Then
<1>7. ASSUME NEW b \in Booking, Complete(r, b) PROVE MoneyInOrder'
  <2>1. booking[b] \in {"CONFIRMED", "COMPLETED"}
    BY <1>7 DEF Complete, BookingMay, BookingTransitions, BookingStatus, Typed, TypeOK
  <2>2. WasPaid(b)
    BY <2>1 DEF MoneyInOrder, ConfirmedWasPaid, WasPaid
  <2>3. GoesOn(r, NewJob("complete.write", b))
    BY <1>7, <2>2 DEF Complete, GoesOn, KnowsPaid, NewJob, NoJob
  <2>. QED BY <1>7, <2>3, OnlyGoesOn DEF Complete
<1>8. ASSUME NEW p \in Payment, ReportOrder(r, p) \/ VerifyCheckout(r, p) PROVE MoneyInOrder'
  <2>1. NewJob("idle", BookingOf[p]) \in Job
    BY NewJobSound DEF Step, ConstantsOK
  <2>. DEFINE j == NewJob("idle", BookingOf[p])
  <2>. HIDE DEF j
  <2>2. /\ KnowsPaid(Reconciled(j, p)) /\ KnowsPaid(StartFail(j, p))
        /\ Captured(p) => KnowsPaid(StartSettle(j, p))
        /\ Reconciled(j, p).step # "refund.gateway" /\ StartFail(j, p).step # "refund.gateway"
        /\ StartSettle(j, p).step # "refund.gateway"
    BY <2>1, ReconciledKnows DEF Captured, j
  <2>3. \/ Go(r, Reconciled(j, p)) \/ Go(r, StartFail(j, p))
        \/ Captured(p) /\ Go(r, StartSettle(j, p))
    BY <1>8 DEF ReportOrder, VerifyCheckout, j
  <2>4. \E k : GoesOn(r, k)
    BY <2>2, <2>3 DEF GoesOn
  <2>. QED BY <1>8, <2>4, OnlyGoesOn DEF ReportOrder, VerifyCheckout
<1>9. ASSUME NEW p \in Payment, DeletePayment(r, p) PROVE MoneyInOrder'
  <2>. DEFINE k == [NewJob("delete.write", BookingOf[p]) EXCEPT !.p = p]
  <2>1. GoesOn(r, k)
    BY <1>9 DEF DeletePayment, GoesOn, KnowsPaid, NewJob, NoJob
  <2>. HIDE DEF k
  <2>. QED BY <1>9, <2>1, OnlyGoesOn DEF DeletePayment
<1>10. ASSUME NEW d \in Date, Block(r, d) PROVE MoneyInOrder'
  <2>. DEFINE k == [NoJob EXCEPT !.step = "block.write", !.dates = {d}]
  <2>1. GoesOn(r, k)
    BY <1>10 DEF Block, GoesOn, KnowsPaid, NoJob
  <2>. HIDE DEF k
  <2>. QED BY <1>10, <2>1, OnlyGoesOn DEF Block
<1>11. ASSUME NEW d \in Date, Unblock(r, d) PROVE MoneyInOrder'
  <2>0. redeemed <= CouponMax
    BY DEF MoneyInOrder, CouponWithinLimit
  <2>1. NoMoneyMoves
    BY <1>11, <2>0 DEF Unblock, NoMoneyMoves, PaidStays, gateway
  <2>. QED BY <1>11, <2>1, NoMoneyMovesKeeps DEF Unblock, work
<1>. QED BY <1>2, <1>4, <1>6, <1>7, <1>8, <1>9, <1>10, <1>11 DEF Begin

\* Statements after which the handler goes on, or another one is aborted.
LEMMA WorkGoesOn ==
  ASSUME MoneyInOrder, Typed, ConstantsOK, NEW r \in Request,
         \/ CreateInsert(r) \/ SettleRefused(r) \/ SettleTx(r) \/ SettleCommit(r) \/ FailWrite(r)
         \/ ExpireRead(r) \/ ExpireTx(r) \/ ExpireCommit(r) \/ OrderRead(r)
         \/ CancelTx(r) \/ CancelCommit(r) \/ CancelPayments(r) \/ Deadlock(r)
         \/ CompleteWrite(r) \/ BlockWrite(r) \/ DeleteWrite(r) \/ Die(r)
  PROVE  \E q \in Request : \E k : GoesOn(q, k)
<1>. DEFINE b == job[r].b
            p == job[r].p
<1>1. /\ JobSound(job[r]) /\ job[r] \in Job /\ KnowsPaid(job[r])
      /\ KnowsPaid(Resume(job[r])) /\ Resume(job[r]).step # "refund.gateway"
      /\ KnowsPaid(NoJob) /\ NoJob.step # "refund.gateway"
  BY ResumeKnows DEF Typed, TypeOK, JobsSound, MoneyInOrder, KnowsPaid, NoJob
<1>2. CASE \/ CreateInsert(r) \/ SettleRefused(r) \/ CompleteWrite(r) \/ BlockWrite(r)
           \/ DeleteWrite(r) \/ Deadlock(r) \/ Die(r)
  BY <1>1, <1>2 DEF CreateInsert, SettleRefused, CompleteWrite, BlockWrite, DeleteWrite, Deadlock,
                    Confirming, Die, Stop, GoesOn
<1>3. CASE SettleTx(r)
  <2>1. KnowsPaid(Unconfirmed(job[r])) /\ Unconfirmed(job[r]).step # "refund.gateway"
    BY <1>1, <1>3 DEF SettleTx, At, Unconfirmed, KnowsPaid, Job
  <2>. DEFINE k == [job[r] EXCEPT !.step = "settle.commit", !.dates = nights[BookingOf[p]]]
  <2>2. KnowsPaid(k) /\ k.step # "refund.gateway"
    BY <1>1, <1>3 DEF SettleTx, At, KnowsPaid, Job
  <2>3. Go(r, Resume(job[r])) \/ Go(r, NoJob) \/ Go(r, Unconfirmed(job[r])) \/ Go(r, k)
    BY <1>3 DEF SettleTx, Stop
  <2>. HIDE DEF k
  <2>. QED BY <1>1, <2>1, <2>2, <2>3 DEF GoesOn
<1>4. CASE SettleCommit(r) \/ FailWrite(r) \/ CancelPayments(r)
  BY <1>1, <1>4 DEF SettleCommit, FailWrite, CancelPayments, Stop, GoesOn
<1>5. CASE ExpireRead(r)
  <2>. DEFINE k == [job[r] EXCEPT !.step = "expire.tx", !.dates = nights[b]]
  <2>1. KnowsPaid(k) /\ k.step # "refund.gateway"
    BY <1>1 DEF KnowsPaid, Job
  <2>2. ASSUME NEW q \in PaymentsOf(b), Captured(q)
        PROVE  KnowsPaid(StartSettle(job[r], q)) /\ StartSettle(job[r], q).step # "refund.gateway"
    BY <1>1, <2>2, ReconciledKnows DEF PaymentsOf, Captured
  <2>3. CASE booking[b] \in AwaitingPayment /\ b \in aged
    <3>1. PICK known \in Answered(PaymentsOf(b)) :
            LET paid == {q \in known : Captured(q)} IN
            IF paid = {} THEN Go(r, k) ELSE \E q \in paid : Go(r, StartSettle(job[r], q))
      BY <1>5, <2>3 DEF ExpireRead
    <3>2. known \subseteq PaymentsOf(b)
      BY <3>1 DEF Answered
    <3>. HIDE DEF k
    <3>. QED BY <2>1, <2>2, <3>1, <3>2 DEF GoesOn
  <2>4. CASE ~(booking[b] \in AwaitingPayment /\ b \in aged)
    BY <1>1, <1>5, <2>4 DEF ExpireRead, GoesOn
  <2>. QED BY <2>3, <2>4
<1>6. CASE OrderRead(r)
  <2>. DEFINE k == [job[r] EXCEPT !.step = "order.tx", !.seen = booking[b]]
  <2>1. KnowsPaid(k) /\ k.step # "refund.gateway"
    BY <1>1 DEF KnowsPaid, Job
  <2>2. Go(r, k) \/ Go(r, NoJob)
    BY <1>6 DEF OrderRead, Stop
  <2>. HIDE DEF k
  <2>. QED BY <1>1, <2>1, <2>2 DEF GoesOn
<1>7. ASSUME NEW step \in {"expire.commit", "cancel.commit"},
             Go(r, [job[r] EXCEPT !.step = step, !.freed = ToRelease(job[r].dates)])
      PROVE  \E k : GoesOn(r, k)
  <2>. DEFINE k == [job[r] EXCEPT !.step = step, !.freed = ToRelease(job[r].dates)]
  <2>1. KnowsPaid(k) /\ k.step # "refund.gateway"
    BY <1>1 DEF KnowsPaid, Job
  <2>. HIDE DEF k
  <2>2. Go(r, k)
    BY <1>7 DEF k
  <2>. QED BY <2>1, <2>2 DEF GoesOn
<1>8. CASE ExpireTx(r) \/ CancelTx(r)
  BY <1>7, <1>8 DEF ExpireTx, CancelTx
<1>9. CASE ExpireCommit(r)
  <2>1. [job[r] EXCEPT !.freed = {}] \in Job
    BY <1>1 DEF Job
  <2>. QED BY <1>9, <2>1, ResumeKnows DEF ExpireCommit, GoesOn
<1>10. CASE CancelCommit(r)
  <2>1. job[r].p = None
    BY <1>1, <1>10 DEF CancelCommit, At, JobSound
  <2>2. ASSUME NEW step \in {"refund.request", "cancel.payments"},
               Go(r, [job[r] EXCEPT !.freed = {}, !.step = step])
        PROVE  \E k : GoesOn(r, k)
    <3>. DEFINE k == [job[r] EXCEPT !.freed = {}, !.step = step]
    <3>1. KnowsPaid(k) /\ k.step # "refund.gateway"
      BY <1>1, <2>1 DEF KnowsPaid, Job
    <3>. HIDE DEF k
    <3>2. Go(r, k)
      BY <2>2 DEF k
    <3>. QED BY <3>1, <3>2 DEF GoesOn
  <2>. QED BY <1>10, <2>2 DEF CancelCommit
<1>. QED BY <1>2, <1>3, <1>4, <1>5, <1>6, <1>8, <1>9, <1>10

\* Those statements move no money but what the gateway was paid.
LEMMA WorkKeepsMoney ==
  ASSUME MoneyInOrder, Typed, Typed', ConstantsOK, NEW r \in Request,
         \/ CreateInsert(r) \/ SettleRefused(r) \/ SettleTx(r) \/ SettleCommit(r) \/ FailWrite(r)
         \/ ExpireRead(r) \/ ExpireTx(r) \/ ExpireCommit(r) \/ OrderRead(r)
         \/ CancelTx(r) \/ CancelCommit(r) \/ CancelPayments(r) \/ Deadlock(r)
         \/ CompleteWrite(r) \/ BlockWrite(r) \/ DeleteWrite(r) \/ Die(r)
  PROVE  MoneyInOrder'
<1>. DEFINE p == job[r].p
<1>1. JobSound(job[r]) /\ KnowsPaid(job[r])
  BY DEF Typed, JobsSound, MoneyInOrder
<1>2. redeemed <= CouponMax /\ redeemed \in Nat /\ CouponMax \in Nat
  BY DEF MoneyInOrder, CouponWithinLimit, Typed, TypeOK, ConstantsOK
<1>3. CASE SettleRefused(r) \/ ExpireRead(r) \/ ExpireTx(r) \/ OrderRead(r) \/ CancelTx(r)
           \/ Deadlock(r) \/ Die(r)
  <2>1. UNCHANGED <<rows, gateway>>
    BY <1>3 DEF SettleRefused, ExpireRead, ExpireTx, OrderRead, CancelTx, Deadlock, Die
  <2>. QED BY <1>3, <2>1, WorkGoesOn, OnlyGoesOn
<1>4. CASE \/ CreateInsert(r) \/ SettleTx(r) \/ SettleCommit(r) \/ FailWrite(r) \/ ExpireCommit(r)
           \/ CancelCommit(r) \/ CancelPayments(r)
           \/ CompleteWrite(r) \/ BlockWrite(r) \/ DeleteWrite(r)
  <2>1. UNCHANGED <<order, refund, payback>>
    BY <1>4 DEF CreateInsert, SettleTx, SettleCommit, FailWrite, ExpireCommit, CancelCommit,
                CancelPayments, CompleteWrite, BlockWrite, DeleteWrite, gateway
  <2>2. ASSUME SettleTx(r) \/ SettleCommit(r)
        PROVE  NoMoneyMoves
    <3>1. p \in Payment /\ order[p] = "PAID"
      BY <1>1, <2>2 DEF SettleTx, SettleCommit, At, JobSound, OnPayment, KnowsPaid
    <3>2. payment' = payment \/ payment' = [payment EXCEPT ![p] = "SUCCESS"]
      BY <2>2 DEF SettleTx, SettleCommit
    <3>3. \A q \in Payment : payment'[q] = payment[q] \/ (q = p /\ payment'[q] = "SUCCESS")
      BY <3>2 DEF Typed, TypeOK
    <3>4. \A c \in Booking : booking'[c] = booking[c] \/ c = BookingOf[p]
      BY <2>2 DEF SettleTx, SettleCommit, Typed, TypeOK
    <3>5. \A c \in Booking : booking'[c] = booking[c] \/ WasPaid(c)
      BY <3>1, <3>4 DEF WasPaid
    <3>6. redeemed' = redeemed
      BY <2>2 DEF SettleTx, SettleCommit
    <3>7. /\ "SUCCESS" # "REFUNDED" /\ "SUCCESS" \notin OpenPayment
      BY DEF OpenPayment
    <3>. QED BY <1>2, <2>1, <3>1, <3>3, <3>5, <3>6, <3>7 DEF NoMoneyMoves, PaidStays
  <2>3. ASSUME FailWrite(r) \/ ExpireCommit(r) \/ CancelPayments(r) \/ DeleteWrite(r)
        PROVE  NoMoneyMoves
    <3>1. \A q \in Payment : \/ payment'[q] = payment[q]
                             \/ payment'[q] \in {"FAILED", "EXPIRED", "CANCELLED", "none"}
      BY <2>3 DEF FailWrite, ExpireCommit, CancelPayments, DeleteWrite, Typed, TypeOK
    <3>2. \A c \in Booking : booking'[c] = booking[c] \/ booking'[c] = "EXPIRED"
      BY <2>3 DEF FailWrite, ExpireCommit, CancelPayments, DeleteWrite, Typed, TypeOK
    <3>3. redeemed' = redeemed
      BY <2>3 DEF FailWrite, ExpireCommit, CancelPayments, DeleteWrite
    <3>. QED BY <1>2, <2>1, <3>1, <3>2, <3>3
             DEF NoMoneyMoves, PaidStays, SettledPayment, OpenPayment
  <2>4. ASSUME CreateInsert(r) \/ CancelCommit(r) \/ CompleteWrite(r) \/ BlockWrite(r)
        PROVE  NoMoneyMoves
    <3>1. payment' = payment
      BY <2>4 DEF CreateInsert, CancelCommit, CompleteWrite, BlockWrite
    <3>2. ASSUME NEW c \in Booking, booking'[c] \in {"CONFIRMED", "COMPLETED"}
          PROVE  booking'[c] = booking[c] \/ WasPaid(c)
      BY <1>1, <2>4, <3>2 DEF CreateInsert, CancelCommit, CompleteWrite, BlockWrite, At, KnowsPaid,
                              Typed, TypeOK
    <3>3. redeemed' <= CouponMax
      <4>1. CASE CreateInsert(r)
        BY <1>2, <4>1 DEF CreateInsert, CouponLeft
      <4>2. CASE CancelCommit(r)
        BY <1>2, <4>2 DEF CancelCommit, GiveBack
      <4>. QED BY <1>2, <2>4, <4>1, <4>2 DEF CompleteWrite, BlockWrite
    <3>. QED BY <2>1, <3>1, <3>2, <3>3 DEF NoMoneyMoves, PaidStays
  <2>5. NoMoneyMoves
    BY <1>4, <2>2, <2>3, <2>4
  <2>. QED BY <1>4, <2>5, WorkGoesOn, NoMoneyMovesKeeps
<1>. QED BY <1>3, <1>4

\* A new order: the only open payment of its booking, whose lock is held.
LEMMA OrderKeepsMoney ==
  ASSUME MoneyInOrder, Typed, Typed', NEW r \in Request, OrderTx(r)
  PROVE  MoneyInOrder'
<1>. DEFINE b == job[r].b
<1>1. /\ redeemed' = redeemed /\ refund' = refund /\ payback' = payback
      /\ GoesOn(r, NoJob)
  BY DEF OrderTx, Stop, GoesOn, KnowsPaid, NoJob
<1>2. CASE HasOpenOrder(b) \/ UNCHANGED <<booking, payment, order>>
  <2>1. UNCHANGED <<booking, payment, order>>
    BY <1>2 DEF OrderTx
  <2>2. redeemed <= CouponMax
    BY DEF MoneyInOrder, CouponWithinLimit
  <2>3. NoMoneyMoves
    BY <1>1, <2>1, <2>2 DEF NoMoneyMoves, PaidStays
  <2>. QED BY <1>1, <2>3, NoMoneyMovesKeeps
<1>3. CASE ~HasOpenOrder(b) /\ ~UNCHANGED <<booking, payment, order>>
  <2>1. PICK p \in Payment :
          /\ BookingOf[p] = b /\ order[p] = "none"
          /\ order' = [order EXCEPT ![p] = "ACTIVE"]
          /\ payment' = [payment EXCEPT ![p] = "PENDING"]
          /\ booking' = IF job[r].seen = "PENDING"
                          THEN [booking EXCEPT ![b] = "PAYMENT_PENDING"] ELSE booking
    BY <1>3 DEF OrderTx
  <2>2. \A q \in Payment : BookingOf[q] = b => payment[q] \notin OpenPayment
    BY <1>3 DEF HasOpenOrder, OpenPayments, PaymentsOf, OpenPayment
  <2>3. /\ payment'[p] = "PENDING" /\ order'[p] = "ACTIVE"
        /\ \A q \in Payment \ {p} : payment'[q] = payment[q] /\ order'[q] = order[q]
    BY <2>1 DEF Typed, TypeOK
  <2>4. PaidStays
    BY <2>1, <2>3 DEF PaidStays
  <2>5. SettledIsPaid'
    BY <2>3 DEF SettledIsPaid, MoneyInOrder, SettledPayment
  <2>6. OpenIsAlone'
    BY <2>1, <2>2, <2>3 DEF OpenIsAlone, MoneyInOrder
  <2>7. ConfirmedWasPaid'
    <3>1. \A c \in Booking : booking'[c] = booking[c] \/ booking'[c] = "PAYMENT_PENDING"
      BY <2>1 DEF Typed, TypeOK
    <3>2. ASSUME NEW c \in Booking, booking[c] \in {"CONFIRMED", "COMPLETED"}
          PROVE  \E q \in Payment : BookingOf[q] = c /\ order'[q] = "PAID"
      BY <2>4, <3>2 DEF MoneyInOrder, ConfirmedWasPaid, PaidStays
    <3>. QED BY <3>1, <3>2 DEF ConfirmedWasPaid
  <2>8. RefundsAreReal'
    BY <1>1, <2>1, <2>3, <2>4 DEF RefundsAreReal, MoneyInOrder, PaidStays
  <2>9. CouponWithinLimit'
    BY <1>1 DEF CouponWithinLimit, MoneyInOrder
  <2>10. \A q \in Request : KnowsPaid(job[q])' /\ RefundsAlone(q)'
    BY <1>1, <2>4, GoesOnKeeps
  <2>. QED BY <2>5, <2>6, <2>7, <2>8, <2>9, <2>10 DEF MoneyInOrder
<1>. QED BY <1>2, <1>3

\* A step of one payment's refund, whose order is paid, that leaves every
\* handler's knowledge true.
LEMMA RefundMoves ==
  ASSUME MoneyInOrder, Typed, Typed', NEW p \in Payment, order[p] = "PAID",
         UNCHANGED <<order, redeemed>>,
         \A q \in Payment \ {p} : /\ payment'[q] = payment[q]
                                  /\ refund'[q] = refund[q]
                                  /\ payback'[q] = payback[q],
         \/ payment'[p] \in {"REFUND_PENDING", "REFUND_FAILED"}
         \/ payment'[p] = payment[p] /\ payment[p] # "REFUNDED"
         \/ payment'[p] = "REFUNDED" /\ refund'[p] = "COMPLETED",
         refund'[p] = "COMPLETED" => payback'[p] = "DONE",
         \A b \in Booking : booking'[b] = booking[b] \/ booking'[b] = "REFUNDED",
         \A r \in Request : KnowsPaid(job[r])' /\ RefundsAlone(r)'
  PROVE  MoneyInOrder'
<1>1. SettledIsPaid'
  BY DEF SettledIsPaid, MoneyInOrder
<1>2. OpenIsAlone'
  <2>1. \A q \in Payment : payment'[q] \in OpenPayment => payment[q] \in OpenPayment
    BY DEF OpenPayment
  <2>. QED BY <2>1 DEF OpenIsAlone, MoneyInOrder
<1>3. ConfirmedWasPaid'
  BY DEF ConfirmedWasPaid, MoneyInOrder
<1>4. RefundsAreReal'
  BY DEF RefundsAreReal, MoneyInOrder
<1>5. CouponWithinLimit'
  BY DEF CouponWithinLimit, MoneyInOrder
<1>. QED BY <1>1, <1>2, <1>3, <1>4, <1>5 DEF MoneyInOrder

\* requestRefundForBooking takes the refund row for itself alone.
LEMMA RequestKeepsMoney ==
  ASSUME MoneyInOrder, Typed, Typed', NEW r \in Request, RefundRequest(r)
  PROVE  MoneyInOrder'
<1>1. JobSound(job[r]) /\ KnowsPaid(job[r]) /\ At(r, "refund.request") /\ job[r] \in Job
  BY DEF Typed, TypeOK, JobsSound, MoneyInOrder, RefundRequest
<1>2. CASE Go(r, Resume(job[r])) /\ UNCHANGED <<payment, refund>>
  <2>1. GoesOn(r, Resume(job[r]))
    BY <1>1, <1>2, ResumeKnows DEF GoesOn
  <2>2. UNCHANGED <<rows, gateway>>
    BY <1>2 DEF RefundRequest, rows, gateway
  <2>. QED BY <2>1, <2>2, OnlyGoesOn
<1>3. CASE ~(Go(r, Resume(job[r])) /\ UNCHANGED <<payment, refund>>)
  <2>1. PICK p \in Refundable(job[r]) :
          /\ refund[p] \notin OpenRefund \union {"COMPLETED"}
          /\ refund' = [refund EXCEPT ![p] = "REQUESTED"]
          /\ payment' = [payment EXCEPT ![p] = "REFUND_PENDING"]
          /\ Go(r, [job[r] EXCEPT !.step = "refund.gateway", !.p = p])
    BY <1>3 DEF RefundRequest
  <2>2. p \in Payment /\ order[p] = "PAID"
    BY <1>1, <2>1 DEF Refundable, PaymentsOf, JobSound, KnowsPaid, At, MoneyInOrder,
                      SettledIsPaid, SettledPayment
  <2>3. /\ job'[r].step = "refund.gateway" /\ job'[r].p = p
        /\ \A q \in Request \ {r} : job'[q] = job[q]
        /\ UNCHANGED <<order, redeemed, booking, payback>>
    <3>1. job' = [job EXCEPT ![r] = [job[r] EXCEPT !.step = "refund.gateway", !.p = p]]
      BY <2>1 DEF Go
    <3>2. job'[r] = [job[r] EXCEPT !.step = "refund.gateway", !.p = p]
      BY <3>1 DEF Typed, TypeOK
    <3>3. job'[r].step = "refund.gateway" /\ job'[r].p = p
      BY <1>1, <3>2 DEF Job
    <3>4. \A q \in Request \ {r} : job'[q] = job[q]
      BY <3>1 DEF Typed, TypeOK
    <3>5. UNCHANGED <<order, redeemed, booking, payback>>
      BY DEF RefundRequest, gateway
    <3>. QED BY <3>3, <3>4, <3>5
  <2>4. /\ refund'[p] = "REQUESTED" /\ payment'[p] = "REFUND_PENDING"
        /\ \A q \in Payment \ {p} : payment'[q] = payment[q] /\ refund'[q] = refund[q]
    BY <2>1, <2>2 DEF Typed, TypeOK
  <2>5. ASSUME NEW q \in Request PROVE KnowsPaid(job[q])'
    <3>1. CASE q = r
      BY <2>2, <2>3, <3>1 DEF KnowsPaid
    <3>2. CASE q # r
      <4>1. KnowsPaid(job[q]) /\ job'[q] = job[q] /\ UNCHANGED order
        BY <2>3, <3>2 DEF MoneyInOrder
      <4>. QED BY <4>1 DEF KnowsPaid, WasPaid
    <3>. QED BY <3>1, <3>2
  <2>6. ASSUME NEW q \in Request \ {r}, At(q, "refund.gateway")
        PROVE  job[q].p # p /\ job[q].p \in Payment
    BY <2>1, <2>6 DEF MoneyInOrder, RefundsAlone, OpenRefund, Typed, JobsSound, JobSound, At, OnPayment
  <2>7. ASSUME NEW q \in Request PROVE RefundsAlone(q)'
    <3>1. CASE q = r
      BY <2>3, <2>4, <2>6, <3>1 DEF RefundsAlone, At
    <3>2. CASE q # r
      BY <2>3, <2>4, <2>6, <3>2 DEF RefundsAlone, At, MoneyInOrder
    <3>. QED BY <3>1, <3>2
  <2>. QED BY <2>2, <2>3, <2>4, <2>5, <2>7, RefundMoves
<1>. QED BY <1>2, <1>3

\* What becomes of a refund at the gateway is recorded by the one handler
\* that brought it there.
LEMMA RefundKeepsMoney ==
  ASSUME MoneyInOrder, Typed, Typed', NEW r \in Request,
         \/ RefundAccepted(r) \/ RefundFailed(r) \/ RefundDone(r)
         \/ RefundRefused(r) \/ RefundReplyLost(r)
  PROVE  MoneyInOrder'
<1>. DEFINE p == job[r].p
<1>1. /\ JobSound(job[r]) /\ job[r] \in Job /\ KnowsPaid(job[r]) /\ RefundsAlone(r)
      /\ At(r, "refund.gateway")
  BY DEF Typed, TypeOK, JobsSound, MoneyInOrder, RefundAccepted, RefundFailed, RefundDone,
         RefundRefused, RefundReplyLost
<1>2. p \in Payment /\ order[p] = "PAID" /\ refund[p] = "REQUESTED"
  BY <1>1 DEF JobSound, OnPayment, KnowsPaid, RefundsAlone, At
<1>3. payment[p] # "REFUNDED"
  BY <1>2 DEF MoneyInOrder, RefundsAreReal
<1>4. \E k : GoesOn(r, k)
  <2>1. /\ KnowsPaid(Resume(job[r])) /\ Resume(job[r]).step # "refund.gateway"
        /\ KnowsPaid(NoJob) /\ NoJob.step # "refund.gateway"
    BY <1>1, ResumeKnows DEF KnowsPaid, NoJob
  <2>2. Go(r, Resume(job[r])) \/ Go(r, NoJob)
    BY DEF RefundAccepted, RefundFailed, RefundDone, RefundRefused, RefundReplyLost, Stop
  <2>. QED BY <2>1, <2>2 DEF GoesOn
<1>5. UNCHANGED <<order, redeemed>>
  BY DEF RefundAccepted, RefundFailed, RefundDone, RefundRefused, RefundReplyLost, gateway, rows
<1>6. \A q \in Payment \ {p} : /\ payment'[q] = payment[q]
                               /\ refund'[q] = refund[q]
                               /\ payback'[q] = payback[q]
  <2>1. CASE RefundAccepted(r) \/ RefundFailed(r)
    BY <2>1 DEF RefundAccepted, RefundFailed, Accepted, Typed, TypeOK
  <2>2. CASE RefundDone(r)
    BY <2>2 DEF RefundDone, Finalize, Typed, TypeOK
  <2>3. CASE RefundRefused(r)
    BY <2>3 DEF RefundRefused, gateway, Typed, TypeOK
  <2>4. CASE RefundReplyLost(r)
    BY <2>4 DEF RefundReplyLost, rows, Typed, TypeOK
  <2>. QED BY <2>1, <2>2, <2>3, <2>4
<1>7. /\ \/ payment'[p] = "REFUND_FAILED"
         \/ payment'[p] = payment[p]
         \/ payment'[p] = "REFUNDED" /\ refund'[p] = "COMPLETED"
      /\ refund'[p] = "COMPLETED" => payback'[p] = "DONE"
      /\ \A b \in Booking : booking'[b] = booking[b] \/ booking'[b] = "REFUNDED"
  <2>1. CASE RefundAccepted(r) \/ RefundFailed(r)
    BY <1>2, <2>1 DEF RefundAccepted, RefundFailed, Accepted, Typed, TypeOK
  <2>2. CASE RefundDone(r)
    BY <1>2, <2>2 DEF RefundDone, Finalize, Typed, TypeOK
  <2>3. CASE RefundRefused(r)
    BY <1>2, <2>3 DEF RefundRefused, Typed, TypeOK
  <2>4. CASE RefundReplyLost(r)
    BY <1>2, <2>4 DEF RefundReplyLost, rows
  <2>. QED BY <2>1, <2>2, <2>3, <2>4
<1>8. \A q \in Request : KnowsPaid(job[q])' /\ RefundsAlone(q)'
  <2>1. ASSUME NEW q \in Request, At(q, "refund.gateway"), job'[q] = job[q]
        PROVE  refund'[job[q].p] = refund[job[q].p]
    <3>1. q # r
      BY <1>1, <1>4, <2>1 DEF GoesOn, Go, At, Typed, TypeOK
    <3>2. job[q].p # p /\ job[q].p \in Payment
      BY <1>1, <2>1, <3>1 DEF RefundsAlone, Typed, JobsSound, JobSound, OnPayment, At
    <3>. QED BY <1>6, <3>2
  <2>2. PaidStays
    BY <1>5 DEF PaidStays
  <2>. QED BY <1>4, <2>1, <2>2, GoesOnKeeps
<1>. QED BY <1>2, <1>3, <1>5, <1>6, <1>7, <1>8, RefundMoves

\* completeRefundFromProvider finds a row no handler is at the gateway for.
LEMMA ReportKeepsMoney ==
  ASSUME MoneyInOrder, Typed, Typed', NEW r \in Request, NEW p \in Payment, RefundReport(r, p)
  PROVE  MoneyInOrder'
<1>1. refund[p] = "PROCESSING" /\ payment[p] # "REFUNDED" /\ order[p] = "PAID"
  BY DEF RefundReport, PaidBack, MoneyInOrder, RefundsAreReal
<1>2. UNCHANGED <<order, redeemed, job, payback>>
  BY DEF RefundReport, gateway, work
<1>3. \A q \in Payment \ {p} : payment'[q] = payment[q] /\ refund'[q] = refund[q]
  BY DEF RefundReport, Finalize, Typed, TypeOK
<1>4. /\ \/ payment'[p] = "REFUND_FAILED"
         \/ payment'[p] = "REFUNDED" /\ refund'[p] = "COMPLETED"
      /\ refund'[p] = "COMPLETED" => payback'[p] = "DONE"
      /\ \A b \in Booking : booking'[b] = booking[b] \/ booking'[b] = "REFUNDED"
  BY <1>2 DEF RefundReport, Finalize, PaidBack, Typed, TypeOK
<1>5. \A q \in Request : KnowsPaid(job[q])' /\ RefundsAlone(q)'
  <2>1. ASSUME NEW q \in Request, At(q, "refund.gateway")
        PROVE  refund'[job[q].p] = refund[job[q].p]
    <3>1. job[q].p # p /\ job[q].p \in Payment
      BY <1>1, <2>1 DEF MoneyInOrder, RefundsAlone, Typed, JobsSound, JobSound, OnPayment, At
    <3>. QED BY <1>3, <3>1
  <2>2. PaidStays
    BY <1>2 DEF PaidStays
  <2>. QED BY <1>2, <2>1, <2>2, GoesOnKeeps
<1>. QED BY <1>1, <1>2, <1>3, <1>4, <1>5, RefundMoves

\* The gateway only ever pays back what it was paid.
LEMMA WorldKeepsMoney ==
  ASSUME MoneyInOrder, Typed, Typed', World \/ UNCHANGED vars
  PROVE  MoneyInOrder'
<1>0. redeemed <= CouponMax
  BY DEF MoneyInOrder, CouponWithinLimit
<1>1. ASSUME NEW p \in Payment, Pay(p) \/ OrderFails(p)
      PROVE  MoneyInOrder'
  <2>1. PaidStays
    BY <1>1 DEF Pay, OrderFails, PaidStays, Typed, TypeOK
  <2>2. /\ booking' = booking /\ payment' = payment /\ refund' = refund /\ payback' = payback
        /\ redeemed' = redeemed /\ job' = job
    BY <1>1 DEF Pay, OrderFails, rows, work
  <2>3. NoMoneyMoves
    BY <1>0, <2>1, <2>2 DEF NoMoneyMoves
  <2>. QED BY <2>2, <2>3, NoMoneyMovesKeeps
<1>2. ASSUME NEW p \in Payment, PaybackEnds(p)
      PROVE  MoneyInOrder'
  <2>1. /\ booking' = booking /\ payment' = payment /\ refund' = refund /\ order' = order
        /\ redeemed' = redeemed /\ job' = job
    BY <1>2 DEF PaybackEnds, rows, work
  <2>2. order[p] = "PAID" /\ refund[p] # "COMPLETED" /\ payment[p] # "REFUNDED"
    BY <1>2 DEF PaybackEnds, MoneyInOrder, RefundsAreReal
  <2>3. \A q \in Payment \ {p} : payback'[q] = payback[q]
    BY <1>2 DEF PaybackEnds, Typed, TypeOK
  <2>4. PaidStays
    BY <2>1 DEF PaidStays
  <2>5. \A q \in Request : KnowsPaid(job[q])' /\ RefundsAlone(q)'
    BY <2>1, <2>4, GoesOnKeeps
  <2>. QED BY <2>1, <2>2, <2>3, <2>5, RefundMoves
<1>3. CASE DayPasses \/ (\E b \in Booking : HoldElapses(b)) \/ UNCHANGED vars
  <2>1. /\ booking' = booking /\ payment' = payment /\ refund' = refund /\ payback' = payback
        /\ redeemed' = redeemed /\ job' = job /\ order' = order
    BY <1>3 DEF DayPasses, HoldElapses, rows, gateway, work, vars
  <2>2. NoMoneyMoves
    BY <1>0, <2>1 DEF NoMoneyMoves, PaidStays
  <2>. QED BY <2>1, <2>2, NoMoneyMovesKeeps
<1>. QED BY <1>1, <1>2, <1>3 DEF World

-----------------------------------------------------------------------------
(* What holds of every behaviour.                                          *)

\* Every step keeps money in order.
LEMMA NextKeepsMoney ==
  ASSUME MoneyInOrder, Typed, ConstantsOK, [Next]_vars
  PROVE  MoneyInOrder'
<1>1. Typed'
  BY NextTyped
<1>2. ASSUME NEW r \in Request, Begin(r) PROVE MoneyInOrder'
  <2>1. CASE \E p \in Payment : RefundReport(r, p)
    BY <1>1, <2>1, ReportKeepsMoney
  <2>2. CASE \A p \in Payment : ~RefundReport(r, p)
    BY <1>1, <1>2, <2>2, BeginKeepsMoney
  <2>. QED BY <2>1, <2>2
<1>3. ASSUME NEW r \in Request, Work(r) PROVE MoneyInOrder'
  BY <1>1, <1>3, WorkKeepsMoney, OrderKeepsMoney, RequestKeepsMoney, RefundKeepsMoney DEF Work
<1>4. ASSUME NEW r \in Request, Die(r) PROVE MoneyInOrder'
  BY <1>1, <1>4, WorkKeepsMoney
<1>. QED BY <1>1, <1>2, <1>3, <1>4, WorldKeepsMoney DEF Next

\* At first there is no money.
LEMMA InitMoney == Init => MoneyInOrder
BY ConstantsOK
   DEF Init, MoneyInOrder, SettledIsPaid, SettledPayment, ConfirmedWasPaid, OpenIsAlone,
       OpenPayment, RefundsAreReal, CouponWithinLimit, KnowsPaid, RefundsAlone, At, NoJob

\* Money is always in order.
LEMMA MoneyAlwaysInOrder == Spec => []MoneyInOrder
<1>1. MoneyInOrder /\ TypeOK /\ JobsSound /\ [Next]_vars => MoneyInOrder'
  BY ConstantsOK, NextKeepsMoney DEF Typed
<1>. QED BY <1>1, InitMoney, TypesHold, PTL DEF Spec

\* No stay is ever confirmed or completed without captured money, whatever
\* settlements, failures, expiries and cancellations race for its payment.
THEOREM ConfirmedIsPaid == Spec => []ConfirmedWasPaid
BY MoneyAlwaysInOrder, PTL DEF MoneyInOrder

\* Only captured money is paid back, and nothing is recorded as refunded that
\* the gateway did not pay back.
THEOREM RefundsReal == Spec => []RefundsAreReal
BY MoneyAlwaysInOrder, PTL DEF MoneyInOrder

\* The coupon's limit holds however bookings race for it.
THEOREM CouponHolds == Spec => []CouponWithinLimit
BY MoneyAlwaysInOrder, PTL DEF MoneyInOrder

\* However many checkouts, settlements and expiries race, at most one payment
\* of a booking is open.
THEOREM OneOpens == Spec => []OneOpenPayment
<1>1. MoneyInOrder => OneOpenPayment
  BY DEF MoneyInOrder, OpenIsAlone, OneOpenPayment, PaymentsOf
<1>. QED BY <1>1, MoneyAlwaysInOrder, PTL

\* A payment on record as captured, once only.
CapturedKept ==
  \A p \in Payment : payment[p] \in SettledPayment =>
    payment'[p] \in SettledPayment \union {"FAILED", "none"}

\* No step forgets a captured payment but the two that write by id.
LEMMA NextKeepsCaptured ==
  ASSUME MoneyInOrder, Typed, [Next]_vars
  PROVE  CapturedKept
<1>1. ASSUME NEW p \in Payment, payment' = [payment EXCEPT ![p] = "SUCCESS"]
      PROVE  CapturedKept
  BY <1>1 DEF CapturedKept, SettledPayment, Typed, TypeOK
<1>2. ASSUME NEW p \in Payment, NEW s \in SettledPayment \union {"FAILED", "none"},
             \/ payment' = [payment EXCEPT ![p] = s]
             \/ payment' = payment
      PROVE  CapturedKept
  BY <1>2 DEF CapturedKept, SettledPayment, Typed, TypeOK
<1>3. CASE UNCHANGED payment
  BY <1>3 DEF CapturedKept
<1>4. ASSUME NEW r \in Request, OrderTx(r) PROVE CapturedKept
  <2>1. ASSUME NEW p \in Payment, order[p] = "none",
               payment' = [payment EXCEPT ![p] = "PENDING"]
        PROVE  CapturedKept
    <3>1. payment[p] \notin SettledPayment
      BY <2>1 DEF MoneyInOrder, SettledIsPaid
    <3>. QED BY <2>1, <3>1 DEF CapturedKept, Typed, TypeOK
  <2>. QED BY <1>3, <1>4, <2>1 DEF OrderTx
<1>5. ASSUME NEW r \in Request, ExpireCommit(r) \/ CancelPayments(r) PROVE CapturedKept
  BY <1>5 DEF ExpireCommit, CancelPayments, Unpaid, OpenPayments, OpenPayment, SettledPayment,
              CapturedKept
<1>6. ASSUME NEW r \in Request, job[r].p \in Payment,
             SettleTx(r) \/ SettleCommit(r) \/ FailWrite(r) \/ RefundDone(r) \/ RefundRefused(r)
               \/ DeleteWrite(r)
      PROVE  CapturedKept
  BY <1>2, <1>6 DEF SettleTx, SettleCommit, FailWrite, RefundDone, RefundRefused, Finalize,
                    DeleteWrite, SettledPayment
<1>7. ASSUME NEW r \in Request,
             SettleTx(r) \/ SettleCommit(r) \/ FailWrite(r) \/ RefundDone(r) \/ RefundRefused(r)
               \/ DeleteWrite(r)
      PROVE  job[r].p \in Payment
  BY <1>7 DEF SettleTx, SettleCommit, FailWrite, RefundDone, RefundRefused, DeleteWrite, At,
              OnPayment, Typed, JobsSound, JobSound
<1>8. ASSUME NEW r \in Request, RefundRequest(r) PROVE CapturedKept
  <2>1. JobSound(job[r]) /\ At(r, "refund.request")
    BY <1>8 DEF Typed, JobsSound, RefundRequest
  <2>2. Refundable(job[r]) \subseteq Payment
    BY <2>1 DEF Refundable, PaymentsOf, JobSound, At
  <2>3. \/ UNCHANGED payment
        \/ \E p \in Refundable(job[r]) : payment' = [payment EXCEPT ![p] = "REFUND_PENDING"]
    BY <1>8 DEF RefundRequest
  <2>. QED BY <1>2, <1>3, <2>2, <2>3 DEF SettledPayment
<1>9. ASSUME NEW r \in Request, NEW p \in Payment, RefundReport(r, p) PROVE CapturedKept
  BY <1>2, <1>9 DEF RefundReport, Finalize, SettledPayment
<1>10. ASSUME NEW r \in Request,
              \/ CreateInsert(r) \/ SettleRefused(r) \/ ExpireRead(r) \/ ExpireTx(r)
              \/ OrderRead(r) \/ CancelTx(r) \/ CancelCommit(r) \/ Deadlock(r)
              \/ RefundAccepted(r) \/ RefundFailed(r) \/ RefundReplyLost(r)
              \/ CompleteWrite(r) \/ BlockWrite(r) \/ Die(r)
       PROVE  CapturedKept
  <2>1. UNCHANGED payment
    BY <1>10 DEF CreateInsert, SettleRefused, ExpireRead, ExpireTx, OrderRead, CancelTx,
                 CancelCommit, Deadlock, RefundAccepted, RefundFailed, RefundReplyLost,
                 CompleteWrite, BlockWrite, Die, rows
  <2>. QED BY <1>3, <2>1
<1>11. ASSUME NEW r \in Request, Begin(r), \A p \in Payment : ~RefundReport(r, p)
       PROVE  CapturedKept
  <2>1. UNCHANGED payment
    BY <1>11 DEF Begin, CreateCheck, CreateOrder, Poll, Sweep, Cancel, AdminCancel, StartCancel,
                 AdminRefund, Complete, ReportOrder, VerifyCheckout, DeletePayment, Block, Unblock,
                 rows
  <2>. QED BY <1>3, <2>1
<1>12. CASE World \/ UNCHANGED vars
  BY <1>3, <1>12 DEF World, Pay, OrderFails, PaybackEnds, HoldElapses, DayPasses, rows, vars
<1>. QED BY <1>4, <1>5, <1>6, <1>7, <1>8, <1>9, <1>10, <1>11, <1>12 DEF Next, Work

\* What was captured stays on record, whichever cancellation, expiry, checkout
\* or settlement read the payment before.
THEOREM CapturedStays == Spec => CapturedStaysRecorded
<1>1. MoneyInOrder /\ TypeOK /\ JobsSound /\ [Next]_vars
        => [\A p \in Payment : payment[p] \in SettledPayment =>
              payment'[p] \in SettledPayment \union {"FAILED", "none"}]_vars
  BY NextKeepsCaptured DEF Typed, CapturedKept
<1>. QED BY <1>1, MoneyAlwaysInOrder, TypesHold, PTL DEF Spec, CapturedStaysRecorded

-----------------------------------------------------------------------------
(***************************************************************************)
(* Why a blocked date is nobody's, but where a creation and a blocking met *)
(* (raced): a creation knows its dates are not blocked, a blocking knows   *)
(* its dates are free, and the cancellation that blocks afterwards knows   *)
(* that they are its own booking's or nobody's (BlocksFree).               *)
(***************************************************************************)

RacedKnown == \A d \in Date : Raced(d) => d \in raced

\* Where a cancellation stands that will block the dates it read.
Cancelling == {"cancel.tx", "cancel.commit", "cancel.payments", "refund.request",
               "refund.gateway"}

BlocksFree(j) ==
  /\ j.step = "create.insert" => \A d \in StayOf[j.b] \ raced : calendar[d] # "BLOCKED"
  /\ j.step = "block.write" => \A d \in j.dates \ raced : \A c \in Booking : d \notin nights[c]
  /\ j.then = "block" =>
       /\ j.step \in Cancelling
       /\ \A d \in j.dates \ raced : \A c \in Booking \ {j.b} : d \notin nights[c]
       /\ j.step \notin {"cancel.tx", "cancel.commit"} => nights[j.b] = {}

BlocksInOrder ==
  /\ RacedKnown
  /\ BlockedIsFree
  /\ \A r \in Request : BlocksFree(job[r])

\* No night is taken and no date blocked.
TakesNothing ==
  /\ \A b \in Booking : nights'[b] \subseteq nights[b]
  /\ \A d \in Date : calendar'[d] = "BLOCKED" => calendar[d] = "BLOCKED"

\* What a handler knows stays true.
LEMMA BlocksFreeStays ==
  ASSUME TakesNothing, ConstantsOK, raced \subseteq raced', NEW j, JobSound(j), BlocksFree(j)
  PROVE  BlocksFree(j)'
<1>1. j.dates \subseteq Date /\ (j.step = "create.insert" => j.b \in Booking)
  BY DEF JobSound, Job
<1>2. j.step \in Cancelling => j.b \in Booking
  BY DEF JobSound, Cancelling
<1>3. j.step = "create.insert" => StayOf[j.b] \subseteq Date
  BY <1>1 DEF ConstantsOK
<1>. QED BY <1>1, <1>2, <1>3 DEF BlocksFree, TakesNothing

\* A step that takes nothing, of a handler that goes on knowing what it should.
LEMMA TakesNothingKeeps ==
  ASSUME BlocksInOrder, ConstantsOK, Typed, Typed', TakesNothing,
         \/ UNCHANGED work
         \/ \E r \in Request : \E k : Go(r, k) /\ (BlocksFree(k) \/ BlocksFree(k)')
  PROVE  BlocksInOrder'
<1>1. RacedKnown' /\ raced \subseteq raced'
  <2>1. CASE UNCHANGED work
    BY <2>1 DEF work, BlocksInOrder, RacedKnown, Raced, Creating, Blocking, At
  <2>2. CASE \E r \in Request : \E k : Go(r, k)
    BY <2>2 DEF Go, RacedKnown
  <2>. QED BY <2>1, <2>2
<1>2. BlockedIsFree'
  BY <1>1 DEF BlocksInOrder, BlockedIsFree, TakesNothing
<1>3. ASSUME NEW q \in Request, job'[q] = job[q]
      PROVE  BlocksFree(job[q])'
  <2>1. PICK j : j = job[q]
    OBVIOUS
  <2>2. BlocksFree(j)'
    BY <1>1, <2>1, BlocksFreeStays DEF BlocksInOrder, Typed, JobsSound
  <2>. QED BY <1>3, <2>1, <2>2 DEF BlocksFree
<1>4. ASSUME NEW r \in Request, NEW k, Go(r, k), BlocksFree(k) \/ BlocksFree(k)'
      PROVE  \A q \in Request : BlocksFree(job[q])'
  <2>1. job'[r] = k /\ \A q \in Request \ {r} : job'[q] = job[q]
    BY <1>4 DEF Go, Typed, TypeOK
  <2>2. JobSound(k)
    BY <2>1 DEF Typed, JobsSound
  <2>3. BlocksFree(k)'
    BY <1>1, <1>4, <2>2, BlocksFreeStays
  <2>4. BlocksFree(job[r])'
    BY <2>1, <2>3 DEF BlocksFree
  <2>. QED BY <1>3, <2>1, <2>4
<1>5. \A q \in Request : BlocksFree(job[q])'
  BY <1>3, <1>4 DEF work
<1>. QED BY <1>1, <1>2, <1>5 DEF BlocksInOrder

\* A handler with nothing to block later.
LEMMA NotBlocking ==
  ASSUME NEW j, j.then # "block", j.step \notin {"create.insert", "block.write"}
  PROVE  BlocksFree(j)
BY DEF BlocksFree

\* Where a handler resumes: the cancellation that blocks has no nights left.
LEMMA ResumeFree ==
  ASSUME NEW j \in Job, j.then = "block" => BlocksFree(j) /\ j.step \notin {"cancel.tx", "cancel.commit"}
  PROVE  BlocksFree(Resume(j))
<1>1. CASE j.then = "end"
  BY <1>1, NotBlocking DEF Resume, NoJob
<1>2. CASE j.then \in {"expire", "expire+order", "order"}
  BY <1>2, NotBlocking DEF Resume, Job
<1>3. CASE j.then = "block"
  <2>1. /\ Resume(j).step = "block.write" /\ Resume(j).then = "end"
        /\ Resume(j).dates \subseteq j.dates
    BY <1>3 DEF Resume, Job
  <2>2. \A d \in j.dates \ raced : \A c \in Booking : d \notin nights[c]
    BY <1>3 DEF BlocksFree
  <2>. QED BY <2>1, <2>2 DEF BlocksFree
<1>. QED BY <1>1, <1>2, <1>3 DEF Job, Then

-----------------------------------------------------------------------------
(* The three writes that matter.                                           *)

\* A creation takes dates that are not blocked; who is about to block one of
\* them was raced.
LEMMA CreateInsertBlocks ==
  ASSUME NightsInOrder, BlocksInOrder, ConstantsOK, Typed', NEW r \in Request, CreateInsert(r)
  PROVE  BlocksInOrder'
<1>. DEFINE b == job[r].b
<1>1. /\ Typed /\ At(r, "create.insert") /\ Go(r, NoJob) /\ calendar' = calendar
      /\ BlocksFree(job[r]) /\ CreatesAlone(r)
  BY DEF CreateInsert, Stop, NightsInOrder, JobsInOrder, BlocksInOrder
<1>2. b \in Booking /\ StayOf[b] \subseteq Date
  BY <1>1 DEF Typed, JobsSound, JobSound, At, ConstantsOK
<1>3. CASE nights' = nights
  BY <1>1, <1>3, NotBlocking, TakesNothingKeeps DEF TakesNothing, NoJob
<1>4. CASE nights' = [nights EXCEPT ![b] = StayOf[b]]
  <2>1. \A c \in Booking : nights'[c] = nights[c] \/ (c = b /\ nights'[c] = StayOf[b])
    BY <1>1, <1>4 DEF Typed, TypeOK
  <2>2. RacedKnown' /\ raced \subseteq raced' /\ job'[r] = NoJob
        /\ \A q \in Request \ {r} : job'[q] = job[q]
    BY <1>1 DEF Go, RacedKnown, Typed, TypeOK
  <2>3. BlockedIsFree'
    BY <1>1, <1>2, <2>1, <2>2 DEF BlocksFree, At, BlocksInOrder, BlockedIsFree
  <2>4. ASSUME NEW q \in Request \ {r} PROVE BlocksFree(job[q])'
    <3>1. BlocksFree(job[q]) /\ job'[q] = job[q] /\ JobSound(job[q]) /\ job[q].b # b
      BY <1>1, <2>2 DEF BlocksInOrder, Typed, JobsSound, CreatesAlone
    <3>2. ASSUME NEW d \in StayOf[b], d \in job[q].dates,
                 job[q].step = "block.write" \/ job[q].then = "block"
          PROVE  d \in raced
      BY <1>1, <1>2, <3>2 DEF BlocksInOrder, RacedKnown, Raced, Creating, Blocking, At
    <3>3. job[q].step = "create.insert" =>
            \A d \in StayOf[job[q].b] \ raced' : calendar'[d] # "BLOCKED"
      BY <1>1, <2>2, <3>1 DEF BlocksFree
    <3>4. job[q].step = "block.write" =>
            \A d \in job[q].dates \ raced' : \A c \in Booking : d \notin nights'[c]
      BY <2>1, <2>2, <3>1, <3>2 DEF BlocksFree
    <3>5. job[q].then = "block" =>
            /\ job[q].step \in Cancelling
            /\ \A d \in job[q].dates \ raced' : \A c \in Booking \ {job[q].b} : d \notin nights'[c]
            /\ job[q].step \notin {"cancel.tx", "cancel.commit"} => nights'[job[q].b] = {}
      <4>1. job[q].then = "block" => job[q].b \in Booking
        BY <3>1 DEF BlocksFree, JobSound, Cancelling
      <4>. QED BY <2>1, <2>2, <3>1, <3>2, <4>1 DEF BlocksFree
    <3>. QED BY <3>1, <3>3, <3>4, <3>5 DEF BlocksFree
  <2>5. BlocksFree(job[r])'
    BY <2>2 DEF BlocksFree, NoJob
  <2>. QED BY <2>2, <2>3, <2>4, <2>5 DEF BlocksInOrder
<1>. QED BY <1>3, <1>4 DEF CreateInsert

\* A blocking blocks dates that are free; who is about to take one was raced.
LEMMA BlockWriteBlocks ==
  ASSUME BlocksInOrder, ConstantsOK, Typed, Typed', NEW r \in Request, BlockWrite(r)
  PROVE  BlocksInOrder'
<1>1. /\ At(r, "block.write") /\ Go(r, NoJob) /\ nights' = nights /\ BlocksFree(job[r])
      /\ job[r] \in Job
      /\ calendar' = [d \in Date |-> IF d \in job[r].dates THEN "BLOCKED" ELSE calendar[d]]
  BY DEF BlockWrite, Stop, BlocksInOrder, Typed, TypeOK
<1>2. RacedKnown' /\ raced \subseteq raced' /\ job'[r] = NoJob
      /\ \A q \in Request \ {r} : job'[q] = job[q]
  BY <1>1 DEF Go, RacedKnown, Typed, TypeOK
<1>3. BlockedIsFree'
  BY <1>1, <1>2 DEF BlocksFree, At, BlocksInOrder, BlockedIsFree
<1>4. ASSUME NEW q \in Request \ {r} PROVE BlocksFree(job[q])'
  <2>1. BlocksFree(job[q]) /\ job'[q] = job[q] /\ JobSound(job[q])
    BY <1>2 DEF BlocksInOrder, Typed, JobsSound
  <2>2. ASSUME job[q].step = "create.insert", NEW d \in StayOf[job[q].b] \ raced'
        PROVE  calendar'[d] # "BLOCKED"
    <3>1. d \in Date /\ d \notin raced
      BY <1>2, <2>1, <2>2 DEF JobSound, ConstantsOK
    <3>2. d \notin job[r].dates
      BY <1>1, <2>2, <3>1 DEF BlocksInOrder, RacedKnown, Raced, Creating, Blocking, At
    <3>. QED BY <1>1, <2>1, <2>2, <3>1, <3>2 DEF BlocksFree
  <2>. QED BY <1>1, <1>2, <2>1, <2>2 DEF BlocksFree
<1>5. BlocksFree(job[r])'
  BY <1>2 DEF BlocksFree, NoJob
<1>. QED BY <1>2, <1>3, <1>4, <1>5 DEF BlocksInOrder

\* A cancellation gives its nights up before it blocks them.
LEMMA CancelCommitBlocks ==
  ASSUME BlocksInOrder, ConstantsOK, Typed, Typed', NEW r \in Request, CancelCommit(r)
  PROVE  BlocksInOrder'
<1>. DEFINE b == job[r].b
<1>1. /\ At(r, "cancel.commit") /\ BlocksFree(job[r]) /\ job[r] \in Job /\ b \in Booking
      /\ nights' = [nights EXCEPT ![b] = {}] /\ Released(r)
  BY DEF CancelCommit, NightsDeleted, BlocksInOrder, Typed, TypeOK, JobsSound, JobSound, At
<1>2. nights'[b] = {} /\ \A c \in Booking \ {b} : nights'[c] = nights[c]
  BY <1>1 DEF Typed, TypeOK
<1>3. TakesNothing
  BY <1>1, <1>2 DEF TakesNothing, Released
<1>4. ASSUME NEW step \in {"refund.request", "cancel.payments"},
             Go(r, [job[r] EXCEPT !.freed = {}, !.step = step])
      PROVE  BlocksInOrder'
  <2>. DEFINE next == [job[r] EXCEPT !.freed = {}, !.step = step]
  <2>1. Go(r, next) /\ next.step = step /\ next.then = job[r].then /\ next.dates = job[r].dates
        /\ next.b = b
    BY <1>1, <1>4 DEF Job
  <2>. HIDE DEF next
  <2>2. PICK k : /\ Go(r, k) /\ k.step = step /\ k.then = job[r].then /\ k.dates = job[r].dates
                 /\ k.b = b
    BY <2>1
  <2>3. raced \subseteq raced'
    BY <2>2 DEF Go
  <2>4. BlocksFree(k)'
    BY <1>1, <1>2, <2>2, <2>3 DEF BlocksFree, Cancelling
  <2>. QED BY <1>3, <2>2, <2>4, TakesNothingKeeps
<1>. QED BY <1>4 DEF CancelCommit

-----------------------------------------------------------------------------
(* Every other action takes no night and blocks no date.                   *)

\* A handler that begins: a creation saw its dates unblocked, a blocking free.
LEMMA BeginBlocks ==
  ASSUME NightsInOrder, BlocksInOrder, ConstantsOK, Typed', NEW r \in Request, Begin(r)
  PROVE  BlocksInOrder'
<1>. USE DEF NightsInOrder
<1>1. ASSUME UNCHANGED <<rows, gateway>>, NEW k, Go(r, k), BlocksFree(k)
      PROVE  BlocksInOrder'
  BY <1>1, TakesNothingKeeps DEF TakesNothing, rows
<1>2. ASSUME NEW b \in Booking, NEW step \in Step \ {"create.insert", "block.write"}
      PROVE  BlocksFree(NewJob(step, b))
  BY NotBlocking DEF NewJob, NoJob
<1>3. ASSUME NEW b \in Booking, CreateCheck(r, b) PROVE BlocksInOrder'
  <2>1. BlocksFree(NewJob("create.insert", b))
    BY <1>3 DEF CreateCheck, RangeAvailable, BlocksFree, NewJob, NoJob
  <2>. QED BY <1>1, <1>3, <2>1 DEF CreateCheck
<1>4. ASSUME NEW b \in Booking, Sweep(r, b) \/ AdminRefund(r, b) \/ Complete(r, b)
      PROVE  BlocksInOrder'
  BY <1>1, <1>2, <1>4 DEF Sweep, AdminRefund, Complete, Step
<1>5. ASSUME NEW j \in Job, j.then # "block", NEW p \in Payment
      PROVE  /\ BlocksFree(Resume(j)) /\ BlocksFree(Reconciled(j, p))
             /\ BlocksFree(StartSettle(j, p)) /\ BlocksFree(StartFail(j, p))
  <2>1. BlocksFree(Resume(j))
    BY <1>5, ResumeFree
  <2>2. BlocksFree(StartSettle(j, p))
    BY <1>5, <2>1, NotBlocking DEF StartSettle, Job
  <2>3. BlocksFree(StartFail(j, p))
    BY <1>5, <2>1, NotBlocking DEF StartFail, NoJob, Job
  <2>. QED BY <2>1, <2>2, <2>3 DEF Reconciled
<1>6. ASSUME NEW b \in Booking, NEW then \in Then \ {"block"}, Recover(r, b, then),
             UNCHANGED <<rows, gateway>>
      PROVE  BlocksInOrder'
  <2>. DEFINE j == [NewJob("idle", b) EXCEPT !.then = then]
  <2>1. NewJob("idle", b) \in Job
    BY NewJobSound DEF Step
  <2>2. j \in Job /\ j.then = then
    BY <2>1 DEF Job
  <2>. HIDE DEF j
  <2>3. PICK known \in Answered(OpenPayments(b)) :
          IF known = {} THEN Go(r, Resume(j))
          ELSE \E p \in known : Go(r, Reconciled(j, p))
    BY <1>6 DEF Recover, j
  <2>4. known \subseteq Payment
    BY <2>3 DEF Answered, OpenPayments, PaymentsOf
  <2>5. j.then # "block"
    BY <1>6, <2>2
  <2>6. BlocksFree(Resume(j)) /\ \A p \in known : BlocksFree(Reconciled(j, p))
    <3>1. \A p \in Payment : BlocksFree(Reconciled(j, p))
      BY <1>5, <2>2, <2>5
    <3>2. j.then = "block" => BlocksFree(j) /\ j.step \notin {"cancel.tx", "cancel.commit"}
      BY <2>5
    <3>. QED BY <2>2, <2>4, <3>1, <3>2, ResumeFree
  <2>7. \E k : Go(r, k) /\ BlocksFree(k)
    BY <2>3, <2>6
  <2>. QED BY <1>1, <1>6, <2>7
<1>7. ASSUME NEW b \in Booking, CreateOrder(r, b) \/ Poll(r, b) PROVE BlocksInOrder'
  BY <1>6, <1>7 DEF CreateOrder, Poll, Then
<1>8. ASSUME NEW b \in Booking, NEW then \in {"end", "block"}, StartCancel(r, b, then)
      PROVE  BlocksInOrder'
  <2>. DEFINE k == [NewJob("cancel.tx", b) EXCEPT !.then = then, !.seen = booking[b],
                                                  !.dates = nights[b]]
  <2>1. k.step = "cancel.tx" /\ k.then = then /\ k.dates = nights[b] /\ k.b = b
    BY DEF NewJob, NoJob
  <2>2. Go(r, k) /\ UNCHANGED <<rows, gateway>>
    BY <1>8 DEF StartCancel
  <2>. HIDE DEF k
  <2>3. BlocksFree(k)
    BY <2>1 DEF BlocksFree, NightHeldOnce, Cancelling
  <2>. QED BY <1>1, <2>2, <2>3
<1>9. ASSUME NEW b \in Booking, Cancel(r, b) \/ AdminCancel(r, b) PROVE BlocksInOrder'
  BY <1>8, <1>9 DEF Cancel, AdminCancel
<1>10. ASSUME NEW p \in Payment, ReportOrder(r, p) \/ VerifyCheckout(r, p) PROVE BlocksInOrder'
  <2>. DEFINE j == NewJob("idle", BookingOf[p])
  <2>1. j \in Job
    BY NewJobSound DEF Step, ConstantsOK
  <2>2. j.then # "block"
    BY DEF NewJob, NoJob
  <2>. HIDE DEF j
  <2>3. \/ Go(r, Reconciled(j, p)) \/ Go(r, StartFail(j, p)) \/ Go(r, StartSettle(j, p))
    BY <1>10 DEF ReportOrder, VerifyCheckout, j
  <2>4. UNCHANGED <<rows, gateway>>
    BY <1>10 DEF ReportOrder, VerifyCheckout
  <2>. QED BY <1>1, <1>5, <2>1, <2>3, <2>4, <2>2
<1>11. ASSUME NEW p \in Payment, DeletePayment(r, p) PROVE BlocksInOrder'
  <2>. DEFINE k == [NewJob("delete.write", BookingOf[p]) EXCEPT !.p = p]
  <2>1. k.then # "block" /\ k.step = "delete.write"
    BY DEF NewJob, NoJob
  <2>2. Go(r, k) /\ UNCHANGED <<rows, gateway>>
    BY <1>11 DEF DeletePayment
  <2>. HIDE DEF k
  <2>. QED BY <1>1, <2>1, <2>2, NotBlocking
<1>12. ASSUME NEW d \in Date, Block(r, d) PROVE BlocksInOrder'
  <2>. DEFINE k == [NoJob EXCEPT !.step = "block.write", !.dates = {d}]
  <2>1. k.then = "end" /\ k.step = "block.write" /\ k.dates = {d}
    BY DEF NoJob
  <2>2. Go(r, k) /\ UNCHANGED <<rows, gateway>> /\ \A c \in Booking : d \notin nights[c]
    BY <1>12 DEF Block, Blockable
  <2>. HIDE DEF k
  <2>3. BlocksFree(k)
    BY <2>1, <2>2 DEF BlocksFree
  <2>. QED BY <1>1, <2>2, <2>3
<1>13. ASSUME NEW p \in Payment, RefundReport(r, p) PROVE BlocksInOrder'
  BY <1>13, TakesNothingKeeps DEF RefundReport, TakesNothing
<1>14. ASSUME NEW d \in Date, Unblock(r, d) PROVE BlocksInOrder'
  <2>1. TakesNothing
    BY <1>14 DEF Unblock, TakesNothing, Typed, TypeOK
  <2>. QED BY <1>14, <2>1, TakesNothingKeeps DEF Unblock
<1>. QED BY <1>3, <1>4, <1>7, <1>9, <1>10, <1>11, <1>12, <1>13, <1>14 DEF Begin

\* Every statement but those three.
LEMMA OtherWorkBlocks ==
  ASSUME BlocksInOrder, ConstantsOK, Typed, Typed', NEW r \in Request,
         Work(r) \/ Die(r), ~CreateInsert(r), ~BlockWrite(r), ~CancelCommit(r)
  PROVE  BlocksInOrder'
<1>1. TakesNothing
  <2>1. CASE ExpireCommit(r)
    BY <2>1 DEF ExpireCommit, NightsDeleted, Released, TakesNothing, Typed, TypeOK
  <2>2. CASE SettleCommit(r)
    BY <2>2 DEF SettleCommit, TakesNothing
  <2>3. CASE UNCHANGED <<nights, calendar>>
    BY <2>3 DEF TakesNothing
  <2>. QED BY <2>1, <2>2, <2>3
           DEF Work, Die, SettleRefused, SettleTx, FailWrite, ExpireRead, ExpireTx, OrderRead,
               OrderTx, CancelTx, CancelPayments, Deadlock, RefundRequest, RefundAccepted,
               RefundFailed, RefundDone, RefundRefused, RefundReplyLost, CompleteWrite,
               DeleteWrite, rows
<1>2. job[r] \in Job /\ JobSound(job[r]) /\ BlocksFree(job[r])
  BY DEF Typed, TypeOK, JobsSound, BlocksInOrder
<1>3. BlocksFree(NoJob)
  BY NotBlocking DEF NoJob
<1>4. ASSUME job[r].step \notin {"cancel.tx", "cancel.commit"}
      PROVE  BlocksFree(Resume(job[r]))
  BY <1>2, <1>4, ResumeFree
<1>5. ASSUME job[r].step \notin Cancelling
      PROVE  job[r].then # "block"
  BY <1>2, <1>5 DEF BlocksFree
<1>6. ASSUME NEW k, Go(r, k), BlocksFree(k) PROVE BlocksInOrder'
  BY <1>1, <1>6, TakesNothingKeeps
<1>7. CASE SettleRefused(r) \/ CompleteWrite(r) \/ DeleteWrite(r) \/ Die(r) \/ RefundReplyLost(r)
           \/ OrderTx(r)
  <2>1. Go(r, NoJob)
    BY <1>7 DEF SettleRefused, CompleteWrite, DeleteWrite, Die, RefundReplyLost, OrderTx, Stop
  <2>. QED BY <1>3, <1>6, <2>1
<1>8. CASE Deadlock(r)
  <2>1. \E q \in Request : Go(q, NoJob)
    BY <1>8 DEF Deadlock, Confirming, Stop
  <2>. QED BY <1>1, <1>3, <2>1, TakesNothingKeeps
<1>9. CASE SettleTx(r)
  <2>1. job[r].then # "block" /\ BlocksFree(Resume(job[r]))
    BY <1>4, <1>5, <1>9 DEF SettleTx, At, Cancelling
  <2>2. BlocksFree(Unconfirmed(job[r]))
    BY <1>2, <2>1, NotBlocking DEF Unconfirmed, Job
  <2>. DEFINE k == [job[r] EXCEPT !.step = "settle.commit", !.dates = nights[BookingOf[job[r].p]]]
  <2>3. k.then # "block" /\ k.step = "settle.commit"
    BY <1>2, <2>1 DEF Job
  <2>4. Go(r, Resume(job[r])) \/ Go(r, NoJob) \/ Go(r, Unconfirmed(job[r])) \/ Go(r, k)
    BY <1>9 DEF SettleTx, Stop
  <2>. HIDE DEF k
  <2>. QED BY <1>3, <1>6, <2>1, <2>2, <2>3, <2>4, NotBlocking
<1>10. CASE SettleCommit(r) \/ FailWrite(r) \/ CancelPayments(r) \/ RefundAccepted(r)
            \/ RefundFailed(r) \/ RefundDone(r) \/ RefundRefused(r)
  <2>1. BlocksFree(Resume(job[r]))
    BY <1>4, <1>10 DEF SettleCommit, FailWrite, CancelPayments, RefundAccepted, RefundFailed,
                       RefundDone, RefundRefused, At
  <2>2. Go(r, Resume(job[r])) \/ Go(r, NoJob)
    BY <1>10 DEF SettleCommit, FailWrite, CancelPayments, RefundAccepted, RefundFailed,
                 RefundDone, RefundRefused, Stop
  <2>. QED BY <1>3, <1>6, <2>1, <2>2
<1>11. CASE ExpireRead(r)
  <2>1. job[r].then # "block" /\ BlocksFree(Resume(job[r]))
    BY <1>4, <1>5, <1>11 DEF ExpireRead, At, Cancelling
  <2>2. \A p \in Payment : BlocksFree(StartSettle(job[r], p))
    BY <1>2, <2>1, NotBlocking DEF StartSettle, Job
  <2>. DEFINE k == [job[r] EXCEPT !.step = "expire.tx", !.dates = nights[job[r].b]]
  <2>3. k.then # "block" /\ k.step = "expire.tx"
    BY <1>2, <2>1 DEF Job
  <2>4. Go(r, Resume(job[r])) \/ Go(r, k) \/ \E p \in Payment : Go(r, StartSettle(job[r], p))
    BY <1>11 DEF ExpireRead, Answered, PaymentsOf
  <2>. HIDE DEF k
  <2>. QED BY <1>6, <2>1, <2>2, <2>3, <2>4, NotBlocking
<1>12. CASE OrderRead(r)
  <2>1. job[r].then # "block"
    BY <1>5, <1>12 DEF OrderRead, At, Cancelling
  <2>. DEFINE k == [job[r] EXCEPT !.step = "order.tx", !.seen = booking[job[r].b]]
  <2>2. k.then # "block" /\ k.step = "order.tx"
    BY <1>2, <2>1 DEF Job
  <2>3. Go(r, k) \/ Go(r, NoJob)
    BY <1>12 DEF OrderRead, Stop
  <2>. HIDE DEF k
  <2>. QED BY <1>3, <1>6, <2>2, <2>3, NotBlocking
<1>13. CASE ExpireTx(r)
  <2>1. job[r].then # "block"
    BY <1>5, <1>13 DEF ExpireTx, At, Cancelling
  <2>. DEFINE k == [job[r] EXCEPT !.step = "expire.commit", !.freed = ToRelease(job[r].dates)]
  <2>2. Go(r, k) /\ k.then # "block" /\ k.step = "expire.commit"
    BY <1>2, <1>13, <2>1 DEF ExpireTx, Job
  <2>. HIDE DEF k
  <2>. QED BY <1>6, <2>2, NotBlocking
<1>14. CASE ExpireCommit(r)
  <2>1. job[r].then # "block"
    BY <1>5, <1>14 DEF ExpireCommit, At, Cancelling
  <2>. DEFINE j == [job[r] EXCEPT !.freed = {}]
  <2>2. j \in Job /\ j.then # "block"
    BY <1>2, <2>1 DEF Job
  <2>3. Go(r, Resume(j))
    BY <1>14 DEF ExpireCommit
  <2>. HIDE DEF j
  <2>. QED BY <1>6, <2>2, <2>3, ResumeFree
<1>15. CASE CancelTx(r)
  <2>. DEFINE k == [job[r] EXCEPT !.step = "cancel.commit", !.freed = ToRelease(job[r].dates)]
  <2>1. Go(r, k) /\ k.step = "cancel.commit" /\ k.then = job[r].then /\ k.dates = job[r].dates
        /\ k.b = job[r].b
    BY <1>2, <1>15 DEF CancelTx, Job
  <2>. HIDE DEF k
  <2>2. BlocksFree(k)
    BY <1>2, <2>1 DEF BlocksFree, Cancelling
  <2>. QED BY <1>6, <2>1, <2>2
<1>16. CASE RefundRequest(r)
  <2>1. BlocksFree(Resume(job[r])) /\ job[r].step = "refund.request"
    BY <1>4, <1>16 DEF RefundRequest, At
  <2>2. ASSUME NEW p \in Refundable(job[r]), Go(r, [job[r] EXCEPT !.step = "refund.gateway", !.p = p])
        PROVE  BlocksInOrder'
    <3>. DEFINE k == [job[r] EXCEPT !.step = "refund.gateway", !.p = p]
    <3>1. Go(r, k) /\ k.step = "refund.gateway" /\ k.then = job[r].then /\ k.dates = job[r].dates
          /\ k.b = job[r].b
      BY <1>2, <2>2 DEF Job
    <3>. HIDE DEF k
    <3>2. BlocksFree(k)
      BY <1>2, <2>1, <3>1 DEF BlocksFree, Cancelling
    <3>. QED BY <1>6, <3>1, <3>2
  <2>. QED BY <1>6, <1>16, <2>1, <2>2 DEF RefundRequest
<1>. QED BY <1>7, <1>8, <1>9, <1>10, <1>11, <1>12, <1>13, <1>14, <1>15, <1>16 DEF Work

\* Every step keeps blocked dates free.
LEMMA NextBlocks ==
  ASSUME NightsInOrder, BlocksInOrder, ConstantsOK, [Next]_vars
  PROVE  BlocksInOrder'
<1>1. Typed /\ Typed'
  BY NextTyped DEF NightsInOrder
<1>2. ASSUME NEW r \in Request, Begin(r) \/ Work(r) \/ Die(r) PROVE BlocksInOrder'
  BY <1>1, <1>2, BeginBlocks, CreateInsertBlocks, BlockWriteBlocks, CancelCommitBlocks,
     OtherWorkBlocks
<1>3. CASE World \/ UNCHANGED vars
  <2>1. UNCHANGED work /\ UNCHANGED <<nights, calendar>>
    BY <1>3 DEF World, Pay, OrderFails, PaybackEnds, HoldElapses, DayPasses, rows, work, vars
  <2>2. TakesNothing
    BY <2>1 DEF TakesNothing
  <2>. QED BY <1>1, <2>1, <2>2, TakesNothingKeeps
<1>. QED BY <1>2, <1>3 DEF Next

\* A date that is blocked is nobody's, but where a creation and a blocking
\* were under way together.
THEOREM BlockedFree == Spec => []BlockedIsFree
<1>1. Init => BlocksInOrder
  BY DEF Init, BlocksInOrder, RacedKnown, Raced, Creating, At, BlockedIsFree, BlocksFree, NoJob
<1>2. NightsInOrder /\ BlocksInOrder /\ [Next]_vars => BlocksInOrder'
  BY ConstantsOK, NextBlocks
<1>3. BlocksInOrder => BlockedIsFree
  BY DEF BlocksInOrder
<1>. QED BY <1>1, <1>2, <1>3, AlwaysInOrder, PTL DEF Spec

-----------------------------------------------------------------------------
(***************************************************************************)
(* Why every stay reserved under the coupon is counted, until two handlers *)
(* meet at one of its bookings.  Alone, a cancellation still knows whether *)
(* the stay it gives back is reserved, and who writes a live status by id  *)
(* knows the booking is live (KnowsSeat).  Only completing does not: the   *)
(* gateway may report the refund first, so a booking being completed stays *)
(* counted (Counted).                                                      *)
(***************************************************************************)

CrossedKnown == \A b \in WithCoupon : Crossed(b) => b \in crossed

KnowsSeat(j) ==
  j.b \in WithCoupon =>
    /\ j.step \in {"settle.commit", "order.tx"} => booking[j.b] \in AwaitingPayment
    /\ j.step \in {"cancel.tx", "cancel.commit"} =>
         j.seen \in Cancellable /\ (j.seen # "CONFIRMED" => booking[j.b] \in AwaitingPayment)

Taken == AwaitingPayment \union {"CONFIRMED", "COMPLETED"}

Counted ==
  {b \in WithCoupon : \/ booking[b] \in Taken
                      \/ \E r \in Request : At(r, "complete.write") /\ job[r].b = b}

Covered == IsFiniteSet(Counted) /\ Cardinality(Counted) <= redeemed

CouponInOrder ==
  /\ CrossedKnown
  /\ crossed = {} => (\A r \in Request : KnowsSeat(job[r])) /\ Covered

\* Where a handler needs to know nothing of the booking.
LEMMA NoSeat ==
  ASSUME NEW j,
         j.step \notin {"settle.commit", "order.tx", "cancel.tx", "cancel.commit"}
  PROVE  KnowsSeat(j)
BY DEF KnowsSeat

\* A handler where it resumes knows all it needs, and completes nothing.
LEMMA ResumeSeat ==
  ASSUME NEW j \in Job
  PROVE  /\ KnowsSeat(Resume(j))
         /\ Resume(j).step \in {"idle", "expire.read", "order.read", "block.write"}
<1>1. Resume(j).step \in {"idle", "expire.read", "order.read", "block.write"}
  BY DEF Resume, NoJob, Job, Then
<1>. QED BY <1>1, NoSeat

\* One handler's step, alone at its booking, leaves what the others know.
LEMMA StepCrosses ==
  ASSUME CouponInOrder, Typed, Typed', NEW r \in Request, NEW k, Go(r, k),
         \A c \in WithCoupon \ {job[r].b} :
           booking'[c] = booking[c] \/ booking[c] \notin AwaitingPayment,
         crossed = {} => KnowsSeat(k)'
  PROVE  /\ CrossedKnown' /\ crossed \subseteq crossed'
         /\ crossed' = {} => \A q \in Request : KnowsSeat(job[q])'
<1>1. CrossedKnown' /\ crossed \subseteq crossed'
  BY DEF Go, CrossedKnown
<1>2. job'[r] = k /\ \A q \in Request \ {r} : job'[q] = job[q]
  BY DEF Go, Typed, TypeOK
<1>3. ASSUME crossed = {}, NEW q \in Request \ {r} PROVE KnowsSeat(job[q])'
  <2>1. KnowsSeat(job[q]) /\ job'[q] = job[q]
    BY <1>2, <1>3 DEF CouponInOrder
  <2>2. job[q].b \in WithCoupon => job[q].b # job[r].b
    BY <1>3 DEF CouponInOrder, CrossedKnown, Crossed
  <2>. QED BY <2>1, <2>2 DEF KnowsSeat
<1>4. crossed = {} => KnowsSeat(job[r])'
  BY <1>2 DEF KnowsSeat
<1>. QED BY <1>1, <1>3, <1>4

\* Redemptions stay covered when no booking is newly counted.
LEMMA CoverStays ==
  ASSUME Typed, Covered, Counted' \subseteq Counted, redeemed' = redeemed
  PROVE  Covered'
<1>1. IsFiniteSet(Counted') /\ Cardinality(Counted') <= Cardinality(Counted)
  BY FS_Subset DEF Covered
<1>2. Cardinality(Counted) \in Nat /\ Cardinality(Counted') \in Nat /\ redeemed \in Nat
  BY <1>1, FS_CardinalityType DEF Covered, Typed, TypeOK
<1>. QED BY <1>1, <1>2 DEF Covered

\* A step that reserves nothing: what is live afterwards was counted before.
LEMMA ReservesNothing ==
  ASSUME CouponInOrder, Typed, Typed', redeemed' = redeemed,
         crossed = {} => \A c \in WithCoupon : booking'[c] \in Taken => c \in Counted,
         NEW r \in Request, NEW k, Go(r, k),
         \A c \in WithCoupon \ {job[r].b} :
           booking'[c] = booking[c] \/ booking[c] \notin AwaitingPayment,
         crossed = {} => KnowsSeat(k)',
         k.step = "complete.write" /\ k.b \in WithCoupon => k.b \in Counted
  PROVE  CouponInOrder'
<1>1. /\ CrossedKnown' /\ crossed \subseteq crossed'
      /\ crossed' = {} => \A q \in Request : KnowsSeat(job[q])'
  BY StepCrosses
<1>2. job'[r] = k /\ \A q \in Request \ {r} : job'[q] = job[q]
  BY DEF Go, Typed, TypeOK
<1>3. ASSUME crossed = {} PROVE Counted' \subseteq Counted
  BY <1>2, <1>3 DEF Counted, At
<1>4. crossed' = {} => Covered'
  BY <1>1, <1>3, CoverStays DEF CouponInOrder
<1>. QED BY <1>1, <1>4 DEF CouponInOrder

\* A step that leaves the jobs alone.
LEMMA RowsReserveNothing ==
  ASSUME CouponInOrder, Typed, Typed', UNCHANGED work, redeemed' = redeemed,
         \A c \in WithCoupon : \/ booking'[c] = booking[c]
                               \/ booking[c] \notin AwaitingPayment /\ booking'[c] \notin Taken
  PROVE  CouponInOrder'
<1>1. CrossedKnown' /\ crossed' = crossed
  BY DEF work, CouponInOrder, CrossedKnown, Crossed
<1>2. ASSUME crossed = {}, NEW q \in Request PROVE KnowsSeat(job[q])'
  <2>1. KnowsSeat(job[q]) /\ job'[q] = job[q]
    BY <1>2 DEF CouponInOrder, work
  <2>. QED BY <2>1 DEF KnowsSeat
<1>3. Counted' \subseteq Counted
  BY DEF Counted, At, work
<1>. QED BY <1>1, <1>2, <1>3, CoverStays DEF CouponInOrder

-----------------------------------------------------------------------------
(* The two writes that count.                                              *)

\* A creation counts the stay it reserves.
LEMMA CreateInsertCounts ==
  ASSUME NightsInOrder, CouponInOrder, ConstantsOK, Typed', NEW r \in Request, CreateInsert(r)
  PROVE  CouponInOrder'
<1>. DEFINE b == job[r].b
<1>1. Typed /\ Go(r, NoJob) /\ b \in Booking /\ booking[b] = "none"
      /\ \A q \in Request \ {r} : job[q].b # b
  BY DEF CreateInsert, Stop, At, NightsInOrder, JobsInOrder, CreatesAlone, Typed, JobsSound,
         JobSound
<1>2. KnowsSeat(NoJob)'
  BY DEF KnowsSeat, NoJob
<1>3. CASE UNCHANGED <<booking, redeemed>>
  BY <1>1, <1>2, <1>3, ReservesNothing DEF Counted, NoJob
<1>4. CASE /\ booking' = [booking EXCEPT ![b] = "PENDING"]
           /\ redeemed' = IF b \in WithCoupon THEN redeemed + 1 ELSE redeemed
  <2>1. booking'[b] = "PENDING" /\ \A c \in Booking \ {b} : booking'[c] = booking[c]
    BY <1>1, <1>4 DEF Typed, TypeOK
  <2>2. \A c \in WithCoupon \ {b} : booking'[c] = booking[c]
    BY <2>1 DEF ConstantsOK
  <2>3. /\ CrossedKnown' /\ crossed \subseteq crossed'
        /\ crossed' = {} => \A q \in Request : KnowsSeat(job[q])'
    BY <1>1, <1>2, <2>2, StepCrosses
  <2>4. job'[r] = NoJob /\ \A q \in Request \ {r} : job'[q] = job[q]
    BY <1>1 DEF Go, Typed, TypeOK
  <2>5. ~At(r, "complete.write")
    BY DEF CreateInsert, At
  <2>6. b \notin Counted
    BY <1>1, <2>5 DEF Counted, Taken, AwaitingPayment
  <2>7. Counted' \subseteq IF b \in WithCoupon THEN Counted \union {b} ELSE Counted
    BY <2>1, <2>2, <2>4 DEF Counted, At, NoJob
  <2>8. ASSUME crossed = {} PROVE Covered'
    <3>1. IsFiniteSet(Counted) /\ Cardinality(Counted) \in Nat /\ redeemed \in Nat
          /\ Cardinality(Counted) <= redeemed
      BY <1>1, <2>8, FS_CardinalityType DEF CouponInOrder, Covered, Typed, TypeOK
    <3>2. CASE b \in WithCoupon
      <4>1. IsFiniteSet(Counted \union {b})
            /\ Cardinality(Counted \union {b}) = Cardinality(Counted) + 1
        BY <2>6, <3>1, FS_AddElement
      <4>2. IsFiniteSet(Counted') /\ Cardinality(Counted') <= Cardinality(Counted \union {b})
        BY <2>7, <3>2, <4>1, FS_Subset
      <4>3. Cardinality(Counted') \in Nat
        BY <4>2, FS_CardinalityType
      <4>. QED BY <1>4, <3>1, <3>2, <4>1, <4>2, <4>3 DEF Covered
    <3>3. CASE b \notin WithCoupon
      BY <1>1, <1>4, <2>7, <2>8, <3>3, CoverStays DEF CouponInOrder
    <3>. QED BY <3>2, <3>3
  <2>. QED BY <2>3, <2>8 DEF CouponInOrder
<1>. QED BY <1>3, <1>4 DEF CreateInsert

\* A cancellation gives back what its booking, still reserved, had taken.
LEMMA CancelCommitCounts ==
  ASSUME CouponInOrder, ConstantsOK, Typed, Typed', NEW r \in Request, CancelCommit(r)
  PROVE  CouponInOrder'
<1>. DEFINE b == job[r].b
<1>1. /\ At(r, "cancel.commit") /\ job[r] \in Job /\ b \in Booking
      /\ booking'[b] = "CANCELLED" /\ \A c \in Booking \ {b} : booking'[c] = booking[c]
      /\ redeemed' = GiveBack(job[r])
  BY DEF CancelCommit, Typed, TypeOK, JobsSound, JobSound, At
<1>2. \A c \in WithCoupon \ {b} : booking'[c] = booking[c]
  BY <1>1 DEF ConstantsOK
<1>3. ASSUME NEW step \in {"refund.request", "cancel.payments"},
             Go(r, [job[r] EXCEPT !.freed = {}, !.step = step])
      PROVE  CouponInOrder'
  <2>. DEFINE next == [job[r] EXCEPT !.freed = {}, !.step = step]
  <2>1. Go(r, next) /\ next.step = step
    BY <1>1, <1>3 DEF Job
  <2>. HIDE DEF next
  <2>2. PICK k : Go(r, k) /\ k.step = step
    BY <2>1
  <2>3. KnowsSeat(k)'
    BY <2>2 DEF KnowsSeat
  <2>4. /\ CrossedKnown' /\ crossed \subseteq crossed'
        /\ crossed' = {} => \A q \in Request : KnowsSeat(job[q])'
    BY <1>2, <2>2, <2>3, StepCrosses
  <2>5. job'[r] = k /\ \A q \in Request \ {r} : job'[q] = job[q]
    BY <2>2 DEF Go, Typed, TypeOK
  <2>6. Counted' \subseteq Counted
    BY <1>1, <1>2, <2>2, <2>5 DEF Counted, At, Taken, AwaitingPayment
  <2>7. ASSUME crossed = {} PROVE Covered'
    <3>1. IsFiniteSet(Counted) /\ Cardinality(Counted) \in Nat /\ redeemed \in Nat
          /\ Cardinality(Counted) <= redeemed /\ Covered
      BY <2>7, FS_CardinalityType DEF CouponInOrder, Covered, Typed, TypeOK
    <3>2. CASE b \in WithCoupon /\ job[r].seen # "CONFIRMED"
      <4>1. booking[b] \in AwaitingPayment
        BY <1>1, <2>7, <3>2 DEF CouponInOrder, KnowsSeat, At
      <4>2. b \in Counted
        BY <3>2, <4>1 DEF Counted, Taken
      <4>3. \A q \in Request \ {r} : job[q].b # b
        BY <2>7, <3>2 DEF CouponInOrder, CrossedKnown, Crossed
      <4>4. b \notin Counted'
        <5>1. booking'[b] \notin Taken
          BY <1>1 DEF Taken, AwaitingPayment
        <5>2. ASSUME NEW q \in Request, job'[q].step = "complete.write" PROVE job'[q].b # b
          BY <2>2, <2>5, <4>3, <5>2
        <5>3. Counted' = {c \in WithCoupon :
                            \/ booking'[c] \in Taken
                            \/ \E q \in Request : job'[q].step = "complete.write" /\ job'[q].b = c}
          BY DEF Counted, At
        <5>. HIDE DEF b
        <5>. QED BY <5>1, <5>2, <5>3
      <4>5. IsFiniteSet(Counted \ {b}) /\ Cardinality(Counted \ {b}) = Cardinality(Counted) - 1
        <5>1. ASSUME NEW S, IsFiniteSet(S), NEW x \in S
              PROVE  IsFiniteSet(S \ {x}) /\ Cardinality(S \ {x}) = Cardinality(S) - 1
          BY <5>1, FS_RemoveElement
        <5>. QED BY <3>1, <4>2, <5>1
      <4>6. IsFiniteSet(Counted') /\ Cardinality(Counted') <= Cardinality(Counted \ {b})
        BY <2>6, <4>4, <4>5, FS_Subset
      <4>7. Cardinality(Counted') \in Nat
        BY <4>6, FS_CardinalityType
      <4>8. redeemed' = redeemed - 1 \/ redeemed' = redeemed
        BY <1>1 DEF GiveBack
      <4>. QED BY <3>1, <4>5, <4>6, <4>7, <4>8 DEF Covered
    <3>3. CASE ~(b \in WithCoupon /\ job[r].seen # "CONFIRMED")
      <4>1. redeemed' = redeemed
        BY <1>1, <3>3 DEF GiveBack, GivesBack
      <4>. QED BY <2>6, <3>1, <4>1, CoverStays
    <3>. QED BY <3>2, <3>3
  <2>. QED BY <2>4, <2>7 DEF CouponInOrder
<1>. QED BY <1>3 DEF CancelCommit

-----------------------------------------------------------------------------
(* Every other action reserves nothing.                                    *)

\* A step that only moves a handler to where it knows its seat.
LEMMA MovesSeat ==
  ASSUME CouponInOrder, Typed, Typed', UNCHANGED rows,
         NEW r \in Request, NEW k, Go(r, k), KnowsSeat(k),
         k.step = "complete.write" /\ k.b \in WithCoupon => k.b \in Counted
  PROVE  CouponInOrder'
<1>1. UNCHANGED <<booking, redeemed>>
  BY DEF rows
<1>2. \A c \in WithCoupon : booking'[c] \in Taken => c \in Counted
  BY <1>1 DEF Counted
<1>3. KnowsSeat(k)'
  BY <1>1 DEF KnowsSeat
<1>. QED BY <1>1, <1>2, <1>3, ReservesNothing

\* A handler that begins.
LEMMA BeginCounts ==
  ASSUME CouponInOrder, ConstantsOK, Typed, Typed', NEW r \in Request, Begin(r)
  PROVE  CouponInOrder'
<1>1. ASSUME UNCHANGED <<rows, gateway>>, NEW k, Go(r, k), KnowsSeat(k), k.step # "complete.write"
      PROVE  CouponInOrder'
  BY <1>1, MovesSeat DEF rows
<1>2. ASSUME NEW b \in Booking, CreateCheck(r, b) \/ Sweep(r, b) \/ AdminRefund(r, b)
      PROVE  CouponInOrder'
  BY <1>1, <1>2, NoSeat DEF CreateCheck, Sweep, AdminRefund, NewJob, NoJob
<1>3. ASSUME NEW j \in Job, NEW p \in Payment
      PROVE  /\ KnowsSeat(Resume(j)) /\ Resume(j).step # "complete.write"
             /\ KnowsSeat(Reconciled(j, p)) /\ Reconciled(j, p).step # "complete.write"
             /\ KnowsSeat(StartSettle(j, p)) /\ StartSettle(j, p).step # "complete.write"
             /\ KnowsSeat(StartFail(j, p)) /\ StartFail(j, p).step # "complete.write"
  <2>1. KnowsSeat(Resume(j)) /\ Resume(j).step # "complete.write"
    BY ResumeSeat
  <2>2. KnowsSeat(StartSettle(j, p)) /\ StartSettle(j, p).step # "complete.write"
    BY <2>1, NoSeat DEF StartSettle, Job
  <2>3. KnowsSeat(StartFail(j, p)) /\ StartFail(j, p).step # "complete.write"
    BY <2>1, NoSeat DEF StartFail, NoJob, Job
  <2>. QED BY <2>1, <2>2, <2>3 DEF Reconciled
<1>4. ASSUME NEW b \in Booking, NEW then \in Then, Recover(r, b, then), UNCHANGED <<rows, gateway>>
      PROVE  CouponInOrder'
  <2>. DEFINE j == [NewJob("idle", b) EXCEPT !.then = then]
  <2>1. NewJob("idle", b) \in Job
    BY NewJobSound DEF Step
  <2>2. j \in Job
    BY <2>1 DEF Job
  <2>. HIDE DEF j
  <2>3. PICK known \in Answered(OpenPayments(b)) :
          IF known = {} THEN Go(r, Resume(j))
          ELSE \E p \in known : Go(r, Reconciled(j, p))
    BY <1>4 DEF Recover, j
  <2>4. known \subseteq Payment
    BY <2>3 DEF Answered, OpenPayments, PaymentsOf
  <2>5. /\ KnowsSeat(Resume(j)) /\ Resume(j).step # "complete.write"
        /\ \A p \in Payment : KnowsSeat(Reconciled(j, p)) /\ Reconciled(j, p).step # "complete.write"
    BY <1>3, <2>2, ResumeSeat
  <2>6. \E k : Go(r, k) /\ KnowsSeat(k) /\ k.step # "complete.write"
    BY <2>3, <2>4, <2>5
  <2>. QED BY <1>1, <1>4, <2>6
<1>5. ASSUME NEW b \in Booking, CreateOrder(r, b) \/ Poll(r, b) PROVE CouponInOrder'
  BY <1>4, <1>5 DEF CreateOrder, Poll, Then
<1>6. ASSUME NEW b \in Booking, NEW then \in {"end", "block"}, StartCancel(r, b, then)
      PROVE  CouponInOrder'
  <2>. DEFINE k == [NewJob("cancel.tx", b) EXCEPT !.then = then, !.seen = booking[b],
                                                  !.dates = nights[b]]
  <2>1. k.step = "cancel.tx" /\ k.seen = booking[b] /\ k.b = b
    BY DEF NewJob, NoJob
  <2>2. Go(r, k) /\ UNCHANGED <<rows, gateway>> /\ booking[b] \in Cancellable
    BY <1>6 DEF StartCancel
  <2>. HIDE DEF k
  <2>3. KnowsSeat(k)
    BY <2>1, <2>2 DEF KnowsSeat, Cancellable
  <2>. QED BY <1>1, <2>1, <2>2, <2>3
<1>7. ASSUME NEW b \in Booking, Cancel(r, b) \/ AdminCancel(r, b) PROVE CouponInOrder'
  BY <1>6, <1>7 DEF Cancel, AdminCancel
<1>8. ASSUME NEW b \in Booking, Complete(r, b) PROVE CouponInOrder'
  <2>1. booking[b] = "CONFIRMED"
    BY <1>8 DEF Complete, BookingMay, BookingTransitions, BookingStatus, Typed, TypeOK
  <2>2. b \in WithCoupon => b \in Counted
    BY <2>1 DEF Counted, Taken
  <2>3. /\ KnowsSeat(NewJob("complete.write", b)) /\ NewJob("complete.write", b).b = b
        /\ Go(r, NewJob("complete.write", b)) /\ UNCHANGED rows
    BY <1>8, NoSeat DEF Complete, NewJob, NoJob, rows
  <2>. QED BY <2>2, <2>3, MovesSeat
<1>9. ASSUME NEW p \in Payment, ReportOrder(r, p) \/ VerifyCheckout(r, p) PROVE CouponInOrder'
  <2>. DEFINE j == NewJob("idle", BookingOf[p])
  <2>1. j \in Job
    BY NewJobSound DEF Step, ConstantsOK
  <2>. HIDE DEF j
  <2>2. \/ Go(r, Reconciled(j, p)) \/ Go(r, StartFail(j, p)) \/ Go(r, StartSettle(j, p))
    BY <1>9 DEF ReportOrder, VerifyCheckout, j
  <2>3. UNCHANGED <<rows, gateway>>
    BY <1>9 DEF ReportOrder, VerifyCheckout
  <2>. QED BY <1>1, <1>3, <2>1, <2>2, <2>3
<1>10. ASSUME NEW p \in Payment, DeletePayment(r, p) PROVE CouponInOrder'
  <2>. DEFINE k == [NewJob("delete.write", BookingOf[p]) EXCEPT !.p = p]
  <2>1. k.step = "delete.write"
    BY DEF NewJob, NoJob
  <2>2. Go(r, k) /\ UNCHANGED <<rows, gateway>>
    BY <1>10 DEF DeletePayment
  <2>. HIDE DEF k
  <2>. QED BY <1>1, <2>1, <2>2, NoSeat
<1>11. ASSUME NEW d \in Date, Block(r, d) PROVE CouponInOrder'
  <2>. DEFINE k == [NoJob EXCEPT !.step = "block.write", !.dates = {d}]
  <2>1. k.step = "block.write"
    BY DEF NoJob
  <2>2. Go(r, k) /\ UNCHANGED <<rows, gateway>>
    BY <1>11 DEF Block
  <2>. HIDE DEF k
  <2>. QED BY <1>1, <2>1, <2>2, NoSeat
<1>12. ASSUME NEW p \in Payment, RefundReport(r, p) PROVE CouponInOrder'
  <2>1. ASSUME NEW c \in WithCoupon
        PROVE  \/ booking'[c] = booking[c]
               \/ booking[c] \notin AwaitingPayment /\ booking'[c] \notin Taken
    BY <1>12, <2>1 DEF RefundReport, Finalize, BookingMay, BookingTransitions, BookingStatus,
                       AwaitingPayment, Taken, Typed, TypeOK, ConstantsOK
  <2>2. UNCHANGED work /\ redeemed' = redeemed
    BY <1>12 DEF RefundReport
  <2>. QED BY <2>1, <2>2, RowsReserveNothing
<1>13. ASSUME NEW d \in Date, Unblock(r, d) PROVE CouponInOrder'
  BY <1>13, RowsReserveNothing DEF Unblock
<1>. QED BY <1>2, <1>5, <1>7, <1>8, <1>9, <1>10, <1>11, <1>12, <1>13 DEF Begin

\* Statements that write no booking.
LEMMA MovesCount ==
  ASSUME CouponInOrder, ConstantsOK, Typed, Typed', NEW r \in Request,
         \/ SettleRefused(r) \/ SettleTx(r) \/ FailWrite(r) \/ ExpireRead(r) \/ ExpireTx(r)
         \/ OrderRead(r) \/ CancelTx(r) \/ CancelPayments(r) \/ Deadlock(r)
         \/ RefundRequest(r) \/ RefundAccepted(r) \/ RefundFailed(r) \/ RefundRefused(r)
         \/ RefundReplyLost(r) \/ BlockWrite(r) \/ DeleteWrite(r) \/ Die(r)
  PROVE  CouponInOrder'
<1>1. UNCHANGED <<booking, redeemed>>
  BY DEF SettleRefused, SettleTx, FailWrite, ExpireRead, ExpireTx, OrderRead, CancelTx,
         CancelPayments, Deadlock, RefundRequest, RefundAccepted, RefundFailed, RefundRefused,
         RefundReplyLost, BlockWrite, DeleteWrite, Die, rows
<1>2. /\ job[r] \in Job /\ JobSound(job[r])
      /\ crossed = {} => KnowsSeat(job[r])
      /\ KnowsSeat(Resume(job[r])) /\ Resume(job[r]).step # "complete.write"
      /\ KnowsSeat(NoJob) /\ NoJob.step # "complete.write"
  BY ResumeSeat, NoSeat DEF Typed, TypeOK, JobsSound, CouponInOrder, NoJob
<1>3. ASSUME NEW q \in Request, NEW k, Go(q, k), crossed = {} => KnowsSeat(k),
             k.step # "complete.write"
      PROVE  CouponInOrder'
  <2>1. \A c \in WithCoupon : booking'[c] \in Taken => c \in Counted
    BY <1>1 DEF Counted
  <2>2. crossed = {} => KnowsSeat(k)'
    BY <1>1, <1>3 DEF KnowsSeat
  <2>. QED BY <1>1, <1>3, <2>1, <2>2, ReservesNothing
<1>4. CASE SettleRefused(r) \/ FailWrite(r) \/ CancelPayments(r) \/ Deadlock(r) \/ RefundAccepted(r)
           \/ RefundFailed(r) \/ RefundRefused(r) \/ RefundReplyLost(r) \/ BlockWrite(r)
           \/ DeleteWrite(r) \/ Die(r)
  <2>1. \E q \in Request : Go(q, NoJob) \/ Go(r, Resume(job[r]))
    BY <1>4 DEF SettleRefused, FailWrite, CancelPayments, Deadlock, Confirming, RefundAccepted,
                RefundFailed, RefundRefused, RefundReplyLost, BlockWrite, DeleteWrite, Die, Stop
  <2>. QED BY <1>2, <1>3, <2>1
<1>5. CASE SettleTx(r)
  <2>. DEFINE b == BookingOf[job[r].p]
              k == [job[r] EXCEPT !.step = "settle.commit", !.dates = nights[b]]
  <2>1. KnowsSeat(Unconfirmed(job[r])) /\ Unconfirmed(job[r]).step # "complete.write"
    BY <1>2, NoSeat DEF Unconfirmed, Job
  <2>2. k.step = "settle.commit" /\ k.b = b
    BY <1>2, <1>5 DEF SettleTx, At, JobSound, OnPayment, Job
  <2>3. \/ Go(r, Resume(job[r])) \/ Go(r, NoJob) \/ Go(r, Unconfirmed(job[r]))
        \/ Go(r, k) /\ booking[b] \in AwaitingPayment
    BY <1>5 DEF SettleTx, Stop, CanConfirm
  <2>. HIDE DEF k
  <2>4. booking[b] \in AwaitingPayment => KnowsSeat(k)
    BY <2>2 DEF KnowsSeat
  <2>. QED BY <1>2, <1>3, <2>1, <2>2, <2>3, <2>4
<1>6. CASE ExpireRead(r)
  <2>1. \A p \in Payment : /\ KnowsSeat(StartSettle(job[r], p))
                           /\ StartSettle(job[r], p).step # "complete.write"
    BY <1>2, NoSeat DEF StartSettle, Job
  <2>. DEFINE k == [job[r] EXCEPT !.step = "expire.tx", !.dates = nights[job[r].b]]
  <2>2. k.step = "expire.tx"
    BY <1>2 DEF Job
  <2>3. Go(r, Resume(job[r])) \/ Go(r, k) \/ \E p \in Payment : Go(r, StartSettle(job[r], p))
    BY <1>6 DEF ExpireRead, Answered, PaymentsOf
  <2>. HIDE DEF k
  <2>. QED BY <1>2, <1>3, <2>1, <2>2, <2>3, NoSeat
<1>7. CASE OrderRead(r)
  <2>. DEFINE k == [job[r] EXCEPT !.step = "order.tx", !.seen = booking[job[r].b]]
  <2>1. k.step = "order.tx" /\ k.b = job[r].b
    BY <1>2 DEF Job
  <2>2. Go(r, NoJob) \/ (Go(r, k) /\ booking[job[r].b] \in AwaitingPayment)
    BY <1>7 DEF OrderRead, Stop
  <2>. HIDE DEF k
  <2>3. booking[job[r].b] \in AwaitingPayment => KnowsSeat(k)
    BY <2>1 DEF KnowsSeat
  <2>. QED BY <1>2, <1>3, <2>1, <2>2, <2>3
<1>8. CASE ExpireTx(r)
  <2>. DEFINE k == [job[r] EXCEPT !.step = "expire.commit", !.freed = ToRelease(job[r].dates)]
  <2>1. k.step = "expire.commit" /\ Go(r, k)
    BY <1>2, <1>8 DEF ExpireTx, Job
  <2>. HIDE DEF k
  <2>. QED BY <1>3, <2>1, NoSeat
<1>9. CASE CancelTx(r)
  <2>. DEFINE k == [job[r] EXCEPT !.step = "cancel.commit", !.freed = ToRelease(job[r].dates)]
  <2>1. k.step = "cancel.commit" /\ k.b = job[r].b /\ k.seen = job[r].seen /\ Go(r, k)
    BY <1>2, <1>9 DEF CancelTx, Job
  <2>. HIDE DEF k
  <2>2. crossed = {} => KnowsSeat(k)
    BY <1>2, <1>9, <2>1 DEF KnowsSeat, CancelTx, At
  <2>. QED BY <1>3, <2>1, <2>2
<1>10. CASE RefundRequest(r)
  <2>1. ASSUME NEW p \in Refundable(job[r]), Go(r, [job[r] EXCEPT !.step = "refund.gateway", !.p = p])
        PROVE  CouponInOrder'
    <3>. DEFINE k == [job[r] EXCEPT !.step = "refund.gateway", !.p = p]
    <3>1. Go(r, k) /\ k.step = "refund.gateway"
      BY <1>2, <2>1 DEF Job
    <3>. HIDE DEF k
    <3>. QED BY <1>3, <3>1, NoSeat
  <2>. QED BY <1>2, <1>3, <1>10, <2>1 DEF RefundRequest
<1>. QED BY <1>4, <1>5, <1>6, <1>7, <1>8, <1>9, <1>10

\* Statements that write a booking's status: what they make live was counted.
LEMMA WritesCount ==
  ASSUME CouponInOrder, ConstantsOK, Typed, Typed', NEW r \in Request,
         \/ SettleCommit(r) \/ ExpireCommit(r) \/ OrderTx(r) \/ RefundDone(r) \/ CompleteWrite(r)
  PROVE  CouponInOrder'
<1>. DEFINE b == job[r].b
<1>1. /\ job[r] \in Job /\ JobSound(job[r]) /\ b \in Booking
      /\ crossed = {} => KnowsSeat(job[r])
      /\ redeemed' = redeemed
  BY AtWork DEF Typed, TypeOK, JobsSound, CouponInOrder, SettleCommit, ExpireCommit, OrderTx,
                RefundDone, CompleteWrite, At
<1>2. \A c \in Booking \ {b} : booking'[c] = booking[c]
  BY <1>1 DEF SettleCommit, ExpireCommit, OrderTx, RefundDone, Finalize, CompleteWrite, At,
              JobSound, OnPayment, Typed, TypeOK
<1>3. ASSUME crossed = {}, b \in WithCoupon, booking'[b] \in Taken
      PROVE  b \in Counted
  <2>1. CASE SettleCommit(r) \/ OrderTx(r)
    <3>1. booking[b] \in Taken \/ booking'[b] = booking[b]
      BY <1>1, <1>3, <2>1 DEF SettleCommit, OrderTx, At, KnowsSeat, Taken
    <3>. QED BY <1>3, <3>1 DEF Counted
  <2>2. CASE ExpireCommit(r)
    BY <1>1, <1>3, <2>2 DEF ExpireCommit, Taken, AwaitingPayment, Typed, TypeOK
  <2>3. CASE RefundDone(r)
    <3>1. booking'[b] = booking[b] \/ booking'[b] = "REFUNDED"
      BY <1>1, <2>3 DEF RefundDone, Finalize, At, JobSound, OnPayment, Typed, TypeOK
    <3>. QED BY <1>3, <3>1 DEF Counted, Taken, AwaitingPayment
  <2>4. CASE CompleteWrite(r)
    BY <1>3, <2>4 DEF CompleteWrite, Counted
  <2>. QED BY <2>1, <2>2, <2>3, <2>4
<1>4. ASSUME NEW c \in WithCoupon, crossed = {}, booking'[c] \in Taken PROVE c \in Counted
  BY <1>2, <1>3, <1>4 DEF Counted, ConstantsOK
<1>5. ASSUME NEW k, Go(r, k), k.step \in {"idle", "expire.read", "order.read", "block.write"}
      PROVE  CouponInOrder'
  <2>1. KnowsSeat(k)'
    BY <1>5 DEF KnowsSeat
  <2>2. \A c \in WithCoupon \ {b} : booking'[c] = booking[c]
    BY <1>2 DEF ConstantsOK
  <2>. QED BY <1>1, <1>4, <1>5, <2>1, <2>2, ReservesNothing
<1>6. [job[r] EXCEPT !.freed = {}] \in Job
  BY <1>1 DEF Job
<1>7. /\ Resume(job[r]).step \in {"idle", "expire.read", "order.read", "block.write"}
      /\ Resume([job[r] EXCEPT !.freed = {}]).step
           \in {"idle", "expire.read", "order.read", "block.write"}
      /\ NoJob.step = "idle"
  BY <1>1, <1>6, ResumeSeat DEF NoJob
<1>. QED BY <1>5, <1>7 DEF SettleCommit, ExpireCommit, OrderTx, RefundDone, CompleteWrite, Stop

\* Every step keeps the coupon covered.
LEMMA NextCounts ==
  ASSUME NightsInOrder, CouponInOrder, ConstantsOK, [Next]_vars
  PROVE  CouponInOrder'
<1>1. Typed /\ Typed'
  BY NextTyped DEF NightsInOrder
<1>2. ASSUME NEW r \in Request, Begin(r) \/ Work(r) \/ Die(r) PROVE CouponInOrder'
  BY <1>1, <1>2, BeginCounts, CreateInsertCounts, CancelCommitCounts, MovesCount, WritesCount
     DEF Work
<1>3. CASE World \/ UNCHANGED vars
  <2>1. UNCHANGED work /\ UNCHANGED <<booking, redeemed>>
    BY <1>3 DEF World, Pay, OrderFails, PaybackEnds, HoldElapses, DayPasses, rows, work, vars
  <2>. QED BY <1>1, <2>1, RowsReserveNothing
<1>. QED BY <1>2, <1>3 DEF Next

\* Every stay reserved under the coupon is counted, until two handlers meet
\* at one of its bookings.
THEOREM RedemptionsCount == Spec => []RedemptionsCovered
<1>1. Init => CouponInOrder
  <2>1. Init => Counted = {}
    BY ConstantsOK DEF Init, Counted, Taken, AwaitingPayment, At, NoJob
  <2>2. Init => CrossedKnown /\ \A r \in Request : KnowsSeat(job[r])
    BY ConstantsOK DEF Init, CrossedKnown, Crossed, KnowsSeat, NoJob
  <2>3. Init => Covered
    BY <2>1, FS_EmptySet DEF Init, Covered
  <2>. QED BY <2>2, <2>3 DEF CouponInOrder
<1>2. NightsInOrder /\ CouponInOrder /\ [Next]_vars => CouponInOrder'
  BY ConstantsOK, NextCounts
<1>3. NightsInOrder /\ CouponInOrder => RedemptionsCovered
  <2>. DEFINE Reserved == {b \in WithCoupon :
                             booking[b] \in AwaitingPayment \union {"CONFIRMED", "COMPLETED"}}
  <2>1. SUFFICES ASSUME NightsInOrder, CouponInOrder, crossed = {}
                 PROVE  Cardinality(Reserved) <= redeemed
    BY DEF RedemptionsCovered
  <2>2. IsFiniteSet(Counted) /\ Cardinality(Counted) <= redeemed /\ redeemed \in Nat
    BY <2>1 DEF CouponInOrder, Covered, NightsInOrder, Typed, TypeOK
  <2>3. Reserved \subseteq Counted
    BY DEF Counted, Taken
  <2>4. /\ IsFiniteSet(Reserved) /\ Cardinality(Reserved) <= Cardinality(Counted)
        /\ Cardinality(Reserved) \in Nat /\ Cardinality(Counted) \in Nat
    BY <2>2, <2>3, FS_Subset, FS_CardinalityType
  <2>. QED BY <2>2, <2>4
<1>. QED BY <1>1, <1>2, <1>3, AlwaysInOrder, PTL DEF Spec

=============================================================================
