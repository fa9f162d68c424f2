------------------------------ MODULE Refunds ------------------------------
(***************************************************************************)
(* The refunds of one captured payment, statement by statement: several    *)
(* rows (a failed one is retried by a new one, an admin may refund a part),*)
(* the gateway's refund behind each row, its webhook, and the admin's      *)
(* reconcile.  Reservations keeps one refund in full per payment.          *)
(*                                                                         *)
(* A handler is at one of its statements; what it read before is kept in   *)
(* its job and may be stale when it writes.                                *)
(***************************************************************************)
EXTENDS Integers, FiniteSets, Functions, Statuses

CONSTANTS
  Row,        \* ids of refund rows
  Request,    \* handlers that can be at work at once
  Captured,   \* what the guest paid
  Asked,      \* amounts an admin names; leaving it out asks for the rest
  Faults,     \* "refusal", "die", "lostReply", "earlyReport"
  None

ASSUME ConstantsOK ==
  /\ Captured \in Nat \ {0}
  /\ Asked \subseteq Nat \ {0}
  /\ Faults \subseteq {"refusal", "die", "lostReply", "earlyReport"}
  /\ None \notin Row
  /\ IsFiniteSet(Row)

VARIABLES
  booking,    \* status of the booking
  payment,    \* status of its captured payment
  row,        \* status of each Refund row ("none": not there)
  amount,     \* what each row asks for
  known,      \* rows with a providerRefundId
  remote,     \* the gateway's refund behind each row
  told,       \* rows whose outcome the webhook was answered 200 for
  job         \* what each handler is doing

rows == <<booking, payment, row, amount, known>>
vars == <<booking, payment, row, amount, known, remote, told, job>>

Step == {"idle", "ask.read", "ask.open", "ask.create", "ask.mark", "ask.gateway",
         "ask.record", "report.write", "fail.mark",
         "final.read", "final.payment", "final.booking"}

\* sum: the amount wanted; whole: it is all that is left, later that all is
\* refunded; seen: the gateway's word, later the booking's status; hook: the
\* handler is a webhook's.
Job == [step : Step, x : Row \union {None}, sum : Nat, whole : BOOLEAN,
        seen : RefundStatus \union BookingStatus \union {"none"}, hook : BOOLEAN]

NoJob == [step |-> "idle", x |-> None, sum |-> 0, whole |-> FALSE,
          seen |-> "none", hook |-> FALSE]

Idle(r) == job[r] = NoJob
At(r, step) == job[r].step = step
Go(r, j) == job' = [job EXCEPT ![r] = j]
Throw(r) == Go(r, NoJob)

\* Only a webhook that was handled to its end is recorded as processed.
Return(r) ==
  /\ Go(r, NoJob)
  /\ told' = IF job[r].hook THEN told \union {job[r].x} ELSE told

-----------------------------------------------------------------------------
Total(S) == SumFunctionOnSet(amount, S)

Refunded == Total({x \in Row : row[x] = "COMPLETED"})
Open == {x \in Row : row[x] \in OpenRefund}

\* What the gateway gave back, and what it has accepted to give back.
PaidBack == Total({x \in Row : remote[x] = "DONE"})
TakenBack == Total({x \in Row : remote[x] \in {"PENDING", "DONE"}})

MappedEarly(s) == IF s = "FAILED" THEN "FAILED" ELSE "COMPLETED"    \* mutant

\* mapProviderRefundStatus.
Mapped(s) == CASE s = "DONE" -> "COMPLETED" [] s = "FAILED" -> "FAILED"
               [] OTHER -> "PROCESSING"

Init ==
  /\ booking \in {"CONFIRMED", "EXPIRED"}      \* paid in time, or too late
  /\ payment = "SUCCESS"
  /\ row = [x \in Row |-> "none"]
  /\ amount = [x \in Row |-> 0]
  /\ known = {}
  /\ remote = [x \in Row |-> "none"]
  /\ told = {}
  /\ job = [r \in Request |-> NoJob]

-----------------------------------------------------------------------------
(* The booking's handlers; their own races are those of Reservations.      *)

\* The bound: rows nobody is about to take.  The last one is kept for the
\* cancellation.
RowsLeft == Cardinality({x \in Row : row[x] = "none"})
              - Cardinality({r \in Request : job[r].step \in {"ask.read", "ask.open", "ask.create"}})

Cancel(r) ==
  /\ Idle(r)
  /\ RowsLeft > 0
  /\ booking = "CONFIRMED"
  /\ booking' = "CANCELLED"
  /\ Go(r, [NoJob EXCEPT !.step = "ask.read"])
  /\ UNCHANGED <<payment, row, amount, known, remote, told>>

Complete ==
  /\ booking = "CONFIRMED"
  /\ booking' = "COMPLETED"
  /\ UNCHANGED <<payment, row, amount, known, remote, told, job>>

-----------------------------------------------------------------------------
(* requestRefundForBooking.                                                *)

\* sum = 0 stands for an amount left out.
AdminRefund(r) ==
  /\ Idle(r)
  /\ RowsLeft > (IF booking = "CONFIRMED" THEN 1 ELSE 0)
  /\ \E n \in Asked \union {0} : Go(r, [NoJob EXCEPT !.step = "ask.read", !.sum = n])
  /\ UNCHANGED <<rows, remote, told>>

Remaining == Captured - Refunded

AskRead(r) ==
  LET wanted == IF job[r].sum = 0 THEN Remaining ELSE job[r].sum IN
  /\ At(r, "ask.read")
  /\ IF /\ payment \in {"SUCCESS", "REFUND_PENDING", "REFUND_FAILED"}
        /\ wanted \in 1 .. Remaining
       THEN Go(r, [job[r] EXCEPT !.step = "ask.open", !.sum = wanted,
                                 !.whole = (wanted = Remaining)])
       ELSE Throw(r)
  /\ UNCHANGED <<rows, remote, told>>

NothingRequested == \A x \in Row : row[x] # "REQUESTED"          \* mutant
NothingOpen == Open = {}

AskOpen(r) ==
  /\ At(r, "ask.open")
  /\ IF NothingOpen THEN Go(r, [job[r] EXCEPT !.step = "ask.create"]) ELSE Throw(r)
  /\ UNCHANGED <<rows, remote, told>>

AskCreate(r) ==
  /\ At(r, "ask.create")
  /\ \E x \in {y \in Row : row[y] = "none"} :
       /\ row' = [row EXCEPT ![x] = "REQUESTED"]
       /\ amount' = [amount EXCEPT ![x] = job[r].sum]
       /\ Go(r, [job[r] EXCEPT !.step = IF job[r].whole THEN "ask.mark" ELSE "ask.gateway",
                               !.x = x])
  /\ UNCHANGED <<booking, payment, known, remote, told>>

AskMark(r) ==
  /\ At(r, "ask.mark")
  /\ payment' = "REFUND_PENDING"
  /\ Go(r, [job[r] EXCEPT !.step = "ask.gateway"])
  /\ UNCHANGED <<booking, row, amount, known, remote, told>>

\* The gateway refunds no more than was captured, and may have finished, or
\* failed, by the time it answers.
Accept(r) ==
  LET x == job[r].x IN
  /\ At(r, "ask.gateway")
  /\ TakenBack + amount[x] <= Captured
  /\ \E s \in {"PENDING", "DONE"} \union (IF "refusal" \in Faults THEN {"FAILED"} ELSE {}) :
       /\ remote' = [remote EXCEPT ![x] = s]
       /\ \/ Go(r, [job[r] EXCEPT !.step = "ask.record", !.seen = Mapped(s)])
          \/ "lostReply" \in Faults /\ Throw(r)
  /\ UNCHANGED <<rows, told>>

\* A refusal is reported, not thrown: the row fails and keeps no id.
Refuse(r) ==
  LET x == job[r].x IN
  /\ At(r, "ask.gateway")
  /\ "refusal" \in Faults \/ TakenBack + amount[x] > Captured
  /\ row' = [row EXCEPT ![x] = "FAILED"]
  /\ Go(r, [job[r] EXCEPT !.step = "fail.mark"])
  /\ UNCHANGED <<booking, payment, amount, known, remote, told>>

Unidentified(x) == known                                        \* mutant
Identified(x) == known \union {x}

\* An immediate failure leaves the payment as it is.
AskRecord(r) ==
  LET x == job[r].x IN
  /\ At(r, "ask.record")
  /\ row' = [row EXCEPT ![x] = job[r].seen]
  /\ known' = Identified(x)
  /\ Go(r, IF job[r].seen = "COMPLETED" THEN [job[r] EXCEPT !.step = "final.read"] ELSE NoJob)
  /\ UNCHANGED <<booking, payment, amount, remote, told>>

-----------------------------------------------------------------------------
(* completeRefundFromProvider.                                             *)

\* Nothing to do for a settled row.
Heard(r, x, j) ==
  IF row[x] \in {"COMPLETED", "FAILED"}
    THEN Go(r, NoJob) /\ told' = IF j.hook THEN told \union {x} ELSE told
    ELSE /\ Go(r, [j EXCEPT !.step = "report.write", !.x = x, !.seen = Mapped(remote[x])])
         /\ UNCHANGED told

\* The webhook of a finished refund.
Report(r, x) ==
  /\ Idle(r)
  /\ remote[x] \in {"DONE", "FAILED"}
  /\ x \in known
  /\ x \notin told
  /\ Heard(r, x, [NoJob EXCEPT !.hook = TRUE])
  /\ UNCHANGED <<rows, remote>>

\* It finds no row by its id: answered 200, and never sent again.
ReportEarly(r, x) ==
  /\ "earlyReport" \in Faults
  /\ Idle(r)
  /\ remote[x] \in {"DONE", "FAILED"}
  /\ x \notin known \union told
  /\ told' = told \union {x}
  /\ UNCHANGED <<rows, remote, job>>

\* reconcile: one row of reconcileRefunds' loop.
Reconcile(r, x) ==
  /\ Idle(r)
  /\ payment \in {"REFUND_PENDING", "SUCCESS"}
  /\ x \in Open \intersect known
  /\ Heard(r, x, NoJob)
  /\ UNCHANGED <<rows, remote>>

ReportWrite(r) ==
  LET x == job[r].x
      s == job[r].seen
  IN
  /\ At(r, "report.write")
  /\ row' = [row EXCEPT ![x] = s]
  /\ CASE s = "COMPLETED" -> Go(r, [job[r] EXCEPT !.step = "final.read"]) /\ UNCHANGED told
       [] s = "FAILED"    -> Go(r, [job[r] EXCEPT !.step = "fail.mark"]) /\ UNCHANGED told
       [] OTHER           -> Return(r)
  /\ UNCHANGED <<booking, payment, amount, known, remote>>

FailMark(r) ==
  /\ At(r, "fail.mark")
  /\ payment' = "REFUND_FAILED"
  /\ Return(r)
  /\ UNCHANGED <<booking, row, amount, known, remote>>

-----------------------------------------------------------------------------
(* finalizeRefundedPayment.                                                *)

PartialNever(sum) == FALSE                                      \* mutant
Partial(sum) == sum < Captured

FinalRead(r) ==
  /\ At(r, "final.read")
  /\ Go(r, [job[r] EXCEPT !.step = "final.payment", !.whole = ~Partial(Refunded),
                            !.seen = booking])
  /\ UNCHANGED <<rows, remote, told>>

FinalPayment(r) ==
  /\ At(r, "final.payment")
  /\ IF ~job[r].whole
       THEN payment' = "SUCCESS" /\ Return(r)
       ELSE /\ payment' = "REFUNDED"
            /\ IF job[r].seen = "REFUNDED" THEN Return(r)
               ELSE Go(r, [job[r] EXCEPT !.step = "final.booking"]) /\ UNCHANGED told
  /\ UNCHANGED <<booking, row, amount, known, remote>>

FinalBooking(r) ==
  /\ At(r, "final.booking")
  /\ IF BookingMay(job[r].seen, "REFUNDED")
       THEN booking' = "REFUNDED" /\ Return(r)
       ELSE UNCHANGED <<booking, told>> /\ Throw(r)
  /\ UNCHANGED <<payment, row, amount, known, remote>>

-----------------------------------------------------------------------------
RemoteEnds(x) ==
  /\ remote[x] = "PENDING"
  /\ \E s \in IF "refusal" \in Faults THEN {"DONE", "FAILED"} ELSE {"DONE"} :
       remote' = [remote EXCEPT ![x] = s]
  /\ UNCHANGED <<rows, told, job>>

Die(r) ==
  /\ "die" \in Faults
  /\ ~Idle(r)
  /\ Throw(r)
  /\ UNCHANGED <<rows, remote, told>>

Work(r) ==
  \/ AskRead(r) \/ AskOpen(r) \/ AskCreate(r) \/ AskMark(r) \/ Accept(r) \/ Refuse(r)
  \/ AskRecord(r) \/ ReportWrite(r) \/ FailMark(r)
  \/ FinalRead(r) \/ FinalPayment(r) \/ FinalBooking(r)

Next ==
  \/ \E r \in Request :
       \/ Cancel(r) \/ AdminRefund(r) \/ Work(r) \/ Die(r)
       \/ \E x \in Row : Report(r, x) \/ ReportEarly(r, x) \/ Reconcile(r, x)
  \/ Complete
  \/ \E x \in Row : RemoteEnds(x)

Spec == Init /\ [][Next]_vars

\* Handlers that await resume, the gateway finishes what it accepted and
\* sends a webhook again until it is answered 200.
FairSpec ==
  /\ Spec
  /\ \A r \in Request : WF_vars(Work(r))
  /\ \A x \in Row : WF_vars(RemoteEnds(x)) /\ SF_vars(\E r \in Request : Report(r, x))

-----------------------------------------------------------------------------
(* Properties.                                                             *)

\* Every variable keeps its type.
TypeOK ==
  /\ booking \in BookingStatus
  /\ payment \in PaymentStatus
  /\ row \in [Row -> RefundStatus \union {"none"}]
  /\ amount \in [Row -> Nat]
  /\ known \subseteq Row
  /\ remote \in [Row -> {"none", "PENDING", "DONE", "FAILED"}]
  /\ told \subseteq Row
  /\ job \in [Request -> Job]

\* A row is called completed only for money the gateway really gave back: not
\* for a stale answer, another row's refund or one that failed meanwhile.
CompletedIsPaid == \A x \in Row : row[x] = "COMPLETED" => remote[x] = "DONE"

\* A payment or a booking is called refunded only when the gateway has given
\* back all of the money, whichever handlers overlap and whatever fails.
RefundedIsPaid ==
  payment = "REFUNDED" \/ booking = "REFUNDED" => PaidBack = Captured

\* The refunds in flight or done never come to more than was captured
\* (requestRefundForBooking's remaining amount and its one open refund).
AskedWithinCaptured == Total(Open \union {x \in Row : row[x] = "COMPLETED"}) <= Captured

\* Between requests, the payment is REFUNDED exactly when its completed
\* refunds make up the whole: no part of the money is forgotten or counted
\* twice over partial, failed and retried refunds.
PaymentTellsRefunds ==
  (\A r \in Request : Idle(r)) => (payment = "REFUNDED" <=> Refunded = Captured)

\* What the gateway has paid back is eventually recorded as completed.
RefundRecorded ==
  \A x \in Row : (remote[x] = "DONE") ~> (row[x] = "COMPLETED")
=============================================================================
