------------------------------ MODULE Delivery ------------------------------
(***************************************************************************)
(* Notifications and the messages that go with them: the row that a        *)
(* notification is, its email and its WhatsApp message, the BullMQ queue   *)
(* that delivers and retries them, and the fallback that sends from the    *)
(* memory of the process when Redis does not take a job.                   *)
(*                                                                         *)
(* An event is one dedupeKey of one user; a call of notify without a key   *)
(* is an event of its own.  Since a row is written once, an event has at   *)
(* most one message per channel, named by the pair.                        *)
(***************************************************************************)
EXTENDS Integers, FiniteSets

CONSTANTS
  Event,            \* things users are told about
  Request,          \* requests that can be at work at once
  TypeOf,           \* an event's NotificationType
  Mailed,           \* events notified with an email
  Messaged,         \* events notified with a WhatsApp template
  EmailAttempts,    \* attempts of an email job
  Concurrency,      \* jobs the worker has in hand at once
  RedisConfigured,  \* REDIS_URL is set
  Preferences,      \* what a user's NotificationPreference can say: sets of flags
  Faults,           \* "crash", "redis", "timeout", "smtp", "replyLost", "drain", "database",
                    \* "wipe"
  None

Types == {"BOOKING_CREATED", "BOOKING_CONFIRMED", "PAYMENT_SUCCESS", "PAYMENT_FAILURE",
          "BOOKING_CANCELLED", "REFUND", "PROPERTY_APPROVED", "PROPERTY_REJECTED",
          "PROPERTY_CHANGES_REQUESTED", "PROPERTY_SUSPENDED", "NEW_REVIEW", "COUPON",
          "PROPERTY_TRUSTED", "PROPERTY_EDITED"}

Flags == {"bookingConfirmation", "paymentSuccess", "paymentFailure", "cancellation",
          "refund", "propertyApproval", "propertyRejection", "newReview", "coupon",
          "whatsapp"}

ASSUME ConstantsOK ==
  /\ TypeOf \in [Event -> Types]
  /\ Mailed \subseteq Event
  /\ Messaged \subseteq Event
  /\ EmailAttempts \in Nat \ {0}
  /\ Concurrency \in Nat \ {0}
  /\ RedisConfigured \in BOOLEAN
  /\ Preferences \subseteq SUBSET Flags
  /\ Faults \subseteq {"crash", "redis", "timeout", "smtp", "replyLost", "drain", "database",
                "wipe"}
  /\ None \notin Event \union Flags

Message == Event \X {"email", "whatsapp"}
Mail(e) == <<e, "email">>
Template(e) == <<e, "whatsapp">>
IsMail(m) == m[2] = "email"

VARIABLES
  rows,       \* events whose Notification row is written
  job,        \* what each request is doing
  phase,      \* the process: "up", "closing", "draining", "down"
  queue,      \* the BullMQ job of each message
  tries,      \* its attemptsMade
  stalls,     \* how often it was found stalled
  task,       \* the in-process delivery of each message
  copies,     \* times the provider accepted it
  mishaps,    \* ghost: events that can make one more copy of it
  dropped     \* ghost: messages a fault made the process forget, or that a
              \* look-up found no address for

sending == <<queue, tries, stalls, task, copies, mishaps>>
vars == <<rows, job, phase, sending, dropped>>

Step == {"idle", "row", "email.user", "email.add", "phone.user", "phone.add"}

\* wa: prefs.whatsapp as notify read it.
Job == [step : Step, e : Event \union {None}, wa : BOOLEAN]

NoJob == [step |-> "idle", e |-> None, wa |-> FALSE]

At(r, step) == job[r].step = step
Go(r, j) == job' = [job EXCEPT ![r] = j]
GoTo(r, step) == Go(r, [job[r] EXCEPT !.step = step])
Return(r) == Go(r, NoJob)

Running == phase \in {"up", "closing"}

\* preferenceKeyForType.
PreferenceKey(t) ==
  CASE t \in {"BOOKING_CREATED", "BOOKING_CONFIRMED"} -> "bookingConfirmation"
    [] t = "PAYMENT_SUCCESS" -> "paymentSuccess"
    [] t = "PAYMENT_FAILURE" -> "paymentFailure"
    [] t = "BOOKING_CANCELLED" -> "cancellation"
    [] t = "REFUND" -> "refund"
    [] t = "PROPERTY_APPROVED" -> "propertyApproval"
    [] t \in {"PROPERTY_REJECTED", "PROPERTY_CHANGES_REQUESTED", "PROPERTY_SUSPENDED"}
         -> "propertyRejection"
    [] t = "NEW_REVIEW" -> "newReview"
    [] t = "COUPON" -> "coupon"
    [] OTHER -> None

\* isNotificationAllowed.
Allowed(e, flags) == PreferenceKey(TypeOf[e]) \in flags \union {None}

Init ==
  /\ rows = {}
  /\ job = [r \in Request |-> NoJob]
  /\ phase = "up"
  /\ queue = [m \in Message |-> "none"]
  /\ tries = [m \in Message |-> 0]
  /\ stalls = [m \in Message |-> 0]
  /\ task = [m \in Message |-> "none"]
  /\ copies = [m \in Message |-> 0]
  /\ mishaps = [m \in Message |-> 0]
  /\ dropped = {}

-----------------------------------------------------------------------------
(* notify.                                                                 *)

\* The preferences are what the user last wrote, or the defaults.
Notify(r, e) ==
  /\ At(r, "idle")
  /\ phase = "up"
  /\ \E flags \in Preferences :
       /\ Allowed(e, flags)
       /\ Go(r, [step |-> "row", e |-> e, wa |-> "whatsapp" \in flags])
  /\ UNCHANGED <<rows, phase, sending, dropped>>

\* Where notify goes once the row is written, and once the email is handed over.
AfterEmail(j) == IF j.e \in Messaged /\ j.wa THEN "phone.user" ELSE "idle"
AfterRow(j) == IF j.e \in Mailed THEN "email.user" ELSE AfterEmail(j)

Continue(r, step) == IF step = "idle" THEN Return(r) ELSE GoTo(r, step)

AlwaysNew(e) == TRUE                                               \* mutant

\* The unique index on (userId, dedupeKey): a second row is refused.
IsNew(e) == e \notin rows

InsertRow(r) ==
  LET e == job[r].e IN
  /\ At(r, "row")
  /\ Running
  /\ IF IsNew(e)
       THEN rows' = rows \union {e} /\ Continue(r, AfterRow(job[r]))
       ELSE Return(r) /\ UNCHANGED rows
  /\ UNCHANGED <<phase, sending, dropped>>

\* Any other failure of the insert is logged: no row, and nothing is owed.
InsertFails(r) ==
  /\ "database" \in Faults
  /\ At(r, "row")
  /\ Running
  /\ Return(r)
  /\ UNCHANGED <<rows, phase, sending, dropped>>

\* What the request still owes when it is at one of its look-ups or enqueues.
Outstanding(j) ==
  (IF j.step \in {"email.user", "email.add"} THEN {Mail(j.e)} ELSE {})
    \union (IF /\ j.step \in {"email.user", "email.add", "phone.user", "phone.add"}
               /\ j.e \in Messaged
               /\ j.wa
              THEN {Template(j.e)} ELSE {})

\* The account may have been disabled, the phone changed: the row says what
\* administrators and users made of it.
FindUser(r) ==
  /\ At(r, "email.user")
  /\ Running
  /\ \/ GoTo(r, "email.add") /\ UNCHANGED dropped
     \/ Continue(r, AfterEmail(job[r])) /\ dropped' = dropped \union {Mail(job[r].e)}
  /\ UNCHANGED <<rows, phase, sending>>

FindPhone(r) ==
  /\ At(r, "phone.user")
  /\ Running
  /\ \/ GoTo(r, "phone.add") /\ UNCHANGED dropped
     \/ Return(r) /\ dropped' = dropped \union {Template(job[r].e)}
  /\ UNCHANGED <<rows, phase, sending>>

\* A look-up that throws is caught around both channels: the second is not tried.
LookupFails(r) ==
  /\ "database" \in Faults
  /\ job[r].step \in {"email.user", "phone.user"}
  /\ Running
  /\ dropped' = dropped \union Outstanding(job[r])
  /\ Return(r)
  /\ UNCHANGED <<rows, phase, sending>>

-----------------------------------------------------------------------------
(* enqueue: Redis takes the job in time, refuses it, or takes it too late. *)

Adding(r) == IF At(r, "email.add") THEN Mail(job[r].e) ELSE Template(job[r].e)

AfterAdd(r) == IF At(r, "email.add") THEN AfterEmail(job[r]) ELSE "idle"

Queued(m) == queue' = [queue EXCEPT ![m] = "waiting"]
NotSent(m) == UNCHANGED task                                       \* mutant

\* The catch of enqueue: sent from here instead.
InProcess(m) == task' = [task EXCEPT ![m] = "running"]

AddAnswered(r) ==
  /\ job[r].step \in {"email.add", "phone.add"}
  /\ Running
  /\ RedisConfigured
  /\ Queued(Adding(r))
  /\ Continue(r, AfterAdd(r))
  /\ UNCHANGED <<rows, phase, tries, stalls, task, copies, mishaps, dropped>>

AddRefused(r) ==
  /\ job[r].step \in {"email.add", "phone.add"}
  /\ Running
  /\ ~RedisConfigured \/ "redis" \in Faults
  /\ InProcess(Adding(r))
  /\ Continue(r, AfterAdd(r))
  /\ UNCHANGED <<rows, phase, queue, tries, stalls, copies, mishaps, dropped>>

AddLate(r) ==
  /\ job[r].step \in {"email.add", "phone.add"}
  /\ Running
  /\ RedisConfigured
  /\ "timeout" \in Faults
  /\ Queued(Adding(r))
  /\ InProcess(Adding(r))
  /\ mishaps' = [mishaps EXCEPT ![Adding(r)] = @ + 1]
  /\ Continue(r, AfterAdd(r))
  /\ UNCHANGED <<rows, phase, tries, stalls, copies, dropped>>

-----------------------------------------------------------------------------
(* The worker.                                                             *)

HandStaysFull ==                                                   \* mutant
  {m \in Message : queue[m] \in {"active", "accepted", "orphan", "failed"}}
InHand == {m \in Message : queue[m] \in {"active", "accepted", "orphan"}}

Requeue(m, s) == queue' = [queue EXCEPT ![m] = s]
AddCopy(m) == copies' = [copies EXCEPT ![m] = @ + 1]

SlotFree == Cardinality(InHand) < Concurrency

Take(m) ==
  /\ phase \in {"up", "closing"}
  /\ queue[m] = "waiting"
  /\ SlotFree
  /\ Requeue(m, "active")
  /\ UNCHANGED <<rows, job, phase, tries, stalls, task, copies, mishaps, dropped>>

Accept(m) ==
  /\ phase # "down"
  /\ queue[m] = "active"
  /\ AddCopy(m)
  /\ Requeue(m, "accepted")
  /\ UNCHANGED <<rows, job, phase, tries, stalls, task, mishaps, dropped>>

Acknowledge(m) ==
  /\ phase # "down"
  /\ queue[m] = "accepted"
  /\ Requeue(m, "done")
  /\ UNCHANGED <<rows, job, phase, tries, stalls, task, copies, mishaps, dropped>>

\* sendTemplate swallows a refusal: the job counts as done.
RefusedByMeta(m) ==
  /\ phase # "down"
  /\ "smtp" \in Faults
  /\ ~IsMail(m)
  /\ queue[m] = "active"
  /\ Requeue(m, "done")
  /\ UNCHANGED <<rows, job, phase, tries, stalls, task, copies, mishaps, dropped>>

RetryAlways(m) == TRUE                                             \* mutant
RetryLeft(m) == tries[m] + 1 < EmailAttempts

\* The job fails: one more attempt after a pause, or the failed list.
Fail(m) ==
  /\ tries' = [tries EXCEPT ![m] = @ + 1]
  /\ Requeue(m, IF RetryLeft(m) THEN "delayed" ELSE "failed")

\* The SMTP server refuses, or takes the email and its answer is lost.
Throw(m) ==
  /\ phase # "down"
  /\ IsMail(m)
  /\ \/ /\ "smtp" \in Faults
        /\ queue[m] = "active"
        /\ UNCHANGED mishaps
     \/ /\ "replyLost" \in Faults
        /\ queue[m] = "accepted"
        /\ mishaps' = [mishaps EXCEPT ![m] = @ + 1]
  /\ Fail(m)
  /\ UNCHANGED <<rows, job, phase, stalls, task, copies, dropped>>

\* The pause before the next attempt is over.
Backoff(m) ==
  /\ phase # "down"
  /\ queue[m] = "delayed"
  /\ Requeue(m, "waiting")
  /\ UNCHANGED <<rows, job, phase, tries, stalls, task, copies, mishaps, dropped>>

\* BullMQ finds a job whose lock ran out: back to the queue once, then failed.
Reclaim(m) ==
  /\ phase = "up"
  /\ queue[m] = "stalled"
  /\ stalls' = [stalls EXCEPT ![m] = @ + 1]
  /\ Requeue(m, IF stalls[m] = 0 THEN "waiting" ELSE "failed")
  /\ UNCHANGED <<rows, job, phase, tries, task, copies, mishaps, dropped>>

\* Redis keeps nothing on disk: its restart loses every job.  The worker
\* finishes those in hand, and finds nothing to acknowledge.
RedisRestarts ==
  LET gone == {m \in Message : queue[m] \in {"waiting", "delayed", "stalled",
                                            "active", "accepted"}}
  IN /\ "wipe" \in Faults
     /\ gone # {}
     /\ queue' = [m \in Message |-> IF m \notin gone THEN queue[m]
                                    ELSE IF queue[m] = "active" THEN "orphan" ELSE "lost"]
     /\ dropped' = dropped \union gone
     /\ UNCHANGED <<rows, job, phase, tries, stalls, task, copies, mishaps>>

\* The send goes through or not; a failure is not tried again.
FinishOrphan(m) ==
  /\ phase # "down"
  /\ queue[m] = "orphan"
  /\ \/ AddCopy(m)
     \/ "smtp" \in Faults /\ UNCHANGED copies
  /\ Requeue(m, "lost")
  /\ UNCHANGED <<rows, job, phase, tries, stalls, task, mishaps, dropped>>

-----------------------------------------------------------------------------
(* BackgroundWork.                                                         *)

TaskSends(m) ==
  /\ phase # "down"
  /\ task[m] = "running"
  /\ task' = [task EXCEPT ![m] = "done"]
  /\ AddCopy(m)
  /\ UNCHANGED <<rows, job, phase, queue, tries, stalls, mishaps, dropped>>

\* A failure is logged and that is all.
TaskFails(m) ==
  /\ phase # "down"
  /\ "smtp" \in Faults
  /\ task[m] = "running"
  /\ task' = [task EXCEPT ![m] = "failed"]
  /\ UNCHANGED <<rows, job, phase, queue, tries, stalls, copies, mishaps, dropped>>

-----------------------------------------------------------------------------
(* The process stops in an orderly way, or not.                            *)

Tasks == {m \in Message : task[m] = "running"}

Sigterm ==
  /\ phase = "up"
  /\ phase' = "closing"
  /\ UNCHANGED <<rows, job, sending, dropped>>

\* The HTTP server has answered what was in flight; the worker stops.
Drain ==
  /\ phase = "closing"
  /\ \A r \in Request : At(r, "idle")
  /\ phase' = "draining"
  /\ UNCHANGED <<rows, job, sending, dropped>>

NothingDrained == TRUE                                             \* mutant
Drained == Tasks = {}

\* worker.close waits for the jobs in hand, drain for the tasks or ten seconds.
Exit ==
  /\ phase = "draining"
  /\ InHand = {}
  /\ \/ Drained /\ UNCHANGED dropped
     \/ "drain" \in Faults /\ dropped' = dropped \union Tasks
  /\ task' = [m \in Message |-> IF m \in Tasks THEN "lost" ELSE task[m]]
  /\ phase' = "down"
  /\ UNCHANGED <<rows, job, queue, tries, stalls, copies, mishaps>>

\* What is accepted and not acknowledged will be sent again.
Crash ==
  /\ "crash" \in Faults
  /\ phase # "down"
  /\ phase' = "down"
  /\ dropped' = dropped \union Tasks \union UNION {Outstanding(job[r]) : r \in Request}
  /\ job' = [r \in Request |-> NoJob]
  /\ task' = [m \in Message |-> IF m \in Tasks THEN "lost" ELSE task[m]]
  /\ mishaps' = [m \in Message |-> mishaps[m] + (IF queue[m] = "accepted" THEN 1 ELSE 0)]
  /\ queue' = [m \in Message |-> CASE queue[m] = "orphan" -> "lost"
                                   [] queue[m] \in {"active", "accepted"} -> "stalled"
                                   [] OTHER -> queue[m]]
  /\ UNCHANGED <<rows, tries, stalls, copies>>

Start ==
  /\ phase = "down"
  /\ phase' = "up"
  /\ UNCHANGED <<rows, job, sending, dropped>>

-----------------------------------------------------------------------------
Handler(r) ==
  \/ InsertRow(r)
  \/ InsertFails(r)
  \/ FindUser(r)
  \/ FindPhone(r)
  \/ LookupFails(r)
  \/ AddAnswered(r)
  \/ AddRefused(r)
  \/ AddLate(r)

Worker(m) ==
  \/ Take(m)
  \/ Accept(m)
  \/ Acknowledge(m)
  \/ RefusedByMeta(m)
  \/ Throw(m)
  \/ Backoff(m)
  \/ Reclaim(m)
  \/ FinishOrphan(m)

Background(m) == TaskSends(m) \/ TaskFails(m)

Restart == Drain \/ Exit \/ Start

Next ==
  \/ \E r \in Request : (\E e \in Event : Notify(r, e)) \/ Handler(r)
  \/ \E m \in Message : Worker(m) \/ Background(m)
  \/ Restart
  \/ Sigterm
  \/ Crash
  \/ RedisRestarts

Spec == Init /\ [][Next]_vars

\* Requests that await go on, background tasks end, a process that was asked to
\* stop stops, and a stopped one is started again.  The worker is given its
\* turn time and again although restarts interrupt it.
Fairness ==
  /\ WF_vars(Restart)
  /\ \A r \in Request : WF_vars(Handler(r))
  /\ \A m \in Message : SF_vars(Worker(m)) /\ WF_vars(Background(m))

FairSpec == Spec /\ Fairness

-----------------------------------------------------------------------------
\* Types.  An email is never tried more often than EMAIL_JOB says
\* (delivery-queue.service.ts:46-52).
TypeOK ==
  /\ rows \subseteq Event
  /\ job \in [Request -> Job]
  /\ phase \in {"up", "closing", "draining", "down"}
  /\ queue \in [Message -> {"none", "waiting", "active", "accepted", "delayed",
                            "stalled", "done", "failed", "orphan", "lost"}]
  /\ tries \in [Message -> 0 .. EmailAttempts]
  /\ stalls \in [Message -> 0 .. 2]
  /\ task \in [Message -> {"none", "running", "done", "failed", "lost"}]
  /\ copies \in [Message -> Nat]
  /\ mishaps \in [Message -> Nat]
  /\ dropped \subseteq Message

\* A message is accepted once, and once more for each accident that the code
\* answers with another attempt: an enqueue that timed out although Redis took
\* it (delivery-queue.service.ts:195-208), a crash or a lost answer after the
\* provider took it.
NoMoreCopies == \A m \in Message : copies[m] <= 1 + mishaps[m]

\* Every job Redis took comes to an end: sent, in the failed list, or lost with
\* Redis's memory, however often the process is restarted, crashes or is
\* refused (EMAIL_JOB and WHATSAPP_JOB, delivery-queue.service.ts:46-63).
QueuedSettles ==
  \A m \in Message : queue[m] = "waiting" ~> queue[m] \in {"done", "failed", "lost"}

Tried(m) == copies[m] > 0 \/ queue[m] \in {"done", "failed"} \/ task[m] = "failed"

\* What a notification owes is tried, through refusals, retries and any number
\* of orderly restarts, "so a normal restart does not drop a confirmation email"
\* (background-work.service.ts:14-15); excused are a look-up that throws or finds
\* no address, and a message that a kill, an overrun drain or a restart of Redis
\* took from the memory it was in.
OwedIsTried ==
  \A m \in Message :
    (\E r \in Request : m \in Outstanding(job[r])) ~> Tried(m) \/ m \in dropped

Settled(m) == queue[m] # "none" \/ task[m] # "none" \/ m \in dropped

\* A request lets go of a message it owes only by handing it to Redis or to the
\* memory of the process, unless the process dies, a look-up throws or finds no
\* address (notifications.service.ts:172-185).
HandedOver ==
  [][\A r \in Request : \A m \in Outstanding(job[r]) \ Outstanding(job'[r]) : Settled(m)']_vars
=============================================================================
