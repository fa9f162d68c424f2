---------------------------- MODULE RefundsSound ----------------------------
(***************************************************************************)
(* For any number of rows, any amounts and any faults: the variables keep  *)
(* their types, a refund is called completed, and a payment or a booking   *)
(* refunded, only when the gateway has really given the money back,        *)
(* whichever handlers overlap and wherever they die.                       *)
(***************************************************************************)
EXTENDS Refunds, FiniteSetTheorems, WellFoundedInduction, TLAPS

\* A row at the gateway's door belongs to the one handler that made it.
AtDoor(r) == job[r].step \in {"ask.mark", "ask.gateway"}

DoorSound ==
  /\ \A r \in Request : AtDoor(r) =>
       job[r].x \in Row /\ row[job[r].x] # "none" /\ remote[job[r].x] = "none"
  /\ \A r, q \in Request : AtDoor(r) /\ AtDoor(q) /\ r # q => job[r].x # job[q].x

\* What a handler is about to write of a row was true when it was told, and
\* a refund given back stays given back.
WordSound ==
  \A r \in Request :
    /\ job[r].step \in {"ask.record", "report.write"} =>
         /\ job[r].x \in Row
         /\ row[job[r].x] # "none"
         /\ job[r].seen \in RefundStatus
         /\ job[r].seen = "COMPLETED" => remote[job[r].x] = "DONE"
    /\ job[r].step = "final.booking" => job[r].seen \in BookingStatus
    /\ job[r].step = "final.payment" => job[r].seen \in BookingStatus
    /\ job[r].hook => job[r].x \in Row

NoRowNoMoney == \A x \in Row : row[x] = "none" => remote[x] = "none" /\ x \notin known

Sound == TypeOK /\ DoorSound /\ WordSound /\ NoRowNoMoney /\ CompletedIsPaid

\* A handler that moves on to a proper job keeps the jobs typed.
LEMMA GoTyped ==
  ASSUME TypeOK, NEW r \in Request, NEW j \in Job, Go(r, j)
  PROVE  job' \in [Request -> Job]
BY DEF TypeOK, Go

\* No job at all is a job.
LEMMA NoJobTyped == NoJob \in Job
BY DEF NoJob, Job, Step

\* The gateway's word is a refund status.
LEMMA MappedTyped == \A s : Mapped(s) \in RefundStatus
BY DEF Mapped, RefundStatus

\* Initially nothing is refunded and nobody is at work.
LEMMA InitSound == Init => Sound
<1> SUFFICES ASSUME Init PROVE Sound
  OBVIOUS
<1>1. TypeOK
  BY NoJobTyped DEF Init, TypeOK, BookingStatus, PaymentStatus
<1>2. \A r \in Request : job[r].step = "idle" /\ job[r].hook = FALSE
  BY DEF Init, NoJob
<1>3. DoorSound /\ WordSound
  BY <1>2 DEF DoorSound, WordSound, AtDoor
<1>. QED BY <1>1, <1>3 DEF Init, Sound, NoRowNoMoney, CompletedIsPaid

\* Handlers starting: cancel and the admin's refund.
LEMMA BeginSound ==
  ASSUME Sound, ConstantsOK, NEW r \in Request, Cancel(r) \/ AdminRefund(r)
  PROVE  Sound'
<1>1. PICK j \in Job : Go(r, j) /\ j.step = "ask.read" /\ j.hook = FALSE
  <2>1. CASE Cancel(r)
    <3> DEFINE k == [NoJob EXCEPT !.step = "ask.read"]
    <3>1. k \in Job /\ k.step = "ask.read" /\ k.hook = FALSE
      BY DEF NoJob, Job, Step
    <3>2. Go(r, k)
      BY <2>1 DEF Cancel
    <3> HIDE DEF k
    <3>. QED BY <3>1, <3>2
  <2>2. CASE AdminRefund(r)
    <3>1. PICK n \in Asked \union {0} : Go(r, [NoJob EXCEPT !.step = "ask.read", !.sum = n])
      BY <2>2 DEF AdminRefund
    <3> DEFINE k == [NoJob EXCEPT !.step = "ask.read", !.sum = n]
    <3>2. n \in Nat
      BY <3>1, ConstantsOK DEF ConstantsOK
    <3>3. k \in Job /\ k.step = "ask.read" /\ k.hook = FALSE
      BY <3>2 DEF NoJob, Job, Step
    <3>4. Go(r, k)
      BY <3>1
    <3> HIDE DEF k
    <3>. QED BY <3>3, <3>4
  <2>. QED BY <2>1, <2>2
<1>2. UNCHANGED <<payment, row, amount, known, remote, told>> /\ booking' \in BookingStatus
  BY DEF Cancel, AdminRefund, rows, Sound, TypeOK, BookingStatus
<1>3. TypeOK'
  BY <1>1, <1>2, GoTyped DEF Sound, TypeOK
<1>4. \A q \in Request : job'[q] = IF q = r THEN j ELSE job[q]
  BY <1>1 DEF Go, Sound, TypeOK
<1>5. DoorSound' /\ WordSound'
  BY <1>1, <1>2, <1>4 DEF Sound, DoorSound, WordSound, AtDoor
<1>. QED BY <1>2, <1>3, <1>5 DEF Sound, NoRowNoMoney, CompletedIsPaid

\* Statements that only read.
LEMMA ReadSound ==
  ASSUME Sound, ConstantsOK, NEW r \in Request, AskRead(r) \/ AskOpen(r) \/ FinalRead(r)
  PROVE  Sound'
<1>1. job[r] \in Job
  BY DEF Sound, TypeOK
<1>2. PICK j \in Job : /\ Go(r, j)
                       /\ j.step \in {"idle", "ask.open", "ask.create", "final.payment"}
                       /\ j.step = "final.payment" => j.seen \in BookingStatus
                       /\ j.hook => job[r].hook /\ j.x = job[r].x
  <2>1. CASE AskRead(r)
    <3>1. CASE Go(r, NoJob)
      BY <3>1, NoJobTyped DEF NoJob
    <3>2. CASE ~Go(r, NoJob)
      <4> DEFINE wanted == IF job[r].sum = 0 THEN Remaining ELSE job[r].sum
      <4>1. /\ wanted \in 1 .. Remaining
            /\ Go(r, [job[r] EXCEPT !.step = "ask.open", !.sum = wanted,
                                    !.whole = (wanted = Remaining)])
        BY <2>1, <3>2 DEF AskRead, Throw
      <4>2. wanted \in Nat
        BY <4>1
      <4> HIDE DEF wanted
      <4>3. [job[r] EXCEPT !.step = "ask.open", !.sum = wanted,
                           !.whole = (wanted = Remaining)] \in Job
        BY <1>1, <4>2 DEF Job, Step
      <4>. QED BY <1>1, <4>1, <4>3 DEF Job
    <3>. QED BY <3>1, <3>2
  <2>2. CASE AskOpen(r)
    <3> DEFINE k == [job[r] EXCEPT !.step = "ask.create"]
    <3>1. Go(r, k) \/ Go(r, NoJob)
      BY <2>2 DEF AskOpen, Throw
    <3>2. k \in Job /\ k.step = "ask.create" /\ k.hook = job[r].hook /\ k.x = job[r].x
      BY <1>1 DEF Job, Step
    <3> HIDE DEF k
    <3>3. CASE Go(r, k)
      BY <3>2, <3>3
    <3>4. CASE Go(r, NoJob)
      BY <3>4, NoJobTyped DEF NoJob
    <3>. QED BY <3>1, <3>3, <3>4
  <2>3. CASE FinalRead(r)
    <3> DEFINE all == ~Partial(Refunded)
    <3>1. all \in BOOLEAN
      BY DEF Partial
    <3>2. Go(r, [job[r] EXCEPT !.step = "final.payment", !.whole = all, !.seen = booking])
      BY <2>3 DEF FinalRead
    <3> HIDE DEF all
    <3>3. [job[r] EXCEPT !.step = "final.payment", !.whole = all, !.seen = booking] \in Job
      BY <1>1, <3>1 DEF Job, Step, Sound, TypeOK
    <3>. QED BY <1>1, <3>2, <3>3 DEF Job, Sound, TypeOK
  <2>. QED BY <2>1, <2>2, <2>3
<1>3. UNCHANGED <<booking, payment, row, amount, known, remote, told>>
  BY DEF AskRead, AskOpen, FinalRead, rows
<1>4. TypeOK'
  BY <1>2, <1>3, GoTyped DEF Sound, TypeOK
<1>5. \A q \in Request : job'[q] = IF q = r THEN j ELSE job[q]
  BY <1>2 DEF Go, Sound, TypeOK
<1>6. DoorSound' /\ WordSound'
  BY <1>2, <1>3, <1>5 DEF Sound, DoorSound, WordSound, AtDoor
<1>. QED BY <1>3, <1>4, <1>6 DEF Sound, NoRowNoMoney, CompletedIsPaid

\* A new row: nobody else is at its door.
LEMMA CreateSound ==
  ASSUME Sound, NEW r \in Request, AskCreate(r)
  PROVE  Sound'
<1>1. job[r] \in Job
  BY DEF Sound, TypeOK
<1>2. PICK x \in Row : /\ row[x] = "none"
                       /\ row' = [row EXCEPT ![x] = "REQUESTED"]
                       /\ amount' = [amount EXCEPT ![x] = job[r].sum]
                       /\ Go(r, [job[r] EXCEPT !.step = IF job[r].whole THEN "ask.mark"
                                                                         ELSE "ask.gateway",
                                               !.x = x])
  BY DEF AskCreate
<1> DEFINE j == [job[r] EXCEPT !.step = IF job[r].whole THEN "ask.mark" ELSE "ask.gateway",
                               !.x = x]
<1>3. j \in Job /\ j.x = x /\ j.step \in {"ask.mark", "ask.gateway"}
  BY <1>1 DEF Job, Step
<1>4. Go(r, j)
  BY <1>2
<1> HIDE DEF j
<1>5. UNCHANGED <<booking, payment, known, remote, told>>
  BY DEF AskCreate
<1>6. TypeOK'
  BY <1>1, <1>2, <1>3, <1>4, <1>5, GoTyped DEF Sound, TypeOK, RefundStatus, Job
<1>7. \A q \in Request : job'[q] = IF q = r THEN j ELSE job[q]
  BY <1>4 DEF Go, Sound, TypeOK
<1>8. \A y \in Row : row'[y] = IF y = x THEN "REQUESTED" ELSE row[y]
  BY <1>2 DEF Sound, TypeOK
<1>9. DoorSound'
  BY <1>2, <1>3, <1>5, <1>7, <1>8 DEF Sound, DoorSound, AtDoor, NoRowNoMoney
<1>10. WordSound'
  BY <1>2, <1>3, <1>5, <1>7, <1>8 DEF Sound, WordSound
<1>11. NoRowNoMoney' /\ CompletedIsPaid'
  BY <1>5, <1>8 DEF Sound, NoRowNoMoney, CompletedIsPaid
<1>. QED BY <1>6, <1>9, <1>10, <1>11 DEF Sound

\* The gateway's answer is about a refund that was not there before, and
\* whoever knew of a finished refund still does.
LEMMA AcceptSound ==
  ASSUME Sound, NEW r \in Request, Accept(r)
  PROVE  Sound'
<1> DEFINE x == job[r].x
<1>1. job[r] \in Job /\ x \in Row /\ row[x] # "none" /\ remote[x] = "none" /\ AtDoor(r)
  BY DEF Sound, TypeOK, DoorSound, AtDoor, Accept, At
<1>2. PICK s \in {"PENDING", "DONE", "FAILED"} :
        /\ remote' = [remote EXCEPT ![x] = s]
        /\ \/ Go(r, [job[r] EXCEPT !.step = "ask.record", !.seen = Mapped(s)])
           \/ Go(r, NoJob)
  BY DEF Accept, Throw
<1>3. PICK j \in Job :
        /\ Go(r, j)
        /\ \/ j = NoJob
           \/ /\ j.step = "ask.record"
              /\ j.x = x
              /\ j.seen = Mapped(s)
  <2>1. CASE Go(r, NoJob)
    BY <2>1, NoJobTyped
  <2>2. CASE Go(r, [job[r] EXCEPT !.step = "ask.record", !.seen = Mapped(s)])
    <3>1. [job[r] EXCEPT !.step = "ask.record", !.seen = Mapped(s)] \in Job
      BY <1>1, MappedTyped DEF Job, Step
    <3>. QED BY <1>1, <2>2, <3>1 DEF Job
  <2>. QED BY <1>2, <2>1, <2>2
<1>4. UNCHANGED <<booking, payment, row, amount, known, told>>
  BY DEF Accept, rows
<1>5. TypeOK'
  BY <1>1, <1>2, <1>3, <1>4, GoTyped DEF Sound, TypeOK
<1>6. \A q \in Request : job'[q] = IF q = r THEN j ELSE job[q]
  BY <1>3 DEF Go, Sound, TypeOK
<1>7. \A y \in Row : remote'[y] = IF y = x THEN s ELSE remote[y]
  BY <1>2 DEF Sound, TypeOK
<1>8. DoorSound'
  BY <1>1, <1>3, <1>4, <1>6, <1>7 DEF Sound, DoorSound, AtDoor, NoJob
<1>9. Mapped(s) = "COMPLETED" => s = "DONE"
  BY DEF Mapped
<1>10. WordSound'
  BY <1>1, <1>3, <1>4, <1>6, <1>7, <1>9, MappedTyped DEF Sound, WordSound, NoJob
<1>11. NoRowNoMoney' /\ CompletedIsPaid'
  BY <1>1, <1>4, <1>7 DEF Sound, NoRowNoMoney, CompletedIsPaid
<1>. QED BY <1>5, <1>8, <1>10, <1>11 DEF Sound

\* The payment's marks.
LEMMA MarkSound ==
  ASSUME Sound, NEW r \in Request, AskMark(r) \/ FailMark(r)
  PROVE  Sound'
<1>1. job[r] \in Job /\ (AskMark(r) => AtDoor(r)) /\ (job[r].hook => job[r].x \in Row)
  BY DEF Sound, TypeOK, AtDoor, AskMark, At, WordSound
<1>2. PICK j \in Job :
        /\ Go(r, j)
        /\ \/ j = NoJob
           \/ AtDoor(r) /\ j.step = "ask.gateway" /\ j.x = job[r].x /\ j.hook = job[r].hook
  <2>1. CASE AskMark(r)
    <3> DEFINE k == [job[r] EXCEPT !.step = "ask.gateway"]
    <3>1. Go(r, k)
      BY <2>1 DEF AskMark
    <3>2. k \in Job /\ k.step = "ask.gateway" /\ k.x = job[r].x /\ k.hook = job[r].hook
      BY <1>1 DEF Job, Step
    <3> HIDE DEF k
    <3>. QED BY <1>1, <2>1, <3>1, <3>2
  <2>2. CASE FailMark(r)
    BY <2>2, NoJobTyped DEF FailMark, Return
  <2>. QED BY <2>1, <2>2
<1>3. /\ UNCHANGED <<booking, row, amount, known, remote>>
      /\ payment' \in PaymentStatus
      /\ told' \subseteq Row
  BY <1>1 DEF AskMark, FailMark, Return, Sound, TypeOK, PaymentStatus
<1>4. TypeOK'
  BY <1>2, <1>3, GoTyped DEF Sound, TypeOK
<1>5. \A q \in Request : job'[q] = IF q = r THEN j ELSE job[q]
  BY <1>2 DEF Go, Sound, TypeOK
<1>6. DoorSound' /\ WordSound'
  BY <1>1, <1>2, <1>3, <1>5 DEF Sound, DoorSound, WordSound, AtDoor, NoJob
<1>. QED BY <1>3, <1>4, <1>6 DEF Sound, NoRowNoMoney, CompletedIsPaid

\* Writes of a row's status: the handler's own row fails, or gets the status
\* the gateway reported.
LEMMA RowSound ==
  ASSUME Sound, NEW r \in Request, Refuse(r) \/ AskRecord(r) \/ ReportWrite(r)
  PROVE  Sound'
<1> DEFINE x == job[r].x
<1>1. /\ job[r] \in Job /\ x \in Row /\ row[x] # "none"
      /\ job[r].hook => x \in Row
  BY DEF Sound, TypeOK, DoorSound, WordSound, AtDoor, Refuse, AskRecord, ReportWrite, At
<1>2. PICK s \in RefundStatus : row' = [row EXCEPT ![x] = s] /\ (s = "COMPLETED" => remote[x] = "DONE")
  BY DEF Sound, WordSound, Refuse, AskRecord, ReportWrite, At, RefundStatus
<1>3. PICK j \in Job :
        /\ Go(r, j)
        /\ \/ j = NoJob
           \/ j.step \in {"fail.mark", "final.read"} /\ j.x = x /\ j.hook = job[r].hook
  <2> DEFINE f == [job[r] EXCEPT !.step = "fail.mark"]
             c == [job[r] EXCEPT !.step = "final.read"]
  <2>1. Go(r, f) \/ Go(r, c) \/ Go(r, NoJob)
    BY DEF Refuse, AskRecord, ReportWrite, Return
  <2>2. f \in Job /\ f.step = "fail.mark" /\ f.x = x /\ f.hook = job[r].hook
    BY <1>1 DEF Job, Step
  <2>3. c \in Job /\ c.step = "final.read" /\ c.x = x /\ c.hook = job[r].hook
    BY <1>1 DEF Job, Step
  <2> HIDE DEF f, c
  <2>. QED BY <2>1, <2>2, <2>3, NoJobTyped
<1>4. /\ UNCHANGED <<booking, payment, amount, remote>>
      /\ known' \subseteq known \union {x}
      /\ told' \subseteq told \union {x}
  BY DEF Refuse, AskRecord, ReportWrite, Return, Identified
<1>5. TypeOK'
  BY <1>1, <1>2, <1>3, <1>4, GoTyped DEF Sound, TypeOK
<1>6. \A q \in Request : job'[q] = IF q = r THEN j ELSE job[q]
  BY <1>3 DEF Go, Sound, TypeOK
<1>7. \A y \in Row : row'[y] = IF y = x THEN s ELSE row[y]
  BY <1>2 DEF Sound, TypeOK
<1>8. "none" \notin RefundStatus
  BY DEF RefundStatus
<1>9. DoorSound'
  BY <1>1, <1>3, <1>4, <1>6, <1>7, <1>8 DEF Sound, DoorSound, AtDoor, NoJob
<1>10. WordSound'
  BY <1>1, <1>3, <1>4, <1>6, <1>7, <1>8 DEF Sound, WordSound, NoJob
<1>11. NoRowNoMoney' /\ CompletedIsPaid'
  BY <1>1, <1>2, <1>4, <1>7, <1>8 DEF Sound, NoRowNoMoney, CompletedIsPaid
<1>. QED BY <1>5, <1>9, <1>10, <1>11 DEF Sound

\* A webhook or a reconcile starts: what it was told is the gateway's state.
LEMMA ReportSound ==
  ASSUME Sound, NEW r \in Request, NEW x \in Row,
         Report(r, x) \/ ReportEarly(r, x) \/ Reconcile(r, x)
  PROVE  Sound'
<1>1. UNCHANGED <<booking, payment, row, amount, known, remote>> /\ told' \subseteq Row
  BY DEF Report, ReportEarly, Reconcile, Heard, rows, Sound, TypeOK
<1>2. CASE UNCHANGED job
  BY <1>1, <1>2 DEF Sound, TypeOK, DoorSound, WordSound, AtDoor, NoRowNoMoney, CompletedIsPaid
<1>3. CASE ~UNCHANGED job
  <2>1. x \in known /\ row[x] # "none"
    BY <1>3 DEF Report, ReportEarly, Reconcile, Sound, NoRowNoMoney
  <2>2. PICK j \in Job :
          /\ Go(r, j)
          /\ \/ j = NoJob
             \/ j.step = "report.write" /\ j.x = x /\ j.seen = Mapped(remote[x])
    <3>1. PICK n \in {NoJob, [NoJob EXCEPT !.hook = TRUE]} :
            \/ Go(r, NoJob)
            \/ Go(r, [n EXCEPT !.step = "report.write", !.x = x, !.seen = Mapped(remote[x])])
      BY <1>3 DEF Report, ReportEarly, Reconcile, Heard
    <3> DEFINE k == [n EXCEPT !.step = "report.write", !.x = x, !.seen = Mapped(remote[x])]
    <3>2. n \in Job
      BY <3>1, NoJobTyped DEF NoJob, Job
    <3>3. k \in Job /\ k.step = "report.write" /\ k.x = x /\ k.seen = Mapped(remote[x])
      BY <3>2, MappedTyped DEF Job, Step
    <3>4. Go(r, NoJob) \/ Go(r, k)
      BY <3>1
    <3> HIDE DEF k
    <3>. QED BY <3>3, <3>4, NoJobTyped
  <2>3. TypeOK'
    BY <1>1, <2>2, GoTyped DEF Sound, TypeOK
  <2>4. \A q \in Request : job'[q] = IF q = r THEN j ELSE job[q]
    BY <2>2 DEF Go, Sound, TypeOK
  <2>5. Mapped(remote[x]) = "COMPLETED" => remote[x] = "DONE"
    BY DEF Mapped
  <2>6. DoorSound' /\ WordSound'
    BY <1>1, <2>1, <2>2, <2>4, <2>5, MappedTyped DEF Sound, DoorSound, WordSound, AtDoor, NoJob
  <2>. QED BY <1>1, <2>3, <2>6 DEF Sound, NoRowNoMoney, CompletedIsPaid
<1>. QED BY <1>2, <1>3

\* The writes of finalizeRefundedPayment.
LEMMA FinalSound ==
  ASSUME Sound, NEW r \in Request, FinalPayment(r) \/ FinalBooking(r)
  PROVE  Sound'
<1>1. /\ job[r] \in Job
      /\ job[r].seen \in BookingStatus
      /\ job[r].hook => job[r].x \in Row
  BY DEF Sound, TypeOK, WordSound, FinalPayment, FinalBooking, At
<1>2. PICK j \in Job :
        /\ Go(r, j)
        /\ \/ j = NoJob
           \/ /\ j.step = "final.booking"
              /\ j.x = job[r].x /\ j.hook = job[r].hook /\ j.seen = job[r].seen
  <2> DEFINE k == [job[r] EXCEPT !.step = "final.booking"]
  <2>1. Go(r, k) \/ Go(r, NoJob)
    BY DEF FinalPayment, FinalBooking, Return, Throw
  <2>2. /\ k \in Job /\ k.step = "final.booking"
        /\ k.x = job[r].x /\ k.hook = job[r].hook /\ k.seen = job[r].seen
    BY <1>1 DEF Job, Step
  <2> HIDE DEF k
  <2>. QED BY <2>1, <2>2, NoJobTyped
<1>3. /\ UNCHANGED <<row, amount, known, remote>>
      /\ payment' \in PaymentStatus
      /\ booking' \in BookingStatus
      /\ told' \subseteq Row
  BY <1>1 DEF FinalPayment, FinalBooking, Return, Sound, TypeOK, PaymentStatus, BookingStatus
<1>4. TypeOK'
  BY <1>2, <1>3, GoTyped DEF Sound, TypeOK
<1>5. \A q \in Request : job'[q] = IF q = r THEN j ELSE job[q]
  BY <1>2 DEF Go, Sound, TypeOK
<1>6. DoorSound' /\ WordSound'
  BY <1>1, <1>2, <1>3, <1>5 DEF Sound, DoorSound, WordSound, AtDoor, NoJob
<1>. QED BY <1>3, <1>4, <1>6 DEF Sound, NoRowNoMoney, CompletedIsPaid

\* The gateway ends a refund, the stay completes, a handler dies.
LEMMA WorldSound ==
  ASSUME Sound, (\E x \in Row : RemoteEnds(x)) \/ Complete \/ (\E r \in Request : Die(r))
  PROVE  Sound'
<1>1. CASE \E x \in Row : RemoteEnds(x)
  <2>1. PICK x \in Row, s \in {"DONE", "FAILED"} :
          remote[x] = "PENDING" /\ remote' = [remote EXCEPT ![x] = s]
    BY <1>1 DEF RemoteEnds
  <2>2. UNCHANGED <<booking, payment, row, amount, known, told, job>>
    BY <1>1 DEF RemoteEnds, rows
  <2>3. \A y \in Row : remote'[y] = IF y = x THEN s ELSE remote[y]
    BY <2>1 DEF Sound, TypeOK
  <2>4. TypeOK'
    BY <2>1, <2>2 DEF Sound, TypeOK
  <2>5. DoorSound' /\ WordSound'
    BY <2>1, <2>2, <2>3 DEF Sound, DoorSound, WordSound, AtDoor
  <2>. QED BY <2>1, <2>2, <2>3, <2>4, <2>5 DEF Sound, NoRowNoMoney, CompletedIsPaid
<1>2. CASE Complete
  BY <1>2 DEF Complete, Sound, TypeOK, DoorSound, WordSound, AtDoor, NoRowNoMoney,
    CompletedIsPaid, BookingStatus
<1>3. CASE \E r \in Request : Die(r)
  <2>1. PICK r \in Request : Die(r)
    BY <1>3
  <2>2. Go(r, NoJob) /\ UNCHANGED <<booking, payment, row, amount, known, remote, told>>
    BY <2>1 DEF Die, Throw, rows
  <2>3. TypeOK'
    BY <2>2, GoTyped, NoJobTyped DEF Sound, TypeOK
  <2>4. \A q \in Request : job'[q] = IF q = r THEN NoJob ELSE job[q]
    BY <2>2 DEF Go, Sound, TypeOK
  <2>5. DoorSound' /\ WordSound'
    BY <2>2, <2>4 DEF Sound, DoorSound, WordSound, AtDoor, NoJob
  <2>. QED BY <2>2, <2>3, <2>5 DEF Sound, NoRowNoMoney, CompletedIsPaid
<1>. QED BY <1>1, <1>2, <1>3

\* The invariant is inductive.
LEMMA NextSound == ConstantsOK /\ Sound /\ [Next]_vars => Sound'
<1> SUFFICES ASSUME ConstantsOK, Sound, [Next]_vars PROVE Sound'
  OBVIOUS
<1>1. CASE UNCHANGED vars
  BY <1>1 DEF vars, Sound, TypeOK, DoorSound, WordSound, AtDoor, NoRowNoMoney, CompletedIsPaid
<1>2. CASE Next
  <2>1. CASE \E r \in Request : Cancel(r) \/ AdminRefund(r)
    BY <2>1, BeginSound
  <2>2. CASE \E r \in Request : Work(r)
    BY <2>2, ReadSound, CreateSound, AcceptSound, MarkSound, RowSound, FinalSound DEF Work
  <2>3. CASE \E r \in Request : \E x \in Row : Report(r, x) \/ ReportEarly(r, x) \/ Reconcile(r, x)
    BY <2>3, ReportSound
  <2>4. CASE (\E x \in Row : RemoteEnds(x)) \/ Complete \/ (\E r \in Request : Die(r))
    BY <2>4, WorldSound
  <2>. QED BY <1>2, <2>1, <2>2, <2>3, <2>4 DEF Next
<1>. QED BY <1>1, <1>2

\* Every variable keeps its type, whatever handlers overlap and die.
THEOREM RefundTypes == Spec => []TypeOK
<1>1. Sound => TypeOK
  BY DEF Sound
<1>. QED BY InitSound, NextSound, ConstantsOK, <1>1, PTL DEF Spec

\* A refund is recorded as completed only when the gateway gave the money
\* back, for any rows and handlers, with every fault.
THEOREM CompletedArePaid == Spec => []CompletedIsPaid
<1>1. Sound => CompletedIsPaid
  BY DEF Sound
<1>. QED BY InitSound, NextSound, ConstantsOK, <1>1, PTL DEF Spec

-----------------------------------------------------------------------------
(***************************************************************************)
(* Sums over finite sets.  SumFunctionOnSet takes an element of its own    *)
(* choice each time; here it is shown that there is such a function, that  *)
(* the order does not matter, and that sums grow with the set and with     *)
(* what is summed.  Each proof takes a smallest set for which the claim    *)
(* would fail.                                                             *)
(***************************************************************************)

First(s) == CHOOSE x \in s : TRUE

\* it sums f over every subset of S, taking First each time.
Adds(f, S, it) ==
  it = [s \in SUBSET S |-> IF s = {} THEN 0 ELSE f[First(s)] + it[s \ {First(s)}]]

\* What the fold of the model is.
Sum(f, S) == SumFunctionOnSet(f, S)

\* A summand for every element.
Sizes(f, S) == IsFiniteSet(S) /\ \A x \in S : f[x] \in Nat

\* The fold is the value such a function has for the whole set.
LEMMA SumIsFold ==
  ASSUME NEW f, NEW S
  PROVE  Sum(f, S) = (CHOOSE it : Adds(f, S, it))[S]
BY DEF Sum, SumFunctionOnSet, FoldFunctionOnSet, MapThenFoldSet, Adds, First

\* The element taken first is one of the set.
LEMMA FirstIn == \A s : s # {} => First(s) \in s
BY DEF First

\* Of some subsets of a finite set, one contains no other of them.
LEMMA Smallest ==
  ASSUME NEW S, IsFiniteSet(S), NEW B, B \subseteq SUBSET S, B # {}
  PROVE  \E T \in B : \A U \in SUBSET T : U # T => U \notin B
<1>1. IsWellFoundedOn(StrictSubsetOrdering(S), SUBSET S)
  BY FS_StrictSubsetOrderingWellFounded, FS_FiniteSubsetsOfFinite
<1>2. PICK T \in B : \A U \in B : <<U, T>> \notin StrictSubsetOrdering(S)
  BY <1>1, WFMin
<1>. QED BY <1>2 DEF StrictSubsetOrdering

\* Two such functions agree on the sets they share.
LEMMA AddsAgree ==
  ASSUME NEW f, NEW U, NEW V, NEW g, NEW h, Adds(f, U, g), Adds(f, V, h),
         NEW S, IsFiniteSet(S), S \subseteq U, S \subseteq V
  PROVE  g[S] = h[S]
<1> DEFINE B == {s \in SUBSET S : g[s] # h[s]}
<1>1. SUFFICES ASSUME B # {} PROVE FALSE
  OBVIOUS
<1>2. PICK T \in B : \A W \in SUBSET T : W # T => W \notin B
  <2> HIDE DEF B
  <2>1. B \subseteq SUBSET S
    BY DEF B
  <2>. QED BY <1>1, <2>1, Smallest
<1>3. T \in SUBSET U /\ T \in SUBSET V /\ g[T] # h[T]
  BY <1>2
<1>4. /\ g[T] = IF T = {} THEN 0 ELSE f[First(T)] + g[T \ {First(T)}]
      /\ h[T] = IF T = {} THEN 0 ELSE f[First(T)] + h[T \ {First(T)}]
  BY <1>3 DEF Adds
<1>5. T # {} => T \ {First(T)} # T /\ T \ {First(T)} \in SUBSET S
  BY <1>2, FirstIn
<1>. QED BY <1>2, <1>3, <1>4, <1>5

\* There is one.
LEMMA AddsExist ==
  ASSUME NEW f, NEW S, IsFiniteSet(S)
  PROVE  \E h : Adds(f, S, h)
<1> DEFINE B == {T \in SUBSET S : ~\E h : Adds(f, T, h)}
           H(u) == CHOOSE h : Adds(f, u, h)
<1>1. SUFFICES ASSUME B # {} PROVE FALSE
  OBVIOUS
<1>2. PICK T \in B : \A W \in SUBSET T : W # T => W \notin B
  <2> HIDE DEF B
  <2>1. B \subseteq SUBSET S
    BY DEF B
  <2>. QED BY <1>1, <2>1, Smallest
<1>3. \A W \in SUBSET T : W # T => Adds(f, W, H(W))
  BY <1>2
<1> DEFINE h == [s \in SUBSET T |-> IF s = {} THEN 0
                                    ELSE f[First(s)] + H(s \ {First(s)})[s \ {First(s)}]]
<1>4. ASSUME NEW s \in SUBSET T, s # {}
      PROVE  h[s \ {First(s)}] = H(s \ {First(s)})[s \ {First(s)}]
  <2> DEFINE u == s \ {First(s)}
  <2>1. First(s) \in s /\ u \in SUBSET T /\ u # T
    BY <1>4, FirstIn
  <2>2. H(u) = [t \in SUBSET u |-> IF t = {} THEN 0 ELSE f[First(t)] + H(u)[t \ {First(t)}]]
    BY <1>3, <2>1 DEF Adds
  <2>3. H(u)[u] = IF u = {} THEN 0 ELSE f[First(u)] + H(u)[u \ {First(u)}]
    <3> HIDE DEF H, u
    <3>. QED BY <2>2
  <2>4. u # {} => H(u)[u \ {First(u)}] = H(u \ {First(u)})[u \ {First(u)}]
    <3>1. SUFFICES ASSUME u # {} PROVE H(u)[u \ {First(u)}] = H(u \ {First(u)})[u \ {First(u)}]
      OBVIOUS
    <3>2. PICK w : w = u \ {First(u)}
      OBVIOUS
    <3>3. First(u) \in u
      BY <3>1, FirstIn
    <3>4. w \in SUBSET T /\ w # T /\ w \subseteq u
      BY <2>1, <3>2, <3>3
    <3>5. Adds(f, u, H(u)) /\ Adds(f, w, H(w))
      BY <1>3, <2>1, <3>4
    <3>6. IsFiniteSet(w)
      BY <3>4, FS_Subset
    <3> HIDE DEF H, u
    <3>7. H(u)[w] = H(w)[w]
      BY <3>4, <3>5, <3>6, AddsAgree
    <3>. QED BY <3>2, <3>7
  <2>5. h[u] = IF u = {} THEN 0 ELSE f[First(u)] + H(u \ {First(u)})[u \ {First(u)}]
    <3> HIDE DEF H, u
    <3>. QED BY <2>1
  <2> HIDE DEF H, h, u
  <2>6. h[u] = H(u)[u]
    BY <2>3, <2>4, <2>5
  <2>. QED BY <2>6 DEF u
<1>5. Adds(f, T, h)
  <2> HIDE DEF H
  <2>1. \A s \in SUBSET T : (IF s = {} THEN 0 ELSE f[First(s)] + H(s \ {First(s)})[s \ {First(s)}])
                          = (IF s = {} THEN 0 ELSE f[First(s)] + h[s \ {First(s)}])
    <3> HIDE DEF h
    <3>. QED BY <1>4
  <2>2. h = [s \in SUBSET T |-> IF s = {} THEN 0 ELSE f[First(s)] + h[s \ {First(s)}]]
    BY <2>1
  <2>. QED BY <2>2 DEF Adds
<1>. QED BY <1>2, <1>5

\* A sum, taken apart at the element taken first.
LEMMA SumFirst ==
  ASSUME NEW f, NEW S, IsFiniteSet(S)
  PROVE  Sum(f, S) = IF S = {} THEN 0 ELSE f[First(S)] + Sum(f, S \ {First(S)})
<1> DEFINE H(u) == CHOOSE h : Adds(f, u, h)
<1>1. PICK T : T = S \ {First(S)}
  OBVIOUS
<1>2. IsFiniteSet(T) /\ T \subseteq S
  BY <1>1, FS_Subset
<1>3. Adds(f, S, H(S)) /\ Adds(f, T, H(T))
  BY <1>2, AddsExist
<1>4. Sum(f, S) = H(S)[S] /\ Sum(f, T) = H(T)[T]
  BY SumIsFold
<1> HIDE DEF H
<1>5. H(S)[T] = H(T)[T]
  BY <1>2, <1>3, AddsAgree
<1>6. H(S)[S] = IF S = {} THEN 0 ELSE f[First(S)] + H(S)[T]
  BY <1>1, <1>3 DEF Adds
<1>. QED BY <1>1, <1>4, <1>5, <1>6

\* Nothing comes to nothing.
LEMMA SumEmpty == \A f : Sum(f, {}) = 0
<1>. SUFFICES ASSUME NEW f PROVE Sum(f, {}) = 0
  OBVIOUS
<1>. QED BY SumFirst, FS_EmptySet

\* Sizes come to a size.
LEMMA SumIsNat ==
  ASSUME NEW f, NEW S, Sizes(f, S)
  PROVE  Sum(f, S) \in Nat
<1> DEFINE B == {T \in SUBSET S : Sum(f, T) \notin Nat}
<1>1. SUFFICES ASSUME B # {} PROVE FALSE
  BY DEF Sizes
<1>2. PICK T \in B : \A W \in SUBSET T : W # T => W \notin B
  <2> HIDE DEF B
  <2>1. B \subseteq SUBSET S
    BY DEF B
  <2>. QED BY <1>1, <2>1, Smallest DEF Sizes
<1>3. Sum(f, T) = IF T = {} THEN 0 ELSE f[First(T)] + Sum(f, T \ {First(T)})
  BY <1>2, SumFirst, FS_Subset DEF Sizes
<1>4. T # {} => /\ T \ {First(T)} # T /\ T \ {First(T)} \in SUBSET S
                /\ f[First(T)] \in Nat
  BY <1>2, FirstIn DEF Sizes
<1>. QED BY <1>2, <1>3, <1>4

\* Whichever element is taken first.
LEMMA SumTakes ==
  ASSUME NEW f, NEW S, Sizes(f, S), NEW x \in S
  PROVE  Sum(f, S) = f[x] + Sum(f, S \ {x})
<1> DEFINE B == {T \in SUBSET S : \E y \in T : Sum(f, T) # f[y] + Sum(f, T \ {y})}
<1>1. SUFFICES ASSUME B # {} PROVE FALSE
  BY DEF Sizes
<1>2. PICK T \in B : \A W \in SUBSET T : W # T => W \notin B
  <2> HIDE DEF B
  <2>1. B \subseteq SUBSET S
    BY DEF B
  <2>. QED BY <1>1, <2>1, Smallest DEF Sizes
<1>3. PICK y \in T : Sum(f, T) # f[y] + Sum(f, T \ {y})
  BY <1>2
<1>4. PICK z : z = First(T)
  OBVIOUS
<1>5. z \in T /\ Sum(f, T) = f[z] + Sum(f, T \ {z})
  BY <1>2, <1>3, <1>4, FirstIn, SumFirst, FS_Subset DEF Sizes
<1>6. y # z
  BY <1>3, <1>5
<1>7. T \ {z} \notin B /\ y \in T \ {z} /\ T \ {z} \in SUBSET S
  BY <1>2, <1>3, <1>5, <1>6
<1>8. T \ {y} \notin B /\ z \in T \ {y} /\ T \ {y} \in SUBSET S
  BY <1>2, <1>3, <1>5, <1>6
<1>9. /\ Sum(f, T \ {z}) = f[y] + Sum(f, (T \ {z}) \ {y})
      /\ Sum(f, T \ {y}) = f[z] + Sum(f, (T \ {y}) \ {z})
  BY <1>7, <1>8
<1>10. PICK w : w = (T \ {z}) \ {y}
  OBVIOUS
<1>11. w = (T \ {y}) \ {z}
  BY <1>10
<1>12. f[y] \in Nat /\ f[z] \in Nat /\ Sum(f, w) \in Nat
  <2>1. Sizes(f, w)
    BY <1>2, <1>10, FS_Subset DEF Sizes
  <2>. QED BY <1>2, <1>3, <1>5, <2>1, SumIsNat DEF Sizes
<1>. QED BY <1>3, <1>5, <1>9, <1>10, <1>11, <1>12

\* One more element.
LEMMA SumAdds ==
  ASSUME NEW f, NEW S, Sizes(f, S), NEW x, x \notin S, f[x] \in Nat
  PROVE  Sum(f, S \union {x}) = f[x] + Sum(f, S)
<1>1. Sizes(f, S \union {x})
  BY FS_AddElement DEF Sizes
<1>2. (S \union {x}) \ {x} = S
  OBVIOUS
<1>. QED BY <1>1, <1>2, SumTakes

\* No summand shrinks, and none is lost.
LEMMA SumGrows ==
  ASSUME NEW f, NEW g, NEW S, NEW R, R \subseteq S, Sizes(g, S),
         \A x \in R : f[x] \in Nat /\ f[x] <= g[x]
  PROVE  Sum(f, R) <= Sum(g, S)
<1> DEFINE B == {T \in SUBSET S : ~(Sum(f, T \intersect R) <= Sum(g, T))}
<1>0. S \intersect R = R
  OBVIOUS
<1>1. SUFFICES ASSUME B # {} PROVE FALSE
  BY <1>0
<1>2. PICK T \in B : \A W \in SUBSET T : W # T => W \notin B
  <2> HIDE DEF B
  <2>1. B \subseteq SUBSET S
    BY DEF B
  <2>. QED BY <1>1, <2>1, Smallest DEF Sizes
<1>3. T # {}
  <2>1. {} \notin B
    <3>1. Sum(f, {} \intersect R) = 0 /\ Sum(g, {}) = 0
      <4>1. {} \intersect R = {}
        OBVIOUS
      <4>. QED BY <4>1, SumEmpty
    <3>. QED BY <3>1
  <2>. QED BY <1>2, <2>1
<1>4. PICK x \in T : TRUE
  BY <1>3
<1>5. PICK w : w = T \ {x}
  OBVIOUS
<1>6. w \notin B /\ w \in SUBSET S
  BY <1>2, <1>4, <1>5
<1>7. Sizes(g, T) /\ Sizes(g, w) /\ Sizes(f, T \intersect R) /\ Sizes(f, w \intersect R)
  BY <1>2, <1>6, FS_Subset DEF Sizes
<1>8. Sum(g, T) = g[x] + Sum(g, w)
  BY <1>4, <1>5, <1>7, SumTakes
<1>9. Sum(f, T \intersect R) = IF x \in R THEN f[x] + Sum(f, w \intersect R) ELSE Sum(f, w \intersect R)
  <2>1. CASE x \in R
    <3>1. (T \intersect R) \ {x} = w \intersect R
      BY <1>5
    <3>. QED BY <1>4, <1>7, <2>1, <3>1, SumTakes
  <2>2. CASE x \notin R
    <3>1. T \intersect R = w \intersect R
      BY <1>5, <2>2
    <3>. QED BY <2>2, <3>1
  <2>. QED BY <2>1, <2>2
<1>10. Sum(g, w) \in Nat /\ Sum(f, w \intersect R) \in Nat
  BY <1>7, SumIsNat
<1>11. g[x] \in Nat /\ (x \in R => f[x] \in Nat /\ f[x] <= g[x])
  BY <1>4, <1>7 DEF Sizes
<1>12. Sum(f, w \intersect R) <= Sum(g, w)
  BY <1>6
<1>. QED BY <1>2, <1>8, <1>9, <1>10, <1>11, <1>12

\* Summands that are the same.
LEMMA SumSame ==
  ASSUME NEW f, NEW g, NEW S, Sizes(f, S), \A x \in S : g[x] = f[x]
  PROVE  Sum(g, S) = Sum(f, S)
<1>1. Sizes(g, S)
  BY DEF Sizes
<1>2. \A x \in S : f[x] <= g[x] /\ g[x] <= f[x]
  BY DEF Sizes
<1>3. Sum(f, S) <= Sum(g, S) /\ Sum(g, S) <= Sum(f, S)
  BY <1>1, <1>2, SumGrows DEF Sizes
<1>. QED BY <1>1, <1>3, SumIsNat

-----------------------------------------------------------------------------
(***************************************************************************)
(* Nothing is called refunded before all of it was given back: the gateway *)
(* never takes back more than was captured, what it gave back stays given, *)
(* and a handler that is about to say REFUNDED saw the whole completed.    *)
(***************************************************************************)
\* Who comes to say REFUNDED: a handler that read the sum and found it whole.
SaysRefunded(r) ==
  (job[r].step = "final.payment" /\ job[r].whole) \/ job[r].step = "final.booking"

PaidSound ==
  /\ TakenBack <= Captured
  /\ \A r \in Request : SaysRefunded(r) => PaidBack = Captured
  /\ RefundedIsPaid

\* The totals of the model are sums of the rows' amounts.
LEMMA TotalIsSum ==
  /\ Refunded = Sum(amount, {x \in Row : row[x] = "COMPLETED"})
  /\ PaidBack = Sum(amount, {x \in Row : remote[x] = "DONE"})
  /\ TakenBack = Sum(amount, {x \in Row : remote[x] \in {"PENDING", "DONE"}})
  /\ Refunded' = Sum(amount', {x \in Row : row'[x] = "COMPLETED"})
  /\ PaidBack' = Sum(amount', {x \in Row : remote'[x] = "DONE"})
  /\ TakenBack' = Sum(amount', {x \in Row : remote'[x] \in {"PENDING", "DONE"}})
BY DEF Refunded, PaidBack, TakenBack, Total, Sum

\* Some of the rows come to no more than more of them, when no amount shrinks.
LEMMA FewerRows ==
  ASSUME ConstantsOK, NEW f \in [Row -> Nat], NEW g \in [Row -> Nat],
         NEW S \in SUBSET Row, NEW R \in SUBSET S, \A x \in R : f[x] = g[x]
  PROVE  /\ Sum(f, R) \in Nat /\ Sum(g, S) \in Nat
         /\ Sum(f, R) <= Sum(g, S)
<1>1. IsFiniteSet(S) /\ IsFiniteSet(R)
  BY FS_Subset DEF ConstantsOK
<1>2. Sizes(f, R) /\ Sizes(g, S)
  BY <1>1 DEF Sizes
<1>. QED BY <1>2, SumIsNat, SumGrows

\* What is completed was paid back, and what was paid back was taken back.
LEMMA TotalsOrdered ==
  ASSUME Sound, ConstantsOK
  PROVE  /\ Refunded \in Nat /\ PaidBack \in Nat /\ TakenBack \in Nat
         /\ Refunded <= PaidBack /\ PaidBack <= TakenBack
<1> DEFINE C == {x \in Row : row[x] = "COMPLETED"}
           D == {x \in Row : remote[x] = "DONE"}
           T == {x \in Row : remote[x] \in {"PENDING", "DONE"}}
<1>1. C \in SUBSET D /\ D \in SUBSET T /\ D \in SUBSET Row /\ T \in SUBSET Row
  BY DEF Sound, CompletedIsPaid
<1>2. Refunded = Sum(amount, C) /\ PaidBack = Sum(amount, D) /\ TakenBack = Sum(amount, T)
  BY TotalIsSum
<1>3. amount \in [Row -> Nat]
  BY DEF Sound, TypeOK
<1> HIDE DEF C, D, T
<1>. QED BY <1>1, <1>2, <1>3, FewerRows

\* The job a handler goes on with is the only one that changes.
LEMMA GoOne ==
  ASSUME TypeOK, NEW r \in Request, NEW j, Go(r, j)
  PROVE  \A q \in Request : job'[q] = IF q = r THEN j ELSE job[q]
BY DEF TypeOK, Go

\* What a step can do to the gateway's books: a new row names its amount
\* before it is there, an accepted refund was within the money, a refund in
\* flight ends.
LEMMA BooksMove ==
  ASSUME Sound, [Next]_vars
  PROVE  /\ \A x \in Row : remote[x] # "none" => amount'[x] = amount[x]
         /\ \A x \in Row : remote[x] = "DONE" => remote'[x] = "DONE"
         /\ \/ \A x \in Row : remote'[x] # "none" => remote[x] # "none" /\ (remote[x] = "FAILED" => remote'[x] = "FAILED")
            \/ /\ amount' = amount
               /\ \E y \in Row : /\ remote[y] = "none"
                                 /\ TakenBack + amount[y] <= Captured
                                 /\ \A x \in Row \ {y} : remote'[x] = remote[x]
<1>1. CASE UNCHANGED <<amount, remote>>
  BY <1>1
<1>2. CASE \E r \in Request : AskCreate(r)
  <2>1. PICK r \in Request, x \in Row : /\ row[x] = "none" /\ remote' = remote
                                        /\ amount' = [amount EXCEPT ![x] = job[r].sum]
    BY <1>2 DEF AskCreate
  <2>. QED BY <2>1 DEF Sound, TypeOK, NoRowNoMoney
<1>3. CASE \E r \in Request : Accept(r)
  <2>1. PICK r \in Request : Accept(r)
    BY <1>3
  <2>2. PICK y : y = job[r].x
    OBVIOUS
  <2>3. y \in Row /\ remote[y] = "none"
    BY <2>1, <2>2 DEF Accept, At, AtDoor, Sound, DoorSound
  <2>4. PICK s : remote' = [remote EXCEPT ![y] = s]
    BY <2>1, <2>2 DEF Accept
  <2>5. amount' = amount /\ TakenBack + amount[y] <= Captured
    BY <2>1, <2>2 DEF Accept, rows
  <2>6. \A x \in Row \ {y} : remote'[x] = remote[x]
    BY <2>4 DEF Sound, TypeOK
  <2>. QED BY <2>3, <2>5, <2>6
<1>4. CASE \E x \in Row : RemoteEnds(x)
  BY <1>4 DEF RemoteEnds, Sound, TypeOK, rows
<1>5. CASE UNCHANGED vars
  BY <1>1, <1>5 DEF vars
<1>6. CASE Next
  <2>1. CASE \E r \in Request : Cancel(r) \/ AdminRefund(r) \/ Die(r)
    BY <1>1, <2>1 DEF Cancel, AdminRefund, Die, rows
  <2>2. CASE \E r \in Request : AskRead(r) \/ AskOpen(r) \/ AskMark(r) \/ Refuse(r) \/ AskRecord(r)
                                 \/ ReportWrite(r) \/ FailMark(r)
    BY <1>1, <2>2 DEF AskRead, AskOpen, AskMark, Refuse, AskRecord, ReportWrite, FailMark, rows
  <2>3. CASE \E r \in Request : FinalRead(r) \/ FinalPayment(r) \/ FinalBooking(r)
    BY <1>1, <2>3 DEF FinalRead, FinalPayment, FinalBooking, rows
  <2>4. CASE \E r \in Request : \E x \in Row : Report(r, x) \/ ReportEarly(r, x) \/ Reconcile(r, x)
    BY <1>1, <2>4 DEF Report, ReportEarly, Reconcile, rows
  <2>5. CASE Complete
    BY <1>1, <2>5 DEF Complete
  <2>. QED BY <1>2, <1>3, <1>4, <1>6, <2>1, <2>2, <2>3, <2>4, <2>5 DEF Next, Work
<1>. QED BY <1>5, <1>6

\* No money once given back is given back twice, and no more is taken back
\* than was captured.
LEMMA MoneyKept ==
  ASSUME Sound, Sound', ConstantsOK, [Next]_vars, TakenBack <= Captured
  PROVE  /\ PaidBack \in Nat /\ PaidBack' \in Nat
         /\ PaidBack <= PaidBack' /\ PaidBack' <= TakenBack' /\ TakenBack' <= Captured
<1>1. amount \in [Row -> Nat] /\ amount' \in [Row -> Nat]
  BY DEF Sound, TypeOK
<1>2. PICK D, E, T, U : /\ D = {x \in Row : remote[x] = "DONE"}
                        /\ E = {x \in Row : remote'[x] = "DONE"}
                        /\ T = {x \in Row : remote[x] \in {"PENDING", "DONE"}}
                        /\ U = {x \in Row : remote'[x] \in {"PENDING", "DONE"}}
  OBVIOUS
<1>3. /\ PaidBack = Sum(amount, D) /\ PaidBack' = Sum(amount', E)
      /\ TakenBack = Sum(amount, T) /\ TakenBack' = Sum(amount', U)
  BY <1>2, TotalIsSum
<1>4. D \in SUBSET E /\ E \in SUBSET U /\ T \in SUBSET Row /\ U \in SUBSET Row /\ E \in SUBSET Row
  BY <1>2, BooksMove
<1>5. \A x \in T : amount'[x] = amount[x] /\ D \in SUBSET T
  BY <1>2, BooksMove
<1>6. PaidBack \in Nat /\ PaidBack' \in Nat /\ PaidBack <= PaidBack'
  <2>1. \A x \in D : amount[x] = amount'[x]
    BY <1>2, BooksMove
  <2>. QED BY <1>1, <1>3, <1>4, <2>1, FewerRows
<1>7. PaidBack' <= TakenBack'
  BY <1>1, <1>3, <1>4, FewerRows
<1>8. TakenBack' <= Captured
  <2>1. CASE \A x \in Row : remote'[x] # "none" => remote[x] # "none" /\ (remote[x] = "FAILED" => remote'[x] = "FAILED")
    <3>1. U \in SUBSET T
      BY <1>2, <2>1 DEF Sound, TypeOK
    <3>2. \A x \in U : amount'[x] = amount[x]
      BY <1>5, <3>1
    <3>3. TakenBack' <= TakenBack /\ TakenBack' \in Nat /\ TakenBack \in Nat
      BY <1>1, <1>3, <1>4, <3>1, <3>2, FewerRows
    <3>. QED BY <3>3 DEF ConstantsOK
  <2>2. ASSUME amount' = amount,
               NEW y \in Row, remote[y] = "none", TakenBack + amount[y] <= Captured,
               \A x \in Row \ {y} : remote'[x] = remote[x]
        PROVE  TakenBack' <= Captured
    <3>1. U \in SUBSET (T \union {y}) /\ y \notin T
      BY <1>2, <2>2
    <3>2. T \union {y} \in SUBSET Row /\ Sizes(amount, T)
      BY <1>1, <1>4, FS_Subset DEF Sizes, ConstantsOK
    <3>3. amount[y] \in Nat
      BY <1>1
    <3>4. Sum(amount, T \union {y}) = amount[y] + Sum(amount, T)
      BY <3>1, <3>2, <3>3, SumAdds
    <3>5. Sum(amount, U) <= Sum(amount, T \union {y}) /\ Sum(amount, U) \in Nat
      BY <1>1, <3>1, <3>2, FewerRows
    <3>6. Sum(amount, T) \in Nat
      BY <3>2, SumIsNat
    <3>. QED BY <1>3, <2>2, <3>3, <3>4, <3>5, <3>6 DEF ConstantsOK
  <2>. QED BY <2>1, <2>2, BooksMove
<1>. QED BY <1>6, <1>7, <1>8

\* A handler elsewhere than at finalizeRefundedPayment's writes.
Elsewhere(j) == j.step \notin {"final.payment", "final.booking"}

\* Only finalizeRefundedPayment's read takes a handler there.
LEMMA GoElsewhere ==
  ASSUME Sound, ConstantsOK, NEW r \in Request,
         \/ Cancel(r) \/ AdminRefund(r) \/ Die(r)
         \/ AskRead(r) \/ AskOpen(r) \/ AskCreate(r) \/ AskMark(r) \/ Accept(r) \/ Refuse(r)
         \/ AskRecord(r) \/ ReportWrite(r) \/ FailMark(r)
         \/ \E x \in Row : Report(r, x) \/ Reconcile(r, x)
  PROVE  \E j : Go(r, j) /\ Elsewhere(j)
<1>1. job[r] \in Job /\ NoJob \in Job /\ Elsewhere(NoJob)
  BY NoJobTyped DEF Sound, TypeOK, Elsewhere, NoJob
<1>2. CASE Cancel(r) \/ Die(r) \/ FailMark(r)
  <2>1. Elsewhere([NoJob EXCEPT !.step = "ask.read"])
    BY DEF NoJob, Elsewhere
  <2>. QED BY <1>1, <1>2, <2>1 DEF Cancel, Die, FailMark, Throw, Return
<1>3. CASE AdminRefund(r)
  <2>1. PICK n : Go(r, [NoJob EXCEPT !.step = "ask.read", !.sum = n])
    BY <1>3 DEF AdminRefund
  <2>2. Elsewhere([NoJob EXCEPT !.step = "ask.read", !.sum = n])
    BY DEF NoJob, Elsewhere
  <2>. QED BY <2>1, <2>2
<1>4. CASE AskRead(r)
  <2>1. \A n, b : Elsewhere([job[r] EXCEPT !.step = "ask.open", !.sum = n, !.whole = b])
    BY <1>1 DEF Job, Elsewhere
  <2>. QED BY <1>1, <1>4, <2>1 DEF AskRead, Throw
<1>5. CASE AskOpen(r)
  <2>1. Elsewhere([job[r] EXCEPT !.step = "ask.create"])
    BY <1>1 DEF Job, Elsewhere
  <2>. QED BY <1>1, <1>5, <2>1 DEF AskOpen, Throw
<1>6. CASE AskCreate(r)
  <2>1. PICK x, s : /\ s = IF job[r].whole THEN "ask.mark" ELSE "ask.gateway"
                    /\ Go(r, [job[r] EXCEPT !.step = s, !.x = x])
    BY <1>6 DEF AskCreate
  <2>2. Elsewhere([job[r] EXCEPT !.step = s, !.x = x])
    BY <1>1, <2>1 DEF Job, Elsewhere
  <2>. QED BY <2>1, <2>2
<1>7. CASE AskMark(r)
  <2>1. Elsewhere([job[r] EXCEPT !.step = "ask.gateway"])
    BY <1>1 DEF Job, Elsewhere
  <2>. QED BY <1>7, <2>1 DEF AskMark
<1>8. CASE Accept(r)
  <2>1. \A s : Elsewhere([job[r] EXCEPT !.step = "ask.record", !.seen = s])
    BY <1>1 DEF Job, Elsewhere
  <2>. QED BY <1>1, <1>8, <2>1 DEF Accept, Throw
<1>9. CASE Refuse(r) \/ AskRecord(r) \/ ReportWrite(r)
  <2>1. \A s \in {"fail.mark", "final.read"} : Elsewhere([job[r] EXCEPT !.step = s])
    BY <1>1 DEF Job, Elsewhere
  <2>. QED BY <1>1, <1>9, <2>1 DEF Refuse, AskRecord, ReportWrite, Return
<1>10. CASE \E x \in Row : Report(r, x) \/ Reconcile(r, x)
  <2>1. PICK x \in Row, n \in {NoJob, [NoJob EXCEPT !.hook = TRUE]} :
          \/ Go(r, NoJob)
          \/ Go(r, [n EXCEPT !.step = "report.write", !.x = x, !.seen = Mapped(remote[x])])
    BY <1>10 DEF Report, Reconcile, Heard
  <2>2. n \in Job
    BY <1>1 DEF NoJob, Job
  <2>3. Elsewhere([n EXCEPT !.step = "report.write", !.x = x, !.seen = Mapped(remote[x])])
    BY <2>2 DEF Job, Elsewhere
  <2>. QED BY <1>1, <2>1, <2>3
<1>. QED BY <1>2, <1>3, <1>4, <1>5, <1>6, <1>7, <1>8, <1>9, <1>10

\* Nobody says REFUNDED unless somebody did before, or the sum just read is whole.
LEMMA WordsMove ==
  ASSUME Sound, ConstantsOK, [Next]_vars, \A r \in Request : ~SaysRefunded(r)
  PROVE  /\ payment' = "REFUNDED" => payment = "REFUNDED"
         /\ booking' = "REFUNDED" => booking = "REFUNDED"
         /\ (\E q \in Request : SaysRefunded(q)') => ~Partial(Refunded)
<1>1. \A r \in Request : job[r] \in Job
  BY DEF Sound, TypeOK
<1>2. ASSUME NEW r \in Request, NEW j, Go(r, j), Elsewhere(j)
      PROVE  ~\E q \in Request : SaysRefunded(q)'
  <2>1. \A q \in Request : job'[q] = IF q = r THEN j ELSE job[q]
    BY <1>2, GoOne DEF Sound
  <2>. QED BY <1>2, <2>1 DEF SaysRefunded, Elsewhere
<1>3. CASE UNCHANGED vars
  BY <1>3 DEF vars, SaysRefunded
<1>4. CASE \E r \in Request : \/ Cancel(r) \/ AdminRefund(r) \/ Die(r)
                              \/ AskRead(r) \/ AskOpen(r) \/ AskCreate(r) \/ AskMark(r)
                              \/ Accept(r) \/ Refuse(r)
                              \/ AskRecord(r) \/ ReportWrite(r) \/ FailMark(r)
                              \/ \E x \in Row : Report(r, x) \/ Reconcile(r, x)
  <2>1. PICK r \in Request : \/ Cancel(r) \/ AdminRefund(r) \/ Die(r)
                             \/ AskRead(r) \/ AskOpen(r) \/ AskCreate(r) \/ AskMark(r)
                             \/ Accept(r) \/ Refuse(r)
                             \/ AskRecord(r) \/ ReportWrite(r) \/ FailMark(r)
                             \/ \E x \in Row : Report(r, x) \/ Reconcile(r, x)
    BY <1>4
  <2>2. \E j : Go(r, j) /\ Elsewhere(j)
    BY <2>1, GoElsewhere
  <2>3. /\ payment' \in {payment, "REFUND_PENDING", "REFUND_FAILED"}
        /\ booking' \in {booking, "CANCELLED"}
    BY <2>1 DEF Cancel, AdminRefund, Die, AskRead, AskOpen, AskCreate, AskMark, Accept, Refuse,
      AskRecord, ReportWrite, FailMark, Report, Reconcile, rows
  <2>. QED BY <1>2, <2>2, <2>3
<1>5. CASE \E r \in Request : FinalRead(r)
  <2>1. PICK r \in Request : FinalRead(r)
    BY <1>5
  <2>2. PICK j : Go(r, j) /\ (j.step = "final.booking" => FALSE) /\ (j.whole => ~Partial(Refunded))
    <3> DEFINE all == ~Partial(Refunded)
    <3>1. all \in BOOLEAN
      BY DEF Partial
    <3>2. Go(r, [job[r] EXCEPT !.step = "final.payment", !.whole = all, !.seen = booking])
      BY <2>1 DEF FinalRead
    <3>3. all => ~Partial(Refunded)
      OBVIOUS
    <3> HIDE DEF all
    <3>4. /\ [job[r] EXCEPT !.step = "final.payment", !.whole = all, !.seen = booking].step = "final.payment"
          /\ [job[r] EXCEPT !.step = "final.payment", !.whole = all, !.seen = booking].whole = all
      BY <1>1 DEF Job
    <3>. QED BY <3>2, <3>3, <3>4
  <2>3. \A q \in Request : job'[q] = IF q = r THEN j ELSE job[q]
    BY <2>2, GoOne DEF Sound
  <2>4. UNCHANGED <<booking, payment>>
    BY <2>1 DEF FinalRead, rows
  <2>. QED BY <2>2, <2>3, <2>4 DEF SaysRefunded
<1>6. CASE \E r \in Request : FinalPayment(r) \/ FinalBooking(r)
  <2>1. PICK r \in Request : FinalPayment(r) \/ FinalBooking(r)
    BY <1>6
  <2>2. ~job[r].whole /\ At(r, "final.payment")
    BY <2>1 DEF SaysRefunded, FinalPayment, FinalBooking, At
  <2>3. payment' = "SUCCESS" /\ Go(r, NoJob) /\ booking' = booking
    BY <2>1, <2>2 DEF FinalPayment, FinalBooking, At, Return
  <2>4. Elsewhere(NoJob)
    BY DEF Elsewhere, NoJob
  <2>. QED BY <1>2, <2>3, <2>4
<1>7. CASE UNCHANGED <<payment, job>> /\ booking' \in {booking, "COMPLETED"}
  BY <1>7 DEF SaysRefunded
<1>8. CASE Complete \/ (\E x \in Row : RemoteEnds(x)) \/ (\E r \in Request, x \in Row : ReportEarly(r, x))
  BY <1>7, <1>8 DEF Complete, RemoteEnds, ReportEarly, rows
<1>9. CASE Next
  BY <1>4, <1>5, <1>6, <1>8, <1>9 DEF Next, Work
<1>. QED BY <1>3, <1>9

\* To begin with nothing was taken back.
LEMMA InitPaid == ConstantsOK /\ Init => PaidSound
<1> SUFFICES ASSUME ConstantsOK, Init PROVE PaidSound
  OBVIOUS
<1>1. {x \in Row : remote[x] \in {"PENDING", "DONE"}} = {}
  BY DEF Init
<1>2. TakenBack = 0
  BY <1>1, TotalIsSum, SumEmpty
<1>3. \A r \in Request : job[r].step = "idle"
  BY DEF Init, NoJob
<1>. QED BY <1>2, <1>3 DEF Init, PaidSound, RefundedIsPaid, ConstantsOK, SaysRefunded

\* The invariant of the words holds after every step.
LEMMA NextPaid ==
  ASSUME ConstantsOK, Sound, Sound', PaidSound, [Next]_vars
  PROVE  PaidSound'
<1>1. /\ PaidBack \in Nat /\ PaidBack' \in Nat /\ Captured \in Nat
      /\ PaidBack <= PaidBack' /\ PaidBack' <= TakenBack' /\ TakenBack' <= Captured
  BY MoneyKept DEF PaidSound, ConstantsOK
<1>2. TakenBack' \in Nat /\ Refunded \in Nat /\ Refunded <= PaidBack
  <2>1. TakenBack' = Sum(amount', {x \in Row : remote'[x] \in {"PENDING", "DONE"}})
    BY TotalIsSum
  <2>2. amount' \in [Row -> Nat]
    BY DEF Sound, TypeOK
  <2>3. TakenBack' \in Nat
    BY <2>1, <2>2, FewerRows
  <2>. QED BY <2>3, TotalsOrdered
<1>3. PaidBack = Captured => PaidBack' = Captured
  BY <1>1, <1>2
<1>4. (\E r \in Request : SaysRefunded(r)) => PaidBack = Captured
  BY DEF PaidSound
<1>5. ~Partial(Refunded) => PaidBack = Captured
  <2>1. PaidBack <= Captured
    BY <1>1, <1>2
  <2>. QED BY <1>1, <1>2, <2>1 DEF Partial
<1>6. CASE PaidBack = Captured
  BY <1>1, <1>3, <1>6 DEF PaidSound, RefundedIsPaid
<1>7. CASE PaidBack # Captured
  <2>1. payment # "REFUNDED" /\ booking # "REFUNDED" /\ \A r \in Request : ~SaysRefunded(r)
    BY <1>4, <1>7 DEF PaidSound, RefundedIsPaid
  <2>2. /\ payment' # "REFUNDED" /\ booking' # "REFUNDED"
        /\ \A q \in Request : ~SaysRefunded(q)'
    BY <1>5, <1>7, <2>1, WordsMove
  <2>. QED BY <1>1, <2>2 DEF PaidSound, RefundedIsPaid, SaysRefunded
<1>. QED BY <1>6, <1>7

\* A payment or a booking is called refunded only when the gateway has given
\* all of the money back: for any rows, requests and amounts, with every
\* fault (finalizeRefundedPayment's sum of completed refunds).
THEOREM RefundedArePaid == Spec => []RefundedIsPaid
<1>1. PaidSound => RefundedIsPaid
  BY DEF PaidSound
<1>2. Sound /\ Sound' /\ PaidSound /\ [Next]_vars => PaidSound'
  BY NextPaid, ConstantsOK
<1>3. Init => Sound /\ PaidSound
  BY InitSound, InitPaid, ConstantsOK
<1>4. Sound /\ [Next]_vars => Sound'
  BY NextSound, ConstantsOK
<1>. QED BY <1>1, <1>2, <1>3, <1>4, PTL DEF Spec

=============================================================================
