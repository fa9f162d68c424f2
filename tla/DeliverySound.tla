---------------------------- MODULE DeliverySound ----------------------------
(***************************************************************************)
(* For any events, requests and faults: a message goes out once and once   *)
(* more for each accident that makes a copy, and a request lets go of a    *)
(* message only when it has handed it over.                                *)
(*                                                                         *)
(* The row a notification writes makes one request its sender; until that  *)
(* one hands a message over nothing has touched it, and from then on the   *)
(* copies made and the copies to come are counted together.                *)
(***************************************************************************)
EXTENDS Delivery, TLAPS

PastRow == {"email.user", "email.add", "phone.user", "phone.add"}

Untouched(m) == queue[m] = "none" /\ task[m] = "none" /\ copies[m] = 0

\* What a request at work knows of its event.
SenderKnows(j) ==
  /\ j.step # "idle" => j.e \in Event
  /\ j.step \in PastRow => j.e \in rows
  /\ j.step \in {"phone.user", "phone.add"} => j.e \in Messaged /\ j.wa
  /\ \A m \in Outstanding(j) : Untouched(m)

OneSender ==
  \A r, q \in Request :
    job[r].step \in PastRow /\ job[q].step \in PastRow /\ job[r].e = job[q].e => r = q

Unannounced == \A e \in Event \ rows : Untouched(Mail(e)) /\ Untouched(Template(e))

\* Copies that the queue and the process still mean to send.
FromQueue(m) == IF queue[m] \in {"waiting", "active", "delayed", "stalled", "orphan"} THEN 1 ELSE 0
FromTask(m) == IF task[m] = "running" THEN 1 ELSE 0

MessageSound(m) ==
  /\ copies[m] + FromQueue(m) + FromTask(m) <= 1 + mishaps[m]
  /\ queue[m] \notin {"done", "failed", "orphan", "lost"} =>
       tries[m] < EmailAttempts /\ stalls[m] <= 1

Sound ==
  /\ TypeOK
  /\ \A r \in Request : SenderKnows(job[r])
  /\ OneSender
  /\ Unannounced
  /\ \A m \in Message : MessageSound(m)

-----------------------------------------------------------------------------
\* A request that does nothing owes nothing.
LEMMA NoJobOwesNothing ==
  /\ NoJob \in Job
  /\ NoJob.step = "idle"
  /\ Outstanding(NoJob) = {}
BY DEF NoJob, Job, Step, Outstanding

\* The messages of the events are all there is, and are told apart.
LEMMA Messages ==
  /\ \A e \in Event : Mail(e) \in Message /\ Template(e) \in Message
  /\ \A e, d : Mail(e) # Template(d)
  /\ \A e, d : Mail(e) = Mail(d) \/ Template(e) = Template(d) => e = d
BY DEF Mail, Template, Message

\* What a request owes concerns its own event, and only once its row is there.
LEMMA OwesOwn ==
  ASSUME NEW j, NEW m \in Outstanding(j)
  PROVE  m \in {Mail(j.e), Template(j.e)} /\ j.step \in PastRow
BY DEF Outstanding, PastRow

\* Initially nobody was told anything.
LEMMA InitSound == ConstantsOK /\ Init => Sound
<1> SUFFICES ASSUME ConstantsOK, Init PROVE Sound
  OBVIOUS
<1>1. TypeOK
  BY NoJobOwesNothing DEF Init, TypeOK, ConstantsOK
<1>2. \A r \in Request : SenderKnows(job[r])
  BY NoJobOwesNothing DEF Init, SenderKnows, PastRow
<1>3. OneSender
  BY NoJobOwesNothing DEF Init, OneSender, PastRow
<1>4. Unannounced
  BY Messages DEF Init, Unannounced, Untouched
<1>5. \A m \in Message : MessageSound(m)
  BY DEF Init, MessageSound, FromQueue, FromTask, ConstantsOK
<1>. QED BY <1>1, <1>2, <1>3, <1>4, <1>5 DEF Sound

-----------------------------------------------------------------------------
(* Steps of the worker and of the process: they concern messages that were *)
(* handed over.                                                            *)

\* A step that leaves requests and rows alone is judged by its messages.
LEMMA SendingSound ==
  ASSUME Sound, UNCHANGED <<rows, job>>, TypeOK',
         \A m \in Message : MessageSound(m)' /\ (Untouched(m) => Untouched(m)')
  PROVE  Sound'
<1>1. \A r \in Request : SenderKnows(job[r])'
  <2> TAKE r \in Request
  <2>1. SenderKnows(job[r]) /\ job[r] \in Job
    BY DEF Sound, TypeOK
  <2>2. \A m \in Outstanding(job[r]) : m \in Message
    BY <2>1, OwesOwn, Messages DEF SenderKnows, PastRow
  <2>3. Outstanding(job[r])' = Outstanding(job[r])
    BY DEF Outstanding
  <2>. QED BY <2>1, <2>2, <2>3 DEF SenderKnows
<1>2. OneSender'
  BY DEF Sound, OneSender
<1>3. Unannounced'
  BY Messages DEF Sound, Unannounced
<1>. QED BY <1>1, <1>2, <1>3 DEF Sound

\* The types of the numbers kept of a message.
LEMMA MessageTypes ==
  ASSUME ConstantsOK, Sound, NEW m \in Message
  PROVE  /\ queue[m] \in {"none", "waiting", "active", "accepted", "delayed",
                          "stalled", "done", "failed", "orphan", "lost"}
         /\ task[m] \in {"none", "running", "done", "failed", "lost"}
         /\ tries[m] \in Nat /\ stalls[m] \in Nat /\ copies[m] \in Nat /\ mishaps[m] \in Nat
         /\ EmailAttempts \in Nat
BY DEF Sound, TypeOK, ConstantsOK

\* The worker, with the message in hand.
LEMMA WorkerSound ==
  ASSUME ConstantsOK, Sound, NEW m \in Message, Worker(m)
  PROVE  Sound'
<1>1. UNCHANGED <<rows, job, phase, task, dropped>>
  BY DEF Worker, Take, Accept, Acknowledge, RefusedByMeta, Throw, Backoff, Reclaim, FinishOrphan
<1>2. /\ MessageSound(m) /\ ConstantsOK
      /\ queue \in [Message -> {"none", "waiting", "active", "accepted", "delayed",
                                "stalled", "done", "failed", "orphan", "lost"}]
      /\ tries \in [Message -> 0 .. EmailAttempts] /\ stalls \in [Message -> 0 .. 2]
      /\ copies \in [Message -> Nat] /\ mishaps \in [Message -> Nat]
  BY DEF Sound, TypeOK
<1>3. PICK q, t, s, c, h :
        /\ queue' = [queue EXCEPT ![m] = q] /\ tries' = [tries EXCEPT ![m] = t]
        /\ stalls' = [stalls EXCEPT ![m] = s] /\ copies' = [copies EXCEPT ![m] = c]
        /\ mishaps' = [mishaps EXCEPT ![m] = h]
        /\ \/ /\ queue[m] = "waiting" /\ q = "active"
              /\ t = tries[m] /\ s = stalls[m] /\ c = copies[m] /\ h = mishaps[m]
           \/ /\ queue[m] = "active" /\ q = "accepted"
              /\ t = tries[m] /\ s = stalls[m] /\ c = copies[m] + 1 /\ h = mishaps[m]
           \/ /\ queue[m] \in {"accepted", "active"} /\ q = "done"
              /\ t = tries[m] /\ s = stalls[m] /\ c = copies[m] /\ h = mishaps[m]
           \/ /\ \/ queue[m] = "active" /\ h = mishaps[m]
                 \/ queue[m] = "accepted" /\ h = mishaps[m] + 1
              /\ q = IF tries[m] + 1 < EmailAttempts THEN "delayed" ELSE "failed"
              /\ t = tries[m] + 1 /\ s = stalls[m] /\ c = copies[m]
           \/ /\ queue[m] = "delayed" /\ q = "waiting"
              /\ t = tries[m] /\ s = stalls[m] /\ c = copies[m] /\ h = mishaps[m]
           \/ /\ queue[m] = "stalled" /\ q = IF stalls[m] = 0 THEN "waiting" ELSE "failed"
              /\ t = tries[m] /\ s = stalls[m] + 1 /\ c = copies[m] /\ h = mishaps[m]
           \/ /\ queue[m] = "orphan" /\ q = "lost" /\ c \in {copies[m], copies[m] + 1}
              /\ t = tries[m] /\ s = stalls[m] /\ h = mishaps[m]
  <2>0. /\ tries = [tries EXCEPT ![m] = tries[m]] /\ stalls = [stalls EXCEPT ![m] = stalls[m]]
        /\ copies = [copies EXCEPT ![m] = copies[m]] /\ mishaps = [mishaps EXCEPT ![m] = mishaps[m]]
    BY <1>2
  <2>1. CASE Take(m)
    BY <2>0, <2>1 DEF Take, Requeue
  <2>2. CASE Accept(m)
    BY <2>0, <2>2 DEF Accept, Requeue, AddCopy
  <2>3. CASE Acknowledge(m) \/ RefusedByMeta(m)
    BY <2>0, <2>3 DEF Acknowledge, RefusedByMeta, Requeue
  <2>4. CASE Throw(m)
    BY <2>0, <2>4 DEF Throw, Fail, RetryLeft, Requeue
  <2>5. CASE Backoff(m)
    BY <2>0, <2>5 DEF Backoff, Requeue
  <2>6. CASE Reclaim(m)
    BY <2>0, <2>6 DEF Reclaim, Requeue
  <2>7. CASE FinishOrphan(m)
    BY <2>0, <2>7 DEF FinishOrphan, Requeue, AddCopy
  <2>. QED BY <2>1, <2>2, <2>3, <2>4, <2>5, <2>6, <2>7 DEF Worker
<1>4. /\ queue'[m] = q /\ tries'[m] = t /\ stalls'[m] = s /\ copies'[m] = c /\ mishaps'[m] = h
      /\ \A k \in Message \ {m} : /\ queue'[k] = queue[k] /\ tries'[k] = tries[k]
                                  /\ stalls'[k] = stalls[k] /\ copies'[k] = copies[k]
                                  /\ mishaps'[k] = mishaps[k]
  BY <1>2, <1>3
<1>5. /\ t \in 0 .. EmailAttempts /\ s \in 0 .. 2 /\ c \in Nat /\ h \in Nat
      /\ q \in {"active", "accepted", "done", "delayed", "failed", "waiting", "lost"}
  BY <1>2, <1>3 DEF MessageSound, ConstantsOK
<1>6. TypeOK'
  BY <1>1, <1>2, <1>3, <1>5 DEF Sound, TypeOK
<1>7. MessageSound(m)'
  BY <1>1, <1>2, <1>3, <1>4, MessageTypes DEF MessageSound, FromQueue, FromTask
<1>8. \A k \in Message \ {m} : MessageSound(k)'
  BY <1>1, <1>4 DEF Sound, MessageSound, FromQueue, FromTask
<1>9. \A k \in Message : Untouched(k) => Untouched(k)'
  BY <1>1, <1>3, <1>4 DEF Untouched
<1>. QED BY <1>1, <1>6, <1>7, <1>8, <1>9, SendingSound

\* A delivery from the memory of the process ends.
LEMMA BackgroundSound ==
  ASSUME ConstantsOK, Sound, NEW m \in Message, Background(m)
  PROVE  Sound'
<1>1. /\ UNCHANGED <<rows, job, phase, queue, tries, stalls, mishaps, dropped>>
      /\ task[m] = "running"
      /\ \/ task' = [task EXCEPT ![m] = "done"] /\ copies' = [copies EXCEPT ![m] = @ + 1]
         \/ task' = [task EXCEPT ![m] = "failed"] /\ copies' = copies
  BY DEF Background, TaskSends, TaskFails, AddCopy
<1>2. /\ task \in [Message -> {"none", "running", "done", "failed", "lost"}]
      /\ copies \in [Message -> Nat]
  BY DEF Sound, TypeOK
<1>3. TypeOK'
  BY <1>1, <1>2 DEF Sound, TypeOK
<1>4. /\ task'[m] \in {"done", "failed"} /\ copies'[m] \in {copies[m], copies[m] + 1}
      /\ \A k \in Message \ {m} : task'[k] = task[k] /\ copies'[k] = copies[k]
  BY <1>1, <1>2
<1>5. MessageSound(m)'
  BY <1>1, <1>4, MessageTypes DEF Sound, MessageSound, FromQueue, FromTask
<1>6. \A k \in Message \ {m} : MessageSound(k)'
  BY <1>1, <1>4 DEF Sound, MessageSound, FromQueue, FromTask
<1>7. \A k \in Message : Untouched(k) => Untouched(k)'
  BY <1>1, <1>4 DEF Untouched
<1>. QED BY <1>1, <1>3, <1>5, <1>6, <1>7, SendingSound

\* The process is started, asked to stop, stops; Redis forgets.
LEMMA ProcessSound ==
  ASSUME ConstantsOK, Sound, Restart \/ Sigterm \/ RedisRestarts \/ UNCHANGED vars
  PROVE  Sound'
<1>1. /\ UNCHANGED <<rows, job, tries, stalls, copies, mishaps>>
      /\ phase' \in {"up", "closing", "draining", "down"}
  BY DEF Restart, Drain, Exit, Start, Sigterm, RedisRestarts, vars, sending, Sound, TypeOK
<1>2. /\ queue \in [Message -> {"none", "waiting", "active", "accepted", "delayed",
                                "stalled", "done", "failed", "orphan", "lost"}]
      /\ task \in [Message -> {"none", "running", "done", "failed", "lost"}]
      /\ dropped \subseteq Message
  BY DEF Sound, TypeOK
<1>3. ASSUME UNCHANGED <<queue, task, dropped>> PROVE Sound'
  <2>1. TypeOK'
    BY <1>1, <1>3 DEF Sound, TypeOK
  <2>2. \A m \in Message : MessageSound(m)' /\ (Untouched(m) => Untouched(m)')
    BY <1>1, <1>3 DEF Sound, MessageSound, FromQueue, FromTask, Untouched
  <2>. QED BY <1>1, <2>1, <2>2, SendingSound
<1>4. CASE Exit
  <2>1. /\ queue' = queue
        /\ task' = [m \in Message |-> IF task[m] = "running" THEN "lost" ELSE task[m]]
        /\ \/ dropped' = dropped /\ \A m \in Message : task[m] # "running"
           \/ dropped' = dropped \union {m \in Message : task[m] = "running"}
    BY <1>4 DEF Exit, Tasks, Drained
  <2>2. TypeOK'
    BY <1>1, <1>2, <2>1 DEF Sound, TypeOK
  <2>3. \A m \in Message : MessageSound(m)'
    <3> TAKE m \in Message
    <3>1. \/ task[m] # "running" /\ task'[m] = task[m] /\ (m \in dropped => m \in dropped')
          \/ task[m] = "running" /\ task'[m] = "lost" /\ m \in dropped'
      BY <2>1
    <3>. QED BY <1>1, <2>1, <3>1, MessageTypes DEF Sound, MessageSound, FromQueue, FromTask
  <2>4. \A m \in Message : Untouched(m) => Untouched(m)'
    BY <1>1, <2>1 DEF Untouched
  <2>. QED BY <1>1, <2>2, <2>3, <2>4, SendingSound
<1>5. CASE RedisRestarts
  <2> DEFINE gone == {m \in Message : queue[m] \in {"waiting", "delayed", "stalled",
                                                   "active", "accepted"}}
  <2>1. /\ task' = task /\ dropped' = dropped \union gone /\ phase' = phase
        /\ queue' = [m \in Message |-> IF m \notin gone THEN queue[m]
                                       ELSE IF queue[m] = "active" THEN "orphan" ELSE "lost"]
    BY <1>5 DEF RedisRestarts
  <2>2. TypeOK'
    BY <1>1, <1>2, <2>1 DEF Sound, TypeOK
  <2>3. \A m \in Message : MessageSound(m)'
    <3> TAKE m \in Message
    <3>1. \/ /\ queue'[m] = queue[m] /\ (m \in dropped => m \in dropped')
          \/ /\ queue[m] = "active" /\ queue'[m] = "orphan" /\ m \in dropped'
          \/ /\ queue'[m] = "lost" /\ m \in dropped'
      BY <2>1
    <3>. QED BY <1>1, <2>1, <3>1, MessageTypes DEF Sound, MessageSound, FromQueue, FromTask
  <2>4. \A m \in Message : Untouched(m) => Untouched(m)'
    BY <1>1, <2>1 DEF Untouched
  <2>. QED BY <1>1, <2>2, <2>3, <2>4, SendingSound
<1>. QED
  BY <1>3, <1>4, <1>5 DEF Restart, Drain, Start, Sigterm, vars, sending

\* The process is killed: what its requests owed is dropped with them.
LEMMA CrashSound ==
  ASSUME ConstantsOK, Sound, Crash
  PROVE  Sound'
<1>1. /\ UNCHANGED <<rows, tries, stalls, copies>> /\ phase' = "down"
      /\ dropped' = dropped \union Tasks \union UNION {Outstanding(job[r]) : r \in Request}
      /\ job' = [r \in Request |-> NoJob]
      /\ task' = [m \in Message |-> IF m \in Tasks THEN "lost" ELSE task[m]]
      /\ mishaps' = [m \in Message |-> mishaps[m] + (IF queue[m] = "accepted" THEN 1 ELSE 0)]
      /\ queue' = [m \in Message |-> CASE queue[m] = "orphan" -> "lost"
                                       [] queue[m] \in {"active", "accepted"} -> "stalled"
                                       [] OTHER -> queue[m]]
  BY DEF Crash
<1>2. /\ queue \in [Message -> {"none", "waiting", "active", "accepted", "delayed",
                                "stalled", "done", "failed", "orphan", "lost"}]
      /\ task \in [Message -> {"none", "running", "done", "failed", "lost"}]
      /\ mishaps \in [Message -> Nat]
      /\ dropped \subseteq Message
  BY DEF Sound, TypeOK
<1>3. \A r \in Request : Outstanding(job[r]) \subseteq Message
  BY OwesOwn, Messages DEF Sound, SenderKnows, PastRow
<1>4. \A m \in Message : mishaps[m] + (IF queue[m] = "accepted" THEN 1 ELSE 0) \in Nat
  BY <1>2
<1>5. TypeOK'
  <2>1. dropped' \subseteq Message
    BY <1>1, <1>2, <1>3 DEF Tasks
  <2>2. mishaps' \in [Message -> Nat]
    BY <1>1, <1>4
  <2>3. queue' \in [Message -> {"none", "waiting", "active", "accepted", "delayed",
                                "stalled", "done", "failed", "orphan", "lost"}]
    BY <1>1, <1>2
  <2>4. task' \in [Message -> {"none", "running", "done", "failed", "lost"}]
    BY <1>1, <1>2
  <2>. QED BY <1>1, <2>1, <2>2, <2>3, <2>4, NoJobOwesNothing DEF Sound, TypeOK
<1>6. \A m \in Message : MessageSound(m)'
  <2> TAKE m \in Message
  <2>1. \/ task[m] # "running" /\ task'[m] = task[m] /\ (m \in dropped => m \in dropped')
        \/ task[m] = "running" /\ task'[m] = "lost" /\ m \in dropped'
    BY <1>1 DEF Tasks
  <2>2. \/ queue[m] = "orphan" /\ queue'[m] = "lost" /\ mishaps'[m] = mishaps[m]
        \/ queue[m] = "active" /\ queue'[m] = "stalled" /\ mishaps'[m] = mishaps[m]
        \/ queue[m] = "accepted" /\ queue'[m] = "stalled" /\ mishaps'[m] = mishaps[m] + 1
        \/ /\ queue[m] \notin {"orphan", "active", "accepted"} /\ queue'[m] = queue[m]
           /\ mishaps'[m] = mishaps[m]
    BY <1>1, MessageTypes
  <2>. QED BY <1>1, <2>1, <2>2, MessageTypes DEF Sound, MessageSound, FromQueue, FromTask
<1>7. \A r \in Request : SenderKnows(job[r])'
  <2> TAKE r \in Request
  <2>1. job'[r] = NoJob
    BY <1>1
  <2>. QED BY <2>1, NoJobOwesNothing DEF SenderKnows, PastRow, Outstanding
<1>8. OneSender'
  BY <1>1, NoJobOwesNothing DEF OneSender, PastRow
<1>9. Unannounced'
  <2>1. \A m \in Message : Untouched(m) => Untouched(m)'
    BY <1>1 DEF Untouched, Tasks
  <2>. QED BY <1>1, <2>1, Messages DEF Sound, Unannounced
<1>. QED BY <1>5, <1>6, <1>7, <1>8, <1>9 DEF Sound

-----------------------------------------------------------------------------
(* Steps of the requests.                                                  *)

\* A step changes one request and no other.
LEMMA GoOne ==
  ASSUME Sound, NEW r \in Request, NEW j \in Job, Go(r, j)
  PROVE  /\ job' \in [Request -> Job]
         /\ job'[r] = j
         /\ \A q \in Request \ {r} : job'[q] = job[q]
BY DEF Sound, TypeOK, Go

\* Going on: the next step of the same notification, or none.
LEMMA ContinueOne ==
  ASSUME Sound, NEW r \in Request, NEW step \in Step, Continue(r, step)
  PROVE  \E j \in Job : /\ Go(r, j)
                        /\ \/ j = NoJob
                           \/ j.step = step /\ j.e = job[r].e /\ j.wa = job[r].wa
<1>1. job[r] \in Job
  BY DEF Sound, TypeOK
<1>2. CASE step = "idle"
  BY <1>2, NoJobOwesNothing DEF Continue, Return
<1>3. CASE step # "idle"
  <2> DEFINE j == [job[r] EXCEPT !.step = step]
  <2>1. j \in Job /\ j.step = step /\ j.e = job[r].e /\ j.wa = job[r].wa
    BY <1>1 DEF Job
  <2>. QED BY <1>3, <2>1 DEF Continue, GoTo
<1>. QED BY <1>2, <1>3

\* A step of a request that hands nothing over: what it owes from now on must
\* be untouched, and its event nobody else's.
LEMMA RequestSound ==
  ASSUME Sound, NEW r \in Request, NEW j \in Job, Go(r, j), UNCHANGED <<phase, sending>>,
         rows \subseteq rows', rows' \subseteq Event,
         dropped \subseteq dropped', dropped' \subseteq Message,
         SenderKnows(j)',
         \A q \in Request \ {r} :
           j.step \in PastRow /\ job[q].step \in PastRow => job[q].e # j.e
  PROVE  Sound'
<1>1. UNCHANGED <<queue, tries, stalls, task, copies, mishaps>>
  BY DEF sending
<1>2. /\ job' \in [Request -> Job] /\ job'[r] = j
      /\ \A q \in Request \ {r} : job'[q] = job[q]
  BY GoOne
<1>3. TypeOK'
  BY <1>1, <1>2 DEF Sound, TypeOK
<1>4. \A q \in Request : SenderKnows(job[q])'
  <2>1. SenderKnows(job[r])'
    BY <1>2 DEF SenderKnows, Outstanding, Untouched
  <2>2. \A q \in Request \ {r} : SenderKnows(job[q])'
    BY <1>1, <1>2 DEF Sound, SenderKnows, Outstanding, Untouched
  <2>. QED BY <2>1, <2>2
<1>5. OneSender'
  BY <1>2 DEF Sound, OneSender
<1>6. Unannounced'
  BY <1>1 DEF Sound, Unannounced, Untouched
<1>7. \A m \in Message : MessageSound(m)'
  BY <1>1 DEF Sound, MessageSound, FromQueue, FromTask
<1>. QED BY <1>3, <1>4, <1>5, <1>6, <1>7 DEF Sound

\* A request that is done.
LEMMA DoneSound ==
  ASSUME Sound, NEW r \in Request, Return(r), UNCHANGED <<phase, sending, rows>>,
         dropped \subseteq dropped', dropped' \subseteq Message
  PROVE  Sound'
<1>1. SenderKnows(NoJob)'
  BY NoJobOwesNothing DEF SenderKnows, PastRow, Outstanding
<1>2. NoJob.step \notin PastRow
  BY NoJobOwesNothing DEF PastRow
<1>3. rows \subseteq Event
  BY DEF Sound, TypeOK
<1>. QED BY <1>1, <1>2, <1>3, NoJobOwesNothing, RequestSound DEF Return

\* A notification begins.
LEMMA NotifySound ==
  ASSUME ConstantsOK, Sound, NEW r \in Request, NEW e \in Event, Notify(r, e)
  PROVE  Sound'
<1>1. PICK flags \in Preferences : Go(r, [step |-> "row", e |-> e, wa |-> "whatsapp" \in flags])
  BY DEF Notify
<1> DEFINE j == [step |-> "row", e |-> e, wa |-> "whatsapp" \in flags]
<1>2. j \in Job /\ j.step \notin PastRow /\ j.e \in Event /\ j.step = "row"
  BY DEF Job, Step, PastRow
<1>3. Outstanding(j) = {}
  BY DEF Outstanding
<1> HIDE DEF j
<1>4. SenderKnows(j)'
  BY <1>2, <1>3 DEF SenderKnows, Outstanding, PastRow
<1>5. rows \subseteq Event /\ dropped \subseteq Message
  BY DEF Sound, TypeOK
<1>. QED BY <1>1, <1>2, <1>4, <1>5, RequestSound DEF Notify, j

\* The insert decides which request is the sender.
LEMMA InsertRowSound ==
  ASSUME ConstantsOK, Sound, NEW r \in Request, InsertRow(r)
  PROVE  Sound'
<1> DEFINE e == job[r].e
<1>1. /\ job[r].step = "row" /\ e \in Event /\ job[r] \in Job
      /\ rows \subseteq Event /\ dropped \subseteq Message
      /\ UNCHANGED <<phase, sending, dropped>>
  BY DEF InsertRow, At, Sound, SenderKnows, TypeOK
<1>2. CASE ~IsNew(e)
  BY <1>1, <1>2, DoneSound DEF InsertRow
<1>3. CASE IsNew(e)
  <2>1. rows' = rows \union {e} /\ Continue(r, AfterRow(job[r]))
    BY <1>3 DEF InsertRow
  <2>2. AfterRow(job[r]) \in {"email.user", "phone.user", "idle"}
    BY DEF AfterRow, AfterEmail
  <2>3. AfterRow(job[r]) = "phone.user" => e \in Messaged /\ job[r].wa
    BY DEF AfterRow, AfterEmail
  <2>4. PICK j \in Job : /\ Go(r, j)
                         /\ \/ j = NoJob
                            \/ j.step = AfterRow(job[r]) /\ j.e = e /\ j.wa = job[r].wa
    BY <2>1, <2>2, ContinueOne DEF Step
  <2>5. CASE j = NoJob
    <3>1. SenderKnows(NoJob)' /\ NoJob.step \notin PastRow
      BY NoJobOwesNothing DEF SenderKnows, PastRow, Outstanding
    <3>. QED BY <1>1, <2>1, <2>4, <2>5, <3>1, RequestSound
  <2>6. CASE j.step = AfterRow(job[r]) /\ j.e = e /\ j.wa = job[r].wa
    <3>1. Untouched(Mail(e)) /\ Untouched(Template(e))
      BY <1>1, <1>3 DEF Sound, Unannounced, IsNew
    <3>2. \A m \in Outstanding(j) : m \in {Mail(e), Template(e)}
      BY <2>6, OwesOwn
    <3>3. SenderKnows(j)'
      BY <1>1, <2>1, <2>2, <2>3, <2>6, <3>1, <3>2
         DEF SenderKnows, Outstanding, Untouched, PastRow, sending
    <3>4. \A q \in Request \ {r} : job[q].step \in PastRow => job[q].e # e
      BY <1>3 DEF Sound, SenderKnows, IsNew
    <3>. QED BY <1>1, <2>1, <2>4, <2>6, <3>3, <3>4, RequestSound
  <2>. QED BY <2>4, <2>5, <2>6
<1>. QED BY <1>2, <1>3

\* The sender goes on to a step at which it owes no more than before.
LEMMA OnwardSound ==
  ASSUME Sound, NEW r \in Request, NEW j \in Job, Go(r, j), job[r].step \in PastRow,
         UNCHANGED <<phase, sending, rows>>,
         dropped \subseteq dropped', dropped' \subseteq Message,
         \/ j = NoJob
         \/ /\ j.step \in PastRow /\ j.e = job[r].e /\ j.wa = job[r].wa
            /\ j.step \in {"phone.user", "phone.add"} => j.e \in Messaged /\ j.wa
            /\ Outstanding(j) \subseteq Outstanding(job[r])
  PROVE  Sound'
<1>1. rows \subseteq Event /\ SenderKnows(job[r]) /\ OneSender
  BY DEF Sound, TypeOK
<1>2. CASE j = NoJob
  BY <1>2, DoneSound DEF Return
<1>3. CASE j # NoJob
  <2>1. SenderKnows(j)'
    BY <1>1, <1>3 DEF SenderKnows, Outstanding, Untouched, sending, PastRow
  <2>2. \A q \in Request \ {r} : job[q].step \in PastRow => job[q].e # j.e
    BY <1>1, <1>3 DEF OneSender
  <2>. QED BY <1>1, <2>1, <2>2, RequestSound
<1>. QED BY <1>2, <1>3

\* After the email a request owes at most the template, and only if it is due.
LEMMA AfterEmailOwes ==
  ASSUME Sound, NEW r \in Request, job[r].step \in {"email.user", "email.add"},
         NEW j \in Job, j.step = AfterEmail(job[r]), j.e = job[r].e, j.wa = job[r].wa,
         j.step # "idle"
  PROVE  /\ j.step = "phone.user" /\ j.e \in Messaged /\ j.wa
         /\ Outstanding(j) \subseteq Outstanding(job[r]) \ {Mail(j.e)}
<1>1. j.step = "phone.user" /\ j.e \in Messaged /\ j.wa
  BY DEF AfterEmail
<1>2. Outstanding(j) = {Template(j.e)}
  BY <1>1 DEF Outstanding
<1>3. Template(j.e) \in Outstanding(job[r])
  BY <1>1 DEF Outstanding
<1>. QED BY <1>1, <1>2, <1>3, Messages

\* The look-ups, and the failures around them.
LEMMA LookupSound ==
  ASSUME ConstantsOK, Sound, NEW r \in Request,
         InsertFails(r) \/ FindUser(r) \/ FindPhone(r) \/ LookupFails(r)
  PROVE  Sound'
<1>1. job[r] \in Job /\ dropped \subseteq Message /\ SenderKnows(job[r])
  BY DEF Sound, TypeOK
<1>2. \A m \in Outstanding(job[r]) : m \in Message
  BY <1>1, OwesOwn, Messages DEF SenderKnows, PastRow
<1>3. CASE InsertFails(r)
  BY <1>1, <1>3, DoneSound DEF InsertFails
<1>4. CASE LookupFails(r)
  BY <1>1, <1>2, <1>4, DoneSound DEF LookupFails
<1>5. CASE FindUser(r)
  <2>1. job[r].step = "email.user" /\ UNCHANGED <<rows, phase, sending>>
    BY <1>5 DEF FindUser, At
  <2>2. CASE GoTo(r, "email.add") /\ UNCHANGED dropped
    <3> DEFINE j == [job[r] EXCEPT !.step = "email.add"]
    <3>1. j \in Job /\ j.step = "email.add" /\ j.e = job[r].e /\ j.wa = job[r].wa
      BY <1>1 DEF Job, Step
    <3>2. Outstanding(j) = Outstanding(job[r])
      BY <2>1, <3>1 DEF Outstanding
    <3>3. Go(r, j)
      BY <2>2 DEF GoTo
    <3> HIDE DEF j
    <3>. QED BY <1>1, <2>1, <2>2, <3>1, <3>2, <3>3, OnwardSound DEF PastRow
  <2>3. CASE Continue(r, AfterEmail(job[r])) /\ dropped' = dropped \union {Mail(job[r].e)}
    <3>1. AfterEmail(job[r]) \in Step
      BY DEF AfterEmail, Step
    <3>2. PICK j \in Job : /\ Go(r, j)
                           /\ \/ j = NoJob
                              \/ j.step = AfterEmail(job[r]) /\ j.e = job[r].e /\ j.wa = job[r].wa
      BY <2>3, <3>1, ContinueOne
    <3>3. dropped' \subseteq Message /\ dropped \subseteq dropped'
      BY <1>1, <1>2, <2>1, <2>3 DEF Outstanding
    <3>4. CASE j.step # "idle"
      BY <2>1, <3>2, <3>3, <3>4, AfterEmailOwes, OnwardSound, NoJobOwesNothing DEF PastRow
    <3>5. CASE j.step = "idle"
      <4>1. AfterEmail(job[r]) = "idle" \/ j = NoJob
        BY <3>2, <3>5
      <4>2. Return(r)
        BY <2>3, <3>2, <4>1 DEF Continue, Return
      <4>. QED BY <2>1, <3>3, <4>2, DoneSound
    <3>. QED BY <3>4, <3>5
  <2>. QED BY <1>5, <2>2, <2>3 DEF FindUser
<1>6. CASE FindPhone(r)
  <2>1. job[r].step = "phone.user" /\ UNCHANGED <<rows, phase, sending>>
    BY <1>6 DEF FindPhone, At
  <2>2. CASE GoTo(r, "phone.add") /\ UNCHANGED dropped
    <3> DEFINE j == [job[r] EXCEPT !.step = "phone.add"]
    <3>1. j \in Job /\ j.step = "phone.add" /\ j.e = job[r].e /\ j.wa = job[r].wa
      BY <1>1 DEF Job, Step
    <3>2. Outstanding(j) = Outstanding(job[r])
      BY <2>1, <3>1 DEF Outstanding
    <3>3. Go(r, j)
      BY <2>2 DEF GoTo
    <3> HIDE DEF j
    <3>4. j.e \in Messaged /\ j.wa
      BY <1>1, <2>1, <3>1 DEF SenderKnows
    <3>. QED BY <1>1, <2>1, <2>2, <3>1, <3>2, <3>3, <3>4, OnwardSound DEF PastRow
  <2>3. CASE Return(r) /\ dropped' = dropped \union {Template(job[r].e)}
    <3>1. Template(job[r].e) \in Message
      BY <1>1, <2>1, Messages DEF SenderKnows
    <3>. QED BY <1>1, <2>1, <2>3, <3>1, DoneSound
  <2>. QED BY <1>6, <2>2, <2>3 DEF FindPhone
<1>. QED BY <1>3, <1>4, <1>5, <1>6

\* A message handed over: to Redis, to the memory of the process, or to both.
LEMMA AddSound ==
  ASSUME ConstantsOK, Sound, NEW r \in Request,
         AddAnswered(r) \/ AddRefused(r) \/ AddLate(r)
  PROVE  Sound'
<1>0. PICK a : a = Adding(r)
  OBVIOUS
<1>1. /\ job[r].step \in {"email.add", "phone.add"}
      /\ UNCHANGED <<rows, phase, tries, stalls, copies, dropped>>
      /\ Continue(r, AfterAdd(r))
  BY DEF AddAnswered, AddRefused, AddLate
<1>2. /\ SenderKnows(job[r]) /\ OneSender /\ Unannounced /\ job[r] \in Job
      /\ queue \in [Message -> {"none", "waiting", "active", "accepted", "delayed",
                                "stalled", "done", "failed", "orphan", "lost"}]
      /\ task \in [Message -> {"none", "running", "done", "failed", "lost"}]
      /\ mishaps \in [Message -> Nat] /\ copies \in [Message -> Nat]
  BY DEF Sound, TypeOK
<1>3. \/ a = Mail(job[r].e) /\ job[r].step = "email.add"
      \/ a = Template(job[r].e) /\ job[r].step = "phone.add"
  BY <1>0, <1>1 DEF Adding, At
<1>4. a \in Outstanding(job[r]) /\ a \in Message /\ Untouched(a)
  <2>1. a \in Outstanding(job[r])
    BY <1>2, <1>3 DEF Outstanding, SenderKnows
  <2>2. a \in Message
    BY <1>1, <1>2, <1>3, Messages DEF SenderKnows
  <2>. QED BY <1>2, <2>1, <2>2 DEF SenderKnows
<1>5. \/ queue' = [queue EXCEPT ![a] = "waiting"] /\ UNCHANGED <<task, mishaps>>
      \/ task' = [task EXCEPT ![a] = "running"] /\ UNCHANGED <<queue, mishaps>>
      \/ /\ queue' = [queue EXCEPT ![a] = "waiting"] /\ task' = [task EXCEPT ![a] = "running"]
         /\ mishaps' = [mishaps EXCEPT ![a] = @ + 1]
  BY <1>0 DEF AddAnswered, AddRefused, AddLate, Queued, InProcess
<1>6. PICK j \in Job : /\ Go(r, j)
                       /\ \/ j = NoJob
                          \/ /\ j.step = "phone.user" /\ j.e = job[r].e /\ j.wa = job[r].wa
                             /\ j.e \in Messaged /\ j.wa
                             /\ Outstanding(j) \subseteq Outstanding(job[r]) \ {a}
  <2>1. AfterAdd(r) \in Step /\ (job[r].step = "phone.add" => AfterAdd(r) = "idle")
        /\ (job[r].step = "email.add" => AfterAdd(r) = AfterEmail(job[r]))
    BY DEF AfterAdd, AfterEmail, Step, At
  <2>2. PICK j \in Job : /\ Go(r, j)
                         /\ \/ j = NoJob
                            \/ j.step = AfterAdd(r) /\ j.e = job[r].e /\ j.wa = job[r].wa
    BY <1>1, <2>1, ContinueOne
  <2>3. CASE AfterAdd(r) = "idle"
    BY <1>1, <2>3, NoJobOwesNothing DEF Continue, Return
  <2>4. CASE AfterAdd(r) # "idle"
    <3>1. job[r].step = "email.add" /\ a = Mail(job[r].e)
      BY <1>3, <2>1, <2>4
    <3>. QED BY <2>1, <2>2, <2>4, <3>1, AfterEmailOwes
  <2>. QED BY <2>3, <2>4
<1>7. /\ job' \in [Request -> Job] /\ job'[r] = j
      /\ \A q \in Request \ {r} : job'[q] = job[q]
  BY <1>6, GoOne
<1>8. \A m \in Message \ {a} : queue'[m] = queue[m] /\ task'[m] = task[m] /\ mishaps'[m] = mishaps[m]
  BY <1>2, <1>4, <1>5
<1>9. TypeOK'
  BY <1>1, <1>2, <1>4, <1>5, <1>7 DEF Sound, TypeOK
<1>10. MessageSound(a)'
  <2>1. \/ queue'[a] = "waiting" /\ task'[a] = "none" /\ mishaps'[a] = mishaps[a]
        \/ queue'[a] = "none" /\ task'[a] = "running" /\ mishaps'[a] = mishaps[a]
        \/ queue'[a] = "waiting" /\ task'[a] = "running" /\ mishaps'[a] = mishaps[a] + 1
    BY <1>2, <1>4, <1>5 DEF Untouched
  <2>2. copies'[a] = 0 /\ tries[a] < EmailAttempts /\ stalls[a] <= 1 /\ mishaps[a] \in Nat
    BY <1>1, <1>2, <1>4 DEF Untouched, Sound, MessageSound
  <2>. QED BY <1>1, <2>1, <2>2 DEF MessageSound, FromQueue, FromTask
<1>11. \A m \in Message \ {a} : MessageSound(m)'
  BY <1>1, <1>8 DEF Sound, MessageSound, FromQueue, FromTask
<1>12. \A m \in Message \ {a} : Untouched(m) => Untouched(m)'
  BY <1>1, <1>8 DEF Untouched
<1>13. SenderKnows(job[r])'
  <2>1. \A m \in Outstanding(job[r]) : m \in Message /\ Untouched(m)
    BY <1>1, <1>2, OwesOwn, Messages DEF SenderKnows
  <2>2. Outstanding(job'[r]) \subseteq Outstanding(job[r]) \ {a}
    BY <1>6, <1>7, NoJobOwesNothing
  <2>3. \A m \in Outstanding(job'[r]) : Untouched(m)'
    BY <1>12, <2>1, <2>2
  <2>4. Outstanding(job[r])' = Outstanding(job'[r])
    BY DEF Outstanding
  <2>5. \/ job'[r].step = "idle"
        \/ /\ job'[r].step = "phone.user" /\ job'[r].e = job[r].e
           /\ job'[r].e \in Messaged /\ job'[r].wa
    BY <1>6, <1>7, NoJobOwesNothing
  <2>. QED BY <1>1, <1>2, <2>3, <2>4, <2>5 DEF SenderKnows, PastRow
<1>14. \A q \in Request \ {r} : SenderKnows(job[q])'
  <2> TAKE q \in Request \ {r}
  <2>1. SenderKnows(job[q]) /\ job'[q] = job[q]
    BY <1>7 DEF Sound
  <2>2. \A m \in Outstanding(job[q]) : m \in Message /\ m # a
    <3> TAKE m \in Outstanding(job[q])
    <3>1. job[q].step \in PastRow /\ m \in {Mail(job[q].e), Template(job[q].e)}
      BY OwesOwn
    <3>2. job[q].e # job[r].e
      BY <1>1, <1>2, <3>1 DEF OneSender, PastRow
    <3>3. m \in Message
      BY <2>1, <3>1, Messages DEF SenderKnows, PastRow
    <3>. QED BY <1>3, <3>1, <3>2, <3>3, Messages
  <2>3. Outstanding(job[q])' = Outstanding(job[q])
    BY <2>1 DEF Outstanding
  <2>. QED BY <1>1, <1>12, <2>1, <2>2, <2>3 DEF SenderKnows
<1>15. OneSender'
  <2>1. job'[r].step \in PastRow => job'[r].e = job[r].e /\ job[r].step \in PastRow
    BY <1>1, <1>6, <1>7, NoJobOwesNothing DEF PastRow
  <2>. QED BY <1>2, <1>7, <2>1 DEF OneSender
<1>16. Unannounced'
  <2>1. job[r].e \in rows
    BY <1>1, <1>2 DEF SenderKnows, PastRow
  <2>2. \A e \in Event \ rows : Mail(e) # a /\ Template(e) # a
    BY <1>3, <2>1, Messages
  <2>. QED BY <1>1, <1>2, <1>12, <2>2, Messages DEF Unannounced
<1>17. \A q \in Request : SenderKnows(job[q])'
  BY <1>13, <1>14
<1>18. \A m \in Message : MessageSound(m)'
  BY <1>10, <1>11
<1>. QED BY <1>9, <1>15, <1>16, <1>17, <1>18 DEF Sound

\* Every step keeps it.
LEMMA NextSound == ConstantsOK /\ Sound /\ [Next]_vars => Sound'
<1> SUFFICES ASSUME ConstantsOK, Sound, [Next]_vars PROVE Sound'
  OBVIOUS
<1>1. ASSUME NEW r \in Request, NEW e \in Event, Notify(r, e) PROVE Sound'
  BY <1>1, NotifySound
<1>2. ASSUME NEW r \in Request, Handler(r) PROVE Sound'
  BY <1>2, InsertRowSound, LookupSound, AddSound DEF Handler
<1>3. ASSUME NEW m \in Message, Worker(m) \/ Background(m) PROVE Sound'
  BY <1>3, WorkerSound, BackgroundSound
<1>. QED BY <1>1, <1>2, <1>3, ProcessSound, CrashSound DEF Next

\* Every state is sound, whatever fails.
THEOREM DeliveryHolds == Spec => []Sound
<1>1. Init => Sound
  BY InitSound, ConstantsOK
<1>2. Sound /\ [Next]_vars => Sound'
  BY NextSound, ConstantsOK
<1>. QED BY <1>1, <1>2, PTL DEF Spec

\* Every variable keeps its type; an email is never tried more often than
\* EMAIL_JOB says (delivery-queue.service.ts:46-52).
THEOREM DeliveryTyped == Spec => []TypeOK
<1>1. Sound => TypeOK
  BY DEF Sound
<1>. QED BY <1>1, DeliveryHolds, PTL

\* A message is accepted once, and once more for each accident that the code
\* answers with another attempt (delivery-queue.service.ts:195-208).
THEOREM CopiesBounded == Spec => []NoMoreCopies
<1>1. ConstantsOK /\ Sound => NoMoreCopies
  BY MessageTypes DEF Sound, MessageSound, FromQueue, FromTask, NoMoreCopies
<1>. QED BY <1>1, ConstantsOK, DeliveryHolds, PTL

-----------------------------------------------------------------------------
(* What a step lets go of.                                                 *)

\* A request lets go of a message it owes only once the queue or the process
\* has it, or it is recorded as dropped.
LEMMA HandsOver ==
  ASSUME ConstantsOK, Sound, [Next]_vars, NEW r \in Request,
         NEW m \in Outstanding(job[r]) \ Outstanding(job'[r])
  PROVE  Settled(m)'
<1> USE DEF Settled
<1>1. job'[r] # job[r]
  OBVIOUS
<1>2. CASE Crash
  BY <1>2 DEF Crash
<1>3. CASE \E q \in Request : (\E e \in Event : Notify(q, e)) \/ Handler(q)
  <2>1. PICK q \in Request : (\E e \in Event : Notify(q, e)) \/ Handler(q)
    BY <1>3
  <2>2. q = r
    BY <1>1, <2>1 DEF Sound, TypeOK, Notify, Handler, InsertRow, InsertFails, FindUser, FindPhone,
                      LookupFails, AddAnswered, AddRefused, AddLate, Continue, Return, GoTo, Go
  <2>3. job[r].step \in PastRow /\ m \in {Mail(job[r].e), Template(job[r].e)} /\ SenderKnows(job[r])
    BY OwesOwn DEF Sound
  <2>4. m \in Message
    BY <2>3, Messages DEF SenderKnows, PastRow
  <2>5. CASE AddAnswered(r) \/ AddRefused(r) \/ AddLate(r)
    <3>1. m = Adding(r)
      <4>1. CASE job[r].step = "phone.add"
        BY <4>1 DEF Outstanding, Adding, At
      <4>2. CASE job[r].step = "email.add"
        <5>1. Adding(r) = Mail(job[r].e) /\ Continue(r, AfterEmail(job[r]))
          BY <2>5, <4>2 DEF Adding, At, AddAnswered, AddRefused, AddLate, AfterAdd
        <5>2. CASE m = Template(job[r].e)
          <6>1. job[r].e \in Messaged /\ job[r].wa
            BY <4>2, <5>2, Messages DEF Outstanding
          <6>2. GoTo(r, "phone.user")
            BY <5>1, <6>1 DEF AfterEmail, Continue
          <6>3. job[r] \in Job /\ job'[r] = [job[r] EXCEPT !.step = "phone.user"]
            BY <6>2 DEF GoTo, Go, Sound, TypeOK
          <6>4. m \in Outstanding(job'[r])
            BY <5>2, <6>1, <6>3 DEF Outstanding, Job
          <6>. QED BY <6>4
        <5>. QED BY <2>3, <5>1, <5>2
      <4>. QED BY <2>5, <4>1, <4>2 DEF AddAnswered, AddRefused, AddLate
    <3>2. queue'[m] = "waiting" \/ task'[m] = "running"
      BY <2>4, <2>5, <3>1 DEF AddAnswered, AddRefused, AddLate, Queued, InProcess, Sound, TypeOK
    <3>. QED BY <3>2
  <2>6. CASE LookupFails(r)
    BY <2>6 DEF LookupFails
  <2>7. CASE FindUser(r)
    <3>1. job[r].step = "email.user" /\ job[r] \in Job
      BY <2>7 DEF FindUser, At, Sound, TypeOK
    <3>2. CASE GoTo(r, "email.add")
      <4>1. job'[r] = [job[r] EXCEPT !.step = "email.add"]
        BY <3>2 DEF GoTo, Go, Sound, TypeOK
      <4>2. Outstanding(job'[r]) = Outstanding(job[r])
        BY <3>1, <4>1 DEF Outstanding, Job
      <4>. QED BY <4>2
    <3>3. CASE Continue(r, AfterEmail(job[r])) /\ dropped' = dropped \union {Mail(job[r].e)}
      <4>1. CASE m = Template(job[r].e)
        <5>1. job[r].e \in Messaged /\ job[r].wa
          BY <3>1, <4>1, Messages DEF Outstanding
        <5>2. GoTo(r, "phone.user")
          BY <3>3, <5>1 DEF AfterEmail, Continue
        <5>3. job'[r] = [job[r] EXCEPT !.step = "phone.user"]
          BY <5>2 DEF GoTo, Go, Sound, TypeOK
        <5>4. m \in Outstanding(job'[r])
          BY <3>1, <4>1, <5>1, <5>3 DEF Outstanding, Job
        <5>. QED BY <5>4
      <4>. QED BY <2>3, <3>3, <4>1
    <3>. QED BY <2>7, <3>2, <3>3 DEF FindUser
  <2>8. CASE FindPhone(r)
    <3>1. job[r].step = "phone.user" /\ job[r] \in Job
      BY <2>8 DEF FindPhone, At, Sound, TypeOK
    <3>2. CASE GoTo(r, "phone.add")
      <4>1. job'[r] = [job[r] EXCEPT !.step = "phone.add"]
        BY <3>2 DEF GoTo, Go, Sound, TypeOK
      <4>2. Outstanding(job'[r]) = Outstanding(job[r])
        BY <3>1, <4>1 DEF Outstanding, Job
      <4>. QED BY <4>2
    <3>3. CASE dropped' = dropped \union {Template(job[r].e)}
      <4>1. m = Template(job[r].e)
        BY <3>1 DEF Outstanding
      <4>. QED BY <3>3, <4>1
    <3>. QED BY <2>8, <3>2, <3>3 DEF FindPhone
  <2>9. \A e \in Event : ~Notify(r, e)
    BY <2>3 DEF Notify, At, PastRow
  <2>10. ~InsertRow(r) /\ ~InsertFails(r)
    BY <2>3 DEF InsertRow, InsertFails, At, PastRow
  <2>. QED
    BY <2>1, <2>2, <2>5, <2>6, <2>7, <2>8, <2>9, <2>10 DEF Handler
<1>4. CASE UNCHANGED job
  BY <1>1, <1>4
<1>5. ASSUME NEW k \in Message, Worker(k) \/ Background(k) PROVE UNCHANGED job
  BY <1>5 DEF Worker, Take, Accept, Acknowledge, RefusedByMeta, Throw, Backoff, Reclaim,
              FinishOrphan, Background, TaskSends, TaskFails
<1>6. Restart \/ Sigterm \/ RedisRestarts \/ UNCHANGED vars => UNCHANGED job
  BY DEF Restart, Drain, Exit, Start, Sigterm, RedisRestarts, vars
<1>. QED BY <1>2, <1>3, <1>4, <1>5, <1>6 DEF Next

\* Nothing owed is forgotten on the way from the notification to the queue
\* (notifications.service.ts:172-185).
THEOREM OwedIsHandedOver == Spec => HandedOver
<1>1. Sound /\ [Next]_vars =>
        [\A r \in Request : \A m \in Outstanding(job[r]) \ Outstanding(job'[r]) : Settled(m)']_vars
  BY HandsOver, ConstantsOK
<1>. QED BY <1>1, DeliveryHolds, PTL DEF Spec, HandedOver
=============================================================================
