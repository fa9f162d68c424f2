---------------------------- MODULE ListingsSound ----------------------------
(***************************************************************************)
(* For any listings, requests and versions of the agreement: one version   *)
(* is in force, what waits for approval is signed for and documented, and  *)
(* only what was approved is sold or trusted.                              *)
(*                                                                         *)
(* A request acts on what it read, so each property needs what a request   *)
(* may still rely on when it writes: signatures, documents, approvals and  *)
(* the administrator's hand never go away, and a publish whose version is  *)
(* still free has seen every agreement there is.                           *)
(***************************************************************************)
EXTENDS Listings, TLAPS

OnListing == Step \ {"idle", "kyc.write", "publish.lock", "publish.take", "publish.create"}
Publishing == {"publish.lock", "publish.take", "publish.create"}

\* What a job names.
JobNames(j) ==
  /\ j.step \in OnListing => j.p \in Listing
  /\ j.step \in {"admin.write", "status.write"} => j.next \in Statuses
  /\ j.step \in {"update.signed", "sign.write"} => j.a \in agreements

Typed == TypeOK /\ \A r \in Request : JobNames(job[r])

\* The versions are 1 up to some number, each used once.
VersionsDense ==
  /\ \A a, b \in agreements : a.version = b.version => a = b
  /\ \A a \in agreements : \A v \in 1 .. a.version : \E b \in agreements : b.version = v

\* The newest version is the one in force.
NewestInForce ==
  \E a \in agreements : inForce = {a} /\ \A b \in agreements : b.version <= a.version

\* Nothing newer than what the publish read has been published since, so it
\* has taken what is still in force.
PublishKnows(j) ==
  j.step \in Publishing =>
    /\ j.latest \in 1 .. MaxVersion - 1
    /\ \E b \in agreements : b.version = j.latest
    /\ j.step # "publish.lock" /\ VersionFree(j.latest + 1) => j.taken = inForce

AgreementsSound ==
  VersionsDense /\ NewestInForce /\ \A r \in Request : PublishKnows(job[r])

Documented == KycRequired => kyc
Qualified(p) == p \in byAdmin \/ (Documented /\ \E a \in agreements : <<a, p, TRUE>> \in signed)

\* What a request has to show for the listing it will write.
GateKnows(j) ==
  /\ j.step \in {"update.host", "update.agreement", "update.signed"} =>
       j.next = "PENDING_APPROVAL"
  /\ j.step \in {"update.agreement", "update.signed"} => Documented
  /\ j.step = "update.write" =>
       /\ j.next \in Statuses \union {None}
       /\ j.next = "PENDING_APPROVAL" => Qualified(j.p)
  /\ j.step = "status.write" => j.next # "PENDING_APPROVAL"

QueueSound == QueueIsQualified /\ \A r \in Request : GateKnows(job[r])

\* What a request read of an approval.
SaleKnows(j) ==
  /\ j.step = "book.write" => j.p \in onceUp
  /\ j.step = "trust.write" /\ j.flag => j.p \in onceUp
  /\ j.step = "update.write" /\ j.next = "APPROVED" => j.p \in onceUp

SalesSound ==
  /\ SoldWasApproved
  /\ \A p \in Listing : status[p] = "APPROVED" => p \in onceUp
  /\ \A r \in Request : SaleKnows(job[r])

Sound == Typed /\ AgreementsSound /\ QueueSound /\ SalesSound

\* What holds of a request at work.
JobSound(j) == JobNames(j) /\ PublishKnows(j) /\ GateKnows(j) /\ SaleKnows(j)

-----------------------------------------------------------------------------
\* A request that does nothing names nothing and needs nothing.
LEMMA NoJobSound == ConstantsOK => NoJob \in Job /\ JobSound(NoJob)
<1>1. ConstantsOK => NoJob \in Job
  BY DEF NoJob, Job, Step, ConstantsOK
<1>2. JobSound(NoJob)
  BY DEF JobSound, JobNames, PublishKnows, GateKnows, SaleKnows, NoJob, OnListing, Publishing
<1>. QED BY <1>1, <1>2

\* The seed is a version of the agreement.
LEMMA SeedTyped == ConstantsOK => Seed \in Agreement
BY DEF Seed, Agreement, ConstantsOK

\* Initially nothing was submitted, published or sold.
LEMMA InitSound == ConstantsOK /\ Init => Sound
<1> SUFFICES ASSUME ConstantsOK, Init PROVE Sound
  OBVIOUS
<1>1. TypeOK
  BY NoJobSound, SeedTyped DEF Init, TypeOK, Statuses
<1>2. \A r \in Request : JobSound(job[r])
  BY NoJobSound DEF Init
<1>3. VersionsDense /\ NewestInForce
  BY DEF Init, VersionsDense, NewestInForce, Seed
<1>4. QueueIsQualified /\ SoldWasApproved /\ \A p \in Listing : status[p] # "APPROVED"
  BY DEF Init, QueueIsQualified, SoldWasApproved
<1>. QED
  BY <1>1, <1>2, <1>3, <1>4 DEF Sound, Typed, AgreementsSound, QueueSound, SalesSound, JobSound

\* What Sound says of each request.
LEMMA SoundJobs ==
  ASSUME Sound, NEW r \in Request
  PROVE  job[r] \in Job /\ JobSound(job[r])
BY DEF Sound, Typed, TypeOK, AgreementsSound, QueueSound, SalesSound, JobSound

\* A step changes one request and no other.
LEMMA GoOne ==
  ASSUME TypeOK, NEW r \in Request, NEW j \in Job, Go(r, j)
  PROVE  /\ job' \in [Request -> Job]
         /\ job'[r] = j
         /\ \A q \in Request \ {r} : job'[q] = job[q]
BY DEF TypeOK, Go

-----------------------------------------------------------------------------
\* A step that only reads: what it takes away is true of what is there.
LEMMA ReadSound ==
  ASSUME Sound, NEW r \in Request, NEW j \in Job, JobSound(j), Go(r, j),
         UNCHANGED <<listing, host, paper, ghosts>>
  PROVE  Sound'
<1>1. /\ UNCHANGED <<status, deleted, trusted, booked, phone, kyc, agreements, inForce, signed>>
      /\ UNCHANGED <<onceUp, byAdmin>>
  BY DEF listing, host, paper, ghosts
<1>2. /\ job' \in [Request -> Job] /\ job'[r] = j
      /\ \A q \in Request \ {r} : job'[q] = job[q]
  BY GoOne DEF Sound, Typed
<1>3. \A q \in Request : JobSound(job'[q])
  BY <1>2, SoundJobs
<1>4. \A q \in Request : JobSound(job[q])'
  <2> TAKE q \in Request
  <2>1. JobSound(job'[q])
    BY <1>3
  <2>2. JobNames(job[q])' /\ SaleKnows(job[q])'
    BY <1>1, <2>1 DEF JobSound, JobNames, SaleKnows
  <2>3. PublishKnows(job[q])'
    BY <1>1, <2>1 DEF JobSound, PublishKnows, VersionFree
  <2>4. GateKnows(job[q])'
    BY <1>1, <2>1 DEF JobSound, GateKnows, Documented, Qualified
  <2>. QED BY <2>2, <2>3, <2>4 DEF JobSound
<1>5. TypeOK'
  BY <1>1, <1>2 DEF Sound, Typed, TypeOK
<1>6. VersionsDense' /\ NewestInForce'
  BY <1>1 DEF Sound, AgreementsSound, VersionsDense, NewestInForce
<1>7. QueueIsQualified' /\ SoldWasApproved' /\ \A p \in Listing : status'[p] = "APPROVED" => p \in onceUp'
  BY <1>1 DEF Sound, QueueSound, QueueIsQualified, SalesSound, SoldWasApproved
<1>. QED
  BY <1>4, <1>5, <1>6, <1>7 DEF Sound, Typed, AgreementsSound, QueueSound, SalesSound, JobSound

\* The beginnings: a request takes the listing it names, and what it was asked.
LEMMA BeginSound ==
  ASSUME ConstantsOK, Sound, NEW r \in Request, NEW p \in Listing, Begin(r, p)
  PROVE  Sound'
<1>1. SUFFICES ASSUME NEW j \in Job, JobSound(j), Go(r, j),
                      UNCHANGED <<listing, host, paper, ghosts>>
               PROVE  Sound'
  <2> USE DEF JobSound, JobNames, PublishKnows, GateKnows, SaleKnows, OnListing, Publishing,
              Step, NoJob
  <2>1. ASSUME NEW to \in Statuses \union {None}, Update(r, p, to)
        PROVE  \E j \in Job : JobSound(j) /\ Go(r, j) /\ UNCHANGED <<listing, host, paper, ghosts>>
    <3> DEFINE j == [NoJob EXCEPT !.step = IF Gated(p, to) THEN "update.host" ELSE "update.write",
                                  !.p = p, !.next = to]
    <3>1. Go(r, j) /\ UNCHANGED <<listing, host, paper, ghosts>>
      BY <2>1 DEF Update
    <3>2. j \in Job
      BY NoJobSound DEF Job, Statuses
    <3>3. JobNames(j) /\ PublishKnows(j)
      OBVIOUS
    <3>4. to = "APPROVED" => status[p] = to
      BY <2>1 DEF Update, OwnerMay, ConstantsOK, Statuses
    <3>5. SaleKnows(j)
      BY <3>4 DEF Sound, SalesSound
    <3>6. GateKnows(j)
      <4>1. CASE Gated(p, to)
        BY <4>1 DEF Gated
      <4>2. CASE ~Gated(p, to)
        <5>1. to = "PENDING_APPROVAL" => status[p] = to
          BY <4>2 DEF Gated
        <5>2. to = "PENDING_APPROVAL" => Qualified(p)
          BY <5>1 DEF Sound, QueueSound, QueueIsQualified, Qualified, Documented
        <5>. QED BY <4>2, <5>2
      <4>. QED BY <4>1, <4>2
    <3>. QED BY <3>1, <3>2, <3>3, <3>5, <3>6
  <2>2. ASSUME NEW to \in Statuses, AdminUpdate(r, p, to)
        PROVE  \E j \in Job : JobSound(j) /\ Go(r, j) /\ UNCHANGED <<listing, host, paper, ghosts>>
    <3> DEFINE j == [NoJob EXCEPT !.step = "admin.write", !.p = p, !.next = to]
    <3>1. j \in Job
      BY NoJobSound DEF Job
    <3>. QED BY <2>2, <3>1 DEF AdminUpdate
  <2>3. ASSUME NEW to \in Statuses, SetStatus(r, p, to)
        PROVE  \E j \in Job : JobSound(j) /\ Go(r, j) /\ UNCHANGED <<listing, host, paper, ghosts>>
    <3> DEFINE j == [NoJob EXCEPT !.step = "status.write", !.p = p, !.next = to]
    <3>1. j \in Job /\ to # "PENDING_APPROVAL"
      BY <2>3, NoJobSound DEF Job, SetStatus, AdminMay
    <3>. QED BY <2>3, <3>1 DEF SetStatus
  <2>4. ASSUME NEW flag \in BOOLEAN, SetTrusted(r, p, flag)
        PROVE  \E j \in Job : JobSound(j) /\ Go(r, j) /\ UNCHANGED <<listing, host, paper, ghosts>>
    <3> DEFINE j == [NoJob EXCEPT !.step = "trust.write", !.p = p, !.flag = flag]
    <3>1. j \in Job
      BY NoJobSound DEF Job
    <3>2. flag => p \in onceUp
      BY <2>4 DEF SetTrusted, Trustable, Sound, SalesSound
    <3>. QED BY <2>4, <3>1, <3>2 DEF SetTrusted
  <2>5. ASSUME Remove(r, p)
        PROVE  \E j \in Job : JobSound(j) /\ Go(r, j) /\ UNCHANGED <<listing, host, paper, ghosts>>
    <3> DEFINE j == [NoJob EXCEPT !.step = "remove.count", !.p = p]
    <3>1. j \in Job
      BY NoJobSound DEF Job
    <3>. QED BY <2>5, <3>1 DEF Remove
  <2>6. ASSUME Book(r, p)
        PROVE  \E j \in Job : JobSound(j) /\ Go(r, j) /\ UNCHANGED <<listing, host, paper, ghosts>>
    <3> DEFINE j == [NoJob EXCEPT !.step = "book.write", !.p = p]
    <3>1. j \in Job
      BY NoJobSound DEF Job
    <3>2. p \in onceUp
      BY <2>6 DEF Book, Sound, SalesSound
    <3>. QED BY <2>6, <3>1, <3>2 DEF Book
  <2>7. ASSUME NEW owner \in BOOLEAN, Sign(r, p, owner)
        PROVE  \E j \in Job : JobSound(j) /\ Go(r, j) /\ UNCHANGED <<listing, host, paper, ghosts>>
    <3> DEFINE j == [NoJob EXCEPT !.step = "sign.agreement", !.p = p, !.flag = owner]
    <3>1. j \in Job
      BY NoJobSound DEF Job
    <3>. QED BY <2>7, <3>1 DEF Sign
  <2>8. \E j \in Job : JobSound(j) /\ Go(r, j) /\ UNCHANGED <<listing, host, paper, ghosts>>
    BY <2>1, <2>2, <2>3, <2>4, <2>5, <2>6, <2>7 DEF Begin
  <2>. QED BY <2>8
<1>. QED BY <1>1, ReadSound

\* A host who hands in documents has a verified phone when that is read.
LEMMA SubmitKycSound ==
  ASSUME ConstantsOK, Sound, NEW r \in Request, SubmitKyc(r)
  PROVE  Sound'
<1> DEFINE j == [NoJob EXCEPT !.step = "kyc.write"]
<1>1. j \in Job
  BY NoJobSound DEF Job, Step, NoJob
<1>2. JobSound(j)
  BY DEF JobSound, JobNames, PublishKnows, GateKnows, SaleKnows, OnListing, Publishing, NoJob
<1>. QED BY <1>1, <1>2, ReadSound DEF SubmitKyc

\* The newest version is the newest of them.
LEMMA NewestIs ==
  ASSUME ConstantsOK, Sound
  PROVE  /\ NewestOf(agreements) \in 1 .. MaxVersion
         /\ \E b \in agreements : b.version = NewestOf(agreements)
<1>1. PICK a \in agreements : \A b \in agreements : b.version <= a.version
  BY DEF Sound, AgreementsSound, NewestInForce
<1>2. \A b \in agreements : b.version \in 1 .. MaxVersion
  BY DEF Sound, Typed, TypeOK, Agreement
<1>3. a.version \in {b.version : b \in agreements}
  OBVIOUS
<1>4. NewestOf(agreements) \in {b.version : b \in agreements}
  BY <1>1, <1>3 DEF NewestOf
<1>. QED BY <1>2, <1>4

\* A publish reads the newest version.
LEMMA PublishSound ==
  ASSUME ConstantsOK, Sound, NEW r \in Request, Publish(r)
  PROVE  Sound'
<1> DEFINE j == [NoJob EXCEPT !.step = "publish.lock", !.latest = NewestOf(agreements)]
<1>1. NewestOf(agreements) \in 1 .. MaxVersion - 1
  BY NewestIs DEF Publish, ConstantsOK
<1>2. j \in Job
  <2>1. NewestOf(agreements) \in 0 .. MaxVersion
    BY <1>1 DEF ConstantsOK
  <2>. QED BY <2>1, NoJobSound DEF Job, Step, NoJob
<1>3. JobSound(j)
  BY <1>1, NewestIs DEF JobSound, JobNames, PublishKnows, GateKnows, SaleKnows, OnListing,
                        Publishing, NoJob
<1>. QED BY <1>2, <1>3, ReadSound DEF Publish

\* The owner's submission on its way through the gate.
LEMMA GateSound ==
  ASSUME ConstantsOK, Sound, NEW r \in Request,
         UpdateHost(r) \/ UpdateAgreement(r) \/ UpdateSigned(r)
  PROVE  Sound'
<1> USE DEF JobSound, JobNames, PublishKnows, GateKnows, SaleKnows, OnListing, Publishing, Step
<1>1. job[r] \in Job /\ JobSound(job[r])
  BY SoundJobs
<1>2. CASE UpdateHost(r)
  <2> DEFINE j == [job[r] EXCEPT !.step = "update.agreement"]
  <2>1. CASE HostVerified
    <3>1. Go(r, j) /\ At(r, "update.host") /\ UNCHANGED <<listing, host, paper, ghosts>>
      BY <1>2, <2>1 DEF UpdateHost, GoTo
    <3>2. j \in Job
      BY <1>1 DEF Job
    <3>3. JobSound(j)
      BY <1>1, <2>1, <3>1, <3>2 DEF At, Job, HostVerified, Documented
    <3>. QED BY <3>1, <3>2, <3>3, ReadSound
  <2>2. CASE ~HostVerified
    BY <1>2, <2>2, NoJobSound, ReadSound DEF UpdateHost, Throw, Return
  <2>. QED BY <2>1, <2>2
<1>3. CASE UpdateAgreement(r)
  <2>1. PICK a \in inForce : Go(r, [job[r] EXCEPT !.step = "update.signed", !.a = a])
    BY <1>3 DEF UpdateAgreement
  <2> DEFINE j == [job[r] EXCEPT !.step = "update.signed", !.a = a]
  <2>2. a \in agreements /\ a \in Agreement
    BY DEF Sound, Typed, TypeOK
  <2>3. j \in Job
    BY <1>1, <2>2 DEF Job
  <2>4. JobSound(j)
    BY <1>1, <1>3, <2>2, <2>3 DEF At, Job, UpdateAgreement
  <2>. QED BY <1>3, <2>1, <2>3, <2>4, ReadSound DEF UpdateAgreement
<1>4. CASE UpdateSigned(r)
  <2> DEFINE j == [job[r] EXCEPT !.step = "update.write"]
  <2>1. CASE Signed(r)
    <3>1. Go(r, j) /\ At(r, "update.signed") /\ UNCHANGED <<listing, host, paper, ghosts>>
      BY <1>4, <2>1 DEF UpdateSigned, GoTo
    <3>2. j \in Job
      BY <1>1 DEF Job
    <3>3. Qualified(job[r].p)
      BY <1>1, <2>1, <3>1 DEF Qualified, Signed, At
    <3>4. JobSound(j)
      BY <1>1, <3>1, <3>2, <3>3 DEF At, Job
    <3>. QED BY <3>1, <3>2, <3>4, ReadSound
  <2>2. CASE ~Signed(r)
    BY <1>4, <2>2, NoJobSound, ReadSound DEF UpdateSigned, Throw, Return
  <2>. QED BY <2>1, <2>2
<1>. QED BY <1>2, <1>3, <1>4

\* The other requests' reads.
LEMMA ReadsSound ==
  ASSUME ConstantsOK, Sound, NEW r \in Request,
         RemoveCount(r) \/ SignAgreement(r) \/ PublishLock(r) \/ PublishTake(r)
  PROVE  Sound'
<1> USE DEF JobSound, JobNames, PublishKnows, GateKnows, SaleKnows, OnListing, Publishing, Step
<1>1. job[r] \in Job /\ JobSound(job[r])
  BY SoundJobs
<1>2. inForce \subseteq agreements /\ agreements \subseteq Agreement
  BY DEF Sound, Typed, TypeOK
<1>3. CASE RemoveCount(r)
  <2> DEFINE j == [job[r] EXCEPT !.step = "remove.write"]
  <2>1. CASE job[r].p \in booked
    BY <1>3, <2>1, NoJobSound, ReadSound DEF RemoveCount, Throw, Return
  <2>2. CASE job[r].p \notin booked
    <3>1. j \in Job /\ JobSound(j)
      BY <1>1, <1>3 DEF Job, At, RemoveCount
    <3>. QED BY <1>3, <2>2, <3>1, ReadSound DEF RemoveCount, GoTo
  <2>. QED BY <2>1, <2>2
<1>4. CASE SignAgreement(r)
  <2>1. PICK a \in inForce : Go(r, [job[r] EXCEPT !.step = "sign.write", !.a = a])
    BY <1>4 DEF SignAgreement
  <2>2. [job[r] EXCEPT !.step = "sign.write", !.a = a] \in Job
    BY <1>1, <1>2 DEF Job
  <2>3. JobSound([job[r] EXCEPT !.step = "sign.write", !.a = a])
    BY <1>1, <1>2, <1>4, <2>2 DEF At, Job, SignAgreement
  <2>. QED BY <1>4, <2>1, <2>2, <2>3, ReadSound DEF SignAgreement
<1>5. CASE PublishLock(r)
  <2> DEFINE j == [job[r] EXCEPT !.step = "publish.take", !.taken = inForce]
  <2>1. j \in Job
    BY <1>1, <1>2 DEF Job
  <2>2. JobSound(j)
    BY <1>1, <1>5, <2>1 DEF At, Job, PublishLock
  <2>. QED BY <1>5, <2>1, <2>2, ReadSound DEF PublishLock
<1>6. CASE PublishTake(r)
  <2> DEFINE j == [job[r] EXCEPT !.step = "publish.create", !.taken = @ \intersect inForce]
  <2>1. j \in Job
    BY <1>1, <1>2 DEF Job
  <2>2. JobSound(j)
    BY <1>1, <1>6, <2>1 DEF At, Job, PublishTake
  <2>. QED BY <1>6, <2>1, <2>2, ReadSound DEF PublishTake
<1>. QED BY <1>3, <1>4, <1>5, <1>6

-----------------------------------------------------------------------------
\* A request that writes is done; what the others rely on only grows.
LEMMA OthersSound ==
  ASSUME ConstantsOK, Sound, NEW r \in Request, Return(r),
         UNCHANGED <<agreements, inForce>>, kyc => kyc', signed \subseteq signed',
         onceUp \subseteq onceUp', byAdmin \subseteq byAdmin'
  PROVE  job' \in [Request -> Job] /\ \A q \in Request : JobSound(job[q])'
<1>1. /\ job' \in [Request -> Job] /\ job'[r] = NoJob
      /\ \A q \in Request \ {r} : job'[q] = job[q]
  BY GoOne, NoJobSound DEF Sound, Typed, Return
<1>2. \A q \in Request : JobSound(job'[q])
  BY <1>1, SoundJobs, NoJobSound
<1>3. \A q \in Request : JobSound(job[q])'
  <2> TAKE q \in Request
  <2>1. JobSound(job'[q])
    BY <1>2
  <2>2. JobNames(job[q])' /\ SaleKnows(job[q])'
    BY <2>1 DEF JobSound, JobNames, SaleKnows
  <2>3. PublishKnows(job[q])'
    BY <2>1 DEF JobSound, PublishKnows, VersionFree
  <2>4. GateKnows(job[q])'
    BY <2>1 DEF JobSound, GateKnows, Documented, Qualified
  <2>. QED BY <2>2, <2>3, <2>4 DEF JobSound
<1>. QED BY <1>1, <1>3

\* The owner's write: at best into the queue, and then the listing qualifies.
LEMMA UpdateWriteSound ==
  ASSUME ConstantsOK, Sound, NEW r \in Request, UpdateWrite(r)
  PROVE  Sound'
<1>1. /\ UNCHANGED <<deleted, trusted, booked, phone, kyc, agreements, inForce, signed>>
      /\ UNCHANGED <<onceUp, byAdmin>>
  BY DEF UpdateWrite, host, paper, ghosts
<1>2. job' \in [Request -> Job] /\ \A q \in Request : JobSound(job[q])'
  BY <1>1, OthersSound DEF UpdateWrite
<1>3. /\ job[r].p \in Listing
      /\ job[r].next \in Statuses \union {None}
      /\ job[r].next = "PENDING_APPROVAL" => Qualified(job[r].p)
      /\ job[r].next = "APPROVED" => job[r].p \in onceUp
  BY SoundJobs DEF UpdateWrite, At, JobSound, JobNames, GateKnows, SaleKnows, OnListing, Step
<1>4. status \in [Listing -> Statuses]
  BY DEF Sound, Typed, TypeOK
<1>5. /\ status' \in [Listing -> Statuses]
      /\ \A p \in Listing : \/ status'[p] = status[p]
                            \/ status'[p] \notin {"PENDING_APPROVAL", "APPROVED"}
                            \/ status'[p] = "APPROVED" /\ p \in onceUp
                            \/ status'[p] = "PENDING_APPROVAL" /\ Qualified(p)
  BY <1>3, <1>4 DEF UpdateWrite, Written, Statuses
<1>6. TypeOK'
  BY <1>1, <1>2, <1>5 DEF Sound, Typed, TypeOK
<1>7. VersionsDense' /\ NewestInForce'
  BY <1>1 DEF Sound, AgreementsSound, VersionsDense, NewestInForce
<1>8. QueueIsQualified'
  BY <1>1, <1>5 DEF Sound, QueueSound, QueueIsQualified, Qualified, Documented
<1>9. SoldWasApproved' /\ \A p \in Listing : status'[p] = "APPROVED" => p \in onceUp'
  BY <1>1, <1>5 DEF Sound, SalesSound, SoldWasApproved
<1>. QED
  BY <1>2, <1>6, <1>7, <1>8, <1>9 DEF Sound, Typed, AgreementsSound, QueueSound, SalesSound, JobSound

\* The administrator's writes: an approval is remembered, and so is their hand
\* in the queue; a decision never puts a listing into it.
LEMMA DecisionSound ==
  ASSUME ConstantsOK, Sound, NEW r \in Request, AdminWrite(r) \/ StatusWrite(r)
  PROVE  Sound'
<1> DEFINE p == job[r].p
           to == job[r].next
<1>1. /\ UNCHANGED <<deleted, trusted, booked, phone, kyc, agreements, inForce, signed>>
      /\ status' = [status EXCEPT ![p] = to]
      /\ onceUp' = IF to = "APPROVED" THEN onceUp \union {p} ELSE onceUp
      /\ byAdmin' = byAdmin \/ byAdmin' = byAdmin \union {p}
      /\ to = "PENDING_APPROVAL" /\ ~At(r, "status.write") => p \in byAdmin'
      /\ Return(r)
      /\ At(r, "admin.write") \/ At(r, "status.write")
  BY DEF AdminWrite, StatusWrite, host, paper
<1>2. job' \in [Request -> Job] /\ \A q \in Request : JobSound(job[q])'
  BY <1>1, OthersSound
<1>3. /\ p \in Listing /\ to \in Statuses
      /\ At(r, "status.write") => to # "PENDING_APPROVAL"
  BY <1>1, SoundJobs DEF At, JobSound, JobNames, GateKnows, OnListing, Step
<1>4. status \in [Listing -> Statuses] /\ onceUp \subseteq Listing /\ byAdmin \subseteq Listing
  BY DEF Sound, Typed, TypeOK
<1> HIDE DEF p, to
<1>5. /\ status' \in [Listing -> Statuses] /\ onceUp' \subseteq Listing /\ byAdmin' \subseteq Listing
      /\ onceUp \subseteq onceUp' /\ byAdmin \subseteq byAdmin'
  BY <1>1, <1>3, <1>4
<1>6. \A q \in Listing : status'[q] = IF q = p THEN to ELSE status[q]
  BY <1>1, <1>3, <1>4
<1>7. TypeOK'
  BY <1>1, <1>2, <1>5 DEF Sound, Typed, TypeOK
<1>8. VersionsDense' /\ NewestInForce'
  BY <1>1 DEF Sound, AgreementsSound, VersionsDense, NewestInForce
<1>9. QueueIsQualified'
  BY <1>1, <1>3, <1>5, <1>6 DEF Sound, QueueSound, QueueIsQualified
<1>10. SoldWasApproved' /\ \A q \in Listing : status'[q] = "APPROVED" => q \in onceUp'
  BY <1>1, <1>5, <1>6 DEF Sound, SalesSound, SoldWasApproved
<1>. QED
  BY <1>2, <1>7, <1>8, <1>9, <1>10 DEF Sound, Typed, AgreementsSound, QueueSound, SalesSound, JobSound

\* The badge, a booking, a deletion, the documents: each for a listing whose
\* approval was read.
LEMMA OtherWritesSound ==
  ASSUME ConstantsOK, Sound, NEW r \in Request,
         TrustWrite(r) \/ BookWrite(r) \/ RemoveWrite(r) \/ WriteKyc(r)
  PROVE  Sound'
<1> DEFINE p == job[r].p
<1>1. /\ UNCHANGED <<status, phone, agreements, inForce, signed, onceUp, byAdmin>>
      /\ kyc' = kyc \/ kyc' = TRUE
      /\ Return(r)
  BY DEF TrustWrite, BookWrite, RemoveWrite, WriteKyc, host, paper, ghosts, listing
<1>2. job' \in [Request -> Job] /\ \A q \in Request : JobSound(job[q])'
  BY <1>1, OthersSound
<1>3. /\ JobSound(job[r]) /\ trusted \subseteq Listing /\ booked \subseteq Listing
      /\ deleted \subseteq Listing /\ kyc \in BOOLEAN
  BY SoundJobs DEF Sound, Typed, TypeOK
<1>4. /\ trusted' \subseteq trusted \union {p} /\ (trusted' \subseteq trusted \/ p \in onceUp \intersect Listing)
      /\ booked' \subseteq booked \union {p} /\ (booked' = booked \/ p \in onceUp \intersect Listing)
      /\ deleted' \subseteq Listing
      /\ kyc' \in BOOLEAN
  BY <1>3 DEF TrustWrite, BookWrite, RemoveWrite, WriteKyc, host, listing, At, JobSound, JobNames,
              SaleKnows, OnListing, Step
<1> HIDE DEF p
<1>5. TypeOK'
  BY <1>1, <1>2, <1>3, <1>4 DEF Sound, Typed, TypeOK
<1>6. VersionsDense' /\ NewestInForce'
  BY <1>1 DEF Sound, AgreementsSound, VersionsDense, NewestInForce
<1>7. QueueIsQualified'
  <2> SUFFICES ASSUME NEW q \in Listing, status'[q] = "PENDING_APPROVAL", q \notin byAdmin'
               PROVE  (\E a \in agreements' : <<a, q, TRUE>> \in signed') /\ (KycRequired => kyc')
    BY DEF QueueIsQualified
  <2>1. status[q] = "PENDING_APPROVAL" /\ q \notin byAdmin
    BY <1>1
  <2>2. (\E a \in agreements : <<a, q, TRUE>> \in signed) /\ (KycRequired => kyc)
    BY <2>1 DEF Sound, QueueSound, QueueIsQualified
  <2>. QED BY <1>1, <2>2
<1>8. SoldWasApproved' /\ \A q \in Listing : status'[q] = "APPROVED" => q \in onceUp'
  BY <1>1, <1>4 DEF Sound, SalesSound, SoldWasApproved
<1>. QED
  BY <1>2, <1>5, <1>6, <1>7, <1>8 DEF Sound, Typed, AgreementsSound, QueueSound, SalesSound, JobSound

\* A signature is under a version there is.
LEMMA SignWriteSound ==
  ASSUME ConstantsOK, Sound, NEW r \in Request, SignWrite(r)
  PROVE  Sound'
<1>1. /\ UNCHANGED <<status, deleted, trusted, booked, phone, kyc, agreements, inForce>>
      /\ UNCHANGED <<onceUp, byAdmin>>
      /\ signed' \in {signed, signed \union {<<job[r].a, job[r].p, job[r].flag>>}}
  BY DEF SignWrite, listing, host, ghosts
<1>2. job' \in [Request -> Job] /\ \A q \in Request : JobSound(job[q])'
  BY <1>1, OthersSound DEF SignWrite
<1>3. job[r].a \in agreements /\ job[r].p \in Listing /\ job[r].flag \in BOOLEAN
  BY SoundJobs DEF SignWrite, At, Job, JobSound, JobNames, OnListing, Step
<1>4. TypeOK'
  BY <1>1, <1>2, <1>3 DEF Sound, Typed, TypeOK
<1>5. VersionsDense' /\ NewestInForce'
  BY <1>1 DEF Sound, AgreementsSound, VersionsDense, NewestInForce
<1>6. QueueIsQualified'
  BY <1>1 DEF Sound, QueueSound, QueueIsQualified
<1>7. SoldWasApproved' /\ \A q \in Listing : status'[q] = "APPROVED" => q \in onceUp'
  BY <1>1 DEF Sound, SalesSound, SoldWasApproved
<1>. QED
  BY <1>2, <1>4, <1>5, <1>6, <1>7 DEF Sound, Typed, AgreementsSound, QueueSound, SalesSound, JobSound

\* The new version: if the number is still free, nothing was published since
\* the publish read the newest, so what it retires is all there is in force.
LEMMA PublishCreateSound ==
  ASSUME ConstantsOK, Sound, NEW r \in Request, PublishCreate(r)
  PROVE  Sound'
<1> DEFINE n == job[r].latest
           new == [version |-> n + 1, by |-> r]
<1>1. /\ At(r, "publish.create") /\ Return(r)
      /\ UNCHANGED <<status, deleted, trusted, booked, phone, kyc, signed, onceUp, byAdmin>>
      /\ UNCHANGED <<listing, host, ghosts>>
  BY DEF PublishCreate, listing, host, ghosts
<1>2. /\ n \in 1 .. MaxVersion - 1
      /\ \E b \in agreements : b.version = n
      /\ VersionFree(n + 1) => job[r].taken = inForce
  BY <1>1, SoundJobs DEF At, JobSound, PublishKnows, Publishing
<1>3. VersionsDense /\ NewestInForce /\ inForce \subseteq agreements /\ agreements \subseteq Agreement
  BY DEF Sound, AgreementsSound, Typed, TypeOK
<1>4. CASE ~VersionFree(n + 1)
  BY <1>1, <1>4, NoJobSound, ReadSound DEF PublishCreate, Return, paper
<1>5. CASE VersionFree(n + 1)
  <2>1. agreements' = agreements \union {new} /\ inForce' = (inForce \ job[r].taken) \union {new}
    BY <1>5 DEF PublishCreate
  <2>2. inForce' = {new}
    BY <1>2, <1>5, <2>1
  <2>3. new \in Agreement /\ n \in Nat
    BY <1>2 DEF Agreement, ConstantsOK
  <2>4. \A b \in agreements : b.version \in Nat /\ b.version # n + 1
    BY <1>3, <1>5 DEF VersionFree, Agreement
  <2>5. \A b \in agreements : b.version <= n
    <3> SUFFICES ASSUME NEW b \in agreements, b.version > n PROVE FALSE
      BY <2>3, <2>4
    <3>1. n + 1 \in 1 .. b.version
      BY <2>3, <2>4
    <3>. QED BY <1>3, <2>4, <3>1 DEF VersionsDense
  <2>6. VersionsDense'
    <3>1. \A a, b \in agreements' : a.version = b.version => a = b
      BY <1>3, <2>1, <2>4 DEF VersionsDense
    <3>2. \A v \in 1 .. n : \E b \in agreements : b.version = v
      BY <1>2, <1>3 DEF VersionsDense
    <3>3. \A v \in 1 .. n + 1 : \E b \in agreements' : b.version = v
      BY <2>1, <2>3, <3>2
    <3>4. \A a \in agreements' : \A v \in 1 .. a.version : \E b \in agreements' : b.version = v
      BY <1>3, <2>1, <3>3 DEF VersionsDense
    <3>. QED BY <3>1, <3>4 DEF VersionsDense
  <2>7. NewestInForce'
    <3>1. \A b \in agreements' : b.version <= new.version
      BY <2>1, <2>3, <2>4, <2>5
    <3>. QED BY <2>1, <2>2, <3>1 DEF NewestInForce
  <2>8. /\ job' \in [Request -> Job] /\ job'[r] = NoJob
        /\ \A q \in Request \ {r} : job'[q] = job[q]
    BY <1>1, GoOne, NoJobSound DEF Sound, Typed, Return
  <2>9. \A q \in Request : JobSound(job'[q])
    BY <2>8, SoundJobs, NoJobSound
  <2>10. \A q \in Request : PublishKnows(job[q])'
    <3> TAKE q \in Request
    <3> DEFINE m == job[q].latest
    <3> SUFFICES ASSUME job'[q].step \in Publishing PROVE PublishKnows(job[q])'
      BY DEF PublishKnows
    <3>1. /\ m' \in 1 .. MaxVersion - 1
          /\ \E b \in agreements : b.version = m'
      BY <2>9 DEF JobSound, PublishKnows
    <3>2. m' <= n
      BY <2>5, <3>1
    <3>3. \E b \in agreements' : b.version = m' + 1
      <4>1. CASE m' = n
        <5>1. new \in agreements' /\ new.version = n + 1
          BY <2>1
        <5>. QED BY <4>1, <5>1
      <4>2. CASE m' < n
        <5>1. m' + 1 \in 1 .. n
          BY <2>3, <3>1, <4>2
        <5>. QED BY <1>2, <1>3, <2>1, <5>1 DEF VersionsDense
      <4>. QED BY <2>3, <3>1, <3>2, <4>1, <4>2
    <3>4. ~VersionFree(m + 1)'
      BY <3>3 DEF VersionFree
    <3>5. \E b \in agreements' : b.version = m'
      BY <2>1, <3>1
    <3>. QED BY <3>1, <3>4, <3>5 DEF PublishKnows
  <2>11. \A q \in Request : JobNames(job[q])' /\ SaleKnows(job[q])'
    BY <1>1, <2>1, <2>9 DEF JobSound, JobNames, SaleKnows
  <2>12. \A q \in Request : GateKnows(job[q])'
    BY <1>1, <2>1, <2>9 DEF JobSound, GateKnows, Documented, Qualified
  <2>13. TypeOK'
    BY <1>1, <2>1, <2>2, <2>3, <2>8 DEF Sound, Typed, TypeOK
  <2>14. QueueIsQualified'
    BY <1>1, <2>1 DEF Sound, QueueSound, QueueIsQualified
  <2>15. SoldWasApproved' /\ \A q \in Listing : status'[q] = "APPROVED" => q \in onceUp'
    BY <1>1 DEF Sound, SalesSound, SoldWasApproved
  <2>. QED
    BY <2>6, <2>7, <2>10, <2>11, <2>12, <2>13, <2>14, <2>15
       DEF Sound, Typed, AgreementsSound, QueueSound, SalesSound, JobSound
<1>. QED BY <1>4, <1>5

\* The host's phone, and a booking that is over, concern no request.
LEMMA AccountSound ==
  ASSUME ConstantsOK, Sound,
         VerifyPhone \/ ChangePhone \/ (\E p \in Listing : BookingOver(p)) \/ UNCHANGED vars
  PROVE  Sound'
<1>1. /\ UNCHANGED <<status, deleted, trusted, kyc, agreements, inForce, signed, onceUp, byAdmin, job>>
      /\ phone' \in BOOLEAN /\ booked' \subseteq booked
  BY DEF VerifyPhone, ChangePhone, BookingOver, vars, listing, host, paper, ghosts, Sound, Typed, TypeOK
<1>2. \A q \in Request : JobSound(job[q])'
  <2> TAKE q \in Request
  <2>1. JobSound(job[q])
    BY SoundJobs
  <2>2. JobNames(job[q])' /\ SaleKnows(job[q])' /\ PublishKnows(job[q])'
    BY <1>1, <2>1 DEF JobSound, JobNames, SaleKnows, PublishKnows, VersionFree
  <2>3. GateKnows(job[q])'
    BY <1>1, <2>1 DEF JobSound, GateKnows, Documented, Qualified
  <2>. QED BY <2>2, <2>3 DEF JobSound
<1>3. TypeOK'
  BY <1>1 DEF Sound, Typed, TypeOK
<1>4. VersionsDense' /\ NewestInForce'
  BY <1>1 DEF Sound, AgreementsSound, VersionsDense, NewestInForce
<1>5. QueueIsQualified'
  BY <1>1 DEF Sound, QueueSound, QueueIsQualified
<1>6. SoldWasApproved' /\ \A q \in Listing : status'[q] = "APPROVED" => q \in onceUp'
  BY <1>1 DEF Sound, SalesSound, SoldWasApproved
<1>. QED
  BY <1>2, <1>3, <1>4, <1>5, <1>6 DEF Sound, Typed, AgreementsSound, QueueSound, SalesSound, JobSound

\* Every step keeps it.
LEMMA NextSound == ConstantsOK /\ Sound /\ [Next]_vars => Sound'
<1> SUFFICES ASSUME ConstantsOK, Sound, [Next]_vars PROVE Sound'
  OBVIOUS
<1>1. ASSUME NEW r \in Request, Resume(r) PROVE Sound'
  BY <1>1, GateSound, ReadsSound, UpdateWriteSound, DecisionSound, OtherWritesSound,
     SignWriteSound, PublishCreateSound DEF Resume
<1>2. ASSUME NEW r \in Request, SubmitKyc(r) \/ Publish(r) PROVE Sound'
  BY <1>2, SubmitKycSound, PublishSound
<1>3. ASSUME NEW r \in Request, NEW p \in Listing, Begin(r, p) PROVE Sound'
  BY <1>3, BeginSound
<1>. QED BY <1>1, <1>2, <1>3, AccountSound DEF Next

\* Every state is sound, whichever requests race.
THEOREM ListingsHold == Spec => []Sound
<1>1. Init => Sound
  BY InitSound, ConstantsOK
<1>2. Sound /\ [Next]_vars => Sound'
  BY NextSound, ConstantsOK
<1>. QED BY <1>1, <1>2, PTL DEF Spec

\* Every variable keeps its type.
THEOREM ListingsTyped == Spec => []TypeOK
<1>1. Sound => TypeOK
  BY DEF Sound, Typed
<1>. QED BY <1>1, ListingsHold, PTL

\* One version of the agreement is in force at every moment, however many
\* administrators publish at once: publish retires what it found active and
\* relies on the unique version number to refuse a second one
\* (agreements.service.ts:254-290).
THEOREM OneVersionInForce == Spec => []OneInForce
<1>1. Sound => OneInForce
  BY DEF Sound, AgreementsSound, NewestInForce, OneInForce
<1>. QED BY <1>1, ListingsHold, PTL

\* What an owner brought into the queue is signed for, and documented where
\* documents are required, although the gate's checks and the write are apart
\* and a resubmission passes no gate (properties.service.ts:240-262).
THEOREM QueueQualified == Spec => []QueueIsQualified
<1>1. Sound => QueueIsQualified
  BY DEF Sound, QueueSound
<1>. QED BY <1>1, ListingsHold, PTL

\* Only what was approved some time is booked or trusted, whatever became of
\* the approval between the look and the write (bookings.service.ts:558,
\* admin.service.ts:615).
THEOREM SoldApproved == Spec => []SoldWasApproved
<1>1. Sound => SoldWasApproved
  BY DEF Sound, SalesSound
<1>. QED BY <1>1, ListingsHold, PTL
=============================================================================
