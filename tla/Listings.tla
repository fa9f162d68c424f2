------------------------------ MODULE Listings ------------------------------
(***************************************************************************)
(* A host's listings on their way to being sold: the owner's edits and     *)
(* submissions, the administrator's decisions and badge, the host          *)
(* agreement's versions and signatures, deletion, and the bookings that    *)
(* stand in its way.  Requests overlap: each keeps what it read, and no    *)
(* write asks again.  Transactions run at READ COMMITTED.                  *)
(***************************************************************************)
EXTENDS Integers, FiniteSets

CONSTANTS
  Listing,      \* listings of one host
  Request,      \* requests that can be at work at once
  MaxVersion,   \* bound: versions of the agreement
  KycRequired,  \* the setting HOST_KYC_REQUIRED
  None

Statuses == {"DRAFT", "PENDING_APPROVAL", "CHANGES_REQUESTED", "REJECTED",
             "APPROVED", "SUSPENDED"}

\* A version of the agreement, and who published it.  The seed is nobody's.
Agreement == [version : 1 .. MaxVersion, by : Request \union {None}]
Seed == [version |-> 1, by |-> None]

ASSUME ConstantsOK ==
  /\ MaxVersion \in Nat \ {0}
  /\ KycRequired \in BOOLEAN
  /\ None \notin Request \union Listing \union Statuses

VARIABLES
  status,      \* Property.status
  deleted,     \* listings with a deletedAt
  trusted,     \* listings with the badge
  booked,      \* listings with a booking that is not over
  phone,       \* the host's phone is verified
  kyc,         \* the host's documents are submitted
  agreements,  \* HostAgreement rows
  inForce,     \* those with isActive
  signed,      \* HostAgreementAcceptance rows: agreement, listing, whether the owner signed
  job,         \* what each request is doing
  onceUp,      \* ghost: listings that have been approved some time
  byAdmin      \* ghost: listings an administrator put into the queue

listing == <<status, deleted, trusted, booked>>
host == <<phone, kyc>>
paper == <<agreements, inForce, signed>>
ghosts == <<onceUp, byAdmin>>
vars == <<listing, host, paper, job, ghosts>>

Step == {"idle", "update.host", "update.agreement", "update.signed", "update.write",
         "admin.write", "status.write", "trust.write", "remove.count", "remove.write",
         "book.write", "sign.agreement", "sign.write", "kyc.write",
         "publish.lock", "publish.take", "publish.create"}

\* next: the status a request will write; flag: the badge it will set, or that
\* it is the owner who signs; a: the agreement it read; taken: rows a publish
\* locked, or waits for; latest: the newest version it read.
Job == [step : Step, p : Listing \union {None}, next : Statuses \union {None},
        flag : BOOLEAN, a : Agreement \union {None}, taken : SUBSET Agreement,
        latest : 0 .. MaxVersion]

NoJob == [step |-> "idle", p |-> None, next |-> None, flag |-> FALSE, a |-> None,
          taken |-> {}, latest |-> 0]

Idle(r) == job[r].step = "idle"
At(r, step) == job[r].step = step
Go(r, j) == job' = [job EXCEPT ![r] = j]
GoTo(r, step) == Go(r, [job[r] EXCEPT !.step = step])
Return(r) == Go(r, NoJob)
Throw(r) == Return(r)

Init ==
  /\ status = [p \in Listing |-> "DRAFT"]
  /\ deleted = {}
  /\ trusted = {}
  /\ booked = {}
  /\ phone = FALSE
  /\ kyc = FALSE
  /\ agreements = {Seed}
  /\ inForce = {Seed}
  /\ signed = {}
  /\ job = [r \in Request |-> NoJob]
  /\ onceUp = {}
  /\ byAdmin = {}

-----------------------------------------------------------------------------
(* The host's account.                                                     *)

VerifyPhone ==
  /\ ~phone
  /\ phone' = TRUE
  /\ UNCHANGED <<listing, kyc, paper, job, ghosts>>

\* updateMe with a new number: it has not been proven to be theirs.
ChangePhone ==
  /\ phone
  /\ phone' = FALSE
  /\ UNCHANGED <<listing, kyc, paper, job, ghosts>>

SubmitKyc(r) ==
  /\ Idle(r)
  /\ phone
  /\ Go(r, [NoJob EXCEPT !.step = "kyc.write"])
  /\ UNCHANGED <<listing, host, paper, ghosts>>

WriteKyc(r) ==
  /\ At(r, "kyc.write")
  /\ kyc' = TRUE
  /\ Return(r)
  /\ UNCHANGED <<listing, phone, paper, ghosts>>

-----------------------------------------------------------------------------
(* The owner's update.                                                     *)

\* assertPropertyStatusTransition, for an owner.
OwnerMay(from, to) ==
  /\ from \in {"DRAFT", "PENDING_APPROVAL", "CHANGES_REQUESTED", "REJECTED"}
  /\ to \in {"DRAFT", "PENDING_APPROVAL"}

\* A change into the queue passes the gate; asking for the status the listing
\* already has, whichever it is, passes nothing.
Gated(p, to) == to = "PENDING_APPROVAL" /\ status[p] # to

Update(r, p, to) ==
  /\ Idle(r)
  /\ p \notin deleted
  /\ to \in {None, status[p]} \/ OwnerMay(status[p], to)
  /\ Go(r, [NoJob EXCEPT !.step = IF Gated(p, to) THEN "update.host" ELSE "update.write",
                         !.p = p, !.next = to])
  /\ UNCHANGED <<listing, host, paper, ghosts>>

\* assertHostVerified.
HostVerified == phone /\ (KycRequired => kyc)

UpdateHost(r) ==
  /\ At(r, "update.host")
  /\ IF HostVerified THEN GoTo(r, "update.agreement") ELSE Throw(r)
  /\ UNCHANGED <<listing, host, paper, ghosts>>

\* AgreementsService.active.
IsActive(a) == a \in inForce /\ \A b \in inForce : b.version <= a.version

\* assertSignedForSubmission: two look-ups.
UpdateAgreement(r) ==
  /\ At(r, "update.agreement")
  /\ \E a \in inForce : IsActive(a) /\ Go(r, [job[r] EXCEPT !.step = "update.signed", !.a = a])
  /\ UNCHANGED <<listing, host, paper, ghosts>>

SignedBySomebody(r) ==                                             \* mutant
  \E owner \in BOOLEAN : <<job[r].a, job[r].p, owner>> \in signed

\* Only the owner's own signature counts.
Signed(r) == <<job[r].a, job[r].p, TRUE>> \in signed

UpdateSigned(r) ==
  /\ At(r, "update.signed")
  /\ IF Signed(r) THEN GoTo(r, "update.write") ELSE Throw(r)
  /\ UNCHANGED <<listing, host, paper, ghosts>>

NullWritten(r) == job[r].next                                      \* mutant

\* An update without a status leaves it alone.
Written(r) == IF job[r].next = None THEN status[job[r].p] ELSE job[r].next

\* The write, whatever the listing became meanwhile.
UpdateWrite(r) ==
  /\ At(r, "update.write")
  /\ status' = [status EXCEPT ![job[r].p] = Written(r)]
  /\ Return(r)
  /\ UNCHANGED <<deleted, trusted, booked, host, paper, ghosts>>

-----------------------------------------------------------------------------
(* The administrator.                                                      *)

\* An administrator's update may write any status, without a reason or a gate.
AdminUpdate(r, p, to) ==
  /\ Idle(r)
  /\ p \notin deleted
  /\ Go(r, [NoJob EXCEPT !.step = "admin.write", !.p = p, !.next = to])
  /\ UNCHANGED <<listing, host, paper, ghosts>>

AdminWrite(r) ==
  LET p == job[r].p
      to == job[r].next IN
  /\ At(r, "admin.write")
  /\ status' = [status EXCEPT ![p] = to]
  /\ onceUp' = IF to = "APPROVED" THEN onceUp \union {p} ELSE onceUp
  /\ byAdmin' = IF to = "PENDING_APPROVAL" THEN byAdmin \union {p} ELSE byAdmin
  /\ Return(r)
  /\ UNCHANGED <<deleted, trusted, booked, host, paper>>

\* assertAdminPropertyTransition; a restore is the one move out of SUSPENDED.
AdminMay(from, to) ==
  \/ /\ to = "APPROVED"
     /\ from \in {"DRAFT", "PENDING_APPROVAL", "REJECTED", "CHANGES_REQUESTED", "SUSPENDED"}
  \/ to = "REJECTED" /\ from \in {"PENDING_APPROVAL", "CHANGES_REQUESTED"}
  \/ to = "CHANGES_REQUESTED" /\ from \in {"PENDING_APPROVAL", "APPROVED"}
  \/ to = "SUSPENDED" /\ from = "APPROVED"

\* setPropertyStatus does not ask whether the listing is deleted.
SetStatus(r, p, to) ==
  /\ Idle(r)
  /\ AdminMay(status[p], to)
  /\ Go(r, [NoJob EXCEPT !.step = "status.write", !.p = p, !.next = to])
  /\ UNCHANGED <<listing, host, paper, ghosts>>

StatusWrite(r) ==
  /\ At(r, "status.write")
  /\ status' = [status EXCEPT ![job[r].p] = job[r].next]
  /\ onceUp' = IF job[r].next = "APPROVED" THEN onceUp \union {job[r].p} ELSE onceUp
  /\ Return(r)
  /\ UNCHANGED <<deleted, trusted, booked, host, paper, byAdmin>>

TrustableAny(p) == TRUE                                            \* mutant
Trustable(p) == status[p] = "APPROVED"

SetTrusted(r, p, flag) ==
  /\ Idle(r)
  /\ flag => Trustable(p)
  /\ (p \in trusted) # flag
  /\ Go(r, [NoJob EXCEPT !.step = "trust.write", !.p = p, !.flag = flag])
  /\ UNCHANGED <<listing, host, paper, ghosts>>

TrustWrite(r) ==
  LET p == job[r].p IN
  /\ At(r, "trust.write")
  /\ trusted' = IF job[r].flag THEN trusted \union {p} ELSE trusted \ {p}
  /\ Return(r)
  /\ UNCHANGED <<status, deleted, booked, host, paper, ghosts>>

-----------------------------------------------------------------------------
(* Deletion and bookings.                                                  *)

Remove(r, p) ==
  /\ Idle(r)
  /\ p \notin deleted
  /\ Go(r, [NoJob EXCEPT !.step = "remove.count", !.p = p])
  /\ UNCHANGED <<listing, host, paper, ghosts>>

RemoveCount(r) ==
  /\ At(r, "remove.count")
  /\ IF job[r].p \in booked THEN Throw(r) ELSE GoTo(r, "remove.write")
  /\ UNCHANGED <<listing, host, paper, ghosts>>

RemoveWrite(r) ==
  /\ At(r, "remove.write")
  /\ deleted' = deleted \union {job[r].p}
  /\ Return(r)
  /\ UNCHANGED <<status, trusted, booked, host, paper, ghosts>>

\* requireApprovedProperty, then the transaction of Reservations.
Book(r, p) ==
  /\ Idle(r)
  /\ status[p] = "APPROVED"
  /\ p \notin deleted
  /\ Go(r, [NoJob EXCEPT !.step = "book.write", !.p = p])
  /\ UNCHANGED <<listing, host, paper, ghosts>>

BookWrite(r) ==
  /\ At(r, "book.write")
  /\ booked' = booked \union {job[r].p}
  /\ Return(r)
  /\ UNCHANGED <<status, deleted, trusted, host, paper, ghosts>>

BookingOver(p) ==
  /\ p \in booked
  /\ booked' = booked \ {p}
  /\ UNCHANGED <<status, deleted, trusted, host, paper, job, ghosts>>

-----------------------------------------------------------------------------
(* The host agreement.                                                     *)

\* An administrator may sign in the owner's place.
Sign(r, p, owner) ==
  /\ Idle(r)
  /\ p \notin deleted
  /\ Go(r, [NoJob EXCEPT !.step = "sign.agreement", !.p = p, !.flag = owner])
  /\ UNCHANGED <<listing, host, paper, ghosts>>

SignAgreement(r) ==
  /\ At(r, "sign.agreement")
  /\ \E a \in inForce : IsActive(a) /\ Go(r, [job[r] EXCEPT !.step = "sign.write", !.a = a])
  /\ UNCHANGED <<listing, host, paper, ghosts>>

\* A second signature is the first one, whoever gave it, or refused by the
\* unique index.
SignWrite(r) ==
  LET row == <<job[r].a, job[r].p, job[r].flag>> IN
  /\ At(r, "sign.write")
  /\ signed' = IF \E owner \in BOOLEAN : <<row[1], row[2], owner>> \in signed
                 THEN signed ELSE signed \union {row}
  /\ Return(r)
  /\ UNCHANGED <<listing, host, agreements, inForce, ghosts>>

NewestOf(S) == CHOOSE v \in {a.version : a \in S} : \A a \in S : a.version <= v

\* publish, statement by statement: the newest version ...
Publish(r) ==
  /\ Idle(r)
  /\ NewestOf(agreements) < MaxVersion
  /\ Go(r, [NoJob EXCEPT !.step = "publish.lock", !.latest = NewestOf(agreements)])
  /\ UNCHANGED <<listing, host, paper, ghosts>>

\* ... updateMany finds the active rows ...
PublishLock(r) ==
  /\ At(r, "publish.lock")
  /\ Go(r, [job[r] EXCEPT !.step = "publish.take", !.taken = inForce])
  /\ UNCHANGED <<listing, host, paper, ghosts>>

HeldByOther(r, a) == \E q \in Request \ {r} : At(q, "publish.create") /\ a \in job[q].taken

\* ... waits for those another publish has updated, and takes the ones that
\* are still active ...
PublishTake(r) ==
  /\ At(r, "publish.take")
  /\ \A a \in job[r].taken : ~HeldByOther(r, a)
  /\ Go(r, [job[r] EXCEPT !.step = "publish.create", !.taken = @ \intersect inForce])
  /\ UNCHANGED <<listing, host, paper, ghosts>>

AnyVersion(v) == TRUE                                              \* mutant

\* The unique index on version.
VersionFree(v) == \A a \in agreements : a.version # v

\* ... and the new row commits with all of it, or nothing does.
PublishCreate(r) ==
  LET new == [version |-> job[r].latest + 1, by |-> r] IN
  /\ At(r, "publish.create")
  /\ IF VersionFree(new.version)
       THEN /\ agreements' = agreements \union {new}
            /\ inForce' = (inForce \ job[r].taken) \union {new}
       ELSE UNCHANGED <<agreements, inForce>>
  /\ Return(r)
  /\ UNCHANGED <<listing, host, signed, ghosts>>

-----------------------------------------------------------------------------
Begin(r, p) ==
  \/ \E to \in Statuses \union {None} : Update(r, p, to)
  \/ \E to \in Statuses : AdminUpdate(r, p, to) \/ SetStatus(r, p, to)
  \/ \E flag \in BOOLEAN : SetTrusted(r, p, flag) \/ Sign(r, p, flag)
  \/ Remove(r, p)
  \/ Book(r, p)

Resume(r) ==
  \/ WriteKyc(r)
  \/ UpdateHost(r)
  \/ UpdateAgreement(r)
  \/ UpdateSigned(r)
  \/ UpdateWrite(r)
  \/ AdminWrite(r)
  \/ StatusWrite(r)
  \/ TrustWrite(r)
  \/ RemoveCount(r)
  \/ RemoveWrite(r)
  \/ BookWrite(r)
  \/ SignAgreement(r)
  \/ SignWrite(r)
  \/ PublishLock(r)
  \/ PublishTake(r)
  \/ PublishCreate(r)

Next ==
  \/ \E r \in Request : Resume(r) \/ SubmitKyc(r) \/ Publish(r) \/ (\E p \in Listing : Begin(r, p))
  \/ \E p \in Listing : BookingOver(p)
  \/ VerifyPhone
  \/ ChangePhone

Spec == Init /\ [][Next]_vars

-----------------------------------------------------------------------------
\* Types.
TypeOK ==
  /\ status \in [Listing -> Statuses]
  /\ deleted \subseteq Listing
  /\ trusted \subseteq Listing
  /\ booked \subseteq Listing
  /\ phone \in BOOLEAN
  /\ kyc \in BOOLEAN
  /\ agreements \subseteq Agreement
  /\ inForce \subseteq agreements
  /\ signed \subseteq agreements \X Listing \X BOOLEAN
  /\ job \in [Request -> Job]
  /\ onceUp \subseteq Listing
  /\ byAdmin \subseteq Listing

\* There is never a moment with two active agreements, or none, however many
\* administrators publish at once (agreements.service.ts:272-275).
OneInForce == \E a \in agreements : inForce = {a}

\* A listing the owner brought into the queue was signed for by the owner, not
\* by an administrator in their place, and its host had handed in the documents
\* if they are required, although a resubmission of a listing that was in the
\* queue when it was read passes no gate (properties.service.ts:240-262).
QueueIsQualified ==
  \A p \in Listing :
    status[p] = "PENDING_APPROVAL" /\ p \notin byAdmin =>
      /\ \E a \in agreements : <<a, p, TRUE>> \in signed
      /\ KycRequired => kyc

\* Only what an administrator has approved some time was ever sold or trusted
\* (bookings.service.ts:558, admin.service.ts:615), whatever was read when.
SoldWasApproved == booked \union trusted \subseteq onceUp
=============================================================================
