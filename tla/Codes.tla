-------------------------------- MODULE Codes --------------------------------
(***************************************************************************)
(* One-time codes for one address: a phone number or an e-mail address,    *)
(* asked for and answered by several requests at once, and what a right    *)
(* answer opens: signing in or up, or putting the address on an account.   *)
(*                                                                         *)
(* Every command to the store is a step of its own, as in Redis; the       *)
(* store's key for the address is the only thing requests share.           *)
(***************************************************************************)
EXTENDS Integers, FiniteSets

CONSTANTS
  Request,      \* requests that may be on their way
  Account,
  Media,        \* "phone", "email": what the address may be
  Uses,         \* "enter", "attach": what its codes may be asked for
  MaxCodes,     \* bound: codes ever made
  MaxAttempts,  \* OTP_MAX_ATTEMPTS
  MaxSends,     \* OTP_MAX_SENDS_PER_HOUR
  Faults,       \* "gateway", "lapse", "taken", "die"
  None

ASSUME ConstantsOK ==
  /\ Media \subseteq {"phone", "email"}
  /\ Uses \subseteq {"enter", "attach"}
  /\ MaxCodes \in Nat
  /\ MaxAttempts \in Nat \ {0}
  /\ MaxSends \in Nat
  /\ None \notin Account
  /\ Account # {}
  /\ IsFiniteSet(Request) /\ Request # {}

VARIABLES
  medium, use,  \* of the address and of its codes; they never change
  challenge,    \* the key of the challenge in the store
  cooling,      \* the key of the cooldown is there
  sends,        \* sends recorded in the last hour
  verified,     \* the marker of a confirmed e-mail address
  holder,       \* the account the address belongs to
  proved,       \* its phoneVerifiedAt or emailVerifiedAt is set
  elsewhere,    \* accounts that a sign-in by another number of theirs has read
  job,          \* what each request is at
  issued,       \* codes made so far; code n is the n-th
  claims,       \* ghost: how often each code was accepted
  wrong,        \* ghost: how often a wrong answer to each was counted
  vouched,      \* ghost: Google vouched for the address
  crossed,      \* ghost: a request wrote the key while another was under way
  moved         \* ghost: the holder took the address during such a sign-in

store == <<challenge, cooling, sends, verified>>
kinds == <<medium, use>>
owner == <<holder, proved, elsewhere>>
ghosts == <<claims, wrong, vouched, crossed, moved>>
vars == <<kinds, store, owner, job, issued, ghosts>>

Code == 1 .. MaxCodes

\* code 0: a hash that only has a counter, which reads as no challenge.
Challenge == [code : 0 .. MaxCodes, attempts : Nat, expired : BOOLEAN]
NoKey == [code |-> 0, attempts |-> 0, expired |-> FALSE]
HasKey == challenge # NoKey

Asking    == {"count", "put", "send", "withdraw", "record", "cool"}
Verifying == {"claim", "wrong", "burn"}
Opening   == {"mark", "enter", "touch", "create", "attach", "register", "spend"}

Job == [step : {"idle"} \union Asking \union Verifying \union Opening,
        code : 0 .. MaxCodes, who : Account \union {None}]
NoJob == [step |-> "idle", code |-> 0, who |-> None]

Init ==
  /\ medium \in Media
  /\ use \in Uses
  /\ challenge = NoKey
  /\ cooling = FALSE
  /\ sends = 0
  /\ verified = FALSE
  /\ holder = None
  /\ proved = FALSE
  /\ elsewhere = {}
  /\ job = [r \in Request |-> NoJob]
  /\ issued = 0
  /\ claims = [c \in Code |-> 0]
  /\ wrong = [c \in Code |-> 0]
  /\ vouched = FALSE
  /\ crossed = FALSE
  /\ moved = FALSE

-----------------------------------------------------------------------------
At(r, step) == job[r].step = step
Go(r, step) == job' = [job EXCEPT ![r].step = step]
Stop(r) == job' = [job EXCEPT ![r] = NoJob]
Alone(r) == \A q \in Request \ {r} : At(q, "idle")

\* A signed-in user asks for an address nobody else has; a visitor who signs
\* up by e-mail for one nobody has at all.
Available(a) ==
  CASE use = "attach"     -> holder \in {None, a}
    [] medium = "email"   -> holder = None
    [] OTHER              -> TRUE

(* Asking for a code.                                                      *)

\* request and sendCode: not while the cooldown runs.
Ask(r) ==
  /\ At(r, "idle")
  /\ \E a \in Account :
       /\ Available(a)
       /\ ~cooling
       /\ Go(r, "count")
  /\ UNCHANGED <<kinds, store, owner, issued, ghosts>>

SendsLeft == sends < MaxSends

CountSends(r) ==
  /\ At(r, "count")
  /\ IF SendsLeft THEN Go(r, "put") ELSE Stop(r)
  /\ UNCHANGED <<kinds, store, owner, issued, ghosts>>

\* The new challenge replaces whatever the key held.
PutChallenge(r) ==
  /\ At(r, "put")
  /\ issued < MaxCodes
  /\ issued' = issued + 1
  /\ challenge' = [code |-> issued + 1, attempts |-> 0, expired |-> FALSE]
  /\ job' = [job EXCEPT ![r] = [step |-> IF medium = "phone" THEN "send" ELSE "record",
                                code |-> issued + 1, who |-> None]]
  /\ crossed' = (crossed \/ ~Alone(r))
  /\ UNCHANGED <<kinds, cooling, sends, verified, owner, claims, wrong, vouched, moved>>

Sent(r) ==
  /\ At(r, "send")
  /\ IF medium = "phone" THEN Go(r, "record") ELSE Stop(r)
  /\ UNCHANGED <<kinds, store, owner, issued, ghosts>>

\* A text that could not be sent takes its challenge back; a mail does not.
SendFails(r) ==
  /\ "gateway" \in Faults
  /\ At(r, "send")
  /\ IF medium = "phone" THEN Go(r, "withdraw") ELSE Stop(r)
  /\ UNCHANGED <<kinds, store, owner, issued, ghosts>>

\* The key goes, whichever code it holds by now.
Withdraw(r) ==
  /\ At(r, "withdraw")
  /\ challenge' = NoKey
  /\ crossed' = (crossed \/ ~Alone(r))
  /\ Stop(r)
  /\ UNCHANGED <<kinds, cooling, sends, verified, owner, issued, claims, wrong, vouched, moved>>

RecordSend(r) ==
  /\ At(r, "record")
  /\ sends' = sends + 1
  /\ Go(r, "cool")
  /\ UNCHANGED <<kinds, challenge, cooling, verified, owner, issued, ghosts>>

StartCooldown(r) ==
  /\ At(r, "cool")
  /\ cooling' = TRUE
  /\ IF medium = "phone" THEN Stop(r) ELSE Go(r, "send")
  /\ UNCHANGED <<kinds, challenge, sends, verified, owner, issued, ghosts>>

-----------------------------------------------------------------------------
(* Answering one: consumeChallenge and checkCode.                          *)

LockedLate(n) == n > MaxAttempts                                   \* mutant

Locked(n) == n >= MaxAttempts

\* What the key, read once, and the answer decide.
Judged(right) ==
  CASE challenge.expired \/ Locked(challenge.attempts) -> "burn"
    [] right                                           -> "claim"
    [] OTHER                                           -> "wrong"

\* Somebody types the code of the key, or an older one or none.
Verify(r) ==
  /\ At(r, "idle")
  /\ challenge.code # 0
  /\ \E right \in BOOLEAN, a \in Account :
       LET next == Judged(right) IN
       /\ use = "attach" => Available(a)
       /\ job' = [job EXCEPT ![r] = [step |-> next, code |-> challenge.code,
                                     who |-> IF next = "claim" THEN a ELSE None]]
  /\ UNCHANGED <<kinds, store, owner, issued, ghosts>>

\* HINCRBY makes the key again if it is gone, without a code.
CountWrong(r) ==
  /\ At(r, "wrong")
  /\ challenge' = [challenge EXCEPT !.attempts = @ + 1]
  /\ crossed' = (crossed \/ ~HasKey)
  /\ wrong' = [wrong EXCEPT ![job[r].code] = @ + 1]
  /\ IF Locked(challenge.attempts + 1) THEN Go(r, "burn") ELSE Stop(r)
  /\ UNCHANGED <<kinds, cooling, sends, verified, owner, issued, claims, vouched, moved>>

Burn(r) ==
  /\ At(r, "burn")
  /\ challenge' = NoKey
  /\ Stop(r)
  /\ UNCHANGED <<kinds, cooling, sends, verified, owner, issued, ghosts>>

ClaimAnyway == TRUE                                                \* mutant

\* DEL answers 1 to one of those who race for the key.
Deleted == HasKey

Claim(r) ==
  /\ At(r, "claim")
  /\ IF Deleted
       THEN /\ claims' = [claims EXCEPT ![job[r].code] = @ + 1]
            /\ Go(r, CASE use = "attach"     -> "attach"
                       [] medium = "phone"   -> "enter"
                       [] OTHER              -> "mark")
       ELSE Stop(r) /\ UNCHANGED claims
  /\ challenge' = NoKey
  /\ UNCHANGED <<kinds, cooling, sends, verified, owner, issued, wrong, vouched, crossed, moved>>

-----------------------------------------------------------------------------
(* What a right answer opens.  The unique index on the address has the     *)
(* last word in all of it.                                                 *)

Free(a) == holder \in {None, a}

\* Sign-in by phone: the account that has the number, else a new one.  Of a
\* number already proven only the time of the sign-in is written.
Enter(r) ==
  /\ At(r, "enter")
  /\ CASE holder = None -> Go(r, "create")
       [] holder # None /\ proved -> Stop(r)
       [] OTHER -> job' = [job EXCEPT ![r].step = "touch", ![r].who = holder]
  /\ UNCHANGED <<kinds, store, owner, issued, ghosts>>

\* The account is updated by id: it may have another number by now.
ById(r) == holder = job[r].who

Touch(r) ==
  /\ At(r, "touch")
  /\ proved' = (proved \/ ById(r))
  /\ Stop(r)
  /\ UNCHANGED <<kinds, store, holder, elsewhere, issued, ghosts>>

Create(r) ==
  /\ At(r, "create")
  /\ \/ /\ holder = None
        /\ holder' = job[r].who
        /\ proved' = TRUE
        /\ UNCHANGED elsewhere
     \/ /\ holder # None \/ "taken" \in Faults
        /\ UNCHANGED owner
  /\ Stop(r)
  /\ UNCHANGED <<kinds, store, issued, ghosts>>

\* A phone or an e-mail address put on the caller's account.
Attach(r) ==
  /\ At(r, "attach")
  /\ IF Free(job[r].who)
       THEN holder' = job[r].who /\ proved' = TRUE /\ UNCHANGED elsewhere
       ELSE UNCHANGED owner
  /\ Stop(r)
  /\ UNCHANGED <<kinds, store, issued, ghosts>>

\* Sign-up by e-mail: the answer leaves a marker that register asks for.
Mark(r) ==
  /\ At(r, "mark")
  /\ verified' = TRUE
  /\ Stop(r)
  /\ UNCHANGED <<kinds, challenge, cooling, sends, owner, issued, ghosts>>

Unasked == TRUE                                                    \* mutant

Confirmed == verified

Register(r) ==
  /\ At(r, "idle")
  /\ use = "enter" /\ medium = "email"
  /\ holder = None
  /\ Confirmed
  /\ \E a \in Account :
       job' = [job EXCEPT ![r] = [step |-> "register", code |-> 0, who |-> a]]
  /\ UNCHANGED <<kinds, store, owner, issued, ghosts>>

RegisterTx(r) ==
  /\ At(r, "register")
  /\ \/ /\ holder = None
        /\ holder' = job[r].who
        /\ proved' = TRUE
        /\ UNCHANGED elsewhere
        /\ Go(r, "spend")
     \/ /\ holder # None \/ "taken" \in Faults
        /\ Stop(r)
        /\ UNCHANGED owner
  /\ UNCHANGED <<kinds, store, issued, ghosts>>

Spend(r) ==
  /\ At(r, "spend")
  /\ verified' = FALSE
  /\ Stop(r)
  /\ UNCHANGED <<kinds, challenge, cooling, sends, owner, issued, ghosts>>

-----------------------------------------------------------------------------
(* Everything else that happens to the address.                            *)

\* updateMe puts a phone number on an account without a code, a sign-up by
\* phone an e-mail address.  updateMe may find the number put there, and
\* proved, since it read another: it writes its own all the same.
TakeUnproved ==
  /\ holder = None \/ medium = "phone"
  /\ holder' \in {a \in Account : Free(a)}
  /\ proved' = FALSE
  /\ moved' = (holder' \in elsewhere)
  /\ UNCHANGED <<kinds, store, elsewhere, job, issued, claims, wrong, vouched, crossed>>

\* Its holder changes to another address.
Leave ==
  /\ holder # None
  /\ holder' = None
  /\ proved' = FALSE
  /\ UNCHANGED <<kinds, store, elsewhere, job, issued, ghosts>>

\* The right code for another number reads the account that has it, not yet
\* proven; the update by id then lands on whatever number the account has.
EnterElsewhere(a) ==
  /\ medium = "phone"
  /\ a # holder
  /\ elsewhere' = elsewhere \union {a}
  /\ UNCHANGED <<kinds, store, holder, proved, job, issued, ghosts>>

TouchElsewhere(a) ==
  /\ a \in elsewhere
  /\ proved' = (proved \/ a = holder)
  /\ elsewhere' = elsewhere \ {a}
  /\ UNCHANGED <<kinds, store, holder, job, issued, ghosts>>

GoogleSignIn ==
  /\ medium = "email"
  /\ holder = None
  /\ holder' \in Account
  /\ proved' = TRUE
  /\ vouched' = TRUE
  /\ UNCHANGED <<kinds, store, elsewhere, job, issued, claims, wrong, crossed, moved>>

\* Time: the cooldown ends, a send leaves the window, the code expires by its
\* date and its key with it, the marker goes after half an hour.
CooldownEnds ==
  /\ cooling
  /\ cooling' = FALSE
  /\ UNCHANGED <<kinds, challenge, sends, verified, owner, job, issued, ghosts>>

SendForgotten ==
  /\ "lapse" \in Faults
  /\ sends > 0
  /\ sends' = sends - 1
  /\ UNCHANGED <<kinds, challenge, cooling, verified, owner, job, issued, ghosts>>

CodeExpires ==
  /\ "lapse" \in Faults
  /\ challenge.code # 0
  /\ challenge' \in {NoKey, [challenge EXCEPT !.expired = TRUE]}
  /\ UNCHANGED <<kinds, cooling, sends, verified, owner, job, issued, ghosts>>

MarkerLapses ==
  /\ "lapse" \in Faults
  /\ verified
  /\ verified' = FALSE
  /\ UNCHANGED <<kinds, challenge, cooling, sends, owner, job, issued, ghosts>>

\* The process dies, or the store does not answer the request's next command.
Die(r) ==
  /\ "die" \in Faults
  /\ ~At(r, "idle")
  /\ Stop(r)
  /\ UNCHANGED <<kinds, store, owner, issued, ghosts>>

Asks(r) == \/ Ask(r) \/ CountSends(r) \/ PutChallenge(r) \/ Sent(r) \/ SendFails(r)
           \/ Withdraw(r) \/ RecordSend(r) \/ StartCooldown(r)
Answers(r) == Verify(r) \/ CountWrong(r) \/ Burn(r) \/ Claim(r)
Opens(r) == \/ Enter(r) \/ Touch(r) \/ Create(r) \/ Attach(r) \/ Mark(r)
            \/ Register(r) \/ RegisterTx(r) \/ Spend(r)
Environment == \/ TakeUnproved \/ Leave \/ GoogleSignIn
               \/ (\E a \in Account : EnterElsewhere(a) \/ TouchElsewhere(a))
               \/ CooldownEnds \/ SendForgotten \/ CodeExpires \/ MarkerLapses

Next ==
  \/ \E r \in Request : Asks(r) \/ Answers(r) \/ Opens(r) \/ Die(r)
  \/ Environment

Spec == Init /\ [][Next]_vars

-----------------------------------------------------------------------------
\* Types; a code nobody made yet is nowhere.
TypeOK ==
  /\ medium \in Media
  /\ use \in Uses
  /\ challenge \in Challenge
  /\ cooling \in BOOLEAN
  /\ sends \in Nat
  /\ verified \in BOOLEAN
  /\ holder \in Account \union {None}
  /\ proved \in BOOLEAN
  /\ proved => holder # None
  /\ elsewhere \subseteq Account
  /\ job \in [Request -> Job]
  /\ issued \in 0 .. MaxCodes
  /\ claims \in [Code -> Nat]
  /\ wrong \in [Code -> Nat]
  /\ vouched \in BOOLEAN
  /\ crossed \in BOOLEAN
  /\ moved \in BOOLEAN

\* A code is accepted once, however many requests carry it: the store's DEL
\* decides between them (otp.service.ts:258-266).  Not when the key was
\* written again under a request that had read it.
ClaimedOnce == ~crossed => \A c \in Code : claims[c] <= 1

\* Requests that judge together go past the limit of wrong answers to one
\* code, but each of them only once (otp.service.ts:236-255).
GuessBudget == \A c \in Code : wrong[c] < MaxAttempts + Cardinality(Request)

\* The same of the codes sent in an hour: counted before, recorded after
\* (otp.service.ts:108-177).
SendsBounded == sends < MaxSends + Cardinality(Request)

\* An address that counts as proved was: a code made for it was answered, or
\* Google vouched for it, however sign-ups, sign-ins by it and changes of
\* address race (auth.service.ts:87-131, otp.service.ts:190-328).  The one
\* exception is a number its holder changed to during a sign-in by the old
\* one: the update by id (otp.service.ts:279-285) then proves the new number.
HolderProved == proved => vouched \/ moved \/ \E c \in Code : claims[c] > 0
=============================================================================
