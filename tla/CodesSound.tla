------------------------------ MODULE CodesSound ------------------------------
(***************************************************************************)
(* For any number of requests, codes and accounts, with every fault: a     *)
(* code is accepted once, wrong answers and sends exceed their limits by   *)
(* fewer than the requests there are, and an address that counts as proved *)
(* was, but for a number taken during a sign-in by another.                *)
(***************************************************************************)
EXTENDS Codes, FiniteSetTheorems, TLAPS

\* What a request at a step must know: the code it judges, who it is for.
JobsKnow ==
  /\ challenge.code <= issued
  /\ \A r \in Request :
       /\ job[r].step \in {"claim", "wrong"} => job[r].code \in 1 .. issued
       /\ job[r].step \in {"claim", "enter", "touch", "create", "attach", "register"} =>
            job[r].who # None

\* Requests that were counted under the limit and have recorded no send yet.
Sending(r) == job[r].step \in {"put", "record"} \/ (job[r].step = "send" /\ medium = "phone")
SendersOf == {r \in Request : Sending(r)}
SendsFollow == sends + Cardinality(SendersOf) < MaxSends + Cardinality(Request)

\* Requests that will count a wrong answer to a code.
Guessing(c, r) == job[r].step = "wrong" /\ job[r].code = c
GuessersOf(c) == {r \in Request : Guessing(c, r)}
GuessesFollow ==
  \A c \in Code :
    /\ wrong[c] + Cardinality(GuessersOf(c)) < MaxAttempts + Cardinality(Request)
    /\ challenge.code = c => wrong[c] <= challenge.attempts
    /\ c > issued => wrong[c] = 0

\* With no write crossing another, the key holds a code nobody claimed, and
\* whoever is about to claim finds that one or none.
KeyUnclaimed ==
  /\ challenge.code # 0 \/ challenge = NoKey
  /\ \A c \in Code : claims[c] <= 1
  /\ \A c \in Code : claims[c] > 0 => challenge.code # c /\ c <= issued
  /\ \A r \in Request : job[r].step = "claim" => challenge = NoKey \/ challenge.code = job[r].code

\* Whatever opens an account goes back to a claim, or to Google; a holder whom
\* a sign-in by another number can prove took the number during that sign-in.
Vouched == vouched \/ \E c \in Code : claims[c] > 0
OpensByClaim ==
  /\ verified => Vouched
  /\ proved \/ holder \in elsewhere => Vouched \/ moved
  /\ \A r \in Request : job[r].step \in Opening => Vouched

Sound == /\ TypeOK /\ JobsKnow /\ SendsFollow /\ GuessesFollow /\ OpensByClaim
         /\ ~crossed => KeyUnclaimed

-----------------------------------------------------------------------------
(* How a step moves the request that takes it.                             *)

Steps == {"idle"} \union Asking \union Verifying \union Opening

\* A request that goes on keeps its code and its account.
LEMMA GoMoves ==
  ASSUME job \in [Request -> Job], NEW r \in Request, NEW s \in Steps, Go(r, s)
  PROVE  /\ job' \in [Request -> Job]
         /\ \A q \in Request : /\ job'[q].step = IF q = r THEN s ELSE job[q].step
                               /\ job'[q].code = job[q].code
                               /\ job'[q].who = job[q].who
<1> DEFINE new == [job[r] EXCEPT !.step = s]
<1>1. new \in Job /\ new.step = s /\ new.code = job[r].code /\ new.who = job[r].who
  BY DEF Job, Steps
<1>2. job' = [job EXCEPT ![r] = new]
  BY DEF Go
<1> HIDE DEF new
<1>. QED BY <1>1, <1>2

\* A request that ends is as if it had never been.
LEMMA StopMoves ==
  ASSUME ConstantsOK, job \in [Request -> Job], NEW r \in Request, Stop(r)
  PROVE  /\ job' \in [Request -> Job]
         /\ \A q \in Request : job'[q] = IF q = r THEN NoJob ELSE job[q]
<1>1. NoJob \in Job
  BY DEF NoJob, Job, ConstantsOK
<1>. QED BY <1>1 DEF Stop

\* Initially there is no code.
LEMMA InitSound == ConstantsOK /\ Init => Sound
<1> SUFFICES ASSUME ConstantsOK, Init PROVE Sound
  OBVIOUS
<1>1. NoJob \in Job /\ NoKey \in Challenge /\ NoJob.step = "idle"
  BY DEF NoJob, Job, NoKey, Challenge, ConstantsOK
<1>2. TypeOK
  <2>1. /\ medium \in Media /\ use \in Uses /\ holder \in Account \union {None}
        /\ challenge \in Challenge /\ job \in [Request -> Job]
    BY <1>1 DEF Init
  <2>2. sends \in Nat /\ issued \in 0 .. MaxCodes
    BY DEF Init, ConstantsOK
  <2>3. claims \in [Code -> Nat] /\ wrong \in [Code -> Nat]
    BY DEF Init
  <2>4. cooling \in BOOLEAN /\ verified \in BOOLEAN /\ proved \in BOOLEAN /\ ~proved
    BY DEF Init
  <2>5. vouched \in BOOLEAN /\ crossed \in BOOLEAN /\ moved \in BOOLEAN /\ elsewhere \subseteq Account
    BY DEF Init
  <2>. QED BY <2>1, <2>2, <2>3, <2>4, <2>5 DEF TypeOK
<1>3. JobsKnow /\ OpensByClaim /\ KeyUnclaimed
  BY <1>1 DEF Init, JobsKnow, OpensByClaim, KeyUnclaimed, Vouched, NoKey, Opening, Code, ConstantsOK
<1>4. Cardinality(Request) \in Nat \ {0}
  BY FS_CardinalityType, FS_EmptySet DEF ConstantsOK
<1>5. SendersOf = {} /\ \A c \in Code : GuessersOf(c) = {}
  BY <1>1 DEF Init, SendersOf, Sending, GuessersOf, Guessing
<1>6. SendsFollow
  BY <1>4, <1>5, FS_EmptySet DEF Init, SendsFollow, ConstantsOK
<1>7. GuessesFollow
  <2>1. \A c \in Code : wrong[c] = 0 /\ challenge.code # c
    BY DEF Init, NoKey, Code, ConstantsOK
  <2>2. \A c \in Code : Cardinality(GuessersOf(c)) = 0
    BY <1>5, FS_EmptySet
  <2>. QED BY <1>4, <2>1, <2>2 DEF GuessesFollow, ConstantsOK
<1>. QED BY <1>2, <1>3, <1>6, <1>7 DEF Sound

-----------------------------------------------------------------------------
(* Types.                                                                  *)

\* A key that is written is a key.
LEMMA KeysTyped ==
  /\ ConstantsOK => NoKey \in Challenge
  /\ \A k \in Challenge : /\ [k EXCEPT !.expired = TRUE] \in Challenge
                          /\ [k EXCEPT !.attempts = @ + 1] \in Challenge
<1>1. ConstantsOK => NoKey \in Challenge
  BY DEF Challenge, NoKey, ConstantsOK
<1>2. ASSUME NEW k \in Challenge PROVE [k EXCEPT !.expired = TRUE] \in Challenge
  BY DEF Challenge
<1>3. ASSUME NEW k \in Challenge PROVE [k EXCEPT !.attempts = @ + 1] \in Challenge
  <2>1. k.attempts + 1 \in Nat
    BY DEF Challenge
  <2>. QED BY <2>1 DEF Challenge
<1>. QED BY <1>1, <1>2, <1>3

\* Steps on the way of asking for a code keep the types.
LEMMA AsksTyped ==
  ASSUME ConstantsOK, Sound, NEW r \in Request, Asks(r)
  PROVE  TypeOK'
<1>. USE DEF store, kinds, owner, ghosts
<1>1. job \in [Request -> Job] /\ challenge \in Challenge /\ sends \in Nat /\ issued \in 0 .. MaxCodes
  BY DEF Sound, TypeOK
<1>2. CASE PutChallenge(r)
  <2> DEFINE new == [step |-> IF medium = "phone" THEN "send" ELSE "record",
                     code |-> issued + 1, who |-> None]
             key == [code |-> issued + 1, attempts |-> 0, expired |-> FALSE]
  <2>1. issued + 1 \in 0 .. MaxCodes
    BY <1>1, <1>2 DEF PutChallenge, ConstantsOK
  <2>2. new \in Job /\ key \in Challenge
    BY <2>1 DEF Job, Asking, Challenge
  <2>3. job' = [job EXCEPT ![r] = new] /\ challenge' = key /\ issued' = issued + 1
    BY <1>2 DEF PutChallenge
  <2>4. UNCHANGED <<medium, use, cooling, sends, verified, holder, proved, elsewhere, claims, wrong,
                   vouched, moved>>
    BY <1>2 DEF PutChallenge
  <2>5. crossed' \in BOOLEAN
    BY <1>2 DEF PutChallenge, Sound, TypeOK
  <2> HIDE DEF new, key
  <2>6. job' \in [Request -> Job]
    BY <1>1, <2>2, <2>3
  <2>. QED BY <2>1, <2>2, <2>3, <2>4, <2>5, <2>6 DEF Sound, TypeOK
<1>3. CASE Withdraw(r)
  <2>1. job' \in [Request -> Job]
    BY <1>1, <1>3, StopMoves DEF Withdraw
  <2>2. crossed' \in BOOLEAN
    BY <1>3 DEF Withdraw, Sound, TypeOK
  <2>. QED BY <1>3, <2>1, <2>2, KeysTyped DEF Withdraw, Sound, TypeOK
<1>4. CASE RecordSend(r)
  <2>1. job' \in [Request -> Job]
    BY <1>1, <1>4, GoMoves DEF RecordSend, Steps, Asking
  <2>2. sends' \in Nat
    BY <1>1, <1>4 DEF RecordSend
  <2>. QED BY <1>4, <2>1, <2>2 DEF RecordSend, Sound, TypeOK
<1>5. CASE StartCooldown(r)
  <2>1. job' \in [Request -> Job]
    BY <1>1, <1>5, GoMoves, StopMoves DEF StartCooldown, Steps, Asking
  <2>2. cooling' \in BOOLEAN
    BY <1>5 DEF StartCooldown
  <2>. QED BY <1>5, <2>1, <2>2 DEF StartCooldown, Sound, TypeOK
<1>6. CASE Ask(r) \/ CountSends(r) \/ Sent(r) \/ SendFails(r)
  <2>1. job' \in [Request -> Job]
    BY <1>1, <1>6, GoMoves, StopMoves DEF Ask, CountSends, Sent, SendFails, Steps, Asking
  <2>. QED BY <1>6, <2>1 DEF Ask, CountSends, Sent, SendFails, Sound, TypeOK
<1>. QED BY <1>2, <1>3, <1>4, <1>5, <1>6 DEF Asks

\* Steps that judge an answer keep the types.
LEMMA AnswersTyped ==
  ASSUME ConstantsOK, Sound, NEW r \in Request, Answers(r)
  PROVE  TypeOK'
<1>. USE DEF store, kinds, owner, ghosts
<1>1. /\ job \in [Request -> Job] /\ challenge \in Challenge /\ issued \in 0 .. MaxCodes
      /\ claims \in [Code -> Nat] /\ wrong \in [Code -> Nat]
  BY DEF Sound, TypeOK
<1>2. job[r].step \in {"claim", "wrong"} => job[r].code \in Code
  BY <1>1 DEF Sound, JobsKnow, Code, ConstantsOK
<1>3. CASE Verify(r)
  <2>1. PICK a \in Account, right \in BOOLEAN :
          job' = [job EXCEPT ![r] = [step |-> Judged(right), code |-> challenge.code,
                                     who |-> IF Judged(right) = "claim" THEN a ELSE None]]
    BY <1>3 DEF Verify
  <2>2. Judged(right) \in Verifying
    BY DEF Judged, Verifying
  <2>3. job' \in [Request -> Job]
    BY <1>1, <2>1, <2>2 DEF Job, Challenge
  <2>. QED BY <1>3, <2>3 DEF Verify, Sound, TypeOK
<1>4. CASE CountWrong(r)
  <2>1. job' \in [Request -> Job]
    BY <1>1, <1>4, GoMoves, StopMoves DEF CountWrong, Steps, Verifying
  <2>2. challenge' \in Challenge
    BY <1>1, <1>4, KeysTyped DEF CountWrong
  <2>3. crossed' \in BOOLEAN
    BY <1>4 DEF CountWrong, Sound, TypeOK
  <2>4. wrong' \in [Code -> Nat]
    BY <1>1, <1>2, <1>4 DEF CountWrong, At
  <2>. QED BY <1>4, <2>1, <2>2, <2>3, <2>4 DEF CountWrong, Sound, TypeOK
<1>5. CASE Burn(r)
  <2>1. job' \in [Request -> Job]
    BY <1>1, <1>5, StopMoves DEF Burn
  <2>. QED BY <1>5, <2>1, KeysTyped DEF Burn, Sound, TypeOK
<1>6. CASE Claim(r)
  <2>1. job' \in [Request -> Job]
    BY <1>1, <1>6, GoMoves, StopMoves DEF Claim, Steps, Opening
  <2>2. claims' \in [Code -> Nat]
    BY <1>1, <1>2, <1>6 DEF Claim, At
  <2>. QED BY <1>6, <2>1, <2>2, KeysTyped DEF Claim, Sound, TypeOK
<1>. QED BY <1>3, <1>4, <1>5, <1>6 DEF Answers

\* Steps that open something keep the types.
LEMMA OpensTyped ==
  ASSUME ConstantsOK, Sound, NEW r \in Request, Opens(r)
  PROVE  TypeOK'
<1>. USE DEF store, kinds, owner, ghosts
<1>1. job \in [Request -> Job] /\ holder \in Account \union {None}
  BY DEF Sound, TypeOK
<1>2. CASE Enter(r)
  <2>1. CASE holder = None \/ proved
    <3>1. job' \in [Request -> Job]
      BY <1>1, <1>2, <2>1, GoMoves, StopMoves DEF Enter, Steps, Opening
    <3>. QED BY <1>2, <3>1 DEF Enter, Sound, TypeOK
  <2>2. CASE holder # None /\ ~proved
    <3> DEFINE new == [job[r] EXCEPT !.step = "touch", !.who = holder]
    <3>1. new \in Job
      BY <1>1 DEF Job, Opening
    <3>2. job' = [job EXCEPT ![r] = new]
      BY <1>2, <2>2 DEF Enter
    <3> HIDE DEF new
    <3>3. job' \in [Request -> Job]
      BY <1>1, <3>1, <3>2
    <3>. QED BY <1>2, <3>3 DEF Enter, Sound, TypeOK
  <2>. QED BY <2>1, <2>2
<1>3. CASE Touch(r)
  <2>1. job' \in [Request -> Job]
    BY <1>1, <1>3, StopMoves DEF Touch
  <2>2. job[r].who # None
    BY <1>3 DEF Touch, At, Sound, JobsKnow
  <2>3. proved' \in BOOLEAN
    BY <1>3 DEF Touch, Sound, TypeOK
  <2>4. proved' => holder' # None
    BY <1>3, <2>2 DEF Touch, ById, Sound, TypeOK
  <2>. QED BY <1>3, <2>1, <2>3, <2>4 DEF Touch, Sound, TypeOK
<1>4. CASE Create(r) \/ Attach(r)
  <2>1. job' \in [Request -> Job]
    BY <1>1, <1>4, StopMoves DEF Create, Attach
  <2>2. job[r].who \in Account
    BY <1>1, <1>4 DEF Create, Attach, At, Sound, JobsKnow, Job
  <2>3. UNCHANGED owner \/ (holder' = job[r].who /\ proved' = TRUE)
    BY <1>4 DEF Create, Attach
  <2>4. holder' \in Account \union {None} /\ (proved' => holder' # None)
    BY <1>1, <2>2, <2>3 DEF Sound, TypeOK, ConstantsOK
  <2>5. proved' \in BOOLEAN
    BY <2>3 DEF Sound, TypeOK
  <2>6. UNCHANGED elsewhere
    BY <1>4 DEF Create, Attach
  <2>. QED BY <1>4, <2>1, <2>4, <2>5, <2>6 DEF Create, Attach, Sound, TypeOK
<1>5. CASE Mark(r) \/ Spend(r)
  <2>1. job' \in [Request -> Job]
    BY <1>1, <1>5, StopMoves DEF Mark, Spend
  <2>2. verified' \in BOOLEAN
    BY <1>5 DEF Mark, Spend
  <2>. QED BY <1>5, <2>1, <2>2 DEF Mark, Spend, Sound, TypeOK
<1>6. CASE Register(r)
  <2>. PICK a \in Account : job' = [job EXCEPT ![r] = [step |-> "register", code |-> 0, who |-> a]]
    BY <1>6 DEF Register
  <2>2. [step |-> "register", code |-> 0, who |-> a] \in Job
    BY DEF Job, Opening, ConstantsOK
  <2>3. job' \in [Request -> Job]
    BY <1>1, <2>2
  <2>. QED BY <1>6, <2>3 DEF Register, Sound, TypeOK
<1>7. CASE RegisterTx(r)
  <2>1. job' \in [Request -> Job]
    BY <1>1, <1>7, GoMoves, StopMoves DEF RegisterTx, Steps, Opening
  <2>2. job[r].who \in Account
    BY <1>1, <1>7 DEF RegisterTx, At, Sound, JobsKnow, Job
  <2>3. UNCHANGED owner \/ (holder' = job[r].who /\ proved' = TRUE)
    BY <1>7 DEF RegisterTx
  <2>4. holder' \in Account \union {None} /\ (proved' => holder' # None)
    BY <1>1, <2>2, <2>3 DEF Sound, TypeOK, ConstantsOK
  <2>5. proved' \in BOOLEAN
    BY <2>3 DEF Sound, TypeOK
  <2>6. UNCHANGED elsewhere
    BY <1>7 DEF RegisterTx
  <2>. QED BY <1>7, <2>1, <2>4, <2>5, <2>6 DEF RegisterTx, Sound, TypeOK
<1>. QED BY <1>2, <1>3, <1>4, <1>5, <1>6, <1>7 DEF Opens

\* Time, other addresses, and requests that die keep the types.
LEMMA OthersTyped ==
  ASSUME ConstantsOK, Sound, Environment \/ \E r \in Request : Die(r)
  PROVE  TypeOK'
<1>. USE DEF store, kinds, owner, ghosts
<1>1. CASE TakeUnproved \/ Leave \/ GoogleSignIn
  <2>1. holder' \in Account \union {None} /\ (proved' => holder' # None)
    BY <1>1 DEF TakeUnproved, Leave, GoogleSignIn, ConstantsOK
  <2>2. proved' \in BOOLEAN
    BY <1>1 DEF TakeUnproved, Leave, GoogleSignIn
  <2>3. vouched' \in BOOLEAN
    BY <1>1 DEF TakeUnproved, Leave, GoogleSignIn, Sound, TypeOK
  <2>4. moved' \in BOOLEAN
    <3>1. CASE TakeUnproved
      <4>1. moved' = (holder' \in elsewhere)
        BY <3>1 DEF TakeUnproved
      <4>. QED BY <4>1
    <3>2. CASE Leave \/ GoogleSignIn
      <4>1. moved' = moved
        BY <3>2 DEF Leave, GoogleSignIn
      <4>. QED BY <4>1 DEF Sound, TypeOK
    <3>. QED BY <1>1, <3>1, <3>2
  <2>. QED BY <1>1, <2>1, <2>2, <2>3, <2>4 DEF TakeUnproved, Leave, GoogleSignIn, Sound, TypeOK
<1>2. CASE CooldownEnds \/ MarkerLapses
  <2>1. cooling' \in BOOLEAN /\ verified' \in BOOLEAN
    BY <1>2 DEF CooldownEnds, MarkerLapses, Sound, TypeOK
  <2>. QED BY <1>2, <2>1 DEF CooldownEnds, MarkerLapses, Sound, TypeOK
<1>3. CASE SendForgotten
  <2>1. sends' \in Nat
    BY <1>3 DEF SendForgotten, Sound, TypeOK
  <2>. QED BY <1>3, <2>1 DEF SendForgotten, Sound, TypeOK
<1>4. CASE CodeExpires
  <2>1. challenge' \in Challenge
    BY <1>4, KeysTyped DEF CodeExpires, Sound, TypeOK
  <2>. QED BY <1>4, <2>1 DEF CodeExpires, Sound, TypeOK
<1>5. CASE \E r \in Request : Die(r)
  <2>1. job' \in [Request -> Job]
    BY <1>5, StopMoves DEF Die, Sound, TypeOK
  <2>. QED BY <1>5, <2>1 DEF Die, Sound, TypeOK
<1>6. CASE \E a \in Account : EnterElsewhere(a) \/ TouchElsewhere(a)
  <2>. PICK a \in Account : EnterElsewhere(a) \/ TouchElsewhere(a)
    BY <1>6
  <2>1. proved' \in BOOLEAN /\ elsewhere' \subseteq Account
    BY DEF EnterElsewhere, TouchElsewhere, Sound, TypeOK
  <2>2. proved' => holder' # None
    BY DEF EnterElsewhere, TouchElsewhere, Sound, TypeOK, ConstantsOK
  <2>. QED BY <2>1, <2>2 DEF EnterElsewhere, TouchElsewhere, Sound, TypeOK
<1>. QED BY <1>1, <1>2, <1>3, <1>4, <1>5, <1>6 DEF Environment

\* Every step keeps the types.
LEMMA StepTyped ==
  ASSUME ConstantsOK, Sound, Next
  PROVE  TypeOK'
BY AsksTyped, AnswersTyped, OpensTyped, OthersTyped DEF Next

-----------------------------------------------------------------------------
(* What a step does to one request, the others standing still.             *)

Stays(q) == job'[q] = job[q]

\* The request that takes a step of its own; the rest are where they were.
LEMMA OneMoves ==
  ASSUME ConstantsOK, Sound, NEW r \in Request, Asks(r) \/ Answers(r) \/ Opens(r) \/ Die(r)
  PROVE  \A q \in Request \ {r} : Stays(q)
<1>1. job \in [Request -> Job]
  BY DEF Sound, TypeOK
<1>2. \/ \E s \in Steps : Go(r, s)
      \/ \E new : job' = [job EXCEPT ![r] = new]
  <2>1. CASE Asks(r) \/ Die(r)
    BY <2>1 DEF Asks, Ask, CountSends, PutChallenge, Sent, SendFails, Withdraw, RecordSend,
                StartCooldown, Die, Go, Stop, Steps, Asking
  <2>2. CASE Answers(r)
    BY <2>2 DEF Answers, Verify, CountWrong, Burn, Claim, Go, Stop
  <2>3. CASE Opens(r)
    BY <2>3 DEF Opens, Enter, Touch, Create, Attach, Mark, Register, RegisterTx, Spend, Go, Stop
  <2>. QED BY <2>1, <2>2, <2>3
<1>3. CASE \E s \in Steps : Go(r, s)
  BY <1>1, <1>3 DEF Go, Stays
<1>4. CASE \E new : job' = [job EXCEPT ![r] = new]
  BY <1>1, <1>4 DEF Stays
<1>. QED BY <1>2, <1>3, <1>4

\* An address stays what it is.
LEMMA KindsKept == Next => medium' = medium /\ use' = use
<1> SUFFICES ASSUME Next PROVE medium' = medium /\ use' = use
  OBVIOUS
<1>. USE DEF kinds
<1>1. CASE Environment
  BY <1>1 DEF Environment, TakeUnproved, Leave, GoogleSignIn, EnterElsewhere, TouchElsewhere,
              CooldownEnds, SendForgotten, CodeExpires, MarkerLapses
<1>2. ASSUME NEW r \in Request, Asks(r) \/ Die(r) PROVE medium' = medium /\ use' = use
  BY <1>2 DEF Asks, Ask, CountSends, PutChallenge, Sent, SendFails, Withdraw, RecordSend,
              StartCooldown, Die
<1>3. ASSUME NEW r \in Request, Answers(r) \/ Opens(r) PROVE medium' = medium /\ use' = use
  BY <1>3 DEF Answers, Verify, CountWrong, Burn, Claim, Opens, Enter, Touch, Create, Attach,
              Mark, Register, RegisterTx, Spend
<1>. QED BY <1>1, <1>2, <1>3 DEF Next

\* Sets of requests are counted.
LEMMA RequestsCounted ==
  ASSUME ConstantsOK
  PROVE  /\ Cardinality(Request) \in Nat \ {0}
         /\ \A S \in SUBSET Request :
              /\ IsFiniteSet(S) /\ Cardinality(S) \in Nat
              /\ Cardinality(S) <= Cardinality(Request)
              /\ \A T \in SUBSET S : Cardinality(T) <= Cardinality(S)
              /\ \A r \in S : Cardinality(S \ {r}) = Cardinality(S) - 1
<1>1. IsFiniteSet(Request) /\ Request # {}
  BY DEF ConstantsOK
<1>2. Cardinality(Request) \in Nat \ {0}
  BY <1>1, FS_CardinalityType, FS_EmptySet
<1>3. ASSUME NEW S \in SUBSET Request
      PROVE  /\ IsFiniteSet(S) /\ Cardinality(S) \in Nat
             /\ Cardinality(S) <= Cardinality(Request)
             /\ \A T \in SUBSET S : Cardinality(T) <= Cardinality(S)
             /\ \A r \in S : Cardinality(S \ {r}) = Cardinality(S) - 1
  <2>1. IsFiniteSet(S) /\ Cardinality(S) <= Cardinality(Request)
    BY <1>1, FS_Subset
  <2>2. Cardinality(S) \in Nat
    BY <2>1, FS_CardinalityType
  <2>3. \A T \in SUBSET S : Cardinality(T) <= Cardinality(S)
    BY <2>1, FS_Subset
  <2>4. \A r \in S : Cardinality(S \ {r}) = Cardinality(S) - 1
    BY <2>1, FS_RemoveElement
  <2>. QED BY <2>1, <2>2, <2>3, <2>4
<1>. QED BY <1>2, <1>3

-----------------------------------------------------------------------------
(* The limit of sends.                                                     *)

\* Unless it was just counted or records its send, a request that is sending
\* was sending.
LEMMA SendersFew ==
  ASSUME ConstantsOK, Sound, NEW r \in Request, Asks(r) \/ Answers(r) \/ Opens(r) \/ Die(r),
         ~CountSends(r), ~RecordSend(r)
  PROVE  sends' = sends /\ (Sending(r)' => Sending(r))
<1>. USE DEF store, Sending, At
<1>1. job \in [Request -> Job]
  BY DEF Sound, TypeOK
<1>2. medium' = medium
  BY KindsKept DEF Next
<1>3. CASE Asks(r)
  <2>1. CASE PutChallenge(r)
    BY <1>1, <2>1 DEF PutChallenge
  <2>2. CASE Ask(r) \/ StartCooldown(r) \/ Sent(r) \/ SendFails(r)
    BY <1>1, <1>2, <2>2, GoMoves, StopMoves
       DEF Ask, StartCooldown, Sent, SendFails, Steps, Asking, NoJob
  <2>3. CASE Withdraw(r)
    BY <1>1, <2>3, StopMoves DEF Withdraw, NoJob
  <2>. QED BY <1>3, <2>1, <2>2, <2>3 DEF Asks
<1>4. CASE Answers(r)
  <2>1. CASE Verify(r)
    BY <1>1, <2>1 DEF Verify, Judged
  <2>2. CASE CountWrong(r) \/ Burn(r) \/ Claim(r)
    BY <1>1, <2>2, GoMoves, StopMoves DEF CountWrong, Burn, Claim, Steps, Verifying, Opening, NoJob
  <2>. QED BY <1>4, <2>1, <2>2 DEF Answers
<1>5. CASE Opens(r)
  <2>1. CASE Register(r)
    BY <1>1, <2>1 DEF Register
  <2>3. CASE Enter(r) /\ (holder = None \/ proved)
    BY <1>1, <2>3, GoMoves, StopMoves DEF Enter, Steps, Opening, NoJob
  <2>4. CASE Enter(r) /\ holder # None /\ ~proved
    BY <1>1, <2>4 DEF Enter, Job
  <2>2. CASE Touch(r) \/ Create(r) \/ Attach(r) \/ Mark(r) \/ RegisterTx(r) \/ Spend(r)
    BY <1>1, <2>2, GoMoves, StopMoves
       DEF Touch, Create, Attach, Mark, RegisterTx, Spend, Steps, Opening, NoJob
  <2>. QED BY <1>5, <2>1, <2>2, <2>3, <2>4 DEF Opens
<1>6. CASE Die(r)
  BY <1>1, <1>6, StopMoves DEF Die, NoJob
<1>. QED BY <1>3, <1>4, <1>5, <1>6

\* Sends exceed the limit by fewer than the requests there are.
LEMMA SendsStep ==
  ASSUME ConstantsOK, Sound, Next
  PROVE  SendsFollow'
<1>1. /\ job \in [Request -> Job] /\ sends \in Nat /\ MaxSends \in Nat
      /\ sends + Cardinality(SendersOf) < MaxSends + Cardinality(Request)
  BY DEF Sound, TypeOK, SendsFollow, ConstantsOK
<1>2. medium' = medium
  BY KindsKept
<1>3. /\ SendersOf \subseteq Request /\ Cardinality(SendersOf) \in Nat
      /\ SendersOf' \subseteq Request /\ Cardinality(SendersOf') \in Nat
      /\ Cardinality(Request) \in Nat
      /\ Cardinality(SendersOf') <= Cardinality(Request)
  BY RequestsCounted DEF SendersOf
<1>4. ASSUME \A q \in Request : Sending(q)' => Sending(q), sends' \in Nat, sends' <= sends
      PROVE  SendsFollow'
  <2>1. SendersOf' \subseteq SendersOf
    BY <1>4 DEF SendersOf
  <2>2. Cardinality(SendersOf') <= Cardinality(SendersOf)
    BY <1>3, <2>1, RequestsCounted
  <2>. QED BY <1>1, <1>3, <1>4, <2>2 DEF SendsFollow
<1>5. ASSUME NEW r \in Request, Asks(r) \/ Answers(r) \/ Opens(r) \/ Die(r)
      PROVE  SendsFollow'
  <2>1. \A q \in Request \ {r} : Sending(q)' => Sending(q)
    BY <1>2, <1>5, OneMoves DEF Sending, Stays
  <2>2. CASE CountSends(r) /\ SendsLeft
    BY <1>1, <1>3, <2>2 DEF CountSends, SendsLeft, SendsFollow, store
  <2>3. CASE CountSends(r) /\ ~SendsLeft
    <3>1. sends' = sends /\ ~Sending(r)'
      BY <1>1, <2>3, StopMoves DEF CountSends, store, Sending, NoJob
    <3>. QED BY <1>1, <1>4, <2>1, <3>1
  <2>4. CASE RecordSend(r)
    <3>1. sends' = sends + 1 /\ Sending(r) /\ ~Sending(r)'
      BY <1>1, <2>4, GoMoves DEF RecordSend, At, Sending, Steps, Asking
    <3>2. SendersOf' \subseteq SendersOf \ {r}
      BY <2>1, <3>1 DEF SendersOf
    <3>3. r \in SendersOf
      BY <3>1 DEF SendersOf
    <3>4. Cardinality(SendersOf') <= Cardinality(SendersOf) - 1
      <4>1. SendersOf \ {r} \in SUBSET Request /\ SendersOf' \in SUBSET (SendersOf \ {r})
        BY <1>3, <3>2
      <4>2. Cardinality(SendersOf') <= Cardinality(SendersOf \ {r})
        BY <4>1, RequestsCounted
      <4>3. Cardinality(SendersOf \ {r}) = Cardinality(SendersOf) - 1
        BY <1>3, <3>3, RequestsCounted
      <4>. QED BY <4>2, <4>3
    <3>. QED BY <1>1, <1>3, <3>1, <3>4 DEF SendsFollow
  <2>5. CASE ~CountSends(r) /\ ~RecordSend(r)
    <3>1. sends' = sends /\ (Sending(r)' => Sending(r))
      BY <1>5, <2>5, SendersFew
    <3>. QED BY <1>1, <1>4, <2>1, <3>1
  <2>. QED BY <2>2, <2>3, <2>4, <2>5
<1>6. CASE Environment
  <2>1. job' = job /\ sends' \in Nat /\ sends' <= sends
    BY <1>1, <1>6 DEF Environment, TakeUnproved, Leave, GoogleSignIn, EnterElsewhere,
                      TouchElsewhere, CooldownEnds, SendForgotten, CodeExpires, MarkerLapses,
                      store
  <2>2. \A q \in Request : Sending(q)' => Sending(q)
    BY <1>2, <2>1 DEF Sending
  <2>. QED BY <1>4, <2>1, <2>2
<1>. QED BY <1>5, <1>6 DEF Next

-----------------------------------------------------------------------------
(* The limit of wrong answers.                                             *)

\* What the key may become when no code and no wrong answer is written.
KeyKept == /\ issued' = issued /\ wrong' = wrong
           /\ \/ challenge' = challenge
              \/ challenge' = NoKey
              \/ challenge' = [challenge EXCEPT !.expired = TRUE] /\ challenge.code # 0

\* The key keeps its code and its count, or goes.
LEMMA KeyMoves ==
  ASSUME ConstantsOK, Sound, Next, \A r \in Request : ~PutChallenge(r) /\ ~CountWrong(r)
  PROVE  KeyKept
<1>. USE DEF store, ghosts, KeyKept
<1>1. CASE Environment
  BY <1>1 DEF Environment, TakeUnproved, Leave, GoogleSignIn, EnterElsewhere, TouchElsewhere,
              CooldownEnds, SendForgotten, CodeExpires, MarkerLapses
<1>2. ASSUME NEW r \in Request, Asks(r) \/ Die(r) PROVE KeyKept
  BY <1>2 DEF Asks, Ask, CountSends, Sent, SendFails, Withdraw, RecordSend, StartCooldown, Die
<1>3. ASSUME NEW r \in Request, Answers(r) PROVE KeyKept
  BY <1>3 DEF Answers, Verify, Burn, Claim
<1>4. ASSUME NEW r \in Request, Opens(r) PROVE KeyKept
  BY <1>4 DEF Opens, Enter, Touch, Create, Attach, Mark, Register, RegisterTx, Spend
<1>. QED BY <1>1, <1>2, <1>3, <1>4 DEF Next

\* Only judging makes a request count a wrong answer, or claim a code.
LEMMA JudgesFew ==
  ASSUME ConstantsOK, Sound, NEW r \in Request, Asks(r) \/ Answers(r) \/ Opens(r) \/ Die(r),
         ~Verify(r)
  PROVE  job'[r].step \notin {"claim", "wrong"}
<1>1. job \in [Request -> Job]
  BY DEF Sound, TypeOK
<1>2. CASE Asks(r)
  <2>1. CASE PutChallenge(r)
    BY <1>1, <2>1 DEF PutChallenge
  <2>2. CASE Ask(r) \/ StartCooldown(r) \/ Sent(r) \/ SendFails(r) \/ CountSends(r) \/ RecordSend(r)
    BY <1>1, <2>2, GoMoves, StopMoves
       DEF Ask, StartCooldown, Sent, SendFails, CountSends, RecordSend, Steps, Asking, NoJob
  <2>3. CASE Withdraw(r)
    BY <1>1, <2>3, StopMoves DEF Withdraw, NoJob
  <2>. QED BY <1>2, <2>1, <2>2, <2>3 DEF Asks
<1>3. CASE Answers(r)
  BY <1>1, <1>3, GoMoves, StopMoves
     DEF Answers, CountWrong, Burn, Claim, Steps, Verifying, Opening, NoJob
<1>4. CASE Opens(r)
  <2>1. CASE Register(r)
    BY <1>1, <2>1 DEF Register
  <2>2. CASE Enter(r) /\ (holder = None \/ proved)
    BY <1>1, <2>2, GoMoves, StopMoves DEF Enter, Steps, Opening, NoJob
  <2>3. CASE Enter(r) /\ holder # None /\ ~proved
    BY <1>1, <2>3 DEF Enter, Job
  <2>4. CASE Touch(r) \/ Create(r) \/ Attach(r) \/ Mark(r) \/ RegisterTx(r) \/ Spend(r)
    BY <1>1, <2>4, GoMoves, StopMoves
       DEF Touch, Create, Attach, Mark, RegisterTx, Spend, Steps, Opening, NoJob
  <2>. QED BY <1>4, <2>1, <2>2, <2>3, <2>4 DEF Opens
<1>5. CASE Die(r)
  BY <1>1, <1>5, StopMoves DEF Die, NoJob
<1>. QED BY <1>2, <1>3, <1>4, <1>5

\* What a judging request keeps of the key.
LEMMA VerifyMoves ==
  ASSUME ConstantsOK, Sound, NEW r \in Request, Verify(r)
  PROVE  /\ challenge.code # 0 /\ job'[r].code = challenge.code
         /\ job'[r].step = "wrong" => challenge.attempts < MaxAttempts
         /\ job'[r].step \notin Opening
         /\ job'[r].step = "claim" => job'[r].who # None
         /\ UNCHANGED <<store, owner, issued, ghosts>>
<1>1. job \in [Request -> Job] /\ challenge \in Challenge /\ None \notin Account
  BY DEF Sound, TypeOK, ConstantsOK
<1>2. PICK a \in Account, right \in BOOLEAN :
        job' = [job EXCEPT ![r] = [step |-> Judged(right), code |-> challenge.code,
                                   who |-> IF Judged(right) = "claim" THEN a ELSE None]]
  BY DEF Verify
<1>3. job'[r] = [step |-> Judged(right), code |-> challenge.code,
                 who |-> IF Judged(right) = "claim" THEN a ELSE None]
  BY <1>1, <1>2
<1>4. Judged(right) = "wrong" => ~Locked(challenge.attempts)
  BY DEF Judged
<1>5. Judged(right) \notin Opening
  BY DEF Judged, Opening
<1>6. ~Locked(challenge.attempts) => challenge.attempts < MaxAttempts
  BY <1>1 DEF Locked, Challenge, ConstantsOK
<1>. QED BY <1>1, <1>3, <1>4, <1>5, <1>6 DEF Verify

\* Wrong answers exceed the limit by fewer than the requests there are.
LEMMA GuessesStep ==
  ASSUME ConstantsOK, Sound, Next
  PROVE  GuessesFollow'
<1>1. /\ job \in [Request -> Job] /\ wrong \in [Code -> Nat] /\ issued \in Nat
      /\ challenge \in Challenge /\ MaxAttempts \in Nat \ {0} /\ Cardinality(Request) \in Nat \ {0}
      /\ challenge.code <= issued
  BY RequestsCounted DEF Sound, TypeOK, JobsKnow, ConstantsOK
<1>2. \A c \in Code : c \in Nat \ {0}
  BY DEF Code, ConstantsOK
<1>3. \A c : /\ GuessersOf(c) \subseteq Request /\ Cardinality(GuessersOf(c)) \in Nat
             /\ GuessersOf(c)' \subseteq Request /\ Cardinality(GuessersOf(c)') \in Nat
             /\ Cardinality(GuessersOf(c)') <= Cardinality(Request)
  BY RequestsCounted DEF GuessersOf
<1>4. ASSUME NEW c \in Code, \A q \in Request : Guessing(c, q)' => Guessing(c, q)
      PROVE  Cardinality(GuessersOf(c)') <= Cardinality(GuessersOf(c))
  <2>1. GuessersOf(c)' \in SUBSET GuessersOf(c)
    BY <1>4 DEF GuessersOf
  <2>. QED BY <1>3, <2>1, RequestsCounted
<1>5. ASSUME NEW r \in Request, NEW c \in Code, Asks(r) \/ Answers(r) \/ Opens(r) \/ Die(r),
             ~Verify(r)
      PROVE  /\ Cardinality(GuessersOf(c)') <= Cardinality(GuessersOf(c))
             /\ ~Guessing(c, r)'
  <2>1. ~Guessing(c, r)'
    BY <1>5, JudgesFew DEF Guessing
  <2>2. \A q \in Request : Guessing(c, q)' => Guessing(c, q)
    BY <1>5, <2>1, OneMoves DEF Guessing, Stays
  <2>. QED BY <1>4, <2>1, <2>2
<1>6. CASE \E r \in Request : Verify(r)
  <2>. PICK r \in Request : Verify(r)
    BY <1>6
  <2>1. /\ challenge' = challenge /\ wrong' = wrong /\ issued' = issued
        /\ job'[r].code = challenge.code
        /\ job'[r].step = "wrong" => challenge.attempts < MaxAttempts
    BY VerifyMoves DEF store, ghosts
  <2>2. ASSUME NEW c \in Code
        PROVE  wrong[c] + Cardinality(GuessersOf(c)') < MaxAttempts + Cardinality(Request)
    <3>1. CASE Guessing(c, r)'
      <4>1. challenge.code = c /\ challenge.attempts < MaxAttempts
        BY <2>1, <3>1 DEF Guessing
      <4>2. wrong[c] <= challenge.attempts /\ wrong[c] \in Nat /\ challenge.attempts \in Nat
        BY <1>1, <4>1 DEF Sound, GuessesFollow, Challenge
      <4>. QED BY <1>1, <1>3, <4>1, <4>2
    <3>2. CASE ~Guessing(c, r)'
      <4>1. \A q \in Request : Guessing(c, q)' => Guessing(c, q)
        BY <3>2, OneMoves DEF Answers, Guessing, Stays
      <4>2. Cardinality(GuessersOf(c)') <= Cardinality(GuessersOf(c))
        BY <1>4, <4>1
      <4>3. wrong[c] + Cardinality(GuessersOf(c)) < MaxAttempts + Cardinality(Request)
        BY DEF Sound, GuessesFollow
      <4>. QED BY <1>1, <1>3, <4>2, <4>3
    <3>. QED BY <3>1, <3>2
  <2>. QED BY <2>1, <2>2 DEF Sound, GuessesFollow
<1>7. CASE \E r \in Request : CountWrong(r)
  <2>. PICK r \in Request : CountWrong(r)
    BY <1>7
  <2> DEFINE d == job[r].code
  <2>1. /\ job[r].step = "wrong" /\ issued' = issued
        /\ challenge' = [challenge EXCEPT !.attempts = @ + 1]
        /\ wrong' = [wrong EXCEPT ![d] = @ + 1]
    BY DEF CountWrong, At
  <2>2. d \in Code /\ d <= issued
    BY <1>1, <2>1 DEF Sound, TypeOK, JobsKnow, Code, ConstantsOK
  <2>3. challenge'.code = challenge.code /\ challenge'.attempts = challenge.attempts + 1
    BY <1>1, <2>1 DEF Challenge
  <2> HIDE DEF d
  <2>4. \A c \in Code : wrong'[c] = IF c = d THEN wrong[c] + 1 ELSE wrong[c]
    BY <1>1, <2>1
  <2>5. ~Verify(r)
    BY <2>1 DEF Verify, At
  <2>6. ASSUME NEW c \in Code
        PROVE  wrong'[c] + Cardinality(GuessersOf(c)') < MaxAttempts + Cardinality(Request)
    <3>1. wrong[c] \in Nat /\ wrong[c] + Cardinality(GuessersOf(c)) < MaxAttempts + Cardinality(Request)
      BY <1>1 DEF Sound, GuessesFollow
    <3>2. CASE c # d
      BY <1>1, <1>3, <1>5, <2>4, <2>5, <3>1, <3>2 DEF Answers
    <3>3. CASE c = d
      <4>1. r \in GuessersOf(c) /\ ~Guessing(c, r)'
        BY <1>5, <2>1, <2>5, <3>3 DEF Answers, GuessersOf, Guessing, d
      <4>2. GuessersOf(c)' \subseteq GuessersOf(c) \ {r}
        BY <4>1, OneMoves DEF Answers, GuessersOf, Guessing, Stays
      <4>3. Cardinality(GuessersOf(c)') <= Cardinality(GuessersOf(c) \ {r})
        <5>1. GuessersOf(c) \ {r} \in SUBSET Request /\ GuessersOf(c)' \in SUBSET (GuessersOf(c) \ {r})
          BY <1>3, <4>2
        <5>. QED BY <5>1, RequestsCounted
      <4>4. Cardinality(GuessersOf(c) \ {r}) = Cardinality(GuessersOf(c)) - 1
        BY <1>3, <4>1, RequestsCounted
      <4>. QED BY <1>1, <1>3, <2>4, <3>1, <3>3, <4>3, <4>4
    <3>. QED BY <3>2, <3>3
  <2>7. \A c \in Code : challenge'.code = c => wrong'[c] <= challenge'.attempts
    BY <1>1, <2>3, <2>4 DEF Sound, GuessesFollow, Challenge
  <2>8. \A c \in Code : c > issued' => wrong'[c] = 0
    BY <1>1, <1>2, <2>1, <2>2, <2>4 DEF Sound, GuessesFollow
  <2>. QED BY <2>6, <2>7, <2>8 DEF GuessesFollow
<1>8. CASE \E r \in Request : PutChallenge(r)
  <2>. PICK r \in Request : PutChallenge(r)
    BY <1>8
  <2>1. /\ issued' = issued + 1 /\ wrong' = wrong
        /\ challenge'.code = issued + 1 /\ challenge'.attempts = 0
    BY DEF PutChallenge
  <2>2. ~Verify(r)
    BY DEF Verify, PutChallenge, At
  <2>3. \A c \in Code : Cardinality(GuessersOf(c)') <= Cardinality(GuessersOf(c))
    BY <1>5, <2>2 DEF Asks
  <2>. QED BY <1>1, <1>2, <1>3, <2>1, <2>3 DEF Sound, GuessesFollow
<1>9. CASE \A r \in Request : ~PutChallenge(r) /\ ~CountWrong(r) /\ ~Verify(r)
  <2>1. KeyKept
    BY <1>9, KeyMoves
  <2>2. \A c \in Code : Cardinality(GuessersOf(c)') <= Cardinality(GuessersOf(c))
    <3>1. CASE Environment
      <4>1. job' = job
        BY <3>1 DEF Environment, TakeUnproved, Leave, GoogleSignIn, EnterElsewhere,
                    TouchElsewhere, CooldownEnds, SendForgotten, CodeExpires, MarkerLapses
      <4>. QED BY <1>4, <4>1 DEF Guessing
    <3>2. CASE \E r \in Request : Asks(r) \/ Answers(r) \/ Opens(r) \/ Die(r)
      BY <1>5, <1>9, <3>2
    <3>. QED BY <3>1, <3>2 DEF Next
  <2>3. \/ challenge'.code = challenge.code /\ challenge'.attempts = challenge.attempts
        \/ challenge'.code = 0
    BY <1>1, <2>1 DEF KeyKept, NoKey, Challenge
  <2>. QED BY <1>1, <1>2, <1>3, <2>1, <2>2, <2>3 DEF KeyKept, Sound, GuessesFollow
<1>. QED BY <1>6, <1>7, <1>8, <1>9

-----------------------------------------------------------------------------
(* What requests know, and what opens an account.                          *)

\* A request that asks, judges or dies opens nothing, unless it claims.
LEMMA OpensFew ==
  ASSUME ConstantsOK, Sound, NEW r \in Request, Asks(r) \/ Answers(r) \/ Die(r), ~Claim(r)
  PROVE  job'[r].step \notin Opening
<1>1. job \in [Request -> Job]
  BY DEF Sound, TypeOK
<1>2. CASE Asks(r)
  <2>1. CASE PutChallenge(r)
    BY <1>1, <2>1 DEF PutChallenge, Opening
  <2>2. CASE Ask(r) \/ StartCooldown(r) \/ Sent(r) \/ SendFails(r) \/ CountSends(r) \/ RecordSend(r)
    BY <1>1, <2>2, GoMoves, StopMoves
       DEF Ask, StartCooldown, Sent, SendFails, CountSends, RecordSend, Steps, Asking, NoJob, Opening
  <2>3. CASE Withdraw(r)
    BY <1>1, <2>3, StopMoves DEF Withdraw, NoJob, Opening
  <2>. QED BY <1>2, <2>1, <2>2, <2>3 DEF Asks
<1>3. CASE Verify(r)
  BY <1>3, VerifyMoves
<1>4. CASE CountWrong(r) \/ Burn(r) \/ Die(r)
  BY <1>1, <1>4, GoMoves, StopMoves DEF CountWrong, Burn, Die, Steps, Verifying, Opening, NoJob
<1>. QED BY <1>2, <1>3, <1>4 DEF Answers

\* A request that claims or opens knows for whom.
LEMMA WhoKnown ==
  ASSUME ConstantsOK, Sound, NEW r \in Request, Asks(r) \/ Answers(r) \/ Opens(r) \/ Die(r),
         job'[r].step \in {"claim", "enter", "touch", "create", "attach", "register"}
  PROVE  job'[r].who # None
<1>1. job \in [Request -> Job] /\ None \notin Account
  BY DEF Sound, TypeOK, ConstantsOK
<1>2. CASE Verify(r)
  BY <1>2, VerifyMoves DEF Opening
<1>3. CASE Claim(r)
  <2>1. job[r].who # None
    BY <1>3 DEF Claim, At, Sound, JobsKnow
  <2>2. job'[r].step = "idle" \/ job'[r].who = job[r].who
    BY <1>1, <1>3, GoMoves, StopMoves DEF Claim, Steps, Opening, NoJob
  <2>. QED BY <2>1, <2>2
<1>4. CASE (Asks(r) \/ Answers(r) \/ Die(r)) /\ ~Verify(r) /\ ~Claim(r)
  BY <1>4, OpensFew, JudgesFew DEF Opening
<1>5. CASE Opens(r)
  <2>1. CASE Register(r)
    BY <1>1, <2>1 DEF Register
  <2>2. CASE Enter(r) /\ (holder = None \/ proved)
    <3>1. job[r].who # None
      BY <2>2 DEF Enter, At, Sound, JobsKnow
    <3>. QED BY <1>1, <2>2, <3>1, GoMoves, StopMoves DEF Enter, Steps, Opening, NoJob
  <2>3. CASE Enter(r) /\ holder # None /\ ~proved
    BY <1>1, <2>3 DEF Enter, Job
  <2>4. CASE Touch(r) \/ Create(r) \/ Attach(r) \/ Mark(r) \/ RegisterTx(r) \/ Spend(r)
    BY <1>1, <2>4, GoMoves, StopMoves
       DEF Touch, Create, Attach, Mark, RegisterTx, Spend, Steps, Opening, NoJob
  <2>. QED BY <1>5, <2>1, <2>2, <2>3, <2>4 DEF Opens
<1>. QED BY <1>2, <1>3, <1>4, <1>5

\* The environment moves no request.
LEMMA EnvironmentStill == Environment => job' = job
BY DEF Environment, TakeUnproved, Leave, GoogleSignIn, EnterElsewhere, TouchElsewhere,
       CooldownEnds, SendForgotten, CodeExpires, MarkerLapses

\* The key holds no code that was not made.
LEMMA KeyMade ==
  ASSUME ConstantsOK, Sound, Next
  PROVE  /\ issued' \in Nat /\ issued <= issued' /\ challenge'.code <= issued'
         /\ \A c \in Code : c = challenge'.code => c = challenge.code \/ c > issued
<1>1. /\ issued \in Nat /\ challenge \in Challenge /\ challenge.code <= issued
      /\ \A c \in Code : c \in Nat \ {0}
  BY DEF Sound, TypeOK, JobsKnow, Code, ConstantsOK
<1>2. CASE \E r \in Request : PutChallenge(r)
  BY <1>1, <1>2 DEF PutChallenge
<1>3. CASE \E r \in Request : CountWrong(r)
  <2>1. issued' = issued /\ challenge'.code = challenge.code
    BY <1>1, <1>3 DEF CountWrong, Challenge
  <2>. QED BY <1>1, <2>1
<1>4. CASE \A r \in Request : ~PutChallenge(r) /\ ~CountWrong(r)
  <2>1. issued' = issued /\ (challenge'.code = challenge.code \/ challenge'.code = 0)
    BY <1>1, <1>4, KeyMoves DEF KeyKept, NoKey, Challenge
  <2>. QED BY <1>1, <2>1
<1>. QED BY <1>2, <1>3, <1>4

\* Requests know what they need.
LEMMA JobsStep ==
  ASSUME ConstantsOK, Sound, Next
  PROVE  JobsKnow'
<1>1. /\ issued \in Nat /\ issued' \in Nat /\ issued <= issued' /\ challenge'.code <= issued'
      /\ challenge \in Challenge
  BY KeyMade DEF Sound, TypeOK
<1>2. ASSUME NEW q \in Request, Stays(q)
      PROVE  /\ job'[q].step \in {"claim", "wrong"} => job'[q].code \in 1 .. issued'
             /\ job'[q].step \in {"claim", "enter", "touch", "create", "attach", "register"} =>
                  job'[q].who # None
  BY <1>1, <1>2 DEF Stays, Sound, JobsKnow
<1>3. CASE Environment
  BY <1>1, <1>2, <1>3, EnvironmentStill DEF Stays, JobsKnow
<1>4. ASSUME NEW r \in Request, Asks(r) \/ Answers(r) \/ Opens(r) \/ Die(r) PROVE JobsKnow'
  <2>1. job'[r].step \in {"claim", "wrong"} => job'[r].code \in 1 .. issued'
    <3>1. CASE Verify(r)
      <4>1. challenge.code # 0 /\ job'[r].code = challenge.code /\ challenge.code \in Nat
        BY <1>1, <3>1, VerifyMoves DEF Challenge
      <4>2. challenge.code <= issued
        BY DEF Sound, JobsKnow
      <4>. QED BY <1>1, <4>1, <4>2
    <3>2. CASE ~Verify(r)
      BY <1>4, <3>2, JudgesFew
    <3>. QED BY <3>1, <3>2
  <2>. QED BY <1>1, <1>2, <1>4, <2>1, OneMoves, WhoKnown DEF JobsKnow
<1>. QED BY <1>3, <1>4 DEF Next

-----------------------------------------------------------------------------
(* Claims.                                                                 *)

\* Only claiming counts a claim; nothing uncrosses what was crossed.
LEMMA GhostsKept ==
  ASSUME ConstantsOK, Sound, Next
  PROVE  /\ (\A r \in Request : ~Claim(r)) => claims' = claims
         /\ crossed => crossed'
         /\ vouched => vouched'
<1>. USE DEF ghosts
<1>1. CASE Environment
  BY <1>1 DEF Environment, TakeUnproved, Leave, GoogleSignIn, EnterElsewhere, TouchElsewhere,
              CooldownEnds, SendForgotten, CodeExpires, MarkerLapses
<1>2. ASSUME NEW r \in Request, Asks(r) \/ Die(r), ~PutChallenge(r), ~Withdraw(r)
      PROVE  claims' = claims /\ crossed' = crossed /\ vouched' = vouched
  BY <1>2 DEF Asks, Ask, CountSends, Sent, SendFails, RecordSend, StartCooldown, Die
<1>3. ASSUME NEW r \in Request, Answers(r), ~CountWrong(r)
      PROVE  (~Claim(r) => claims' = claims) /\ crossed' = crossed /\ vouched' = vouched
  BY <1>3 DEF Answers, Verify, Burn, Claim
<1>5. ASSUME NEW r \in Request, PutChallenge(r) \/ Withdraw(r)
      PROVE  claims' = claims /\ crossed' = (crossed \/ ~Alone(r)) /\ vouched' = vouched
  BY <1>5 DEF PutChallenge, Withdraw
<1>6. ASSUME NEW r \in Request, CountWrong(r)
      PROVE  claims' = claims /\ crossed' = (crossed \/ ~HasKey) /\ vouched' = vouched
  BY <1>6 DEF CountWrong
<1>4. ASSUME NEW r \in Request, Opens(r)
      PROVE  claims' = claims /\ (crossed => crossed') /\ vouched' = vouched
  BY <1>4 DEF Opens, Enter, Touch, Create, Attach, Mark, Register, RegisterTx, Spend
<1>. QED BY <1>1, <1>2, <1>3, <1>4, <1>5, <1>6 DEF Next

\* With no write crossing another, the key holds no claimed code.
LEMMA ClaimsStep ==
  ASSUME ConstantsOK, Sound, Next, ~crossed'
  PROVE  KeyUnclaimed'
<1>1. KeyUnclaimed
  BY GhostsKept DEF Sound
<1>2. /\ job \in [Request -> Job] /\ challenge \in Challenge /\ issued \in Nat
      /\ claims \in [Code -> Nat] /\ issued' \in Nat /\ issued <= issued'
      /\ \A c \in Code : c \in Nat \ {0}
  BY KeyMade DEF Sound, TypeOK, Code, ConstantsOK
<1>3. CASE \E r \in Request : PutChallenge(r)
  <2>. PICK r \in Request : PutChallenge(r)
    BY <1>3
  <2>1. /\ claims' = claims /\ issued' = issued + 1 /\ challenge'.code = issued + 1 /\ Alone(r)
        /\ job[r].step = "put"
    BY DEF PutChallenge, At
  <2>2. job'[r].step # "claim"
    BY <2>1, JudgesFew DEF Asks, Verify, At
  <2>3. \A q \in Request : job'[q].step # "claim"
    BY <2>1, <2>2, OneMoves DEF Asks, Alone, At, Stays
  <2>. QED BY <1>1, <1>2, <2>1, <2>3 DEF KeyUnclaimed
<1>4. CASE \E r \in Request : CountWrong(r)
  <2>. PICK r \in Request : CountWrong(r)
    BY <1>4
  <2>1. /\ claims' = claims /\ issued' = issued /\ HasKey /\ job[r].step = "wrong"
        /\ challenge'.code = challenge.code
    BY <1>2 DEF CountWrong, At, Challenge
  <2>2. challenge.code # 0
    BY <1>1, <2>1 DEF KeyUnclaimed, HasKey
  <2>3. job'[r].step # "claim"
    BY <2>1, JudgesFew DEF Answers, Verify, At
  <2>4. \A q \in Request : job'[q].step = "claim" => challenge'.code = job'[q].code
    <3>1. \A q \in Request \ {r} : job'[q] = job[q]
      BY OneMoves DEF Answers, Stays
    <3>. QED BY <1>1, <2>1, <2>3, <3>1 DEF KeyUnclaimed, HasKey
  <2>. QED BY <1>1, <2>1, <2>2, <2>4 DEF KeyUnclaimed
<1>5. CASE \E r \in Request : Claim(r)
  <2>. PICK r \in Request : Claim(r)
    BY <1>5
  <2> DEFINE d == job[r].code
  <2>1. /\ job[r].step = "claim" /\ challenge' = NoKey /\ issued' = issued
        /\ \/ HasKey /\ claims' = [claims EXCEPT ![d] = @ + 1]
           \/ claims' = claims
    BY DEF Claim, At, Deleted
  <2>2. d \in Code /\ d <= issued
    BY <1>2, <2>1 DEF Sound, TypeOK, JobsKnow, Code, ConstantsOK
  <2>3. HasKey => challenge.code = d
    BY <1>1, <2>1 DEF KeyUnclaimed, HasKey
  <2> HIDE DEF d
  <2>4. HasKey => claims[d] = 0
    BY <1>1, <1>2, <2>2, <2>3 DEF KeyUnclaimed
  <2>5. \A c \in Code : claims'[c] = claims[c] \/ (c = d /\ claims'[c] = 1)
    BY <1>2, <2>1, <2>2, <2>4
  <2>6. challenge'.code = 0
    BY <2>1 DEF NoKey
  <2>. QED BY <1>1, <1>2, <2>1, <2>2, <2>5, <2>6 DEF KeyUnclaimed
<1>6. CASE \A r \in Request : ~PutChallenge(r) /\ ~CountWrong(r) /\ ~Claim(r)
  <2>1. KeyKept /\ claims' = claims
    BY <1>6, KeyMoves, GhostsKept
  <2>2. challenge'.code = challenge.code \/ challenge' = NoKey
    BY <1>2, <2>1 DEF KeyKept, Challenge
  <2>3. \A q \in Request : job'[q].step = "claim" =>
          \/ job[q].step = "claim" /\ job'[q].code = job[q].code
          \/ challenge' = challenge /\ job'[q].code = challenge.code
    <3>1. CASE Environment
      BY <3>1, EnvironmentStill
    <3>2. CASE \E r \in Request : Verify(r)
      <4>. PICK r \in Request : Verify(r)
        BY <3>2
      <4>1. challenge' = challenge /\ job'[r].code = challenge.code
        BY VerifyMoves DEF store
      <4>2. \A q \in Request \ {r} : job'[q] = job[q]
        BY OneMoves DEF Answers, Stays
      <4>. QED BY <4>1, <4>2
    <3>3. ASSUME NEW r \in Request, Asks(r) \/ Answers(r) \/ Opens(r) \/ Die(r), ~Verify(r)
          PROVE  \A q \in Request : job'[q].step = "claim" => job'[q] = job[q]
      BY <3>3, JudgesFew, OneMoves DEF Stays
    <3>. QED BY <3>1, <3>2, <3>3 DEF Next
  <2>4. challenge'.code = 0 \/ challenge'.code = challenge.code
    BY <2>2 DEF NoKey
  <2>5. challenge = NoKey => challenge' = NoKey
    <3>1. NoKey.code = 0
      BY DEF NoKey
    <3>. QED BY <2>1, <3>1 DEF KeyKept
  <2>6. challenge'.code # 0 \/ challenge' = NoKey
    BY <1>1, <2>2, <2>5 DEF KeyUnclaimed
  <2>7. \A q \in Request : job'[q].step = "claim" => challenge' = NoKey \/ challenge'.code = job'[q].code
    BY <1>1, <2>2, <2>3, <2>5 DEF KeyUnclaimed
  <2>. QED BY <1>1, <1>2, <2>1, <2>4, <2>6, <2>7 DEF KeyKept, KeyUnclaimed
<1>. QED BY <1>3, <1>4, <1>5, <1>6

\* Nothing counts as proved that no claim, nor Google, stands behind.
LEMMA OpensStep ==
  ASSUME ConstantsOK, Sound, Next
  PROVE  OpensByClaim'
<1>1. claims \in [Code -> Nat] /\ job \in [Request -> Job]
  BY DEF Sound, TypeOK
<1>2. /\ verified => Vouched
      /\ proved \/ holder \in elsewhere => Vouched \/ moved
      /\ \A r \in Request : job[r].step \in Opening => Vouched
  BY DEF Sound, OpensByClaim
<1>3. Vouched => Vouched'
  <2>1. CASE \E r \in Request : Claim(r)
    <3>. PICK r \in Request : Claim(r)
      BY <2>1
    <3>1. job[r].code \in Code
      BY DEF Claim, At, Sound, TypeOK, JobsKnow, Code, ConstantsOK
    <3>2. vouched' = vouched /\ \A c \in Code : claims[c] > 0 => claims'[c] > 0
      BY <1>1, <3>1 DEF Claim
    <3>. QED BY <3>2 DEF Vouched
  <2>2. CASE \A r \in Request : ~Claim(r)
    BY <2>2, GhostsKept DEF Vouched
  <2>. QED BY <2>1, <2>2
<1>4. CASE \E r \in Request : Claim(r)
  <2>. PICK r \in Request : Claim(r)
    BY <1>4
  <2>1. UNCHANGED <<owner, verified, moved>> /\ \A q \in Request \ {r} : job'[q] = job[q]
    BY OneMoves DEF Claim, Answers, Stays
  <2>2. job'[r].step \in Opening => Vouched'
    <3>1. CASE Deleted
      <4>1. claims' = [claims EXCEPT ![job[r].code] = @ + 1]
        BY <3>1 DEF Claim
      <4>2. job[r].code \in Code
        BY DEF Claim, At, Sound, TypeOK, JobsKnow, Code, ConstantsOK
      <4>3. claims'[job[r].code] > 0
        BY <1>1, <4>1, <4>2
      <4>. QED BY <4>2, <4>3 DEF Vouched
    <3>2. CASE ~Deleted
      BY <1>1, <3>2, StopMoves DEF Claim, NoJob, Opening
    <3>. QED BY <3>1, <3>2
  <2>. QED BY <1>2, <1>3, <2>1, <2>2 DEF OpensByClaim, owner
<1>5. ASSUME NEW r \in Request, Asks(r) \/ Answers(r) \/ Die(r), ~Claim(r) PROVE OpensByClaim'
  <2>1. UNCHANGED <<owner, verified, moved>>
    BY <1>5 DEF Asks, Ask, CountSends, PutChallenge, Sent, SendFails, Withdraw, RecordSend,
                StartCooldown, Die, Answers, Verify, CountWrong, Burn, store, ghosts
  <2>2. \A q \in Request : job'[q].step \in Opening => job[q].step \in Opening
    BY <1>5, OpensFew, OneMoves DEF Stays
  <2>. QED BY <1>2, <1>3, <2>1, <2>2 DEF OpensByClaim, owner
<1>6. ASSUME NEW r \in Request, Opens(r) PROVE OpensByClaim'
  <2>1. Vouched
    BY <1>2, <1>6 DEF Opens, Enter, Touch, Create, Attach, Mark, Register, Confirmed, RegisterTx,
                      Spend, At, Opening
  <2>. QED BY <1>3, <2>1 DEF OpensByClaim
<1>7. CASE Environment
  <2>1. verified' => verified
    BY <1>7 DEF Environment, TakeUnproved, Leave, GoogleSignIn, EnterElsewhere, TouchElsewhere,
                CooldownEnds, SendForgotten, CodeExpires, MarkerLapses, store
  <2>2. ASSUME TakeUnproved PROVE proved' \/ holder' \in elsewhere' => moved'
    <3>1. proved' = FALSE /\ elsewhere' = elsewhere /\ moved' = (holder' \in elsewhere)
      BY <2>2 DEF TakeUnproved
    <3>. QED BY <3>1
  <2>3. ASSUME GoogleSignIn PROVE Vouched'
    BY <2>3 DEF GoogleSignIn, Vouched
  <2>4. ASSUME ~TakeUnproved, ~GoogleSignIn
        PROVE  proved' \/ holder' \in elsewhere' => Vouched \/ moved
    <3>1. proved' \/ holder' \in elsewhere' => proved \/ holder \in elsewhere
      BY <1>7, <2>4 DEF Environment, Leave, EnterElsewhere, TouchElsewhere, CooldownEnds,
                        SendForgotten, CodeExpires, MarkerLapses, owner, Sound, TypeOK, ConstantsOK
    <3>. QED BY <1>2, <3>1
  <2>5. ~TakeUnproved /\ ~GoogleSignIn => moved' = moved
    BY <1>7 DEF Environment, Leave, EnterElsewhere, TouchElsewhere, CooldownEnds, SendForgotten,
                CodeExpires, MarkerLapses, ghosts
  <2>6. proved' \/ holder' \in elsewhere' => Vouched' \/ moved'
    BY <1>3, <2>2, <2>3, <2>4, <2>5
  <2>. QED BY <1>2, <1>3, <1>7, <2>1, <2>6, EnvironmentStill DEF OpensByClaim
<1>. QED BY <1>4, <1>5, <1>6, <1>7 DEF Next

\* Standing still keeps it all.
LEMMA StutterSound == Sound /\ UNCHANGED vars => Sound'
BY DEF vars, kinds, store, owner, ghosts, Sound, TypeOK, JobsKnow, SendsFollow, SendersOf, Sending,
       GuessesFollow, GuessersOf, Guessing, OpensByClaim, Vouched, KeyUnclaimed

-----------------------------------------------------------------------------
\* The invariant holds of every execution.
THEOREM CodesInvariant == Spec => []Sound
<1>1. Init => Sound
  BY ConstantsOK, InitSound
<1>2. Sound /\ [Next]_vars => Sound'
  <2>1. ASSUME Sound, Next PROVE Sound'
    BY <2>1, ConstantsOK, StepTyped, SendsStep, GuessesStep, JobsStep, ClaimsStep, OpensStep DEF Sound
  <2>. QED BY <2>1, StutterSound
<1>. QED BY <1>1, <1>2, PTL DEF Spec

\* The types hold for any number of requests, codes and accounts.
THEOREM CodesTyped == Spec => []TypeOK
<1>1. Sound => TypeOK
  BY DEF Sound
<1>. QED BY <1>1, CodesInvariant, PTL

\* With no write crossing another, no code is accepted twice
\* (otp.service.ts:258-266).
THEOREM CodesClaimedOnce == Spec => []ClaimedOnce
<1>1. Sound => ClaimedOnce
  BY DEF Sound, KeyUnclaimed, ClaimedOnce
<1>. QED BY <1>1, CodesInvariant, PTL

\* The wrong answers to a code exceed their limit by fewer than the requests
\* there are (otp.service.ts:236-255).
THEOREM GuessesBounded == Spec => []GuessBudget
<1>1. Sound => GuessBudget
  <2> SUFFICES ASSUME Sound, NEW c \in Code
               PROVE  wrong[c] < MaxAttempts + Cardinality(Request)
    BY DEF GuessBudget
  <2>1. Cardinality(GuessersOf(c)) \in Nat /\ Cardinality(Request) \in Nat
    BY ConstantsOK, RequestsCounted DEF GuessersOf
  <2>2. wrong[c] \in Nat /\ wrong[c] + Cardinality(GuessersOf(c)) < MaxAttempts + Cardinality(Request)
    BY DEF Sound, TypeOK, GuessesFollow
  <2>. QED BY <2>1, <2>2, ConstantsOK DEF ConstantsOK
<1>. QED BY <1>1, CodesInvariant, PTL

\* So do the codes sent in an hour (otp.service.ts:108-177).
THEOREM SendsStayBounded == Spec => []SendsBounded
<1>1. Sound => SendsBounded
  <2> SUFFICES ASSUME Sound PROVE sends < MaxSends + Cardinality(Request)
    BY DEF SendsBounded
  <2>1. Cardinality(SendersOf) \in Nat /\ Cardinality(Request) \in Nat
    BY ConstantsOK, RequestsCounted DEF SendersOf
  <2>2. sends \in Nat /\ sends + Cardinality(SendersOf) < MaxSends + Cardinality(Request)
    BY DEF Sound, TypeOK, SendsFollow
  <2>. QED BY <2>1, <2>2, ConstantsOK DEF ConstantsOK
<1>. QED BY <1>1, CodesInvariant, PTL

\* An address that counts as proved was, unless its holder took it during a
\* sign-in by another number (auth.service.ts:87-131, otp.service.ts:279-285).
THEOREM HoldersProved == Spec => []HolderProved
<1>1. Sound => HolderProved
  BY DEF Sound, OpensByClaim, Vouched, HolderProved
<1>. QED BY <1>1, CodesInvariant, PTL
=============================================================================
