---------------------------- MODULE SessionsSound ----------------------------
(***************************************************************************)
(* For any number of tabs, calls and tokens, with every fault: a session   *)
(* has one token at a time, its chain does not fork, and the browser of a  *)
(* user who signs out or lets calls expire is never left with a token that *)
(* would have it taken for a thief.                                        *)
(***************************************************************************)
EXTENDS Sessions, FiniteSetTheorems, TLAPS

Made(t) == t \in Token /\ state[t] # "none"

\* Whatever a request, the browser or a row refers to is a row.
RefsMade ==
  /\ cookie # None => Made(cookie)
  /\ logout.token # None => Made(logout.token)
  /\ \A b \in Tab : /\ refresh[b].token # None => Made(refresh[b].token)
                    /\ refresh[b].got # None => Made(refresh[b].got)
                    /\ refresh[b].step = "claim" => refresh[b].token # None
                    /\ refresh[b].step \in {"none", "sent", "claim"} => refresh[b].got = None
  /\ \A t \in Token : family[t] # None => Made(family[t])

ReplacedIsRevoked == \A t \in Token : successor[t] # None => state[t] = "revoked"

\* A refresh on its way back with a new token.
Carries(b) == refresh[b].step = "answered" /\ refresh[b].got # None

\* Why the cookie is good once everything is quiet: a cookie that was revoked
\* is about to be erased or replaced, by a token nobody else knows.
CookieSound ==
  /\ \A b, d \in Tab : InFlight(b) /\ InFlight(d) => b = d
  /\ cookie # None /\ cookie \notin Unrevoked =>
       logout # NoRequest \/ \E b \in Tab : Carries(b)
  /\ \A b \in Tab : Carries(b) => /\ refresh[b].got \in Unrevoked
                                  /\ refresh[b].got # logout.token
                                  /\ refresh[b].got # cookie
  /\ \A b \in Tab :
       refresh[b].step = "sent" /\ refresh[b].token # None /\ cookie # None =>
         cookie = refresh[b].token \/ family[cookie] # family[refresh[b].token]

Sound == /\ TypeOK /\ RefsMade /\ ReplacedIsRevoked /\ OneTokenPerSession
         /\ ~excused => CookieSound

\* No request is a request.
LEMMA NoRequestTyped == NoRequest \in Request
BY DEF NoRequest, Request

\* A refresh at any step is on its way.
LEMMA StepInFlight == \A b : refresh[b].step # "none" => InFlight(b)
BY DEF InFlight, NoRequest

\* Initially there is no session.
LEMMA InitSound == ConstantsOK /\ Init => Sound
<1> SUFFICES ASSUME ConstantsOK, Init PROVE Sound
  OBVIOUS
<1>1. TypeOK
  BY NoRequestTyped DEF Init, TypeOK, CallState
<1>2. RefsMade /\ ReplacedIsRevoked
  BY DEF Init, RefsMade, ReplacedIsRevoked, NoRequest
<1>3. OneTokenPerSession
  BY DEF Init, OneTokenPerSession, Unrevoked
<1>4. CookieSound
  BY DEF Init, CookieSound, InFlight, Carries, NoRequest
<1>. QED BY <1>1, <1>2, <1>3, <1>4 DEF Sound

\* Steps of the pages that touch neither tokens nor requests.
LEMMA PageSound ==
  ASSUME ConstantsOK, Sound,
         AccessExpires \/ SetUserActive \/ \E c \in Call : Send(c) \/ Answered(c)
  PROVE  Sound'
<1>1. UNCHANGED <<state, family, successor, cookie, refresh, logout, excused>>
  BY DEF AccessExpires, SetUserActive, Send, Answered, db, browser
<1>2. active' \in BOOLEAN /\ access' \in {"none", "fresh", "stale"} /\ call' \in [Call -> CallState]
  BY DEF AccessExpires, SetUserActive, Send, Answered, db, browser, Sound, TypeOK, CallState
<1>3. TypeOK'
  BY <1>1, <1>2 DEF Sound, TypeOK
<1>. QED
  BY <1>1, <1>3 DEF Sound, RefsMade, Made, ReplacedIsRevoked, OneTokenPerSession, Unrevoked,
                    CookieSound, InFlight, Carries

\* The token that is made next is no row yet, when there is one.
LEMMA NewTokenUnused == Unused # {} => NewToken \in Token /\ state[NewToken] = "none"
<1> SUFFICES ASSUME Unused # {} PROVE NewToken \in Token /\ state[NewToken] = "none"
  OBVIOUS
<1>1. \E t \in Token : state[t] = "none"
  BY DEF Unused
<1>. QED BY <1>1 DEF NewToken

\* The bound leaves a token to make.
LEMMA TokensLeftUnused == ConstantsOK /\ TokensLeft > 0 => Unused # {}
<1> SUFFICES ASSUME ConstantsOK, TokensLeft > 0, Unused = {} PROVE FALSE
  OBVIOUS
<1>1. Cardinality(Unused) = 0
  BY FS_EmptySet
<1>2. IsFiniteSet({c \in Call : call[c] # "idle"})
  BY FS_Subset DEF ConstantsOK
<1>3. Cardinality({c \in Call : call[c] # "idle"}) \in Nat
  BY <1>2, FS_CardinalityType
<1>. QED BY <1>1, <1>3 DEF TokensLeft

\* A new session: its token is in nobody's hands.
LEMMA LoginSound ==
  ASSUME ConstantsOK, Sound, Login
  PROVE  Sound'
<1> DEFINE t == NewToken
<1>1. t \in Token /\ state[t] = "none" /\ family[t] = None /\ t # None
  BY TokensLeftUnused, NewTokenUnused DEF Login, Sound, TypeOK, ConstantsOK
<1>2. /\ state' = [state EXCEPT ![t] = "live"] /\ family' = [family EXCEPT ![t] = t]
      /\ cookie' = t /\ access' = "fresh"
      /\ UNCHANGED <<successor, active, call, refresh, logout, excused>>
  BY DEF Login
<1> HIDE DEF t
<1>3. TypeOK'
  BY <1>1, <1>2 DEF Sound, TypeOK
<1>4. RefsMade' /\ ReplacedIsRevoked'
  BY <1>1, <1>2 DEF Sound, TypeOK, RefsMade, Made, ReplacedIsRevoked
<1>5. Unrevoked' = Unrevoked \union {t}
  BY <1>1, <1>2 DEF Sound, TypeOK, Unrevoked
<1>6. \A u \in Unrevoked : family[u] # t /\ family'[u] = family[u]
  BY <1>1, <1>2 DEF Sound, TypeOK, RefsMade, Made, Unrevoked
<1>7. OneTokenPerSession'
  BY <1>1, <1>2, <1>5, <1>6 DEF Sound, TypeOK, OneTokenPerSession
<1>8. ASSUME ~excused' PROVE CookieSound'
  <2>1. CookieSound
    BY <1>2, <1>8 DEF Sound
  <2>2. \A b \in Tab : Carries(b)' <=> Carries(b)
    BY <1>2 DEF Carries
  <2>3. \A b \in Tab : Carries(b)' => /\ refresh'[b].got \in Unrevoked'
                                     /\ refresh'[b].got # logout'.token
                                     /\ refresh'[b].got # cookie'
    BY <1>1, <1>2, <1>5, <2>1, <2>2 DEF CookieSound, Carries, Sound, RefsMade, Made
  <2>4. \A b \in Tab : refresh[b].token # None => family'[refresh[b].token] # t
    BY <1>1, <1>2 DEF Sound, TypeOK, RefsMade, Made
  <2>5. family'[t] = t
    BY <1>1, <1>2 DEF Sound, TypeOK
  <2>. QED BY <1>2, <1>5, <2>1, <2>2, <2>3, <2>4, <2>5 DEF CookieSound, InFlight
<1>. QED BY <1>3, <1>4, <1>7, <1>8 DEF Sound

\* Expiry is a date: the row is as unrevoked as before.
LEMMA ExpireSound ==
  ASSUME ConstantsOK, Sound, NEW t \in Token, Expire(t)
  PROVE  Sound'
<1>1. /\ state[t] = "live" /\ state' = [state EXCEPT ![t] = "expired"]
      /\ UNCHANGED <<family, successor, active, cookie, access, call, refresh, logout, excused>>
  BY DEF Expire, browser
<1>2. TypeOK' /\ Unrevoked' = Unrevoked
  BY <1>1 DEF Sound, TypeOK, Unrevoked
<1>3. RefsMade' /\ ReplacedIsRevoked'
  BY <1>1 DEF Sound, TypeOK, RefsMade, Made, ReplacedIsRevoked
<1>. QED BY <1>1, <1>2, <1>3 DEF Sound, OneTokenPerSession, CookieSound, InFlight, Carries

\* A call that waits for the refresh it starts, or joins.
LEMMA UnauthorizedSound ==
  ASSUME ConstantsOK, Sound, NEW c \in Call, Unauthorized(c)
  PROVE  Sound'
<1> DEFINE b == TabOf[c]
<1>1. b \in Tab
  BY DEF ConstantsOK
<1>2. /\ call' = [call EXCEPT ![c] = "waiting"]
      /\ UNCHANGED <<state, family, successor, active, cookie, access, logout>>
  BY DEF Unauthorized, db, browser
<1>3. \/ UNCHANGED <<refresh, excused>>
      \/ /\ ~InFlight(b)
         /\ refresh' = [refresh EXCEPT ![b] = [step |-> "sent", token |-> cookie, got |-> None]]
         /\ excused' = (excused \/ \E d \in Tab \ {b} : InFlight(d))
  BY DEF Unauthorized, Shared
<1> HIDE DEF b
<1>4. refresh' \in [Tab -> Request] /\ call' \in [Call -> CallState] /\ excused' \in BOOLEAN
  <2>1. [step |-> "sent", token |-> cookie, got |-> None] \in Request
    BY DEF Sound, TypeOK, Request
  <2>2. refresh' \in [Tab -> Request]
    BY <1>1, <1>3, <2>1 DEF Sound, TypeOK
  <2>3. call' \in [Call -> CallState]
    BY <1>2 DEF Sound, TypeOK, CallState
  <2>4. excused' \in BOOLEAN
    BY <1>3 DEF Sound, TypeOK
  <2>. QED BY <2>2, <2>3, <2>4
<1>5. TypeOK'
  BY <1>2, <1>4 DEF Sound, TypeOK
<1>6. RefsMade' /\ ReplacedIsRevoked'
  BY <1>1, <1>2, <1>3 DEF Sound, TypeOK, RefsMade, Made, ReplacedIsRevoked
<1>7. OneTokenPerSession' /\ Unrevoked' = Unrevoked
  BY <1>2 DEF Sound, OneTokenPerSession, Unrevoked
<1>8. ASSUME ~excused' PROVE CookieSound'
  <2>2. CASE UNCHANGED <<refresh, excused>>
    BY <1>2, <1>7, <1>8, <2>2 DEF Sound, CookieSound, InFlight, Carries
  <2>3. CASE /\ ~InFlight(b)
             /\ refresh' = [refresh EXCEPT ![b] = [step |-> "sent", token |-> cookie, got |-> None]]
             /\ excused' = (excused \/ \E d \in Tab \ {b} : InFlight(d))
    <3>1. ~excused /\ CookieSound /\ \A d \in Tab : ~InFlight(d)
      BY <1>8, <2>3 DEF Sound
    <3>2. \A d \in Tab : refresh[d] = NoRequest
      BY <3>1 DEF InFlight
    <3>3. \A d \in Tab : ~Carries(d)
      BY <3>2 DEF Carries, NoRequest
    <3>4. \A d \in Tab : refresh'[d] = IF d = b
                                       THEN [step |-> "sent", token |-> cookie, got |-> None]
                                       ELSE NoRequest
      BY <1>1, <2>3, <3>2 DEF Sound, TypeOK
    <3>5. \A d \in Tab : ~Carries(d)' /\ (InFlight(d)' => d = b)
      BY <3>4 DEF Carries, NoRequest, InFlight
    <3>6. \A d \in Tab : refresh'[d].step = "sent" => refresh'[d].token = cookie
      BY <3>4 DEF NoRequest
    <3>. QED BY <1>2, <1>7, <3>1, <3>3, <3>5, <3>6 DEF CookieSound
  <2>. QED BY <1>3, <2>2, <2>3
<1>. QED BY <1>5, <1>6, <1>7, <1>8 DEF Sound

\* Answers and reads of the server that write no row.
LEMMA RefuseSound ==
  ASSUME ConstantsOK, Sound, NEW b \in Tab, RefreshRefused(b) \/ LoseRotation(b) \/ RefreshRead(b)
  PROVE  Sound'
<1>1. UNCHANGED <<state, family, successor, active, cookie, access, call, logout, excused>>
  BY DEF RefreshRefused, LoseRotation, RefreshRead, db, browser
<1>2. PICK s \in {"answered", "claim"} :
        /\ refresh' = [refresh EXCEPT ![b].step = s, ![b].got = None]
        /\ s = "claim" => refresh[b].token # None
        /\ refresh[b].step \in {"sent", "claim"}
  <2>1. refresh[b].step \in {"sent", "claim"}
    BY DEF RefreshRefused, LoseRotation, RefreshRead
  <2>2. CASE RefreshRefused(b) \/ LoseRotation(b)
    BY <2>1, <2>2 DEF RefreshRefused, LoseRotation, Refuse, Answer
  <2>3. CASE RefreshRead(b)
    <3>1. refresh[b] \in Request /\ refresh[b].got = None
      BY <2>3 DEF Sound, TypeOK, RefsMade, RefreshRead
    <3>. QED BY <2>1, <2>3, <3>1 DEF RefreshRead, Sound, TypeOK, Request
  <2>. QED BY <2>2, <2>3
<1>3. \A d \in Tab : /\ d # b => refresh'[d] = refresh[d]
                     /\ refresh'[b].token = refresh[b].token
                     /\ refresh'[b].got = None /\ refresh'[b].step \in {"answered", "claim"}
                     /\ refresh'[b].step = "claim" => refresh[b].token # None
  BY <1>2 DEF Sound, TypeOK, Request
<1>4. refresh' \in [Tab -> Request]
  BY <1>2 DEF Sound, TypeOK, Request
<1>5. TypeOK'
  BY <1>1, <1>4 DEF Sound, TypeOK
<1>6. RefsMade' /\ ReplacedIsRevoked' /\ OneTokenPerSession' /\ Unrevoked' = Unrevoked
  BY <1>1, <1>3 DEF Sound, RefsMade, Made, ReplacedIsRevoked, OneTokenPerSession, Unrevoked
<1>7. InFlight(b) /\ \A d \in Tab : InFlight(d)' => InFlight(d)
  <2>1. InFlight(b)
    BY <1>2, StepInFlight
  <2>2. \A d \in Tab : d # b => (InFlight(d)' <=> InFlight(d))
    BY <1>3 DEF InFlight
  <2>. QED BY <2>1, <2>2
<1>8. \A d \in Tab : Carries(d)' <=> Carries(d)
  BY <1>2, <1>3 DEF Carries
<1>9. ASSUME ~excused' PROVE CookieSound'
  <2>1. CookieSound
    BY <1>1, <1>9 DEF Sound
  <2>2. \A d \in Tab : Carries(d)' => refresh'[d].got = refresh[d].got
    BY <1>3 DEF Carries
  <2>3. \A d \in Tab : refresh'[d].step = "sent" => refresh'[d] = refresh[d]
    BY <1>3
  <2>. QED BY <1>1, <1>6, <1>7, <1>8, <2>1, <2>2, <2>3 DEF CookieSound
<1>. QED BY <1>5, <1>6, <1>9 DEF Sound

\* Re-use detected: nothing but rows of the family is revoked.
LEMMA ReuseSound ==
  ASSUME ConstantsOK, Sound, NEW b \in Tab, ReuseDetected(b)
  PROVE  Sound'
<1> DEFINE t == refresh[b].token
           F == FamilyOf(t)
<1>1. /\ refresh[b].step = "sent" /\ t \in Token /\ state[t] = "revoked"
      /\ state' = Revoked(F)
      /\ UNCHANGED <<family, successor, active, cookie, access, call, logout, excused>>
  BY DEF ReuseDetected, browser, Sound, RefsMade, Made
<1>2. refresh' = [refresh EXCEPT ![b].step = "answered", ![b].got = None]
  BY DEF ReuseDetected, Refuse, Answer
<1>3. F \subseteq Unrevoked /\ \A u \in Unrevoked : u \in F <=> family[u] = family[t]
  BY DEF FamilyOf
<1> HIDE DEF t, F
<1>4. \A d \in Tab : /\ d # b => refresh'[d] = refresh[d]
                     /\ refresh'[b].token = refresh[b].token
                     /\ refresh'[b].got = None /\ refresh'[b].step = "answered"
  BY <1>2 DEF Sound, TypeOK, Request
<1>5. refresh' \in [Tab -> Request]
  BY <1>2 DEF Sound, TypeOK, Request
<1>6. \A u \in Token : state'[u] = IF u \in F THEN "revoked" ELSE state[u]
  BY <1>1 DEF Revoked
<1>7. TypeOK'
  BY <1>1, <1>3, <1>5, <1>6 DEF Sound, TypeOK, Unrevoked, Revoked
<1>8. RefsMade' /\ ReplacedIsRevoked'
  BY <1>1, <1>3, <1>4, <1>6 DEF Sound, RefsMade, Made, ReplacedIsRevoked, Unrevoked
<1>9. Unrevoked' = Unrevoked \ F
  BY <1>3, <1>6 DEF Unrevoked
<1>10. OneTokenPerSession'
  BY <1>1, <1>9 DEF Sound, OneTokenPerSession
<1>11. ASSUME ~excused' PROVE CookieSound'
  <2>1. CookieSound
    BY <1>1, <1>11 DEF Sound
  <2>2. InFlight(b) /\ \A d \in Tab : d # b => ~InFlight(d)
    BY <1>1, <2>1, StepInFlight DEF CookieSound
  <2>3. \A d \in Tab : ~Carries(d) /\ ~Carries(d)'
    BY <1>1, <1>4, <2>2, StepInFlight DEF Carries
  <2>4. \A d \in Tab : (InFlight(d)' => d = b) /\ refresh'[d].step # "sent"
    BY <1>4, <2>2, StepInFlight DEF InFlight
  <2>5. cookie # None /\ cookie \notin Unrevoked' => logout # NoRequest
    <3>1. CASE cookie \notin Unrevoked
      BY <2>1, <2>3, <3>1 DEF CookieSound
    <3>2. CASE cookie \in F
      <4>1. cookie # None /\ cookie \in Token /\ family[cookie] = family[t] /\ cookie \in Unrevoked
        BY <1>3, <3>2 DEF Unrevoked, ConstantsOK
      <4>2. cookie = t
        BY <1>1, <2>1, <4>1 DEF CookieSound, t, ConstantsOK
      <4>. QED BY <1>1, <4>1, <4>2 DEF Unrevoked
    <3>. QED BY <1>9, <3>1, <3>2
  <2>. QED BY <1>1, <2>3, <2>4, <2>5 DEF CookieSound
<1>. QED BY <1>7, <1>8, <1>10, <1>11 DEF Sound

\* A rotation: the old token makes way for one that only the answer carries.
LEMMA RotateSound ==
  ASSUME ConstantsOK, Sound, NEW b \in Tab, Rotate(b)
  PROVE  Sound'
<1> DEFINE t == refresh[b].token
           n == NewToken
<1>1. /\ refresh[b].step = "claim" /\ t \in Token /\ t \in Unrevoked
      /\ n \in Token /\ state[n] = "none" /\ family[n] = None /\ n # None /\ n # t
  BY NewTokenUnused DEF Rotate, Claimable, Unrevoked, Sound, TypeOK, ConstantsOK
<1>2. /\ state' = [Revoked({t}) EXCEPT ![n] = "live"]
      /\ successor' = [successor EXCEPT ![t] = n]
      /\ family' = [family EXCEPT ![n] = family[t]]
      /\ refresh' = [refresh EXCEPT ![b].step = "answered", ![b].got = n]
      /\ UNCHANGED <<active, cookie, access, call, logout, excused>>
  BY DEF Rotate, Inherited, Answer, browser
<1> HIDE DEF t, n
<1>3. \A u \in Token : state'[u] = IF u = n THEN "live" ELSE IF u = t THEN "revoked" ELSE state[u]
  BY <1>1, <1>2 DEF Revoked
<1>4. \A u \in Token : /\ family'[u] = IF u = n THEN family[t] ELSE family[u]
                       /\ successor'[u] = IF u = t THEN n ELSE successor[u]
  BY <1>1, <1>2 DEF Sound, TypeOK
<1>5. \A d \in Tab : /\ d # b => refresh'[d] = refresh[d]
                     /\ refresh'[b].token = refresh[b].token
                     /\ refresh'[b].got = n /\ refresh'[b].step = "answered"
  BY <1>2 DEF Sound, TypeOK, Request
<1>6. refresh' \in [Tab -> Request]
  <2> DEFINE q == [refresh[b] EXCEPT !.step = "answered", !.got = n]
  <2>1. q \in Request
    BY <1>1 DEF Sound, TypeOK, Request
  <2>2. refresh' = [refresh EXCEPT ![b] = q]
    BY <1>2
  <2> HIDE DEF q
  <2>. QED BY <2>1, <2>2 DEF Sound, TypeOK
<1>7. TypeOK'
  <2>1. /\ state' \in [Token -> {"none", "live", "expired", "revoked"}]
        /\ family' \in [Token -> Token \union {None}]
        /\ successor' \in [Token -> Token \union {None}]
    BY <1>1, <1>2 DEF Sound, TypeOK, Revoked
  <2>2. family[t] # None
    BY <1>1 DEF Sound, TypeOK, Unrevoked
  <2>3. \A u \in Token : state'[u] = "none" <=> family'[u] = None
    BY <1>1, <1>3, <1>4, <2>2 DEF Sound, TypeOK, Unrevoked
  <2>. QED BY <1>2, <1>6, <2>1, <2>3 DEF Sound, TypeOK
<1>8. RefsMade'
  <2> DEFINE Now(u) == u \in Token /\ state'[u] # "none"
  <2>1. \A u : Made(u) => Now(u)
    BY <1>3 DEF Made
  <2>2. Now(n)
    BY <1>1, <1>3
  <2>3. Made(family[t])
    <3>1. family[t] # None
      BY <1>1 DEF Sound, TypeOK, Unrevoked
    <3>. QED BY <1>1, <3>1 DEF Sound, RefsMade
  <2> HIDE DEF Now
  <2>4. \A u \in Token : family'[u] # None => Now(family'[u])
    BY <1>1, <1>4, <2>1, <2>3 DEF Sound, RefsMade
  <2>5. \A d \in Tab : /\ refresh'[d].token # None => Now(refresh'[d].token)
                       /\ refresh'[d].got # None => Now(refresh'[d].got)
                       /\ refresh'[d].step = "claim" => refresh'[d].token # None
                       /\ refresh'[d].step \in {"none", "sent", "claim"} => refresh'[d].got = None
    <3> SUFFICES ASSUME NEW d \in Tab
                 PROVE  /\ refresh'[d].token # None => Now(refresh'[d].token)
                        /\ refresh'[d].got # None => Now(refresh'[d].got)
                        /\ refresh'[d].step = "claim" => refresh'[d].token # None
                        /\ refresh'[d].step \in {"none", "sent", "claim"} => refresh'[d].got = None
      OBVIOUS
    <3>1. CASE d = b
      BY <1>1, <1>5, <2>1, <2>2, <3>1 DEF Sound, RefsMade
    <3>2. CASE d # b
      <4>1. refresh'[d] = refresh[d]
        BY <1>5, <3>2
      <4>. QED BY <4>1, <2>1 DEF Sound, RefsMade
    <3>. QED BY <3>1, <3>2
  <2>6. /\ cookie' # None => Now(cookie')
        /\ logout'.token # None => Now(logout'.token)
    BY <1>2, <2>1 DEF Sound, RefsMade
  <2>. QED BY <2>4, <2>5, <2>6 DEF RefsMade, Made, Now
<1>9. ReplacedIsRevoked'
  BY <1>1, <1>3, <1>4 DEF Sound, ReplacedIsRevoked, Unrevoked
<1>10. Unrevoked' = (Unrevoked \ {t}) \union {n}
  BY <1>1, <1>3 DEF Unrevoked
<1>11. OneTokenPerSession'
  BY <1>1, <1>4, <1>10 DEF Sound, OneTokenPerSession, Unrevoked
<1>12. ASSUME ~excused' PROVE CookieSound'
  <2>1. CookieSound
    BY <1>2, <1>12 DEF Sound
  <2>2. InFlight(b) /\ \A d \in Tab : d # b => ~InFlight(d)
    BY <1>1, <2>1, StepInFlight DEF CookieSound
  <2>3. \A d \in Tab : ~Carries(d) /\ (Carries(d)' <=> d = b)
    BY <1>1, <1>5, <2>2, StepInFlight DEF Carries
  <2>4. \A d \in Tab : (InFlight(d)' => d = b) /\ refresh'[d].step # "sent"
    BY <1>5, <2>2, StepInFlight DEF InFlight
  <2>5. n # logout.token /\ n # cookie
    BY <1>1 DEF Sound, RefsMade, Made
  <2>6. \A d \in Tab : Carries(d)' => /\ refresh'[d].got \in Unrevoked'
                                      /\ refresh'[d].got # logout'.token
                                      /\ refresh'[d].got # cookie'
    <3>1. n \in Unrevoked'
      BY <1>10
    <3>2. refresh'[b].got = n
      BY <1>5
    <3>. QED BY <1>2, <2>3, <2>5, <3>1, <3>2
  <2>. QED BY <1>2, <2>3, <2>4, <2>6 DEF CookieSound
<1>. QED BY <1>7, <1>8, <1>9, <1>11, <1>12 DEF Sound

\* The answer reaches its tab, or is lost.
LEMMA DeliverSound ==
  ASSUME ConstantsOK, Sound, NEW b \in Tab, Renewed(b) \/ SignedOut(b) \/ RefreshLost(b)
  PROVE  Sound'
<1>1. /\ refresh[b].step = "answered"
      /\ refresh' = [refresh EXCEPT ![b] = NoRequest]
      /\ \E s \in {"replay", "idle"} : Wake(b, s)
      /\ access' \in {"none", "fresh", "stale"}
      /\ UNCHANGED <<state, family, successor, active, logout>>
  BY DEF Renewed, SignedOut, RefreshLost, db
<1>2. \/ Carries(b) /\ cookie' = refresh[b].got /\ excused' = excused
      \/ ~Carries(b) /\ cookie' = cookie /\ excused' = excused
      \/ cookie' = cookie /\ excused' = TRUE
  BY DEF Renewed, SignedOut, RefreshLost, Carries
<1>3. call' \in [Call -> CallState]
  BY <1>1 DEF Wake, Sound, TypeOK, CallState
<1>4. refresh' \in [Tab -> Request]
  BY <1>1, NoRequestTyped DEF Sound, TypeOK
<1>5. cookie' \in Token \union {None} /\ excused' \in BOOLEAN
  <2>1. cookie' \in Token \union {None}
    BY <1>2 DEF Sound, TypeOK, Request
  <2>2. excused' = excused \/ excused' = TRUE
    BY <1>2
  <2>3. excused' \in BOOLEAN
    BY <2>2 DEF Sound, TypeOK
  <2>. QED BY <2>1, <2>3
<1>6. TypeOK'
  BY <1>1, <1>3, <1>4, <1>5 DEF Sound, TypeOK
<1>7. \A d \in Tab : refresh'[d] = IF d = b THEN NoRequest ELSE refresh[d]
  BY <1>1 DEF Sound, TypeOK
<1>8. RefsMade'
  <2>1. cookie' # None => Made(cookie')
    BY <1>2 DEF Sound, RefsMade
  <2>. QED BY <1>1, <1>7, <2>1 DEF Sound, RefsMade, Made, NoRequest
<1>9. ReplacedIsRevoked' /\ OneTokenPerSession' /\ Unrevoked' = Unrevoked
  BY <1>1 DEF Sound, ReplacedIsRevoked, OneTokenPerSession, Unrevoked
<1>10. ASSUME ~excused' PROVE CookieSound'
  <2>1. CookieSound /\ ~excused
    BY <1>2, <1>10 DEF Sound
  <2>2. InFlight(b) /\ \A d \in Tab : d # b => ~InFlight(d)
    BY <1>1, <2>1, StepInFlight DEF CookieSound
  <2>3. \A d \in Tab : refresh'[d] = NoRequest
    BY <1>7, <2>2 DEF InFlight
  <2>4. \A d \in Tab : ~Carries(d)' /\ ~InFlight(d)' /\ refresh'[d].step # "sent"
    BY <2>3 DEF Carries, InFlight, NoRequest
  <2>5. \A d \in Tab : Carries(d) => d = b
    BY <2>2, StepInFlight DEF Carries
  <2>6. cookie' # None /\ cookie' \notin Unrevoked' => logout' # NoRequest
    <3>1. CASE Carries(b) /\ cookie' = refresh[b].got
      BY <1>9, <2>1, <3>1 DEF CookieSound
    <3>2. CASE ~Carries(b) /\ cookie' = cookie
      BY <1>1, <1>9, <2>1, <2>5, <3>2 DEF CookieSound
    <3>. QED BY <1>2, <1>10, <3>1, <3>2
  <2>. QED BY <2>4, <2>6 DEF CookieSound
<1>. QED BY <1>6, <1>8, <1>9, <1>10 DEF Sound

\* Signing out: the token is revoked, the answer erases the cookie.
LEMMA LogoutSound ==
  ASSUME ConstantsOK, Sound, Logout \/ LogoutDone \/ LogoutLost
  PROVE  Sound'
<1>1. UNCHANGED <<state, family, successor, active, call, refresh>>
  BY DEF Logout, LogoutDone, LogoutLost, db, browser
<1>2. \/ /\ logout' = [step |-> "sent", token |-> cookie, got |-> None]
         /\ UNCHANGED <<cookie, access, excused>>
      \/ logout' = NoRequest /\ cookie' = None /\ access' = "none" /\ excused' = excused
      \/ logout' = NoRequest /\ cookie' = cookie /\ access' = "none" /\ excused' = TRUE
  BY DEF Logout, LogoutDone, LogoutLost, browser
<1>3. logout' \in Request
  BY <1>2, NoRequestTyped DEF Sound, TypeOK, Request
<1>4. TypeOK'
  BY <1>1, <1>2, <1>3 DEF Sound, TypeOK
<1>5. logout'.token \in {None, cookie}
  BY <1>2 DEF NoRequest
<1>6. RefsMade' /\ ReplacedIsRevoked' /\ OneTokenPerSession' /\ Unrevoked' = Unrevoked
  BY <1>1, <1>2, <1>5 DEF Sound, RefsMade, Made, ReplacedIsRevoked, OneTokenPerSession, Unrevoked
<1>7. ASSUME ~excused' PROVE CookieSound'
  <2>1. CookieSound
    BY <1>2, <1>7 DEF Sound
  <2>2. \A d \in Tab : (Carries(d)' <=> Carries(d)) /\ (InFlight(d)' <=> InFlight(d))
    BY <1>1 DEF Carries, InFlight
  <2>3. cookie' \in {None, cookie}
    BY <1>2
  <2>4. \A d \in Tab : Carries(d)' => /\ refresh'[d].got \in Unrevoked'
                                      /\ refresh'[d].got # logout'.token
                                      /\ refresh'[d].got # cookie'
    BY <1>1, <1>5, <1>6, <2>1, <2>2, <2>3 DEF CookieSound, Carries
  <2>5. cookie' # None => logout' # NoRequest
    BY <1>2, <1>7 DEF NoRequest
  <2>. QED BY <1>1, <2>1, <2>2, <2>3, <2>4, <2>5 DEF CookieSound
<1>. QED BY <1>4, <1>6, <1>7 DEF Sound

\* The server's half of signing out revokes the token it was sent, if any.
LEMMA LogoutRevokesSound ==
  ASSUME ConstantsOK, Sound, LogoutRevokes
  PROVE  Sound'
<1> DEFINE t == logout.token
           F == {t} \intersect Unrevoked
<1>1. /\ logout.step = "sent" /\ state' = Revoked(F)
      /\ logout' = [logout EXCEPT !.step = "answered"]
      /\ UNCHANGED <<family, successor, active, cookie, access, call, refresh, excused>>
  BY DEF LogoutRevokes, browser
<1>2. F \subseteq Unrevoked /\ \A u \in F : u = logout.token
  OBVIOUS
<1> HIDE DEF t, F
<1>3. logout' \in Request /\ logout'.token = logout.token /\ logout'.step = "answered"
  BY <1>1 DEF Sound, TypeOK, Request
<1>4. \A u \in Token : state'[u] = IF u \in F THEN "revoked" ELSE state[u]
  BY <1>1 DEF Revoked
<1>5. TypeOK'
  BY <1>1, <1>2, <1>3, <1>4 DEF Sound, TypeOK, Unrevoked, Revoked
<1>6. RefsMade' /\ ReplacedIsRevoked'
  BY <1>1, <1>2, <1>3, <1>4 DEF Sound, RefsMade, Made, ReplacedIsRevoked, Unrevoked
<1>7. Unrevoked' = Unrevoked \ F
  BY <1>2, <1>4 DEF Unrevoked
<1>8. OneTokenPerSession'
  BY <1>1, <1>7 DEF Sound, OneTokenPerSession
<1>9. logout' # NoRequest
  BY <1>3 DEF NoRequest
<1>10. ASSUME ~excused' PROVE CookieSound'
  <2>1. CookieSound
    BY <1>1, <1>10 DEF Sound
  <2>2. \A d \in Tab : (Carries(d)' <=> Carries(d)) /\ (InFlight(d)' <=> InFlight(d))
    BY <1>1 DEF Carries, InFlight
  <2>. QED BY <1>1, <1>2, <1>3, <1>7, <1>9, <2>1, <2>2 DEF CookieSound
<1>. QED BY <1>5, <1>6, <1>8, <1>10 DEF Sound

\* Every step keeps the invariant, one action at a time.
LEMMA StepSound ==
  ASSUME ConstantsOK, Sound, [Next]_vars
  PROVE  Sound'
<1>1. CASE Login
  BY <1>1, LoginSound
<1>2. CASE \E t \in Token : Expire(t)
  BY <1>2, ExpireSound
<1>3. CASE SetUserActive \/ AccessExpires
  BY <1>3, PageSound
<1>4. CASE \E c \in Call : Send(c) \/ Answered(c) \/ Unauthorized(c)
  BY <1>4, PageSound, UnauthorizedSound
<1>5. CASE \E b \in Tab : Server(b)
  <2>. PICK b \in Tab : Server(b)
    BY <1>5
  <2>1. CASE ReuseDetected(b)
    BY <2>1, ReuseSound
  <2>2. CASE RefreshRefused(b) \/ RefreshRead(b) \/ LoseRotation(b)
    BY <2>2, RefuseSound
  <2>3. CASE Rotate(b)
    BY <2>3, RotateSound
  <2>. QED BY <2>1, <2>2, <2>3 DEF Server
<1>6. CASE \E b \in Tab : Deliver(b)
  BY <1>6, DeliverSound DEF Deliver
<1>7. CASE Logout \/ SignOut
  BY <1>7, LogoutSound, LogoutRevokesSound DEF SignOut
<1>8. CASE UNCHANGED vars
  BY <1>8 DEF vars, db, browser, Sound, TypeOK, RefsMade, Made, ReplacedIsRevoked,
              OneTokenPerSession, Unrevoked, CookieSound, InFlight, Carries
<1>. QED BY <1>1, <1>2, <1>3, <1>4, <1>5, <1>6, <1>7, <1>8 DEF Next

\* Between requests, with no excuse, the cookie is no revoked token.
LEMMA CookieFollows == Sound => CookieIsGood
<1> SUFFICES ASSUME Sound, Quiet, ~excused, cookie # None PROVE cookie \in Unrevoked
  BY DEF CookieIsGood
<1>1. CookieSound /\ logout = NoRequest /\ \A b \in Tab : ~InFlight(b)
  BY DEF Sound, Quiet
<1>2. \A b \in Tab : ~Carries(b)
  BY <1>1, StepInFlight DEF Carries
<1>. QED BY <1>1, <1>2 DEF CookieSound

\* A step takes no token back from the revoked and replaces none twice.
LEMMA StepKeepsChain ==
  ASSUME ConstantsOK, Sound, [Next]_vars
  PROVE  \A t \in Token : /\ state[t] = "revoked" => state'[t] = "revoked"
                          /\ successor[t] # None => successor'[t] = successor[t]
<1> DEFINE Kept == \A t \in Token : /\ state[t] = "revoked" => state'[t] = "revoked"
                                    /\ successor[t] # None => successor'[t] = successor[t]
<1>1. ASSUME UNCHANGED <<state, successor>> PROVE Kept
  BY <1>1
<1>2. ASSUME UNCHANGED successor, NEW S, state' = Revoked(S) PROVE Kept
  BY <1>2 DEF Revoked
<1>3. CASE Login
  <2>1. NewToken \in Token /\ state[NewToken] = "none"
    BY <1>3, TokensLeftUnused, NewTokenUnused DEF Login
  <2>. QED BY <1>3, <2>1 DEF Login, Sound, TypeOK
<1>4. CASE \E t \in Token : Expire(t)
  BY <1>4 DEF Expire, Sound, TypeOK
<1>5. CASE \E b \in Tab : Rotate(b)
  <2>. PICK b \in Tab : Rotate(b)
    BY <1>5
  <2> DEFINE u == refresh[b].token
             n == NewToken
  <2>1. u \in Unrevoked /\ n \in Token /\ state[n] = "none" /\ n # u
    BY NewTokenUnused DEF Rotate, Claimable, Unrevoked
  <2>2. state' = [Revoked({u}) EXCEPT ![n] = "live"] /\ successor' = [successor EXCEPT ![u] = n]
    BY DEF Rotate
  <2> HIDE DEF u, n
  <2>3. successor[u] = None
    BY <2>1 DEF Sound, ReplacedIsRevoked, Unrevoked
  <2>4. \A t \in Token : state[t] = "revoked" => state'[t] = "revoked"
    BY <2>1, <2>2 DEF Revoked
  <2>5. \A t \in Token : successor[t] # None => successor'[t] = successor[t]
    BY <2>2, <2>3 DEF Sound, TypeOK
  <2>. QED BY <2>4, <2>5
<1>6. CASE \E b \in Tab : ReuseDetected(b)
  BY <1>2, <1>6 DEF ReuseDetected
<1>7. CASE LogoutRevokes
  BY <1>2, <1>7 DEF LogoutRevokes
<1>8. CASE \E b \in Tab : RefreshRefused(b) \/ RefreshRead(b) \/ LoseRotation(b) \/ Deliver(b)
  BY <1>1, <1>8 DEF RefreshRefused, RefreshRead, LoseRotation, Deliver, Renewed, SignedOut,
                    RefreshLost, db
<1>9. CASE \E c \in Call : Send(c) \/ Answered(c) \/ Unauthorized(c)
  BY <1>1, <1>9 DEF Send, Answered, Unauthorized, db
<1>10. CASE SetUserActive \/ AccessExpires \/ Logout \/ LogoutDone \/ LogoutLost \/ UNCHANGED vars
  BY <1>1, <1>10 DEF SetUserActive, AccessExpires, Logout, LogoutDone, LogoutLost, vars, db
<1>. QED
  BY <1>3, <1>4, <1>5, <1>6, <1>7, <1>8, <1>9, <1>10 DEF Next, Server, SignOut

-----------------------------------------------------------------------------
\* The invariant holds of every execution, whatever is lost and however many
\* tabs race.
THEOREM SessionsInvariant == Spec => []Sound
<1>1. Init => Sound
  BY ConstantsOK, InitSound
<1>2. Sound /\ [Next]_vars => Sound'
  BY ConstantsOK, StepSound
<1>. QED BY <1>1, <1>2, PTL DEF Spec

\* The types hold for any number of tabs, calls and tokens.
THEOREM SessionsTyped == Spec => []TypeOK
<1>1. Sound => TypeOK
  BY DEF Sound
<1>. QED BY <1>1, SessionsInvariant, PTL

\* A session never has two tokens that are not revoked (auth.service.ts:583-612).
THEOREM SessionHasOneToken == Spec => []OneTokenPerSession
<1>1. Sound => OneTokenPerSession
  BY DEF Sound
<1>. QED BY <1>1, SessionsInvariant, PTL

\* With no reply lost and no two tabs refreshing at once, the browser is never
\* left holding a token that would have its user signed out (client.ts:44-46).
THEOREM CookieStaysGood == Spec => []CookieIsGood
BY CookieFollows, SessionsInvariant, PTL

\* A revoked token stays revoked and has one successor at most
\* (auth.service.ts:585-588).
THEOREM ChainHasNoFork == Spec => ChainNeverForks
<1>1. Sound /\ [Next]_vars =>
        [\A t \in Token : /\ state[t] = "revoked" => state'[t] = "revoked"
                          /\ successor[t] # None => successor'[t] = successor[t]]_vars
  BY ConstantsOK, StepKeepsChain
<1>. QED BY <1>1, SessionsInvariant, PTL DEF Spec, ChainNeverForks
=============================================================================
