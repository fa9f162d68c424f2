------------------------------ MODULE Sessions ------------------------------
(***************************************************************************)
(* Sign-in sessions: the refresh tokens of one account in the database,    *)
(* rotated at each use, and the browser that holds them: one cookie and    *)
(* one stored access token for all its tabs, and in each tab an API client *)
(* that trades the cookie for a new access token when a call answers 401.  *)
(*                                                                         *)
(* Tabs are not coordinated, answers may be lost, the user may sign out    *)
(* while a refresh is on its way.                                          *)
(***************************************************************************)
EXTENDS Integers, FiniteSets

CONSTANTS
  Token,      \* ids of RefreshToken rows
  Tab,        \* open pages of the browser
  Call,       \* API calls a page may have on its way
  TabOf,      \* the tab of a call
  Faults,     \* "lost", "expiry", "disabled"
  None

ASSUME ConstantsOK ==
  /\ TabOf \in [Call -> Tab]
  /\ Faults \subseteq {"lost", "expiry", "disabled"}
  /\ None \notin Token
  /\ IsFiniteSet(Token) /\ IsFiniteSet(Call)

VARIABLES
  state,      \* of each token: "none", "live", "expired" or "revoked"
  family,     \* its familyId: the first token of the session
  successor,  \* its replacedById
  active,     \* the account is not disabled
  cookie,     \* the refresh token the browser holds
  access,     \* the stored access token: "none", "fresh", "stale"
  call,       \* what each API call is at
  refresh,    \* the refresh each tab has on its way
  logout,     \* the sign-out on its way
  excused     \* ghost: a reply was lost, or two tabs refreshed at once

db == <<state, family, successor, active>>
browser == <<cookie, access>>
vars == <<db, browser, call, refresh, logout, excused>>

\* A request: where it is, the token it carries, the token it was answered.
Request == [step : {"none", "sent", "claim", "answered"},
            token : Token \union {None}, got : Token \union {None}]
NoRequest == [step |-> "none", token |-> None, got |-> None]

CallState == {"idle", "sent.fresh", "sent.stale", "waiting", "replay"}

Init ==
  /\ state = [t \in Token |-> "none"]
  /\ family = [t \in Token |-> None]
  /\ successor = [t \in Token |-> None]
  /\ active = TRUE
  /\ cookie = None
  /\ access = "none"
  /\ call = [c \in Call |-> "idle"]
  /\ refresh = [b \in Tab |-> NoRequest]
  /\ logout = NoRequest
  /\ excused = FALSE

-----------------------------------------------------------------------------
(* The tokens.                                                             *)

Unused == {t \in Token : state[t] = "none"}
NewToken == CHOOSE t \in Token : state[t] = "none"

\* Rows with revokedAt null; expiry is a date, not a write.
Unrevoked == {t \in Token : state[t] \in {"live", "expired"}}

\* The bound: every call on its way may need one more token.
TokensLeft == Cardinality(Unused) - Cardinality({c \in Call : call[c] # "idle"})

\* issueTokens without a rotation: a session of its own.
Login ==
  LET t == NewToken IN
  /\ TokensLeft > 0
  /\ active
  /\ state' = [state EXCEPT ![t] = "live"]
  /\ family' = [family EXCEPT ![t] = t]
  /\ cookie' = t
  /\ access' = "fresh"
  /\ UNCHANGED <<successor, active, call, refresh, logout, excused>>

Expire(t) ==
  /\ "expiry" \in Faults
  /\ state[t] = "live"
  /\ state' = [state EXCEPT ![t] = "expired"]
  /\ UNCHANGED <<family, successor, active, browser, call, refresh, logout, excused>>

SetUserActive ==
  /\ "disabled" \in Faults
  /\ active' = ~active
  /\ UNCHANGED <<state, family, successor, browser, call, refresh, logout, excused>>

-----------------------------------------------------------------------------
(* The client: request and refreshOnce.                                    *)

AccessExpires ==
  /\ access = "fresh"
  /\ access' = "stale"
  /\ UNCHANGED <<db, cookie, call, refresh, logout, excused>>

Send(c) ==
  /\ call[c] = "idle"
  /\ TokensLeft > 0
  /\ call' = [call EXCEPT ![c] = IF access = "fresh" THEN "sent.fresh" ELSE "sent.stale"]
  /\ UNCHANGED <<db, browser, refresh, logout, excused>>

\* A call the API takes; a replay ends whatever the answer is.
Answered(c) ==
  /\ \/ call[c] = "sent.fresh" /\ active
     \/ call[c] = "replay"
  /\ call' = [call EXCEPT ![c] = "idle"]
  /\ UNCHANGED <<db, browser, refresh, logout, excused>>

InFlight(b) == refresh[b] # NoRequest

NeverShared(b) == FALSE                                            \* mutant

\* refreshOnce: a refresh on its way serves every call of the tab.
Shared(b) == InFlight(b)

\* 401: the call waits for the tab's refresh, which it starts if there is none.
Unauthorized(c) ==
  LET b == TabOf[c] IN
  /\ \/ call[c] = "sent.stale"
     \/ call[c] = "sent.fresh" /\ ~active
  /\ call' = [call EXCEPT ![c] = "waiting"]
  /\ IF Shared(b)
       THEN UNCHANGED <<refresh, excused>>
       ELSE /\ refresh' = [refresh EXCEPT ![b] = [step |-> "sent", token |-> cookie, got |-> None]]
            /\ excused' = (excused \/ \E d \in Tab \ {b} : InFlight(d))
  /\ UNCHANGED <<db, browser, logout>>

-----------------------------------------------------------------------------
(* The server's refresh.                                                   *)

Answer(b, t) == refresh' = [refresh EXCEPT ![b].step = "answered", ![b].got = t]

Refuse(b) == Answer(b, None)

\* Revoking is one updateMany over the rows that are not revoked yet.
Revoked(S) == [t \in Token |-> IF t \in S THEN "revoked" ELSE state[t]]

FamilyOf(t) == {u \in Unrevoked : family[u] = family[t]}

\* A token that was already revoked: the whole family goes.
ReuseDetected(b) ==
  LET t == refresh[b].token IN
  /\ refresh[b].step = "sent"
  /\ t # None
  /\ state[t] = "revoked"
  /\ state' = Revoked(FamilyOf(t))
  /\ Refuse(b)
  /\ UNCHANGED <<family, successor, active, browser, call, logout, excused>>

RefreshRefused(b) ==
  LET t == refresh[b].token IN
  /\ refresh[b].step = "sent"
  /\ \/ t = None
     \/ t # None /\ state[t] = "expired"
     \/ t # None /\ state[t] = "live" /\ ~active
  /\ Refuse(b)
  /\ UNCHANGED <<db, browser, call, logout, excused>>

RefreshRead(b) ==
  LET t == refresh[b].token IN
  /\ refresh[b].step = "sent"
  /\ active
  /\ t # None
  /\ state[t] = "live"
  /\ refresh' = [refresh EXCEPT ![b].step = "claim"]
  /\ UNCHANGED <<db, browser, call, logout, excused>>

ClaimBlindly(t) == TRUE                                            \* mutant

\* updateMany where revokedAt is null: one of several rotations claims the row.
Claimable(t) == t \in Unrevoked

\* familyId is handed on.
Inherited(t) == family[t]

\* issueTokens: revoke, point to the new token, create it, in one transaction.
Rotate(b) ==
  LET t == refresh[b].token
      n == NewToken IN
  /\ refresh[b].step = "claim"
  /\ Claimable(t)
  /\ Unused # {}       \* the bound; TokensLeft keeps one
  /\ state' = [Revoked({t}) EXCEPT ![n] = "live"]
  /\ successor' = [successor EXCEPT ![t] = n]
  /\ family' = [family EXCEPT ![n] = Inherited(t)]
  /\ Answer(b, n)
  /\ UNCHANGED <<active, browser, call, logout, excused>>

\* The claim failed: the family is revoked, and the exception rolls that back.
LoseRotation(b) ==
  /\ refresh[b].step = "claim"
  /\ ~Claimable(refresh[b].token)
  /\ Refuse(b)
  /\ UNCHANGED <<db, browser, call, logout, excused>>

-----------------------------------------------------------------------------
(* The answer reaches the tab: its waiting calls are replayed, or fail and *)
(* erase the stored access token.                                          *)

FirstWaiting(b) ==                                                 \* mutant
  LET all == {c \in Call : TabOf[c] = b /\ call[c] = "waiting"}
  IN {c \in all : c = CHOOSE d \in all : TRUE}

Waiting(b) == {c \in Call : TabOf[c] = b /\ call[c] = "waiting"}

Wake(b, s) == call' = [c \in Call |-> IF c \in Waiting(b) THEN s ELSE call[c]]

Renewed(b) ==
  /\ refresh[b].step = "answered"
  /\ refresh[b].got # None
  /\ cookie' = refresh[b].got
  /\ access' = "fresh"
  /\ Wake(b, "replay")
  /\ refresh' = [refresh EXCEPT ![b] = NoRequest]
  /\ UNCHANGED <<db, logout, excused>>

SignedOut(b) ==
  /\ refresh[b].step = "answered"
  /\ refresh[b].got = None
  /\ access' = "none"
  /\ Wake(b, "idle")
  /\ refresh' = [refresh EXCEPT ![b] = NoRequest]
  /\ UNCHANGED <<db, cookie, logout, excused>>

\* The answer is lost: the cookie it would have set is lost with it.
RefreshLost(b) ==
  /\ "lost" \in Faults
  /\ refresh[b].step = "answered"
  /\ access' = "none"
  /\ Wake(b, "idle")
  /\ refresh' = [refresh EXCEPT ![b] = NoRequest]
  /\ excused' = TRUE
  /\ UNCHANGED <<db, cookie, logout>>

-----------------------------------------------------------------------------
(* Signing out.                                                            *)

Logout ==
  /\ logout = NoRequest
  /\ logout' = [step |-> "sent", token |-> cookie, got |-> None]
  /\ UNCHANGED <<db, browser, call, refresh, excused>>

LogoutRevokes ==
  LET t == logout.token IN
  /\ logout.step = "sent"
  /\ state' = Revoked({t} \intersect Unrevoked)
  /\ logout' = [logout EXCEPT !.step = "answered"]
  /\ UNCHANGED <<family, successor, active, browser, call, refresh, excused>>

LogoutDone ==
  /\ logout.step = "answered"
  /\ cookie' = None
  /\ access' = "none"
  /\ logout' = NoRequest
  /\ UNCHANGED <<db, call, refresh, excused>>

\* The page forgets its access token either way; the cookie stays.
LogoutLost ==
  /\ "lost" \in Faults
  /\ logout.step = "answered"
  /\ access' = "none"
  /\ logout' = NoRequest
  /\ excused' = TRUE
  /\ UNCHANGED <<db, cookie, call, refresh>>

-----------------------------------------------------------------------------
Server(b) == ReuseDetected(b) \/ RefreshRefused(b) \/ RefreshRead(b) \/ Rotate(b) \/ LoseRotation(b)
Deliver(b) == Renewed(b) \/ SignedOut(b) \/ RefreshLost(b)
SignOut == LogoutRevokes \/ LogoutDone \/ LogoutLost

Next ==
  \/ Login
  \/ \E t \in Token : Expire(t)
  \/ SetUserActive
  \/ AccessExpires
  \/ \E c \in Call : Send(c) \/ Answered(c) \/ Unauthorized(c)
  \/ \E b \in Tab : Server(b) \/ Deliver(b)
  \/ Logout
  \/ SignOut

Spec == Init /\ [][Next]_vars

\* The API answers what it is asked, and an answer arrives or times out.
FairSpec ==
  /\ Spec
  /\ \A b \in Tab : WF_vars(Server(b)) /\ WF_vars(Deliver(b))
  /\ \A c \in Call : WF_vars(Answered(c) \/ Unauthorized(c))

-----------------------------------------------------------------------------
\* Types; every row belongs to a session.
TypeOK ==
  /\ state \in [Token -> {"none", "live", "expired", "revoked"}]
  /\ family \in [Token -> Token \union {None}]
  /\ \A t \in Token : state[t] = "none" <=> family[t] = None
  /\ successor \in [Token -> Token \union {None}]
  /\ active \in BOOLEAN
  /\ cookie \in Token \union {None}
  /\ access \in {"none", "fresh", "stale"}
  /\ call \in [Call -> CallState]
  /\ refresh \in [Tab -> Request]
  /\ logout \in Request
  /\ excused \in BOOLEAN

\* A session has at most one token that is not revoked, whatever refreshes and
\* sign-outs race (auth.service.ts:583-612).
OneTokenPerSession ==
  \A t, u \in Unrevoked : family[t] = family[u] => t = u

\* A revoked token is never good again and is replaced at most once: the chain
\* of a session does not fork (auth.service.ts:585-588).
ChainNeverForks ==
  [][\A t \in Token :
       /\ state[t] = "revoked" => state'[t] = "revoked"
       /\ successor[t] # None => successor'[t] = successor[t]]_vars

Quiet == logout = NoRequest /\ \A b \in Tab : ~InFlight(b)

\* Between requests the browser holds a token that was not taken from it, or
\* none: unless an answer was lost or two tabs refreshed at once, rotation
\* never takes a user for a thief (client.ts:44-46).
CookieIsGood == Quiet /\ ~excused /\ cookie # None => cookie \in Unrevoked

\* Every call a page makes ends, renewed or not: nothing waits for a refresh
\* that nobody makes, nor refreshes for ever (client.ts:73-78, 131-143).
CallsEnd == \A c \in Call : (call[c] # "idle") ~> (call[c] = "idle")
=============================================================================
