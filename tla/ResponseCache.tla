--------------------------- MODULE ResponseCache ---------------------------
(***************************************************************************)
(* What visitors are shown of a listing: its page on the website, built    *)
(* from an answer of the API, which may come from the response cache in    *)
(* Redis.  Writers are the review handlers of Reviews; the content of an   *)
(* answer is the number of writes it reflects.                             *)
(*                                                                         *)
(* Cached answers are keyed by a generation that every write raises once   *)
(* it has committed.  The website rebuilds its page whenever its timer     *)
(* says so; that the API may ask it to, sooner, is left out.               *)
(***************************************************************************)
EXTENDS Reviews

CONSTANTS
  Reader,     \* anonymous requests for the page's data
  Faults,     \* "slow", "lost", "die"
  MaxFaults   \* bound: deaths and restarts

ASSUME CacheOK ==
  /\ MaxFaults \in Nat

VARIABLES
  generation, \* rc:gen; no key reads as generation 0
  entry,      \* the answer kept under each generation
  reading,    \* what each request is at
  page,       \* the answer the website's page was built from
  deaths,
  base,       \* ghost: writes committed when each generation began
  muddled     \* ghost: Redis restarted under a request that had read a key

db == <<review, rating, commits, torn>>
redis == <<generation, entry, base>>
vars == <<db, writer, redis, reading, page, deaths, muddled>>

Generation == 0 .. MaxWrites
Version == 0 .. MaxWrites

NoRead == [step |-> "idle", key |-> 0, value |-> 0, build |-> FALSE]
Reading == [step : {"idle", "get", "load", "fill"}, key : Generation, value : Version,
            build : BOOLEAN]

Init ==
  /\ ReviewsInit
  /\ generation = 0
  /\ entry = [g \in Generation |-> None]
  /\ reading = [r \in Reader |-> NoRead]
  /\ page = 0
  /\ deaths = 0
  /\ base = [g \in Generation |-> 0]
  /\ muddled = FALSE

-----------------------------------------------------------------------------
(* A write that succeeded: invalidate, which nobody awaits.                *)

Write(w) == Reviewing(w) /\ UNCHANGED <<redis, reading, page, deaths, muddled>>

Incr(w) ==
  /\ writer[w].step = "committed"
  /\ generation' = generation + 1
  /\ base' = [base EXCEPT ![generation + 1] = commits]
  /\ writer' = [writer EXCEPT ![w] = Idle]
  /\ UNCHANGED <<db, entry, reading, page, deaths, muddled>>

\* Redis is not ready, or the command fails: nothing is dropped.
IncrLost(w) ==
  /\ "lost" \in Faults
  /\ writer[w].step = "committed"
  /\ writer' = [writer EXCEPT ![w] = Idle]
  /\ UNCHANGED <<db, redis, reading, page, deaths, muddled>>

-----------------------------------------------------------------------------
(* An anonymous request.                                                   *)

At(r, step) == reading[r].step = step

\* keyFor: a generation that does not come in time counts as 0.
Start(r, build) ==
  /\ At(r, "idle")
  /\ \E k \in {generation} \union (IF "slow" \in Faults THEN {0} ELSE {}) :
       reading' = [reading EXCEPT ![r] = [step |-> "get", key |-> k, value |-> 0, build |-> build]]

Ask(r) ==
  /\ Start(r, FALSE)
  /\ UNCHANGED <<db, writer, redis, page, deaths, muddled>>

\* The website builds its page from the answer it is given.
Answer(r, version) ==
  page' = IF reading[r].build THEN version ELSE page

Found(k) == entry[k] # None

Hit(r) ==
  /\ At(r, "get")
  /\ Found(reading[r].key)
  /\ Answer(r, entry[reading[r].key])
  /\ reading' = [reading EXCEPT ![r] = NoRead]
  /\ UNCHANGED <<db, writer, redis, deaths, muddled>>

\* No entry, or Redis too slow with it.
Miss(r) ==
  /\ At(r, "get")
  /\ ~Found(reading[r].key) \/ "slow" \in Faults
  /\ reading' = [reading EXCEPT ![r].step = "load"]
  /\ UNCHANGED <<db, writer, redis, page, deaths, muddled>>

\* The handler reads the database and answers; the answer is kept later.
Load(r) ==
  /\ At(r, "load")
  /\ Answer(r, commits)
  /\ reading' = [reading EXCEPT ![r].step = "fill", ![r].value = commits, ![r].build = FALSE]
  /\ UNCHANGED <<db, writer, redis, deaths, muddled>>

KeyAnew(r) == generation                                           \* mutant

\* The key is the one that was looked up.
FillKey(r) == reading[r].key

Fill(r) ==
  /\ At(r, "fill")
  /\ entry' = [entry EXCEPT ![FillKey(r)] = reading[r].value]
  /\ reading' = [reading EXCEPT ![r] = NoRead]
  /\ UNCHANGED <<db, writer, generation, base, page, deaths, muddled>>

FillLost(r) ==
  /\ "slow" \in Faults
  /\ At(r, "fill")
  /\ reading' = [reading EXCEPT ![r] = NoRead]
  /\ UNCHANGED <<db, writer, redis, page, deaths, muddled>>

Forever(g) == FALSE                                                \* mutant

\* Every entry has a time to live.
Lapses(g) == entry[g] # None

Expire(g) ==
  /\ Lapses(g)
  /\ entry' = [entry EXCEPT ![g] = None]
  /\ UNCHANGED <<db, writer, generation, base, reading, page, deaths, muddled>>

-----------------------------------------------------------------------------
(* The website: its page is rebuilt for a visitor once it has aged.        *)

Build(r) ==
  /\ Start(r, TRUE)
  /\ UNCHANGED <<db, writer, redis, page, deaths, muddled>>

-----------------------------------------------------------------------------
\* The API dies with its transactions, its promises.
ApiDies ==
  /\ "die" \in Faults
  /\ deaths < MaxFaults
  /\ deaths' = deaths + 1
  /\ writer' = [w \in Writer |-> Idle]
  /\ reading' = [r \in Reader |-> NoRead]
  /\ UNCHANGED <<db, redis, page, muddled>>

\* Redis keeps nothing on disk: no generation, no entries.
RedisRestarts ==
  /\ "die" \in Faults
  /\ deaths < MaxFaults
  /\ deaths' = deaths + 1
  /\ generation' = 0
  /\ entry' = [g \in Generation |-> None]
  /\ base' = [base EXCEPT ![0] = base[generation]]
  /\ muddled' = (muddled \/ \E r \in Reader : ~At(r, "idle"))
  /\ UNCHANGED <<db, writer, reading, page>>

Serve(r) == Hit(r) \/ Miss(r) \/ Load(r) \/ Fill(r) \/ FillLost(r)
Invalidate(w) == Incr(w) \/ IncrLost(w)

Next ==
  \/ \E w \in Writer : Write(w) \/ Invalidate(w)
  \/ \E r \in Reader : Ask(r) \/ Build(r) \/ Serve(r)
  \/ \E g \in Generation : Expire(g)
  \/ ApiDies \/ RedisRestarts

Spec == Init /\ [][Next]_vars

\* Requests are answered, entries lapse, the page ages and somebody visits
\* it.  No write has to be made, none has to be announced.
FairSpec ==
  /\ Spec
  /\ \A r \in Reader : WF_vars(Serve(r))
  /\ \A g \in Generation : WF_vars(Expire(g))
  /\ SF_vars(\E r \in Reader : Build(r))

-----------------------------------------------------------------------------
\* Types; a generation begins with what was committed by then.
TypeOK ==
  /\ ReviewsTypeOK
  /\ generation \in Generation
  /\ entry \in [Generation -> Version \union {None}]
  /\ reading \in [Reader -> Reading]
  /\ page \in Version
  /\ deaths \in 0 .. MaxFaults
  /\ base \in [Generation -> Version]
  /\ muddled \in BOOLEAN

\* An answer kept under a generation holds every write that began it, or an
\* earlier one: a fill that raced with a write is kept where nobody looks any
\* more (response-cache.service.ts:64-103, public-cache.interceptor.ts:106-126).
\* Not when Redis restarted meanwhile, and counts its generations anew.
KeptIsFresh ==
  ~muddled => \A g \in Generation : entry[g] # None => entry[g] >= base[g]

\* The page shows every write in the end, even one whose announcement was
\* lost: entries lapse and pages age (public-cache.interceptor.ts:20-39).
PageCatchesUp == \A n \in Version : (commits = n) ~> (page >= n)
=============================================================================
