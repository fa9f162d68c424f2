----------------------------- MODULE RatingsSound -----------------------------
(***************************************************************************)
(* For any number of stays, writers and readers, with every fault: a       *)
(* listing's rating is that of its published reviews as soon as a change   *)
(* was made alone, and no answer is kept under a generation that has writes*)
(* the answer has not.                                                     *)
(***************************************************************************)
EXTENDS ResponseCache, FiniteSetTheorems, TLAPS

Committed == {w \in Writer : writer[w].step = "committed"}

\* The bound on writes bounds generations: each write raises one at most.
WritesCounted ==
  /\ commits + Cardinality(Open) <= MaxWrites
  /\ generation + Cardinality(Committed) <= commits

\* A transaction that is alone is the only open one, and what it counted is
\* what the rows will say.
AloneIsTrue ==
  /\ \A w \in Open : /\ writer[w].stay \in Stay
                     /\ writer[w].alone => \A v \in Open : v = w
  /\ \A w \in Writer :
       writer[w].step = "counted" /\ writer[w].alone =>
         writer[w].counted = Published([review EXCEPT ![writer[w].stay] = writer[w].new])
  /\ ~torn => rating = Published(review)

\* Nothing is looked up or kept under a generation yet to come.
KeysFollow ==
  /\ \A g \in Generation : g <= generation => base[g] <= commits
  /\ ~muddled =>
       /\ \A r \in Reader : /\ reading[r].step # "idle" => reading[r].key <= generation
                            /\ reading[r].step = "fill" => reading[r].value >= base[reading[r].key]
       /\ \A g \in Generation : entry[g] # None => g <= generation /\ entry[g] >= base[g]

Sound == TypeOK /\ WritesCounted /\ AloneIsTrue /\ KeysFollow

AllOK == ReviewsOK /\ CacheOK

-----------------------------------------------------------------------------
\* Sets of writers are counted.
LEMMA WritersCounted ==
  ASSUME ReviewsOK
  PROVE  \A S \in SUBSET Writer :
           /\ Cardinality(S) \in Nat
           /\ \A T \in SUBSET S : Cardinality(T) <= Cardinality(S)
           /\ \A w \in S : Cardinality(S \ {w}) = Cardinality(S) - 1
           /\ \A w \in Writer \ S : Cardinality(S \union {w}) = Cardinality(S) + 1
<1> SUFFICES ASSUME NEW S \in SUBSET Writer
             PROVE  /\ Cardinality(S) \in Nat
                    /\ \A T \in SUBSET S : Cardinality(T) <= Cardinality(S)
                    /\ \A w \in S : Cardinality(S \ {w}) = Cardinality(S) - 1
                    /\ \A w \in Writer \ S : Cardinality(S \union {w}) = Cardinality(S) + 1
  OBVIOUS
<1>1. IsFiniteSet(S)
  BY FS_Subset DEF ReviewsOK
<1>2. Cardinality(S) \in Nat
  BY <1>1, FS_CardinalityType
<1>3. \A T \in SUBSET S : Cardinality(T) <= Cardinality(S)
  BY <1>1, FS_Subset
<1>4. \A w \in S : Cardinality(S \ {w}) = Cardinality(S) - 1
  BY <1>1, FS_RemoveElement
<1>5. \A w \in Writer \ S : Cardinality(S \union {w}) = Cardinality(S) + 1
  BY <1>1, FS_AddElement
<1>. QED BY <1>2, <1>3, <1>4, <1>5

\* What is told of published reviews is a rating; no transaction is one.
LEMMA RatingsTyped ==
  ASSUME ReviewsOK
  PROVE  /\ \A s \in [Stay -> Review] : Published(s) \in Rating
         /\ Unrated \in Rating /\ NoReview \in Review
         /\ Idle \in Transaction
         /\ [Idle EXCEPT !.step = "committed"] \in Transaction
<1>1. \A x \in Review : x.published => x.stars \in Stars
  BY DEF Review, NoReview
<1>2. \A s \in [Stay -> Review] : Published(s) \in Rating
  BY <1>1 DEF Published, Rating
<1>3. Unrated \in Rating /\ NoReview \in Review
  BY DEF Unrated, Rating, Review
<1>4. Idle \in Transaction
  BY <1>3 DEF Idle, Transaction
<1>5. [Idle EXCEPT !.step = "committed"] \in Transaction
  BY <1>4 DEF Transaction
<1>. QED BY <1>2, <1>3, <1>4, <1>5

\* No reading is a reading, and no generation comes before 0.
LEMMA NoReadTyped ==
  ASSUME AllOK
  PROVE  NoRead \in Reading /\ 0 \in Generation /\ 0 \in Version /\ NoRead.step = "idle"
BY DEF AllOK, ReviewsOK, NoRead, Reading, Generation, Version

\* Initially nothing was written.
LEMMA InitSound == AllOK /\ Init => Sound
<1> SUFFICES ASSUME AllOK, Init PROVE Sound
  OBVIOUS
<1>. USE DEF AllOK, Init, ReviewsInit
<1>1. Idle.step = "idle" /\ NoReview.published = FALSE
  BY DEF Idle, NoReview
<1>2. Open = {} /\ Committed = {}
  BY <1>1 DEF Open, Committed
<1>3. TypeOK
  <2>1. /\ review \in [Stay -> Review] /\ rating \in Rating /\ writer \in [Writer -> Transaction]
        /\ commits \in Nat
    BY RatingsTyped
  <2>2. /\ generation \in Generation /\ entry \in [Generation -> Version \union {None}]
        /\ reading \in [Reader -> Reading] /\ page \in Version /\ base \in [Generation -> Version]
    BY NoReadTyped
  <2>3. deaths \in 0 .. MaxFaults
    BY DEF CacheOK
  <2>4. torn \in BOOLEAN /\ muddled \in BOOLEAN
    OBVIOUS
  <2>. QED BY <2>1, <2>2, <2>3, <2>4 DEF TypeOK, ReviewsTypeOK
<1>4. WritesCounted
  BY <1>2, FS_EmptySet DEF WritesCounted, ReviewsOK
<1>5. AloneIsTrue
  BY <1>1, <1>2 DEF AloneIsTrue, Published, Unrated, Idle
<1>6. KeysFollow
  BY NoReadTyped DEF KeysFollow
<1>. QED BY <1>3, <1>4, <1>5, <1>6 DEF Sound

-----------------------------------------------------------------------------
(* The review handlers.                                                    *)

\* A handler that changes a row is alone only if nobody else was open, and
\* nobody else is alone any more.
LEMMA ChangeSound ==
  ASSUME AllOK, Sound, NEW w \in Writer, NEW x \in Stay, NEW new \in Review, Change(w, x, new),
         UNCHANGED <<redis, reading, page, deaths, muddled>>
  PROVE  Sound'
<1> DEFINE mine == [step |-> "changed", stay |-> x, new |-> new, counted |-> Unrated,
                    alone |-> Open = {}]
           rest(v) == [writer[v] EXCEPT !.alone = @ /\ v \notin Open]
<1>1. /\ writer \in [Writer -> Transaction] /\ commits \in Nat /\ MaxWrites \in Nat
      /\ Open \subseteq Writer
  BY DEF Sound, TypeOK, ReviewsTypeOK, AllOK, ReviewsOK, Open
<1>2. /\ writer[w].step = "idle" /\ commits + Cardinality(Open) < MaxWrites
      /\ writer' = [v \in Writer |-> IF v = w THEN mine ELSE rest(v)]
      /\ UNCHANGED <<review, rating, commits, torn, redis, reading, page, deaths, muddled>>
  BY DEF Change
<1>3. mine \in Transaction /\ mine.step = "changed" /\ mine.stay = x /\ (mine.alone => Open = {})
  BY RatingsTyped DEF Transaction, AllOK
<1>4. ASSUME NEW v \in Writer
      PROVE  /\ rest(v) \in Transaction
             /\ rest(v).step = writer[v].step /\ rest(v).stay = writer[v].stay
             /\ rest(v).new = writer[v].new /\ rest(v).counted = writer[v].counted
             /\ rest(v).alone => writer[v].alone /\ v \notin Open
  <2>1. writer[v] \in Transaction /\ writer[v].alone \in BOOLEAN
    BY <1>1 DEF Transaction
  <2>2. (writer[v].alone /\ v \notin Open) \in BOOLEAN
    OBVIOUS
  <2>. QED BY <2>1, <2>2 DEF Transaction
<1> HIDE DEF mine, rest
<1>5. \A v \in Writer : writer'[v] = IF v = w THEN mine ELSE rest(v)
  BY <1>2
<1>6. writer' \in [Writer -> Transaction]
  BY <1>2, <1>3, <1>4
<1>7. Open' = Open \union {w} /\ w \notin Open /\ Committed' = Committed
  BY <1>2, <1>3, <1>4, <1>5 DEF Open, Committed
<1>8. TypeOK'
  BY <1>2, <1>6 DEF Sound, TypeOK, ReviewsTypeOK, redis
<1>9. WritesCounted'
  <2>1. Cardinality(Open \union {w}) = Cardinality(Open) + 1 /\ Cardinality(Open) \in Nat
    BY <1>1, <1>7, WritersCounted DEF AllOK
  <2>. QED BY <1>1, <1>2, <1>7, <2>1 DEF Sound, WritesCounted, redis
<1>10. AloneIsTrue'
  <2>1. \A u \in Open' : writer'[u].stay \in Stay /\ (writer'[u].alone => \A v \in Open' : v = u)
    <3> SUFFICES ASSUME NEW u \in Open'
                 PROVE  writer'[u].stay \in Stay /\ (writer'[u].alone => \A v \in Open' : v = u)
      OBVIOUS
    <3>1. CASE u = w
      BY <1>3, <1>5, <1>7, <3>1
    <3>2. CASE u # w
      BY <1>1, <1>4, <1>5, <1>7, <3>2 DEF Sound, AloneIsTrue
    <3>. QED BY <3>1, <3>2
  <2>2. \A u \in Writer : writer'[u].step = "counted" => u \in Open /\ u # w
    BY <1>3, <1>4, <1>5 DEF Open
  <2>3. \A u \in Writer : writer'[u].step = "counted" => ~writer'[u].alone
    BY <1>4, <1>5, <2>2
  <2>. QED BY <1>2, <2>1, <2>3 DEF Sound, AloneIsTrue
<1>11. KeysFollow'
  BY <1>2 DEF Sound, KeysFollow, redis
<1>. QED BY <1>8, <1>9, <1>10, <1>11 DEF Sound

\* Counting: the rows are as committed, and the change one's own.
LEMMA CountSound ==
  ASSUME AllOK, Sound, NEW w \in Writer, Count(w),
         UNCHANGED <<redis, reading, page, deaths, muddled>>
  PROVE  Sound'
<1> DEFINE told == Published([review EXCEPT ![writer[w].stay] = writer[w].new])
           mine == [writer[w] EXCEPT !.step = "counted", !.counted = told]
<1>1. /\ writer \in [Writer -> Transaction] /\ review \in [Stay -> Review]
      /\ writer[w].step = "changed" /\ w \in Open /\ writer[w].stay \in Stay
      /\ UNCHANGED <<review, rating, commits, torn, redis, reading, page, deaths, muddled>>
  BY DEF Sound, TypeOK, ReviewsTypeOK, Count, Open, AloneIsTrue
<1>2. writer[w] \in Transaction /\ writer[w].new \in Review
  BY <1>1 DEF Transaction
<1>3. told \in Rating
  BY <1>1, <1>2, RatingsTyped DEF AllOK
<1>4. writer' = [writer EXCEPT ![w] = mine]
  BY DEF Count, Counted
<1>5. /\ mine \in Transaction /\ mine.step = "counted" /\ mine.stay = writer[w].stay
      /\ mine.new = writer[w].new /\ mine.counted = told /\ mine.alone = writer[w].alone
  <2> HIDE DEF told
  <2>. QED BY <1>2, <1>3 DEF Transaction
<1> HIDE DEF mine
<1>6. \A v \in Writer : writer'[v] = IF v = w THEN mine ELSE writer[v]
  BY <1>1, <1>4
<1>7. writer' \in [Writer -> Transaction]
  BY <1>1, <1>4, <1>5
<1>8. Open' = Open /\ Committed' = Committed
  BY <1>1, <1>5, <1>6 DEF Open, Committed
<1>9. TypeOK'
  BY <1>1, <1>7 DEF Sound, TypeOK, ReviewsTypeOK, redis
<1>10. AloneIsTrue'
  <2>1. \A u \in Open' : writer'[u].stay \in Stay /\ (writer'[u].alone => \A v \in Open' : v = u)
    BY <1>1, <1>5, <1>6, <1>8 DEF Sound, AloneIsTrue, Open
  <2>2. ASSUME NEW u \in Writer, writer'[u].step = "counted", writer'[u].alone
        PROVE  writer'[u].counted = Published([review' EXCEPT ![writer'[u].stay] = writer'[u].new])
    <3>1. CASE u = w
      BY <1>1, <1>5, <1>6, <3>1
    <3>2. CASE u # w
      BY <1>1, <1>6, <2>2, <3>2 DEF Sound, AloneIsTrue
    <3>. QED BY <3>1, <3>2
  <2>. QED BY <1>1, <2>1, <2>2 DEF Sound, AloneIsTrue, Published
<1>. QED BY <1>1, <1>8, <1>9, <1>10 DEF Sound, WritesCounted, KeysFollow, redis

\* A handler that goes back to nothing, or to having committed, is not open.
LEMMA WriterRests ==
  ASSUME AllOK, Sound, NEW w \in Writer, NEW t \in {Idle, [Idle EXCEPT !.step = "committed"]},
         writer' = [writer EXCEPT ![w] = t]
  PROVE  /\ writer' \in [Writer -> Transaction] /\ Open' = Open \ {w}
         /\ Committed' = IF t.step = "committed" THEN Committed \union {w} ELSE Committed \ {w}
         /\ \A v \in Writer : v # w => writer'[v] = writer[v]
         /\ t.step \in {"idle", "committed"} /\ writer'[w].step = t.step
<1>1. writer \in [Writer -> Transaction] /\ t \in Transaction
  BY RatingsTyped DEF Sound, TypeOK, ReviewsTypeOK, AllOK
<1>2. t.step \in {"idle", "committed"}
  BY DEF Idle
<1>3. writer' \in [Writer -> Transaction]
  BY <1>1
<1>4. \A v \in Writer : writer'[v] = IF v = w THEN t ELSE writer[v]
  BY <1>1
<1>5. Open' = Open \ {w}
  BY <1>2, <1>4 DEF Open
<1>6. Committed' = IF t.step = "committed" THEN Committed \union {w} ELSE Committed \ {w}
  BY <1>2, <1>4 DEF Committed
<1>. QED BY <1>2, <1>3, <1>4, <1>5, <1>6

\* Committing: the rating is what was counted, true if nobody else was open.
LEMMA CommitSound ==
  ASSUME AllOK, Sound, NEW w \in Writer, Commit(w),
         UNCHANGED <<redis, reading, page, deaths, muddled>>
  PROVE  Sound'
<1> DEFINE done == [Idle EXCEPT !.step = "committed"]
           x == writer[w].stay
           new == writer[w].new
<1>1. /\ writer \in [Writer -> Transaction] /\ review \in [Stay -> Review] /\ commits \in Nat
      /\ writer[w].step = "counted" /\ w \in Open /\ w \notin Committed /\ x \in Stay
      /\ writer[w] \in Transaction
  BY DEF Sound, TypeOK, ReviewsTypeOK, Commit, Open, Committed, AloneIsTrue
<1>2. /\ writer' = [writer EXCEPT ![w] = done] /\ review' = [review EXCEPT ![x] = new]
      /\ rating' = writer[w].counted /\ commits' = commits + 1 /\ torn' = ~writer[w].alone
      /\ UNCHANGED <<redis, reading, page, deaths, muddled>>
  BY DEF Commit
<1>3. done.step = "committed"
  BY DEF Idle
<1>4. /\ writer' \in [Writer -> Transaction] /\ Open' = Open \ {w}
      /\ Committed' = Committed \union {w} /\ writer'[w].step = "committed"
      /\ \A v \in Writer : v # w => writer'[v] = writer[v]
  BY <1>2, <1>3, WriterRests
<1>5. new \in Review /\ writer[w].counted \in Rating
  BY <1>1 DEF Transaction
<1> HIDE DEF done, x, new
<1>6. TypeOK'
  <2>1. review' \in [Stay -> Review] /\ commits' \in Nat /\ rating' \in Rating
    BY <1>1, <1>2, <1>5
  <2>2. torn' \in BOOLEAN
    BY <1>2
  <2>. QED BY <1>2, <1>4, <2>1, <2>2 DEF Sound, TypeOK, ReviewsTypeOK, redis
<1>7. WritesCounted'
  <2>1. /\ Open \in SUBSET Writer /\ Committed \in SUBSET Writer
        /\ Cardinality(Open \ {w}) = Cardinality(Open) - 1
        /\ Cardinality(Committed \union {w}) = Cardinality(Committed) + 1
        /\ Cardinality(Open) \in Nat /\ Cardinality(Committed) \in Nat
    BY <1>1, WritersCounted DEF AllOK, Open, Committed
  <2>2. generation \in Nat /\ MaxWrites \in Nat
    BY DEF Sound, TypeOK, Generation, AllOK, ReviewsOK
  <2>. QED BY <1>1, <1>2, <1>4, <2>1, <2>2 DEF Sound, WritesCounted, redis
<1>8. AloneIsTrue'
  <2>1. \A u \in Open' : writer'[u].stay \in Stay /\ (writer'[u].alone => \A v \in Open' : v = u)
    BY <1>4 DEF Sound, AloneIsTrue, Open
  <2>2. \A u \in Writer : writer'[u].step = "counted" => u \in Open /\ u # w /\ ~writer'[u].alone
    BY <1>1, <1>4 DEF Sound, AloneIsTrue, Open
  <2>3. ~torn' => rating' = Published(review')
    BY <1>1, <1>2 DEF Sound, AloneIsTrue, x, new
  <2>. QED BY <2>1, <2>2, <2>3 DEF AloneIsTrue
<1>9. KeysFollow'
  <2>1. \A g \in Generation : g <= generation => base[g] <= commits + 1
    BY <1>1 DEF Sound, TypeOK, KeysFollow, Version
  <2>. QED BY <1>2, <2>1 DEF Sound, KeysFollow, redis
<1>. QED BY <1>6, <1>7, <1>8, <1>9 DEF Sound

\* Giving up changes no row.
LEMMA AbortSound ==
  ASSUME AllOK, Sound, NEW w \in Writer, Abort(w),
         UNCHANGED <<redis, reading, page, deaths, muddled>>
  PROVE  Sound'
<1>1. /\ w \in Open /\ w \notin Committed /\ writer' = [writer EXCEPT ![w] = Idle]
      /\ UNCHANGED <<review, rating, commits, torn, redis, reading, page, deaths, muddled>>
  BY DEF Abort, Open, Committed
<1>2. Idle.step = "idle"
  BY DEF Idle
<1>3. /\ writer' \in [Writer -> Transaction] /\ Open' = Open \ {w} /\ Committed' = Committed
      /\ writer'[w].step = "idle" /\ \A v \in Writer : v # w => writer'[v] = writer[v]
  <2>1. /\ writer' \in [Writer -> Transaction] /\ Open' = Open \ {w}
        /\ Committed' = IF Idle.step = "committed" THEN Committed \union {w} ELSE Committed \ {w}
        /\ \A v \in Writer : v # w => writer'[v] = writer[v]
        /\ writer'[w].step = Idle.step
    BY <1>1, WriterRests
  <2>2. Committed \ {w} = Committed
    BY <1>1
  <2>. QED BY <1>2, <2>1, <2>2
<1>4. TypeOK'
  BY <1>1, <1>3 DEF Sound, TypeOK, ReviewsTypeOK, redis
<1>5. WritesCounted'
  <2>1. Cardinality(Open \ {w}) = Cardinality(Open) - 1 /\ Cardinality(Open) \in Nat
    BY <1>1, WritersCounted DEF AllOK, Open
  <2>2. commits \in Nat /\ MaxWrites \in Nat
    BY DEF Sound, TypeOK, ReviewsTypeOK, AllOK, ReviewsOK
  <2>. QED BY <1>1, <1>3, <2>1, <2>2 DEF Sound, WritesCounted, redis
<1>6. AloneIsTrue'
  BY <1>1, <1>3 DEF Sound, AloneIsTrue, Open, Published
<1>. QED BY <1>1, <1>4, <1>5, <1>6 DEF Sound, KeysFollow, redis

\* A guest's change of his review, or the administrator's, is a review.
LEMMA ReviewingSound ==
  ASSUME AllOK, Sound, NEW w \in Writer, Write(w)
  PROVE  Sound'
<1>1. Reviewing(w) /\ UNCHANGED <<redis, reading, page, deaths, muddled>>
  BY DEF Write
<1>2. ASSUME NEW x \in Stay, CreateReview(w, x) PROVE Sound'
  <2>1. \A s \in Stars : [stars |-> s, published |-> TRUE] \in Review
    BY DEF Review
  <2>. QED BY <1>1, <1>2, <2>1, ChangeSound DEF CreateReview
<1>3. ASSUME NEW x \in Stay, UpdateReview(w, x) \/ Moderate(w, x) PROVE Sound'
  <2>1. review[x] \in [stars : Stars, published : BOOLEAN]
    BY <1>3 DEF UpdateReview, Moderate, Sound, TypeOK, ReviewsTypeOK, Review
  <2>2. \A s \in Stars : [review[x] EXCEPT !.stars = s] \in Review
    BY <2>1 DEF Review
  <2>3. \A p \in BOOLEAN : [review[x] EXCEPT !.published = p] \in Review
    BY <2>1 DEF Review
  <2>. QED BY <1>1, <1>3, <2>2, <2>3, ChangeSound DEF UpdateReview, Moderate
<1>4. ASSUME NEW x \in Stay, RemoveReview(w, x) PROVE Sound'
  BY <1>1, <1>4, RatingsTyped, ChangeSound DEF RemoveReview, AllOK
<1>. QED BY <1>1, <1>2, <1>3, <1>4, CountSound, CommitSound, AbortSound DEF Reviewing

-----------------------------------------------------------------------------
(* Generations, readers and restarts.                                      *)

\* A write that is announced opens a generation nobody has looked under; one
\* whose announcement is lost opens none.
LEMMA InvalidateSound ==
  ASSUME AllOK, Sound, NEW w \in Writer, Invalidate(w)
  PROVE  Sound'
<1>1. /\ writer[w].step = "committed" /\ writer' = [writer EXCEPT ![w] = Idle]
      /\ UNCHANGED <<review, rating, commits, torn, entry, reading, page, deaths, muddled>>
      /\ \/ generation' = generation + 1 /\ base' = [base EXCEPT ![generation + 1] = commits]
         \/ UNCHANGED <<generation, base>>
  BY DEF Invalidate, Incr, IncrLost, db, redis
<1>2. Idle.step = "idle" /\ w \in Committed /\ w \notin Open
  BY <1>1 DEF Idle, Committed, Open
<1>3. /\ writer' \in [Writer -> Transaction] /\ Open' = Open \ {w}
      /\ Committed' = IF Idle.step = "committed" THEN Committed \union {w} ELSE Committed \ {w}
      /\ \A v \in Writer : v # w => writer'[v] = writer[v]
      /\ writer'[w].step = Idle.step
  BY <1>1, WriterRests
<1>4. Open' = Open /\ Committed' = Committed \ {w}
  BY <1>2, <1>3
<1>5. /\ generation \in Nat /\ commits \in Nat /\ MaxWrites \in Nat /\ commits \in Version
      /\ base \in [Generation -> Version] /\ generation + Cardinality(Committed) <= commits
      /\ Cardinality(Committed) \in Nat /\ Cardinality(Open) \in Nat
      /\ Cardinality(Committed \ {w}) = Cardinality(Committed) - 1
      /\ commits + Cardinality(Open) <= MaxWrites
  <2>1. /\ generation \in Nat /\ commits \in Nat /\ MaxWrites \in Nat /\ base \in [Generation -> Version]
    BY DEF Sound, TypeOK, ReviewsTypeOK, AllOK, ReviewsOK, Generation
  <2>2. /\ generation + Cardinality(Committed) <= commits /\ commits + Cardinality(Open) <= MaxWrites
    BY DEF Sound, WritesCounted
  <2>3. /\ Cardinality(Committed) \in Nat /\ Cardinality(Open) \in Nat
        /\ Cardinality(Committed \ {w}) = Cardinality(Committed) - 1
    BY <1>2, WritersCounted DEF AllOK, Committed, Open
  <2>4. commits \in Version
    BY <2>1, <2>2, <2>3 DEF Version
  <2>. QED BY <2>1, <2>2, <2>3, <2>4
<1>6. generation + 1 \in Generation
  <2>1. generation + 1 <= MaxWrites
    <3>1. Cardinality(Committed) >= 1
      BY <1>5, WritersCounted DEF AllOK, Committed
    <3>. QED BY <1>5, <3>1
  <2>. QED BY <1>5, <2>1 DEF Generation
<1>7. TypeOK'
  <2>1. generation' \in Generation /\ base' \in [Generation -> Version]
    BY <1>1, <1>5, <1>6 DEF Sound, TypeOK
  <2>. QED BY <1>1, <1>3, <2>1 DEF Sound, TypeOK, ReviewsTypeOK
<1>8. WritesCounted'
  BY <1>1, <1>4, <1>5 DEF WritesCounted
<1>9. AloneIsTrue'
  <2>1. \A u \in Open' : writer'[u] = writer[u]
    BY <1>2, <1>3, <1>4 DEF Open
  <2>2. \A u \in Writer : writer'[u].step = "counted" => writer'[u] = writer[u]
    BY <1>2, <1>3
  <2>3. \A u \in Open' : writer'[u].stay \in Stay /\ (writer'[u].alone => \A v \in Open' : v = u)
    BY <1>4, <2>1 DEF Sound, AloneIsTrue
  <2>4. ASSUME NEW u \in Writer, writer'[u].step = "counted", writer'[u].alone
        PROVE  writer'[u].counted = Published([review' EXCEPT ![writer'[u].stay] = writer'[u].new])
    BY <1>1, <2>2, <2>4 DEF Sound, AloneIsTrue
  <2>5. ~torn' => rating' = Published(review')
    BY <1>1 DEF Sound, AloneIsTrue
  <2>. QED BY <2>3, <2>4, <2>5 DEF AloneIsTrue
<1>10. KeysFollow'
  <2>1. CASE UNCHANGED <<generation, base>>
    BY <1>1, <2>1 DEF Sound, KeysFollow
  <2>2. CASE generation' = generation + 1 /\ base' = [base EXCEPT ![generation + 1] = commits]
    <3>1. \A g \in Generation : base'[g] = IF g = generation + 1 THEN commits ELSE base[g]
      BY <1>5, <2>2
    <3>2. \A g \in Generation : g \in Nat
      BY DEF Generation
    <3>3. \A g \in Generation : g <= generation + 1 => base'[g] <= commits
      BY <1>5, <3>1, <3>2 DEF Sound, KeysFollow, Version
    <3>4. ~muddled => \A g \in Generation : entry[g] # None =>
                        g <= generation + 1 /\ entry[g] >= base'[g]
      BY <1>5, <3>1, <3>2 DEF Sound, KeysFollow
    <3>5. ASSUME ~muddled, NEW r \in Reader
          PROVE  /\ reading[r].step # "idle" => reading[r].key <= generation + 1
                 /\ reading[r].step = "fill" => reading[r].value >= base'[reading[r].key]
      <4>1. reading[r].key \in Generation /\ reading[r].key \in Nat
        BY <3>2 DEF Sound, TypeOK, Reading
      <4>2. reading[r].step # "idle" => reading[r].key <= generation
        BY <3>5 DEF Sound, KeysFollow
      <4>3. reading[r].step = "fill" => reading[r].value >= base[reading[r].key]
        BY <3>5 DEF Sound, KeysFollow
      <4>. QED BY <1>5, <3>1, <4>1, <4>2, <4>3
    <3>. QED BY <1>1, <2>2, <3>3, <3>4, <3>5 DEF KeysFollow
  <2>. QED BY <1>1, <2>1, <2>2
<1>. QED BY <1>7, <1>8, <1>9, <1>10 DEF Sound

\* What readers do leaves the writers alone.
LEMMA ReadersApart ==
  ASSUME Sound, UNCHANGED <<db, writer, generation>>
  PROVE  WritesCounted' /\ AloneIsTrue' /\ ReviewsTypeOK' /\ generation' \in Generation
BY DEF db, Sound, TypeOK, WritesCounted, AloneIsTrue, ReviewsTypeOK, Open, Committed, Published

\* A request reads the generation there is, or takes it for 0.
LEMMA StartSound ==
  ASSUME AllOK, Sound, NEW r \in Reader, Ask(r) \/ Build(r)
  PROVE  Sound'
<1>1. PICK k \in {generation, 0}, build \in BOOLEAN :
        /\ reading' = [reading EXCEPT ![r] = [step |-> "get", key |-> k, value |-> 0, build |-> build]]
        /\ UNCHANGED <<db, writer, redis, page, deaths, muddled>>
  BY DEF Ask, Build, Start
<1> DEFINE new == [step |-> "get", key |-> k, value |-> 0, build |-> build]
<1>2. new \in Reading /\ k <= generation
  BY NoReadTyped DEF Reading, Sound, TypeOK, Generation
<1>3. reading \in [Reader -> Reading]
  BY DEF Sound, TypeOK
<1>4. \A q \in Reader : reading'[q] = IF q = r THEN new ELSE reading[q]
  BY <1>1, <1>3
<1>5. new.step = "get" /\ new.key = k
  OBVIOUS
<1> HIDE DEF new
<1>6. TypeOK'
  <2>1. reading' \in [Reader -> Reading]
    BY <1>1, <1>2, <1>3 DEF new
  <2>. QED BY <1>1, <2>1, ReadersApart DEF redis, Sound, TypeOK
<1>7. KeysFollow'
  BY <1>1, <1>2, <1>4, <1>5 DEF redis, db, Sound, KeysFollow
<1>. QED BY <1>1, <1>6, <1>7, ReadersApart DEF Sound, redis

\* Serving: an answer loaded holds all writes there are, and is kept under
\* the generation that was looked up.
LEMMA ServeSound ==
  ASSUME AllOK, Sound, NEW r \in Reader, Serve(r)
  PROVE  Sound'
<1>1. /\ reading \in [Reader -> Reading] /\ entry \in [Generation -> Version \union {None}]
      /\ page \in Version /\ commits \in Version /\ None \notin Version
      /\ \A g \in Generation : base[g] \in Version /\ g \in Nat
      /\ \A n \in Version : n \in Nat
  <2>1. Cardinality(Open) \in Nat
    BY WritersCounted DEF AllOK, Open
  <2>2. commits \in Version
    BY <2>1 DEF Sound, TypeOK, ReviewsTypeOK, WritesCounted, Version, AllOK, ReviewsOK
  <2>. QED BY <2>2 DEF Sound, TypeOK, Version, Generation, AllOK, ReviewsOK
<1>2. reading[r] \in Reading /\ UNCHANGED <<db, writer, generation, base, deaths, muddled>>
  BY <1>1 DEF Serve, Hit, Miss, Load, Fill, FillLost, redis
<1>3. CASE Hit(r) \/ FillLost(r)
  <2>1. reading' = [reading EXCEPT ![r] = NoRead] /\ entry' = entry
    BY <1>3 DEF Hit, FillLost, redis
  <2>2. page' \in Version
    BY <1>1, <1>2, <1>3 DEF Hit, Found, FillLost, Answer, Reading
  <2>3. reading' \in [Reader -> Reading] /\ \A q \in Reader : reading'[q] = IF q = r THEN NoRead ELSE reading[q]
    BY <1>1, <2>1, NoReadTyped
  <2>4. TypeOK'
    BY <1>2, <2>1, <2>2, <2>3, ReadersApart DEF Sound, TypeOK
  <2>5. KeysFollow'
    BY <1>2, <2>1, <2>3, NoReadTyped DEF db, Sound, KeysFollow
  <2>. QED BY <1>2, <2>4, <2>5, ReadersApart DEF Sound
<1>4. CASE Miss(r)
  <2> DEFINE new == [reading[r] EXCEPT !.step = "load"]
  <2>1. reading' = [reading EXCEPT ![r] = new] /\ entry' = entry /\ page' = page /\ reading[r].step = "get"
    BY <1>4 DEF Miss, At, redis
  <2>2. new \in Reading /\ new.step = "load" /\ new.key = reading[r].key
    BY <1>2 DEF Reading
  <2> HIDE DEF new
  <2>3. reading' \in [Reader -> Reading] /\ \A q \in Reader : reading'[q] = IF q = r THEN new ELSE reading[q]
    BY <1>1, <2>1, <2>2
  <2>4. TypeOK'
    BY <1>2, <2>1, <2>3, ReadersApart DEF Sound, TypeOK
  <2>5. KeysFollow'
    BY <1>2, <2>1, <2>2, <2>3 DEF db, Sound, KeysFollow
  <2>. QED BY <1>2, <2>4, <2>5, ReadersApart DEF Sound
<1>5. CASE Load(r)
  <2> DEFINE new == [reading[r] EXCEPT !.step = "fill", !.value = commits, !.build = FALSE]
  <2>1. reading' = [reading EXCEPT ![r] = new] /\ entry' = entry /\ reading[r].step = "load"
    BY <1>5 DEF Load, At, redis
  <2>2. new \in Reading /\ new.step = "fill" /\ new.key = reading[r].key /\ new.value = commits
    BY <1>1, <1>2 DEF Reading
  <2>3. page' \in Version
    BY <1>1, <1>5 DEF Load, Answer
  <2> HIDE DEF new
  <2>4. reading' \in [Reader -> Reading] /\ \A q \in Reader : reading'[q] = IF q = r THEN new ELSE reading[q]
    BY <1>1, <2>1, <2>2
  <2>5. TypeOK'
    BY <1>2, <2>1, <2>3, <2>4, ReadersApart DEF Sound, TypeOK
  <2>6. ~muddled => reading[r].key <= generation /\ commits >= base[reading[r].key]
    <3>1. reading[r].key \in Generation
      BY <1>2 DEF Reading
    <3>. QED BY <1>1, <2>1, <3>1 DEF Sound, KeysFollow
  <2>7. KeysFollow'
    BY <1>2, <2>1, <2>2, <2>4, <2>6 DEF db, Sound, KeysFollow
  <2>. QED BY <1>2, <2>5, <2>7, ReadersApart DEF Sound
<1>6. CASE Fill(r)
  <2> DEFINE k == reading[r].key
  <2>1. /\ reading' = [reading EXCEPT ![r] = NoRead] /\ entry' = [entry EXCEPT ![k] = reading[r].value]
        /\ page' = page /\ reading[r].step = "fill"
    BY <1>6 DEF Fill, FillKey, At
  <2>2. k \in Generation /\ reading[r].value \in Version
    BY <1>2 DEF Reading
  <2> HIDE DEF k
  <2>3. reading' \in [Reader -> Reading] /\ \A q \in Reader : reading'[q] = IF q = r THEN NoRead ELSE reading[q]
    BY <1>1, <2>1, NoReadTyped
  <2>4. /\ entry' \in [Generation -> Version \union {None}]
        /\ \A g \in Generation : entry'[g] = IF g = k THEN reading[r].value ELSE entry[g]
    BY <1>1, <2>1, <2>2
  <2>5. TypeOK'
    BY <1>2, <2>1, <2>3, <2>4, ReadersApart DEF Sound, TypeOK
  <2>6. ~muddled => k <= generation /\ reading[r].value >= base[k]
    BY <2>1 DEF Sound, KeysFollow, k
  <2>7. KeysFollow'
    BY <1>2, <2>3, <2>4, <2>6, NoReadTyped DEF db, Sound, KeysFollow
  <2>. QED BY <1>2, <2>5, <2>7, ReadersApart DEF Sound
<1>. QED BY <1>3, <1>4, <1>5, <1>6 DEF Serve

\* An entry that lapses is no entry.
LEMMA ExpireSound ==
  ASSUME AllOK, Sound, NEW g \in Generation, Expire(g)
  PROVE  Sound'
<1>1. /\ entry' = [entry EXCEPT ![g] = None]
      /\ UNCHANGED <<db, writer, generation, base, reading, page, deaths, muddled>>
  BY DEF Expire
<1>2. /\ entry' \in [Generation -> Version \union {None}]
      /\ \A h \in Generation : entry'[h] # None => entry'[h] = entry[h] /\ entry[h] # None
  BY <1>1 DEF Sound, TypeOK
<1>3. TypeOK'
  BY <1>1, <1>2, ReadersApart DEF Sound, TypeOK
<1>4. KeysFollow'
  BY <1>1, <1>2 DEF db, Sound, KeysFollow
<1>. QED BY <1>1, <1>3, <1>4, ReadersApart DEF Sound

\* The process dies with every transaction and every request.
LEMMA DieSound ==
  ASSUME AllOK, Sound, ApiDies
  PROVE  Sound'
<1>1. /\ writer' = [w \in Writer |-> Idle] /\ reading' = [r \in Reader |-> NoRead]
      /\ deaths' = deaths + 1 /\ deaths < MaxFaults
      /\ UNCHANGED <<review, rating, commits, torn, generation, entry, base, page, muddled>>
  BY DEF ApiDies, db, redis
<1>2. Idle.step = "idle"
  BY DEF Idle
<1>3. Open' = {} /\ Committed' = {}
  BY <1>1, <1>2 DEF Open, Committed
<1>4. TypeOK'
  <2>1. writer' \in [Writer -> Transaction] /\ reading' \in [Reader -> Reading]
    BY <1>1, RatingsTyped, NoReadTyped DEF AllOK
  <2>2. deaths' \in 0 .. MaxFaults
    BY <1>1 DEF Sound, TypeOK, AllOK, CacheOK
  <2>. QED BY <1>1, <2>1, <2>2 DEF Sound, TypeOK, ReviewsTypeOK
<1>5. WritesCounted'
  <2>1. /\ commits \in Nat /\ MaxWrites \in Nat /\ generation \in Nat
        /\ Cardinality(Open) \in Nat /\ Cardinality(Committed) \in Nat
    BY WritersCounted DEF Sound, TypeOK, ReviewsTypeOK, Generation, AllOK, ReviewsOK, Open, Committed
  <2>. QED BY <1>1, <1>3, <2>1, FS_EmptySet DEF Sound, WritesCounted
<1>6. AloneIsTrue'
  <2>1. \A u \in Writer : writer'[u].step = "idle"
    BY <1>1, <1>2
  <2>. QED BY <1>1, <1>3, <2>1 DEF Sound, AloneIsTrue, Published
<1>7. KeysFollow'
  BY <1>1, NoReadTyped DEF Sound, KeysFollow
<1>. QED BY <1>4, <1>5, <1>6, <1>7 DEF Sound

\* Redis comes back empty; what was under way is excused.
LEMMA RestartSound ==
  ASSUME AllOK, Sound, RedisRestarts
  PROVE  Sound'
<1>1. /\ generation' = 0 /\ entry' = [g \in Generation |-> None]
      /\ base' = [base EXCEPT ![0] = base[generation]]
      /\ deaths' = deaths + 1 /\ deaths < MaxFaults
      /\ muddled' = (muddled \/ \E r \in Reader : ~At(r, "idle"))
      /\ UNCHANGED <<review, rating, commits, torn, writer, reading, page>>
  BY DEF RedisRestarts, db
<1>2. /\ generation \in Generation /\ base \in [Generation -> Version] /\ 0 \in Generation
      /\ \A g \in Generation : g \in Nat
  BY NoReadTyped DEF Sound, TypeOK, Generation
<1>3. TypeOK'
  <2>1. base' \in [Generation -> Version] /\ entry' \in [Generation -> Version \union {None}]
    BY <1>1, <1>2
  <2>2. deaths' \in 0 .. MaxFaults
    BY <1>1 DEF Sound, TypeOK, AllOK, CacheOK
  <2>3. muddled' \in BOOLEAN
    BY <1>1 DEF Sound, TypeOK
  <2>. QED BY <1>1, <1>2, <2>1, <2>2, <2>3 DEF Sound, TypeOK, ReviewsTypeOK
<1>4. WritesCounted'
  <2>1. Open' = Open /\ Committed' = Committed
    BY <1>1 DEF Open, Committed
  <2>2. generation \in Nat /\ commits \in Nat /\ Cardinality(Committed) \in Nat
    BY <1>2, WritersCounted DEF Sound, TypeOK, ReviewsTypeOK, AllOK, Committed
  <2>. QED BY <1>1, <2>1, <2>2 DEF Sound, WritesCounted
<1>5. AloneIsTrue'
  BY <1>1 DEF Sound, AloneIsTrue, Open, Published
<1>6. KeysFollow'
  <2>1. \A g \in Generation : g <= 0 => base'[g] <= commits
    <3>1. \A g \in Generation : g <= 0 => g = 0
      BY <1>2
    <3>2. base'[0] = base[generation]
      BY <1>1, <1>2
    <3>3. base[generation] <= commits
      BY <1>2 DEF Sound, KeysFollow
    <3>. QED BY <3>1, <3>2, <3>3
  <2>2. ~muddled' => \A r \in Reader : reading[r].step = "idle"
    BY <1>1 DEF At
  <2>3. \A g \in Generation : entry'[g] = None
    BY <1>1
  <2>. QED BY <1>1, <2>1, <2>2, <2>3 DEF KeysFollow
<1>. QED BY <1>3, <1>4, <1>5, <1>6 DEF Sound

-----------------------------------------------------------------------------
\* The invariant holds of every execution.
THEOREM RatingsInvariant == Spec => []Sound
<1>1. Init => Sound
  BY ReviewsOK, CacheOK, InitSound DEF AllOK
<1>2. Sound /\ [Next]_vars => Sound'
  <2> SUFFICES ASSUME Sound, [Next]_vars PROVE Sound'
    OBVIOUS
  <2>1. AllOK
    BY ReviewsOK, CacheOK DEF AllOK
  <2>2. CASE Next
    BY <2>1, <2>2, ReviewingSound, InvalidateSound, StartSound, ServeSound, ExpireSound, DieSound,
       RestartSound DEF Next
  <2>3. CASE UNCHANGED vars
    BY <2>3, ReadersApart DEF vars, redis, db, Sound, TypeOK, KeysFollow
  <2>. QED BY <2>2, <2>3
<1>. QED BY <1>1, <1>2, PTL DEF Spec

\* The types hold for any number of stays, writers, readers and writes.
THEOREM RatingsTypes == Spec => []TypeOK
<1>1. Sound => TypeOK
  BY DEF Sound
<1>. QED BY <1>1, RatingsInvariant, PTL

\* Once the last change was made alone, a rating is that of the published
\* reviews (reviews.service.ts:214-230).
THEOREM RatingsTrue == Spec => []RatingIsTrue
<1>1. Sound => RatingIsTrue
  BY DEF Sound, AloneIsTrue, RatingIsTrue
<1>. QED BY <1>1, RatingsInvariant, PTL

\* No answer is kept under a generation that began after what it holds
\* (response-cache.service.ts:64-103).
THEOREM AnswersFresh == Spec => []KeptIsFresh
<1>1. Sound => KeptIsFresh
  BY DEF Sound, KeysFollow, KeptIsFresh
<1>. QED BY <1>1, RatingsInvariant, PTL
=============================================================================
