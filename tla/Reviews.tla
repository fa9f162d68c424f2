------------------------------- MODULE Reviews -------------------------------
(***************************************************************************)
(* The reviews of one listing and the rating kept on the listing's row.    *)
(* Every change of a review recomputes the rating in the same transaction, *)
(* at READ COMMITTED: the changed row, the count over the rows, and the    *)
(* write of the listing are three statements.                              *)
(***************************************************************************)
EXTENDS Integers, FiniteSets

CONSTANTS
  Stay,       \* completed bookings of the listing, each with its guest
  Stars,      \* ratings a guest may give
  Writer,     \* handlers that may be changing a review
  MaxWrites,  \* bound: transactions ever committed
  None

ASSUME ReviewsOK ==
  /\ Stars \subseteq Nat \ {0}
  /\ MaxWrites \in Nat
  /\ None \notin Stay \union Nat
  /\ IsFiniteSet(Writer)

VARIABLES
  review,     \* the review of each stay, as committed
  rating,     \* what the listing's average and count were computed from
  writer,     \* the transaction each handler has open, then that it committed
  commits,    \* transactions committed so far
  torn        \* ghost: the last transaction to commit was not alone

NoReview == [stars |-> 0, published |-> FALSE]
Review == [stars : Stars, published : BOOLEAN] \union {NoReview}

\* What a sum and a count over published reviews tell of each stay: its stars.
Rating == [Stay -> Stars \union {0}]
Published(s) == [x \in Stay |-> IF s[x].published THEN s[x].stars ELSE 0]
AllOf(s) == [x \in Stay |-> s[x].stars]                            \* mutant
Counted(s) == Published(s)

\* An open transaction: its row's new value, what it counted, if it was alone.
Transaction == [step : {"idle", "changed", "counted", "committed"},
                stay : Stay \union {None}, new : Review, counted : Rating,
                alone : BOOLEAN]
Unrated == [x \in Stay |-> 0]
Idle == [step |-> "idle", stay |-> None, new |-> NoReview, counted |-> Unrated,
         alone |-> TRUE]

ReviewsInit ==
  /\ review = [x \in Stay |-> NoReview]
  /\ rating = Unrated
  /\ writer = [w \in Writer |-> Idle]
  /\ commits = 0
  /\ torn = FALSE

Open == {w \in Writer : writer[w].step \in {"changed", "counted"}}

\* Statement one: insert, update or delete of a row nobody else has locked.
Change(w, x, new) ==
  /\ writer[w].step = "idle"
  /\ commits + Cardinality(Open) < MaxWrites
  /\ \A v \in Open : writer[v].stay # x
  /\ writer' = [v \in Writer |->
       IF v = w THEN [step |-> "changed", stay |-> x, new |-> new, counted |-> Unrated,
                      alone |-> Open = {}]
       ELSE [writer[v] EXCEPT !.alone = @ /\ v \notin Open]]
  /\ UNCHANGED <<review, rating, commits, torn>>

\* A completed stay is reviewed once: bookingId is unique.
CreateReview(w, x) ==
  /\ review[x] = NoReview
  /\ \E s \in Stars : Change(w, x, [stars |-> s, published |-> TRUE])

UpdateReview(w, x) ==
  /\ review[x] # NoReview
  /\ \E s \in Stars : Change(w, x, [review[x] EXCEPT !.stars = s])

Moderate(w, x) ==
  /\ review[x] # NoReview
  /\ \E p \in BOOLEAN : Change(w, x, [review[x] EXCEPT !.published = p])

RemoveReview(w, x) ==
  /\ review[x] # NoReview
  /\ Change(w, x, NoReview)

\* Statement two: the aggregate over what is committed and its own change.
Count(w) ==
  /\ writer[w].step = "changed"
  /\ writer' = [writer EXCEPT
       ![w].step = "counted",
       ![w].counted = Counted([review EXCEPT ![writer[w].stay] = writer[w].new])]
  /\ UNCHANGED <<review, rating, commits, torn>>

\* Statement three and the commit: writers of the listing's row take turns.
Commit(w) ==
  /\ writer[w].step = "counted"
  /\ review' = [review EXCEPT ![writer[w].stay] = writer[w].new]
  /\ rating' = writer[w].counted
  /\ commits' = commits + 1
  /\ torn' = ~writer[w].alone
  /\ writer' = [writer EXCEPT ![w] = [Idle EXCEPT !.step = "committed"]]

Abort(w) ==
  /\ w \in Open
  /\ writer' = [writer EXCEPT ![w] = Idle]
  /\ UNCHANGED <<review, rating, commits, torn>>

Reviewing(w) ==
  \/ \E x \in Stay : \/ CreateReview(w, x) \/ UpdateReview(w, x)
                     \/ Moderate(w, x) \/ RemoveReview(w, x)
  \/ Count(w) \/ Commit(w) \/ Abort(w)

ReviewsTypeOK ==
  /\ review \in [Stay -> Review]
  /\ rating \in Rating
  /\ writer \in [Writer -> Transaction]
  /\ commits \in Nat
  /\ torn \in BOOLEAN

\* The rating shown is that of the published reviews: as soon as one change
\* is made with no other under way, whatever was torn before
\* (reviews.service.ts:214-230).
RatingIsTrue == ~torn => rating = Published(review)
=============================================================================
