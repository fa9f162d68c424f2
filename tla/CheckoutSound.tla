---------------------------- MODULE CheckoutSound ----------------------------
(***************************************************************************)
(* For any guests, requests, price lists, fees, coupon terms and edits:    *)
(* every booking is charged to the paisa under terms that were in force,   *)
(* no guest keeps more bookings with the coupon than its most generous     *)
(* limit, and the hosts are never owed more than is held.                  *)
(***************************************************************************)
EXTENDS Checkout, SequenceTheorems, FiniteSetTheorems, WellFoundedInduction, TLAPS

-----------------------------------------------------------------------------
(***************************************************************************)
(* Sums over finite sets, as far as the prices need them.  SumFunctionOnSet*)
(* takes an element of its own choice each time; there is such a function, *)
(* and summand by summand is enough to compare two sums.  Each proof takes *)
(* a smallest set for which the claim would fail.                          *)
(***************************************************************************)

First(s) == CHOOSE x \in s : TRUE

\* it sums f over every subset of S, taking First each time.
Adds(f, S, it) ==
  it = [s \in SUBSET S |-> IF s = {} THEN 0 ELSE f[First(s)] + it[s \ {First(s)}]]

\* What the fold of the model is.
Sum(f, S) == SumFunctionOnSet(f, S)

\* The fold is the value such a function has for the whole set.
LEMMA SumIsFold ==
  ASSUME NEW f, NEW S
  PROVE  Sum(f, S) = (CHOOSE it : Adds(f, S, it))[S]
BY DEF Sum, SumFunctionOnSet, FoldFunctionOnSet, MapThenFoldSet, Adds, First

\* The element taken first is one of the set.
LEMMA FirstIn == \A s : s # {} => First(s) \in s
BY DEF First

\* Of some subsets of a finite set, one contains no other of them.
LEMMA Smallest ==
  ASSUME NEW S, IsFiniteSet(S), NEW B, B \subseteq SUBSET S, B # {}
  PROVE  \E T \in B : \A U \in SUBSET T : U # T => U \notin B
<1>1. IsWellFoundedOn(StrictSubsetOrdering(S), SUBSET S)
  BY FS_StrictSubsetOrderingWellFounded, FS_FiniteSubsetsOfFinite
<1>2. PICK T \in B : \A U \in B : <<U, T>> \notin StrictSubsetOrdering(S)
  BY <1>1, WFMin
<1>. QED BY <1>2 DEF StrictSubsetOrdering

\* Two such functions agree on the sets they share.
LEMMA AddsAgree ==
  ASSUME NEW f, NEW U, NEW V, NEW g, NEW h, Adds(f, U, g), Adds(f, V, h),
         NEW S, IsFiniteSet(S), S \subseteq U, S \subseteq V
  PROVE  g[S] = h[S]
<1> DEFINE B == {s \in SUBSET S : g[s] # h[s]}
<1>1. SUFFICES ASSUME B # {} PROVE FALSE
  OBVIOUS
<1>2. PICK T \in B : \A W \in SUBSET T : W # T => W \notin B
  <2> HIDE DEF B
  <2>1. B \subseteq SUBSET S
    BY DEF B
  <2>. QED BY <1>1, <2>1, Smallest
<1>3. T \in SUBSET U /\ T \in SUBSET V /\ g[T] # h[T]
  BY <1>2
<1>4. /\ g[T] = IF T = {} THEN 0 ELSE f[First(T)] + g[T \ {First(T)}]
      /\ h[T] = IF T = {} THEN 0 ELSE f[First(T)] + h[T \ {First(T)}]
  BY <1>3 DEF Adds
<1>5. T # {} => T \ {First(T)} # T /\ T \ {First(T)} \in SUBSET S
  BY <1>2, FirstIn
<1>. QED BY <1>2, <1>3, <1>4, <1>5

\* There is one.
LEMMA AddsExist ==
  ASSUME NEW f, NEW S, IsFiniteSet(S)
  PROVE  \E h : Adds(f, S, h)
<1> DEFINE B == {T \in SUBSET S : ~\E h : Adds(f, T, h)}
           H(u) == CHOOSE h : Adds(f, u, h)
<1>1. SUFFICES ASSUME B # {} PROVE FALSE
  OBVIOUS
<1>2. PICK T \in B : \A W \in SUBSET T : W # T => W \notin B
  <2> HIDE DEF B
  <2>1. B \subseteq SUBSET S
    BY DEF B
  <2>. QED BY <1>1, <2>1, Smallest
<1>3. \A W \in SUBSET T : W # T => Adds(f, W, H(W))
  BY <1>2
<1> DEFINE h == [s \in SUBSET T |-> IF s = {} THEN 0
                                    ELSE f[First(s)] + H(s \ {First(s)})[s \ {First(s)}]]
<1>4. ASSUME NEW s \in SUBSET T, s # {}
      PROVE  h[s \ {First(s)}] = H(s \ {First(s)})[s \ {First(s)}]
  <2> DEFINE u == s \ {First(s)}
  <2>1. First(s) \in s /\ u \in SUBSET T /\ u # T
    BY <1>4, FirstIn
  <2>2. H(u) = [t \in SUBSET u |-> IF t = {} THEN 0 ELSE f[First(t)] + H(u)[t \ {First(t)}]]
    BY <1>3, <2>1 DEF Adds
  <2>3. H(u)[u] = IF u = {} THEN 0 ELSE f[First(u)] + H(u)[u \ {First(u)}]
    <3> HIDE DEF H, u
    <3>. QED BY <2>2
  <2>4. u # {} => H(u)[u \ {First(u)}] = H(u \ {First(u)})[u \ {First(u)}]
    <3>1. SUFFICES ASSUME u # {} PROVE H(u)[u \ {First(u)}] = H(u \ {First(u)})[u \ {First(u)}]
      OBVIOUS
    <3>2. PICK w : w = u \ {First(u)}
      OBVIOUS
    <3>3. First(u) \in u
      BY <3>1, FirstIn
    <3>4. w \in SUBSET T /\ w # T /\ w \subseteq u
      BY <2>1, <3>2, <3>3
    <3>5. Adds(f, u, H(u)) /\ Adds(f, w, H(w))
      BY <1>3, <2>1, <3>4
    <3>6. IsFiniteSet(w)
      BY <3>4, FS_Subset
    <3> HIDE DEF H, u
    <3>7. H(u)[w] = H(w)[w]
      BY <3>4, <3>5, <3>6, AddsAgree
    <3>. QED BY <3>2, <3>7
  <2>5. h[u] = IF u = {} THEN 0 ELSE f[First(u)] + H(u \ {First(u)})[u \ {First(u)}]
    <3> HIDE DEF H, u
    <3>. QED BY <2>1
  <2> HIDE DEF H, h, u
  <2>6. h[u] = H(u)[u]
    BY <2>3, <2>4, <2>5
  <2>. QED BY <2>6 DEF u
<1>5. Adds(f, T, h)
  <2> HIDE DEF H
  <2>1. \A s \in SUBSET T : (IF s = {} THEN 0 ELSE f[First(s)] + H(s \ {First(s)})[s \ {First(s)}])
                          = (IF s = {} THEN 0 ELSE f[First(s)] + h[s \ {First(s)}])
    <3> HIDE DEF h
    <3>. QED BY <1>4
  <2>2. h = [s \in SUBSET T |-> IF s = {} THEN 0 ELSE f[First(s)] + h[s \ {First(s)}]]
    BY <2>1
  <2>. QED BY <2>2 DEF Adds
<1>. QED BY <1>2, <1>5

\* A sum, taken apart at the element taken first.
LEMMA SumFirst ==
  ASSUME NEW f, NEW S, IsFiniteSet(S)
  PROVE  Sum(f, S) = IF S = {} THEN 0 ELSE f[First(S)] + Sum(f, S \ {First(S)})
<1> DEFINE H(u) == CHOOSE h : Adds(f, u, h)
<1>1. PICK T : T = S \ {First(S)}
  OBVIOUS
<1>2. IsFiniteSet(T) /\ T \subseteq S
  BY <1>1, FS_Subset
<1>3. Adds(f, S, H(S)) /\ Adds(f, T, H(T))
  BY <1>2, AddsExist
<1>4. Sum(f, S) = H(S)[S] /\ Sum(f, T) = H(T)[T]
  BY SumIsFold
<1> HIDE DEF H
<1>5. H(S)[T] = H(T)[T]
  BY <1>2, <1>3, AddsAgree
<1>6. H(S)[S] = IF S = {} THEN 0 ELSE f[First(S)] + H(S)[T]
  BY <1>1, <1>3 DEF Adds
<1>. QED BY <1>1, <1>4, <1>5, <1>6

\* Nothing comes to nothing.
LEMMA SumEmpty == \A f : Sum(f, {}) = 0
<1>. SUFFICES ASSUME NEW f PROVE Sum(f, {}) = 0
  OBVIOUS
<1>. QED BY SumFirst, FS_EmptySet

\* Summands that are all alike.
LEMMA SumOfSame ==
  ASSUME NEW f, NEW S, IsFiniteSet(S), NEW c \in Nat, \A x \in S : f[x] = c
  PROVE  Sum(f, S) = c * Cardinality(S)
<1> DEFINE B == {T \in SUBSET S : Sum(f, T) # c * Cardinality(T)}
<1>1. SUFFICES ASSUME B # {} PROVE FALSE
  OBVIOUS
<1>2. PICK T \in B : \A W \in SUBSET T : W # T => W \notin B
  <2> HIDE DEF B
  <2>1. B \subseteq SUBSET S
    BY DEF B
  <2>. QED BY <1>1, <2>1, Smallest
<1>3. T # {}
  <2>1. Sum(f, {}) = 0 /\ Cardinality({}) = 0
    BY SumEmpty, FS_EmptySet
  <2>2. {} \notin B
    BY <2>1
  <2>. QED BY <1>2, <2>2
<1>4. PICK x \in T : x = First(T)
  BY <1>3, FirstIn
<1>5. PICK w : w = T \ {x}
  OBVIOUS
<1>6. /\ w \notin B /\ w \in SUBSET S /\ IsFiniteSet(T) /\ IsFiniteSet(w)
      /\ Cardinality(w) = Cardinality(T) - 1 /\ Cardinality(T) \in Nat
  <2>1. w \in SUBSET S /\ w # T /\ w \in SUBSET T /\ IsFiniteSet(T)
    BY <1>2, <1>4, <1>5, FS_Subset
  <2>2. w \notin B
    BY <1>2, <2>1
  <2>3. IsFiniteSet(w) /\ Cardinality(w) = Cardinality(T) - 1 /\ Cardinality(T) \in Nat
    BY <1>4, <1>5, <2>1, FS_RemoveElement, FS_CardinalityType
  <2>. QED BY <2>1, <2>2, <2>3
<1>7. Sum(f, T) = c + Sum(f, w) /\ Sum(f, w) = c * Cardinality(w)
  <2>1. Sum(f, T) = f[x] + Sum(f, T \ {x})
    BY <1>4, <1>6, SumFirst
  <2>. QED BY <1>2, <1>4, <1>5, <1>6, <2>1
<1>8. c + c * (Cardinality(T) - 1) = c * Cardinality(T)
  BY <1>6
<1>. QED BY <1>2, <1>6, <1>7, <1>8

\* Two sums over the same set, summand by summand.
LEMMA SumOrdered ==
  ASSUME NEW f, NEW g, NEW S, IsFiniteSet(S),
         \A x \in S : f[x] \in Nat /\ g[x] \in Nat /\ f[x] <= g[x]
  PROVE  Sum(f, S) <= Sum(g, S)
<1> DEFINE B == {T \in SUBSET S : ~(Sum(f, T) \in Nat /\ Sum(g, T) \in Nat /\ Sum(f, T) <= Sum(g, T))}
<1>1. SUFFICES ASSUME B # {} PROVE FALSE
  OBVIOUS
<1>2. PICK T \in B : \A W \in SUBSET T : W # T => W \notin B
  <2> HIDE DEF B
  <2>1. B \subseteq SUBSET S
    BY DEF B
  <2>. QED BY <1>1, <2>1, Smallest
<1>3. T # {}
  <2>1. Sum(f, {}) = 0 /\ Sum(g, {}) = 0
    BY SumEmpty
  <2>2. {} \notin B
    BY <2>1
  <2>. QED BY <1>2, <2>2
<1>4. PICK x \in T : x = First(T)
  BY <1>3, FirstIn
<1>5. PICK w : w = T \ {x}
  OBVIOUS
<1>6. Sum(f, w) \in Nat /\ Sum(g, w) \in Nat /\ Sum(f, w) <= Sum(g, w)
  <2>1. w \in SUBSET S /\ w # T /\ w \in SUBSET T
    BY <1>2, <1>4, <1>5
  <2>2. w \notin B
    BY <1>2, <2>1
  <2>. QED BY <2>1, <2>2
<1>7. Sum(f, T) = f[x] + Sum(f, w) /\ Sum(g, T) = g[x] + Sum(g, w)
  <2>1. IsFiniteSet(T)
    BY <1>2, FS_Subset
  <2>. QED BY <1>3, <1>4, <1>5, <2>1, SumFirst
<1>. QED BY <1>2, <1>4, <1>6, <1>7

-----------------------------------------------------------------------------
(***************************************************************************)
(* The arithmetic of a booking: what calculatePriceBreakdown computes is   *)
(* fair, for every list, night, party, fee and coupon.                     *)
(***************************************************************************)
Amounts == [base : Nat, weekend : Nat, extra : Nat, fee : Nat, discount : Nat, total : Nat]

\* What an administrator fixes of a coupon.
TermsOf(c) == [kind |-> c.kind, value |-> c.value, cap |-> c.cap, min |-> c.min,
               max |-> c.max, perUser |-> c.perUser, active |-> c.active]

\* The terms judged by, when there is a coupon.
Promised(c) == IF c = Absent THEN Absent ELSE TermsOf(c)

\* A product of sizes is a size.
LEMMA Times == \A x, y \in Nat : x * y \in Nat
OBVIOUS

\* A quotient is rounded to the nearest, half up.
LEMMA RoundsHalfUp ==
  ASSUME NEW n \in Nat, NEW q, q = HalfUp(n, 10000)
  PROVE  q \in Nat /\ Rounded(q, n)
<1>1. q = (2 * n + 10000) \div 20000
  BY DEF HalfUp
<1>2. q \in Nat /\ 20000 * q <= 2 * n + 10000 /\ 2 * n + 10000 < 20000 * q + 20000
  BY <1>1
<1>. QED BY <1>2 DEF Rounded, Reaches

\* The nights of a stay: those of the week and those of the weekend.
LEMMA NightsCounted ==
  ASSUME NEW stay, IsFiniteSet(stay)
  PROVE  /\ Nights(stay).week = Cardinality(stay \ Weekend) /\ Nights(stay).week \in Nat
         /\ Nights(stay).weekend = Cardinality(stay \intersect Weekend) /\ Nights(stay).weekend \in Nat
         /\ Cardinality(stay) \in Nat
<1>1. /\ IsFiniteSet(stay \intersect Weekend) /\ IsFiniteSet(stay \ Weekend)
      /\ Cardinality(stay \ Weekend) = Cardinality(stay) - Cardinality(stay \intersect Weekend)
  BY FS_Difference, FS_Intersection
<1>2. /\ Cardinality(stay) \in Nat /\ Cardinality(stay \ Weekend) \in Nat
      /\ Cardinality(stay \intersect Weekend) \in Nat
  BY <1>1, FS_CardinalityType
<1>. QED BY <1>1, <1>2 DEF Nights

\* The price of the nights, one by one, is so many of the week and so many of
\* the weekend.
LEMMA SumOfNights ==
  ASSUME NEW f, NEW stay, IsFiniteSet(stay), NEW b \in Nat, NEW w \in Nat,
         \A e \in stay : f[e] = IF e \in Weekend THEN w ELSE b
  PROVE  Sum(f, stay) = b * Nights(stay).week + w * Nights(stay).weekend
<1> DEFINE Bad == {T \in SUBSET stay : Sum(f, T) # b * Nights(T).week + w * Nights(T).weekend}
<1>1. SUFFICES ASSUME Bad # {} PROVE FALSE
  OBVIOUS
<1>2. PICK T \in Bad : \A U \in SUBSET T : U # T => U \notin Bad
  <2> HIDE DEF Bad
  <2>1. Bad \subseteq SUBSET stay
    BY DEF Bad
  <2>. QED BY <1>1, <2>1, Smallest
<1>3. T # {}
  <2>1. Sum(f, {}) = 0 /\ Nights({}).week = 0 /\ Nights({}).weekend = 0
    <3>1. {} \ Weekend = {} /\ {} \intersect Weekend = {}
      OBVIOUS
    <3>. QED BY <3>1, SumEmpty, FS_EmptySet, NightsCounted
  <2>2. {} \notin Bad
    BY <2>1
  <2>. QED BY <1>2, <2>2
<1>4. PICK x \in T : x = First(T)
  BY <1>3, FirstIn
<1>5. PICK u : u = T \ {x}
  OBVIOUS
<1>6. u \in SUBSET stay /\ u \in SUBSET T /\ u # T /\ IsFiniteSet(T) /\ IsFiniteSet(u)
  BY <1>2, <1>4, <1>5, FS_Subset
<1>7. Sum(f, u) = b * Nights(u).week + w * Nights(u).weekend
  BY <1>2, <1>6
<1>8. Sum(f, T) = f[x] + Sum(f, u)
  BY <1>3, <1>4, <1>5, <1>6, SumFirst
<1>9. PICK m, n \in Nat : m = Nights(u).week /\ n = Nights(u).weekend
  BY <1>6, NightsCounted
<1>10. PICK D, E, U, V : /\ D = T \ Weekend /\ E = T \intersect Weekend
                         /\ U = u \ Weekend /\ V = u \intersect Weekend
  OBVIOUS
<1>11. /\ IsFiniteSet(D) /\ IsFiniteSet(E) /\ m = Cardinality(U) /\ n = Cardinality(V)
       /\ Nights(T).week = Cardinality(D) /\ Nights(T).weekend = Cardinality(E)
       /\ Cardinality(D) \in Nat /\ Cardinality(E) \in Nat
  BY <1>6, <1>9, <1>10, NightsCounted, FS_Difference, FS_Intersection, FS_CardinalityType
<1>12. CASE x \in Weekend
  <2>1. U = D /\ V = E \ {x} /\ x \in E
    BY <1>4, <1>5, <1>10, <1>12
  <2>2. Cardinality(V) = Cardinality(E) - 1
    BY <1>11, <2>1, FS_RemoveElement
  <2>3. Nights(T).week = m /\ Nights(T).weekend = n + 1
    BY <1>11, <2>1, <2>2
  <2>4. f[x] = w /\ w + (b * m + w * n) = b * m + w * (n + 1)
    BY <1>2, <1>12
  <2>. QED BY <1>2, <1>7, <1>8, <1>9, <2>3, <2>4
<1>13. CASE x \notin Weekend
  <2>1. V = E /\ U = D \ {x} /\ x \in D
    BY <1>4, <1>5, <1>10, <1>13
  <2>2. Cardinality(U) = Cardinality(D) - 1
    BY <1>11, <2>1, FS_RemoveElement
  <2>3. Nights(T).week = m + 1 /\ Nights(T).weekend = n
    BY <1>11, <2>1, <2>2
  <2>4. f[x] = b /\ b + (b * m + w * n) = b * (m + 1) + w * n
    BY <1>2, <1>13
  <2>. QED BY <1>2, <1>7, <1>8, <1>9, <2>3, <2>4
<1>. QED BY <1>12, <1>13

\* The nights one by one, and the heads beyond the included two, night by night.
LEMMA SumsOfStay ==
  ASSUME NEW l \in PriceList, NEW stay, IsFiniteSet(stay), NEW guests \in Nat, Absent \notin Nat
  PROVE  /\ SumFunction([e \in stay |-> NightPrice(l, e)])
              = l.base * Nights(stay).week + Or(l.weekend, l.base) * Nights(stay).weekend
         /\ SumFunction([h \in (IncludedGuests + 1 .. guests) \X stay |-> Or(l.extra, 0)])
              = Or(l.extra, 0) * (IF guests > IncludedGuests THEN guests - IncludedGuests ELSE 0)
                  * Cardinality(stay)
<1>1. l.base \in Nat /\ Or(l.weekend, l.base) \in Nat /\ Or(l.extra, 0) \in Nat
  BY DEF PriceList, OrAbsent, Or
<1>2. SumFunction([e \in stay |-> NightPrice(l, e)])
        = l.base * Nights(stay).week + Or(l.weekend, l.base) * Nights(stay).weekend
  <2>1. PICK f : f = [e \in stay |-> NightPrice(l, e)]
    OBVIOUS
  <2>2. PICK b, w \in Nat : b = l.base /\ w = Or(l.weekend, l.base)
    BY <1>1
  <2>3. \A e \in stay : f[e] = IF e \in Weekend THEN w ELSE b
    BY <2>1, <2>2 DEF NightPrice
  <2>4. Sum(f, stay) = b * Nights(stay).week + w * Nights(stay).weekend
    BY <2>3, SumOfNights
  <2>5. SumFunction(f) = Sum(f, stay)
    BY <2>1 DEF SumFunction, Sum
  <2>. QED BY <2>1, <2>2, <2>4, <2>5
<1>3. PICK n \in Nat : n = IF guests > IncludedGuests THEN guests - IncludedGuests ELSE 0
  BY DEF IncludedGuests
<1>4. PICK heads : heads = (IncludedGuests + 1 .. guests) \X stay
  OBVIOUS
<1>5. PICK k \in Nat : k = Cardinality(stay)
  BY NightsCounted
<1>6. IsFiniteSet(heads) /\ Cardinality(heads) = n * k
  <2>1. IsFiniteSet(3 .. guests) /\ Cardinality(3 .. guests) = n
    BY <1>3, FS_Interval DEF IncludedGuests
  <2>2. heads = (3 .. guests) \X stay
    BY <1>4 DEF IncludedGuests
  <2>3. PICK m : m = 3 .. guests
    OBVIOUS
  <2>4. IsFiniteSet(m \X stay) /\ Cardinality(m \X stay) = n * k
    BY <1>5, <2>1, <2>3, FS_Product
  <2>. QED BY <2>2, <2>3, <2>4
<1>7. SumFunction([h \in heads |-> Or(l.extra, 0)]) = Or(l.extra, 0) * n * Cardinality(stay)
  <2>1. PICK c \in Nat : c = Or(l.extra, 0)
    BY <1>1
  <2>2. PICK f : f = [h \in heads |-> c]
    OBVIOUS
  <2>3. \A h \in heads : f[h] = c
    BY <2>2
  <2>4. Sum(f, heads) = c * Cardinality(heads)
    BY <1>6, <2>3, SumOfSame
  <2>5. c * (n * k) = c * n * k
    OBVIOUS
  <2>6. SumFunction(f) = Sum(f, heads)
    BY <2>2 DEF SumFunction, Sum
  <2>. QED BY <1>5, <1>6, <2>1, <2>2, <2>4, <2>5, <2>6
<1>. QED BY <1>2, <1>3, <1>4, <1>7

\* The three lines come to the nights and the heads.
LEMMA LinesFair ==
  ASSUME NEW l \in PriceList, NEW stay, IsFiniteSet(stay), NEW guests \in Nat, NEW s, Absent \notin Nat
  PROVE  /\ Lines(l, stay, guests, s) \in [base : Nat, weekend : Nat, extra : Nat]
         /\ Subtotal(Lines(l, stay, guests, s)) = FairSubtotal(l, stay, guests, s)
<1>1. PICK more \in Nat : more = IF guests > IncludedGuests THEN guests - IncludedGuests ELSE 0
  BY DEF IncludedGuests
<1>2. PICK head \in Nat : head = Or(l.extra, 0)
  BY DEF PriceList, OrAbsent, Or
<1>3. PICK k \in Nat : k = Cardinality(stay)
  BY NightsCounted
<1>4. PICK heads \in Nat : heads = head * more * k
  BY Times
<1>5. SumFunction([h \in (IncludedGuests + 1 .. guests) \X stay |-> Or(l.extra, 0)]) = heads
  BY <1>1, <1>2, <1>3, <1>4, SumsOfStay
<1>6. PICK lines : lines = Lines(l, stay, guests, s)
  OBVIOUS
<1>7. lines.extra = heads
  BY <1>1, <1>2, <1>3, <1>4, <1>6 DEF Lines
<1>8. PICK flat : flat = FlatPrice(l, s)
  OBVIOUS
<1>9. CASE flat # Absent
  <2>1. flat = l.day /\ s = "DAY" /\ l.day \in Nat /\ l.day # 0 /\ l.day # Absent
    BY <1>8, <1>9 DEF FlatPrice, PriceList, OrAbsent
  <2>2. lines.base = l.day /\ lines.weekend = 0
    BY <1>6, <1>8, <1>9, <2>1 DEF Lines
  <2>3. FairSubtotal(l, stay, guests, s) = l.day + heads
    BY <1>5, <2>1 DEF FairSubtotal
  <2>4. Subtotal(lines) = l.day + heads
    BY <1>7, <2>1, <2>2 DEF Subtotal
  <2>5. lines \in [base : Nat, weekend : Nat, extra : Nat]
    BY <1>6, <1>7, <2>1, <2>2 DEF Lines
  <2>. QED BY <1>6, <2>3, <2>4, <2>5
<1>10. CASE flat = Absent
  <2>1. ~(s = "DAY" /\ l.day \notin {Absent, 0})
    BY <1>8, <1>10 DEF FlatPrice
  <2>2. PICK b, w \in Nat : b = l.base /\ w = Or(l.weekend, l.base)
    BY DEF PriceList, OrAbsent, Or
  <2>3. PICK m, n \in Nat : m = Nights(stay).week /\ n = Nights(stay).weekend
    BY NightsCounted
  <2>4. PICK p, q \in Nat : p = b * m /\ q = w * n
    BY Times
  <2>5. lines.base = p /\ lines.weekend = q
    BY <1>6, <1>8, <1>10, <2>2, <2>3, <2>4 DEF Lines
  <2>6. SumFunction([e \in stay |-> NightPrice(l, e)]) = p + q
    BY <2>2, <2>3, <2>4, SumsOfStay
  <2>7. FairSubtotal(l, stay, guests, s) = p + q + heads
    BY <1>5, <2>1, <2>6 DEF FairSubtotal
  <2>8. Subtotal(lines) = p + q + heads
    BY <1>7, <2>5 DEF Subtotal
  <2>9. lines \in [base : Nat, weekend : Nat, extra : Nat]
    BY <1>6, <1>7, <2>5 DEF Lines
  <2>. QED BY <1>6, <2>7, <2>8, <2>9
<1>. QED BY <1>9, <1>10

\* A discount is what the coupon's words promise, and never more than there is.
LEMMA DiscountFair ==
  ASSUME NEW sub \in Nat, NEW c \in Coupon, Absent \notin Nat
  PROVE  /\ Discount(sub, c) \in Nat /\ Discount(sub, c) <= sub
         /\ FairDiscount(sub, TermsOf(c), Discount(sub, c))
<1>1. c.value \in Nat /\ c.kind \in {"PERCENTAGE", "FIXED"} /\ (c.cap # Absent => c.cap \in Nat)
  BY DEF Coupon, OrAbsent
<1>2. PICK share : share = HalfUp(sub * c.value, 10000)
  OBVIOUS
<1>3. PICK p \in Nat : p = sub * c.value
  BY <1>1, Times
<1>4. /\ share \in Nat /\ Rounded(share, p)
      /\ \A q \in Nat : q <= share => Reaches(q, p)
  <2>1. share \in Nat /\ Rounded(share, p)
    BY <1>2, <1>3, RoundsHalfUp
  <2>. QED BY <2>1 DEF Rounded, Reaches
<1>5. PICK capped : capped = IF c.cap # Absent /\ c.cap < share THEN c.cap ELSE share
  OBVIOUS
<1>6. capped \in Nat /\ capped <= share /\ (c.cap # Absent => capped <= c.cap) /\ capped \in {share, c.cap}
  BY <1>1, <1>4, <1>5
<1>7. PICK taken : taken = IF c.kind = "FIXED" THEN c.value ELSE capped
  OBVIOUS
<1>8. taken \in Nat
  BY <1>1, <1>6, <1>7
<1>9. PICK off : off = IF taken > sub THEN sub ELSE taken
  OBVIOUS
<1>10. off \in Nat /\ off <= sub /\ off <= taken /\ off = Discount(sub, c)
  <2>1. off = Discount(sub, c)
    BY <1>2, <1>5, <1>7, <1>9 DEF Discount
  <2>. QED BY <1>8, <1>9, <2>1
<1>11. PICK t : t = TermsOf(c)
  OBVIOUS
<1>12. t.kind = c.kind /\ t.value = c.value /\ t.cap = c.cap
  BY <1>11 DEF TermsOf
<1>13. CASE c.kind = "FIXED"
  <2>1. off = c.value \/ (off = sub /\ c.value > sub)
    BY <1>7, <1>9, <1>13
  <2>2. FairDiscount(sub, t, off)
    BY <1>10, <1>12, <1>13, <2>1 DEF FairDiscount
  <2>. QED BY <1>10, <1>11, <2>2
<1>14. CASE c.kind = "PERCENTAGE"
  <2>1. taken = capped
    BY <1>7, <1>14
  <2>2. off <= share /\ (c.cap # Absent => off <= c.cap)
    BY <1>1, <1>4, <1>6, <1>8, <1>10, <2>1
  <2>3. off \in {sub, c.cap} \/ off = share
    BY <1>6, <1>9, <2>1
  <2>4. Reaches(off, p) /\ (Rounded(off, p) \/ off \in {sub, c.cap})
    BY <1>4, <1>10, <2>2, <2>3
  <2>5. /\ Reaches(off, sub * t.value) /\ (t.cap # Absent => off <= t.cap)
        /\ Rounded(off, sub * t.value) \/ off \in {sub, t.cap}
    BY <1>3, <1>12, <2>2, <2>4
  <2>6. FairDiscount(sub, t, off)
    BY <1>10, <1>12, <1>14, <2>5, Zenon DEF FairDiscount
  <2>. QED BY <1>10, <1>11, <2>6
<1>. QED BY <1>1, <1>13, <1>14

\* For any list, nights, party, slot, fee and coupon, what a booking is stored
\* with is charged by the night and by the head, fee and percentage rounded to
\* half a paisa, the discount within the subtotal and the coupon's cap, and short
\* of the coupon's share only by those two (pricing.util.ts:45-137).
THEOREM BreakdownFair ==
  ASSUME NEW l \in Lists, NEW stay, IsFiniteSet(stay), NEW guests \in Nat, NEW s, NEW bps \in Nat,
         NEW c \in Coupon \union {Absent}
  PROVE  /\ Breakdown(l, stay, guests, s, bps, c) \in Amounts
         /\ Fair(Breakdown(l, stay, guests, s, bps, c), l, stay, guests, s, bps, Promised(c))
<1>1. l \in PriceList /\ Absent \notin Nat
  BY CheckoutOK
<1>2. PICK lines : lines = Lines(l, stay, guests, s)
  OBVIOUS
<1>3. PICK sub : sub = Subtotal(lines)
  OBVIOUS
<1>4. /\ lines.base \in Nat /\ lines.weekend \in Nat /\ lines.extra \in Nat
      /\ sub \in Nat /\ sub = lines.base + lines.weekend + lines.extra
      /\ sub = FairSubtotal(l, stay, guests, s)
  <2>1. lines \in [base : Nat, weekend : Nat, extra : Nat] /\ sub = FairSubtotal(l, stay, guests, s)
    <3>1. /\ Lines(l, stay, guests, s) \in [base : Nat, weekend : Nat, extra : Nat]
          /\ Subtotal(Lines(l, stay, guests, s)) = FairSubtotal(l, stay, guests, s)
      BY <1>1, LinesFair
    <3>. QED BY <1>2, <1>3, <3>1
  <2>2. sub = lines.base + lines.weekend + lines.extra
    BY <1>3 DEF Subtotal
  <2>. QED BY <2>1, <2>2
<1>5. PICK charge : charge = Fee(sub, bps)
  OBVIOUS
<1>6. charge \in Nat /\ Rounded(charge, sub * bps)
  <2>1. PICK p : p = sub * bps
    OBVIOUS
  <2>2. p \in Nat
    BY <1>1, <1>4, <2>1, Times
  <2>3. charge = HalfUp(p, 10000)
    BY <1>5, <2>1 DEF Fee
  <2>. QED BY <2>1, <2>2, <2>3, RoundsHalfUp
<1>7. PICK off : off = IF c = Absent THEN 0 ELSE Discount(sub, c)
  OBVIOUS
<1>8. off \in Nat /\ off <= sub
  BY <1>1, <1>4, <1>7, DiscountFair
<1>9. PICK a : a = Breakdown(l, stay, guests, s, bps, c)
  OBVIOUS
<1>10. a = [base |-> lines.base, weekend |-> lines.weekend, extra |-> lines.extra,
            fee |-> charge, discount |-> off,
            total |-> IF sub + charge > off THEN sub + charge - off ELSE 0]
  BY <1>2, <1>3, <1>5, <1>7, <1>9 DEF Breakdown
<1>15. PICK total : total = IF sub + charge > off THEN sub + charge - off ELSE 0
  OBVIOUS
<1>16. total \in Nat /\ total = sub + charge - off
  <2>1. sub \in Nat /\ charge \in Nat /\ off \in Nat /\ off <= sub
    BY <1>4, <1>6, <1>8
  <2>. QED BY <1>15, <2>1
<1>11. /\ a.base = lines.base /\ a.weekend = lines.weekend /\ a.extra = lines.extra
       /\ a.fee = charge /\ a.discount = off /\ a.total = sub + charge - off /\ a.total \in Nat
  BY <1>10, <1>15, <1>16
<1>12. a \in Amounts
  BY <1>4, <1>6, <1>8, <1>10, <1>15, <1>16 DEF Amounts
<1>13. IF Promised(c) = Absent THEN a.discount = 0
       ELSE FairDiscount(sub, Promised(c), a.discount)
  <2>1. CASE c = Absent
    BY <1>7, <1>11, <2>1 DEF Promised
  <2>2. CASE c # Absent
    <3>1. c \in Coupon /\ Promised(c) = TermsOf(c)
      BY <2>2 DEF Promised
    <3>2. TermsOf(c) \in CouponTerms
      BY <3>1 DEF TermsOf, Coupon, CouponTerms
    <3>3. TermsOf(c) # Absent
      BY <3>2, CheckoutOK
    <3>. QED BY <1>1, <1>4, <1>7, <1>11, <2>2, <3>1, <3>3, DiscountFair
  <2>. QED BY <2>1, <2>2
<1>14. Fair(a, l, stay, guests, s, bps, Promised(c))
  <2>1. a.base + a.weekend + a.extra = sub /\ a.total = sub + a.fee - a.discount
    BY <1>4, <1>11
  <2>2. Rounded(a.fee, sub * bps)
    BY <1>6, <1>11
  <2>3. PICK t : t = Promised(c)
    OBVIOUS
  <2>4. PICK fair : fair = FairSubtotal(l, stay, guests, s)
    OBVIOUS
  <2>5. fair = sub
    BY <1>4, <2>4
  <2>6. /\ a.base + a.weekend + a.extra = fair /\ a.total = fair + a.fee - a.discount
        /\ Rounded(a.fee, fair * bps)
    BY <2>1, <2>2, <2>5
  <2>7. IF t = Absent THEN a.discount = 0
        ELSE FairDiscount(fair, t, a.discount)
    BY <1>13, <2>3, <2>5
  <2>8. Fair(a, l, stay, guests, s, bps, t)
    BY <2>4, <2>6, <2>7 DEF Fair
  <2>. QED BY <2>3, <2>8
<1>. QED BY <1>9, <1>12, <1>14

-----------------------------------------------------------------------------
(***************************************************************************)
(* Types.  A request carries the fields of the statement it is at; the     *)
(* coupon a request is about to write is still there, and so is the one a  *)
(* booking names.                                                          *)
(***************************************************************************)
Booking == [user : User, ask : Asks, coupon : BOOLEAN, amounts : Amounts,
            status : Standing \union Dead \union {"REFUNDED"}, freed : BOOLEAN, refunded : Nat]

\* A request, before the coupon is judged, while it is, and once it has a price.
Asking == [step : {"find", "coupon"}, user : User, ask : Asks, list : Lists]
Judging == [step : {"validate"}, user : User, ask : Asks, list : Lists, terms : Coupon]
Writing == [step : {"insert", "increment", "count", "commit"}, user : User, ask : Asks,
            coupon : OrAbsent(Nat), limit : OrAbsent(Nat), amounts : Amounts]
Resting == [step : {"idle"}]
Job == Resting \union Asking \union Judging \union Writing

\* A request in its transaction, with a coupon, names the one there is.
Refers(j) ==
  j.step \in {"increment", "count", "commit"} /\ j.ask.code => Exists(j.coupon)

TypesSound ==
  /\ list \in Lists /\ stored \in Fees /\ fee \in Fees \union {EnvFee} /\ saving \subseteq Fees
  /\ edits \in 0 .. MaxEdits
  /\ coupon \in Coupon \union {Absent}
  /\ bookings \in Seq(Booking)
  /\ \A i \in Ids : /\ bookings[i].refunded <= bookings[i].amounts.total
                    /\ bookings[i].coupon => coupon # Absent
                    /\ bookings[i].status \in Dead => bookings[i].freed
  /\ job \in [Request -> Job]
  /\ \A r \in Request : Refers(job[r])
  /\ offered \in [lists : SUBSET Lists, fees : SUBSET Fees, terms : SUBSET Terms]

\* What was in force, or the environment's fee: the amounts are fair under some
\* of it.
InForce(a, ask) ==
  \E l \in offered.lists, f \in offered.fees \union {EnvFee}, c \in offered.terms \union {Absent} :
    /\ ask.code => c # Absent
    /\ Fair(a, l, {ask.date}, ask.guests, ask.slot, f, c)

\* What a request has read was in force, and the price it found is fair.
ReadFair(j) ==
  /\ j.step \in {"find", "coupon", "validate"} => j.list \in offered.lists
  /\ j.step = "validate" => TermsOf(j.terms) \in offered.terms
  /\ j.step \in {"insert", "increment", "count", "commit"} => InForce(j.amounts, j.ask)

PricesSound ==
  /\ list \in offered.lists
  /\ stored \in offered.fees /\ fee \in offered.fees \union {EnvFee} /\ saving \subseteq offered.fees
  /\ coupon # Absent => TermsOf(coupon) \in offered.terms
  /\ \A r \in Request : ReadFair(job[r])
  /\ \A i \in Ids : /\ InForce(bookings[i].amounts, bookings[i].ask)
                    /\ bookings[i].coupon => bookings[i].ask.code

\* A guest's bookings with the coupon that still have their nights: no write puts
\* one back among them, and all of them count against the limit.
Keeping(u) ==
  Cardinality({i \in Ids : bookings[i].coupon /\ bookings[i].user = u /\ ~bookings[i].freed})

\* A request that holds the lock on the coupon's row.
Holds(j) == j.step \in {"count", "commit"} /\ j.ask.code

\* The limit a request goes by was one of the coupon's, and one that has counted
\* leaves room for its own booking.
WithinLimit(j) ==
  /\ j.step \in {"insert", "increment", "count", "commit"} /\ j.ask.code =>
       \E t \in offered.terms : t.perUser = j.limit
  /\ j.step = "commit" /\ j.ask.code =>
       \A u \in User : u = j.user => j.limit = Absent \/ Keeping(u) + 1 <= j.limit

LimitSound ==
  /\ \A q, r \in Request : Holds(job[q]) /\ Holds(job[r]) => q = r
  /\ \A r \in Request : WithinLimit(job[r])
  /\ \A u \in User : Keeping(u) > 0 =>
       \E t \in offered.terms : t.perUser = Absent \/ Keeping(u) <= t.perUser

Sound == TypesSound /\ PricesSound /\ LimitSound

-----------------------------------------------------------------------------
(***************************************************************************)
(* What the steps have in common.                                          *)
(***************************************************************************)

\* What a request carries at each of its statements.
LEMMA Shapes ==
  ASSUME NEW j \in Job
  PROVE  /\ j.step \in {"find", "coupon"} => j \in Asking
         /\ j.step = "validate" => j \in Judging
         /\ j.step \in {"insert", "increment", "count", "commit"} => j \in Writing
BY DEF Job, Resting, Asking, Judging, Writing

\* The rows there are.
LEMMA Rows ==
  ASSUME TypesSound
  PROVE  /\ IsFiniteSet(Ids) /\ Len(bookings) \in Nat /\ Ids = 1 .. Len(bookings)
         /\ \A i \in Ids : bookings[i] \in Booking
<1>1. bookings \in Seq(Booking)
  BY DEF TypesSound
<1>2. Len(bookings) \in Nat /\ Ids = 1 .. Len(bookings)
  BY <1>1, LenProperties DEF Ids
<1>. QED BY <1>1, <1>2, ElementOfSeq, FS_Interval

\* How many bookings have their nights with the coupon is a number, no larger
\* than how many count against the limit, for a dead booking has none.
LEMMA KeepingCounted ==
  ASSUME TypesSound, NEW u
  PROVE  Keeping(u) \in Nat /\ UsedBy(u) \in Nat /\ Keeping(u) <= UsedBy(u)
<1>1. PICK S : S = {i \in Ids : bookings[i].coupon /\ bookings[i].user = u /\ ~bookings[i].freed}
  OBVIOUS
<1>2. PICK T : T = {i \in Ids : /\ bookings[i].coupon /\ bookings[i].user = u
                                /\ bookings[i].status \notin Dead}
  OBVIOUS
<1>3. S \subseteq T /\ T \subseteq Ids
  BY <1>1, <1>2 DEF TypesSound
<1>4. IsFiniteSet(T) /\ IsFiniteSet(S)
  BY <1>3, Rows, FS_Subset
<1>5. Cardinality(S) \in Nat /\ Cardinality(T) \in Nat /\ Cardinality(S) <= Cardinality(T)
  BY <1>3, <1>4, FS_Subset, FS_CardinalityType
<1>. QED BY <1>1, <1>2, <1>5 DEF Keeping, UsedBy

\* A step after which no more bookings have their nights.
LEMMA FewerKeep ==
  ASSUME TypesSound, TypesSound', NEW u,
         \A i \in Ids' : bookings'[i].coupon /\ bookings'[i].user = u /\ ~bookings'[i].freed =>
           i \in Ids /\ bookings[i].coupon /\ bookings[i].user = u /\ ~bookings[i].freed
  PROVE  Keeping(u)' <= Keeping(u) /\ Keeping(u)' \in Nat /\ Keeping(u) \in Nat
<1>1. PICK S : S = {i \in Ids : bookings[i].coupon /\ bookings[i].user = u /\ ~bookings[i].freed}
  OBVIOUS
<1>2. PICK T : T = {i \in Ids' : bookings'[i].coupon /\ bookings'[i].user = u /\ ~bookings'[i].freed}
  OBVIOUS
<1>3. T \subseteq S /\ S \subseteq Ids
  BY <1>1, <1>2
<1>4. IsFiniteSet(S)
  BY <1>3, Rows, FS_Subset
<1>5. Cardinality(T) \in Nat /\ Cardinality(S) \in Nat /\ Cardinality(T) <= Cardinality(S)
  BY <1>3, <1>4, FS_Subset, FS_CardinalityType
<1>6. Keeping(u) = Cardinality(S)
  BY <1>1 DEF Keeping
<1>7. Keeping(u)' = Cardinality(T)
  BY <1>2 DEF Keeping
<1>. QED BY <1>5, <1>6, <1>7

\* The limits survive a step after which no more bookings stand, no terms are
\* forgotten, and each request is where it was or has been answered.
LEMMA LimitsKept ==
  ASSUME TypesSound, LimitSound, offered.terms \subseteq offered'.terms,
         \A u \in User : Keeping(u)' <= Keeping(u) /\ Keeping(u)' \in Nat /\ Keeping(u) \in Nat,
         \A q \in Request : job'[q] = job[q] \/ job'[q] = Idle
  PROVE  LimitSound'
<1>1. Idle.step = "idle"
  BY DEF Idle
<1>2. \A q, r \in Request : Holds(job[q])' /\ Holds(job[r])' => q = r
  BY <1>1 DEF LimitSound, Holds
<1>3. ASSUME NEW q \in Request PROVE WithinLimit(job[q])'
  <2>1. CASE job'[q] = Idle
    BY <1>1, <2>1 DEF WithinLimit
  <2>2. CASE job'[q] = job[q]
    <3>1. WithinLimit(job[q]) /\ job[q] \in Job
      BY DEF LimitSound, TypesSound
    <3>2. ASSUME job[q].step = "commit", job[q].ask.code, NEW u \in User, u = job[q].user
          PROVE  job[q].limit = Absent \/ Keeping(u)' + 1 <= job[q].limit
      <4>1. job[q].limit # Absent => job[q].limit \in Nat
        BY <3>1, <3>2, Shapes DEF Writing, OrAbsent
      <4>2. job[q].limit = Absent \/ Keeping(u) + 1 <= job[q].limit
        BY <3>1, <3>2 DEF WithinLimit
      <4>. QED BY <4>1, <4>2
    <3>. QED BY <2>2, <3>1, <3>2 DEF WithinLimit
  <2>. QED BY <2>1, <2>2
<1>4. ASSUME NEW u \in User, Keeping(u)' > 0
      PROVE  \E t \in offered'.terms : t.perUser = Absent \/ Keeping(u)' <= t.perUser
  <2>1. PICK t \in offered.terms : t.perUser = Absent \/ Keeping(u) <= t.perUser
    BY <1>4 DEF LimitSound
  <2>2. t.perUser # Absent => t.perUser \in Nat
    <3>1. t \in CouponTerms
      BY CheckoutOK DEF TypesSound
    <3>. QED BY <3>1 DEF CouponTerms, OrAbsent
  <2>. QED BY <2>1, <2>2
<1>. QED BY <1>2, <1>3, <1>4 DEF LimitSound

\* A request's step that only changes what the request carries.
LEMMA Goes ==
  ASSUME Sound, NEW r \in Request, NEW j \in Job, Go(r, j), UNCHANGED <<prices, coupon, bookings>>,
         Refers(j), ReadFair(j), WithinLimit(j), Holds(j) => \A q \in Request : q # r => ~Holds(job[q])
  PROVE  Sound'
<1>1. job' \in [Request -> Job] /\ \A q \in Request : job'[q] = IF q = r THEN j ELSE job[q]
  BY DEF Sound, TypesSound, Go
<1>2. TypesSound'
  <2>1. \A q \in Request : Refers(job[q])'
    BY <1>1 DEF Sound, TypesSound, Refers, Exists
  <2>. QED BY <1>1, <2>1 DEF Sound, TypesSound, prices, offer, Ids
<1>3. PricesSound'
  <2>1. \A q \in Request : ReadFair(job[q])'
    BY <1>1 DEF Sound, PricesSound, ReadFair, InForce, prices, offer
  <2>2. \A i \in Ids' : /\ InForce(bookings[i].amounts, bookings[i].ask)'
                        /\ bookings'[i].coupon => bookings'[i].ask.code
    BY DEF Sound, PricesSound, InForce, prices, offer, Ids
  <2>. QED BY <2>1, <2>2 DEF Sound, PricesSound, prices, offer
<1>4. LimitSound'
  <2>1. \A u \in User : Keeping(u)' = Keeping(u)
    BY DEF Keeping, Ids
  <2>2. \A q \in Request : WithinLimit(job[q])'
    BY <1>1, <2>1 DEF Sound, LimitSound, WithinLimit, prices, offer
  <2>3. \A q, s \in Request : Holds(job[q])' /\ Holds(job[s])' => q = s
    BY <1>1 DEF Sound, LimitSound, Holds
  <2>4. \A u \in User : Keeping(u)' > 0 =>
          \E t \in offered'.terms : t.perUser = Absent \/ Keeping(u)' <= t.perUser
    BY <2>1 DEF Sound, LimitSound, prices, offer
  <2>. QED BY <2>2, <2>3, <2>4 DEF LimitSound
<1>. QED BY <1>2, <1>3, <1>4 DEF Sound

\* A request that is answered.
LEMMA Stops ==
  ASSUME Sound, NEW r \in Request, Stop(r), UNCHANGED <<prices, coupon, bookings>>
  PROVE  Sound'
<1>1. PICK j : j = Idle
  OBVIOUS
<1>2. j \in Job /\ j.step = "idle"
  BY <1>1 DEF Idle, Job, Resting
<1>3. Refers(j) /\ ReadFair(j) /\ WithinLimit(j) /\ ~Holds(j)
  BY <1>2 DEF Refers, ReadFair, WithinLimit, Holds
<1>. QED BY <1>1, <1>2, <1>3, Goes DEF Stop

\* A price worked out from what was in force is fair under what was in force.
LEMMA PricedSound ==
  ASSUME Sound, NEW j, j.user \in User, j.ask \in Asks, j.list \in Lists, j.list \in offered.lists,
         NEW c \in Coupon \union {Absent}, c # Absent => TermsOf(c) \in offered.terms, j.ask.code => c # Absent
  PROVE  LET k == Priced(j, c)
         IN  k \in Job /\ Refers(k) /\ ReadFair(k) /\ WithinLimit(k) /\ ~Holds(k)
<1>1. PICK a : a = Breakdown(j.list, {j.ask.date}, j.ask.guests, j.ask.slot, fee, c)
  OBVIOUS
<1>2. j.ask.guests \in Nat /\ j.ask.code \in BOOLEAN /\ fee \in Nat /\ fee \in offered.fees \union {EnvFee}
  BY CheckoutOK DEF Sound, TypesSound, PricesSound
<1>3. PICK stay : stay = {j.ask.date}
  BY Zenon
<1>4. IsFiniteSet(stay)
  BY <1>3, FS_Singleton
<1>5. a \in Amounts /\ Fair(a, j.list, stay, j.ask.guests, j.ask.slot, fee, Promised(c))
  BY <1>1, <1>2, <1>3, <1>4, BreakdownFair
<1>6. PICK k : k = Priced(j, c)
  OBVIOUS
<1>7. /\ k = [step |-> "insert", user |-> j.user, ask |-> j.ask,
              coupon |-> IF c = Absent THEN Absent ELSE c.id,
              limit |-> IF c = Absent THEN Absent ELSE c.perUser, amounts |-> a]
  BY <1>1, <1>6 DEF Priced
<1>8. /\ k.step = "insert" /\ k.ask = j.ask /\ k.amounts = a
      /\ k.limit = IF c = Absent THEN Absent ELSE c.perUser
  BY <1>7
<1>9. k \in Writing
  <2>1. c # Absent => c.id \in Nat /\ c.perUser \in OrAbsent(Nat)
    BY DEF Coupon
  <2>. QED BY <1>5, <1>7, <2>1 DEF Writing, OrAbsent
<1>10. c # Absent => Promised(c) # Absent /\ Promised(c).perUser = c.perUser
  <2>1. SUFFICES ASSUME c # Absent PROVE Promised(c) # Absent /\ Promised(c).perUser = c.perUser
    OBVIOUS
  <2>2. Promised(c) = TermsOf(c)
    BY <2>1 DEF Promised
  <2>3. TermsOf(c) \in CouponTerms /\ TermsOf(c).perUser = c.perUser
    BY <2>1 DEF TermsOf, Coupon, CouponTerms
  <2>. QED BY <2>2, <2>3, CheckoutOK
<1>11. Promised(c) \in offered.terms \union {Absent}
  BY DEF Promised
<1>12. InForce(k.amounts, k.ask)
  <2>1. j.ask.code => Promised(c) # Absent
    BY <1>10
  <2>2. Fair(k.amounts, j.list, {k.ask.date}, k.ask.guests, k.ask.slot, fee, Promised(c))
    BY <1>3, <1>5, <1>8
  <2>. QED BY <1>2, <1>8, <1>11, <2>1, <2>2 DEF InForce
<1>13. k.ask.code => \E t \in offered.terms : t.perUser = k.limit
  BY <1>8, <1>10, <1>11
<1>14. Refers(k) /\ ReadFair(k) /\ WithinLimit(k) /\ ~Holds(k)
  BY <1>8, <1>12, <1>13 DEF Refers, ReadFair, WithinLimit, Holds
<1>. QED BY <1>6, <1>9, <1>14 DEF Job

\* A request that reads: the listing, an open booking of the guest's, the coupon
\* and its rules.
LEMMA ReadingSound ==
  ASSUME Sound, NEW r \in Request,
         (\E u \in User, ask \in Asks : Open(r, u, ask)) \/ Find(r) \/ ReadCoupon(r) \/ Validate(r)
  PROVE  Sound'
<1>1. job[r] \in Job /\ ReadFair(job[r]) /\ list \in Lists /\ list \in offered.lists
  BY DEF Sound, TypesSound, PricesSound
<1>2. CASE \E u \in User, ask \in Asks : Open(r, u, ask)
  <2>1. PICK u \in User, ask \in Asks : Open(r, u, ask)
    BY <1>2
  <2>2. PICK j : j = [step |-> "find", user |-> u, ask |-> ask, list |-> list]
    BY Zenon
  <2>3. j \in Asking /\ j.step = "find" /\ j.list = list
    BY <1>1, <2>2 DEF Asking
  <2>4. j \in Job /\ Refers(j) /\ ReadFair(j) /\ WithinLimit(j) /\ ~Holds(j)
    BY <1>1, <2>3 DEF Job, Refers, ReadFair, WithinLimit, Holds
  <2>. QED BY <2>1, <2>2, <2>4, Goes DEF Open
<1>3. CASE Find(r)
  <2>1. /\ job[r].step = "find" /\ UNCHANGED <<prices, coupon, bookings>>
        /\ \/ Stop(r)
           \/ Go(r, IF job[r].ask.code THEN [job[r] EXCEPT !.step = "coupon"] ELSE Priced(job[r], Absent))
    BY <1>3 DEF Find, At
  <2>2. job[r] \in Asking /\ job[r].list \in offered.lists
    BY <1>1, <2>1, Shapes DEF ReadFair
  <2>3. CASE Stop(r)
    BY <2>1, <2>3, Stops
  <2>4. CASE job[r].ask.code /\ Go(r, [job[r] EXCEPT !.step = "coupon"])
    <3>1. PICK j : j = [job[r] EXCEPT !.step = "coupon"]
      BY Zenon
    <3>2. j \in Asking /\ j.step = "coupon" /\ j.list = job[r].list
      BY <2>2, <3>1 DEF Asking
    <3>3. j \in Job /\ Refers(j) /\ ReadFair(j) /\ WithinLimit(j) /\ ~Holds(j)
      BY <2>2, <3>2 DEF Job, Refers, ReadFair, WithinLimit, Holds
    <3>. QED BY <2>1, <2>4, <3>1, <3>3, Goes
  <2>5. CASE ~job[r].ask.code /\ Go(r, Priced(job[r], Absent))
    <3>1. job[r].user \in User /\ job[r].ask \in Asks /\ job[r].list \in Lists
      BY <2>2 DEF Asking
    <3>2. PICK j : j = Priced(job[r], Absent)
      BY Zenon
    <3>3. j \in Job /\ Refers(j) /\ ReadFair(j) /\ WithinLimit(j) /\ ~Holds(j)
      BY <2>2, <2>5, <3>1, <3>2, PricedSound
    <3>. QED BY <2>1, <2>5, <3>2, <3>3, Goes
  <2>. QED BY <2>1, <2>3, <2>4, <2>5
<1>4. CASE ReadCoupon(r)
  <2>1. job[r].step = "coupon" /\ UNCHANGED <<prices, coupon, bookings>>
    BY <1>4 DEF ReadCoupon, At
  <2>2. CASE coupon = Absent
    BY <1>4, <2>1, <2>2, Stops DEF ReadCoupon
  <2>3. CASE coupon # Absent
    <3>1. job[r] \in Asking /\ job[r].list \in offered.lists
      BY <1>1, <2>1, Shapes DEF ReadFair
    <3>2. coupon \in Coupon /\ TermsOf(coupon) \in offered.terms
      BY <2>3 DEF Sound, TypesSound, PricesSound
    <3>3. PICK j : j = [step |-> "validate", user |-> job[r].user, ask |-> job[r].ask,
                        list |-> job[r].list, terms |-> coupon]
      BY Zenon
    <3>4. j \in Judging /\ j.step = "validate" /\ j.list = job[r].list /\ j.terms = coupon
      BY <3>1, <3>2, <3>3 DEF Asking, Judging
    <3>5. j \in Job /\ Refers(j) /\ ReadFair(j) /\ WithinLimit(j) /\ ~Holds(j)
      BY <3>1, <3>2, <3>4 DEF Job, Refers, ReadFair, WithinLimit, Holds
    <3>. QED BY <1>4, <2>1, <2>3, <3>3, <3>5, Goes DEF ReadCoupon
  <2>. QED BY <2>2, <2>3
<1>5. CASE Validate(r)
  <2>1. /\ job[r].step = "validate" /\ UNCHANGED <<prices, coupon, bookings>>
        /\ Stop(r) \/ Go(r, Priced(job[r], job[r].terms))
    BY <1>5 DEF Validate, At
  <2>2. CASE Stop(r)
    BY <2>1, <2>2, Stops
  <2>3. CASE Go(r, Priced(job[r], job[r].terms))
    <3>1. /\ job[r] \in Judging /\ job[r].list \in offered.lists
          /\ TermsOf(job[r].terms) \in offered.terms
      BY <1>1, <2>1, Shapes DEF ReadFair
    <3>2. job[r].user \in User /\ job[r].ask \in Asks /\ job[r].list \in Lists /\ job[r].terms \in Coupon
      BY <3>1 DEF Judging
    <3>3. job[r].terms # Absent
      BY <3>2, CheckoutOK
    <3>4. PICK j : j = Priced(job[r], job[r].terms)
      BY Zenon
    <3>5. j \in Job /\ Refers(j) /\ ReadFair(j) /\ WithinLimit(j) /\ ~Holds(j)
      BY <3>1, <3>2, <3>3, <3>4, PricedSound
    <3>. QED BY <2>1, <2>3, <3>4, <3>5, Goes
  <2>. QED BY <2>1, <2>2, <2>3
<1>. QED BY <1>2, <1>3, <1>4, <1>5

\* A request in its transaction, up to the commit: the insert, the counter and
\* the count.
LEMMA WritingSound ==
  ASSUME Sound, NEW r \in Request, Insert(r) \/ Increment(r) \/ CountUses(r)
  PROVE  Sound'
<1>1. UNCHANGED <<prices, coupon, bookings>>
  BY DEF Insert, Increment, CountUses
<1>2. /\ job[r] \in Job /\ ReadFair(job[r]) /\ WithinLimit(job[r]) /\ Refers(job[r])
      /\ job[r].step \in {"insert", "increment", "count"}
  BY DEF Sound, TypesSound, PricesSound, LimitSound, Insert, Increment, CountUses, At
<1>3. job[r] \in Writing /\ InForce(job[r].amounts, job[r].ask)
  BY <1>2, Shapes DEF ReadFair
<1>4. ASSUME NEW s \in {"increment", "count", "commit"}
      PROVE  LET j == [job[r] EXCEPT !.step = s]
             IN  /\ j \in Writing /\ j \in Job /\ j.step = s /\ j.ask = job[r].ask /\ j.amounts = job[r].amounts
                 /\ j.limit = job[r].limit /\ j.coupon = job[r].coupon /\ j.user = job[r].user
  BY <1>3, <1>4 DEF Writing, Job
<1>5. CASE Stop(r)
  BY <1>1, <1>5, Stops
<1>6. CASE Insert(r) /\ ~Stop(r)
  <2>1. PICK s \in {"increment", "commit"} :
          /\ s = IF job[r].ask.code THEN "increment" ELSE "commit"
          /\ Go(r, [job[r] EXCEPT !.step = s])
          /\ job[r].ask.code => Exists(job[r].coupon)
    <3>1. PICK s \in {"increment", "commit"} : s = IF job[r].ask.code THEN "increment" ELSE "commit"
      OBVIOUS
    <3>. QED BY <1>6, <3>1 DEF Insert, Stop
  <2>2. PICK j : j = [job[r] EXCEPT !.step = s]
    BY Zenon
  <2>3. /\ j \in Job /\ j.step = s /\ j.ask = job[r].ask /\ j.amounts = job[r].amounts
        /\ j.limit = job[r].limit /\ j.coupon = job[r].coupon
    BY <1>4, <2>2
  <2>4. Refers(j) /\ ReadFair(j) /\ ~Holds(j)
    BY <1>3, <2>1, <2>3 DEF Refers, ReadFair, Holds
  <2>5. WithinLimit(j)
    BY <1>2, <2>1, <2>3 DEF WithinLimit
  <2>. QED BY <1>1, <2>1, <2>2, <2>3, <2>4, <2>5, Goes
<1>7. CASE Increment(r) /\ ~Stop(r)
  <2>1. RowFree /\ Go(r, [job[r] EXCEPT !.step = "count"]) /\ job[r].step = "increment"
    BY <1>7 DEF Increment, At
  <2>2. PICK j : j = [job[r] EXCEPT !.step = "count"]
    BY Zenon
  <2>3. /\ j \in Job /\ j.step = "count" /\ j.ask = job[r].ask /\ j.amounts = job[r].amounts
        /\ j.limit = job[r].limit /\ j.coupon = job[r].coupon
    BY <1>4, <2>2
  <2>4. Refers(j) /\ ReadFair(j)
    BY <1>2, <1>3, <2>1, <2>3 DEF Refers, ReadFair
  <2>5. WithinLimit(j)
    BY <1>2, <2>3 DEF WithinLimit
  <2>6. \A q \in Request : ~Holds(job[q])
    BY <2>1 DEF RowFree, Holds
  <2>. QED BY <1>1, <2>1, <2>2, <2>3, <2>4, <2>5, <2>6, Goes
<1>8. CASE CountUses(r) /\ ~Stop(r)
  <2>1. /\ Go(r, [job[r] EXCEPT !.step = "commit"]) /\ job[r].step = "count"
        /\ ~(job[r].limit # Absent /\ UsedBy(job[r].user) + 1 > job[r].limit)
    BY <1>8 DEF CountUses, At, TooMany
  <2>2. PICK j : j = [job[r] EXCEPT !.step = "commit"]
    BY Zenon
  <2>3. /\ j \in Job /\ j \in Writing /\ j.step = "commit" /\ j.ask = job[r].ask /\ j.amounts = job[r].amounts
        /\ j.limit = job[r].limit /\ j.coupon = job[r].coupon /\ j.user = job[r].user
    BY <1>4, <2>2
  <2>4. Refers(j) /\ ReadFair(j)
    BY <1>2, <1>3, <2>1, <2>3 DEF Refers, ReadFair
  <2>5. ASSUME NEW u \in User, u = j.user PROVE j.limit = Absent \/ Keeping(u) + 1 <= j.limit
    <3>1. Keeping(u) \in Nat /\ UsedBy(u) \in Nat /\ Keeping(u) <= UsedBy(u)
      BY KeepingCounted DEF Sound
    <3>2. j.limit # Absent => j.limit \in Nat /\ UsedBy(u) + 1 <= j.limit
      <4>1. j.limit # Absent => j.limit \in Nat
        BY <2>3 DEF Writing, OrAbsent
      <4>. QED BY <2>1, <2>3, <2>5, <3>1, <4>1
    <3>. QED BY <3>1, <3>2
  <2>6. WithinLimit(j)
    BY <1>2, <2>1, <2>3, <2>5 DEF WithinLimit
  <2>7. Holds(j) => \A q \in Request : q # r => ~Holds(job[q])
    BY <2>1, <2>3 DEF Holds, Sound, LimitSound
  <2>. QED BY <1>1, <2>1, <2>2, <2>3, <2>4, <2>6, <2>7, Goes
<1>. QED BY <1>5, <1>6, <1>7, <1>8

\* The coupon's counter moves and nothing else of it.
Recounted ==
  \/ coupon' = coupon
  \/ coupon # Absent /\ \E n \in Nat : coupon' = [coupon EXCEPT !.count = n]

\* It is the same coupon with the same terms.
LEMMA Recounts ==
  ASSUME Sound, Recounted
  PROVE  /\ coupon' \in Coupon \union {Absent} /\ (coupon' = Absent <=> coupon = Absent)
         /\ coupon # Absent => coupon'.id = coupon.id /\ TermsOf(coupon') = TermsOf(coupon)
<1>1. coupon \in Coupon \union {Absent}
  BY DEF Sound, TypesSound
<1>2. CASE coupon' = coupon
  BY <1>1, <1>2
<1>3. CASE coupon # Absent /\ coupon' # coupon
  <2>1. PICK n \in Nat : coupon' = [coupon EXCEPT !.count = n]
    BY <1>3 DEF Recounted
  <2>2. coupon \in Coupon
    BY <1>1, <1>3
  <2>3. coupon' \in Coupon
    BY <2>1, <2>2 DEF Coupon
  <2>4. coupon'.id = coupon.id /\ TermsOf(coupon') = TermsOf(coupon)
    BY <2>1, <2>2 DEF Coupon, TermsOf
  <2>5. coupon' # Absent
    BY <2>3, CheckoutOK
  <2>. QED BY <1>3, <2>3, <2>4, <2>5
<1>. QED BY <1>1, <1>2, <1>3 DEF Recounted

\* One booking is rewritten, and does not come to have its nights again.
LEMMA Rewritten ==
  ASSUME Sound, NEW i \in Ids, NEW row \in Booking, Write(i, row), Recounted, UNCHANGED <<offer, job>>,
         edits' \in 0 .. MaxEdits, row.refunded <= row.amounts.total,
         row.user = bookings[i].user /\ row.ask = bookings[i].ask,
         row.coupon = bookings[i].coupon /\ row.amounts = bookings[i].amounts,
         bookings[i].freed => row.freed, row.status \in Dead => row.freed
  PROVE  Sound'
<1>1. /\ coupon' \in Coupon \union {Absent} /\ (coupon' = Absent <=> coupon = Absent)
      /\ coupon # Absent => coupon'.id = coupon.id /\ TermsOf(coupon') = TermsOf(coupon)
  BY Recounts
<1>2. /\ bookings' \in Seq(Booking) /\ Ids' = Ids
      /\ \A k \in Ids : bookings'[k] = IF k = i THEN row ELSE bookings[k]
  <2>1. bookings \in Seq(Booking) /\ Ids = 1 .. Len(bookings) /\ bookings' = [bookings EXCEPT ![i] = row]
    BY Rows DEF Sound, TypesSound, Write
  <2>2. /\ bookings' \in Seq(Booking) /\ Len(bookings') = Len(bookings)
        /\ \A k \in 1 .. Len(bookings) : bookings'[k] = IF k = i THEN row ELSE bookings[k]
    BY <2>1, ExceptSeq
  <2>3. Ids' = 1 .. Len(bookings')
    BY <2>2, LenProperties DEF Ids
  <2>. QED BY <2>1, <2>2, <2>3
<1>3. TypesSound'
  <2>1. \A q \in Request : Refers(job[q])'
    <3>1. \A q \in Request : job'[q] = job[q] /\ Refers(job[q])
      BY DEF Sound, TypesSound
    <3>. QED BY <1>1, <3>1 DEF Refers, Exists
  <2>2. \A k \in Ids' : /\ bookings'[k].refunded <= bookings'[k].amounts.total
                        /\ bookings'[k].coupon => coupon' # Absent
                        /\ bookings'[k].status \in Dead => bookings'[k].freed
    BY <1>1, <1>2 DEF Sound, TypesSound
  <2>. QED BY <1>1, <1>2, <2>1, <2>2 DEF Sound, TypesSound, offer
<1>4. PricesSound'
  <2>1. \A q \in Request : ReadFair(job[q])'
    BY DEF Sound, PricesSound, ReadFair, InForce, offer
  <2>2. \A k \in Ids : InForce(bookings[k].amounts, bookings[k].ask) /\ (bookings[k].coupon => bookings[k].ask.code)
    BY DEF Sound, PricesSound
  <2>3. \A k \in Ids' : /\ InForce(bookings[k].amounts, bookings[k].ask)'
                        /\ bookings'[k].coupon => bookings'[k].ask.code
    <3>1. SUFFICES ASSUME NEW k \in Ids
                   PROVE  /\ InForce(bookings[k].amounts, bookings[k].ask)'
                          /\ bookings'[k].coupon => bookings'[k].ask.code
      BY <1>2
    <3>2. /\ bookings'[k].amounts = bookings[k].amounts /\ bookings'[k].ask = bookings[k].ask
          /\ bookings'[k].coupon = bookings[k].coupon
      BY <1>2
    <3>. QED BY <2>2, <3>2 DEF InForce, prices, offer
  <2>. QED BY <1>1, <2>1, <2>3 DEF Sound, PricesSound, offer
<1>5. \A u \in User : Keeping(u)' <= Keeping(u) /\ Keeping(u)' \in Nat /\ Keeping(u) \in Nat
  BY <1>2, <1>3, FewerKeep DEF Sound
<1>6. offered' = offered /\ job' = job
  BY DEF offer
<1>7. LimitSound'
  BY <1>5, <1>6, LimitsKept DEF Sound
<1>. QED BY <1>3, <1>4, <1>7 DEF Sound

\* What becomes of a booking: paid, expired, cancelled or refunded, each written
\* over whatever it has become.
LEMMA LiveSound ==
  ASSUME Sound, NEW i \in Ids, Live(i)
  PROVE  Sound'
<1>1. /\ bookings[i] \in Booking /\ bookings[i].refunded <= bookings[i].amounts.total
      /\ bookings[i].amounts.total \in Nat
      /\ bookings[i].coupon => coupon # Absent
      /\ bookings[i].status \in Dead => bookings[i].freed
      /\ coupon # Absent => coupon.count \in Nat
      /\ edits \in 0 .. MaxEdits
  BY Rows DEF Sound, TypesSound, Booking, Amounts, Coupon
<1>2. PICK b \in Booking : b = bookings[i]
  BY <1>1
<1>3. ASSUME NEW s \in Standing \union Dead \union {"REFUNDED"}, NEW f \in BOOLEAN,
             NEW n \in Nat, n <= b.amounts.total,
             b.freed => f, s \in Dead => f,
             NEW row, row = [b EXCEPT !.status = s, !.freed = f, !.refunded = n],
             Write(i, row), Recounted, UNCHANGED <<offer, job>>, edits' \in 0 .. MaxEdits
      PROVE  Sound'
  <2>1. /\ row \in Booking /\ row.refunded = n /\ row.amounts = b.amounts /\ row.user = b.user
        /\ row.ask = b.ask /\ row.coupon = b.coupon /\ row.status = s /\ row.freed = f
    BY <1>3 DEF Booking
  <2>. QED BY <1>2, <1>3, <2>1, Rewritten
<1>4. b.status \in Standing \union Dead \union {"REFUNDED"} /\ b.freed \in BOOLEAN /\ b.refunded \in Nat
  BY DEF Booking
<1>5. ASSUME NEW read, ByThen(i, read)
      PROVE  edits' \in 0 .. MaxEdits
  <2>1. edits \in Int /\ MaxEdits \in Nat
    BY <1>1, CheckoutOK
  <2>. QED BY <1>1, <1>5, <2>1 DEF ByThen
<1>6. CASE Order(i) \/ Settle(i)
  <2>1. PICK s \in {"PENDING", "CONFIRMED"} :
          Write(i, [b EXCEPT !.status = s]) /\ ByThen(i, "PENDING") /\ UNCHANGED <<offer, coupon, job>>
    BY <1>2, <1>6, Zenon DEF Order, Settle
  <2>2. PICK row : row = [b EXCEPT !.status = s]
    OBVIOUS
  <2>3. row = [b EXCEPT !.status = s, !.freed = b.freed, !.refunded = b.refunded]
    BY <2>2 DEF Booking
  <2>4. s \in Standing /\ s \notin Dead
    BY DEF Standing, Earned, Dead
  <2>5. Recounted /\ edits' \in 0 .. MaxEdits /\ Write(i, row)
    BY <1>5, <2>1, <2>2 DEF Recounted
  <2>. QED BY <1>1, <1>2, <1>3, <1>4, <2>1, <2>3, <2>4, <2>5
<1>7. ASSUME Write(i, [b EXCEPT !.status = "CANCELLED", !.freed = TRUE]), Recounted,
             UNCHANGED <<offer, job>>, edits' \in 0 .. MaxEdits
      PROVE  Sound'
  <2>1. PICK row : row = [b EXCEPT !.status = "CANCELLED", !.freed = TRUE]
    OBVIOUS
  <2>2. row = [b EXCEPT !.status = "CANCELLED", !.freed = TRUE, !.refunded = b.refunded]
    BY <2>1 DEF Booking
  <2>. QED BY <1>1, <1>2, <1>3, <1>4, <1>7, <2>1, <2>2 DEF Dead
<1>8. CASE Expire(i)
  <2>1. /\ Write(i, [b EXCEPT !.status = "CANCELLED", !.freed = TRUE])
        /\ ByThen(i, "PENDING") /\ UNCHANGED <<offer, coupon, job>>
    BY <1>2, <1>8 DEF Expire
  <2>2. edits' \in 0 .. MaxEdits /\ Recounted
    BY <1>5, <2>1 DEF Recounted
  <2>. QED BY <1>7, <2>1, <2>2
<1>9. CASE Cancel(i)
  <2>1. Write(i, [b EXCEPT !.status = "CANCELLED", !.freed = TRUE]) /\ UNCHANGED <<offer, job>>
    BY <1>2, <1>9 DEF Cancel
  <2>2. PICK read \in {"PENDING", "CONFIRMED"} :
          /\ ByThen(i, read)
          /\ coupon' = IF b.coupon /\ read # "CONFIRMED" /\ coupon.count > 0
                         THEN [coupon EXCEPT !.count = coupon.count - 1] ELSE coupon
    BY <1>2, <1>9 DEF Cancel
  <2>3. Recounted
    <3>1. CASE coupon' = coupon
      BY <3>1 DEF Recounted
    <3>2. CASE coupon' # coupon
      <4>1. b.coupon /\ coupon.count > 0 /\ coupon' = [coupon EXCEPT !.count = coupon.count - 1]
        BY <2>2, <3>2
      <4>2. coupon # Absent /\ coupon.count - 1 \in Nat
        BY <1>1, <1>2, <4>1
      <4>. QED BY <4>1, <4>2 DEF Recounted
    <3>. QED BY <3>1, <3>2
  <2>. QED BY <1>5, <1>7, <2>1, <2>2, <2>3
<1>10. CASE Refund(i, bookings[i].amounts.total - 1)
  <2>1. PICK n \in Nat : n = b.amounts.total - 1 /\ Refund(i, n)
    BY <1>1, <1>2, <1>10 DEF Refund
  <2>2. PICK row : row = [b EXCEPT !.refunded = n]
    OBVIOUS
  <2>3. row = [b EXCEPT !.status = b.status, !.freed = b.freed, !.refunded = n]
    BY <2>2 DEF Booking
  <2>4. /\ Write(i, row) /\ UNCHANGED <<offer, job>> /\ Recounted /\ n <= b.amounts.total
        /\ edits' \in 0 .. MaxEdits
    BY <1>1, <1>2, <2>1, <2>2 DEF Refund, Recounted, prices
  <2>. QED BY <1>1, <1>2, <1>3, <1>4, <2>3, <2>4
<1>11. CASE RefundAll(i)
  <2>1. PICK s \in {"REFUNDED"} \union ({b.status} \intersect Earned) :
          /\ Write(i, [b EXCEPT !.status = s, !.refunded = b.amounts.total])
          /\ UNCHANGED <<prices, coupon, job>>
    BY <1>2, <1>11 DEF RefundAll
  <2>2. PICK row, n : row = [b EXCEPT !.status = s, !.refunded = b.amounts.total] /\ n = b.amounts.total
    OBVIOUS
  <2>3. row = [b EXCEPT !.status = s, !.freed = b.freed, !.refunded = n]
    BY <2>2 DEF Booking
  <2>4. /\ Write(i, row) /\ UNCHANGED <<offer, job>> /\ Recounted /\ n \in Nat /\ n <= b.amounts.total
        /\ edits' \in 0 .. MaxEdits
    BY <1>1, <1>2, <2>1, <2>2 DEF Recounted, prices
  <2>5. s \in Standing \union Dead \union {"REFUNDED"} /\ s \notin Dead
    BY <1>4, <2>1 DEF Dead, Earned
  <2>. QED BY <1>1, <1>2, <1>3, <1>4, <2>3, <2>4, <2>5
<1>. QED BY <1>6, <1>8, <1>9, <1>10, <1>11 DEF Live

\* One more booking has its night for the guest who commits with the coupon, none
\* for anybody else.
LEMMA OneMoreKeeps ==
  ASSUME TypesSound, TypesSound', NEW u, NEW row, bookings' = Append(bookings, row)
  PROVE  /\ Keeping(u) \in Nat /\ Keeping(u)' \in Nat /\ Keeping(u)' <= Keeping(u) + 1
         /\ ~(row.coupon /\ row.user = u) => Keeping(u)' <= Keeping(u)
<1>1. PICK n \in Nat : n = Len(bookings)
  BY Rows
<1>2. /\ Ids = 1 .. n /\ Ids' = 1 .. n + 1 /\ bookings'[n + 1] = row
      /\ \A k \in Ids : bookings'[k] = bookings[k]
  <2>1. Ids' = 1 .. Len(bookings')
    BY Rows DEF TypesSound, Ids
  <2>. QED BY <1>1, <2>1, Rows DEF TypesSound
<1>3. PICK S : S = {i \in Ids : bookings[i].coupon /\ bookings[i].user = u /\ ~bookings[i].freed}
  OBVIOUS
<1>4. PICK T : T = {i \in Ids' : bookings'[i].coupon /\ bookings'[i].user = u /\ ~bookings'[i].freed}
  OBVIOUS
<1>5. \A k \in 1 .. n + 1 : k \in 1 .. n \/ k = n + 1
  BY <1>1
<1>6. T \subseteq S \union {n + 1} /\ (~(row.coupon /\ row.user = u) => T \subseteq S)
  BY <1>2, <1>3, <1>4, <1>5
<1>7. IsFiniteSet(S) /\ n + 1 \notin S
  BY <1>1, <1>2, <1>3, Rows, FS_Subset
<1>8. PICK V : V = S \union {n + 1}
  OBVIOUS
<1>9. IsFiniteSet(V) /\ Cardinality(V) = Cardinality(S) + 1
  BY <1>7, <1>8, FS_AddElement
<1>10. /\ Cardinality(S) \in Nat /\ Cardinality(T) \in Nat /\ Cardinality(T) <= Cardinality(S) + 1
       /\ T \subseteq S => Cardinality(T) <= Cardinality(S)
  BY <1>6, <1>7, <1>8, <1>9, FS_Subset, FS_CardinalityType
<1>11. Keeping(u) = Cardinality(S)
  BY <1>3 DEF Keeping
<1>12. Keeping(u)' = Cardinality(T)
  BY <1>4 DEF Keeping
<1>. QED BY <1>6, <1>10, <1>11, <1>12

\* The commit: the booking exists, and its redemption is counted.
LEMMA CommitSound ==
  ASSUME Sound, NEW r \in Request, Commit(r)
  PROVE  Sound'
<1>1. job[r].step = "commit" /\ job[r] \in Writing /\ ReadFair(job[r]) /\ WithinLimit(job[r]) /\ Refers(job[r])
  <2>1. job[r] \in Job /\ job[r].step = "commit"
    BY DEF Sound, TypesSound, Commit, At
  <2>2. job[r] \in Writing
    BY <2>1, Shapes
  <2>3. ReadFair(job[r]) /\ WithinLimit(job[r]) /\ Refers(job[r])
    BY DEF Sound, TypesSound, PricesSound, LimitSound
  <2>. QED BY <2>1, <2>2, <2>3
<1>2. PICK j \in Writing : j = job[r]
  BY <1>1
<1>3. PICK row : row = [user |-> j.user, ask |-> j.ask, coupon |-> j.ask.code, amounts |-> j.amounts,
                        status |-> "PENDING", freed |-> FALSE, refunded |-> 0]
  OBVIOUS
<1>4. /\ row \in Booking /\ row.refunded <= row.amounts.total /\ row.user = j.user /\ row.ask = j.ask
      /\ row.coupon = j.ask.code /\ row.amounts = j.amounts /\ row.status \notin Dead
  <2>1. j.user \in User /\ j.ask \in Asks /\ j.amounts \in Amounts /\ j.amounts.total \in Nat
    BY DEF Writing, Amounts
  <2>2. j.ask.code \in BOOLEAN
    BY <2>1, CheckoutOK
  <2>. QED BY <1>3, <2>1, <2>2 DEF Booking, Standing, Dead
<1>5. bookings' = Append(bookings, row) /\ Stop(r) /\ UNCHANGED prices
  BY <1>2, <1>3 DEF Commit
<1>6. Recounted /\ (j.ask.code => coupon # Absent)
  <2>1. CASE j.ask.code
    <3>1. coupon # Absent
      BY <1>1, <1>2, <2>1 DEF Refers, Exists
    <3>2. coupon.count + 1 \in Nat
      BY <3>1 DEF Sound, TypesSound, Coupon
    <3>3. coupon' = [coupon EXCEPT !.count = coupon.count + 1]
      BY <1>2, <2>1 DEF Commit
    <3>. QED BY <3>1, <3>2, <3>3 DEF Recounted
  <2>2. CASE ~j.ask.code
    BY <1>2, <2>2 DEF Commit, Recounted
  <2>. QED BY <2>1, <2>2
<1>7. /\ coupon' \in Coupon \union {Absent} /\ (coupon' = Absent <=> coupon = Absent)
      /\ coupon # Absent => coupon'.id = coupon.id /\ TermsOf(coupon') = TermsOf(coupon)
  BY <1>6, Recounts
<1>8. /\ job' \in [Request -> Job] /\ \A q \in Request : job'[q] = IF q = r THEN Idle ELSE job[q]
      /\ Idle \in Job /\ Idle.step = "idle"
  <2>1. Idle \in Job /\ Idle.step = "idle"
    BY DEF Idle, Job, Resting
  <2>. QED BY <1>5, <2>1 DEF Sound, TypesSound, Stop, Go
<1>9. /\ bookings' \in Seq(Booking)
      /\ \A k \in Ids' : bookings'[k] = row \/ (k \in Ids /\ bookings'[k] = bookings[k])
  <2>1. bookings \in Seq(Booking)
    BY DEF Sound, TypesSound
  <2>2. bookings' \in Seq(Booking)
    BY <1>4, <1>5, <2>1
  <2>3. Ids' = 1 .. Len(bookings') /\ Ids = 1 .. Len(bookings) /\ Len(bookings) \in Nat
    BY <2>1, <2>2, LenProperties DEF Ids
  <2>. QED BY <1>5, <2>1, <2>2, <2>3
<1>10. TypesSound'
  <2>1. \A q \in Request : Refers(job[q])'
    <3>1. \A q \in Request : Refers(job[q])
      BY DEF Sound, TypesSound
    <3>. QED BY <1>7, <1>8, <3>1 DEF Refers, Exists
  <2>2. \A k \in Ids' : /\ bookings'[k].refunded <= bookings'[k].amounts.total
                        /\ bookings'[k].coupon => coupon' # Absent
                        /\ bookings'[k].status \in Dead => bookings'[k].freed
    BY <1>4, <1>6, <1>7, <1>9 DEF Sound, TypesSound
  <2>. QED BY <1>5, <1>7, <1>8, <1>9, <2>1, <2>2 DEF Sound, TypesSound, prices, offer
<1>11. PricesSound'
  <2>1. \A q \in Request : ReadFair(job[q])'
    BY <1>5, <1>8 DEF Sound, PricesSound, ReadFair, InForce, prices, offer
  <2>2. \A k \in Ids : InForce(bookings[k].amounts, bookings[k].ask) /\ (bookings[k].coupon => bookings[k].ask.code)
    BY DEF Sound, PricesSound
  <2>3. InForce(row.amounts, row.ask) /\ (row.coupon => row.ask.code)
    BY <1>1, <1>2, <1>4 DEF ReadFair
  <2>4. \A k \in Ids' : /\ InForce(bookings[k].amounts, bookings[k].ask)'
                        /\ bookings'[k].coupon => bookings'[k].ask.code
    BY <1>5, <1>9, <2>2, <2>3 DEF InForce, prices, offer
  <2>. QED BY <1>5, <1>7, <2>1, <2>4 DEF Sound, PricesSound, prices, offer
<1>12. LimitSound'
  <2>1. CASE ~j.ask.code
    <3>1. \A u \in User : Keeping(u)' <= Keeping(u) /\ Keeping(u)' \in Nat /\ Keeping(u) \in Nat
      BY <1>4, <1>5, <1>10, <2>1, OneMoreKeeps DEF Sound
    <3>. QED BY <1>5, <1>8, <3>1, LimitsKept DEF Sound, prices, offer
  <2>2. CASE j.ask.code
    <3>1. \A q \in Request : q # r => ~Holds(job[q])
      BY <1>1, <1>2, <2>2 DEF Sound, LimitSound, Holds
    <3>2. \A q, s \in Request : Holds(job[q])' /\ Holds(job[s])' => q = s
      BY <1>8 DEF Sound, LimitSound, Holds
    <3>3. \A q \in Request : WithinLimit(job[q])'
      <4>1. \A q \in Request : WithinLimit(job[q])
        BY DEF Sound, LimitSound
      <4>. QED BY <1>5, <1>8, <3>1, <4>1 DEF WithinLimit, Holds, prices, offer
    <3>4. ASSUME NEW u \in User, Keeping(u)' > 0
          PROVE  \E t \in offered.terms : t.perUser = Absent \/ Keeping(u)' <= t.perUser
      <4>1. Keeping(u) \in Nat /\ Keeping(u)' \in Nat /\ Keeping(u)' <= Keeping(u) + 1
        BY <1>5, <1>10, OneMoreKeeps DEF Sound
      <4>2. \A t \in offered.terms : t.perUser # Absent => t.perUser \in Nat
        BY CheckoutOK DEF Sound, TypesSound, CouponTerms, OrAbsent
      <4>3. CASE u = j.user
        <5>1. PICK t \in offered.terms : t.perUser = j.limit
          BY <1>1, <1>2, <2>2 DEF WithinLimit
        <5>2. j.limit = Absent \/ Keeping(u) + 1 <= j.limit
          BY <1>1, <1>2, <2>2, <4>3 DEF WithinLimit
        <5>. QED BY <4>1, <4>2, <5>1, <5>2
      <4>4. CASE u # j.user
        <5>1. Keeping(u)' <= Keeping(u)
          BY <1>4, <1>5, <1>10, <4>4, OneMoreKeeps DEF Sound
        <5>2. PICK t \in offered.terms : t.perUser = Absent \/ Keeping(u) <= t.perUser
          BY <3>4, <4>1, <5>1 DEF Sound, LimitSound
        <5>. QED BY <4>1, <4>2, <5>1, <5>2
      <4>. QED BY <4>3, <4>4
    <3>. QED BY <1>5, <3>2, <3>3, <3>4 DEF LimitSound, prices, offer
  <2>. QED BY <2>1, <2>2
<1>. QED BY <1>10, <1>11, <1>12 DEF Sound

\* An edit, or a restart: no booking changes, what was in force is remembered
\* and what is in force now is among it; a coupon keeps its id, and the requests
\* are where they were or gone.
LEMMA Edited ==
  ASSUME Sound, bookings' = bookings, job' \in [Request -> Job],
         \A q \in Request : job'[q] = job[q] \/ job'[q] = Idle,
         offered' \in [lists : SUBSET Lists, fees : SUBSET Fees, terms : SUBSET Terms],
         offered.lists \subseteq offered'.lists, offered.fees \subseteq offered'.fees,
         offered.terms \subseteq offered'.terms,
         list' \in offered'.lists, stored' \in offered'.fees,
         fee' \in offered'.fees \union {EnvFee},
         saving' \subseteq offered'.fees, edits' \in 0 .. MaxEdits,
         coupon' \in Coupon \union {Absent}, coupon' # Absent => TermsOf(coupon') \in offered'.terms,
         coupon # Absent => coupon' # Absent /\ coupon'.id = coupon.id
  PROVE  Sound'
<1>1. Idle.step = "idle"
  BY DEF Idle
<1>2. Ids' = Ids
  BY DEF Ids
<1>3. TypesSound'
  <2>1. \A q \in Request : Refers(job[q])'
    <3>1. \A q \in Request : Refers(job[q])
      BY DEF Sound, TypesSound
    <3>. QED BY <1>1, <3>1 DEF Refers, Exists
  <2>2. \A k \in Ids' : /\ bookings'[k].refunded <= bookings'[k].amounts.total
                        /\ bookings'[k].coupon => coupon' # Absent
                        /\ bookings'[k].status \in Dead => bookings'[k].freed
    BY <1>2 DEF Sound, TypesSound
  <2>3. list' \in Lists /\ stored' \in Fees /\ fee' \in Fees \union {EnvFee} /\ saving' \subseteq Fees
    OBVIOUS
  <2>. QED BY <2>1, <2>2, <2>3 DEF Sound, TypesSound
<1>4. PricesSound'
  <2>1. ASSUME NEW a, NEW ask, InForce(a, ask) PROVE InForce(a, ask)'
    <3>1. PICK l \in offered.lists, f \in offered.fees \union {EnvFee}, c \in offered.terms \union {Absent} :
            /\ ask.code => c # Absent
            /\ Fair(a, l, {ask.date}, ask.guests, ask.slot, f, c)
      BY <2>1, Zenon DEF InForce
    <3>2. l \in offered'.lists /\ f \in offered'.fees \union {EnvFee} /\ c \in offered'.terms \union {Absent}
      BY <3>1
    <3>. QED BY <3>1, <3>2, Zenon DEF InForce
  <2>2. \A q \in Request : ReadFair(job[q])'
    <3>1. SUFFICES ASSUME NEW q \in Request PROVE ReadFair(job[q])'
      OBVIOUS
    <3>2. CASE job'[q] = Idle
      BY <1>1, <3>2 DEF ReadFair
    <3>3. CASE job'[q] = job[q]
      <4>1. PICK j : j = job[q]
        OBVIOUS
      <4>2. ReadFair(j)
        BY <4>1 DEF Sound, PricesSound
      <4>3. /\ j.step \in {"find", "coupon", "validate"} => j.list \in offered'.lists
            /\ j.step = "validate" => TermsOf(j.terms) \in offered'.terms
        BY <4>2 DEF ReadFair
      <4>4. PICK a, ask : a = j.amounts /\ ask = j.ask
        OBVIOUS
      <4>5. j.step \in {"insert", "increment", "count", "commit"} => InForce(a, ask)'
        BY <2>1, <4>2, <4>4 DEF ReadFair
      <4>. QED BY <3>3, <4>1, <4>3, <4>4, <4>5 DEF ReadFair, InForce
    <3>. QED BY <3>2, <3>3
  <2>3. ASSUME NEW k \in Ids
        PROVE  InForce(bookings[k].amounts, bookings[k].ask)' /\ (bookings'[k].coupon => bookings'[k].ask.code)
    <3>1. PICK a, ask : a = bookings[k].amounts /\ ask = bookings[k].ask
      OBVIOUS
    <3>2. InForce(a, ask)'
      BY <2>1, <3>1 DEF Sound, PricesSound
    <3>3. InForce(bookings[k].amounts, bookings[k].ask)'
      BY <3>1, <3>2 DEF InForce
    <3>. QED BY <3>3 DEF Sound, PricesSound
  <2>. QED BY <1>2, <2>2, <2>3 DEF PricesSound
<1>5. LimitSound'
  <2>1. \A u \in User : Keeping(u)' <= Keeping(u) /\ Keeping(u)' \in Nat /\ Keeping(u) \in Nat
    BY <1>2, <1>3, FewerKeep DEF Sound
  <2>. QED BY <2>1, LimitsKept DEF Sound
<1>. QED BY <1>3, <1>4, <1>5 DEF Sound

\* A coupon is there.
LEMMA CouponIsThere == \A c \in Coupon : c # Absent
BY CheckoutOK

\* A row with some terms is a coupon with those terms.
LEMMA CouponRowTyped ==
  ASSUME NEW t \in Terms, NEW id \in Nat, NEW open \in BOOLEAN, NEW n \in Nat
  PROVE  LET c == CouponRow(t, id, open, n)
         IN  c \in Coupon /\ c # Absent /\ TermsOf(c) = t /\ c.id = id
<1>1. t \in CouponTerms
  BY CheckoutOK
<1>2. PICK c : c = CouponRow(t, id, open, n)
  OBVIOUS
<1>3. c \in Coupon /\ c.id = id
  BY <1>1, <1>2 DEF CouponRow, Coupon, CouponTerms
<1>4. TermsOf(c) = t
  BY <1>1, <1>2 DEF CouponRow, TermsOf, CouponTerms
<1>5. c # Absent
  BY <1>3, CheckoutOK
<1>. QED BY <1>2, <1>3, <1>4, <1>5

\* What an edit adds to what was in force.
Grown(ls, fs, ts) ==
  /\ offered' \in [lists : SUBSET Lists, fees : SUBSET Fees, terms : SUBSET Terms]
  /\ offered'.lists = offered.lists \union ls /\ offered'.fees = offered.fees \union fs
  /\ offered'.terms = offered.terms \union ts
  /\ edits' \in 0 .. MaxEdits

\* It is remembered, and the edit counted.
LEMMA EditAdds ==
  ASSUME Sound, NEW ls, NEW fs, NEW ts, Edit(ls, fs, ts), ls \subseteq Lists, fs \subseteq Fees, ts \subseteq Terms
  PROVE  Grown(ls, fs, ts)
<1>1. edits' \in 0 .. MaxEdits
  BY CheckoutOK DEF Sound, TypesSound, Edit
<1>2. offered \in [lists : SUBSET Lists, fees : SUBSET Fees, terms : SUBSET Terms]
  BY DEF Sound, TypesSound
<1>3. offered' = [lists |-> offered.lists \union ls, fees |-> offered.fees \union fs,
                  terms |-> offered.terms \union ts]
  BY DEF Edit
<1>4. /\ offered.lists \union ls \in SUBSET Lists /\ offered.fees \union fs \in SUBSET Fees
      /\ offered.terms \union ts \in SUBSET Terms
  BY <1>2
<1>. QED BY <1>1, <1>3, <1>4 DEF Grown

\* The host's and the administrator's edits, and the coupon's dates passing.
LEMMA EditsSound ==
  ASSUME Sound,
         \/ \E l \in Lists : EditPrices(l)
         \/ \E f \in Fees : StoreFee(f) \/ CopyFee(f)
         \/ \E t \in Terms, open \in BOOLEAN : EditCoupon(t, open) \/ CreateCoupon(t, open)
         \/ WindowMoves
  PROVE  Sound'
<1>1. /\ list \in offered.lists /\ stored \in offered.fees /\ fee \in offered.fees \union {EnvFee}
      /\ saving \subseteq offered.fees /\ coupon \in Coupon \union {Absent}
      /\ coupon # Absent => TermsOf(coupon) \in offered.terms
      /\ edits \in 0 .. MaxEdits /\ edits \in Nat /\ job \in [Request -> Job]
      /\ offered \in [lists : SUBSET Lists, fees : SUBSET Fees, terms : SUBSET Terms]
  BY DEF Sound, TypesSound, PricesSound
<1>0. {} \subseteq Lists /\ {} \subseteq Fees /\ {} \subseteq Terms
  OBVIOUS
<1>2. CASE \E l \in Lists : EditPrices(l)
  <2>1. PICK l \in Lists : EditPrices(l)
    BY <1>2
  <2>2. /\ list' = l /\ Edit({l}, {}, {}) /\ UNCHANGED <<stored, fee, saving, coupon, bookings, job>>
    BY <2>1 DEF EditPrices
  <2>9. {l} \subseteq Lists
    OBVIOUS
  <2>3. Grown({l}, {}, {})
    BY <1>0, <2>9, <2>2, EditAdds, Zenon
  <2>. QED BY <1>1, <2>2, <2>3, Edited DEF Grown
<1>3. CASE \E f \in Fees : StoreFee(f)
  <2>1. PICK f \in Fees : StoreFee(f)
    BY <1>3
  <2>2. /\ stored' = f /\ saving' = saving \union {f} /\ Edit({}, {f}, {})
        /\ UNCHANGED <<list, fee, coupon, bookings, job>>
    BY <2>1 DEF StoreFee
  <2>9. {f} \subseteq Fees
    OBVIOUS
  <2>3. Grown({}, {f}, {})
    BY <1>0, <2>9, <2>2, EditAdds, Zenon
  <2>. QED BY <1>1, <2>2, <2>3, Edited DEF Grown
<1>4. CASE \E f \in Fees : CopyFee(f)
  <2>1. PICK f \in Fees : CopyFee(f)
    BY <1>4
  <2>2. /\ f \in saving /\ fee' = f /\ saving' = saving \ {f}
        /\ UNCHANGED <<list, stored, coupon, bookings, job, edits, offered>>
    BY <2>1 DEF CopyFee
  <2>. QED BY <1>1, <2>2, Edited
<1>5. CASE \E t \in Terms, open \in BOOLEAN : EditCoupon(t, open)
  <2>1. PICK t \in Terms, open \in BOOLEAN : EditCoupon(t, open)
    BY <1>5
  <2>2. /\ coupon \in Coupon /\ coupon' = CouponRow(t, coupon.id, open, coupon.count)
        /\ Edit({}, {}, {t}) /\ UNCHANGED <<list, stored, fee, saving, bookings, job>>
    BY <1>1, <2>1 DEF EditCoupon
  <2>3. coupon.id \in Nat /\ coupon.count \in Nat
    BY <2>2 DEF Coupon
  <2>4. coupon' \in Coupon /\ coupon' # Absent /\ TermsOf(coupon') = t /\ coupon'.id = coupon.id
    BY <2>2, <2>3, CouponRowTyped
  <2>9. {t} \subseteq Terms
    OBVIOUS
  <2>5. Grown({}, {}, {t})
    BY <1>0, <2>9, <2>2, EditAdds, Zenon
  <2>. QED BY <1>1, <2>2, <2>4, <2>5, Edited DEF Grown
<1>6. CASE \E t \in Terms, open \in BOOLEAN : CreateCoupon(t, open)
  <2>1. PICK t \in Terms, open \in BOOLEAN : CreateCoupon(t, open)
    BY <1>6
  <2>2. /\ coupon = Absent /\ coupon' = CouponRow(t, edits, open, 0)
        /\ Edit({}, {}, {t}) /\ UNCHANGED <<list, stored, fee, saving, bookings, job>>
    BY <2>1 DEF CreateCoupon, NewCoupon
  <2>3. coupon' \in Coupon /\ coupon' # Absent /\ TermsOf(coupon') = t
    BY <1>1, <2>2, CouponRowTyped
  <2>9. {t} \subseteq Terms
    OBVIOUS
  <2>4. Grown({}, {}, {t})
    BY <1>0, <2>9, <2>2, EditAdds, Zenon
  <2>. QED BY <1>1, <2>2, <2>3, <2>4, Edited DEF Grown
<1>7. CASE WindowMoves
  <2>1. /\ coupon \in Coupon /\ coupon' = [coupon EXCEPT !.open = ~coupon.open]
        /\ Edit({}, {}, {}) /\ UNCHANGED <<list, stored, fee, saving, bookings, job>>
    BY <1>1, <1>7 DEF WindowMoves
  <2>2. coupon' \in Coupon /\ TermsOf(coupon') = TermsOf(coupon) /\ coupon'.id = coupon.id
    BY <2>1 DEF Coupon, TermsOf
  <2>3. coupon' # Absent /\ coupon # Absent
    BY <2>1, <2>2, CouponIsThere
  <2>4. Grown({}, {}, {})
    BY <1>0, <2>1, EditAdds, Zenon
  <2>. QED BY <1>1, <2>1, <2>2, <2>3, <2>4, Edited DEF Grown
<1>. QED BY <1>2, <1>3, <1>4, <1>5, <1>6, <1>7

\* A new process: the stored fee is loaded, or the environment's stands in for it,
\* and every request is gone.
LEMMA RestartSound ==
  ASSUME Sound, Restart
  PROVE  Sound'
<1>1. Idle \in Job
  BY DEF Idle, Job, Resting
<1>2. /\ list \in offered.lists /\ stored \in offered.fees /\ coupon \in Coupon \union {Absent}
      /\ coupon # Absent => TermsOf(coupon) \in offered.terms
      /\ edits \in 0 .. MaxEdits
      /\ offered \in [lists : SUBSET Lists, fees : SUBSET Fees, terms : SUBSET Terms]
  BY DEF Sound, TypesSound, PricesSound
<1>3. /\ fee' \in {stored, EnvFee} /\ saving' = {} /\ UNCHANGED <<list, stored, coupon, bookings, offered>>
      /\ job' \in [Request -> Job] /\ \A q \in Request : job'[q] = Idle
      /\ edits' = edits \/ (edits < MaxEdits /\ edits' = edits + 1)
  BY <1>1 DEF Restart
<1>4. edits' \in 0 .. MaxEdits
  BY <1>2, <1>3, CheckoutOK
<1>. QED BY <1>2, <1>3, <1>4, Edited

\* The coupon is deleted: no request is about to write a booking with it, and
\* the bookings made with it lose the reference.
LEMMA DeleteSound ==
  ASSUME Sound, DeleteCoupon
  PROVE  Sound'
<1>1. /\ coupon # Absent /\ coupon' = Absent /\ Unreferenced /\ Edit({}, {}, {})
      /\ bookings' = [i \in Ids |-> [bookings[i] EXCEPT !.coupon = FALSE]]
      /\ UNCHANGED <<list, stored, fee, saving, job>>
  BY DEF DeleteCoupon
<1>2. offered' = offered /\ edits' \in 0 .. MaxEdits
  <2>1. {} \subseteq Lists /\ {} \subseteq Fees /\ {} \subseteq Terms
    OBVIOUS
  <2>2. Grown({}, {}, {})
    BY <1>1, <2>1, EditAdds, Zenon
  <2>. QED BY <2>2 DEF Grown, Sound, TypesSound
<1>3. /\ bookings' \in Seq(Booking) /\ Ids' = Ids
      /\ \A k \in Ids : /\ bookings'[k].user = bookings[k].user /\ bookings'[k].ask = bookings[k].ask
                        /\ bookings'[k].amounts = bookings[k].amounts /\ ~bookings'[k].coupon
                        /\ bookings'[k].refunded = bookings[k].refunded
                        /\ bookings'[k].status = bookings[k].status
                        /\ bookings'[k].freed = bookings[k].freed
  <2>1. Ids = 1 .. Len(bookings) /\ Len(bookings) \in Nat /\ \A k \in Ids : bookings[k] \in Booking
    BY Rows DEF Sound
  <2>2. \A k \in Ids : bookings'[k] = [bookings[k] EXCEPT !.coupon = FALSE]
    BY <1>1
  <2>3. ASSUME NEW k \in Ids
        PROVE  /\ bookings'[k].user = bookings[k].user /\ bookings'[k].ask = bookings[k].ask
               /\ bookings'[k].amounts = bookings[k].amounts /\ bookings'[k].coupon = FALSE
               /\ bookings'[k].refunded = bookings[k].refunded /\ bookings'[k] \in Booking
               /\ bookings'[k].status = bookings[k].status /\ bookings'[k].freed = bookings[k].freed
    <3>1. PICK b \in Booking : b = bookings[k]
      BY <2>1
    <3>2. PICK c : c = [b EXCEPT !.coupon = FALSE]
      OBVIOUS
    <3>3. /\ c \in Booking /\ c.user = b.user /\ c.ask = b.ask /\ c.amounts = b.amounts
          /\ c.coupon = FALSE /\ c.refunded = b.refunded /\ c.status = b.status /\ c.freed = b.freed
      BY <3>2 DEF Booking
    <3>4. c = bookings'[k]
      BY <2>2, <3>1, <3>2
    <3>. QED BY <3>1, <3>3, <3>4
  <2>4. bookings' \in [1 .. Len(bookings) -> Booking]
    BY <1>1, <2>1, <2>2, <2>3
  <2>5. bookings' \in Seq(Booking)
    BY <2>1, <2>4, SeqDef
  <2>6. Ids' = Ids
    BY <1>1, <2>1 DEF Ids
  <2>. QED BY <2>3, <2>5, <2>6
<1>4. TypesSound'
  <2>1. \A q \in Request : Refers(job[q])'
    BY <1>1 DEF Refers, Unreferenced, InTx
  <2>2. \A k \in Ids' : /\ bookings'[k].refunded <= bookings'[k].amounts.total
                        /\ bookings'[k].coupon => coupon' # Absent
                        /\ bookings'[k].status \in Dead => bookings'[k].freed
    BY <1>3 DEF Sound, TypesSound
  <2>. QED BY <1>1, <1>2, <1>3, <2>1, <2>2 DEF Sound, TypesSound
<1>5. PricesSound'
  <2>1. \A q \in Request : ReadFair(job[q])'
    BY <1>1, <1>2 DEF Sound, PricesSound, ReadFair, InForce
  <2>2. \A k \in Ids : InForce(bookings[k].amounts, bookings[k].ask)
    BY DEF Sound, PricesSound
  <2>3. \A k \in Ids' : /\ InForce(bookings[k].amounts, bookings[k].ask)'
                        /\ bookings'[k].coupon => bookings'[k].ask.code
    BY <1>2, <1>3, <2>2 DEF InForce
  <2>. QED BY <1>1, <1>2, <2>1, <2>3 DEF Sound, PricesSound
<1>6. LimitSound'
  <2>1. \A u \in User : Keeping(u)' <= Keeping(u) /\ Keeping(u)' \in Nat /\ Keeping(u) \in Nat
    BY <1>3, <1>4, FewerKeep DEF Sound
  <2>. QED BY <1>1, <1>2, <2>1, LimitsKept DEF Sound
<1>. QED BY <1>4, <1>5, <1>6 DEF Sound

\* Nothing is booked to begin with.
LEMMA InitSound ==
  ASSUME Init
  PROVE  Sound
<1>1. /\ bookings = <<>> /\ Ids = {} /\ bookings \in Seq(Booking)
  BY EmptySeq DEF Init, Ids
<1>2. /\ Idle \in Job /\ Idle.step = "idle"
      /\ job \in [Request -> Job] /\ \A q \in Request : job[q] = Idle
  BY DEF Init, Idle, Job, Resting
<1>3. /\ list = FirstList /\ stored = FirstFee /\ fee = FirstFee /\ saving = {} /\ edits = 0
  BY DEF Init
<1>4. PICK ts \in SUBSET Terms :
        /\ offered = [lists |-> {list}, fees |-> {fee}, terms |-> ts]
        /\ coupon \in Coupon \union {Absent} /\ (coupon # Absent => TermsOf(coupon) \in ts)
  <2>1. CASE coupon = Absent /\ offered = [lists |-> {list}, fees |-> {fee}, terms |-> {}]
    BY <2>1
  <2>2. CASE \E t \in FirstTerms, open \in BOOLEAN :
                /\ coupon = NewCoupon(t, open)
                /\ offered = [lists |-> {list}, fees |-> {fee}, terms |-> {t}]
    <3>1. PICK t \in FirstTerms, open \in BOOLEAN :
                             /\ coupon = CouponRow(t, 0, open, 0)
                             /\ offered = [lists |-> {list}, fees |-> {fee}, terms |-> {t}]
      BY <1>3, <2>2 DEF NewCoupon
    <3>2. t \in Terms
      BY CheckoutOK
    <3>3. coupon \in Coupon /\ TermsOf(coupon) = t
      BY <3>1, <3>2, CouponRowTyped
    <3>. QED BY <3>1, <3>2, <3>3
  <2>. QED BY <2>1, <2>2 DEF Init
<1>5. /\ offered \in [lists : SUBSET Lists, fees : SUBSET Fees, terms : SUBSET Terms]
      /\ list \in Lists /\ fee \in Fees /\ list \in offered.lists /\ fee \in offered.fees
      /\ coupon # Absent => TermsOf(coupon) \in offered.terms
  <2>1. list \in Lists /\ fee \in Fees
    BY <1>3, CheckoutOK
  <2>2. {list} \in SUBSET Lists /\ {fee} \in SUBSET Fees
    BY <2>1
  <2>. QED BY <1>4, <2>1, <2>2
<1>6. TypesSound
  <2>1. \A q \in Request : Refers(job[q])
    BY <1>2 DEF Refers
  <2>2. edits \in 0 .. MaxEdits /\ saving \subseteq Fees
    BY <1>3, CheckoutOK
  <2>. QED BY <1>1, <1>2, <1>3, <1>4, <1>5, <2>1, <2>2 DEF TypesSound
<1>7. PricesSound
  <2>1. \A q \in Request : ReadFair(job[q])
    BY <1>2 DEF ReadFair
  <2>. QED BY <1>1, <1>3, <1>5, <2>1 DEF PricesSound
<1>8. LimitSound
  <2>1. \A u \in User : Keeping(u) = 0
    <3>1. \A u : {i \in Ids : bookings[i].coupon /\ bookings[i].user = u /\ ~bookings[i].freed} = {}
      BY <1>1
    <3>2. \A u \in User : Keeping(u) = Cardinality({})
      BY <3>1 DEF Keeping
    <3>. QED BY <3>2, FS_EmptySet
  <2>2. \A q \in Request : WithinLimit(job[q]) /\ ~Holds(job[q])
    BY <1>2 DEF WithinLimit, Holds
  <2>. QED BY <2>1, <2>2 DEF LimitSound
<1>. QED BY <1>6, <1>7, <1>8 DEF Sound

\* Every step preserves all three.
LEMMA NextSound ==
  ASSUME Sound, [Next]_vars
  PROVE  Sound'
<1>1. CASE \E r \in Request : Create(r)
  <2>1. PICK r \in Request : Create(r)
    BY <1>1
  <2>. QED BY <2>1, ReadingSound, WritingSound, CommitSound DEF Create
<1>2. CASE \E i \in Ids : Live(i)
  BY <1>2, LiveSound
<1>3. CASE Administer
  BY <1>3, EditsSound, DeleteSound DEF Administer
<1>4. CASE Restart
  BY <1>4, RestartSound
<1>5. CASE UNCHANGED vars
  BY <1>5 DEF vars, Sound, TypesSound, Refers, Exists, PricesSound, ReadFair, InForce,
              LimitSound, WithinLimit, Holds, Keeping, Ids
<1>. QED BY <1>1, <1>2, <1>3, <1>4, <1>5 DEF Next

-----------------------------------------------------------------------------
(***************************************************************************)
(* What follows.                                                           *)
(***************************************************************************)

\* A request carries what its statement needs, a coupon about to be redeemed is
\* still there, a price was really in force (the fee, or the environment's), and
\* the limit one goes by too
\* (bookings.service.ts:141-260, coupons.service.ts:46-89).
THEOREM CheckoutHolds == Spec => []Sound
BY InitSound, NextSound, PTL DEF Spec

\* The types, the reference of a request to its coupon, and no refund beyond a
\* stay's total (schema.prisma:378).
THEOREM CheckoutTyped == Spec => []TypeOK
<1>1. Sound => TypeOK
  <2>1. SUFFICES ASSUME Sound PROVE TypeOK
    OBVIOUS
  <2>2. \A r \in Request : InTx(r) /\ job[r].ask.code => Exists(job[r].coupon)
    BY <2>1 DEF Sound, TypesSound, Refers, InTx
  <2>3. ASSUME NEW i \in Ids
        PROVE  /\ bookings[i].user \in User /\ bookings[i].amounts.total \in Nat
               /\ bookings[i].refunded \in 0 .. bookings[i].amounts.total
    <3>1. bookings[i] \in Booking /\ bookings[i].refunded <= bookings[i].amounts.total
      BY <2>1, Rows DEF Sound, TypesSound
    <3>. QED BY <3>1 DEF Booking, Amounts
  <2>. QED BY <2>1, <2>2, <2>3 DEF Sound, TypesSound, TypeOK
<1>. QED BY <1>1, CheckoutHolds, PTL

\* However many requests of one guest run side by side, and however late orders,
\* settlements and cancellations write, no more bookings stand on their nights
\* with the coupon than the most generous limit it ever had
\* (coupons.service.ts:46-89).
THEOREM LimitKept == Spec => []PerUserLimit
<1>1. Sound => PerUserLimit
  <2>1. SUFFICES ASSUME Sound, NEW u \in User, StandingBy(u) > 0
                 PROVE  \E t \in offered.terms : t.perUser = Absent \/ StandingBy(u) <= t.perUser
    BY DEF PerUserLimit
  <2>2. PICK S : S = {i \in Ids : /\ bookings[i].coupon /\ bookings[i].user = u
                                  /\ bookings[i].status \in Standing /\ ~bookings[i].freed}
    OBVIOUS
  <2>3. PICK K : K = {i \in Ids : bookings[i].coupon /\ bookings[i].user = u /\ ~bookings[i].freed}
    OBVIOUS
  <2>4. S \subseteq K /\ IsFiniteSet(K)
    BY <2>1, <2>2, <2>3, Rows, FS_Subset DEF Sound
  <2>5. Cardinality(S) \in Nat /\ Cardinality(K) \in Nat /\ Cardinality(S) <= Cardinality(K)
    BY <2>4, FS_Subset, FS_CardinalityType
  <2>6. StandingBy(u) = Cardinality(S) /\ Keeping(u) = Cardinality(K)
    BY <2>2, <2>3 DEF StandingBy, Keeping
  <2>7. PICK t \in offered.terms : t.perUser = Absent \/ Keeping(u) <= t.perUser
    BY <2>1, <2>5, <2>6 DEF Sound, LimitSound
  <2>8. t.perUser # Absent => t.perUser \in Nat
    BY <2>1, CheckoutOK DEF Sound, TypesSound, CouponTerms, OrAbsent
  <2>. QED BY <2>5, <2>6, <2>7, <2>8
<1>. QED BY <1>1, CheckoutHolds, PTL

\* Whatever is edited while a booking is made, it is charged to the paisa under
\* a price list and terms that were in force and a fee that was, or that of the
\* environment (pricing.util.ts:45-137, platform-settings.service.ts:66-98).
THEOREM FairlyCharged == Spec => []ChargedFairly
<1>1. Sound => ChargedFairly
  <2>1. SUFFICES ASSUME Sound PROVE ChargedFairly
    OBVIOUS
  <2>2. \A i \in Ids : InForce(bookings[i].amounts, bookings[i].ask) /\ (bookings[i].coupon => bookings[i].ask.code)
    BY <2>1 DEF Sound, PricesSound
  <2>. QED BY <2>2 DEF InForce, ChargedFairly
<1>. QED BY <1>1, CheckoutHolds, PTL

\* What the hosts are owed for their stays is never more than what is held for
\* them (payouts.service.ts:170-199, payout-math.ts:17-73).
THEOREM NeverOwesMore == Spec => []HoldsWhatItOwes
<1>1. Sound => HoldsWhatItOwes
  <2>1. SUFFICES ASSUME Sound PROVE HoldsWhatItOwes
    OBVIOUS
  <2>2. PICK paid : paid = {i \in Ids : bookings[i].status \in Earned}
    OBVIOUS
  <2>3. IsFiniteSet(paid) /\ paid \subseteq Ids
    BY <2>1, <2>2, Rows, FS_Subset DEF Sound
  <2>4. PICK f, g : /\ f = [i \in paid |-> Net(i)]
                    /\ g = [i \in paid |-> bookings[i].amounts.total - bookings[i].refunded]
    OBVIOUS
  <2>5. ASSUME NEW i \in paid PROVE f[i] \in Nat /\ g[i] \in Nat /\ f[i] <= g[i]
    <3>1. bookings[i] \in Booking /\ bookings[i].refunded <= bookings[i].amounts.total
      BY <2>1, <2>3, Rows DEF Sound, TypesSound
    <3>2. PICK total, charge, back \in Nat :
            total = bookings[i].amounts.total /\ charge = bookings[i].amounts.fee /\ back = bookings[i].refunded
      BY <3>1 DEF Booking, Amounts
    <3>3. f[i] = (IF total - charge > back THEN total - charge - back ELSE 0) /\ g[i] = total - back
      BY <2>4, <3>2 DEF Net, SettleStay
    <3>. QED BY <3>1, <3>2, <3>3
  <2>6. Sum(f, paid) <= Sum(g, paid)
    BY <2>3, <2>5, SumOrdered
  <2>7. Payout(Ids) = SumFunction(f)
    BY <2>2, <2>4 DEF Payout
  <2>8. SumFunction(f) = Sum(f, paid) /\ SumFunction(g) = Sum(g, paid)
    BY <2>4 DEF SumFunction, Sum
  <2>. QED BY <2>2, <2>4, <2>6, <2>7, <2>8 DEF HoldsWhatItOwes
<1>. QED BY <1>1, CheckoutHolds, PTL

=============================================================================
