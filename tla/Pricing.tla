------------------------------ MODULE Pricing ------------------------------
(***************************************************************************)
(* What a stay costs and what its host is owed: the arithmetic of          *)
(* pricing.util.ts, coupon-validation.ts and payout-math.ts.  Amounts are  *)
(* paise, so the two decimals every money() call rounds to are exact; only *)
(* the two divisions (fee and percentage) round, half up.                  *)
(***************************************************************************)
EXTENDS Integers, FiniteSets, Functions

CONSTANTS
  Absent,       \* a price or limit column that is NULL
  Weekend       \* the dates that are a Saturday or a Sunday

IncludedGuests == 2
Slots == {"OVERNIGHT", "DAY", "NIGHT"}

\* isSlotOffered: overnight stays are no longer sold, and a listing with no
\* party turned on is offered as a night party.
SlotOffered(l, s) ==
  \/ s = "DAY" /\ "DAY" \in l.parties
  \/ s = "NIGHT" /\ ("NIGHT" \in l.parties \/ "DAY" \notin l.parties)

HalfUp(n, d) == (2 * n + d) \div (2 * d)

Or(x, y) == IF x = Absent THEN y ELSE x

\* The flat price of a day party: a price of 0 counts as none set.
FlatPrice(l, s) == IF s = "DAY" /\ l.day # 0 THEN l.day ELSE Absent

Nights(stay) ==
  LET weekend == Cardinality(stay \intersect Weekend)
  IN  [week |-> Cardinality(stay) - weekend, weekend |-> weekend]

\* The three lines of the subtotal.
Lines(l, stay, guests, s) ==
  LET flat  == FlatPrice(l, s)
      n     == Nights(stay)
      extra == IF guests > IncludedGuests THEN guests - IncludedGuests ELSE 0
  IN  [base    |-> IF flat # Absent THEN flat ELSE l.base * n.week,
       weekend |-> IF flat # Absent THEN 0 ELSE Or(l.weekend, l.base) * n.weekend,
       extra   |-> Or(l.extra, 0) * extra * Cardinality(stay)]

Subtotal(lines) == lines.base + lines.weekend + lines.extra

Fee(subtotal, bps) == HalfUp(subtotal * bps, 10000)

\* Mutant: the cap is forgotten, and the subtotal is no limit.
Uncapped(subtotal, c) ==
  IF c.kind = "FIXED" THEN c.value ELSE HalfUp(subtotal * c.value, 10000)

\* computeDiscount; a percentage is in hundredths of one.  maxDiscount caps
\* a percentage only, and no coupon takes off more than the subtotal.
Discount(subtotal, c) ==
  LET share  == HalfUp(subtotal * c.value, 10000)
      capped == IF c.cap # Absent /\ c.cap < share THEN c.cap ELSE share
      taken  == IF c.kind = "FIXED" THEN c.value ELSE capped
  IN  IF taken > subtotal THEN subtotal ELSE taken

\* calculatePriceBreakdown: the amounts a booking is stored with.
Breakdown(l, stay, guests, s, bps, c) ==
  LET lines == Lines(l, stay, guests, s)
      sub   == Subtotal(lines)
      fee   == Fee(sub, bps)
      off   == IF c = Absent THEN 0 ELSE Discount(sub, c)
  IN  [base |-> lines.base, weekend |-> lines.weekend, extra |-> lines.extra,
       fee |-> fee, discount |-> off,
       total |-> IF sub + fee > off THEN sub + fee - off ELSE 0]

\* validateCouponRules.
CouponValid(c, subtotal, used) ==
  /\ c.active
  /\ c.open
  /\ c.max = Absent \/ c.count < c.max
  /\ c.perUser = Absent \/ used < c.perUser
  /\ c.min = Absent \/ subtotal >= c.min

FeeOnly(total, fee, refunded) == total - fee   \* mutant: the refund is forgotten

\* settleStay: the host's share of one stay, never negative.
SettleStay(total, fee, refunded) ==
  IF total - fee > refunded THEN total - fee - refunded ELSE 0

-----------------------------------------------------------------------------
(* The reference: what the listing's page says a stay costs, one night and *)
(* one guest at a time.                                                    *)

NightPrice(l, d) == IF d \in Weekend THEN Or(l.weekend, l.base) ELSE l.base

FairSubtotal(l, stay, guests, s) ==
  LET sitting == IF s = "DAY" /\ l.day \notin {Absent, 0}
                   THEN l.day ELSE SumFunction([d \in stay |-> NightPrice(l, d)])
      heads   == (IncludedGuests + 1 .. guests) \X stay
  IN  sitting + SumFunction([h \in heads |-> Or(l.extra, 0)])

\* q is the ten-thousandth part of n, rounded half up, or does not exceed it.
Reaches(q, n) == 20000 * q <= 2 * n + 10000
Rounded(q, n) == Reaches(q, n) /\ 2 * n + 10000 < 20000 * (q + 1)

\* The discount is what the coupon's own words promise: its value or its
\* share of the subtotal, and only when that is more, its cap or the subtotal.
FairDiscount(sub, c, off) ==
  /\ off <= sub
  /\ \/ c.kind = "FIXED" /\ (off = c.value \/ (off = sub /\ c.value > sub))
     \/ /\ c.kind = "PERCENTAGE"
        /\ Reaches(off, sub * c.value)
        /\ c.cap # Absent => off <= c.cap
        /\ Rounded(off, sub * c.value) \/ off \in {sub, c.cap}

Fair(a, l, stay, guests, s, bps, c) ==
  LET sub == FairSubtotal(l, stay, guests, s)
  IN  /\ a.base + a.weekend + a.extra = sub
      /\ Rounded(a.fee, sub * bps)
      /\ a.total = sub + a.fee - a.discount
      /\ IF c = Absent THEN a.discount = 0 ELSE FairDiscount(sub, c, a.discount)
=============================================================================
