------------------------------ MODULE Checkout ------------------------------
(***************************************************************************)
(* From the prices of one listing to the amounts of its bookings: the      *)
(* guests' booking requests, while the host edits the prices, the          *)
(* administrator the platform fee and the one coupon, and bookings are     *)
(* paid, cancelled and refunded.  Each statement of a request is a step;   *)
(* the last three are one READ COMMITTED transaction, in which the         *)
(* update of the coupon's counter locks its row until the commit.          *)
(*                                                                         *)
(* What a booking goes through once it exists is Reservations' and         *)
(* Refunds' business; here it is what those two allow, in single steps.    *)
(***************************************************************************)
EXTENDS Pricing, Sequences

CONSTANTS
  User, Request,
  Date,         \* the dates on sale, each a stay of its own
  Lists,        \* price lists the host may publish
  Fees,         \* fees the administrator may set, in basis points
  FirstList, FirstFee,   \* what is in force to begin with
  FirstTerms,            \* the coupons there may be to begin with
  EnvFee,       \* PLATFORM_FEE_BPS of the environment
  Terms,        \* what the coupon may be edited to
  Asks,         \* what is asked for: [date, slot, guests, code]
  MaxBookings,  \* bound on booking rows
  MaxEdits      \* bound on edits of prices, fee and coupon, late writes and failed reads

\* Money is in paise, a column that may be empty is Absent.
OrAbsent(S) == S \union {Absent}
PriceList == [base : Nat, weekend : OrAbsent(Nat), extra : OrAbsent(Nat), day : OrAbsent(Nat),
              parties : SUBSET Slots]
CouponTerms == [kind : {"PERCENTAGE", "FIXED"}, value : Nat, cap : OrAbsent(Nat),
                min : OrAbsent(Nat), max : OrAbsent(Nat), perUser : OrAbsent(Nat),
                active : BOOLEAN]

\* The row: its terms, whether now is between startsAt and endsAt, and the
\* redemptions counted.
Coupon == [kind : {"PERCENTAGE", "FIXED"}, value : Nat, cap : OrAbsent(Nat),
           min : OrAbsent(Nat), max : OrAbsent(Nat), perUser : OrAbsent(Nat),
           active : BOOLEAN, id : Nat, open : BOOLEAN, count : Nat]

ASSUME CheckoutOK ==
  /\ Absent \notin Nat \union CouponTerms \union Coupon
  /\ Lists \subseteq PriceList /\ Terms \subseteq CouponTerms
  /\ Date \subseteq Nat /\ Weekend \subseteq Date
  /\ Fees \subseteq 0 .. 3000               \* EDITABLE_SETTINGS' bounds
  /\ FirstList \in Lists /\ FirstFee \in Fees /\ EnvFee \in Nat /\ FirstTerms \subseteq Terms
  /\ Asks \subseteq [date : Date, slot : Slots, guests : Nat \ {0}, code : BOOLEAN]
  /\ MaxBookings \in Nat /\ MaxEdits \in Nat

VARIABLES
  list,         \* the listing's price columns and the parties it offers
  stored,       \* the PLATFORM_FEE_BPS row
  fee,          \* the copy the process computes with
  saving,       \* fees stored but not yet copied
  coupon,       \* the Coupon row, Absent when there is none
  bookings,     \* Booking rows, in the order they were committed
  job,          \* what each request is doing
  edits,        \* how many of them so far
  offered       \* ghost: every list, fee and coupon terms ever in force

vars == <<list, stored, fee, saving, coupon, bookings, job, edits, offered>>
offer == <<list, stored, fee, saving, offered>>
prices == <<offer, edits>>

\* PENDING stands for PAYMENT_PENDING too, CONFIRMED for COMPLETED, and
\* CANCELLED for EXPIRED and FAILED.
Dead == {"CANCELLED"}
Earned == {"CONFIRMED"}
Standing == Earned \union {"PENDING"}

Idle == [step |-> "idle"]
At(r, step) == job[r].step = step
Go(r, j) == job' = [job EXCEPT ![r] = j]
Stop(r) == Go(r, Idle)                      \* answered, refused or thrown

Ids == DOMAIN bookings
InTx(r) == job[r].step \in {"increment", "count", "commit"}

NoLock == TRUE                              \* mutant

\* The coupon's row is locked from the counter's update to the commit.
RowFree == ~\E r \in Request : job[r].step \in {"count", "commit"} /\ job[r].ask.code

UsedBy(u) ==
  Cardinality({i \in Ids : /\ bookings[i].coupon
                           /\ bookings[i].user = u
                           /\ bookings[i].status \notin Dead})

-----------------------------------------------------------------------------
(* POST /bookings.                                                         *)

\* requireApprovedProperty and assertSlot: the prices are read here.
Open(r, u, ask) ==
  /\ At(r, "idle")
  /\ Len(bookings) < MaxBookings
  /\ SlotOffered(list, ask.slot)
  /\ Go(r, [step |-> "find", user |-> u, ask |-> ask, list |-> list])
  /\ UNCHANGED <<prices, coupon, bookings>>

Same(i, j) ==
  /\ bookings[i].user = j.user /\ bookings[i].status = "PENDING"
  /\ bookings[i].ask.date = j.ask.date /\ bookings[i].ask.slot = j.ask.slot

\* The prices read with the request, and the fee and coupon of this moment.
Priced(j, c) ==
  [step |-> "insert", user |-> j.user, ask |-> j.ask,
   coupon |-> IF c = Absent THEN Absent ELSE c.id,
   limit |-> IF c = Absent THEN Absent ELSE c.perUser,
   amounts |-> Breakdown(j.list, {j.ask.date}, j.ask.guests, j.ask.slot, fee, c)]

\* An open booking for the same stay is handed back instead of a new one.
Find(r) ==
  /\ At(r, "find")
  /\ \/ (\E i \in Ids : Same(i, job[r])) /\ Stop(r)
     \/ /\ ~\E i \in Ids : Same(i, job[r])
        /\ Go(r, IF job[r].ask.code THEN [job[r] EXCEPT !.step = "coupon"]
                 ELSE Priced(job[r], Absent))
  /\ UNCHANGED <<prices, coupon, bookings>>

ReadCoupon(r) ==
  /\ At(r, "coupon")
  /\ IF coupon = Absent THEN Stop(r)
     ELSE Go(r, [step |-> "validate", user |-> job[r].user, ask |-> job[r].ask,
                 list |-> job[r].list, terms |-> coupon])
  /\ UNCHANGED <<prices, coupon, bookings>>

\* The minimum is judged on the listing as it is now, the booking priced as
\* it was when the request came in.
Validate(r) ==
  /\ At(r, "validate")
  /\ LET j == job[r]
         now == Subtotal(Lines(list, {j.ask.date}, j.ask.guests, j.ask.slot))
     IN  IF CouponValid(j.terms, now, UsedBy(j.user))
           THEN Go(r, Priced(j, j.terms)) ELSE Stop(r)
  /\ UNCHANGED <<prices, coupon, bookings>>

\* Only a cancellation and an expiry delete the night.
Taken(d) == \E i \in Ids : bookings[i].ask.date = d /\ ~bookings[i].freed

Exists(id) == coupon # Absent /\ coupon.id = id

\* The insert waits for another one of the same night.  It has no coupon
\* row to point at when that one was deleted meanwhile.
Insert(r) ==
  /\ At(r, "insert")
  /\ ~\E q \in Request : InTx(q) /\ job[q].ask.date = job[r].ask.date
  /\ Go(r, IF Taken(job[r].ask.date) \/ (job[r].ask.code /\ ~Exists(job[r].coupon)) THEN Idle
           ELSE [job[r] EXCEPT !.step = IF job[r].ask.code THEN "increment" ELSE "commit"])
  /\ UNCHANGED <<prices, coupon, bookings>>

\* incrementRedemption, on the row as it is once the lock is free.
Increment(r) ==
  /\ At(r, "increment")
  /\ RowFree
  /\ IF coupon.active /\ (coupon.max = Absent \/ coupon.count < coupon.max)
       THEN Go(r, [job[r] EXCEPT !.step = "count"]) ELSE Stop(r)
  /\ UNCHANGED <<prices, coupon, bookings>>

TooMany(used, limit) == used > limit

\* assertPerUserLimit counts the request's own, uncommitted booking too.
CountUses(r) ==
  /\ At(r, "count")
  /\ LET limit == job[r].limit
     IN  IF limit # Absent /\ TooMany(UsedBy(job[r].user) + 1, limit)
           THEN Stop(r) ELSE Go(r, [job[r] EXCEPT !.step = "commit"])
  /\ UNCHANGED <<prices, coupon, bookings>>

Commit(r) ==
  /\ At(r, "commit")
  /\ LET j == job[r]
     IN  /\ bookings' = Append(bookings,
                [user |-> j.user, ask |-> j.ask, coupon |-> j.ask.code, amounts |-> j.amounts,
                 status |-> "PENDING", freed |-> FALSE, refunded |-> 0])
         /\ coupon' = IF j.ask.code THEN [coupon EXCEPT !.count = @ + 1] ELSE coupon
  /\ Stop(r)
  /\ UNCHANGED prices

-----------------------------------------------------------------------------
(* What becomes of a booking.  Every handler writes by id what it decided  *)
(* on an earlier read, whatever the booking has become since; and all of   *)
(* them were PENDING once.                                                 *)

Write(i, row) == bookings' = [bookings EXCEPT ![i] = row]

\* The write is late when the booking is no longer what the handler read.
ByThen(i, read) ==
  IF bookings[i].status = read THEN UNCHANGED edits
  ELSE edits < MaxEdits /\ edits' = edits + 1

\* createOrder.
Order(i) ==
  /\ bookings[i].status # "PENDING"
  /\ ByThen(i, "PENDING")
  /\ Write(i, [bookings[i] EXCEPT !.status = "PENDING"])
  /\ UNCHANGED <<offer, coupon, job>>

\* The settlement, which may have read its nights before they were deleted.
Settle(i) ==
  /\ bookings[i].status \notin Earned
  /\ ByThen(i, "PENDING")
  /\ Write(i, [bookings[i] EXCEPT !.status = "CONFIRMED"])
  /\ UNCHANGED <<offer, coupon, job>>

\* expireAbandoned: the redemption is not given back.
Expire(i) ==
  /\ ByThen(i, "PENDING")
  /\ Write(i, [bookings[i] EXCEPT !.status = "CANCELLED", !.freed = TRUE])
  /\ UNCHANGED <<offer, coupon, job>>

\* cancel: decrementRedemption when the booking, as read, was not confirmed.
Cancel(i) ==
  /\ \E read \in {"PENDING", "CONFIRMED"} :
       LET back == bookings[i].coupon /\ read # "CONFIRMED"
       IN  /\ ByThen(i, read)
           /\ back => RowFree
           /\ coupon' = IF back /\ coupon.count > 0
                          THEN [coupon EXCEPT !.count = @ - 1] ELSE coupon
  /\ Write(i, [bookings[i] EXCEPT !.status = "CANCELLED", !.freed = TRUE])
  /\ UNCHANGED <<offer, job>>

\* A partial refund completes; the booking stays what it was.
Refund(i, amount) ==
  /\ bookings[i].status \in Earned
  /\ bookings[i].refunded = 0
  /\ amount > 0 /\ amount < bookings[i].amounts.total
  /\ Write(i, [bookings[i] EXCEPT !.refunded = amount])
  /\ UNCHANGED <<prices, coupon, job>>

\* The last paisa is refunded: of a confirmed stay, or of a dead booking whose
\* order was paid, before or after.  A stay that is over keeps its status, and
\* a refunded booking its nights, unless they were freed before.
RefundAll(i) ==
  /\ bookings[i].status \in Earned \union Dead
  /\ bookings[i].refunded # bookings[i].amounts.total
  /\ \E status \in {"REFUNDED"} \union ({bookings[i].status} \intersect Earned) :
       Write(i, [bookings[i] EXCEPT !.status = status, !.refunded = bookings[i].amounts.total])
  /\ UNCHANGED <<prices, coupon, job>>

-----------------------------------------------------------------------------
(* Edits by the host and the administrator.                                *)

Edit(l, f, t) ==
  /\ edits < MaxEdits
  /\ edits' = edits + 1
  /\ offered' = [lists |-> offered.lists \union l, fees |-> offered.fees \union f,
                 terms |-> offered.terms \union t]

\* PATCH /properties/:id.
EditPrices(l) ==
  /\ list # l
  /\ list' = l
  /\ Edit({l}, {}, {})
  /\ UNCHANGED <<stored, fee, saving, coupon, bookings, job>>

\* PlatformSettingsService.update: the row first, then the copy.
StoreFee(f) ==
  /\ stored # f
  /\ stored' = f
  /\ saving' = saving \union {f}
  /\ Edit({}, {f}, {})
  /\ UNCHANGED <<list, fee, coupon, bookings, job>>

CopyFee(f) ==
  /\ f \in saving
  /\ fee' = f
  /\ saving' = saving \ {f}
  /\ UNCHANGED <<list, stored, coupon, bookings, job, edits, offered>>

\* onModuleInit of a new process; the old one's requests are gone.  A failed
\* read is logged, and the environment's fee is charged.
Restart ==
  /\ \/ fee' = stored /\ UNCHANGED edits
     \/ fee' = EnvFee /\ edits < MaxEdits /\ edits' = edits + 1
  /\ saving' = {}
  /\ job' = [r \in Request |-> Idle]
  /\ UNCHANGED <<list, stored, coupon, bookings, offered>>

CouponRow(t, id, open, count) ==
  [kind |-> t.kind, value |-> t.value, cap |-> t.cap, min |-> t.min, max |-> t.max,
   perUser |-> t.perUser, active |-> t.active, id |-> id, open |-> open, count |-> count]

\* PATCH /admin/coupons/:id: any terms and dates, the counter kept.
EditCoupon(t, open) ==
  /\ coupon # Absent
  /\ RowFree
  /\ coupon' = CouponRow(t, coupon.id, open, coupon.count)
  /\ coupon' # coupon
  /\ Edit({}, {}, {t})
  /\ UNCHANGED <<list, stored, fee, saving, bookings, job>>

\* startsAt or endsAt passes.
WindowMoves ==
  /\ coupon # Absent
  /\ coupon' = [coupon EXCEPT !.open = ~@]
  /\ Edit({}, {}, {})
  /\ UNCHANGED <<list, stored, fee, saving, bookings, job>>

Unasked == TRUE                             \* mutant

\* No insert that refers to the coupon's row is waiting to be committed.
Unreferenced == ~\E r \in Request : InTx(r) /\ job[r].ask.code

\* DELETE /admin/coupons/:id waits for the bookings being inserted with it;
\* the others keep their amounts and lose the reference (onDelete: SetNull).
DeleteCoupon ==
  /\ coupon # Absent
  /\ Unreferenced
  /\ coupon' = Absent
  /\ bookings' = [i \in Ids |-> [bookings[i] EXCEPT !.coupon = FALSE]]
  /\ Edit({}, {}, {})
  /\ UNCHANGED <<list, stored, fee, saving, job>>

NewCoupon(t, open) == CouponRow(t, edits, open, 0)

CreateCoupon(t, open) ==
  /\ coupon = Absent
  /\ coupon' = NewCoupon(t, open)
  /\ Edit({}, {}, {t})
  /\ UNCHANGED <<list, stored, fee, saving, bookings, job>>

-----------------------------------------------------------------------------
Init ==
  /\ list = FirstList
  /\ stored = FirstFee /\ fee = FirstFee
  /\ saving = {}
  /\ bookings = <<>>
  /\ job = [r \in Request |-> Idle]
  /\ edits = 0
  /\ \/ coupon = Absent /\ offered = [lists |-> {list}, fees |-> {fee}, terms |-> {}]
     \/ \E t \in FirstTerms, open \in BOOLEAN :
          /\ coupon = NewCoupon(t, open)
          /\ offered = [lists |-> {list}, fees |-> {fee}, terms |-> {t}]

Create(r) ==
  \/ \E u \in User, ask \in Asks : Open(r, u, ask)
  \/ Find(r) \/ ReadCoupon(r) \/ Validate(r)
  \/ Insert(r) \/ Increment(r) \/ CountUses(r) \/ Commit(r)

Live(i) ==
  \/ Order(i) \/ Settle(i) \/ Expire(i) \/ Cancel(i) \/ RefundAll(i)
  \/ Refund(i, bookings[i].amounts.total - 1)

Administer ==
  \/ \E l \in Lists : EditPrices(l)
  \/ \E f \in Fees : StoreFee(f) \/ CopyFee(f)
  \/ \E t \in Terms, open \in BOOLEAN : EditCoupon(t, open) \/ CreateCoupon(t, open)
  \/ WindowMoves \/ DeleteCoupon

Next ==
  \/ \E r \in Request : Create(r)
  \/ \E i \in Ids : Live(i)
  \/ Administer
  \/ Restart

Spec == Init /\ [][Next]_vars

-----------------------------------------------------------------------------
(* Properties.                                                             *)

\* PayoutsService.statement: what one host is owed for some stays.
Net(i) == SettleStay(bookings[i].amounts.total, bookings[i].amounts.fee, bookings[i].refunded)
Payout(stays) ==
  SumFunction([i \in {j \in stays : bookings[j].status \in Earned} |-> Net(i)])

\* Types.  A request in its transaction names a coupon that is still there: the
\* delete waits for it (schema.prisma:378), and no stay is refunded beyond its
\* total.
TypeOK ==
  /\ list \in Lists /\ stored \in Fees /\ fee \in Fees \union {EnvFee} /\ saving \subseteq Fees
  /\ coupon \in Coupon \union {Absent}
  /\ \A r \in Request : InTx(r) /\ job[r].ask.code => Exists(job[r].coupon)
  /\ \A i \in Ids : /\ bookings[i].user \in User
                    /\ bookings[i].amounts.total \in Nat
                    /\ bookings[i].refunded \in 0 .. bookings[i].amounts.total
  /\ edits \in 0 .. MaxEdits

StandingBy(u) ==
  Cardinality({i \in Ids : /\ bookings[i].coupon /\ bookings[i].user = u
                           /\ bookings[i].status \in Standing /\ ~bookings[i].freed})

\* No guest has more bookings standing on their nights with the coupon than
\* the most generous limit it ever had, however many requests run side by side:
\* the counter's row lock makes the count of the second one see the first
\* (coupons.service.ts:46-89).  Not so with a booking that was cancelled or
\* expired and written back by a late order or settlement, its nights gone
\* (payments.service.ts:262-270, 735-739): the count did not see it.
PerUserLimit ==
  \A u \in User :
    StandingBy(u) > 0 =>
      \E t \in offered.terms : t.perUser = Absent \/ StandingBy(u) <= t.perUser

\* Every booking is charged by the night and by the head, plus the fee and
\* less the discount, to the paisa, under a price list and coupon terms that
\* were in force and a fee an administrator set, or the environment's when the
\* settings could not be read (platform-settings.service.ts:66-98), whatever
\* was edited while it was made (pricing.util.ts:45-137,
\* bookings.service.ts:141-149).
ChargedFairly ==
  \A i \in Ids :
    LET b == bookings[i]
    IN  \E l \in offered.lists, f \in offered.fees \union {EnvFee},
           c \in offered.terms \union {Absent} :
          /\ b.coupon => c # Absent
          /\ Fair(b.amounts, l, {b.ask.date}, b.ask.guests, b.ask.slot, f, c)

\* The platform never owes its hosts more than it holds of what the guests
\* paid, refunds taken off (payouts.service.ts:170-199, payout-math.ts:17-73).
HoldsWhatItOwes ==
  LET paid == {i \in Ids : bookings[i].status \in Earned}
  IN  Payout(Ids) <= SumFunction([i \in paid |->
                                    bookings[i].amounts.total - bookings[i].refunded])

=============================================================================
