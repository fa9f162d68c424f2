# Verification of the farm-booking engine

TLA+ models of the NestJS API in `src/apps/api`, TLC configurations that check
them on small instances, and theorems proved with TLAPS for every instance.

## The system

Guests book farm stays that hosts list. The API (`apps/api`, NestJS, Prisma on
PostgreSQL, Redis for queue and cache) is called by the web site (`apps/web`)
and by the payment gateway PhonePe. State lives in PostgreSQL; several
processes may serve requests, and nothing but the database orders them.

| part | state it keeps | operations |
|---|---|---|
| bookings | `Booking.status`, `BookingNight` rows (unique per listing and date) | create, cancel, complete, recovery when read |
| availability | `Availability.status` per date | check a range, block, unblock, mark booked, release |
| payments | `Payment.status` (partial unique index: one open per booking), `Refund` rows | create an order, verify, webhook, return, reconcile, settle, fail, expire, refund |
| payment gateway | orders and refunds at PhonePe | pay, fail, pay back; answers, or does not |
| coupons, pricing, settings | `Coupon` rows with their counter, price columns, the fee in a row and in memory | price a stay, validate, redeem, give back, edit, delete |
| admin, payouts | writes the rows of the others | cancel, refund, reconcile, sweep, approve, trust, disable; a host's statement |
| delivery, notifications | notification rows (deduplicated), BullMQ jobs, in-process tasks | notify, enqueue, deliver, retry, drain |
| auth | one-time codes in Redis, `RefreshToken` rows, who owns a verified address | request and answer a code, sign in and up, rotate, revoke |
| web client | refresh cookie, stored access token, a refresh per tab | call, renew, replay, sign out |
| response cache | entries under a generation number in Redis; the website's page | store, look up, invalidate, rebuild |
| properties, agreements, owner | listing status and badge, agreement versions and signatures, KYC | edit, submit, approve, suspend, publish, sign, delete |
| reviews | ratings, the listing's average | create, edit, moderate, remove |
| search, media, mail, locations, wishlist, support, amenities, subscription plans, audit, health | little or none of their own | see `PROJECT.json` for each |

How they interact: a handler reads rows, often calls the gateway, then writes in
a transaction, then calls the next service (`cancel` calls `payments` through a
callback; `payments` calls `availability` inside its transaction; a read of an
open booking runs the reconciliation and the expiry). Between any two of these
awaits any other request runs. That is where the difficult behaviour is:

* a status read before an await is judged after it (cancel, createOrder,
  markFailed, expireAbandoned, deletePayment, block);
* transactions run at PostgreSQL's default isolation, READ COMMITTED, and only
  `createOrder` locks a row explicitly;
* webhooks are delivered again and again, in any order, and race the guest's
  return, the page's polling and the administrator's buttons;
* the gateway may be silent, refuse, or take a refund whose answer never comes;
* a process may be restarted between two commits;
* Redis commands are not a transaction: of two requests about one code, each
  acts on the key as it read it, and a command that timed out may have been
  done;
* what is cached (the fee, an answer, a page, an access token) may be stale
  when it is used, and a failed read of the settings goes unnoticed.

`PROJECT.json` lists each of these at its line under `hazards`.

## Modules

| module | what it is |
|---|---|
| `Statuses` | the booking and payment transition tables and the named status sets (`booking-status.ts`, `payment-status.ts`) |
| `Inventory` | the abstract promise for a listing's dates: held all or nothing, by one booking, sold only while held, but for a sale torn by a release |
| `Reservations` | the booking engine: bookings, nights, calendar, payments, full refunds, coupon counter, gateway, and the handlers in flight |
| `Refunds` | the refunds of one captured payment, statement by statement: rows, gateway, webhook, reconcile, finalisation |
| `Pricing` | the arithmetic of a stay, a discount and a payout, with a reference definition beside it |
| `Checkout` | `Pricing` in use: booking requests while prices, fee and coupon are edited, and what the bookings come to |
| `Delivery` | notifications, the queue, its retries, the in-process fallback, restarts and crashes |
| `Sessions` | refresh-token rotation and the browser's tabs that use it |
| `Codes` | one-time codes for one address and the accounts they open |
| `Listings` | a listing's status, badge and deletion, the agreement, KYC, and the bookings that depend on them |
| `Reviews` | reviews and the rating recomputed at READ COMMITTED |
| `ResponseCache` | extends `Reviews`: what visitors see of the rating through the response cache and the website's page |
| `MCReservations`, `MCRefunds`, `MCDelivery`, `MCListings`, `MCSessions`, `MCCodes`, `MCResponseCache`, `MCCheckout` | small instances for TLC |
| `ReservationsSound` | proofs, a section each: types, and that handlers name rows that belong together; nights are never held twice, dead bookings hold none; confirmed bookings hold their nights but for torn ones, and `Reservations` implements `Inventory`; confirmed is paid for, refunds are real, one payment is open, the coupon's limit holds, captured money stays on record; blocked dates are free; redemptions are counted |
| `RefundsSound` | proof: types of `Refunds`, completed and refunded mean given back |
| `DeliverySound` | proof: types of `Delivery`, copies are accounted for, a request hands over what it owes |
| `ListingsSound` | proof: types of `Listings`, one agreement in force, the queue is qualified, only the approved is sold |
| `CheckoutSound` | proof: the arithmetic of `Pricing` for every input; types of `Checkout`, the per-user limit, fair charges, hosts are owed no more than is held |
| `SessionsSound` | proof: types, one token per session, no forks, the cookie stays good |
| `CodesSound` | proof: types, a code opens once, guesses and sends are bounded, proved addresses were proved |
| `RatingsSound` | proof: types of `Reviews` and `ResponseCache`, the rating is repaired, kept answers are fresh |

A definition marked `mutant` is a plausible bug beside the definition it
replaces; `PROJECT.json` pairs them with the property that notices.

### How `Reservations` corresponds to the code

`booking`, `nights`, `calendar`, `payment`, `refund`, `redeemed` are the columns
and rows of the database; `order` and `payback` are the gateway's side; `aged`
says which bookings are older than `BOOKING_EXPIRE_MINUTES`; `today` is the
date. `job[r]` is a request in flight: the statement it stands at (`step`), the
booking and payment it is about, what it read before (`seen`, `dates`), and what
its caller does next (`then`). One action is one database transaction, or the
reads and gateway calls between two transactions; what it read is kept in the
job and used later, true or not, as the handler does.

* A transaction that only writes, or reads under the lock it needs, is one
  action. Nothing sets an isolation level, so transactions run at READ
  COMMITTED, and three of them are two actions each, because another can
  commit in their middle: the settlement claims its payment and reads nights and
  booking (`SettleTx`), then writes both by id (`SettleCommit`); the
  cancellation (`CancelTx`, `CancelCommit`) and the expiry (`ExpireTx`,
  `ExpireCommit`) delete the nights and release the dates before they reach the
  booking's row. In between they hold the rows they wrote (`Locked`,
  `LockedDates`), and others wait; what they deleted is seen by others at the
  commit only.
* The expiry locks the booking, then its payments; the settlement the other way
  round; calendar rows are locked in between. `Deadlock` is PostgreSQL aborting
  one of two that wait for each other.
* Three history variables are written by every step of a handler and read by no
  guard: `torn`, the bookings of which a settlement and a release were in flight
  between their two actions; `crossed`, the bookings made with the coupon at
  which two handlers worked at once; `raced`, the dates which one handler was
  about to block while another was creating a booking of them. The properties
  that need an exception name one of them, and no other overlap is excepted.
* `VerifyCheckout` may also find an order unpaid that is paid: the provider
  answers so on an HTTP error or when the client names another payment. A
  settlement asks the gateway again first, which may be silent
  (`SettleRefused`).
* `Die` is a killed process, or any awaited call that throws (audit row,
  notification row, gateway): what was committed stays, the rest is not done.
* Payments of a booking beyond the ids in `Payment` do not happen, days beyond
  `LastDay` do not come, a booking id is created at most once.

Abstracted: amounts (every payment is of the full price, every refund a full
one), who may call what (roles and ownership), the commission row (written with
the confirmation, read by nothing here), notifications and audit rows (their
failure is `Die`), the idempotent hand-back of an already open booking, and the
account, slot and price checks before a booking. The refund's rows are taken as
one status per payment and each of requesting, recording and finalising as one
step; the races and crashes between those statements are those of `Refunds`. The
hand-back, prices and slots are in `Checkout`, who may list and sell in
`Listings`. An administrator's cancellation always blocks the nights it read;
the code does so when asked to, and reads them just before `cancel` reads them
again.

### How `Refunds` corresponds to the code

`booking` and `payment` are the two status columns, `row`, `amount`, `known`
the `Refund` rows (`known`: `providerRefundId` is set), `remote` the refund at
PhonePe under our own id, `told` the webhooks answered 200 (rows of
`ProcessedWebhookEvent`, and PhonePe's side of it: they are not sent again). One
action is one awaited statement of `requestRefundForBooking` (`AskRead` to
`AskRecord`), `completeRefundFromProvider` (`Report` or `Reconcile`, then
`ReportWrite`) and `finalizeRefundedPayment` (`FinalRead` to `FinalBooking`).
A read and the look-up that directly follows it are one action, as are
the loop's look-up and answer per row in `reconcileRefunds`. `Cancel` and
`Complete` are one step each: their races are those of `Reservations`. The
gateway never gives back more than was captured; whether it refuses for
another reason is its choice. Amounts are small numbers; only sums and
comparisons are made of them. `RowsLeft` bounds the rows: the administrator
leaves one for the cancellation.

### How `Delivery` corresponds to the code

`rows` are the `Notification` rows, an event being one dedupeKey of one user;
`queue`, `tries` and `stalls` what BullMQ keeps of each message's job, `task`
the promises of `BackgroundWork`, `copies` what the provider accepted. `job[r]`
walks through `notify`: the preferences, the insert whose unique index may
refuse it, and per channel a look-up and an enqueue. An enqueue is answered,
refused (or there is no Redis), or times out although the job was added
(`AddLate`): the last two go to the memory of the process. `SIGTERM` closes the
server, then the worker (`Drain`), then waits for tasks up to ten seconds
(`Exit`); `Crash` does none of it. Redis keeps nothing on disk
(`docker-compose.prod.yml`), so `RedisRestarts` loses every job; the worker ends
the one it has in hand (`FinishOrphan`) and cannot try it again. BullMQ itself
is external: it retries as `EMAIL_JOB` and `WHATSAPP_JOB` ask, and moves a job
whose lock ran out back once. Ghosts: `mishaps` counts the accidents that can
make one more copy of a message; `dropped` holds the messages that a fault took
from the memory they were in, or whose look-up threw or found no address. No
invariant is stated of `dropped`: it is what `OwedIsTried`, a liveness property,
excuses, and everything outside it must be tried. Wording, addresses and the
choice of template are left out.

### How `Sessions` corresponds to the code

`state`, `family` and `successor` are the `RefreshToken` rows of one account,
`cookie` and `access` what the browser keeps for all its tabs, `call` the API
calls of a page, `refresh[b]` the one refresh a tab has on its way
(`refreshOnce`), `logout` a sign-out. The server's refresh reads the row
(`RefreshRead`) and claims it in a transaction of its own (`Rotate` or
`LoseRotation`). Losing the claim revokes the family and then throws inside the
transaction, which takes the revocation back: it changes nothing. Tabs are not
coordinated. The ghost `excused` says that an answer was lost or that two tabs
refreshed at once: after that the code may take the user for a thief.
`TokensLeft` bounds the rows.

### How `Codes` corresponds to the code

One address, a phone number or an e-mail address, under one purpose. Each Redis
command is a step: `challenge` is the hash with its counter, `cooling` and
`sends` the limits, `verified` the marker of a confirmed signup address;
`holder` and `proved` are the account that has the address and its
`phoneVerifiedAt` or `emailVerifiedAt`. A text is sent before the send is
counted and withdrawn if that fails, a mail after. Codes are numbers; a wrong
answer is a choice. Two details of the store matter and are kept: the counter's
`HINCRBY` makes a key again that is gone, and a withdrawal deletes the key
whatever it holds by now. Other purposes have keys of their own and are other
instances.

A sign-in by phone reads the account and then writes `phoneVerifiedAt` by its id
(`Touch`). The account may have moved to another number in between. Seen from the
address that is modelled this is two things: a sign-in by it whose account has
left finds nothing to prove here, and a sign-in by another number of its
holder's (`EnterElsewhere`, `TouchElsewhere`; `elsewhere` holds the accounts that
such a sign-in has read) proves the address if the holder took it meanwhile. The
ghost `moved` says that its holder took it so.

### How `Listings` corresponds to the code

Listings of one host; `status`, `deleted`, `trusted` are columns, `booked` says
that a booking stands in the way of deletion, `phone` and `kyc` are what the
gate asks of the host, `agreements`, `inForce`, `signed` the agreement's tables.
Every handler keeps what it read in `job[r]` and writes without asking again.
`signed` says of each row whether the owner signed: an administrator may sign in
their place, which takes the one row a version and a listing may have, but the
gate counts the owner's own only. The owner's update may carry any status; one
that equals the status read is written unchecked. Publishing is four statements
of one READ COMMITTED transaction; its `updateMany` waits for rows another
publish has updated and then takes those that are still active. KYC is never
VERIFIED by any code; the gate asks only that documents were submitted, and so
does the model. Ghosts: `onceUp` (approved some time) and `byAdmin` (put into
the queue by an administrator).

### How `Reviews` and `ResponseCache` correspond to the code

A change of a review is three statements: the row, the count, the listing. The
row of the listing is locked by its writer only, so a count does not see a
transaction that has not committed. `rating` keeps per stay the stars that went
into the average: two averages that agree by accident would hide an error. The
cache has one URL. `keyFor`, `get`, the handler and `set` are steps of a
request; a slow Redis makes the generation 0 or the entry a miss. Every write
raises the generation after it committed, without being awaited. `page` is what
the website built and shows until it is revalidated. Redis keeps nothing on
disk, so a restart begins at generation 0 again: the ghost `muddled` says that
this happened under a request that had read a key.

### How `Checkout` and `Pricing` correspond to the code

Amounts are paise, where the code's two-decimal rounding is exact; only the two
divisions round. A request reads the listing when it comes in, the coupon later
and the listing again for the coupon's minimum, then inserts, redeems and
counts in one transaction, in which the counter's row stays locked.
`bookings` keeps of each booking the amounts and what became of it: `Order`,
`Settle`, `Expire`, `Cancel`, `Refund` and `RefundAll` each write, by id, what
their handler decided on an earlier read, which may no longer be true
(`ByThen`): a dead booking can come back to life without its nights. Statuses
that amounts and coupon do not tell apart are one: PENDING stands for
PAYMENT_PENDING too, CONFIRMED for COMPLETED, CANCELLED for EXPIRED and FAILED;
`freed` says that the nights were given back. `open` is whether the present is
between the coupon's `startsAt` and `endsAt`. `Restart` reads the fee's row
again, or fails to and charges `EnvFee`, the environment's. The ghost `offered`
collects every price list, fee and coupon terms that were in force. Edits, late
writes and failed reads of the settings are bounded together by `MaxEdits`.

## Runs

Every run allows deadlock (`CHECK_DEADLOCK FALSE`): once all ids, days, edits
or codes are used up and nobody calls, the system is idle, which is not an
error.

| run | instance | shows |
|---|---|---|
| `one_booking` | 1 booking, 2 payments, 2 handlers, all faults; the page's poll is the first half of a checkout | confirmed stays are paid; one open payment; refunds are real; captured money stays on record |
| `two_bookings` | 2 bookings of one night with a coupon for 2, an order for the first, 2 handlers; create, order, report, cancel, admin cancel, sweep, block | a night is sold once; dead bookings hold nothing; confirmed ones hold their nights and BOOKED dates are held, but for torn ones; blocked dates are free; redemptions are covered; refinement of `Inventory` |
| `serial` | 2 overlapping bookings of 2 dates, 1 order for the first, 1 handler at a time, every endpoint, the gateway silent, refusing or its answer lost | no payment is lost |
| `torn_settle` | 1 booking, 1 payment, 2 handlers | a violation: see below |
| `refunds` | 3 rows, 2 units captured, 1 handler at a time, refusals | refunds stay within what was captured; the payment's status tells what the rows say; what was paid back gets recorded |
| `refunds_overlap` | 3 rows, 2 handlers, all faults | completed and refunded mean paid back |
| `delivery` | 1 event by both channels or muted, 2 requests, 2 attempts, 1 job in hand, all faults | copies are accounted for; queued jobs settle; a request lets go of nothing; what is owed is tried |
| `listings` | 1 listing, 2 requests, 2 agreement versions | one agreement in force; the queue is qualified; only the approved is sold |
| `sessions` | 2 tabs, 3 calls, 4 tokens, all faults | one token per session; no fork; the cookie stays good; calls end |
| `codes` | 2 requests, 2 accounts, phone and e-mail, 2 codes, 3 guesses, 1 send counted | a code opens once; guesses are bounded; the proved was proved |
| `ratings` | 2 stays, 2 stars, 2 writers, 2 writes, 1 reader, 1 death | the rating is repaired; kept answers are fresh; the page catches up |
| `checkout` | 2 guests, 2 requests, 2 bookings, 2 price lists, 2 fees and the environment's, 2 coupons' terms, 1 edit, late write or failed read | the per-user limit; every amount is explained by terms in force; hosts are owed no more than is held |

Two handlers are enough to break every property that is false here, and two
bookings, one shared night and two redemptions are the smallest instance where
guests compete and a counter can be given back too often. A second payment is
what a retry after a failure makes (`one_booking`); in `two_bookings` only the
first booking has an order, which is enough for one stay to be confirmed while
the other is created, cancelled, expired or blocked around it. `serial` has one
order because two paid ones of a booking break what it checks (see below).
Longer stays that overlap in part are in `serial` and in the theorems. The
coupon of `checkout` begins with one of its two terms and can be edited, or
deleted and made anew, with the other; its two stays are on a weekday and on a
weekend. Two units in up to three rows give every split of a refund into parts,
with one retry. Two requests for one event meet at its unique index, and two
attempts give a first and a last failure. Two agreement versions, of which two
requests publish the second, are where publications overlap and a signature goes
stale. Four tokens let a session rotate, fork and be stolen from; the second
call of a tab shares its refresh, the third is in the other tab. Two codes let
one be replaced or withdrawn while it is judged (what the run shows is proved
for any number of them), three guesses let the counter be short of its limit, at
it and past it. One edit falls anywhere between two reads of a request; the
amounts are odd so that the fee and the percentage round.

Fairness. In `Reservations` (`FairSpec`): a handler that awaits goes on
(`Resumes`); the gateway delivers a finished order's webhook until it is
answered, so strong fairness on its delivery and on each of the statements it
leads to (`Redelivers`). In `Refunds` the gateway ends the refunds it took and
delivers their webhook until it is answered. In `Delivery` requests and tasks
go on, a stopping process stops and Docker starts it again (`restart:` in the
compose file), and the worker gets its turn again and again although restarts
interrupt it (strong fairness, since BullMQ polls). In `Sessions` the API
answers or the request times out. In `ResponseCache` requests are answered,
entries have a time to live, and somebody visits an aged page; no write has to
happen and none has to be announced. Otherwise nothing is assumed of guests,
hosts or administrators.

### What the code does against its own documents

`torn_settle` checks one property and TLC finds it violated: a cancellation
commits between the settlement's read of the nights and its write, and leaves a
CONFIRMED booking without nights.

Other promises hold only while requests do not overlap, or but for what a named
history variable remembers. Each of the following is one step away from a
passing run: add the second request or the fault to its configuration, or take
the named exception out of the property, and TLC shows the behaviour.

| property, run | change | behaviour |
|---|---|---|
| `OnlyTornLoseNights`, `BookedMeansHeld`, `SellsDates`, `two_bookings` | without `torn` | the torn settlement: the booking stays CONFIRMED without nights and its date BOOKED. When another guest books the night and opens an order between the two commits, as a third handler, or a second after the cancellation died, both stays get CONFIRMED for one night (`docs/architecture.md:111-118`) |
| `BlockedIsFree`, `two_bookings` | without `raced` | block, or an administrator's cancellation, blocks a date a guest is booking |
| `RedemptionsCovered`, `two_bookings` | without `crossed` | two cancellations of one booking give its redemption back twice |
| `CapturedStaysRecorded`, `one_booking` | without FAILED, or without "none" | a handler that learned the order failed writes FAILED over a capture; deletePayment deletes one |
| `NoPaymentLost`, `serial` | 2 requests | a cancellation that read PAYMENT_PENDING lands after the settlement: cancelled, captured, not refunded (`bookings.service.ts:354`) |
| `NoPaymentLost`, `serial` | fault `die` | a process dies between the settlement's commit and its refund request (`payments.service.ts:836`): the money stays (`docs/maintenance.md:105-106` says "no payment is lost either way") |
| `NoPaymentLost`, `serial` | 2 orders of one booking | verify fails an order that can still be paid, a second is opened, the guest pays both: the refund of the one marks the booking REFUNDED and the other is kept (`payments.service.ts:1087`) |
| `RefundRecorded`, `refunds` | fault `lostReply` | the gateway's answer to a refund is lost: never recorded, never asked about, never retried (`docs/deployment.md:369-370` says the reconcile action asks) |
| `AskedWithinCaptured`, `refunds` | 2 requests | a refund that completes while the next one is requested makes the two exceed what was captured |
| `PaymentTellsRefunds`, `refunds` | fault `die` | a handler that dies before the finalisation leaves the payment REFUND_PENDING for good |
| `PerUserLimit`, `checkout` | `freed` bookings counted | createOrder or the settlement, having read PENDING, writes back a booking cancelled meanwhile, after its guest has used the coupon again (`payments.service.ts:262-270`, `735-739`) |
| `ChargedFairly`, `checkout` | without `EnvFee` | a failed read of the settings at start is only logged, and the environment's fee is charged (`platform-settings.service.ts:66-98`) |
| `HolderProved`, `codes` | without `moved` | a sign-in by the old number proves the number the account has moved to (`otp.service.ts:279-285`, `auth.service.ts:544-551`) |
| `QueueIsQualified`, `listings` | for the version in force | a version published while a listing waits, or between its gate and its write, is not asked for; neither is it of a resubmission of a listing that was in the queue when it was read (`properties.service.ts:240`) |

Writes by id after a stale read also leave the status tables of
`booking-status.ts` and `payment-status.ts`, so no property says that they are
followed: expireAbandoned expires a booking that was confirmed after it looked,
createOrder makes a dead one PAYMENT_PENDING again, markFailed writes FAILED over
whatever is there.

An administrator's signature for a listing takes the row the owner's would
need: the owner's own attempt answers `alreadySigned`, and the gate, which asks
for the owner's (`agreements.service.ts:179-183`), refuses them until the next
version. The owner's update that repeats the status it read is unchecked
(`properties.service.ts:240`): one that read APPROVED undoes a suspension.

A cancellation during a partial refund is handed that refund
(`payments.service.ts:575-583`) and the rest of the money stays. A booking that
goes from CONFIRMED to REFUNDED keeps its nights, and an expired one its coupon
redemption.

By the ghost that excuses each, also:

* `crossed` in `Codes`: `otp.service.ts:131-132` says that "only the newest code
  can ever be verified" and 258-259 that "whoever deletes the key wins", but a
  request judges the key it read and deletes the key that is there: an older
  code can be accepted after a newer one was put, and a failed send withdraws a
  newer code.
* `excused` in `Sessions`: two tabs that refresh at once with one cookie, or a
  lost answer, end in the loser's session being revoked.
* `torn` in `Reviews`: of two concurrent reviews the rating may miss one until
  the next change.
* `muddled` in `ResponseCache`: an answer read before Redis restarted may be
  kept under a generation that has come round again, until its time is up.

And without a step to check: `cancel` has no date check, where
`policies-content.ts:208` says "at any time before check-in"; nothing runs the
expiry by itself, where `policies-content.ts:192` says an unpaid reservation
"expires on its own"; `booking.dto.ts:36` calls an overnight stay "the default",
where the code assumes a night party; no code sets a host's KYC to VERIFIED,
so a payout is never payable; the owner's earnings ignore partial refunds that
the payout statement subtracts; a second approval of a listing reuses the
dedupeKey of the first and is never notified; the reply that hands back an open
booking carries a price computed anew beside the booking's stored one.

## Proofs

All theorems are about the `Spec` of their module under its assumptions on the
constants: any bookings, payments, dates, rows, events, listings, tokens, tabs,
codes, stays, guests, prices, writers, readers, handlers, endpoints and faults.
None assumes that handlers do not overlap or that nothing fails.

* `TypesHold`. Types are inductive only together with `JobSound`: a handler at
  a statement that writes a payment names a payment of the booking it names.
* `NightsHeldOnce`, `DeadHoldNothing`. The inductive invariant is
  `NightsInOrder`: nights come and go together (`AllOrNothing`), a handler that
  will release nights read them when its booking already had them, and they have
  only shrunk since (`KnowsRows`, `Shrinks`), and the one handler that adds
  nights is alone at its booking (`CreatesAlone`).
* `ConfirmedHold`, `BookedAreHeld` and the refinement `EngineSellsDates`, from
  `SalesInOrder`: whenever a settlement and a release of one booking stand
  between their two actions together the booking is torn (`TornKnown`); a
  settlement of a booking that is not torn knows the nights that are there
  (`SettleKnows`), and a release frees what the booking has (`FreesBooked`). So
  every step is a Hold, Tear, Sell, Close or Release of `Inventory`, or a stutter.
* `ConfirmedIsPaid`, `RefundsReal`, `CouponHolds`, `OneOpens`, from
  `MoneyInOrder`: a settlement or refund under way is of an order the gateway was
  paid for (`KnowsPaid`), a refund at the gateway belongs to one handler
  (`RefundsAlone`), what is recorded as settled was paid (`SettledIsPaid`), and a
  payment is opened only when no other is open (`OpenIsAlone`). `CapturedStays`
  is the action property that follows for every step but the two writes by id.
* `BlockedFree`, from `BlocksInOrder`: a date under a creation and a blocking
  together is raced (`RacedKnown`), and what a handler is about to block and is
  not raced nobody holds (`BlocksFree`). `RedemptionsCount`, from
  `CouponInOrder`: as long as nothing has crossed (`CrossedKnown`), what a
  handler read of a coupon's booking before it settles it, opens it or gives its
  redemption back is still so (`KnowsSeat`), and the counter covers the bookings
  standing (`Covered`). No theorem of `ReservationsSound` assumes anything of
  how many handlers there are, of the isolation beyond what the actions are, or
  of the faults.
* `RefundTypes`, `CompletedArePaid`, from `Sound`: a row at the gateway's door
  belongs to the one handler that made it (`DoorSound`), and the word a handler
  is about to write was true when it was given, which for a finished refund it
  stays (`WordSound`).
* `RefundedArePaid`, from `PaidSound`: the gateway never takes back more than was
  captured, what it gave back stays given, so completed rows that once came to
  the whole still do. The sums of these proofs are folds over finite sets; that
  a sum is a number, grows with its set and changes by one summand is shown by
  the smallest set for which it would fail (`Smallest`, `SumIsNat`, `SumGrows` in
  `RefundsSound`; `CheckoutSound` repeats the section, since the two extend
  different models).
* `DeliveryTyped`, `CopiesBounded` and the action property
  `OwedIsHandedOver`, from `Sound`: copies made and copies to come are counted
  together against the accidents (`MessageSound`), the row an event's
  notification writes makes one request its sender (`OneSender`), and what that
  one still owes nothing has touched (`SenderKnows`, `Unannounced`).
* `ListingsTyped`, `OneVersionInForce`, `QueueQualified`, `SoldApproved`, from
  `Sound`. The versions are 1 to some number, each used once, and the newest is
  in force; a publish whose number is still free has therefore seen and taken
  the one before (`PublishKnows`): the unique index makes the others fail, not
  the transaction. What the gate and the sale ask for, the owner's signature and
  an approval once given, never goes away (`GateKnows`, `SaleKnows`), so a
  request may rely on having read it.
* `BreakdownFair`, for every price list, finite stay, party, slot, fee and
  coupon: `Pricing` computes as the code does, `Fair` says what is owed without
  a division (fee and percentage are within half a paisa of the exact ones, and
  the discount is exactly that share or value, less only where its cap or the
  subtotal is reached), and every breakdown is fair. `CheckoutTyped`,
  `LimitKept`, `FairlyCharged` and `NeverOwesMore` follow from `Sound`: a request
  carries a list and terms that were in force and a fee that was, or the
  environment's (`ReadFair`), the request between its increment and its commit is
  alone at the coupon's row (`Holds`), and leaves room for its own booking under
  a limit the coupon once had (`WithinLimit`). The limit is counted over the
  bookings that keep their nights (`Keeping`): a booking that was ever dead has
  lost them, so a late write that brings it back changes nothing of the count,
  and `LimitKept` is about those that stand and keep them.
* `SessionHasOneToken`, `ChainHasNoFork`, `CookieStaysGood`, from `Sound`. A
  token that was replaced is revoked (`ReplacedIsRevoked`) and the new one takes
  its place in the family in the same step; a refresh under way carries the
  cookie its tab saw, and between requests nothing but the account's owner has
  revoked what the cookie names.
* `CodesClaimedOnce`, `GuessesBounded`, `SendsStayBounded`, `HoldersProved`. A
  request that is about to act on a code knows one that was made (`JobsKnow`);
  what was counted follows what the key holds plus the requests that have
  judged but not yet counted (`GuessesFollow`, `SendsFollow`), which is where
  the number of requests enters the bound; whoever is about to put an address on
  an account holds a claim (`OpensByClaim`), and a sign-in by another number that
  would prove it was read before the holder took it, which `moved` remembers.
* `RatingsTrue`, `AnswersFresh`. Generations never outrun the writes that raise
  them (`WritesCounted`), an open transaction that is alone counts what will be
  committed (`AloneIsTrue`), and a request holds a key whose generation began no
  later than the answer it will keep under it (`KeysFollow`).

The inductive invariants were also checked with TLC. With them every invariant
and every action property of the passing runs is proved but two. Only
model-checked: `AskedWithinCaptured` and `PaymentTellsRefunds`, which hold of one
handler at a time and are not theorems of `Refunds`; and liveness under fairness,
which the prover cannot do (`NoPaymentLost`, `RefundRecorded`, `QueuedSettles`,
`OwedIsTried`, `CallsEnd`, `PageCatchesUp`).

## Not modelled

Pages and forms of the website, templates and wording, e-mail and WhatsApp
transport, uploads, search and the geocoder, lists and dashboards: they keep no
state or write one row. `notifications.upsertPreferences` (two patches at once
lose one), `markRead`, `reviews.respond`, review of KYC documents, deletion of
users. Amounts of the gateway's answers (`refundCapturedAnomaly`). The request
by which the API asks the website to rebuild sooner, and an increment of the
generation that is applied after its time-out. Several API processes with a
queue each: `Delivery` has one process, as the compose file does.

## Plan

1. Two payments with several refund rows at once, and captured amounts that do
   not match: the two findings about a superfluous payment as steps of a model.
2. The rows the administrator and the owner write beside the engine: KYC
   documents, preferences, settlements of payouts.
3. Inductive invariants for `AskedWithinCaptured` and `PaymentTellsRefunds` that
   say which two handlers must meet, as `torn`, `crossed` and `raced` do for the
   booking engine, so that they need not be about one handler at a time.
