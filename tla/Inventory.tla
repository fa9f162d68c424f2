----------------------------- MODULE Inventory ------------------------------
(***************************************************************************)
(* What the booking engine promises about one listing's dates, with no     *)
(* word of payments, requests or the calendar: a booking takes all its     *)
(* nights at once and only if nobody holds any of them, is sold only while *)
(* it holds them, and gives them back all at once, sold no more.  A sale   *)
(* under way while the nights are given back may be torn: of such a        *)
(* booking alone nothing is promised about when it is sold.                *)
(***************************************************************************)
CONSTANTS Booking, Date, StayOf

VARIABLES
  held,   \* the nights each booking holds
  sold,   \* the bookings that are confirmed
  torn    \* the bookings whose sale met the release of their nights

Init == /\ held = [b \in Booking |-> {}]
        /\ sold = {}
        /\ torn = {}

Free(b) == \A c \in Booking : StayOf[b] \intersect held[c] = {}

Hold(b) == /\ held[b] = {}
           /\ Free(b)
           /\ held' = [held EXCEPT ![b] = StayOf[b]]
           /\ UNCHANGED <<sold, torn>>

\* Only what is held and not yet sold can be sold and released at once.
Tear(b) == /\ held[b] = StayOf[b] \/ b \in torn
           /\ torn' = torn \union {b}
           /\ UNCHANGED <<held, sold>>

Sell(b) == /\ held[b] = StayOf[b] \/ b \in torn
           /\ sold' = sold \union {b}
           /\ UNCHANGED <<held, torn>>

\* Completed or refunded: no longer a sale, its nights stay taken.
Close(b) == /\ sold' = sold \ {b}
            /\ UNCHANGED <<held, torn>>

Release(b) == /\ held' = [held EXCEPT ![b] = {}]
              /\ sold' = sold \ {b}
              /\ UNCHANGED torn

Next == \E b \in Booking : Hold(b) \/ Tear(b) \/ Sell(b) \/ Close(b) \/ Release(b)

Spec == Init /\ [][Next]_<<held, sold, torn>>
=============================================================================
