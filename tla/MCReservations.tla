--------------------------- MODULE MCReservations ---------------------------
(***************************************************************************)
(* Small instances of Reservations.                                        *)
(***************************************************************************)
EXTENDS Reservations, TLC

CONSTANTS b1, b2, p1, p2, r1, r2

\* One booking of one night that may be paid twice.
OneStay   == (b1 :> {0})
BothForB1 == (p1 :> b1) @@ (p2 :> b1)
OnlyP1ForB1 == (p1 :> b1)

\* Two bookings that overlap in one of their nights.
Overlap   == (b1 :> {0, 1}) @@ (b2 :> {1})
\* Two bookings of one night.
SameNight == (b1 :> {0}) @@ (b2 :> {0})

Requests == Permutations({r1, r2})
RequestsAndPayments == Permutations({r1, r2}) \union Permutations({p1, p2})
=============================================================================
