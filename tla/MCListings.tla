---------------------------- MODULE MCListings ----------------------------
(* A small instance of Listings: one listing, two requests at once. *)
EXTENDS Listings, TLC

CONSTANTS p1, r1, r2

EitherRequest == Permutations({r1, r2})
=============================================================================
