--------------------------- MODULE MCResponseCache ---------------------------
(* A small instance of ResponseCache: one listing with two reviewed stays. *)
EXTENDS ResponseCache

CONSTANTS s1, s2, w1, w2, r1
=============================================================================
