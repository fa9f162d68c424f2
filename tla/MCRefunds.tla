----------------------------- MODULE MCRefunds -----------------------------
(* Small instances of Refunds: a payment of two units, refunded in parts. *)
EXTENDS Refunds, TLC

CONSTANTS x1, x2, x3, r1, r2

RowsAndRequests == Permutations({x1, x2, x3}) \union Permutations({r1, r2})
=============================================================================
