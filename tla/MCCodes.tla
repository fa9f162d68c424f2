------------------------------ MODULE MCCodes ------------------------------
(* Small instances of Codes. *)
EXTENDS Codes, TLC

CONSTANTS r1, r2, a1, a2

AnyOfBoth == Permutations({r1, r2}) \union Permutations({a1, a2})
=============================================================================
