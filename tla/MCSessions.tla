---------------------------- MODULE MCSessions ----------------------------
(* A small instance of Sessions: two tabs, one of them with two calls. *)
EXTENDS Sessions

CONSTANTS b1, b2, c1, c2, c3

TwoTabs == [c \in Call |-> IF c = c3 THEN b2 ELSE b1]
=============================================================================
