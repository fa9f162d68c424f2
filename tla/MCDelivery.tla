---------------------------- MODULE MCDelivery ----------------------------
(* A small instance of Delivery: one confirmation, by email and WhatsApp. *)
EXTENDS Delivery, TLC

CONSTANTS e1, r1, r2

Confirmation == [e \in Event |-> "BOOKING_CONFIRMED"]
\* A guest who muted the event, and one who is told of it over both channels.
MutedOrBoth == {{"whatsapp"}, {"bookingConfirmation", "whatsapp"}}
=============================================================================
