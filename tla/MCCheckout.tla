----------------------------- MODULE MCCheckout -----------------------------
EXTENDS Checkout, TLC

CONSTANTS u1, u2, r1, r2

\* One price list with every column set, one with the optional ones empty
\* and no night parties.
Full  == [base |-> 10005, weekend |-> 15050, extra |-> 333, day |-> 6001,
          parties |-> {"DAY", "NIGHT"}]
Plain == [base |-> 4999, weekend |-> Absent, extra |-> Absent, day |-> 0,
          parties |-> {"DAY"}]

\* A capped percentage for one use each, and more than a plain night for two.
Tenth == [kind |-> "PERCENTAGE", value |-> 1250, cap |-> 1000, min |-> 5000,
          max |-> Absent, perUser |-> 1, active |-> TRUE]
Flat  == [kind |-> "FIXED", value |-> 6000, cap |-> 100, min |-> Absent,
          max |-> 2, perUser |-> 1, active |-> TRUE]

MCAsks == {[date |-> 1, slot |-> "NIGHT", guests |-> 3, code |-> TRUE],
           [date |-> 2, slot |-> "NIGHT", guests |-> 2, code |-> TRUE],
           [date |-> 2, slot |-> "DAY", guests |-> 4, code |-> FALSE]}
MCLists == {Full, Plain}
MCTerms == {Tenth, Flat}
MCFirst == {Tenth}
SameGuests == Permutations(User) \union Permutations(Request)
=============================================================================
