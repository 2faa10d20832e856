------------------------------ MODULE MCLoyalty -------------------------------
(* A small instance of Loyalty for TLC. *)
EXTENDS Loyalty, TLC

CONSTANTS m1, b1

\* All bookings belong to m1, whose two points pay for b1 or for another booking and part of
\* b1; other members receive gifts.
OneOwner == [b \in Bookings |-> m1]
Totals == [b \in Bookings |-> IF b = b1 THEN 2 ELSE 1]
TwoPoints == [m \in Members |-> IF m = m1 THEN 2 ELSE 0]

Untouched(b) ==
    /\ status[b] = "awaiting" /\ intent[b] = "awaiting"
    /\ points[b].hold = 0 /\ ~points[b].frozen /\ points[b].redeemed = 0
    /\ expiring[b] = "no"

\* Bound: b1 goes through everything while the other booking is untouched; once that one takes
\* points, nobody has a card checkout, b1 does not expire and no points are given back.
\* Only m1 may leave.
Scope ==
    /\ closed \subseteq {m1}
    /\ \/ \A b \in Bookings \ {b1} : Untouched(b)
       \/ /\ \A a \in Attempts : attempt[a].status = "none"
          /\ expiring[b1] = "no" /\ \A b \in Bookings : returned[b] = 0

LoyaltySymmetry == Permutations(Attempts)
=============================================================================
