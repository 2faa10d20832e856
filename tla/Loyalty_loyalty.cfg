\* Two bookings that want the two points of their member, two card payments, a second member
\* who receives gifts.
SPECIFICATION Spec
CONSTANTS
    m1 = m1
    b1 = b1
    Members = {m1, m2}
    Bookings = {b1, b2}
    Attempts = {a1, a2}
    Owner <- OneOwner
    Total <- Totals
    Opening <- TwoPoints
    Reward = 1
SYMMETRY LoyaltySymmetry
CONSTRAINT Scope
INVARIANTS LoyaltyTypeOK RedeemedOnce CardAndPointsAddUp HoldsAreCovered
CHECK_DEADLOCK FALSE \* everybody may have left and nothing be under way
