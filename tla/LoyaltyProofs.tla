---------------------------- MODULE LoyaltyProofs -----------------------------
(***************************************************************************)
(* Proofs about Loyalty for any members, bookings, prices and number of    *)
(* payments, and about the outboxes that tell of its ledger (Notices) for  *)
(* any number of messages and workers.  The two share no variable.         *)
(***************************************************************************)
EXTENDS Loyalty, Notices, SumTheorems, TLAPS

\* While confirm_points_booking is under way, points cover the booking and stay there.
CallFacts ==
    \A b \in Bookings :
        call[b] # "idle" => points[b].started /\ Allocation(b) = Total[b]

\* A checkout that is paid, or can be, has a live attempt for money, and points it was
\* computed with are frozen.
CardFacts ==
    \A a \in Attempts, b \in Bookings :
        attempt[a].booking = {b} /\ checkout[a] \in {"open", "paid"} =>
            /\ attempt[a].status \in {"pending", "unknown", "succeeded"}
            /\ attempt[a].amount > 0
            /\ attempt[a].amount + Allocation(b) = Total[b]
            /\ points[b].hold > 0 => points[b].frozen

LoyaltyInv == LoyaltyTypeOK /\ RedeemedOnce /\ CallFacts /\ CardFacts

-----------------------------------------------------------------------------
(* The types in parts, and what a saved row does to them.              *)

PointsRow == [hold : Nat, frozen : BOOLEAN, started : BOOLEAN, redeemed : Nat, restored : Nat]

Sound(b, row) ==
    /\ row \in PointsRow
    /\ row.hold <= Total[b] /\ row.redeemed <= Total[b] /\ row.restored <= row.redeemed

PointsTyped ==
    /\ points \in [Bookings -> PointsRow]
    /\ \A b \in Bookings : Sound(b, points[b])

BookingsTyped ==
    /\ intent \in [Bookings -> IntentStatus]
    /\ status \in [Bookings -> Status]
    /\ stay \in [Bookings -> {"none", "active", "cancelled"}]
    /\ call \in [Bookings -> Call]
    /\ expiring \in [Bookings -> Expiring]

CardsTyped ==
    /\ attempt \in [Attempts -> [status : AttemptStatus, booking : SUBSET Bookings,
                                 amount : Nat]]
    /\ checkout \in [Attempts -> {"none", "open", "paid", "declined"}]

LedgerTyped ==
    /\ balance \in [Members -> Int]
    /\ closed \subseteq Members
    /\ earned \in [Bookings -> {0, Reward}]
    /\ spent \in [Bookings -> Nat]
    /\ returned \in [Bookings -> Nat]
    /\ corrected \in [Members -> Nat]

LEMMA TypeParts ==
    LoyaltyTypeOK <=> PointsTyped /\ BookingsTyped /\ CardsTyped /\ LedgerTyped
  BY DEF LoyaltyTypeOK, PointsTyped, PointsRow, Sound, BookingsTyped, CardsTyped, LedgerTyped

LEMMA SaveTyped ==
    ASSUME PointsTyped, NEW b \in Bookings, NEW row, Sound(b, row), SaveBooking(b, row)
    PROVE  /\ PointsTyped'
           /\ points'[b] = row
           /\ \A c \in Bookings : c # b => points'[c] = points[c]
  BY DEF PointsTyped, Sound, SaveBooking

LEMMA RowTyped ==
    ASSUME PointsTyped, NEW b \in Bookings
    PROVE  /\ Sound(b, points[b]) /\ points[b] \in PointsRow /\ Total[b] \in Nat \ {0}
           /\ Allocation(b) \in Nat /\ CashDue(b) \in Int
  BY LoyaltyAssumption DEF PointsTyped, Sound, Allocation, CashDue, PointsRow

\* Every row that is saved is a sound one, and what it says.
LEMMA HoldsTyped ==
    ASSUME PointsTyped, NEW b \in Bookings, NEW n \in 1 .. Total[b], Hold(b, n)
    PROVE  /\ PointsTyped'
           /\ points'[b].hold = n
           /\ points'[b].frozen = points[b].frozen
           /\ points'[b].started = points[b].started
           /\ points'[b].redeemed = points[b].redeemed
           /\ points'[b].restored = points[b].restored
           /\ \A c \in Bookings : c # b => points'[c] = points[c]
<1>. DEFINE row == [points[b] EXCEPT !.hold = n]
<1>1. SaveBooking(b, row)
  BY DEF Hold
<1>2. /\ row \in PointsRow
      /\ row.hold = n
      /\ row.frozen = points[b].frozen
      /\ row.started = points[b].started
      /\ row.redeemed = points[b].redeemed
      /\ row.restored = points[b].restored
  BY RowTyped DEF PointsRow
<1>3. Sound(b, row)
  BY <1>2, RowTyped DEF Sound, PointsRow, Hold
<1>. HIDE DEF row
<1>. QED  BY <1>1, <1>2, <1>3, SaveTyped

LEMMA ReleasesTyped ==
    ASSUME PointsTyped, NEW b \in Bookings, Released(b)
    PROVE  /\ PointsTyped'
           /\ points'[b].hold = 0
           /\ points'[b].frozen = FALSE
           /\ points'[b].started = points[b].started
           /\ points'[b].redeemed = points[b].redeemed
           /\ points'[b].restored = points[b].restored
           /\ \A c \in Bookings : c # b => points'[c] = points[c]
<1>. DEFINE row == [points[b] EXCEPT !.hold = 0, !.frozen = FALSE]
<1>1. SaveBooking(b, row)
  BY DEF Released
<1>2. /\ row \in PointsRow
      /\ row.hold = 0
      /\ row.frozen = FALSE
      /\ row.started = points[b].started
      /\ row.redeemed = points[b].redeemed
      /\ row.restored = points[b].restored
  BY RowTyped DEF PointsRow
<1>3. Sound(b, row)
  BY <1>2, RowTyped DEF Sound, PointsRow
<1>. HIDE DEF row
<1>. QED  BY <1>1, <1>2, <1>3, SaveTyped

LEMMA FreezesTyped ==
    ASSUME PointsTyped, NEW b \in Bookings, NEW a \in Attempts, Checkout(b, a)
    PROVE  /\ PointsTyped'
           /\ points'[b].hold = points[b].hold
           /\ points'[b].frozen = (IF Allocation(b) > 0 THEN TRUE ELSE points[b].frozen)
           /\ points'[b].started = points[b].started
           /\ points'[b].redeemed = points[b].redeemed
           /\ points'[b].restored = points[b].restored
           /\ \A c \in Bookings : c # b => points'[c] = points[c]
<1>. DEFINE row == [points[b] EXCEPT !.frozen = IF Allocation(b) > 0 THEN TRUE ELSE @]
<1>1. SaveBooking(b, row)
  BY DEF Checkout
<1>2. /\ row \in PointsRow
      /\ row.hold = points[b].hold
      /\ row.frozen = (IF Allocation(b) > 0 THEN TRUE ELSE points[b].frozen)
      /\ row.started = points[b].started
      /\ row.redeemed = points[b].redeemed
      /\ row.restored = points[b].restored
  BY RowTyped DEF PointsRow
<1>3. Sound(b, row)
  BY <1>2, RowTyped DEF Sound, PointsRow
<1>. HIDE DEF row
<1>. QED  BY <1>1, <1>2, <1>3, SaveTyped

LEMMA StartsTyped ==
    ASSUME PointsTyped, NEW b \in Bookings, StartConfirm(b)
    PROVE  /\ PointsTyped'
           /\ points'[b].hold = points[b].hold
           /\ points'[b].frozen = TRUE
           /\ points'[b].started = TRUE
           /\ points'[b].redeemed = points[b].redeemed
           /\ points'[b].restored = points[b].restored
           /\ \A c \in Bookings : c # b => points'[c] = points[c]
<1>. DEFINE row == [points[b] EXCEPT !.started = TRUE, !.frozen = TRUE]
<1>1. SaveBooking(b, row)
  BY DEF StartConfirm
<1>2. /\ row \in PointsRow
      /\ row.hold = points[b].hold
      /\ row.frozen = TRUE
      /\ row.started = TRUE
      /\ row.redeemed = points[b].redeemed
      /\ row.restored = points[b].restored
  BY RowTyped DEF PointsRow
<1>3. Sound(b, row)
  BY <1>2, RowTyped DEF Sound, PointsRow
<1>. HIDE DEF row
<1>. QED  BY <1>1, <1>2, <1>3, SaveTyped

LEMMA RefusesTyped ==
    ASSUME PointsTyped, NEW b \in Bookings, ConfirmRefused(b)
    PROVE  /\ PointsTyped'
           /\ points'[b].hold = 0
           /\ points'[b].frozen = FALSE
           /\ points'[b].started = FALSE
           /\ points'[b].redeemed = points[b].redeemed
           /\ points'[b].restored = points[b].restored
           /\ \A c \in Bookings : c # b => points'[c] = points[c]
<1>. DEFINE row == [points[b] EXCEPT !.hold = 0, !.frozen = FALSE, !.started = FALSE]
<1>1. SaveBooking(b, row)
  BY DEF ConfirmRefused
<1>2. /\ row \in PointsRow
      /\ row.hold = 0
      /\ row.frozen = FALSE
      /\ row.started = FALSE
      /\ row.redeemed = points[b].redeemed
      /\ row.restored = points[b].restored
  BY RowTyped DEF PointsRow
<1>3. Sound(b, row)
  BY <1>2, RowTyped DEF Sound, PointsRow
<1>. HIDE DEF row
<1>. QED  BY <1>1, <1>2, <1>3, SaveTyped

LEMMA RedeemsTyped ==
    ASSUME PointsTyped, NEW b \in Bookings, RedeemedOnce, points[b].hold > 0, Redeem(b)
    PROVE  /\ PointsTyped'
           /\ points'[b].hold = 0
           /\ points'[b].frozen = points[b].frozen
           /\ points'[b].started = points[b].started
           /\ points'[b].redeemed = points[b].hold
           /\ points'[b].restored = points[b].restored
           /\ \A c \in Bookings : c # b => points'[c] = points[c]
<1>. DEFINE row == [points[b] EXCEPT !.hold = 0, !.redeemed = points[b].hold]
<1>1. SaveBooking(b, row)
  BY DEF Redeem
<1>2. /\ row \in PointsRow
      /\ row.hold = 0
      /\ row.frozen = points[b].frozen
      /\ row.started = points[b].started
      /\ row.redeemed = points[b].hold
      /\ row.restored = points[b].restored
  BY RowTyped DEF PointsRow
<1>3. Sound(b, row)
  BY <1>2, RowTyped DEF Sound, PointsRow, RedeemedOnce
<1>. HIDE DEF row
<1>. QED  BY <1>1, <1>2, <1>3, SaveTyped

LEMMA RestoresTyped ==
    ASSUME PointsTyped, NEW b \in Bookings, NEW target \in Nat, RestorePoints(b, target)
    PROVE  /\ PointsTyped'
           /\ points'[b].hold = points[b].hold
           /\ points'[b].frozen = points[b].frozen
           /\ points'[b].started = points[b].started
           /\ points'[b].redeemed = points[b].redeemed
           /\ points'[b].restored = target
           /\ \A c \in Bookings : c # b => points'[c] = points[c]
<1>. DEFINE row == [points[b] EXCEPT !.restored = target]
<1>1. SaveBooking(b, row)
  BY DEF RestorePoints
<1>2. /\ row \in PointsRow
      /\ row.hold = points[b].hold
      /\ row.frozen = points[b].frozen
      /\ row.started = points[b].started
      /\ row.redeemed = points[b].redeemed
      /\ row.restored = target
  BY RowTyped DEF PointsRow
<1>3. Sound(b, row)
  BY <1>2, RowTyped DEF Sound, PointsRow, RestorePoints
<1>. HIDE DEF row
<1>. QED  BY <1>1, <1>2, <1>3, SaveTyped

-----------------------------------------------------------------------------
(* What a step does to the points of a booking.                            *)

PointsMove(b) ==
    \/ \E n \in 1 .. Total[b] : Hold(b, n)
    \/ points[b].hold > 0 /\ ReleaseAllowed(b) /\ Released(b)
       /\ UNCHANGED <<cardVars, call, spent, returned>>
    \/ \E a \in Attempts : Checkout(b, a)
    \/ StartConfirm(b)
    \/ ConfirmRefused(b)
    \/ points[b].hold > 0 /\ Redeem(b) /\ UNCHANGED <<cardVars, returned>>
       /\ (call' = call \/ call' = [call EXCEPT ![b] = "idle"])
    \/ \E target \in Nat : RestorePoints(b, target) /\ UNCHANGED <<cardVars, call, spent>>

PointsStay ==
    /\ UNCHANGED <<points, spent, returned>>
    /\ \A b \in Bookings : call'[b] # "idle" => call[b] # "idle"
    /\ \/ UNCHANGED cardVars
       \/ \E a \in Attempts, outcome \in {"paid", "declined"} : Decide(a, outcome)
       \/ \E a \in Attempts, read \in AttemptStatus \ {"none"} : Verify(a, read)

LEMMA PointsMoveOrStay ==
    ASSUME BookingsTyped, [Next]_vars
    PROVE  PointsStay \/ \E b \in Bookings : PointsMove(b)
<1>1. ASSUME NEW b \in Bookings, NEW n \in 1 .. Total[b], Hold(b, n)
      PROVE  PointsStay \/ \E c \in Bookings : PointsMove(c)
  BY <1>1 DEF PointsMove
<1>2. ASSUME NEW b \in Bookings, Release(b)
      PROVE  PointsStay \/ \E c \in Bookings : PointsMove(c)
  BY <1>2 DEF Release, PointsMove, cardVars, ledgerVars
<1>3. ASSUME NEW b \in Bookings, ChooseExpired(b)
      PROVE  PointsStay \/ \E c \in Bookings : PointsMove(c)
  BY <1>3 DEF ChooseExpired, PointsStay, ledgerVars
<1>4. ASSUME NEW b \in Bookings, Expire(b)
      PROVE  PointsStay \/ \E c \in Bookings : PointsMove(c)
  BY <1>4 DEF Expire, PointsStay, ledgerVars
<1>5. ASSUME NEW b \in Bookings, ReleaseExpired(b)
      PROVE  PointsStay \/ \E c \in Bookings : PointsMove(c)
  BY <1>5 DEF ReleaseExpired, PointsMove, PointsStay, cardVars, ledgerVars
<1>6. ASSUME NEW b \in Bookings, Settle(b)
      PROVE  PointsStay \/ \E c \in Bookings : PointsMove(c)
  BY <1>6 DEF Settle, Redeemable, PointsMove
<1>7. ASSUME NEW b \in Bookings, NEW a \in Attempts, Checkout(b, a)
      PROVE  PointsStay \/ \E c \in Bookings : PointsMove(c)
  BY <1>7 DEF PointsMove
<1>8. ASSUME NEW b \in Bookings, RecordPaid(b)
      PROVE  PointsStay \/ \E c \in Bookings : PointsMove(c)
  BY <1>8 DEF RecordPaid, PointsStay, ledgerVars
<1>9. ASSUME NEW b \in Bookings, NEW reply \in Answer, NEW made \in BOOLEAN,
             CreatePaid(b, reply, made)
      PROVE  PointsStay \/ \E c \in Bookings : PointsMove(c)
  BY <1>9 DEF CreatePaid, PointsStay, ledgerVars
<1>10. ASSUME NEW b \in Bookings, StartConfirm(b)
      PROVE  PointsStay \/ \E c \in Bookings : PointsMove(c)
  BY <1>10 DEF PointsMove
<1>11. ASSUME NEW b \in Bookings, NEW failed \in BOOLEAN, CreateUnsent(b, failed)
      PROVE  PointsStay \/ \E c \in Bookings : PointsMove(c)
  BY <1>11 DEF CreateUnsent, PointsStay, ledgerVars, BookingsTyped
<1>12. ASSUME NEW b \in Bookings, NEW reply \in Answer, NEW made \in BOOLEAN,
              CreateSent(b, reply, made)
      PROVE  PointsStay \/ \E c \in Bookings : PointsMove(c)
  BY <1>12 DEF CreateSent, PointsStay, ledgerVars, BookingsTyped
<1>13. ASSUME NEW b \in Bookings, CreateAnswered(b)
      PROVE  PointsStay \/ \E c \in Bookings : PointsMove(c)
  BY <1>13 DEF CreateAnswered, Answer, PointsStay, ledgerVars, BookingsTyped
<1>14. ASSUME NEW b \in Bookings, ConfirmCreated(b)
      PROVE  PointsStay \/ \E c \in Bookings : PointsMove(c)
  <2>1. CASE Redeem(b) /\ Redeemable(b) /\ UNCHANGED <<cardVars, returned>>
    BY <1>14, <2>1 DEF ConfirmCreated, Redeemable, PointsMove
  <2>2. CASE UNCHANGED <<points, ledgerVars, cardVars>>
    BY <1>14, <2>2 DEF ConfirmCreated, PointsStay, ledgerVars, BookingsTyped
  <2>. QED  BY <1>14, <2>1, <2>2 DEF ConfirmCreated
<1>15. ASSUME NEW b \in Bookings, ConfirmRefused(b)
      PROVE  PointsStay \/ \E c \in Bookings : PointsMove(c)
  BY <1>15 DEF PointsMove
<1>16. ASSUME NEW b \in Bookings, ConfirmUncertain(b)
      PROVE  PointsStay \/ \E c \in Bookings : PointsMove(c)
  BY <1>16 DEF ConfirmUncertain, PointsStay, ledgerVars, BookingsTyped
<1>17. ASSUME NEW b \in Bookings, ConfirmDies(b)
      PROVE  PointsStay \/ \E c \in Bookings : PointsMove(c)
  BY <1>17 DEF ConfirmDies, PointsStay, ledgerVars, BookingsTyped
<1>18. ASSUME NEW b \in Bookings, Recover(b)
      PROVE  PointsStay \/ \E c \in Bookings : PointsMove(c)
  <2>. Total[b] > 0
    BY <1>18, LoyaltyAssumption
  <2>. QED  BY <1>18 DEF Recover, PointsMove
<1>19. ASSUME NEW b \in Bookings, SyncConfirmed(b)
      PROVE  PointsStay \/ \E c \in Bookings : PointsMove(c)
  BY <1>19 DEF SyncConfirmed, PointsStay, ledgerVars
<1>20. ASSUME NEW b \in Bookings, Cancel(b)
      PROVE  PointsStay \/ \E c \in Bookings : PointsMove(c)
  BY <1>20 DEF Cancel, PointsStay, ledgerVars
<1>21. ASSUME NEW b \in Bookings, Accrue(b)
      PROVE  PointsStay \/ \E c \in Bookings : PointsMove(c)
  BY <1>21 DEF Accrue, PointsStay, ledgerVars
<1>22. ASSUME NEW b \in Bookings, NEW target \in 0 .. Total[b], RestoreCancelled(b, target)
      PROVE  PointsStay \/ \E c \in Bookings : PointsMove(c)
  <2>. target \in Nat
    BY <1>22, LoyaltyAssumption
  <2>. QED  BY <1>22 DEF RestoreCancelled, PointsMove
<1>23. ASSUME NEW b \in Bookings, NEW target \in 0 .. Total[b], RefundPlan(b, target)
      PROVE  PointsStay \/ \E c \in Bookings : PointsMove(c)
  <2>. target \in Nat
    BY <1>23, LoyaltyAssumption
  <2>. QED  BY <1>23 DEF RefundPlan, PointsMove
<1>24. ASSUME NEW a \in Attempts, NEW outcome \in {"paid", "declined"}, Decide(a, outcome)
      PROVE  PointsStay \/ \E c \in Bookings : PointsMove(c)
  BY <1>24 DEF Decide, PointsStay, ledgerVars
<1>25. ASSUME NEW a \in Attempts, NEW read \in AttemptStatus \ {"none"}, Verify(a, read)
      PROVE  PointsStay \/ \E c \in Bookings : PointsMove(c)
  BY <1>25 DEF Verify, PointsStay, ledgerVars
<1>26. ASSUME NEW m \in Members, NEW n \in Members, NEW value \in 1 .. balance[m], Gift(m, n, value)
      PROVE  PointsStay \/ \E c \in Bookings : PointsMove(c)
  BY <1>26 DEF Gift, PointsStay, ledgerVars
<1>27. ASSUME NEW m \in Members, Withdraw(m)
      PROVE  PointsStay \/ \E c \in Bookings : PointsMove(c)
  BY <1>27 DEF Withdraw, PointsStay, ledgerVars
<1>28. CASE UNCHANGED vars
  BY <1>28 DEF PointsStay, vars, ledgerVars
<1>. QED
  BY <1>1, <1>2, <1>3, <1>4, <1>5, <1>6, <1>7, <1>8, <1>9, <1>10, <1>11, <1>12, <1>13, <1>14,
     <1>15, <1>16, <1>17, <1>18, <1>19, <1>20, <1>21, <1>22, <1>23, <1>24, <1>25, <1>26, <1>27,
     <1>28
     DEF Next, PointsNext, CardNext, ConfirmNext, LaterNext, GateNext, MemberNext

-----------------------------------------------------------------------------
(* Type correctness.                                                       *)

LEMMA PointsStayTyped ==
    ASSUME PointsTyped, RedeemedOnce, PointsStay \/ \E b \in Bookings : PointsMove(b)
    PROVE  PointsTyped'
<1>1. CASE PointsStay
  BY <1>1 DEF PointsStay, PointsTyped
<1>2. ASSUME NEW b \in Bookings, PointsMove(b)
      PROVE  PointsTyped'
  BY <1>2, HoldsTyped, ReleasesTyped, FreezesTyped, StartsTyped, RefusesTyped, RedeemsTyped,
     RestoresTyped
     DEF PointsMove
<1>. QED  BY <1>1, <1>2

LEMMA StatusesTyped ==
    ASSUME BookingsTyped, CardsTyped, PointsTyped, [Next]_vars
    PROVE  BookingsTyped' /\ CardsTyped'
<1>1. ASSUME NEW b \in Bookings, NEW n \in 1 .. Total[b], Hold(b, n)
      PROVE  BookingsTyped' /\ CardsTyped'
  BY <1>1 DEF Hold, bookingVars, cardVars, BookingsTyped, CardsTyped
<1>2. ASSUME NEW b \in Bookings, Release(b)
      PROVE  BookingsTyped' /\ CardsTyped'
  BY <1>2 DEF Release, bookingVars, cardVars, BookingsTyped, CardsTyped
<1>3. ASSUME NEW b \in Bookings, ChooseExpired(b)
      PROVE  BookingsTyped' /\ CardsTyped'
  BY <1>3 DEF ChooseExpired, bookingVars, cardVars, BookingsTyped, CardsTyped, Expiring
<1>4. ASSUME NEW b \in Bookings, Expire(b)
      PROVE  BookingsTyped' /\ CardsTyped'
  BY <1>4 DEF Expire, bookingVars, cardVars, BookingsTyped, CardsTyped, IntentStatus, Expiring
<1>5. ASSUME NEW b \in Bookings, ReleaseExpired(b)
      PROVE  BookingsTyped' /\ CardsTyped'
  BY <1>5 DEF ReleaseExpired, bookingVars, cardVars, BookingsTyped, CardsTyped, Expiring
<1>6. ASSUME NEW b \in Bookings, Settle(b)
      PROVE  BookingsTyped' /\ CardsTyped'
  BY <1>6 DEF Settle, bookingVars, cardVars, BookingsTyped, CardsTyped
<1>7. ASSUME NEW b \in Bookings, NEW a \in Attempts, Checkout(b, a)
      PROVE  BookingsTyped' /\ CardsTyped'
  <2>1. CashDue(b) \in Nat
    BY <1>7, RowTyped DEF Checkout
  <2>2. BookingsTyped'
    BY <1>7 DEF Checkout, bookingVars, BookingsTyped
  <2>3. CardsTyped'
    BY <1>7, <2>1 DEF Checkout, CardsTyped, AttemptStatus
  <2>. QED  BY <2>2, <2>3
<1>8. ASSUME NEW b \in Bookings, RecordPaid(b)
      PROVE  BookingsTyped' /\ CardsTyped'
  BY <1>8 DEF RecordPaid, bookingVars, cardVars, BookingsTyped, CardsTyped, Status, IntentStatus
<1>9. ASSUME NEW b \in Bookings, NEW reply \in Answer, NEW made \in BOOLEAN,
             CreatePaid(b, reply, made)
      PROVE  BookingsTyped' /\ CardsTyped'
  BY <1>9 DEF CreatePaid, bookingVars, cardVars, BookingsTyped, CardsTyped, Status, IntentStatus
<1>10. ASSUME NEW b \in Bookings, StartConfirm(b)
      PROVE  BookingsTyped' /\ CardsTyped'
  BY <1>10 DEF StartConfirm, bookingVars, cardVars, BookingsTyped, CardsTyped, Call
<1>11. ASSUME NEW b \in Bookings, NEW failed \in BOOLEAN, CreateUnsent(b, failed)
      PROVE  BookingsTyped' /\ CardsTyped'
  BY <1>11 DEF CreateUnsent, bookingVars, cardVars, BookingsTyped, CardsTyped, Status, Call
<1>12. ASSUME NEW b \in Bookings, NEW reply \in Answer, NEW made \in BOOLEAN,
              CreateSent(b, reply, made)
      PROVE  BookingsTyped' /\ CardsTyped'
  BY <1>12 DEF CreateSent, bookingVars, cardVars, BookingsTyped, CardsTyped, Status, Call, Answer
<1>13. ASSUME NEW b \in Bookings, CreateAnswered(b)
      PROVE  BookingsTyped' /\ CardsTyped'
  BY <1>13 DEF CreateAnswered, bookingVars, cardVars, BookingsTyped, CardsTyped, Status, Call,
     Answer, Written, Outcome
<1>14. ASSUME NEW b \in Bookings, ConfirmCreated(b)
      PROVE  BookingsTyped' /\ CardsTyped'
  BY <1>14 DEF ConfirmCreated, bookingVars, cardVars, BookingsTyped, CardsTyped, IntentStatus, Call
<1>15. ASSUME NEW b \in Bookings, ConfirmRefused(b)
      PROVE  BookingsTyped' /\ CardsTyped'
  BY <1>15 DEF ConfirmRefused, bookingVars, cardVars, BookingsTyped, CardsTyped, Call
<1>16. ASSUME NEW b \in Bookings, ConfirmUncertain(b)
      PROVE  BookingsTyped' /\ CardsTyped'
  BY <1>16 DEF ConfirmUncertain, bookingVars, cardVars, BookingsTyped, CardsTyped, Call
<1>17. ASSUME NEW b \in Bookings, ConfirmDies(b)
      PROVE  BookingsTyped' /\ CardsTyped'
  BY <1>17 DEF ConfirmDies, bookingVars, cardVars, BookingsTyped, CardsTyped, Call
<1>18. ASSUME NEW b \in Bookings, Recover(b)
      PROVE  BookingsTyped' /\ CardsTyped'
  BY <1>18 DEF Recover, bookingVars, cardVars, BookingsTyped, CardsTyped, Status, IntentStatus
<1>19. ASSUME NEW b \in Bookings, SyncConfirmed(b)
      PROVE  BookingsTyped' /\ CardsTyped'
  BY <1>19 DEF SyncConfirmed, bookingVars, cardVars, BookingsTyped, CardsTyped, Status
<1>20. ASSUME NEW b \in Bookings, Cancel(b)
      PROVE  BookingsTyped' /\ CardsTyped'
  BY <1>20 DEF Cancel, bookingVars, cardVars, BookingsTyped, CardsTyped, Status
<1>21. ASSUME NEW b \in Bookings, Accrue(b)
      PROVE  BookingsTyped' /\ CardsTyped'
  BY <1>21 DEF Accrue, bookingVars, cardVars, BookingsTyped, CardsTyped
<1>22. ASSUME NEW b \in Bookings, NEW target \in 0 .. Total[b], RestoreCancelled(b, target)
      PROVE  BookingsTyped' /\ CardsTyped'
  BY <1>22 DEF RestoreCancelled, bookingVars, cardVars, BookingsTyped, CardsTyped
<1>23. ASSUME NEW b \in Bookings, NEW target \in 0 .. Total[b], RefundPlan(b, target)
      PROVE  BookingsTyped' /\ CardsTyped'
  BY <1>23 DEF RefundPlan, bookingVars, cardVars, BookingsTyped, CardsTyped
<1>24. ASSUME NEW a \in Attempts, NEW outcome \in {"paid", "declined"}, Decide(a, outcome)
      PROVE  BookingsTyped' /\ CardsTyped'
  BY <1>24 DEF Decide, bookingVars, cardVars, BookingsTyped, CardsTyped
<1>25. ASSUME NEW a \in Attempts, NEW read \in AttemptStatus \ {"none"}, Verify(a, read)
      PROVE  BookingsTyped' /\ CardsTyped'
  BY <1>25 DEF Verify, bookingVars, cardVars, BookingsTyped, CardsTyped, AttemptStatus
<1>26. ASSUME NEW m \in Members, NEW n \in Members, NEW value \in 1 .. balance[m], Gift(m, n, value)
      PROVE  BookingsTyped' /\ CardsTyped'
  BY <1>26 DEF Gift, bookingVars, cardVars, BookingsTyped, CardsTyped
<1>27. ASSUME NEW m \in Members, Withdraw(m)
      PROVE  BookingsTyped' /\ CardsTyped'
  BY <1>27 DEF Withdraw, bookingVars, cardVars, BookingsTyped, CardsTyped
<1>28. CASE UNCHANGED vars
  BY <1>28 DEF vars, bookingVars, cardVars, BookingsTyped, CardsTyped
<1>. QED
  BY <1>1, <1>2, <1>3, <1>4, <1>5, <1>6, <1>7, <1>8, <1>9, <1>10, <1>11, <1>12, <1>13, <1>14,
     <1>15, <1>16, <1>17, <1>18, <1>19, <1>20, <1>21, <1>22, <1>23, <1>24, <1>25, <1>26, <1>27,
     <1>28
     DEF Next, PointsNext, CardNext, ConfirmNext, LaterNext, GateNext, MemberNext

LEMMA RowsTyped ==
    ASSUME LedgerTyped, PointsTyped, NEW b \in Bookings
    PROVE  /\ Owner[b] \in Members /\ Reward \in Nat /\ balance[Owner[b]] \in Int
           /\ earned[b] \in {0, Reward} /\ spent[b] \in Nat /\ returned[b] \in Nat
           /\ corrected[Owner[b]] \in Nat
           /\ points[b].hold \in Nat /\ points[b].restored \in Nat
  BY LoyaltyAssumption, RowTyped DEF LedgerTyped, PointsRow

LEMMA RedeemLedger ==
    ASSUME LedgerTyped, PointsTyped, NEW b \in Bookings, Redeem(b),
           UNCHANGED <<closed, earned, returned, corrected>>
    PROVE  LedgerTyped'
<1>1. spent[b] + points[b].hold \in Nat /\ balance[Owner[b]] - points[b].hold \in Int
  BY RowsTyped
<1>2. spent' \in [Bookings -> Nat]
  BY <1>1 DEF Redeem, LedgerTyped
<1>3. balance' \in [Members -> Int]
  BY <1>1 DEF Redeem, LedgerTyped
<1>. QED  BY <1>2, <1>3 DEF LedgerTyped

LEMMA RestoreLedger ==
    ASSUME LedgerTyped, PointsTyped, NEW b \in Bookings, NEW target \in Nat,
           RestorePoints(b, target), UNCHANGED <<closed, earned, spent, corrected>>
    PROVE  LedgerTyped'
<1>1. /\ returned[b] + target - points[b].restored \in Nat
      /\ balance[Owner[b]] + target - points[b].restored \in Int
  BY RowsTyped DEF RestorePoints
<1>2. returned' \in [Bookings -> Nat]
  BY <1>1 DEF RestorePoints, LedgerTyped
<1>3. balance' \in [Members -> Int]
  BY <1>1 DEF RestorePoints, LedgerTyped
<1>. QED  BY <1>2, <1>3 DEF LedgerTyped

LEMMA ReachLedger ==
    ASSUME LedgerTyped, PointsTyped, NEW b \in Bookings, NEW target \in {0, Reward},
           Reach(b, target), UNCHANGED <<closed, spent, returned>>
    PROVE  LedgerTyped'
<1>1. /\ balance[Owner[b]] + target - earned[b] \in Int
      /\ (IF target < earned[b] THEN corrected[Owner[b]] + earned[b] - target
                                ELSE corrected[Owner[b]]) \in Nat
  BY RowsTyped
<1>2. balance' \in [Members -> Int]
  BY <1>1 DEF Reach, LedgerTyped
<1>3. corrected' \in [Members -> Nat]
  BY <1>1 DEF Reach, LedgerTyped
<1>4. earned' \in [Bookings -> {0, Reward}]
  BY DEF Reach, LedgerTyped
<1>. QED  BY <1>2, <1>3, <1>4 DEF LedgerTyped

LEMMA LedgerStaysTyped ==
    ASSUME LedgerTyped, PointsTyped, [Next]_vars
    PROVE  LedgerTyped'
<1>1. ASSUME NEW b \in Bookings, NEW n \in 1 .. Total[b], Hold(b, n)
      PROVE  LedgerTyped'
  BY <1>1 DEF Hold, ledgerVars, LedgerTyped
<1>2. ASSUME NEW b \in Bookings, Release(b)
      PROVE  LedgerTyped'
  BY <1>2 DEF Release, ledgerVars, LedgerTyped
<1>3. ASSUME NEW b \in Bookings, ChooseExpired(b)
      PROVE  LedgerTyped'
  BY <1>3 DEF ChooseExpired, ledgerVars, LedgerTyped
<1>4. ASSUME NEW b \in Bookings, Expire(b)
      PROVE  LedgerTyped'
  BY <1>4 DEF Expire, ledgerVars, LedgerTyped
<1>5. ASSUME NEW b \in Bookings, ReleaseExpired(b)
      PROVE  LedgerTyped'
  BY <1>5 DEF ReleaseExpired, ledgerVars, LedgerTyped
<1>6. ASSUME NEW b \in Bookings, Settle(b)
      PROVE  LedgerTyped'
  BY <1>6, RedeemLedger DEF Settle
<1>7. ASSUME NEW b \in Bookings, NEW a \in Attempts, Checkout(b, a)
      PROVE  LedgerTyped'
  BY <1>7 DEF Checkout, ledgerVars, LedgerTyped
<1>8. ASSUME NEW b \in Bookings, RecordPaid(b)
      PROVE  LedgerTyped'
  BY <1>8 DEF RecordPaid, ledgerVars, LedgerTyped
<1>9. ASSUME NEW b \in Bookings, NEW reply \in Answer, NEW made \in BOOLEAN,
             CreatePaid(b, reply, made)
      PROVE  LedgerTyped'
  BY <1>9 DEF CreatePaid, ledgerVars, LedgerTyped
<1>10. ASSUME NEW b \in Bookings, StartConfirm(b)
      PROVE  LedgerTyped'
  BY <1>10 DEF StartConfirm, ledgerVars, LedgerTyped
<1>11. ASSUME NEW b \in Bookings, NEW failed \in BOOLEAN, CreateUnsent(b, failed)
      PROVE  LedgerTyped'
  BY <1>11 DEF CreateUnsent, ledgerVars, LedgerTyped
<1>12. ASSUME NEW b \in Bookings, NEW reply \in Answer, NEW made \in BOOLEAN,
              CreateSent(b, reply, made)
      PROVE  LedgerTyped'
  BY <1>12 DEF CreateSent, ledgerVars, LedgerTyped
<1>13. ASSUME NEW b \in Bookings, CreateAnswered(b)
      PROVE  LedgerTyped'
  BY <1>13 DEF CreateAnswered, ledgerVars, LedgerTyped
<1>14. ASSUME NEW b \in Bookings, ConfirmCreated(b)
      PROVE  LedgerTyped'
  <2>1. CASE Redeem(b) /\ UNCHANGED <<closed, earned, returned, corrected>>
    BY <2>1, RedeemLedger
  <2>2. CASE UNCHANGED ledgerVars
    BY <2>2 DEF ledgerVars, LedgerTyped
  <2>. QED  BY <1>14, <2>1, <2>2 DEF ConfirmCreated
<1>15. ASSUME NEW b \in Bookings, ConfirmRefused(b)
      PROVE  LedgerTyped'
  BY <1>15 DEF ConfirmRefused, ledgerVars, LedgerTyped
<1>16. ASSUME NEW b \in Bookings, ConfirmUncertain(b)
      PROVE  LedgerTyped'
  BY <1>16 DEF ConfirmUncertain, ledgerVars, LedgerTyped
<1>17. ASSUME NEW b \in Bookings, ConfirmDies(b)
      PROVE  LedgerTyped'
  BY <1>17 DEF ConfirmDies, ledgerVars, LedgerTyped
<1>18. ASSUME NEW b \in Bookings, Recover(b)
      PROVE  LedgerTyped'
  BY <1>18, RedeemLedger DEF Recover
<1>19. ASSUME NEW b \in Bookings, SyncConfirmed(b)
      PROVE  LedgerTyped'
  BY <1>19 DEF SyncConfirmed, ledgerVars, LedgerTyped
<1>20. ASSUME NEW b \in Bookings, Cancel(b)
      PROVE  LedgerTyped'
  BY <1>20 DEF Cancel, ledgerVars, LedgerTyped
<1>21. ASSUME NEW b \in Bookings, Accrue(b)
      PROVE  LedgerTyped'
  BY <1>21, ReachLedger DEF Accrue
<1>22. ASSUME NEW b \in Bookings, NEW target \in 0 .. Total[b], RestoreCancelled(b, target)
      PROVE  LedgerTyped'
  <2>. target \in Nat
    BY <1>22, LoyaltyAssumption
  <2>. QED  BY <1>22, RestoreLedger DEF RestoreCancelled
<1>23. ASSUME NEW b \in Bookings, NEW target \in 0 .. Total[b], RefundPlan(b, target)
      PROVE  LedgerTyped'
  <2>. target \in Nat
    BY <1>23, LoyaltyAssumption
  <2>. QED  BY <1>23, RestoreLedger DEF RefundPlan
<1>24. ASSUME NEW a \in Attempts, NEW outcome \in {"paid", "declined"}, Decide(a, outcome)
      PROVE  LedgerTyped'
  BY <1>24 DEF Decide, ledgerVars, LedgerTyped
<1>25. ASSUME NEW a \in Attempts, NEW read \in AttemptStatus \ {"none"}, Verify(a, read)
      PROVE  LedgerTyped'
  BY <1>25 DEF Verify, ledgerVars, LedgerTyped
<1>26. ASSUME NEW m \in Members, NEW n \in Members, NEW value \in 1 .. balance[m], Gift(m, n, value)
      PROVE  LedgerTyped'
  <2>. value \in Int /\ balance[m] - value \in Int /\ balance[n] + value \in Int
    BY <1>26 DEF LedgerTyped
  <2>. QED  BY <1>26 DEF Gift, LedgerTyped
<1>27. ASSUME NEW m \in Members, Withdraw(m)
      PROVE  LedgerTyped'
  BY <1>27 DEF Withdraw, LedgerTyped
<1>28. CASE UNCHANGED vars
  BY <1>28 DEF vars, ledgerVars, LedgerTyped
<1>. QED
  BY <1>1, <1>2, <1>3, <1>4, <1>5, <1>6, <1>7, <1>8, <1>9, <1>10, <1>11, <1>12, <1>13, <1>14,
     <1>15, <1>16, <1>17, <1>18, <1>19, <1>20, <1>21, <1>22, <1>23, <1>24, <1>25, <1>26, <1>27,
     <1>28
     DEF Next, PointsNext, CardNext, ConfirmNext, LaterNext, GateNext, MemberNext

-----------------------------------------------------------------------------
(* A hold is consumed once.                                                *)

LEMMA RedeemedOnceStays ==
    ASSUME PointsTyped, LedgerTyped, RedeemedOnce,
           PointsStay \/ \E b \in Bookings : PointsMove(b)
    PROVE  RedeemedOnce'
<1>1. CASE PointsStay
  BY <1>1 DEF PointsStay, RedeemedOnce
<1>2. ASSUME NEW b \in Bookings, PointsMove(b)
      PROVE  RedeemedOnce'
  <2>1. ASSUME NEW n \in 1 .. Total[b], Hold(b, n)
        PROVE  RedeemedOnce'
    BY <2>1, HoldsTyped DEF Hold, ledgerVars, RedeemedOnce
  <2>2. CASE Released(b) /\ UNCHANGED <<spent, returned>>
    BY <2>2, ReleasesTyped DEF RedeemedOnce
  <2>3. ASSUME NEW a \in Attempts, Checkout(b, a)
        PROVE  RedeemedOnce'
    BY <2>3, FreezesTyped DEF Checkout, ledgerVars, RedeemedOnce
  <2>4. CASE StartConfirm(b)
    BY <2>4, StartsTyped DEF StartConfirm, ledgerVars, RedeemedOnce
  <2>5. CASE ConfirmRefused(b)
    BY <2>5, RefusesTyped DEF ConfirmRefused, ledgerVars, RedeemedOnce
  <2>6. CASE points[b].hold > 0 /\ Redeem(b) /\ UNCHANGED returned
    <3>1. points[b].redeemed = 0 /\ spent[b] = 0 /\ points[b].hold \in Nat
      BY <2>6, RowsTyped DEF RedeemedOnce
    <3>2. spent'[b] = points[b].hold /\ \A c \in Bookings : c # b => spent'[c] = spent[c]
      BY <2>6, <3>1 DEF Redeem, LedgerTyped
    <3>3. points[b].restored = 0 /\ returned[b] = 0
      BY <2>6, <3>1, RowTyped DEF Sound, PointsRow, RedeemedOnce
    <3>. QED  BY <2>6, <3>1, <3>2, <3>3, RedeemsTyped DEF RedeemedOnce
  <2>7. ASSUME NEW target \in Nat, RestorePoints(b, target), UNCHANGED spent
        PROVE  RedeemedOnce'
    <3>1. /\ returned'[b] = target
          /\ \A c \in Bookings : c # b => returned'[c] = returned[c]
      BY <2>7, RowsTyped DEF RestorePoints, LedgerTyped, RedeemedOnce
    <3>2. target <= points[b].redeemed
      BY <2>7 DEF RestorePoints
    <3>3. /\ \A c \in Bookings : points'[c].hold = points[c].hold
          /\ \A c \in Bookings : points'[c].redeemed = points[c].redeemed
          /\ points'[b].restored = target
          /\ \A c \in Bookings : c # b => points'[c].restored = points[c].restored
      BY <2>7, RestoresTyped
    <3>. QED  BY <2>7, <3>1, <3>2, <3>3 DEF RedeemedOnce
  <2>. QED  BY <1>2, <2>1, <2>2, <2>3, <2>4, <2>5, <2>6, <2>7 DEF PointsMove
<1>. QED  BY <1>1, <1>2

-----------------------------------------------------------------------------
(* While a points booking is confirmed.                                    *)

LEMMA CallFactsStay ==
    ASSUME PointsTyped, BookingsTyped, RedeemedOnce, CallFacts,
           PointsStay \/ \E b \in Bookings : PointsMove(b)
    PROVE  CallFacts'
<1>1. CASE PointsStay
  BY <1>1 DEF PointsStay, CallFacts, Allocation
<1>2. ASSUME NEW b \in Bookings, PointsMove(b)
      PROVE  CallFacts'
  <2>1. ASSUME NEW n \in 1 .. Total[b], Hold(b, n)
        PROVE  CallFacts'
    <3>1. call[b] = "idle" /\ call' = call
      BY <2>1, LoyaltyAssumption DEF Hold, CallFacts, Allocation
    <3>. QED  BY <2>1, <3>1, HoldsTyped DEF CallFacts, Allocation
  <2>2. CASE ReleaseAllowed(b) /\ Released(b) /\ UNCHANGED call
    <3>1. call[b] = "idle"
      BY <2>2 DEF ReleaseAllowed, CallFacts
    <3>. QED  BY <2>2, <3>1, ReleasesTyped DEF CallFacts, Allocation
  <2>3. ASSUME NEW a \in Attempts, Checkout(b, a)
        PROVE  CallFacts'
    <3>1. \A c \in Bookings : /\ points'[c].hold = points[c].hold
                              /\ points'[c].redeemed = points[c].redeemed
                              /\ points'[c].started = points[c].started
      BY <2>3, FreezesTyped
    <3>. QED  BY <2>3, <3>1 DEF Checkout, CallFacts, Allocation
  <2>4. CASE StartConfirm(b)
    <3>1. Allocation(b) = Total[b]
      BY <2>4, RowTyped DEF StartConfirm, CashDue
    <3>2. \A c \in Bookings : c # b => call'[c] = call[c]
      BY <2>4 DEF StartConfirm, BookingsTyped
    <3>3. /\ Allocation(b)' = Allocation(b) /\ points'[b].started
          /\ \A c \in Bookings : c # b => points'[c] = points[c]
      BY <2>4, StartsTyped DEF Allocation
    <3>. QED  BY <3>1, <3>2, <3>3 DEF CallFacts, Allocation
  <2>5. CASE ConfirmRefused(b)
    <3>1. call'[b] = "idle" /\ \A c \in Bookings : c # b => call'[c] = call[c]
      BY <2>5 DEF ConfirmRefused, BookingsTyped
    <3>. QED  BY <2>5, <3>1, RefusesTyped DEF CallFacts, Allocation
  <2>6. CASE points[b].hold > 0 /\ Redeem(b)
              /\ (call' = call \/ call' = [call EXCEPT ![b] = "idle"])
    <3>1. /\ Allocation(b)' = Allocation(b) /\ points'[b].started = points[b].started
          /\ \A c \in Bookings : c # b => points'[c] = points[c]
      BY <2>6, RedeemsTyped, RowTyped DEF Allocation, PointsRow
    <3>2. \A c \in Bookings : call'[c] # "idle" => call[c] # "idle"
      BY <2>6 DEF BookingsTyped
    <3>. QED  BY <3>1, <3>2 DEF CallFacts, Allocation
  <2>7. ASSUME NEW target \in Nat, RestorePoints(b, target), UNCHANGED call
        PROVE  CallFacts'
    BY <2>7, RestoresTyped DEF CallFacts, Allocation
  <2>. QED  BY <1>2, <2>1, <2>2, <2>3, <2>4, <2>5, <2>6, <2>7 DEF PointsMove
<1>. QED  BY <1>1, <1>2

-----------------------------------------------------------------------------
(* Card and points.                                                        *)

\* A live attempt of a booking, and what it takes to have none.
LEMMA LiveAttempt ==
    ASSUME CardFacts, PointsTyped, CardsTyped, NEW b \in Bookings, NEW a \in Attempts,
           attempt[a].booking = {b}, checkout[a] \in {"open", "paid"}
    PROVE  /\ a \in Unfailed(b) /\ Allocation(b) # Total[b]
           /\ ~ (points[b].hold > 0 /\ ReleaseAllowed(b))
<1>1. a \in Unfailed(b) /\ (points[b].hold > 0 => points[b].frozen)
  BY DEF CardFacts, Of, Unfailed
<1>2. Allocation(b) # Total[b]
  BY RowTyped DEF CardFacts, CardsTyped
<1>. QED  BY <1>1, <1>2 DEF ReleaseAllowed

LEMMA CardFactsStay ==
    ASSUME PointsTyped, CardsTyped, RedeemedOnce, CallFacts, CardFacts,
           PointsStay \/ \E b \in Bookings : PointsMove(b)
    PROVE  CardFacts'
<1>. DEFINE Live(a) == checkout[a] \in {"open", "paid"}
<1>1. CASE PointsStay
  <2>1. CASE UNCHANGED cardVars
    BY <1>1, <2>1 DEF PointsStay, cardVars, CardFacts, Allocation
  <2>2. ASSUME NEW a \in Attempts, NEW outcome \in {"paid", "declined"}, Decide(a, outcome)
        PROVE  CardFacts'
    BY <1>1, <2>2 DEF Decide, PointsStay, CardFacts, CardsTyped, Allocation
  <2>3. ASSUME NEW a \in Attempts, NEW read \in AttemptStatus \ {"none"}, Verify(a, read)
        PROVE  CardFacts'
    <3>1. /\ \A c \in Attempts : attempt'[c].booking = attempt[c].booking
                                 /\ attempt'[c].amount = attempt[c].amount
          /\ \A c \in Attempts : c # a => attempt'[c].status = attempt[c].status
          /\ attempt'[a].status = read /\ checkout' = checkout
      BY <2>3 DEF Verify, CardsTyped
    <3>2. checkout[a] \in {"open", "paid"} => read \in {"pending", "unknown", "succeeded"}
      BY <2>3 DEF Verify
    <3>. QED  BY <1>1, <3>1, <3>2 DEF PointsStay, CardFacts, Allocation
  <2>. QED  BY <1>1, <2>1, <2>2, <2>3 DEF PointsStay
<1>2. ASSUME NEW b \in Bookings, PointsMove(b)
      PROVE  CardFacts'
  <2>1. ASSUME UNCHANGED cardVars, \A a \in Attempts : attempt[a].booking = {b} => ~ Live(a),
               \A c \in Bookings : c # b => points'[c] = points[c]
        PROVE  CardFacts'
    BY <2>1 DEF cardVars, CardFacts, Allocation
  <2>2. ASSUME NEW n \in 1 .. Total[b], Hold(b, n)
        PROVE  CardFacts'
    <3>1. \A a \in Attempts : attempt[a].booking = {b} => ~ Live(a)
      BY <2>2, LiveAttempt DEF Hold
    <3>. QED  BY <2>1, <2>2, <3>1, HoldsTyped DEF Hold, cardVars
  <2>3. CASE points[b].hold > 0 /\ ReleaseAllowed(b) /\ Released(b) /\ UNCHANGED cardVars
    <3>1. \A a \in Attempts : attempt[a].booking = {b} => ~ Live(a)
      BY <2>3, LiveAttempt, RowTyped DEF PointsRow
    <3>. QED  BY <2>1, <2>3, <3>1, ReleasesTyped
  <2>4. ASSUME NEW a \in Attempts, Checkout(b, a)
        PROVE  CardFacts'
    <3>1. /\ attempt'[a].status = "pending" /\ attempt'[a].booking = {b}
          /\ attempt'[a].amount = CashDue(b) /\ checkout'[a] = "open"
          /\ \A c \in Attempts : c # a => attempt'[c] = attempt[c] /\ checkout'[c] = checkout[c]
      BY <2>4 DEF Checkout, CardsTyped
    <3>2. /\ \A c \in Bookings : Allocation(c)' = Allocation(c)
          /\ \A c \in Bookings : points[c].frozen => points'[c].frozen
          /\ \A c \in Bookings : points'[c].hold = points[c].hold
      BY <2>4, FreezesTyped DEF Allocation
    <3>3. CashDue(b) > 0 /\ CashDue(b) + Allocation(b) = Total[b]
      BY <2>4, RowTyped DEF Checkout, CashDue
    <3>4. points[b].hold > 0 => points'[b].frozen
      BY <2>4, FreezesTyped DEF Allocation
    <3>. QED  BY <3>1, <3>2, <3>3, <3>4 DEF CardFacts
  <2>5. CASE StartConfirm(b)
    <3>1. \A a \in Attempts : attempt[a].booking = {b} => ~ Live(a)
      BY <2>5, LiveAttempt DEF StartConfirm
    <3>. QED  BY <2>1, <2>5, <3>1, StartsTyped DEF StartConfirm, cardVars
  <2>6. CASE ConfirmRefused(b)
    <3>1. \A a \in Attempts : attempt[a].booking = {b} => ~ Live(a)
      BY <2>6, LiveAttempt DEF ConfirmRefused, CallFacts
    <3>. QED  BY <2>1, <2>6, <3>1, RefusesTyped DEF ConfirmRefused, cardVars
  <2>7. CASE points[b].hold > 0 /\ Redeem(b) /\ UNCHANGED cardVars
    <3>1. /\ Allocation(b)' = Allocation(b) /\ ~ (points'[b].hold > 0)
          /\ \A c \in Bookings : c # b => points'[c] = points[c]
      BY <2>7, RedeemsTyped, RowTyped DEF Allocation, PointsRow
    <3>. QED  BY <2>7, <3>1 DEF cardVars, CardFacts, Allocation
  <2>8. ASSUME NEW target \in Nat, RestorePoints(b, target), UNCHANGED cardVars
        PROVE  CardFacts'
    BY <2>8, RestoresTyped DEF cardVars, CardFacts, Allocation
  <2>. QED  BY <1>2, <2>2, <2>3, <2>4, <2>5, <2>6, <2>7, <2>8 DEF PointsMove
<1>. QED  BY <1>1, <1>2

-----------------------------------------------------------------------------
(* The theorems.                                                           *)

LEMMA InitiallySound == Init => LoyaltyInv
<1>. SUFFICES ASSUME Init PROVE LoyaltyInv
  OBVIOUS
<1>1. PointsTyped
  BY LoyaltyAssumption DEF Init, PointsTyped, PointsRow, Sound
<1>2. BookingsTyped /\ CardsTyped
  BY DEF Init, BookingsTyped, CardsTyped, IntentStatus, Status, Call, Expiring, AttemptStatus
<1>3. LedgerTyped
  BY LoyaltyAssumption DEF Init, LedgerTyped
<1>4. RedeemedOnce /\ CallFacts /\ CardFacts
  BY DEF Init, RedeemedOnce, CallFacts, CardFacts
<1>. QED  BY <1>1, <1>2, <1>3, <1>4, TypeParts DEF LoyaltyInv

\* The invariant: every command of services.py and checkout.py, every step of a payment, a
\* creation and a recovery, in any order and for any prices, keeps it.
THEOREM LoyaltyInvariant == Spec => []LoyaltyInv
<1>1. LoyaltyInv /\ [Next]_vars => LoyaltyInv'
  <2>. SUFFICES ASSUME LoyaltyInv, [Next]_vars PROVE LoyaltyInv'
    OBVIOUS
  <2>1. PointsTyped /\ BookingsTyped /\ CardsTyped /\ LedgerTyped
    BY TypeParts DEF LoyaltyInv
  <2>2. PointsStay \/ \E b \in Bookings : PointsMove(b)
    BY <2>1, PointsMoveOrStay
  <2>3. PointsTyped'
    BY <2>1, <2>2, PointsStayTyped DEF LoyaltyInv
  <2>4. BookingsTyped' /\ CardsTyped'
    BY <2>1, StatusesTyped
  <2>5. LedgerTyped'
    BY <2>1, LedgerStaysTyped
  <2>6. LoyaltyTypeOK'
    BY <2>3, <2>4, <2>5
       DEF LoyaltyTypeOK, PointsTyped, PointsRow, Sound, BookingsTyped, CardsTyped, LedgerTyped
  <2>7. RedeemedOnce' /\ CallFacts' /\ CardFacts'
    BY <2>1, <2>2, RedeemedOnceStays, CallFactsStay, CardFactsStay DEF LoyaltyInv
  <2>. QED  BY <2>6, <2>7 DEF LoyaltyInv
<1>. QED  BY <1>1, InitiallySound, PTL DEF Spec

\* The points of a booking stay within its price and are never given back twice
\* (services.py:672-815).
THEOREM LoyaltyTypeCorrect == Spec => []LoyaltyTypeOK
<1>1. LoyaltyInv => LoyaltyTypeOK
  BY DEF LoyaltyInv
<1>. QED  BY <1>1, LoyaltyInvariant, PTL

\* However many of settle_booking_points, confirm_points_booking and
\* recover_points_booking reach redeem, a hold is consumed once.
THEOREM HoldsAreRedeemedOnce == Spec => []RedeemedOnce
<1>1. LoyaltyInv => RedeemedOnce
  BY DEF LoyaltyInv
<1>. QED  BY <1>1, LoyaltyInvariant, PTL

\* A payment that may still succeed is what is due in cash, whatever hold, release, an
\* expiration or a refused booking did since cash_due computed it.
THEOREM CardAndPointsAlwaysAddUp == Spec => []CardAndPointsAddUp
<1>1. LoyaltyInv => CardAndPointsAddUp
  BY DEF LoyaltyInv, CardFacts, CardAndPointsAddUp, Of
<1>. QED  BY <1>1, LoyaltyInvariant, PTL

-----------------------------------------------------------------------------
(* Points held are there.                                                  *)

Holds == [b \in Bookings |-> points[b].hold]

LEMMA OwnFinite ==
    ASSUME PointsTyped, NEW m \in Members
    PROVE  /\ IsFiniteSet(Own(m)) /\ Own(m) \subseteq Bookings
           /\ \A b \in Own(m) : Holds[b] \in Nat
           /\ Held(m) = SumOver(Holds, Own(m)) /\ Held(m) \in Nat
<1>1. IsFiniteSet(Own(m)) /\ Own(m) \subseteq Bookings
  BY LoyaltyAssumption, FS_Subset DEF Own
<1>2. \A b \in Own(m) : Holds[b] \in Nat
  BY <1>1, RowTyped DEF Holds, PointsRow
<1>3. Held(m) = SumOver(Holds, Own(m))
  BY DEF Held, Holds
<1>. QED  BY <1>1, <1>2, <1>3, SumNat

\* Freed holds leave no more than there was.
LEMMA HeldShrinks ==
    ASSUME PointsTyped, PointsTyped', NEW m \in Members,
           \A b \in Bookings : points'[b].hold <= points[b].hold
    PROVE  Held(m)' <= Held(m)
<1>1. /\ Held(m) = SumOver(Holds, Own(m)) /\ IsFiniteSet(Own(m)) /\ Own(m) \subseteq Bookings
      /\ \A b \in Own(m) : Holds[b] \in Nat
  BY OwnFinite
<1>2. Held(m)' = SumOver(Holds', Own(m))
  BY DEF Held, Holds, Own
<1>3. \A b \in Own(m) : Holds'[b] \in Nat /\ Holds'[b] <= Holds[b]
  BY <1>1, RowTyped DEF Holds, PointsTyped, PointsRow
<1>. QED  BY <1>1, <1>2, <1>3, SumMonotone

\* The hold of one booking changes what its owner holds, and nobody else.
LEMMA HeldChanges ==
    ASSUME PointsTyped, PointsTyped', NEW b \in Bookings,
           \A c \in Bookings : c # b => points'[c] = points[c]
    PROVE  \A m \in Members :
              /\ Held(m)' \in Nat
              /\ Held(m)' = IF m = Owner[b] THEN Held(m) + points'[b].hold - points[b].hold
                            ELSE Held(m)
<1>. SUFFICES ASSUME NEW m \in Members
              PROVE  /\ Held(m)' \in Nat
                     /\ Held(m)' = IF m = Owner[b]
                                   THEN Held(m) + points'[b].hold - points[b].hold
                                   ELSE Held(m)
  OBVIOUS
<1>1. /\ Held(m) = SumOver(Holds, Own(m)) /\ IsFiniteSet(Own(m)) /\ Own(m) \subseteq Bookings
      /\ \A c \in Own(m) : Holds[c] \in Nat
      /\ Held(m) \in Nat
  BY OwnFinite
<1>2. Held(m)' = SumOver(Holds', Own(m))
  BY DEF Held, Holds, Own
<1>3. \A c \in Bookings : Holds'[c] \in Nat /\ (c # b => Holds'[c] = Holds[c])
  BY DEF Holds, PointsTyped, PointsRow
<1>4. SumOver(Holds', Own(m)) \in Nat
  BY <1>1, <1>3, SumNat
<1>5. CASE m = Owner[b]
  <2>1. b \in Own(m)
    BY <1>5 DEF Own
  <2>2. SumOver(Holds', Own(m)) + Holds[b] = SumOver(Holds, Own(m)) + Holds'[b]
    BY <1>1, <1>3, <2>1, SumUpdate
  <2>3. Holds[b] = points[b].hold /\ Holds'[b] = points'[b].hold
        /\ Holds[b] \in Nat /\ Holds'[b] \in Nat
    BY <1>1, <1>3, <2>1 DEF Holds
  <2>. QED  BY <1>1, <1>2, <1>4, <1>5, <2>2, <2>3
<1>6. CASE m # Owner[b]
  <2>1. \A c \in Own(m) : Holds'[c] = Holds[c]
    BY <1>1, <1>3, <1>6 DEF Own
  <2>2. SumOver(Holds', Own(m)) = SumOver(Holds, Own(m))
    BY <2>1, SumSame
  <2>. QED  BY <1>1, <1>2, <1>4, <1>6, <2>2
<1>. QED  BY <1>5, <1>6

\* What redeem debits is what it had held.
LEMMA RedeemCovered ==
    ASSUME PointsTyped, PointsTyped', LedgerTyped, RedeemedOnce, HoldsAreCovered,
           NEW b \in Bookings, points[b].hold > 0, Redeem(b), corrected' = corrected
    PROVE  HoldsAreCovered'
<1>1. points'[b].hold = 0 /\ \A c \in Bookings : c # b => points'[c] = points[c]
  BY RedeemsTyped
<1>2. \A m \in Members : Held(m)' = IF m = Owner[b] THEN Held(m) - points[b].hold ELSE Held(m)
  <2>1. \A m \in Members : Held(m) \in Nat
    BY OwnFinite
  <2>. QED  BY <1>1, <2>1, HeldChanges, RowTyped DEF PointsRow
<1>3. /\ \A m \in Members : Held(m) \in Nat /\ corrected[m] \in Nat /\ balance[m] \in Int
      /\ points[b].hold \in Nat
  BY OwnFinite, RowsTyped DEF LedgerTyped
<1>4. \A m \in Members :
         balance'[m] = IF m = Owner[b] THEN balance[m] - points[b].hold ELSE balance[m]
  BY DEF Redeem, LedgerTyped
<1>. QED  BY <1>2, <1>3, <1>4 DEF HoldsAreCovered

\* What is given back to a member was not held.
LEMMA RestoreCovered ==
    ASSUME PointsTyped, PointsTyped', LedgerTyped, HoldsAreCovered, NEW b \in Bookings,
           NEW target \in Nat, RestorePoints(b, target), corrected' = corrected
    PROVE  HoldsAreCovered'
<1>1. \A c \in Bookings : points'[c].hold <= points[c].hold
  <2>1. \A c \in Bookings : points'[c].hold = points[c].hold
    BY RestoresTyped
  <2>2. \A c \in Bookings : points[c].hold \in Nat
    BY RowTyped DEF PointsRow
  <2>. QED  BY <2>1, <2>2
<1>2. \A m \in Members : Held(m)' <= Held(m)
  BY <1>1, HeldShrinks
<1>3. /\ \A m \in Members : /\ Held(m) \in Nat /\ Held(m)' \in Nat
                           /\ corrected[m] \in Nat /\ balance[m] \in Int
      /\ points[b].restored \in Nat
  BY OwnFinite, RowsTyped, HeldChanges, RestoresTyped DEF LedgerTyped
<1>4. \A m \in Members :
         balance'[m] = IF m = Owner[b] THEN balance[m] + target - points[b].restored
                       ELSE balance[m]
  BY DEF RestorePoints, LedgerTyped
<1>5. target >= points[b].restored
  BY DEF RestorePoints
<1>. QED  BY <1>2, <1>3, <1>4, <1>5 DEF HoldsAreCovered

\* A reward that is taken back is accounted for.
LEMMA ReachCovered ==
    ASSUME PointsTyped, LedgerTyped, HoldsAreCovered, NEW b \in Bookings,
           NEW target \in {0, Reward}, Reach(b, target), points' = points
    PROVE  HoldsAreCovered'
<1>1. \A m \in Members : Held(m)' = Held(m) /\ Held(m) \in Nat
  BY OwnFinite DEF Held, Own
<1>2. /\ target \in Nat /\ earned[b] \in Nat
      /\ \A m \in Members : corrected[m] \in Nat /\ balance[m] \in Int
  BY RowsTyped DEF LedgerTyped
<1>3. \A m \in Members :
         /\ balance'[m] = IF m = Owner[b] THEN balance[m] + target - earned[b] ELSE balance[m]
         /\ corrected'[m] = IF m = Owner[b] /\ target < earned[b]
                            THEN corrected[m] + earned[b] - target ELSE corrected[m]
  BY DEF Reach, LedgerTyped
<1>. QED  BY <1>1, <1>2, <1>3 DEF HoldsAreCovered

\* Any other step holds no more, and takes nothing from a balance.
LEMMA OtherCovered ==
    ASSUME PointsTyped, PointsTyped', LedgerTyped, HoldsAreCovered,
           UNCHANGED <<balance, corrected>>,
           \A c \in Bookings : points'[c].hold <= points[c].hold
    PROVE  HoldsAreCovered'
<1>1. \A m \in Members : Held(m)' <= Held(m)
  BY HeldShrinks
<1>2. \A m \in Members : Held(m) \in Nat /\ corrected[m] \in Nat /\ balance[m] \in Int
  BY OwnFinite DEF LedgerTyped
<1>3. \A m \in Members : Held(m)' \in Nat
  <2>. SUFFICES ASSUME NEW m \in Members PROVE Held(m)' \in Nat
    OBVIOUS
  <2>1. Held(m)' = SumOver(Holds', Own(m))
    BY DEF Held, Holds, Own
  <2>2. \A b \in Own(m) : Holds'[b] \in Nat
    BY DEF Holds, Own, PointsTyped, PointsRow
  <2>. QED  BY <2>1, <2>2, OwnFinite, SumNat
<1>. QED  BY <1>1, <1>2, <1>3 DEF HoldsAreCovered

\* The balance of a member with the points of a new hold, or a gift, to spare.
LEMMA HoldCovered ==
    ASSUME PointsTyped, PointsTyped', LedgerTyped, HoldsAreCovered, NEW b \in Bookings,
           NEW n \in 1 .. Total[b], Hold(b, n)
    PROVE  HoldsAreCovered'
<1>1. points'[b].hold = n /\ \A c \in Bookings : c # b => points'[c] = points[c]
  BY HoldsTyped
<1>2. /\ points[b].hold = 0 /\ n <= balance[Owner[b]] - Held(Owner[b])
      /\ UNCHANGED <<balance, corrected>>
  BY DEF Hold, Available, ledgerVars
<1>3. /\ Owner[b] \in Members /\ n \in Nat
      /\ \A m \in Members : Held(m) \in Nat /\ corrected[m] \in Nat /\ balance[m] \in Int
  BY OwnFinite, LoyaltyAssumption DEF LedgerTyped
<1>4. \A m \in Members : Held(m)' = IF m = Owner[b] THEN Held(m) + n ELSE Held(m)
  BY <1>1, <1>2, <1>3, HeldChanges
<1>. QED  BY <1>2, <1>3, <1>4 DEF HoldsAreCovered

LEMMA GiftCovered ==
    ASSUME PointsTyped, LedgerTyped, HoldsAreCovered, NEW m \in Members, NEW n \in Members,
           NEW value \in 1 .. balance[m], Gift(m, n, value)
    PROVE  HoldsAreCovered'
<1>1. \A k \in Members : Held(k)' = Held(k) /\ Held(k) \in Nat
  BY OwnFinite DEF Held, Own, Gift
<1>2. /\ m # n /\ value <= balance[m] - Held(m) /\ corrected' = corrected
      /\ value \in Nat
      /\ \A k \in Members : corrected[k] \in Nat /\ balance[k] \in Int
  BY DEF Gift, Available, LedgerTyped
<1>3. \A k \in Members :
         balance'[k] = IF k = m THEN balance[k] - value
                       ELSE IF k = n THEN balance[k] + value ELSE balance[k]
  BY <1>2 DEF Gift, LedgerTyped
<1>. QED  BY <1>1, <1>2, <1>3 DEF HoldsAreCovered

\* A member who leaves holds nothing.
LEMMA WithdrawCovered ==
    ASSUME PointsTyped, LedgerTyped, HoldsAreCovered, NEW m \in Members, Withdraw(m)
    PROVE  HoldsAreCovered'
<1>1. \A k \in Members : Held(k)' = Held(k) /\ Held(k) \in Nat
  BY OwnFinite DEF Held, Own, Withdraw
<1>2. Held(m) = 0
  <2>1. \A b \in Own(m) : Holds[b] = 0
    BY DEF Withdraw, Own, Holds
  <2>2. Units(Holds, Own(m)) = {}
    BY <2>1 DEF Units
  <2>. QED  BY <2>2, OwnFinite, FS_EmptySet DEF SumOver
<1>3. /\ corrected' = corrected
      /\ \A k \in Members : corrected[k] \in Nat /\ balance[k] \in Int
      /\ \A k \in Members :
            balance'[k] = IF k = m /\ balance[k] > 0 THEN 0 ELSE balance[k]
  BY DEF Withdraw, LedgerTyped
<1>. QED  BY <1>1, <1>2, <1>3 DEF HoldsAreCovered

\* A step that leaves the points and the balances alone.
LEMMA QuietCovered ==
    ASSUME HoldsAreCovered, UNCHANGED <<points, balance, corrected>>
    PROVE  HoldsAreCovered'
  BY DEF HoldsAreCovered, Held, Own

\* The rows a step frees, or saves with the hold they had.
LEMMA FreedCovered ==
    ASSUME PointsTyped, PointsTyped', LedgerTyped, HoldsAreCovered, NEW b \in Bookings,
           UNCHANGED <<balance, corrected>>,
           points'[b].hold = 0 \/ points'[b].hold = points[b].hold,
           \A c \in Bookings : c # b => points'[c] = points[c]
    PROVE  HoldsAreCovered'
<1>1. \A c \in Bookings : points[c].hold \in Nat
  BY RowTyped DEF PointsRow
<1>2. \A c \in Bookings : points'[c].hold <= points[c].hold
  BY <1>1
<1>. QED  BY <1>2, OtherCovered

\* Every command, payment, creation and recovery keeps the points held covered.
LEMMA CoveredStays ==
    ASSUME PointsTyped, PointsTyped', LedgerTyped, RedeemedOnce, HoldsAreCovered, [Next]_vars
    PROVE  HoldsAreCovered'
<1>1. ASSUME NEW b \in Bookings, ChooseExpired(b)
      PROVE  HoldsAreCovered'
  BY <1>1, QuietCovered DEF ChooseExpired, ledgerVars
<1>2. ASSUME NEW b \in Bookings, Expire(b)
      PROVE  HoldsAreCovered'
  BY <1>2, QuietCovered DEF Expire, ledgerVars
<1>3. ASSUME NEW b \in Bookings, RecordPaid(b)
      PROVE  HoldsAreCovered'
  BY <1>3, QuietCovered DEF RecordPaid, ledgerVars
<1>4. ASSUME NEW b \in Bookings, NEW reply \in Answer, NEW made \in BOOLEAN,
             CreatePaid(b, reply, made)
      PROVE  HoldsAreCovered'
  BY <1>4, QuietCovered DEF CreatePaid, ledgerVars
<1>5. ASSUME NEW b \in Bookings, NEW failed \in BOOLEAN, CreateUnsent(b, failed)
      PROVE  HoldsAreCovered'
  BY <1>5, QuietCovered DEF CreateUnsent, ledgerVars
<1>6. ASSUME NEW b \in Bookings, NEW reply \in Answer, NEW made \in BOOLEAN,
             CreateSent(b, reply, made)
      PROVE  HoldsAreCovered'
  BY <1>6, QuietCovered DEF CreateSent, ledgerVars
<1>7. ASSUME NEW b \in Bookings, CreateAnswered(b)
      PROVE  HoldsAreCovered'
  BY <1>7, QuietCovered DEF CreateAnswered, ledgerVars
<1>8. ASSUME NEW b \in Bookings, ConfirmUncertain(b)
      PROVE  HoldsAreCovered'
  BY <1>8, QuietCovered DEF ConfirmUncertain, ledgerVars
<1>9. ASSUME NEW b \in Bookings, ConfirmDies(b)
      PROVE  HoldsAreCovered'
  BY <1>9, QuietCovered DEF ConfirmDies, ledgerVars
<1>10. ASSUME NEW b \in Bookings, SyncConfirmed(b)
      PROVE  HoldsAreCovered'
  BY <1>10, QuietCovered DEF SyncConfirmed, ledgerVars
<1>11. ASSUME NEW b \in Bookings, Cancel(b)
      PROVE  HoldsAreCovered'
  BY <1>11, QuietCovered DEF Cancel, ledgerVars
<1>12. ASSUME NEW a \in Attempts, NEW outcome \in {"paid", "declined"}, Decide(a, outcome)
      PROVE  HoldsAreCovered'
  BY <1>12, QuietCovered DEF Decide, ledgerVars
<1>13. ASSUME NEW a \in Attempts, NEW read \in AttemptStatus \ {"none"}, Verify(a, read)
      PROVE  HoldsAreCovered'
  BY <1>13, QuietCovered DEF Verify, ledgerVars
<1>14. ASSUME NEW b \in Bookings, NEW n \in 1 .. Total[b], Hold(b, n)
      PROVE  HoldsAreCovered'
  BY <1>14, HoldCovered
<1>15. ASSUME NEW b \in Bookings, Release(b)
      PROVE  HoldsAreCovered'
  BY <1>15, ReleasesTyped, FreedCovered DEF Release, ledgerVars
<1>16. ASSUME NEW b \in Bookings, ReleaseExpired(b)
      PROVE  HoldsAreCovered'
  <2>1. CASE Released(b)
    BY <1>16, <2>1, ReleasesTyped, FreedCovered DEF ReleaseExpired, ledgerVars
  <2>2. CASE UNCHANGED points
    BY <1>16, <2>2, QuietCovered DEF ReleaseExpired, ledgerVars
  <2>. QED  BY <1>16, <2>1, <2>2 DEF ReleaseExpired
<1>17. ASSUME NEW b \in Bookings, Settle(b)
      PROVE  HoldsAreCovered'
  BY <1>17, RedeemCovered DEF Settle, Redeemable
<1>18. ASSUME NEW b \in Bookings, NEW a \in Attempts, Checkout(b, a)
      PROVE  HoldsAreCovered'
  BY <1>18, FreezesTyped, FreedCovered DEF Checkout, ledgerVars
<1>19. ASSUME NEW b \in Bookings, StartConfirm(b)
      PROVE  HoldsAreCovered'
  BY <1>19, StartsTyped, FreedCovered DEF StartConfirm, ledgerVars
<1>20. ASSUME NEW b \in Bookings, ConfirmCreated(b)
      PROVE  HoldsAreCovered'
  <2>1. CASE Redeemable(b) /\ Redeem(b) /\ UNCHANGED corrected
    BY <2>1, RedeemCovered DEF Redeemable
  <2>2. CASE UNCHANGED <<points, ledgerVars>>
    BY <2>2, QuietCovered DEF ledgerVars
  <2>. QED  BY <1>20, <2>1, <2>2 DEF ConfirmCreated
<1>21. ASSUME NEW b \in Bookings, ConfirmRefused(b)
      PROVE  HoldsAreCovered'
  BY <1>21, RefusesTyped, FreedCovered DEF ConfirmRefused, ledgerVars
<1>22. ASSUME NEW b \in Bookings, Recover(b)
      PROVE  HoldsAreCovered'
  <2>. Total[b] \in Nat \ {0}
    BY LoyaltyAssumption
  <2>. QED  BY <1>22, RedeemCovered DEF Recover
<1>23. ASSUME NEW b \in Bookings, Accrue(b)
      PROVE  HoldsAreCovered'
  BY <1>23, ReachCovered DEF Accrue
<1>24. ASSUME NEW b \in Bookings, NEW target \in 0 .. Total[b], RestoreCancelled(b, target)
      PROVE  HoldsAreCovered'
  <2>. target \in Nat
    BY LoyaltyAssumption
  <2>. QED  BY <1>24, RestoreCovered DEF RestoreCancelled
<1>25. ASSUME NEW b \in Bookings, NEW target \in 0 .. Total[b], RefundPlan(b, target)
      PROVE  HoldsAreCovered'
  <2>. target \in Nat
    BY LoyaltyAssumption
  <2>. QED  BY <1>25, RestoreCovered DEF RefundPlan
<1>26. ASSUME NEW m \in Members, NEW n \in Members, NEW value \in 1 .. balance[m], Gift(m, n, value)
      PROVE  HoldsAreCovered'
  BY <1>26, GiftCovered
<1>27. ASSUME NEW m \in Members, Withdraw(m)
      PROVE  HoldsAreCovered'
  BY <1>27, WithdrawCovered
<1>28. CASE UNCHANGED vars
  BY <1>28, QuietCovered DEF vars, ledgerVars
<1>. QED
      BY <1>1, <1>2, <1>3, <1>4, <1>5, <1>6, <1>7, <1>8, <1>9, <1>10, <1>11, <1>12, <1>13,
         <1>14, <1>15, <1>16, <1>17, <1>18, <1>19, <1>20, <1>21, <1>22, <1>23, <1>24,
         <1>25, <1>26, <1>27, <1>28
      DEF Next, PointsNext, CardNext, ConfirmNext, LaterNext, GateNext, MemberNext

LEMMA InitiallyCovered == Init => HoldsAreCovered
<1>. SUFFICES ASSUME Init, NEW m \in Members PROVE Held(m) <= balance[m] + corrected[m]
  BY DEF HoldsAreCovered
<1>1. Held(m) = 0
  <2>1. Units([b \in Bookings |-> points[b].hold], Own(m)) = {}
    BY DEF Init, Units, Own
  <2>. QED  BY <2>1, FS_EmptySet DEF Held, SumOver
<1>2. balance[m] = Opening[m] /\ Opening[m] \in Nat /\ corrected[m] = 0
  BY LoyaltyAssumption DEF Init
<1>. QED  BY <1>1, <1>2

\* Holds, redemptions, gifts and withdrawals never use more than a member had, whatever
\* rewards were taken back meanwhile (available, redeem, transfer, withdraw, reconcile).
THEOREM HoldsAlwaysCovered == Spec => []HoldsAreCovered
<1>1. ASSUME LoyaltyInv, LoyaltyInv', HoldsAreCovered, [Next]_vars
      PROVE  HoldsAreCovered'
  <2>1. PointsTyped /\ LedgerTyped /\ RedeemedOnce
    BY <1>1, TypeParts DEF LoyaltyInv
  <2>2. PointsTyped'
    BY <1>1 DEF LoyaltyInv, LoyaltyTypeOK, PointsTyped, PointsRow, Sound
  <2>. QED  BY <1>1, <2>1, <2>2, CoveredStays
<1>. QED  BY <1>1, InitiallyCovered, LoyaltyInvariant, PTL DEF Spec

-----------------------------------------------------------------------------
(* The messages.                                                           *)

\* A worker has a message to send, is asked by the provider, or has not sent it yet.
HoldsMessage(w, m) == step[w] \in {"check", "send", "settle"} /\ job[w] = m
Unsent(w, m) == step[w] \in {"check", "send"} /\ job[w] = m

\* Nothing will be sent again: the row is done with, as far as the notices are concerned.
Final == {"accepted", "failed", "uncertain", "skipped"}

\* A message in somebody's hands is being sent, and is in no other hands.
HeldIsSending ==
    \A w \in Workers, m \in Messages :
        HoldsMessage(w, m) =>
            /\ delivery[m] = "sending"
            /\ \A v \in Workers : HoldsMessage(v, m) => v = w

\* A worker that is not idle has a message of Messages when it acts on one, and only an
\* email is tried again, only a notice checked.
JobsNamed ==
    \A w \in Workers :
        /\ step[w] \in {"check", "send", "settle", "retry"} => job[w] \in Messages
        /\ step[w] = "check" => kind = "notice"

\* Every time the provider takes an email an attempt of it has been counted.
AttemptsCounted ==
    kind = "email" =>
        \A m \in Messages :
            /\ taken[m] <= tries[m] /\ tries[m] <= MaxRetries
            /\ \A w \in Workers : Unsent(w, m) => taken[m] < tries[m]

\* What may still be sent, of the other kinds, has not been taken.
MayStillGo(m) ==
    \/ delivery[m] \in {"none", "queued"}
    \/ kind = "invoice" /\ delivery[m] = "failed"
    \/ \E w \in Workers : Unsent(w, m) \/ (HoldsMessage(w, m) /\ answer[w] = "no")

TakenOnce ==
    kind # "email" =>
        \A m \in Messages : taken[m] <= 1 /\ (MayStillGo(m) => taken[m] = 0)

\* A notice is only sent after the earlier ones have come to an end.
EarlierFirst ==
    kind = "notice" =>
        \A m, k \in Messages :
            m < k =>
                /\ delivery[k] # "none" => delivery[m] # "none"
                /\ delivery[k] = "sending" \/ taken[k] > 0 => delivery[m] \in Final

NoticesInv ==
    /\ NoticesTypeOK /\ HeldIsSending /\ JobsNamed
    /\ AttemptsCounted /\ TakenOnce /\ EarlierFirst
-----------------------------------------------------------------------------
\* The start.
LEMMA InitInvariant == NoticesInit => NoticesInv
BY NoticesAssumption
DEF NoticesInit, NoticesInv, NoticesTypeOK, HeldIsSending, JobsNamed, AttemptsCounted,
    TakenOnce, EarlierFirst, MayStillGo, HoldsMessage, Unsent, Messages, Kinds, Statuses, Steps,
    Answers, Final

\* Every step keeps the types.
LEMMA TypePreserved ==
    ASSUME NoticesTypeOK, JobsNamed, NoticesNext
    PROVE  NoticesTypeOK'
<1> USE NoticesAssumption
<1> USE DEF NoticesTypeOK, JobsNamed, Mark, MarkSending, Statuses, Steps, Answers, rowVars,
    queueVars, workerVars
<1>1. CASE \E m \in Messages : QueueEmail(m)
    BY <1>1 DEF QueueEmail
<1>2. CASE \E m \in Messages : QueueInvoice(m)
    BY <1>2 DEF QueueInvoice, MayQueueInvoice
<1>3. CASE \E m \in Messages : PostMovement(m)
    BY <1>3 DEF PostMovement
<1>4. CASE \E m \in Messages : Dispatch(m)
    BY <1>4 DEF Dispatch
<1>5. CASE \E m \in Messages : Doubt(m)
    BY <1>5 DEF Doubt
<1>6. CASE \E m \in Messages : LoseTask(m)
    BY <1>6 DEF LoseTask
<1>7. CASE \E w \in Workers, m \in Messages : Claim(w, m)
    BY <1>7 DEF Claim, TurnTo
<1>8. CASE \E w \in Workers, m \in Messages : Refuse(w, m)
    BY <1>8 DEF Refuse, TurnTo, Done
<1>9. CASE \E w \in Workers, m \in Messages : DropNotice(w, m)
    BY <1>9 DEF DropNotice, TurnTo, Done
<1>10. CASE \E w \in Workers, m \in Messages : RequestAlert(w, m)
    BY <1>10 DEF RequestAlert
<1>11. CASE \E w \in Workers : ListQueue(w)
    BY <1>11 DEF ListQueue, QueuedEmails
<1>12. CASE \E w \in Workers : ProviderReady(w)
    BY <1>12 DEF ProviderReady
<1>13. CASE \E w \in Workers : ProviderAway(w)
    BY <1>13 DEF ProviderAway, Done
<1>14. CASE \E w \in Workers : RecipientChanged(w)
    BY <1>14 DEF RecipientChanged, Done
<1>15. CASE \E w \in Workers : Send(w)
    BY <1>15 DEF Send
<1>16. CASE \E w \in Workers : SettleEmail(w)
    BY <1>16 DEF SettleEmail, Done
<1>17. CASE \E w \in Workers : SettleInvoice(w)
    BY <1>17 DEF SettleInvoice, InvoiceOutcomes, Done
<1>18. CASE \E w \in Workers : SettleNotice(w)
    BY <1>18 DEF SettleNotice, Done
<1>19. CASE \E w \in Workers : SettleAlert(w)
    BY <1>19 DEF SettleAlert, Done
<1>20. CASE \E w \in Workers : Retry(w)
    BY <1>20 DEF Retry
<1>21. CASE \E w \in Workers : Crash(w)
    BY <1>21 DEF Crash
<1>22. CASE RecoverNotices
    BY <1>22 DEF RecoverNotices, Abandoned
<1>23. QED BY <1>1, <1>2, <1>3, <1>4, <1>5, <1>6, <1>7, <1>8, <1>9, <1>10, <1>11, <1>12, <1>13,
              <1>14, <1>15, <1>16, <1>17, <1>18, <1>19, <1>20, <1>21, <1>22
              DEF NoticesNext, Visit, WorkerStep

\* A message is claimed by one worker, and stays being sent while it is in its hands.
LEMMA HeldPreserved ==
    ASSUME NoticesTypeOK, HeldIsSending, JobsNamed, NoticesNext
    PROVE  HeldIsSending'
<1> USE NoticesAssumption
<1> USE DEF NoticesTypeOK, HeldIsSending, JobsNamed, HoldsMessage, Statuses, Steps,
    Mark, MarkSending, rowVars, queueVars, workerVars
<1>1. CASE \E m \in Messages : QueueEmail(m)
    BY <1>1 DEF QueueEmail
<1>2. CASE \E m \in Messages : QueueInvoice(m)
    BY <1>2 DEF QueueInvoice, MayQueueInvoice
<1>3. CASE \E m \in Messages : PostMovement(m)
    BY <1>3 DEF PostMovement
<1>4. CASE \E m \in Messages : Dispatch(m)
    BY <1>4 DEF Dispatch
<1>5. CASE \E m \in Messages : Doubt(m)
    BY <1>5 DEF Doubt
<1>6. CASE \E m \in Messages : LoseTask(m)
    BY <1>6 DEF LoseTask
<1>7. CASE \E w \in Workers, m \in Messages : Claim(w, m)
    BY <1>7 DEF Claim, TurnTo, MayClaim
<1>8. CASE \E w \in Workers, m \in Messages : Refuse(w, m)
    BY <1>8 DEF Refuse, TurnTo, Done
<1>9. CASE \E w \in Workers, m \in Messages : DropNotice(w, m)
    BY <1>9 DEF DropNotice, TurnTo, Done
<1>10. CASE \E w \in Workers, m \in Messages : RequestAlert(w, m)
    BY <1>10 DEF RequestAlert
<1>11. CASE \E w \in Workers : ListQueue(w)
    BY <1>11 DEF ListQueue, QueuedEmails
<1>12. CASE \E w \in Workers : ProviderReady(w)
    BY <1>12 DEF ProviderReady
<1>13. CASE \E w \in Workers : ProviderAway(w)
    BY <1>13 DEF ProviderAway, Done
<1>14. CASE \E w \in Workers : RecipientChanged(w)
    BY <1>14 DEF RecipientChanged, Done
<1>15. CASE \E w \in Workers : Send(w)
    BY <1>15 DEF Send
<1>16. CASE \E w \in Workers : SettleEmail(w)
    BY <1>16 DEF SettleEmail, Done
<1>17. CASE \E w \in Workers : SettleInvoice(w)
    BY <1>17 DEF SettleInvoice, InvoiceOutcomes, Done
<1>18. CASE \E w \in Workers : SettleNotice(w)
    BY <1>18 DEF SettleNotice, Done
<1>19. CASE \E w \in Workers : SettleAlert(w)
    BY <1>19 DEF SettleAlert, Done
<1>20. CASE \E w \in Workers : Retry(w)
    BY <1>20 DEF Retry
<1>21. CASE \E w \in Workers : Crash(w)
    BY <1>21 DEF Crash
<1>22. CASE RecoverNotices
    BY <1>22 DEF RecoverNotices, Abandoned
<1>23. QED BY <1>1, <1>2, <1>3, <1>4, <1>5, <1>6, <1>7, <1>8, <1>9, <1>10, <1>11,
        <1>12, <1>13, <1>14, <1>15, <1>16, <1>17, <1>18, <1>19, <1>20, <1>21, <1>22
        DEF NoticesNext, Visit, WorkerStep

\* Workers act on messages.
LEMMA NamesPreserved ==
    ASSUME NoticesTypeOK, HeldIsSending, JobsNamed, NoticesNext
    PROVE  JobsNamed'
<1> USE NoticesAssumption
<1> USE DEF NoticesTypeOK, JobsNamed, Steps,
    Mark, MarkSending, rowVars, queueVars, workerVars
<1>1. CASE \E m \in Messages : QueueEmail(m)
    BY <1>1 DEF QueueEmail
<1>2. CASE \E m \in Messages : QueueInvoice(m)
    BY <1>2 DEF QueueInvoice, MayQueueInvoice
<1>3. CASE \E m \in Messages : PostMovement(m)
    BY <1>3 DEF PostMovement
<1>4. CASE \E m \in Messages : Dispatch(m)
    BY <1>4 DEF Dispatch
<1>5. CASE \E m \in Messages : Doubt(m)
    BY <1>5 DEF Doubt
<1>6. CASE \E m \in Messages : LoseTask(m)
    BY <1>6 DEF LoseTask
<1>7. CASE \E w \in Workers, m \in Messages : Claim(w, m)
    BY <1>7 DEF Claim, TurnTo, MayClaim
<1>8. CASE \E w \in Workers, m \in Messages : Refuse(w, m)
    BY <1>8 DEF Refuse, TurnTo, Done
<1>9. CASE \E w \in Workers, m \in Messages : DropNotice(w, m)
    BY <1>9 DEF DropNotice, TurnTo, Done
<1>10. CASE \E w \in Workers, m \in Messages : RequestAlert(w, m)
    BY <1>10 DEF RequestAlert
<1>11. CASE \E w \in Workers : ListQueue(w)
    BY <1>11 DEF ListQueue, QueuedEmails
<1>12. CASE \E w \in Workers : ProviderReady(w)
    BY <1>12 DEF ProviderReady
<1>13. CASE \E w \in Workers : ProviderAway(w)
    BY <1>13 DEF ProviderAway, Done
<1>14. CASE \E w \in Workers : RecipientChanged(w)
    BY <1>14 DEF RecipientChanged, Done
<1>15. CASE \E w \in Workers : Send(w)
    BY <1>15 DEF Send
<1>16. CASE \E w \in Workers : SettleEmail(w)
    BY <1>16 DEF SettleEmail, Done
<1>17. CASE \E w \in Workers : SettleInvoice(w)
    BY <1>17 DEF SettleInvoice, InvoiceOutcomes, Done
<1>18. CASE \E w \in Workers : SettleNotice(w)
    BY <1>18 DEF SettleNotice, Done
<1>19. CASE \E w \in Workers : SettleAlert(w)
    BY <1>19 DEF SettleAlert, Done
<1>20. CASE \E w \in Workers : Retry(w)
    BY <1>20 DEF Retry
<1>21. CASE \E w \in Workers : Crash(w)
    BY <1>21 DEF Crash
<1>22. CASE RecoverNotices
    BY <1>22 DEF RecoverNotices, Abandoned
<1>23. QED BY <1>1, <1>2, <1>3, <1>4, <1>5, <1>6, <1>7, <1>8, <1>9, <1>10, <1>11,
        <1>12, <1>13, <1>14, <1>15, <1>16, <1>17, <1>18, <1>19, <1>20, <1>21, <1>22
        DEF NoticesNext, Visit, WorkerStep

\* An email is claimed again only while attempts are left, and each is sent once.
LEMMA AttemptsPreserved ==
    ASSUME NoticesTypeOK, HeldIsSending, JobsNamed, AttemptsCounted, NoticesNext
    PROVE  AttemptsCounted'
<1> USE NoticesAssumption
<1> USE DEF NoticesTypeOK, HeldIsSending, JobsNamed, AttemptsCounted, HoldsMessage, Unsent, Steps,
    Mark, MarkSending, rowVars, queueVars, workerVars
<1>1. CASE \E m \in Messages : QueueEmail(m)
    BY <1>1 DEF QueueEmail
<1>2. CASE \E m \in Messages : QueueInvoice(m)
    BY <1>2 DEF QueueInvoice, MayQueueInvoice
<1>3. CASE \E m \in Messages : PostMovement(m)
    BY <1>3 DEF PostMovement
<1>4. CASE \E m \in Messages : Dispatch(m)
    BY <1>4 DEF Dispatch
<1>5. CASE \E m \in Messages : Doubt(m)
    BY <1>5 DEF Doubt
<1>6. CASE \E m \in Messages : LoseTask(m)
    BY <1>6 DEF LoseTask
<1>7. CASE \E w \in Workers, m \in Messages : Claim(w, m)
    BY <1>7 DEF Claim, TurnTo, MayClaim
<1>8. CASE \E w \in Workers, m \in Messages : Refuse(w, m)
    BY <1>8 DEF Refuse, TurnTo, Done
<1>9. CASE \E w \in Workers, m \in Messages : DropNotice(w, m)
    BY <1>9 DEF DropNotice, TurnTo, Done
<1>10. CASE \E w \in Workers, m \in Messages : RequestAlert(w, m)
    BY <1>10 DEF RequestAlert
<1>11. CASE \E w \in Workers : ListQueue(w)
    BY <1>11 DEF ListQueue, QueuedEmails
<1>12. CASE \E w \in Workers : ProviderReady(w)
    BY <1>12 DEF ProviderReady
<1>13. CASE \E w \in Workers : ProviderAway(w)
    BY <1>13 DEF ProviderAway, Done
<1>14. CASE \E w \in Workers : RecipientChanged(w)
    BY <1>14 DEF RecipientChanged, Done
<1>15. CASE \E w \in Workers : Send(w)
    BY <1>15 DEF Send
<1>16. CASE \E w \in Workers : SettleEmail(w)
    BY <1>16 DEF SettleEmail, Done
<1>17. CASE \E w \in Workers : SettleInvoice(w)
    BY <1>17 DEF SettleInvoice, InvoiceOutcomes, Done
<1>18. CASE \E w \in Workers : SettleNotice(w)
    BY <1>18 DEF SettleNotice, Done
<1>19. CASE \E w \in Workers : SettleAlert(w)
    BY <1>19 DEF SettleAlert, Done
<1>20. CASE \E w \in Workers : Retry(w)
    BY <1>20 DEF Retry
<1>21. CASE \E w \in Workers : Crash(w)
    BY <1>21 DEF Crash
<1>22. CASE RecoverNotices
    BY <1>22 DEF RecoverNotices, Abandoned
<1>23. QED BY <1>1, <1>2, <1>3, <1>4, <1>5, <1>6, <1>7, <1>8, <1>9, <1>10, <1>11,
        <1>12, <1>13, <1>14, <1>15, <1>16, <1>17, <1>18, <1>19, <1>20, <1>21, <1>22
        DEF NoticesNext, Visit, WorkerStep

\* What the provider may have taken is not sent again.
LEMMA TakenPreserved ==
    ASSUME NoticesTypeOK, HeldIsSending, JobsNamed, TakenOnce, NoticesNext
    PROVE  TakenOnce'
<1> USE NoticesAssumption
<1> USE DEF NoticesTypeOK, HeldIsSending, JobsNamed, TakenOnce, MayStillGo, HoldsMessage, Unsent,
    Statuses, Steps, Answers, Mark, MarkSending, rowVars, queueVars, workerVars
<1>1. CASE \E m \in Messages : QueueEmail(m)
    BY <1>1 DEF QueueEmail
<1>2. CASE \E m \in Messages : QueueInvoice(m)
    BY <1>2 DEF QueueInvoice, MayQueueInvoice
<1>3. CASE \E m \in Messages : PostMovement(m)
    BY <1>3 DEF PostMovement
<1>4. CASE \E m \in Messages : Dispatch(m)
    BY <1>4 DEF Dispatch
<1>5. CASE \E m \in Messages : Doubt(m)
    BY <1>5 DEF Doubt
<1>6. CASE \E m \in Messages : LoseTask(m)
    BY <1>6 DEF LoseTask
<1>7. CASE \E w \in Workers, m \in Messages : Claim(w, m)
    BY <1>7 DEF Claim, TurnTo, MayClaim
<1>8. CASE \E w \in Workers, m \in Messages : Refuse(w, m)
    BY <1>8 DEF Refuse, TurnTo, Done
<1>9. CASE \E w \in Workers, m \in Messages : DropNotice(w, m)
    BY <1>9 DEF DropNotice, TurnTo, Done
<1>10. CASE \E w \in Workers, m \in Messages : RequestAlert(w, m)
    BY <1>10 DEF RequestAlert
<1>11. CASE \E w \in Workers : ListQueue(w)
    BY <1>11 DEF ListQueue, QueuedEmails
<1>12. CASE \E w \in Workers : ProviderReady(w)
    BY <1>12 DEF ProviderReady
<1>13. CASE \E w \in Workers : ProviderAway(w)
    BY <1>13 DEF ProviderAway, Done
<1>14. CASE \E w \in Workers : RecipientChanged(w)
    BY <1>14 DEF RecipientChanged, Done
<1>15. CASE \E w \in Workers : Send(w)
    BY <1>15 DEF Send
<1>16. CASE \E w \in Workers : SettleEmail(w)
    BY <1>16 DEF SettleEmail, Done
<1>17. CASE \E w \in Workers : SettleInvoice(w)
    BY <1>17 DEF SettleInvoice, InvoiceOutcomes, Done
<1>18. CASE \E w \in Workers : SettleNotice(w)
    BY <1>18 DEF SettleNotice, Done
<1>19. CASE \E w \in Workers : SettleAlert(w)
    BY <1>19 DEF SettleAlert, Done
<1>20. CASE \E w \in Workers : Retry(w)
    BY <1>20 DEF Retry
<1>21. CASE \E w \in Workers : Crash(w)
    BY <1>21 DEF Crash
<1>22. CASE RecoverNotices
    BY <1>22 DEF RecoverNotices, Abandoned
<1>23. QED BY <1>1, <1>2, <1>3, <1>4, <1>5, <1>6, <1>7, <1>8, <1>9, <1>10, <1>11,
        <1>12, <1>13, <1>14, <1>15, <1>16, <1>17, <1>18, <1>19, <1>20, <1>21, <1>22
        DEF NoticesNext, Visit, WorkerStep

\* A notice is claimed when the earlier ones have come to an end, and they stay there.
LEMMA OrderPreserved ==
    ASSUME NoticesTypeOK, HeldIsSending, JobsNamed, EarlierFirst, NoticesNext
    PROVE  EarlierFirst'
<1> USE NoticesAssumption
<1> USE DEF NoticesTypeOK, HeldIsSending, JobsNamed, EarlierFirst, HoldsMessage, Final, Messages,
    Statuses, Steps, Mark, MarkSending, rowVars, queueVars, workerVars
<1>1. CASE \E m \in Messages : QueueEmail(m)
    BY <1>1 DEF QueueEmail
<1>2. CASE \E m \in Messages : QueueInvoice(m)
    BY <1>2 DEF QueueInvoice, MayQueueInvoice
<1>3. CASE \E m \in Messages : PostMovement(m)
    <2>1. PICK p \in Messages : PostMovement(p) BY <1>3
    <2>2. \A q \in Messages : q # p => delivery'[q] = delivery[q]
        BY <2>1 DEF PostMovement
    <2>3. delivery[p] = "none" /\ delivery'[p] \in {"queued", "skipped"}
        BY <2>1 DEF PostMovement
    <2>4. \A q \in Messages : q < p => delivery[q] # "none"
        BY <2>1 DEF PostMovement
    <2>5. kind' = kind /\ kind = "notice" /\ taken' = taken
        BY <2>1 DEF PostMovement
    <2> SUFFICES ASSUME NEW m \in Messages, NEW k \in Messages, m < k
                 PROVE  /\ delivery'[k] # "none" => delivery'[m] # "none"
                        /\ delivery'[k] = "sending" \/ taken[k] > 0
                             => delivery'[m] \in Final
        BY <2>5 DEF EarlierFirst
    <2>8. /\ delivery[k] # "none" => delivery[m] # "none"
          /\ delivery[k] = "sending" \/ taken[k] > 0 => delivery[m] \in Final
        BY <2>5
    <2> QED BY <2>2, <2>3, <2>4, <2>8
<1>4. CASE \E m \in Messages : Dispatch(m)
    BY <1>4 DEF Dispatch
<1>5. CASE \E m \in Messages : Doubt(m)
    BY <1>5 DEF Doubt
<1>6. CASE \E m \in Messages : LoseTask(m)
    BY <1>6 DEF LoseTask
<1>7. CASE \E w \in Workers, m \in Messages : Claim(w, m)
    BY <1>7 DEF Claim, TurnTo, MayClaim, Earlier
<1>8. CASE \E w \in Workers, m \in Messages : Refuse(w, m)
    BY <1>8 DEF Refuse, TurnTo, Done
<1>9. CASE \E w \in Workers, m \in Messages : DropNotice(w, m)
    <2>1. PICK w \in Workers, p \in Messages : DropNotice(w, p) BY <1>9
    <2>2. \A q \in Messages : q # p => delivery'[q] = delivery[q]
        BY <2>1 DEF DropNotice
    <2>3. delivery[p] = "queued" /\ delivery'[p] \in {"skipped", "failed"}
        BY <2>1 DEF DropNotice
    <2>4. kind' = kind /\ kind = "notice" /\ taken' = taken
        BY <2>1 DEF DropNotice
    <2> SUFFICES ASSUME NEW m \in Messages, NEW k \in Messages, m < k
                 PROVE  /\ delivery'[k] # "none" => delivery'[m] # "none"
                        /\ delivery'[k] = "sending" \/ taken[k] > 0
                             => delivery'[m] \in Final
        BY <2>4 DEF EarlierFirst
    <2>8. /\ delivery[k] # "none" => delivery[m] # "none"
          /\ delivery[k] = "sending" \/ taken[k] > 0 => delivery[m] \in Final
        BY <2>4
    <2> QED BY <2>2, <2>3, <2>8
<1>10. CASE \E w \in Workers, m \in Messages : RequestAlert(w, m)
    BY <1>10 DEF RequestAlert
<1>11. CASE \E w \in Workers : ListQueue(w)
    BY <1>11 DEF ListQueue, QueuedEmails
<1>12. CASE \E w \in Workers : ProviderReady(w)
    BY <1>12 DEF ProviderReady
<1>13. CASE \E w \in Workers : ProviderAway(w)
    <2>1. PICK w \in Workers : ProviderAway(w) BY <1>13
    <2>2. /\ job[w] \in Messages /\ delivery[job[w]] = "sending"
          /\ delivery'[job[w]] = "queued"
        BY <2>1 DEF ProviderAway
    <2>3. \A q \in Messages : q # job[w] => delivery'[q] = delivery[q]
        BY <2>1 DEF ProviderAway
    <2> QED BY <2>1, <2>2, <2>3 DEF ProviderAway
<1>14. CASE \E w \in Workers : RecipientChanged(w)
    BY <1>14 DEF RecipientChanged, Done
<1>15. CASE \E w \in Workers : Send(w)
    BY <1>15 DEF Send
<1>16. CASE \E w \in Workers : SettleEmail(w)
    BY <1>16 DEF SettleEmail, Done
<1>17. CASE \E w \in Workers : SettleInvoice(w)
    BY <1>17 DEF SettleInvoice, InvoiceOutcomes, Done
<1>18. CASE \E w \in Workers : SettleNotice(w)
    BY <1>18 DEF SettleNotice, Done
<1>19. CASE \E w \in Workers : SettleAlert(w)
    BY <1>19 DEF SettleAlert, Done
<1>20. CASE \E w \in Workers : Retry(w)
    BY <1>20 DEF Retry
<1>21. CASE \E w \in Workers : Crash(w)
    BY <1>21 DEF Crash
<1>22. CASE RecoverNotices
    BY <1>22 DEF RecoverNotices, Abandoned
<1>23. QED BY <1>1, <1>2, <1>3, <1>4, <1>5, <1>6, <1>7, <1>8, <1>9, <1>10, <1>11,
        <1>12, <1>13, <1>14, <1>15, <1>16, <1>17, <1>18, <1>19, <1>20, <1>21, <1>22
        DEF NoticesNext, Visit, WorkerStep

\* All of it together.
LEMMA InvPreserved == NoticesInv /\ [NoticesNext]_noticesVars => NoticesInv'
<1>1. CASE NoticesNext
    BY <1>1, TypePreserved, HeldPreserved, NamesPreserved, AttemptsPreserved, TakenPreserved,
        OrderPreserved
    DEF NoticesInv
<1>2. CASE UNCHANGED noticesVars
    BY <1>2
    DEF NoticesInv, NoticesTypeOK, HeldIsSending, JobsNamed, AttemptsCounted, TakenOnce,
        EarlierFirst, MayStillGo, HoldsMessage, Unsent, noticesVars, rowVars, queueVars, workerVars
<1> QED BY <1>1, <1>2

\* (inductive invariant) What holds of the outboxes in every state: the types, who has a
\* message in its hands, and what may still be sent.
THEOREM NoticesInvariant == NoticesSpec => []NoticesInv
BY InitInvariant, InvPreserved, PTL DEF NoticesSpec

\* The rows, the tasks and the workers stay within their types (the status values of the
\* delivery rows, one message in a worker's hands).
THEOREM NoticesTypeCorrect == NoticesSpec => []NoticesTypeOK
<1>1. NoticesInv => NoticesTypeOK BY DEF NoticesInv
<1> QED BY <1>1, NoticesInvariant, PTL

\* Nobody gets an invoice, a notice or an alert twice, nor an email more often than
\* EMAIL_MAX_RETRIES, whatever is clicked again, repeated or lost (deliver_invoice,
\* send_queued_email).
THEOREM NothingTwice == NoticesSpec => []NeverTwice
<1>1. NoticesInv => NeverTwice
    BY NoticesAssumption
    DEF NoticesInv, NoticesTypeOK, AttemptsCounted, TakenOnce, NeverTwice
<1> QED BY <1>1, NoticesInvariant, PTL

\* A member never gets a notice after a later one, whichever workers have them
\* (deliver_movement_notice).
THEOREM OrderKept == NoticesSpec => NoticesInOrder
<1>1. NoticesInv /\ [NoticesNext]_noticesVars =>
        [kind = "notice" =>
           \A m \in Messages :
              taken'[m] > taken[m] => \A k \in m + 1 .. Count : taken[k] = 0]_noticesVars
    <2> SUFFICES ASSUME NoticesInv, NoticesNext, kind = "notice",
                        NEW m \in Messages, taken'[m] > taken[m],
                        NEW k \in m + 1 .. Count
                 PROVE  taken[k] = 0
        OBVIOUS
    <2>1. k \in Messages /\ m < k /\ taken[k] \in Nat
        BY NoticesAssumption DEF Messages, NoticesInv, NoticesTypeOK
    <2>2. PICK w \in Workers : Send(w)
        BY DEF NoticesNext, Visit, WorkerStep, NoticesInv, NoticesTypeOK, rowVars, queueVars,
            workerVars, QueueEmail, QueueInvoice, PostMovement, Dispatch, Doubt, LoseTask,
            Claim, Refuse, DropNotice, RequestAlert, ListQueue, ProviderReady, ProviderAway,
            RecipientChanged, SettleEmail, SettleInvoice, SettleNotice, SettleAlert, Retry,
            Crash, RecoverNotices
    <2>3. job[w] = m /\ HoldsMessage(w, m)
        BY <2>2 DEF Send, NoticesInv, NoticesTypeOK, HoldsMessage
    <2>4. delivery[m] = "sending"
        BY <2>3 DEF NoticesInv, HeldIsSending
    <2> QED BY <2>1, <2>4 DEF NoticesInv, EarlierFirst, Final
<1> QED BY <1>1, NoticesInvariant, PTL DEF NoticesSpec, NoticesInOrder
================================================================================
