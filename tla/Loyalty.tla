------------------------------- MODULE Loyalty --------------------------------
(***************************************************************************)
(* Points spent on bookings: a member puts points on a booking (hold), the *)
(* rest is collected by card or, when the points cover everything, the     *)
(* booking is made without a payment; a confirmed booking consumes the     *)
(* hold (redeem), a cancelled one gives the points back (restore), rewards *)
(* are posted and corrected, points are given away, a membership closes.   *)
(*                                                                         *)
(* Every loyalty command runs under one advisory lock until it commits     *)
(* (posting_transaction), so a command is one action; the calls to         *)
(* Hostaway and HyperPay, the steps between two commands and the work      *)
(* scheduled for after a commit are actions of their own.  Points and SAR  *)
(* are counted in the same unit, as the code does.  A repeated request of  *)
(* a command returns the stored result and changes nothing (receipt): it   *)
(* is a step that does not happen.  How a reservation is created once is   *)
(* the subject of DirectBooking; here the call is one step and its answer  *)
(* another.                                                                *)
(***************************************************************************)
EXTENDS Integers, Sums

CONSTANTS
    Members,   \* members of the program
    Bookings,  \* their website bookings, each with its booking intent
    Attempts,  \* bound: the card payments ever started
    Owner,     \* the member each booking belongs to
    Total,     \* the price of each booking
    Opening,   \* what each member owns before any of this
    Reward     \* what a paid stay earns its guest

ASSUME LoyaltyAssumption ==
    /\ IsFiniteSet(Bookings)
    /\ Owner \in [Bookings -> Members]
    /\ Total \in [Bookings -> Nat \ {0}] /\ Opening \in [Members -> Nat] /\ Reward \in Nat

VARIABLES
    intent,    \* BookingIntent.status
    status,    \* Reservation.normalized_status
    points,    \* Reservation.loyalty_state
    stay,      \* the reservation in Hostaway
    attempt,   \* PaymentAttempt
    checkout,  \* the checkout at HyperPay
    call,      \* confirm_points_booking of the booking, between two transactions
    expiring,  \* how far the expiration of the intent got
    balance,   \* the sum of the member's ledger rows
    closed,    \* members who withdrew
    earned,    \* ledger rows of a booking: its rewards and their corrections
    spent,     \* ... its redemptions
    returned,  \* ... what was restored
    corrected  \* history: the rewards taken back from a member

bookingVars == <<intent, status, stay, expiring>>
cardVars == <<attempt, checkout>>
ledgerVars == <<balance, closed, earned, spent, returned, corrected>>
vars == <<bookingVars, points, cardVars, call, ledgerVars>>

IntentStatus == {"awaiting", "verified", "expired", "completed"}
Status == {"awaiting", "ready", "creating", "confirmed", "failed", "unknown", "cancelled"}
AttemptStatus == {"none", "pending", "unknown", "succeeded", "failed"}
Answer == {"made", "unconfirmed", "unreadable", "rejected", "lost"}
Call == {"idle", "create", "created", "refused", "uncertain"} \cup Answer
Expiring == {"no", "chosen", "committed"}

Init ==
    /\ intent = [b \in Bookings |-> "awaiting"]
    /\ status = [b \in Bookings |-> "awaiting"]
    /\ points = [b \in Bookings |-> [hold |-> 0, frozen |-> FALSE, started |-> FALSE,
                                     redeemed |-> 0, restored |-> 0]]
    /\ stay = [b \in Bookings |-> "none"]
    /\ attempt = [a \in Attempts |-> [status |-> "none", booking |-> {}, amount |-> 0]]
    /\ checkout = [a \in Attempts |-> "none"]
    /\ call = [b \in Bookings |-> "idle"]
    /\ expiring = [b \in Bookings |-> "no"]
    /\ balance = Opening
    /\ closed = {}
    /\ earned = [b \in Bookings |-> 0]
    /\ spent = [b \in Bookings |-> 0]
    /\ returned = [b \in Bookings |-> 0]
    /\ corrected = [m \in Members |-> 0]

-----------------------------------------------------------------------------
(* What the commands look at.                                              *)

Own(m) == {b \in Bookings : Owner[b] = m}

\* held_points: counted anew over the member's bookings.
Held(m) == SumOver([b \in Bookings |-> points[b].hold], Own(m))

\* (mutant) what is held elsewhere is forgotten
HoldsForgotten(m, n) == n <= balance[m]

\* available: a new hold or gift needs points that nothing else has a claim to.
Available(m, n) == n <= balance[m] - Held(m)

Allocation(b) == IF points[b].hold > 0 THEN points[b].hold ELSE points[b].redeemed

\* cash_due: the whole price less the points put on the booking.
CashDue(b) == Total[b] - Allocation(b)

Of(b) == {a \in Attempts : attempt[a].booking = {b}}
Unfailed(b) == {a \in Of(b) : attempt[a].status # "failed"}

\* (mutant) only a payment in progress keeps the points
ReleaseWhileUnknown(b) ==
    /\ ~points[b].started
    /\ points[b].frozen => \A a \in Of(b) : attempt[a].status # "pending"

\* release_allowed: not while a payment made with these points may still succeed, and not
\* while the booking made with them is uncertain.
ReleaseAllowed(b) ==
    /\ ~points[b].started
    /\ points[b].frozen => Unfailed(b) = {}

\* _save_booking: the row of a booking is read and written under the lock.
SaveBooking(b, row) == points' = [points EXCEPT ![b] = row]

-----------------------------------------------------------------------------
(* Points on a booking.                                                    *)

\* hold.  The page read the intent before the lock: it may have expired since.
Hold(b, n) ==
    /\ intent[b] \in {"awaiting", "expired"}
    /\ Owner[b] \notin closed
    /\ status[b] \in {"awaiting", "ready"}
    /\ points[b].hold = 0 /\ points[b].redeemed = 0
    /\ Unfailed(b) = {}
    /\ Available(Owner[b], n)
    /\ SaveBooking(b, [points[b] EXCEPT !.hold = n])
    /\ UNCHANGED <<bookingVars, cardVars, call, ledgerVars>>

Released(b) == SaveBooking(b, [points[b] EXCEPT !.hold = 0, !.frozen = FALSE])

\* release, by the guest; the intent again as the page read it.
Release(b) ==
    /\ intent[b] \in {"awaiting", "expired"}
    /\ Owner[b] \notin closed
    /\ points[b].hold > 0
    /\ ReleaseAllowed(b)
    /\ Released(b)
    /\ UNCHANGED <<bookingVars, cardVars, call, ledgerVars>>

\* expire_booking_records: an intent is chosen while it awaits payment ...
ChooseExpired(b) ==
    /\ intent[b] = "awaiting"
    /\ expiring' = [expiring EXCEPT ![b] = "chosen"]
    /\ UNCHANGED <<intent, status, stay, points, cardVars, call, ledgerVars>>

\* ... and updated by its key alone what a payment wrote in between.
Expire(b) ==
    /\ expiring[b] = "chosen"
    /\ intent' = [intent EXCEPT ![b] = "expired"]
    /\ expiring' = [expiring EXCEPT ![b] = "committed"]
    /\ UNCHANGED <<status, stay, points, cardVars, call, ledgerVars>>

\* release_expired_points, after the expiration committed.
ReleaseExpired(b) ==
    /\ expiring[b] = "committed"
    /\ expiring' = [expiring EXCEPT ![b] = "no"]
    /\ IF /\ points[b].hold > 0 /\ status[b] # "confirmed" /\ intent[b] = "expired"
          /\ ReleaseAllowed(b)
       THEN Released(b)
       ELSE UNCHANGED points
    /\ UNCHANGED <<intent, status, stay, cardVars, call, ledgerVars>>

-----------------------------------------------------------------------------
(* The card payment of the rest.                                           *)

\* HyperPayService.create_checkout with cash_due(freeze=True): the amount, the freeze and
\* the attempt commit together.
Checkout(b, a) ==
    /\ intent[b] = "awaiting"
    /\ attempt[a].status = "none"
    /\ \A other \in Of(b) : attempt[other].status # "pending"
    /\ CashDue(b) > 0
    /\ attempt' = [attempt EXCEPT ![a] = [status |-> "pending", booking |-> {b},
                                          amount |-> CashDue(b)]]
    /\ checkout' = [checkout EXCEPT ![a] = "open"]
    /\ SaveBooking(b, [points[b] EXCEPT !.frozen = IF Allocation(b) > 0 THEN TRUE ELSE @])
    /\ UNCHANGED <<bookingVars, call, ledgerVars>>

\* The guest at HyperPay; what HyperPay decides it does not take back.
Decide(a, outcome) ==
    /\ checkout[a] = "open"
    /\ checkout' = [checkout EXCEPT ![a] = outcome]
    /\ UNCHANGED <<bookingVars, points, attempt, call, ledgerVars>>

\* verify: the answer is HyperPay's decision, one given before it, or unreadable.
Verify(a, read) ==
    /\ attempt[a].status \notin {"none", "succeeded"}
    /\ \/ read = "pending" \/ read = "unknown"
       \/ read = "succeeded" /\ checkout[a] = "paid"
       \/ read = "failed" /\ checkout[a] = "declined"
    /\ attempt' = [attempt EXCEPT ![a].status = read]
    /\ UNCHANGED <<bookingVars, points, checkout, call, ledgerVars>>

\* _record_verified_booking_payment
RecordPaid(b) ==
    /\ \E a \in Of(b) : attempt[a].status = "succeeded"
    /\ status' = [status EXCEPT ![b] = IF @ = "awaiting" THEN "ready" ELSE @]
    /\ intent' = [intent EXCEPT ![b] = IF @ = "awaiting" THEN "verified" ELSE @]
    /\ UNCHANGED <<stay, expiring, points, cardVars, call, ledgerVars>>

\* How the POST of a reservation can go: a lost answer leaves it made or not.
Fits(answer, made) ==
    /\ answer \in {"made", "unconfirmed", "unreadable"} => made
    /\ answer = "rejected" => ~made

\* create_hostaway_reservation after a payment: only for one that is what is due in cash.
CreatePaid(b, answer, made) ==
    /\ status[b] = "ready" /\ stay[b] = "none"
    /\ \E a \in Of(b) : attempt[a].status = "succeeded" /\ attempt[a].amount = CashDue(b)
    /\ Fits(answer, made)
    /\ stay' = [stay EXCEPT ![b] = IF made THEN "active" ELSE @]
    /\ IF answer = "made"
       THEN /\ status' = [status EXCEPT ![b] = "confirmed"]
            /\ intent' = [intent EXCEPT ![b] = "completed"]
       ELSE /\ status' = [status EXCEPT ![b] = IF answer = "lost" THEN "unknown" ELSE "failed"]
            /\ UNCHANGED intent
    /\ UNCHANGED <<expiring, points, cardVars, call, ledgerVars>>

-----------------------------------------------------------------------------
(* Consuming a hold.                                                       *)

\* (mutant) the hold is not taken off
RedeemKeepsHold(b) ==
    /\ SaveBooking(b, [points[b] EXCEPT !.redeemed = points[b].hold])
    /\ spent' = [spent EXCEPT ![b] = @ + points[b].hold]
    /\ balance' = [balance EXCEPT ![Owner[b]] = @ - points[b].hold]

\* redeem: the hold leaves and its value is debited, whatever the balance has become.
Redeem(b) ==
    /\ SaveBooking(b, [points[b] EXCEPT !.hold = 0, !.redeemed = points[b].hold])
    /\ spent' = [spent EXCEPT ![b] = @ + points[b].hold]
    /\ balance' = [balance EXCEPT ![Owner[b]] = @ - points[b].hold]

\* What redeem refuses with an exception, unless the booking is redeemed already.
Redeemable(b) == status[b] = "confirmed" /\ points[b].hold > 0 /\ Owner[b] \notin closed

\* _safe_reconcile is scheduled after every payment, creation, change and refund, and every
\* few minutes for a confirmed stay without its reward.  A process that dies skips any of its
\* three transactions, and each reads the booking anew: they are actions of their own, taken
\* at any time or never.  The first is settle_booking_points.
Settle(b) ==
    /\ Redeemable(b)
    /\ Redeem(b)
    /\ UNCHANGED <<bookingVars, cardVars, call, closed, earned, returned, corrected>>

-----------------------------------------------------------------------------
(* A booking that points pay for: confirm_points_booking.                  *)

\* Its first transaction.
StartConfirm(b) ==
    /\ intent[b] \in {"awaiting", "expired"}
    /\ ~points[b].started /\ points[b].redeemed = 0
    /\ status[b] = "awaiting" /\ points[b].hold > 0 /\ CashDue(b) = 0
    /\ Unfailed(b) = {}
    /\ SaveBooking(b, [points[b] EXCEPT !.started = TRUE, !.frozen = TRUE])
    /\ call' = [call EXCEPT ![b] = "create"]
    /\ UNCHANGED <<bookingVars, cardVars, ledgerVars>>

\* create_points_reservation refuses before anything is sent: a check fails the booking
\* (_fail_without_post), or a setting or a conflict blocks it, which is no outcome.
CreateUnsent(b, failed) ==
    /\ call[b] = "create"
    /\ call' = [call EXCEPT ![b] = IF failed THEN "refused" ELSE "uncertain"]
    /\ status' = [status EXCEPT ![b] = IF failed THEN "failed" ELSE @]
    /\ UNCHANGED <<intent, stay, expiring, points, cardVars, ledgerVars>>

\* The POST of create_points_reservation.
CreateSent(b, answer, made) ==
    /\ call[b] = "create" /\ stay[b] = "none"
    /\ Fits(answer, made)
    /\ status' = [status EXCEPT ![b] = "creating"]
    /\ stay' = [stay EXCEPT ![b] = IF made THEN "active" ELSE @]
    /\ call' = [call EXCEPT ![b] = answer]
    /\ UNCHANGED <<intent, expiring, points, cardVars, ledgerVars>>

Written == [made |-> "confirmed", unconfirmed |-> "awaiting", unreadable |-> "failed",
            rejected |-> "failed", lost |-> "unknown"]
Outcome == [made |-> "created", unconfirmed |-> "uncertain", unreadable |-> "refused",
            rejected |-> "refused", lost |-> "uncertain"]

\* What is written of the answer.  One that cannot be read raises HostawayResponseError,
\* which counts as a rejection.
CreateAnswered(b) ==
    /\ call[b] \in Answer
    /\ status' = [status EXCEPT ![b] = Written[call[b]]]
    /\ call' = [call EXCEPT ![b] = Outcome[call[b]]]
    /\ UNCHANGED <<intent, stay, expiring, points, cardVars, ledgerVars>>

\* A confirmed booking: redeem, then the intent.  When redeem raises, neither.
ConfirmCreated(b) ==
    /\ call[b] = "created"
    /\ call' = [call EXCEPT ![b] = "idle"]
    /\ \/ /\ points[b].redeemed = 0 /\ Redeemable(b)
          /\ Redeem(b)
          /\ intent' = [intent EXCEPT ![b] = "completed"]
          /\ UNCHANGED <<closed, earned, returned, corrected>>
       \/ /\ points[b].redeemed > 0
          /\ intent' = [intent EXCEPT ![b] = "completed"]
          /\ UNCHANGED <<points, ledgerVars>>
       \/ /\ points[b].redeemed = 0 /\ ~Redeemable(b)
          /\ UNCHANGED <<intent, points, ledgerVars>>
    /\ UNCHANGED <<status, stay, expiring, cardVars>>

\* A definite failure frees the points.
ConfirmRefused(b) ==
    /\ call[b] = "refused"
    /\ call' = [call EXCEPT ![b] = "idle"]
    /\ SaveBooking(b, [points[b] EXCEPT !.hold = 0, !.frozen = FALSE, !.started = FALSE])
    /\ UNCHANGED <<bookingVars, cardVars, ledgerVars>>

\* Any other outcome keeps them and alerts the owner.
ConfirmUncertain(b) ==
    /\ call[b] = "uncertain"
    /\ call' = [call EXCEPT ![b] = "idle"]
    /\ UNCHANGED <<bookingVars, points, cardVars, ledgerVars>>

\* The process dies: whatever the call was doing, nobody takes it up.
ConfirmDies(b) ==
    /\ call[b] # "idle"
    /\ call' = [call EXCEPT ![b] = "idle"]
    /\ UNCHANGED <<bookingVars, points, cardVars, ledgerVars>>

\* recover_points_booking: the owner names the reservation found in Hostaway, while the
\* first call may still be waiting for its answer.
Recover(b) ==
    /\ points[b].started /\ stay[b] = "active" /\ Owner[b] \notin closed
    /\ points[b].redeemed = 0 /\ points[b].hold = Total[b]
    /\ status' = [status EXCEPT ![b] = "confirmed"]
    /\ intent' = [intent EXCEPT ![b] = "completed"]
    /\ Redeem(b)
    /\ UNCHANGED <<stay, expiring, cardVars, call, closed, earned, returned, corrected>>

-----------------------------------------------------------------------------
(* Cancelled stays, rewards, gifts, and leaving.                           *)

\* A webhook finds that Hostaway confirmed the reservation it had only received.
SyncConfirmed(b) ==
    /\ status[b] = "awaiting" /\ stay[b] = "active"
    /\ status' = [status EXCEPT ![b] = "confirmed"]
    /\ UNCHANGED <<intent, stay, expiring, points, cardVars, call, ledgerVars>>

\* A stay is cancelled, by the website or in Hostaway.
Cancel(b) ==
    /\ status[b] = "confirmed" /\ stay[b] = "active"
    /\ stay' = [stay EXCEPT ![b] = "cancelled"]
    /\ status' = [status EXCEPT ![b] = "cancelled"]
    /\ UNCHANGED <<expiring, intent, points, cardVars, call, ledgerVars>>

\* (mutant) the whole target is credited again, not what is missing of it
RestoreAgain(b, target) ==
    /\ target >= points[b].restored /\ target <= points[b].redeemed
    /\ SaveBooking(b, [points[b] EXCEPT !.restored = @ + target])
    /\ returned' = [returned EXCEPT ![b] = @ + target]
    /\ balance' = [balance EXCEPT ![Owner[b]] = @ + target]

\* restore_points: targets are cumulative, so a repeated one gives nothing back.
RestorePoints(b, target) ==
    /\ target >= points[b].restored /\ target <= points[b].redeemed
    /\ SaveBooking(b, [points[b] EXCEPT !.restored = target])
    /\ returned' = [returned EXCEPT ![b] = @ + target - points[b].restored]
    /\ balance' = [balance EXCEPT ![Owner[b]] = @ + target - points[b].restored]

\* _safe_reconcile, its second transaction: restore_cancelled_points.  All the points, or
\* what the departure settlement left of them when the stay had begun.
RestoreCancelled(b, target) ==
    /\ status[b] = "cancelled" /\ points[b].redeemed > 0
    /\ Owner[b] \notin closed
    /\ RestorePoints(b, target)
    /\ UNCHANGED <<bookingVars, cardVars, call, closed, earned, spent, corrected>>

\* record_refund_plan: what a cheaper stay, or a cancelled one, gives back.
RefundPlan(b, target) ==
    /\ points[b].redeemed > 0 /\ status[b] \in {"confirmed", "cancelled"}
    /\ Owner[b] \notin closed
    /\ RestorePoints(b, target)
    /\ UNCHANGED <<bookingVars, cardVars, call, closed, earned, spent, corrected>>

\* booking_facts: the price is covered by verified payments and by points spent.
Covered(b) ==
    LET cash == SumOver([a \in Attempts |-> attempt[a].amount],
                        {a \in Of(b) : attempt[a].status = "succeeded"})
    IN cash + points[b].redeemed - points[b].restored >= Total[b]

\* reconcile: the reward posted so far is brought to the one the booking deserves; a
\* correction may take the balance below zero.
Reach(b, target) ==
    /\ earned' = [earned EXCEPT ![b] = target]
    /\ balance' = [balance EXCEPT ![Owner[b]] = @ + target - earned[b]]
    /\ corrected' = [corrected EXCEPT ![Owner[b]] =
                        IF target < earned[b] THEN @ + earned[b] - target ELSE @]

\* _safe_reconcile, its third transaction.
Accrue(b) ==
    /\ Owner[b] \notin closed
    /\ \/ status[b] = "confirmed" /\ Covered(b) /\ Reach(b, Reward)
       \/ status[b] = "cancelled" /\ earned[b] > 0 /\ Reach(b, 0)
    /\ UNCHANGED <<bookingVars, points, cardVars, call, closed, spent, returned>>

\* transfer
Gift(m, n, value) ==
    /\ {m, n} \cap closed = {} /\ m # n
    /\ Available(m, value)
    /\ balance' = [balance EXCEPT ![m] = @ - value, ![n] = @ + value]
    /\ UNCHANGED <<bookingVars, points, cardVars, call, closed, earned, spent, returned,
                   corrected>>

\* withdraw: forfeits what is positive.  A stay that is not cancelled must have ended, which
\* it does long after its intent, which lasts minutes.
Withdraw(m) ==
    /\ m \notin closed
    /\ \A b \in Own(m) : points[b].hold = 0 /\ (status[b] = "cancelled" \/ intent[b] # "awaiting")
    /\ closed' = closed \cup {m}
    /\ balance' = [balance EXCEPT ![m] = IF @ > 0 THEN 0 ELSE @]
    /\ UNCHANGED <<bookingVars, points, cardVars, call, earned, spent, returned, corrected>>

-----------------------------------------------------------------------------
PointsNext(b) ==
    \/ \E n \in 1 .. Total[b] : Hold(b, n)
    \/ Release(b) \/ ChooseExpired(b) \/ Expire(b) \/ ReleaseExpired(b) \/ Settle(b)

CardNext(b) ==
    \/ \E a \in Attempts : Checkout(b, a)
    \/ RecordPaid(b)
    \/ \E answer \in Answer \ {"unconfirmed"}, made \in BOOLEAN : CreatePaid(b, answer, made)

ConfirmNext(b) ==
    \/ StartConfirm(b)
    \/ \E failed \in BOOLEAN : CreateUnsent(b, failed)
    \/ \E answer \in Answer, made \in BOOLEAN : CreateSent(b, answer, made)
    \/ CreateAnswered(b) \/ ConfirmCreated(b) \/ ConfirmRefused(b) \/ ConfirmUncertain(b)
    \/ ConfirmDies(b) \/ Recover(b)

LaterNext(b) ==
    \/ SyncConfirmed(b) \/ Cancel(b) \/ Accrue(b)
    \/ \E target \in 0 .. Total[b] : RestoreCancelled(b, target) \/ RefundPlan(b, target)

GateNext(a) ==
    \/ \E outcome \in {"paid", "declined"} : Decide(a, outcome)
    \/ \E read \in AttemptStatus \ {"none"} : Verify(a, read)

MemberNext(m) ==
    \/ \E n \in Members, value \in 1 .. balance[m] : Gift(m, n, value)
    \/ Withdraw(m)

Next ==
    \/ \E b \in Bookings : PointsNext(b) \/ CardNext(b) \/ ConfirmNext(b) \/ LaterNext(b)
    \/ \E a \in Attempts : GateNext(a)
    \/ \E m \in Members : MemberNext(m)

Spec == Init /\ [][Next]_vars

-----------------------------------------------------------------------------
\* The rows keep the values the code can read back: points within the price of the
\* booking, no more given back than was spent (services.py:672-815).
LoyaltyTypeOK ==
    /\ intent \in [Bookings -> IntentStatus]
    /\ status \in [Bookings -> Status]
    /\ points \in [Bookings -> [hold : Nat, frozen : BOOLEAN, started : BOOLEAN,
                                redeemed : Nat, restored : Nat]]
    /\ \A b \in Bookings : points[b].hold <= Total[b] /\ points[b].redeemed <= Total[b]
    /\ \A b \in Bookings : points[b].restored <= points[b].redeemed
    /\ stay \in [Bookings -> {"none", "active", "cancelled"}]
    /\ attempt \in [Attempts -> [status : AttemptStatus, booking : SUBSET Bookings,
                                 amount : Nat]]
    /\ checkout \in [Attempts -> {"none", "open", "paid", "declined"}]
    /\ call \in [Bookings -> Call]
    /\ expiring \in [Bookings -> Expiring]
    /\ balance \in [Members -> Int]
    /\ closed \subseteq Members
    /\ earned \in [Bookings -> {0, Reward}]
    /\ spent \in [Bookings -> Nat]
    /\ returned \in [Bookings -> Nat]
    /\ corrected \in [Members -> Nat]

\* "The same hold is consumed once" (docs/loyalty-signed-balances-20261017.md:20): the
\* settlement after a payment, the end of a points booking and the owner's recovery may all
\* redeem one booking, and refunds and cancellations give back; the ledger holds one debit of
\* the value, and no more credits than it.
RedeemedOnce ==
    \A b \in Bookings :
        /\ points[b].hold = 0 \/ points[b].redeemed = 0
        /\ spent[b] = points[b].redeemed
        /\ returned[b] = points[b].restored
        /\ returned[b] <= spent[b]

\* What a guest paid, or still can pay, by card and the points on the booking add up to its
\* price, so that a payment that succeeds is the one create_hostaway_reservation asks for:
\* points are neither added nor taken off behind a checkout (cash_due, release_allowed, hold).
CardAndPointsAddUp ==
    \A b \in Bookings : \A a \in Of(b) :
        checkout[a] \in {"open", "paid"} => attempt[a].amount + Allocation(b) = Total[b]

\* Points held for bookings are there: holds, redemptions and gifts together never use
\* more than a member had, but for rewards that were taken back afterwards ("Existing
\* authorised holds may be redeemed even after a reward correction").
HoldsAreCovered ==
    \A m \in Members : Held(m) <= balance[m] + corrected[m]
=============================================================================
