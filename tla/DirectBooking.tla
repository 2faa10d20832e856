---------------------------- MODULE DirectBooking ----------------------------
(***************************************************************************)
(* The direct card booking of the public site: a guest's booking intent,   *)
(* its HyperPay checkouts (PaymentAttempt), the server-side verification   *)
(* of a payment, the local Reservation and the one Hostaway create call    *)
(* recorded in its HostawayReservationOperation.                           *)
(*                                                                         *)
(* Web requests and Celery tasks are Workers.  A step of a worker is one   *)
(* database transaction or one remote call; what a worker read and has not *)
(* used yet is its `memo'.  A worker may die between any two steps.        *)
(*                                                                         *)
(* All the intents are for the same property and overlapping dates: they   *)
(* compete for one stay, with the channels Hostaway also sells it on.      *)
(***************************************************************************)
EXTENDS Naturals, FiniteSets

CONSTANTS
    Intents,          \* booking intents of one property for the same dates
    Attempts,         \* payment attempts that can be created
    Workers,          \* web threads and Celery worker processes
    WebhooksEnabled,  \* HOSTAWAY_WEBHOOK_PROCESSING_ENABLED
    None              \* no attempt, no intent, nothing read

ASSUME ConstantsAssumption ==
    /\ WebhooksEnabled \in BOOLEAN
    /\ None \notin Intents \cup Attempts

VARIABLES
    intent,      \* BookingIntent.status
    lapsed,      \* the intents whose expires_at is in the past
    owner,       \* PaymentAttempt.booking_intent; None before it is created
    att,         \* PaymentAttempt.status
    pay,         \* what HyperPay knows of the attempt's checkout
    res,         \* Reservation.normalized_status; "absent" before it exists
    paid,        \* the reservations whose payment_status is "paid"
    linked,      \* the reservations with a hostaway_reservation_id
    op,          \* status of the create operation; "absent" before it exists
    tries,       \* its attempt_count
    sent,        \* how many create POSTs were sent for the intent
    stay,        \* the stay Hostaway holds for the intent
    imported,    \* intents whose stay is in a second row, made by a webhook
    blocked,     \* another channel, or staff, holds the dates in Hostaway
    flagged,     \* intents whose paid booking was reported for review
    receipted,   \* attempts whose Hostaway receipt was queued
    died,        \* history: intents a page died on after it recorded the payment
    pc, job, on, \* a worker's next step, its attempt (None: recovery), its intent
    memo,        \* what the worker read last and has not used yet
    doomed       \* the intents the expiration task selected and not yet wrote

gatewayVars == <<owner, att, pay>>
recordVars  == <<res, paid, linked, op, tries>>
remoteVars  == <<sent, stay, imported, blocked>>
noticeVars  == <<flagged, receipted, died>>
workerVars  == <<pc, job, on, memo>>
vars == <<intent, lapsed, gatewayVars, recordVars, remoteVars, noticeVars,
          workerVars, doomed>>

-----------------------------------------------------------------------------
IntentStatus == {"awaiting_payment", "payment_verified", "price_changed",
                 "unavailable", "expired", "cancelled", "completed"}
AttemptStatus == {"absent", "pending", "succeeded", "failed", "cancelled",
                  "review", "unknown"}
GatewayState == {"absent", "open", "paid", "declined", "held"}
ReservationStatus == {"absent", "awaiting_payment", "ready_for_hostaway",
                      "creating", "confirmed", "create_failed",
                      "create_unknown", "cancelled"}
OpStatus == {"absent", "blocked", "in_progress", "succeeded", "failed", "unknown"}
Stay == {"none", "live", "cancelled"}
Document == {"success", "pending", "failed", "cancelled", "review", "unknown"}
Answer == {"created", "mismatched", "lost", "rejected"}

\* The worker's program counter, in the order of the code.
Creating == {"refresh", "check", "fail", "block", "overwrite", "claim",
             "send", "settle"}
Step == {"idle", "checkout", "get", "process", "complete", "record", "receipt",
         "review"} \cup Creating

Init ==
    /\ intent = [i \in Intents |-> "awaiting_payment"]
    /\ lapsed = {}
    /\ owner = [a \in Attempts |-> None]
    /\ att = [a \in Attempts |-> "absent"]
    /\ pay = [a \in Attempts |-> "absent"]
    /\ res = [i \in Intents |-> "absent"]
    /\ paid = {} /\ linked = {}
    /\ op = [i \in Intents |-> "absent"]
    /\ tries = [i \in Intents |-> 0]
    /\ sent = [i \in Intents |-> 0]
    /\ stay = [i \in Intents |-> "none"]
    /\ imported = {} /\ blocked = FALSE
    /\ flagged = {} /\ receipted = {} /\ died = {}
    /\ pc = [w \in Workers |-> "idle"]
    /\ job = [w \in Workers |-> None]
    /\ on = [w \in Workers |-> None]
    /\ memo = [w \in Workers |-> None]
    /\ doomed = {}

-----------------------------------------------------------------------------
(* What the operations share.                                              *)

\* The worker goes on to step s, having read m.
Goto(w, s, m) ==
    /\ pc' = [pc EXCEPT ![w] = s]
    /\ memo' = [memo EXCEPT ![w] = m]
    /\ UNCHANGED <<job, on>>

\* The worker begins step s of a job: attempt a (or None) of intent i.
Begin(w, s, a, i, m) ==
    /\ pc[w] = "idle"
    /\ pc' = [pc EXCEPT ![w] = s]
    /\ job' = [job EXCEPT ![w] = a]
    /\ on' = [on EXCEPT ![w] = i]
    /\ memo' = [memo EXCEPT ![w] = m]

\* The request or the task ends: by a response, an exception or a crash.
End(w) ==
    /\ pc' = [pc EXCEPT ![w] = "idle"]
    /\ job' = [job EXCEPT ![w] = None]
    /\ on' = [on EXCEPT ![w] = None]
    /\ memo' = [memo EXCEPT ![w] = None]

\* The create operation is over; the result page queues a receipt or reports
\* the paid booking for review, the recovery task does neither.
Return(w, s) == IF job[w] = None THEN End(w) ELSE Goto(w, s, None)

\* The live calendar has the dates, and the price is the agreed one.
Available == ~blocked /\ \A i \in Intents : stay[i] # "live"

\* Some payment of the intent is verified.
Verified(i) == \E a \in Attempts : owner[a] = i /\ att[a] = "succeeded"

\* intent.status := s where it is still `awaiting_payment'.
MoveAwaiting(i, s) ==
    intent' = IF intent[i] = "awaiting_payment"
              THEN [intent EXCEPT ![i] = s] ELSE intent

-----------------------------------------------------------------------------
(* Checkout: HyperPayService.create_checkout.                              *)

\* Hostaway is asked again first, outside any transaction.  A changed price,
\* lost dates, and a calendar that cannot be read close the intent.
StartCheckout(w, i) ==
    /\ pc[w] = "idle"
    /\ \/ /\ Available
          /\ Begin(w, "checkout", None, i, None)
          /\ UNCHANGED intent
       \/ /\ \E s \in {"unavailable", "price_changed"} : MoveAwaiting(i, s)
          /\ UNCHANGED workerVars
    /\ UNCHANGED <<lapsed, gatewayVars, recordVars, remoteVars, noticeVars, doomed>>

Payable(i) == intent[i] = "awaiting_payment" /\ i \notin lapsed

\* One transaction, the provider call inside it: an attempt is written only
\* with its checkout id.  A checkout that is still pending is handed out again;
\* any other attempt of the intent does not stand in the way of a new one.
CreateCheckout(w) ==
    LET i == on[w] IN
    /\ pc[w] = "checkout"
    /\ \/ /\ Payable(i)
          /\ ~ \E a \in Attempts : owner[a] = i /\ att[a] = "pending"
          /\ \E a \in Attempts :
                /\ att[a] = "absent"
                /\ owner' = [owner EXCEPT ![a] = i]
                /\ att' = [att EXCEPT ![a] = "pending"]
                /\ pay' = [pay EXCEPT ![a] = "open"]
       \* refused, reused, or the provider's answer was invalid
       \/ UNCHANGED gatewayVars
    /\ End(w)
    /\ UNCHANGED <<intent, lapsed, recordVars, remoteVars, noticeVars, doomed>>

-----------------------------------------------------------------------------
(* Verification: HyperPayService.verify, from the result page.             *)

\* A payment already verified is only completed again.
OpenResult(w, a) ==
    /\ att[a] # "absent"
    /\ IF att[a] = "succeeded"
       THEN Begin(w, "complete", a, owner[a], intent[owner[a]])
       ELSE Begin(w, "get", a, owner[a], None)
    /\ UNCHANGED <<intent, lapsed, gatewayVars, recordVars, remoteVars,
                   noticeVars, doomed>>

\* What the GET of a checkout may be mapped to.  A document without the
\* financial fields, or with other ones, is a mismatch: `review'.
Documents(a) ==
    CASE pay[a] = "open"     -> {"pending", "review"}
      [] pay[a] = "paid"     -> {"success", "review"}
      [] pay[a] = "declined" -> {"failed", "cancelled", "review"}
      [] OTHER               -> {"review", "unknown"}

GetPayment(w) ==
    /\ pc[w] = "get"
    /\ \/ \E d \in Documents(job[w]) : Goto(w, "process", d)
       \/ End(w)                       \* HyperPayError: nothing is changed
    /\ UNCHANGED <<intent, lapsed, gatewayVars, recordVars, remoteVars,
                   noticeVars, doomed>>

\* (mutant) the mapped result is stored as it is
StatusOfRaw(d) == d

StatusOf(d) == IF d = "success" THEN "succeeded" ELSE d

\* (mutant) the document is written without looking at the status again
ProcessVerificationBlindly(w) ==
    /\ pc[w] = "process"
    /\ att' = [att EXCEPT ![job[w]] = StatusOf(memo[w])]
    /\ IF memo[w] = "success" THEN Goto(w, "complete", intent[on[w]]) ELSE End(w)
    /\ UNCHANGED <<intent, lapsed, owner, pay, recordVars, remoteVars,
                   noticeVars, doomed>>

\* The document becomes the attempt's status, unless another request has
\* verified it meanwhile: then this one leaves the rest to that one.
ProcessVerification(w) ==
    LET a == job[w] IN
    /\ pc[w] = "process"
    /\ IF att[a] = "succeeded"
       THEN att' = att /\ End(w)
       ELSE /\ att' = [att EXCEPT ![a] = StatusOf(memo[w])]
            /\ IF memo[w] = "success"
               THEN Goto(w, "complete", intent[on[w]])
               ELSE End(w)
    /\ UNCHANGED <<intent, lapsed, owner, pay, recordVars, remoteVars,
                   noticeVars, doomed>>

\* prepare_local_reservation: it trusts the intent's status as the worker read
\* it with the attempt, and raises ValueError unless it was awaiting payment.
Complete(w) ==
    LET i == on[w] IN
    /\ pc[w] = "complete"
    /\ \/ res[i] # "absent" /\ res' = res /\ Goto(w, "record", None)
       \/ /\ res[i] = "absent" /\ memo[w] = "awaiting_payment"
          /\ res' = [res EXCEPT ![i] = "awaiting_payment"]
          /\ Goto(w, "record", None)
       \/ /\ res[i] = "absent" /\ memo[w] # "awaiting_payment"
          /\ res' = res /\ End(w)
    /\ UNCHANGED <<intent, lapsed, gatewayVars, paid, linked, op, tries,
                   remoteVars, noticeVars, doomed>>

RecordPayment(w) ==
    LET i == on[w] IN
    /\ pc[w] = "record"
    /\ paid' = paid \cup {i}
    /\ res' = IF res[i] = "awaiting_payment"
              THEN [res EXCEPT ![i] = "ready_for_hostaway"] ELSE res
    /\ MoveAwaiting(i, "payment_verified")
    /\ Goto(w, "refresh", None)
    /\ UNCHANGED <<lapsed, gatewayVars, linked, op, tries, remoteVars,
                   noticeVars, doomed>>

\* The reservation is read again, then create_hostaway_reservation looks for
\* the verified payment and for a Hostaway id.
Refresh(w) ==
    LET i == on[w] IN
    /\ pc[w] = "refresh"
    /\ IF res[i] = "confirmed" \/ i \in linked
       THEN Return(w, "receipt")
       ELSE Goto(w, IF Verified(i) THEN "check" ELSE "block", None)
    /\ UNCHANGED <<intent, lapsed, gatewayVars, recordVars, remoteVars,
                   noticeVars, doomed>>

-----------------------------------------------------------------------------
(* The create call: HostawayBookingService._create_hostaway_reservation.   *)

\* The live calendar and price, without the cache.  Lost dates, a changed
\* price and an unreadable calendar all fail the booking without a POST.
CheckAvailability(w) ==
    /\ pc[w] = "check"
    /\ \/ Available /\ Goto(w, "claim", None)
       \/ Goto(w, "fail", None)
    /\ UNCHANGED <<intent, lapsed, gatewayVars, recordVars, remoteVars,
                   noticeVars, doomed>>

\* First the reservation, whatever its status has become meanwhile ...
FailWithoutPost(w) ==
    /\ pc[w] = "fail"
    /\ res' = [res EXCEPT ![on[w]] = "create_failed"]
    /\ Goto(w, "block", None)
    /\ UNCHANGED <<intent, lapsed, gatewayVars, paid, linked, op, tries,
                   remoteVars, noticeVars, doomed>>

\* ... then, in another transaction, the operation.  A missing one is made
\* `blocked'; one that is there is read without a lock ...
EnsureBlocked(w) ==
    LET i == on[w] IN
    /\ pc[w] = "block"
    /\ \/ op[i] = "absent" /\ op' = [op EXCEPT ![i] = "blocked"] /\ Return(w, "review")
       \/ op[i] = "blocked" /\ tries[i] = 0 /\ op' = op /\ Goto(w, "overwrite", None)
       \/ op[i] # "absent" /\ ~(op[i] = "blocked" /\ tries[i] = 0)
          /\ op' = op /\ Return(w, "review")
    /\ UNCHANGED <<intent, lapsed, gatewayVars, res, paid, linked, tries,
                   remoteVars, noticeVars, doomed>>

\* ... and written back as `blocked' whatever it has become since.
OverwriteBlocked(w) ==
    /\ pc[w] = "overwrite"
    /\ op' = [op EXCEPT ![on[w]] = "blocked"]
    /\ Return(w, "review")
    /\ UNCHANGED <<intent, lapsed, gatewayVars, res, paid, linked, tries,
                   remoteVars, noticeVars, doomed>>

\* (mutant) the status alone decides, attempt_count is not looked at
ClaimableByStatus(i) == op[i] \notin {"succeeded", "in_progress", "unknown"}

Claimable(i) == op[i] \notin {"succeeded", "in_progress", "unknown"} /\ tries[i] = 0

\* _prepare_operation, under the locks of the property and the reservation.
\* `clash': a morning stay of the site holds one of the nights.
PrepareOperation(w) ==
    LET i == on[w] IN
    /\ pc[w] = "claim"
    /\ IF Claimable(i)
       THEN \E clash \in BOOLEAN :
              IF clash
              THEN /\ op' = [op EXCEPT ![i] = "blocked"]
                   /\ Return(w, "review")
                   /\ UNCHANGED <<res, tries>>
              ELSE /\ op' = [op EXCEPT ![i] = "in_progress"]
                   /\ tries' = [tries EXCEPT ![i] = @ + 1]
                   /\ res' = [res EXCEPT ![i] = "creating"]
                   /\ Goto(w, "send", None)
       ELSE Return(w, "review") /\ UNCHANGED <<res, op, tries>>
    /\ UNCHANGED <<intent, lapsed, gatewayVars, paid, linked, remoteVars,
                   noticeVars, doomed>>

\* The POST.  Hostaway makes the stay when the dates are free; the answer may
\* then be lost, differ from what was asked, or be unreadable: the client raises
\* HostawayResponseError for that, which the caller takes for a refusal.
PostReservation(w) ==
    LET i == on[w] IN
    /\ pc[w] = "send"
    /\ sent' = [sent EXCEPT ![i] = @ + 1]
    /\ \/ /\ Available
          /\ stay' = [stay EXCEPT ![i] = "live"]
          /\ \E answer \in Answer : Goto(w, "settle", answer)
       \/ /\ stay' = stay
          /\ \E answer \in {"rejected", "lost"} : Goto(w, "settle", answer)
    /\ UNCHANGED <<intent, lapsed, gatewayVars, recordVars, imported, blocked,
                   noticeVars, doomed>>

\* Writing the outcome.  A row that already has the Hostaway id makes the
\* write fail on its unique index: the transaction is rolled back.
SettleCreated(w) ==
    LET i == on[w] IN
    /\ pc[w] = "settle" /\ memo[w] = "created"
    /\ IF i \in imported
       THEN End(w) /\ UNCHANGED <<intent, res, linked, op>>
       ELSE /\ res' = [res EXCEPT ![i] = "confirmed"]
            /\ linked' = linked \cup {i}
            /\ op' = [op EXCEPT ![i] = "succeeded"]
            /\ intent' = [intent EXCEPT ![i] = "completed"]
            /\ Return(w, "receipt")
    /\ UNCHANGED <<lapsed, gatewayVars, paid, tries, remoteVars, noticeVars, doomed>>

SettleMismatched(w) ==
    LET i == on[w] IN
    /\ pc[w] = "settle" /\ memo[w] = "mismatched"
    /\ IF i \in imported
       THEN End(w) /\ UNCHANGED <<res, linked, op>>
       ELSE /\ res' = [res EXCEPT ![i] = "create_unknown"]
            /\ linked' = linked \cup {i}
            /\ op' = [op EXCEPT ![i] = "unknown"]
            /\ Return(w, "review")
    /\ UNCHANGED <<intent, lapsed, gatewayVars, paid, tries, remoteVars,
                   noticeVars, doomed>>

\* (mutant) a lost answer is taken as a confirmation
SettleLostAsConfirmed(w) ==
    LET i == on[w] IN
    /\ pc[w] = "settle" /\ memo[w] \in {"lost", "rejected"}
    /\ res' = [res EXCEPT ![i] = "confirmed"]
    /\ op' = [op EXCEPT ![i] = "succeeded"]
    /\ Return(w, "receipt")
    /\ UNCHANGED <<intent, lapsed, gatewayVars, paid, linked, tries, remoteVars,
                   noticeVars, doomed>>

\* (mutant) an unsuccessful create is not reported
SettleQuietly(w) ==
    LET i == on[w] IN
    /\ pc[w] = "settle" /\ memo[w] \in {"lost", "rejected"}
    /\ res' = [res EXCEPT ![i] = "create_unknown"]
    /\ op' = [op EXCEPT ![i] = "unknown"]
    /\ End(w)
    /\ UNCHANGED <<intent, lapsed, gatewayVars, paid, linked, tries, remoteVars,
                   noticeVars, doomed>>

SettleWithoutStay(w) ==
    LET i == on[w] IN
    /\ pc[w] = "settle" /\ memo[w] \in {"lost", "rejected"}
    /\ res' = [res EXCEPT ![i] =
                  IF memo[w] = "lost" THEN "create_unknown" ELSE "create_failed"]
    /\ op' = [op EXCEPT ![i] = IF memo[w] = "lost" THEN "unknown" ELSE "failed"]
    /\ Return(w, "review")
    /\ UNCHANGED <<intent, lapsed, gatewayVars, paid, linked, tries, remoteVars,
                   noticeVars, doomed>>

\* Back in _complete_success.
QueueReceipt(w) ==
    /\ pc[w] = "receipt"
    /\ receipted' = IF on[w] \in linked THEN receipted \cup {job[w]} ELSE receipted
    /\ End(w)
    /\ UNCHANGED <<intent, lapsed, gatewayVars, recordVars, remoteVars, flagged, died, doomed>>

ReportForReview(w) ==
    /\ pc[w] = "review"
    /\ flagged' = IF on[w] \in paid THEN flagged \cup {on[w]} ELSE flagged
    /\ End(w)
    /\ UNCHANGED <<intent, lapsed, gatewayVars, recordVars, remoteVars, receipted, died, doomed>>

-----------------------------------------------------------------------------
(* Tasks and staff.                                                        *)

Recoverable(i) ==
    /\ i \in paid /\ i \notin linked
    /\ \/ res[i] = "ready_for_hostaway"
       \/ res[i] = "create_failed" /\ op[i] = "blocked" /\ tries[i] = 0

\* reconcile_paid_hostaway_reservations_task takes the paid reservations that
\* never reached Hostaway through the same create operation.
StartRecovery(w, i) ==
    /\ Recoverable(i)
    /\ Begin(w, IF Verified(i) THEN "check" ELSE "block", None, i, None)
    /\ UNCHANGED <<intent, lapsed, gatewayVars, recordVars, remoteVars,
                   noticeVars, doomed>>

\* expire_booking_objects selects the intents by their status and expiry ...
SelectLapsed ==
    /\ doomed = {}
    /\ doomed' = {i \in lapsed : intent[i] \notin {"completed", "cancelled", "expired"}}
    /\ UNCHANGED <<intent, lapsed, gatewayVars, recordVars, remoteVars,
                   noticeVars, workerVars>>

\* ... and writes them later, by primary key alone; or dies in between.
ExpireSelected ==
    /\ doomed # {}
    /\ doomed' = {}
    /\ \/ intent' = [i \in Intents |-> IF i \in doomed THEN "expired" ELSE intent[i]]
       \/ UNCHANGED intent
    /\ UNCHANGED <<lapsed, gatewayVars, recordVars, remoteVars, noticeVars, workerVars>>

\* The administration's `cancel' action: one conditional UPDATE.
CancelIntent(i) ==
    /\ intent[i] \notin {"completed", "cancelled", "expired"}
    /\ intent' = [intent EXCEPT ![i] = "cancelled"]
    /\ UNCHANGED <<lapsed, gatewayVars, recordVars, remoteVars, noticeVars,
                   workerVars, doomed>>

\* The administration's action on uncertain operations: marked as blocked, with
\* error code `admin_review_required', "without resending".
MarkUnknownForReview(i) ==
    /\ op[i] = "unknown"
    /\ op' = [op EXCEPT ![i] = "blocked"]
    /\ UNCHANGED <<intent, lapsed, gatewayVars, res, paid, linked, tries, remoteVars,
                   noticeVars, workerVars, doomed>>

\* refresh_website_reservations and the webhook task write Hostaway's state
\* of a stay the site knows by its Hostaway id.
SyncReservation(i) ==
    /\ i \in linked /\ res[i] # "cancelled"
    /\ res' = [res EXCEPT ![i] = IF stay[i] = "live" THEN "confirmed" ELSE "cancelled"]
    /\ UNCHANGED <<intent, lapsed, gatewayVars, paid, linked, op, tries,
                   remoteVars, noticeVars, workerVars, doomed>>

\* A webhook for a stay whose id no row has makes a new row, without an intent.
ImportStay(i) ==
    /\ WebhooksEnabled
    /\ stay[i] # "none" /\ i \notin linked /\ i \notin imported
    /\ imported' = imported \cup {i}
    /\ UNCHANGED <<intent, lapsed, gatewayVars, recordVars, sent, stay, blocked,
                   noticeVars, workerVars, doomed>>

\* A result page has recorded the payment of intent i and not yet ended.
Carries(w, i) ==
    /\ on[w] = i /\ job[w] # None
    /\ pc[w] \in {"receipt", "review"} \cup Creating

\* A process dies, is killed by its time limit or loses its connection.
Crash(w) ==
    /\ pc[w] # "idle"
    /\ End(w)
    /\ died' = died \cup {i \in Intents : Carries(w, i)}
    /\ UNCHANGED <<intent, lapsed, gatewayVars, recordVars, remoteVars,
                   flagged, receipted, doomed>>

-----------------------------------------------------------------------------
(* The world outside: the clock, the guest and HyperPay, Hostaway.         *)

Lapse(i) ==
    /\ i \notin lapsed
    /\ lapsed' = lapsed \cup {i}
    /\ UNCHANGED <<intent, gatewayVars, recordVars, remoteVars, noticeVars,
                   workerVars, doomed>>

\* The guest submits the widget; HyperPay accepts, declines or holds the payment.
Pay(a) ==
    /\ pay[a] \in {"open", "held"}
    /\ \E s \in {"paid", "declined", "held"} \ {pay[a]} : pay' = [pay EXCEPT ![a] = s]
    /\ UNCHANGED <<intent, lapsed, owner, att, recordVars, remoteVars,
                   noticeVars, workerVars, doomed>>

\* Another channel takes the dates when they are free, and gives them back.
ChannelMoves ==
    /\ blocked \/ Available
    /\ blocked' = ~blocked
    /\ UNCHANGED <<intent, lapsed, gatewayVars, recordVars, sent, stay, imported,
                   noticeVars, workerVars, doomed>>

StayCancelled(i) ==
    /\ stay[i] = "live"
    /\ stay' = [stay EXCEPT ![i] = "cancelled"]
    /\ UNCHANGED <<intent, lapsed, gatewayVars, recordVars, sent, imported,
                   blocked, noticeVars, workerVars, doomed>>

-----------------------------------------------------------------------------
WorkerStep(w) ==
    \/ CreateCheckout(w)
    \/ GetPayment(w) \/ ProcessVerification(w) \/ Complete(w)
    \/ RecordPayment(w) \/ Refresh(w)
    \/ CheckAvailability(w) \/ FailWithoutPost(w)
    \/ EnsureBlocked(w) \/ OverwriteBlocked(w)
    \/ PrepareOperation(w) \/ PostReservation(w)
    \/ SettleCreated(w) \/ SettleMismatched(w) \/ SettleWithoutStay(w)
    \/ QueueReceipt(w) \/ ReportForReview(w)

Expiration == SelectLapsed \/ ExpireSelected

Next ==
    \/ \E w \in Workers : WorkerStep(w)
    \/ \E w \in Workers, i \in Intents : StartCheckout(w, i) \/ StartRecovery(w, i)
    \/ \E w \in Workers, a \in Attempts : OpenResult(w, a)
    \/ Expiration
    \/ \E i \in Intents : CancelIntent(i) \/ MarkUnknownForReview(i)
    \/ \E i \in Intents : SyncReservation(i) \/ ImportStay(i)
    \/ \E i \in Intents : Lapse(i) \/ StayCancelled(i)
    \/ \E a \in Attempts : Pay(a)
    \/ ChannelMoves
    \/ \E w \in Workers : Crash(w)

Spec == Init /\ [][Next]_vars

-----------------------------------------------------------------------------
(* Properties.                                                             *)

TypeOK ==
    /\ intent \in [Intents -> IntentStatus]
    /\ lapsed \subseteq Intents
    /\ owner \in [Attempts -> Intents \cup {None}]
    /\ att \in [Attempts -> AttemptStatus]
    /\ pay \in [Attempts -> GatewayState]
    /\ res \in [Intents -> ReservationStatus]
    /\ paid \subseteq Intents /\ linked \subseteq Intents
    /\ op \in [Intents -> OpStatus]
    /\ tries \in [Intents -> Nat]
    /\ sent \in [Intents -> Nat]
    /\ stay \in [Intents -> Stay]
    /\ imported \subseteq Intents /\ blocked \in BOOLEAN
    /\ flagged \subseteq Intents /\ receipted \subseteq Attempts /\ died \subseteq Intents
    /\ pc \in [Workers -> Step]
    /\ job \in [Workers -> Attempts \cup {None}]
    /\ on \in [Workers -> Intents \cup {None}]
    /\ memo \in [Workers -> IntentStatus \cup Document \cup Answer \cup {None}]
    /\ doomed \subseteq Intents

\* The create call is never repeated: whatever the refreshes of the result page,
\* the runs of the recovery task and the crashes, Hostaway receives at most one
\* create POST for an intent (the ledger of HostawayReservationOperation).
AtMostOnePost == \A i \in Intents : sent[i] <= 1

\* No create POST before HyperPay really holds the money of the intent and the
\* server has verified it (create_hostaway_reservation's payment gate).
NoPostBeforePayment ==
    \A i \in Intents : sent[i] > 0 =>
        \E a \in Attempts : owner[a] = i /\ att[a] = "succeeded" /\ pay[a] = "paid"

\* A confirmed reservation is paid, has its Hostaway id, and Hostaway did make
\* the stay (_create_hostaway_reservation's last transaction and the syncs).
ConfirmedIsReal ==
    \A i \in Intents : res[i] = "confirmed" =>
        i \in paid \cap linked /\ stay[i] # "none"

\* What the recovery task selects has never been sent to Hostaway: it never
\* picks up an uncertain create (its docstring, tasks.py:135-137).
RecoverySkipsUncertain == \A i \in Intents : Recoverable(i) => sent[i] = 0

\* A verified payment stays verified: a concurrent request that fetched an older
\* document never overwrites it (_process_verification's second look).
VerifiedIsFinal ==
    [][\A a \in Attempts : att[a] = "succeeded" => att'[a] = "succeeded"]_vars

\* A receipt is only queued for a payment that was verified, of a booking that
\* reached Hostaway (_queue_verified_receipt), never for a failed create.
ReceiptIsBacked ==
    \A a \in receipted : att[a] = "succeeded" /\ owner[a] \in linked

\* How far the create of an intent has come, for CreateOnce.  The status of the
\* operation cannot tell: a late worker or staff may set it back to `blocked'.
CreatePhase(i) ==
    IF i \in linked THEN "recorded"
    ELSE IF tries[i] > 0 THEN "claimed"
    ELSE IF Verified(i) THEN "verified" ELSE "unpaid"

Contract == INSTANCE CreateOnce WITH phase <- [i \in Intents |-> CreatePhase(i)], posts <- sent

\* The booking flow keeps the promise of CreateOnce: a create call is claimed
\* after a verified payment, sent at most once, and the stay's id recorded for good.
ImplementsCreateOnce == Contract!Spec

\* A booking whose payment was recorded is never dropped silently: a result page
\* is at work on it, or it has its Hostaway id, or it was reported for review
\* (_complete_success).  Two ways out are known and named: a page died on it
\* (`died'), and a webhook made a row for its stay first, whose id makes the
\* outcome's write fail on the unique index (hostaway_booking.py:301).
PaidIsAccounted ==
    \A i \in paid : \/ i \in linked \cup flagged \cup died \cup imported
                    \/ \E w \in Workers : Carries(w, i)
=============================================================================
