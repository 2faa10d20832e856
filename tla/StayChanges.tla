----------------------------- MODULE StayChanges -----------------------------
(***************************************************************************)
(* Changes and the cancellation of one confirmed website stay: the guest's *)
(* BookingModificationRequests, the payment of a positive difference, the  *)
(* one Hostaway PUT of a request with its HostawayModificationOperation,   *)
(* the refund that a cheaper or cancelled stay leaves owed, and the status *)
(* refresh that reconciles requests with what Hostaway holds.              *)
(*                                                                         *)
(* What a stay looks like (dates, guests, total) is named by the request   *)
(* that asked for it; None is the stay as it was booked.  The changes an   *)
(* owner prices by hand and the loyalty plans are left out, and the flags  *)
(* of automatic approval and of live Hostaway writes are on.               *)
(***************************************************************************)
EXTENDS Naturals, FiniteSets

CONSTANTS
    Increases,   \* requests for a dearer stay: the difference is paid first
    Decreases,   \* requests for a cheaper stay: the difference is owed back
    Cancels,     \* cancellation requests
    Workers,     \* web threads and Celery worker processes
    None         \* the stay as booked; a worker without a request

Changes == Increases \cup Decreases
Requests == Changes \cup Cancels
Plan == Changes \cup {None}

ASSUME RequestsAssumption ==
    /\ Increases \cap Decreases = {} /\ Changes \cap Cancels = {}
    /\ None \notin Requests

VARIABLES
    status,    \* BookingModificationRequest.status
    base,      \* the stay a change was priced from (old_check_in ... old_total)
    bill,      \* the payment attempt of a positive difference
    op,        \* HostawayModificationOperation.status
    tries,     \* its attempt_count
    sent,      \* how many PUTs were sent for the request
    local,     \* the Reservation row
    remote,    \* the reservation in Hostaway
    applied,   \* the changes Hostaway did apply
    owed,      \* the refund obligations recorded for the request
    pc, job,   \* a worker's next step, and its request
    seen, got, \* the stay the worker read last, and the answer that came with it
    fresh      \* refreshing workers whose row nobody has written since they read it

requestVars == <<status, base, bill>>
ledgerVars  == <<op, tries, sent>>
stayVars    == <<local, fresh>>
remoteVars  == <<remote, applied>>
workerVars  == <<pc, job, seen, got>>
vars == <<requestVars, ledgerVars, stayVars, remoteVars, owed, workerVars>>

-----------------------------------------------------------------------------
\* "closed" is failed, price_changed, unavailable, superseded, expired or rejected:
\* nothing takes such a request up again.
Status == {"absent", "awaiting_payment", "pending_admin_approval",
           "ready_for_hostaway", "processing", "completed", "unknown", "closed"}
OpStatus == {"absent", "in_progress", "succeeded", "failed", "unknown", "blocked"}
Bill == {"none", "open", "paid"}
LocalStatus == {"confirmed", "modified", "cancelled"}
Stay == [state : {"live", "cancelled"}, plan : Plan]
Answer == {"read", "lost", "refused"}
Step == {"idle", "persist", "recheck", "approve", "prepare", "put",
         "get", "settle", "record", "refresh"}

AsBooked == [state |-> "live", plan |-> None]

Init ==
    /\ status = [r \in Requests |-> "absent"]
    /\ base = [r \in Requests |-> None]
    /\ bill = [r \in Requests |-> "none"]
    /\ op = [r \in Requests |-> "absent"]
    /\ tries = [r \in Requests |-> 0]
    /\ sent = [r \in Requests |-> 0]
    /\ local = [state |-> "confirmed", plan |-> None]
    /\ remote = AsBooked
    /\ applied = {}
    /\ owed = [r \in Requests |-> 0]
    /\ pc = [w \in Workers |-> "idle"]
    /\ job = [w \in Workers |-> None]
    /\ seen = [w \in Workers |-> AsBooked]
    /\ got = [w \in Workers |-> "read"]
    /\ fresh = {}

-----------------------------------------------------------------------------
(* What the operations share.                                              *)

Begin(w, s, r, m) ==
    /\ pc[w] = "idle"
    /\ pc' = [pc EXCEPT ![w] = s]
    /\ job' = [job EXCEPT ![w] = r]
    /\ seen' = [seen EXCEPT ![w] = m]
    /\ UNCHANGED got

Goto(w, s) == pc' = [pc EXCEPT ![w] = s] /\ UNCHANGED <<job, seen, got>>

\* The worker goes on to step s with answer a and the stay m it brought.
Learn(w, s, a, m) ==
    /\ pc' = [pc EXCEPT ![w] = s]
    /\ seen' = [seen EXCEPT ![w] = m]
    /\ got' = [got EXCEPT ![w] = a]
    /\ UNCHANGED job

\* A response, an exception or a crash.
End(w) ==
    /\ pc' = [pc EXCEPT ![w] = "idle"]
    /\ job' = [job EXCEPT ![w] = None]
    /\ seen' = [seen EXCEPT ![w] = AsBooked]
    /\ got' = [got EXCEPT ![w] = "read"]

\* The reservation row is saved: what a refresh read of it is no longer current.
Save(s, p) == local' = [state |-> s, plan |-> p] /\ fresh' = {}

\* (mutant) any cancelled stay matches
MatchesLoosely(r, stay) == stay.state = "cancelled" \/ stay.plan = r

\* _snapshot_matches: Hostaway's stay is what the request asked for.
Matches(r, stay) ==
    \/ r \in Cancels /\ stay.state = "cancelled"
    \/ r \in Changes /\ stay.plan = r

-----------------------------------------------------------------------------
(* New requests: ModificationService.                                      *)

\* The base blockers, the live calendar and the price, outside any transaction.
Quote(w, r) ==
    /\ r \in Changes /\ status[r] = "absent" /\ local.state = "confirmed"
    /\ Begin(w, "persist", r, [state |-> "live", plan |-> local.plan])
    /\ UNCHANGED <<requestVars, ledgerVars, stayVars, remoteVars, owed>>

\* What execute_automatic_modification takes, and a new change replaces.
Approvable == {"awaiting_payment", "pending_admin_approval", "ready_for_hostaway"}

Persistable(w) ==
    /\ status[job[w]] = "absent"
    /\ local.plan = seen[w].plan
    /\ ~ \E q \in Requests : status[q] \in {"processing", "unknown"}

\* Under the reservation's lock: the stay is still the one that was priced, no
\* request is under way, and the older changes make room.  The view then executes
\* a request that is ready.
Persist(w) ==
    LET r == job[w] IN
    /\ pc[w] = "persist"
    /\ IF Persistable(w)
       THEN /\ status' = [q \in Requests |->
                  IF q = r
                  THEN IF r \in Increases THEN "awaiting_payment" ELSE "ready_for_hostaway"
                  ELSE IF q \in Changes /\ status[q] \in Approvable THEN "closed"
                  ELSE status[q]]
            /\ base' = [base EXCEPT ![r] = seen[w].plan]
            /\ IF r \in Increases THEN End(w) ELSE Goto(w, "approve")
       ELSE UNCHANGED <<status, base>> /\ End(w)
    /\ UNCHANGED <<bill, ledgerVars, stayVars, remoteVars, owed>>

\* A cancellation takes no notice of the changes that are open or under way.  A
\* modified stay is cancelled by an owner.
CreateCancellation(w, r) ==
    /\ r \in Cancels /\ status[r] = "absent" /\ local.state \in {"confirmed", "modified"}
    /\ status' = [status EXCEPT ![r] = "ready_for_hostaway"]
    /\ Begin(w, "approve", r, AsBooked)
    /\ UNCHANGED <<base, bill, ledgerVars, stayVars, remoteVars, owed>>

\* The same request again is found by its idempotency key; it is executed if it
\* is ready.  So does the owners' cancellation page.
Resubmit(w, r) ==
    /\ status[r] = "ready_for_hostaway"
    /\ local.state = "confirmed" \/ r \in Cancels
    /\ Begin(w, "approve", r, AsBooked)
    /\ UNCHANGED <<requestVars, ledgerVars, stayVars, remoteVars, owed>>

-----------------------------------------------------------------------------
(* The payment of a difference.                                            *)

\* create_modification_checkout.  The recheck of dates and price came before the
\* transaction; only the request's own columns are looked at under its lock.
Checkout(r) ==
    /\ r \in Increases /\ status[r] = "awaiting_payment" /\ bill[r] = "none"
    /\ bill' = [bill EXCEPT ![r] = "open"]
    /\ UNCHANGED <<status, base, ledgerVars, stayVars, remoteVars, owed,
                   workerVars>>

\* The recheck before payment fails and closes the request.
CheckoutRefused(r) ==
    /\ r \in Increases /\ status[r] = "awaiting_payment"
    /\ status' = [status EXCEPT ![r] = "closed"]
    /\ UNCHANGED <<base, bill, ledgerVars, stayVars, remoteVars, owed,
                   workerVars>>

\* The result page: HyperPay's answer is verified (DirectBooking has the details), or
\* the payment was verified before.  Only a request that _complete_success reads as
\* awaiting its payment is checked again.
OpenResult(w, r) ==
    /\ bill[r] \in {"open", "paid"}
    /\ bill' = [bill EXCEPT ![r] = "paid"]
    /\ Begin(w, IF status[r] = "awaiting_payment" THEN "recheck" ELSE "approve", r, AsBooked)
    /\ UNCHANGED <<status, base, ledgerVars, stayVars, remoteVars, owed>>

\* revalidate_for_payment reads the live calendar and price once more.  A failure
\* moves a request that still awaits payment, to staff if nothing else applies.
RecheckPaid(w) ==
    LET r == job[w] IN
    /\ pc[w] = "recheck"
    /\ \/ /\ local.state = "confirmed" /\ local.plan = base[r]
          /\ Goto(w, "approve")
          /\ UNCHANGED status
       \/ /\ IF status[r] = "awaiting_payment"
             THEN \E s \in {"closed", "pending_admin_approval"} :
                     status' = [status EXCEPT ![r] = s]
             ELSE UNCHANGED status
          /\ End(w)
    /\ UNCHANGED <<base, bill, ledgerVars, stayVars, remoteVars, owed>>

-----------------------------------------------------------------------------
(* Execution: execute_automatic_modification, HostawayModificationService. *)

\* A dearer stay needs a verified payment of the difference.
MayApprove(r) == status[r] \in Approvable /\ (r \in Increases => bill[r] = "paid")

Approve(w) ==
    LET r == job[w] IN
    /\ pc[w] = "approve"
    /\ IF MayApprove(r)
       THEN status' = [status EXCEPT ![r] = "ready_for_hostaway"] /\ Goto(w, "prepare")
       ELSE UNCHANGED status /\ End(w)
    /\ UNCHANGED <<base, bill, ledgerVars, stayVars, remoteVars, owed>>

\* (mutant) the status alone decides, attempt_count is not looked at
SendableByStatus(r) == op[r] \notin {"in_progress", "succeeded", "unknown"}

Sendable(r) == op[r] \notin {"in_progress", "succeeded", "unknown"} /\ tries[r] = 0

\* (mutant) the row is changed when the request is sent
PrepareAhead(w) ==
    LET r == job[w] IN
    /\ pc[w] = "prepare"
    /\ \/ /\ Sendable(r)
          /\ op' = [op EXCEPT ![r] = "in_progress"]
          /\ tries' = [tries EXCEPT ![r] = @ + 1]
          /\ status' = [status EXCEPT ![r] = "processing"]
          /\ Save("modified", r)
          /\ Goto(w, "put")
       \/ /\ ~Sendable(r)
          /\ End(w) /\ UNCHANGED <<status, op, tries, stayVars>>
    /\ UNCHANGED <<base, bill, sent, remoteVars, owed>>

\* _prepare_operation.  Only a cancellation looks at the request's status again:
\* before the lock, where it is just refused, or under it, where it is blocked.
Prepare(w) ==
    LET r == job[w] IN
    /\ pc[w] = "prepare"
    /\ \/ /\ Sendable(r) /\ (r \in Cancels => status[r] = "ready_for_hostaway")
          /\ op' = [op EXCEPT ![r] = "in_progress"]
          /\ tries' = [tries EXCEPT ![r] = @ + 1]
          /\ status' = [status EXCEPT ![r] = "processing"]
          /\ Goto(w, "put")
       \/ /\ Sendable(r) /\ r \in Cancels /\ status[r] # "ready_for_hostaway"
          /\ op' \in {op, [op EXCEPT ![r] = "blocked"]}
          /\ End(w) /\ UNCHANGED <<status, tries>>
       \/ /\ ~Sendable(r)
          /\ End(w) /\ UNCHANGED <<status, op, tries>>
    /\ UNCHANGED <<base, bill, sent, stayVars, remoteVars, owed>>

\* What Hostaway holds after it applied the request.
Applied(r) ==
    IF r \in Cancels THEN [remote EXCEPT !.state = "cancelled"] ELSE [remote EXCEPT !.plan = r]

\* The PUT is applied or not.  Its answer may be lost; one that is not JSON is taken
\* for a refusal, applied or not.
Put(w) ==
    LET r == job[w] IN
    /\ pc[w] = "put"
    /\ sent' = [sent EXCEPT ![r] = @ + 1]
    /\ \/ /\ remote' = Applied(r)
          /\ applied' = applied \cup ({r} \cap Changes)
          /\ \/ Goto(w, "get")
             \/ \E a \in {"lost", "refused"} : Learn(w, "settle", a, AsBooked)
       \/ /\ \E a \in {"lost", "refused"} : Learn(w, "settle", a, AsBooked)
          /\ UNCHANGED remoteVars
    /\ UNCHANGED <<requestVars, op, tries, stayVars, owed>>

\* The client reads the reservation back.
Get(w) ==
    /\ pc[w] = "get"
    /\ \/ Learn(w, "settle", "read", remote)
       \/ \E a \in {"lost", "refused"} : Learn(w, "settle", a, AsBooked)
    /\ UNCHANGED <<requestVars, ledgerVars, stayVars, remoteVars, owed>>

\* Hostaway's stay was read back and is the one asked for.
AnswerConfirms(w) == got[w] = "read" /\ Matches(job[w], seen[w])

\* The outcome is written over whatever the request has become meanwhile.
SettleApplied(w) ==
    LET r == job[w] IN
    /\ pc[w] = "settle" /\ AnswerConfirms(w)
    /\ Save(IF seen[w].state = "cancelled" THEN "cancelled" ELSE "modified", seen[w].plan)
    /\ status' = [status EXCEPT ![r] = "completed"]
    /\ op' = [op EXCEPT ![r] = "succeeded"]
    /\ Goto(w, "record")
    /\ UNCHANGED <<base, bill, tries, sent, remoteVars, owed>>

\* (mutant) the answer is written as the request's status
SettleOtherRaw(w) ==
    /\ pc[w] = "settle" /\ ~AnswerConfirms(w)
    /\ status' = [status EXCEPT ![job[w]] = got[w]]
    /\ op' = [op EXCEPT ![job[w]] = "failed"]
    /\ End(w)
    /\ UNCHANGED <<base, bill, tries, sent, stayVars, remoteVars, owed>>

\* (mutant) a refund is recorded for every outcome
SettleOtherOwing(w) ==
    LET refused == got[w] = "refused" IN
    /\ pc[w] = "settle" /\ ~AnswerConfirms(w)
    /\ status' = [status EXCEPT ![job[w]] = IF refused THEN "closed" ELSE "unknown"]
    /\ op' = [op EXCEPT ![job[w]] = IF refused THEN "failed" ELSE "unknown"]
    /\ Goto(w, "record")
    /\ UNCHANGED <<base, bill, tries, sent, stayVars, remoteVars, owed>>

\* _finish: no answer and a stay that is not the one asked for are uncertain.
SettleOther(w) ==
    LET refused == got[w] = "refused" IN
    /\ pc[w] = "settle" /\ ~AnswerConfirms(w)
    /\ status' = [status EXCEPT ![job[w]] = IF refused THEN "closed" ELSE "unknown"]
    /\ op' = [op EXCEPT ![job[w]] = IF refused THEN "failed" ELSE "unknown"]
    /\ End(w)
    /\ UNCHANGED <<base, bill, tries, sent, stayVars, remoteVars, owed>>

\* _record_refund_if_owed, in a transaction of its own.  The amounts are
\* HyperPayRefunds' matter: here something is owed.
RecordRefund(w) ==
    LET r == job[w] IN
    /\ pc[w] = "record"
    /\ owed' = IF r \in Cancels \cup Decreases THEN [owed EXCEPT ![r] = @ + 1] ELSE owed
    /\ End(w)
    /\ UNCHANGED <<requestVars, ledgerVars, stayVars, remoteVars>>

-----------------------------------------------------------------------------
(* Tasks, staff and the world outside.                                     *)

\* (mutant) only confirmed stays are refreshed
FetchConfirmed(w) ==
    /\ local.state = "confirmed"
    /\ Begin(w, "refresh", None, remote)
    /\ fresh' = fresh \cup {w}
    /\ UNCHANGED <<requestVars, ledgerVars, local, remoteVars, owed>>

\* refresh_website_reservations reads the open row, then Hostaway's stay ...
FetchStay(w) ==
    /\ local.state # "cancelled"
    /\ Begin(w, "refresh", None, remote)
    /\ fresh' = fresh \cup {w}
    /\ UNCHANGED <<requestVars, ledgerVars, local, remoteVars, owed>>

\* ... and writes it, unless the row was saved in between.  The requests that were
\* on their way and match it are completed (_reconcile_modification_requests).
\* Hostaway's own status of a live stay says whether it counts as modified.
WriteStay(w) ==
    /\ pc[w] = "refresh"
    /\ IF w \in fresh
       THEN /\ \E s \in IF seen[w].state = "cancelled" THEN {"cancelled"}
                        ELSE {"confirmed", "modified"} : Save(s, seen[w].plan)
            /\ status' = [r \in Requests |->
                  IF status[r] \in {"ready_for_hostaway", "processing", "unknown"}
                     /\ Matches(r, seen[w])
                  THEN "completed" ELSE status[r]]
       ELSE UNCHANGED <<status, stayVars>>
    /\ End(w)
    /\ UNCHANGED <<base, bill, ledgerVars, remoteVars, owed>>

\* expire_booking_objects selects requests that are past their time and not finished,
\* and writes them later by primary key alone: what they have become since, a
\* completed one too, is overwritten.
Expire(r) ==
    /\ status[r] # "absent"
    /\ status' = [status EXCEPT ![r] = "closed"]
    /\ UNCHANGED <<base, bill, ledgerVars, stayVars, remoteVars, owed, workerVars>>

ApproveLocally(r) ==
    /\ status[r] = "pending_admin_approval"
    /\ status' = [status EXCEPT ![r] = "ready_for_hostaway"]
    /\ UNCHANGED <<base, bill, ledgerVars, stayVars, remoteVars, owed, workerVars>>

RejectLocally(r) ==
    /\ status[r] \notin {"absent", "completed", "closed"}
    /\ status' = [status EXCEPT ![r] = "closed"]
    /\ UNCHANGED <<base, bill, ledgerVars, stayVars, remoteVars, owed,
                   workerVars>>

\* Hostaway's staff, or the guest there, cancel the stay.
CancelledInHostaway ==
    /\ remote.state = "live"
    /\ remote' = [remote EXCEPT !.state = "cancelled"]
    /\ UNCHANGED <<requestVars, ledgerVars, stayVars, applied, owed, workerVars>>

\* A process dies, or an operation is refused: the stay is over, Hostaway has no
\* such reservation, the exchange rate is missing.
Stop(w) ==
    /\ pc[w] # "idle"
    /\ End(w)
    /\ UNCHANGED <<requestVars, ledgerVars, stayVars, remoteVars, owed>>

-----------------------------------------------------------------------------
WorkerStep(w) ==
    \/ Persist(w) \/ RecheckPaid(w)
    \/ Approve(w) \/ Prepare(w) \/ Put(w) \/ Get(w)
    \/ SettleApplied(w) \/ SettleOther(w) \/ RecordRefund(w)
    \/ WriteStay(w)

\* Everything but the deaths of processes.
NormalStep ==
    \/ \E w \in Workers : WorkerStep(w) \/ FetchStay(w)
    \/ \E w \in Workers, r \in Requests :
          Quote(w, r) \/ CreateCancellation(w, r) \/ Resubmit(w, r) \/ OpenResult(w, r)
    \/ \E r \in Requests :
          \/ Checkout(r) \/ CheckoutRefused(r)
          \/ Expire(r) \/ ApproveLocally(r) \/ RejectLocally(r)
    \/ CancelledInHostaway

Next == NormalStep \/ \E w \in Workers : Stop(w)

Spec == Init /\ [][Next]_vars

\* A worker that is running goes on: every remote call has a time limit.
WorkerFairness == \A w \in Workers : WF_vars(WorkerStep(w))

\* Processes may die, but beat starts the refresh again and again, and of those that
\* fetched the stay not all die before they wrote it.
RefreshingSpec ==
    /\ Spec /\ WorkerFairness
    /\ SF_vars(\E w \in Workers : FetchStay(w)) /\ SF_vars(\E w \in Workers : WriteStay(w))

-----------------------------------------------------------------------------
(* Properties.                                                             *)

TypeOK ==
    /\ status \in [Requests -> Status]
    /\ base \in [Requests -> Plan]
    /\ bill \in [Requests -> Bill]
    /\ op \in [Requests -> OpStatus]
    /\ tries \in [Requests -> Nat] /\ sent \in [Requests -> Nat]
    /\ local \in [state : LocalStatus, plan : Plan]
    /\ remote \in Stay /\ applied \subseteq Changes
    /\ owed \in [Requests -> Nat]
    /\ pc \in [Workers -> Step]
    /\ job \in [Workers -> Requests \cup {None}]
    /\ seen \in [Workers -> Stay]
    /\ got \in [Workers -> Answer]
    /\ fresh \subseteq Workers

\* At most one PUT for a request, whatever the guest submits again, the result page
\* reopens, the answers that are lost and the processes that die (_prepare_operation).
AtMostOneWrite == \A r \in Requests : sent[r] <= 1

\* README.md, "the original Reservation does not change before a successful Hostaway
\* write and then a GET": what the row holds, Hostaway did hold.
ReservationFollowsHostaway ==
    /\ local.plan # None => local.plan \in applied
    /\ local.state = "cancelled" => remote.state = "cancelled"

\* A completed request took effect in Hostaway, whether its own worker, or the
\* refresh, or nobody but the refresh saw it (_reconcile_modification_requests).
CompletedIsApplied ==
    \A r \in Requests : status[r] = "completed" =>
        IF r \in Cancels THEN remote.state = "cancelled" ELSE r \in applied

\* A refund is owed once at most, and for a change that Hostaway made
\* (_record_refund_if_owed's docstring).
OwedIsEarned ==
    \A r \in Requests : owed[r] > 0 =>
        /\ owed[r] = 1
        /\ IF r \in Cancels THEN remote.state = "cancelled" ELSE r \in applied

\* A new change replaces the older ones: no two of a stay wait for a payment, for
\* staff or for Hostaway at once (_supersede_open_change_requests).
OneOpenChange ==
    \A q, r \in Changes :
        status[q] \in Approvable /\ status[r] \in Approvable => q = r

\* A stay cancelled in Hostaway, by whom ever, ends up cancelled on the site: a change
\* that is settled late over it is corrected (refresh_website_reservations).
CancellationIsSeen == (remote.state = "cancelled") ~> (local.state = "cancelled")
=============================================================================
