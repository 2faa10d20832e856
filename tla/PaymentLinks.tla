----------------------------- MODULE PaymentLinks -----------------------------
(***************************************************************************)
(* Collecting the price of one stay that exists already: the payment links *)
(* (ReservationPaymentRequest) an owner issues, the card payments guests   *)
(* make through them, the owner's price changes with the link revision     *)
(* that collects their balance, receipts of cash taken elsewhere, and the  *)
(* refresh that copies the stay from Hostaway.  The payments a link has    *)
(* collected are booked in Hostaway by HostawayReceipts, which this module *)
(* extends.                                                                *)
(*                                                                         *)
(* A price stands for everything a fingerprint covers (dates, guests, total, *)
(* currency), in SAR.  Every action is one transaction or one remote call. *)
(* A request thread that has passed its remote check may claim much later, *)
(* or never: what it checked is remembered in `visited' and `reviewed',    *)
(* and a thread that dies there is one that takes no further step.         *)
(***************************************************************************)
EXTENDS HostawayReceipts, Sums

CONSTANTS
    MaxRequests,  \* bound: payment requests of the stay, numbered as created
    MaxChanges,   \* bound: price changes of the stay, numbered as requested
    Booked,       \* the price in the booking intent
    Prices        \* what an owner or Hostaway may change the price to

Requests == 1 .. MaxRequests
Changes == 1 .. MaxChanges
None == 0         \* no request: cash; no change: the price as booked

ASSUME LinksAssumption ==
    /\ IsFiniteSet(Payments) /\ MaxRequests \in Nat /\ MaxChanges \in Nat
    /\ Booked \in Nat \ {0} /\ Prices \subseteq Nat \ {0}

VARIABLES
    stay,      \* the Reservation row: status, total, payment status
    remote,    \* the reservation in Hostaway: status, total
    change,    \* BookingModificationRequest with an owner's final total
    request,   \* ReservationPaymentRequest
    attempt,   \* PaymentAttempt
    gate,      \* the checkout at HyperPay
    visited,   \* requests that passed the remote check of a guest's POST
    reviewed   \* how far an approval of a draft got

bookingVars == <<stay, remote, change>>
paymentVars == <<attempt, gate>>
linkVars == <<request, visited, reviewed>>
linksVars == <<bookingVars, linkVars, paymentVars, receiptsVars>>

Total == Prices \cup {Booked}
StayStatus == {"confirmed", "modified", "cancelled"}
ChangeStatus == {"none", "priced", "completed", "unknown", "closed"}
RequestStatus == {"none", "draft", "open", "paid", "revoked", "review"}
AttemptStatus == {"none", "created", "pending", "unknown", "review", "succeeded", "failed"}
Unresolved == {"created", "pending", "unknown", "review"}

NoRequest == [status |-> "none", change |-> None, amount |-> 0, total |-> Booked, paid |-> 0,
              funds |-> [p \in Payments |-> "none"], approved |-> FALSE, next |-> None]

LinksInit ==
    /\ ReceiptsInit
    /\ stay = [status |-> "confirmed", total |-> Booked, pay |-> "unpaid"]
    /\ remote = [status |-> "confirmed", total |-> Booked]
    /\ change = [c \in Changes |->
                   [status |-> "none", base |-> Booked, total |-> Booked, paid |-> 0]]
    /\ request = [r \in Requests |-> NoRequest]
    /\ attempt = [p \in Payments |-> [status |-> "none", req |-> None, amount |-> 0]]
    /\ gate = [p \in Payments |-> "none"]
    /\ visited = {}
    /\ reviewed = [r \in Requests |-> "none"]

-----------------------------------------------------------------------------
(* What the operations look at.                                            *)

Amount(S) == SumOver([p \in Payments |-> attempt[p].amount], S)
With(statuses) == {p \in Payments : attempt[p].status \in statuses}
Of(r) == {p \in Payments : attempt[p].req = r}

\* settlement_for: the verified collections of the stay.
Paid == Amount(With({"succeeded"}))

Latest(c) == \A d \in Changes : d > c => change[d].status = "none"

\* _eligible: a confirmed stay at its booked price, nothing collected, no change.
Eligible ==
    /\ stay.status = "confirmed" /\ stay.pay = "unpaid" /\ stay.total = Booked
    /\ \A p \in With({"succeeded"}) : attempt[p].req # None
    /\ \A c \in Changes : change[c].status \notin {"priced", "completed"}

\* financial_signature: the payments behind the balance, the request's own left out.
Signature(r) == [p \in Payments |-> IF attempt[p].req = r THEN "none" ELSE attempt[p].status]

\* validate_revision
ValidRevision(r, statuses) ==
    LET q == request[r]  c == q.change IN
    /\ q.approved /\ q.status \in statuses
    /\ change[c].status = "completed" /\ Latest(c)
    /\ stay.status \in {"confirmed", "modified"}
    /\ \A s \in Requests \ {r} : request[s].status # "review"
    /\ change[c].total = stay.total /\ q.total = stay.total
    /\ q.funds = Signature(r)
    /\ q.paid + q.amount = stay.total

\* validate_open
ValidOpen(r) ==
    /\ request[r].status = "open"
    /\ IF request[r].change = None
       THEN Eligible /\ request[r].total = stay.total
       ELSE ValidRevision(r, {"open"})

\* owner_change_blocker: the owner's latest price, on the stay it was given for or that
\* it was applied to.
ChangeFits(c) ==
    /\ stay.status \in {"confirmed", "modified"} /\ Latest(c)
    /\ \/ change[c].status = "completed" /\ stay.total = change[c].total
       \/ change[c].status = "priced" /\ stay.total = change[c].base

\* _reviewable: and no payment whose outcome is open.
Reviewable(c) ==
    /\ ChangeFits(c)
    /\ With(Unresolved) = {}
    /\ \A s \in Requests : request[s].status # "review"

\* _check_preview: nothing the draft was computed from is different now.
DraftCurrent(r) ==
    LET q == request[r] IN
    /\ q.status = "draft" /\ Reviewable(q.change)
    /\ q.total = change[q.change].total
    /\ q.funds = Signature(r) /\ q.paid = Paid /\ q.amount = q.total - Paid

IsNext(r) == \A s \in Requests : request[s].status = "none" <=> s >= r

-----------------------------------------------------------------------------
(* The owner issues and revokes links.                                     *)

\* issue_request.  An open link is returned as it is.
Issue(r) ==
    /\ IsNext(r) /\ Eligible
    /\ \A s \in Requests : request[s].status # "open"
    /\ With(Unresolved \cup {"succeeded"}) = {}
    /\ request' = [request EXCEPT ![r] =
         [NoRequest EXCEPT !.status = "open", !.amount = Booked, !.total = stay.total]]
    /\ UNCHANGED <<bookingVars, visited, reviewed, paymentVars, receiptsVars>>

\* _payment_link_action: only an attempt without an outcome is in the way.
Revoke(r) ==
    /\ request[r].status = "open"
    /\ Of(r) \cap With(Unresolved) = {}
    /\ request' = [request EXCEPT ![r].status = "revoked"]
    /\ UNCHANGED <<bookingVars, visited, reviewed, paymentVars, receiptsVars>>

\* record_offline_receipt: cash for the whole stay closes its open link.
RecordOffline(p) ==
    /\ attempt[p].status = "none"
    /\ stay.status \in {"confirmed", "modified"} /\ stay.pay = "unpaid"
    /\ \A c \in Changes : change[c].status # "priced"
    /\ With(Unresolved \cup {"succeeded"}) = {}
    /\ attempt' = [attempt EXCEPT ![p] =
         [status |-> "succeeded", req |-> None, amount |-> stay.total]]
    /\ request' = [r \in Requests |-> IF request[r].status = "open"
                                      THEN [request[r] EXCEPT !.status = "revoked"]
                                      ELSE request[r]]
    /\ stay' = [stay EXCEPT !.pay = "paid"]
    /\ UNCHANGED <<remote, change, visited, reviewed, gate, receiptsVars>>

-----------------------------------------------------------------------------
(* A guest pays through a link.                                            *)

\* _verify_remote: Hostaway has the stay as it was booked, and no money for it.
StayUnpaidInHostaway ==
    /\ remote.total = stay.total /\ remote.status = "confirmed"
    /\ \A p \in Payments : charges[p] = 0

\* verify_revision_remote: the stay as it is here, and no charge but those of the
\* receipts the balance was computed from.
BalanceInHostaway(r) ==
    LET booked == {p \in Payments : charges[p] > 0} IN
    /\ remote.total = stay.total /\ remote.status \in {"confirmed", "modified"}
    /\ \A p \in booked : charges[p] = 1 /\ p \in With({"succeeded"}) \ Of(r)
    /\ Amount(booked) <= request[r].paid

RemoteAgrees(r) ==
    IF request[r].change = None THEN StayUnpaidInHostaway ELSE BalanceInHostaway(r)

\* A guest's POST, up to the read of the stay and its charges in Hostaway.
Visit(r) ==
    /\ ValidOpen(r) /\ RemoteAgrees(r)
    /\ visited' = visited \cup {r}
    /\ UNCHANGED <<bookingVars, request, reviewed, paymentVars, receiptsVars>>

\* (mutant) only the link's own attempts are in the way of a new one
ClaimAttemptBeside(r, p) ==
    /\ r \in visited /\ ValidOpen(r) /\ attempt[p].status = "none"
    /\ Of(r) \cap With({"created", "pending", "succeeded"}) = {}
    /\ attempt' = [attempt EXCEPT ![p] =
         [status |-> "created", req |-> r, amount |-> request[r].amount]]
    /\ UNCHANGED <<bookingVars, linkVars, gate, receiptsVars>>

\* ... and its transaction: the attempt that claims the payment is committed before
\* HyperPay is called.
ClaimAttempt(r, p) ==
    /\ r \in visited /\ ValidOpen(r) /\ attempt[p].status = "none"
    /\ With(Unresolved) = {}
    /\ (IF request[r].change = None THEN With({"succeeded"})
                                    ELSE Of(r) \cap With({"succeeded"})) = {}
    /\ attempt' = [attempt EXCEPT ![p] =
         [status |-> "created", req |-> r, amount |-> request[r].amount]]
    /\ UNCHANGED <<bookingVars, linkVars, gate, receiptsVars>>

\* The checkout is created and the guest sees its widget, or the outcome is unclear
\* (no widget then, whatever HyperPay did).  A thread that dies leaves "created".
OpenCheckout(p) ==
    /\ attempt[p].status = "created" /\ gate[p] = "none"
    /\ \/ /\ attempt' = [attempt EXCEPT ![p].status = "pending"]
          /\ gate' = [gate EXCEPT ![p] = "ready"]
       \/ attempt' = [attempt EXCEPT ![p].status = "review"] /\ UNCHANGED gate
    /\ UNCHANGED <<bookingVars, linkVars, receiptsVars>>

\* The guest pays in the widget or the card is refused.
Charge(p) ==
    /\ gate[p] = "ready"
    /\ \E outcome \in {"charged", "refused"} : gate' = [gate EXCEPT ![p] = outcome]
    /\ UNCHANGED <<bookingVars, linkVars, attempt, receiptsVars>>

\* (mutant) HyperPay's word is stored as it came
VerifyRaw(p) ==
    /\ gate[p] # "none" /\ attempt[p].status # "succeeded"
    /\ attempt' = [attempt EXCEPT ![p].status =
                     IF gate[p] = "charged" THEN "succeeded" ELSE gate[p]]
    /\ UNCHANGED <<bookingVars, linkVars, gate, receiptsVars>>

\* HyperPayService.verify, from the result page or reconcile_requests: HyperPay's
\* answer is written over any status but a verified success.
Verify(p) ==
    /\ gate[p] # "none" /\ attempt[p].status # "succeeded"
    /\ \E s \in {"unknown", "review"} \cup
              (CASE gate[p] = "charged" -> {"succeeded"}
                 [] gate[p] = "refused" -> {"failed"}
                 [] OTHER -> {}) :
         attempt' = [attempt EXCEPT ![p].status = s]
    /\ UNCHANGED <<bookingVars, linkVars, gate, receiptsVars>>

\* complete_request_payment accepts the payment of a link that is still the right one.
Collects(p) ==
    LET r == attempt[p].req IN
    IF request[r].change # None
    THEN ValidRevision(r, {"open", "review"}) /\ Of(r) \cap With({"succeeded"}) = {p}
    ELSE /\ stay.status = "confirmed" /\ request[r].total = stay.total /\ stay.pay # "paid"
         /\ request[r].status \in {"open", "review"}
         /\ With({"succeeded"}) = {p}

\* (mutant) every verified payment closes its link
CompleteAlways(p) ==
    LET r == attempt[p].req IN
    /\ attempt[p].status = "succeeded" /\ r # None /\ request[r].status # "paid"
    /\ request' = [request EXCEPT ![r].status = "paid"]
    /\ stay' = [stay EXCEPT !.pay = "paid"]
    /\ settled' = settled \cup {p}
    /\ UNCHANGED <<remote, change, visited, reviewed, paymentVars, ledgerVars>>

\* (mutant) the receipt is queued for a payment under review too
CompleteQueueing(p) ==
    LET r == attempt[p].req IN
    /\ attempt[p].status = "succeeded" /\ r # None /\ request[r].status # "paid"
    /\ request' = [request EXCEPT ![r].status = IF Collects(p) THEN "paid" ELSE "review"]
    /\ entry' = [entry EXCEPT ![p] = "pending"]
    /\ settled' = IF Collects(p) THEN settled \cup {p} ELSE settled
    /\ UNCHANGED <<bookingVars, visited, reviewed, paymentVars, charges, wire, key, clerk>>

\* complete_request_payment, right after the success or again from verify.
Complete(p) ==
    LET r == attempt[p].req IN
    /\ attempt[p].status = "succeeded" /\ r # None /\ request[r].status # "paid"
    /\ IF Collects(p)
       THEN /\ request' = [request EXCEPT ![r].status = "paid"]
            /\ stay' = [stay EXCEPT !.pay = "paid"]
            /\ settled' = settled \cup {p}
       ELSE /\ request' = [request EXCEPT ![r].status = "review"]
            /\ UNCHANGED <<stay, settled>>
    /\ UNCHANGED <<remote, change, visited, reviewed, paymentVars, ledgerVars>>

-----------------------------------------------------------------------------
(* The owner changes the price of the stay and collects the balance.       *)

\* set_owner_final_total, on a new change (which closes the open one) or again.
SetFinalTotal(c, t) ==
    /\ stay.status \in {"confirmed", "modified"}
    /\ \/ /\ change[c].status = "none"
          /\ \A d \in Changes : (change[d].status = "none" <=> d >= c)
          /\ \A d \in Changes : change[d].status # "unknown"
       \/ change[c].status = "priced" /\ Latest(c) /\ change[c].base = stay.total
    /\ change' = [d \in Changes |->
         IF d = c THEN [status |-> "priced", base |-> stay.total, total |-> t, paid |-> Paid]
         ELSE IF change[d].status = "priced" THEN [change[d] EXCEPT !.status = "closed"]
         ELSE change[d]]
    /\ UNCHANGED <<stay, remote, linkVars, paymentVars, receiptsVars>>

\* prepare_preview: a draft of the balance; older drafts are revoked.
PreparePreview(r, c) ==
    /\ IsNext(r) /\ Reviewable(c) /\ change[c].total > Paid
    /\ request' = [s \in Requests |->
         IF s = r
         THEN [status |-> "draft", change |-> c, amount |-> change[c].total - Paid,
               total |-> change[c].total, paid |-> Paid, funds |-> Signature(r),
               approved |-> FALSE, next |-> None]
         ELSE IF request[s].status = "draft" THEN [request[s] EXCEPT !.status = "revoked"]
         ELSE request[s]]
    /\ UNCHANGED <<bookingVars, visited, reviewed, paymentVars, receiptsVars>>

\* approve_preview: its first transaction ...
ApprovePreview(r) ==
    /\ DraftCurrent(r)
    /\ reviewed' = [reviewed EXCEPT ![r] = "checked"]
    /\ UNCHANGED <<bookingVars, request, visited, paymentVars, receiptsVars>>

\* ... the change in Hostaway (StayChanges has the details): confirmed, refused or
\* unanswered ...
ApplyChange(r) ==
    LET c == request[r].change IN
    /\ reviewed[r] = "checked" /\ change[c].status = "priced"
    /\ ChangeFits(c) /\ change[c].paid = Paid
    /\ \/ /\ remote.status # "cancelled"
          /\ remote' = [status |-> "modified", total |-> change[c].total]
          /\ stay' = [stay EXCEPT !.status = "modified", !.total = change[c].total]
          /\ change' = [change EXCEPT ![c].status = "completed"]
          /\ UNCHANGED reviewed
       \/ /\ \/ remote.status # "cancelled"
                /\ remote' = [status |-> "modified", total |-> change[c].total]
             \/ UNCHANGED remote
          /\ \E s \in {"unknown", "closed"} : change' = [change EXCEPT ![c].status = s]
          /\ reviewed' = [reviewed EXCEPT ![r] = "none"]
          /\ UNCHANGED stay
    /\ UNCHANGED <<request, visited, paymentVars, receiptsVars>>

\* ... the remote check ...
VerifyRevision(r) ==
    /\ reviewed[r] = "checked" /\ change[request[r].change].status = "completed"
    /\ BalanceInHostaway(r)
    /\ reviewed' = [reviewed EXCEPT ![r] = "verified"]
    /\ UNCHANGED <<bookingVars, request, visited, paymentVars, receiptsVars>>

\* (mutant) only the link that was open leads to the new one
ActivateRevisionOverOpen(r) ==
    /\ reviewed[r] = "verified" /\ DraftCurrent(r)
    /\ request' = [s \in Requests |->
         IF s = r THEN [request[s] EXCEPT !.status = "open", !.approved = TRUE]
         ELSE IF request[s].status = "open"
              THEN [request[s] EXCEPT !.status = "revoked", !.next = r]
         ELSE request[s]]
    /\ stay' = [stay EXCEPT !.pay = IF request[r].paid > 0 THEN "partially_paid" ELSE "unpaid"]
    /\ UNCHANGED <<remote, change, visited, reviewed, paymentVars, receiptsVars>>

\* ... and its last transaction: every older link leads to the new one.
ActivateRevision(r) ==
    /\ reviewed[r] = "verified" /\ DraftCurrent(r)
    /\ request' = [s \in Requests |->
         IF s = r THEN [request[s] EXCEPT !.status = "open", !.approved = TRUE]
         ELSE IF request[s].status \notin {"none", "draft"}
              THEN [request[s] EXCEPT !.next = r,
                                      !.status = IF @ = "open" THEN "revoked" ELSE @]
         ELSE request[s]]
    /\ stay' = [stay EXCEPT !.pay = IF request[r].paid > 0 THEN "partially_paid" ELSE "unpaid"]
    /\ UNCHANGED <<remote, change, visited, reviewed, paymentVars, receiptsVars>>

-----------------------------------------------------------------------------
(* Hostaway.                                                               *)

\* The stay is cancelled or its price edited in Hostaway.
EditInHostaway ==
    /\ remote.status # "cancelled"
    /\ \/ remote' = [remote EXCEPT !.status = "cancelled"]
       \/ \E t \in Total : remote' = [status |-> "modified", total |-> t]
    /\ UNCHANGED <<stay, change, linkVars, paymentVars, receiptsVars>>

\* merge_hostaway_payment_status
Merged(incoming) == IF stay.pay = "paid" /\ incoming = "unpaid" THEN "paid" ELSE incoming

\* sync_reservation_snapshot, and the change it finds applied.
Refresh ==
    /\ stay.status # "cancelled"
    /\ \E incoming \in IF \E p \in Payments : charges[p] > 0
                       THEN {"partially_paid", "paid"} ELSE {"unpaid"} :
         stay' = [status |-> remote.status, total |-> remote.total, pay |-> Merged(incoming)]
    /\ change' = [c \in Changes |->
         IF change[c].status \in {"priced", "unknown"} /\ change[c].total = remote.total
         THEN [change[c] EXCEPT !.status = "completed"] ELSE change[c]]
    /\ UNCHANGED <<remote, linkVars, paymentVars, receiptsVars>>

-----------------------------------------------------------------------------
LinkSteps ==
    \/ \E r \in Requests :
         \/ Issue(r) \/ Revoke(r) \/ Visit(r)
         \/ \E c \in Changes : PreparePreview(r, c)
         \/ ApprovePreview(r) \/ ApplyChange(r) \/ VerifyRevision(r) \/ ActivateRevision(r)
         \/ \E p \in Payments : ClaimAttempt(r, p)
    \/ \E p \in Payments :
         RecordOffline(p) \/ OpenCheckout(p) \/ Charge(p) \/ Verify(p) \/ Complete(p)
    \/ \E c \in Changes, t \in Prices : SetFinalTotal(c, t)
    \/ EditInHostaway \/ Refresh

\* queue_payment_receipt and its task leave the links alone.
LinksNext ==
    \/ LinkSteps
    \/ /\ Bookkeeping \/ \E p \in Payments : Queue(p)
       /\ UNCHANGED <<bookingVars, linkVars, paymentVars>>

LinksSpec == LinksInit /\ [][LinksNext]_linksVars

-----------------------------------------------------------------------------
Request == [status : RequestStatus, change : Changes \cup {None}, amount : Nat, total : Total,
            paid : Nat, funds : [Payments -> AttemptStatus], approved : BOOLEAN,
            next : Requests \cup {None}]

\* Every row holds a value the code writes.
LinksTypeOK ==
    /\ ReceiptsTypeOK
    /\ stay \in [status : StayStatus, total : Total, pay : {"unpaid", "partially_paid", "paid"}]
    /\ remote \in [status : StayStatus, total : Total]
    /\ change \in [Changes -> [status : ChangeStatus, base : Total, total : Total, paid : Nat]]
    /\ request \in [Requests -> Request]
    /\ attempt \in [Payments -> [status : AttemptStatus, req : Requests \cup {None}, amount : Nat]]
    /\ gate \in [Payments -> {"none", "ready", "charged", "refused"}]
    /\ visited \subseteq Requests
    /\ reviewed \in [Requests -> {"none", "checked", "verified"}]

\* What the guest really gave: charged at HyperPay or taken in cash, whatever the
\* site knows of it.
Given == Amount({p \in Payments : gate[p] = "charged" \/
                                  (attempt[p].status = "succeeded" /\ attempt[p].req = None)})

\* A guest is never asked for more or less than the balance: when a checkout is
\* claimed, its amount and what the guest really gave before make up the price of the
\* stay (create_request_checkout, docs/owner-payment-link-review.md).
CheckoutIsTheBalance ==
    [][\A p \in Payments :
         attempt[p].status = "none" /\ attempt'[p].status = "created"
            => attempt'[p].amount + Given = stay.total]_linksVars

\* The requests passed on the way from r: every set with r that no hop leaves.
Trail(r) ==
    {s \in Requests :
        \A S \in SUBSET Requests :
            /\ r \in S
            /\ \A q \in S : request[q].next # None => request[q].next \in S
            => s \in S}

\* Where the public URL of a request leads: to the end of the trail, in at most 20 hops and
\* over approved requests only.  A circle has no end (resolve_token).
Resolve(r) ==
    {o \in Trail(r) :
        /\ request[o].next = None
        /\ Cardinality(Trail(r)) <= 21
        /\ \A s \in Trail(r) \ {r} : request[s].approved}

\* Once a revision is open, every link that was ever issued or approved leads to it
\* (approve_preview: "then atomically switch URL targets").
LinksLeadToTheRevision ==
    \A o \in Requests :
        request[o].status = "open" /\ request[o].approved =>
            \A r \in Requests :
                (request[r].status # "none" /\ request[r].change = None) \/ request[r].approved
                    => Resolve(r) = {o}

\* A link is settled only by what pays for the stay as it is now: when one becomes paid,
\* all that the guest really gave is the price of the stay (complete_request_payment's
\* review of a late payment for a changed stay).
PaidCoversTheStay ==
    [][\A r \in Requests :
         request[r].status # "paid" /\ request'[r].status = "paid"
            => Given = stay.total]_linksVars

\* Whatever happens to the links, the bookkeeping goes its way (queue_payment_receipt is
\* called for paid links only).
ReceiptsImplemented == ReceiptsSpec
=============================================================================
