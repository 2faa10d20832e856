--------------------------- MODULE HyperPayRefunds ---------------------------
(***************************************************************************)
(* The refunds owed on one card payment: the RefundObligation rows of a    *)
(* reservation, their submission to HyperPay's back office, and what the   *)
(* owners do with them on the refund page.                                 *)
(*                                                                         *)
(* A step of a worker is one database transaction or one remote call; the  *)
(* page's handler reads the row first and writes it later, without a lock. *)
(* All the obligations are in SAR and refund the original payment; receipts *)
(* of money taken outside HyperPay and the loyalty plans are left out.     *)
(***************************************************************************)
EXTENDS Sums

CONSTANTS
    Refunds,      \* refund obligations that can be recorded for the reservation
    Workers,      \* web threads and Celery worker processes
    Charged,      \* the amount of the original card payment
    NoRefund      \* a worker without an obligation

ASSUME RefundsAssumption ==
    /\ IsFiniteSet(Refunds)
    /\ Charged \in Nat \ {0}
    /\ NoRefund \notin Refunds

VARIABLES
    row,       \* the obligation: status, amount, calculation["hyperpay_refund"]
    payment,   \* PaymentAttempt.status of the original payment
    returned,  \* the obligations for which HyperPay did return money
    held,      \* those with a request whose answer was not taken as a refusal
    asked,     \* history: the amount of that request; 0 without one
    overwritten,  \* history: an owner's page wrote a row that was no longer `due'
    pc, job,   \* a worker's next step, and its obligation
    memo,      \* the row as the worker read it
    got,       \* HyperPay's answer
    full       \* the confirmed total the worker read covers the payment

workerVars == <<pc, job, memo, got, full>>
history == <<asked, overwritten>>
vars == <<row, payment, returned, held, history, workerVars>>

-----------------------------------------------------------------------------
\* An owner may approve any amount: the form has no upper limit.
RefundAmount == 0 .. Charged + 1
RefundStatus == {"absent", "due", "processing", "transferred", "cancelled"}
\* hyperpay_refund["state"]; "none" while there is no such detail
GatewayState == {"none", "submitting", "unknown", "pending", "confirmed", "rejected"}
\* `tied': the detail names the original payment (original_payment_id)
Row == [status : RefundStatus, amount : RefundAmount, state : GatewayState, tied : BOOLEAN]
PaymentStatus == {"succeeded", "partially_refunded", "refunded"}
\* "unclear" is an answer that does not tell: a code that asks for review or is not
\* known, a body that is not JSON (the client gives up on it before it looks at a 5xx)
Answer == {"success", "pending", "denied", "unclear", "lost"}
Step == {"idle", "form", "send", "settle", "commit"}

NoRow == [status |-> "absent", amount |-> 0, state |-> "none", tied |-> FALSE]

Init ==
    /\ row = [r \in Refunds |-> NoRow]
    /\ payment = "succeeded"
    /\ returned = {} /\ held = {}
    /\ asked = [r \in Refunds |-> 0] /\ overwritten = FALSE
    /\ pc = [w \in Workers |-> "idle"]
    /\ job = [w \in Workers |-> NoRefund]
    /\ memo = [w \in Workers |-> NoRow]
    /\ got = [w \in Workers |-> "lost"]
    /\ full = [w \in Workers |-> FALSE]

End(w) ==
    /\ pc' = [pc EXCEPT ![w] = "idle"]
    /\ job' = [job EXCEPT ![w] = NoRefund]
    /\ memo' = [memo EXCEPT ![w] = NoRow]
    /\ got' = [got EXCEPT ![w] = "lost"]
    /\ full' = [full EXCEPT ![w] = FALSE]

\* The worker begins step s with the row of r, read as m.
Begin(w, s, r, m) ==
    /\ pc[w] = "idle"
    /\ pc' = [pc EXCEPT ![w] = s]
    /\ job' = [job EXCEPT ![w] = r]
    /\ memo' = [memo EXCEPT ![w] = m]
    /\ UNCHANGED <<got, full>>

\* What the obligations of a set come to.
Sum(rs) == SumOver([r \in Refunds |-> row[r].amount], rs)

-----------------------------------------------------------------------------
\* record_obligation, after a cancellation or a cheaper change.  The refundable
\* balance was computed earlier, in no transaction, and does not count what is
\* only due: any amount up to the payment is possible.
RecordObligation(r) ==
    /\ row[r].status = "absent"
    /\ \E a \in 1 .. Charged :
          row' = [row EXCEPT ![r] = [NoRow EXCEPT !.status = "due", !.amount = a]]
    /\ UNCHANGED <<payment, returned, held, history, workerVars>>

\* (mutant) only finished refunds count against the payment
PriorFinished(r) ==
    {q \in Refunds \ {r} : row[q].status = "transferred" /\ row[q].tied}

\* The earlier refunds that count against the payment: those that name it.
Prior(r) ==
    {q \in Refunds \ {r} : row[q].status \in {"processing", "transferred"} /\ row[q].tied}

\* HyperPayRefundService.submit, first transaction: the row and the payment are
\* locked, checked, and the submission is written before anything is sent.
Prepare(w, r) ==
    /\ row[r].status = "due" /\ row[r].amount > 0
    /\ payment \in {"succeeded", "partially_refunded"}
    /\ row[r].amount + Sum(Prior(r)) <= Charged
    /\ row' = [row EXCEPT ![r].status = "processing", ![r].state = "submitting",
                          ![r].tied = TRUE]
    /\ Begin(w, "send", r, row'[r])
    /\ UNCHANGED <<payment, returned, held, history>>

\* The request reaches HyperPay or not, and is answered or not.
Send(w) ==
    /\ pc[w] = "send"
    /\ held' = held \cup {job[w]}
    /\ asked' = [asked EXCEPT ![job[w]] = memo[w].amount]
    /\ \E a \in Answer :
          /\ got' = [got EXCEPT ![w] = a]
          /\ \/ returned' = returned \cup {job[w]}
             \/ returned' = returned /\ a # "success"
          /\ a = "denied" => returned' = returned
    /\ pc' = [pc EXCEPT ![w] = "settle"]
    /\ UNCHANGED <<row, payment, overwritten, job, memo, full>>

\* (mutant) an answer that never came is taken as a refusal
SettleLostAsDue(w) ==
    /\ pc[w] = "settle" /\ got[w] = "lost"
    /\ row' = [row EXCEPT ![job[w]].state = "unknown", ![job[w]].status = "due"]
    /\ End(w)
    /\ UNCHANGED <<payment, returned, held, history>>

\* _mark_unknown: the obligation stays `processing'.
SettleLost(w) ==
    /\ pc[w] = "settle" /\ got[w] = "lost"
    /\ row' = [row EXCEPT ![job[w]].state = "unknown"]
    /\ End(w)
    /\ UNCHANGED <<payment, returned, held, history>>

\* Accepted and pending: it stays `processing'; nothing asks HyperPay again.
SettlePending(w) ==
    /\ pc[w] = "settle" /\ got[w] = "pending"
    /\ row' = [row EXCEPT ![job[w]].state = "pending"]
    /\ End(w)
    /\ UNCHANGED <<payment, returned, held, history>>

\* (mutant) the refusal is written as the obligation's status
SettleDeniedAsStatus(w) ==
    /\ pc[w] = "settle" /\ got[w] \in {"denied", "unclear"}
    /\ row' = [row EXCEPT ![job[w]].status = "rejected"]
    /\ held' = held \ {job[w]}
    /\ asked' = [asked EXCEPT ![job[w]] = 0]
    /\ End(w)
    /\ UNCHANGED <<payment, returned, overwritten>>

\* _restore_due, and the last branch of _record_response: what is neither success
\* nor pending is a refusal.
SettleDenied(w) ==
    /\ pc[w] = "settle" /\ got[w] \in {"denied", "unclear"}
    /\ row' = [row EXCEPT ![job[w]].status = "due", ![job[w]].state = "rejected"]
    /\ held' = held \ {job[w]}
    /\ asked' = [asked EXCEPT ![job[w]] = 0]
    /\ End(w)
    /\ UNCHANGED <<payment, returned, overwritten>>

\* The finished refunds that name the payment, r's own among them.
Confirmed(r) == {q \in Refunds : (q = r \/ row[q].status = "transferred") /\ row[q].tied}

\* _record_response on success: inside the transaction that will finish the row
\* the total is read from what the others have committed ...
ReadTotal(w) ==
    /\ pc[w] = "settle" /\ got[w] = "success"
    /\ full' = [full EXCEPT ![w] = Sum(Confirmed(job[w])) >= Charged]
    /\ pc' = [pc EXCEPT ![w] = "commit"]
    /\ UNCHANGED <<row, payment, returned, held, history, job, memo, got>>

\* ... and the transaction commits.
Commit(w) ==
    /\ pc[w] = "commit"
    /\ row' = [row EXCEPT ![job[w]].status = "transferred", ![job[w]].state = "confirmed"]
    /\ payment' = IF full[w] THEN "refunded" ELSE "partially_refunded"
    /\ End(w)
    /\ UNCHANGED <<returned, held, history>>

-----------------------------------------------------------------------------
(* The refund page (refund_detail).                                        *)

\* The handler reads the obligation.
OpenForm(w, r) ==
    /\ row[r].status # "absent"
    /\ Begin(w, "form", r, row[r])
    /\ UNCHANGED <<row, payment, returned, held, history>>

\* A row that a transaction is about to finish is locked; the page's write waits.
Writable(w) == ~ \E v \in Workers : pc[v] = "commit" /\ job[v] = job[w]

\* The page ends with a write, whatever has become of the row since it was read:
\* neither a lock nor a comparison stands between the two.
SavePage(w) ==
    /\ overwritten' = (overwritten \/ row[job[w]].status # "due")
    /\ End(w)
    /\ UNCHANGED <<payment, returned, held, asked>>

\* The approved amount is written with the whole `calculation' as it was read.
ApproveAmount(w) ==
    /\ pc[w] = "form" /\ memo[w].status = "due" /\ Writable(w)
    /\ \E a \in RefundAmount :
          row' = [row EXCEPT ![job[w]].amount = a,
                             ![job[w]].state = memo[w].state, ![job[w]].tied = memo[w].tied]
    /\ SavePage(w)

\* A bank transfer an owner made is written down.
MarkTransferred(w) ==
    /\ pc[w] = "form" /\ memo[w].status = "due" /\ memo[w].amount > 0 /\ Writable(w)
    /\ row' = [row EXCEPT ![job[w]].status = "transferred"]
    /\ SavePage(w)

CloseWithoutTransfer(w) ==
    /\ pc[w] = "form" /\ memo[w].status = "due" /\ memo[w].amount = 0 /\ Writable(w)
    /\ row' = [row EXCEPT ![job[w]].status = "cancelled"]
    /\ SavePage(w)

\* The guest opens the payment's result page again: HyperPayService.verify only
\* leaves a `succeeded' attempt alone, and HyperPay still reports the charge.
VerifyAgain ==
    /\ payment # "succeeded"
    /\ payment' = "succeeded"
    /\ UNCHANGED <<row, returned, held, history, workerVars>>

\* A process dies, or the page refuses; an open transaction is rolled back.
Stop(w) ==
    /\ pc[w] # "idle"
    /\ End(w)
    /\ UNCHANGED <<row, payment, returned, held, history>>

-----------------------------------------------------------------------------
WorkerStep(w) ==
    \/ Send(w)
    \/ SettleLost(w) \/ SettlePending(w) \/ SettleDenied(w) \/ ReadTotal(w) \/ Commit(w)
    \/ ApproveAmount(w) \/ MarkTransferred(w) \/ CloseWithoutTransfer(w)
    \/ Stop(w)

Next ==
    \/ \E r \in Refunds : RecordObligation(r)
    \/ \E w \in Workers, r \in Refunds : Prepare(w, r) \/ OpenForm(w, r)
    \/ \E w \in Workers : WorkerStep(w)
    \/ VerifyAgain

Spec == Init /\ [][Next]_vars

-----------------------------------------------------------------------------
(* Properties.                                                             *)

TypeOK ==
    /\ row \in [Refunds -> Row]
    /\ payment \in PaymentStatus
    /\ returned \subseteq Refunds /\ held \subseteq Refunds
    /\ asked \in [Refunds -> RefundAmount] /\ overwritten \in BOOLEAN
    /\ pc \in [Workers -> Step]
    /\ job \in [Workers -> Refunds \cup {NoRefund}]
    /\ memo \in [Workers -> Row]
    /\ got \in [Workers -> Answer]
    /\ full \in [Workers -> BOOLEAN]

\* A refund whose request was lost, is pending, or whose process died after the
\* request was sent is not submitted again: it never comes back to `due', the only
\* status submit takes (_mark_unknown, _record_submission).
UncertainIsNotResent ==
    \A r \in held : row[r].status # "due"

\* What HyperPay was asked to return of the payment, and what the code did not take
\* for refused, is within the payment.  The code breaks this: an owner's page may write
\* back a `calculation' it read before a submission (refund_detail), and _prepare's sum
\* then misses that submission.
RefundsFitThePayment == SumOver(asked, held) <= Charged

\* As long as no owner's page has written a row that was no longer due, the same holds,
\* however many obligations are submitted at once and whatever their answers are, late
\* or lost (_prepare's sum under the payment's lock).
RefundsFitUnlessOverwritten == ~ overwritten => RefundsFitThePayment

\* A refund is only recorded as confirmed when HyperPay did return the money: not
\* while it is pending, and not when its answer was lost (_record_response).
ConfirmedIsReturned ==
    \A r \in Refunds : row[r].state = "confirmed" => r \in returned
=============================================================================
