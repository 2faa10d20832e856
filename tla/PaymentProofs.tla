----------------------------- MODULE PaymentProofs -----------------------------
(***************************************************************************)
(* Proofs about what guests pay and get back, for any number of payments,  *)
(* links, price changes, refunds and workers.  The refunds come first: an  *)
(* uncertain refund is not sent again, and refunds stay within their       *)
(* payment.  Then the receipts by themselves: a verified payment is booked *)
(* in Hostaway at most once.  Then the links with them: a guest is asked   *)
(* for the balance, and what closes a link is the price of the stay.  The  *)
(* refunds share no variable with the rest.                                *)
(***************************************************************************)
EXTENDS PaymentLinks, HyperPayRefunds, SumTheorems, TLAPS

-----------------------------------------------------------------------------
(* Refunds.                                                                *)

\* Between its submission and its outcome a request has its obligation for itself.
InFlight(w) == pc[w] \in {"send", "settle", "commit"}

Taken(r) == row[r].status \notin {"absent", "due"}

WorkerFacts ==
    \A w \in Workers :
        /\ pc[w] # "idle" => job[w] \in Refunds
        /\ InFlight(w) => Taken(job[w])
        /\ pc[w] = "commit" => job[w] \in returned
        /\ pc[w] = "settle" /\ got[w] = "success" => job[w] \in returned

Exclusive ==
    \A v, w \in Workers : InFlight(v) /\ InFlight(w) /\ job[v] = job[w] => v = w

HeldIsTaken == \A r \in held : Taken(r)

\* A page that read a row before it was submitted read no confirmation.
ConfirmationFacts ==
    /\ ConfirmedIsReturned
    /\ \A w \in Workers : pc[w] = "form" /\ memo[w].state = "confirmed" => job[w] \in returned

IInv == TypeOK /\ WorkerFacts /\ Exclusive /\ HeldIsTaken /\ ConfirmationFacts

USE RefundsAssumption

LEMMA NoRowTyped == NoRow \in Row
  BY DEF NoRow, Row, RefundStatus, RefundAmount, GatewayState

LEMMA InitInvariant == Init => IInv
<1> SUFFICES ASSUME Init PROVE IInv
  OBVIOUS
<1>1. asked \in [Refunds -> RefundAmount] /\ overwritten \in BOOLEAN
  <2>1. 0 \in RefundAmount
    BY DEF RefundAmount
  <2> QED BY <2>1 DEF Init
<1>2. TypeOK
  BY <1>1, NoRowTyped DEF Init, TypeOK, PaymentStatus, Step, Answer
<1> QED
  BY <1>2 DEF Init, IInv, WorkerFacts, Exclusive, HeldIsTaken, ConfirmationFacts,
      ConfirmedIsReturned, InFlight, NoRow

\* A worker's own variables.
WorkersTyped ==
    /\ pc \in [Workers -> Step] /\ job \in [Workers -> Refunds \cup {NoRefund}]
    /\ memo \in [Workers -> Row] /\ got \in [Workers -> Answer]
    /\ full \in [Workers -> BOOLEAN]

LEMMA EndTyped ==
    ASSUME WorkersTyped, NEW w \in Workers, End(w) PROVE WorkersTyped'
  BY NoRowTyped DEF WorkersTyped, End, Step, Answer

LEMMA BeginTyped ==
    ASSUME WorkersTyped, NEW w \in Workers, NEW s \in Step, NEW r \in Refunds, NEW m \in Row,
           Begin(w, s, r, m)
    PROVE  WorkersTyped'
  BY DEF WorkersTyped, Begin

\* Writing one column of an obligation.
LEMMA WriteTyped ==
    ASSUME NEW f \in [Refunds -> Row], NEW r \in Refunds
    PROVE  /\ \A s \in RefundStatus : [f EXCEPT ![r].status = s] \in [Refunds -> Row]
           /\ \A a \in RefundAmount : [f EXCEPT ![r].amount = a] \in [Refunds -> Row]
           /\ \A g \in GatewayState : [f EXCEPT ![r].state = g] \in [Refunds -> Row]
           /\ \A t \in BOOLEAN : [f EXCEPT ![r].tied = t] \in [Refunds -> Row]
  BY DEF Row

\* Submission, and outcomes.
LEMMA OutcomeTyped ==
    ASSUME row \in [Refunds -> Row], NEW r \in Refunds,
           NEW s \in RefundStatus, NEW g \in GatewayState
    PROVE  /\ [row EXCEPT ![r].status = s, ![r].state = g] \in [Refunds -> Row]
           /\ [row EXCEPT ![r].status = s, ![r].state = g, ![r].tied = TRUE] \in [Refunds -> Row]
<1>1. [row EXCEPT ![r].status = s] \in [Refunds -> Row]
  BY WriteTyped
<1>2. [row EXCEPT ![r].status = s, ![r].state = g] \in [Refunds -> Row]
  BY <1>1, WriteTyped
<1> QED
  BY <1>2, WriteTyped

-----------------------------------------------------------------------------
(* Types. *)

LEMMA TypePreserved == ASSUME IInv, [Next]_vars PROVE TypeOK'
<1>0. TypeOK /\ WorkerFacts /\ WorkersTyped
  BY DEF IInv, TypeOK, WorkersTyped
<1>1. ASSUME NEW r \in Refunds, RecordObligation(r) PROVE TypeOK'
  <2>1. PICK a \in 1 .. Charged :
          row' = [row EXCEPT ![r] = [NoRow EXCEPT !.status = "due", !.amount = a]]
    BY <1>1 DEF RecordObligation
  <2>2. a \in RefundAmount
    BY DEF RefundAmount
  <2>3. [NoRow EXCEPT !.status = "due", !.amount = a] \in Row
    BY <2>2 DEF NoRow, Row, RefundStatus, GatewayState
  <2> QED
    BY <1>0, <1>1, <2>1, <2>3 DEF RecordObligation, TypeOK, workerVars, history
<1>2. ASSUME NEW w \in Workers, NEW r \in Refunds, Prepare(w, r) PROVE TypeOK'
  <2>1. row' \in [Refunds -> Row]
    BY <1>0, <1>2, OutcomeTyped DEF Prepare, TypeOK, RefundStatus, GatewayState
  <2>2. WorkersTyped'
    BY <1>0, <1>2, <2>1, BeginTyped DEF Prepare, Step
  <2> QED
    BY <1>0, <1>2, <2>1, <2>2 DEF Prepare, TypeOK, WorkersTyped, history
<1>3. ASSUME NEW w \in Workers, NEW r \in Refunds, OpenForm(w, r) PROVE TypeOK'
  <2>1. WorkersTyped'
    BY <1>0, <1>3, BeginTyped DEF OpenForm, Step, TypeOK
  <2> QED
    BY <1>0, <1>3, <2>1 DEF OpenForm, TypeOK, WorkersTyped, history
<1>4. ASSUME NEW w \in Workers, Send(w) PROVE TypeOK'
  <2>1. asked' \in [Refunds -> RefundAmount]
    BY <1>0, <1>4 DEF Send, TypeOK, WorkerFacts, Row
  <2> QED
    BY <1>0, <1>4, <2>1 DEF Send, TypeOK, WorkerFacts, Step
<1>5. ASSUME NEW w \in Workers, ReadTotal(w) PROVE TypeOK'
  <2>1. full' \in [Workers -> BOOLEAN]
    BY <1>0, <1>5 DEF ReadTotal, TypeOK
  <2> QED
    BY <1>0, <1>5, <2>1 DEF ReadTotal, TypeOK, Step, history
<1>6. ASSUME NEW w \in Workers, job[w] \in Refunds, End(w), payment' \in PaymentStatus,
             returned' = returned, held' \subseteq held, row' \in [Refunds -> Row],
             asked' \in [Refunds -> RefundAmount], overwritten' \in BOOLEAN
      PROVE  TypeOK'
  BY <1>0, <1>6, EndTyped DEF TypeOK, WorkersTyped
<1>7. ASSUME NEW w \in Workers, SettleLost(w) PROVE TypeOK'
  BY <1>0, <1>6, <1>7 DEF SettleLost, TypeOK, WorkerFacts, Row, GatewayState, history
<1>8. ASSUME NEW w \in Workers, SettlePending(w) PROVE TypeOK'
  BY <1>0, <1>6, <1>8 DEF SettlePending, TypeOK, WorkerFacts, Row, GatewayState, history
<1>9. ASSUME NEW w \in Workers, SettleDenied(w) PROVE TypeOK'
  <2>1. job[w] \in Refunds
    BY <1>0, <1>9 DEF SettleDenied, WorkerFacts
  <2>2. [row EXCEPT ![job[w]].status = "due", ![job[w]].state = "rejected"] \in [Refunds -> Row]
    BY <1>0, <2>1, OutcomeTyped DEF TypeOK, GatewayState, RefundStatus
  <2>3. asked' \in [Refunds -> RefundAmount]
    <3>1. 0 \in RefundAmount
      BY DEF RefundAmount
    <3> QED
      BY <1>0, <1>9, <3>1 DEF SettleDenied, TypeOK
  <2> QED
    BY <1>0, <1>6, <1>9, <2>1, <2>2, <2>3 DEF SettleDenied, TypeOK
<1>10. ASSUME NEW w \in Workers, Commit(w) PROVE TypeOK'
  <2>1. payment' \in PaymentStatus
    BY <1>10 DEF Commit, PaymentStatus
  <2>2. job[w] \in Refunds
    BY <1>0, <1>10 DEF Commit, WorkerFacts
  <2>3. [row EXCEPT ![job[w]].status = "transferred", ![job[w]].state = "confirmed"]
            \in [Refunds -> Row]
    BY <1>0, <2>2, OutcomeTyped DEF TypeOK, GatewayState, RefundStatus
  <2> QED
    BY <1>0, <1>6, <1>10, <2>1, <2>2, <2>3 DEF Commit, TypeOK, history
<1>11. ASSUME NEW w \in Workers, ApproveAmount(w) PROVE TypeOK'
  <2>1. job[w] \in Refunds /\ memo[w] \in Row
    BY <1>0, <1>11 DEF ApproveAmount, WorkerFacts, TypeOK
  <2>2. PICK a \in RefundAmount :
          row' = [row EXCEPT ![job[w]].amount = a,
                             ![job[w]].state = memo[w].state, ![job[w]].tied = memo[w].tied]
    BY <1>11 DEF ApproveAmount
  <2>3. row' \in [Refunds -> Row]
    BY <1>0, <2>1, <2>2 DEF TypeOK, Row
  <2> QED
    BY <1>0, <1>6, <1>11, <2>1, <2>3 DEF ApproveAmount, SavePage, TypeOK
<1>12. ASSUME NEW w \in Workers, MarkTransferred(w) PROVE TypeOK'
  BY <1>0, <1>6, <1>12 DEF MarkTransferred, SavePage, TypeOK, WorkerFacts, Row, RefundStatus
<1>13. ASSUME NEW w \in Workers, CloseWithoutTransfer(w) PROVE TypeOK'
  BY <1>0, <1>6, <1>13 DEF CloseWithoutTransfer, SavePage, TypeOK, WorkerFacts, Row, RefundStatus
<1>14. ASSUME NEW w \in Workers, Stop(w) PROVE TypeOK'
  BY <1>0, <1>6, <1>14 DEF Stop, TypeOK, WorkerFacts, history
<1>15. CASE VerifyAgain
  BY <1>0, <1>15 DEF VerifyAgain, TypeOK, workerVars, history, PaymentStatus
<1>16. CASE UNCHANGED vars
  BY <1>0, <1>16 DEF vars, workerVars, history, TypeOK
<1> QED
  BY <1>1, <1>2, <1>3, <1>4, <1>5, <1>7, <1>8, <1>9, <1>10, <1>11, <1>12, <1>13, <1>14,
     <1>15, <1>16 DEF Next, WorkerStep

-----------------------------------------------------------------------------
(* Requests, their obligations and what HyperPay did. *)

Facts == WorkerFacts /\ Exclusive /\ HeldIsTaken /\ ConfirmationFacts

\* A new request, or a page that reads the row.
LEMMA BeginKeeps ==
    ASSUME IInv, NEW w \in Workers, NEW r \in Refunds, NEW s \in {"form", "send"}, NEW m,
           Begin(w, s, r, m), held' = held, returned' = returned,
           \A q \in Refunds \ {r} : row'[q] = row[q],
           Taken(r) => row'[r] = row[r],
           s = "send" => ~ Taken(r) /\ Taken(r)',
           row'[r].state = "confirmed" \/ m.state = "confirmed" => row[r].state = "confirmed"
    PROVE  Facts'
<1>1. pc[w] = "idle" /\ pc' = [pc EXCEPT ![w] = s] /\ job' = [job EXCEPT ![w] = r]
      /\ memo' = [memo EXCEPT ![w] = m] /\ got' = got
  BY DEF Begin
<1>2. \A q \in Refunds : Taken(q) => Taken(q)'
  BY DEF Taken
<1>3. WorkerFacts'
  BY <1>1, <1>2 DEF IInv, TypeOK, WorkerFacts, InFlight
<1>4. Exclusive'
  <2> SUFFICES ASSUME NEW u \in Workers, NEW v \in Workers, u # v,
                      InFlight(u)', InFlight(v)', job'[u] = job'[v]
               PROVE  FALSE
    BY DEF Exclusive
  <2>1. CASE u # w /\ v # w
    BY <1>1, <2>1 DEF IInv, TypeOK, Exclusive, InFlight
  <2>2. CASE u = w
    BY <1>1, <2>2 DEF IInv, TypeOK, WorkerFacts, InFlight
  <2>3. CASE v = w
    BY <1>1, <2>3 DEF IInv, TypeOK, WorkerFacts, InFlight
  <2> QED
    BY <2>1, <2>2, <2>3
<1>5. HeldIsTaken'
  BY <1>2 DEF IInv, TypeOK, HeldIsTaken
<1>6. ConfirmationFacts'
  BY <1>1 DEF IInv, TypeOK, ConfirmationFacts, ConfirmedIsReturned
<1> QED
  BY <1>3, <1>4, <1>5, <1>6 DEF Facts

\* A worker that ends and writes nothing but its own obligation's row.
LEMMA EndKeeps ==
    ASSUME IInv, NEW w \in Workers, pc[w] # "idle", End(w),
           held' \subseteq held, returned' = returned,
           \A q \in Refunds \ {job[w]} : row'[q] = row[q],
           row'[job[w]].status \notin {"absent", "due"} \/ (InFlight(w) /\ job[w] \notin held')
               \/ row'[job[w]].status = row[job[w]].status,
           row'[job[w]].state = "confirmed" => job[w] \in returned
    PROVE  Facts'
<1>0. job[w] \in Refunds
  BY DEF IInv, WorkerFacts
<1>1. pc' = [pc EXCEPT ![w] = "idle"] /\ job' = [job EXCEPT ![w] = NoRefund]
      /\ memo' = [memo EXCEPT ![w] = NoRow] /\ got' = [got EXCEPT ![w] = "lost"]
  BY DEF End
<1>2. \A q \in Refunds \ {job[w]} : Taken(q)' = Taken(q)
  BY DEF Taken
<1>3. \A v \in Workers : v # w /\ InFlight(v) => row'[job[v]].status \notin {"absent", "due"}
  <2> SUFFICES ASSUME NEW v \in Workers, v # w, InFlight(v)
               PROVE  row'[job[v]].status \notin {"absent", "due"}
    OBVIOUS
  <2>1. job[v] \in Refunds /\ Taken(job[v])
    BY DEF IInv, WorkerFacts, InFlight
  <2>2. CASE job[v] # job[w]
    BY <2>1, <2>2 DEF Taken
  <2>3. CASE job[v] = job[w]
    BY <2>1, <2>3 DEF IInv, Exclusive, Taken
  <2> QED
    BY <2>2, <2>3
<1>4. WorkerFacts'
  BY <1>1, <1>3 DEF IInv, TypeOK, WorkerFacts, InFlight, Taken
<1>5. Exclusive'
  BY <1>1 DEF IInv, TypeOK, Exclusive, InFlight
<1>6. HeldIsTaken'
  BY <1>0, <1>2 DEF IInv, TypeOK, HeldIsTaken, Taken
<1>7. ConfirmationFacts'
  BY <1>0, <1>1 DEF IInv, TypeOK, ConfirmationFacts, ConfirmedIsReturned
<1> QED
  BY <1>4, <1>5, <1>6, <1>7 DEF Facts

LEMMA FactsPreserved == ASSUME IInv, [Next]_vars PROVE Facts'
<1>0. TypeOK /\ WorkerFacts /\ HeldIsTaken /\ ConfirmationFacts /\ Exclusive
  BY DEF IInv
<1>1. ASSUME NEW r \in Refunds, RecordObligation(r) PROVE Facts'
  <2>1. \A q \in Refunds : Taken(q) => row'[q] = row[q]
    BY <1>0, <1>1 DEF RecordObligation, Taken, TypeOK
  <2>2. \A q \in Refunds : row'[q].state = "confirmed" => row[q].state = "confirmed"
    BY <1>0, <1>1 DEF RecordObligation, TypeOK, NoRow
  <2> QED
    BY <1>0, <1>1, <2>1, <2>2
    DEF RecordObligation, workerVars, Facts, TypeOK, WorkerFacts, InFlight, Exclusive,
        HeldIsTaken, ConfirmationFacts, ConfirmedIsReturned, Taken
<1>2. ASSUME NEW w \in Workers, NEW r \in Refunds, Prepare(w, r) PROVE Facts'
  <2>1. row' = [row EXCEPT ![r].status = "processing", ![r].state = "submitting",
                           ![r].tied = TRUE]
        /\ row[r].status = "due" /\ Begin(w, "send", r, row'[r])
        /\ held' = held /\ returned' = returned
    BY <1>2 DEF Prepare
  <2>2. row'[r].status = "processing" /\ row'[r].state = "submitting"
    BY <1>0, <2>1 DEF TypeOK, Row
  <2>3. \A q \in Refunds \ {r} : row'[q] = row[q]
    BY <1>0, <2>1 DEF TypeOK
  <2>4. ~ Taken(r) /\ Taken(r)'
    BY <2>1, <2>2 DEF Taken
  <2> QED
    BY <2>1, <2>2, <2>3, <2>4, BeginKeeps
<1>3. ASSUME NEW w \in Workers, NEW r \in Refunds, OpenForm(w, r) PROVE Facts'
  BY <1>3, BeginKeeps DEF OpenForm
<1>4. ASSUME NEW w \in Workers, Send(w) PROVE Facts'
  <2>0. PICK a \in Answer : /\ got' = [got EXCEPT ![w] = a]
                            /\ \/ returned' = returned \cup {job[w]}
                               \/ returned' = returned /\ a # "success"
    BY <1>4 DEF Send
  <2>1. pc[w] = "send" /\ pc' = [pc EXCEPT ![w] = "settle"] /\ UNCHANGED <<row, job, memo>>
        /\ held' = held \cup {job[w]}
    BY <1>4 DEF Send
  <2>2. WorkerFacts'
    BY <1>0, <2>0, <2>1 DEF TypeOK, WorkerFacts, InFlight, Taken
  <2>3. Exclusive'
    BY <1>0, <2>1 DEF TypeOK, Exclusive, InFlight
  <2>4. HeldIsTaken'
    BY <1>0, <2>1 DEF HeldIsTaken, WorkerFacts, InFlight, Taken
  <2>5. ConfirmationFacts'
    BY <1>0, <2>0, <2>1 DEF TypeOK, ConfirmationFacts, ConfirmedIsReturned
  <2> QED
    BY <2>2, <2>3, <2>4, <2>5 DEF Facts
<1>5. ASSUME NEW w \in Workers, ReadTotal(w) PROVE Facts'
  <2>1. pc[w] = "settle" /\ got[w] = "success" /\ pc' = [pc EXCEPT ![w] = "commit"]
        /\ UNCHANGED <<row, returned, held, job, memo, got>>
    BY <1>5 DEF ReadTotal
  <2> QED
    BY <1>0, <2>1
    DEF Facts, TypeOK, WorkerFacts, InFlight, Exclusive, HeldIsTaken, ConfirmationFacts,
        ConfirmedIsReturned, Taken
<1>6. ASSUME NEW w \in Workers, SettleLost(w) PROVE Facts'
  BY <1>0, <1>6, EndKeeps DEF SettleLost, TypeOK, Row, WorkerFacts
<1>7. ASSUME NEW w \in Workers, SettlePending(w) PROVE Facts'
  BY <1>0, <1>7, EndKeeps DEF SettlePending, TypeOK, Row, WorkerFacts
<1>8. ASSUME NEW w \in Workers, SettleDenied(w) PROVE Facts'
  <2>1. job[w] \in Refunds /\ InFlight(w)
    BY <1>0, <1>8 DEF SettleDenied, WorkerFacts, InFlight
  <2>2. row'[job[w]].state = "rejected" /\ \A q \in Refunds \ {job[w]} : row'[q] = row[q]
    BY <1>0, <1>8, <2>1 DEF SettleDenied, TypeOK, Row
  <2> QED
    BY <1>8, <2>1, <2>2, EndKeeps DEF SettleDenied
<1>9. ASSUME NEW w \in Workers, Commit(w) PROVE Facts'
  <2>1. job[w] \in Refunds /\ job[w] \in returned
    BY <1>0, <1>9 DEF Commit, WorkerFacts
  <2>2. row'[job[w]].status = "transferred" /\ \A q \in Refunds \ {job[w]} : row'[q] = row[q]
    BY <1>0, <1>9, <2>1 DEF Commit, TypeOK, Row
  <2> QED
    BY <1>9, <2>1, <2>2, EndKeeps DEF Commit, Taken
<1>10. ASSUME NEW w \in Workers, ApproveAmount(w) PROVE Facts'
  <2>1. job[w] \in Refunds /\ (memo[w].state = "confirmed" => job[w] \in returned)
    BY <1>0, <1>10 DEF ApproveAmount, WorkerFacts, ConfirmationFacts
  <2>2. /\ row'[job[w]].status = row[job[w]].status
        /\ row'[job[w]].state = memo[w].state
        /\ \A q \in Refunds \ {job[w]} : row'[q] = row[q]
    BY <1>0, <1>10, <2>1 DEF ApproveAmount, TypeOK, Row
  <2> QED
    BY <1>10, <2>1, <2>2, EndKeeps DEF ApproveAmount, SavePage
<1>11. ASSUME NEW w \in Workers, MarkTransferred(w) PROVE Facts'
  <2>1. job[w] \in Refunds
    BY <1>0, <1>11 DEF MarkTransferred, WorkerFacts
  <2>2. /\ row'[job[w]].status = "transferred"
        /\ row'[job[w]].state = row[job[w]].state
        /\ \A q \in Refunds \ {job[w]} : row'[q] = row[q]
    BY <1>0, <1>11, <2>1 DEF MarkTransferred, TypeOK, Row
  <2> QED
    BY <1>0, <1>11, <2>1, <2>2, EndKeeps
    DEF MarkTransferred, SavePage, Taken, ConfirmationFacts, ConfirmedIsReturned
<1>12. ASSUME NEW w \in Workers, CloseWithoutTransfer(w) PROVE Facts'
  <2>1. job[w] \in Refunds
    BY <1>0, <1>12 DEF CloseWithoutTransfer, WorkerFacts
  <2>2. /\ row'[job[w]].status = "cancelled"
        /\ row'[job[w]].state = row[job[w]].state
        /\ \A q \in Refunds \ {job[w]} : row'[q] = row[q]
    BY <1>0, <1>12, <2>1 DEF CloseWithoutTransfer, TypeOK, Row
  <2> QED
    BY <1>0, <1>12, <2>1, <2>2, EndKeeps
    DEF CloseWithoutTransfer, SavePage, Taken, ConfirmationFacts, ConfirmedIsReturned
<1>13. ASSUME NEW w \in Workers, Stop(w) PROVE Facts'
  BY <1>0, <1>13, EndKeeps DEF Stop, WorkerFacts, ConfirmationFacts, ConfirmedIsReturned
<1>14. ASSUME UNCHANGED <<row, returned, held, workerVars>> PROVE Facts'
  BY <1>0, <1>14
  DEF workerVars, Facts, WorkerFacts, InFlight, Exclusive, HeldIsTaken, ConfirmationFacts,
      ConfirmedIsReturned, Taken
<1> QED
  BY <1>1, <1>2, <1>3, <1>4, <1>5, <1>6, <1>7, <1>8, <1>9, <1>10, <1>11, <1>12, <1>13,
     <1>14 DEF Next, WorkerStep, VerifyAgain, vars

-----------------------------------------------------------------------------
(* The theorems. *)

\* Every reachable state satisfies the inductive invariant.
THEOREM Invariant == Spec => []IInv
<1>1. IInv /\ [Next]_vars => IInv'
  BY TypePreserved, FactsPreserved DEF IInv, Facts
<1> QED
  BY <1>1, InitInvariant, PTL DEF Spec

\* The columns of an obligation and a worker's step only ever hold the values the
\* code gives them.
THEOREM TypeCorrect == Spec => []TypeOK
  BY Invariant, PTL DEF IInv

\* A refund whose request was sent and not refused never comes back to `due', the
\* only status _prepare takes: it is not submitted a second time.
THEOREM UncertainNotResent == Spec => []UncertainIsNotResent
<1>1. IInv => UncertainIsNotResent
  BY DEF IInv, HeldIsTaken, Taken, UncertainIsNotResent
<1> QED
  BY <1>1, Invariant, PTL

\* A refund is only confirmed when HyperPay did return the money, even when an
\* owner's page writes back a detail it read before (_record_response).
THEOREM ConfirmedReturned == Spec => []ConfirmedIsReturned
<1>1. IInv => ConfirmedIsReturned
  BY DEF IInv, ConfirmationFacts
<1> QED
  BY <1>1, Invariant, PTL

-----------------------------------------------------------------------------
(* The card refunds and the payment, until an owner's page writes late.    *)

Ledger == {r \in Refunds : row[r].tied /\
                (row[r].status = "processing" \/ row[r].state = "confirmed")}
RefundAmounts == [r \in Refunds |-> row[r].amount]

\* What is in progress and what is confirmed.
LedgerWithinPayment == SumOver(RefundAmounts, Ledger) <= Charged

\* What HyperPay was asked for is in the ledger, and so is what it is about to be asked for.
AskedFacts ==
    /\ \A r \in held : r \in Ledger /\ asked[r] = row[r].amount
    /\ \A w \in Workers : pc[w] = "send" => memo[w].amount = row[job[w]].amount

\* A page that read a row that was due read no confirmation in it.
DueIsOpen(w) == pc[w] = "form" /\ memo[w].status = "due" => memo[w].state # "confirmed"

\* What is confirmed was transferred, what is in flight is in the ledger, and the ledger
\* does not exceed the payment.
LedgerInv ==
    /\ \A r \in Refunds : row[r].state = "confirmed" => row[r].status = "transferred"
    /\ \A w \in Workers : InFlight(w) => row[job[w]].status = "processing" /\ row[job[w]].tied
    /\ LedgerWithinPayment
    /\ AskedFacts
    /\ \A w \in Workers : DueIsOpen(w)

LEMMA LedgerFinite == IsFiniteSet(Ledger) /\ IsFiniteSet(Ledger')
  BY FS_Subset DEF Ledger

\* The ledger does not grow when no refund enters it and none in it changes its amount.
LEMMA LedgerShrinks ==
    ASSUME TypeOK, TypeOK', LedgerWithinPayment,
           \A r \in Refunds : r \in Ledger' => r \in Ledger /\ row'[r].amount = row[r].amount
    PROVE  LedgerWithinPayment'
<1>1. Ledger' \subseteq Ledger
  BY DEF Ledger
<1>2. \A r \in Refunds : RefundAmounts[r] \in Nat /\ RefundAmounts'[r] \in Nat
  BY DEF TypeOK, Row, RefundAmount, RefundAmounts
<1>3. \A r \in Ledger' : RefundAmounts'[r] \in Nat /\ RefundAmounts'[r] <= RefundAmounts[r]
  BY <1>2 DEF Ledger, RefundAmounts
<1>4. \A r \in Ledger : RefundAmounts[r] \in Nat
  BY <1>2 DEF Ledger
<1>5. SumOver(RefundAmounts', Ledger') <= SumOver(RefundAmounts, Ledger)
  BY <1>1, <1>3, <1>4, LedgerFinite, SumMonotone
<1>6. SumOver(RefundAmounts, Ledger) \in Nat /\ SumOver(RefundAmounts', Ledger') \in Nat
  BY <1>3, <1>4, LedgerFinite, SumNat
<1>7. SumOver(RefundAmounts, Ledger) <= Charged
  BY DEF LedgerWithinPayment
<1>8. SumOver(RefundAmounts', Ledger') <= Charged
  BY <1>5, <1>6, <1>7
<1> QED
  BY <1>8 DEF LedgerWithinPayment

\* A submission enters the ledger with what is left of the payment.
LEMMA PrepareWithin ==
    ASSUME TypeOK, TypeOK', LedgerInv, NEW w \in Workers, NEW r \in Refunds, Prepare(w, r)
    PROVE  LedgerWithinPayment'
<1>1. /\ \A q \in Refunds \ {r} : row'[q] = row[q]
      /\ row'[r].amount = row[r].amount
  BY DEF Prepare, TypeOK, Row
<1>2. Ledger' \subseteq Prior(r) \cup {r}
  BY <1>1 DEF Ledger, Prior, LedgerInv
<1>3. RefundAmounts' = RefundAmounts
  BY <1>1 DEF RefundAmounts
<1>4. \A q \in Refunds : RefundAmounts[q] \in Nat
  BY DEF TypeOK, Row, RefundAmount, RefundAmounts
<1>5. IsFiniteSet(Prior(r)) /\ IsFiniteSet(Prior(r) \cup {r}) /\ r \notin Prior(r)
      /\ Prior(r) \subseteq Refunds
  BY FS_Subset DEF Prior
<1>6. SumOver(RefundAmounts, Prior(r) \cup {r})
        = SumOver(RefundAmounts, Prior(r)) + RefundAmounts[r]
  BY <1>4, <1>5, SumWith
<1>7. SumOver(RefundAmounts, Ledger') <= SumOver(RefundAmounts, Prior(r) \cup {r})
  <2>1. \A q \in Prior(r) \cup {r} : RefundAmounts[q] \in Nat
    BY <1>4, <1>5
  <2>2. \A q \in Ledger' : RefundAmounts[q] \in Nat /\ RefundAmounts[q] <= RefundAmounts[q]
    BY <1>2, <2>1
  <2> QED
    BY <1>2, <1>5, <2>1, <2>2, SumMonotone
<1>8. SumOver(RefundAmounts, Prior(r)) + RefundAmounts[r] <= Charged
  <2>1. row[r].amount + SumOver(RefundAmounts, Prior(r)) <= Charged
    BY DEF Prepare, Sum, RefundAmounts
  <2>2. RefundAmounts[r] = row[r].amount
    BY DEF RefundAmounts
  <2>3. RefundAmounts[r] \in Nat /\ SumOver(RefundAmounts, Prior(r)) \in Nat
    BY <1>4, <1>5, SumNat
  <2> QED
    BY <2>1, <2>2, <2>3
<1>9. SumOver(RefundAmounts, Ledger') \in Nat /\ SumOver(RefundAmounts, Prior(r) \cup {r}) \in Nat
  <2>1. \A q \in Ledger' : RefundAmounts[q] \in Nat
    BY <1>4 DEF Ledger
  <2> QED
    BY <1>4, <1>5, <2>1, LedgerFinite, SumNat
<1>10. SumOver(RefundAmounts', Ledger') <= Charged
  BY <1>3, <1>6, <1>7, <1>8, <1>9
<1> QED
  BY <1>10 DEF LedgerWithinPayment

\* A worker that ends, and leaves in the ledger what was there.
LEMMA EndWithin ==
    ASSUME IInv, TypeOK', LedgerInv, NEW w \in Workers, End(w), job[w] \in Refunds,
           \A q \in Refunds \ {job[w]} : row'[q] = row[q],
           row'[job[w]].state = "confirmed" => row'[job[w]].status = "transferred",
           row'[job[w]] = row[job[w]] \/ InFlight(w) \/ ~ Taken(job[w]),
           job[w] \in Ledger' => job[w] \in Ledger /\ row'[job[w]].amount = row[job[w]].amount,
           held' \subseteq held, \A r \in held' : asked'[r] = asked[r],
           job[w] \in held' => job[w] \in Ledger'
    PROVE  LedgerInv'
<1>1. LedgerWithinPayment'
  <2>1. \A r \in Refunds : r \in Ledger' => r \in Ledger /\ row'[r].amount = row[r].amount
    BY DEF Ledger
  <2> QED
    BY <2>1, LedgerShrinks DEF IInv, LedgerInv
<1>2. \A r \in Refunds : row'[r].state = "confirmed" => row'[r].status = "transferred"
  BY DEF LedgerInv
<1>3. ASSUME NEW v \in Workers, InFlight(v)'
      PROVE  row'[job'[v]].status = "processing" /\ row'[job'[v]].tied
  <2>1. v # w /\ InFlight(v) /\ job'[v] = job[v]
    BY <1>3 DEF End, InFlight, IInv, TypeOK
  <2>2. job[v] \in Refunds /\ Taken(job[v])
    BY <2>1 DEF IInv, WorkerFacts, InFlight
  <2>3. row'[job[v]] = row[job[v]]
    BY <2>1, <2>2 DEF IInv, Exclusive
  <2> QED
    BY <2>1, <2>3 DEF LedgerInv
<1>4. \A r \in held' : r \in Ledger' /\ asked'[r] = row'[r].amount
  <2>1. \A r \in held' : r \in Refunds /\ r \in Ledger /\ asked[r] = row[r].amount
    BY DEF LedgerInv, AskedFacts, Ledger
  <2>2. \A r \in held' \ {job[w]} : r \in Ledger'
    BY <2>1 DEF Ledger
  <2> QED
    BY <2>1, <2>2
<1>5. ASSUME NEW v \in Workers, pc'[v] = "send" PROVE memo'[v].amount = row'[job'[v]].amount
  <2>1. v # w /\ pc[v] = "send" /\ job'[v] = job[v] /\ memo'[v] = memo[v]
    BY <1>5 DEF End, IInv, TypeOK
  <2>2. job[v] \in Refunds /\ Taken(job[v]) /\ InFlight(v)
    BY <2>1 DEF IInv, WorkerFacts, InFlight
  <2>3. row'[job[v]] = row[job[v]]
    BY <2>1, <2>2 DEF IInv, Exclusive
  <2> QED
    BY <2>1, <2>3 DEF LedgerInv, AskedFacts
<1>6. ASSUME NEW v \in Workers PROVE DueIsOpen(v)'
  <2>1. CASE v = w
    BY <2>1 DEF End, IInv, TypeOK, DueIsOpen
  <2>2. CASE v # w
    BY <2>2 DEF End, IInv, TypeOK, DueIsOpen, LedgerInv
  <2> QED
    BY <2>1, <2>2
<1> QED
  BY <1>1, <1>2, <1>3, <1>4, <1>5, <1>6 DEF LedgerInv, AskedFacts

\* A step that writes no row, and begins or ends nothing but requests not yet sent.
LEMMA LedgerSame ==
    ASSUME LedgerInv, row' = row, held' = held, asked' = asked,
           \A v \in Workers : InFlight(v)' => InFlight(v) /\ job'[v] = job[v],
           \A v \in Workers : pc'[v] = "send" => pc[v] = "send" /\ memo'[v] = memo[v],
           \A v \in Workers : DueIsOpen(v)'
    PROVE  LedgerInv'
<1>1. Ledger' = Ledger /\ RefundAmounts' = RefundAmounts
  BY DEF Ledger, RefundAmounts
<1>2. AskedFacts'
  <2>1. \A v \in Workers : pc'[v] = "send" => job'[v] = job[v]
    BY DEF InFlight
  <2> QED
    BY <1>1, <2>1 DEF LedgerInv, AskedFacts
<1> QED
  BY <1>1, <1>2 DEF LedgerInv, LedgerWithinPayment

LEMMA LedgerPreserved ==
    ASSUME IInv, TypeOK', LedgerInv, ~ overwritten', [Next]_vars
    PROVE  LedgerInv'
<1>0. TypeOK /\ WorkerFacts /\ HeldIsTaken
  BY DEF IInv
<1>1. ASSUME NEW r \in Refunds, RecordObligation(r) PROVE LedgerInv'
  <2>1. /\ row'[r].state = "none" /\ row'[r].status = "due"
        /\ \A q \in Refunds \ {r} : row'[q] = row[q]
    BY <1>0, <1>1 DEF RecordObligation, TypeOK, NoRow
  <2>2. UNCHANGED <<workerVars, held, asked>> /\ ~ Taken(r)
        /\ \A w \in Workers : InFlight(w) => job[w] # r
    BY <1>0, <1>1 DEF RecordObligation, WorkerFacts, Taken, history
  <2>3. \A q \in Refunds : q \in Ledger' => q \in Ledger /\ row'[q].amount = row[q].amount
    BY <2>1 DEF Ledger
  <2>4. LedgerWithinPayment'
    BY <1>0, <2>3, LedgerShrinks DEF LedgerInv
  <2>5. AskedFacts'
    <3>1. \A q \in held : q \in Refunds \ {r} /\ q \in Ledger' /\ asked[q] = row'[q].amount
      BY <1>0, <2>1, <2>2 DEF LedgerInv, AskedFacts, HeldIsTaken, Ledger, TypeOK
    <3>2. \A w \in Workers : pc[w] = "send" => job[w] \in Refunds \ {r}
      BY <1>0, <2>2 DEF WorkerFacts, InFlight
    <3> QED
      BY <2>1, <2>2, <3>1, <3>2 DEF LedgerInv, AskedFacts, workerVars
  <2> QED
    BY <1>0, <2>1, <2>2, <2>4, <2>5 DEF LedgerInv, DueIsOpen, workerVars, InFlight, WorkerFacts
<1>2. ASSUME NEW w \in Workers, NEW r \in Refunds, Prepare(w, r) PROVE LedgerInv'
  <2>1. LedgerWithinPayment'
    BY <1>0, <1>2, PrepareWithin
  <2>2. /\ row'[r].status = "processing" /\ row'[r].state = "submitting" /\ row'[r].tied
        /\ \A q \in Refunds \ {r} : row'[q] = row[q]
    BY <1>0, <1>2 DEF Prepare, TypeOK, Row
  <2>3. \A v \in Workers : InFlight(v)' =>
            \/ v = w /\ job'[v] = r
            \/ v # w /\ InFlight(v) /\ job'[v] = job[v]
    BY <1>0, <1>2 DEF Prepare, Begin, InFlight, TypeOK
  <2>4. \A v \in Workers : InFlight(v) => job[v] # r /\ job[v] \in Refunds
    BY <1>0, <1>2 DEF Prepare, WorkerFacts, Taken, InFlight
  <2>5. \A q \in held' : q \in Ledger' /\ asked'[q] = row'[q].amount
    <3>1. held' = held /\ asked' = asked /\ r \notin held
      BY <1>0, <1>2 DEF Prepare, history, HeldIsTaken, Taken
    <3> QED
      BY <2>2, <3>1 DEF LedgerInv, AskedFacts, Ledger
  <2>6. ASSUME NEW v \in Workers, pc'[v] = "send" PROVE memo'[v].amount = row'[job'[v]].amount
    <3>1. CASE v = w
      BY <1>0, <1>2, <3>1 DEF Prepare, Begin, TypeOK
    <3>2. CASE v # w
      <4>1. pc[v] = "send" /\ InFlight(v) /\ memo'[v] = memo[v] /\ job'[v] = job[v]
        BY <1>0, <1>2, <2>6, <3>2 DEF Prepare, Begin, TypeOK, InFlight
      <4> QED
        BY <2>2, <2>4, <4>1 DEF LedgerInv, AskedFacts
    <3> QED
      BY <3>1, <3>2
  <2>7. \A v \in Workers : DueIsOpen(v)'
    BY <1>0, <1>2 DEF Prepare, Begin, TypeOK, DueIsOpen, LedgerInv
  <2> QED
    BY <2>1, <2>2, <2>3, <2>4, <2>5, <2>6, <2>7 DEF LedgerInv, AskedFacts
<1>3. ASSUME NEW w \in Workers, NEW r \in Refunds, OpenForm(w, r) PROVE LedgerInv'
  <2>1. \A v \in Workers : DueIsOpen(v)'
    BY <1>0, <1>3 DEF OpenForm, Begin, TypeOK, DueIsOpen, LedgerInv
  <2> QED
    BY <1>0, <1>3, <2>1, LedgerSame DEF OpenForm, Begin, InFlight, TypeOK, history
<1>4. ASSUME NEW w \in Workers, ReadTotal(w) PROVE LedgerInv'
  <2>1. \A v \in Workers : DueIsOpen(v)'
    BY <1>0, <1>4 DEF ReadTotal, TypeOK, DueIsOpen, LedgerInv
  <2> QED
    BY <1>0, <1>4, <2>1, LedgerSame DEF ReadTotal, InFlight, TypeOK, history
<1>9. ASSUME NEW w \in Workers, Send(w) PROVE LedgerInv'
  <2>1. /\ row' = row /\ job' = job /\ memo' = memo /\ pc[w] = "send"
        /\ pc' = [pc EXCEPT ![w] = "settle"]
        /\ held' = held \cup {job[w]} /\ asked' = [asked EXCEPT ![job[w]] = memo[w].amount]
    BY <1>9 DEF Send
  <2>2. Ledger' = Ledger /\ RefundAmounts' = RefundAmounts
    BY <2>1 DEF Ledger, RefundAmounts
  <2>3. job[w] \in Refunds /\ job[w] \in Ledger /\ memo[w].amount = row[job[w]].amount
    BY <1>0, <2>1 DEF LedgerInv, AskedFacts, WorkerFacts, InFlight, Ledger
  <2>4. \A r \in held' : r \in Ledger' /\ asked'[r] = row'[r].amount
    BY <1>0, <2>1, <2>2, <2>3 DEF LedgerInv, AskedFacts, TypeOK
  <2>5. \A v \in Workers : InFlight(v)' => InFlight(v)
    BY <1>0, <2>1 DEF InFlight, TypeOK
  <2>6. \A v \in Workers : pc'[v] = "send" => pc[v] = "send"
    BY <1>0, <2>1 DEF TypeOK
  <2> QED
    BY <1>0, <2>1, <2>2, <2>4, <2>5, <2>6
    DEF LedgerInv, AskedFacts, LedgerWithinPayment, DueIsOpen, TypeOK
<1>5. ASSUME NEW w \in Workers,
             SettleLost(w) \/ SettlePending(w) \/ SettleDenied(w) \/ Commit(w)
      PROVE  LedgerInv'
  <2>1. /\ job[w] \in Refunds /\ InFlight(w) /\ End(w)
        /\ row[job[w]].status = "processing" /\ row[job[w]].tied
    BY <1>0, <1>5
    DEF SettleLost, SettlePending, SettleDenied, Commit, WorkerFacts, InFlight, LedgerInv
  <2>2. /\ \A q \in Refunds \ {job[w]} : row'[q] = row[q]
        /\ row'[job[w]].amount = row[job[w]].amount
        /\ row'[job[w]].state = "confirmed" => row'[job[w]].status = "transferred"
        /\ held' \subseteq held /\ \A r \in held' : asked'[r] = asked[r]
        /\ job[w] \in held' => job[w] \in Ledger'
    <3>1. CASE SettleLost(w) \/ SettlePending(w)
      <4>1. row'[job[w]].status = "processing" /\ row'[job[w]].tied
        BY <1>0, <2>1, <3>1 DEF SettleLost, SettlePending, TypeOK, Row
      <4> QED
        BY <1>0, <2>1, <3>1, <4>1 DEF SettleLost, SettlePending, TypeOK, Row, history, Ledger
    <3>2. CASE SettleDenied(w)
      <4>1. /\ held' = held \ {job[w]} /\ asked' = [asked EXCEPT ![job[w]] = 0]
            /\ row' = [row EXCEPT ![job[w]].status = "due", ![job[w]].state = "rejected"]
        BY <3>2 DEF SettleDenied
      <4>2. \A r \in held' : asked'[r] = asked[r]
        BY <1>0, <4>1 DEF TypeOK
      <4> QED
        BY <1>0, <2>1, <4>1, <4>2 DEF TypeOK, Row
    <3>3. CASE Commit(w)
      <4>1. row' = [row EXCEPT ![job[w]].status = "transferred", ![job[w]].state = "confirmed"]
            /\ held' = held /\ asked' = asked
        BY <3>3 DEF Commit, history
      <4>2. /\ row'[job[w]].state = "confirmed" /\ row'[job[w]].tied
            /\ row'[job[w]].status = "transferred" /\ row'[job[w]].amount = row[job[w]].amount
            /\ \A q \in Refunds \ {job[w]} : row'[q] = row[q]
        BY <1>0, <2>1, <4>1 DEF TypeOK, Row
      <4> QED
        BY <2>1, <4>1, <4>2 DEF Ledger
    <3> QED
      BY <1>5, <3>1, <3>2, <3>3
  <2>3. job[w] \in Ledger
    BY <2>1 DEF Ledger
  <2> QED
    BY <2>1, <2>2, <2>3, EndWithin
<1>6. ASSUME NEW w \in Workers, ApproveAmount(w) \/ MarkTransferred(w) \/ CloseWithoutTransfer(w)
      PROVE  LedgerInv'
  <2>1. /\ job[w] \in Refunds /\ pc[w] = "form" /\ End(w) /\ held' = held /\ asked' = asked
        /\ row[job[w]].status = "due" /\ memo[w].status = "due"
    BY <1>0, <1>6
    DEF ApproveAmount, MarkTransferred, CloseWithoutTransfer, SavePage, WorkerFacts
  <2>2. /\ \A q \in Refunds \ {job[w]} : row'[q] = row[q]
        /\ row'[job[w]].state # "confirmed" /\ row'[job[w]].status # "processing"
    <3>1. CASE ApproveAmount(w)
      BY <1>0, <2>1, <3>1 DEF ApproveAmount, TypeOK, Row, LedgerInv, DueIsOpen
    <3>2. CASE MarkTransferred(w) \/ CloseWithoutTransfer(w)
      BY <1>0, <2>1, <3>2 DEF MarkTransferred, CloseWithoutTransfer, TypeOK, Row, LedgerInv
    <3> QED
      BY <1>6, <3>1, <3>2
  <2>3. job[w] \notin Ledger' /\ ~ Taken(job[w]) /\ job[w] \notin held
    BY <1>0, <2>1, <2>2 DEF Ledger, Taken, HeldIsTaken
  <2> QED
    BY <2>1, <2>2, <2>3, EndWithin
<1>7. ASSUME NEW w \in Workers, Stop(w) PROVE LedgerInv'
  <2>1. \A v \in Workers : DueIsOpen(v)'
    BY <1>0, <1>7 DEF Stop, End, TypeOK, DueIsOpen, LedgerInv
  <2> QED
    BY <1>0, <1>7, <2>1, LedgerSame DEF Stop, End, InFlight, TypeOK, history
<1>8. CASE VerifyAgain \/ UNCHANGED vars
  <2>1. \A v \in Workers : DueIsOpen(v)'
    BY <1>8 DEF VerifyAgain, vars, workerVars, DueIsOpen, LedgerInv
  <2> QED
    BY <1>8, <2>1, LedgerSame DEF VerifyAgain, vars, history, workerVars, InFlight
<1> QED
  BY <1>1, <1>2, <1>3, <1>4, <1>5, <1>6, <1>7, <1>8, <1>9 DEF Next, WorkerStep

LEMMA LedgerInitial == Init => LedgerInv
<1> SUFFICES ASSUME Init PROVE LedgerInv
  OBVIOUS
<1>1. Ledger = {}
  BY DEF Init, NoRow, Ledger
<1>2. LedgerWithinPayment
  <2>1. SumOver(RefundAmounts, {}) = 0
    BY SumEmpty
  <2> QED
    BY <1>1, <2>1 DEF LedgerWithinPayment
<1> QED
  BY <1>2 DEF LedgerInv, AskedFacts, DueIsOpen, Init, NoRow, InFlight

\* What was asked is part of the ledger.
LEMMA LedgerBoundsAsked == ASSUME TypeOK, LedgerInv PROVE RefundsFitThePayment
<1>1. held \subseteq Ledger /\ \A r \in held : asked[r] = RefundAmounts[r]
  BY DEF LedgerInv, AskedFacts, RefundAmounts, Ledger
<1>2. \A r \in Ledger : RefundAmounts[r] \in Nat
  BY DEF TypeOK, Row, RefundAmount, RefundAmounts, Ledger
<1>3. \A r \in held : asked[r] \in Nat /\ asked[r] <= RefundAmounts[r]
  BY <1>1, <1>2
<1>4. SumOver(asked, held) <= SumOver(RefundAmounts, Ledger)
  BY <1>1, <1>2, <1>3, LedgerFinite, SumMonotone
<1>5. SumOver(asked, held) \in Nat /\ SumOver(RefundAmounts, Ledger) \in Nat
  BY <1>1, <1>2, <1>3, LedgerFinite, FS_Subset, SumNat
<1> QED
  BY <1>4, <1>5 DEF LedgerInv, LedgerWithinPayment, RefundsFitThePayment

\* As long as no owner's page has written a row that was no longer due, what HyperPay was
\* asked to return and did not refuse is within the payment, for any number of obligations
\* submitted at once (_prepare's sum under the payment's lock).
THEOREM RefundsFit == Spec => []RefundsFitUnlessOverwritten
<1> DEFINE Inv == IInv /\ (~ overwritten => LedgerInv)
<1>1. Inv /\ [Next]_vars => Inv'
  <2> SUFFICES ASSUME Inv, [Next]_vars PROVE Inv'
    OBVIOUS
  <2>1. IInv'
    BY TypePreserved, FactsPreserved DEF IInv, Facts
  <2>2. ~ overwritten' => ~ overwritten
    BY DEF Next, WorkerStep, RecordObligation, Prepare, OpenForm, Send, SettleLost,
       SettlePending, SettleDenied, ReadTotal, Commit, ApproveAmount, MarkTransferred,
       CloseWithoutTransfer, SavePage, Stop, VerifyAgain, vars, history
  <2>3. ~ overwritten' => LedgerInv'
    BY <2>1, <2>2, LedgerPreserved DEF IInv
  <2> QED
    BY <2>1, <2>3
<1>2. Init => Inv
  BY InitInvariant, LedgerInitial
<1>3. Inv => RefundsFitUnlessOverwritten
  BY LedgerBoundsAsked DEF IInv, RefundsFitUnlessOverwritten
<1> QED
  BY <1>1, <1>2, <1>3, PTL DEF Spec

-----------------------------------------------------------------------------
(* Receipts.                                                               *)

USE ReceiptsAssumption

\* Nothing has happened.
LEMMA ReceiptsInitial == ReceiptsInit => ReceiptsIInv
  BY DEF ReceiptsInit, LedgerInit, ReceiptsIInv, ReceiptsTypeOK, LedgerTypeOK, Working, Traces,
      Unsent, EntryStatus, Clerk, Idle

\* A worker's variables, seen from its payment.
LEMMA AtWork ==
  ASSUME ReceiptsIInv, NEW c \in Clerks, clerk[c].step # "idle"
  PROVE /\ clerk[c].pay \in Payments /\ key[clerk[c].pay] = c
        /\ entry[clerk[c].pay] = clerk[c].seen /\ clerk[c].seen # "none"
        /\ clerk[c].pay \in settled
        /\ \A d \in Clerks : clerk[d].step # "idle" /\ clerk[d].pay = clerk[c].pay => d = c
  BY DEF ReceiptsIInv, Working, Traces

\* A payment is verified, or its entry is created.
LEMMA SiteSteps ==
  ASSUME ReceiptsIInv, NEW p \in Payments, Settle(p) \/ Queue(p)
  PROVE ReceiptsIInv'
<1>1. CASE Settle(p)
  BY <1>1 DEF Settle, ledgerVars, ReceiptsIInv, ReceiptsTypeOK, LedgerTypeOK, Working, Traces,
     Unsent
<1>2. CASE Queue(p)
  <2>1. ReceiptsTypeOK'
    BY <1>2 DEF Queue, ReceiptsIInv, ReceiptsTypeOK, LedgerTypeOK, EntryStatus
  <2>2. Working'
    BY <1>2 DEF Queue, ReceiptsIInv, ReceiptsTypeOK, LedgerTypeOK, Working
  <2>3. Traces' /\ Unsent'
    BY <1>2 DEF Queue, ReceiptsIInv, ReceiptsTypeOK, LedgerTypeOK, Traces, Unsent
  <2> QED BY <2>1, <2>2, <2>3 DEF ReceiptsIInv
<1> QED BY <1>1, <1>2

\* A task begins.
LEMMA StartStep ==
  ASSUME ReceiptsIInv, NEW c \in Clerks, NEW p \in Payments, Start(c, p)
  PROVE ReceiptsIInv'
<1>1. clerk' = [clerk EXCEPT ![c] = [step |-> "look", pay |-> p, seen |-> entry[p]]]
  BY DEF Start
<1>2. ReceiptsTypeOK'
  BY <1>1 DEF Start, ReceiptsIInv, ReceiptsTypeOK, LedgerTypeOK, Clerk
<1>3. Working'
  <2>1. \A d \in Clerks \ {c} : clerk'[d] = clerk[d]
    BY <1>1 DEF ReceiptsIInv, ReceiptsTypeOK, LedgerTypeOK
  <2>2. \A d \in Clerks : clerk[d].step # "idle" => clerk[d].pay # p
    BY DEF Start, ReceiptsIInv, Working
  <2>3. clerk'[c] = [step |-> "look", pay |-> p, seen |-> entry[p]]
    BY <1>1 DEF ReceiptsIInv, ReceiptsTypeOK, LedgerTypeOK
  <2> QED BY <2>1, <2>2, <2>3 DEF Start, ReceiptsIInv, ReceiptsTypeOK, LedgerTypeOK, Working
<1>4. Traces' /\ Unsent'
  BY <1>1 DEF Start, ReceiptsIInv, ReceiptsTypeOK, LedgerTypeOK, Traces, Unsent
<1> QED BY <1>2, <1>3, <1>4 DEF ReceiptsIInv

\* A task ends: the row is saved with a status that fits what Hostaway holds.
LEMMA FinishStep ==
  ASSUME ReceiptsIInv, NEW c \in Clerks, clerk[c].step # "idle",
         NEW status \in {"succeeded", "unknown", "review"}, Finish(c, status),
         status = "succeeded" => charges[clerk[c].pay] = 1,
         UNCHANGED <<settled, charges, wire>>
  PROVE ReceiptsIInv'
<1> DEFINE p == clerk[c].pay
<1>1. p \in Payments /\ key[p] = c /\ p \in settled
  BY AtWork
<1>2. /\ entry' = [entry EXCEPT ![p] = status]
      /\ key' = [key EXCEPT ![p] = NoClerk]
      /\ clerk' = [clerk EXCEPT ![c] = Idle]
  BY <1>1 DEF Finish
<1>3. ReceiptsTypeOK'
  BY <1>1, <1>2 DEF ReceiptsIInv, ReceiptsTypeOK, LedgerTypeOK, Clerk, Idle, EntryStatus
<1>4. \A d \in Clerks : clerk'[d].step # "idle" =>
         d # c /\ clerk'[d] = clerk[d] /\ clerk[d].pay # p
  BY <1>2, AtWork DEF ReceiptsIInv, ReceiptsTypeOK, LedgerTypeOK, Idle
<1>5. Working' /\ Unsent'
  BY <1>1, <1>2, <1>4 DEF ReceiptsIInv, ReceiptsTypeOK, LedgerTypeOK, Working, Unsent
<1>6. Traces'
  BY <1>1, <1>2 DEF ReceiptsIInv, ReceiptsTypeOK, LedgerTypeOK, Traces
<1> QED BY <1>3, <1>5, <1>6 DEF ReceiptsIInv

\* A POST is claimed, and leaves.
LEMMA PostSteps ==
  ASSUME ReceiptsIInv, NEW c \in Clerks, ClaimPost(c) \/ Post(c)
  PROVE ReceiptsIInv'
<1> DEFINE p == clerk[c].pay
<1>1. p \in Payments /\ key[p] = c /\ p \in settled /\ entry[p] = clerk[c].seen
  BY AtWork DEF ClaimPost, Post
<1>2. \A d \in Clerks \ {c} : clerk'[d] = clerk[d] /\ (clerk[d].step # "idle" => clerk[d].pay # p)
  BY AtWork DEF ClaimPost, Post, ReceiptsIInv, ReceiptsTypeOK, LedgerTypeOK
<1>3. CASE ClaimPost(c)
  <2>1. /\ clerk'[c].step = "post" /\ clerk'[c].seen = "posting" /\ clerk'[c].pay = p
        /\ clerk' \in [Clerks -> Clerk]
    BY <1>3 DEF ClaimPost, ReceiptsIInv, ReceiptsTypeOK, LedgerTypeOK, Clerk, EntryStatus
  <2>2. ReceiptsTypeOK'
    BY <1>3, <2>1 DEF ClaimPost, ReceiptsIInv, ReceiptsTypeOK, LedgerTypeOK, EntryStatus
  <2>3. entry[p] = "pending" /\ charges[p] = 0 /\ p \notin wire
    BY <1>1, <1>3, AtWork
    DEF ClaimPost, ReceiptsIInv, ReceiptsTypeOK, LedgerTypeOK, EntryStatus, Traces
  <2>4. Working'
    BY <1>1, <1>2, <1>3, <2>1
    DEF ClaimPost, ReceiptsIInv, ReceiptsTypeOK, LedgerTypeOK, Working
  <2>5. Traces' /\ Unsent'
    BY <1>1, <1>2, <1>3, <2>1, <2>3
    DEF ClaimPost, ReceiptsIInv, ReceiptsTypeOK, LedgerTypeOK, Traces, Unsent
  <2> QED BY <2>2, <2>4, <2>5 DEF ReceiptsIInv
<1>4. CASE Post(c)
  <2>1. /\ clerk'[c].step = "wait" /\ clerk'[c].seen = clerk[c].seen /\ clerk'[c].pay = p
        /\ clerk' \in [Clerks -> Clerk]
    BY <1>4 DEF Post, ReceiptsIInv, ReceiptsTypeOK, LedgerTypeOK, Clerk
  <2>2. ReceiptsTypeOK'
    BY <1>1, <1>4, <2>1 DEF Post, ReceiptsIInv, ReceiptsTypeOK, LedgerTypeOK
  <2>3. entry[p] = "posting" /\ charges[p] = 0
    BY <1>1, <1>4 DEF Post, ReceiptsIInv, Working, Unsent
  <2>4. Working'
    BY <1>1, <1>2, <1>4, <2>1, <2>3
    DEF Post, ReceiptsIInv, ReceiptsTypeOK, LedgerTypeOK, Working
  <2>5. Traces' /\ Unsent'
    BY <1>1, <1>2, <1>4, <2>1, <2>3
    DEF Post, ReceiptsIInv, ReceiptsTypeOK, LedgerTypeOK, Traces, Unsent
  <2> QED BY <2>2, <2>4, <2>5 DEF ReceiptsIInv
<1> QED BY <1>3, <1>4

\* A POST arrives or is lost, a worker is killed, a key expires.
LEMMA OutsideSteps ==
  ASSUME ReceiptsIInv,
         \/ \E p \in Payments : Arrive(p) \/ KeyExpires(p)
         \/ \E c \in Clerks : Die(c)
  PROVE ReceiptsIInv'
<1>1. ASSUME NEW p \in Payments, Arrive(p) PROVE ReceiptsIInv'
  <2>1. charges[p] = 0 /\ charges' \in [Payments -> Nat]
    BY <1>1 DEF Arrive, ReceiptsIInv, ReceiptsTypeOK, LedgerTypeOK, Traces
  <2>2. \A q \in Payments : charges'[q] = charges[q] \/ (q = p /\ charges'[q] = 1)
    BY <1>1, <2>1 DEF Arrive, ReceiptsIInv, ReceiptsTypeOK, LedgerTypeOK
  <2>3. entry[p] \notin {"none", "pending"} /\ entry[p] # "succeeded"
    BY <1>1, <2>1 DEF Arrive, ReceiptsIInv, Traces
  <2>4. ReceiptsTypeOK' /\ Working'
    BY <1>1, <2>1 DEF Arrive, ReceiptsIInv, ReceiptsTypeOK, LedgerTypeOK, Working
  <2>5. Traces'
    BY <1>1, <2>2, <2>3 DEF Arrive, ReceiptsIInv, Traces
  <2>6. Unsent'
    BY <1>1, <2>2 DEF Arrive, ReceiptsIInv, Working, Unsent
  <2> QED BY <2>4, <2>5, <2>6 DEF ReceiptsIInv
<1>2. ASSUME NEW p \in Payments, KeyExpires(p) PROVE ReceiptsIInv'
  BY <1>2 DEF KeyExpires, ReceiptsIInv, ReceiptsTypeOK, LedgerTypeOK, Working, Traces, Unsent
<1>3. ASSUME NEW c \in Clerks, Die(c) PROVE ReceiptsIInv'
  <2>1. \A d \in Clerks : clerk'[d].step # "idle" => d # c /\ clerk'[d] = clerk[d]
    BY <1>3 DEF Die, ReceiptsIInv, ReceiptsTypeOK, LedgerTypeOK, Idle
  <2>2. \A p \in Payments : key'[p] = IF key[p] = c THEN DeadClerk ELSE key[p]
    BY <1>3 DEF Die
  <2>3. ReceiptsTypeOK'
    BY <1>3 DEF Die, ReceiptsIInv, ReceiptsTypeOK, LedgerTypeOK, Clerk, Idle, EntryStatus
  <2>4. Working'
    BY <1>3, <2>1, <2>2 DEF Die, ReceiptsIInv, Working
  <2>5. Traces' /\ Unsent'
    BY <1>3, <2>1 DEF Die, ReceiptsIInv, Traces, Unsent
  <2> QED BY <2>3, <2>4, <2>5 DEF ReceiptsIInv
<1> QED BY <1>1, <1>2, <1>3

\* Every step.
LEMMA ReceiptsPreserved ==
  ASSUME ReceiptsIInv, [ReceiptsNext]_receiptsVars
  PROVE ReceiptsIInv'
<1>1. CASE UNCHANGED receiptsVars
  BY <1>1 DEF receiptsVars, ledgerVars, ReceiptsIInv, ReceiptsTypeOK, LedgerTypeOK, Working,
     Traces, Unsent
<1>2. ASSUME NEW c \in Clerks, Work(c) PROVE ReceiptsIInv'
  <2>1. CASE \E p \in Payments : Start(c, p)
    BY <2>1, StartStep
  <2>2. CASE FindCharge(c)
    BY <2>2, FinishStep DEF FindCharge
  <2>3. CASE ClaimPost(c) \/ Post(c)
    BY <2>3, PostSteps
  <2>4. CASE Refuse(c)
    BY <2>4, FinishStep DEF Refuse
  <2>5. CASE Answered(c)
    <3>1. charges[clerk[c].pay] > 0 => charges[clerk[c].pay] = 1
      BY <2>5, AtWork DEF Answered, ReceiptsIInv, ReceiptsTypeOK, LedgerTypeOK, Traces
    <3> QED BY <2>5, <3>1, FinishStep DEF Answered
  <2>6. CASE Die(c)
    BY <2>6, OutsideSteps
  <2> QED BY <1>2, <2>1, <2>2, <2>3, <2>4, <2>5, <2>6 DEF Work
<1> QED BY <1>1, <1>2, SiteSteps, OutsideSteps DEF ReceiptsNext, Bookkeeping

\* The inductive invariant: a worker at work holds its payment's key and knows its row,
\* and a payment leaves a trace in its row before anything can reach Hostaway.
THEOREM ReceiptsInvariant == ReceiptsSpec => []ReceiptsIInv
<1> QED BY ReceiptsInitial, ReceiptsPreserved, PTL DEF ReceiptsSpec

\* Every row, key and worker holds a value the code writes.
THEOREM ReceiptsTypeCorrect == ReceiptsSpec => []ReceiptsTypeOK
<1>1. ReceiptsIInv => ReceiptsTypeOK BY DEF ReceiptsIInv
<1> QED BY <1>1, ReceiptsInvariant, PTL

\* A payment is booked in Hostaway at most once (record_payment_receipt_task).
THEOREM BookedOnce == ReceiptsSpec => []PostedOnce
<1>1. ReceiptsIInv => PostedOnce BY DEF ReceiptsIInv, Traces, PostedOnce
<1> QED BY <1>1, ReceiptsInvariant, PTL

\* What is recorded is booked, and what is booked was verified.
THEOREM RecordsAreTrue == ReceiptsSpec => []RecordedIsBooked
<1>1. ReceiptsIInv => RecordedIsBooked
  <2> SUFFICES ASSUME ReceiptsIInv, NEW p \in Payments
               PROVE  /\ entry[p] = "succeeded" => charges[p] = 1
                      /\ charges[p] > 0 => p \in settled
    BY DEF RecordedIsBooked
  <2>1. entry[p] = "succeeded" => charges[p] = 1
    BY DEF ReceiptsIInv, Traces
  <2>2. entry[p] = "none" => charges[p] = 0
    BY DEF ReceiptsIInv, Traces
  <2>3. entry[p] # "none" => p \in settled
    BY DEF ReceiptsIInv, Traces
  <2> QED BY <2>1, <2>2, <2>3
<1> QED BY <1>1, ReceiptsInvariant, PTL

-----------------------------------------------------------------------------

\* A step of a link or a stay verifies a payment for the receipts, or leaves them alone.
LEMMA LinkStepsSettle ==
  ASSUME LinkSteps
  PROVE  UNCHANGED receiptsVars \/ \E p \in Payments : Settle(p)
<1>1. ASSUME NEW p \in Payments, Complete(p)
      PROVE  UNCHANGED receiptsVars \/ Settle(p)
  <2>1. UNCHANGED ledgerVars /\ (settled' = settled \cup {p} \/ UNCHANGED settled)
    BY <1>1 DEF Complete
  <2>2. CASE settled' = settled \cup {p} /\ p \notin settled
    BY <2>1, <2>2 DEF Settle
  <2>3. CASE settled' = settled
    BY <2>1, <2>3 DEF receiptsVars
  <2> QED BY <2>1, <2>2, <2>3
<1>2. ASSUME NEW p \in Payments,
             RecordOffline(p) \/ OpenCheckout(p) \/ Charge(p) \/ Verify(p)
      PROVE  UNCHANGED receiptsVars
  BY <1>2 DEF RecordOffline, OpenCheckout, Charge, Verify
<1>3. ASSUME NEW r \in Requests,
             \/ Issue(r) \/ Revoke(r) \/ Visit(r)
             \/ \E c \in Changes : PreparePreview(r, c)
             \/ \E p \in Payments : ClaimAttempt(r, p)
      PROVE  UNCHANGED receiptsVars
  BY <1>3 DEF Issue, Revoke, Visit, PreparePreview, ClaimAttempt
<1>4. ASSUME NEW r \in Requests,
             ApprovePreview(r) \/ ApplyChange(r) \/ VerifyRevision(r) \/ ActivateRevision(r)
      PROVE  UNCHANGED receiptsVars
  BY <1>4 DEF ApprovePreview, ApplyChange, VerifyRevision, ActivateRevision
<1>5. ASSUME NEW c \in Changes, NEW t \in Prices, SetFinalTotal(c, t)
      PROVE  UNCHANGED receiptsVars
  BY <1>5 DEF SetFinalTotal
<1>6. ASSUME EditInHostaway \/ Refresh
      PROVE  UNCHANGED receiptsVars
  BY <1>6 DEF EditInHostaway, Refresh
<1> QED BY <1>1, <1>2, <1>3, <1>4, <1>5, <1>6 DEF LinkSteps

\* Every step of the whole is a step of the receipts, or none of theirs.
LEMMA LinksNextImplements ==
  ASSUME [LinksNext]_linksVars
  PROVE  [ReceiptsNext]_receiptsVars
<1>1. CASE UNCHANGED linksVars
  BY <1>1 DEF linksVars
<1>2. CASE LinkSteps
  BY <1>2, LinkStepsSettle DEF ReceiptsNext
<1>3. CASE Bookkeeping \/ \E p \in Payments : Queue(p)
  BY <1>3 DEF ReceiptsNext
<1> QED BY <1>1, <1>2, <1>3 DEF LinksNext

\* The links implement the receipts' specification: a receipt is queued for a payment
\* only once it is verified and its link is paid (complete_request_payment).
THEOREM LinksImplementReceipts == LinksSpec => ReceiptsImplemented
<1>1. LinksInit => ReceiptsInit
  BY DEF LinksInit
<1> QED BY <1>1, LinksNextImplements, PTL DEF LinksSpec, ReceiptsImplemented, ReceiptsSpec

\* What a guest pays through the links of a stay is booked in Hostaway at most once.
THEOREM LinksBookOnce == LinksSpec => []PostedOnce
BY LinksImplementReceipts, BookedOnce, PTL DEF ReceiptsImplemented

\* What is recorded as booked is booked, and only verified payments of paid links are.
THEOREM LinksRecordTruly == LinksSpec => []RecordedIsBooked
BY LinksImplementReceipts, RecordsAreTrue, PTL DEF ReceiptsImplemented

-----------------------------------------------------------------------------
(* What the money a guest is asked for rests on.                           *)

LinkTyped ==
    /\ stay \in [status : StayStatus, total : Total, pay : {"unpaid", "partially_paid", "paid"}]
    /\ remote \in [status : StayStatus, total : Total]
    /\ change \in [Changes -> [status : ChangeStatus, base : Total, total : Total, paid : Nat]]
    /\ request \in [Requests -> Request]
    /\ attempt \in [Payments -> [status : AttemptStatus, req : Requests \cup {None}, amount : Nat]]
    /\ gate \in [Payments -> {"none", "ready", "charged", "refused"}]
    /\ visited \subseteq Requests
    /\ reviewed \in [Requests -> {"none", "checked", "verified"}]

\* A payment that can still take the guest's money.
Live(p) == attempt[p].status \in Unresolved /\ gate[p] # "refused"

\* The receipts a balance was computed from.
FundsOf(r) == {p \in Payments : request[r].funds[p] = "succeeded"}

\* What the site knows of a payment, what HyperPay knows, and the link it is for.
Gate(p) ==
    /\ attempt[p].status = "none" => attempt[p].req = None
    /\ attempt[p].status \in {"none", "created"} => gate[p] = "none"
    /\ attempt[p].status \in Unresolved \cup {"failed"} => attempt[p].req # None
    /\ gate[p] # "none" => attempt[p].req # None
    /\ attempt[p].status = "failed" => gate[p] = "refused"
    /\ attempt[p].status = "succeeded" /\ attempt[p].req # None => gate[p] = "charged"
    /\ attempt[p].req # None =>
         /\ request[attempt[p].req].status \notin {"none", "draft"}
         /\ attempt[p].amount = request[attempt[p].req].amount
         /\ request[attempt[p].req].change # None => request[attempt[p].req].approved

Gates == \A p \in Payments : Gate(p)

\* One payment at a time, and while it can succeed nothing else has: a balance is
\* collected on top of exactly the receipts it was computed from.
OneLive == \A p, q \in Payments : Live(p) /\ Live(q) => p = q

LiveFunds ==
    \A p \in Payments :
        Live(p) => With({"succeeded"}) = IF request[attempt[p].req].change = None THEN {}
                                         ELSE FundsOf(attempt[p].req)

\* A link is for the price as booked, a revision for what its receipts leave of a price.
RequestRow(r) ==
    IF request[r].change = None
    THEN /\ request[r].status # "draft" /\ ~ request[r].approved
         /\ request[r].amount = Booked /\ request[r].total = Booked
    ELSE /\ request[r].amount > 0 /\ request[r].paid + request[r].amount = request[r].total
         /\ request[r].paid = Amount(FundsOf(r))
         /\ \A p \in Payments :
              /\ request[r].funds[p] \notin Unresolved
              /\ request[r].funds[p] = "succeeded" =>
                   attempt[p].status = "succeeded" /\ attempt[p].req # r

Rows == \A r \in Requests : request[r].status # "none" => RequestRow(r)

\* A stay that is still as it was booked has no revision for another price.
AsBooked ==
    /\ remote.status = "confirmed" => remote.total = Booked /\ stay.status = "confirmed"
    /\ stay.status = "confirmed" => stay.total = Booked
    /\ \A r \in Requests :
         request[r].approved /\ request[r].total # Booked => stay.status # "confirmed"

\* Only a draft is approved, and for a change that is made.
Approvals ==
    \A r \in Requests :
        /\ request[r].status = "none" => request[r].change = None
        /\ request[r].status \in {"none", "draft"} => ~ request[r].approved
        /\ request[r].status \in {"none", "draft"} => request[r].next = None
        /\ reviewed[r] # "none" => request[r].change # None
        /\ reviewed[r] = "verified" => change[request[r].change].status = "completed"

\* An open revision is where all the links lead, in one hop.
Leads(r) == (request[r].status # "none" /\ request[r].change = None) \/ request[r].approved

Turned ==
    \A o \in Requests :
        request[o].status = "open" /\ request[o].approved =>
            /\ request[o].next = None
            /\ \A r \in Requests \ {o} : Leads(r) => request[r].next = o

LinksInv ==
    LinkTyped /\ Gates /\ OneLive /\ LiveFunds /\ Rows /\ AsBooked /\ Approvals /\ Turned

-----------------------------------------------------------------------------
(* Amounts.                                                                *)

Amounts == [p \in Payments |-> attempt[p].amount]

LEMMA AmountNat ==
  ASSUME LinkTyped, NEW S \in SUBSET Payments
  PROVE  IsFiniteSet(S) /\ Amount(S) = SumOver(Amounts, S) /\ Amount(S) \in Nat
         /\ \A p \in S : Amounts[p] \in Nat
<1>1. IsFiniteSet(S) BY LinksAssumption, FS_Subset
<1>2. \A p \in S : Amounts[p] \in Nat BY DEF Amounts, LinkTyped
<1>3. Amount(S) = SumOver(Amounts, S) BY DEF Amount, Amounts
<1> QED BY <1>1, <1>2, <1>3, SumNat

LEMMA PaidNat == ASSUME LinkTyped PROVE Paid \in Nat
  BY AmountNat DEF Paid, With

\* One more payment.
LEMMA AmountWith ==
  ASSUME LinkTyped, NEW S \in SUBSET Payments, NEW p \in Payments, p \notin S
  PROVE  Amount(S \cup {p}) = Amount(S) + attempt[p].amount
<1>1. Amount(S) = SumOver(Amounts, S) /\ Amount(S \cup {p}) = SumOver(Amounts, S \cup {p})
  BY DEF Amount, Amounts
<1>2. IsFiniteSet(S) /\ \A q \in S \cup {p} : Amounts[q] \in Nat
  BY AmountNat DEF Amounts, LinkTyped
<1>3. SumOver(Amounts, S \cup {p}) = SumOver(Amounts, S) + Amounts[p] BY <1>2, SumWith
<1> QED BY <1>1, <1>3 DEF Amounts

LEMMA AmountOne == ASSUME LinkTyped, NEW p \in Payments PROVE Amount({p}) = attempt[p].amount
<1>1. Amounts[p] \in Nat /\ Amounts[p] = attempt[p].amount BY DEF Amounts, LinkTyped
<1>2. Amount({p}) = SumOver(Amounts, {p}) BY DEF Amount, Amounts
<1> QED BY <1>1, <1>2, SumOne

LEMMA NoAmount == Amount({}) = 0
  BY SumEmpty DEF Amount

\* The amounts of payments that keep theirs.
LEMMA AmountKept ==
  ASSUME NEW S \in SUBSET Payments, \A p \in S : attempt'[p].amount = attempt[p].amount
  PROVE  SumOver([p \in Payments |-> attempt'[p].amount], S) = Amount(S)
<1>1. \A p \in S : [q \in Payments |-> attempt'[q].amount][p] = Amounts[p] BY DEF Amounts
<1>2. SumOver([p \in Payments |-> attempt'[p].amount], S) = SumOver(Amounts, S)
  BY <1>1, SumSame
<1> QED BY <1>2 DEF Amount, Amounts

-----------------------------------------------------------------------------
(* Every action writes rows of their types.                                *)

LEMMA TotalsPositive == ASSUME NEW t \in Total PROVE t \in Nat \ {0}
  BY LinksAssumption DEF Total

LEMMA NoRequestTyped == NoRequest \in Request
  BY DEF NoRequest, Request, RequestStatus, Total, AttemptStatus

LEMMA SignatureTyped ==
  ASSUME LinkTyped, NEW r \in Requests PROVE Signature(r) \in [Payments -> AttemptStatus]
  BY DEF Signature, LinkTyped, AttemptStatus

LEMMA IssueTyped == ASSUME LinkTyped, NEW r \in Requests, Issue(r) PROVE LinkTyped'
<1> DEFINE written == [NoRequest EXCEPT !.status = "open", !.amount = Booked, !.total = stay.total]
<1>1. written \in Request
  BY NoRequestTyped, LinksAssumption DEF Request, RequestStatus, LinkTyped
<1>2. request' = [request EXCEPT ![r] = written] BY DEF Issue
<1> HIDE DEF written
<1>3. request' \in [Requests -> Request] BY <1>1, <1>2 DEF LinkTyped
<1> QED BY <1>3 DEF Issue, bookingVars, paymentVars, LinkTyped

\* What becomes of a row that exists.
LEMMA RowWritten ==
  ASSUME NEW written \in Request, NEW t \in RequestStatus, NEW n \in Requests
  PROVE  /\ [written EXCEPT !.status = t] \in Request
         /\ [written EXCEPT !.status = t, !.approved = TRUE] \in Request
         /\ [written EXCEPT !.next = n, !.status = t] \in Request
         /\ written.status \in RequestStatus
  BY DEF Request

LEMMA RowWrites ==
  ASSUME LinkTyped, NEW s \in Requests
  PROVE  /\ request[s] \in Request
         /\ \A t \in RequestStatus : [request[s] EXCEPT !.status = t] \in Request
         /\ [request[s] EXCEPT !.status = "open", !.approved = TRUE] \in Request
         /\ \A n \in Requests, t \in RequestStatus :
              [request[s] EXCEPT !.next = n, !.status = t] \in Request
         /\ request[s].status \in RequestStatus
<1>1. request[s] \in Request BY DEF LinkTyped
<1>2. "open" \in RequestStatus BY DEF RequestStatus
<1> QED BY <1>1, <1>2, RowWritten

\* A row whose status is written.
LEMMA StatusWritten ==
  ASSUME LinkTyped, NEW r \in Requests, NEW t \in RequestStatus
  PROVE  [request EXCEPT ![r].status = t] \in [Requests -> Request]
<1> DEFINE written == [request[r] EXCEPT !.status = t]
<1>1. written \in Request BY RowWrites
<1>2. [request EXCEPT ![r].status = t] = [request EXCEPT ![r] = written] BY DEF LinkTyped
<1> HIDE DEF written
<1> QED BY <1>1, <1>2 DEF LinkTyped

LEMMA PreviewTyped ==
  ASSUME LinkTyped, NEW r \in Requests, NEW c \in Changes, PreparePreview(r, c) PROVE LinkTyped'
<1> DEFINE written == [status |-> "draft", change |-> c, amount |-> change[c].total - Paid,
                   total |-> change[c].total, paid |-> Paid, funds |-> Signature(r),
                   approved |-> FALSE, next |-> None]
<1>1. written \in Request
  <2>1. Paid \in Nat /\ change[c].total \in Total /\ change[c].total \in Nat
    BY PaidNat, TotalsPositive DEF LinkTyped
  <2>2. change[c].total - Paid \in Nat BY <2>1 DEF PreparePreview
  <2>3. Signature(r) \in [Payments -> AttemptStatus] BY SignatureTyped
  <2> QED BY <2>1, <2>2, <2>3 DEF Request, RequestStatus
<1>2. request' = [s \in Requests |->
         IF s = r THEN written
         ELSE IF request[s].status = "draft" THEN [request[s] EXCEPT !.status = "revoked"]
         ELSE request[s]]
  BY DEF PreparePreview
<1>3. \A s \in Requests : [request[s] EXCEPT !.status = "revoked"] \in Request
  BY RowWrites DEF RequestStatus
<1> HIDE DEF written
<1>4. request' \in [Requests -> Request] BY <1>1, <1>2, <1>3 DEF LinkTyped
<1> QED BY <1>4 DEF PreparePreview, bookingVars, paymentVars, LinkTyped

LEMMA ActivateTyped ==
  ASSUME LinkTyped, NEW r \in Requests, ActivateRevision(r) PROVE LinkTyped'
<1>1. request' \in [Requests -> Request]
  <2>1. request' = [s \in Requests |->
         IF s = r THEN [request[s] EXCEPT !.status = "open", !.approved = TRUE]
         ELSE IF request[s].status \notin {"none", "draft"}
              THEN [request[s] EXCEPT !.next = r,
                       !.status = IF request[s].status = "open" THEN "revoked"
                                  ELSE request[s].status]
         ELSE request[s]]
    BY DEF ActivateRevision
  <2>2. \A s \in Requests :
          (IF request[s].status = "open" THEN "revoked" ELSE request[s].status) \in RequestStatus
    BY RowWrites DEF RequestStatus
  <2> QED BY <2>1, <2>2, RowWrites DEF LinkTyped
<1>2. stay' \in [status : StayStatus, total : Total, pay : {"unpaid", "partially_paid", "paid"}]
  BY DEF ActivateRevision, LinkTyped
<1> QED BY <1>1, <1>2 DEF ActivateRevision, paymentVars, LinkTyped

LEMMA RevokeTyped == ASSUME LinkTyped, NEW r \in Requests, Revoke(r) PROVE LinkTyped'
<1>1. request' \in [Requests -> Request]
  BY StatusWritten DEF Revoke, RequestStatus
<1> QED BY <1>1 DEF Revoke, bookingVars, paymentVars, LinkTyped

LEMMA OfflineTyped == ASSUME LinkTyped, NEW p \in Payments, RecordOffline(p) PROVE LinkTyped'
<1>1. request' \in [Requests -> Request]
  BY RowWrites DEF RecordOffline, LinkTyped, RequestStatus
<1>2. attempt' \in [Payments -> [status : AttemptStatus, req : Requests \cup {None}, amount : Nat]]
  BY TotalsPositive DEF RecordOffline, LinkTyped, AttemptStatus
<1>3. stay' \in [status : StayStatus, total : Total, pay : {"unpaid", "partially_paid", "paid"}]
  BY DEF RecordOffline, LinkTyped
<1> QED BY <1>1, <1>2, <1>3 DEF RecordOffline, LinkTyped

LEMMA CompleteTyped == ASSUME LinkTyped, NEW p \in Payments, Complete(p) PROVE LinkTyped'
<1>1. request' \in [Requests -> Request]
  <2>1. attempt[p].req \in Requests BY DEF Complete, LinkTyped
  <2>2. \E t \in RequestStatus : request' = [request EXCEPT ![attempt[p].req].status = t]
    BY DEF Complete, RequestStatus
  <2> QED BY <2>1, <2>2, StatusWritten
<1>2. stay' \in [status : StayStatus, total : Total, pay : {"unpaid", "partially_paid", "paid"}]
  BY DEF Complete, LinkTyped
<1> QED BY <1>1, <1>2 DEF Complete, paymentVars, LinkTyped

LEMMA ClaimTyped ==
  ASSUME LinkTyped, NEW r \in Requests, NEW p \in Payments, ClaimAttempt(r, p) PROVE LinkTyped'
<1>1. request[r].amount \in Nat BY DEF LinkTyped, Request
<1>2. attempt' \in [Payments -> [status : AttemptStatus, req : Requests \cup {None}, amount : Nat]]
  BY <1>1 DEF ClaimAttempt, LinkTyped, AttemptStatus
<1> QED BY <1>2 DEF ClaimAttempt, bookingVars, linkVars, LinkTyped

LEMMA PaymentTyped ==
  ASSUME LinkTyped, NEW p \in Payments, OpenCheckout(p) \/ Charge(p) \/ Verify(p)
  PROVE  LinkTyped'
<1>1. \A t \in AttemptStatus : [attempt EXCEPT ![p].status = t]
         \in [Payments -> [status : AttemptStatus, req : Requests \cup {None}, amount : Nat]]
  BY DEF LinkTyped
<1>2. attempt' \in [Payments -> [status : AttemptStatus, req : Requests \cup {None}, amount : Nat]]
  <2>1. CASE OpenCheckout(p) BY <1>1, <2>1 DEF OpenCheckout, AttemptStatus
  <2>2. CASE Charge(p) BY <2>2 DEF Charge, LinkTyped
  <2>3. CASE Verify(p)
    <3>1. \E t \in AttemptStatus : attempt' = [attempt EXCEPT ![p].status = t]
      BY <2>3 DEF Verify, AttemptStatus
    <3> QED BY <1>1, <3>1
  <2> QED BY <2>1, <2>2, <2>3
<1>3. gate' \in [Payments -> {"none", "ready", "charged", "refused"}]
  BY DEF OpenCheckout, Charge, Verify, LinkTyped
<1> QED BY <1>2, <1>3 DEF OpenCheckout, Charge, Verify, bookingVars, linkVars, LinkTyped

LEMMA StayStepsTyped ==
  ASSUME LinkTyped,
         \/ EditInHostaway \/ Refresh
         \/ \E c \in Changes, t \in Prices : SetFinalTotal(c, t)
  PROVE  LinkTyped'
<1>1. CASE EditInHostaway
  <2>1. remote' \in [status : StayStatus, total : Total]
    BY <1>1 DEF EditInHostaway, LinkTyped, StayStatus
  <2> QED BY <1>1, <2>1 DEF EditInHostaway, linkVars, paymentVars, LinkTyped
<1>2. CASE Refresh
  <2>1. stay' \in [status : StayStatus, total : Total, pay : {"unpaid", "partially_paid", "paid"}]
    BY <1>2 DEF Refresh, Merged, LinkTyped
  <2>2. change' \in [Changes -> [status : ChangeStatus, base : Total, total : Total, paid : Nat]]
    BY <1>2 DEF Refresh, LinkTyped, ChangeStatus
  <2> QED BY <1>2, <2>1, <2>2 DEF Refresh, linkVars, paymentVars, LinkTyped
<1>3. ASSUME NEW c \in Changes, NEW t \in Prices, SetFinalTotal(c, t) PROVE LinkTyped'
  <2>1. [status |-> "priced", base |-> stay.total, total |-> t, paid |-> Paid]
           \in [status : ChangeStatus, base : Total, total : Total, paid : Nat]
    BY PaidNat DEF LinkTyped, Total, ChangeStatus
  <2>2. \A d \in Changes : [change[d] EXCEPT !.status = "closed"]
           \in [status : ChangeStatus, base : Total, total : Total, paid : Nat]
    BY DEF LinkTyped, ChangeStatus
  <2>3. change' \in [Changes -> [status : ChangeStatus, base : Total, total : Total, paid : Nat]]
    BY <1>3, <2>1, <2>2 DEF SetFinalTotal, LinkTyped
  <2> QED BY <1>3, <2>3 DEF SetFinalTotal, linkVars, paymentVars, LinkTyped
<1> QED BY <1>1, <1>2, <1>3

LEMMA ReviewTyped ==
  ASSUME LinkTyped, Approvals, NEW r \in Requests,
         Visit(r) \/ ApprovePreview(r) \/ VerifyRevision(r) \/ ApplyChange(r)
  PROVE  LinkTyped'
<1>1. CASE Visit(r) BY <1>1 DEF Visit, bookingVars, paymentVars, LinkTyped
<1>2. CASE ApprovePreview(r) BY <1>2 DEF ApprovePreview, bookingVars, paymentVars, LinkTyped
<1>3. CASE VerifyRevision(r) BY <1>3 DEF VerifyRevision, bookingVars, paymentVars, LinkTyped
<1>4. CASE ApplyChange(r)
  <2> DEFINE c == request[r].change
  <2>1. c \in Changes BY <1>4 DEF ApplyChange, Approvals, LinkTyped, Request
  <2>2. \A t \in ChangeStatus : [change EXCEPT ![c].status = t]
           \in [Changes -> [status : ChangeStatus, base : Total, total : Total, paid : Nat]]
    BY <2>1 DEF LinkTyped
  <2>3. change' \in [Changes -> [status : ChangeStatus, base : Total, total : Total, paid : Nat]]
    <3>1. \E t \in ChangeStatus : change' = [change EXCEPT ![c].status = t]
      BY <1>4 DEF ApplyChange, ChangeStatus
    <3> QED BY <2>2, <3>1
  <2>4. change[c].total \in Total BY <2>1 DEF LinkTyped
  <2>5. remote' \in [status : StayStatus, total : Total]
    BY <1>4, <2>4 DEF ApplyChange, LinkTyped, StayStatus
  <2>6. stay' \in [status : StayStatus, total : Total, pay : {"unpaid", "partially_paid", "paid"}]
    BY <1>4, <2>4 DEF ApplyChange, LinkTyped, StayStatus
  <2>7. reviewed' \in [Requests -> {"none", "checked", "verified"}]
    BY <1>4 DEF ApplyChange, LinkTyped
  <2> QED BY <1>4, <2>3, <2>5, <2>6, <2>7 DEF ApplyChange, paymentVars, LinkTyped
<1> QED BY <1>1, <1>2, <1>3, <1>4

-----------------------------------------------------------------------------
(* What no step takes back.                                                *)

\* What a write to a row leaves as it is.
SameTerms(new, old) ==
    /\ new.change = old.change /\ new.amount = old.amount /\ new.total = old.total
    /\ new.paid = old.paid /\ new.funds = old.funds

LEMMA StatusKeeps ==
  ASSUME NEW old \in Request, NEW new, NEW t, new = [old EXCEPT !.status = t]
  PROVE  SameTerms(new, old) /\ new.status = t /\ new.approved = old.approved
         /\ new.next = old.next
  BY DEF Request, SameTerms

\* A row that exists is closed, redirected or approved, and keeps what it asks for.
RowKept(new, old) ==
    /\ new.status # "none"
    /\ new.status = "draft" => old.status = "draft"
    /\ SameTerms(new, old)
    /\ old.approved => new.approved
    /\ new.approved => old.approved \/ old.status = "draft"

RowsGrow ==
    \A r \in Requests : request[r].status # "none" => RowKept(request'[r], request[r])

\* A payment keeps its amount and its link, and a verified one stays so.
PaymentsGrow ==
    \A p \in Payments :
        /\ attempt[p].status # "none" =>
             /\ attempt'[p].status # "none"
             /\ attempt'[p].amount = attempt[p].amount /\ attempt'[p].req = attempt[p].req
        /\ attempt[p].status = "succeeded" => attempt'[p].status = "succeeded"

\* The actions that write requests, row by row.
LEMMA IssueRows ==
  ASSUME LinkTyped, NEW r \in Requests, Issue(r)
  PROVE  /\ request[r].status = "none"
         /\ request'[r].status = "open" /\ request'[r].change = None
         /\ request'[r].amount = Booked /\ request'[r].total = Booked
         /\ ~ request'[r].approved
         /\ \A s \in Requests \ {r} : request'[s] = request[s] /\ request[s].status # "open"
         /\ UNCHANGED <<attempt, gate, stay, remote, change, reviewed>>
<1>1. request'[r] = [NoRequest EXCEPT !.status = "open", !.amount = Booked, !.total = stay.total]
      /\ \A s \in Requests \ {r} : request'[s] = request[s]
  BY DEF Issue, LinkTyped
<1>2. request[r].status = "none"
  <2>1. r >= r BY DEF Requests
  <2> QED BY <2>1 DEF Issue, IsNext
<1>3. stay.total = Booked BY DEF Issue, Eligible
<1>4. /\ request'[r].status = "open" /\ request'[r].change = None
      /\ request'[r].amount = Booked /\ request'[r].total = Booked
      /\ ~ request'[r].approved
  BY <1>1, <1>3 DEF NoRequest
<1> QED BY <1>1, <1>2, <1>4 DEF Issue, bookingVars, paymentVars

LEMMA PreviewRows ==
  ASSUME LinkTyped, NEW r \in Requests, NEW c \in Changes, PreparePreview(r, c)
  PROVE  /\ request[r].status = "none"
         /\ request'[r].status = "draft" /\ request'[r].change = c
         /\ request'[r].amount = change[c].total - Paid /\ request'[r].total = change[c].total
         /\ request'[r].paid = Paid /\ request'[r].funds = Signature(r)
         /\ ~ request'[r].approved /\ request'[r].next = None
         /\ \A s \in Requests \ {r} :
              request'[s] = IF request[s].status = "draft"
                            THEN [request[s] EXCEPT !.status = "revoked"] ELSE request[s]
         /\ change[c].total > Paid /\ With(Unresolved) = {}
         /\ UNCHANGED <<attempt, gate, stay, remote, change, reviewed>>
<1>1. request[r].status = "none"
  <2>1. r >= r BY DEF Requests
  <2> QED BY <2>1 DEF PreparePreview, IsNext
<1>2. request'[r] = [status |-> "draft", change |-> c, amount |-> change[c].total - Paid,
                     total |-> change[c].total, paid |-> Paid, funds |-> Signature(r),
                     approved |-> FALSE, next |-> None]
      /\ \A s \in Requests \ {r} :
              request'[s] = IF request[s].status = "draft"
                            THEN [request[s] EXCEPT !.status = "revoked"] ELSE request[s]
  BY DEF PreparePreview
<1> QED BY <1>1, <1>2 DEF PreparePreview, Reviewable, bookingVars, paymentVars

LEMMA ActivateRows ==
  ASSUME LinkTyped, NEW r \in Requests, ActivateRevision(r)
  PROVE  /\ request[r].status = "draft"
         /\ SameTerms(request'[r], request[r])
         /\ request'[r].status = "open" /\ request'[r].approved
         /\ request'[r].next = request[r].next
         /\ \A s \in Requests \ {r} :
              /\ request[s].status \in {"none", "draft"} => request'[s] = request[s]
              /\ request[s].status \notin {"none", "draft"} =>
                   \E t \in {"revoked", "paid", "review"} :
                      request'[s] = [request[s] EXCEPT !.next = r, !.status = t]
         /\ UNCHANGED <<attempt, gate, remote, change, reviewed>>
         /\ stay'.status = stay.status /\ stay'.total = stay.total
<1>1. \A s \in Requests : request[s].status \in RequestStatus BY RowWrites
<1>2. ASSUME NEW s \in Requests \ {r}, request[s].status \notin {"none", "draft"}
      PROVE  \E t \in {"revoked", "paid", "review"} :
                 request'[s] = [request[s] EXCEPT !.next = r, !.status = t]
  <2>1. CASE request[s].status = "open"
    <3>1. request'[s] = [request[s] EXCEPT !.next = r, !.status = "revoked"]
      BY <1>2, <2>1 DEF ActivateRevision
    <3> QED BY <3>1
  <2>2. CASE request[s].status # "open"
    <3>1. request'[s] = [request[s] EXCEPT !.next = r, !.status = request[s].status]
      BY <1>2, <2>2 DEF ActivateRevision
    <3> QED BY <1>1, <1>2, <2>2, <3>1 DEF RequestStatus
  <2> QED BY <2>1, <2>2
<1>3. /\ request[r].status = "draft"
      /\ request'[r] = [request[r] EXCEPT !.status = "open", !.approved = TRUE]
      /\ \A s \in Requests \ {r} :
            request[s].status \in {"none", "draft"} => request'[s] = request[s]
      /\ UNCHANGED <<attempt, gate, remote, change, reviewed>>
  BY DEF ActivateRevision, DraftCurrent, paymentVars
<1>4. stay'.status = stay.status /\ stay'.total = stay.total
  BY DEF ActivateRevision, LinkTyped
<1>5. /\ SameTerms(request'[r], request[r])
      /\ request'[r].status = "open" /\ request'[r].approved
      /\ request'[r].next = request[r].next
  <2>1. request[r] \in Request BY DEF LinkTyped
  <2> QED BY <1>3, <2>1 DEF Request, SameTerms
<1> QED BY <1>2, <1>3, <1>4, <1>5

\* Revoke, RecordOffline and Complete: rows are closed, and none is opened.
Closes ==
    \A s \in Requests :
        \/ request'[s] = request[s]
        \/ /\ request[s].status \notin {"none", "draft", "paid"}
           /\ \E t \in {"revoked", "paid", "review"} :
                request'[s] = [request[s] EXCEPT !.status = t]

LEMMA ClosingRows ==
  ASSUME LinkTyped, Gates,
         \/ \E r \in Requests : Revoke(r)
         \/ \E p \in Payments : RecordOffline(p) \/ Complete(p)
  PROVE  /\ Closes /\ UNCHANGED <<remote, change, reviewed>>
         /\ stay'.status = stay.status /\ stay'.total = stay.total
<1>1. ASSUME NEW r \in Requests, Revoke(r)
      PROVE  Closes /\ UNCHANGED <<remote, change, reviewed, stay>>
  BY <1>1 DEF Revoke, Closes, bookingVars, LinkTyped
<1>2. ASSUME NEW p \in Payments, RecordOffline(p)
      PROVE  Closes /\ UNCHANGED <<remote, change, reviewed>>
             /\ stay'.status = stay.status /\ stay'.total = stay.total
  BY <1>2 DEF RecordOffline, Closes, LinkTyped
<1>3. ASSUME NEW p \in Payments, Complete(p)
      PROVE  Closes /\ UNCHANGED <<remote, change, reviewed>>
             /\ stay'.status = stay.status /\ stay'.total = stay.total
  <2> DEFINE r == attempt[p].req
  <2>1. r \in Requests /\ request[r].status \notin {"none", "draft", "paid"}
    BY <1>3 DEF Complete, LinkTyped, Gates, Gate
  <2>2. \E t \in {"paid", "review"} : request' = [request EXCEPT ![r].status = t]
    BY <1>3 DEF Complete
  <2>3. Closes BY <2>1, <2>2 DEF Closes, LinkTyped
  <2>4. stay'.status = stay.status /\ stay'.total = stay.total BY <1>3 DEF Complete, LinkTyped
  <2> QED BY <1>3, <2>3, <2>4 DEF Complete
<1> QED BY <1>1, <1>2, <1>3

\* The other steps leave the requests alone.
Quiet == request' = request

LEMMA RequestSteps ==
  ASSUME LinkTyped, [LinksNext]_linksVars
  PROVE  \/ Quiet
         \/ \E r \in Requests : Issue(r) \/ ActivateRevision(r) \/ Revoke(r)
         \/ \E r \in Requests, c \in Changes : PreparePreview(r, c)
         \/ \E p \in Payments : RecordOffline(p) \/ Complete(p)
<1>1. CASE UNCHANGED linksVars BY <1>1 DEF Quiet, linksVars, linkVars
<1>2. CASE UNCHANGED <<bookingVars, linkVars, paymentVars>> BY <1>2 DEF Quiet, linkVars
<1>3. ASSUME NEW r \in Requests,
             Visit(r) \/ ApprovePreview(r) \/ ApplyChange(r) \/ VerifyRevision(r)
      PROVE  Quiet
  BY <1>3 DEF Quiet, Visit, ApprovePreview, ApplyChange, VerifyRevision
<1>4. ASSUME NEW r \in Requests, NEW p \in Payments, ClaimAttempt(r, p) PROVE Quiet
  BY <1>4 DEF Quiet, ClaimAttempt, linkVars
<1>5. ASSUME NEW p \in Payments, OpenCheckout(p) \/ Charge(p) \/ Verify(p) PROVE Quiet
  BY <1>5 DEF Quiet, OpenCheckout, Charge, Verify, linkVars
<1>6. ASSUME NEW c \in Changes, NEW t \in Prices, SetFinalTotal(c, t) PROVE Quiet
  BY <1>6 DEF Quiet, SetFinalTotal, linkVars
<1>7. CASE EditInHostaway \/ Refresh BY <1>7 DEF Quiet, EditInHostaway, Refresh, linkVars
<1> QED BY <1>1, <1>2, <1>3, <1>4, <1>5, <1>6, <1>7 DEF LinksNext, LinkSteps

LEMMA RowsKeep == ASSUME LinkTyped, Gates, [LinksNext]_linksVars PROVE RowsGrow
<1> SUFFICES ASSUME NEW s \in Requests, request[s].status # "none"
             PROVE  RowKept(request'[s], request[s])
  BY DEF RowsGrow
<1>1. request[s] \in Request BY DEF LinkTyped
<1>2. CASE request'[s] = request[s] BY <1>2 DEF RowKept, SameTerms
<1>3. ASSUME NEW t, request'[s] = [request[s] EXCEPT !.status = t], t \notin {"none", "draft"}
      PROVE  RowKept(request'[s], request[s])
  BY <1>1, <1>3, StatusKeeps DEF RowKept
<1>4. ASSUME NEW r \in Requests, Issue(r) PROVE RowKept(request'[s], request[s])
  BY <1>2, <1>4, IssueRows
<1>5. ASSUME NEW r \in Requests, ActivateRevision(r) PROVE RowKept(request'[s], request[s])
  <2>1. CASE s = r BY <1>1, <1>5, <2>1, ActivateRows DEF RowKept
  <2>2. CASE s # r
    <3>1. CASE request[s].status = "draft" BY <1>2, <1>5, <2>2, <3>1, ActivateRows
    <3>2. CASE request[s].status # "draft"
      <4>1. PICK t \in {"revoked", "paid", "review"} :
               request'[s] = [request[s] EXCEPT !.next = r, !.status = t]
        BY <1>5, <2>2, <3>2, ActivateRows
      <4>2. /\ SameTerms(request'[s], request[s]) /\ request'[s].status = t
            /\ request'[s].approved = request[s].approved
        BY <1>1, <4>1 DEF Request, SameTerms
      <4> QED BY <4>1, <4>2 DEF RowKept
    <3> QED BY <3>1, <3>2
  <2> QED BY <2>1, <2>2
<1>6. CASE Closes BY <1>2, <1>3, <1>6 DEF Closes
<1>7. ASSUME NEW r \in Requests, NEW c \in Changes, PreparePreview(r, c)
      PROVE  RowKept(request'[s], request[s])
  <2>1. s # r BY <1>7, PreviewRows
  <2>2. request'[s] = request[s] \/ request'[s] = [request[s] EXCEPT !.status = "revoked"]
    BY <1>7, <2>1, PreviewRows
  <2> QED BY <1>2, <1>3, <2>2
<1>8. CASE Quiet BY <1>2, <1>8 DEF Quiet
<1> QED BY <1>4, <1>5, <1>6, <1>7, <1>8, RequestSteps, ClosingRows

\* A payment's row is written by itself.
LEMMA PaymentSteps ==
  ASSUME LinkTyped, [LinksNext]_linksVars
  PROVE  \/ UNCHANGED <<attempt, gate>>
         \/ \E r \in Requests, p \in Payments : ClaimAttempt(r, p)
         \/ \E p \in Payments : RecordOffline(p) \/ OpenCheckout(p) \/ Charge(p) \/ Verify(p)
<1>1. CASE UNCHANGED linksVars BY <1>1 DEF linksVars, paymentVars
<1>2. CASE UNCHANGED <<bookingVars, linkVars, paymentVars>> BY <1>2 DEF paymentVars
<1>3. ASSUME NEW r \in Requests,
             \/ Visit(r) \/ ApprovePreview(r) \/ ApplyChange(r) \/ VerifyRevision(r)
             \/ Issue(r) \/ Revoke(r) \/ ActivateRevision(r)
             \/ \E c \in Changes : PreparePreview(r, c)
      PROVE  UNCHANGED <<attempt, gate>>
  BY <1>3 DEF Visit, ApprovePreview, ApplyChange, VerifyRevision, Issue, Revoke,
              ActivateRevision, PreparePreview, paymentVars
<1>4. ASSUME NEW p \in Payments, Complete(p) PROVE UNCHANGED <<attempt, gate>>
  BY <1>4 DEF Complete, paymentVars
<1>5. ASSUME NEW c \in Changes, NEW t \in Prices, SetFinalTotal(c, t)
      PROVE  UNCHANGED <<attempt, gate>>
  BY <1>5 DEF SetFinalTotal, paymentVars
<1>6. CASE EditInHostaway \/ Refresh BY <1>6 DEF EditInHostaway, Refresh, paymentVars
<1> QED BY <1>1, <1>2, <1>3, <1>4, <1>5, <1>6 DEF LinksNext, LinkSteps

\* What an action writes of payment p, and that it writes no other.
Writes(p) ==
    /\ \A q \in Payments : q # p => attempt'[q] = attempt[q] /\ gate'[q] = gate[q]
    /\ attempt[p].status # "succeeded"

LEMMA ClaimWrites ==
  ASSUME LinkTyped, NEW r \in Requests, NEW p \in Payments, ClaimAttempt(r, p)
  PROVE  /\ Writes(p) /\ attempt[p].status = "none" /\ With(Unresolved) = {}
         /\ attempt'[p].status = "created" /\ attempt'[p].req = r
         /\ attempt'[p].amount = request[r].amount
         /\ gate' = gate /\ request' = request
  BY DEF ClaimAttempt, Writes, linkVars, LinkTyped

LEMMA OfflineWrites ==
  ASSUME LinkTyped, NEW p \in Payments, RecordOffline(p)
  PROVE  /\ Writes(p) /\ attempt[p].status = "none" /\ With(Unresolved \cup {"succeeded"}) = {}
         /\ attempt'[p].status = "succeeded" /\ attempt'[p].req = None
         /\ attempt'[p].amount = stay.total /\ gate' = gate
  BY DEF RecordOffline, Writes, LinkTyped

LEMMA OpenWrites ==
  ASSUME LinkTyped, NEW p \in Payments, OpenCheckout(p)
  PROVE  /\ Writes(p) /\ attempt[p].status = "created" /\ gate[p] = "none"
         /\ attempt'[p].req = attempt[p].req /\ attempt'[p].amount = attempt[p].amount
         /\ \/ attempt'[p].status = "pending" /\ gate'[p] = "ready"
            \/ attempt'[p].status = "review" /\ gate'[p] = "none"
         /\ request' = request
  BY DEF OpenCheckout, Writes, linkVars, LinkTyped

LEMMA ChargeWrites ==
  ASSUME LinkTyped, NEW p \in Payments, Charge(p)
  PROVE  /\ \A q \in Payments : q # p => gate'[q] = gate[q]
         /\ gate[p] = "ready" /\ gate'[p] \in {"charged", "refused"}
         /\ attempt' = attempt /\ request' = request
  BY DEF Charge, linkVars, LinkTyped

LEMMA VerifyWrites ==
  ASSUME LinkTyped, NEW p \in Payments, Verify(p)
  PROVE  /\ Writes(p) /\ gate[p] # "none" /\ gate' = gate /\ request' = request
         /\ attempt'[p].req = attempt[p].req /\ attempt'[p].amount = attempt[p].amount
         /\ \/ attempt'[p].status \in {"unknown", "review"}
            \/ attempt'[p].status = "succeeded" /\ gate[p] = "charged"
            \/ attempt'[p].status = "failed" /\ gate[p] = "refused"
<1>1. PICK s \in AttemptStatus :
         /\ attempt' = [attempt EXCEPT ![p].status = s]
         /\ \/ s \in {"unknown", "review"}
            \/ s = "succeeded" /\ gate[p] = "charged"
            \/ s = "failed" /\ gate[p] = "refused"
  BY DEF Verify, AttemptStatus
<1>2. /\ \A q \in Payments : q # p => attempt'[q] = attempt[q]
      /\ attempt'[p].status = s
      /\ attempt'[p].req = attempt[p].req /\ attempt'[p].amount = attempt[p].amount
  BY <1>1 DEF LinkTyped
<1> QED BY <1>1, <1>2 DEF Verify, Writes, linkVars

LEMMA PaymentsKeep == ASSUME LinkTyped, [LinksNext]_linksVars PROVE PaymentsGrow
<1>1. CASE UNCHANGED <<attempt, gate>> BY <1>1 DEF PaymentsGrow
<1>2. ASSUME NEW r \in Requests, NEW p \in Payments, ClaimAttempt(r, p) PROVE PaymentsGrow
  BY <1>2, ClaimWrites DEF Writes, PaymentsGrow
<1>3. ASSUME NEW p \in Payments, RecordOffline(p) PROVE PaymentsGrow
  BY <1>3, OfflineWrites DEF Writes, PaymentsGrow
<1>4. ASSUME NEW p \in Payments, OpenCheckout(p) PROVE PaymentsGrow
  BY <1>4, OpenWrites DEF Writes, PaymentsGrow
<1>5. ASSUME NEW p \in Payments, Charge(p) PROVE PaymentsGrow
  BY <1>5, ChargeWrites DEF PaymentsGrow
<1>6. ASSUME NEW p \in Payments, Verify(p) PROVE PaymentsGrow
  BY <1>6, VerifyWrites DEF Writes, PaymentsGrow
<1> QED BY <1>1, <1>2, <1>3, <1>4, <1>5, <1>6, PaymentSteps

-----------------------------------------------------------------------------
(* Payments, and what they are made with.                                  *)

\* A payment nobody touches.
LEMMA GateKept ==
  ASSUME LinkTyped, Gates, RowsGrow, NEW q \in Payments,
         attempt'[q] = attempt[q], gate'[q] = gate[q]
  PROVE  Gate(q)'
<1>1. Gate(q) BY DEF Gates
<1>2. CASE attempt[q].req = None BY <1>1, <1>2 DEF Gate
<1>3. CASE attempt[q].req # None
  <2> DEFINE r == attempt[q].req
  <2>1. r \in Requests /\ request[r].status \notin {"none", "draft"}
    BY <1>1, <1>3 DEF Gate, LinkTyped
  <2>2. RowKept(request'[r], request[r]) BY <2>1 DEF RowsGrow
  <2> QED BY <1>1, <1>3, <2>1, <2>2 DEF Gate, RowKept, SameTerms
<1> QED BY <1>2, <1>3

LEMMA GatesKept ==
  ASSUME LinkTyped, LinkTyped', Gates, RowsGrow, [LinksNext]_linksVars
  PROVE  Gates'
<1>1. CASE UNCHANGED <<attempt, gate>> BY <1>1, GateKept DEF Gates
<1>2. ASSUME NEW p \in Payments, Writes(p), Gate(p)' PROVE Gates'
  BY <1>2, GateKept DEF Writes, Gates
<1>3. ASSUME NEW r \in Requests, NEW p \in Payments, ClaimAttempt(r, p) PROVE Gates'
  <2>1. request[r].status = "open" /\ (request[r].change # None => request[r].approved)
    BY <1>3 DEF ClaimAttempt, ValidOpen, ValidRevision
  <2>2. gate[p] = "none" BY <1>3, ClaimWrites DEF Gates, Gate
  <2>3. r # None BY DEF Requests, None
  <2>4. Gate(p)' BY <1>3, <2>1, <2>2, <2>3, ClaimWrites DEF Gate, Unresolved
  <2> QED BY <1>2, <1>3, <2>4, ClaimWrites
<1>4. ASSUME NEW p \in Payments, RecordOffline(p) PROVE Gates'
  <2>1. gate[p] = "none" BY <1>4, OfflineWrites DEF Gates, Gate
  <2>2. Gate(p)' BY <1>4, <2>1, OfflineWrites DEF Gate, Unresolved
  <2> QED BY <1>2, <1>4, <2>2, OfflineWrites
<1>5. ASSUME NEW p \in Payments, OpenCheckout(p) PROVE Gates'
  <2>1. Gate(p) BY DEF Gates
  <2>2. attempt[p].req # None BY <1>5, <2>1, OpenWrites DEF Gate, Unresolved
  <2>3. Gate(p)' BY <1>5, <2>1, <2>2, OpenWrites DEF Gate, Unresolved
  <2> QED BY <1>2, <1>5, <2>3, OpenWrites
<1>6. ASSUME NEW p \in Payments, Charge(p) PROVE Gates'
  <2>1. \A q \in Payments : q # p => Gate(q)' BY <1>6, ChargeWrites, GateKept
  <2>2. Gate(p) BY DEF Gates
  <2>3. Gate(p)' BY <1>6, <2>2, ChargeWrites DEF Gate
  <2> QED BY <2>1, <2>3 DEF Gates
<1>7. ASSUME NEW p \in Payments, Verify(p) PROVE Gates'
  <2>1. Gate(p) BY DEF Gates
  <2>2. attempt[p].req # None BY <1>7, <2>1, VerifyWrites DEF Gate
  <2>3. Gate(p)' BY <1>7, <2>1, <2>2, VerifyWrites DEF Gate, Unresolved
  <2> QED BY <1>2, <1>7, <2>3, VerifyWrites
<1> QED BY <1>1, <1>3, <1>4, <1>5, <1>6, <1>7, PaymentSteps

\* The receipts a link is for do not change behind a payment for it.
LEMMA FundsKept ==
  ASSUME LinkTyped, Gates, RowsGrow, NEW q \in Payments, Live(q)
  PROVE  /\ attempt[q].req \in Requests
         /\ request'[attempt[q].req].change = request[attempt[q].req].change
         /\ request'[attempt[q].req].funds = request[attempt[q].req].funds
<1>1. Gate(q) /\ attempt[q].req # None BY DEF Gates, Gate, Live
<1>2. attempt[q].req \in Requests /\ request[attempt[q].req].status # "none"
  BY <1>1 DEF Gate, LinkTyped
<1> QED BY <1>2 DEF RowsGrow, RowKept, SameTerms

\* A claim needs everything else settled; what it is made for is what has succeeded.
LEMMA ClaimFunds ==
  ASSUME LinkTyped, NEW r \in Requests, ValidOpen(r),
         (IF request[r].change = None THEN With({"succeeded"})
                                      ELSE Of(r) \cap With({"succeeded"})) = {}
  PROVE  With({"succeeded"}) = IF request[r].change = None THEN {} ELSE FundsOf(r)
<1>1. CASE request[r].change = None BY <1>1
<1>2. CASE request[r].change # None
  <2>1. request[r].funds = Signature(r) BY <1>2 DEF ValidOpen, ValidRevision
  <2>2. ASSUME NEW p \in Payments PROVE p \in With({"succeeded"}) <=> p \in FundsOf(r)
    <3>1. request[r].funds[p] = IF attempt[p].req = r THEN "none" ELSE attempt[p].status
      BY <2>1 DEF Signature
    <3>2. attempt[p].req = r => attempt[p].status # "succeeded" BY <1>2 DEF Of, With
    <3> QED BY <3>1, <3>2 DEF With, FundsOf
  <2> QED BY <1>2, <2>2 DEF With, FundsOf
<1> QED BY <1>1, <1>2

LEMMA OneLiveKept ==
  ASSUME LinkTyped, LinkTyped', Gates, RowsGrow, OneLive, LiveFunds, [LinksNext]_linksVars
  PROVE  OneLive' /\ LiveFunds'
<1>1. ASSUME \A q \in Payments : Live(q)' => Live(q) /\ attempt'[q].req = attempt[q].req,
             (\E q \in Payments : Live(q)') => With({"succeeded"})' = With({"succeeded"})
      PROVE  OneLive' /\ LiveFunds'
  <2>1. OneLive' BY <1>1 DEF OneLive
  <2>2. LiveFunds'
    <3> SUFFICES ASSUME NEW q \in Payments, Live(q)'
                 PROVE  With({"succeeded"})' =
                          IF request'[attempt'[q].req].change = None THEN {}
                          ELSE {p \in Payments : request'[attempt'[q].req].funds[p] = "succeeded"}
      BY DEF LiveFunds, FundsOf
    <3>1. Live(q) /\ attempt'[q].req = attempt[q].req
          /\ With({"succeeded"})' = With({"succeeded"})
      BY <1>1
    <3>2. With({"succeeded"}) = IF request[attempt[q].req].change = None THEN {}
                                ELSE FundsOf(attempt[q].req)
      BY <3>1 DEF LiveFunds
    <3> DEFINE r == attempt[q].req
    <3>3. request'[r].change = request[r].change /\ request'[r].funds = request[r].funds
      BY <3>1, FundsKept
    <3>4. {p \in Payments : request'[r].funds[p] = "succeeded"} = FundsOf(r)
      BY <3>3 DEF FundsOf
    <3>5. With({"succeeded"}) = IF request[r].change = None THEN {} ELSE FundsOf(r)
      BY <3>2
    <3>6. attempt'[q].req = r BY <3>1
    <3> HIDE DEF r
    <3> QED BY <3>1, <3>3, <3>4, <3>5, <3>6
  <2> QED BY <2>1, <2>2
<1>2. CASE UNCHANGED <<attempt, gate>>
  BY <1>1, <1>2 DEF Live, With
<1>3. ASSUME NEW r \in Requests, NEW p \in Payments, ClaimAttempt(r, p)
      PROVE  OneLive' /\ LiveFunds'
  <2>1. \A q \in Payments : ~ Live(q) BY <1>3, ClaimWrites DEF With, Live
  <2>2. \A q \in Payments : Live(q)' => q = p BY <1>3, <2>1, ClaimWrites DEF Writes, Live
  <2>3. With({"succeeded"})' = With({"succeeded"})
    BY <1>3, ClaimWrites DEF Writes, With
  <2>4. With({"succeeded"}) = IF request[r].change = None THEN {} ELSE FundsOf(r)
    BY <1>3, ClaimFunds DEF ClaimAttempt
  <2>5. attempt'[p].req = r /\ request' = request BY <1>3, ClaimWrites
  <2>6. LiveFunds' BY <2>2, <2>3, <2>4, <2>5 DEF LiveFunds, FundsOf
  <2> QED BY <2>2, <2>6 DEF OneLive
<1>4. ASSUME NEW p \in Payments, RecordOffline(p) PROVE OneLive' /\ LiveFunds'
  <2>1. \A q \in Payments : ~ Live(q) BY <1>4, OfflineWrites DEF With, Live
  <2>2. \A q \in Payments : ~ Live(q)'
    BY <1>4, <2>1, OfflineWrites DEF Writes, Live, Unresolved
  <2> QED BY <2>2 DEF OneLive, LiveFunds
<1>5. ASSUME NEW p \in Payments, OpenCheckout(p) PROVE OneLive' /\ LiveFunds'
  <2>1. \A q \in Payments : Live(q)' => Live(q) /\ attempt'[q].req = attempt[q].req
    BY <1>5, OpenWrites DEF Writes, Live, Unresolved
  <2>2. With({"succeeded"})' = With({"succeeded"})
    BY <1>5, OpenWrites DEF Writes, With
  <2> QED BY <1>1, <2>1, <2>2
<1>6. ASSUME NEW p \in Payments, Charge(p) PROVE OneLive' /\ LiveFunds'
  <2>1. \A q \in Payments : Live(q)' => Live(q) /\ attempt'[q].req = attempt[q].req
    BY <1>6, ChargeWrites DEF Live
  <2>2. With({"succeeded"})' = With({"succeeded"})
    BY <1>6, ChargeWrites DEF With
  <2> QED BY <1>1, <2>1, <2>2
<1>7. ASSUME NEW p \in Payments, Verify(p) PROVE OneLive' /\ LiveFunds'
  <2>1. Gate(p) /\ gate' = gate /\ Writes(p) /\ attempt'[p].req = attempt[p].req
    BY <1>7, VerifyWrites DEF Gates
  <2>2. Live(p)' => Live(p)
    <3>1. attempt[p].status \in AttemptStatus BY DEF LinkTyped
    <3>2. gate[p] # "none" BY <1>7, VerifyWrites
    <3> QED BY <2>1, <3>1, <3>2 DEF Live, Gate, AttemptStatus, Unresolved, Writes
  <2>3. \A q \in Payments : Live(q)' => Live(q) /\ attempt'[q].req = attempt[q].req
    BY <2>1, <2>2 DEF Writes, Live
  <2>4. ASSUME NEW q \in Payments, Live(q)' PROVE With({"succeeded"})' = With({"succeeded"})
    <3>1. attempt'[p].status # "succeeded"
      <4>1. CASE q = p BY <2>4, <4>1 DEF Live, Unresolved
      <4>2. CASE q # p
        <5>1. ~ Live(p) BY <2>3, <2>4, <4>2 DEF OneLive
        <5>2. gate[p] = "refused"
          <6>1. attempt[p].status \in AttemptStatus BY DEF LinkTyped
          <6>2. gate[p] # "none" BY <1>7, VerifyWrites
          <6> QED BY <2>1, <5>1, <6>1, <6>2 DEF Live, Gate, AttemptStatus, Unresolved, Writes
        <5> QED BY <1>7, <5>2, VerifyWrites
      <4> QED BY <4>1, <4>2
    <3> QED BY <2>1, <3>1 DEF Writes, With
  <2> QED BY <1>1, <2>3, <2>4
<1> QED BY <1>2, <1>3, <1>4, <1>5, <1>6, <1>7, PaymentSteps

\* What a revision asks for is what was left of its price.
LEMMA RowsKept ==
  ASSUME LinkTyped, LinkTyped', Gates, Rows, RowsGrow, PaymentsGrow, [LinksNext]_linksVars
  PROVE  Rows'
<1> SUFFICES ASSUME NEW s \in Requests, request'[s].status # "none" PROVE RequestRow(s)'
  BY DEF Rows
<1> DEFINE amounts == [p \in Payments |-> attempt'[p].amount]
           funds == {p \in Payments : request'[s].funds[p] = "succeeded"}
<1>1. Amount(FundsOf(s))' = SumOver(amounts, funds)
  BY DEF Amount, FundsOf
<1>2. CASE request[s].status # "none"
  <2>1. RowKept(request'[s], request[s]) /\ RequestRow(s) BY <1>2 DEF RowsGrow, Rows
  <2>2. CASE request[s].change = None
    BY <2>1, <2>2 DEF RequestRow, RowKept, SameTerms, RowsGrow
  <2>3. CASE request[s].change # None
    <3>1. funds = FundsOf(s) BY <2>1 DEF FundsOf, RowKept, SameTerms
    <3>2. \A p \in FundsOf(s) : attempt[p].status = "succeeded" /\ attempt[p].req # s
      BY <2>1, <2>3 DEF RequestRow, FundsOf
    <3>3. \A p \in FundsOf(s) : /\ attempt'[p].status = "succeeded" /\ attempt'[p].req # s
                                /\ attempt'[p].amount = attempt[p].amount
      BY <3>2 DEF PaymentsGrow, FundsOf
    <3>4. SumOver(amounts, funds) = Amount(FundsOf(s))
      <4>1. FundsOf(s) \in SUBSET Payments BY DEF FundsOf
      <4> QED BY <3>1, <3>3, <4>1, AmountKept
    <3>5. request'[s].paid = Amount(FundsOf(s))'
      BY <1>1, <2>1, <2>3, <3>4 DEF RequestRow, RowKept, SameTerms
    <3>6. \A p \in Payments :
            /\ request'[s].funds[p] \notin Unresolved
            /\ request'[s].funds[p] = "succeeded" =>
                 attempt'[p].status = "succeeded" /\ attempt'[p].req # s
      BY <2>1, <2>3, <3>3 DEF RequestRow, RowKept, SameTerms, FundsOf
    <3>7. /\ request'[s].amount > 0
          /\ request'[s].paid + request'[s].amount = request'[s].total
          /\ request'[s].change # None
      BY <2>1, <2>3 DEF RequestRow, RowKept, SameTerms
    <3> HIDE DEF amounts, funds
    <3> QED BY <3>5, <3>6, <3>7 DEF RequestRow
  <2> QED BY <2>2, <2>3
<1>3. CASE request[s].status = "none"
  <2>1. \/ Issue(s) \/ \E c \in Changes : PreparePreview(s, c)
    <3>1. request'[s] # request[s] BY <1>3
    <3>2. ASSUME NEW r \in Requests, ActivateRevision(r) PROVE FALSE
      BY <1>3, <3>1, <3>2, ActivateRows
    <3>3. ASSUME Closes PROVE FALSE BY <1>3, <3>1, <3>3 DEF Closes
    <3>4. ASSUME NEW r \in Requests, Issue(r) PROVE Issue(s)
      BY <3>1, <3>4, IssueRows
    <3>5. ASSUME NEW r \in Requests, NEW c \in Changes, PreparePreview(r, c)
          PROVE  PreparePreview(s, c)
      BY <1>3, <3>1, <3>5, PreviewRows
    <3> QED BY <3>1, <3>2, <3>3, <3>4, <3>5, RequestSteps, ClosingRows DEF Quiet
  <2>2. CASE Issue(s)
    BY <2>2, IssueRows DEF RequestRow
  <2>3. ASSUME NEW c \in Changes, PreparePreview(s, c) PROVE RequestRow(s)'
    <3>1. /\ request'[s].change = c /\ request'[s].amount = change[c].total - Paid
          /\ request'[s].total = change[c].total /\ request'[s].paid = Paid
          /\ request'[s].funds = Signature(s) /\ change[c].total > Paid
          /\ With(Unresolved) = {} /\ attempt' = attempt /\ request[s].status = "none"
      BY <2>3, PreviewRows
    <3>2. Paid \in Nat /\ change[c].total \in Nat
      BY PaidNat, TotalsPositive DEF LinkTyped
    <3>3. /\ request'[s].amount > 0
          /\ request'[s].paid + request'[s].amount = request'[s].total
      BY <3>1, <3>2
    <3>4. \A p \in Payments : attempt[p].req # s
      <4>1. s # None BY DEF Requests, None
      <4> QED BY <3>1, <4>1 DEF Gates, Gate
    <3>5. \A p \in Payments : request'[s].funds[p] = attempt[p].status
      BY <3>1, <3>4 DEF Signature
    <3>6. funds = With({"succeeded"}) BY <3>5 DEF With
    <3>7. SumOver(amounts, funds) = Paid
      BY <3>1, <3>6 DEF Paid, Amount
    <3>8. \A p \in Payments :
            /\ request'[s].funds[p] \notin Unresolved
            /\ request'[s].funds[p] = "succeeded" =>
                 attempt'[p].status = "succeeded" /\ attempt'[p].req # s
      BY <3>1, <3>4, <3>5 DEF With
    <3>9. request'[s].paid = Amount(FundsOf(s))' /\ request'[s].change # None
      BY <1>1, <3>1, <3>7 DEF Changes, None
    <3> HIDE DEF amounts, funds
    <3> QED BY <3>3, <3>8, <3>9 DEF RequestRow
  <2> QED BY <2>1, <2>2, <2>3
<1> QED BY <1>2, <1>3

-----------------------------------------------------------------------------
(* The stay, approvals, and where the links lead.                          *)

\* The price of a stay moves here, and the changes with it.
LEMMA StaySteps ==
  ASSUME LinkTyped, Gates, [LinksNext]_linksVars
  PROVE  \/ stay'.status = stay.status /\ stay'.total = stay.total /\ UNCHANGED <<remote, change>>
         \/ EditInHostaway \/ Refresh
         \/ \E c \in Changes, t \in Prices : SetFinalTotal(c, t)
         \/ \E r \in Requests : ApplyChange(r)
<1> DEFINE Same == stay'.status = stay.status /\ stay'.total = stay.total
                   /\ UNCHANGED <<remote, change>>
<1>1. CASE UNCHANGED linksVars BY <1>1 DEF linksVars, bookingVars
<1>2. CASE UNCHANGED <<bookingVars, linkVars, paymentVars>> BY <1>2 DEF bookingVars
<1>3. ASSUME NEW r \in Requests,
             \/ Visit(r) \/ ApprovePreview(r) \/ VerifyRevision(r) \/ Issue(r)
             \/ \E c \in Changes : PreparePreview(r, c)
             \/ \E p \in Payments : ClaimAttempt(r, p)
      PROVE  Same
  BY <1>3 DEF Visit, ApprovePreview, VerifyRevision, Issue, PreparePreview, ClaimAttempt,
              bookingVars
<1>4. ASSUME NEW r \in Requests, ActivateRevision(r) PROVE Same
  BY <1>4, ActivateRows
<1>5. ASSUME NEW p \in Payments, OpenCheckout(p) \/ Charge(p) \/ Verify(p) PROVE Same
  BY <1>5 DEF OpenCheckout, Charge, Verify, bookingVars
<1>6. ASSUME NEW p \in Payments, RecordOffline(p) \/ Complete(p) PROVE Same
  BY <1>6, ClosingRows
<1>7. ASSUME NEW r \in Requests, Revoke(r) PROVE Same BY <1>7, ClosingRows
<1> HIDE DEF Same
<1>8. \/ Same \/ EditInHostaway \/ Refresh
      \/ \E c \in Changes, t \in Prices : SetFinalTotal(c, t)
      \/ \E r \in Requests : ApplyChange(r)
  BY <1>1, <1>2, <1>3, <1>4, <1>5, <1>6, <1>7 DEF LinksNext, LinkSteps, Same
<1> QED BY <1>8 DEF Same

\* Only approve_preview approves.
LEMMA ApprovedBefore ==
  ASSUME LinkTyped, Gates, Approvals, [LinksNext]_linksVars, NEW s \in Requests,
         request'[s].approved
  PROVE  \/ request[s].approved /\ request'[s].total = request[s].total
         \/ ActivateRevision(s)
<1>1. CASE request'[s] = request[s] BY <1>1
<1>2. request[s] \in Request BY DEF LinkTyped
<1>3. ASSUME NEW t, request'[s] = [request[s] EXCEPT !.status = t]
      PROVE  request[s].approved /\ request'[s].total = request[s].total
  BY <1>2, <1>3, StatusKeeps DEF SameTerms
<1>4. ASSUME NEW r \in Requests, Issue(r)
      PROVE  request[s].approved /\ request'[s].total = request[s].total
  BY <1>1, <1>4, IssueRows
<1>5. ASSUME NEW r \in Requests, r # s, ActivateRevision(r)
      PROVE  request[s].approved /\ request'[s].total = request[s].total
  <2>1. CASE request'[s] = request[s] BY <2>1
  <2>2. CASE request'[s] # request[s]
    <3>1. PICK t \in {"revoked", "paid", "review"} :
             request'[s] = [request[s] EXCEPT !.next = r, !.status = t]
      BY <1>5, <2>2, ActivateRows
    <3> QED BY <1>2, <3>1 DEF Request
  <2> QED BY <2>1, <2>2
<1>6. CASE Closes BY <1>1, <1>3, <1>6 DEF Closes
<1>7. ASSUME NEW r \in Requests, NEW c \in Changes, PreparePreview(r, c)
      PROVE  request[s].approved /\ request'[s].total = request[s].total
  <2>1. s # r BY <1>7, PreviewRows
  <2>2. request'[s] = request[s] \/ request'[s] = [request[s] EXCEPT !.status = "revoked"]
    BY <1>7, <2>1, PreviewRows
  <2> QED BY <1>3, <2>2
<1> QED BY <1>1, <1>4, <1>5, <1>6, <1>7, RequestSteps, ClosingRows DEF Quiet

LEMMA AsBookedKept ==
  ASSUME LinkTyped, Gates, Rows, Approvals, AsBooked, [LinksNext]_linksVars
  PROVE  AsBooked'
<1>1. ASSUME NEW s \in Requests, ActivateRevision(s), request'[s].total # Booked
      PROVE  stay'.status # "confirmed"
  <2>1. request'[s].total = request[s].total
    BY <1>1, ActivateRows DEF SameTerms
  <2>2. /\ reviewed[s] = "verified" /\ request[s].total = change[request[s].change].total
        /\ ChangeFits(request[s].change)
    BY <1>1 DEF ActivateRevision, DraftCurrent, Reviewable
  <2>3. stay.total = request[s].total BY <2>2 DEF ChangeFits, Approvals
  <2> QED BY <1>1, <2>1, <2>3, ActivateRows DEF AsBooked
<1>2. ASSUME stay'.status = "confirmed" => stay.status = "confirmed"
      PROVE  \A s \in Requests :
                request'[s].approved /\ request'[s].total # Booked => stay'.status # "confirmed"
  BY <1>1, <1>2, ApprovedBefore DEF AsBooked
<1>3. /\ remote'.status = "confirmed" => remote'.total = Booked /\ stay'.status = "confirmed"
      /\ stay'.status = "confirmed" => stay'.total = Booked
      /\ stay'.status = "confirmed" => stay.status = "confirmed"
  <2>1. CASE stay'.status = stay.status /\ stay'.total = stay.total /\ UNCHANGED <<remote, change>>
    BY <2>1 DEF AsBooked
  <2>2. CASE EditInHostaway BY <2>2 DEF EditInHostaway, LinkTyped, AsBooked
  <2>3. CASE Refresh BY <2>3 DEF Refresh, AsBooked
  <2>4. ASSUME NEW c \in Changes, NEW t \in Prices, SetFinalTotal(c, t)
        PROVE  UNCHANGED <<stay, remote>>
    BY <2>4 DEF SetFinalTotal
  <2>5. ASSUME NEW r \in Requests, ApplyChange(r)
        PROVE  /\ remote'.status # "confirmed" \/ remote' = remote
               /\ \/ stay' = stay
                  \/ stay'.status # "confirmed" /\ remote'.status # "confirmed"
    <3>1. CASE stay' = stay /\ remote' = remote BY <3>1
    <3>2. ASSUME NEW t, remote' = [status |-> "modified", total |-> t],
                 stay' = stay \/ stay' = [stay EXCEPT !.status = "modified", !.total = t]
          PROVE  /\ remote'.status = "modified"
                 /\ stay' = stay \/ stay'.status = "modified"
      BY <3>2 DEF LinkTyped
    <3> QED BY <2>5, <3>1, <3>2 DEF ApplyChange
  <2> QED BY <2>1, <2>2, <2>3, <2>4, <2>5, StaySteps DEF AsBooked
<1> QED BY <1>2, <1>3 DEF AsBooked

\* A change that is made stays made.
LEMMA CompletedKept ==
  ASSUME LinkTyped, Gates, Approvals, [LinksNext]_linksVars, NEW c \in Changes,
         change[c].status = "completed"
  PROVE  change'[c].status = "completed"
<1>1. CASE EditInHostaway BY <1>1 DEF EditInHostaway
<1>2. CASE Refresh BY <1>2 DEF Refresh
<1>3. ASSUME NEW d \in Changes, NEW t \in Prices, SetFinalTotal(d, t)
      PROVE  change'[c].status = "completed"
  <2>1. c # d BY <1>3 DEF SetFinalTotal
  <2> QED BY <1>3, <2>1 DEF SetFinalTotal
<1>4. ASSUME NEW r \in Requests, ApplyChange(r) PROVE change'[c].status = "completed"
  <2>1. c # request[r].change BY <1>4 DEF ApplyChange
  <2> QED BY <1>4, <2>1 DEF ApplyChange, LinkTyped
<1> QED BY <1>1, <1>2, <1>3, <1>4, StaySteps

\* How far the approval of a draft gets.
LEMMA ReviewSteps ==
  ASSUME LinkTyped, Gates, Rows, Approvals, [LinksNext]_linksVars, NEW r \in Requests
  PROVE  /\ reviewed'[r] # "none" => request[r].change # None
         /\ reviewed'[r] = "verified" => change[request[r].change].status = "completed"
<1>1. CASE reviewed' = reviewed BY <1>1 DEF Approvals
<1>2. ASSUME NEW s \in Requests, ApprovePreview(s)
      PROVE  /\ reviewed'[r] # "none" => request[r].change # None
             /\ reviewed'[r] = "verified" => change[request[r].change].status = "completed"
  <2>1. request[s].status = "draft" BY <1>2 DEF ApprovePreview, DraftCurrent
  <2>2. request[s].change # None BY <2>1 DEF Rows, RequestRow
  <2>3. reviewed' = [reviewed EXCEPT ![s] = "checked"] BY <1>2 DEF ApprovePreview
  <2> QED BY <2>2, <2>3 DEF Approvals, LinkTyped
<1>3. ASSUME NEW s \in Requests, VerifyRevision(s)
      PROVE  /\ reviewed'[r] # "none" => request[r].change # None
             /\ reviewed'[r] = "verified" => change[request[r].change].status = "completed"
  BY <1>3 DEF VerifyRevision, Approvals, LinkTyped
<1>4. ASSUME NEW s \in Requests, ApplyChange(s)
      PROVE  /\ reviewed'[r] # "none" => request[r].change # None
             /\ reviewed'[r] = "verified" => change[request[r].change].status = "completed"
  <2>1. reviewed' = reviewed \/ reviewed' = [reviewed EXCEPT ![s] = "none"]
    BY <1>4 DEF ApplyChange
  <2> QED BY <2>1 DEF Approvals, LinkTyped
<1>5. \/ reviewed' = reviewed
      \/ \E s \in Requests : ApprovePreview(s) \/ VerifyRevision(s) \/ ApplyChange(s)
  <2>1. CASE UNCHANGED linksVars \/ UNCHANGED <<bookingVars, linkVars, paymentVars>>
    BY <2>1 DEF linksVars, linkVars
  <2>2. ASSUME NEW s \in Requests,
               \/ Visit(s) \/ Issue(s) \/ Revoke(s) \/ ActivateRevision(s)
               \/ \E c \in Changes : PreparePreview(s, c)
               \/ \E p \in Payments : ClaimAttempt(s, p)
        PROVE  reviewed' = reviewed
    BY <2>2 DEF Visit, Issue, Revoke, ActivateRevision, PreparePreview, ClaimAttempt, linkVars
  <2>3. ASSUME NEW p \in Payments,
               RecordOffline(p) \/ OpenCheckout(p) \/ Charge(p) \/ Verify(p) \/ Complete(p)
        PROVE  reviewed' = reviewed
    BY <2>3 DEF RecordOffline, OpenCheckout, Charge, Verify, Complete, linkVars
  <2>4. ASSUME \/ EditInHostaway \/ Refresh
               \/ \E c \in Changes, t \in Prices : SetFinalTotal(c, t)
        PROVE  reviewed' = reviewed
    BY <2>4 DEF EditInHostaway, Refresh, SetFinalTotal, linkVars
  <2> QED BY <2>1, <2>2, <2>3, <2>4 DEF LinksNext, LinkSteps
<1> QED BY <1>1, <1>2, <1>3, <1>4, <1>5

LEMMA ApprovalsKept ==
  ASSUME LinkTyped, Gates, Rows, RowsGrow, Approvals, [LinksNext]_linksVars
  PROVE  Approvals'
<1> SUFFICES ASSUME NEW s \in Requests
             PROVE  /\ request'[s].status = "none" => request'[s].change = None
                    /\ request'[s].status \in {"none", "draft"} => ~ request'[s].approved
                    /\ request'[s].status \in {"none", "draft"} => request'[s].next = None
                    /\ reviewed'[s] # "none" => request'[s].change # None
                    /\ reviewed'[s] = "verified" =>
                         change'[request'[s].change].status = "completed"
  BY DEF Approvals
<1>1. /\ request'[s].status = "none" => request'[s] = request[s]
      /\ request'[s].status = "draft" =>
           request'[s] = request[s] \/ \E c \in Changes : PreparePreview(s, c)
  <2>1. CASE request'[s] = request[s] BY <2>1
  <2>2. ASSUME NEW t, t \notin {"none", "draft"}, request'[s] = [request[s] EXCEPT !.status = t]
        PROVE  request'[s].status \notin {"none", "draft"}
    BY <2>2, StatusKeeps DEF LinkTyped
  <2>3. ASSUME NEW r \in Requests, Issue(r)
        PROVE  request'[s] = request[s] \/ request'[s].status \notin {"none", "draft"}
    BY <2>3, IssueRows
  <2>4. ASSUME NEW r \in Requests, ActivateRevision(r)
        PROVE  request'[s] = request[s] \/ request'[s].status \notin {"none", "draft"}
    <3>1. CASE s = r BY <2>4, <3>1, ActivateRows
    <3>2. CASE s # r /\ request[s].status \notin {"none", "draft"}
      <4>1. PICK t \in {"revoked", "paid", "review"} :
               request'[s] = [request[s] EXCEPT !.next = r, !.status = t]
        BY <2>4, <3>2, ActivateRows
      <4>2. request[s] \in Request BY DEF LinkTyped
      <4> QED BY <4>1, <4>2 DEF Request
    <3>3. CASE s # r /\ request[s].status \in {"none", "draft"}
      BY <2>4, <3>3, ActivateRows
    <3> QED BY <3>1, <3>2, <3>3
  <2>5. CASE Closes BY <2>1, <2>2, <2>5 DEF Closes
  <2>6. ASSUME NEW r \in Requests, NEW c \in Changes, PreparePreview(r, c)
        PROVE  \/ request'[s] = request[s] \/ request'[s].status \notin {"none", "draft"}
               \/ request'[s].status = "draft" /\ PreparePreview(s, c)
    <3>1. CASE s = r BY <2>6, <3>1, PreviewRows
    <3>2. CASE s # r
      <4>1. request'[s] = request[s] \/ request'[s] = [request[s] EXCEPT !.status = "revoked"]
        BY <2>6, <3>2, PreviewRows
      <4> QED BY <2>2, <4>1
    <3> QED BY <3>1, <3>2
  <2> QED BY <2>1, <2>3, <2>4, <2>5, <2>6, RequestSteps, ClosingRows DEF Quiet
<1>2. /\ request'[s].status = "none" => request'[s].change = None
      /\ request'[s].status \in {"none", "draft"} => ~ request'[s].approved
      /\ request'[s].status \in {"none", "draft"} => request'[s].next = None
  BY <1>1, PreviewRows DEF Approvals
<1>3. /\ reviewed'[s] # "none" => request[s].change # None
      /\ reviewed'[s] = "verified" => change[request[s].change].status = "completed"
  BY ReviewSteps
<1>4. ASSUME reviewed'[s] # "none"
      PROVE  request'[s].change = request[s].change /\ request[s].change \in Changes
  <2>1. request[s].change # None /\ request[s].status # "none" BY <1>3, <1>4 DEF Approvals
  <2> QED BY <2>1 DEF RowsGrow, RowKept, SameTerms, LinkTyped, Request
<1> QED BY <1>2, <1>3, <1>4, CompletedKept

LEMMA TurnedKept ==
  ASSUME LinkTyped, Gates, Rows, Approvals, Turned, [LinksNext]_linksVars
  PROVE  Turned'
<1> SUFFICES ASSUME NEW o \in Requests, request'[o].status = "open", request'[o].approved
             PROVE  /\ request'[o].next = None
                    /\ \A r \in Requests \ {o} : Leads(r)' => request'[r].next = o
  BY DEF Turned
<1>1. CASE \A s \in Requests :
              /\ request'[s].status = "open" => request[s].status = "open"
              /\ request'[s].next = request[s].next /\ request'[s].approved = request[s].approved
              /\ Leads(s)' => Leads(s)
  BY <1>1 DEF Turned
<1>2. \A s \in Requests : request[s] \in Request BY DEF LinkTyped
<1>3. CASE Quiet BY <1>1, <1>3 DEF Quiet, Leads
<1>4. ASSUME NEW r \in Requests, Issue(r) PROVE FALSE
  BY <1>4, IssueRows
<1>5. CASE Closes
  <2> SUFFICES ASSUME NEW s \in Requests
               PROVE  /\ request'[s].status = "open" => request[s].status = "open"
                      /\ request'[s].next = request[s].next
                      /\ request'[s].approved = request[s].approved
                      /\ Leads(s)' => Leads(s)
    BY <1>1
  <2>1. CASE request'[s] = request[s] BY <2>1 DEF Leads
  <2>2. ASSUME NEW t \in {"revoked", "paid", "review"},
               request'[s] = [request[s] EXCEPT !.status = t],
               request[s].status \notin {"none", "draft", "paid"}
        PROVE  /\ request'[s].status # "open" /\ request'[s].next = request[s].next
               /\ request'[s].approved = request[s].approved
               /\ Leads(s)' => Leads(s)
    BY <1>2, <2>2, StatusKeeps DEF SameTerms, Leads
  <2> QED BY <1>5, <2>1, <2>2 DEF Closes
<1>6. ASSUME NEW r \in Requests, ActivateRevision(r)
      PROVE  /\ request'[o].next = None
             /\ \A s \in Requests \ {o} : Leads(s)' => request'[s].next = o
  <2>1. ASSUME NEW s \in Requests \ {r}, request[s].status \notin {"none", "draft"}
        PROVE  request'[s].status # "open" /\ request'[s].next = r
    <3>1. PICK t \in {"revoked", "paid", "review"} :
             request'[s] = [request[s] EXCEPT !.next = r, !.status = t]
      BY <1>6, <2>1, ActivateRows
    <3> QED BY <1>2, <3>1 DEF Request
  <2>2. ASSUME NEW s \in Requests \ {r}, request[s].status \in {"none", "draft"}
        PROVE  request'[s].status # "open" /\ ~ Leads(s)'
    <3>1. request'[s] = request[s] BY <1>6, <2>2, ActivateRows
    <3> QED BY <2>2, <3>1 DEF Leads, Approvals, Rows, RequestRow
  <2>3. o = r BY <2>1, <2>2
  <2>4. request'[r].next = None
    <3>1. request[r].next = None BY <1>6, ActivateRows DEF Approvals
    <3> QED BY <1>6, <3>1, ActivateRows
  <2> QED BY <2>1, <2>2, <2>3, <2>4
<1>7. ASSUME NEW r \in Requests, NEW c \in Changes, PreparePreview(r, c)
      PROVE  /\ request'[o].next = None
             /\ \A s \in Requests \ {o} : Leads(s)' => request'[s].next = o
  <2>1. ASSUME NEW s \in Requests, s # r
        PROVE  /\ request'[s].status = "open" => request[s].status = "open"
               /\ request'[s].next = request[s].next /\ request'[s].approved = request[s].approved
               /\ Leads(s)' => Leads(s)
    <3>1. CASE request'[s] = request[s] BY <3>1 DEF Leads
    <3>2. CASE request'[s] = [request[s] EXCEPT !.status = "revoked"] /\ request[s].status = "draft"
      BY <1>2, <3>2, StatusKeeps DEF SameTerms, Leads
    <3> QED BY <1>7, <2>1, <3>1, <3>2, PreviewRows
  <2>2. request'[r].status # "open" /\ ~ Leads(r)'
    BY <1>7, PreviewRows DEF Leads, Changes, None
  <2>3. o # r BY <2>2
  <2>4. request[o].status = "open" /\ request[o].approved BY <2>1, <2>3
  <2> QED BY <2>1, <2>2, <2>3, <2>4 DEF Turned
<1> QED BY <1>3, <1>4, <1>5, <1>6, <1>7, RequestSteps, ClosingRows

-----------------------------------------------------------------------------
(* The theorems about the links.                                           *)

LEMMA LinksInitial == LinksInit => LinksInv
<1> SUFFICES ASSUME LinksInit PROVE LinksInv
  OBVIOUS
<1>1. LinkTyped
  BY NoRequestTyped, LinksAssumption
     DEF LinksInit, LinkTyped, StayStatus, Total, ChangeStatus, AttemptStatus
<1>2. Gates /\ OneLive /\ LiveFunds
  BY DEF LinksInit, Gates, Gate, OneLive, LiveFunds, Live, Unresolved
<1>3. Rows BY DEF LinksInit, Rows, NoRequest
<1>4. AsBooked BY DEF LinksInit, AsBooked, NoRequest
<1>5. Approvals BY DEF LinksInit, Approvals, NoRequest
<1>6. Turned BY DEF LinksInit, Turned, NoRequest
<1> QED BY <1>1, <1>2, <1>3, <1>4, <1>5, <1>6 DEF LinksInv

LEMMA LinkTypedKept ==
  ASSUME LinkTyped, Approvals, [LinksNext]_linksVars PROVE LinkTyped'
<1>1. CASE UNCHANGED <<bookingVars, linkVars, paymentVars>>
  BY <1>1 DEF bookingVars, linkVars, paymentVars, LinkTyped
<1>2. CASE UNCHANGED linksVars BY <1>1, <1>2 DEF linksVars
<1>3. CASE LinkSteps
  BY <1>3, IssueTyped, RevokeTyped, PreviewTyped, ActivateTyped, ClaimTyped, OfflineTyped,
     PaymentTyped, CompleteTyped, StayStepsTyped, ReviewTyped
     DEF LinkSteps
<1> QED BY <1>1, <1>2, <1>3 DEF LinksNext

LEMMA LinksKept == ASSUME LinksInv, [LinksNext]_linksVars PROVE LinksInv'
<1>1. LinkTyped' BY LinkTypedKept DEF LinksInv
<1>2. RowsGrow /\ PaymentsGrow BY RowsKeep, PaymentsKeep DEF LinksInv
<1>3. Gates' BY <1>1, <1>2, GatesKept DEF LinksInv
<1>4. OneLive' /\ LiveFunds' BY <1>1, <1>2, OneLiveKept DEF LinksInv
<1>5. Rows' BY <1>1, <1>2, RowsKept DEF LinksInv
<1>6. AsBooked' BY AsBookedKept DEF LinksInv
<1>7. Approvals' BY <1>2, ApprovalsKept DEF LinksInv
<1>8. Turned' BY TurnedKept DEF LinksInv
<1> QED BY <1>1, <1>3, <1>4, <1>5, <1>6, <1>7, <1>8 DEF LinksInv

\* The inductive invariant of the links: one payment at a time can still succeed, it is on
\* top of exactly the receipts its link was computed from, and a revision opens only over a
\* change that is made.
THEOREM LinksInvariant == LinksSpec => []LinksInv
<1> QED BY LinksInitial, LinksKept, PTL DEF LinksSpec

\* Every row of the links and of the bookkeeping holds a value the code writes.
THEOREM LinksTypeCorrect == LinksSpec => []LinksTypeOK
<1>1. LinksInv /\ ReceiptsTypeOK => LinksTypeOK BY DEF LinksInv, LinkTyped, LinksTypeOK
<1>2. LinksSpec => []ReceiptsTypeOK
  BY LinksImplementReceipts, ReceiptsTypeCorrect, PTL DEF ReceiptsImplemented
<1> QED BY <1>1, <1>2, LinksInvariant, PTL

\* What the guest gave is what the site has verified, while no payment can still succeed.
LEMMA GivenIsPaid ==
  ASSUME LinksInv, \A p \in Payments : Live(p) => gate[p] # "charged"
  PROVE  Given = Amount(With({"succeeded"}))
<1>1. ASSUME NEW p \in Payments
      PROVE  (gate[p] = "charged" \/ (attempt[p].status = "succeeded" /\ attempt[p].req = None))
               <=> attempt[p].status = "succeeded"
  <2>1. Gate(p) /\ attempt[p].status \in AttemptStatus BY DEF LinksInv, LinkTyped, Gates
  <2> QED BY <2>1 DEF Gate, Live, AttemptStatus, Unresolved
<1>2. {p \in Payments : gate[p] = "charged" \/
                          (attempt[p].status = "succeeded" /\ attempt[p].req = None)}
        = With({"succeeded"})
  BY <1>1 DEF With
<1> QED BY <1>2 DEF Given

\* A claim is for the balance.
LEMMA ClaimIsTheBalance ==
  ASSUME LinksInv, NEW r \in Requests, NEW p \in Payments, ClaimAttempt(r, p)
  PROVE  attempt'[p].amount + Given = stay.total
<1>1. /\ attempt'[p].amount = request[r].amount
      /\ \A q \in Payments : ~ Live(q)
  BY ClaimWrites DEF LinksInv, With, Live
<1>2. Given = Amount(With({"succeeded"})) BY <1>1, GivenIsPaid
<1>3. ValidOpen(r) /\ request[r].status = "open" BY DEF ClaimAttempt, ValidOpen
<1>4. With({"succeeded"}) = IF request[r].change = None THEN {} ELSE FundsOf(r)
  BY <1>3, ClaimFunds DEF ClaimAttempt, LinksInv
<1>5. RequestRow(r) BY <1>3 DEF LinksInv, Rows
<1>6. CASE request[r].change = None
  <2>1. Given = 0 BY <1>2, <1>4, <1>6, NoAmount
  <2>2. request[r].amount = Booked /\ stay.total = Booked /\ Booked \in Nat
    BY <1>3, <1>5, <1>6, LinksAssumption DEF RequestRow, ValidOpen, Eligible
  <2> QED BY <1>1, <2>1, <2>2
<1>7. CASE request[r].change # None
  <2>1. Given = request[r].paid BY <1>2, <1>4, <1>5, <1>7 DEF RequestRow
  <2>2. request[r].paid + request[r].amount = stay.total
    BY <1>3, <1>7 DEF ValidOpen, ValidRevision
  <2>3. request[r].paid \in Nat /\ request[r].amount \in Nat
    BY DEF LinksInv, LinkTyped, Request
  <2> QED BY <1>1, <2>1, <2>2, <2>3
<1> QED BY <1>6, <1>7

\* For any number of links, payments and price changes: a guest is asked for exactly the
\* balance (create_request_checkout).
THEOREM AlwaysTheBalance == LinksSpec => CheckoutIsTheBalance
<1>1. ASSUME LinksInv, [LinksNext]_linksVars
      PROVE  [\A p \in Payments :
                 attempt[p].status = "none" /\ attempt'[p].status = "created"
                    => attempt'[p].amount + Given = stay.total]_linksVars
  <2> SUFFICES ASSUME NEW p \in Payments, attempt[p].status = "none",
                      attempt'[p].status = "created"
               PROVE  attempt'[p].amount + Given = stay.total
    OBVIOUS
  <2> USE <1>1 DEF LinksInv
  <2>1. ASSUME NEW q \in Payments, Writes(q), p # q PROVE FALSE BY <2>1 DEF Writes
  <2>2. ASSUME NEW q \in Payments, RecordOffline(q) PROVE FALSE
    BY <2>1, <2>2, OfflineWrites
  <2>3. ASSUME NEW q \in Payments, OpenCheckout(q) PROVE FALSE
    BY <2>1, <2>3, OpenWrites
  <2>4. ASSUME NEW q \in Payments, Charge(q) PROVE FALSE
    BY <2>4, ChargeWrites
  <2>5. ASSUME NEW q \in Payments, Verify(q) PROVE FALSE
    BY <2>1, <2>5, VerifyWrites
  <2>6. ASSUME NEW r \in Requests, NEW q \in Payments, ClaimAttempt(r, q)
        PROVE  attempt'[p].amount + Given = stay.total
    BY <2>1, <2>6, ClaimWrites, ClaimIsTheBalance
  <2> QED BY <2>2, <2>3, <2>4, <2>5, <2>6, PaymentSteps
<1> QED BY <1>1, LinksInvariant, PTL DEF LinksSpec, CheckoutIsTheBalance

\* A payment that closes its link is the last one.
LEMMA CollectedIsTheLast ==
  ASSUME LinksInv, NEW p \in Payments, attempt[p].status = "succeeded", attempt[p].req # None,
         Collects(p), NEW l \in Payments, Live(l)
  PROVE  FALSE
<1> DEFINE r == attempt[p].req
           s == attempt[l].req
<1>1. r \in Requests /\ request[r].status # "none" /\ attempt[p].amount = request[r].amount
  BY DEF LinksInv, LinkTyped, Gates, Gate
<1>2. /\ s \in Requests /\ request[s].status # "none"
      /\ request[s].change # None => request[s].approved
  <2>1. Gate(l) /\ s # None BY DEF LinksInv, Gates, Gate, Live
  <2> QED BY <2>1 DEF LinksInv, LinkTyped, Gate
<1>3. With({"succeeded"}) = IF request[s].change = None THEN {} ELSE FundsOf(s)
  BY DEF LinksInv, LiveFunds
<1>4. p \in With({"succeeded"}) BY DEF With
<1>5. request[s].change # None /\ With({"succeeded"}) = FundsOf(s) BY <1>3, <1>4
<1>6. RequestRow(r) /\ RequestRow(s) BY <1>1, <1>2 DEF LinksInv, Rows
<1>7. CASE request[r].change = None
  <2>1. /\ stay.status = "confirmed" /\ With({"succeeded"}) = {p}
        /\ attempt[p].amount = Booked
    BY <1>1, <1>6, <1>7 DEF Collects, RequestRow
  <2>2. request[s].paid = Booked
    BY <1>5, <1>6, <2>1, AmountOne DEF RequestRow, LinksInv
  <2>3. request[s].total # Booked
    <3>1. /\ request[s].amount > 0 /\ request[s].paid + request[s].amount = request[s].total
          /\ request[s].amount \in Nat /\ Booked \in Nat
      BY <1>2, <1>5, <1>6, LinksAssumption DEF RequestRow, LinksInv, LinkTyped, Request
    <3> QED BY <2>2, <3>1
  <2> QED BY <1>2, <1>5, <2>1, <2>3 DEF LinksInv, AsBooked
<1>8. CASE request[r].change # None
  <2>1. request[r].funds = Signature(r) BY <1>8 DEF Collects, ValidRevision
  <2>2. CASE s = r
    <3>1. p \in FundsOf(r) BY <1>4, <1>5, <2>2
    <3> QED BY <2>1, <3>1 DEF FundsOf, Signature
  <2>3. CASE s # r
    <3>1. request[r].funds[l] = attempt[l].status BY <2>1, <2>3 DEF Signature
    <3> QED BY <1>6, <1>8, <3>1 DEF RequestRow, Live
  <2> QED BY <2>2, <2>3
<1> QED BY <1>7, <1>8

\* What it closes with is the price.
LEMMA CollectsThePrice ==
  ASSUME LinksInv, NEW p \in Payments, attempt[p].status = "succeeded", attempt[p].req # None,
         Collects(p)
  PROVE  Given = stay.total
<1> DEFINE r == attempt[p].req
<1>1. r \in Requests /\ request[r].status # "none" /\ attempt[p].amount = request[r].amount
  BY DEF LinksInv, LinkTyped, Gates, Gate
<1>2. Given = Amount(With({"succeeded"})) BY CollectedIsTheLast, GivenIsPaid
<1>3. RequestRow(r) BY <1>1 DEF LinksInv, Rows
<1>4. CASE request[r].change = None
  <2>1. With({"succeeded"}) = {p} /\ request[r].total = stay.total BY <1>4 DEF Collects
  <2>2. Amount({p}) = attempt[p].amount BY AmountOne DEF LinksInv
  <2> QED BY <1>1, <1>2, <1>3, <1>4, <2>1, <2>2 DEF RequestRow
<1>5. CASE request[r].change # None
  <2>1. /\ request[r].funds = Signature(r) /\ request[r].paid + request[r].amount = stay.total
        /\ Of(r) \cap With({"succeeded"}) = {p}
    BY <1>5 DEF Collects, ValidRevision
  <2>2. p \notin FundsOf(r) BY <2>1 DEF FundsOf, Signature
  <2>3. ASSUME NEW q \in Payments
        PROVE  q \in With({"succeeded"}) <=> q \in FundsOf(r) \cup {p}
    <3>1. request[r].funds[q] = IF attempt[q].req = r THEN "none" ELSE attempt[q].status
      BY <2>1 DEF Signature
    <3>2. attempt[q].req = r /\ attempt[q].status = "succeeded" <=> q = p
      BY <2>1 DEF Of, With
    <3> QED BY <3>1, <3>2 DEF With, FundsOf
  <2>4. With({"succeeded"}) = FundsOf(r) \cup {p} BY <2>3 DEF With, FundsOf
  <2>5. FundsOf(r) \in SUBSET Payments BY DEF FundsOf
  <2>6. Amount(FundsOf(r) \cup {p}) = Amount(FundsOf(r)) + attempt[p].amount
    BY <2>2, <2>5, AmountWith DEF LinksInv
  <2>7. Amount(FundsOf(r)) = request[r].paid BY <1>3, <1>5 DEF RequestRow
  <2> QED BY <1>1, <1>2, <2>1, <2>4, <2>6, <2>7
<1> QED BY <1>4, <1>5

\* A link that becomes paid pays for the stay as it is now: late, repeated and overlapping
\* payments go to review (complete_request_payment).
THEOREM PaidAlwaysCovers == LinksSpec => PaidCoversTheStay
<1>1. ASSUME LinksInv, [LinksNext]_linksVars
      PROVE  [\A r \in Requests :
                 request[r].status # "paid" /\ request'[r].status = "paid"
                    => Given = stay.total]_linksVars
  <2> SUFFICES ASSUME NEW r \in Requests, request[r].status # "paid", request'[r].status = "paid"
               PROVE  Given = stay.total
    OBVIOUS
  <2> USE <1>1 DEF LinksInv
  <2>1. request[r] \in Request BY DEF LinkTyped
  <2>2. CASE Quiet BY <2>2 DEF Quiet
  <2>3. ASSUME NEW s \in Requests, Issue(s) PROVE FALSE BY <2>3, IssueRows
  <2>4. ASSUME NEW s \in Requests, ActivateRevision(s) PROVE FALSE
    BY <2>1, <2>4 DEF ActivateRevision, LinkTyped, Request
  <2>5. ASSUME NEW s \in Requests, Revoke(s) PROVE FALSE
    BY <2>1, <2>5 DEF Revoke, LinkTyped, Request
  <2>6. ASSUME NEW s \in Requests, NEW c \in Changes, PreparePreview(s, c) PROVE FALSE
    <3>1. CASE r = s BY <2>6, <3>1, PreviewRows
    <3>2. CASE r # s
      <4>1. request'[r] = request[r] \/ request'[r] = [request[r] EXCEPT !.status = "revoked"]
        BY <2>6, <3>2, PreviewRows
      <4>2. request'[r].status = request[r].status \/ request'[r].status = "revoked"
        BY <2>1, <4>1 DEF Request
      <4> QED BY <4>2
    <3> QED BY <3>1, <3>2
  <2>7. ASSUME NEW p \in Payments, RecordOffline(p) PROVE FALSE
    BY <2>1, <2>7 DEF RecordOffline, LinkTyped, Request
  <2>8. ASSUME NEW p \in Payments, Complete(p) PROVE Given = stay.total
    <3>1. attempt[p].status = "succeeded" /\ attempt[p].req # None BY <2>8 DEF Complete
    <3>2. CASE Collects(p) BY <3>1, <3>2, CollectsThePrice
    <3>3. CASE ~ Collects(p)
      <4>1. request' = [request EXCEPT ![attempt[p].req].status = "review"]
        BY <2>8, <3>3 DEF Complete
      <4> QED BY <2>1, <4>1 DEF LinkTyped, Request
    <3> QED BY <3>2, <3>3
  <2> QED BY <2>2, <2>3, <2>4, <2>5, <2>6, <2>7, <2>8, RequestSteps
<1> QED BY <1>1, LinksInvariant, PTL DEF LinksSpec, PaidCoversTheStay

\* One hop ends at the open revision.
LEMMA OneHop ==
  ASSUME LinkTyped, Turned, NEW o \in Requests, request[o].status = "open", request[o].approved,
         NEW r \in Requests, Leads(r)
  PROVE  Trail(r) = {r, o}
<1>1. request[o].next = None BY DEF Turned
<1>2. r # o => request[r].next = o BY DEF Turned
<1>3. o # None BY DEF Requests, None
<1>4. \A q \in {r, o} : request[q].next # None => request[q].next \in {r, o}
  BY <1>1, <1>2
<1>5. Trail(r) \subseteq {r, o} BY <1>4 DEF Trail
<1>6. ASSUME NEW S \in SUBSET Requests, r \in S,
             \A q \in S : request[q].next # None => request[q].next \in S
      PROVE  o \in S
  BY <1>2, <1>3, <1>6
<1>7. r \in Trail(r) /\ o \in Trail(r) BY <1>6 DEF Trail
<1> QED BY <1>5, <1>7

\* However many revisions there were, every URL the guest was ever sent leads to the open
\* one (approve_preview, resolve_token).
THEOREM LinksAlwaysLead == LinksSpec => []LinksLeadToTheRevision
<1>1. LinksInv => LinksLeadToTheRevision
  <2> SUFFICES ASSUME LinksInv, NEW o \in Requests, request[o].status = "open",
                      request[o].approved, NEW r \in Requests, Leads(r)
               PROVE  Resolve(r) = {o}
    BY DEF LinksLeadToTheRevision, Leads
  <2>1. Trail(r) = {r, o} BY OneHop DEF LinksInv
  <2>2. request[o].next = None /\ (r # o => request[r].next = o) /\ o # None
    BY DEF LinksInv, Turned, Requests, None
  <2>3. Cardinality({r, o}) <= 21
    <3>1. IsFiniteSet({}) /\ Cardinality({}) = 0 BY FS_EmptySet
    <3>2. IsFiniteSet({o}) /\ Cardinality({o}) = 1 BY FS_Singleton
    <3>3. IsFiniteSet({r}) /\ Cardinality({r}) = 1 BY FS_Singleton
    <3>4. CASE r = o
      <4>1. {r, o} = {o} BY <3>4
      <4> QED BY <3>2, <4>1
    <3>5. CASE r # o
      <4>1. {r, o} = {o} \cup {r} /\ r \notin {o} BY <3>5
      <4>2. Cardinality({o} \cup {r}) = Cardinality({o}) + 1 BY <3>2, <4>1, FS_AddElement
      <4> QED BY <3>2, <4>1, <4>2
    <3> QED BY <3>4, <3>5
  <2>4. \A s \in Trail(r) \ {r} : request[s].approved BY <2>1
  <2> QED BY <2>1, <2>2, <2>3, <2>4 DEF Resolve
<1> QED BY <1>1, LinksInvariant, PTL
================================================================================
