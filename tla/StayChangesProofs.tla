-------------------------- MODULE StayChangesProofs --------------------------
(***************************************************************************)
(* For any number of changes, cancellations and workers: a request is sent *)
(* to Hostaway once at most, what is completed took effect there, a refund *)
(* is owed once and only for what took effect, and the reservation's row   *)
(* holds nothing that Hostaway did not hold.                               *)
(***************************************************************************)
EXTENDS StayChanges, TLAPS

\* The request took effect in Hostaway, for good.
Took(r) == IF r \in Cancels THEN remote.state = "cancelled" ELSE r \in applied

\* From the ledger's entry to the refund's record.
Writing(w) == pc[w] \in {"put", "get", "settle", "record"}

WorkerFacts ==
    \A w \in Workers :
        /\ pc[w] \notin {"idle", "refresh"} => job[w] \in Requests
        /\ pc[w] = "persist" => job[w] \in Changes

\* Stays come from Hostaway, wherever they are kept.
StayFacts ==
    /\ remote.plan \in applied \cup {None}
    /\ local.plan \in applied \cup {None}
    /\ local.state = "cancelled" => remote.state = "cancelled"
    /\ \A w \in Workers :
          /\ seen[w].plan \in applied \cup {None}
          /\ seen[w].state = "cancelled" => remote.state = "cancelled"

\* The ledger's count covers what is sent and what is owed.
LedgerFacts ==
    /\ \A r \in Requests : tries[r] <= 1 /\ sent[r] <= tries[r] /\ owed[r] <= tries[r]
    /\ \A w \in Workers : Writing(w) => tries[job[w]] = 1 /\ owed[job[w]] = 0
    /\ \A w \in Workers : pc[w] = "put" => sent[job[w]] = 0
    /\ \A v, w \in Workers : Writing(v) /\ Writing(w) /\ job[v] = job[w] => v = w

OutcomeFacts ==
    /\ \A r \in Requests : status[r] = "completed" \/ owed[r] > 0 => Took(r)
    /\ \A w \in Workers : pc[w] = "record" => Took(job[w])

IInv ==
    TypeOK /\ WorkerFacts /\ StayFacts /\ LedgerFacts /\ OutcomeFacts /\ OneOpenChange

USE RequestsAssumption

LEMMA InitInvariant == Init => IInv
<1> SUFFICES ASSUME Init PROVE IInv
  OBVIOUS
<1>1. TypeOK
  BY DEF Init, TypeOK, Status, OpStatus, Bill, LocalStatus, Stay, Plan, Answer, Step, AsBooked
<1>2. WorkerFacts /\ StayFacts /\ OutcomeFacts /\ OneOpenChange
  BY DEF Init, WorkerFacts, StayFacts, OutcomeFacts, OneOpenChange, Approvable, AsBooked, Requests
<1>3. LedgerFacts
  BY DEF Init, LedgerFacts, Writing
<1> QED
  BY <1>1, <1>2, <1>3 DEF IInv

\* A worker's own variables.
WorkersTyped ==
    /\ pc \in [Workers -> Step] /\ job \in [Workers -> Requests \cup {None}]
    /\ seen \in [Workers -> Stay] /\ got \in [Workers -> Answer]

LEMMA AsBookedTyped == AsBooked \in Stay
  BY DEF AsBooked, Stay, Plan

LEMMA WorkerStepTyped ==
    ASSUME WorkersTyped, NEW w \in Workers,
           \/ End(w)
           \/ \E s \in Step : Goto(w, s)
           \/ \E s \in Step, a \in Answer, m \in Stay : Learn(w, s, a, m)
           \/ \E s \in Step, r \in Requests \cup {None}, m \in Stay : Begin(w, s, r, m)
    PROVE  WorkersTyped'
<1>1. CASE End(w)
  BY <1>1, AsBookedTyped DEF WorkersTyped, End, Step, Answer
<1>2. CASE \E s \in Step : Goto(w, s)
  BY <1>2 DEF WorkersTyped, Goto
<1>3. CASE \E s \in Step, a \in Answer, m \in Stay : Learn(w, s, a, m)
  BY <1>3 DEF WorkersTyped, Learn
<1>4. CASE \E s \in Step, r \in Requests \cup {None}, m \in Stay : Begin(w, s, r, m)
  BY <1>4 DEF WorkersTyped, Begin
<1> QED
  BY <1>1, <1>2, <1>3, <1>4

-----------------------------------------------------------------------------
(* Types. *)

\* What a request's columns and the stay's rows may be.
RowsTyped ==
    /\ status \in [Requests -> Status] /\ base \in [Requests -> Plan]
    /\ bill \in [Requests -> Bill] /\ op \in [Requests -> OpStatus]
    /\ tries \in [Requests -> Nat] /\ sent \in [Requests -> Nat]
    /\ local \in [state : LocalStatus, plan : Plan]
    /\ remote \in Stay /\ applied \subseteq Changes
    /\ owed \in [Requests -> Nat] /\ fresh \subseteq Workers

LEMMA TypeSplit == TypeOK <=> RowsTyped /\ WorkersTyped
  BY DEF TypeOK, RowsTyped, WorkersTyped

LEMMA TypePreserved == ASSUME IInv, [Next]_vars PROVE TypeOK'
<1> USE DEF IInv
<1>0. RowsTyped /\ WorkersTyped /\ WorkerFacts
  BY TypeSplit
<1>a. \A w \in Workers : seen[w] \in Stay /\ seen[w].plan \in Plan
                         /\ local.plan \in Plan /\ remote \in Stay
  BY <1>0 DEF RowsTyped, WorkersTyped, Stay
<1>1. ASSUME NEW w \in Workers, NEW r \in Requests, Quote(w, r) PROVE RowsTyped' /\ WorkersTyped'
  <2>1. [state |-> "live", plan |-> local.plan] \in Stay
    BY <1>a DEF Stay
  <2>2. WorkersTyped'
    BY <1>0, <1>1, <2>1, WorkerStepTyped DEF Quote, Step
  <2> QED
    BY <1>0, <1>1, <2>2 DEF Quote, RowsTyped, requestVars, ledgerVars, stayVars, remoteVars
<1>2. ASSUME NEW w \in Workers, Persist(w) PROVE RowsTyped' /\ WorkersTyped'
  <2>1. job[w] \in Requests
    BY <1>0, <1>2 DEF Persist, WorkerFacts
  <2>2. status' \in [Requests -> Status]
    BY <1>0, <1>2 DEF Persist, RowsTyped, Status
  <2>3. base' \in [Requests -> Plan]
    BY <1>0, <1>a, <1>2 DEF Persist, RowsTyped
  <2>4. WorkersTyped'
    BY <1>0, <1>2, WorkerStepTyped DEF Persist, Step
  <2> QED
    BY <1>0, <1>2, <2>2, <2>3, <2>4 DEF Persist, RowsTyped, ledgerVars, stayVars, remoteVars
<1>3. ASSUME NEW w \in Workers, NEW r \in Requests, CreateCancellation(w, r) \/ Resubmit(w, r)
      PROVE  RowsTyped' /\ WorkersTyped'
  <2>1. WorkersTyped'
    BY <1>0, <1>3, AsBookedTyped, WorkerStepTyped DEF CreateCancellation, Resubmit, Step
  <2> QED
    BY <1>0, <1>3, <2>1
    DEF CreateCancellation, Resubmit, RowsTyped, Status, requestVars, ledgerVars, stayVars,
        remoteVars
<1>4. ASSUME NEW r \in Requests,
             \/ Checkout(r) \/ CheckoutRefused(r) \/ Expire(r) \/ ApproveLocally(r)
             \/ RejectLocally(r)
      PROVE  RowsTyped' /\ WorkersTyped'
  BY <1>0, <1>4
  DEF Checkout, CheckoutRefused, Expire, ApproveLocally, RejectLocally, RowsTyped,
      WorkersTyped, Status, Bill, ledgerVars, stayVars, remoteVars, workerVars
<1>5. ASSUME NEW w \in Workers, NEW r \in Requests, OpenResult(w, r)
      PROVE  RowsTyped' /\ WorkersTyped'
  <2>1. WorkersTyped'
    BY <1>0, <1>5, AsBookedTyped, WorkerStepTyped DEF OpenResult, Step
  <2> QED
    BY <1>0, <1>5, <2>1 DEF OpenResult, RowsTyped, Bill, ledgerVars, stayVars, remoteVars
<1>6. ASSUME NEW w \in Workers, RecheckPaid(w) \/ Approve(w) PROVE RowsTyped' /\ WorkersTyped'
  <2>1. WorkersTyped'
    BY <1>0, <1>6, WorkerStepTyped DEF RecheckPaid, Approve, Step
  <2> QED
    BY <1>0, <1>6, <2>1
    DEF RecheckPaid, Approve, RowsTyped, Status, ledgerVars, stayVars, remoteVars
<1>7. ASSUME NEW w \in Workers, Prepare(w) PROVE RowsTyped' /\ WorkersTyped'
  <2>1. WorkersTyped'
    BY <1>0, <1>7, WorkerStepTyped DEF Prepare, Step
  <2> QED
    BY <1>0, <1>7, <2>1 DEF Prepare, RowsTyped, Status, OpStatus, stayVars, remoteVars
<1>8. ASSUME NEW w \in Workers, Put(w) PROVE RowsTyped' /\ WorkersTyped'
  <2>1. job[w] \in Requests
    BY <1>0, <1>8 DEF Put, WorkerFacts
  <2>2. Applied(job[w]) \in Stay
    BY <1>a, <2>1, <1>8 DEF Applied, Stay, Plan, Requests
  <2>3. remote' \in Stay /\ applied' \subseteq Changes
    BY <1>0, <1>8, <2>2 DEF Put, RowsTyped, remoteVars
  <2>4. WorkersTyped'
    BY <1>0, <1>8, AsBookedTyped, WorkerStepTyped DEF Put, Step, Answer
  <2>5. sent' = [sent EXCEPT ![job[w]] = @ + 1]
    BY <1>8 DEF Put
  <2>6. sent' \in [Requests -> Nat]
    BY <1>0, <2>1, <2>5 DEF RowsTyped
  <2> QED
    BY <1>0, <1>8, <2>3, <2>4, <2>6 DEF Put, RowsTyped, requestVars, stayVars
<1>9. ASSUME NEW w \in Workers, Get(w) PROVE RowsTyped' /\ WorkersTyped'
  <2>1. WorkersTyped'
    BY <1>0, <1>a, <1>9, AsBookedTyped, WorkerStepTyped DEF Get, Step, Answer
  <2> QED
    BY <1>0, <1>9, <2>1 DEF Get, RowsTyped, requestVars, ledgerVars, stayVars, remoteVars
<1>10. ASSUME NEW w \in Workers, SettleApplied(w) PROVE RowsTyped' /\ WorkersTyped'
  <2>1. WorkersTyped'
    BY <1>0, <1>10, WorkerStepTyped DEF SettleApplied, Step
  <2>2. local' \in [state : LocalStatus, plan : Plan] /\ fresh' = {}
    BY <1>a, <1>10 DEF SettleApplied, Save, LocalStatus
  <2> QED
    BY <1>0, <1>10, <2>1, <2>2 DEF SettleApplied, RowsTyped, Status, OpStatus, remoteVars
<1>11. ASSUME NEW w \in Workers, SettleOther(w) PROVE RowsTyped' /\ WorkersTyped'
  <2>1. WorkersTyped'
    BY <1>0, <1>11, WorkerStepTyped DEF SettleOther
  <2> QED
    BY <1>0, <1>11, <2>1 DEF SettleOther, RowsTyped, Status, OpStatus, stayVars, remoteVars
<1>12. ASSUME NEW w \in Workers, RecordRefund(w) \/ Stop(w) PROVE RowsTyped' /\ WorkersTyped'
  <2>1. WorkersTyped'
    BY <1>0, <1>12, WorkerStepTyped DEF RecordRefund, Stop
  <2> QED
    BY <1>0, <1>12, <2>1
    DEF RecordRefund, Stop, RowsTyped, requestVars, ledgerVars, stayVars, remoteVars
<1>13. ASSUME NEW w \in Workers, FetchStay(w) PROVE RowsTyped' /\ WorkersTyped'
  <2>1. WorkersTyped'
    BY <1>0, <1>a, <1>13, WorkerStepTyped DEF FetchStay, Step
  <2> QED
    BY <1>0, <1>13, <2>1 DEF FetchStay, RowsTyped, requestVars, ledgerVars, remoteVars
<1>14. ASSUME NEW w \in Workers, WriteStay(w) PROVE RowsTyped' /\ WorkersTyped'
  <2>1. WorkersTyped'
    BY <1>0, <1>14, WorkerStepTyped DEF WriteStay
  <2>2. local' \in [state : LocalStatus, plan : Plan] /\ fresh' \subseteq Workers
    BY <1>0, <1>a, <1>14 DEF WriteStay, Save, LocalStatus, RowsTyped, stayVars
  <2>3. status' \in [Requests -> Status]
    BY <1>0, <1>14 DEF WriteStay, RowsTyped, Status
  <2> QED
    BY <1>0, <1>14, <2>1, <2>2, <2>3 DEF WriteStay, RowsTyped, ledgerVars, remoteVars
<1>15. ASSUME CancelledInHostaway PROVE RowsTyped' /\ WorkersTyped'
  BY <1>0, <1>15
  DEF CancelledInHostaway, RowsTyped, WorkersTyped, Stay, requestVars, ledgerVars, stayVars,
      workerVars
<1>16. ASSUME UNCHANGED vars PROVE RowsTyped' /\ WorkersTyped'
  BY <1>0, <1>16
  DEF RowsTyped, WorkersTyped, vars, requestVars, ledgerVars, stayVars, remoteVars, workerVars
<1>17. ASSUME NEW w \in Workers, WorkerStep(w) PROVE RowsTyped' /\ WorkersTyped'
  BY <1>2, <1>6, <1>7, <1>8, <1>9, <1>10, <1>11, <1>12, <1>14, <1>17 DEF WorkerStep
<1>18. ASSUME NormalStep PROVE RowsTyped' /\ WorkersTyped'
  BY <1>1, <1>3, <1>4, <1>5, <1>13, <1>15, <1>17, <1>18 DEF NormalStep
<1>19. RowsTyped' /\ WorkersTyped'
  BY <1>12, <1>16, <1>18 DEF Next
<1> QED
  BY <1>19 DEF TypeOK, RowsTyped, WorkersTyped

-----------------------------------------------------------------------------
(* Workers, and what they saw.                                             *)

LEMMA WorkersPreserved == ASSUME IInv, [Next]_vars PROVE WorkerFacts'
<1>0. WorkerFacts /\ WorkersTyped
  BY DEF IInv, TypeOK, WorkersTyped
<1>1. ASSUME NEW w \in Workers,
             \/ End(w)
             \/ \E s \in Step \ {"persist"} : job[w] \in Requests /\ Goto(w, s)
             \/ \E s \in Step \ {"persist"}, a \in Answer, m \in Stay :
                   job[w] \in Requests /\ Learn(w, s, a, m)
      PROVE  WorkerFacts'
  BY <1>0, <1>1 DEF WorkerFacts, WorkersTyped, End, Goto, Learn
<1>2. ASSUME NEW w \in Workers, NEW r \in Requests \cup {None}, NEW s \in Step, NEW m,
             Begin(w, s, r, m), s # "refresh" => r \in Requests, s = "persist" => r \in Changes
      PROVE  WorkerFacts'
  BY <1>0, <1>2 DEF WorkerFacts, WorkersTyped, Begin
<1>3. ASSUME UNCHANGED <<pc, job>> PROVE WorkerFacts'
  BY <1>0, <1>3 DEF WorkerFacts
<1>4. ASSUME NEW w \in Workers, WorkerStep(w) PROVE WorkerFacts'
  <2>1. CASE Persist(w) \/ RecheckPaid(w) \/ Approve(w) \/ Prepare(w)
    BY <1>0, <1>1, <2>1
    DEF Persist, RecheckPaid, Approve, Prepare, WorkerFacts, Step
  <2>2. CASE Put(w) \/ Get(w)
    <3>1. job[w] \in Requests
      BY <1>0, <2>2 DEF Put, Get, WorkerFacts
    <3>2. remote \in Stay
      BY DEF IInv, TypeOK
    <3> QED
      BY <1>1, <2>2, <3>1, <3>2, AsBookedTyped DEF Put, Get, Step, Answer
  <2>3. CASE SettleApplied(w) \/ SettleOther(w) \/ RecordRefund(w) \/ WriteStay(w)
    BY <1>0, <1>1, <2>3
    DEF SettleApplied, SettleOther, RecordRefund, WriteStay, WorkerFacts, Step
  <2> QED
    BY <1>4, <2>1, <2>2, <2>3 DEF WorkerStep
<1>5. ASSUME NEW w \in Workers, NEW r \in Requests,
             Quote(w, r) \/ CreateCancellation(w, r) \/ Resubmit(w, r) \/ OpenResult(w, r)
      PROVE  WorkerFacts'
  BY <1>2, <1>5 DEF Quote, CreateCancellation, Resubmit, OpenResult, Step
<1>6. ASSUME NEW w \in Workers, FetchStay(w) PROVE WorkerFacts'
  BY <1>2, <1>6 DEF FetchStay, Step
<1>7. ASSUME NEW r \in Requests,
             \/ Checkout(r) \/ CheckoutRefused(r) \/ Expire(r) \/ ApproveLocally(r)
             \/ RejectLocally(r)
      PROVE  WorkerFacts'
  BY <1>3, <1>7
  DEF Checkout, CheckoutRefused, Expire, ApproveLocally, RejectLocally, workerVars
<1>8. CASE NormalStep
  BY <1>3, <1>4, <1>5, <1>6, <1>7, <1>8 DEF NormalStep, CancelledInHostaway, workerVars
<1>9. CASE \E w \in Workers : Stop(w)
  BY <1>1, <1>9 DEF Stop
<1>10. CASE UNCHANGED vars
  BY <1>3, <1>10 DEF vars, workerVars
<1> QED
  BY <1>8, <1>9, <1>10 DEF Next

\* Hostaway keeps what it applied, and a cancelled stay stays cancelled.
LEMMA HostawayKeeps ==
    ASSUME IInv, [Next]_vars
    PROVE  /\ applied \subseteq applied'
           /\ remote.state = "cancelled" => remote'.state = "cancelled"
           /\ \A r \in Requests : Took(r) => Took(r)'
<1>0. remote \in Stay
  BY DEF IInv, TypeOK
<1>1. applied \subseteq applied' /\ (remote.state = "cancelled" => remote'.state = "cancelled")
  <2>1. ASSUME NEW w \in Workers, Put(w)
        PROVE  /\ applied \subseteq applied'
               /\ remote.state = "cancelled" => remote'.state = "cancelled"
    BY <1>0, <2>1 DEF Put, Applied, Stay, remoteVars
  <2>2. CASE CancelledInHostaway
    BY <1>0, <2>2 DEF CancelledInHostaway, Stay
  <2>3. CASE UNCHANGED remoteVars
    BY <2>3 DEF remoteVars
  <2> QED
    BY <2>1, <2>2, <2>3
    DEF Next, NormalStep, WorkerStep, Quote, Persist, CreateCancellation, Resubmit, Checkout,
        CheckoutRefused, OpenResult, RecheckPaid, Approve, Prepare, Get, SettleApplied,
        SettleOther, RecordRefund, FetchStay, WriteStay, Expire, ApproveLocally, RejectLocally,
        Stop, vars
<1> QED
  BY <1>1 DEF Took

-----------------------------------------------------------------------------
(* Stays.                                                                  *)

LEMMA StaysPreserved == ASSUME IInv, [Next]_vars PROVE StayFacts'
<1>0. TypeOK /\ StayFacts /\ WorkerFacts
  BY DEF IInv
<1>1. remote'.plan \in applied' \cup {None}
  <2>1. ASSUME NEW w \in Workers, Put(w) PROVE remote'.plan \in applied' \cup {None}
    BY <1>0, <2>1 DEF Put, Applied, Stay, StayFacts, WorkerFacts, TypeOK, Requests, remoteVars
  <2>2. CASE CancelledInHostaway
    BY <1>0, <2>2 DEF CancelledInHostaway, Stay, StayFacts, TypeOK
  <2>3. CASE UNCHANGED remoteVars
    BY <1>0, <2>3 DEF remoteVars, StayFacts
  <2> QED
    BY <2>1, <2>2, <2>3
    DEF Next, NormalStep, WorkerStep, Quote, Persist, CreateCancellation, Resubmit, Checkout,
        CheckoutRefused, OpenResult, RecheckPaid, Approve, Prepare, Get, SettleApplied,
        SettleOther, RecordRefund, FetchStay, WriteStay, Expire, ApproveLocally, RejectLocally,
        Stop, vars
<1>2. /\ local'.plan \in applied' \cup {None}
      /\ local'.state = "cancelled" => remote'.state = "cancelled"
  <2>1. ASSUME NEW w \in Workers, SettleApplied(w) \/ WriteStay(w), UNCHANGED remoteVars,
               \E t \in LocalStatus : /\ Save(t, seen[w].plan)
                                      /\ t = "cancelled" => seen[w].state = "cancelled"
        PROVE  /\ local'.plan \in applied' \cup {None}
               /\ local'.state = "cancelled" => remote'.state = "cancelled"
    BY <1>0, <2>1 DEF StayFacts, Save, remoteVars
  <2>2. ASSUME NEW w \in Workers, SettleApplied(w)
        PROVE  /\ local'.plan \in applied' \cup {None}
               /\ local'.state = "cancelled" => remote'.state = "cancelled"
    BY <2>1, <2>2 DEF SettleApplied, LocalStatus
  <2>3. CASE UNCHANGED local
    BY <1>0, <2>3, HostawayKeeps DEF StayFacts
  <2>4. ASSUME NEW w \in Workers, WriteStay(w)
        PROVE  /\ local'.plan \in applied' \cup {None}
               /\ local'.state = "cancelled" => remote'.state = "cancelled"
    BY <2>1, <2>3, <2>4 DEF WriteStay, LocalStatus, stayVars
  <2> QED
    BY <2>2, <2>3, <2>4
    DEF Next, NormalStep, WorkerStep, Quote, Persist, CreateCancellation, Resubmit, Checkout,
        CheckoutRefused, OpenResult, RecheckPaid, Approve, Prepare, Put, Get,
        SettleOther, RecordRefund, FetchStay, Expire, ApproveLocally, RejectLocally,
        CancelledInHostaway, Stop, vars, stayVars
<1>3. ASSUME NEW v \in Workers
      PROVE  /\ seen'[v].plan \in applied' \cup {None}
             /\ seen'[v].state = "cancelled" => remote'.state = "cancelled"
  <2>0. seen \in [Workers -> Stay]
    BY <1>0 DEF TypeOK
  <2>1. ASSUME NEW w \in Workers, NEW m,
               seen' = [seen EXCEPT ![w] = m] \/ seen' = seen,
               m \in {AsBooked, remote} \/ m = [state |-> "live", plan |-> local.plan]
        PROVE  /\ seen'[v].plan \in applied' \cup {None}
               /\ seen'[v].state = "cancelled" => remote'.state = "cancelled"
    <3>1. m.plan \in applied' \cup {None} /\ (m.state = "cancelled" => remote'.state = "cancelled")
      BY <1>0, <2>1, HostawayKeeps DEF StayFacts, AsBooked
    <3>2. CASE v = w /\ seen' = [seen EXCEPT ![w] = m]
      BY <2>0, <3>1, <3>2
    <3>3. CASE seen'[v] = seen[v]
      BY <1>0, <3>3, HostawayKeeps DEF StayFacts
    <3> QED
      BY <2>0, <2>1, <3>2, <3>3
  <2>2. ASSUME NEW w \in Workers, WorkerStep(w) \/ Stop(w)
        PROVE  \E m \in {AsBooked, remote} : seen' = [seen EXCEPT ![w] = m] \/ seen' = seen
    BY <2>2
    DEF WorkerStep, Persist, RecheckPaid, Approve, Prepare, Put, Get, SettleApplied, SettleOther,
        RecordRefund, WriteStay, Stop, End, Goto, Learn
  <2>3. ASSUME NEW w \in Workers, NEW r \in Requests,
               CreateCancellation(w, r) \/ Resubmit(w, r) \/ OpenResult(w, r)
        PROVE  seen' = [seen EXCEPT ![w] = AsBooked]
    BY <2>3 DEF CreateCancellation, Resubmit, OpenResult, Begin
  <2>4. ASSUME NEW w \in Workers, FetchStay(w) PROVE seen' = [seen EXCEPT ![w] = remote]
    BY <2>4 DEF FetchStay, Begin
  <2>5. ASSUME NEW w \in Workers, NEW r \in Requests, Quote(w, r)
        PROVE  seen' = [seen EXCEPT ![w] = [state |-> "live", plan |-> local.plan]]
    BY <2>5 DEF Quote, Begin
  <2>6. CASE UNCHANGED seen
    BY <1>0, <2>6, HostawayKeeps DEF StayFacts
  <2>7. CASE NormalStep
    <3>1. ASSUME NEW w \in Workers, WorkerStep(w) \/ FetchStay(w)
          PROVE  /\ seen'[v].plan \in applied' \cup {None}
                 /\ seen'[v].state = "cancelled" => remote'.state = "cancelled"
      BY <2>1, <2>2, <2>4, <3>1
    <3>2. ASSUME NEW w \in Workers, NEW r \in Requests,
                 Quote(w, r) \/ CreateCancellation(w, r) \/ Resubmit(w, r) \/ OpenResult(w, r)
          PROVE  /\ seen'[v].plan \in applied' \cup {None}
                 /\ seen'[v].state = "cancelled" => remote'.state = "cancelled"
      BY <2>1, <2>3, <2>5, <3>2
    <3> QED
      BY <2>6, <2>7, <3>1, <3>2
      DEF NormalStep, Checkout, CheckoutRefused, Expire, ApproveLocally, RejectLocally,
          CancelledInHostaway, workerVars
  <2>8. CASE \E w \in Workers : Stop(w)
    BY <2>1, <2>2, <2>8
  <2> QED
    BY <2>6, <2>7, <2>8 DEF Next, vars, workerVars
<1> QED
  BY <1>1, <1>2, <1>3 DEF StayFacts

-----------------------------------------------------------------------------
(* The ledger of writes, and the refunds.                                  *)

LEMMA LedgerPreserved == ASSUME IInv, [Next]_vars PROVE LedgerFacts'
<1>0. TypeOK /\ LedgerFacts /\ WorkerFacts
  BY DEF IInv
<1>a. /\ pc \in [Workers -> Step] /\ job \in [Workers -> Requests \cup {None}]
      /\ tries \in [Requests -> Nat] /\ sent \in [Requests -> Nat]
      /\ owed \in [Requests -> Nat]
  BY <1>0 DEF TypeOK
\* A worker that starts, goes on or ends, and writes nothing down.
<1>1. ASSUME NEW w \in Workers, UNCHANGED <<tries, sent, owed>>,
             \A v \in Workers \ {w} : pc'[v] = pc[v] /\ job'[v] = job[v],
             Writing(w)' => Writing(w) /\ job'[w] = job[w] /\ pc'[w] # "put"
      PROVE  LedgerFacts'
  BY <1>0, <1>a, <1>1 DEF LedgerFacts, Writing
<1>2. ASSUME UNCHANGED <<tries, sent, owed, pc, job>> PROVE LedgerFacts'
  BY <1>0, <1>2 DEF LedgerFacts, Writing
<1>3. ASSUME NEW w \in Workers, UNCHANGED <<tries, sent, owed>>,
             \/ End(w)
             \/ \E t \in Step : /\ Goto(w, t) \/ \E a \in Answer : \E m : Learn(w, t, a, m)
                              /\ t # "put" /\ (t \in {"get", "settle", "record"} => Writing(w))
             \/ \E t \in Step \ {"put", "get", "settle", "record"} : \E r, m : Begin(w, t, r, m)
      PROVE  LedgerFacts'
  BY <1>a, <1>1, <1>3 DEF End, Goto, Learn, Begin, Writing
<1>4. ASSUME NEW w \in Workers, Prepare(w) PROVE LedgerFacts'
  <2>1. CASE UNCHANGED tries
    BY <1>0, <1>a, <1>3, <1>4, <2>1 DEF Prepare, WorkerFacts
  <2>2. CASE Sendable(job[w]) /\ tries' = [tries EXCEPT ![job[w]] = @ + 1] /\ Goto(w, "put")
    <3>1. job[w] \in Requests /\ tries[job[w]] = 0 /\ ~Writing(w)
      BY <1>0, <1>4, <2>2 DEF Prepare, WorkerFacts, Sendable, Writing
    <3>2. sent[job[w]] = 0 /\ owed[job[w]] = 0
      BY <1>0, <1>a, <3>1 DEF LedgerFacts
    <3>3. \A v \in Workers : Writing(v) => job[v] # job[w]
      BY <1>0, <3>1 DEF LedgerFacts
    <3>4. /\ tries'[job[w]] = 1 /\ \A r \in Requests : r # job[w] => tries'[r] = tries[r]
          /\ sent' = sent /\ owed' = owed /\ job' = job /\ pc' = [pc EXCEPT ![w] = "put"]
      BY <1>a, <1>4, <2>2, <3>1 DEF Prepare, Goto
    <3>5. \A v \in Workers : Writing(v)' => v = w \/ Writing(v)
      BY <1>a, <3>4 DEF Writing
    <3>6. \A v \in Workers : Writing(v) => job[v] \in Requests
      BY <1>0 DEF WorkerFacts, Writing
    <3>7. \A r \in Requests : tries'[r] <= 1 /\ sent'[r] <= tries'[r] /\ owed'[r] <= tries'[r]
      BY <1>0, <1>a, <3>1, <3>2, <3>4 DEF LedgerFacts
    <3>8. \A v \in Workers : Writing(v)' => tries'[job'[v]] = 1 /\ owed'[job'[v]] = 0
      BY <1>0, <3>2, <3>3, <3>4, <3>5, <3>6 DEF LedgerFacts
    <3>9. \A v \in Workers : pc'[v] = "put" => sent'[job'[v]] = 0
      BY <1>0, <1>a, <3>2, <3>4 DEF LedgerFacts
    <3>10. \A u, v \in Workers : Writing(u)' /\ Writing(v)' /\ job'[u] = job'[v] => u = v
      BY <1>0, <3>3, <3>4, <3>5 DEF LedgerFacts
    <3> QED
      BY <3>7, <3>8, <3>9, <3>10 DEF LedgerFacts
  <2> QED
    BY <1>4, <2>1, <2>2 DEF Prepare
<1>5. ASSUME NEW w \in Workers, Put(w) PROVE LedgerFacts'
  <2>1. /\ job[w] \in Requests /\ pc[w] = "put"
        /\ tries[job[w]] = 1 /\ owed[job[w]] = 0 /\ sent[job[w]] = 0
    BY <1>0, <1>5 DEF Put, WorkerFacts, LedgerFacts, Writing
  <2>2. /\ sent'[job[w]] = 1 /\ \A r \in Requests : r # job[w] => sent'[r] = sent[r]
        /\ tries' = tries /\ owed' = owed
    BY <1>a, <1>5, <2>1 DEF Put, requestVars
  <2>3. job' = job /\ \E t \in {"get", "settle"} : pc' = [pc EXCEPT ![w] = t]
    BY <1>5 DEF Put, Goto, Learn
  <2>4. \A v \in Workers : /\ Writing(v)' => Writing(v)
                           /\ pc'[v] = "put" => pc[v] = "put" /\ v # w
    BY <1>a, <2>1, <2>3 DEF Writing
  <2>5. \A v \in Workers : Writing(v) => job[v] \in Requests
    BY <1>0 DEF WorkerFacts, Writing
  <2>6. \A v \in Workers : pc'[v] = "put" => sent'[job'[v]] = 0
    BY <1>0, <2>1, <2>2, <2>3, <2>4, <2>5 DEF LedgerFacts, Writing
  <2>7. \A r \in Requests : tries'[r] <= 1 /\ sent'[r] <= tries'[r] /\ owed'[r] <= tries'[r]
    BY <1>0, <1>a, <2>1, <2>2 DEF LedgerFacts
  <2> QED
    BY <1>0, <2>2, <2>3, <2>4, <2>6, <2>7 DEF LedgerFacts
<1>6. ASSUME NEW w \in Workers, RecordRefund(w) PROVE LedgerFacts'
  <2>1. /\ job[w] \in Requests /\ Writing(w)
        /\ tries[job[w]] = 1 /\ owed[job[w]] = 0
    BY <1>0, <1>6 DEF RecordRefund, WorkerFacts, LedgerFacts, Writing
  <2>2. /\ owed'[job[w]] \in {0, 1} /\ \A r \in Requests : r # job[w] => owed'[r] = owed[r]
        /\ tries' = tries /\ sent' = sent
    BY <1>a, <1>6, <2>1 DEF RecordRefund, ledgerVars
  <2>3. \A v \in Workers : /\ Writing(v)' => Writing(v) /\ v # w /\ job'[v] = job[v]
                           /\ pc'[v] = "put" => pc[v] = "put" /\ job'[v] = job[v]
    BY <1>a, <1>6 DEF RecordRefund, End, Writing
  <2>4. \A v \in Workers : Writing(v) => job[v] \in Requests
    BY <1>0 DEF WorkerFacts, Writing
  <2>5. \A v \in Workers : Writing(v)' => tries'[job'[v]] = 1 /\ owed'[job'[v]] = 0
    BY <1>0, <2>1, <2>2, <2>3, <2>4 DEF LedgerFacts
  <2>6. \A r \in Requests : tries'[r] <= 1 /\ sent'[r] <= tries'[r] /\ owed'[r] <= tries'[r]
    BY <1>0, <1>a, <2>1, <2>2 DEF LedgerFacts
  <2> QED
    BY <1>0, <2>2, <2>3, <2>5, <2>6 DEF LedgerFacts
<1>7. ASSUME NEW w \in Workers, WorkerStep(w) PROVE LedgerFacts'
  <2>1. CASE Persist(w) \/ RecheckPaid(w) \/ Approve(w)
    BY <1>3, <2>1 DEF Persist, RecheckPaid, Approve, ledgerVars, Step
  <2>2. CASE Get(w)
    BY <1>3, <2>2 DEF Get, ledgerVars, Step, Answer, Writing
  <2>3. CASE SettleApplied(w) \/ SettleOther(w)
    BY <1>3, <2>3 DEF SettleApplied, SettleOther, Step, Writing
  <2>4. CASE WriteStay(w)
    BY <1>3, <2>4 DEF WriteStay, ledgerVars
  <2> QED
    BY <1>4, <1>5, <1>6, <1>7, <2>1, <2>2, <2>3, <2>4 DEF WorkerStep
<1>8. CASE NormalStep
  <2>1. ASSUME NEW w \in Workers, NEW r \in Requests,
               Quote(w, r) \/ CreateCancellation(w, r) \/ Resubmit(w, r) \/ OpenResult(w, r)
        PROVE  LedgerFacts'
    BY <1>3, <2>1 DEF Quote, CreateCancellation, Resubmit, OpenResult, ledgerVars, Step
  <2>2. ASSUME NEW w \in Workers, FetchStay(w) PROVE LedgerFacts'
    BY <1>3, <2>2 DEF FetchStay, ledgerVars, Step
  <2> QED
    BY <1>2, <1>7, <1>8, <2>1, <2>2
    DEF NormalStep, Checkout, CheckoutRefused, Expire, ApproveLocally, RejectLocally,
        CancelledInHostaway, workerVars, ledgerVars
<1>9. CASE \E w \in Workers : Stop(w)
  BY <1>3, <1>9 DEF Stop, ledgerVars
<1>10. CASE UNCHANGED vars
  BY <1>2, <1>10 DEF vars, workerVars, ledgerVars
<1> QED
  BY <1>8, <1>9, <1>10 DEF Next

\* What is completed, and what is owed, took effect.
LEMMA OutcomesPreserved == ASSUME IInv, [Next]_vars PROVE OutcomeFacts'
<1>0. TypeOK /\ StayFacts /\ OutcomeFacts /\ WorkerFacts
  BY DEF IInv
<1>a. /\ pc \in [Workers -> Step] /\ job \in [Workers -> Requests \cup {None}]
      /\ status \in [Requests -> Status] /\ owed \in [Requests -> Nat]
  BY <1>0 DEF TypeOK
<1>b. \A r \in Requests : Took(r) => Took(r)'
  BY HostawayKeeps
<1>1. ASSUME NEW w \in Workers, NEW r \in Requests, Matches(r, seen[w]) PROVE Took(r)
  BY <1>0, <1>1 DEF Matches, StayFacts, Took, Requests
<1>2. ASSUME NEW r \in Requests, status'[r] = "completed" PROVE Took(r)'
  <2>1. CASE status[r] = "completed"
    BY <1>0, <1>b, <2>1 DEF OutcomeFacts
  <2>2. ASSUME NEW w \in Workers, SettleApplied(w), status'[r] # status[r] PROVE Took(r)
    BY <1>a, <1>1, <2>2 DEF SettleApplied, AnswerConfirms
  <2>3. ASSUME NEW w \in Workers, WriteStay(w), status[r] # "completed" PROVE Took(r)
    BY <1>a, <1>1, <1>2, <2>3 DEF WriteStay
  <2>4. CASE status[r] # "completed" /\ ~ \E w \in Workers : SettleApplied(w) \/ WriteStay(w)
    <3>1. ASSUME NEW q \in Requests, NEW t, t # "completed",
                 status' = [status EXCEPT ![q] = t]
          PROVE  FALSE
      BY <1>a, <1>2, <2>4, <3>1
    <3>2. CASE status' = status
      BY <1>2, <2>4, <3>2
    <3>3. ASSUME NEW w \in Workers, Persist(w) PROVE FALSE
      BY <1>a, <1>2, <2>4, <3>3 DEF Persist
    <3>4. ASSUME NEW w \in Workers,
                 RecheckPaid(w) \/ Approve(w) \/ Prepare(w) \/ SettleOther(w)
          PROVE  FALSE
      <4>1. job[w] \in Requests
        BY <1>0, <3>4 DEF RecheckPaid, Approve, Prepare, SettleOther, WorkerFacts
      <4>2. CASE RecheckPaid(w)
        BY <1>a, <1>2, <2>4, <4>1, <4>2 DEF RecheckPaid
      <4>3. CASE Approve(w) \/ Prepare(w)
        BY <1>a, <1>2, <2>4, <4>1, <4>3 DEF Approve, Prepare
      <4>4. CASE SettleOther(w)
        BY <3>1, <4>1, <4>4 DEF SettleOther
      <4> QED
        BY <3>4, <4>2, <4>3, <4>4
    <3>5. ASSUME NEW w \in Workers, WorkerStep(w) PROVE FALSE
      <4>1. CASE Put(w) \/ Get(w) \/ RecordRefund(w)
        <5>1. status' = status
          BY <4>1 DEF Put, Get, RecordRefund, requestVars
        <5> QED
          BY <1>2, <2>4, <5>1
      <4> QED
        BY <2>4, <3>3, <3>4, <3>5, <4>1 DEF WorkerStep
    <3>6. CASE NormalStep
      BY <3>1, <3>2, <3>5, <3>6
      DEF NormalStep, Quote, CreateCancellation, Resubmit, OpenResult, FetchStay, Checkout,
          CheckoutRefused, Expire, ApproveLocally, RejectLocally, CancelledInHostaway, requestVars
    <3> QED
      BY <3>2, <3>6 DEF Next, Stop, vars, requestVars
  <2> QED
    BY <1>2, <1>b, <2>1, <2>2, <2>3, <2>4
<1>3. ASSUME NEW r \in Requests, owed'[r] > 0 PROVE Took(r)'
  <2>1. CASE owed[r] > 0
    BY <1>0, <1>b, <2>1 DEF OutcomeFacts
  <2>2. ASSUME NEW w \in Workers, RecordRefund(w), ~(owed[r] > 0) PROVE Took(r)
    BY <1>0, <1>a, <1>3, <2>2 DEF RecordRefund, OutcomeFacts
  <2>3. CASE ~(owed[r] > 0) /\ UNCHANGED owed
    BY <1>3, <2>3
  <2> QED
    BY <1>b, <2>1, <2>2, <2>3
    DEF Next, NormalStep, WorkerStep, Quote, Persist, CreateCancellation, Resubmit, Checkout,
        CheckoutRefused, OpenResult, RecheckPaid, Approve, Prepare, Put, Get, SettleApplied,
        SettleOther, FetchStay, WriteStay, Expire, ApproveLocally, RejectLocally,
        CancelledInHostaway, Stop, vars
<1>4. ASSUME NEW v \in Workers, NEW r \in Requests, pc'[v] = "record", job'[v] = r
      PROVE  Took(r)'
  <2>1. CASE pc[v] = "record" /\ job'[v] = job[v]
    BY <1>0, <1>4, <1>b, <2>1 DEF OutcomeFacts
  <2>2. ASSUME NEW w \in Workers, SettleApplied(w), pc[v] # "record" PROVE Took(r)'
    <3>1. v = w /\ job' = job
      BY <1>a, <1>4, <2>2 DEF SettleApplied, Goto
    <3> QED
      BY <1>1, <1>4, <1>b, <2>2, <3>1 DEF SettleApplied, AnswerConfirms
  <2>3. CASE /\ ~(pc[v] = "record" /\ job'[v] = job[v])
             /\ ~ \E w \in Workers : SettleApplied(w) /\ pc[v] # "record"
    <3>1. ASSUME NEW w \in Workers,
                 \/ End(w)
                 \/ \E t \in Step \ {"record"} : Goto(w, t) \/ \E a, m : Learn(w, t, a, m)
                 \/ \E t \in Step \ {"record"} : \E q, m : Begin(w, t, q, m)
          PROVE  FALSE
      BY <1>a, <1>4, <2>3, <3>1 DEF End, Goto, Learn, Begin
    <3>2. CASE UNCHANGED <<pc, job>>
      BY <1>4, <2>3, <3>2
    <3>3. ASSUME NEW w \in Workers, WorkerStep(w) PROVE FALSE
      <4>1. ~SettleApplied(w)
        BY <1>a, <2>3 DEF SettleApplied, Goto
      <4> QED
        BY <3>1, <3>3, <4>1
        DEF WorkerStep, Persist, RecheckPaid, Approve, Prepare, Put, Get, SettleOther,
            RecordRefund, WriteStay, Step
    <3>4. CASE NormalStep
      BY <3>1, <3>2, <3>3, <3>4
      DEF NormalStep, Quote, CreateCancellation, Resubmit, OpenResult, FetchStay, Checkout,
          CheckoutRefused, Expire, ApproveLocally, RejectLocally, CancelledInHostaway,
          workerVars, Step
    <3> QED
      BY <3>1, <3>2, <3>4 DEF Next, Stop, vars, workerVars
  <2> QED
    BY <2>1, <2>2, <2>3
<1>5. \A v \in Workers : pc'[v] = "record" => job'[v] \in Requests
  BY WorkersPreserved DEF WorkerFacts
<1>6. \A v \in Workers : pc'[v] = "record" => Took(job[v])'
  BY <1>4, <1>5 DEF Took
<1> QED
  BY <1>2, <1>3, <1>6 DEF OutcomeFacts

-----------------------------------------------------------------------------
(* Open changes.                                                           *)

LEMMA OpenChangePreserved == ASSUME IInv, [Next]_vars PROVE OneOpenChange'
<1>0. TypeOK /\ OneOpenChange /\ WorkerFacts
  BY DEF IInv
<1>a. status \in [Requests -> Status]
  BY <1>0 DEF TypeOK
<1>b. \A q \in Changes : q \in Requests /\ q \notin Cancels
  BY DEF Requests
\* No change is opened.
<1>1. ASSUME \A q \in Changes : status'[q] \in Approvable => status[q] \in Approvable
      PROVE  OneOpenChange'
  BY <1>0, <1>1 DEF OneOpenChange
<1>2. ASSUME NEW w \in Workers, Persist(w) PROVE OneOpenChange'
  <2>1. CASE Persistable(w)
    BY <1>a, <1>b, <1>2, <2>1 DEF Persist, OneOpenChange, Approvable
  <2>2. CASE ~Persistable(w)
    BY <1>1, <1>2, <2>2 DEF Persist
  <2> QED
    BY <2>1, <2>2
<1>3. ASSUME NEW q \in Requests, NEW t \in Status, status' = [status EXCEPT ![q] = t],
             t \in Approvable /\ q \in Changes => status[q] \in Approvable
      PROVE  OneOpenChange'
  BY <1>a, <1>b, <1>1, <1>3
<1>4. CASE UNCHANGED status
  BY <1>1, <1>4
<1>5. ASSUME NEW w \in Workers, RecheckPaid(w) PROVE OneOpenChange'
  <2>1. job[w] \in Requests
    BY <1>0, <1>5 DEF RecheckPaid, WorkerFacts
  <2>2. \A q \in Changes : status'[q] \in Approvable => status[q] \in Approvable
    BY <1>a, <1>b, <1>5, <2>1 DEF RecheckPaid, Approvable
  <2> QED
    BY <1>1, <2>2
<1>6. ASSUME NEW w \in Workers, Approve(w) \/ Prepare(w) \/ SettleOther(w) \/ SettleApplied(w)
      PROVE  OneOpenChange'
  <2>1. job[w] \in Requests
    BY <1>0, <1>6 DEF Approve, Prepare, SettleOther, SettleApplied, WorkerFacts
  <2>2. \A q \in Changes : status'[q] \in Approvable => status[q] \in Approvable
    <3>1. CASE Approve(w) \/ Prepare(w)
      BY <1>a, <1>b, <2>1, <3>1 DEF Approve, Prepare, MayApprove, Approvable
    <3>2. CASE SettleOther(w) \/ SettleApplied(w)
      BY <1>a, <1>b, <2>1, <3>2 DEF SettleOther, SettleApplied, Approvable
    <3> QED
      BY <1>6, <3>1, <3>2
  <2> QED
    BY <1>1, <2>2
<1>7. ASSUME NEW w \in Workers, WriteStay(w) PROVE OneOpenChange'
  <2>1. \A q \in Changes : status'[q] \in Approvable => status[q] \in Approvable
    BY <1>a, <1>b, <1>7 DEF WriteStay, Approvable
  <2> QED
    BY <1>1, <2>1
<1>8. ASSUME NEW w \in Workers, WorkerStep(w) PROVE OneOpenChange'
  <2>1. CASE Put(w) \/ Get(w) \/ RecordRefund(w)
    <3>1. status' = status
      BY <2>1 DEF Put, Get, RecordRefund, requestVars
    <3> QED
      BY <1>4, <3>1
  <2> QED
    BY <1>2, <1>5, <1>6, <1>7, <1>8, <2>1 DEF WorkerStep
<1>9. ASSUME NEW r \in Requests,
             CheckoutRefused(r) \/ Expire(r) \/ ApproveLocally(r) \/ RejectLocally(r)
      PROVE  OneOpenChange'
  BY <1>3, <1>9
  DEF CheckoutRefused, Expire, ApproveLocally, RejectLocally, Status, Approvable
<1>10. ASSUME NEW w \in Workers, NEW r \in Requests, CreateCancellation(w, r)
       PROVE  OneOpenChange'
  BY <1>b, <1>3, <1>10 DEF CreateCancellation, Status
<1>11. CASE NormalStep
  BY <1>4, <1>8, <1>9, <1>10, <1>11
  DEF NormalStep, Quote, Resubmit, OpenResult, FetchStay, Checkout, CancelledInHostaway,
      requestVars
<1> QED
  BY <1>4, <1>11 DEF Next, Stop, vars, requestVars

-----------------------------------------------------------------------------
(* The theorems.                                                           *)

\* The inductive invariant.
THEOREM Invariant == Spec => []IInv
<1>1. IInv /\ [Next]_vars => IInv'
  BY TypePreserved, WorkersPreserved, StaysPreserved, LedgerPreserved, OutcomesPreserved,
     OpenChangePreserved
  DEF IInv
<1> QED
  BY InitInvariant, <1>1, PTL DEF Spec

\* Every column holds a value the code writes.
THEOREM TypeCorrect == Spec => []TypeOK
<1>1. IInv => TypeOK
  BY DEF IInv
<1> QED
  BY Invariant, <1>1, PTL

\* A request is sent to Hostaway at most once (_prepare_operation): nobody takes up
\* a request whose attempt_count is not zero, and a second holder would find it so.
THEOREM OneWrite == Spec => []AtMostOneWrite
<1>1. IInv => AtMostOneWrite
  BY DEF IInv, TypeOK, LedgerFacts, AtMostOneWrite
<1> QED
  BY Invariant, <1>1, PTL

\* A new change replaces the open ones (_supersede_open_change_requests).
THEOREM OneOpen == Spec => []OneOpenChange
<1>1. IInv => OneOpenChange
  BY DEF IInv
<1> QED
  BY Invariant, <1>1, PTL

\* The reservation's row holds what Hostaway did hold (the settlement after the GET,
\* and the refresh).
THEOREM RowFollows == Spec => []ReservationFollowsHostaway
<1>1. IInv => ReservationFollowsHostaway
  BY DEF IInv, StayFacts, ReservationFollowsHostaway
<1> QED
  BY Invariant, <1>1, PTL

\* A completed request took effect in Hostaway (_reconcile_modification_requests).
THEOREM Completed == Spec => []CompletedIsApplied
<1>1. IInv => CompletedIsApplied
  BY DEF IInv, OutcomeFacts, CompletedIsApplied, Took
<1> QED
  BY Invariant, <1>1, PTL

\* A refund is owed once, for what took effect (_record_refund_if_owed).
THEOREM Earned == Spec => []OwedIsEarned
<1>1. IInv => OwedIsEarned
  BY DEF IInv, TypeOK, LedgerFacts, OutcomeFacts, OwedIsEarned, Took
<1> QED
  BY Invariant, <1>1, PTL
=============================================================================
