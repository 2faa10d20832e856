------------------------- MODULE DirectBookingProofs -------------------------
(***************************************************************************)
(* The safety properties of DirectBooking, for any number of intents,      *)
(* attempts and workers.                                                   *)
(***************************************************************************)
EXTENDS DirectBooking, TLAPS

\* An attempt has an intent from the moment it exists, and is only ever marked
\* succeeded when HyperPay holds the money.
AttemptFacts ==
    \A a \in Attempts : /\ att[a] = "absent" <=> owner[a] = None
                        /\ att[a] = "succeeded" => pay[a] = "paid"

\* The ledger of the create operation: one claim, at most one POST, no stay
\* without a POST, and no record of a stay that was not made.
LedgerFacts ==
    \A i \in Intents :
        /\ tries[i] \in {0, 1}
        /\ tries[i] = 0 => op[i] \in {"absent", "blocked"}
        /\ sent[i] <= tries[i]
        /\ sent[i] = 0 => stay[i] = "none"
        /\ i \in linked => sent[i] = 1 /\ stay[i] # "none"
        /\ res[i] \in {"absent", "awaiting_payment", "ready_for_hostaway"} => tries[i] = 0
        /\ res[i] = "confirmed" => i \in linked
        /\ tries[i] = 1 => i \in paid
        /\ i \in paid => Verified(i)

Handling == {"record", "receipt", "review"} \cup Creating

\* What a worker may rely on at each of its steps.
WorkerFacts ==
    \A w \in Workers :
        /\ pc[w] # "idle" => on[w] \in Intents
        /\ pc[w] \in {"get", "process", "complete"} =>
              job[w] \in Attempts /\ owner[job[w]] = on[w]
        /\ pc[w] = "process" => memo[w] \in Document
        /\ pc[w] = "process" /\ memo[w] = "success" => pay[job[w]] = "paid"
        /\ pc[w] = "complete" => att[job[w]] = "succeeded"
        /\ pc[w] \in Handling => Verified(on[w])
        /\ pc[w] \in Handling \ {"record"} => on[w] \in paid
        /\ pc[w] \in Handling /\ job[w] # None =>
              att[job[w]] = "succeeded" /\ owner[job[w]] = on[w]
        /\ pc[w] \in {"record", "receipt", "review"} => job[w] # None
        /\ pc[w] = "record" => res[on[w]] # "absent"
        /\ pc[w] \in {"send", "settle"} => tries[on[w]] = 1
        /\ pc[w] = "send" => sent[on[w]] = 0
        /\ pc[w] = "settle" => sent[on[w]] = 1 /\ memo[w] \in Answer
        /\ pc[w] = "settle" /\ memo[w] \in {"created", "mismatched"} => stay[on[w]] # "none"

\* Two workers never hold the create operation of one intent.
Exclusive ==
    \A v, w \in Workers :
        v # w /\ pc[v] \in {"send", "settle"} /\ pc[w] \in {"send", "settle"}
            => on[v] # on[w]

IInv == TypeOK /\ AttemptFacts /\ LedgerFacts /\ WorkerFacts /\ Exclusive /\ ReceiptIsBacked

-----------------------------------------------------------------------------
USE DEF Begin, Goto, End, Return, MoveAwaiting

\* Everything but the attempts: an action that leaves owner and att alone keeps
\* every verified payment verified.
LEMMA VerifiedKept ==
    ASSUME UNCHANGED <<owner, att>>, NEW i
    PROVE  Verified(i)' = Verified(i)
  BY DEF Verified

\* Only a paid checkout is read as a success.
LEMMA DocumentFacts ==
    ASSUME NEW a, NEW d \in Documents(a)
    PROVE  d \in Document /\ (d = "success" => pay[a] = "paid")
<1>1. CASE pay[a] = "open"
  BY <1>1 DEF Documents, Document
<1>2. CASE pay[a] = "paid"
  BY <1>2 DEF Documents, Document
<1>3. CASE pay[a] = "declined"
  BY <1>3 DEF Documents, Document
<1>4. CASE pay[a] \notin {"open", "paid", "declined"}
  BY <1>4 DEF Documents, Document
<1> QED
  BY <1>1, <1>2, <1>3, <1>4

LEMMA InitIInv == Init => IInv
<1> SUFFICES ASSUME Init PROVE IInv
  OBVIOUS
<1>1. TypeOK
  BY DEF Init, TypeOK, IntentStatus, AttemptStatus, GatewayState,
         ReservationStatus, OpStatus, Stay, Step
<1>2. AttemptFacts
  BY DEF Init, AttemptFacts
<1>3. LedgerFacts
  BY DEF Init, LedgerFacts
<1>4. WorkerFacts
  BY DEF Init, WorkerFacts, Handling, Creating
<1>5. Exclusive
  BY DEF Init, Exclusive
<1>6. ReceiptIsBacked
  BY DEF Init, ReceiptIsBacked
<1> QED
  BY <1>1, <1>2, <1>3, <1>4, <1>5, <1>6 DEF IInv

\* The worker's own variables, and what keeps their types.
Memo == IntentStatus \cup Document \cup Answer \cup {None}

WorkersTyped ==
    /\ pc \in [Workers -> Step]
    /\ job \in [Workers -> Attempts \cup {None}]
    /\ on \in [Workers -> Intents \cup {None}]
    /\ memo \in [Workers -> Memo]

LEMMA GotoTyped ==
    ASSUME WorkersTyped, NEW w \in Workers, NEW s \in Step, NEW m \in Memo, Goto(w, s, m)
    PROVE  WorkersTyped'
  BY DEF WorkersTyped, Goto

LEMMA EndTyped ==
    ASSUME WorkersTyped, NEW w \in Workers, End(w) PROVE WorkersTyped'
  BY DEF WorkersTyped, End, Memo, Step, Creating

LEMMA ReturnTyped ==
    ASSUME WorkersTyped, NEW w \in Workers, NEW s \in Step, Return(w, s)
    PROVE  WorkersTyped'
<1>1. None \in Memo
  BY DEF Memo
<1>2. CASE job[w] = None
  BY <1>2, EndTyped DEF Return
<1>3. CASE job[w] # None
  BY <1>1, <1>3, GotoTyped DEF Return
<1> QED
  BY <1>2, <1>3

LEMMA BeginTyped ==
    ASSUME WorkersTyped, NEW w \in Workers, NEW s \in Step, NEW a \in Attempts \cup {None},
           NEW i \in Intents, NEW m \in Memo, Begin(w, s, a, i, m)
    PROVE  WorkersTyped'
  BY DEF WorkersTyped, Begin

LEMMA TypePreserved == IInv /\ [Next]_vars => TypeOK'
<1> SUFFICES ASSUME IInv, [Next]_vars PROVE TypeOK'
  OBVIOUS
<1> USE ConstantsAssumption DEF IInv, TypeOK, AttemptFacts, LedgerFacts, WorkerFacts,
      IntentStatus, AttemptStatus, GatewayState, ReservationStatus, OpStatus,
      Stay, Document, Answer, Step, Creating, Handling,
      gatewayVars, recordVars, remoteVars, noticeVars, workerVars
<1>a. WorkersTyped
  BY DEF WorkersTyped, Memo
<1>b. "check" \in Step /\ "fail" \in Step /\ "block" \in Step /\ "claim" \in Step
      /\ "settle" \in Step /\ "receipt" \in Step /\ "review" \in Step
      /\ "complete" \in Step /\ "get" \in Step
  OBVIOUS
<1>c. None \in Memo /\ Answer \subseteq Memo /\ IntentStatus \subseteq Memo
  BY DEF Memo
<1>1. ASSUME NEW w \in Workers, CreateCheckout(w) PROVE TypeOK'
  BY <1>1 DEF CreateCheckout
<1>2. ASSUME NEW w \in Workers, GetPayment(w) PROVE TypeOK'
  <2>1. Documents(job[w]) \subseteq Memo /\ "process" \in Step
    BY DocumentFacts DEF Memo
  <2>2. WorkersTyped'
    BY ONLY <1>2, <1>a, <2>1, GotoTyped, EndTyped DEF GetPayment
  <2> QED
    BY ONLY TypeOK, <1>2, <2>2 DEF GetPayment, WorkersTyped, Memo
<1>3. ASSUME NEW w \in Workers, ProcessVerification(w) PROVE TypeOK'
  <2>1. job[w] \in Attempts /\ StatusOf(memo[w]) \in AttemptStatus
    BY <1>3 DEF ProcessVerification, StatusOf
  <2>2. intent[on[w]] \in IntentStatus
    BY <1>3 DEF ProcessVerification
  <2>3. WorkersTyped'
    BY ONLY <1>3, <1>a, <1>b, <1>c, <2>2, GotoTyped, EndTyped DEF ProcessVerification
  <2>4. att' \in [Attempts -> AttemptStatus]
    BY <1>3, <2>1 DEF ProcessVerification
  <2> QED
    BY ONLY TypeOK, <1>3, <2>3, <2>4 DEF ProcessVerification, WorkersTyped, Memo
<1>4. ASSUME NEW w \in Workers, Complete(w) PROVE TypeOK'
  BY <1>4 DEF Complete
<1>5. ASSUME NEW w \in Workers, RecordPayment(w) PROVE TypeOK'
  BY <1>5 DEF RecordPayment
<1>6. ASSUME NEW w \in Workers, Refresh(w) PROVE TypeOK'
  <2>1. WorkersTyped'
    BY ONLY <1>6, <1>a, <1>b, <1>c, GotoTyped, ReturnTyped DEF Refresh
  <2> QED
    BY ONLY TypeOK, <1>6, <2>1 DEF Refresh, WorkersTyped, Memo
<1>7. ASSUME NEW w \in Workers, CheckAvailability(w) PROVE TypeOK'
  <2>1. WorkersTyped'
    BY ONLY <1>7, <1>a, <1>b, <1>c, GotoTyped DEF CheckAvailability
  <2> QED
    BY ONLY TypeOK, <1>7, <2>1 DEF CheckAvailability, WorkersTyped, Memo
<1>8. ASSUME NEW w \in Workers, FailWithoutPost(w) PROVE TypeOK'
  BY <1>8 DEF FailWithoutPost
<1>9. ASSUME NEW w \in Workers, EnsureBlocked(w) PROVE TypeOK'
  BY <1>9 DEF EnsureBlocked
<1>10. ASSUME NEW w \in Workers, PrepareOperation(w) PROVE TypeOK'
  <2>1. on[w] \in Intents /\ "send" \in Step
    BY <1>10 DEF PrepareOperation
  <2>2. /\ res' \in [Intents -> ReservationStatus] /\ op' \in [Intents -> OpStatus]
        /\ tries' \in [Intents -> Nat]
    BY ONLY TypeOK, <1>10, <2>1 DEF PrepareOperation
  <2>3. WorkersTyped'
    BY ONLY <1>10, <1>a, <1>b, <1>c, <2>1, GotoTyped, ReturnTyped DEF PrepareOperation
  <2> QED
    BY ONLY TypeOK, <1>10, <2>2, <2>3 DEF PrepareOperation, WorkersTyped, Memo
<1>11. ASSUME NEW w \in Workers, PostReservation(w) PROVE TypeOK'
  <2>1. on[w] \in Intents
    BY <1>11 DEF PostReservation
  <2>2. WorkersTyped'
    BY ONLY <1>11, <1>a, <1>b, <1>c, GotoTyped DEF PostReservation, Answer
  <2>3. sent' \in [Intents -> Nat] /\ stay' \in [Intents -> Stay]
    BY ONLY TypeOK, <1>11, <2>1 DEF PostReservation
  <2> QED
    BY ONLY TypeOK, <1>11, <2>2, <2>3 DEF PostReservation, WorkersTyped, Memo
<1>12. ASSUME NEW w \in Workers, SettleCreated(w) PROVE TypeOK'
  <2>1. on[w] \in Intents
    BY <1>12 DEF SettleCreated
  <2>2. WorkersTyped'
    BY ONLY <1>12, <1>a, <1>b, EndTyped, ReturnTyped DEF SettleCreated
  <2>3. /\ intent' \in [Intents -> IntentStatus] /\ res' \in [Intents -> ReservationStatus]
        /\ op' \in [Intents -> OpStatus] /\ linked' \subseteq Intents
    BY ONLY TypeOK, <1>12, <2>1 DEF SettleCreated
  <2> QED
    BY ONLY TypeOK, <1>12, <2>2, <2>3 DEF SettleCreated, WorkersTyped, Memo
<1>13. ASSUME NEW w \in Workers, SettleMismatched(w) PROVE TypeOK'
  <2>1. on[w] \in Intents
    BY <1>13 DEF SettleMismatched
  <2>2. WorkersTyped'
    BY ONLY <1>13, <1>a, <1>b, EndTyped, ReturnTyped DEF SettleMismatched
  <2>3. /\ res' \in [Intents -> ReservationStatus]
        /\ op' \in [Intents -> OpStatus] /\ linked' \subseteq Intents
    BY ONLY TypeOK, <1>13, <2>1 DEF SettleMismatched
  <2> QED
    BY ONLY TypeOK, <1>13, <2>2, <2>3 DEF SettleMismatched, WorkersTyped, Memo
<1>14. ASSUME NEW w \in Workers, SettleWithoutStay(w) PROVE TypeOK'
  BY <1>14 DEF SettleWithoutStay
<1>15. ASSUME NEW w \in Workers, QueueReceipt(w) PROVE TypeOK'
  BY <1>15 DEF QueueReceipt
<1>16. ASSUME NEW w \in Workers, ReportForReview(w) PROVE TypeOK'
  BY <1>16 DEF ReportForReview
<1>17. ASSUME NEW w \in Workers, NEW i \in Intents, StartCheckout(w, i) PROVE TypeOK'
  <2>1. WorkersTyped'
    <3>1. "checkout" \in Step
      OBVIOUS
    <3> QED
      BY ONLY <1>17, <1>a, <1>c, <3>1, BeginTyped DEF StartCheckout, WorkersTyped
  <2>2. intent' \in [Intents -> IntentStatus]
    BY ONLY TypeOK, <1>17 DEF StartCheckout, MoveAwaiting
  <2> QED
    BY ONLY TypeOK, <1>17, <2>1, <2>2 DEF StartCheckout, WorkersTyped, Memo
<1>18. ASSUME NEW w \in Workers, NEW i \in Intents, StartRecovery(w, i) PROVE TypeOK'
  BY <1>18 DEF StartRecovery
<1>19. ASSUME NEW w \in Workers, NEW a \in Attempts, OpenResult(w, a) PROVE TypeOK'
  <2>1. owner[a] \in Intents /\ intent[owner[a]] \in IntentStatus
    BY <1>19 DEF OpenResult
  <2>2. WorkersTyped'
    BY ONLY <1>19, <1>a, <1>b, <1>c, <2>1, BeginTyped DEF OpenResult
  <2> QED
    BY ONLY TypeOK, <1>19, <2>2 DEF OpenResult, WorkersTyped, Memo
<1>20. CASE SelectLapsed
  BY <1>20 DEF SelectLapsed
<1>21. CASE ExpireSelected
  BY <1>21 DEF ExpireSelected
<1>22. ASSUME NEW i \in Intents, CancelIntent(i) PROVE TypeOK'
  BY <1>22 DEF CancelIntent
<1>23. ASSUME NEW i \in Intents, SyncReservation(i) PROVE TypeOK'
  BY <1>23 DEF SyncReservation
<1>24. ASSUME NEW i \in Intents, ImportStay(i) PROVE TypeOK'
  BY <1>24 DEF ImportStay
<1>25. ASSUME NEW i \in Intents, Lapse(i) PROVE TypeOK'
  BY <1>25 DEF Lapse
<1>26. ASSUME NEW i \in Intents, StayCancelled(i) PROVE TypeOK'
  BY <1>26 DEF StayCancelled
<1>27. ASSUME NEW a \in Attempts, Pay(a) PROVE TypeOK'
  BY <1>27 DEF Pay
<1>28. CASE ChannelMoves
  BY <1>28 DEF ChannelMoves
<1>29. ASSUME NEW w \in Workers, Crash(w) PROVE TypeOK'
  BY <1>29 DEF Crash
<1>31. ASSUME NEW w \in Workers, OverwriteBlocked(w) PROVE TypeOK'
  <2>1. on[w] \in Intents
    BY <1>31 DEF OverwriteBlocked
  <2>2. WorkersTyped'
    BY ONLY <1>31, <1>a, <1>b, ReturnTyped DEF OverwriteBlocked
  <2>3. op' \in [Intents -> OpStatus]
    BY ONLY TypeOK, <1>31, <2>1 DEF OverwriteBlocked
  <2> QED
    BY ONLY TypeOK, <1>31, <2>2, <2>3 DEF OverwriteBlocked, WorkersTyped, Memo
<1>32. ASSUME NEW i \in Intents, MarkUnknownForReview(i) PROVE TypeOK'
  BY <1>32 DEF MarkUnknownForReview
<1>30. CASE UNCHANGED vars
  BY <1>30 DEF vars
<1> QED
  BY ONLY [Next]_vars,
     <1>1, <1>2, <1>3, <1>4, <1>5, <1>6, <1>7, <1>8, <1>9, <1>10, <1>11, <1>12,
     <1>13, <1>14, <1>15, <1>16, <1>17, <1>18, <1>19, <1>20, <1>21, <1>22, <1>23,
     <1>24, <1>25, <1>26, <1>27, <1>28, <1>29, <1>30, <1>31, <1>32
  DEF Next, WorkerStep, Expiration

-----------------------------------------------------------------------------
\* What HyperPay's checkouts and the attempts are is written by three actions only.
LEMMA AttemptWriters ==
    ASSUME [Next]_vars
    PROVE  \/ \E w \in Workers : CreateCheckout(w) \/ ProcessVerification(w)
           \/ \E a \in Attempts : Pay(a)
           \/ UNCHANGED gatewayVars
<1>1. ASSUME NEW w \in Workers, WorkerStep(w)
      PROVE  CreateCheckout(w) \/ ProcessVerification(w) \/ UNCHANGED gatewayVars
  BY ONLY <1>1, SMTT(20)
  DEF WorkerStep, GetPayment, Complete, RecordPayment, Refresh, CheckAvailability,
      FailWithoutPost, EnsureBlocked, OverwriteBlocked, PrepareOperation,
      PostReservation, SettleCreated, SettleMismatched, SettleWithoutStay,
      QueueReceipt, ReportForReview
<1>2. ASSUME NEW w \in Workers, NEW i \in Intents,
             StartCheckout(w, i) \/ StartRecovery(w, i)
      PROVE  UNCHANGED gatewayVars
  BY ONLY <1>2 DEF StartCheckout, StartRecovery
<1>3. ASSUME NEW w \in Workers, (\E a \in Attempts : OpenResult(w, a)) \/ Crash(w)
      PROVE  UNCHANGED gatewayVars
  BY ONLY <1>3 DEF OpenResult, Crash
<1>4. ASSUME NEW i \in Intents,
             \/ CancelIntent(i) \/ MarkUnknownForReview(i) \/ SyncReservation(i)
             \/ ImportStay(i) \/ Lapse(i) \/ StayCancelled(i)
      PROVE  UNCHANGED gatewayVars
  BY ONLY <1>4 DEF CancelIntent, MarkUnknownForReview, SyncReservation, ImportStay,
      Lapse, StayCancelled
<1>5. ASSUME Expiration \/ ChannelMoves \/ UNCHANGED vars
      PROVE  UNCHANGED gatewayVars
  BY ONLY <1>5 DEF Expiration, SelectLapsed, ExpireSelected, ChannelMoves, vars
<1> QED
  BY ONLY [Next]_vars, <1>1, <1>2, <1>3, <1>4, <1>5 DEF Next

\* A verified payment stays verified.  Only two actions write an attempt.
LEMMA VerifiedMonotone ==
    ASSUME IInv, [Next]_vars
    PROVE  \A i \in Intents : Verified(i) => Verified(i)'
<1>1. ASSUME NEW w \in Workers, CreateCheckout(w)
      PROVE \A i \in Intents : Verified(i) => Verified(i)'
  BY <1>1 DEF CreateCheckout, IInv, TypeOK, AttemptFacts, Verified, gatewayVars
<1>2. ASSUME NEW w \in Workers, ProcessVerification(w)
      PROVE  \A i \in Intents : Verified(i) => Verified(i)'
  BY <1>2 DEF ProcessVerification, IInv, TypeOK, WorkerFacts, Verified, StatusOf
<1>3. CASE UNCHANGED <<owner, att>>
  BY <1>3 DEF Verified
<1> QED
  BY AttemptWriters, <1>1, <1>2, <1>3 DEF Pay, gatewayVars

LEMMA AttemptPreserved == ASSUME IInv, [Next]_vars PROVE AttemptFacts'
<1> USE DEF IInv, TypeOK, AttemptFacts
<1>1. ASSUME NEW w \in Workers, CreateCheckout(w) PROVE AttemptFacts'
  BY <1>1, ConstantsAssumption DEF CreateCheckout, WorkerFacts, gatewayVars
<1>2. ASSUME NEW w \in Workers, ProcessVerification(w) PROVE AttemptFacts'
  BY <1>2, ConstantsAssumption DEF ProcessVerification, WorkerFacts, StatusOf, Document
<1>3. ASSUME NEW a \in Attempts, Pay(a) PROVE AttemptFacts'
  BY <1>3 DEF Pay
<1>4. CASE UNCHANGED <<owner, att, pay>>
  BY <1>4
<1> QED
  BY AttemptWriters, <1>1, <1>2, <1>3, <1>4 DEF gatewayVars

-----------------------------------------------------------------------------
\* The actions below are the only ones that write the records LedgerFacts
\* relates; each of them keeps every payment verified.
LEMMA LedgerPreserved == ASSUME IInv, [Next]_vars PROVE LedgerFacts'
<1>k. \A i \in Intents : Verified(i) => Verified(i)'
  BY VerifiedMonotone
<1> USE DEF IInv, TypeOK, LedgerFacts, WorkerFacts, Handling, Creating
<1>1. ASSUME NEW w \in Workers, Complete(w) PROVE LedgerFacts'
  BY <1>1, <1>k DEF Complete, remoteVars
<1>2. ASSUME NEW w \in Workers, RecordPayment(w) PROVE LedgerFacts'
  BY <1>2, <1>k DEF RecordPayment, remoteVars
<1>3. ASSUME NEW w \in Workers, FailWithoutPost(w) PROVE LedgerFacts'
  BY <1>3, <1>k DEF FailWithoutPost, remoteVars
<1>4. ASSUME NEW w \in Workers, EnsureBlocked(w) PROVE LedgerFacts'
  BY <1>4, <1>k DEF EnsureBlocked, remoteVars
<1>13. ASSUME NEW w \in Workers, OverwriteBlocked(w) PROVE LedgerFacts'
  BY <1>13, <1>k DEF OverwriteBlocked, remoteVars
<1>14. ASSUME NEW i \in Intents, MarkUnknownForReview(i) PROVE LedgerFacts'
  BY <1>14, <1>k DEF MarkUnknownForReview, remoteVars
<1>5. ASSUME NEW w \in Workers, PrepareOperation(w) PROVE LedgerFacts'
  BY <1>5, <1>k DEF PrepareOperation, Claimable, remoteVars
<1>6. ASSUME NEW w \in Workers, PostReservation(w) PROVE LedgerFacts'
  BY <1>6, <1>k DEF PostReservation, recordVars
<1>7. ASSUME NEW w \in Workers, SettleCreated(w) PROVE LedgerFacts'
  BY <1>7, <1>k DEF SettleCreated, remoteVars
<1>8. ASSUME NEW w \in Workers, SettleMismatched(w) PROVE LedgerFacts'
  BY <1>8, <1>k DEF SettleMismatched, remoteVars
<1>9. ASSUME NEW w \in Workers, SettleWithoutStay(w) PROVE LedgerFacts'
  BY <1>9, <1>k DEF SettleWithoutStay, remoteVars
<1>10. ASSUME NEW i \in Intents, SyncReservation(i) PROVE LedgerFacts'
  BY <1>10, <1>k DEF SyncReservation, remoteVars
<1>11. ASSUME NEW i \in Intents, StayCancelled(i) PROVE LedgerFacts'
  BY <1>11, <1>k DEF StayCancelled, recordVars
<1>12. CASE UNCHANGED <<res, paid, linked, op, tries, sent, stay>>
  BY <1>12, <1>k
<1> QED
  BY ONLY [Next]_vars, <1>1, <1>2, <1>3, <1>4, <1>5, <1>6, <1>7, <1>8, <1>9, <1>10, <1>11, <1>12,
     <1>13, <1>14
  DEF Next, WorkerStep, Expiration, vars, recordVars, remoteVars,
      CreateCheckout, GetPayment, ProcessVerification, Refresh, CheckAvailability,
      QueueReceipt, ReportForReview, Crash, StartCheckout, StartRecovery, OpenResult,
      SelectLapsed, ExpireSelected, CancelIntent, ImportStay, Lapse, Pay, ChannelMoves

LEMMA WorkersPreserved == ASSUME IInv, [Next]_vars PROVE WorkerFacts'
<1>k. \A i \in Intents : Verified(i) => Verified(i)'
  BY VerifiedMonotone
<1> USE ConstantsAssumption DEF IInv, TypeOK, AttemptFacts, LedgerFacts, WorkerFacts, Exclusive,
      Handling, Creating, Document, Answer, IntentStatus,
      recordVars, remoteVars, gatewayVars, noticeVars, workerVars
<1>1. ASSUME NEW w \in Workers, CreateCheckout(w) PROVE WorkerFacts'
  BY <1>1, <1>k DEF CreateCheckout
<1>2. ASSUME NEW w \in Workers, GetPayment(w) PROVE WorkerFacts'
  BY <1>2, <1>k, DocumentFacts DEF GetPayment
<1>3. ASSUME NEW w \in Workers, ProcessVerification(w) PROVE WorkerFacts'
  BY <1>3, <1>k DEF ProcessVerification, StatusOf
<1>4. ASSUME NEW w \in Workers, Complete(w) PROVE WorkerFacts'
  <2>1. Verified(on[w])
    BY <1>4 DEF Complete, Verified
  <2> QED
    BY <1>4, <1>k, <2>1 DEF Complete
<1>5. ASSUME NEW w \in Workers, RecordPayment(w) PROVE WorkerFacts'
  BY <1>5, <1>k DEF RecordPayment
<1>6. ASSUME NEW w \in Workers, Refresh(w) PROVE WorkerFacts'
  BY <1>6, <1>k DEF Refresh
<1>7. ASSUME NEW w \in Workers, CheckAvailability(w) PROVE WorkerFacts'
  BY <1>7, <1>k DEF CheckAvailability
<1>8. ASSUME NEW w \in Workers, FailWithoutPost(w) PROVE WorkerFacts'
  BY <1>8, <1>k DEF FailWithoutPost
<1>9. ASSUME NEW w \in Workers, EnsureBlocked(w) PROVE WorkerFacts'
  BY <1>9, <1>k DEF EnsureBlocked
<1>10. ASSUME NEW w \in Workers, PrepareOperation(w) PROVE WorkerFacts'
  BY <1>10, <1>k DEF PrepareOperation, Claimable
<1>11. ASSUME NEW w \in Workers, PostReservation(w) PROVE WorkerFacts'
  BY <1>11, <1>k DEF PostReservation
<1>12. ASSUME NEW w \in Workers, SettleCreated(w) PROVE WorkerFacts'
  BY <1>12, <1>k DEF SettleCreated
<1>13. ASSUME NEW w \in Workers, SettleMismatched(w) PROVE WorkerFacts'
  BY <1>13, <1>k DEF SettleMismatched
<1>14. ASSUME NEW w \in Workers, SettleWithoutStay(w) PROVE WorkerFacts'
  BY <1>14, <1>k DEF SettleWithoutStay
<1>15. ASSUME NEW w \in Workers, QueueReceipt(w) PROVE WorkerFacts'
  BY <1>15, <1>k DEF QueueReceipt
<1>16. ASSUME NEW w \in Workers, ReportForReview(w) PROVE WorkerFacts'
  BY <1>16, <1>k DEF ReportForReview
<1>17. ASSUME NEW w \in Workers, Crash(w) PROVE WorkerFacts'
  BY <1>17, <1>k DEF Crash
<1>18. ASSUME NEW w \in Workers, NEW i \in Intents, StartCheckout(w, i) PROVE WorkerFacts'
  BY <1>18, <1>k DEF StartCheckout
<1>19. ASSUME NEW w \in Workers, NEW i \in Intents, StartRecovery(w, i) PROVE WorkerFacts'
  BY <1>19, <1>k DEF StartRecovery, Recoverable
<1>20. ASSUME NEW w \in Workers, NEW a \in Attempts, OpenResult(w, a) PROVE WorkerFacts'
  BY <1>20, <1>k DEF OpenResult
<1>21. ASSUME NEW i \in Intents, CancelIntent(i) PROVE WorkerFacts'
  BY <1>21, <1>k DEF CancelIntent
<1>22. ASSUME NEW i \in Intents, SyncReservation(i) PROVE WorkerFacts'
  BY <1>22, <1>k DEF SyncReservation
<1>23. ASSUME NEW i \in Intents, ImportStay(i) PROVE WorkerFacts'
  BY <1>23, <1>k DEF ImportStay
<1>24. ASSUME NEW i \in Intents, Lapse(i) PROVE WorkerFacts'
  BY <1>24, <1>k DEF Lapse
<1>25. ASSUME NEW i \in Intents, StayCancelled(i) PROVE WorkerFacts'
  BY <1>25, <1>k DEF StayCancelled
<1>26. ASSUME NEW a \in Attempts, Pay(a) PROVE WorkerFacts'
  BY <1>26, <1>k DEF Pay
<1>27. CASE SelectLapsed
  BY <1>27, <1>k DEF SelectLapsed
<1>28. CASE ExpireSelected
  BY <1>28, <1>k DEF ExpireSelected
<1>29. CASE ChannelMoves
  BY <1>29, <1>k DEF ChannelMoves
<1>31. ASSUME NEW w \in Workers, OverwriteBlocked(w) PROVE WorkerFacts'
  BY <1>31, <1>k DEF OverwriteBlocked
<1>32. ASSUME NEW i \in Intents, MarkUnknownForReview(i) PROVE WorkerFacts'
  BY <1>32, <1>k DEF MarkUnknownForReview
<1>30. CASE UNCHANGED vars
  BY <1>30, <1>k DEF vars
<1> QED
  BY ONLY [Next]_vars, <1>1, <1>2, <1>3, <1>4, <1>5, <1>6, <1>7, <1>8, <1>9,
     <1>10, <1>11, <1>12, <1>13, <1>14, <1>15, <1>16, <1>17, <1>18, <1>19,
     <1>20, <1>21, <1>22, <1>23, <1>24, <1>25, <1>26, <1>27, <1>28, <1>29, <1>30, <1>31, <1>32
  DEF Next, WorkerStep, Expiration

LEMMA ExclusivePreserved == ASSUME IInv, [Next]_vars PROVE Exclusive'
<1> USE DEF IInv, TypeOK, WorkerFacts, Exclusive, Handling, Creating, workerVars
<1>1. ASSUME NEW w \in Workers, CreateCheckout(w) PROVE Exclusive'
  BY <1>1 DEF CreateCheckout
<1>2. ASSUME NEW w \in Workers, GetPayment(w) PROVE Exclusive'
  BY <1>2 DEF GetPayment
<1>3. ASSUME NEW w \in Workers, ProcessVerification(w) PROVE Exclusive'
  BY <1>3 DEF ProcessVerification
<1>4. ASSUME NEW w \in Workers, Complete(w) PROVE Exclusive'
  BY <1>4 DEF Complete
<1>5. ASSUME NEW w \in Workers, RecordPayment(w) PROVE Exclusive'
  BY <1>5 DEF RecordPayment
<1>6. ASSUME NEW w \in Workers, Refresh(w) PROVE Exclusive'
  BY <1>6 DEF Refresh
<1>7. ASSUME NEW w \in Workers, CheckAvailability(w) PROVE Exclusive'
  BY <1>7 DEF CheckAvailability
<1>8. ASSUME NEW w \in Workers, FailWithoutPost(w) PROVE Exclusive'
  BY <1>8 DEF FailWithoutPost
<1>9. ASSUME NEW w \in Workers, EnsureBlocked(w) PROVE Exclusive'
  BY <1>9 DEF EnsureBlocked
<1>10. ASSUME NEW w \in Workers, PrepareOperation(w) PROVE Exclusive'
  BY <1>10 DEF PrepareOperation, Claimable
<1>11. ASSUME NEW w \in Workers, PostReservation(w) PROVE Exclusive'
  BY <1>11 DEF PostReservation
<1>12. ASSUME NEW w \in Workers, SettleCreated(w) PROVE Exclusive'
  BY <1>12 DEF SettleCreated
<1>13. ASSUME NEW w \in Workers, SettleMismatched(w) PROVE Exclusive'
  BY <1>13 DEF SettleMismatched
<1>14. ASSUME NEW w \in Workers, SettleWithoutStay(w) PROVE Exclusive'
  BY <1>14 DEF SettleWithoutStay
<1>15. ASSUME NEW w \in Workers, QueueReceipt(w) PROVE Exclusive'
  BY <1>15 DEF QueueReceipt
<1>16. ASSUME NEW w \in Workers, ReportForReview(w) PROVE Exclusive'
  BY <1>16 DEF ReportForReview
<1>17. ASSUME NEW w \in Workers, Crash(w) PROVE Exclusive'
  BY <1>17 DEF Crash
<1>18. ASSUME NEW w \in Workers, NEW i \in Intents, StartCheckout(w, i) PROVE Exclusive'
  BY <1>18 DEF StartCheckout
<1>19. ASSUME NEW w \in Workers, NEW i \in Intents, StartRecovery(w, i) PROVE Exclusive'
  BY <1>19 DEF StartRecovery
<1>20. ASSUME NEW w \in Workers, NEW a \in Attempts, OpenResult(w, a) PROVE Exclusive'
  BY <1>20 DEF OpenResult
<1>21. ASSUME NEW i \in Intents, CancelIntent(i) PROVE Exclusive'
  BY <1>21 DEF CancelIntent
<1>22. ASSUME NEW i \in Intents, SyncReservation(i) PROVE Exclusive'
  BY <1>22 DEF SyncReservation
<1>23. ASSUME NEW i \in Intents, ImportStay(i) PROVE Exclusive'
  BY <1>23 DEF ImportStay
<1>24. ASSUME NEW i \in Intents, Lapse(i) PROVE Exclusive'
  BY <1>24 DEF Lapse
<1>25. ASSUME NEW i \in Intents, StayCancelled(i) PROVE Exclusive'
  BY <1>25 DEF StayCancelled
<1>26. ASSUME NEW a \in Attempts, Pay(a) PROVE Exclusive'
  BY <1>26 DEF Pay
<1>27. CASE SelectLapsed
  BY <1>27 DEF SelectLapsed
<1>28. CASE ExpireSelected
  BY <1>28 DEF ExpireSelected
<1>29. CASE ChannelMoves
  BY <1>29 DEF ChannelMoves
<1>31. ASSUME NEW w \in Workers, OverwriteBlocked(w) PROVE Exclusive'
  BY <1>31 DEF OverwriteBlocked
<1>32. ASSUME NEW i \in Intents, MarkUnknownForReview(i) PROVE Exclusive'
  BY <1>32 DEF MarkUnknownForReview
<1>30. CASE UNCHANGED vars
  BY <1>30 DEF vars
<1> QED
  BY ONLY [Next]_vars, <1>1, <1>2, <1>3, <1>4, <1>5, <1>6, <1>7, <1>8, <1>9,
     <1>10, <1>11, <1>12, <1>13, <1>14, <1>15, <1>16, <1>17, <1>18, <1>19,
     <1>20, <1>21, <1>22, <1>23, <1>24, <1>25, <1>26, <1>27, <1>28, <1>29, <1>30, <1>31, <1>32
  DEF Next, WorkerStep, Expiration

\* A receipt is queued by one action alone; verified payments and Hostaway ids stay.
LEMMA ReceiptPreserved == ASSUME IInv, [Next]_vars PROVE ReceiptIsBacked'
<1> USE DEF IInv, TypeOK, ReceiptIsBacked, WorkerFacts, Handling
<1>1. ASSUME NEW w \in Workers, QueueReceipt(w) PROVE ReceiptIsBacked'
  BY <1>1 DEF QueueReceipt, gatewayVars, recordVars
<1>2. ASSUME NEW w \in Workers, ProcessVerification(w) PROVE ReceiptIsBacked'
  BY <1>2 DEF ProcessVerification, recordVars, noticeVars
<1>3. ASSUME NEW w \in Workers, CreateCheckout(w) PROVE ReceiptIsBacked'
  BY <1>3 DEF CreateCheckout, gatewayVars, recordVars, noticeVars
<1>4. ASSUME NEW w \in Workers, SettleCreated(w) \/ SettleMismatched(w) PROVE ReceiptIsBacked'
  BY <1>4 DEF SettleCreated, SettleMismatched, gatewayVars, noticeVars
<1>5. CASE UNCHANGED <<owner, att, linked, receipted>>
  BY <1>5
<1> QED
  BY ONLY [Next]_vars, <1>1, <1>2, <1>3, <1>4, <1>5
  DEF Next, WorkerStep, Expiration, vars, gatewayVars, recordVars, noticeVars,
      GetPayment, Complete, RecordPayment, Refresh, CheckAvailability, FailWithoutPost,
      EnsureBlocked, OverwriteBlocked, MarkUnknownForReview, PrepareOperation,
      PostReservation, SettleWithoutStay, ReportForReview, Crash, StartCheckout,
      StartRecovery, OpenResult, SelectLapsed, ExpireSelected, CancelIntent,
      SyncReservation, ImportStay, Lapse, StayCancelled, Pay, ChannelMoves

-----------------------------------------------------------------------------
\* What a page looks at when it queues a receipt is a booking with its Hostaway id.
ReceiptFacts == \A w \in Workers : pc[w] = "receipt" => on[w] \in linked

Accounted == PaidIsAccounted /\ ReceiptFacts

\* A worker that goes on within the booking still carries it; one that ends has
\* linked or reported it, found it imported, or died on it.
LEMMA AccountedPreserved == ASSUME IInv, Accounted, [Next]_vars PROVE Accounted'
<1> USE DEF IInv, TypeOK, LedgerFacts, WorkerFacts, Accounted, PaidIsAccounted, ReceiptFacts,
      Carries, Handling, Creating
<1>1. ASSUME NEW w \in Workers, CreateCheckout(w) PROVE Accounted'
  BY <1>1 DEF CreateCheckout, recordVars, remoteVars, noticeVars
<1>2. ASSUME NEW w \in Workers, GetPayment(w) PROVE Accounted'
  BY <1>2 DEF GetPayment, recordVars, remoteVars, noticeVars
<1>3. ASSUME NEW w \in Workers, ProcessVerification(w) PROVE Accounted'
  BY <1>3 DEF ProcessVerification, recordVars, remoteVars, noticeVars
<1>4. ASSUME NEW w \in Workers, Complete(w) PROVE Accounted'
  BY <1>4 DEF Complete, remoteVars, noticeVars
<1>5. ASSUME NEW w \in Workers, RecordPayment(w) PROVE Accounted'
  BY <1>5 DEF RecordPayment, remoteVars, noticeVars
<1>6. ASSUME NEW w \in Workers, Refresh(w) PROVE Accounted'
  BY <1>6 DEF Refresh, recordVars, remoteVars, noticeVars
<1>7. ASSUME NEW w \in Workers, CheckAvailability(w) PROVE Accounted'
  BY <1>7 DEF CheckAvailability, recordVars, remoteVars, noticeVars
<1>8. ASSUME NEW w \in Workers, FailWithoutPost(w) PROVE Accounted'
  BY <1>8 DEF FailWithoutPost, remoteVars, noticeVars
<1>9. ASSUME NEW w \in Workers, EnsureBlocked(w) \/ OverwriteBlocked(w) PROVE Accounted'
  BY <1>9 DEF EnsureBlocked, OverwriteBlocked, remoteVars, noticeVars
<1>10. ASSUME NEW w \in Workers, PrepareOperation(w) PROVE Accounted'
  BY <1>10 DEF PrepareOperation, remoteVars, noticeVars
<1>11. ASSUME NEW w \in Workers, PostReservation(w) PROVE Accounted'
  BY <1>11 DEF PostReservation, recordVars, noticeVars
<1>12. ASSUME NEW w \in Workers, SettleCreated(w) PROVE Accounted'
  BY <1>12 DEF SettleCreated, remoteVars, noticeVars
<1>13. ASSUME NEW w \in Workers, SettleMismatched(w) PROVE Accounted'
  BY <1>13 DEF SettleMismatched, remoteVars, noticeVars
<1>14. ASSUME NEW w \in Workers, SettleWithoutStay(w) PROVE Accounted'
  BY <1>14 DEF SettleWithoutStay, remoteVars, noticeVars
<1>15. ASSUME NEW w \in Workers, QueueReceipt(w) PROVE Accounted'
  BY <1>15 DEF QueueReceipt, recordVars, remoteVars
<1>16. ASSUME NEW w \in Workers, ReportForReview(w) PROVE Accounted'
  BY <1>16 DEF ReportForReview, recordVars, remoteVars
<1>17. ASSUME NEW w \in Workers, Crash(w) PROVE Accounted'
  BY <1>17 DEF Crash, recordVars, remoteVars
<1>18. ASSUME NEW w \in Workers, NEW i \in Intents, StartCheckout(w, i) PROVE Accounted'
  BY <1>18 DEF StartCheckout, recordVars, remoteVars, noticeVars, workerVars
<1>19. ASSUME NEW w \in Workers, NEW i \in Intents, StartRecovery(w, i) PROVE Accounted'
  BY <1>19 DEF StartRecovery, recordVars, remoteVars, noticeVars
<1>20. ASSUME NEW w \in Workers, NEW a \in Attempts, OpenResult(w, a) PROVE Accounted'
  BY <1>20 DEF OpenResult, recordVars, remoteVars, noticeVars
<1>21. ASSUME NEW i \in Intents, ImportStay(i) PROVE Accounted'
  BY <1>21 DEF ImportStay, recordVars, noticeVars, workerVars
<1>22. CASE UNCHANGED <<paid, linked, flagged, died, imported, workerVars>>
  BY <1>22 DEF workerVars
<1> QED
  BY ONLY [Next]_vars, <1>1, <1>2, <1>3, <1>4, <1>5, <1>6, <1>7, <1>8, <1>9, <1>10, <1>11, <1>12,
     <1>13, <1>14, <1>15, <1>16, <1>17, <1>18, <1>19, <1>20, <1>21, <1>22
  DEF Next, WorkerStep, Expiration, vars, recordVars, remoteVars, noticeVars,
      CancelIntent, MarkUnknownForReview, SyncReservation, Lapse, StayCancelled, Pay,
      SelectLapsed, ExpireSelected, ChannelMoves

-----------------------------------------------------------------------------
\* The strengthened invariant holds in every reachable state: it is the type
\* invariant with the ledger's, the workers' and the attempts' facts.
THEOREM Invariant == Spec => []IInv
<1>1. Init => IInv
  BY InitIInv
<1>2. IInv /\ [Next]_vars => IInv'
  BY TypePreserved, AttemptPreserved, LedgerPreserved, WorkersPreserved,
     ExclusivePreserved, ReceiptPreserved DEF IInv
<1> QED
  BY <1>1, <1>2, PTL DEF Spec

\* Every variable keeps its type: no handler stores a status the models.py
\* choices do not have.
THEOREM TypeCorrect == Spec => []TypeOK
<1>1. IInv => TypeOK
  BY DEF IInv
<1> QED
  BY <1>1, Invariant, PTL

\* However many requests, recovery runs and crashes there are, Hostaway gets at
\* most one create POST per intent (HostawayReservationOperation's ledger).
THEOREM OnePost == Spec => []AtMostOnePost
<1>1. IInv => AtMostOnePost
  BY DEF IInv, TypeOK, LedgerFacts, AtMostOnePost
<1> QED
  BY <1>1, Invariant, PTL

\* A create POST is only sent for an intent one of whose attempts HyperPay holds
\* the money of and the server has verified (the payment gate).
THEOREM PaymentFirst == Spec => []NoPostBeforePayment
<1>1. IInv => NoPostBeforePayment
  <2> SUFFICES ASSUME IInv, NEW i \in Intents, sent[i] > 0
               PROVE  \E a \in Attempts : owner[a] = i /\ att[a] = "succeeded" /\ pay[a] = "paid"
    BY DEF NoPostBeforePayment
  <2>1. tries[i] = 1
    BY DEF IInv, TypeOK, LedgerFacts
  <2>2. Verified(i)
    BY <2>1 DEF IInv, LedgerFacts
  <2> QED
    BY <2>2 DEF Verified, IInv, AttemptFacts
<1> QED
  BY <1>1, Invariant, PTL

\* A confirmed reservation is paid, linked, and Hostaway made its stay.
THEOREM Confirmed == Spec => []ConfirmedIsReal
<1>1. IInv => ConfirmedIsReal
  <2> SUFFICES ASSUME IInv, NEW i \in Intents, res[i] = "confirmed"
               PROVE  i \in paid \cap linked /\ stay[i] # "none"
    BY DEF ConfirmedIsReal
  <2>1. i \in linked /\ sent[i] = 1 /\ stay[i] # "none"
    BY DEF IInv, LedgerFacts
  <2>2. tries[i] = 1
    BY <2>1 DEF IInv, TypeOK, LedgerFacts
  <2> QED
    BY <2>1, <2>2 DEF IInv, LedgerFacts
<1> QED
  BY <1>1, Invariant, PTL

\* The recovery task only selects what was never sent to Hostaway.
THEOREM RecoveryIsSafe == Spec => []RecoverySkipsUncertain
<1>1. IInv => RecoverySkipsUncertain
  BY DEF IInv, TypeOK, LedgerFacts, RecoverySkipsUncertain, Recoverable
<1> QED
  BY <1>1, Invariant, PTL

\* A Hostaway receipt is only queued for a verified payment of a booking that has
\* its Hostaway id (_queue_verified_receipt).
THEOREM Receipts == Spec => []ReceiptIsBacked
<1>1. IInv => ReceiptIsBacked
  BY DEF IInv
<1> QED
  BY <1>1, Invariant, PTL

\* A booking whose payment was recorded is being handled by a page, linked or
\* reported for review; or a page died on it, or a webhook has imported its stay
\* (the end of _complete_success, and hostaway_booking.py:301).
THEOREM PaidAlwaysAccounted == Spec => []PaidIsAccounted
<1>1. Init => Accounted
  BY DEF Init, Accounted, PaidIsAccounted, ReceiptFacts
<1>2. IInv /\ Accounted /\ [Next]_vars => Accounted'
  BY AccountedPreserved
<1>3. Accounted => PaidIsAccounted
  BY DEF Accounted
<1> QED
  BY <1>1, <1>2, <1>3, Invariant, PTL DEF Spec

\* A verified payment stays verified: no request that fetched an older document
\* overwrites it (_process_verification's second look under the row lock).
THEOREM VerifiedStays == Spec => VerifiedIsFinal
<1> DEFINE Kept == \A a \in Attempts : att[a] = "succeeded" => att'[a] = "succeeded"
<1>1. IInv /\ [Next]_vars => [Kept]_vars
  <2> SUFFICES ASSUME IInv, [Next]_vars PROVE Kept
    OBVIOUS
  <2> USE DEF IInv, TypeOK, WorkerFacts
  <2>1. ASSUME NEW w \in Workers, CreateCheckout(w) PROVE Kept
    BY <2>1 DEF CreateCheckout, gatewayVars
  <2>2. ASSUME NEW w \in Workers, ProcessVerification(w) PROVE Kept
    BY <2>2 DEF ProcessVerification
  <2>3. CASE UNCHANGED att
    BY <2>3
  <2> QED
    BY AttemptWriters, <2>1, <2>2, <2>3 DEF Pay, gatewayVars
<1> QED
  BY <1>1, Invariant, PTL DEF Spec, VerifiedIsFinal

-----------------------------------------------------------------------------
\* The phase of an intent only depends on its Hostaway id, the claim of its create
\* operation and its verified payments.
LEMMA SamePhase ==
    ASSUME NEW i, (i \in linked)' <=> i \in linked, tries[i]' = tries[i],
           Verified(i)' <=> Verified(i)
    PROVE  CreatePhase(i)' = CreatePhase(i)
  BY DEF CreatePhase

\* A step that changes the phase of one intent only changes the mapped function
\* at that intent.
LEMMA OnePhaseChanges ==
    ASSUME NEW i \in Intents, NEW p, CreatePhase(i)' = p,
           \A j \in Intents \ {i} : CreatePhase(j)' = CreatePhase(j)
    PROVE  [j \in Intents |-> CreatePhase(j)]' =
              [[j \in Intents |-> CreatePhase(j)] EXCEPT ![i] = p]
  OBVIOUS

LEMMA ContractInit == Init => Contract!Init
<1> SUFFICES ASSUME Init PROVE Contract!Init
  OBVIOUS
<1>1. ASSUME NEW i \in Intents PROVE CreatePhase(i) = "unpaid"
  <2>1. i \notin linked /\ tries[i] = 0 /\ ~Verified(i)
    BY ConstantsAssumption DEF Init, Verified
  <2> QED
    BY <2>1 DEF CreatePhase
<1> QED
  BY <1>1 DEF Init, Contract!Init

\* Every step of the booking flow is a step of the contract or none.
LEMMA ContractStep == ASSUME IInv, [Next]_vars PROVE [Contract!Next]_(Contract!vars)
<1> DEFINE Same == \A i \in Intents : CreatePhase(i)' = CreatePhase(i)
           Others(k) == \A i \in Intents \ {k} : CreatePhase(i)' = CreatePhase(i)
           Goal == [Contract!Next]_(Contract!vars)
<1>s. ASSUME Same, sent' = sent PROVE Goal
  <2>1. [i \in Intents |-> CreatePhase(i)]' = [i \in Intents |-> CreatePhase(i)]
    BY <1>s
  <2> QED
    BY <1>s, <2>1 DEF Contract!vars
<1>1. ASSUME NEW w \in Workers, ProcessVerification(w) PROVE Goal
  <2> PICK k \in Intents : k = on[w]
    BY <1>1 DEF ProcessVerification, IInv, WorkerFacts
  <2>1. /\ job[w] \in Attempts /\ owner[job[w]] = k
        /\ UNCHANGED <<linked, tries, sent, owner>>
    BY <1>1 DEF ProcessVerification, IInv, WorkerFacts, recordVars, remoteVars
  <2>2. \A i \in Intents \ {k} : Verified(i)' <=> Verified(i)
    BY <1>1, <2>1 DEF ProcessVerification, Verified, IInv, TypeOK
  <2>3. Others(k)
    BY <2>1, <2>2, SamePhase
  <2>4. CASE Verified(k) \/ ~Verified(k)'
    <3>1. Verified(k)' <=> Verified(k)
      BY <2>4, VerifiedMonotone
    <3>2. CreatePhase(k)' = CreatePhase(k)
      BY <2>1, <3>1, SamePhase
    <3> QED
      BY <2>1, <2>3, <3>2, <1>s
  <2>5. CASE ~Verified(k) /\ Verified(k)'
    <3>1. tries[k] = 0 /\ k \notin linked
      BY <2>1, <2>5 DEF IInv, TypeOK, LedgerFacts
    <3>2. CreatePhase(k) = "unpaid" /\ CreatePhase(k)' = "verified"
      BY <2>1, <2>5, <3>1 DEF CreatePhase
    <3>3. Contract!Verify(k)
      BY <2>1, <2>3, <3>2, OnePhaseChanges DEF Contract!Verify
    <3> QED
      BY <2>1, <3>3 DEF Contract!Next
  <2> QED
    BY <2>4, <2>5
<1>2. ASSUME NEW w \in Workers, CreateCheckout(w) PROVE Goal
  <2>1. UNCHANGED <<linked, tries, sent>>
    BY <1>2 DEF CreateCheckout, recordVars, remoteVars
  <2>2. \A i \in Intents : Verified(i)' <=> Verified(i)
    BY <1>2 DEF CreateCheckout, Verified, IInv, TypeOK, AttemptFacts, gatewayVars
  <2> QED
    BY <2>1, <2>2, SamePhase, <1>s
<1>3. ASSUME NEW w \in Workers, PrepareOperation(w) PROVE Goal
  <2> PICK k \in Intents : k = on[w]
    BY <1>3 DEF PrepareOperation, IInv, WorkerFacts
  <2>1. UNCHANGED <<owner, att, sent, linked>> /\ Verified(k)
    BY <1>3 DEF PrepareOperation, gatewayVars, remoteVars, IInv, WorkerFacts, Handling, Creating
  <2>2. \A i \in Intents : Verified(i)' <=> Verified(i)
    BY <2>1, VerifiedKept
  <2>3. CASE tries' = tries
    BY <2>1, <2>2, <2>3, SamePhase, <1>s
  <2>4. CASE tries' # tries
    <3>1. tries[k] = 0 /\ tries' = [tries EXCEPT ![k] = 1]
      BY <1>3, <2>4 DEF PrepareOperation, Claimable
    <3>2. k \notin linked
      BY <3>1 DEF IInv, TypeOK, LedgerFacts
    <3>3. tries[k]' = 1 /\ \A i \in Intents \ {k} : tries[i]' = tries[i]
      BY <3>1 DEF IInv, TypeOK
    <3>4. CreatePhase(k) = "verified" /\ CreatePhase(k)' = "claimed"
      BY <2>1, <3>1, <3>2, <3>3 DEF CreatePhase
    <3>5. Others(k)
      BY <2>1, <2>2, <3>3, SamePhase
    <3>6. Contract!Claim(k)
      BY <2>1, <3>4, <3>5, OnePhaseChanges DEF Contract!Claim
    <3> QED
      BY <3>6 DEF Contract!Next
  <2> QED
    BY <2>3, <2>4
<1>4. ASSUME NEW w \in Workers, PostReservation(w) PROVE Goal
  <2> PICK k \in Intents : k = on[w]
    BY <1>4 DEF PostReservation, IInv, WorkerFacts
  <2>1. /\ tries[k] = 1 /\ sent[k] = 0
        /\ UNCHANGED <<owner, att, linked, tries>>
    BY <1>4 DEF PostReservation, gatewayVars, recordVars, IInv, WorkerFacts
  <2>2. sent' = [sent EXCEPT ![k] = 1]
    BY <1>4, <2>1 DEF PostReservation, IInv, TypeOK
  <2>3. k \notin linked
    BY <2>1 DEF IInv, LedgerFacts
  <2>4. CreatePhase(k) = "claimed"
    BY <2>1, <2>3 DEF CreatePhase
  <2>5. Same
    BY <2>1, VerifiedKept, SamePhase
  <2>6. [i \in Intents |-> CreatePhase(i)]' = [i \in Intents |-> CreatePhase(i)]
    BY <2>5
  <2>7. Contract!Post(k)
    BY <2>1, <2>2, <2>4, <2>6 DEF Contract!Post
  <2> QED
    BY <2>7 DEF Contract!Next
<1>5. ASSUME NEW w \in Workers, SettleCreated(w) \/ SettleMismatched(w) PROVE Goal
  <2> PICK k \in Intents : k = on[w]
    BY <1>5 DEF SettleCreated, SettleMismatched, IInv, WorkerFacts
  <2>1. /\ tries[k] = 1 /\ sent[k] = 1
        /\ UNCHANGED <<owner, att, sent, tries>>
    BY <1>5 DEF SettleCreated, SettleMismatched, gatewayVars, remoteVars, IInv, WorkerFacts
  <2>2. linked' = linked \/ linked' = linked \cup {k}
    BY <1>5 DEF SettleCreated, SettleMismatched
  <2>3. CASE linked' = linked
    BY <2>1, <2>3, VerifiedKept, SamePhase, <1>s
  <2>4. CASE linked' = linked \cup {k} /\ k \notin linked
    <3>1. CreatePhase(k) = "claimed" /\ CreatePhase(k)' = "recorded"
      BY <2>1, <2>4 DEF CreatePhase
    <3>2. Others(k)
      BY <2>1, <2>4, VerifiedKept, SamePhase
    <3>3. Contract!Record(k)
      BY <2>1, <3>1, <3>2, OnePhaseChanges DEF Contract!Record
    <3> QED
      BY <3>3 DEF Contract!Next
  <2> QED
    BY <2>2, <2>3, <2>4
<1>6. CASE UNCHANGED <<owner, att, linked, tries, sent>>
  BY <1>6, VerifiedKept, SamePhase, <1>s
<1> QED
  BY ONLY [Next]_vars, <1>1, <1>2, <1>3, <1>4, <1>5, <1>6
  DEF Next, WorkerStep, Expiration, vars, gatewayVars, recordVars, remoteVars,
      GetPayment, Complete, RecordPayment, Refresh, CheckAvailability, FailWithoutPost,
      EnsureBlocked, OverwriteBlocked, MarkUnknownForReview, SettleWithoutStay,
      QueueReceipt, ReportForReview, Crash, StartCheckout, StartRecovery, OpenResult,
      SelectLapsed, ExpireSelected, CancelIntent, SyncReservation, ImportStay,
      Lapse, StayCancelled, Pay, ChannelMoves

\* The whole flow implements CreateOnce: a create call is claimed after a verified
\* payment, sent at most once, and the id of the stay stays recorded.
THEOREM Implements == Spec => ImplementsCreateOnce
  BY ContractInit, ContractStep, Invariant, PTL DEF Spec, ImplementsCreateOnce, Contract!Spec
=============================================================================
