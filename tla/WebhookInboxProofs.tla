------------------------ MODULE WebhookInboxProofs ------------------------
(***************************************************************************)
(* Proofs about WebhookInbox for any events, workers and bounds.           *)
(***************************************************************************)
EXTENDS WebhookInbox, TLAPS

\* An event in a worker's hands is being processed, and by nobody else.
Hands ==
    \A w \in Workers : pc[w] \in Handling =>
        /\ job[w] \in Events
        /\ status[job[w]] = "processing"
        /\ \A v \in Workers : v # w /\ pc[v] \in Handling => job[v] # job[w]

\* Nothing is newer than Hostaway, an answer is not older than the event it was asked for,
\* and what a worker calls processed is in the row.
Versions ==
    /\ row <= remote
    /\ \A e \in Events : arrived[e] <= remote
    /\ \A w \in Workers :
         /\ got[w] <= remote
         /\ pc[w] \in {"apply", "insert"} => got[w] >= arrived[job[w]]
         /\ pc[w] = "finish" /\ verdict[w] = "processed" => row >= arrived[job[w]] \/ undone
    /\ \A e \in Events : status[e] = "processed" => row >= arrived[e] \/ undone

InboxInv == InboxTypeOK /\ Hands /\ Versions

-----------------------------------------------------------------------------
\* Every action keeps the types.
LEMMA TypePreserved ==
    ASSUME InboxTypeOK, Hands, [Next]_vars PROVE InboxTypeOK'
<1>. USE InboxTypeOK, Hands
<1>1. CASE HostChange
  BY <1>1, InboxAssumption DEF HostChange, eventVars, rowVars, changeVars, workerVars,
     InboxTypeOK, Version, Step, Status, ChangeStatus
<1>2. ASSUME NEW e \in Events, NEW supported \in BOOLEAN, Receive(e, supported) PROVE InboxTypeOK'
  BY <1>2, InboxAssumption DEF Receive, eventVars, rowVars, changeVars, workerVars,
     InboxTypeOK, Version, Step, Status, ChangeStatus
<1>3. ASSUME NEW e \in Events, RetryDue(e) PROVE InboxTypeOK'
  BY <1>3, InboxAssumption DEF RetryDue, eventVars, rowVars, changeVars, workerVars,
     InboxTypeOK, Version, Step, Status, ChangeStatus
<1>4. ASSUME NEW e \in Events, Requeue(e) PROVE InboxTypeOK'
  BY <1>4, InboxAssumption DEF Requeue, eventVars, rowVars, changeVars, workerVars,
     InboxTypeOK, Version, Step, Status, ChangeStatus
<1>5. ASSUME NEW w \in Workers, NEW e \in Events, Pass(w, e) PROVE InboxTypeOK'
  BY <1>5, InboxAssumption DEF Pass, Proceed, MayClaim, eventVars, rowVars,
     changeVars, workerVars, InboxTypeOK, Version, Step, Status, ChangeStatus
<1>6. ASSUME NEW w \in Workers, NEW e \in Events, GiveUp(w, e) PROVE InboxTypeOK'
  BY <1>6, InboxAssumption DEF GiveUp, Proceed, MayClaim, Open, eventVars, rowVars,
     changeVars, workerVars, InboxTypeOK, Version, Step, Status, ChangeStatus
<1>7. ASSUME NEW w \in Workers, NEW e \in Events, Claim(w, e) PROVE InboxTypeOK'
  BY <1>7, InboxAssumption DEF Claim, Take, MayClaim, Open, Exhausted, eventVars,
     rowVars, changeVars, workerVars, InboxTypeOK, Version, Step, Status, ChangeStatus
<1>8. ASSUME NEW w \in Workers, NEW e \in Events, NEW v \in Status, Dismiss(w, e, v)
      PROVE InboxTypeOK'
  BY <1>8, InboxAssumption DEF Dismiss, Take, MayClaim, Open, Exhausted, eventVars,
     rowVars, changeVars, workerVars, InboxTypeOK, Version, Step, Status, ChangeStatus
<1>9. ASSUME NEW w \in Workers, NEW v \in Status, GetFails(w, v) PROVE InboxTypeOK'
  BY <1>9, InboxAssumption DEF GetFails, AfterGet, eventVars, rowVars, changeVars,
     workerVars, InboxTypeOK, Version, Step, Status, ChangeStatus
<1>10. ASSUME NEW w \in Workers, Get(w) PROVE InboxTypeOK'
  BY <1>10, InboxAssumption DEF Get, eventVars, rowVars, changeVars, workerVars,
     InboxTypeOK, Version, Step, Status, ChangeStatus
<1>11. ASSUME NEW w \in Workers, Fetch(w) PROVE InboxTypeOK'
  BY <1>11, InboxAssumption DEF Fetch, eventVars, rowVars, changeVars, workerVars,
     InboxTypeOK, Version, Step, Status, ChangeStatus
<1>12. ASSUME NEW w \in Workers, Apply(w) PROVE InboxTypeOK'
  <2>1. row' \in Version /\ undone' \in BOOLEAN
    BY <1>12 DEF Apply, Sync, Overwrite, InboxTypeOK
  <2>2. change' \in [Changes -> ChangeStatus] /\ made' \in [Changes -> Version]
    BY <1>12 DEF Apply, Sync, Reconciled, changeVars, InboxTypeOK, ChangeStatus
  <2>3. /\ pc' \in [Workers -> Step] /\ job' \in [Workers -> Events \cup Changes \cup {None}]
        /\ got' \in [Workers -> Version] /\ verdict' \in [Workers -> Status]
        /\ fresh' \subseteq Workers
    BY <1>12, InboxAssumption DEF Apply, InboxTypeOK, Version, Step, Status
  <2>. QED  BY <1>12, <2>1, <2>2, <2>3 DEF Apply, eventVars, InboxTypeOK
<1>13. ASSUME NEW w \in Workers, FindNoRow(w) PROVE InboxTypeOK'
  BY <1>13, InboxAssumption DEF FindNoRow, eventVars, rowVars, changeVars, workerVars,
     InboxTypeOK, Version, Step, Status, ChangeStatus
<1>14. ASSUME NEW w \in Workers, Insert(w) PROVE InboxTypeOK'
  BY <1>14, InboxAssumption DEF Insert, Overwrite, eventVars, rowVars, changeVars,
     workerVars, InboxTypeOK, Version, Step, Status, ChangeStatus
<1>15. ASSUME NEW w \in Workers, InsertClashes(w) PROVE InboxTypeOK'
  BY <1>15, InboxAssumption DEF InsertClashes, Stops, eventVars, rowVars, changeVars,
     workerVars, InboxTypeOK, Version, Step, Status, ChangeStatus
<1>16. ASSUME NEW w \in Workers, Finish(w) PROVE InboxTypeOK'
  <2>1. Outcome(w) \in Status  BY DEF Outcome, InboxTypeOK, Status
  <2>2. status' \in [Events -> Status] /\ waiting' \subseteq Events \cup {job[w]}
    BY <1>16, <2>1 DEF Finish, InboxTypeOK
  <2>3. waiting' \subseteq Events
    BY <1>16, <2>2 DEF Finish, Hands, Handling, InboxTypeOK
  <2>4. /\ pc' \in [Workers -> Step] /\ job' \in [Workers -> Events \cup Changes \cup {None}]
        /\ got' \in [Workers -> Version] /\ verdict' \in [Workers -> Status]
        /\ batch' \in [Workers -> SUBSET Events] /\ forced' \subseteq Workers
    BY <1>16, InboxAssumption DEF Finish, Proceed, InboxTypeOK, Version, Step, Status
  <2>. QED  BY <1>16, <2>2, <2>3, <2>4 DEF Finish, rowVars, changeVars, InboxTypeOK
<1>17. ASSUME NEW w \in Workers, Keep(w) PROVE InboxTypeOK'
  <2>1. row' \in Version /\ undone' \in BOOLEAN
    BY <1>17 DEF Keep, Sync, Overwrite, InboxTypeOK
  <2>2. change' \in [Changes -> ChangeStatus] /\ made' \in [Changes -> Version]
    BY <1>17 DEF Keep, Sync, Reconciled, changeVars, InboxTypeOK, ChangeStatus
  <2>3. /\ pc' \in [Workers -> Step] /\ job' \in [Workers -> Events \cup Changes \cup {None}]
        /\ got' \in [Workers -> Version] /\ verdict' \in [Workers -> Status]
        /\ fresh' \subseteq Workers
    BY <1>17, InboxAssumption DEF Keep, InboxTypeOK, Version, Step, Status
  <2>. QED  BY <1>17, <2>1, <2>2, <2>3 DEF Keep, eventVars, InboxTypeOK
<1>18. ASSUME NEW w \in Workers, SaveOwn(w) PROVE InboxTypeOK'
  <2>1. row' \in Version /\ undone' \in BOOLEAN
    BY <1>18 DEF SaveOwn, Overwrite, InboxTypeOK
  <2>2. change' \in [Changes -> ChangeStatus] /\ made' \in [Changes -> Version]
    BY <1>18 DEF SaveOwn, Reconciled, changeVars, InboxTypeOK, ChangeStatus
  <2>3. /\ pc' \in [Workers -> Step] /\ job' \in [Workers -> Events \cup Changes \cup {None}]
        /\ got' \in [Workers -> Version] /\ verdict' \in [Workers -> Status]
        /\ fresh' \subseteq Workers
    BY <1>18, InboxAssumption DEF SaveOwn, InboxTypeOK, Version, Step, Status
  <2>. QED  BY <1>18, <2>1, <2>2, <2>3 DEF SaveOwn, eventVars, InboxTypeOK
<1>19. ASSUME NEW w \in Workers, LoseOwn(w) PROVE InboxTypeOK'
  <2>1. row' \in Version /\ undone' \in BOOLEAN
    BY <1>19 DEF LoseOwn, rowVars, InboxTypeOK
  <2>2. change' \in [Changes -> ChangeStatus] /\ made' \in [Changes -> Version]
    BY <1>19 DEF LoseOwn, Reconciled, changeVars, InboxTypeOK, ChangeStatus
  <2>3. /\ pc' \in [Workers -> Step] /\ job' \in [Workers -> Events \cup Changes \cup {None}]
        /\ got' \in [Workers -> Version] /\ verdict' \in [Workers -> Status]
        /\ fresh' \subseteq Workers
    BY <1>19, InboxAssumption DEF LoseOwn, rowVars, InboxTypeOK, Version, Step, Status
  <2>. QED  BY <1>19, <2>1, <2>2, <2>3 DEF LoseOwn, eventVars, InboxTypeOK
<1>20. ASSUME NEW w \in Workers, NEW f \in BOOLEAN, List(w, f) PROVE InboxTypeOK'
  BY <1>20, InboxAssumption DEF List, Eligible, eventVars, rowVars, changeVars,
     workerVars, InboxTypeOK, Version, Step, Status, ChangeStatus
<1>21. ASSUME NEW w \in Workers, Look(w) PROVE InboxTypeOK'
  BY <1>21, InboxAssumption DEF Look, eventVars, rowVars, changeVars, workerVars,
     InboxTypeOK, Version, Step, Status, ChangeStatus
<1>22. ASSUME NEW w \in Workers, NEW c \in Changes, Put(w, c) PROVE InboxTypeOK'
  BY <1>22, InboxAssumption DEF Put, eventVars, rowVars, changeVars, workerVars,
     InboxTypeOK, Version, Step, Status, ChangeStatus
<1>23. ASSUME NEW w \in Workers, Crash(w) PROVE InboxTypeOK'
  BY <1>23, InboxAssumption DEF Crash, Stops, eventVars, rowVars, changeVars,
     workerVars, InboxTypeOK, Version, Step, Status, ChangeStatus
<1>24. CASE UNCHANGED vars
  BY <1>24, InboxAssumption DEF vars, eventVars, rowVars, changeVars, workerVars,
     InboxTypeOK, Version, Step, Status, ChangeStatus
<1>. QED  BY <1>1, <1>2, <1>3, <1>4, <1>5, <1>6, <1>7, <1>8, <1>9, <1>10, <1>11, <1>12, <1>13,
             <1>14, <1>15, <1>16, <1>17, <1>18, <1>19, <1>20, <1>21, <1>22, <1>23, <1>24 DEF Next,
             Work

\* Listing an event twice does not let two workers claim it.
LEMMA HandsPreserved ==
    ASSUME InboxTypeOK, Hands, [Next]_vars PROVE Hands'
<1>. USE InboxTypeOK, Hands
<1>1. CASE HostChange
  BY <1>1 DEF HostChange, eventVars, rowVars, changeVars, workerVars, Hands, Handling,
     InboxTypeOK, Version, Step, Status
<1>2. ASSUME NEW e \in Events, NEW supported \in BOOLEAN, Receive(e, supported) PROVE Hands'
  BY <1>2 DEF Receive, eventVars, rowVars, changeVars, workerVars, Hands, Handling,
     InboxTypeOK, Version, Step, Status
<1>3. ASSUME NEW e \in Events, RetryDue(e) PROVE Hands'
  BY <1>3 DEF RetryDue, eventVars, rowVars, changeVars, workerVars, Hands, Handling,
     InboxTypeOK, Version, Step, Status
<1>4. ASSUME NEW e \in Events, Requeue(e) PROVE Hands'
  BY <1>4 DEF Requeue, eventVars, rowVars, changeVars, workerVars, Hands, Handling,
     InboxTypeOK, Version, Step, Status
<1>5. ASSUME NEW w \in Workers, NEW e \in Events, Pass(w, e) PROVE Hands'
  BY <1>5 DEF Pass, Proceed, MayClaim, eventVars, rowVars, changeVars, workerVars,
     Hands, Handling, InboxTypeOK, Version, Step, Status
<1>6. ASSUME NEW w \in Workers, NEW e \in Events, GiveUp(w, e) PROVE Hands'
  BY <1>6 DEF GiveUp, Proceed, MayClaim, Open, eventVars, rowVars, changeVars,
     workerVars, Hands, Handling, InboxTypeOK, Version, Step, Status
<1>7. ASSUME NEW w \in Workers, NEW e \in Events, Claim(w, e) PROVE Hands'
  BY <1>7 DEF Claim, Take, MayClaim, Open, Exhausted, eventVars, rowVars, changeVars,
     workerVars, Hands, Handling, InboxTypeOK, Version, Step, Status
<1>8. ASSUME NEW w \in Workers, NEW e \in Events, NEW v \in Status, Dismiss(w, e, v) PROVE Hands'
  BY <1>8 DEF Dismiss, Take, MayClaim, Open, Exhausted, eventVars, rowVars,
     changeVars, workerVars, Hands, Handling, InboxTypeOK, Version, Step, Status
<1>9. ASSUME NEW w \in Workers, NEW v \in Status, GetFails(w, v) PROVE Hands'
  BY <1>9 DEF GetFails, AfterGet, eventVars, rowVars, changeVars, workerVars, Hands,
     Handling, InboxTypeOK, Version, Step, Status
<1>10. ASSUME NEW w \in Workers, Get(w) PROVE Hands'
  BY <1>10 DEF Get, eventVars, rowVars, changeVars, workerVars, Hands, Handling,
     InboxTypeOK, Version, Step, Status
<1>11. ASSUME NEW w \in Workers, Fetch(w) PROVE Hands'
  BY <1>11 DEF Fetch, eventVars, rowVars, changeVars, workerVars, Hands, Handling,
     InboxTypeOK, Version, Step, Status
<1>12. ASSUME NEW w \in Workers, Apply(w) PROVE Hands'
  BY <1>12 DEF Apply, Sync, Overwrite, Reconciled, Stale, eventVars, rowVars,
     changeVars, workerVars, Hands, Handling, InboxTypeOK, Version, Step, Status
<1>13. ASSUME NEW w \in Workers, FindNoRow(w) PROVE Hands'
  BY <1>13 DEF FindNoRow, eventVars, rowVars, changeVars, workerVars, Hands, Handling,
     InboxTypeOK, Version, Step, Status
<1>14. ASSUME NEW w \in Workers, Insert(w) PROVE Hands'
  BY <1>14 DEF Insert, Overwrite, eventVars, rowVars, changeVars, workerVars, Hands,
     Handling, InboxTypeOK, Version, Step, Status
<1>15. ASSUME NEW w \in Workers, InsertClashes(w) PROVE Hands'
  BY <1>15 DEF InsertClashes, Stops, eventVars, rowVars, changeVars, workerVars,
     Hands, Handling, InboxTypeOK, Version, Step, Status
<1>16. ASSUME NEW w \in Workers, Finish(w) PROVE Hands'
  BY <1>16 DEF Finish, Outcome, Proceed, eventVars, rowVars, changeVars, workerVars,
     Hands, Handling, InboxTypeOK, Version, Step, Status
<1>17. ASSUME NEW w \in Workers, Keep(w) PROVE Hands'
  BY <1>17 DEF Keep, Sync, Overwrite, Reconciled, Stale, eventVars, rowVars,
     changeVars, workerVars, Hands, Handling, InboxTypeOK, Version, Step, Status
<1>18. ASSUME NEW w \in Workers, SaveOwn(w) PROVE Hands'
  BY <1>18 DEF SaveOwn, Overwrite, eventVars, rowVars, changeVars, workerVars, Hands,
     Handling, InboxTypeOK, Version, Step, Status
<1>19. ASSUME NEW w \in Workers, LoseOwn(w) PROVE Hands'
  BY <1>19 DEF LoseOwn, eventVars, rowVars, changeVars, workerVars, Hands, Handling,
     InboxTypeOK, Version, Step, Status
<1>20. ASSUME NEW w \in Workers, NEW f \in BOOLEAN, List(w, f) PROVE Hands'
  BY <1>20 DEF List, Eligible, eventVars, rowVars, changeVars, workerVars, Hands,
     Handling, InboxTypeOK, Version, Step, Status
<1>21. ASSUME NEW w \in Workers, Look(w) PROVE Hands'
  BY <1>21 DEF Look, eventVars, rowVars, changeVars, workerVars, Hands, Handling,
     InboxTypeOK, Version, Step, Status
<1>22. ASSUME NEW w \in Workers, NEW c \in Changes, Put(w, c) PROVE Hands'
  BY <1>22 DEF Put, eventVars, rowVars, changeVars, workerVars, Hands, Handling,
     InboxTypeOK, Version, Step, Status
<1>23. ASSUME NEW w \in Workers, Crash(w) PROVE Hands'
  BY <1>23 DEF Crash, Stops, eventVars, rowVars, changeVars, workerVars, Hands,
     Handling, InboxTypeOK, Version, Step, Status
<1>24. CASE UNCHANGED vars
  BY <1>24 DEF vars, eventVars, rowVars, changeVars, workerVars, Hands, Handling,
     InboxTypeOK, Version, Step, Status
<1>. QED  BY <1>1, <1>2, <1>3, <1>4, <1>5, <1>6, <1>7, <1>8, <1>9, <1>10, <1>11, <1>12, <1>13,
             <1>14, <1>15, <1>16, <1>17, <1>18, <1>19, <1>20, <1>21, <1>22, <1>23, <1>24 DEF Next,
             Work

\* An answer applied to the row leaves it no older than the answer, and no older than it was
\* unless undone tells.
LEMMA SyncedRow ==
    ASSUME InboxTypeOK, NEW a \in Version, Sync(a), a <= remote, row <= remote
    PROVE  /\ row' \in Version /\ row' <= remote /\ row' >= a
           /\ row' >= row \/ undone'
           /\ undone => undone'
<1>1. CASE Stale(a)  BY <1>1 DEF Sync, Stale, InboxTypeOK, Version
<1>2. CASE ~Stale(a)
  <2>1. row' = a /\ undone' = IF a < row THEN TRUE ELSE undone  BY <1>2 DEF Sync, Overwrite
  <2>. QED  BY <2>1 DEF InboxTypeOK, Version
<1>. QED  BY <1>1, <1>2

\* The row keeps what every processed event announced, unless it is taken back.
LEMMA VersionsPreserved ==
    ASSUME InboxTypeOK, Hands, Versions, [Next]_vars PROVE Versions'
<1>. USE InboxTypeOK, Hands, Versions
<1>1. CASE HostChange
  BY <1>1 DEF HostChange, eventVars, rowVars, changeVars, workerVars, Versions, Hands,
     Handling, InboxTypeOK, Version, Step, Status
<1>2. ASSUME NEW e \in Events, NEW supported \in BOOLEAN, Receive(e, supported) PROVE Versions'
  BY <1>2 DEF Receive, eventVars, rowVars, changeVars, workerVars, Versions, Hands,
     Handling, InboxTypeOK, Version, Step, Status
<1>3. ASSUME NEW e \in Events, RetryDue(e) PROVE Versions'
  BY <1>3 DEF RetryDue, eventVars, rowVars, changeVars, workerVars, Versions, Hands,
     Handling, InboxTypeOK, Version, Step, Status
<1>4. ASSUME NEW e \in Events, Requeue(e) PROVE Versions'
  BY <1>4 DEF Requeue, eventVars, rowVars, changeVars, workerVars, Versions, Hands,
     Handling, InboxTypeOK, Version, Step, Status
<1>5. ASSUME NEW w \in Workers, NEW e \in Events, Pass(w, e) PROVE Versions'
  BY <1>5 DEF Pass, Proceed, MayClaim, eventVars, rowVars, changeVars, workerVars,
     Versions, Hands, Handling, InboxTypeOK, Version, Step, Status
<1>6. ASSUME NEW w \in Workers, NEW e \in Events, GiveUp(w, e) PROVE Versions'
  BY <1>6 DEF GiveUp, Proceed, MayClaim, Open, eventVars, rowVars, changeVars,
     workerVars, Versions, Hands, Handling, InboxTypeOK, Version, Step, Status
<1>7. ASSUME NEW w \in Workers, NEW e \in Events, Claim(w, e) PROVE Versions'
  BY <1>7 DEF Claim, Take, MayClaim, Open, Exhausted, eventVars, rowVars, changeVars,
     workerVars, Versions, Hands, Handling, InboxTypeOK, Version, Step, Status
<1>8. ASSUME NEW w \in Workers, NEW e \in Events, NEW v \in Status, Dismiss(w, e, v)
      PROVE Versions'
  BY <1>8 DEF Dismiss, Take, MayClaim, Open, Exhausted, eventVars, rowVars,
     changeVars, workerVars, Versions, Hands, Handling, InboxTypeOK, Version, Step, Status
<1>9. ASSUME NEW w \in Workers, NEW v \in Status, GetFails(w, v) PROVE Versions'
  BY <1>9 DEF GetFails, AfterGet, eventVars, rowVars, changeVars, workerVars,
     Versions, Hands, Handling, InboxTypeOK, Version, Step, Status
<1>10. ASSUME NEW w \in Workers, Get(w) PROVE Versions'
  BY <1>10 DEF Get, eventVars, rowVars, changeVars, workerVars, Versions, Hands,
     Handling, InboxTypeOK, Version, Step, Status
<1>11. ASSUME NEW w \in Workers, Fetch(w) PROVE Versions'
  BY <1>11 DEF Fetch, eventVars, rowVars, changeVars, workerVars, Versions, Hands,
     Handling, InboxTypeOK, Version, Step, Status
<1>12. ASSUME NEW w \in Workers, Apply(w) PROVE Versions'
  <2>1. /\ row' \in Version /\ row' <= remote /\ row' >= got[w]
        /\ row' >= row \/ undone'
        /\ undone => undone'
    BY <1>12, SyncedRow DEF Apply, Versions, InboxTypeOK
  <2>. QED  BY <1>12, <2>1 DEF Apply, eventVars, Versions, Hands, Handling, InboxTypeOK, Version
<1>13. ASSUME NEW w \in Workers, FindNoRow(w) PROVE Versions'
  BY <1>13 DEF FindNoRow, eventVars, rowVars, changeVars, workerVars, Versions, Hands,
     Handling, InboxTypeOK, Version, Step, Status
<1>14. ASSUME NEW w \in Workers, Insert(w) PROVE Versions'
  BY <1>14 DEF Insert, Overwrite, eventVars, rowVars, changeVars, workerVars,
     Versions, Hands, Handling, InboxTypeOK, Version, Step, Status
<1>15. ASSUME NEW w \in Workers, InsertClashes(w) PROVE Versions'
  BY <1>15 DEF InsertClashes, Stops, eventVars, rowVars, changeVars, workerVars,
     Versions, Hands, Handling, InboxTypeOK, Version, Step, Status
<1>16. ASSUME NEW w \in Workers, Finish(w) PROVE Versions'
  BY <1>16 DEF Finish, Outcome, Proceed, eventVars, rowVars, changeVars, workerVars,
     Versions, Hands, Handling, InboxTypeOK, Version, Step, Status
<1>17. ASSUME NEW w \in Workers, Keep(w) PROVE Versions'
  <2>1. /\ row' \in Version /\ row' <= remote
        /\ row' >= row \/ undone'
        /\ undone => undone'
    <3>1. CASE w \in fresh  BY <1>17, <3>1, SyncedRow DEF Keep, Versions, InboxTypeOK
    <3>2. CASE w \notin fresh
      BY <1>17, <3>2 DEF Keep, Versions, InboxTypeOK, Version
    <3>. QED  BY <3>1, <3>2
  <2>. QED  BY <1>17, <2>1 DEF Keep, eventVars, Versions, Hands, Handling, InboxTypeOK, Version
<1>18. ASSUME NEW w \in Workers, SaveOwn(w) PROVE Versions'
  BY <1>18 DEF SaveOwn, Overwrite, eventVars, rowVars, changeVars, workerVars,
     Versions, Hands, Handling, InboxTypeOK, Version, Step, Status
<1>19. ASSUME NEW w \in Workers, LoseOwn(w) PROVE Versions'
  BY <1>19 DEF LoseOwn, eventVars, rowVars, changeVars, workerVars, Versions, Hands,
     Handling, InboxTypeOK, Version, Step, Status
<1>20. ASSUME NEW w \in Workers, NEW f \in BOOLEAN, List(w, f) PROVE Versions'
  BY <1>20 DEF List, Eligible, eventVars, rowVars, changeVars, workerVars, Versions,
     Hands, Handling, InboxTypeOK, Version, Step, Status
<1>21. ASSUME NEW w \in Workers, Look(w) PROVE Versions'
  BY <1>21 DEF Look, eventVars, rowVars, changeVars, workerVars, Versions, Hands,
     Handling, InboxTypeOK, Version, Step, Status
<1>22. ASSUME NEW w \in Workers, NEW c \in Changes, Put(w, c) PROVE Versions'
  BY <1>22 DEF Put, eventVars, rowVars, changeVars, workerVars, Versions, Hands,
     Handling, InboxTypeOK, Version, Step, Status
<1>23. ASSUME NEW w \in Workers, Crash(w) PROVE Versions'
  BY <1>23 DEF Crash, Stops, eventVars, rowVars, changeVars, workerVars, Versions,
     Hands, Handling, InboxTypeOK, Version, Step, Status
<1>24. CASE UNCHANGED vars
  BY <1>24 DEF vars, eventVars, rowVars, changeVars, workerVars, Versions, Hands,
     Handling, InboxTypeOK, Version, Step, Status
<1>. QED  BY <1>1, <1>2, <1>3, <1>4, <1>5, <1>6, <1>7, <1>8, <1>9, <1>10, <1>11, <1>12, <1>13,
             <1>14, <1>15, <1>16, <1>17, <1>18, <1>19, <1>20, <1>21, <1>22, <1>23, <1>24 DEF Next,
             Work

-----------------------------------------------------------------------------
\* The inductive invariant: who holds which event, and how old what is held may be.
THEOREM InboxInvariant == Spec => []InboxInv
<1>1. ASSUME Init PROVE InboxInv
  <2>. USE InboxAssumption, <1>1 DEF Init
  <2>1. row \in {0, 1} /\ website \in BOOLEAN /\ remote = 1  OBVIOUS
  <2>0. 0 \in Version /\ 1 \in Version /\ 0 \in 0..MaxAttempts  BY DEF Version
  <2>2. InboxTypeOK  BY <2>0, <2>1 DEF InboxTypeOK, Step, Status, ChangeStatus
  <2>3. Hands  BY DEF Hands, Handling
  <2>4. Versions  BY <2>1 DEF Versions
  <2>. QED  BY <2>2, <2>3, <2>4 DEF InboxInv
<1>2. InboxInv /\ [Next]_vars => InboxInv'
  BY TypePreserved, HandsPreserved, VersionsPreserved DEF InboxInv
<1>. QED  BY <1>1, <1>2, PTL DEF Spec

\* The stored events, the row and the workers' state keep their types; no event is tried
\* more often than HOSTAWAY_WEBHOOK_MAX_PROCESSING_ATTEMPTS.
THEOREM InboxTypeCorrect == Spec => []InboxTypeOK
BY InboxInvariant, PTL DEF InboxInv

\* _claim_event: any number of workers, each event in the hands of one.
THEOREM OneWorkerPerEventHolds == Spec => []OneWorkerPerEvent
<1>1. InboxInv => OneWorkerPerEvent  BY DEF InboxInv, Hands, OneWorkerPerEvent
<1>. QED  BY <1>1, InboxInvariant, PTL

\* process_webhook_event: processed means that the row was brought up to the event.
THEOREM ProcessedIsAppliedHolds == Spec => []ProcessedIsApplied
<1>1. InboxInv => ProcessedIsApplied  BY DEF InboxInv, Versions, ProcessedIsApplied
<1>. QED  BY <1>1, InboxInvariant, PTL

\* sync_reservation_snapshot: with dated answers only the website's own change of the stay
\* puts an older version into the row.
THEOREM SyncNeverOlder == Spec => NeverOlder
<1>1. ASSUME InboxInv, Next, row' < row, Dated
      PROVE \E w \in Workers : pc[w] = "own" /\ row' = got[w]
  <2>. USE <1>1 DEF InboxInv, InboxTypeOK, Version
  <2>1. row \in Nat /\ ~(row < row)  OBVIOUS
  <2>2. CASE row' = row  BY <2>1, <2>2
  <2>3. ASSUME NEW w \in Workers, Apply(w) \/ Insert(w) \/ Keep(w) \/ SaveOwn(w)
        PROVE pc[w] = "own" /\ row' = got[w]
    <3>1. CASE Apply(w)  BY <3>1, <2>1 DEF Apply, Sync, Overwrite, Stale
    <3>2. CASE Insert(w)  BY <3>2, <2>1 DEF Insert, Overwrite
    <3>3. CASE Keep(w)  BY <3>3, <2>1 DEF Keep, Sync, Overwrite, Stale
    <3>4. CASE SaveOwn(w)  BY <3>4 DEF SaveOwn, Overwrite
    <3>. QED  BY <2>3, <3>1, <3>2, <3>3, <3>4
  <2>4. ASSUME NEW w \in Workers, Work(w)
        PROVE row' = row \/ Apply(w) \/ Insert(w) \/ Keep(w) \/ SaveOwn(w)
    BY <2>4 DEF Work, Pass, GiveUp, Claim, Dismiss, Take, GetFails, Get, Fetch, FindNoRow,
       InsertClashes, Stops, Finish, LoseOwn, rowVars
  <2>5. ASSUME NEW w \in Workers,
               \/ (\E f \in BOOLEAN : List(w, f)) \/ Look(w)
               \/ (\E c \in Changes : Put(w, c)) \/ Crash(w)
        PROVE row' = row
    BY <2>5 DEF List, Look, Put, Crash, Stops, rowVars
  <2>6. ASSUME NEW e \in Events,
               (\E k \in BOOLEAN : Receive(e, k)) \/ RetryDue(e) \/ Requeue(e)
        PROVE row' = row
    BY <2>6 DEF Receive, RetryDue, Requeue, rowVars
  <2>7. CASE HostChange  BY <2>7, <2>2 DEF HostChange, rowVars
  <2>. QED  BY <2>2, <2>3, <2>4, <2>5, <2>6, <2>7 DEF Next
<1>2. ASSUME InboxInv, [Next]_vars
      PROVE [row' < row /\ Dated => \E w \in Workers : pc[w] = "own" /\ row' = got[w]]_vars
  BY <1>1, <1>2
<1>. QED  BY <1>2, InboxInvariant, PTL DEF Spec, NeverOlder
=============================================================================
