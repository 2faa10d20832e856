---------------------------- MODULE WebhookInbox ----------------------------
(***************************************************************************)
(* Hostaway's webhooks about one reservation: the receiver that stores an  *)
(* event once, the workers that list, claim and process events, and the    *)
(* other writers of the Reservation row: the status refresh of website     *)
(* bookings and the website's own changes of the stay.                     *)
(*                                                                         *)
(* What Hostaway holds is a version number: its dates, price and status.   *)
(* An answer is the version it was read at.  Hostaway dates its answers    *)
(* about the reservation (updatedOn or latestActivityOn) or it does not;   *)
(* two versions never share a date.                                        *)
(***************************************************************************)
EXTENDS Naturals, FiniteSets

CONSTANTS
    Events,       \* the webhooks Hostaway sends
    Changes,      \* the website's own changes of the stay
    Workers,      \* Celery worker processes and management commands
    None,         \* a worker without an event or a change
    MaxAttempts,  \* HOSTAWAY_WEBHOOK_MAX_PROCESSING_ATTEMPTS (5 in the settings)
    Limit,        \* how many events one listing takes (50 in the task)
    MaxVersion,   \* bound: how often the reservation is written in Hostaway
    Dated         \* Hostaway's answers carry a date

ASSUME InboxAssumption ==
    /\ MaxAttempts \in Nat \ {0} /\ MaxVersion \in Nat \ {0}
    /\ Events \cap Changes = {} /\ None \notin Events \cup Changes
    /\ Dated \in BOOLEAN

VARIABLES
    status,    \* HostawayWebhookEvent.status
    attempts,  \* its attempt_count
    waiting,   \* events whose next_retry_at has not come
    arrived,   \* the version Hostaway held when the event was received
    remote,    \* the version of the reservation Hostaway holds
    website,   \* the reservation was booked on the website
    row,       \* the version in the Reservation row, 0 when there is no row
    undone,    \* a version was replaced by an older one
    change,    \* BookingModificationRequest.status
    made,      \* the version a change produced in Hostaway
    pc, job,   \* a worker's next step, and its event or change
    batch,     \* the events a worker listed
    forced,    \* workers that run with --retry-failed
    got,       \* the answer of Hostaway a worker holds
    verdict,   \* the status a worker is about to give its event
    fresh      \* refreshing workers whose row nobody has written since they read it

eventVars  == <<status, attempts, waiting, arrived>>
rowVars    == <<row, undone, fresh>>
changeVars == <<change, made>>
workerVars == <<pc, job, batch, forced, got, verdict>>
vars == <<eventVars, remote, website, rowVars, changeVars, workerVars>>

-----------------------------------------------------------------------------
Status == {"absent", "received", "processing", "processed", "ignored", "retryable", "failed"}
ChangeStatus == {"ready", "processing", "unknown", "completed"}
Version == 0..MaxVersion
Step == {"idle", "batch", "get", "apply", "insert", "finish", "look", "keep", "own"}

\* The steps in which a worker has an event in its hands.
Handling == {"get", "apply", "insert", "finish"}

Init ==
    /\ status = [e \in Events |-> "absent"]
    /\ attempts = [e \in Events |-> 0]
    /\ waiting = {}
    /\ arrived = [e \in Events |-> 0]
    /\ remote = 1
    /\ \/ website = TRUE /\ row = 1
       \/ website = FALSE /\ row = 0
    /\ undone = FALSE
    /\ change = [c \in Changes |-> "ready"]
    /\ made = [c \in Changes |-> 0]
    /\ pc = [w \in Workers |-> "idle"]
    /\ job = [w \in Workers |-> None]
    /\ batch = [w \in Workers |-> {}]
    /\ forced = {}
    /\ got = [w \in Workers |-> 0]
    /\ verdict = [w \in Workers |-> "processed"]
    /\ fresh = {}

-----------------------------------------------------------------------------
(* Hostaway and the receiver.                                              *)

\* The host or a channel writes the reservation in Hostaway.
HostChange ==
    /\ remote < MaxVersion
    /\ remote' = remote + 1
    /\ UNCHANGED <<eventVars, website, rowVars, changeVars, workerVars>>

\* A webhook is received for the first time, of an allowed type or of another.
Receive(e, supported) ==
    /\ status[e] = "absent"
    /\ status' = [status EXCEPT ![e] = IF supported THEN "received" ELSE "ignored"]
    /\ arrived' = [arrived EXCEPT ![e] = remote]
    /\ UNCHANGED <<attempts, waiting, remote, website, rowVars, changeVars, workerVars>>

\* Five minutes after a retryable failure.
RetryDue(e) ==
    /\ e \in waiting
    /\ waiting' = waiting \ {e}
    /\ UNCHANGED <<status, attempts, arrived, remote, website, rowVars, changeVars,
                   workerVars>>

\* The administrator queues a failed or a retryable event again; its attempts stay counted.
Requeue(e) ==
    /\ status[e] \in {"failed", "retryable"}
    /\ status' = [status EXCEPT ![e] = "received"]
    /\ waiting' = waiting \ {e}
    /\ UNCHANGED <<attempts, arrived, remote, website, rowVars, changeVars, workerVars>>

-----------------------------------------------------------------------------
(* Processing.                                                             *)

Open(f) == {"received", "retryable"} \cup (IF f THEN {"failed"} ELSE {})

Eligible(f) == {e \in Events \ waiting : status[e] \in Open(f)}

\* The row locks of the listing end with its transaction: two workers may list one event.
List(w, f) ==
    /\ pc[w] = "idle"
    /\ \E S \in SUBSET Eligible(f) :
         /\ S # {} /\ Cardinality(S) <= Limit
         /\ batch' = [batch EXCEPT ![w] = S]
    /\ forced' = IF f THEN forced \cup {w} ELSE forced \ {w}
    /\ pc' = [pc EXCEPT ![w] = "batch"]
    /\ UNCHANGED <<eventVars, remote, website, rowVars, changeVars, job, got, verdict>>

\* (mutant) one attempt too many
ExhaustedLate(e) == attempts[e] > MaxAttempts

Exhausted(e) == attempts[e] >= MaxAttempts

\* (mutant) an event is claimed on the strength of the listing
MayClaimListed(w, e) == status[e] \in Open(w \in forced) \cup {"processing"}

MayClaim(w, e) == status[e] \in Open(w \in forced)

\* The loop over the events listed: on to the next, or the task ends.
Proceed(w, S) ==
    /\ batch' = [batch EXCEPT ![w] = S]
    /\ pc' = [pc EXCEPT ![w] = IF S = {} THEN "idle" ELSE "batch"]
    /\ forced' = IF S = {} THEN forced \ {w} ELSE forced

\* The event was taken, finished or queued differently since it was listed.
Pass(w, e) ==
    /\ pc[w] = "batch" /\ e \in batch[w]
    /\ ~MayClaim(w, e)
    /\ Proceed(w, batch[w] \ {e})
    /\ UNCHANGED <<eventVars, remote, website, rowVars, changeVars, job, got, verdict>>

GiveUp(w, e) ==
    /\ pc[w] = "batch" /\ e \in batch[w]
    /\ MayClaim(w, e) /\ Exhausted(e)
    /\ Proceed(w, batch[w] \ {e})
    /\ status' = [status EXCEPT ![e] = "failed"]
    /\ UNCHANGED <<attempts, waiting, arrived, remote, website, rowVars, changeVars,
                   job, got, verdict>>

Take(w, e) ==
    /\ pc[w] = "batch" /\ e \in batch[w]
    /\ MayClaim(w, e) /\ ~Exhausted(e)
    /\ batch' = [batch EXCEPT ![w] = @ \ {e}]
    /\ status' = [status EXCEPT ![e] = "processing"]
    /\ attempts' = [attempts EXCEPT ![e] = @ + 1]
    /\ job' = [job EXCEPT ![w] = e]
    /\ UNCHANGED <<waiting, arrived, remote, website, rowVars, changeVars, forced, got>>

Claim(w, e) ==
    /\ Take(w, e)
    /\ pc' = [pc EXCEPT ![w] = "get"]
    /\ UNCHANGED verdict

\* Hostaway is not asked about an event whose type is allowed no longer (ignored), or that
\* names no reservation (failed).
Dismiss(w, e, v) ==
    /\ Take(w, e) /\ v \in {"ignored", "failed"}
    /\ pc' = [pc EXCEPT ![w] = "finish"]
    /\ verdict' = [verdict EXCEPT ![w] = v]

\* (mutant) a reservation that is not found counts as dealt with
AfterGetMissing == {"retryable", "failed", "processed"}

\* The status a failed GET leads to: nothing found or no answer, or an unreadable answer.
AfterGet == {"retryable", "failed"}

GetFails(w, v) ==
    /\ pc[w] = "get" /\ v \in AfterGet
    /\ pc' = [pc EXCEPT ![w] = "finish"]
    /\ verdict' = [verdict EXCEPT ![w] = v]
    /\ UNCHANGED <<eventVars, remote, website, rowVars, changeVars, job, batch, forced, got>>

Get(w) ==
    /\ pc[w] = "get"
    /\ pc' = [pc EXCEPT ![w] = "apply"]
    /\ got' = [got EXCEPT ![w] = remote]
    /\ UNCHANGED <<eventVars, remote, website, rowVars, changeVars, job, batch, forced, verdict>>

-----------------------------------------------------------------------------
(* sync_reservation_snapshot: its two callers share it.                    *)

\* (mutant) every answer is taken
StaleNever(a) == FALSE

Stale(a) == Dated /\ a < row

Overwrite(a) ==
    /\ row' = a
    /\ undone' = IF a < row THEN TRUE ELSE undone

\* The requests of the website that the answer shows applied.
Reconciled(a) ==
    [c \in Changes |->
        IF website /\ change[c] \in {"ready", "processing", "unknown"} /\ made[c] = a
        THEN "completed" ELSE change[c]]

Sync(a) ==
    IF Stale(a)
    THEN UNCHANGED <<row, undone, changeVars>>
    ELSE Overwrite(a) /\ change' = Reconciled(a) /\ UNCHANGED made

Apply(w) ==
    /\ pc[w] = "apply" /\ row # 0
    /\ Sync(got[w])
    /\ fresh' = IF Stale(got[w]) THEN fresh ELSE {}
    /\ pc' = [pc EXCEPT ![w] = "finish"]
    /\ verdict' = [verdict EXCEPT ![w] = "processed"]
    /\ UNCHANGED <<eventVars, remote, website, job, batch, forced, got>>

\* There is no row to lock: the worker is about to insert one.
FindNoRow(w) ==
    /\ pc[w] = "apply" /\ row = 0
    /\ pc' = [pc EXCEPT ![w] = "insert"]
    /\ UNCHANGED <<eventVars, remote, website, rowVars, changeVars, job, batch, forced, got,
                   verdict>>

Insert(w) ==
    /\ pc[w] = "insert" /\ row = 0
    /\ Overwrite(got[w])
    /\ fresh' = {}
    /\ pc' = [pc EXCEPT ![w] = "finish"]
    /\ verdict' = [verdict EXCEPT ![w] = "processed"]
    /\ UNCHANGED <<eventVars, remote, website, changeVars, job, batch, forced, got>>

Retried(w) == verdict[w] = "retryable" /\ ~Exhausted(job[w])

Outcome(w) == IF verdict[w] = "retryable" /\ Exhausted(job[w]) THEN "failed" ELSE verdict[w]

\* _finish_event and _retry_event.
Finish(w) ==
    /\ pc[w] = "finish"
    /\ status' = [status EXCEPT ![job[w]] = Outcome(w)]
    /\ waiting' = IF Retried(w) THEN waiting \cup {job[w]} ELSE waiting \ {job[w]}
    /\ Proceed(w, batch[w])
    /\ job' = [job EXCEPT ![w] = None]
    /\ got' = [got EXCEPT ![w] = 0]
    /\ verdict' = [verdict EXCEPT ![w] = "processed"]
    /\ UNCHANGED <<attempts, arrived, remote, website, rowVars, changeVars>>

-----------------------------------------------------------------------------
(* The other writers of the row.                                           *)

\* refresh_website_reservations reads its candidates.
Look(w) ==
    /\ website /\ pc[w] = "idle"
    /\ pc' = [pc EXCEPT ![w] = "look"]
    /\ fresh' = fresh \cup {w}
    /\ UNCHANGED <<eventVars, remote, website, row, undone, changeVars, job, batch, forced, got,
                   verdict>>

Fetch(w) ==
    /\ pc[w] = "look"
    /\ pc' = [pc EXCEPT ![w] = "keep"]
    /\ got' = [got EXCEPT ![w] = remote]
    /\ UNCHANGED <<eventVars, remote, website, rowVars, changeVars, job, batch, forced, verdict>>

\* A row written since it was read is left alone.
Keep(w) ==
    /\ pc[w] = "keep"
    /\ IF w \in fresh THEN Sync(got[w]) ELSE UNCHANGED <<row, undone, changeVars>>
    /\ fresh' = IF w \in fresh /\ ~Stale(got[w]) THEN {} ELSE fresh \ {w}
    /\ pc' = [pc EXCEPT ![w] = "idle"]
    /\ got' = [got EXCEPT ![w] = 0]
    /\ UNCHANGED <<eventVars, remote, website, job, batch, forced, verdict>>

\* A change of the stay is sent to Hostaway and answered.
Put(w, c) ==
    /\ website /\ pc[w] = "idle" /\ change[c] = "ready" /\ remote < MaxVersion
    /\ remote' = remote + 1
    /\ change' = [change EXCEPT ![c] = "processing"]
    /\ made' = [made EXCEPT ![c] = remote']
    /\ pc' = [pc EXCEPT ![w] = "own"]
    /\ job' = [job EXCEPT ![w] = c]
    /\ got' = [got EXCEPT ![w] = remote']
    /\ UNCHANGED <<eventVars, website, rowVars, batch, forced, verdict>>

\* Its answer is written to the row whatever the row holds by now.
SaveOwn(w) ==
    /\ pc[w] = "own"
    /\ Overwrite(got[w])
    /\ fresh' = {}
    /\ change' = [change EXCEPT ![job[w]] = "completed"]
    /\ pc' = [pc EXCEPT ![w] = "idle"]
    /\ job' = [job EXCEPT ![w] = None]
    /\ got' = [got EXCEPT ![w] = 0]
    /\ UNCHANGED <<eventVars, remote, website, made, batch, forced, verdict>>

\* The answer of the PUT was lost or does not show the change: the result is unknown.
LoseOwn(w) ==
    /\ pc[w] = "own"
    /\ change' = [change EXCEPT ![job[w]] = "unknown"]
    /\ pc' = [pc EXCEPT ![w] = "idle"]
    /\ job' = [job EXCEPT ![w] = None]
    /\ got' = [got EXCEPT ![w] = 0]
    /\ UNCHANGED <<eventVars, remote, website, rowVars, made, batch, forced, verdict>>

Stops(w) ==
    /\ pc' = [pc EXCEPT ![w] = "idle"]
    /\ job' = [job EXCEPT ![w] = None]
    /\ batch' = [batch EXCEPT ![w] = {}]
    /\ got' = [got EXCEPT ![w] = 0]
    /\ fresh' = fresh \ {w}
    /\ verdict' = [verdict EXCEPT ![w] = "processed"]
    /\ forced' = forced \ {w}
    /\ UNCHANGED <<eventVars, remote, website, row, undone, changeVars>>

\* Another worker inserted the row: hostaway_reservation_id is unique, the task raises.
InsertClashes(w) == pc[w] = "insert" /\ row # 0 /\ Stops(w)

\* The task is killed or runs into its time limit.
Crash(w) == pc[w] # "idle" /\ Stops(w)

-----------------------------------------------------------------------------
Work(w) ==
    \/ \E e \in Events :
         \/ Pass(w, e) \/ GiveUp(w, e) \/ Claim(w, e)
         \/ \E v \in Status : Dismiss(w, e, v)
    \/ \E v \in Status : GetFails(w, v)
    \/ Get(w) \/ Fetch(w)
    \/ Apply(w) \/ FindNoRow(w) \/ Insert(w) \/ InsertClashes(w)
    \/ Finish(w)
    \/ Keep(w) \/ SaveOwn(w) \/ LoseOwn(w)

Next ==
    \/ HostChange
    \/ \E e \in Events :
         \/ \E supported \in BOOLEAN : Receive(e, supported)
         \/ RetryDue(e) \/ Requeue(e)
    \/ \E w \in Workers :
         \/ Work(w)
         \/ \E f \in BOOLEAN : List(w, f)
         \/ Look(w)
         \/ \E c \in Changes : Put(w, c)
         \/ Crash(w)

Spec == Init /\ [][Next]_vars

-----------------------------------------------------------------------------
InboxTypeOK ==
    /\ status \in [Events -> Status]
    /\ attempts \in [Events -> 0..MaxAttempts] /\ waiting \subseteq Events
    /\ arrived \in [Events -> Version] /\ remote \in Version /\ website \in BOOLEAN
    /\ row \in Version /\ undone \in BOOLEAN /\ fresh \subseteq Workers
    /\ change \in [Changes -> ChangeStatus] /\ made \in [Changes -> Version]
    /\ pc \in [Workers -> Step] /\ job \in [Workers -> Events \cup Changes \cup {None}]
    /\ batch \in [Workers -> SUBSET Events] /\ forced \subseteq Workers
    /\ got \in [Workers -> Version] /\ verdict \in [Workers -> Status]

\* _claim_event: an event is in the hands of one worker at a time, whoever else listed it,
\* and nobody takes it from that worker before it has given the event its next status.
OneWorkerPerEvent ==
    \A w \in Workers : pc[w] \in Handling =>
        /\ status[job[w]] = "processing"
        /\ \A v \in Workers \ {w} : pc[v] \in Handling => job[v] # job[w]

\* process_webhook_event: once an event is processed, the row has what Hostaway held when
\* the event was received, or something later; only a write that put an older version over
\* a newer one, which NeverOlder confines, can take it away again.
ProcessedIsApplied ==
    \A e \in Events : status[e] = "processed" => row >= arrived[e] \/ undone

\* sync_reservation_snapshot: when Hostaway dates its answers, neither an event processed
\* late nor a refresh takes the row back; only the website's own change of the stay does.
NeverOlder ==
    [][row' < row /\ Dated => \E w \in Workers : pc[w] = "own" /\ row' = got[w]]_vars
=============================================================================
