------------------------------ MODULE Notices ------------------------------
(***************************************************************************)
(* Messages to guests and to the accountant, and the outboxes they are     *)
(* sent from: the email queue, the deliveries of an invoice, the WhatsApp  *)
(* notices of loyalty movements, and the accountant's alerts.  The four    *)
(* share their workers and no row, so that a behaviour is about the        *)
(* messages of one `kind'.  A provider that takes a message cannot be      *)
(* asked later whether it did.                                             *)
(*                                                                         *)
(* The messages are numbered in the order of the ledger rows they are      *)
(* about.  The flags that switch an outbox off, the delays before a retry, *)
(* and what a message says are left out.                                   *)
(***************************************************************************)
EXTENDS Naturals, FiniteSets

CONSTANTS
    Count,        \* how many messages
    Workers,      \* processes that run tasks, or a staff request that sends
    MaxRetries,   \* EMAIL_MAX_RETRIES
    MaxClicks,    \* bound: how often an invoice is sent
    MaxFaults     \* bound: deaths of workers and outages before a send

ASSUME NoticesAssumption == /\ Count \in Nat \ {0}
                            /\ MaxRetries \in Nat \ {0}
                            /\ MaxClicks \in Nat
                            /\ MaxFaults \in Nat

Messages == 1 .. Count
Kinds == {"email", "invoice", "notice", "alert"}

VARIABLES
    kind,     \* which outbox this behaviour is about
    delivery, \* the status of the message's row; "accepted" is an email's `sent',
              \* too, and "uncertain" an invoice's `review'
    tries,    \* attempt_count
    fault,    \* an email's last_error_code: none, transient or permanent
    taken,    \* how often the provider has taken the message
    fresh,    \* committed, their task not yet handed to the broker
    tasks,    \* messages that have a task with the broker
    doubt,    \* invoices whose dispatch raised, the row not yet marked
    step,     \* what a worker does next
    job,      \* the message in its hands; 0 for none
    batch,    \* what a run of the periodic email task still has to send
    periodic, \* workers that run it
    answer,   \* what the provider answered
    faults

rowVars == <<delivery, tries, fault>>
queueVars == <<fresh, tasks, doubt>>
workerVars == <<step, job, batch, periodic, answer>>
noticesVars == <<kind, rowVars, taken, queueVars, workerVars, faults>>

Statuses == {"none", "queued", "sending", "accepted", "failed", "uncertain", "skipped"}
Steps == {"idle", "list", "check", "send", "settle", "retry"}

\* "lost" is no answer, or a 2xx answer that is not the document the client expects.
Answers == {"none", "yes", "no", "lost"}

NoticesTypeOK ==
    /\ kind \in Kinds
    /\ delivery \in [Messages -> Statuses]
    /\ tries \in [Messages -> Nat]
    /\ fault \in [Messages -> {"none", "transient", "permanent"}]
    /\ taken \in [Messages -> Nat]
    /\ fresh \subseteq Messages /\ tasks \subseteq Messages /\ doubt \subseteq Messages
    /\ step \in [Workers -> Steps]
    /\ job \in [Workers -> {0} \cup Messages]
    /\ batch \in [Workers -> SUBSET Messages]
    /\ periodic \subseteq Workers
    /\ answer \in [Workers -> Answers]
    /\ faults \in 0 .. MaxFaults

NoticesInit ==
    /\ kind \in Kinds
    /\ delivery = [m \in Messages |-> "none"]
    /\ tries = [m \in Messages |-> 0]
    /\ fault = [m \in Messages |-> "none"]
    /\ taken = [m \in Messages |-> 0]
    /\ fresh = {} /\ tasks = {} /\ doubt = {}
    /\ step = [w \in Workers |-> "idle"]
    /\ job = [w \in Workers |-> 0]
    /\ batch = [w \in Workers |-> {}]
    /\ periodic = {}
    /\ answer = [w \in Workers |-> "none"]
    /\ faults = 0

Mark(m, s) == delivery' = [delivery EXCEPT ![m] = s]

\* The conditional update of an invoice and of a notice.
MarkSending(m, s) == Mark(m, IF delivery[m] = "sending" THEN s ELSE delivery[m])

-----------------------------------------------------------------------------
(* Queueing.                                                               *)

\* An event's email, under its idempotency key.
QueueEmail(m) ==
    /\ kind = "email" /\ delivery[m] = "none"
    /\ Mark(m, "queued") /\ fresh' = fresh \cup {m}
    /\ UNCHANGED <<kind, tries, fault, taken, tasks, doubt, workerVars, faults>>

\* (mutant) a click may repeat what nobody knows the outcome of
MayQueueUnclear(m) == delivery[m] \in {"none", "failed", "uncertain"}

\* An owner's request creates the delivery; a second one repeats what was refused.
MayQueueInvoice(m) == delivery[m] \in {"none", "failed"}

QueueInvoice(m) ==
    /\ kind = "invoice" /\ MayQueueInvoice(m) /\ tries[m] < MaxClicks
    /\ Mark(m, "queued") /\ fresh' = fresh \cup {m}
    /\ UNCHANGED <<kind, tries, fault, taken, tasks, doubt, workerVars, faults>>

\* A ledger row is posted, under the ledger's lock: with a notice, or without one for a
\* member who has no verified mobile.
PostMovement(m) ==
    /\ kind = "notice" /\ delivery[m] = "none"
    /\ \A k \in 1 .. m - 1 : delivery[k] # "none"
    /\ \/ Mark(m, "queued") /\ fresh' = fresh \cup {m}
       \/ Mark(m, "skipped") /\ UNCHANGED fresh
    /\ UNCHANGED <<kind, tries, fault, taken, tasks, doubt, workerVars, faults>>

\* After the commit: the task reaches the broker or not, the process lives on or not, and
\* the call returns or raises although the task may have been stored.
Dispatch(m) ==
    /\ m \in fresh
    /\ fresh' = fresh \ {m}
    /\ tasks' \in {tasks, tasks \cup {m}}
    /\ doubt' \in {doubt} \cup (IF kind = "invoice" THEN {doubt \cup {m}} ELSE {})
    /\ UNCHANGED <<kind, rowVars, taken, workerVars, faults>>

\* An invoice whose dispatch raised waits for a review, unless a worker has it already.
Doubt(m) ==
    /\ m \in doubt
    /\ doubt' = doubt \ {m}
    /\ Mark(m, IF delivery[m] = "queued" THEN "uncertain" ELSE delivery[m])
    /\ UNCHANGED <<kind, tries, fault, taken, fresh, tasks, workerVars, faults>>

-----------------------------------------------------------------------------
(* The tasks.                                                              *)

QueuedEmails == {m \in Messages : kind = "email" /\ delivery[m] = "queued"}

\* process_email_queue_task lists the queued emails and then sends one after the other.
ListQueue(w) ==
    /\ step[w] = "idle" /\ QueuedEmails # {}
    /\ batch' = [batch EXCEPT ![w] = QueuedEmails]
    /\ periodic' = periodic \cup {w}
    /\ step' = [step EXCEPT ![w] = "list"]
    /\ UNCHANGED <<kind, rowVars, taken, queueVars, job, answer, faults>>

\* A worker comes to a message: by its task, or as the next one listed.
TurnTo(w, m) ==
    \/ /\ step[w] = "idle" /\ m \in tasks
       /\ tasks' = tasks \ {m} /\ UNCHANGED batch
    \/ /\ step[w] = "list" /\ m \in batch[w]
       /\ batch' = [batch EXCEPT ![w] = @ \ {m}] /\ UNCHANGED tasks

\* The worker is through with a message: on to the next one listed, or the end.
Done(w, m) ==
    LET next == IF batch'[w] # {} THEN "list"
                ELSE IF kind = "email" /\ w \notin periodic /\ answer[w] # "yes"
                     THEN "retry" ELSE "idle"
    IN /\ step' = [step EXCEPT ![w] = next]
       /\ periodic' = IF next = "idle" THEN periodic \ {w} ELSE periodic
       /\ job' = [job EXCEPT ![w] = IF next = "retry" THEN m ELSE 0]
       /\ answer' = [answer EXCEPT ![w] = "none"]

\* The notices of the member that have to go first.
Earlier(m) == {k \in 1 .. m - 1 : delivery[k] \in {"queued", "sending"}}

\* (mutant) a notice does not wait for the earlier ones of its member
MayClaimAny(m) ==
    CASE kind = "email"   -> delivery[m] \in {"queued", "failed"} /\ tries[m] < MaxRetries
      [] kind = "invoice" -> delivery[m] = "queued"
      [] kind = "notice"  -> delivery[m] = "queued"
      [] OTHER            -> FALSE

\* Whether a worker may start to send the row it has locked.  An email that failed is
\* not refused.
MayClaim(m) ==
    CASE kind = "email"   -> delivery[m] \in {"queued", "failed"} /\ tries[m] < MaxRetries
      [] kind = "invoice" -> delivery[m] = "queued"
      [] kind = "notice"  -> delivery[m] = "queued" /\ Earlier(m) = {}
      [] OTHER            -> FALSE

Claim(w, m) ==
    /\ TurnTo(w, m) /\ MayClaim(m)
    /\ Mark(m, "sending")
    /\ tries' = [tries EXCEPT ![m] = @ + 1]
    /\ job' = [job EXCEPT ![w] = m]
    /\ step' = [step EXCEPT ![w] = IF kind = "notice" THEN "check" ELSE "send"]
    /\ UNCHANGED <<kind, fault, taken, fresh, doubt, periodic, answer, faults>>

Refuse(w, m) ==
    /\ TurnTo(w, m) /\ ~MayClaim(m)
    /\ Done(w, m)
    /\ UNCHANGED <<kind, rowVars, taken, fresh, doubt, faults>>

\* A notice whose member is not the one it was written for any more, or whose text
\* cannot be made.
DropNotice(w, m) ==
    /\ kind = "notice" /\ delivery[m] = "queued"
    /\ TurnTo(w, m)
    /\ \/ Mark(m, "skipped")
       \/ MayClaim(m) /\ Mark(m, "failed")
    /\ Done(w, m)
    /\ UNCHANGED <<kind, tries, fault, taken, fresh, doubt, faults>>

\* The task is lost with the worker that took it, before it has claimed anything.
LoseTask(m) ==
    /\ m \in tasks /\ faults < MaxFaults
    /\ faults' = faults + 1
    /\ tasks' = tasks \ {m}
    /\ UNCHANGED <<kind, rowVars, taken, fresh, doubt, workerVars>>

\* The accountant's alert: the request that creates the row sends it, at once.
RequestAlert(w, m) ==
    /\ kind = "alert" /\ step[w] = "idle" /\ delivery[m] = "none"
    /\ Mark(m, "sending")
    /\ tries' = [tries EXCEPT ![m] = 1]
    /\ job' = [job EXCEPT ![w] = m]
    /\ step' = [step EXCEPT ![w] = "send"]
    /\ UNCHANGED <<kind, fault, taken, queueVars, batch, periodic, answer, faults>>

\* A notice is sent when the provider says that it is connected and the mobile is still
\* the member's; otherwise it is queued again, or skipped.
ProviderReady(w) ==
    /\ step[w] = "check"
    /\ step' = [step EXCEPT ![w] = "send"]
    /\ UNCHANGED <<kind, rowVars, taken, queueVars, job, batch, periodic, answer, faults>>

ProviderAway(w) ==
    /\ step[w] = "check" /\ faults < MaxFaults
    /\ faults' = faults + 1
    /\ MarkSending(job[w], "queued")
    /\ UNCHANGED batch /\ Done(w, job[w])
    /\ UNCHANGED <<kind, tries, fault, taken, queueVars>>

RecipientChanged(w) ==
    /\ step[w] = "check"
    /\ MarkSending(job[w], "skipped")
    /\ UNCHANGED batch /\ Done(w, job[w])
    /\ UNCHANGED <<kind, tries, fault, taken, queueVars, faults>>

\* The provider takes the message or not, and its answer arrives or not.
Send(w) ==
    /\ step[w] = "send"
    /\ \E a \in Answers \ {"none"}, t \in 0 .. 1 :
         /\ a = "yes" => t = 1
         /\ a = "no" => t = 0
         /\ taken' = [taken EXCEPT ![job[w]] = @ + t]
         /\ answer' = [answer EXCEPT ![w] = a]
    /\ step' = [step EXCEPT ![w] = "settle"]
    /\ UNCHANGED <<kind, rowVars, queueVars, job, batch, periodic, faults>>

\* An email is written whatever its row has become.  An answer that is neither yes nor a
\* refusal for good is a transient failure.
SettleEmail(w) ==
    LET m == job[w] IN
    /\ kind = "email" /\ step[w] = "settle"
    /\ Mark(m, IF answer[w] = "yes" THEN "accepted" ELSE "failed")
    /\ \E f \in {"none", "transient", "permanent"} :
         /\ fault' = [fault EXCEPT ![m] = f]
         /\ answer[w] = "yes" <=> f = "none"
         /\ f = "permanent" => answer[w] = "no"
    /\ UNCHANGED batch /\ Done(w, job[w])
    /\ UNCHANGED <<kind, tries, taken, queueVars, faults>>

\* (mutant) a status that the row does not know
RawOutcomes(a) == IF a = "no" THEN {"rejected"} ELSE {"accepted", "uncertain"}

\* What becomes of an invoice: a refusal is `failed' on WhatsApp, and a review by email.
InvoiceOutcomes(a) ==
    CASE a = "yes" -> {"accepted"}
      [] a = "no"  -> {"failed", "uncertain"}
      [] OTHER     -> {"uncertain"}

SettleInvoice(w) ==
    /\ kind = "invoice" /\ step[w] = "settle"
    /\ \E s \in InvoiceOutcomes(answer[w]) : MarkSending(job[w], s)
    /\ UNCHANGED batch /\ Done(w, job[w])
    /\ UNCHANGED <<kind, tries, fault, taken, queueVars, faults>>

SettleNotice(w) ==
    /\ kind = "notice" /\ step[w] = "settle"
    /\ MarkSending(job[w], IF answer[w] = "yes" THEN "accepted" ELSE "uncertain")
    /\ UNCHANGED batch /\ Done(w, job[w])
    /\ UNCHANGED <<kind, tries, fault, taken, queueVars, faults>>

SettleAlert(w) ==
    /\ kind = "alert" /\ step[w] = "settle"
    /\ Mark(job[w], IF answer[w] = "yes" THEN "accepted" ELSE "failed")
    /\ UNCHANGED batch /\ Done(w, job[w])
    /\ UNCHANGED <<kind, tries, fault, taken, queueVars, faults>>

\* send_email_delivery_task reads the error of the row, which may be another run's by now,
\* and asks Celery for another run, which it gets three times.
Retry(w) ==
    /\ step[w] = "retry"
    /\ tasks' \in {tasks} \cup (IF fault[job[w]] = "transient"
                                THEN {tasks \cup {job[w]}} ELSE {})
    /\ step' = [step EXCEPT ![w] = "idle"]
    /\ job' = [job EXCEPT ![w] = 0]
    /\ UNCHANGED <<kind, rowVars, taken, fresh, doubt, batch, periodic, answer, faults>>

\* A worker dies, or reaches its time limit; its task was acknowledged when it began.
Crash(w) ==
    /\ step[w] # "idle" /\ faults < MaxFaults
    /\ faults' = faults + 1
    /\ step' = [step EXCEPT ![w] = "idle"]
    /\ job' = [job EXCEPT ![w] = 0]
    /\ batch' = [batch EXCEPT ![w] = {}]
    /\ periodic' = periodic \ {w}
    /\ answer' = [answer EXCEPT ![w] = "none"]
    /\ UNCHANGED <<kind, rowVars, taken, queueVars>>

\* Being sent for ten minutes, which no worker survives: the hard limit is 45 seconds.
Abandoned == {m \in Messages : delivery[m] = "sending" /\ \A w \in Workers : job[w] # m}

\* (mutant) what a dead worker left is not looked at
DispatchNotices ==
    /\ kind = "notice"
    /\ tasks' = tasks \cup {m \in Messages : delivery[m] = "queued"}
    /\ tasks' # tasks
    /\ UNCHANGED <<kind, rowVars, taken, fresh, doubt, workerVars, faults>>

\* recover_notices, once a minute: what a dead worker left is uncertain, and what is queued
\* gets a task.
RecoverNotices ==
    /\ kind = "notice"
    /\ delivery' = [m \in Messages |-> IF m \in Abandoned THEN "uncertain" ELSE delivery[m]]
    /\ tasks' = tasks \cup {m \in Messages : delivery[m] = "queued"}
    /\ <<delivery, tasks>>' # <<delivery, tasks>>
    /\ UNCHANGED <<kind, tries, fault, taken, fresh, doubt, workerVars, faults>>

-----------------------------------------------------------------------------
Visit(w, m) == Claim(w, m) \/ Refuse(w, m) \/ DropNotice(w, m)

WorkerStep(w) ==
    \/ ProviderReady(w) \/ ProviderAway(w) \/ RecipientChanged(w) \/ Send(w)
    \/ SettleEmail(w) \/ SettleInvoice(w) \/ SettleNotice(w) \/ SettleAlert(w)
    \/ Retry(w)

NoticesNext ==
    \/ \E m \in Messages :
         \/ QueueEmail(m) \/ QueueInvoice(m) \/ PostMovement(m)
         \/ Dispatch(m) \/ Doubt(m) \/ LoseTask(m)
    \/ \E w \in Workers, m \in Messages : Visit(w, m) \/ RequestAlert(w, m)
    \/ \E w \in Workers : ListQueue(w) \/ WorkerStep(w) \/ Crash(w)
    \/ RecoverNotices

\* A task that runs ends, within its time limit; the broker hands out every task; beat
\* starts process_email_queue_task and recover_notices every minute.
NoticesFairness ==
    /\ \A w \in Workers :
         /\ WF_noticesVars(WorkerStep(w))
         /\ WF_noticesVars(step[w] = "list" /\ \E m \in Messages : Visit(w, m))
    /\ \A m \in Messages :
         SF_noticesVars(\E w \in Workers : step[w] = "idle" /\ Visit(w, m))
    /\ SF_noticesVars(\E w \in Workers : ListQueue(w))
    /\ WF_noticesVars(RecoverNotices)

NoticesSpec == NoticesInit /\ [][NoticesNext]_noticesVars /\ NoticesFairness

-----------------------------------------------------------------------------
\* Nobody gets an invoice, a notice or an alert twice, whatever the second clicks, the
\* repeated tasks and the lost answers (deliver_invoice: "ambiguous outcomes are never
\* blindly retried"); an email may arrive again, at most EMAIL_MAX_RETRIES times.
NeverTwice ==
    \A m \in Messages : taken[m] <= IF kind = "email" THEN MaxRetries ELSE 1

\* A member gets the notices in the order of the ledger: none arrives after a later one,
\* whichever worker has it (deliver_movement_notice: "serialize claim/order per member").
NoticesInOrder ==
    [][kind = "notice" =>
         \A m \in Messages :
            taken'[m] > taken[m] => \A k \in m + 1 .. Count : taken[k] = 0]_noticesVars

\* Once the faults are over, an email leaves the queue and a notice comes to an end, also
\* when its task was never dispatched or died with its worker ("the periodic queue remains
\* the recovery path", _dispatch_email_delivery; recover_notices).
QueuedIsTakenUp ==
    \A m \in Messages :
        kind \in {"email", "notice"} /\ delivery[m] = "queued"
            ~> IF kind = "email" THEN delivery[m] # "queued"
               ELSE delivery[m] \in {"accepted", "failed", "uncertain", "skipped"}
=============================================================================
