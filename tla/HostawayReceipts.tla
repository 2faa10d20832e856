--------------------------- MODULE HostawayReceipts ---------------------------
(***************************************************************************)
(* The receipts the site books in Hostaway for the card payments it has    *)
(* verified: one HostawayFinancialEntry for a payment, and the Celery task *)
(* that looks the charge up in Hostaway by its marker and posts it when it *)
(* was never posted.                                                       *)
(*                                                                         *)
(* Tasks for one entry may be queued more than once and run late: a worker *)
(* may start one for any entry.  What serialises them is a key in the      *)
(* shared cache that outlives a killed worker until it expires; a task is  *)
(* itself killed after the ten minutes the key is kept for, so the key of  *)
(* a living task does not expire.                                          *)
(***************************************************************************)
EXTENDS Naturals

CONSTANTS
    Payments,    \* payment attempts
    Clerks,      \* Celery worker processes that run the task
    NoClerk,     \* the key is free
    DeadClerk,   \* the key of a worker that was killed
    NoPayment    \* a worker without a task

ASSUME ReceiptsAssumption ==
    /\ NoClerk \notin Clerks /\ DeadClerk \notin Clerks /\ NoClerk # DeadClerk
    /\ NoPayment \notin Payments

VARIABLES
    settled,     \* payments that are verified (and whose payment request is paid)
    entry,       \* HostawayFinancialEntry.status of a payment
    charges,     \* the charges Hostaway holds under the marker of a payment
    wire,        \* payments with a POST that may still reach Hostaway
    key,         \* the lsa:task-lock:hostaway-receipt key of an entry
    clerk        \* a worker: its step, its payment, and the status it read

ledgerVars == <<entry, charges, wire, key, clerk>>
receiptsVars == <<settled, ledgerVars>>

EntryStatus == {"none", "pending", "posting", "succeeded", "unknown", "review"}
Clerk == [step : {"idle", "look", "post", "wait"},
          pay : Payments \cup {NoPayment}, seen : EntryStatus]
Idle == [step |-> "idle", pay |-> NoPayment, seen |-> "none"]

LedgerInit ==
    /\ entry = [p \in Payments |-> "none"]
    /\ charges = [p \in Payments |-> 0]
    /\ wire = {}
    /\ key = [p \in Payments |-> NoClerk]
    /\ clerk = [c \in Clerks |-> Idle]

ReceiptsInit == settled = {} /\ LedgerInit

-----------------------------------------------------------------------------
\* A payment is verified; the rest of the site does this.
Settle(p) ==
    /\ p \notin settled
    /\ settled' = settled \cup {p}
    /\ UNCHANGED ledgerVars

\* queue_payment_receipt: get_or_create.  An entry that is pending already is only
\* dispatched again.
Queue(p) ==
    /\ p \in settled /\ entry[p] = "none"
    /\ entry' = [entry EXCEPT ![p] = "pending"]
    /\ UNCHANGED <<settled, charges, wire, key, clerk>>

\* (mutant) a task that overlaps another one is not turned away
StartUnlocked(c, p) ==
    /\ clerk[c].step = "idle"
    /\ entry[p] \notin {"none", "succeeded"}
    /\ key' = [key EXCEPT ![p] = c]
    /\ clerk' = [clerk EXCEPT ![c] = [step |-> "look", pay |-> p, seen |-> entry[p]]]
    /\ UNCHANGED <<settled, entry, charges, wire>>

\* The task takes the key, reads the row and returns at once when it is done.
Start(c, p) ==
    /\ clerk[c].step = "idle"
    /\ entry[p] \notin {"none", "succeeded"}
    /\ key[p] = NoClerk
    /\ key' = [key EXCEPT ![p] = c]
    /\ clerk' = [clerk EXCEPT ![c] = [step |-> "look", pay |-> p, seen |-> entry[p]]]
    /\ UNCHANGED <<settled, entry, charges, wire>>

\* The task saves the row and gives the key back, if it is still its own.
Finish(c, status) ==
    LET p == clerk[c].pay IN
    /\ entry' = [entry EXCEPT ![p] = status]
    /\ key' = IF key[p] = c THEN [key EXCEPT ![p] = NoClerk] ELSE key
    /\ clerk' = [clerk EXCEPT ![c] = Idle]

\* The reservation and its charges are read from Hostaway, and one charge carries
\* the marker with the right amount.
FindCharge(c) ==
    /\ clerk[c].step = "look" /\ charges[clerk[c].pay] = 1
    /\ Finish(c, "succeeded")
    /\ UNCHANGED <<settled, charges, wire>>

\* No charge carries the marker, and none was ever posted for this entry.
ClaimPost(c) ==
    /\ clerk[c].step = "look" /\ charges[clerk[c].pay] = 0
    /\ clerk[c].seen \notin {"posting", "unknown", "review"}
    /\ entry' = [entry EXCEPT ![clerk[c].pay] = "posting"]
    /\ clerk' = [clerk EXCEPT ![c].step = "post", ![c].seen = "posting"]
    /\ UNCHANGED <<settled, charges, wire, key>>

\* Anything else: Hostaway does not answer, the reservation, its currency or the
\* charge it holds do not agree with the payment, or a POST was tried before.
Refuse(c) ==
    /\ clerk[c].step = "look"
    /\ Finish(c, IF clerk[c].seen = "posting" THEN "unknown" ELSE "review")
    /\ UNCHANGED <<settled, charges, wire>>

\* create_offline_paid_charge leaves for Hostaway ...
Post(c) ==
    /\ clerk[c].step = "post"
    /\ wire' = wire \cup {clerk[c].pay}
    /\ clerk' = [clerk EXCEPT ![c].step = "wait"]
    /\ UNCHANGED <<settled, entry, charges, key>>

\* ... arrives, even after the task has given up on it, or never does ...
Arrive(p) ==
    /\ p \in wire
    /\ wire' = wire \ {p}
    /\ \/ charges' = [charges EXCEPT ![p] = @ + 1]
       \/ UNCHANGED charges
    /\ UNCHANGED <<settled, entry, key, clerk>>

\* ... and is answered with the charge it created, or not.
Answered(c) ==
    /\ clerk[c].step = "wait"
    /\ \/ charges[clerk[c].pay] > 0 /\ Finish(c, "succeeded")
       \/ Finish(c, "unknown")
    /\ UNCHANGED <<settled, charges, wire>>

\* The worker is killed; its key stays behind.
Die(c) ==
    /\ clerk[c].step # "idle"
    /\ clerk' = [clerk EXCEPT ![c] = Idle]
    /\ key' = [p \in Payments |-> IF key[p] = c THEN DeadClerk ELSE key[p]]
    /\ UNCHANGED <<settled, entry, charges, wire>>

KeyExpires(p) ==
    /\ key[p] = DeadClerk
    /\ key' = [key EXCEPT ![p] = NoClerk]
    /\ UNCHANGED <<settled, entry, charges, wire, clerk>>

Work(c) ==
    \/ \E p \in Payments : Start(c, p)
    \/ FindCharge(c) \/ ClaimPost(c) \/ Refuse(c) \/ Post(c) \/ Answered(c) \/ Die(c)

Bookkeeping ==
    \/ \E c \in Clerks : Work(c)
    \/ \E p \in Payments : Arrive(p) \/ KeyExpires(p)

ReceiptsNext ==
    \/ \E p \in Payments : Settle(p) \/ Queue(p)
    \/ Bookkeeping

ReceiptsSpec == ReceiptsInit /\ [][ReceiptsNext]_receiptsVars

-----------------------------------------------------------------------------
LedgerTypeOK ==
    /\ entry \in [Payments -> EntryStatus]
    /\ charges \in [Payments -> Nat]
    /\ wire \subseteq Payments
    /\ key \in [Payments -> Clerks \cup {NoClerk, DeadClerk}]
    /\ clerk \in [Clerks -> Clerk]

\* Every row, key and worker holds a value the code writes.
ReceiptsTypeOK == settled \subseteq Payments /\ LedgerTypeOK

\* A payment is booked in Hostaway at most once, whatever is lost, late or killed:
\* hostaway_ledger.py's "NEVER blindly post again".
PostedOnce == \A p \in Payments : charges[p] <= 1

\* What the site calls recorded is in Hostaway, and only for verified payments.
RecordedIsBooked ==
    \A p \in Payments :
        /\ entry[p] = "succeeded" => charges[p] = 1
        /\ charges[p] > 0 => p \in settled

-----------------------------------------------------------------------------
\* The invariant behind it, payment by payment and worker by worker.
\* A worker at work holds the key of its payment and knows the status of its row.
Working ==
    \A c \in Clerks :
        clerk[c].step # "idle" =>
            /\ clerk[c].pay \in Payments
            /\ key[clerk[c].pay] = c
            /\ clerk[c].seen = entry[clerk[c].pay] /\ clerk[c].seen # "none"
            /\ clerk[c].step \in {"post", "wait"} => clerk[c].seen = "posting"

\* A payment that was never claimed for a POST left no trace, and one whose POST has
\* not left or not arrived yet is not in Hostaway.
Traces ==
    \A p \in Payments :
        /\ entry[p] \in {"none", "pending"} => charges[p] = 0 /\ p \notin wire
        /\ p \in wire => charges[p] = 0
        /\ charges[p] <= 1
        /\ entry[p] # "none" => p \in settled
        /\ entry[p] = "succeeded" => charges[p] = 1

Unsent ==
    \A c \in Clerks :
        clerk[c].step = "post" => charges[clerk[c].pay] = 0 /\ clerk[c].pay \notin wire

ReceiptsIInv == ReceiptsTypeOK /\ Working /\ Traces /\ Unsent
=============================================================================
