# Verification of the booking platform

This directory holds TLA+ models of the parts of the platform where money, stays, points and
messages can go wrong: quotes and drafts, the direct card booking, changes and cancellations,
refunds, payment links and the receipts they leave in Hostaway, morning stays, the webhook inbox,
the loyalty points, and the outboxes. TLC checks the models on small instances, TLAPS proves the
most important properties for every size, and each definition names the source lines it stands for
(`PROJECT.json`, "map"). Paths below are relative to `src/`; most code lives in `apps/`, and that
prefix is left out in the tables.

Contents: [1 The system](#1-the-system) · [2 The plan](#2-the-plan) · [3 The
modules](#3-the-modules) · [4 The runs](#4-the-runs) · [5 The proofs](#5-the-proofs) · [6 Seen while
modelling](#6-seen-while-modelling) · [7 What is not covered](#7-what-is-not-covered)

To repeat the work: `tlc -config DirectBooking_race.cfg MCDirectBooking.tla` (likewise for each run
in `PROJECT.json`), `tlapm DirectBookingProofs.tla` (likewise for the other `*Proofs` and
`SumTheorems`).

## 1 The system

A Django site sells short stays in apartments whose calendar, prices and reservations live in
Hostaway, a channel manager that sells the same apartments elsewhere. Guests pay by card through
HyperPay. `render.yaml` deploys gunicorn (three workers of two threads), a Celery worker, a
dispatch-only scheduler ("beat"), PostgreSQL and a Redis cache. There is no `ATOMIC_REQUESTS`: a
request is a series of transactions with remote calls between (and sometimes inside) them. That is
where everything difficult comes from: two result pages of one payment, a task beside a page, a
worker killed between a remote write and its record, an answer that is lost, a row that is read
before a remote call and written after it.

### 1.1 Components

| Component | State it keeps | Operations | What is hard, and what makes it correct |
|---|---|---|---|
| **Direct card booking** (`payments/hyperpay/service.py`, `reservations/services/hostaway_booking.py`, `expiration.py`) | `BookingIntent.status`, `PaymentAttempt.status`, `Reservation` (status, payment status, Hostaway id), `HostawayReservationOperation` (status, attempt_count) | create checkout, verify from the result page, prepare the local reservation, record the payment, create in Hostaway, report for review, recover, expire, cancel | Pages and the recovery task race; a worker dies around the create call; its answer is lost. One create call per intent, only after a verified payment; a confirmed reservation exists in Hostaway; a paid booking is linked, reported or in a page's hands. |
| **Hostaway reservation sync** (`integrations/website_reservations.py`, `hostaway/webhook_processor.py`) | the reservation rows, `source_updated_at`, `last_synced_at` | refresh open stays, write a snapshot, reconcile requests, import an unknown stay | A snapshot is written later than it was read. It must not undo a local write, and what it completes must have happened. |
| **Refunds** (`payments/hyperpay/refunds.py`, `reservations/services/refunds.py`, refund page) | `RefundObligation` (status, amount, `calculation["hyperpay_refund"]`), the payment's status | record, submit, settle each answer, approve an amount, mark transferred, close | Lost and ambiguous answers, two submissions on one payment, forms that write stale rows. Nothing unresolved is sent again; refunds stay within the payment, unless a page overwrote one. |
| **Booking modifications** (`reservations/services/{modifications,automatic_modifications,hostaway_modifications}.py`) | `BookingModificationRequest`, `HostawayModificationOperation`, the difference's `PaymentAttempt`, the reservation row | price, persist and supersede, cancel, pay the difference, recheck, approve, PUT and GET, settle, record the refund, reconcile, expire, staff decisions | Requests overlap, are paid while they change, and are settled by whoever sees Hostaway first. One PUT per request; what is completed took effect; a refund is owed once, for what took effect. |
| **Scheduled tasks** (`integrations/tasks.py`, `scheduler_runtime/schedule.py`) | task locks in the cache | recovery, expiration, refresh, webhooks, syncs | The lock is two cache calls and expires: overlaps must be harmless. What no schedule runs never happens. |
| **Hostaway receipt ledger** (`payments/hostaway_ledger.py`) | `HostawayFinancialEntry` (pending, posting, succeeded, unknown, review), a key per entry in the cache | queue, look up by marker, claim, post, settle | A charge is written to Hostaway once although the POST may time out or arrive late, and although a killed worker's key expires. |
| **Payment links** (`payments/payment_links.py`, `payment_link_revisions.py`, `payment_link_tasks.py`, `owner_payment_links.py`, `offline_receipts.py`) | `ReservationPaymentRequest` (draft, open, paid, revoked, review), attempts, the stay's price and payment status | issue, visit, claim a checkout, verify, complete, revoke, record cash, change the price, prepare, approve and activate a revision | A link is revised, revoked or overtaken by cash while a guest pays it. A guest is asked for exactly the balance; all links lead to the approved revision. |
| **Morning stays** (`payments/morning_payments.py`, `reservations/morning_stays.py`, `morning07_changes.py`, `morning_payment_messages.py`) | `MorningStay`, `MorningPaymentAttempt`, `MorningPaymentLinkDelivery` | offer, edit, cancel, resend the link, open a checkout, verify, expire a lease | The lease is five minutes, the link lives on. Guests' hours never meet, but for the two ways section 6 shows; a stay is charged once. |
| **Webhook inbox** (`integrations/hostaway/webhooks.py`, `webhook_processor.py`, `tasks.py`) | `HostawayWebhookEvent` (received, processing, retryable, processed, ignored, failed; attempt_count), the reservation row | receive, list, claim, fetch, apply or insert, retry, finish, requeue | Listings overlap; answers are applied in another order than they were read. An event is in one worker's hands; a processed event is in the row; the row never goes back. |
| **Loyalty ledger** (`loyalty/services.py`, `checkout.py`, `settlements.py`, `accrual.py`, `recovery.py`) | append-only movements, `Reservation.loyalty_state` (hold, frozen, redeemed, restored), memberships | hold, release, redeem, restore, plan a refund, accrue, correct, give, withdraw, confirm a points booking | The points on a booking change while its card checkout is open; four callers may redeem. A hold is consumed once; card and points add up to the price; no point is promised twice. |
| **Email queue and notices** (`notifications/services/{email,invoices,invoice_delivery,ultramsg}.py`, `notifications/tasks.py`, `loyalty/whatsapp_notices.py`) | `EmailDelivery`, invoice and `WhatsAppDelivery` rows, notices (queued, sending, sent, failed, uncertain, ...) | queue, dispatch, claim, send, settle, retry, recover | A provider that took a message cannot be asked. No invoice, notice or alert twice; notices in order; what is queued is taken up. |
| **Quotes and availability** (`reservations/services/{booking,availability}.py`, `reservations/views.py`) | `BookingQuote` (active, expired, consumed, ...), caches | read the calendar and the price, save a quote, submit details, replace, refuse, requote, consume, expire | Calendar rules at their boundaries; nights sold and prices changed between two calls. A guest books what Hostaway offered, at its price. |
| **Manual bookings** (`reservations/manual_bookings.py`, `sama_booking_api.py`) | `ManualBookingDraft` (quoted, ready, booked, expired), `sama_confirmation_started_at` | prepare, recheck, finalize, confirm, create in Hostaway | Owner and assistant act on one draft while its create call is under way. One stay per draft. |
| **Hostaway access token** (`integrations/hostaway/token_provider.py`, `client.py`, `locks.py`) | cached token, rejected flag, advisory locks | get, create, invalidate after a 403 | Several processes renew at once. Not modelled. |
| **Phone sign-in** (`accounts/phone_auth.py`) | `PhoneChallenge`, `PhoneAuthLimit` | request a code, verify, rate-limit | Each step one locked transaction. Not modelled. |
| **Administration pages** (`reservations/operations_views.py`, `admin.py`) | none of their own | cancel an intent, mark for review, approve, reject, decide on refunds, revoke links, requeue events | They write modelled rows, some without a lock; those writes are actions of the modules concerned. |
| **Content, documents, presentation, marketing** (`properties`, `reviews`, `core`, PDFs, campaigns) | imported content | import, render, send | No protocol; not modelled. |

### 1.2 How they meet

- An availability check stands before every booking: `Quotes` ends with an intent, where
  `DirectBooking` begins, or with a manual reservation, which is sent through the same ledger of
  create calls and paid through a payment link.
- The guest's result page calls `HyperPayService.verify`, which calls the booking's create call, or
  `execute_automatic_modification` when the payment was for a change, or the payment link's
  completion; it queues a receipt in the ledger.
- `execute_automatic_modification` writes a `RefundObligation`, which `HyperPayRefundService.submit`
  sends when the flag for automatic refunds is set, and owners send from the refund page otherwise.
  Refunds and cancellations give points back.
- The refresh of website reservations and the webhooks write the rows that bookings, changes and
  links also write, and complete modification requests on their own.
- The expiration task writes quotes, intents and requests under the feet of all of them, and
  releases points afterwards.
- Loyalty, notices and invoices hang on `transaction.on_commit` of these operations.

### 1.3 Hazards

`PROJECT.json` lists the places where this code is exposed to something a test hardly reaches, with
the property that watches it or the reason there is none.

## 2 The plan

| Step | Modules | State |
|---|---|---|
| 1 | `CreateOnce` (abstract), `DirectBooking`, proofs and refinement | done |
| 2 | `HyperPayRefunds`, proofs | done |
| 3 | `StayChanges`, proofs | done |
| 4 | `HostawayReceipts` (the receipt ledger), proofs; `PaymentLinks` on top of it, shown to implement it | done |
| 5 | `MorningStays`, proofs | done |
| 6 | `WebhookInbox`, proofs | done |
| 7 | `Loyalty`, proofs | done |
| 8 | `Notices`, with liveness, proofs | done |
| 9 | `CalendarRules`, `Quotes` with the manual drafts, proofs | done |
| 10 | `Cancellation`: the debts of `StayChanges` composed with the submissions of `HyperPayRefunds`; the cancellation of a paid booking that never reached Hostaway (`_refund_orphaned_paid_reservation`) | left |
| 11 | `Sums` and their theorems; proofs about sums: `RefundsFitUnlessOverwritten`, `HoldsAreCovered`, the balances of `PaymentLinks` | done |

## 3 The modules

Everywhere a **worker** (in `HostawayReceipts` a **clerk**, in `Quotes` a **request**) is a web
thread or a Celery process. A step of a worker is one transaction, or one remote call; what it read
and has not used yet is kept in variables of the worker, so that others may run between the reading
and the use. A remote write may take effect or not, and its answer may be lost either way. A worker
may die before any step (`Crash`, `Stop`, `Die`); an open transaction is then rolled back, which is
why a transaction is one step. Where threads are many and hold only one thing they have checked
(`PaymentLinks`, `MorningStays`), that thing is a variable and the thread is not: a thread that dies
is one that takes no further step. `MC*` modules hold definitions for TLC only: the sets'
symmetries, example values, and for `Quotes` the calendars.

### 3.1 `DirectBooking` (with `CreateOnce`, `MCDirectBooking`)

The intents are for the same apartment and overlapping dates, so they compete for one stay with each
other and with the channels (`blocked`).

| Variables | Code |
|---|---|
| `intent`, `lapsed` | `BookingIntent.status`, `expires_at` in the past |
| `owner`, `att` | `PaymentAttempt.booking_intent`, `.status` |
| `pay` | what HyperPay knows of the checkout |
| `res`, `paid`, `linked` | `Reservation.normalized_status`, `.payment_status`, `.hostaway_reservation_id` |
| `op`, `tries` | `HostawayReservationOperation.status`, `.attempt_count` |
| `sent`, `stay`, `imported`, `blocked` | Hostaway: create calls received, the stay made, a second row made by a webhook, the dates taken by others |
| `flagged`, `receipted` | review reports, queued receipts |
| `pc`, `job`, `on`, `memo` | a worker's position, attempt, intent, and last reading |
| `died` | history: intents whose page died at work on them |
| `doomed` | what the expiration task selected and has not written |

The actions follow the code in order: `StartCheckout`, `CreateCheckout` (`create_checkout`);
`OpenResult`, `GetPayment`, `ProcessVerification` (`verify`); `Complete`, `RecordPayment`
(`_complete_success`, `prepare_local_reservation`, `record_successful_payment`); `Refresh`,
`CheckAvailability`, `FailWithoutPost`, `EnsureBlocked`, `OverwriteBlocked`, `PrepareOperation`,
`PostReservation`, `SettleCreated`, `SettleMismatched`, `SettleWithoutStay`
(`create_hostaway_reservation`); `QueueReceipt`, `ReportForReview`. Beside them `StartRecovery`,
`SelectLapsed`/`ExpireSelected`, `CancelIntent`, `MarkUnknownForReview`, `SyncReservation`,
`ImportStay`, and the world: `Lapse`, `Pay`, `ChannelMoves`, `StayCancelled`.

Details kept because they matter: `Complete` trusts the intent's status the worker read before;
`EnsureBlocked` reads an operation without a lock and `OverwriteBlocked` writes it later;
`FailWithoutPost` does not look at the reservation; an unreadable 2xx answer of the create call is
taken for a refusal. The recovery task's lock (`tasks.py:38`) is left out on purpose: it expires and
is released in two cache calls, so the ledger has to hold without it.

`CreateOnce` is the contract: unpaid, verified, claimed, recorded, with at most one post, after the
claim. `CreatePhase` is the refinement mapping; it uses `linked`, `tries` and the verified payment,
not `op`, since a late worker or staff may set `op` back to `blocked`.

### 3.2 `HyperPayRefunds` (with `MCHyperPayRefunds`)

One card payment of amount `Charged` and its obligations. `row` is the `RefundObligation` (status,
amount, the state in `calculation["hyperpay_refund"]`, and whether that detail names the payment);
`payment` is the attempt's status; `returned` is HyperPay's own record; `held` are the obligations
with a request that was not taken for refused, and `asked` (history) how much it asked for.
`Prepare`/`Send`/`Settle...`/`ReadTotal`/`Commit` are `HyperPayRefundService.submit`; `ReadTotal`
and `Commit` are two steps because the total is read from what others have *committed*, inside a
transaction that locks only its own rows. `OpenForm`, `ApproveAmount`, `MarkTransferred`,
`CloseWithoutTransfer` are the owners' page, which reads a row without a lock and saves it later,
whatever has happened to the row since; `overwritten` (history) says that it saved one that was no
longer due. `RefundAmount` are the amounts an obligation may have; what is summed is summed with
`SumOver` (module `Sums`): amounts are whole units, and a sum is how many units the rows have.
`VerifyAgain` is the result page, which turns a refunded payment back into a succeeded one.

### 3.3 `StayChanges` (with `MCStayChanges`)

One confirmed stay, its `Increases` (dearer changes, paid first), `Decreases` (cheaper, owed back)
and `Cancels`. What a stay looks like is named by the request that asked for it; `None` is the stay
as booked. Requests that are failed, superseded, expired, rejected, unavailable or price_changed are
one status, `closed`: no operation of the module takes them up again.

| Variables | Code |
|---|---|
| `status`, `base`, `bill` | `BookingModificationRequest.status`, the `old_...` columns, the difference's `PaymentAttempt` |
| `op`, `tries` | `HostawayModificationOperation.status`, `.attempt_count` |
| `sent`, `remote`, `applied` | Hostaway: PUTs received per request, the stay it holds, the changes it ever applied |
| `local`, `fresh` | the `Reservation` row; the refreshes whose row nobody saved since they read it (`updated_at`) |
| `owed` | refund obligations recorded for the request |
| `pc`, `job`, `seen`, `got` | a worker's position, request, last stay read, kind of answer |

`Quote`/`Persist`/`CreateCancellation`/`Resubmit` are `ModificationService` and the guest's view;
`Checkout`, `CheckoutRefused`, `OpenResult`, `RecheckPaid` the payment of a difference; `Approve`,
`Prepare`, `Put`, `Get`, `SettleApplied`, `SettleOther`, `RecordRefund`
`execute_automatic_modification` and `HostawayModificationService`; `FetchStay`/`WriteStay` the
refresh with its reconciliation; `Expire`, `ApproveLocally`, `RejectLocally` the task and staff.

### 3.4 `HostawayReceipts`

`settled` are the verified payments, `entry` the `HostawayFinancialEntry.status`, `charges` what
Hostaway holds under the payment's marker, `wire` a POST that may still arrive, `key` the cache key
`lsa:task-lock:hostaway-receipt`, `clerk` the workers. `Queue` is `queue_payment_receipt`; `Start`
takes the key; `FindCharge`, `ClaimPost`, `Refuse`, `Post` the task's steps; `Arrive` delivers a
POST, after the task gave up on it if it so happens; `Answered` is its answer or its absence; `Die`
leaves the key behind and `KeyExpires` frees it (only a dead worker's: the task's hard limit is the
key's lifetime).

### 3.5 `PaymentLinks` (with `MCPaymentLinks`)

Extends `HostawayReceipts`. A price stands for everything a request's fingerprint covers; amounts
are added with `SumOver` of `Sums`.

| Variables | Code |
|---|---|
| `stay`, `remote` | the `Reservation` row and the reservation in Hostaway (status, total; payment status) |
| `change` | the `BookingModificationRequest` with an owner's final total |
| `request` | `ReservationPaymentRequest`: status, amount, the total and receipts it was made for, its approval and successor |
| `attempt`, `gate` | `PaymentAttempt` (cash too: an attempt without a request), the checkout at HyperPay |
| `visited`, `reviewed` | what a thread has checked in Hostaway and not used yet: a guest's POST, an approval |

`Issue`, `Revoke`, `RecordOffline` are the owner's pages; `Visit` and `ClaimAttempt`
`create_request_checkout` before and under its locks; `OpenCheckout`, `Charge`, `Verify` HyperPay;
`Complete` `complete_request_payment`, from the result page or the minute's task; `SetFinalTotal`,
`PreparePreview`, `ApprovePreview`, `ApplyChange`, `VerifyRevision`, `ActivateRevision` the price
change from the owner's form to the switch of the links; `EditInHostaway` and `Refresh` the other
writers. `Trail` and `Resolve` are `resolve_token`: from hop to hop over `next`, 20 hops at most,
over approved requests only. `ReceiptsImplemented` says that all of this is a `HostawayReceipts`
behaviour.

### 3.6 `MorningStays` (with `MCMorningStays`)

`stay` are `MorningStay` rows (status, slot, `leased`, `ended`, and whether money was seen), `try`
their payment attempts, `outcome` HyperPay's decision, `edit` what an edit checked before its save,
`night` the nightly bookings beside the morning, `notice` the link deliveries. Every allocation
holds the property's row lock and is one action: `Create`, `SaveEdit`, `Cancel`, `Claim`,
`NightClaim`. `VerifyEdit` is the edit's look before the lock; `Resend`/`SendLink` the delivery and
its repetition; `OpenCheckout`, `LoseCheckout`, `Decide`, `Verify` the payment. An answer that was
true once may be written at any later time, so "pending" is always a possible answer of `Verify`; a
decision of HyperPay is final. `expired`, which the code names and never writes, is left out.
`local_inflight_conflict` assumes 15:00 and 12:00 for a night (`AssumedHours`) whereas
`overnight_conflicts` uses the property's own hours (`Hours`, `reservations/morning_stays.py:108`);
both are kept. Of a morning and a night the models say that they meet when they do by both hours. A
stay is `Reopened` when it is `open` though its money was seen; `crossed` (history) are the stays
whose edit was saved over a night that was claimed after `verify_window` had answered.

### 3.7 `WebhookInbox` (with `MCWebhookInbox`)

What Hostaway holds of the reservation is a version number, and an answer is the version it was read
at. `status`, `attempts`, `waiting`, `arrived` are the events; `row` the reservation row's version
(0: no row), `fresh` the refreshes whose row nobody wrote since; `change`, `made` the website's own
change; `pc`, `job`, `batch`, `forced`, `got`, `verdict` the workers. `Receive` is the endpoint;
`List` the listing of the task and of the management command; `Pass`, `GiveUp`, `Claim`, `Dismiss`
`_claim_event` and what it refuses; `Get`, `GetFails` the fetch; `Apply` `sync_reservation_snapshot`
with its comparison of dates and its reconciliation; `FindNoRow`, `Insert`, `InsertClashes` the
import of an unknown stay; `Finish` the outcome with its retry; `Requeue` the administrator;
`Look`/`Fetch`/`Keep` the refresh; `Put`/`SaveOwn`/`LoseOwn` the website's change, whose answer is
saved without comparing dates. `undone` is a history variable: some write put an older version over
a newer one.

### 3.8 `Loyalty` (with `MCLoyalty`)

Every command runs under one advisory lock until it commits (`posting_transaction`), so a command is
one action; a repeated request returns its stored receipt and is no step. `points` is
`Reservation.loyalty_state`, `balance` the sum of a member's ledger rows, `earned`, `spent`,
`returned` the rows of a booking, `corrected` what was taken back; `intent`, `status`, `stay`,
`attempt`, `checkout` the booking and its card payments; `call` where `confirm_points_booking` is
between two transactions; `expiring` how far the expiration got (`ChooseExpired`, `Expire`, and
`ReleaseExpired` after its commit). `Checkout` freezes the points and computes `CashDue`; `Verify`,
`RecordPaid`, `CreatePaid`, `Redeem`, `Settle` are the paid booking; `StartConfirm`, `CreateUnsent`,
`CreateSent`, `CreateAnswered`, `ConfirmCreated`, `ConfirmRefused`, `ConfirmUncertain`,
`ConfirmDies`, `Recover` the booking with points alone and the owner's recovery; `Cancel`,
`RestorePoints`, `RestoreCancelled`, `RefundPlan` what gives points back; `Accrue`, `Gift`,
`Withdraw` the member's other movements.

### 3.9 `Notices` (with `MCNotices`)

One behaviour is about one outbox (`kind`): emails, invoices, notices of ledger rows, or alerts to
the accountant; they share workers and no row. `delivery`, `tries`, `fault` are the row, `fresh` and
`tasks` the way from the commit to the broker, `doubt` an invoice whose dispatch raised after the
broker may have stored it, `taken` how often the provider took the message. `QueueEmail`,
`QueueInvoice`, `PostMovement`, `RequestAlert` queue; `Dispatch`, `Doubt`, `LoseTask` are the
broker; `ListQueue`, `TurnTo`, `Claim`, `Refuse`, `DropNotice`, `Send`, `Settle...`, `Retry`, `Done`
the tasks; `RecoverNotices` the minute's recovery. `Abandoned` takes a row for abandoned when no
worker is alive on it: the recovery waits ten minutes and a task is killed after 45 seconds.

### 3.10 `CalendarRules`, `Quotes` (with `MCQuotes`)

`CalendarRules` is the pure part: `Sells` and `Conflict` are `resolve_day_inventory`,
`EvaluateCalendar` is `evaluate_calendar` with its obstacles in order, `FirstAvailable` is
`find_first_available`.

In `Quotes`, `offer` is what Hostaway holds for the stay (open or not, and its price), `quote` the
`BookingQuote` rows, `intent` the key of the intent that consumed one, `draft` the
`ManualBookingDraft` rows, `posts` and `stays` what Hostaway was asked and made for a draft. A
request remembers its `step`, `purpose`, `subject`, form `key` and the price it read; `opened` and
`prices` are history: what Hostaway held since a binding request began. `ReadCalendar` and
`ReadPrice` are `AvailabilityService.check`, two calls that the host's changes (`HostMoves`) come
between; `Search`/`SaveQuote` the search; `Submit`, `LookForKey`, `Consume` (`Refuse`, `Requote`,
`Book`) `GuestDetailsView` and `consume_revalidated_quote`; `StartDraft`/`SaveDraft`,
`StartRecheck`/`SaveRecheck`, `Finalize`, `SamaConfirms` the drafts; `Create`, `Post`, `NotPosted`,
`MarkBooked` `create_manual_booking_in_hostaway`, whose one call is the subject of `DirectBooking`.

### 3.11 Composition

`PaymentLinks` and `HostawayReceipts` run in one state space, and the second is the contract the
first is shown to keep. `Quotes` ends with an intent, the initial state of `DirectBooking`;
`DirectBooking` ends with a confirmed stay, the initial state of `StayChanges`; `StayChanges` ends
with an obligation owed, the `RecordObligation` of `HyperPayRefunds`, which accepts any amount at
any time and is therefore safe to use under any of them.

## 4 The runs

Sizes are distinct states found.

| Run | Checks | Size | Shows |
|---|---|---|---|
| `booking_race` | `TypeOK`, `ConfirmedIsReal`, `PaidIsAccounted`, `VerifiedIsFinal`, `ImplementsCreateOnce` | 991,841 | Two workers on one paid intent, webhooks on, deaths anywhere: one create call at most, after a verified payment; a late answer never overwrites a verified payment; a paid booking is linked, reported or in a page's hands, unless its page died or a webhook imported its stay first. |
| `refunds_submit` | `TypeOK`, `UncertainIsNotResent`, `RefundsFitUnlessOverwritten` | 2,773,411 | Three obligations, two requests, owners' pages that save late: nothing unresolved is resent; what HyperPay is asked for stays within the payment until a page overwrites a row. |
| `stay_changes` | `TypeOK`, `AtMostOneWrite`, `ReservationFollowsHostaway`, `CompletedIsApplied`, `OwedIsEarned`, `CancellationIsSeen` | 323,922 | A dearer change and a cancellation overlap, beside the refresh: one PUT each, nothing invented, and a cancelled stay ends up cancelled on the site. |
| `links` | `LinksTypeOK`, `LinksLeadToTheRevision`, `PostedOnce`, `CheckoutIsTheBalance`, `PaidCoversTheStay`, `ReceiptsImplemented` | 412,969 | A link and its revision, two payments, cash, one price change, edits in Hostaway, two clerks: the balance is asked for exactly and booked once. |
| `morning` | `MorningTypeOK`, `ApartUnlessSlipped`, `ChargedOnce`, `AdmittedHasPaid` | 750,004 | Two morning stays with three attempts, a night beside them: guests meet in the two known ways only; one charge, no admission without payment. |
| `inbox` | `InboxTypeOK`, `OneWorkerPerEvent`, `ProcessedIsApplied`, `NeverOlder` | 1,912,304 | Two events, a change of the website, the refresh, two workers that die and retry: nobody shares an event, no sync takes the row back. |
| `loyalty` | `LoyaltyTypeOK`, `RedeemedOnce`, `CardAndPointsAddUp`, `HoldsAreCovered` | 713,641 | Two bookings, two card payments, against the expiration, the points confirmation, the recovery, restores, refunds, gifts and corrections. |
| `notices` | `NoticesTypeOK`, `NeverTwice`, `NoticesInOrder`, `QueuedIsTakenUp` | 203,225 | Two messages of each outbox, two workers, a death or outage, lost tasks and answers. |
| `quotes` | `QuotesTypeOK`, `CalendarAgrees`, `DraftBooksOnce`, `BookedAsOffered` | 1,694,067 | Two requests, two forms, a draft, while the calendar and the price move; and every calendar of the shapes below. |

Three runs check what a document says and the code does not keep; TLC finds the violation, and
section 6 tells the story of each.

| Run | Violated | What the counterexample shows |
|---|---|---|
| `refunds_stale` | `RefundsFitThePayment` | An owner's page saves a row it read before the refund was sent; the next refund no longer sees it, and the two exceed the payment. |
| `morning_reopened` | `NoDoubleMorning` | A paid stay whose older, declined attempt is read again becomes `open`; after its lease another guest is allocated the same slot. |
| `morning_night` | `NoMorningInANight` | A paid morning is moved into a night that was claimed after the edit had asked about nights. |

**Bounds.** In `DirectBooking`, `StayChanges` and `HostawayReceipts` no variable needs a cap: what
counts is bounded by what is proved. Two workers are the least that can overlap; an overlap of three
needs a third claim, which the claim (one per intent, request, entry or event, proved for any number
of workers) excludes. One intent with one attempt is enough for the create call, which concerns one
intent; competition for the dates is there through `blocked`. Three obligations with a payment of 2
are the least for which two submissions may be right and a third one wrong; an approved amount may
exceed the payment (`Charged + 1`). `Scope` bounds `refunds_submit`: owners' pages and their late
writes act while there are two obligations, and the third is for the submissions, answers and deaths
of two requests beside an earlier refund; `refunds_stale` has no such bound. `stay_changes`: a paid
change and a cancellation overwrite each other and go through every step but the refund of a cheaper
change, whose obligation the cancellation records too; two changes at once are left to the proofs.
`links`: two requests are a link and its revision, two payments the least that can be wrong
together; the prices are 2 and 3, so that a balance may remain. `morning`: a slot on each of two
mornings (an edit moves a stay from one to the other, and two stays may want the same) and the night
between, which begins exactly the three hours of the turnover after the first slot and lies over the
second; two attempts of a stay (a declined one and its successor), three in all, the third only
while no notice is queued and no edit has crossed a night, one notice. Its `Scope` does not follow
two kinds of state for which another stands: attempts under review (written as unknown ones are) and
expired notices (read by nobody, as closed ones). `morning_reopened` has no night, `morning_night`
one stay with one attempt, neither a `Scope`. `inbox`: two events, one change, three versions (so
that two answers may be swapped around a third), two attempts instead of five, one event per listing
instead of fifty (a second listing then overlaps the first); `Dated` is TRUE, while the proofs cover
undated answers too. `loyalty`: a booking for 2 that points may cover in part or whole and one for
1, a member with two points, two card payments, a second member who receives. Its `Scope`: the first
booking goes through everything while the second is untouched; once the second takes points, there
are no card payments, the first does not expire and no points are given back. Only the owner of the
bookings leaves. `notices`: two messages are needed for an order, two clicks for a repetition, two
of the email's attempts, one fault. `quotes`: two quotes are a quote and its replacement, two prices
a change, two keys two forms. `CalendarAgrees` looks at every calendar of up to three days (any of
them missing) over all combinations of closed arrival, closed departure, a minimum of 2, a maximum
of 1 and a taken night, with stays of one and two nights and extensions of stays that began one or
two days earlier, and at a day with each of the 162 combinations of what may be said of its units.

**Symmetry** permutes workers, attempts, obligations, events, stays, bookings, keys and requests of
one kind; runs with liveness properties use none.

**Fairness.** `WorkerFairness`: a running request or task goes on, as every remote call has a time
limit and every lock is released with its transaction. Only `stay_changes` and `notices` check
liveness. `RefreshingSpec`: beat starts the refresh every thirty minutes; it adds that it is not
killed each time before it writes (strong fairness of fetching and of writing), and the page's own
use of the refresh is the same action. `NoticesFairness`: a task goes on; the broker hands every
task it still has to some worker in the end, although workers are busy in between (strong fairness);
the email task (`EMAIL_TASK_SCHEDULE_ENABLED` is True in `render.yaml`) and the recovery of notices
run every minute. Deaths and outages are bounded by `MaxFaults`, so that "in the end" is after them.
Nothing obliges staff to act, a guest to come back, or a process to live.

**Deadlock** is checked except where the system really may stop, which the configuration says: a
cancelled stay whose requests are all closed, messages all settled, payments, versions and quotes
used up, members who left.

**Mutants.** For each property `PROJECT.json` names a mutated definition (a dropped guard, an
optimistic write, a status written raw), marked `(mutant)` in the module, that TLC finds to violate
it.

## 5 The proofs

`Spec => []Inv` for every value of the constants, restricted only by the modules' assumptions
(`None` is not an element of the sets; kinds are disjoint; prices are positive; where rows are added
up, there are finitely many). Each component has one inductive invariant, the lemmas that each
conjunct is preserved, and the theorems that follow. Every safety property that a passing run of
section 4 checks, invariants, action properties and the two refinements alike, is proved.

- **`SumTheorems`**: what a sum is (`SumNat`, `SumEmpty`, `SumOne`), and how it changes when rows
  are added, replaced or enlarged (`SumUnion`, `SumWith`, `SumUpdate`, `SumMonotone`). A sum is the
  cardinality of the set of its units, so the facts follow from the library's theorems about finite
  sets and none needs an induction.

- **`DirectBookingProofs`**: `AtMostOnePost` is not inductive: a second POST is excluded because a
  worker only sends while it holds the claim, `tries` says that a claim was made, and two workers
  never hold one. `IInv` therefore adds `LedgerFacts` (claims, posts, stays and records in order),
  `WorkerFacts` (what each step may rely on), `Exclusive`, and `AttemptFacts` (a succeeded attempt
  is paid at HyperPay). From it: `TypeCorrect`, `OnePost`, `PaymentFirst`, `Confirmed`,
  `RecoveryIsSafe`, `Receipts`, `PaidAlwaysAccounted`, `VerifiedStays` (an action property), and
  `Implements`: each step of `DirectBooking` is a step of `CreateOnce` or a stutter.
- **`PaymentProofs`, refunds**: `IInv` adds that a request in flight has its obligation for itself
  (`Exclusive`) and that a held obligation is taken (`HeldIsTaken`), for stale forms too: a page
  that read a row before its submission can only have read `due`, and can only leave it away from
  `due`. From it: `TypeCorrect`, `UncertainNotResent`, `ConfirmedReturned`. `RefundsFit` adds
  `LedgerInv` and `AskedFacts`: until a page has overwritten a row, whatever HyperPay was asked for
  stands in its row, with that amount, or is transferred for good. So a request enters the sum in
  `Prepare` only, which looks at all of it under the payment's lock, and no answer makes an amount
  in it grow. The hypothesis is in the property, since the code does overwrite rows
  (`refunds_stale`); no constant excludes it.
- **`StayChangesProofs`**: `StayFacts` traces every kept copy of a stay (the row, what workers saw)
  to something Hostaway applied, `LedgerFacts` bounds what is sent and owed by `attempt_count` and
  makes the writer of a request unique, `OutcomeFacts` says that what is completed, owed or about to
  be recorded took effect; `HostawayKeeps` is the lemma that what took effect stays. From it:
  `TypeCorrect`, `OneWrite`, `OneOpen`, `RowFollows`, `Completed`, `Earned`.
- **`PaymentProofs`, receipts**: a worker at work holds its payment's key and knows its row's status
  (`Working`), a payment leaves a trace in its row before anything can reach Hostaway (`Traces`),
  and who is about to post is alone and first (`Unsent`). From it: `BookedOnce`, `RecordsAreTrue`.
  Then `LinksImplementReceipts`: each step of links, stays and price changes settles one payment for
  the receipts or leaves them alone; so the theorems about receipts hold of the whole
  (`LinksBookOnce`, `LinksRecordTruly`).
- **`PaymentProofs`, links**: `LinksInv`. What may still take the guest's money is one payment
  (`OneLive`), and while it may, what has succeeded is exactly what its link counted as received
  (`LiveFunds`); a link is for the price as booked, a revision for what its receipts leave of a
  price (`RequestRow`); site and HyperPay never contradict each other about a payment (`Gate`); a
  stay that still has the booked price has no revision for another one (`AsBooked`). So amount and
  receipts make up the price, at the claim (`AlwaysTheBalance`) and when the link becomes paid
  (`PaidAlwaysCovers`), although the owner, Hostaway and cash came between: a change of either makes
  the claim's or the completion's checks fail. `Turned` (every link leads to the open revision in
  one hop, as `activate_revision` turns all of them at once) gives `LinksAlwaysLead`. For any number
  of links, changes, payments and workers.
- **`MorningStaysProofs`**: `OneLive` (one attempt of a stay is unresolved or succeeded) and `Told`
  (what an attempt's row tells of HyperPay's decision) make `ChargedOnce` inductive. `PledgesApart`
  is `ApartUnlessSlipped` for every stay that the allocations count, paid or not: it is inductive,
  as `PledgedIsActive` says that whoever holds hours is among `active_stays` unless it was reopened,
  and `Books` what status goes with money seen. From it: `GuestsMeetOnlyAfterASlip`,
  `ChargedAtMostOnce`, `AdmissionIsPaid`, for any hours and nights.
- **`WebhookInboxProofs`**: `Hands` (an event in a worker's hands is processing and in no other's)
  and `Versions` (nothing is newer than Hostaway, an answer is not older than its event, and what a
  worker is about to call processed is in the row unless a write was undone). From it:
  `OneWorkerPerEventHolds`, `ProcessedIsAppliedHolds`, `SyncNeverOlder`.
- **`LoyaltyProofs`**: `CallFacts` (while a points booking is under way its points cover the price)
  and `CardFacts` (a checkout that is or can be paid was computed with the points that are on the
  booking, which are frozen). From it: `HoldsAreRedeemedOnce`, `CardAndPointsAlwaysAddUp`, for any
  members, bookings, prices and payments. `HoldsAlwaysCovered` goes step by step over the sum of a
  member's holds: a step leaves both sides alone, takes the points out of the sum and the balance
  together (a redemption), lets points go, or adds a hold that was compared with the balance.
- **`LoyaltyProofs`, messages**: `NoticesInv`. `NeverTwice` is not inductive, as it says nothing of
  who may still send: `HeldIsSending` (a message in a worker's hands is `sending` and in no other
  hands), `AttemptsCounted` (an email's attempt is counted before it is sent), `TakenOnce` (what may
  still go has not been taken) and `EarlierFirst` (a notice goes once the earlier ones have come to
  an end). From it: `NoticesTypeCorrect`, `NothingTwice`, and the action property `OrderKept`, for
  any number of messages, workers, clicks and faults.
- **`QuotesProofs`**: `RequestFacts` (a request that ends in a booking has kept what Hostaway held
  since it began, and its answer is one of them), `RowFacts` (a quote has an intent only when it is
  consumed, so an intent is never overwritten) and `DraftFacts` (the one request past a draft's
  first transaction has the draft's key, and nothing is posted before). `DraftBooksOnce` alone is
  not inductive: it does not say who may still post. From it: `QuotesTypeCorrect`, `DraftsBookOnce`,
  and the action property `OffersAreHonoured`.
- **`QuotesProofs`, calendar**: `EvaluateIsRight` and `FirstIsEarliest` are about the pure rules,
  for every calendar (whatever days it knows and whatever is said of them), stay, extension and
  window: a day's answers are two truth values at most, so that `Conflict`'s count is a matter of
  cases (`SignalsMean`, `Conflicting`), and `Sells` is `ForSale` (`Selling`). `CalendarAlwaysAgrees`
  derives the property TLC checks.

**Only model-checked.** Liveness (`CancellationIsSeen`, `QueuedIsTakenUp`): the prover does not
treat fairness and `ENABLED`.

## 6 Seen while modelling

What the models show the code to do where a document, a comment or the intent says otherwise. Three
of these contradict a property outright and have a run that shows it: `refunds_stale`,
`morning_reopened`, `morning_night`. Four properties of the passing runs name such behaviour as
their exception, and so would fail without it: `PaidIsAccounted` (a page that died, a stay a webhook
imported), `RefundsFitUnlessOverwritten`, `ApartUnlessSlipped`, and `NeverOlder` (the website's own
change, which `ProcessedIsApplied` excepts as `undone`). The rest concerns no property of section 4.

- **Bookings.** With webhooks on (`render.yaml:218-219` switches them off), the stay may be imported
  from Hostaway before the create call's answer is written: the outcome's write then fails on the
  unique Hostaway id (`hostaway_booking.py:301-302`, `:449-450`, `:595-596`), and the paid booking
  is neither confirmed nor reported, though nothing died. `prepare_local_reservation`
  (`hostaway_booking.py:55`) raises unless the intent still awaits its payment: a payment verified
  after the intent was closed makes no reservation and no report, though `render.yaml:149-150` says
  a verified payment must create the real reservation. A second result page that reads the calendar
  while the first one confirms sees its own stay, and `_fail_without_post` (`:348`) writes
  `create_failed` over the confirmed reservation (`docs/hyperpay-test-uat.md:119` expects the
  success unchanged). No beat entry runs the recovery of paid bookings that `README.md:262-265`
  describes (`scheduler_runtime/schedule.py:9`). A death between `_fail_without_post` and
  `_ensure_blocked_operation` (`:344`) leaves `create_failed` without an operation;
  `_ensure_blocked_operation` writes over an operation it read without a lock (the claim refuses it
  all the same). A second checkout is allowed while the first attempt is succeeded or unknown
  (`payments/hyperpay/service.py:240`).
- **Expiration.** `expire_booking_objects` writes by primary key what it selected before
  (`expiration.py:83`): an intent or request completed in between becomes expired, and so does a
  quote that is being consumed.
- **Refunds.** The owners' page reads an obligation without a lock (`operations_views.py:1391-1396`)
  and saves its amount, `calculation` and status as it read them (`:1426`). In `refunds_stale` a
  refund is sent between the two; the save removes its link to the payment, `_prepare`
  (`payments/hyperpay/refunds.py:141-157`) no longer counts it, and a second refund is sent although
  the two exceed the payment. `docs/owner-modification-root-fix.md:27-28` permits a later refund
  "against the remaining balance of the original payment". A refund made by bank transfer is not
  deducted from what HyperPay may still return (`payments/hyperpay/refunds.py:146`;
  `reservations/services/refunds.py:67-68`, `:118`). Every answer that is neither a success nor
  pending restores `due` (`:305`), where it is offered again, a gateway's HTML page too;
  `docs/owner-modification-root-fix.md:54-56`. Two refunds confirmed at once each write
  `partially_refunded` (`:257`).
- **Changes.** A paid change whose recheck failed waits for staff only until the guest reopens the
  result page, and is then sent unchecked (`service.py:493`, `automatic_modifications.py:156-169`;
  `docs/hyperpay-test-uat.md:34-36`). A ready change that is submitted again keeps the price and the
  base it was stored with (`reservations/views.py:1230`). A cancellation completed by the refresh
  after a lost answer records no obligation (`webhook_processor.py:264`; `render.yaml:166-169`).
  `_finish` writes `unknown` or `failed` over a request that the refresh has completed.
- **Payment links.** A process that dies between the verified success and the completion, and an
  owner who revokes the link before the worker comes by: the payment is settled by nobody
  (`reconcile_requests` takes succeeded attempts of open links only, `payment_links.py:432`;
  `docs/reservation-payment-links.txt:100-102`). The worker looks at the three oldest attempts per
  round (`:434`), so that three stuck ones shut out the rest.
- **Morning stays.** `verify_payment` (`morning_payments.py:232`) returns early only for an attempt
  that itself succeeded. Reading an older declined attempt again (its return page,
  `payments/morning_views.py:186`) sets the stay to `open`, whether it was paid by a newer attempt,
  is under review or cancelled; with the lease over, `active_stays` no longer counts it. In
  `morning_reopened` a first attempt is declined, a second one paid and the first read again; the
  lease ends, and another guest is given the slot, which nobody paid back.
  `docs/morning-stays.md:30-31`: "Pending, unknown, review, and paid allocations never become
  available merely because that lease expires." `change_paid_stay` asks about nights in
  `verify_window`, before the property's lock (`morning07_changes.py:26-34`), and under the lock
  about other mornings only (`:50-58`). In `morning_night` a night is claimed between the two, and
  the paid morning is moved into it. `docs/morning-stays.md:27-29`: "A property row lock serializes
  internal morning allocations, ordinary initial checkout claims, and ordinary Hostaway creation
  claims." A nightly claim assumes 15:00 and 12:00, the mornings the property's own hours (section
  3.6): where they differ, a morning and a night may meet by one and not by the other.
- **Webhooks.** A task that dies, or meets its soft time limit, leaves its event `processing` for
  good: no listing, option or admin action takes it up. `requeue` does not reset the attempt count.
  The website's own change saves its answer without comparing dates, and so may take the row back.
- **Loyalty.** An unreadable 2xx answer counts as a refusal and frees the points though the stay
  exists (`loyalty/checkout.py:208`, `:213-214`). A blocked outcome leaves the hold and the started
  mark. Points on an expired intent whose attempt fails later are never released (`:122`). A points
  booking cancelled before it was redeemed keeps its hold.
- **Messages.** An invoice whose task is lost before the claim stays `queued`; an email left
  `sending` by a dead worker is never taken up (`email.py:1078`), and may arrive up to
  `EMAIL_MAX_RETRIES` times; one that fails transiently in the periodic task has no retry. An alert
  whose answer is lost is `failed` though it may have arrived, and is not repeated.
- **Manual drafts.** A second click while the create call is in flight sets the draft to expired. A
  recheck whose answer predates the create call gives the draft a new quote and price; `booked` is
  then written over it, and its quote no longer leads to the reservation. After a lost answer the
  draft can never be booked again: the unique key of its intent raises. One stay at most, each time.

## 7 What is not covered

Inside the modelled components: owner-priced changes other than the links' (`owner_final_total` in
`StayChanges`), loyalty plans of refunds as amounts, house rules; the cancellation of a booking that
never reached Hostaway; refunds of receipts taken outside HyperPay and of foreign currencies
(amounts are in SAR); how many percent a cancellation returns; `verify_window`'s reading of Hostaway
and `reconcile_mornings`' limit; message events of the inbox and the merge of the payment status
there; referrals, campaigns, the pilot's scope and price changes of bookings with points; lifecycle
notices, and outboxes that are switched off; browsing a city, display currencies, the owner's final
price of a draft and the payment request after it.

Abstractions a reader should know. Hostaway and HyperPay are modelled from how the code uses them:
Hostaway refuses a stay on taken dates and applies a PUT or not; HyperPay's decision about a
checkout is final. `WebhookInbox` has one reservation, whose answers are all dated or none, and
takes the PUT and GET of the website's change as one step. `Loyalty` takes
`create_hostaway_reservation` of a paid booking as one step (its inside is `DirectBooking`), a
modified booking as a confirmed one, and `_safe_reconcile`'s three transactions as steps that happen
at any time or never. `Notices` has the ledger of one member, no delays, Celery's three retries as a
choice, and a 4xx answer as a message not taken. `Quotes` has one stay at one property
(`BOOKING_PRICE_TOLERANCE` is 0, the caches are read by no path that writes) and expires quotes in
one step.

Components without a module: the access token, phone sign-in (each step one locked transaction), the
pages, content imports, documents and campaigns. `PROJECT.json`, "components", gives the status and
the reason for each.

The models assume PostgreSQL's row locks and unique indexes work as documented, that a transaction
is atomic, and that deployments run one version of the code at a time.
