------------------------------- MODULE Quotes --------------------------------
(***************************************************************************)
(* From an availability check to a booking intent, for one stay at one     *)
(* property: guests search, get a quote and submit their details, which    *)
(* asks Hostaway again; the owner (or the assistant Sama) prepares a draft *)
(* booking, rechecks it, completes it and has it made in Hostaway.         *)
(*                                                                         *)
(* What Hostaway holds is an offer: whether the stay is open, as           *)
(* CalendarRules decides from the calendar, and its price.  The calendar   *)
(* and the price are two calls, made one after the other.  Browsing a city *)
(* (which reads caches and writes nothing), a draft's final price, its     *)
(* guest and the currencies are left out.                                  *)
(***************************************************************************)
EXTENDS CalendarRules

CONSTANTS
    Requests,   \* web requests under way
    Keys,       \* idempotency keys: one for each form that was rendered
    Drafts,     \* the owner's draft bookings
    MaxPrice,   \* bound: prices are 1 .. MaxPrice
    MaxQuotes   \* bound: quotes ever made

\* The bounds are numbers, and None is neither a form's key nor a draft.
ASSUME QuotesAssumption ==
    MaxPrice \in Nat /\ MaxQuotes \in Nat /\ None \notin Keys \cup Drafts

VARIABLES
    offer,       \* what Hostaway holds for the stay: [open, price]
    quote,       \* BookingQuote: its status; the price of an active one, and whether it is
                 \* past expires_at; and whether it is the owner's
    intent,      \* the key of the intent that consumed a quote
    draft,       \* ManualBookingDraft: status, quote, sama_confirmation_started_at
    posts,       \* reservations asked of Hostaway for a draft
    stays,       \* ... and made there
    step, purpose, subject, key,  \* what a request does next, what for, to what, with what key
    readPrice,                    \* the price of an available stay; 0 for none
    opened, prices                \* what Hostaway held since a binding request began

hostVars == <<offer, posts, stays>>
rowVars == <<quote, intent, draft>>
requestVars == <<step, purpose, subject, key, readPrice, opened, prices>>
quotesVars == <<hostVars, rowVars, requestVars>>

QuoteIds == 1 .. MaxQuotes
Offers == [open : BOOLEAN, price : 1 .. MaxPrice]
QuoteStatus == {"none", "active", "expired", "consumed", "invalidated", "price_changed",
                "unavailable"}
DraftStatus == {"none", "quoted", "ready", "booked", "expired"}
Purposes == {"none", "search", "details", "draft", "recheck", "create"}
Steps == {"idle", "create", "calendar", "price", "write", "consume", "book"}

QuotesInit ==
    /\ offer \in Offers
    /\ quote = [q \in QuoteIds |-> [status |-> "none", price |-> 0, late |-> FALSE,
                                    owners |-> FALSE]]
    /\ intent = [q \in QuoteIds |-> None]
    /\ draft = [d \in Drafts |-> [status |-> "none", quote |-> 0, started |-> FALSE]]
    /\ posts = [d \in Drafts |-> 0]
    /\ stays = [d \in Drafts |-> 0]
    /\ step = [w \in Requests |-> "idle"]
    /\ purpose = [w \in Requests |-> "none"]
    /\ subject = [w \in Requests |-> None]
    /\ key = [w \in Requests |-> None]
    /\ readPrice = [w \in Requests |-> 0]
    /\ opened = [w \in Requests |-> FALSE]
    /\ prices = [w \in Requests |-> {}]

-----------------------------------------------------------------------------
(* Around the requests.                                                    *)

\* Requests that end in a booking.
Binding == {w \in Requests : purpose[w] \in {"details", "create"} /\ step[w] # "create"}

\* The host changes the calendar or the price, or somebody books the nights.
HostMoves(o) ==
    /\ o # offer
    /\ offer' = o
    /\ opened' = [w \in Requests |-> opened[w] \/ (w \in Binding /\ o.open)]
    /\ prices' = [w \in Requests |-> prices[w] \cup (IF w \in Binding THEN {o.price} ELSE {})]
    /\ UNCHANGED <<posts, stays, rowVars, step, purpose, subject, key, readPrice>>

\* A quote that is not active any more: its price and age matter no longer.
Over(q, s) == [status |-> s, price |-> 0, late |-> FALSE, owners |-> quote[q].owners]

QuoteBecomes(q, s) == quote' = [quote EXCEPT ![q] = Over(q, s)]

\* Ten minutes pass.
QuoteGetsOld(q) ==
    /\ quote[q].status = "active" /\ ~quote[q].late
    /\ quote' = [quote EXCEPT ![q].late = TRUE]
    /\ UNCHANGED <<intent, draft, hostVars, requestVars>>

\* expire_booking_objects, for quotes.
ExpireQuote(q) ==
    /\ quote[q].status = "active" /\ quote[q].late
    /\ QuoteBecomes(q, "expired")
    /\ UNCHANGED <<intent, draft, hostVars, requestVars>>

-----------------------------------------------------------------------------
(* AvailabilityService.check.                                              *)

\* A request goes to ask Hostaway, from now on.
Ask(w, p, s, k) ==
    /\ step' = [step EXCEPT ![w] = "calendar"]
    /\ purpose' = [purpose EXCEPT ![w] = p]
    /\ subject' = [subject EXCEPT ![w] = s]
    /\ key' = [key EXCEPT ![w] = k]
    /\ opened' = [opened EXCEPT ![w] = w \in Binding' /\ offer.open]
    /\ prices' = [prices EXCEPT ![w] = IF w \in Binding' THEN {offer.price} ELSE {}]
    /\ UNCHANGED readPrice

Ends(w) ==
    /\ step' = [step EXCEPT ![w] = "idle"]
    /\ purpose' = [purpose EXCEPT ![w] = "none"]
    /\ subject' = [subject EXCEPT ![w] = None]
    /\ key' = [key EXCEPT ![w] = None]
    /\ readPrice' = [readPrice EXCEPT ![w] = 0]
    /\ opened' = [opened EXCEPT ![w] = FALSE]
    /\ prices' = [prices EXCEPT ![w] = {}]

Goes(w, s) ==
    /\ step' = [step EXCEPT ![w] = s]
    /\ UNCHANGED <<purpose, subject, key, opened, prices>>

\* What a call may answer: every check that leads to a row goes past the caches, so it is what
\* Hostaway holds then.
Seen == {offer}

\* fetch_calendar and evaluate_calendar; a failed call or an obstacle ends the check.
ReadCalendar(w) ==
    /\ step[w] = "calendar"
    /\ \/ (\E o \in Seen : o.open) /\ Goes(w, "price")
       \/ Goes(w, "write")
    /\ UNCHANGED <<hostVars, rowVars, readPrice>>

\* _fetch_price
ReadPrice(w) ==
    /\ step[w] = "price"
    /\ \E p \in {0} \cup {o.price : o \in Seen} : readPrice' = [readPrice EXCEPT ![w] = p]
    /\ Goes(w, "write")
    /\ UNCHANGED <<hostVars, rowVars>>

Available(w) == readPrice[w] # 0

\* create_quote_for_property: the row a new quote gets.
Fresh(q) == quote[q].status = "none" /\ \A r \in 1 .. q - 1 : quote[r].status # "none"
NewQuote(w, owners) == [status |-> "active", price |-> readPrice[w], late |-> FALSE,
                        owners |-> owners]

-----------------------------------------------------------------------------
(* Guests.                                                                 *)

Search(w) ==
    /\ step[w] = "idle"
    /\ Ask(w, "search", None, None)
    /\ UNCHANGED <<hostVars, rowVars>>

\* Nothing is quoted: the page says why.
NoQuote(w) ==
    /\ step[w] = "write"
    /\ purpose[w] \in {"search", "draft", "recheck"} /\ ~Available(w)
    /\ Ends(w)
    /\ UNCHANGED <<hostVars, rowVars>>

SaveQuote(w) ==
    /\ step[w] = "write" /\ purpose[w] = "search" /\ Available(w)
    /\ \E q \in QuoteIds : Fresh(q) /\ quote' = [quote EXCEPT ![q] = NewQuote(w, FALSE)]
    /\ Ends(w)
    /\ UNCHANGED <<hostVars, intent, draft>>

\* GuestDetailsView: a quote that is too old is replaced, another one is asked about again.
Submit(w, q, k) ==
    /\ step[w] = "idle" /\ quote[q].status = "active" /\ ~quote[q].owners
    /\ IF quote[q].late
       THEN /\ QuoteBecomes(q, "expired")
            /\ Ask(w, "search", None, None)
       ELSE /\ Ask(w, "details", q, k)
            /\ UNCHANGED quote
    /\ UNCHANGED <<hostVars, intent, draft>>

Taken(k) == \E q \in QuoteIds : intent[q] = k

\* consume_revalidated_quote looks for the key before it locks the quote: the intent that
\* has it is shown, or refused.
LookForKey(w) ==
    /\ step[w] = "write" /\ purpose[w] = "details"
    /\ IF Taken(key[w]) THEN Ends(w) ELSE Goes(w, "consume") /\ UNCHANGED readPrice
    /\ UNCHANGED <<hostVars, rowVars>>

\* (mutant) the price is the one the guest was quoted
PriceHoldsAnyway(w, q) == TRUE

\* BOOKING_PRICE_TOLERANCE is nought.
PriceHolds(w, q) == readPrice[w] = quote[q].price

\* The locked part of consume_revalidated_quote.
Refuse(w, q) ==
    \/ quote[q].status # "active" /\ UNCHANGED quote
    \/ quote[q].status = "active" /\ quote[q].late /\ QuoteBecomes(q, "expired")
    \/ /\ quote[q].status = "active" /\ ~quote[q].late /\ ~Available(w)
       /\ QuoteBecomes(q, "unavailable")

Live(w, q) == quote[q].status = "active" /\ ~quote[q].late /\ Available(w)

Requote(w, q) ==
    /\ Live(w, q) /\ ~PriceHolds(w, q)
    /\ \E n \in QuoteIds :
         /\ Fresh(n)
         /\ quote' = [quote EXCEPT ![q] = Over(q, "price_changed"), ![n] = NewQuote(w, FALSE)]

\* The insert fails when the key is taken by now; nothing is written.
Book(w, q) ==
    /\ Live(w, q) /\ PriceHolds(w, q) /\ ~Taken(key[w])
    /\ QuoteBecomes(q, "consumed")
    /\ intent' = [intent EXCEPT ![q] = key[w]]

Consume(w) ==
    /\ step[w] = "consume"
    /\ LET q == subject[w] IN
         \/ (Refuse(w, q) \/ Requote(w, q)) /\ UNCHANGED intent
         \/ Book(w, q)
         \/ Live(w, q) /\ PriceHolds(w, q) /\ Taken(key[w]) /\ UNCHANGED <<quote, intent>>
    /\ Ends(w)
    /\ UNCHANGED <<hostVars, draft>>

-----------------------------------------------------------------------------
(* The owner's and Sama's drafts.                                          *)

\* A draft with a new quote.
Quoted(d, q) == [status |-> "quoted", quote |-> q, started |-> draft[d].started]

StartDraft(w, d) ==
    /\ step[w] = "idle" /\ draft[d].status = "none"
    /\ Ask(w, "draft", d, None)
    /\ UNCHANGED <<hostVars, rowVars>>

\* Sama's request_id is unique: a repeated request leads to the one draft.
SaveDraft(w) ==
    LET d == subject[w] IN
    /\ step[w] = "write" /\ purpose[w] = "draft" /\ Available(w)
    /\ IF draft[d].status = "none"
       THEN \E q \in QuoteIds :
              /\ Fresh(q)
              /\ quote' = [quote EXCEPT ![q] = NewQuote(w, TRUE)]
              /\ draft' = [draft EXCEPT ![d] = Quoted(d, q)]
       ELSE UNCHANGED <<quote, draft>>
    /\ Ends(w)
    /\ UNCHANGED <<hostVars, intent>>

Recheckable(d) == draft[d].status \notin {"none", "booked"}

StartRecheck(w, d) ==
    /\ step[w] = "idle" /\ Recheckable(d)
    /\ Ask(w, "recheck", d, None)
    /\ UNCHANGED <<hostVars, rowVars>>

\* recheck_manual_booking_draft, under the lock: the draft gets a new quote, whatever has
\* become of the old one.
SaveRecheck(w) ==
    LET d == subject[w] IN
    /\ step[w] = "write" /\ purpose[w] = "recheck" /\ Available(w)
    /\ IF Recheckable(d)
       THEN \E q \in QuoteIds :
              /\ Fresh(q)
              /\ quote' = [quote EXCEPT ![draft[d].quote] = Over(draft[d].quote, "invalidated"),
                                        ![q] = NewQuote(w, TRUE)]
              /\ draft' = [draft EXCEPT ![d] = Quoted(d, q)]
       ELSE UNCHANGED <<quote, draft>>
    /\ Ends(w)
    /\ UNCHANGED <<hostVars, intent>>

Usable(q) == quote[q].status = "active" /\ ~quote[q].late

\* (mutant) the status as the database spells it
FinalizedRaw(d) == IF Usable(draft[d].quote) THEN "ready_for_payment" ELSE "expired"

\* finalize_manual_booking_draft; Sama's confirmation does it too, writes that it began and
\* goes on to the booking.
Finalized(d) == IF Usable(draft[d].quote) THEN "ready" ELSE "expired"

Finalize(d) ==
    /\ draft[d].status = "quoted"
    /\ draft' = [draft EXCEPT ![d].status = Finalized(d)]
    /\ UNCHANGED <<hostVars, quote, intent, requestVars>>

SamaConfirms(w, d) ==
    /\ step[w] = "idle" /\ draft[d].status = "quoted" /\ ~draft[d].started
    /\ draft' = [draft EXCEPT ![d].status = Finalized(d),
                              ![d].started = Usable(draft[d].quote)]
    /\ IF Usable(draft[d].quote)
       THEN /\ step' = [step EXCEPT ![w] = "create"]
            /\ purpose' = [purpose EXCEPT ![w] = "create"]
            /\ subject' = [subject EXCEPT ![w] = d]
            /\ UNCHANGED <<key, readPrice, opened, prices>>
       ELSE UNCHANGED requestVars
    /\ UNCHANGED <<hostVars, quote, intent>>

\* (mutant) the key is the quote's, and a draft gets new quotes
KeyOfQuote(d) == <<d, draft[d].quote>>

\* _manual_intent_idempotency_key
KeyOf(d) == d

\* create_manual_booking_in_hostaway, its first transaction: without an intent for it, the
\* draft's quote is consumed by one.  When the key is taken the insert raises.
Create(w, d) ==
    /\ step[w] = "idle" \/ (step[w] = "create" /\ subject[w] = d)
    /\ IF draft[d].status = "ready" /\ Usable(draft[d].quote) /\ ~Taken(KeyOf(d))
       THEN /\ QuoteBecomes(draft[d].quote, "consumed")
            /\ intent' = [intent EXCEPT ![draft[d].quote] = KeyOf(d)]
            /\ Ask(w, "create", d, None)
            /\ UNCHANGED draft
       ELSE /\ draft' = IF draft[d].status = "ready" /\ ~Usable(draft[d].quote)
                        THEN [draft EXCEPT ![d].status = "expired"] ELSE draft
            /\ IF step[w] = "idle" THEN UNCHANGED requestVars ELSE Ends(w)
            /\ draft' # draft \/ step[w] # "idle"
            /\ UNCHANGED <<quote, intent>>
    /\ UNCHANGED <<hostVars>>

\* The availability is lost: nothing is sent.
NotPosted(w) ==
    /\ step[w] = "write" /\ purpose[w] = "create" /\ ~Available(w)
    /\ Ends(w)
    /\ UNCHANGED <<hostVars, rowVars>>

\* The reservation is asked of Hostaway, once (DirectBooking); the answer arrives or not.
Post(w, made, answered) ==
    LET d == subject[w] IN
    /\ step[w] = "write" /\ purpose[w] = "create" /\ Available(w)
    /\ posts' = [posts EXCEPT ![d] = @ + 1]
    /\ stays' = [stays EXCEPT ![d] = @ + IF made THEN 1 ELSE 0]
    /\ IF made /\ answered THEN Goes(w, "book") /\ UNCHANGED readPrice ELSE Ends(w)
    /\ UNCHANGED <<offer, rowVars>>

\* Its last transaction, whatever the draft has become.
MarkBooked(w) ==
    /\ step[w] = "book"
    /\ draft' = [draft EXCEPT ![subject[w]].status = "booked"]
    /\ Ends(w)
    /\ UNCHANGED <<hostVars, quote, intent>>

\* A process dies; what it committed stays.
Crash(w) ==
    /\ step[w] # "idle"
    /\ Ends(w)
    /\ UNCHANGED <<hostVars, rowVars>>

-----------------------------------------------------------------------------
RequestNext(w) ==
    \/ ReadCalendar(w) \/ ReadPrice(w) \/ Search(w) \/ NoQuote(w) \/ SaveQuote(w)
    \/ \E q \in QuoteIds, k \in Keys : Submit(w, q, k)
    \/ LookForKey(w) \/ Consume(w)
    \/ \E d \in Drafts :
         StartDraft(w, d) \/ StartRecheck(w, d) \/ SamaConfirms(w, d) \/ Create(w, d)
    \/ SaveDraft(w) \/ SaveRecheck(w) \/ NotPosted(w) \/ MarkBooked(w)
    \/ \E made, answered \in BOOLEAN : Post(w, made, answered)
    \/ Crash(w)

QuotesNext ==
    \/ \E o \in Offers : HostMoves(o)
    \/ \E q \in QuoteIds : QuoteGetsOld(q) \/ ExpireQuote(q)
    \/ \E d \in Drafts : Finalize(d)
    \/ \E w \in Requests : RequestNext(w)

QuotesSpec == QuotesInit /\ [][QuotesNext]_quotesVars

-----------------------------------------------------------------------------
QuotesTypeOK ==
    /\ offer \in Offers
    /\ quote \in [QuoteIds -> [status : QuoteStatus, price : 0 .. MaxPrice, late : BOOLEAN,
                               owners : BOOLEAN]]
    /\ draft \in [Drafts -> [status : DraftStatus, quote : 0 .. MaxQuotes, started : BOOLEAN]]
    /\ step \in [Requests -> Steps] /\ purpose \in [Requests -> Purposes]
    /\ readPrice \in [Requests -> 0 .. MaxPrice]
    /\ opened \in [Requests -> BOOLEAN] /\ prices \in [Requests -> SUBSET (1 .. MaxPrice)]

\* consume_revalidated_quote and _create_hostaway_reservation: while a guest's details, or
\* the owner's click, were dealt with, Hostaway had the stay open, and the guest's price was
\* Hostaway's; neither a cache nor the older quote decides ("The binding quote and payment
\* steps still revalidate independently", views.py).
BookedAsOffered ==
    [][/\ \A q \in QuoteIds : quote[q].status # "consumed" /\ quote'[q].status = "consumed"
                /\ ~quote[q].owners =>
            \E w \in Requests : subject[w] = q /\ opened[w] /\ quote[q].price \in prices[w]
       /\ \A d \in Drafts : posts'[d] # posts[d] =>
            \E w \in Requests : subject[w] = d /\ opened[w]]_quotesVars

\* create_manual_booking_in_hostaway: however often the draft is rechecked, completed and
\* clicked, by the owner and by Sama, and whatever answer is lost, one stay at most is asked
\* of Hostaway for it, and a draft that says booked has its stay there.
DraftBooksOnce ==
    \A d \in Drafts :
        /\ posts[d] <= 1
        /\ draft[d].status = "booked" => stays[d] = 1
=============================================================================
