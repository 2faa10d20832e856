--------------------------- MODULE MorningStays ---------------------------
(***************************************************************************)
(* Morning stays of one apartment: a slot between midnight and noon that   *)
(* the operations team offers, the guest pays through a signed link, and   *)
(* no nightly booking knows of.  A stay, its payment attempts, its edit,   *)
(* its payment notices, the nightly bookings beside it, and HyperPay.      *)
(* Every step that allocates the apartment holds the property's row lock   *)
(* and is one action.  The reading of an attempt's result is one action    *)
(* too: an answer that was true once may be written at any later time, so  *)
(* "pending" is always a possible answer.                                  *)
(*                                                                         *)
(* Hours count from one midnight on, and a nightly booking names its days. *)
(* The status "expired" that the source names is never written by it and   *)
(* is left out.                                                            *)
(***************************************************************************)
EXTENDS Integers, FiniteSets

CONSTANTS Stays, NoStay, MaxTries, Windows, Nights, Requests, NoRequest,
          CheckIn, CheckOut

ASSUME MorningAssumption ==
    /\ MaxTries \in Nat \ {0}
    /\ Windows \subseteq [from : Int, to : Int]
    /\ Nights \subseteq [arrive : Int, leave : Int]
    /\ CheckIn \in Int /\ CheckOut \in Int

VARIABLES
    stay,      \* MorningStay rows: status, window, the lease, end, money seen
    try,       \* MorningPaymentAttempt rows
    outcome,   \* what HyperPay decided about each checkout
    edit,      \* the new slot of an edit between verify_window and its save
    night,     \* a nightly booking next to the morning
    notice,    \* MorningPaymentLinkDelivery rows, by the form's request id
    crossed    \* history: stays whose edit was saved over a night claimed meanwhile

vars == <<stay, try, outcome, edit, night, notice, crossed>>

Tries == 1..MaxTries
StayStatus == {"none", "open", "processing", "paid", "review", "cancelled"}
UNRESOLVED == {"created", "pending", "unknown", "review"}
TryStatus == {"none", "succeeded", "failed"} \cup UNRESOLVED

NoWindow == [from |-> 0, to |-> 0]
NoNotice == [state |-> "none", stay |-> NoStay, window |-> NoWindow, renewal |-> NoRequest]

Turnover == 3

\* Two slots of one morning that leave no three hours between them.
Clash(w, v) == w.from < v.to + Turnover /\ v.from < w.to + Turnover

\* When a nightly booking holds the apartment, by the property's own hours and
\* by the hours local_inflight_conflict assumes.
Hours(k) == [from |-> 24 * k.arrive + CheckIn, to |-> 24 * k.leave + CheckOut]
AssumedHours(k) == [from |-> 24 * k.arrive + 15, to |-> 24 * k.leave + 12]

\* A slot that leaves a night no time: the turnover lies before the night only.
Meets(w, hours) == w.from < hours.to /\ hours.from < w.to + Turnover

Unresolved(s) == \E n \in Tries : try[s][n].status \in UNRESOLVED
Live(s, n) == try[s][n].status \in UNRESOLVED \cup {"succeeded"}

\* active_stays: what keeps a slot from being given away.
Active(s) ==
    /\ stay[s].status # "none"
    /\ \/ stay[s].status \in {"paid", "processing", "review"}
       \/ stay[s].status = "open" /\ stay[s].leased
       \/ Unresolved(s)

Taken(w, exclude) == \E t \in Stays \ exclude : Active(t) /\ Clash(stay[t].window, w)

\* overnight_conflicts, asked by the nightly bookings.
MorningTaken(k) == \E t \in Stays : Active(t) /\ Meets(stay[t].window, Hours(k))

\* local_inflight_conflict, asked by the morning stays.
InFlight(w) == \E k \in Nights : night[k] # "free" /\ Meets(w, AssumedHours(k))

---------------------------------------------------------------------------
StayRow == [status : StayStatus, window : Windows \cup {NoWindow}, leased : BOOLEAN,
            ended : BOOLEAN, paid : BOOLEAN, renewal : Requests \cup {NoRequest}]
NoticeRow == [state : {"none", "queued", "closed", "expired"}, stay : Stays \cup {NoStay},
              window : Windows \cup {NoWindow}, renewal : Requests \cup {NoRequest}]

MorningTypeOK ==
    /\ stay \in [Stays -> StayRow]
    /\ try \in [Stays -> [Tries -> [status : TryStatus, checkout : BOOLEAN]]]
    /\ outcome \in [Stays -> [Tries -> {"open", "charged", "declined"}]]
    /\ edit \in [Stays -> Windows \cup {NoWindow}]
    /\ night \in [Nights -> {"free", "held"}]
    /\ notice \in [Requests -> NoticeRow]
    /\ crossed \subseteq Stays
    /\ \A s \in Stays : stay[s].status # "none" => stay[s].window \in Windows

Init ==
    /\ stay = [s \in Stays |-> [status |-> "none", window |-> NoWindow, leased |-> FALSE,
                                ended |-> FALSE, paid |-> FALSE, renewal |-> NoRequest]]
    /\ try = [s \in Stays |-> [n \in Tries |-> [status |-> "none", checkout |-> FALSE]]]
    /\ outcome = [s \in Stays |-> [n \in Tries |-> "open"]]
    /\ edit = [s \in Stays |-> NoWindow]
    /\ night = [k \in Nights |-> "free"]
    /\ notice = [r \in Requests |-> NoNotice]
    /\ crossed = {}

\* A save moves updated_at on: an edit begun before it will be refused, which
\* ends it here already.
Saved(s) == edit' = [edit EXCEPT ![s] = NoWindow]

---------------------------------------------------------------------------
(* The operations team.                                                    *)

\* create_stay: the five-minute hold is the only thing that keeps the slot.
Create(s, w) ==
    /\ stay[s].status = "none"
    /\ ~Taken(w, {}) /\ ~InFlight(w)
    /\ stay' = [stay EXCEPT ![s].status = "open", ![s].window = w, ![s].leased = TRUE]
    /\ UNCHANGED <<try, outcome, edit, night, notice, crossed>>

\* change_paid_stay asks verify_window about the new slot before it takes the
\* lock.  An edit that keeps the slot writes nothing that is modelled, and one
\* begun in another status is refused: only a save leads back to these.
VerifyEdit(s, w) ==
    /\ edit[s] = NoWindow
    /\ stay[s].status \in {"paid", "open"} /\ ~stay[s].ended
    /\ w # stay[s].window /\ ~InFlight(w)
    /\ edit' = [edit EXCEPT ![s] = w]
    /\ UNCHANGED <<stay, try, outcome, night, notice, crossed>>

EditAllowed(s) ==
    /\ stay[s].status \in {"paid", "open"} /\ ~stay[s].ended
    /\ ~Unresolved(s)
    /\ ~Taken(edit[s], {s})

\* A saved edit, and whether a night has been claimed since it was verified.
Save(s, allowed) ==
    /\ edit[s] # NoWindow
    /\ stay' = IF allowed THEN [stay EXCEPT ![s].window = edit[s]] ELSE stay
    /\ crossed' = IF allowed /\ InFlight(edit[s]) THEN crossed \cup {s} ELSE crossed
    /\ Saved(s)
    /\ UNCHANGED <<try, outcome, night, notice>>

\* change_paid_stay without its second look at the other stays (mutant).
SaveEditUnchecked(s) ==
    Save(s, stay[s].status \in {"paid", "open"} /\ ~stay[s].ended /\ ~Unresolved(s))

SaveEdit(s) == Save(s, EditAllowed(s))

Cancel(s) ==
    /\ stay[s].status \in {"open", "paid"}
    /\ ~Unresolved(s)
    /\ stay' = [stay EXCEPT ![s].status = "cancelled"]
    /\ Saved(s)
    /\ UNCHANGED <<try, outcome, night, notice, crossed>>

Unpaid(s) ==
    /\ stay[s].status = "open" /\ ~stay[s].paid
    /\ \A n \in Tries : ~Live(s, n)

\* resend: a new hold, and a notice of what is offered now.
Resend(s, r) ==
    /\ notice[r].state = "none"
    /\ Unpaid(s)
    /\ ~InFlight(stay[s].window) /\ ~Taken(stay[s].window, {s})
    /\ stay' = [stay EXCEPT ![s].leased = ~stay[s].ended, ![s].renewal = r]
    /\ notice' = [notice EXCEPT ![r] = [state |-> "queued", stay |-> s,
                                        window |-> stay[s].window, renewal |-> r]]
    /\ Saved(s)
    /\ UNCHANGED <<try, outcome, night, crossed>>

\* send_link under its locks: what the notice says must still be the offer.
Offered(r) ==
    LET s == notice[r].stay IN
    /\ Unpaid(s)
    /\ notice[r].window = stay[s].window /\ notice[r].renewal = stay[s].renewal
    /\ ~InFlight(stay[s].window) /\ ~Taken(stay[s].window, {s})

\* Once it is "sending" a notice is never sent again, whatever the WhatsApp
\* service answers; "closed" stands for that and for every state after it.
SendLink(r) ==
    /\ notice[r].state = "queued"
    /\ notice' = [notice EXCEPT ![r] = [NoNotice EXCEPT !.state = IF Offered(r) THEN "closed"
                                                                ELSE "expired"]]
    /\ UNCHANGED <<stay, try, outcome, edit, night, crossed>>

---------------------------------------------------------------------------
(* The guest and HyperPay.                                                 *)

\* The attempts with another status in one row.
Written(s, n, status) == [try EXCEPT ![s][n].status = status]

\* create_checkout up to its commit: the attempt exists before HyperPay is
\* asked for a checkout.
Claim(s, n) ==
    /\ stay[s].status \in {"open", "processing"} /\ ~stay[s].paid
    /\ ~InFlight(stay[s].window) /\ ~Taken(stay[s].window, {s})
    /\ \A m \in Tries : ~Live(s, m)
    /\ try[s][n].status = "none" /\ \A m \in 1..(n - 1) : try[s][m].status # "none"
    /\ try' = Written(s, n, "created")
    /\ stay' = [stay EXCEPT ![s].status = "processing"]
    /\ Saved(s)
    /\ UNCHANGED <<outcome, night, notice, crossed>>

\* The answer to the POST.  One that never comes back leaves an attempt whose
\* checkout nobody knows; a process that dies leaves it "created".
OpenCheckout(s, n) ==
    /\ try[s][n].status = "created"
    /\ try' = [try EXCEPT ![s][n] = [status |-> "pending", checkout |-> TRUE]]
    /\ UNCHANGED <<stay, outcome, edit, night, notice, crossed>>

\* The attempt's status written to the stay too (mutant).
LoseCheckoutBoth(s, n) ==
    /\ try[s][n].status = "created"
    /\ try' = Written(s, n, "unknown")
    /\ stay' = [stay EXCEPT ![s].status = "unknown"]
    /\ UNCHANGED <<outcome, edit, night, notice, crossed>>

LoseCheckout(s, n) ==
    /\ try[s][n].status = "created"
    /\ try' = Written(s, n, "unknown")
    /\ stay' = [stay EXCEPT ![s].status = "review"]
    /\ UNCHANGED <<outcome, edit, night, notice, crossed>>

\* The guest in HyperPay's widget; what it decides is final.
Decide(s, n) ==
    /\ try[s][n].checkout /\ outcome[s][n] = "open"
    /\ \E decided \in {"charged", "declined"} : outcome' = [outcome EXCEPT ![s][n] = decided]
    /\ UNCHANGED <<stay, try, edit, night, notice, crossed>>

\* An answer that cannot be read taken for a refusal (mutant).
AnswersHasty(s, n) ==
    {"pending", "review", "failed"} \cup
    (IF outcome[s][n] = "charged" THEN {"succeeded"} ELSE {})

\* The status an answer is written as; the database allows one attempt per
\* stay that is unresolved or succeeded, and rolls the reading back otherwise.
Answers(s, n) ==
    {"pending", "unknown", "review"} \cup
    {CASE outcome[s][n] = "charged" -> "succeeded"
       [] outcome[s][n] = "declined" -> "failed"
       [] OTHER -> "pending"}

Admitted(s, n, answer) ==
    answer # "failed" => \A m \in Tries \ {n} : ~Live(s, m)

\* The stay after an answer, with a payment that always admits (mutant).
AdmitAlways(s, answer) ==
    CASE answer = "succeeded" -> [stay[s] EXCEPT !.paid = TRUE, !.status = "paid"]
      [] answer \in {"review", "unknown"} -> [stay[s] EXCEPT !.status = "review"]
      [] answer = "failed" -> [stay[s] EXCEPT !.status = "open"]
      [] OTHER -> stay[s]

StayAfter(s, answer) ==
    CASE answer = "succeeded" ->
            [stay[s] EXCEPT !.paid = TRUE,
                            !.status = IF stay[s].status = "processing" /\ ~stay[s].ended
                                       THEN "paid" ELSE "review"]
      [] answer \in {"review", "unknown"} -> [stay[s] EXCEPT !.status = "review"]
      [] answer = "failed" -> [stay[s] EXCEPT !.status = "open"]
      [] OTHER -> stay[s]

\* verify_payment: by reconcile_mornings, the operator, or the guest's return
\* page, which reads any attempt of the stay, an old one too.
Verify(s, n, answer) ==
    /\ try[s][n].checkout /\ try[s][n].status # "succeeded"
    /\ answer \in Answers(s, n) /\ Admitted(s, n, answer)
    /\ try' = Written(s, n, answer)
    /\ stay' = [stay EXCEPT ![s] = StayAfter(s, answer)]
    /\ Saved(s)
    /\ UNCHANGED <<outcome, night, notice, crossed>>

---------------------------------------------------------------------------
(* Time, and the nightly bookings beside the morning.                      *)

LeaseEnds(s) ==
    /\ stay[s].status # "none" /\ stay[s].leased
    /\ stay' = [stay EXCEPT ![s].leased = FALSE]
    /\ UNCHANGED <<try, outcome, edit, night, notice, crossed>>

StayEnds(s) ==
    /\ stay[s].status # "none" /\ ~stay[s].ended
    /\ stay' = [stay EXCEPT ![s].ended = TRUE, ![s].leased = FALSE]
    /\ UNCHANGED <<try, outcome, edit, night, notice, crossed>>

\* A nightly checkout is claimed under the property's lock.  Its attempt goes
\* on blocking the morning unless it fails.
NightClaim(k) ==
    /\ night[k] = "free" /\ ~MorningTaken(k)
    /\ night' = [night EXCEPT ![k] = "held"]
    /\ UNCHANGED <<stay, try, outcome, edit, notice, crossed>>

NightFails(k) ==
    /\ night[k] = "held"
    /\ night' = [night EXCEPT ![k] = "free"]
    /\ UNCHANGED <<stay, try, outcome, edit, notice, crossed>>

---------------------------------------------------------------------------
Next ==
    \/ \E s \in Stays : \/ SaveEdit(s) \/ Cancel(s) \/ LeaseEnds(s) \/ StayEnds(s)
                        \/ \E w \in Windows : Create(s, w) \/ VerifyEdit(s, w)
                        \/ \E r \in Requests : Resend(s, r)
    \/ \E s \in Stays, n \in Tries : \/ Claim(s, n) \/ OpenCheckout(s, n) \/ LoseCheckout(s, n)
                                     \/ Decide(s, n)
                                     \/ \E answer \in TryStatus : Verify(s, n, answer)
    \/ \E r \in Requests : SendLink(r)
    \/ \E k \in Nights : NightClaim(k) \/ NightFails(k)

Spec == Init /\ [][Next]_vars

---------------------------------------------------------------------------
(* Properties.                                                             *)

\* A guest holds the apartment who is at HyperPay with the slot promised, or whose
\* money was seen and whose stay was not cancelled.
Holds(s) == stay[s].status # "cancelled" /\ (stay[s].paid \/ stay[s].status = "processing")

MorningsApart(S) ==
    \A s, t \in S :
        s # t /\ Holds(s) /\ Holds(t) => ~Clash(stay[s].window, stay[t].window)

\* The nights and the mornings measure a night by different hours: a slot and
\* a night are at odds when they meet by both.
NightsApart(S) ==
    \A s \in S, k \in Nights :
        Holds(s) /\ night[k] = "held" =>
           ~(Meets(stay[s].window, Hours(k)) /\ Meets(stay[s].window, AssumedHours(k)))

\* What docs/morning-stays.md promises of two mornings: a paid allocation never
\* becomes available.  The code breaks it: verify_payment opens a paid stay when
\* an older attempt's refusal is read again, and active_stays forgets it.
NoDoubleMorning == MorningsApart(Stays)

\* What it promises of a morning and a night: the property's row lock
\* serializes their allocations.  The code breaks it: change_paid_stay asks
\* verify_window about the nights before it takes the lock, and not again.
NoMorningInANight == NightsApart(Stays)

Reopened == {s \in Stays : stay[s].paid /\ stay[s].status = "open"}

\* Apart from these two ways nothing lets guests meet: the hold lapses after
\* five minutes and the link does not, so the allocation rests on what
\* create_checkout, change_paid_stay and the nightly claim ask under the
\* property's lock.  Two holders never meet unless one is open though its money
\* was seen; a holder and a night never do unless the holder is, or its edit
\* was saved over a night claimed after verify_window had answered.
ApartUnlessSlipped ==
    /\ MorningsApart(Stays \ Reopened)
    /\ NightsApart(Stays \ (Reopened \cup crossed))

\* A stay is charged once, whatever is read late and however often the link is
\* visited: a second checkout opens only after HyperPay declined the first.
ChargedOnce ==
    \A s \in Stays : \A n, m \in Tries :
        outcome[s][n] = "charged" /\ outcome[s][m] = "charged" => n = m

\* Who is admitted has paid, and verify_payment admits nobody whose stay had
\* left "processing" or was over when the money was seen.
AdmittedHasPaid ==
    [][\A s \in Stays :
          stay'[s].status = "paid" /\ stay[s].status # "paid" =>
             /\ stay'[s].paid /\ stay[s].status = "processing" /\ ~stay[s].ended
             /\ \E n \in Tries : outcome[s][n] = "charged" /\ try'[s][n].status = "succeeded"]_vars

===========================================================================
