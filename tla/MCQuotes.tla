------------------------------ MODULE MCQuotes -------------------------------
(***************************************************************************)
(* A small instance of Quotes for TLC, and next to it the calendar rules,  *)
(* which are compared with a definition of what a stay needs on every      *)
(* calendar of a few days: each calendar is a state of its own.            *)
(***************************************************************************)
EXTENDS Quotes, TLC

VARIABLE calendar

Plain == [closedOnArrival |-> FALSE, closedOnDeparture |-> FALSE, min |-> None, max |-> None,
          sell |-> None, count |-> None, desired |-> None, reserved |-> FALSE, open |-> TRUE]

\* Days with every combination of rules, and one that is taken.
RuledDays ==
    [closedOnArrival : BOOLEAN, closedOnDeparture : BOOLEAN, min : {None, 2}, max : {None, 1},
     sell : {None}, count : {None}, desired : {None}, reserved : {FALSE}, open : {TRUE}]
    \cup {[Plain EXCEPT !.open = FALSE]}

\* Days with every combination of what Hostaway may say about the units.
StockedDays ==
    [closedOnArrival : {FALSE}, closedOnDeparture : {FALSE}, min : {None}, max : {None},
     sell : {None, 0, 1}, count : {None, 0, 1}, desired : {None, 0, 1},
     reserved : BOOLEAN, open : BOOLEAN \cup {None}]

\* Three days, any of which may be missing; and two of which the first has units.
Calendars ==
    (UNION {[D -> RuledDays] : D \in (SUBSET (1 .. 3)) \ {{}}})
    \cup {<<day, Plain>> : day \in StockedDays}

MCInit == QuotesInit /\ calendar = None

MCNext ==
    /\ calendar = None
    /\ \/ QuotesNext /\ UNCHANGED calendar
       \/ /\ quote[1].status = "none" /\ (\A w \in Requests : step[w] = "idle")
          /\ offer.open /\ offer.price = 1
          /\ calendar' \in Calendars /\ UNCHANGED quotesVars

MCSpec == MCInit /\ [][MCNext]_<<calendar, quotesVars>>

QuotesSymmetry == Permutations(Requests) \cup Permutations(Keys)

-----------------------------------------------------------------------------
\* A night is for sale: what is known of it agrees, and speaks of units if it has any.
ForSale(day) ==
    /\ \A v \in {day.sell, day.count, day.desired} \ {None} : v > 0
    /\ day.open # FALSE
    /\ \/ \E v \in {day.sell, day.count, day.desired} : v # None
       \/ ~day.reserved /\ day.open = TRUE

\* What a stay from the day first, a year at most, needs of the nights from checkIn on.
MayStay(days, first, checkIn, checkOut) ==
    /\ checkIn < checkOut /\ checkOut - first <= 366
    /\ \A n \in checkIn .. checkOut : n \in DOMAIN days
    /\ \A n \in checkIn .. checkOut - 1 : ForSale(days[n])
    /\ first = checkIn => ~days[checkIn].closedOnArrival
    /\ ~days[checkOut].closedOnDeparture
    /\ days[checkIn].min = None \/ checkOut - first >= days[checkIn].min
    /\ days[checkIn].max = None \/ checkOut - first <= days[checkIn].max

\* evaluate_calendar and find_first_available: a stay, or an extension, is available exactly
\* when every night is known and for sale and no rule of its arrival, departure or length
\* forbids it; and the arrival found is the first that fits.
CalendarAgrees ==
    calendar # None =>
        /\ \A i, o \in 1 .. 3, e \in {None, 0, 1} :
             (e # None => e < i) =>
               (EvaluateCalendar(calendar, i, o, e) = "available"
                  <=> MayStay(calendar, IF e = None THEN i ELSE e, i, o))
        /\ LET found == FirstAvailable(calendar, 1, 2, 1) IN
             /\ found # None => MayStay(calendar, found, found, found + 1)
             /\ \A i \in 1 .. 2 : MayStay(calendar, i, i, i + 1) => found # None /\ found <= i
=============================================================================
