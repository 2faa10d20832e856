---------------------------- MODULE CalendarRules ----------------------------
(***************************************************************************)
(* How the website reads Hostaway's calendar: whether the nights of a stay *)
(* are for sale and its arrival, departure and length are allowed.  Pure;  *)
(* dates are numbers, and what Hostaway did not say about a day is None.   *)
(***************************************************************************)
EXTENDS Integers, FiniteSets

CONSTANT None

\* Python's None is neither a truth value nor a date.
ASSUME NoneAssumption == None \notin BOOLEAN \cup Int

\* Whether a number of units that may be unknown is positive, as a set: unknown says nothing.
Says(units) == IF units = None THEN {} ELSE {units > 0}

\* What the units of a day say, the most specific number first.
UnitSignals(day) == <<Says(day.sell), Says(day.count), Says(day.desired)>>

Signals(day) ==
    (UNION {UnitSignals(day)[i] : i \in 1 .. 3})
        \cup (IF day.open = None THEN {} ELSE {day.open})

Conflict(day) == Cardinality(Signals(day)) > 1

MultiUnit(day) == day.reserved \/ \E i \in 1 .. 3 : UnitSignals(day)[i] # {}

\* resolve_day_inventory: a day of several units is for sale when its units say so, another
\* one when it is called available.
Sells(day) ==
    /\ ~Conflict(day)
    /\ IF MultiUnit(day) THEN \E i \in 1 .. 3 : UnitSignals(day)[i] = {TRUE}
       ELSE day.open = TRUE

\* (mutant) the night of the departure is asked for, the one of the arrival is not
NightsShifted(checkIn, checkOut) == checkIn + 1 .. checkOut

Nights(checkIn, checkOut) == checkIn .. checkOut - 1

\* evaluate_calendar: the first obstacle of a stay, or of the nights an extension adds to a
\* stay that began on the day existing.
EvaluateCalendar(days, checkIn, checkOut, existing) ==
    LET first == IF existing = None THEN checkIn ELSE existing
        stay == checkOut - first
        nights == Nights(checkIn, checkOut)
        arrival == days[checkIn]
    IN  IF checkOut <= checkIn \/ stay > 366 \/ (existing # None /\ first >= checkIn)
          THEN "invalid_dates"
        ELSE IF ~(nights \cup {checkIn, checkOut} \subseteq DOMAIN days)
          THEN "calendar_incomplete"
        ELSE IF existing = None /\ arrival.closedOnArrival THEN "closed_on_arrival"
        ELSE IF days[checkOut].closedOnDeparture THEN "closed_on_departure"
        ELSE IF arrival.min # None /\ stay < arrival.min THEN "minimum_stay_not_met"
        ELSE IF arrival.max # None /\ stay > arrival.max THEN "maximum_stay_exceeded"
        ELSE IF \E n \in nights : Conflict(days[n]) THEN "inventory_conflict"
        ELSE IF \E n \in nights : ~Sells(days[n]) THEN "unavailable_dates"
        ELSE "available"

\* find_first_available: the first arrival of a stay of so many nights within the window.
FirstAvailable(days, start, scan, nights) ==
    LET fit == {d \in start .. start + scan - nights :
                    EvaluateCalendar(days, d, d + nights, None) = "available"}
    IN IF fit = {} THEN None ELSE CHOOSE d \in fit : \A e \in fit : d <= e
=============================================================================
