\* Two messages of one outbox and two workers that may run at once (celery runs two
\* processes), two attempts of an email, two owners' clicks for an
\* invoice, and one fault.
CONSTANTS
    Count = 2
    Workers = {w1, w2}
    MaxRetries = 2
    MaxClicks = 2
    MaxFaults = 1
SPECIFICATION NoticesSpec
INVARIANTS NoticesTypeOK NeverTwice
PROPERTIES NoticesInOrder QueuedIsTakenUp
\* Everything sent and settled is a real end.
CHECK_DEADLOCK FALSE
