\* A dearer change and a cancellation; two workers.
SPECIFICATION RefreshingSpec
CONSTANTS
    Increases = {up}
    Decreases = {}
    Cancels = {cancel}
    Workers = {w1, w2}
    None = None
INVARIANTS TypeOK AtMostOneWrite ReservationFollowsHostaway CompletedIsApplied OwedIsEarned
PROPERTIES CancellationIsSeen
\* A cancelled stay whose requests are all closed is the end.
CHECK_DEADLOCK FALSE
