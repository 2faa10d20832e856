CONSTANTS
    Events = {e1, e2}
    Changes = {c1}
    Workers = {w1, w2}
    None = None
    MaxAttempts = 2
    Limit = 1
    MaxVersion = 3
    Dated = TRUE
SPECIFICATION Spec
SYMMETRY InboxSymmetry
INVARIANTS
    InboxTypeOK
    OneWorkerPerEvent
    ProcessedIsApplied
PROPERTY NeverOlder
\* Events, versions and attempts are bounded: every event may end settled with nothing left to do.
CHECK_DEADLOCK FALSE
