\* Two workers and one payment; webhooks on.
SPECIFICATION Spec
CONSTANTS
    Intents = {i1}
    Attempts = {a1}
    Workers = {w1, w2}
    WebhooksEnabled = TRUE
    None = None
SYMMETRY Symmetry
INVARIANTS
    TypeOK ConfirmedIsReal PaidIsAccounted
PROPERTIES
    VerifiedIsFinal ImplementsCreateOnce
