\* Three obligations of one payment, two requests at once.
SPECIFICATION Spec
CONSTANTS
    Refunds = {r1, r2, r3}
    Workers = {w1, w2}
    Charged = 2
    NoRefund = NoRefund
SYMMETRY Symmetry
CONSTRAINT Scope
INVARIANTS TypeOK UncertainIsNotResent RefundsFitUnlessOverwritten
