\* What the payment's rule comes to when an owner's page writes late: violated.
SPECIFICATION Spec
CONSTANTS
    Refunds = {r1, r2, r3}
    Workers = {w1, w2}
    Charged = 2
    NoRefund = NoRefund
SYMMETRY Symmetry
INVARIANTS RefundsFitThePayment
