\* A link and a revision (or two of either), two payments, one price change, two workers.
SPECIFICATION LinksSpec
CONSTANTS
    Payments = {p1, p2}
    Clerks = {c1, c2}
    NoClerk = NoClerk
    DeadClerk = DeadClerk
    NoPayment = NoPayment
    MaxRequests = 2
    MaxChanges = 1
    Booked = 2
    Prices = {3}
SYMMETRY Symmetry
INVARIANTS LinksTypeOK LinksLeadToTheRevision PostedOnce
PROPERTIES CheckoutIsTheBalance PaidCoversTheStay ReceiptsImplemented
\* Requests, payments and changes are bounded: with all of them used up nothing is left to do.
CHECK_DEADLOCK FALSE
