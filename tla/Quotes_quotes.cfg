\* Two requests at once, two forms, one draft, two prices and two quotes.
CONSTANTS
    None = None
    Requests = {w1, w2}
    Keys = {k1, k2}
    Drafts = {d1}
    MaxPrice = 2
    MaxQuotes = 2
SPECIFICATION MCSpec
SYMMETRY QuotesSymmetry
INVARIANTS QuotesTypeOK CalendarAgrees DraftBooksOnce
PROPERTIES BookedAsOffered
\* Out of quotes, a draft may have nothing left to do; a calendar is looked at and left.
CHECK_DEADLOCK FALSE
