\* Two stays with up to three attempts, two slots, one night, one notice.
SPECIFICATION Spec
CONSTANTS
    Stays = {s1, s2}
    NoStay = NoStay
    NoRequest = NoRequest
    MaxTries = 2
    Windows <- TwoMornings
    Nights <- NightBetween
    Requests = {r1}
    CheckIn = 15
    CheckOut = 12
CONSTRAINT Scope
INVARIANTS MorningTypeOK ApartUnlessSlipped ChargedOnce
SYMMETRY Symmetry
PROPERTIES AdmittedHasPaid
\* Stays that are over or cancelled, with their attempts used up, are the end.
CHECK_DEADLOCK FALSE
