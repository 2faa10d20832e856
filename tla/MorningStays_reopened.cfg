\* Two stays with two attempts each, no nights: the slots of two guests.
SPECIFICATION Spec
CONSTANTS
    Stays = {s1, s2}
    NoStay = NoStay
    NoRequest = NoRequest
    MaxTries = 2
    Windows <- TwoMornings
    Nights = {}
    Requests = {r1}
    CheckIn = 15
    CheckOut = 12
INVARIANTS NoDoubleMorning
SYMMETRY Symmetry
CHECK_DEADLOCK FALSE
