\* One stay with one attempt beside one night.
SPECIFICATION Spec
CONSTANTS
    Stays = {s1}
    NoStay = NoStay
    NoRequest = NoRequest
    MaxTries = 1
    Windows <- TwoMornings
    Nights <- NightBetween
    Requests = {r1}
    CheckIn = 15
    CheckOut = 12
INVARIANTS NoMorningInANight
SYMMETRY Symmetry
CHECK_DEADLOCK FALSE
