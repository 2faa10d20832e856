----------------------------- MODULE CreateOnce -----------------------------
(***************************************************************************)
(* What the booking flow promises about the one Hostaway create call of an *)
(* intent: it follows a verified payment, it is claimed before it is sent, *)
(* it is sent at most once, and the id of its stay, once written, stays.    *)
(***************************************************************************)
EXTENDS Naturals

CONSTANT Intents

VARIABLES
    phase,   \* how far the create of an intent has come
    posts    \* create calls sent for it

vars == <<phase, posts>>

Phase == {"unpaid", "verified", "claimed", "recorded"}

Init ==
    /\ phase = [i \in Intents |-> "unpaid"]
    /\ posts = [i \in Intents |-> 0]

Verify(i) ==
    /\ phase[i] = "unpaid"
    /\ phase' = [phase EXCEPT ![i] = "verified"]
    /\ UNCHANGED posts

Claim(i) ==
    /\ phase[i] = "verified"
    /\ phase' = [phase EXCEPT ![i] = "claimed"]
    /\ UNCHANGED posts

Post(i) ==
    /\ phase[i] = "claimed" /\ posts[i] = 0
    /\ posts' = [posts EXCEPT ![i] = 1]
    /\ UNCHANGED phase

Record(i) ==
    /\ phase[i] = "claimed" /\ posts[i] = 1
    /\ phase' = [phase EXCEPT ![i] = "recorded"]
    /\ UNCHANGED posts

Next == \E i \in Intents : Verify(i) \/ Claim(i) \/ Post(i) \/ Record(i)

Spec == Init /\ [][Next]_vars
=============================================================================
