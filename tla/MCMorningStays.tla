---------------------------- MODULE MCMorningStays ----------------------------
(* Small instances of MorningStays for TLC. *)
EXTENDS MorningStays, TLC

\* A slot of each of two mornings, and the night between these mornings: it
\* begins just three hours after the first slot and lies over the second.
TwoMornings == {[from |-> 9, to |-> 12], [from |-> 25, to |-> 28]}
NightBetween == {[arrive |-> 0, leave |-> 1]}

\* The stays are interchangeable.
Symmetry == Permutations(Stays)

Tried == {a \in Stays \X Tries : try[a[1]][a[2]].status # "none"}

\* No more than three payment attempts in all, the third only while no notice is
\* queued and no edit has crossed a night.  Two states are not followed further
\* because another stands for them: a reading that leaves an attempt for review
\* writes what an unknown one does, and nothing reads an expired notice again, nor
\* a closed one.
Scope ==
    /\ Cardinality(Tried) <= 3
    /\ Cardinality(Tried) = 3 => /\ \A r \in Requests : notice[r].state # "queued"
                                /\ crossed = {}
    /\ \A s \in Stays, n \in Tries : try[s][n].status # "review"
    /\ \A r \in Requests : notice[r].state # "expired"
=============================================================================
