-------------------------- MODULE MCHyperPayRefunds --------------------------
(* Small instances of HyperPayRefunds for TLC. *)
EXTENDS HyperPayRefunds, TLC

\* Obligations and workers are interchangeable.
Symmetry == Permutations(Refunds) \cup Permutations(Workers)

\* Pages and late writes act while there are two obligations; the third is for the
\* submissions, answers and deaths of two requests beside an earlier refund.
Scope ==
    (\A r \in Refunds : row[r] # NoRow) =>
        ~ overwritten /\ \A w \in Workers : pc[w] # "form"
=============================================================================
