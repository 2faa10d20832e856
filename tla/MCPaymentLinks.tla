---------------------------- MODULE MCPaymentLinks ----------------------------
(* Small instances of PaymentLinks for TLC. *)
EXTENDS PaymentLinks, TLC

\* Payments and workers are interchangeable.
Symmetry == Permutations(Payments) \cup Permutations(Clerks)
=============================================================================
