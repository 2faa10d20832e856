--------------------------- MODULE MCDirectBooking ---------------------------
(* Small instances of DirectBooking for TLC. *)
EXTENDS DirectBooking, TLC

\* Attempts and workers are interchangeable.
Symmetry == Permutations(Attempts) \cup Permutations(Workers)
=============================================================================
