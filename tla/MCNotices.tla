----------------------------- MODULE MCNotices -----------------------------
(* Instances of Notices for TLC: no symmetry, as a run checks liveness.    *)
EXTENDS Notices
=============================================================================
