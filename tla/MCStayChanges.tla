---------------------------- MODULE MCStayChanges ----------------------------
(* A small instance of StayChanges for TLC. *)
EXTENDS StayChanges, TLC
=============================================================================
