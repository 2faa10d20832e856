-------------------------------- MODULE Sums --------------------------------
(***************************************************************************)
(* Sums of amounts over the rows of a table.  An amount is a natural       *)
(* number of units, and a sum is how many units there are: a definition    *)
(* that has no order and needs no recursion.                               *)
(***************************************************************************)
EXTENDS Naturals, FiniteSets

\* The units of the rows of S, each with the row it belongs to.
Units(f, S) == UNION {{r} \X (1 .. f[r]) : r \in S}

SumOver(f, S) == Cardinality(Units(f, S))
=============================================================================
