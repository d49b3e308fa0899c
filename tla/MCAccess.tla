------------------------------ MODULE MCAccess ------------------------------
(***************************************************************************)
(* Access on a small instance.                                             *)
(***************************************************************************)
EXTENDS Access, TLC

\* No expiry in two ways, and one day.
MCLifetimes == {-1, 0, 1}

Symmetry == Permutations(Handlers)

=============================================================================
