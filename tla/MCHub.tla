------------------------------- MODULE MCHub -------------------------------
(***************************************************************************)
(* Hub on a small instance.  No symmetry: liveness is checked.             *)
(***************************************************************************)
EXTENDS Hub

=============================================================================
