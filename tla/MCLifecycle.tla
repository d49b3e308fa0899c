---------------------------- MODULE MCLifecycle ----------------------------
(***************************************************************************)
(* Lifecycle on a small instance.  No symmetry: liveness is checked.       *)
(***************************************************************************)
EXTENDS Lifecycle

=============================================================================
