-------------------------- MODULE MCSnapshotStore --------------------------
(***************************************************************************)
(* SnapshotStore on small instances.  Handlers and ids are interchangeable *)
(* in the specification and its invariants.                                *)
(***************************************************************************)
EXTENDS SnapshotStore, TLC

Symmetry == Permutations(Handlers) \cup Permutations(Ids)

=============================================================================
