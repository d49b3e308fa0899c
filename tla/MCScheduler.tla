---------------------------- MODULE MCScheduler ----------------------------
(***************************************************************************)
(* Scheduler on small instances: see the cfgs.                             *)
(***************************************************************************)
EXTENDS Scheduler, TLC

Symmetry == Permutations(Ids)

=============================================================================
