--------------------------- MODULE MCReplication ---------------------------
(***************************************************************************)
(* Replication on small instances: see the cfgs for jobs and faults.       *)
(***************************************************************************)
EXTENDS Replication

=============================================================================
