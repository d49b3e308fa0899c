------------------------- MODULE SnapshotLifecycle -------------------------
(***************************************************************************)
(* What the snapshot store promises about one snapshot id, whatever        *)
(* handlers run at the same time and wherever the server crashes.          *)
(*                                                                         *)
(*   unborn     no row has been stored for the id                          *)
(*   available  the API lists it and its own subvolume is on disk          *)
(*   dangling   the API still lists it but its subvolume is gone           *)
(*   removed    the API no longer lists it and its subvolume is gone       *)
(*                                                                         *)
(* A listed id never gets its data back once lost, never shows the data of *)
(* another snapshot, and is unlisted only after its data is gone.          *)
(***************************************************************************)
CONSTANT Ids
VARIABLE phase

Phases == {"unborn", "available", "dangling", "removed"}

Init == phase = [id \in Ids |-> "unborn"]

Move(id, from, to) == phase[id] = from /\ phase' = [phase EXCEPT ![id] = to]

Next ==
  \E id \in Ids :
    \/ Move(id, "unborn", "available")
    \/ Move(id, "available", "dangling")
    \/ Move(id, "dangling", "removed")

Spec == Init /\ [][Next]_phase

=============================================================================
