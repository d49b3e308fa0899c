------------------------------- MODULE Btrfs -------------------------------
(***************************************************************************)
(* The filesystem as internal/btrfs sees it through the btrfs command.     *)
(*                                                                         *)
(* A filesystem maps every path to the subvolume found there, or to None.  *)
(* A subvolume remembers what it was made for (origin), whether it is      *)
(* read-only, and the base names of the subvolumes nested inside it.       *)
(* Manager.CreateSnapshot and Manager.DeleteSnapshot turn one call into    *)
(* one command and every nonzero exit status into an error, so each of     *)
(* them is an operator that says when the command can succeed and one that *)
(* gives the filesystem it leaves.                                         *)
(***************************************************************************)
CONSTANT None

\* A subvolume freshly made by `btrfs subvolume snapshot`.  Nested subvolumes
\* are not part of a snapshot, so nothing is inside it.
NewSubvolume(origin, ro) == [origin |-> origin, ro |-> ro, inside |-> {}]

Exists(fs, path) == fs[path] # None

(***************************************************************************)
(* btrfs subvolume snapshot [-r] source dest.  When dest already exists    *)
(* the command does not fail: it makes the snapshot inside dest, under the *)
(* base name (leaf) of the source, unless dest is read-only or already     *)
(* holds that name.                                                        *)
(***************************************************************************)
CanSnapshot(fs, source, dest, leaf) ==
  /\ Exists(fs, source)
  /\ Exists(fs, dest) => ~fs[dest].ro /\ leaf \notin fs[dest].inside

AfterSnapshot(fs, dest, leaf, subvol) ==
  IF Exists(fs, dest)
  THEN [fs EXCEPT ![dest].inside = @ \cup {leaf}]
  ELSE [fs EXCEPT ![dest] = subvol]

\* btrfs subvolume delete path: refused while another subvolume is nested
\* inside the one at path.
CanDelete(fs, path) == Exists(fs, path) /\ fs[path].inside = {}

AfterDelete(fs, path) == [fs EXCEPT ![path] = None]

=============================================================================
