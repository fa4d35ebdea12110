-------------------------- MODULE MCSnapshotPicker --------------------------
(* Instances of SnapshotPicker for TLC.                                    *)
EXTENDS SnapshotPicker, TLC

Symmetry == Permutations(Clients)
=============================================================================
