--------------------------- MODULE MCSnapshotStore ---------------------------
(* Model-checking instances of SnapshotStore; see the .cfg files.          *)
EXTENDS SnapshotStore, TLC

Symmetry == Permutations(Quads) \cup Permutations(Readers)
=============================================================================
