------------------------- MODULE MCSnapshotPipeline -------------------------
(* Model values for SnapshotPipeline: mutations are interchangeable. *)
EXTENDS SnapshotPipeline, TLC

MutationSymmetry == Permutations(Mutations)
=============================================================================
