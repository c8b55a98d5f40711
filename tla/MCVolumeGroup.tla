--------------------------- MODULE MCVolumeGroup ---------------------------
(* VolumeGroup for TLC. *)
EXTENDS VolumeGroup, TLC

CONSTANTS r1, r2, r3

MCReplicas == {r1, r2, r3}
Symmetry == Permutations(MCReplicas)

=============================================================================
