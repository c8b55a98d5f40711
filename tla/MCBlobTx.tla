------------------------------ MODULE MCBlobTx ------------------------------
(***************************************************************************)
(* BlobTx for TLC: readers are interchangeable.                            *)
(***************************************************************************)
EXTENDS BlobTx, TLC

Symmetry == Permutations(Reader)
=============================================================================
