----------------------------- MODULE MCBlobStore -----------------------------
(* Model-checking instances of BlobStore. *)
EXTENDS BlobStore, TLC

Symmetry == Permutations(Writers)
=============================================================================
