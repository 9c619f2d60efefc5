--------------------------- MODULE MCCredentials ---------------------------
(* Two overlapping requests, one account, a public and a confidential client. *)
EXTENDS Credentials, TLC

Symmetry == Permutations(Requests)
=============================================================================
