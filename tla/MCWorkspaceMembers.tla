------------------------- MODULE MCWorkspaceMembers -------------------------
(* Model-checking instances of WorkspaceMembers. *)
EXTENDS WorkspaceMembers, TLC

Symmetry == Permutations(Users \ {Founder}) \cup Permutations(Requests)
=============================================================================
