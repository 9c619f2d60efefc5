----------------------------- MODULE MCTableRows -----------------------------
(* Rows of one table: interchangeable clients and columns.                   *)
EXTENDS TableRows, TLC

Symmetry == Permutations(Clients) \cup Permutations(Columns)
=============================================================================
