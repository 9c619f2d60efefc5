---------------------------- MODULE MCTableColumns ----------------------------
(* Model-checking instance of TableColumns. *)
EXTENDS TableColumns, TLC

CONSTANTS id1, id2, id3, id4, title, doc, status

MCIds == {id1, id2, id3, id4}
MCNames == {title, doc, status}
MCSeed == {[id |-> id1, name |-> title], [id |-> id2, name |-> doc]}

Symmetry == Permutations(Editors) \cup Permutations({id3, id4})
=============================================================================
