----------------------------- MODULE MCTableViews -----------------------------
(* Model-checking instances of TableViews. *)
EXTENDS TableViews, TLC

Symmetry == Permutations(Pages) \cup Permutations(Fields) \cup Permutations(Values)
=============================================================================
