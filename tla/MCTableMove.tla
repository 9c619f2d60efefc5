---------------------------- MODULE MCTableMove -----------------------------
(* Model-checking instance of TableMove. *)
EXTENDS TableMove
=============================================================================
