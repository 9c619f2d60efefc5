--------------------------- MODULE MCRlsSessions ---------------------------
(* Four sessions on two backends: two uploads can exhaust the pool. *)
EXTENDS RlsSessions
=============================================================================
