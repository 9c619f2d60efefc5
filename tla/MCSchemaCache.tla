---------------------------- MODULE MCSchemaCache ----------------------------
(* Model-checking instances of SchemaCache. *)
EXTENDS SchemaCache
=============================================================================
