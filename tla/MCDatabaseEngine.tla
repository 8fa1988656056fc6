-------------------------- MODULE MCDatabaseEngine --------------------------
(* Model-checking instances of DatabaseEngine.                              *)
EXTENDS DatabaseEngine
============================================================================
