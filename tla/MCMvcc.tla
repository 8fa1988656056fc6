------------------------------- MODULE MCMvcc -------------------------------
(* Model-checking instances of Mvcc.                                        *)
EXTENDS Mvcc
============================================================================
