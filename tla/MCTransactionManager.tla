------------------------ MODULE MCTransactionManager ------------------------
(* Model-checking instance of TransactionManager.                           *)
EXTENDS TransactionManager
============================================================================
