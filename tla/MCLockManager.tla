--------------------------- MODULE MCLockManager ---------------------------
(* Model-checking instance of LockManager: transactions and record          *)
(* identifiers are interchangeable.                                          *)
EXTENDS LockManager, TLC

Symmetry == Permutations(Xid) \cup Permutations(Rid)
============================================================================
