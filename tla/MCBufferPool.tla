---------------------------- MODULE MCBufferPool ----------------------------
(* Model-checking instance of BufferPool.  The files start empty, so the    *)
(* pages of user tables are interchangeable.                                *)
EXTENDS BufferPool

RegularSymmetry == Permutations(RegularPage)
============================================================================
