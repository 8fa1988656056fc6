---------------------------- MODULE MCTableHeap ----------------------------
(* TableHeap for TLC; the bounds are in the .cfg files.                    *)
EXTENDS TableHeap
============================================================================
