-------------------------------- MODULE MCHeap --------------------------------
(* Small heaps for TLC: every constant is given in the .cfg files. *)
EXTENDS Heap
================================================================================
