------------------------------- MODULE MCHeap -------------------------------
(* A pool small enough to be filled and cut up in every way. *)
EXTENDS Heap
=============================================================================
