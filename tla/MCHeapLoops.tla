---------------------------- MODULE MCHeapLoops ----------------------------
(***************************************************************************)
(* The loops of heap.c on a pool of a few blocks.                          *)
(***************************************************************************)
EXTENDS HeapLoops

MCBlockSize == 4
MCWord == 32
MCHeapAddr == 8

\* One block, two, three, and more than the pool has.
MCSizes == {3, 5, 12, 27}
=============================================================================
