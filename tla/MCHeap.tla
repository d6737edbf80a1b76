------------------------------- MODULE MCHeap -------------------------------
(***************************************************************************)
(* The kernel heap on a pool of a few blocks.                              *)
(***************************************************************************)
EXTENDS Heap

\* Blocks of four bytes, words of 32 values: the rounding wraps above 28.
MCBlockSize == 4
MCWord == 32
MCHeapAddr == 8

\* One byte, a whole block, one byte more, three blocks less one byte, and the
\* largest size that can be rounded up.
MCSizes == {1, 4, 5, 11, 28}

\* Sizes that the empty pool has room for.
MCSizesFit == {1, 4, 5, 11}
=============================================================================
