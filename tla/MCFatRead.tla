----------------------------- MODULE MCFatRead -----------------------------
(***************************************************************************)
(* Sectors of two bytes, clusters of two sectors, every file of up to three *)
(* clusters in every order on the disk, entries of five bits.  Cluster 3 has *)
(* one of the numbers that the walk refuses.                               *)
(***************************************************************************)
EXTENDS FatRecursion

MCCluster == 2 .. 4
MCReserved == {3}
\* Both marks the code knows, one that wraps to a sector of the disk, and the mark
\* of a bad cluster, which does not.
MCEndMarks == {31, 30, 24, 23}
\* Leftovers: no cluster, clusters of the volume and behind it, a number that wraps
\* to cluster 2, and a negative one.
MCStale == {0, 1, 2, 3, 4, 5, 34, -3}
\* Outside the table: an error, a cluster, a mark the walk does not know, no sector.
MCOutside == {0, 4, 30, Hang}
\* From one byte to more than the largest file.
MCItems == {1, 2, 3, 4, 5, 7, 8, 11, 12, 13}
MCCounts == 1 .. 2
=============================================================================
