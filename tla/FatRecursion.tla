---------------------------- MODULE FatRecursion ----------------------------
(***************************************************************************)
(* The reads of streamer.c and fat16.c as the code writes them, recursive  *)
(* call by recursive call.  FatRead states what they return; the two are   *)
(* checked against each other.                                             *)
(***************************************************************************)
EXTENDS FatRead

\* One sector into the buffer, the bytes from the offset on out of it, then
\* the rest from the position that follows.
RECURSIVE streamer_read(_, _)
streamer_read(at, total) ==
    LET sector == SectorOf(at)
        offset == at - sector * SectorSize
        buf(i) == IF i \in 0 .. SectorSize - 1 THEN sector * SectorSize + i ELSE Junk
        total_to_read == IF total > SectorSize THEN SectorSize ELSE total
        copied == [i \in 1 .. total_to_read |-> buf(offset + (i - 1))]
        rest == streamer_read(at + total_to_read, total - SectorSize)
    IN  IF disk_read_sector(sector) # 0 THEN [res |-> Hang, out |-> <<>>]
        ELSE IF total > SectorSize
        THEN [res |-> rest.res, out |-> copied \o rest.out]
        ELSE [res |-> 0, out |-> copied]

\* A plausible slip: the rest is read from the cluster of the same offset.
RECURSIVE read_internal_from_stream_Stuck(_, _, _)
read_internal_from_stream_Stuck(cluster, offset, total) ==
    LET use == fat16_get_cluster_for_offset(cluster, offset)
        n == IF total > ClusterSize THEN ClusterSize ELSE total
        read == streamer_read(Signed(fat16_cluster_to_sector(use) * SectorSize
                                     + (offset % ClusterSize)), n)
        rest == read_internal_from_stream_Stuck(cluster, offset, total - n)
    IN  IF use < 0 THEN [res |-> use, out |-> <<>>]
        ELSE IF read.res # 0 THEN read
        ELSE IF total - n > 0 THEN [res |-> rest.res, out |-> read.out \o rest.out]
        ELSE read

RECURSIVE read_internal_from_stream(_, _, _)
read_internal_from_stream(cluster, offset, total) ==
    LET use == fat16_get_cluster_for_offset(cluster, offset)
        n == IF total > ClusterSize THEN ClusterSize ELSE total
        read == streamer_read(Signed(fat16_cluster_to_sector(use) * SectorSize
                                     + (offset % ClusterSize)), n)
        rest == read_internal_from_stream(cluster, offset + n, total - n)
    IN  IF use < 0 THEN [res |-> use, out |-> <<>>]
        ELSE IF read.res # 0 THEN read
        ELSE IF total - n > 0 THEN [res |-> rest.res, out |-> read.out \o rest.out]
        ELSE read

\* fat16.c:441-479, streamer.c:22-47.  From every position of every file and
\* directory, the recursion returns what FatRead says: the same error, the same
\* bytes, or nothing at all.
RecursionAgrees ==
    \A size \in Items :
        LET code == read_internal_from_stream(fat16_get_first_cluster, pos, size)
            spec == fat16_read_internal(fat16_get_first_cluster, pos, size)
        IN  code.res = spec.res /\ (code.res = 0 => code.out = spec.out)
=============================================================================
