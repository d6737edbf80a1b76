------------------------------ MODULE FatRead ------------------------------
(***************************************************************************)
(* Reading an open file: fread, fseek and the reads below them, down to    *)
(* the sectors (fat16.c, streamer.c, disk.c).  A byte of the disk is known *)
(* by its position, so that a read returns the positions its bytes came    *)
(* from; Junk is a byte that came from outside the sector buffer on the    *)
(* stack.  The end of a chain is one of the marks of FAT16; the code knows *)
(* two of them and takes the others for cluster numbers.                   *)
(***************************************************************************)
EXTENDS Integers, Sequences, FiniteSets, FiniteSetsExt, Functions

CONSTANTS
    SectorSize,         \* PEACHOS_SECTOR_SIZE (512)
    SectorsPerCluster,  \* of the FAT header (128)
    DataSector,         \* root_directory.ending_sector_pos (716)
    Sectors,            \* sectors of the disk
    Cluster,            \* the numbers of the data clusters, from 2 on
    EntryWord,          \* the modulus of an entry of the table (2^16)
    IntWord,            \* the modulus of int (2^32)
    Reserved,           \* 0xFF0, 0xFF6 and PEACHOS_FAT16_BAD_SECTOR (0xFF7)
    EndMarks,           \* the marks that chains end in
    Stale, Outside,     \* bounds: see Init
    Items, Counts,      \* the sizes and the counts given to fread
    MaxPos              \* bound: a file position of interest

ClusterSize == SectorsPerCluster * SectorSize

EIO  == 1
EINVAGR == 2
EUNIMP == 7
Hang == -100    \* the call does not return
Junk == -1

ASSUME FatAssumption ==
    /\ SectorSize \in Nat \ {0} /\ SectorsPerCluster \in Nat \ {0}
    /\ DataSector \in Nat /\ MaxPos \in Nat
    /\ Cluster \subseteq Nat \ {0, 1} /\ Cluster # {}
    /\ EntryWord \in Nat /\ IntWord \in Nat
    /\ Sectors \in Nat /\ Sectors * SectorSize <= IntWord \div 2
    /\ EndMarks \subseteq EntryWord - 9 .. EntryWord - 1
    /\ \A c \in Cluster :
            /\ c < EntryWord - 9
            /\ DataSector + (c - 1) * SectorsPerCluster <= Sectors
    /\ Stale \subseteq Int \ {Hang} /\ Outside \subseteq (0 .. EntryWord - 1) \cup {Hang}
    /\ Items \subseteq Nat \ {0} /\ Counts \subseteq Nat \ {0}

VARIABLES
    fat,        \* the entries of the data clusters
    outside,    \* what an entry is that is not in the table
    type,       \* what the descriptor leads to: "file" or "directory"
    first,      \* the number where the first cluster is in a directory item
    filesize,   \* the size of a file in its item
    pos,        \* fat_file_descriptor.pos
    last        \* the last call: its name, arguments, result and bytes

vars == <<fat, outside, type, first, filesize, pos, last>>

LesserOf(a, b) == IF a <= b THEN a ELSE b

-----------------------------------------------------------------------------
(* streamer.c and disk.c *)

\* C's int: the sum wraps.
Signed(x) == ((x + IntWord \div 2) % IntWord) - IntWord \div 2

\* C's division rounds towards 0.
SectorOf(at) == IF at >= 0 THEN at \div SectorSize ELSE -((-at) \div SectorSize)

\* The loop polls for data that the disk has only for the sectors it has.
disk_read_sector(lba) == IF lba \in 0 .. Sectors - 1 THEN 0 ELSE Hang

\* The recursion reads one sector for each SectorSize bytes asked for, from
\* the sector of its position, and copies from the same offset in the buffer
\* every time: past its end for every offset but 0, once that much is asked.
diskstreamer_read(at, total) ==
    LET from(j) == at + j * SectorSize
        offset(j) == from(j) - SectorOf(from(j)) * SectorSize
    IN  [res |-> IF \A j \in 0 .. (total - 1) \div SectorSize :
                        disk_read_sector(SectorOf(from(j))) = 0
                 THEN 0 ELSE Hang,
         out |-> [i \in 1 .. total |->
                    LET j == (i - 1) \div SectorSize
                        b == offset(j) + ((i - 1) % SectorSize)
                    IN  IF b \in 0 .. SectorSize - 1
                        THEN SectorOf(from(j)) * SectorSize + b ELSE Junk]]

-----------------------------------------------------------------------------
(* fat16.c *)

fat16_cluster_to_sector(cluster) ==
    DataSector + (cluster - 2) * SectorsPerCluster

\* The table has an entry for every 16-bit number: the first two are marks,
\* those of the clusters that the volume does not have are 0.  For any other
\* number the code reads two bytes before or behind the table, or waits for a
\* sector that the disk does not have.
fat16_get_fat_entry(cluster) ==
    CASE cluster \in Cluster -> fat[cluster]
      [] cluster = 0 -> EntryWord - 8
      [] cluster = 1 -> EntryWord - 1
      [] cluster \in (2 .. EntryWord - 1) \ Cluster -> 0
      [] OTHER -> outside

\* The entries the walk refuses: 0xFFF8 and 0xFFFF of the marks, the numbers that
\* would be marks if entries had 12 bits, and 0.
Refused == {EntryWord - 8, EntryWord - 1} \cup Reserved \cup {0}

\* A plausible slip: the walk stops one cluster short.
fat16_get_cluster_for_offset_OneShort(starting, offset) ==
    LET walk[i \in 0 .. offset \div ClusterSize] ==
            IF i <= 1 THEN starting
            ELSE IF i > 1 /\ walk[i - 1] < 0 THEN walk[i - 1]
            ELSE IF fat16_get_fat_entry(walk[i - 1]) \in Refused THEN -EIO
            ELSE fat16_get_fat_entry(walk[i - 1])
    IN  walk[offset \div ClusterSize]

\* A plausible slip: 0xFFF8 is not taken for a mark.
fat16_get_cluster_for_offset_OneMark(starting, offset) ==
    LET walk[i \in 0 .. offset \div ClusterSize] ==
            IF i = 0 THEN starting
            ELSE IF i > 1 /\ walk[i - 1] < 0 THEN walk[i - 1]
            ELSE IF fat16_get_fat_entry(walk[i - 1]) \in Refused \ {EntryWord - 8}
                THEN -EIO
            ELSE fat16_get_fat_entry(walk[i - 1])
    IN  walk[offset \div ClusterSize]

\* Follows the table once for each cluster before the offset.  Only the number
\* it starts from may be negative without being an error.
fat16_get_cluster_for_offset(starting, offset) ==
    LET walk[i \in 0 .. offset \div ClusterSize] ==
            IF i = 0 THEN starting
            ELSE IF i > 1 /\ walk[i - 1] < 0 THEN walk[i - 1]
            ELSE IF fat16_get_fat_entry(walk[i - 1]) \in Refused THEN -EIO
            ELSE fat16_get_fat_entry(walk[i - 1])
    IN  walk[offset \div ClusterSize]

\* The recursion reads ClusterSize bytes at a time, whatever the offset in the
\* first cluster is: the k-th read starts in the cluster of offset + k clusters.
Pieces(total) == 0 .. (total - 1) \div ClusterSize

PieceCluster(starting, offset, k) ==
    fat16_get_cluster_for_offset(starting, offset + k * ClusterSize)

\* A plausible slip: the offset in the cluster is forgotten.
Piece_FromStart(starting, offset, total, k) ==
    LET cluster == PieceCluster(starting, offset, k)
    IN  IF cluster < 0 THEN [res |-> cluster, out |-> <<>>]
        ELSE diskstreamer_read(
                Signed(fat16_cluster_to_sector(cluster) * SectorSize),
                LesserOf(total - k * ClusterSize, ClusterSize))

Piece(starting, offset, total, k) ==
    LET cluster == PieceCluster(starting, offset, k)
    IN  IF cluster < 0 THEN [res |-> cluster, out |-> <<>>]
        ELSE diskstreamer_read(
                Signed(fat16_cluster_to_sector(cluster) * SectorSize
                        + (offset % ClusterSize)),
                LesserOf(total - k * ClusterSize, ClusterSize))

\* The first piece that is not read ends the call.
fat16_read_internal(starting, offset, total) ==
    LET piece == [k \in Pieces(total) |-> Piece(starting, offset, total, k)]
        bad == {k \in Pieces(total) : piece[k].res # 0}
    IN  IF bad # {} THEN [res |-> piece[Min(bad)].res, out |-> <<>>]
        ELSE [res |-> 0,
              out |-> [i \in 1 .. total |->
                        piece[(i - 1) \div ClusterSize].out
                            [((i - 1) % ClusterSize) + 1]]]

\* A plausible slip: the item of a directory is taken for zeroes.
fat16_get_first_cluster_Zero == IF type = "directory" THEN 0 ELSE first

\* The two halves of the number, at their offsets behind the pointer of the item.
fat16_get_first_cluster == first

\* nmemb items of size bytes.  The position moves only if all are read, and
\* the size of the file is not looked at.
fat16_read(size, nmemb) ==
    LET item == [i \in 0 .. nmemb - 1 |->
                    fat16_read_internal(fat16_get_first_cluster, pos + i * size, size)]
        bad == {i \in 0 .. nmemb - 1 : item[i].res # 0}
    IN  /\ pos' = IF bad # {} THEN pos ELSE pos + nmemb * size
        /\ last' = [op |-> "read", offset |-> pos, size |-> size, nmemb |-> nmemb,
                    res |-> IF bad # {} THEN item[Min(bad)].res ELSE nmemb,
                    out |-> IF bad # {} THEN <<>>
                            ELSE [i \in 1 .. nmemb |-> item[i - 1].out]]
        /\ UNCHANGED <<fat, outside, type, first, filesize>>

\* The offset is checked against the size, not the position it leads to.
fat16_seek(offset, whence) ==
    LET res == IF type # "file" THEN -EINVAGR
               ELSE IF offset >= filesize THEN -EIO
               ELSE IF whence = "SEEK_END" THEN -EUNIMP ELSE 0
    IN  /\ pos' = IF res < 0 THEN pos
                  ELSE IF whence = "SEEK_SET" THEN offset ELSE pos + offset
        /\ last' = [op |-> "seek", res |-> res]
        /\ UNCHANGED <<fat, outside, type, first, filesize>>

-----------------------------------------------------------------------------
\* A chain of distinct clusters, as a file has it.
Chains == UNION {{c \in [1 .. n -> Cluster] : IsInjective(c)} :
                    n \in 1 .. Cardinality(Cluster)}

\* The size of a file is in the last of its clusters.  The descriptor of a
\* directory leads to a fat_directory, which is shorter than a directory item:
\* the bytes where an item has its first cluster are those that the heap block
\* held before kzalloc cleared the start of it, so that the number is any.
Init ==
    /\ \E chain \in Chains, mark \in EndMarks :
        /\ fat = [c \in Cluster |->
                    IF \E i \in DOMAIN chain : chain[i] = c
                    THEN LET i == CHOOSE j \in DOMAIN chain : chain[j] = c
                         IN  IF i = Len(chain) THEN mark ELSE chain[i + 1]
                    ELSE 0]
        /\ \/ /\ type = "file"
              /\ first = chain[1]
              /\ \E slack \in 0 .. ClusterSize - 1 :
                    filesize = Len(chain) * ClusterSize - slack
              /\ outside = 0
           \/ /\ type = "directory"
              /\ first \in Stale
              /\ filesize = 0
              /\ outside \in IF first \in 0 .. EntryWord - 1 THEN {0} ELSE Outside
    /\ pos = 0
    /\ last = [op |-> "open", res |-> 0]

Next ==
    /\ last.res # Hang
    /\ \/ \E size \in Items, nmemb \in Counts :
            pos + size * nmemb <= MaxPos /\ fat16_read(size, nmemb)
       \/ \E offset \in 0 .. filesize, whence \in {"SEEK_SET", "SEEK_CUR", "SEEK_END"} :
            (whence = "SEEK_CUR" => pos + offset <= MaxPos) /\ fat16_seek(offset, whence)

\* disk_read_sector polls for ever.
Polling == last.res = Hang /\ UNCHANGED vars

Spec == Init /\ [][Next \/ Polling]_vars

-----------------------------------------------------------------------------
(* What the file holds *)

\* The n-th cluster of the file, from 0, and after the last the mark; of a
\* directory, the n-th number after the one that its block holds.
ClusterAt(n) ==
    LET at[i \in 0 .. n] == IF i = 0 THEN first ELSE fat16_get_fat_entry(at[i - 1])
    IN  at[n]

ChainLength == Min({n \in 1 .. Cardinality(Cluster) : ClusterAt(n) \notin Cluster})

\* Where the byte at offset i of the file is on the disk.
FileByte(i) ==
    DataSector * SectorSize + (ClusterAt(i \div ClusterSize) - 2) * ClusterSize
        + (i % ClusterSize)

ItemExact(offset, size, out) == \A i \in 1 .. size : out[i] = FileByte(offset + i - 1)

\* The item ends before the sector it starts in does, or starts with a sector.
InSectors(offset, size) ==
    LET o == offset % SectorSize
    IN  o = 0 \/ o + LesserOf(size, ClusterSize) <= SectorSize

\* The piece crosses the end of the cluster it starts in.
Crosses(offset, size, k) ==
    (offset % ClusterSize) + LesserOf(size - k * ClusterSize, ClusterSize) > ClusterSize

\* The item ends before its cluster does, starts with a cluster, or is in
\* clusters that happen to follow each other on the disk.
InClusters(offset, size) ==
    \A k \in Pieces(size) :
        Crosses(offset, size, k) =>
            LET n == (offset + k * ClusterSize) \div ClusterSize
            IN  ClusterAt(n + 1) = ClusterAt(n) + 1

\* The number of the cluster that the walk has to reach for a piece.
StartsIn(offset, k) == offset \div ClusterSize + k

\* The clusters of the file that the walk can reach.
Reachable ==
    {n \in 0 .. ChainLength - 1 : \A m \in 1 .. n : ClusterAt(m) \notin Reserved}

ItemOffset(i) == last.offset + i * last.size
LastItems == 0 .. last.nmemb - 1

\* fat16.c:441-479, streamer.c:22-47.  fread delivers the bytes of the file
\* exactly for the items that cross no sector boundary from inside a sector and
\* no cluster boundary into a cluster that is elsewhere.
ReadExactIffAligned ==
    type = "file" /\ last.op = "read" /\ last.res > 0 =>
        \A i \in LastItems :
            ItemOffset(i) + last.size <= filesize =>
                (ItemExact(ItemOffset(i), last.size, last.out[i + 1])
                    <=> InSectors(ItemOffset(i), last.size)
                        /\ InClusters(ItemOffset(i), last.size))

\* process.c:329-374.  Reading the whole file as one item from its start, as
\* process_load_binary does, delivers the file, wherever its clusters are and
\* whatever mark ends it, unless one of them has a number that the walk takes
\* for a mark of 12 bits; then it fails.
WholeFileExact ==
    type = "file" /\ last.op = "read" /\ last.offset = 0
            /\ last.size = filesize /\ last.nmemb = 1 =>
        IF Reachable = 0 .. ChainLength - 1
        THEN last.res = 1 /\ ItemExact(0, filesize, last.out[1])
        ELSE last.res = -EIO

\* fat16.c:397-439, 736-757.  On a volume whose chains end in a mark the walk
\* knows, a read that returns succeeds exactly if every piece of it starts in a
\* cluster of the chain that the walk reaches: the size of the file is not
\* looked at, so the rest of the last cluster, and what follows it on the disk,
\* are delivered as if they belonged to the file.
SucceedsInTheChain ==
    type = "file" /\ last.op = "read" /\ last.res # Hang
            /\ ClusterAt(ChainLength) \in {EntryWord - 8, EntryWord - 1} =>
        (last.res > 0 <=>
            \A i \in LastItems, k \in Pieces(last.size) :
                StartsIn(ItemOffset(i), k) \in Reachable)

\* fat16.c:405, disk.c:17-24.  In a read of a file the kernel waits for the disk
\* for ever only for two reasons: the read went on behind a chain whose mark the walk takes for a
\* cluster, or it crossed the end of the last cluster of the disk.
HangsBehindTheDisk ==
    type = "file" /\ last.op = "read" /\ last.res = Hang =>
        \E i \in LastItems, k \in Pieces(last.size) :
            LET n == StartsIn(ItemOffset(i), k)
            IN  \/ n = ChainLength
                   /\ ClusterAt(n) \notin {EntryWord - 8, EntryWord - 1}
                \/ n < ChainLength /\ ClusterAt(n) = Max(Cluster)
                   /\ Crosses(ItemOffset(i), last.size, k)

\* The item is in the first cluster, and read without a gap.
InFirstCluster(offset, size) == offset + size <= ClusterSize /\ InSectors(offset, size)

\* fat16.c:740, kheap.c:35.  An open directory is read like a file that starts
\* where the leftover number says: if a cluster of the volume has that number,
\* its bytes are delivered, whatever file or directory they belong to.
DirectoryReadsLeftover ==
    type = "directory" /\ last.op = "read" /\ first \in Cluster
            /\ (\A i \in LastItems : InFirstCluster(ItemOffset(i), last.size)) =>
        /\ last.res = last.nmemb
        /\ \A i \in LastItems : ItemExact(ItemOffset(i), last.size, last.out[i + 1])
=============================================================================
