CONSTANTS
    SectorSize = 2
    SectorsPerCluster = 2
    DataSector = 9
    Sectors = 15
    Cluster <- MCCluster
    EntryWord = 32
    IntWord = 128
    Reserved <- MCReserved
    EndMarks <- MCEndMarks
    Stale <- MCStale
    Outside <- MCOutside
    Items <- MCItems
    Counts <- MCCounts
    MaxPos = 14
SPECIFICATION Spec
INVARIANTS
    ReadExactIffAligned WholeFileExact SucceedsInTheChain
    HangsBehindTheDisk DirectoryReadsLeftover RecursionAgrees
