CONSTANTS
    Total = 6
    BlockSize <- MCBlockSize
    Word <- MCWord
    HeapAddr <- MCHeapAddr
    Sizes <- MCSizes
SPECIFICATION Spec
INVARIANTS TypeOK NoOverlap TableMatchesLive CoversRequest
PROPERTY AllocatorSpec
