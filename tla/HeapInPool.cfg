CONSTANTS
    Total = 6
    BlockSize <- MCBlockSize
    Word <- MCWord
    HeapAddr <- MCHeapAddr
    Sizes <- MCSizesFit
SPECIFICATION Spec
INVARIANT InPool
