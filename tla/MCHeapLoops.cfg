CONSTANTS
    Total = 5
    BlockSize <- MCBlockSize
    Word <- MCWord
    HeapAddr <- MCHeapAddr
    Sizes <- MCSizes
SPECIFICATION Spec
INVARIANT TypeOK
PROPERTIES HeapSpec EveryCallReturns
