CONSTANTS
    Total = 27
    BlockSize = 2
    Word = 1024
    HeapAddr = 14
    Sizes <- MCSizes
    N = 6
    PageSize = 2
    AddrWord = 16
    ProgramBase = 4
    MaxProcesses = 2
    ProcessSize = 2
    StackSize = 4
    ProgramAddr = 8
    StackEnd = 4
    PathBlocks = 1
    OpenBlocks = 2
    Programs <- MCPrograms
    ElfFiles <- MCElfFiles
    Occupied <- MCOccupied
    MaxLoads = 3
SPECIFICATION Spec
CHECK_DEADLOCK FALSE
INVARIANTS
    DirectoriesWhole MappedExactly WritableIsOwn BlocksAccounted ElfBoundsExact
