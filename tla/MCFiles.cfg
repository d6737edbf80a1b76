CONSTANTS
    MaxFd = 3
    Volumes <- MCVolumes
    Roots <- MCRoots
    Subs <- MCSubs
    Calls <- MCCalls
    Rooms <- MCRooms
    FileSize = 2
    MaxOpens = 3
    MaxPos = 1
    NULL = NULL
    NameSize = 2
    ExtSize = 1
    MaxPath = 8
SPECIFICATION Spec
INVARIANTS
    MountedIsWhole HeldDescriptorsLead
    HeldByOne BlocksAccounted WholeWhileMemoryLasts HiddenByDeletedSlots
