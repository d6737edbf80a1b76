CONSTANTS
    MaxFd = 3
    Volumes <- MCVolumes
    Roots <- MCRoots
    Subs <- MCSubs
    Calls <- MCCalls
    Rooms <- MCPlenty
    FileSize = 2
    MaxOpens = 4
    MaxPos = 2
    NULL = NULL
    NameSize = 2
    ExtSize = 1
    MaxPath = 8
SPECIFICATION Spec
INVARIANT FailedOpenReturns
