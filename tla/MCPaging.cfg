CONSTANTS
    N = 2
    PageSize = 2
    Frames = 9
    NewFlags <- MCNewFlags
    MapFlags <- MCMapFlags
    Addrs <- MCAddrs
    MaxMaps = 2
SPECIFICATION Spec
INVARIANTS TypeOK TranslationExact BlocksAccounted
