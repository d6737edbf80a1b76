CONSTANTS
    Task = {t1, t2, t3}
    NULL = NULL
SPECIFICATION Spec
INVARIANTS TypeOK NextIsSuccessor CurrentExists
PROPERTIES FreePassesTheTurn OrderLostExactly
