CONSTANTS
    Task = {t1}
    NULL = NULL
    Loads = {1}
    MaxProcesses = 2
    Irq = {0, 1}
    Faults = {"plain"}
    AllocFailures = {}
    Steps = 2
SPECIFICATION Spec
INVARIANT NoProgramWithoutProcess
