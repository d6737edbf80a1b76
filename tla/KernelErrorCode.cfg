CONSTANTS
    Task = {t1, t2}
    NULL = NULL
    Loads = {2}
    MaxProcesses = 2
    Irq = {0, 1}
    Faults = {"plain", "error_code"}
    AllocFailures = {}
    Steps = 2
SPECIFICATION Spec
INVARIANT RegistersWhenNotRunning
