CONSTANTS
    Task = {t1, t2, t3, t4}
    NULL = NULL
    Loads = {1, 3, 4}
    MaxProcesses = 3
    Irq = {0, 1}
    Faults = {"plain", "error_code", "divide"}
    AllocFailures = {"process", "stack", "task"}
    Steps = 2
SPECIFICATION Spec
INVARIANTS TypeOK RunsInItsOwnSpace ContextsPreserved NothingInService ProcessArrayExact
PROPERTIES RoundRobin NoStarvation
