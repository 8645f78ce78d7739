\* Round-robin and priority selection never strand a RUNNABLE process.
CONSTANTS
    NPROC = 3
    c1 = c1
    c2 = c2
    NLevels = 2
    Priorities = {3, 10}
    NoChan = NoChan
    TicksChan = TicksChan
    CPUs <- MCCPUs2
    MaxPid = 3
    Policies <- RrPrio
    TargetPids = {3}
SPECIFICATION FairSpec
PROPERTIES
    WorkConserving
