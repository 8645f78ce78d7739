\* default_round_robin always scans from proc[0].
CONSTANTS
    NPROC = 3
    c1 = c1
    c2 = c2
    NLevels = 2
    Priorities = {3, 10}
    NoChan = NoChan
    TicksChan = TicksChan
    CPUs <- MCCPUs1
    MaxPid = 2
    Policies <- NoPolicy
    TargetPids = {3}
SPECIFICATION FairSpec
PROPERTIES
    StarvationFree
