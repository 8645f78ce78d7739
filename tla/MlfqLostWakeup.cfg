\* Under MLFQ a process woken by wakeup() or kkill() is in no queue.
CONSTANTS
    NPROC = 3
    c1 = c1
    c2 = c2
    NLevels = 2
    Priorities = {3, 10}
    NoChan = NoChan
    TicksChan = TicksChan
    CPUs <- MCCPUs1
    MaxPid = 3
    Policies <- MlfqOnly
    TargetPids = {3}
SPECIFICATION FairSpec
PROPERTIES
    WorkConserving
CHECK_DEADLOCK FALSE
