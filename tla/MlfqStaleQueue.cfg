\* kfork enqueues the child after it is RUNNABLE and the lock is dropped.
CONSTANTS
    NPROC = 3
    c1 = c1
    c2 = c2
    NLevels = 2
    Priorities = {3, 10}
    NoChan = NoChan
    TicksChan = TicksChan
    CPUs <- MCCPUs2
    MaxPid = 3
    Policies <- MlfqOnly
    TargetPids = {3}
SPECIFICATION Spec
SYMMETRY CpuSymmetry
INVARIANTS
    QueuedAreLive
CHECK_DEADLOCK FALSE
