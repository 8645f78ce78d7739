\* Safety of the process table with every selector installable, two harts.
CONSTANTS
    NPROC = 3
    c1 = c1
    c2 = c2
    CPUs <- MCCPUs2
    MaxPid = 3
    NLevels = 2
    Policies <- AllPolicies
    TargetPids = {3}
    Priorities = {3, 10}
    NoChan = NoChan
    TicksChan = TicksChan
SPECIFICATION Spec
SYMMETRY CpuSymmetry
INVARIANTS
    TypeOK
    RunningOnOneCpu
    WaitWakeupNotLost
    NoOrphans
PROPERTY
    LifecycleRefined
\* Under MLFQ the system really stops: a process woken by wakeup()/kkill is
\* RUNNABLE in no queue and every hart idles (run mlfq_lost_wakeup).
CHECK_DEADLOCK FALSE
