\* Semaphore ring, mutex, condition variable and rwlock, all interleaved.
CONSTANTS
    p1 = p1  k1 = k1  k2 = k2  m1 = m1  cw1 = cw1  cs1 = cs1  r1 = r1  w1 = w1
    r2 = r2
    Producers = {p1}
    Consumers = {k1, k2}
    MutexUsers = {m1}
    CondWaiters = {cw1}
    CondSignallers = {cs1}
    Readers = {r1, r2}
    Writers = {w1}
    BUFFER_SIZE = 2
    NoThread = NoThread
    NoChan = NoChan
SPECIFICATION Spec
INVARIANTS
    TypeOK
    RingAccounting
    MutexExclusion
    RwExclusion
    NoLostWakeup
\* cond_wait's panic ("sched locks") stops the kernel: run cond_wait_panic.
CHECK_DEADLOCK FALSE
