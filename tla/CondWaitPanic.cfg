\* A waiter and a signaller that signals while holding the mutex.
CONSTANTS
    cw1 = cw1  cs1 = cs1  p1 = p1  k1 = k1  k2 = k2  m1 = m1  r1 = r1  r2 = r2  w1 = w1
    Producers = {}
    Consumers = {}
    MutexUsers = {}
    CondWaiters = {cw1}
    CondSignallers = {cs1}
    Readers = {}
    Writers = {}
    BUFFER_SIZE = 2
    NoThread = NoThread
    NoChan = NoChan
SPECIFICATION Spec
INVARIANTS
    NoSchedPanic
