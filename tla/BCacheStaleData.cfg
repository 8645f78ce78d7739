\* Two threads asking for three blocks of a two-buffer cache, writing each
\* block at most once: the second thread's hit on a block the first is
\* still loading.
CONSTANTS
    NBUF = 2
    t1 = t1
    t2 = t2
    b1 = b1
    b2 = b2
    b3 = b3
    Threads <- MCThreads
    Blocks <- MCBlocks
    NoKey = NoKey
    NoThread = NoThread
    NoData = NoData
    MaxVersion = 1
SPECIFICATION Spec
INVARIANT HeldIsCurrent
\* A panicked thread (flush_all_blocks sleeping under bcache.lock) stops
\* every thread that needs the lock.
CHECK_DEADLOCK FALSE
