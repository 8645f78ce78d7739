------------------------------ MODULE SyncPrims ------------------------------
(***************************************************************************)
(* The derived synchronization primitives of kernel/sync_primitives.c,     *)
(* built on sleep/wakeup: a semaphore pair guarding the producer/consumer *)
(* ring (pc_init, producer, consumer), a mutex, a condition variable used *)
(* with that mutex, and a reader-writer lock.  The primitives have no     *)
(* callers in the repository, so kernel threads in fixed roles drive      *)
(* them: each role is the loop a caller of the primitive would run.       *)
(*                                                                         *)
(* Each action is one critical section under the primitive's spinlock.    *)
(* sleep(chan, lk) is atomic with the test that led to it (p->lock is     *)
(* taken before lk is released), and a woken thread re-runs the action    *)
(* whose loop it slept in, as the code's while loops do.  The ids, names  *)
(* and the id range checks are left out: every call uses a valid id.      *)
(***************************************************************************)
EXTENDS Integers, FiniteSets

CONSTANTS
    Producers, Consumers,        \* threads running producer() / consumer()
    MutexUsers,                  \* threads: mutex_lock; critical section; mutex_unlock
    CondWaiters,                 \* threads: mutex_lock; cond_wait; mutex_unlock
    CondSignallers,              \* threads: mutex_lock; cond_signal; mutex_unlock
    Readers, Writers,            \* threads using the reader-writer lock
    BUFFER_SIZE,                 \* ring size (10 in the code)
    NoThread, NoChan

Threads == Producers \cup Consumers \cup MutexUsers \cup CondWaiters
             \cup CondSignallers \cup Readers \cup Writers
EMPTY == 0     \* sem_init(0, BUFFER_SIZE): the "empty" semaphore
FULL  == 1     \* sem_init(1, 0): the "full" semaphore
Chans == {"sem0", "sem1", "mutex", "cond", "rwlock"}
SemChan(id) == IF id = EMPTY THEN "sem0" ELSE "sem1"

VARIABLES
    sem,        \* semaphores[id].value
    ring,       \* pc_buffer: [in, out, count]
    mutex,      \* mutexes[m]: [locked, owner]
    waiters,    \* conditions[c].waiters
    rw,         \* rwlocks[r]: [readers, writer, owner]
    pc,         \* where each thread is in its loop
    chan,       \* the channel a sleeping thread sleeps on, or NoChan
    panicked    \* sched() panicked ("sched locks")

vars == <<sem, ring, mutex, waiters, rw, pc, chan, panicked>>

Init ==
    /\ sem = [id \in {EMPTY, FULL} |-> IF id = EMPTY THEN BUFFER_SIZE ELSE 0]
    /\ ring = [in |-> 0, out |-> 0, count |-> 0]
    /\ mutex = [locked |-> FALSE, owner |-> NoThread]
    /\ waiters = 0
    /\ rw = [readers |-> 0, writer |-> FALSE, owner |-> NoThread]
    /\ pc = [t \in Threads |->
               CASE t \in Producers      -> "p_wait"
                 [] t \in Consumers      -> "c_wait"
                 [] t \in MutexUsers     -> "m_lock"
                 [] t \in CondWaiters    -> "cw_lock"
                 [] t \in CondSignallers -> "cs_lock"
                 [] t \in Readers        -> "r_lock"
                 [] t \in Writers        -> "w_lock"]
    /\ chan = [t \in Threads |-> NoChan]
    /\ panicked = FALSE

\* t is not asleep and the kernel has not panicked
Ready(t, at) == pc[t] = at /\ chan[t] = NoChan /\ ~panicked

\* sleep(ch, lk): t sleeps and will re-run the loop it is in
SleepOn(t, ch) == chan' = [chan EXCEPT ![t] = ch]

\* wakeup(ch): every thread sleeping on ch becomes runnable
WakeupAll(ch) == [t \in Threads |-> IF chan[t] = ch THEN NoChan ELSE chan[t]]

Goto(t, next) == pc' = [pc EXCEPT ![t] = next]
-----------------------------------------------------------------------------
(* The primitives.  `next` is the caller's label after a successful call. *)
(* A definition marked (mutant) is a variant of the one after it with a    *)
(* plausible bug; Spec does not use it.                                    *)

\* (mutant) sem_wait testing value < 0 instead of value <= 0
SemWaitLt(t, id, next) ==
    IF sem[id] < 0
      THEN SleepOn(t, SemChan(id)) /\ UNCHANGED <<sem, pc>>
      ELSE sem' = [sem EXCEPT ![id] = @ - 1] /\ Goto(t, next) /\ UNCHANGED chan

\* sem_wait: while(value <= 0) sleep; value--
SemWait(t, id, next) ==
    IF sem[id] <= 0
      THEN SleepOn(t, SemChan(id)) /\ UNCHANGED <<sem, pc>>
      ELSE sem' = [sem EXCEPT ![id] = @ - 1] /\ Goto(t, next) /\ UNCHANGED chan

\* sem_post: value++; wakeup
SemPost(t, id, next) ==
    /\ sem' = [sem EXCEPT ![id] = @ + 1]
    /\ chan' = WakeupAll(SemChan(id))
    /\ Goto(t, next)

\* (mutant) mutex_lock with `if` for `while`: a woken thread does not re-test
MutexLockNoRecheck(t, next) ==
    IF mutex.locked /\ mutex.owner # t
      THEN SleepOn(t, "mutex") /\ Goto(t, next) /\ UNCHANGED mutex
      ELSE mutex' = [locked |-> TRUE, owner |-> t] /\ Goto(t, next) /\ UNCHANGED chan

\* mutex_lock: while(locked && owner != p) sleep; locked = 1; owner = p
MutexLock(t, next) ==
    IF mutex.locked /\ mutex.owner # t
      THEN SleepOn(t, "mutex") /\ UNCHANGED <<mutex, pc>>
      ELSE mutex' = [locked |-> TRUE, owner |-> t] /\ Goto(t, next) /\ UNCHANGED chan

\* mutex_unlock: -1 unless the caller owns it; else clear and wakeup
MutexUnlock(t, next) ==
    /\ IF mutex.owner # t
         THEN UNCHANGED <<mutex, chan>>
         ELSE /\ mutex' = [locked |-> FALSE, owner |-> NoThread]
              /\ chan' = WakeupAll("mutex")
    /\ Goto(t, next)

\* (mutant) rwlock_read_lock that does not wait for a writer
RwReadLockNoWait(t, next) ==
    rw' = [rw EXCEPT !.readers = @ + 1] /\ Goto(t, next) /\ UNCHANGED chan

\* rwlock_read_lock: while(writer) sleep; readers++
RwReadLock(t, next) ==
    IF rw.writer
      THEN SleepOn(t, "rwlock") /\ UNCHANGED <<rw, pc>>
      ELSE rw' = [rw EXCEPT !.readers = @ + 1] /\ Goto(t, next) /\ UNCHANGED chan

\* (mutant) rwlock_read_unlock testing readers == 0 before the decrement
RwReadUnlockEarly(t, next) ==
    /\ rw' = [rw EXCEPT !.readers = @ - 1]
    /\ chan' = IF rw.readers = 0 THEN WakeupAll("rwlock") ELSE chan
    /\ Goto(t, next)

\* rwlock_read_unlock: readers--; wakeup when it reaches 0
RwReadUnlock(t, next) ==
    /\ rw' = [rw EXCEPT !.readers = @ - 1]
    /\ chan' = IF rw.readers - 1 = 0 THEN WakeupAll("rwlock") ELSE chan
    /\ Goto(t, next)

\* rwlock_write_lock: while(writer || readers > 0) sleep; writer = 1
RwWriteLock(t, next) ==
    IF rw.writer \/ rw.readers > 0
      THEN SleepOn(t, "rwlock") /\ UNCHANGED <<rw, pc>>
      ELSE rw' = [rw EXCEPT !.writer = TRUE, !.owner = t] /\ Goto(t, next)
           /\ UNCHANGED chan

\* rwlock_write_unlock: -1 unless the caller owns it; else clear and wakeup
RwWriteUnlock(t, next) ==
    /\ IF rw.owner # t
         THEN UNCHANGED <<rw, chan>>
         ELSE /\ rw' = [rw EXCEPT !.writer = FALSE, !.owner = NoThread]
              /\ chan' = WakeupAll("rwlock")
    /\ Goto(t, next)

(* cond_wait up to sleep(): under conditions[c].lock, waiters++, then      *)
(* mutex_unlock(m) (which wakes the mutex's sleepers), then sleep on the   *)
(* condition, which releases conditions[c].lock.                           *)
CondWaitSleep(t) ==
    /\ waiters' = waiters + 1
    /\ mutex' = IF mutex.owner = t THEN [locked |-> FALSE, owner |-> NoThread]
                                   ELSE mutex
    /\ chan' = [(IF mutex.owner = t THEN WakeupAll("mutex") ELSE chan)
                   EXCEPT ![t] = "cond"]

(* cond_wait after sleep() returns: it holds conditions[c].lock again and  *)
(* calls mutex_lock(m).  If another thread owns m, mutex_lock sleeps with  *)
(* the condition's spinlock still held, and sched() panics "sched locks"   *)
(* (noff != 1).  Otherwise it takes m, waiters--, and releases the lock.   *)
CondWaitWake(t) ==
    IF mutex.locked /\ mutex.owner # t
      THEN panicked' = TRUE /\ UNCHANGED <<mutex, waiters, pc>>
      ELSE /\ mutex' = [locked |-> TRUE, owner |-> t]
           /\ waiters' = waiters - 1
           /\ Goto(t, "cw_unlock")
           /\ UNCHANGED panicked

\* cond_signal (cond_broadcast is the same code): wakeup if waiters > 0
CondSignal ==
    chan' = IF waiters > 0 THEN WakeupAll("cond") ELSE chan
-----------------------------------------------------------------------------
(* The callers' loops                                                      *)

\* producer(): sem_wait(0); put an item under pc_buffer.lock; sem_post(1)
ProducerWait(t) ==
    /\ Ready(t, "p_wait") /\ SemWait(t, EMPTY, "p_put")
    /\ UNCHANGED <<ring, mutex, waiters, rw, panicked>>
\* (mutant) the producer advances `in` without the modulo
ProducerPutNoWrap(t) ==
    /\ Ready(t, "p_put")
    /\ ring' = [ring EXCEPT !.in = @ + 1, !.count = @ + 1]
    /\ Goto(t, "p_post")
    /\ UNCHANGED <<sem, mutex, waiters, rw, chan, panicked>>
ProducerPut(t) ==
    /\ Ready(t, "p_put")
    /\ ring' = [ring EXCEPT !.in = (@ + 1) % BUFFER_SIZE, !.count = @ + 1]
    /\ Goto(t, "p_post")
    /\ UNCHANGED <<sem, mutex, waiters, rw, chan, panicked>>
ProducerPost(t) ==
    /\ Ready(t, "p_post") /\ SemPost(t, FULL, "p_wait")
    /\ UNCHANGED <<ring, mutex, waiters, rw, panicked>>

\* consumer(): sem_wait(1); take an item under pc_buffer.lock; sem_post(0)
ConsumerWait(t) ==
    /\ Ready(t, "c_wait") /\ SemWait(t, FULL, "c_get")
    /\ UNCHANGED <<ring, mutex, waiters, rw, panicked>>
ConsumerGet(t) ==
    /\ Ready(t, "c_get")
    /\ ring' = [ring EXCEPT !.out = (@ + 1) % BUFFER_SIZE, !.count = @ - 1]
    /\ Goto(t, "c_post")
    /\ UNCHANGED <<sem, mutex, waiters, rw, chan, panicked>>
ConsumerPost(t) ==
    /\ Ready(t, "c_post") /\ SemPost(t, EMPTY, "c_wait")
    /\ UNCHANGED <<ring, mutex, waiters, rw, panicked>>

\* mutex_lock / mutex_unlock around a critical section
MutexUserLock(t) ==
    /\ Ready(t, "m_lock") /\ MutexLock(t, "m_cs")
    /\ UNCHANGED <<sem, ring, waiters, rw, panicked>>
MutexUserUnlock(t) ==
    /\ Ready(t, "m_cs") /\ MutexUnlock(t, "m_lock")
    /\ UNCHANGED <<sem, ring, waiters, rw, panicked>>

\* a waiter: mutex_lock; cond_wait; mutex_unlock
WaiterLock(t) ==
    /\ Ready(t, "cw_lock") /\ MutexLock(t, "cw_wait")
    /\ UNCHANGED <<sem, ring, waiters, rw, panicked>>
WaiterSleep(t) ==
    /\ Ready(t, "cw_wait") /\ CondWaitSleep(t) /\ Goto(t, "cw_woken")
    /\ UNCHANGED <<sem, ring, rw, panicked>>
WaiterWake(t) ==
    /\ Ready(t, "cw_woken") /\ CondWaitWake(t)
    /\ UNCHANGED <<sem, ring, rw, chan>>
WaiterUnlock(t) ==
    /\ Ready(t, "cw_unlock") /\ MutexUnlock(t, "cw_lock")
    /\ UNCHANGED <<sem, ring, waiters, rw, panicked>>

\* a signaller: mutex_lock; cond_signal; mutex_unlock
SignallerLock(t) ==
    /\ Ready(t, "cs_lock") /\ MutexLock(t, "cs_signal")
    /\ UNCHANGED <<sem, ring, waiters, rw, panicked>>
SignallerSignal(t) ==
    /\ Ready(t, "cs_signal") /\ CondSignal /\ Goto(t, "cs_unlock")
    /\ UNCHANGED <<sem, ring, mutex, waiters, rw, panicked>>
SignallerUnlock(t) ==
    /\ Ready(t, "cs_unlock") /\ MutexUnlock(t, "cs_lock")
    /\ UNCHANGED <<sem, ring, waiters, rw, panicked>>

\* readers and writers of the reader-writer lock
ReaderLock(t) ==
    /\ Ready(t, "r_lock") /\ RwReadLock(t, "r_cs")
    /\ UNCHANGED <<sem, ring, mutex, waiters, panicked>>
ReaderUnlock(t) ==
    /\ Ready(t, "r_cs") /\ RwReadUnlock(t, "r_lock")
    /\ UNCHANGED <<sem, ring, mutex, waiters, panicked>>
WriterLock(t) ==
    /\ Ready(t, "w_lock") /\ RwWriteLock(t, "w_cs")
    /\ UNCHANGED <<sem, ring, mutex, waiters, panicked>>
WriterUnlock(t) ==
    /\ Ready(t, "w_cs") /\ RwWriteUnlock(t, "w_lock")
    /\ UNCHANGED <<sem, ring, mutex, waiters, panicked>>

Next ==
    \/ \E t \in Producers : ProducerWait(t) \/ ProducerPut(t) \/ ProducerPost(t)
    \/ \E t \in Consumers : ConsumerWait(t) \/ ConsumerGet(t) \/ ConsumerPost(t)
    \/ \E t \in MutexUsers : MutexUserLock(t) \/ MutexUserUnlock(t)
    \/ \E t \in CondWaiters :
          WaiterLock(t) \/ WaiterSleep(t) \/ WaiterWake(t) \/ WaiterUnlock(t)
    \/ \E t \in CondSignallers :
          SignallerLock(t) \/ SignallerSignal(t) \/ SignallerUnlock(t)
    \/ \E t \in Readers : ReaderLock(t) \/ ReaderUnlock(t)
    \/ \E t \in Writers : WriterLock(t) \/ WriterUnlock(t)

Spec == Init /\ [][Next]_vars
-----------------------------------------------------------------------------
TypeOK ==
    /\ sem \in [{EMPTY, FULL} -> Int]
    /\ ring \in [in : 0..(BUFFER_SIZE - 1), out : 0..(BUFFER_SIZE - 1), count : Int]
    /\ mutex \in [locked : BOOLEAN, owner : Threads \cup {NoThread}]
    /\ waiters \in Nat
    /\ rw \in [readers : Int, writer : BOOLEAN, owner : Threads \cup {NoThread}]
    /\ chan \in [Threads -> Chans \cup {NoChan}]
    /\ panicked \in BOOLEAN

At(S, l) == Cardinality({t \in S : pc[t] = l})

(* The ring and its two semaphores agree: every slot is counted exactly   *)
(* once, as free (empty's value, or claimed by a producer that has not    *)
(* yet filled it), filled (count), or freed by a consumer that has not    *)
(* yet posted empty; full's value plus the items producers have not yet   *)
(* posted and consumers have claimed but not taken equals count.  Hence   *)
(* the ring never over- or underflows and in = out + count modulo size.   *)
RingAccounting ==
    /\ sem[EMPTY] + At(Producers, "p_put") + ring.count + At(Consumers, "c_post")
         = BUFFER_SIZE
    /\ sem[FULL] + At(Producers, "p_post") + At(Consumers, "c_get") = ring.count
    /\ sem[EMPTY] >= 0 /\ sem[FULL] >= 0
    /\ ring.count \in 0..BUFFER_SIZE
    /\ ring.in = (ring.out + ring.count) % BUFFER_SIZE

(* The mutex is held by at most one thread, and by the one mutex_lock      *)
(* recorded as owner: every thread between its mutex_lock and             *)
(* mutex_unlock (or cond_wait's release) is the owner.                     *)
MutexHolding == {"m_cs", "cw_wait", "cw_unlock", "cs_signal", "cs_unlock"}
MutexExclusion ==
    \A t \in Threads :
        pc[t] \in MutexHolding => mutex.locked /\ mutex.owner = t

(* The reader-writer lock admits either one writer or any number of       *)
(* readers, never both, and its readers count is the number of readers    *)
(* inside.                                                                 *)
RwExclusion ==
    /\ rw.readers = At(Readers, "r_cs")
    /\ At(Writers, "w_cs") <= 1
    /\ At(Writers, "w_cs") = 1 => rw.readers = 0 /\ rw.writer

(* No lost wakeup, the contract between every while/sleep loop of this   *)
(* file and the release that wakes it: a thread asleep on a channel       *)
(* sleeps only while what it waits for is unavailable (a semaphore at 0,  *)
(* the mutex locked, the rwlock held by a writer or, for a writer, by     *)
(* readers), and no more threads sleep on the condition than its waiters  *)
(* count lets cond_signal see.  Otherwise a post, unlock or signal has   *)
(* been missed and the sleeper stays asleep with the resource free.       *)
NoLostWakeup ==
    /\ \A t \in Threads :
          /\ chan[t] = "sem0" => sem[EMPTY] = 0
          /\ chan[t] = "sem1" => sem[FULL] = 0
          /\ chan[t] = "mutex" => mutex.locked
          /\ chan[t] = "rwlock" /\ t \in Readers => rw.writer
          /\ chan[t] = "rwlock" /\ t \in Writers => rw.writer \/ rw.readers > 0
    /\ Cardinality({t \in Threads : chan[t] = "cond"}) <= waiters

(* cond_wait never reaches sched() holding a spinlock: the kernel does not *)
(* panic "sched locks" however waiters and signallers interleave.          *)
NoSchedPanic == ~panicked
=============================================================================
