-------------------------------- MODULE Proc --------------------------------
(***************************************************************************)
(* The process table of the kernel, its sleep/wakeup protocol and its      *)
(* pluggable scheduler: kernel/proc.c, kernel/scheduler_ext.c and the      *)
(* process system calls of kernel/sysproc.c.                               *)
(*                                                                         *)
(* A slot of proc[] is an integer 1..NPROC (slot 1 is proc[0], initproc),  *)
(* so that table order, which every selector depends on, is the order of  *)
(* the integers.  A process's kernel thread is described by pc[p], the     *)
(* point it resumes at when a CPU runs it: "user" (in user mode, about to  *)
(* trap), one of the steps of kfork, or the code after a sleep() in kwait  *)
(* or sys_pause.  Spinlocks are not variables: every action is one         *)
(* critical section of the code, and a step of the code that releases a    *)
(* lock and takes another is split into two actions.                       *)
(***************************************************************************)
EXTENDS Naturals, Sequences, SequencesExt, FiniteSets

CONSTANTS
    NPROC,       \* number of slots of proc[]
    CPUs,        \* the harts running scheduler()
    MaxPid,      \* bound on allocpid(): kfork is disabled once nextpid > MaxPid
    NLevels,     \* MAX_PRIORITY_LEVELS of the MLFQ
    Policies,    \* selectors user code may install with sys_set_scheduler
    TargetPids,  \* pid arguments of sys_kill and sys_setpriority
    Priorities,  \* priority arguments of sys_setpriority
    NoChan,      \* p->chan == 0
    TicksChan    \* &ticks, the channel of sys_pause

Procs     == 1..NPROC
InitProc  == 1            \* initproc == &proc[0]
NoProc    == 0            \* a null struct proc *
Levels    == 0..(NLevels - 1)
RR        == "RR"         \* default_round_robin
PRIO      == "PRIO"       \* priority_scheduler
MLFQ      == "MLFQ"       \* mlfq_scheduler
DefaultPriority == 5      \* allocproc: p->priority = 5

VARIABLES
    state,             \* p->state
    pid,               \* p->pid
    parent,            \* p->parent (a slot, or NoProc)
    chan,              \* p->chan: a slot (kwait sleeps on the proc), TicksChan or NoChan
    killed,            \* p->killed
    priority,          \* p->priority
    mlfq_level,        \* p->mlfq_level
    cpu,               \* c->proc for every CPU
    select_next_proc,  \* the installed selector
    queue,             \* mlfq_sched.queues[l].processes[0..count-1]
    nextpid,           \* the next pid allocpid() hands out
    pc,                \* where the kernel thread of a slot resumes
    fork_np            \* kfork's locals: np, child_priority, child_level

vars == <<state, pid, parent, chan, killed, priority, mlfq_level, cpu,
          select_next_proc, queue, nextpid, pc, fork_np>>

ProcState == {"UNUSED", "USED", "SLEEPING", "RUNNABLE", "RUNNING", "ZOMBIE"}
PCs == {"user", "fork_parent", "fork_runnable", "fork_enqueue",
        "wait_sleep", "wait", "pause_sleep"}
NoFork == [np |-> NoProc, prio |-> 0, level |-> 0]

-----------------------------------------------------------------------------
(* Helpers of scheduler_ext.c and proc.c.  A definition marked (mutant)   *)
(* is a variant of the one after it with a plausible bug of that code; it *)
(* is not used by Spec and serves to show that a property can fail.       *)

\* mlfq_add_process: append at the tail unless the level already holds NPROC
MlfqAdd(q, p, l) ==
    IF Len(q[l]) < NPROC THEN [q EXCEPT ![l] = Append(@, p)] ELSE q

\* mlfq_remove_process: remove the first occurrence of p at level l
MlfqRemove(q, p, l) == [q EXCEPT ![l] = RemoveFirst(@, p)]

\* the queue operations of yield/sleep/kexit run only when MLFQ is installed
OnMlfq(q) == IF select_next_proc = MLFQ THEN q ELSE queue

\* wakeup(ch) called by `self`, applied to the state function st
Wakeup(st, ch, self) ==
    [q \in Procs |-> IF q # self /\ st[q] = "SLEEPING" /\ chan[q] = ch
                        THEN "RUNNABLE" ELSE st[q]]

Runnable == {p \in Procs : state[p] = "RUNNABLE"}

\* (mutant) the scan stops one slot early: p < &proc[NPROC-1]
RoundRobinShort ==
    LET r == {p \in Runnable : p < NPROC} IN IF r = {} THEN NoProc ELSE Min(r)

\* default_round_robin: the first RUNNABLE slot, scanning from proc[0]
RoundRobin == IF Runnable = {} THEN NoProc ELSE Min(Runnable)

\* priority_scheduler: the first RUNNABLE slot of the highest priority
PrioritySelect ==
    IF Runnable = {} THEN NoProc
    ELSE Min({p \in Runnable : \A q \in Runnable : priority[q] <= priority[p]})

\* mlfq_scheduler: the head of the first non-empty level, left in its queue
MlfqSelect ==
    LET nonEmpty == {l \in Levels : queue[l] # <<>>}
    IN  IF nonEmpty = {} THEN NoProc ELSE Head(queue[Min(nonEmpty)])

SelectNextProc ==
    CASE select_next_proc = RR   -> RoundRobin
      [] select_next_proc = PRIO -> PrioritySelect
      [] select_next_proc = MLFQ -> MlfqSelect

\* allocpid: hand out nextpid and advance it, under pid_lock
AllocPid == nextpid' = nextpid + 1

\* sched(): switch from the process to its hart's scheduler, which then
\* clears c->proc
Sched(c) == cpu' = [cpu EXCEPT ![c] = NoProc]

(* reparent(p): every child of p is handed to initproc, which is woken     *)
(* (wakeup(initproc)) for each one; the new parent function and states.    *)
Reparent(p) ==
    [parent |-> [q \in Procs |-> IF parent[q] = p THEN InitProc ELSE parent[q]],
     state  |-> IF \E q \in Procs : parent[q] = p
                  THEN Wakeup(state, InitProc, p) ELSE state]

\* p is the process c->proc, and its kernel thread is at point `at`
RunningAt(p, c, at) == cpu[c] = p /\ state[p] = "RUNNING" /\ pc[p] = at

\* killed(p): p->killed, read under p->lock
Killed(p) == killed[p]

\* p traps from user mode into a system call; usertrap() sends a killed
\* process to kexit instead
InSyscall(p, c) == RunningAt(p, c, "user") /\ ~Killed(p)

-----------------------------------------------------------------------------
\* procinit: every slot starts UNUSED
ProcInit == [p \in Procs |-> "UNUSED"]

\* scheduler_init: every MLFQ level is empty
SchedulerInit == [l \in Levels |-> <<>>]

Init ==   \* userinit: initproc is RUNNABLE, round-robin is installed
    /\ state = [ProcInit EXCEPT ![InitProc] = "RUNNABLE"]
    /\ pid = [p \in Procs |-> IF p = InitProc THEN 1 ELSE 0]
    /\ parent = [p \in Procs |-> NoProc]
    /\ chan = [p \in Procs |-> NoChan]
    /\ killed = [p \in Procs |-> FALSE]
    /\ priority = [p \in Procs |-> IF p = InitProc THEN DefaultPriority ELSE 0]
    /\ mlfq_level = [p \in Procs |-> 0]
    /\ cpu = [c \in CPUs |-> NoProc]
    /\ select_next_proc = RR
    /\ queue = SchedulerInit
    /\ nextpid = 2
    /\ pc = [p \in Procs |-> "user"]
    /\ fork_np = [p \in Procs |-> NoFork]

\* (mutant) scheduler() without the RUNNABLE re-check under p->lock
SchedulerNoRecheck(c) ==
    /\ cpu[c] = NoProc
    /\ LET p == SelectNextProc IN
         /\ p # NoProc
         /\ state' = [state EXCEPT ![p] = "RUNNING"]
         /\ cpu' = [cpu EXCEPT ![c] = p]
    /\ UNCHANGED <<pid, parent, chan, killed, priority, mlfq_level,
                   select_next_proc, queue, nextpid, pc, fork_np>>

(* scheduler(): pick with select_next_proc(), then under p->lock run it    *)
(* only if it is still RUNNABLE; otherwise release and loop (or wfi).      *)
Scheduler(c) ==
    /\ cpu[c] = NoProc
    /\ LET p == SelectNextProc IN
         /\ p # NoProc
         /\ state[p] = "RUNNABLE"
         /\ state' = [state EXCEPT ![p] = "RUNNING"]
         /\ cpu' = [cpu EXCEPT ![c] = p]
    /\ UNCHANGED <<pid, parent, chan, killed, priority, mlfq_level,
                   select_next_proc, queue, nextpid, pc, fork_np>>

(* yield(): under MLFQ remove p from its level and re-append it, become    *)
(* RUNNABLE and switch to the scheduler; q0 is the queue before the call.  *)
YieldFrom(p, c, q0) ==
    /\ queue' = IF select_next_proc = MLFQ
                   THEN MlfqAdd(MlfqRemove(q0, p, mlfq_level[p]), p, mlfq_level[p])
                   ELSE q0
    /\ state' = [state EXCEPT ![p] = "RUNNABLE"]
    /\ Sched(c)
    /\ pc' = [pc EXCEPT ![p] = "user"]

(* sleep(ch, lk) up to sched(): under MLFQ leave the queue, record the     *)
(* channel and become SLEEPING; `resume` is the code after the call.       *)
Sleep(p, c, ch, resume) ==
    /\ queue' = OnMlfq(MlfqRemove(queue, p, mlfq_level[p]))
    /\ chan' = [chan EXCEPT ![p] = ch]
    /\ state' = [state EXCEPT ![p] = "SLEEPING"]
    /\ Sched(c)
    /\ pc' = [pc EXCEPT ![p] = resume]

(* sleep() after sched() returns: clear the channel; under MLFQ promote    *)
(* one level and re-enqueue; then return into kwait's loop or sys_pause.   *)
SleepReturn(p, c) ==
    /\ cpu[c] = p /\ state[p] = "RUNNING"
    /\ pc[p] \in {"wait_sleep", "pause_sleep"}
    /\ LET lvl == IF mlfq_level[p] > 0 THEN mlfq_level[p] - 1 ELSE mlfq_level[p]
       IN  /\ mlfq_level' = [mlfq_level EXCEPT ![p] = IF select_next_proc = MLFQ
                                                     THEN lvl ELSE @]
           /\ queue' = OnMlfq(MlfqAdd(queue, p, lvl))
    /\ chan' = [chan EXCEPT ![p] = NoChan]
    \* sys_pause(1): woken by the clock the loop ends, woken by kkill the
    \* killed check returns -1; both return to user mode
    /\ pc' = [pc EXCEPT ![p] = IF @ = "wait_sleep" THEN "wait" ELSE "user"]
    /\ UNCHANGED <<state, pid, parent, killed, priority, cpu, select_next_proc,
                   nextpid, fork_np>>

(* kfork up to release(&np->lock): allocproc takes the first UNUSED slot   *)
(* and a fresh pid and resets priority and MLFQ level (not killed); the    *)
(* copy of memory, files and cwd is not modelled.  With no UNUSED slot     *)
(* kfork returns -1 and nothing changes.                                   *)
ForkAlloc(p, c) ==
    /\ InSyscall(p, c)
    /\ nextpid <= MaxPid
    /\ \E q \in Procs : state[q] = "UNUSED"
    /\ LET np == Min({q \in Procs : state[q] = "UNUSED"}) IN
         /\ state' = [state EXCEPT ![np] = "USED"]
         /\ pid' = [pid EXCEPT ![np] = nextpid]
         /\ priority' = [priority EXCEPT ![np] = DefaultPriority]
         /\ mlfq_level' = [mlfq_level EXCEPT ![np] = 0]
         /\ fork_np' = [fork_np EXCEPT ![p] = [NoFork EXCEPT !.np = np]]
    /\ AllocPid
    /\ pc' = [pc EXCEPT ![p] = "fork_parent"]
    /\ UNCHANGED <<parent, chan, killed, cpu, select_next_proc, queue>>

\* kfork: np->parent = p under wait_lock
ForkSetParent(p, c) ==
    /\ RunningAt(p, c, "fork_parent")
    /\ parent' = [parent EXCEPT ![fork_np[p].np] = p]
    /\ pc' = [pc EXCEPT ![p] = "fork_runnable"]
    /\ UNCHANGED <<state, pid, chan, killed, priority, mlfq_level, cpu,
                   select_next_proc, queue, nextpid, fork_np>>

\* kfork: under np->lock, np becomes RUNNABLE; child_priority and
\* child_level are read
ForkRunnable(p, c) ==
    /\ RunningAt(p, c, "fork_runnable")
    /\ LET np == fork_np[p].np IN
         /\ state' = [state EXCEPT ![np] = "RUNNABLE"]
         /\ fork_np' = [fork_np EXCEPT ![p] = [np |-> np, prio |-> priority[np],
                                                level |-> mlfq_level[np]]]
    /\ pc' = [pc EXCEPT ![p] = "fork_enqueue"]
    /\ UNCHANGED <<pid, parent, chan, killed, priority, mlfq_level, cpu,
                   select_next_proc, queue, nextpid>>

(* kfork after np->lock is released: under MLFQ append np at child_level;  *)
(* if child_priority > p->priority the parent yields; return pid.          *)
ForkEnqueue(p, c) ==
    /\ RunningAt(p, c, "fork_enqueue")
    /\ LET f == fork_np[p]
           q1 == OnMlfq(MlfqAdd(queue, f.np, f.level))
       IN  IF f.prio > priority[p]
             THEN YieldFrom(p, c, q1)
             ELSE /\ queue' = q1
                  /\ pc' = [pc EXCEPT ![p] = "user"]
                  /\ UNCHANGED <<state, cpu>>
    /\ fork_np' = [fork_np EXCEPT ![p] = NoFork]
    /\ UNCHANGED <<pid, parent, chan, killed, priority, mlfq_level,
                   select_next_proc, nextpid>>

\* (mutant) kexit without wakeup(p->parent)
ExitNoWakeParent(p, c) ==
    /\ RunningAt(p, c, "user")
    /\ p # InitProc
    /\ LET kids == {q \in Procs : parent[q] = p} IN
         /\ state' = [IF kids # {} THEN Wakeup(state, InitProc, p) ELSE state
                         EXCEPT ![p] = "ZOMBIE"]
         /\ parent' = [q \in Procs |-> IF q \in kids THEN InitProc ELSE parent[q]]
    /\ queue' = OnMlfq(MlfqRemove(queue, p, mlfq_level[p]))
    /\ Sched(c)
    /\ UNCHANGED <<pid, chan, killed, priority, mlfq_level, select_next_proc,
                   nextpid, pc, fork_np>>

\* (mutant) kexit without reparent()
ExitNoReparent(p, c) ==
    /\ RunningAt(p, c, "user")
    /\ p # InitProc
    /\ state' = [Wakeup(state, parent[p], p) EXCEPT ![p] = "ZOMBIE"]
    /\ queue' = OnMlfq(MlfqRemove(queue, p, mlfq_level[p]))
    /\ Sched(c)
    /\ UNCHANGED <<pid, parent, chan, killed, priority, mlfq_level,
                   select_next_proc, nextpid, pc, fork_np>>

(* kexit, under wait_lock: reparent() hands every child to initproc and    *)
(* wakes initproc once per child, wakeup(p->parent), then under p->lock    *)
(* leave the MLFQ queue and become ZOMBIE; sched() frees the CPU.  The     *)
(* closing of files and the iput of cwd are left out.  initproc panics.    *)
Exit(p, c) ==
    /\ RunningAt(p, c, "user")
    /\ p # InitProc
    /\ LET r == Reparent(p)
       IN  /\ state' = [Wakeup(r.state, parent[p], p) EXCEPT ![p] = "ZOMBIE"]
           /\ parent' = r.parent
    /\ queue' = OnMlfq(MlfqRemove(queue, p, mlfq_level[p]))
    /\ Sched(c)
    /\ UNCHANGED <<pid, chan, killed, priority, mlfq_level, select_next_proc,
                   nextpid, pc, fork_np>>

\* freeproc(z) as kwait applies it to state function st
FreeProc(z) ==
    /\ pid' = [pid EXCEPT ![z] = 0]
    /\ parent' = [parent EXCEPT ![z] = NoProc]
    /\ chan' = [chan EXCEPT ![z] = NoChan]
    /\ killed' = [killed EXCEPT ![z] = FALSE]

(* kwait, one pass of its loop under wait_lock, entered from a system call *)
(* or after a sleep: reap the first ZOMBIE child (freeproc) and return its *)
(* pid; with no child, or when killed, return -1; otherwise sleep on p.    *)
Wait(p, c) ==
    /\ \/ InSyscall(p, c)
       \/ RunningAt(p, c, "wait")
    /\ LET kids    == {q \in Procs : parent[q] = p}
           zombies == {q \in kids : state[q] = "ZOMBIE"}
       IN  \/ /\ zombies # {}
              /\ state' = [state EXCEPT ![Min(zombies)] = "UNUSED"]
              /\ FreeProc(Min(zombies))
              /\ pc' = [pc EXCEPT ![p] = "user"]
              /\ UNCHANGED <<cpu, queue>>
           \/ /\ zombies = {}
              /\ kids = {} \/ Killed(p)
              /\ pc' = [pc EXCEPT ![p] = "user"]
              /\ UNCHANGED <<state, pid, parent, chan, killed, cpu, queue>>
           \/ /\ zombies = {}
              /\ kids # {} /\ ~Killed(p)
              /\ Sleep(p, c, p, "wait_sleep")
              /\ UNCHANGED <<pid, parent, killed>>
    /\ UNCHANGED <<priority, mlfq_level, select_next_proc, nextpid, fork_np>>

\* sys_pause(1): not killed, so sleep on &ticks
Pause(p, c) ==
    /\ InSyscall(p, c)
    /\ Sleep(p, c, TicksChan, "pause_sleep")
    /\ UNCHANGED <<pid, parent, killed, priority, mlfq_level, select_next_proc,
                   nextpid, fork_np>>

\* the timer interrupt gives up the CPU with yield()
Yield(p, c) ==
    /\ InSyscall(p, c)
    /\ YieldFrom(p, c, queue)
    /\ UNCHANGED <<pid, parent, chan, killed, priority, mlfq_level,
                   select_next_proc, nextpid, fork_np>>

\* (mutant) kkill that makes its target RUNNABLE whatever its state, short
\* of RUNNING
KillWakeAny(p, c, target) ==
    /\ InSyscall(p, c)
    /\ \E q \in Procs : pid[q] = target
    /\ LET q == Min({s \in Procs : pid[s] = target}) IN
         /\ killed' = [killed EXCEPT ![q] = TRUE]
         /\ state' = [state EXCEPT ![q] = IF @ = "RUNNING" THEN @ ELSE "RUNNABLE"]
    /\ UNCHANGED <<pid, parent, chan, priority, mlfq_level, cpu,
                   select_next_proc, queue, nextpid, pc, fork_np>>

(* sys_kill -> kkill(target): the first slot, in table order, whose pid is *)
(* target gets killed = 1 and, if SLEEPING, becomes RUNNABLE.  The scan    *)
(* does not look at the state, so pid 0 matches an UNUSED slot.           *)
Kill(p, c, target) ==
    /\ InSyscall(p, c)
    /\ \E q \in Procs : pid[q] = target
    /\ LET q == Min({s \in Procs : pid[s] = target}) IN
         /\ killed' = [killed EXCEPT ![q] = TRUE]
         /\ state' = [state EXCEPT ![q] = IF @ = "SLEEPING" THEN "RUNNABLE" ELSE @]
    /\ UNCHANGED <<pid, parent, chan, priority, mlfq_level, cpu,
                   select_next_proc, queue, nextpid, pc, fork_np>>

\* (mutant) sys_setpriority without its range check
SetPriorityUnchecked(p, c, target, prio) ==
    /\ InSyscall(p, c)
    /\ target = 0 \/ \E q \in Procs : pid[q] = target
    /\ LET q == IF target = 0 THEN p ELSE Min({s \in Procs : pid[s] = target})
       IN  priority' = [priority EXCEPT ![q] = prio]
    /\ UNCHANGED <<state, pid, parent, chan, killed, mlfq_level, cpu,
                   select_next_proc, queue, nextpid, pc, fork_np>>

(* sys_setpriority(target, prio): -EINVAL unless 0 <= prio <= 9; pid 0 is *)
(* the caller, otherwise the first slot whose pid matches; -ESRCH if none. *)
SetPriority(p, c, target, prio) ==
    /\ InSyscall(p, c)
    /\ prio \in 0..9
    /\ target = 0 \/ \E q \in Procs : pid[q] = target
    /\ LET q == IF target = 0 THEN p ELSE Min({s \in Procs : pid[s] = target})
       IN  priority' = [priority EXCEPT ![q] = prio]
    /\ UNCHANGED <<state, pid, parent, chan, killed, mlfq_level, cpu,
                   select_next_proc, queue, nextpid, pc, fork_np>>

\* sys_set_scheduler: install a selector; no queue is rebuilt
SetScheduler(p, c, policy) ==
    /\ InSyscall(p, c)
    /\ select_next_proc' = policy
    /\ UNCHANGED <<state, pid, parent, chan, killed, priority, mlfq_level, cpu,
                   queue, nextpid, pc, fork_np>>

(* clock interrupt (trap.c, outside the repository): wakeup(&ticks)        *)
Tick ==
    /\ \E q \in Procs : state[q] = "SLEEPING" /\ chan[q] = TicksChan
    /\ state' = Wakeup(state, TicksChan, NoProc)
    /\ UNCHANGED <<pid, parent, chan, killed, priority, mlfq_level, cpu,
                   select_next_proc, queue, nextpid, pc, fork_np>>

ProcStep(p, c) ==
    \/ ForkAlloc(p, c) \/ ForkSetParent(p, c) \/ ForkRunnable(p, c)
    \/ ForkEnqueue(p, c) \/ Exit(p, c) \/ Wait(p, c) \/ Pause(p, c)
    \/ SleepReturn(p, c) \/ Yield(p, c)
    \/ \E t \in TargetPids : Kill(p, c, t)
    \/ \E t \in TargetPids \cup {0}, pr \in Priorities : SetPriority(p, c, t, pr)
    \/ \E pol \in Policies : SetScheduler(p, c, pol)

Next ==
    \/ \E c \in CPUs : Scheduler(c)
    \/ \E c \in CPUs, p \in Procs : ProcStep(p, c)
    \/ Tick

Spec == Init /\ [][Next]_vars

(* Each hart loops in scheduler() for ever, and the timer interrupt        *)
(* preempts a process in user mode: weak fairness of both.                 *)
FairSpec ==
    /\ Spec
    /\ \A c \in CPUs : WF_vars(Scheduler(c))
    /\ \A c \in CPUs, p \in Procs : WF_vars(Yield(p, c))

-----------------------------------------------------------------------------
TypeOK ==
    /\ state \in [Procs -> ProcState]
    /\ pid \in [Procs -> 0..MaxPid]
    /\ parent \in [Procs -> Procs \cup {NoProc}]
    /\ chan \in [Procs -> Procs \cup {NoChan, TicksChan}]
    /\ killed \in [Procs -> BOOLEAN]
    /\ priority \in [Procs -> 0..9]
    /\ mlfq_level \in [Procs -> Levels]
    /\ cpu \in [CPUs -> Procs \cup {NoProc}]
    /\ select_next_proc \in {RR, PRIO, MLFQ}
    /\ queue \in [Levels -> Seq(Procs)]
    /\ \A l \in Levels : Len(queue[l]) <= NPROC
    /\ nextpid \in 2..(MaxPid + 1)
    /\ pc \in [Procs -> PCs]
    /\ fork_np \in [Procs -> [np : Procs \cup {NoProc}, prio : 0..9, level : Levels]]

(* A process is RUNNING exactly when one CPU's c->proc names it: the       *)
(* scheduler's re-check of RUNNABLE under p->lock must keep two harts from *)
(* dispatching the same process, even when a selector returns a stale one. *)
RunningOnOneCpu ==
    /\ \A p \in Procs : state[p] = "RUNNING" <=> \E c \in CPUs : cpu[c] = p
    /\ \A c, d \in CPUs : c # d /\ cpu[c] # NoProc => cpu[c] # cpu[d]

(* No wakeup of a waiting parent is lost: a process asleep in kwait never  *)
(* has a ZOMBIE child, whether the child exited itself (wakeup(p->parent)) *)
(* or was handed to initproc by reparent() (wakeup(initproc)).             *)
WaitWakeupNotLost ==
    \A p \in Procs :
        state[p] = "SLEEPING" /\ chan[p] = p =>
            \A q \in Procs : parent[q] = p => state[q] # "ZOMBIE"

(* Every process past kfork's np->parent = p, other than initproc, has a   *)
(* parent that is alive: kexit reparents its children before it becomes a *)
(* ZOMBIE, and kwait frees only ZOMBIEs, so no process is orphaned to a    *)
(* freed or dead slot.                                                     *)
NoOrphans ==
    \A q \in Procs \ {InitProc} :
        state[q] \in {"RUNNABLE", "RUNNING", "SLEEPING", "ZOMBIE"} =>
            /\ parent[q] \in Procs
            /\ state[parent[q]] \notin {"UNUSED", "USED", "ZOMBIE"}

(* A RUNNABLE process is never stranded: while some process is RUNNABLE,   *)
(* the harts looping in scheduler() eventually run some process.  It fails *)
(* if the installed selector can return no process, or only a stale one,  *)
(* while a RUNNABLE one exists.                                            *)
WorkConserving ==
    (\E p \in Procs : state[p] = "RUNNABLE") ~> (\E p \in Procs : state[p] = "RUNNING")

(* Round-robin fairness (spec section 8): every RUNNABLE process is        *)
(* eventually run, however the others behave, when the timer keeps        *)
(* preempting the running one.                                             *)
StarvationFree ==
    \A p \in Procs : state[p] = "RUNNABLE" ~> state[p] = "RUNNING"

(* Every entry of an MLFQ queue is a process that can run: sleep() and     *)
(* kexit() take a process out of its queue before it stops being           *)
(* RUNNABLE or RUNNING, so mlfq_scheduler() never returns a dead one.      *)
QueuedAreLive ==
    \A l \in Levels : \A i \in 1..Len(queue[l]) :
        state[queue[l][i]] \in {"RUNNABLE", "RUNNING"}

-----------------------------------------------------------------------------
(* The refinement mapping to the lifecycle of spec section 4.7: each       *)
(* procstate is a life stage, and the parent pointers and killed flags are *)
(* the abstract ones.  CPUs, channels, queues, priorities and pids are     *)
(* hidden.                                                                 *)
StageName == [UNUSED |-> "free", USED |-> "embryo", RUNNABLE |-> "ready",
              RUNNING |-> "running", SLEEPING |-> "blocked", ZOMBIE |-> "zombie"]

Life == INSTANCE ProcLifecycle
            WITH Slots <- Procs, InitSlot <- InitProc, NoSlot <- NoProc,
                 lstate <- [p \in Procs |-> StageName[state[p]]],
                 lparent <- parent, lkilled <- killed

(* The process table implements the lifecycle: every step of scheduler(),  *)
(* kfork, kexit, kwait, sleep/wakeup, kkill and the timer is a lifecycle   *)
(* step or leaves the stages, parents and killed flags alone.  A fresh     *)
(* slot is not killed, only the running parent reaps its zombie, exit      *)
(* wakes no one but the parent and init, and kill wakes only a sleeper.    *)
LifecycleRefined == Life!LSpec
=============================================================================
