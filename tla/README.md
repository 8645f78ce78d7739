# TLA+ models of the xv6-riscv teaching kernel

This directory holds TLA+ models of the kernel under `src/xv6-riscv-riscv/kernel`.
The TLC configurations check them, and `PROJECT.json` records three things:
- which definition models which lines of C;
- which runs check what;
- the hazards of the code and the properties that cover them.

## The system

The kernel is xv6 for RISC-V, extended with several features:
- pluggable schedulers: round-robin, priority and MLFQ (`proc.c`, `scheduler_ext.c`);
- a POSIX-style `errno` set by the system-call dispatcher (`syscall.c`);
- copy-on-write fork with per-page reference counts (`kalloc.c`, `cow_control.c`);
- kernel semaphores, mutexes, condition variables and reader-writer locks (`sync_primitives.c`);
- a hashed LRU buffer cache (`bcache_enhanced.c`);
- a file system with multi-level indirect blocks and symbolic links (`fs.c`, `sysfile.c`).

These parts interact in the following ways:
- Every blocking primitive is built on `sleep`/`wakeup` in `proc.c`. That makes the process table the core that everything else rests on.
- A process's state (`UNUSED`, `USED`, `SLEEPING`, `RUNNABLE`, `RUNNING`, `ZOMBIE`) is changed by three groups of code:
  - `kfork`, `kexit` and `kwait`;
  - `sleep`, `wakeup`, `yield` and `kkill`;
  - the per-hart `scheduler()` loop.
- `scheduler()` asks the installed selector `select_next_proc` for a process.
- `set_scheduler` can swap the selector at run time.
- The MLFQ selector reads its own queues, which `yield`, `sleep`, `kexit` and `kfork` maintain. The other selectors scan `proc[]`.

Code outside `src/` that the kernel relies on:
- `trap.c`: timer preemption, and the kill check on return to user mode;
- `vm.c`: the COW fault handler and `uvmcopy`.

Where a model needs this code, it follows the description in `spec.md`, and `PROJECT.json` marks those definitions `spec_modelled`.

## Modules

### `Proc.tla` (with `MCProc.tla`): processes, sleep/wakeup and the scheduler

This module covers `proc.c`, `scheduler_ext.c` and the process system calls of `sysproc.c`.

**State.** A slot of `proc[]` is an integer in `1..NPROC`. Slot 1 is `proc[0]`, which is `initproc`. Using integers makes "table order" the order of the numbers, and every selector's tie-breaking depends on table order. The variables carry the fields of `struct proc` that control flow depends on:
- `state`, `pid`, `parent`, `chan`, `killed`, `priority`, `mlfq_level`;
- `cpu[c]` for `c->proc`;
- `select_next_proc`;
- `queue`, the MLFQ queues, as sequences;
- `nextpid`.

Two further variables hold the kernel thread's own progress:
- `pc[p]` is the point where process `p`'s kernel code resumes when a hart runs it. It is `"user"`, one of the kfork steps, or the code after a `sleep` in `kwait`/`sys_pause`.
- `fork_np[p]` holds kfork's local variables.

**Actions.** Each action is one critical section of the C code, so spinlocks need no variables of their own. Where the code drops a lock and takes another, the handler is split, because another hart can run in between:
- `kfork` becomes `ForkAlloc` (allocproc, up to `release(&np->lock)`), `ForkSetParent` (under `wait_lock`), `ForkRunnable` (under `np->lock`) and `ForkEnqueue` (the MLFQ add and the priority yield).
- `sleep` becomes `Sleep` (up to `sched()`) and `SleepReturn` (after it).

The remaining actions map to the code as follows:
- `Exit` is all of `kexit` under `wait_lock`, including `reparent`.
- `Wait` is one pass of `kwait`'s loop.
- The system calls map directly: `Kill` (`kkill`), `SetPriority`, `SetScheduler` and `Pause` (`sys_pause(1)`).
- `Yield` is the timer's `yield()`.
- `Scheduler(c)` is one iteration of `scheduler()` that dispatches a process.
- `Tick` is the clock's `wakeup(&ticks)`.

A killed process in user mode can only `Exit` (`InSyscall`), as `usertrap` does.

**Inputs.** The arguments of the system calls come from small constant sets:
- `TargetPids` for kill and setpriority: `{3}`. It leaves out pid 0, whose `kill(0)` breaks `LifecycleRefined` (see the hazards below), and init's pid, since `kill(1)` makes init exit, which panics.
- `Priorities`, which includes one out-of-range value that `sys_setpriority` must reject.
- `Policies` for `sys_set_scheduler`.

### `Errno.tla` (with `MCErrno.tla`): the dispatcher's errno rule

This module covers `syscall()` in `syscall.c` and `sys_geterrno` in `sysproc.c`, as one process sees them.
- **State.** The state is `errno` (`p->errno`) and `a0` (the result in the trap frame).
- **Conversion.** `Dispatch(ret)` is the conversion `syscall()` applies to every handler's return: a negative value sets `errno = -ret` and `a0 = -1`, and any other value sets `errno = EOK` and is passed through.
- **Actions.** `Call(r)` is any handler returning `r` from `Returns`. `GetErrno` is `sys_geterrno`, which goes through the same dispatcher. `Unknown` is an unknown system-call number, which sets `ENOSYS`.

### `SyncPrims.tla` (with `MCSyncPrims.tla`): semaphores, mutex, condition variable, rwlock

This module covers `sync_primitives.c`. Each primitive is a critical section under its spinlock, and it sleeps and wakes with the rules of `Proc`.
- **Callers.** Nothing in the repository calls these primitives, so threads in fixed roles drive them. Each role is the loop a caller would run: producer, consumer, mutex user, condition waiter and signaller, reader, writer.
- **Producer and consumer.** They are the code's own `producer()`/`consumer()` over the ring buffer.
- **`cond_wait`.** It is split at its `sleep()`. On wake-up it calls `mutex_lock` while it still holds the condition's spinlock. If the mutex is owned, `mutex_lock` sleeps holding that spinlock, and `sched()` panics. This is `panicked`.

### `Kalloc.tla` (with `MCKalloc.tla`): frame allocator, COW reference counts and sbrk

This module covers `kalloc.c`: `kalloc`, `kfree`, `kunrefpage`, and the counts that `krefpage`/`krefcount` keep. It also covers the address-space size: `sys_sbrk` (`sysproc.c`), `growproc`, kfork's `np->sz = p->sz` and freeproc's `uvmfree(p->sz)` (`proc.c`).
- **Two locks.** The code uses two locks: `kmem.lock` for the free list and `pg_refcnt.lock` for the counts. Spec section 5 describes a single lock. Each critical section is therefore an action:
  - `KallocPop` / `KallocSet`;
  - `KUnrefPage`, then `KFreeZero` / `KFreePush`.
- **Users from the spec.** The callers that keep the counts are in `vm.c`/`trap.c`, which are not in the repository. They follow spec sections 4.7 and 4.8 and are marked `spec_modelled`:
  - `GrowMap` / `GrowUndo`: uvmalloc, one `kalloc` and one mapping per page. When `kalloc` fails, `uvmdealloc` unmaps the pages mapped so far;
  - `ShrinkStep`: uvmdealloc for a negative `n`;
  - `VmFault` / `FaultMap`: the lazy fault on a page below `p->sz`. Out of memory, the process is killed and exits;
  - `UnmapPage`: one page of `uvmunmap(do_free)`, which skips a page a lazy sbrk never mapped;
  - `Fork`: uvmcopy, which shares every page COW and calls `krefpage` per page;
  - `CowFault` / `CowCopy`: the fault handler, which upgrades in place when the count is 1 and otherwise copies and unrefs;
  - `Exit` / `ExitStep`: freeproc's `uvmfree(pagetable, p->sz)` and `p->sz = 0`.
- **sbrk from the code.** `SysSbrk(p, n, t)` is `sys_sbrk`: eager or negative goes to `Growproc`, lazy only raises `sz` unless it passes `TRAPFRAME`. `Growproc` fails past `TRAPFRAME`, and for a negative `n` that wraps below 0 it leaves `sz` unchanged, as `uvmdealloc` does. Sizes are whole pages, and `TRAPFRAME` is `NPAGES`. `MCKalloc` gives `n` the values -1, 1 and 2.
- **View.** `KallocView` drops a call's locals (`r`, `ret`, `va`, `newsz`) where every path writes them before reading them, so states that differ only in stale locals are one state.
- **State.** `pc`, `r` and `ret` hold each address space's position in a call, so another hart can act in every window between two locks.

### `BCache.tla` (with `MCBCache.tla`): the hashed LRU buffer cache

This module covers `get_block`, `put_block`, `sync_block` and `flush_all_blocks` of `bcache_enhanced.c`, called by concurrent kernel threads.
- **Hash table.** It is abstracted to the key each buffer carries.
- **LRU list.** It is a sequence.
- **Contents.** Block contents are versions. `disk[k]` is the version on the device, `latest[k]` the last version written through the cache, and a buffer's `data` is a `<<block, version>>` pair, or `NoData` before its first read. `MarkDirty` is the `mark_dirty` of spec 4.2: the holder writes a new version and sets `dirty`.
- **`get_block`.** It is split where the code releases the cache spinlock before `acquiresleep`: `GetBlock` is the lookup or rekeying, and `AcquireSleep` is taking the sleep-lock plus the read on a miss. The rekeying clears `dirty` without a write-back, as the code does. No free buffer is the `panic` of line 120, a `pc` of its own.
- **`flush_all_blocks`.** It holds `bcache.lock` for its whole loop, so it is the variable `flusher`, and every other action that takes the cache lock waits while it is set. `FlushStart`, `FlushBuf` (one dirty buffer, in any order) and `FlushEnd` are its steps. `FlushBuf` on a buffer whose sleep-lock another thread holds is the `sched locks` panic: `acquiresleep` sleeps with a spinlock held.
- **Bounds.** `MCBCache` has 2 buffers, 2 threads, 3 blocks and `MaxVersion = 1`. Three blocks are needed for a dirty buffer to be recycled while a thread still wants its block back.

### `ProcLifecycle.tla`: what the process table promises

This is an abstract specification, with no harts, locks, channels or selectors. A slot is `free`, `embryo`, `ready`, `running`, `blocked` or `zombie`, with a parent and a killed flag. Only a running slot adopts a new embryo, blocks, exits or reaps. Exit hands the children to init and may wake the parent and init. A zombie is freed only by its parent, and the freed slot is not killed. Kill marks a slot that is not free and wakes it if it is blocked.

`Proc.tla` instantiates it as `Life`, mapping `UNUSED, USED, RUNNABLE, RUNNING, SLEEPING, ZOMBIE` to the six stages (`StageName`) and `parent` and `killed` to themselves. `LifecycleRefined == Life!LSpec` is a PROPERTY of `proc_safety`, so every step of `Proc` is a step of the lifecycle or leaves it unchanged. Scheduling, sleeping on a channel, the MLFQ queues and priorities are stuttering steps of the abstraction.

### `FsInode.tla`, `Bmap.tla`, `Path.tla` and `WriteiBounds.tla` (with `MCFsInode.tla`): inodes, paths, block maps and the file calls

This module covers the inode layer of `fs.c` and the namespace system calls of `sysfile.c` that drive it.
- **Inode layer.** `iget`, `idup`, `ilock`, `iput` and `iunlockput`, `ialloc`, `dirlookup`, `dirlink` and `isdirempty`. `iput` frees the dinode when it drops the last reference to an inode with `nlink` 0.
- **System calls.** `sys_open` (with `O_CREATE` and `O_TRUNC`), `sys_mkdir` (through `create`), `sys_unlink`, `sys_link`, `sys_chdir`, `sys_symlink`, `sys_dup` and `sys_close`.
- **`sys_symlink` and the panic.** `SymlinkAt` follows `sys_symlink` through `nameiparent`, `ilock(dp)` and `dirlookup`. An existing name fails the call. Otherwise `ialloc(T_SYMLINK)` returns `ERR_PTR_CODE(-EINVAL)`, which the code tests only against 0, and `ilock` on that pointer faults the kernel. The model sets the process's pc to `panic`, with `dp` still locked. `Panicked` then holds and every other action is disabled, so the only step left is `Halt`. `panic()` and `kerneltrap` are in files that are not in the repository, so this stop is modelled from the spec.
- **File data.** `Write` and `Read` are `sys_write` and `sys_read` (`argfd`, then `filewrite`/`fileread` of `file.c`, which is not in the repository). They call the operators `Writei` and `Readi`, which move one whole block at the descriptor's offset, with the early returns for `off > ip->size` and for reading at the end. Both go through `bmap`, which allocates every missing level of the block's path with `balloc` (the least free block of the bitmap). When `balloc` fails, bmap returns 0 with the levels it already allocated still linked, and writei stops. `itrunc` (from `O_TRUNC`, from the last `iput` of an unlinked inode, and through `ireclaim`) frees every block of the map and sets `size` 0. A block map is a function from paths to blocks: `<<s>>` is `addrs[s]`, `<<s, i>>` entry `i` of the block it names, and so on. Bytes, byte offsets and the log are left out.
- **`Bmap.tla`.** `BmapPath(bn)` translates bmap's four cases and their `-`, `/` and `%` arithmetic. `BmapMatchesRef` compares it with a RECURSIVE reference numbering for every block below `MAXFILE`. `MCFsInode` states it as an ASSUME, so TLC checks it before every FsInode run. NamexSymlinkRef's `NDIRECT = 1, NINDIRECT = 2` reaches all four cases (`MAXFILE = 15`).
- **`WriteiBounds.tla`.** This module covers writei's two tests (`off + n < off` in 32-bit `uint`, and `off + n > MAXFILE*BSIZE` in `size_t`) and its loop, which hands `off / BSIZE` to `bmap` chunk by chunk. The width is a constant `UINT_BITS`. `MCFsInode` sets 4 bits and 2-byte blocks, so that `2^4 < MAXFILE*BSIZE = 28`, just as `2^32 < MAXFILE*BSIZE` holds in `fs.h`. `WriteiBlocksInRange`, an invariant of `fs_safety`, looks at every file on the disk in every state. For any `off` and `n` a caller could pass, an accepted write to that file asks `bmap` for exactly the contiguous blocks of its bytes, all below `MAXFILE`. The overflow test is what keeps the loop from wrapping to block 0; the `MAXFILE` bound holds by the width alone, which is why `bmap`'s out-of-range panic is unreachable. The answer for each file size is a constant table (`WriteiOk`), which TLC computes once. At these widths the `MAXFILE` test never fires, which is the `fs.c:882` hazard: the overflow test alone sets the limit.
- **`Path.tla`.** FsInode walks a path as the record `[abs, elems]`. `Path.tla` computes that record from the characters of a path as the code does. `DropSlashes`, `ElemLen`, `NameOf` and `Skipelem` are the steps of `skipelem`, with the name cut to `DIRSIZ` bytes. `Elems` is namex's `while((path = skipelem(path, name)) != 0)` loop, and `NamexPath` adds namex's choice of start. `SkipelemMatchesRef` compares the loop with a reference split into maximal runs of non-slashes. It also checks that `skipelem` leaves an empty rest exactly at the last element, which is the test `nameiparent` relies on. `MCFsInode` states it as an ASSUME over every string of up to 5 characters over `{/, a, b}`, with `DIRSIZ = 2`. So leading, repeated and trailing slashes, and elements cut at `DIRSIZ`, are all covered.
- **Crash.** A crash and reboot ends with `fsinit`'s `ireclaim`.
- **State.** The state is the dinodes (`disk`, with `size` and `addrs`), the free-block bitmap (`bitmap`), the inode table (`itable`), the file table (`ftable`), each process's descriptors and working directory, and where each process is in its call.
- **Composed operations.** The inode operations are functions of `st = [t |-> itable, d |-> disk, b |-> bitmap]`. One action composes the calls the code makes in its order, from one `ilock` to the matching `iunlock`. The sleep-locks therefore need no variables. Two processes interleave wherever the code drops an inode lock.
- **`namex`.** It takes one loop pass per `Walk` step. The loop over a link's target is the RECURSIVE operator `TargetWalk`.
- **Call stages.** Each call is split at the inode it holds between lookups:
  - `sys_link` raises `nlink` in `LinkBump`, looks up the new name, and then either writes the entry (`LinkAt`) or rolls the count back (`LinkBad`);
  - `create` is one action (`CreateAt`) after `nameiparent`.
- **Crash rule.** `Crash` happens only when no call is in progress. The log makes each call's disk writes atomic, so a crash between two writes of a call is not a state the disk can be in.
- **Runs.** `FsSafety.cfg` gives p1 file calls and p2 directory calls that meet at the name `/a`:
  - p1 opens `/d/f` read-only, opens `/a` with `O_TRUNC` (creating it when absent), links `/d/f` to `/a`, and opens `/a/f` with `O_CREATE`;
  - p2 makes `/a` a directory, steps into `/a`, unlinks `/d/f` and `/d`, links `/d` (a directory, so the call fails), and tries `symlink /a -> /d`.
  So `/a` can be a new file, a second name of `/d/f` or a directory. `/a/f` is then created inside it, meets a full disk, or fails on a walk through a file. `chdir /a` either enters a directory or fails on a file. Both processes read and write through every descriptor. `/d/f` starts with one block under a single-indirect block (`NDIRECT = 0`, `NINDIRECT = 2`), so `O_TRUNC`, `iput` and `ireclaim` free an indirect level.
  Every action and every branch is reached, with two exceptions. `OpenAt`'s `EISDIR` return has no call that would take it. The branches that follow a symlink are taken in `namex_symlink_ref`. `VIEW FsView` drops the stale contents of table slots whose `ref` is 0, because the code never reads them before `iget` rekeys the slot.

## Runs

| run | cfg | expect | what it shows |
|---|---|---|---|
| proc_safety | ProcSafety.cfg | pass | 2 harts, 3 slots, up to 2 forks, any selector at any time: `RunningOnOneCpu`, `WaitWakeupNotLost`, `NoOrphans`, `TypeOK`, and `Proc` implements `ProcLifecycle` (`LifecycleRefined`) |
| proc_liveness | ProcLiveness.cfg | pass | under RR and priority selection a RUNNABLE process is never stranded (`WorkConserving`) |
| mlfq_lost_wakeup | MlfqLostWakeup.cfg | violation | under MLFQ a process woken by `wakeup()` is in no queue and never runs again |
| mlfq_stale_queue | MlfqStaleQueue.cfg | violation | kfork queues its child after the child may already have exited on another hart |
| rr_starvation | RrStarvation.cfg | violation | `default_round_robin` restarts at `proc[0]`, starving higher slots |
| errno_persistence | ErrnoPersistence.cfg | violation | a second `geterrno` returns 0: reading errno clears it |
| sync_safety | SyncSafety.cfg | pass | producer/consumer ring accounting (`RingAccounting`), `MutexExclusion`, `RwExclusion`, no sleeper left asleep with its resource free (`NoLostWakeup`), `TypeOK` under full interleaving |
| cond_wait_panic | CondWaitPanic.cfg | violation | a condition waiter woken while the signaller holds the mutex panics the kernel |
| kalloc_safety | KallocSafety.cfg | pass | 2 frames, 3 address spaces of 2 pages forking, faulting, growing and shrinking with sbrk, and exiting: `FrameConservation`, `WritableIsPrivate`, `MappedBelowSz`, `TypeOK` |
| bcache_stale_data | BCacheStaleData.cfg | violation | a thread holding a buffer can see data that is not the block's last write (`HeldIsCurrent`): a hit can take the sleep-lock before the loading thread, and a dirty buffer is recycled without a write-back |
| fs_safety | FsSafety.cfg | pass | two processes opening, creating, linking, unlinking, changing directory, duplicating, closing, reading and writing, with crashes, and a `symlink` that panics the kernel: `RefCountsMatch`, `LinkCountsMatch`, `InodeLive`, `BlocksOwned`, `SizeMapped`, `TypeOK`; writei's bounds (`WriteiBlocksInRange`) |
| namex_symlink_ref | NamexSymlinkRef.cfg | violation | opening a path through a symlink leaves the link's inode slot with ref -1 |

Every property of a passing run also has a mutant in `PROJECT.json`. A mutant is a variant of one mapped definition, written just before it in the module and marked `(mutant)`, that breaks the property. So each property is shown able to fail.

### Why the bounds are enough

The bounds are `NPROC = 3`, `MaxPid = 3` and 2 harts:
- With three slots there is a three-generation chain (init, a child, a grandchild), so `reparent` hands a live or zombie grandchild to init.
- Two harts let a forked child run while its parent is still inside kfork, which is the race behind `mlfq_stale_queue`.
- `NLevels = 2` is enough because nothing in the repository ever demotes a process. Demotion would live in `trap.c`, so `mlfq_level` stays 0 and the promotion in `sleep` is a no-op.
- The liveness and violation runs use one hart where a second adds nothing to the question.
- `sync_safety` uses two consumers and two readers, because those are the roles whose contention the code's `while` loops must handle. The ring has 2 slots, so both "full" and "empty" are reached.
- `kalloc_safety` uses 2 frames and 3 address spaces of 2 pages:
  - a frame can be shared three ways;
  - memory runs out, so the out-of-memory paths of the lazy fault and of the COW fault are taken, and an eager sbrk of 2 pages fails after mapping one;
  - `n = -1` at size 0 takes the wrap, and `n = 2` at size 1 passes `TRAPFRAME`;
  - an exit unmaps several pages in turn.
  The run has 3.7M distinct states and takes about 1.5 minutes. A third frame would only add states, and would not finish in 5 minutes.
- `fs_safety` uses 2 processes, 4 inodes, 4 table slots, 2 file-table entries, 2 descriptors per process, 3 data blocks and files of at most 1 block:
  - inode 4 is free at boot, so `create` both succeeds and meets a full disk;
  - 4 slots are as many as the two processes can hold at once, so `iget` never panics here;
  - 2 descriptors let `dup` both succeed and fail;
  - 3 data blocks are fewer than two files with an indirect level need, so `balloc` fails in the middle of a path;
  - a descriptor's offset can pass the size after another `O_TRUNC`, so writei's `off > ip->size` return is taken.
  - the calls meet at one name: p1 creates, truncates or links `/a`, while p2 makes `/a` a directory, steps into it, and tries `symlink /a -> /d`, which fails when `/a` exists and panics the kernel otherwise. p1's `open /a/f` with `O_CREATE` then creates in p2's directory, meets a full disk there, or walks through a file;
  - `open` of a directory for writing (the `EISDIR` return) is not among the calls.
  The run has 920k distinct states and takes about 2.5 to 3 minutes with coverage. Each further call that holds a reference while it walks multiplies the states: with `mkdir /e`, `chdir /d` and a relative `chdir` as well, the run had 1.64M states and took over 5 minutes. Giving both processes every call takes it past 5M states.

### Fairness

`FairSpec` assumes weak fairness for two things:
- each hart's `Scheduler(c)`, because `scheduler()` loops for ever with interrupts enabled;
- each process's `Yield`, because the timer interrupt preempts a process that stays in user mode.

No fairness is assumed for the system calls a user program makes.

### Deadlock

Deadlock is handled per run:
- `proc_safety` sets `CHECK_DEADLOCK FALSE` for a reason: under MLFQ the system really does stop. The lost wakeup of `mlfq_lost_wakeup` leaves every hart idle with nothing enabled.
- `sync_safety` sets it for a similar reason: once the `cond_wait` panic happens, nothing else runs, which is the behaviour of the real kernel.
- `kalloc_safety` and `fs_safety` check deadlock, and find none. In `fs_safety` the panic is not a deadlock: `Halt`, the stop of a panicked kernel, stays enabled.

## Findings

These findings are stated in `PROJECT.json`:

1. **MLFQ lost wakeup** (`proc.c` wakeup, `sleep`): `sleep` removes a process from its MLFQ queue and re-adds it only once it runs again. `wakeup()` never re-adds it, so under MLFQ a woken process never runs again. The spec (section 4.7) says processes are enqueued on every transition.
2. **kfork MLFQ race** (`proc.c:620`): the child is queued only after it is RUNNABLE and unlocked. It may already be a ZOMBIE when it is queued, and it then blocks its queue level.
3. **Round-robin starvation** (`proc.c:940`): this contradicts the fairness claim of spec section 8.
4. **`geterrno` clears errno** (`syscall.c:477`): `sys_geterrno` succeeds, so the dispatcher sets `errno = EOK` after it. Spec section 8 and `errno_test.c` test 5 expect errno to persist.
5. **`cond_wait` panic** (`sync_primitives.c:228`): a woken waiter calls `mutex_lock` while it still holds the condition's spinlock. If the mutex is held, it sleeps with a spinlock held, and `sched()` panics.
6. **Invalid buffer on a hit** (`bcache_enhanced.c:77`): the miss path releases the cache lock before it takes the buffer's sleep-lock and reads. A concurrent hit can take the sleep-lock first, and `get_block` returns without checking `valid`. Spec section 4.2 says the others wait for the loading thread.
7. **Lost write on eviction** (`bcache_enhanced.c:98`): a miss recycles the least recently used free buffer and clears `dirty` without writing it back. A later read of that block gets the old disk version. With the hit fixed, `bcache_stale_data` still fails through this path, in 12 steps. Spec section 4.2 says a dirty buffer is written back when it is evicted.
8. **Double `iput` in `namex`** (`fs.c:1075`): after reading a link's target, namex calls `iunlockput(ip)` and then `iput(ip)`. This takes the link's slot to ref -1, or frees it under another holder.

Hazards that no run reports as a finding (`PROJECT.json`, hazards):
- **`kill(0)`** (`proc.c:1341`): it matches an UNUSED slot, and the `killed` flag survives `allocproc`. With `TargetPids = {0, 3}` in `ProcSafety.cfg`, `LifecycleRefined` fails: the abstract `Kill` marks only a slot that is not free. `proc_safety` keeps `{3}` so that it checks the rest.
- **`create` in a dead directory** (`sysfile.c:586`): `create` never checks `dp->nlink`. A process whose cwd was unlinked, or a `nameiparent` that raced the unlink, adds an entry to a freed directory. The new inode keeps `nlink` 1 with no name and is never freed. Adding `chdir /d` and `open("a", O_CREATE)` to p2's calls in `MCFsInode` makes `LinkCountsMatch` fail.
- **`sys_symlink`** (`sysfile.c:369`): it tests `ialloc(...) == 0`, but `ialloc` returns an error pointer for `T_SYMLINK`, so the call faults. `fs_safety` reaches this panic; no run is devoted to it, because the run list is full.
- **`sys_readlink`** (`sysfile.c:441`): `namei` follows the final link, so `readlink` always fails.
- **Chained symlinks** (`fs.c:1090`): namex walks a link's target with an inner loop that never tests `T_SYMLINK`. A link to a link therefore opens the second link's inode, where spec 4.4 restarts the walk and counts nested follows, and a cycle never fails with symlink-loop. To reproduce: in `MCFsInode`, add a symlink `t -> /s` beside `s -> /d`, open `/t`, and check that no open file names a symlink inode. TLC finds the violation in 14 states.

The `Kalloc` and `FsInode` pass runs find no error. The windows between its two locks are harmless: a frame in them has count 0 and is on no list, and nothing else can name it.

## Plan

Done:
- Sitting 1: `Proc`, `Errno`, `SyncPrims`, `Kalloc`, `BCache` and the first `FsInode`.
- Sitting 2: `FsInode` grew from lookups into the namespace calls (`create`, `unlink`, `link`, `chdir`, `dup`, crash and `ireclaim`), with the `fs_safety` pass run.
- Sitting 3: file data: `bmap` (`Bmap.tla`), `balloc`, `itrunc`, `readi`, `writei` and `O_TRUNC`, with `BlocksOwned` and `SizeMapped` in `fs_safety`. There are 12 runs, which is the limit of this project's run list, so new questions must replace or merge runs.
- Sitting 4: the `ProcLifecycle` refinement of `Proc`; block versions in `BCache`, with `flush_all_blocks` and the lost write on eviction folded into `HeldIsCurrent`; `sys_sbrk`/`growproc` and the lazy fault in `Kalloc`, with `MappedBelowSz`; `skipelem` and namex's path loop in `Path.tla`, checked against a reference split.
- Sitting 5: `sys_symlink` up to its kernel fault, and the panic as a state in `FsInode`; `WriteiBounds.tla`, writei's width-dependent tests and its block loop, with `WriteiBlocksInRange`.

Left, in order of priority:
1. **`BCache` pass run.** Buffer uniqueness (spec section 8), once a run can be freed for it.
2. **Errno.** Handlers that return a bare `-1` (for example `sys_symlink`) become errno 1 (EPERM); this is a question about the errno mapping.

## Not modelled

- `scheduler_debug.c`: statistics and printing only.
- `cow_control.c`: a flag.
- `src/kernel/start.c`: UART output.
- The user programs.
- Byte-level data: file contents and page contents. Names are characters only in `Path.tla`; FsInode's names are model values.
- `bcache_ext.c` is a passthrough to `bio.c`, which is not in the repository, and it defines the same names.
- Bytes within blocks, and directories' entries in data blocks: a directory's entries are a function, so `dirlink` never fails for a full disk. Files in `fs_safety` stay within one block; `Bmap` checks the deeper levels' arithmetic on its own.
- The triple-indirect level in practice: `ip->size` and `off` are 32-bit, so no file reaches it (`fs.c:880`), and writei's `MAXFILE*BSIZE` test is never true. `WriteiBounds` checks this at a reduced width.
- `sys_readlink`: no run can create a link (see the hazards above), and on the disks the runs start from it would only take and drop a reference, as `open` does. Also not modelled: `sys_fstat`, `sys_mknod`, `sys_pipe` and `sys_exec`.
- The `path_*` and `dir_*` helpers at the end of `fs.c`: nothing in the repository calls them.
- `file.c` is not in the repository. `filealloc` is modelled from its use in `sys_open`.
- The direct kernel users of frames (trap frames, exec argument pages): each takes a frame with count 1 and `kfree`s it.
