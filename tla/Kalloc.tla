------------------------------- MODULE Kalloc -------------------------------
(***************************************************************************)
(* The physical frame allocator with copy-on-write reference counts,       *)
(* kernel/kalloc.c, and the code that keeps the counts: COW fork           *)
(* (uvmcopy), the COW write-fault handler, sbrk (sys_sbrk and growproc,   *)
(* eager, lazy and shrinking, with the lazy page fault) and the unmapping  *)
(* of an exiting process.  uvmalloc, uvmdealloc, uvmunmap, uvmcopy and the *)
(* fault handlers live in vm.c and trap.c, which are not in this           *)
(* repository, so they follow spec.md sections 4.1, 4.7 and 4.8.           *)
(*                                                                         *)
(* kalloc.c guards the free list with kmem.lock and the counts with a     *)
(* second lock, pg_refcnt.lock.  kalloc pops a frame under one lock and    *)
(* sets its count under the other; kfree zeroes the count under one and    *)
(* pushes the frame under the other; kunrefpage decides to free under      *)
(* pg_refcnt.lock and calls kfree after releasing it.  Each of these       *)
(* critical sections is an action of its own, so other address spaces can *)
(* run in the windows between them.                                        *)
(*                                                                         *)
(* A frame is an integer 1..NFRAMES; an address space (a process's page    *)
(* table) is an integer 1..NPROCS, 1 being init's, which never exits.      *)
(* Its thread's progress is pc[p]; r[p] is the frame a kalloc, kfree or    *)
(* kunrefpage in progress works on and ret[p] where that call returns to.  *)
(* Sizes count whole pages: page v lies below p->sz when v <= sz[p], and   *)
(* TRAPFRAME is the page above the last user page.                         *)
(***************************************************************************)
EXTENDS Naturals, Sequences, SequencesExt, FiniteSets

CONSTANTS
    NFRAMES,   \* usable frames between end and PHYSTOP
    NPROCS,    \* address spaces
    NPAGES,    \* user pages of one address space
    NoFrame,   \* a null pointer: an unmapped PTE, or kalloc() == 0
    SbrkN      \* the n of sbrk(n, t), in pages

Frames == 1..NFRAMES
Procs  == 1..NPROCS
Pages  == 1..NPAGES
InitProc == 1
TRAPFRAME == NPAGES
SbrkModes == {"eager", "lazy"}   \* SBRK_EAGER, SBRK_LAZY
(* The most references a frame can have: every page of every address     *)
(* space, and one held by each thread in a call.                          *)
MaxRefs == NPROCS * (NPAGES + 1)

VARIABLES
    freelist,  \* kmem.freelist, head first
    refcnt,    \* pg_refcnt.count
    pt,        \* pt[p][v]: the frame user page v of p maps, or NoFrame
    cow,       \* cow[p][v]: the PTE is read-only and tagged COW
    alive,     \* the address space is in use
    sz,        \* p->sz
    newsz,     \* the size a growproc in progress moves to
    pc, r, ret, va

vars == <<freelist, refcnt, pt, cow, alive, sz, newsz, pc, r, ret, va>>

PCs  == {"user", "kalloc", "kalloc_set", "grow_map", "grow_undo", "shrink",
         "fault_map", "cow_copy", "unref", "kfree_zero", "kfree_push", "exit"}
Rets == {"user", "grow_map", "grow_undo", "shrink", "fault_map", "cow_copy",
         "exit"}

TypeOK ==
    /\ freelist \in Seq(Frames)
    /\ refcnt \in [Frames -> 0..MaxRefs]
    /\ pt \in [Procs -> [Pages -> Frames \cup {NoFrame}]]
    /\ cow \in [Procs -> [Pages -> BOOLEAN]]
    /\ alive \in [Procs -> BOOLEAN]
    /\ sz \in [Procs -> 0..TRAPFRAME]
    /\ newsz \in [Procs -> 0..TRAPFRAME]
    /\ pc \in [Procs -> PCs]
    /\ r \in [Procs -> Frames \cup {NoFrame}]
    /\ ret \in [Procs -> Rets]
    /\ va \in [Procs -> 1..(NPAGES + 1)]

(* kinit -> freerange: kfree every frame in address order, each pushed on *)
(* the head of the list, so the highest frame is the head.                *)
Init ==
    /\ freelist = [i \in 1..NFRAMES |-> NFRAMES + 1 - i]
    /\ refcnt = [f \in Frames |-> 0]
    /\ pt = [p \in Procs |-> [v \in Pages |-> NoFrame]]
    /\ cow = [p \in Procs |-> [v \in Pages |-> FALSE]]
    /\ alive = [p \in Procs |-> p = InitProc]
    /\ sz = [p \in Procs |-> 0]
    /\ newsz = [p \in Procs |-> 0]
    /\ pc = [p \in Procs |-> "user"]
    /\ r = [p \in Procs |-> NoFrame]
    /\ ret = [p \in Procs |-> "user"]
    /\ va = [p \in Procs |-> 1]

(* A call of kalloc() from p's thread, and the return of a call.        *)
CallKalloc(p, back) ==
    /\ pc' = [pc EXCEPT ![p] = "kalloc"]
    /\ ret' = [ret EXCEPT ![p] = back]
Return(p) == pc' = [pc EXCEPT ![p] = ret[p]]

(***************************************************************************)
(* kalloc(): the first critical section pops the head under kmem.lock.  On *)
(* an empty list it returns 0 at once; otherwise the second one sets the   *)
(* count to 1 under pg_refcnt.lock.                                        *)
(***************************************************************************)
KallocPop(p) ==
    /\ pc[p] = "kalloc"
    /\ IF freelist = << >>
         THEN /\ r' = [r EXCEPT ![p] = NoFrame]
              /\ Return(p)
              /\ UNCHANGED freelist
         ELSE /\ r' = [r EXCEPT ![p] = Head(freelist)]
              /\ freelist' = Tail(freelist)
              /\ pc' = [pc EXCEPT ![p] = "kalloc_set"]
    /\ UNCHANGED <<refcnt, pt, cow, alive, sz, newsz, ret, va>>

KallocSet(p) ==
    /\ pc[p] = "kalloc_set"
    /\ refcnt' = [refcnt EXCEPT ![r[p]] = 1]
    /\ Return(p)
    /\ UNCHANGED <<freelist, pt, cow, alive, sz, newsz, r, ret, va>>

(***************************************************************************)
(* kunrefpage(pa): under pg_refcnt.lock, panic on a count below 1,         *)
(* decrement, and note whether it reached 0; after the release, kfree the  *)
(* frame if it did.                                                        *)
(***************************************************************************)
(* (mutant) should_free tested as count <= 1 after the decrement.         *)
KUnrefPageLe(p) ==
    /\ pc[p] = "unref"
    /\ refcnt[r[p]] >= 1
    /\ refcnt' = [refcnt EXCEPT ![r[p]] = @ - 1]
    /\ pc' = [pc EXCEPT ![p] = IF refcnt[r[p]] - 1 <= 1 THEN "kfree_zero"
                                                        ELSE ret[p]]
    /\ UNCHANGED <<freelist, pt, cow, alive, sz, newsz, r, ret, va>>

KUnrefPage(p) ==
    /\ pc[p] = "unref"
    /\ refcnt[r[p]] >= 1
    /\ refcnt' = [refcnt EXCEPT ![r[p]] = @ - 1]
    /\ pc' = [pc EXCEPT ![p] = IF refcnt[r[p]] - 1 = 0 THEN "kfree_zero"
                                                       ELSE ret[p]]
    /\ UNCHANGED <<freelist, pt, cow, alive, sz, newsz, r, ret, va>>

(* kfree(pa): set the count to 0 under pg_refcnt.lock ...                 *)
KFreeZero(p) ==
    /\ pc[p] = "kfree_zero"
    /\ refcnt' = [refcnt EXCEPT ![r[p]] = 0]
    /\ pc' = [pc EXCEPT ![p] = "kfree_push"]
    /\ UNCHANGED <<freelist, pt, cow, alive, sz, newsz, r, ret, va>>

(* ... then link the frame onto the head of the list under kmem.lock.    *)
KFreePush(p) ==
    /\ pc[p] = "kfree_push"
    /\ freelist' = <<r[p]>> \o freelist
    /\ Return(p)
    /\ UNCHANGED <<refcnt, pt, cow, alive, sz, newsz, r, ret, va>>

(***************************************************************************)
(* uvmunmap(do_free), one page: a page never touched since a lazy sbrk is  *)
(* skipped; a mapped one has its PTE cleared and its frame kunref'd, and  *)
(* the loop resumes at back.                                              *)
(***************************************************************************)
UnmapPage(p, back) ==
    /\ va' = [va EXCEPT ![p] = @ + 1]
    /\ IF pt[p][va[p]] = NoFrame
         THEN UNCHANGED <<pt, cow, pc, r, ret>>
         ELSE /\ r' = [r EXCEPT ![p] = pt[p][va[p]]]
              /\ pt' = [pt EXCEPT ![p][va[p]] = NoFrame]
              /\ cow' = [cow EXCEPT ![p][va[p]] = FALSE]
              /\ pc' = [pc EXCEPT ![p] = "unref"]
              /\ ret' = [ret EXCEPT ![p] = back]

(***************************************************************************)
(* growproc(n): past TRAPFRAME it fails; n > 0 is uvmalloc(sz, sz + n),    *)
(* which kallocs and maps page after page; n < 0 is uvmdealloc(sz, sz+n), *)
(* which returns sz unchanged when sz + n wraps below 0 and otherwise     *)
(* unmaps the pages above sz + n.  p->sz is set when the call is done.    *)
(***************************************************************************)
Growproc(p, n) ==
    \/ /\ n > 0 /\ sz[p] + n > TRAPFRAME
       /\ UNCHANGED <<sz, newsz, pc, ret, va>>
    \/ /\ n > 0 /\ sz[p] + n <= TRAPFRAME
       /\ newsz' = [newsz EXCEPT ![p] = sz[p] + n]
       /\ va' = [va EXCEPT ![p] = sz[p] + 1]
       /\ CallKalloc(p, "grow_map")
       /\ UNCHANGED sz
    \/ /\ n < 0 /\ sz[p] + n < 0
       /\ UNCHANGED <<sz, newsz, pc, ret, va>>
    \/ /\ n < 0 /\ sz[p] + n >= 0
       /\ newsz' = [newsz EXCEPT ![p] = sz[p] + n]
       /\ va' = [va EXCEPT ![p] = sz[p] + n + 1]
       /\ pc' = [pc EXCEPT ![p] = "shrink"]
       /\ UNCHANGED <<sz, ret>>

(***************************************************************************)
(* sys_sbrk(n, t): eager, or shrinking, goes through growproc; lazy only   *)
(* raises p->sz, unless sz + n passes TRAPFRAME (its test for sz + n < sz *)
(* cannot hold, as n >= 0 on this path).                                  *)
(***************************************************************************)
(* (mutant) the lazy path without its test against TRAPFRAME.            *)
SysSbrkNoBound(p, n, t) ==
    /\ alive[p] /\ pc[p] = "user"
    /\ IF t = "eager" \/ n < 0
         THEN Growproc(p, n)
         ELSE /\ sz' = [sz EXCEPT ![p] = @ + n]
              /\ UNCHANGED <<newsz, pc, ret, va>>
    /\ UNCHANGED <<freelist, refcnt, pt, cow, alive, r>>

SysSbrk(p, n, t) ==
    /\ alive[p] /\ pc[p] = "user"
    /\ IF t = "eager" \/ n < 0
         THEN Growproc(p, n)
         ELSE /\ sz' = [sz EXCEPT ![p] = IF @ + n > TRAPFRAME THEN @ ELSE @ + n]
              /\ UNCHANGED <<newsz, pc, ret, va>>
    /\ UNCHANGED <<freelist, refcnt, pt, cow, alive, r>>

(* (mutant) uvmalloc fails on kalloc() == 0 without uvmdealloc.          *)
GrowMapNoUndo(p) ==
    /\ pc[p] = "grow_map"
    /\ IF r[p] = NoFrame
         THEN /\ pc' = [pc EXCEPT ![p] = "user"]
              /\ UNCHANGED <<pt, cow, sz, newsz, ret, va>>
         ELSE /\ pt' = [pt EXCEPT ![p][va[p]] = r[p]]
              /\ cow' = [cow EXCEPT ![p][va[p]] = FALSE]
              /\ IF va[p] < newsz[p]
                   THEN /\ va' = [va EXCEPT ![p] = @ + 1]
                        /\ CallKalloc(p, "grow_map")
                        /\ UNCHANGED <<sz, newsz>>
                   ELSE /\ sz' = [sz EXCEPT ![p] = newsz[p]]
                        /\ pc' = [pc EXCEPT ![p] = "user"]
                        /\ UNCHANGED <<newsz, ret, va>>
    /\ UNCHANGED <<freelist, refcnt, alive, r>>

(* uvmalloc, after each kalloc: map the frame at page va; go on to the    *)
(* next page, or set p->sz once the last is mapped.  When kalloc returns  *)
(* 0 it calls uvmdealloc(a, oldsz) on the pages it mapped and fails.     *)
GrowMap(p) ==
    /\ pc[p] = "grow_map"
    /\ IF r[p] = NoFrame
         THEN /\ newsz' = [newsz EXCEPT ![p] = va[p] - 1]
              /\ va' = [va EXCEPT ![p] = sz[p] + 1]
              /\ pc' = [pc EXCEPT ![p] = "grow_undo"]
              /\ UNCHANGED <<pt, cow, sz, ret>>
         ELSE /\ pt' = [pt EXCEPT ![p][va[p]] = r[p]]
              /\ cow' = [cow EXCEPT ![p][va[p]] = FALSE]
              /\ IF va[p] < newsz[p]
                   THEN /\ va' = [va EXCEPT ![p] = @ + 1]
                        /\ CallKalloc(p, "grow_map")
                        /\ UNCHANGED <<sz, newsz>>
                   ELSE /\ sz' = [sz EXCEPT ![p] = newsz[p]]
                        /\ pc' = [pc EXCEPT ![p] = "user"]
                        /\ UNCHANGED <<newsz, ret, va>>
    /\ UNCHANGED <<freelist, refcnt, alive, r>>

(* The rollback of a failed uvmalloc: pages sz+1 .. newsz are unmapped.   *)
GrowUndo(p) ==
    /\ pc[p] = "grow_undo"
    /\ IF va[p] > newsz[p]
         THEN /\ pc' = [pc EXCEPT ![p] = "user"]
              /\ UNCHANGED <<pt, cow, r, ret, va>>
         ELSE UnmapPage(p, "grow_undo")
    /\ UNCHANGED <<freelist, refcnt, alive, sz, newsz>>

(* uvmdealloc(sz, newsz) for a shrinking growproc, then p->sz = newsz.    *)
ShrinkStep(p) ==
    /\ pc[p] = "shrink"
    /\ IF va[p] > sz[p]
         THEN /\ sz' = [sz EXCEPT ![p] = newsz[p]]
              /\ pc' = [pc EXCEPT ![p] = "user"]
              /\ UNCHANGED <<pt, cow, r, ret, va>>
         ELSE /\ UnmapPage(p, "shrink")
              /\ UNCHANGED sz
    /\ UNCHANGED <<freelist, refcnt, alive, newsz>>

(***************************************************************************)
(* The first touch of a page below p->sz that a lazy sbrk left unmapped:  *)
(* vmfault kallocs a frame and maps it; out of memory, usertrap kills the *)
(* process, which exits (init is left running, as in CowCopy).            *)
(***************************************************************************)
VmFault(p, v) ==
    /\ alive[p] /\ pc[p] = "user"
    /\ v <= sz[p] /\ pt[p][v] = NoFrame
    /\ va' = [va EXCEPT ![p] = v]
    /\ CallKalloc(p, "fault_map")
    /\ UNCHANGED <<freelist, refcnt, pt, cow, alive, sz, newsz, r>>

FaultMap(p) ==
    /\ pc[p] = "fault_map"
    /\ IF r[p] = NoFrame
         THEN /\ pc' = [pc EXCEPT ![p] = IF p = InitProc THEN "user" ELSE "exit"]
              /\ va' = [va EXCEPT ![p] = 1]
              /\ UNCHANGED <<pt, cow>>
         ELSE /\ pt' = [pt EXCEPT ![p][va[p]] = r[p]]
              /\ cow' = [cow EXCEPT ![p][va[p]] = FALSE]
              /\ pc' = [pc EXCEPT ![p] = "user"]
              /\ UNCHANGED va
    /\ UNCHANGED <<freelist, refcnt, alive, sz, newsz, r, ret>>

(* The number of pages of p that map frame f.                             *)
MapCount(p, f) == Cardinality({v \in Pages : pt[p][v] = f})

(* krefpage(pa) once for every page of p that maps a frame: each call     *)
(* raises the frame's count by one under pg_refcnt.lock.  Its test for a  *)
(* pa outside the allocator's range never fails for a frame.             *)
KRefPageEach(p) == [f \in Frames |-> refcnt[f] + MapCount(p, f)]

(* krefcount(pa): the frame's count, read under pg_refcnt.lock.          *)
KRefCount(f) == refcnt[f]

(***************************************************************************)
(* fork -> uvmcopy: the child shares every frame of the parent; every      *)
(* mapping of both becomes COW, and every frame's count is raised by one   *)
(* per page that maps it (krefpage); then np->sz = p->sz.                  *)
(***************************************************************************)
(* (mutant) uvmcopy shares the frames without krefpage.                   *)
ForkNoRef(p, q) ==
    /\ alive[p] /\ pc[p] = "user"
    /\ ~alive[q] /\ pc[q] = "user"
    /\ pt' = [pt EXCEPT ![q] = pt[p]]
    /\ cow' = [cow EXCEPT ![p] = [v \in Pages |-> pt[p][v] # NoFrame],
                          ![q] = [v \in Pages |-> pt[p][v] # NoFrame]]
    /\ alive' = [alive EXCEPT ![q] = TRUE]
    /\ sz' = [sz EXCEPT ![q] = sz[p]]
    /\ UNCHANGED <<freelist, refcnt, newsz, pc, r, ret, va>>

Fork(p, q) ==
    /\ alive[p] /\ pc[p] = "user"
    /\ ~alive[q] /\ pc[q] = "user"
    /\ pt' = [pt EXCEPT ![q] = pt[p]]
    /\ cow' = [cow EXCEPT ![p] = [v \in Pages |-> pt[p][v] # NoFrame],
                          ![q] = [v \in Pages |-> pt[p][v] # NoFrame]]
    /\ refcnt' = KRefPageEach(p)
    /\ alive' = [alive EXCEPT ![q] = TRUE]
    /\ sz' = [sz EXCEPT ![q] = sz[p]]
    /\ UNCHANGED <<freelist, newsz, pc, r, ret, va>>

(***************************************************************************)
(* The COW write fault at page v: with a count of 1 the PTE becomes        *)
(* writable in place; otherwise the handler allocates a frame ...          *)
(***************************************************************************)
(* (mutant) the fault handler upgrades in place whatever the count.       *)
CowFaultNoCheck(p, v) ==
    /\ alive[p] /\ pc[p] = "user"
    /\ pt[p][v] # NoFrame /\ cow[p][v]
    /\ cow' = [cow EXCEPT ![p][v] = FALSE]
    /\ UNCHANGED <<freelist, refcnt, pt, alive, sz, newsz, pc, r, ret, va>>

CowFault(p, v) ==
    /\ alive[p] /\ pc[p] = "user"
    /\ pt[p][v] # NoFrame /\ cow[p][v]
    /\ IF KRefCount(pt[p][v]) = 1
         THEN /\ cow' = [cow EXCEPT ![p][v] = FALSE]
              /\ UNCHANGED <<pc, ret, va>>
         ELSE /\ va' = [va EXCEPT ![p] = v]
              /\ CallKalloc(p, "cow_copy")
              /\ UNCHANGED cow
    /\ UNCHANGED <<freelist, refcnt, pt, alive, sz, newsz, r>>

(* ... installs the copy writable and unrefs the old frame.  Out of       *)
(* memory, the faulting process is killed and exits.                      *)
CowCopy(p) ==
    /\ pc[p] = "cow_copy"
    /\ IF r[p] = NoFrame
         THEN /\ pc' = [pc EXCEPT ![p] = IF p = InitProc THEN "user" ELSE "exit"]
              /\ va' = [va EXCEPT ![p] = 1]
              /\ UNCHANGED <<pt, cow, r, ret>>
         ELSE /\ pt' = [pt EXCEPT ![p][va[p]] = r[p]]
              /\ cow' = [cow EXCEPT ![p][va[p]] = FALSE]
              /\ r' = [r EXCEPT ![p] = pt[p][va[p]]]
              /\ pc' = [pc EXCEPT ![p] = "unref"]
              /\ ret' = [ret EXCEPT ![p] = "user"]
              /\ UNCHANGED va
    /\ UNCHANGED <<freelist, refcnt, alive, sz, newsz>>

(***************************************************************************)
(* exit, then freeproc -> proc_freepagetable(pagetable, p->sz) -> uvmfree: *)
(* the pages below p->sz are unmapped in turn, each frame unref'd; then    *)
(* p->sz = 0 and the address space is free for a later fork.              *)
(***************************************************************************)
Exit(p) ==
    /\ alive[p] /\ pc[p] = "user" /\ p # InitProc
    /\ pc' = [pc EXCEPT ![p] = "exit"]
    /\ va' = [va EXCEPT ![p] = 1]
    /\ UNCHANGED <<freelist, refcnt, pt, cow, alive, sz, newsz, r, ret>>

ExitStep(p) ==
    /\ pc[p] = "exit"
    /\ IF va[p] > sz[p]
         THEN /\ alive' = [alive EXCEPT ![p] = FALSE]
              /\ sz' = [sz EXCEPT ![p] = 0]
              /\ pc' = [pc EXCEPT ![p] = "user"]
              /\ UNCHANGED <<pt, cow, r, ret, va>>
         ELSE /\ UnmapPage(p, "exit")
              /\ UNCHANGED <<alive, sz>>
    /\ UNCHANGED <<freelist, refcnt, newsz>>

Next ==
    \E p \in Procs :
        \/ KallocPop(p) \/ KallocSet(p) \/ KUnrefPage(p)
        \/ KFreeZero(p) \/ KFreePush(p)
        \/ GrowMap(p) \/ GrowUndo(p) \/ ShrinkStep(p) \/ FaultMap(p)
        \/ CowCopy(p) \/ Exit(p) \/ ExitStep(p)
        \/ \E n \in SbrkN, t \in SbrkModes : SysSbrk(p, n, t)
        \/ \E v \in Pages : VmFault(p, v) \/ CowFault(p, v)
        \/ \E q \in Procs \ {p} : Fork(p, q)

Spec == Init /\ [][Next]_vars

(***************************************************************************)
(* The view TLC compares states by: a call's locals are dead where every  *)
(* path writes them before reading them (r outside kalloc's and the       *)
(* installers' steps, ret outside a call that returns, va and newsz in    *)
(* user mode), so their stale values are dropped.                         *)
(***************************************************************************)
Dead(p, live, x, none) == IF pc[p] \in live THEN x ELSE none
KallocView ==
    <<freelist, refcnt, pt, cow, alive, sz, pc,
      [p \in Procs |-> Dead(p, {"kalloc_set", "grow_map", "fault_map",
                                "cow_copy", "unref", "kfree_zero",
                                "kfree_push"}, r[p], NoFrame)],
      [p \in Procs |-> Dead(p, {"kalloc", "kalloc_set", "unref", "kfree_zero",
                                "kfree_push"}, ret[p], "user")],
      [p \in Procs |-> Dead(p, PCs \ {"user"}, va[p], 1)],
      [p \in Procs |-> Dead(p, PCs \ {"user", "exit", "fault_map", "cow_copy"},
                            newsz[p], 0)]>>

-----------------------------------------------------------------------------
(* The references a frame has: the PTEs that map it, plus a frame a       *)
(* thread holds between kalloc's return and installing it, or between     *)
(* clearing its PTE and the kunrefpage that drops it.                     *)
Refs(f) ==
    Cardinality({pv \in Procs \X Pages : pt[pv[1]][pv[2]] = f})
    + Cardinality({p \in Procs :
                      /\ pc[p] \in {"grow_map", "fault_map", "cow_copy", "unref"}
                      /\ r[p] = f})

(* A frame between kalloc's two critical sections, or kfree's.           *)
InTransit(f) ==
    \E p \in Procs : pc[p] \in {"kalloc_set", "kfree_zero", "kfree_push"}
                     /\ r[p] = f

(* Frame conservation (spec sections 3 and 8), kalloc.c as a whole: the   *)
(* count of every frame equals its references, no frame is on the free   *)
(* list twice, and a frame is on the free list exactly when its count is  *)
(* 0 and neither kalloc nor kfree is between its two locks with it.       *)
FrameConservation ==
    /\ \A f \in Frames : refcnt[f] = Refs(f)
    /\ IsInjective(freelist)
    /\ \A f \in Frames :
          f \in Range(freelist) <=> (refcnt[f] = 0 /\ ~InTransit(f))

(* COW isolation, the purpose of the counts: a writable user page is the  *)
(* only reference to its frame, so a write through it (after an in-place  *)
(* upgrade by the fault handler) is never seen by another process, and    *)
(* the frame is never on the free list or being handed out by kalloc.    *)
WritableIsPrivate ==
    \A p \in Procs, v \in Pages :
        pt[p][v] # NoFrame /\ ~cow[p][v] =>
            /\ Refs(pt[p][v]) = 1
            /\ pt[p][v] \notin Range(freelist)
            /\ ~InTransit(pt[p][v])

(* The size bounds the mappings (sys_sbrk, growproc, uvmalloc's rollback, *)
(* uvmdealloc, the lazy fault, fork's np->sz = p->sz and freeproc's       *)
(* p->sz = 0 must agree): outside a call in progress, every mapped user   *)
(* page lies below p->sz.  Otherwise a later uvmalloc would map over a    *)
(* live PTE (mappages' remap panic) and uvmfree(p->sz) at exit would      *)
(* leave a frame referenced by a freed page table.                         *)
MappedBelowSz ==
    \A p \in Procs :
        pc[p] = "user" => \A v \in Pages : pt[p][v] # NoFrame => v <= sz[p]

====
