------------------------------ MODULE FsInode ------------------------------
(***************************************************************************)
(* The file system's naming layer: the in-memory inode table of           *)
(* kernel/fs.c (iget, idup, ilock, iput, ialloc, ireclaim), path lookup    *)
(* with symbolic links (namex), directory entries (dirlookup, dirlink),    *)
(* and the system calls of kernel/sysfile.c that change them: open (with   *)
(* and without O_CREATE), mkdir, unlink, link, chdir, symlink, dup and    *)
(* close; and                                                              *)
(* the data blocks of files: read and write through an open file, bmap's  *)
(* allocation (balloc), itrunc (bfree) and O_TRUNC.                       *)
(*                                                                         *)
(* The disk is a variable: for every inode number its type, link count    *)
(* and, for a directory, its entries (name -> inum, 0 for none); for a    *)
(* file, its size in blocks and its block map addrs (Bmap: place -> data  *)
(* block).  The free-block bitmap is the set of data blocks in use.  A    *)
(* read or write moves one whole block; bytes are not modelled, and a     *)
(* directory's entries are not kept in blocks.  A path is [abs, elems],  *)
(* the sequence of elements skipelem hands namex.  A table slot is an integer 1..NINODE.            *)
(*                                                                         *)
(* Atomicity.  A step is one pass of a namex loop, or one stretch of a     *)
(* system call between two namex calls.  Every such stretch runs under    *)
(* the sleep-lock of the inode it works on and takes no lock it keeps      *)
(* after the step, so no sleep-lock is held between steps and the locks    *)
(* are not variables; what other processes can do between steps is        *)
(* exactly what they can do between those ilock/iunlock pairs in the code. *)
(* Each system call runs inside begin_op/end_op, so the disk seen after a *)
(* crash is one where no call was in progress (Crash).                    *)
(***************************************************************************)
EXTENDS Integers, Sequences, FiniteSets, FiniteSetsExt, TLC, Bmap

CONSTANTS
    NINODE,      \* slots of itable
    NOFILE,      \* open files per process (p->ofile)
    NFILE,       \* slots of the file table
    Procs,       \* processes making system calls
    Inums,       \* inode numbers of the disk, ROOTINO among them
    Names,       \* names of directory entries other than "." and ".."
    Disk0,       \* the disk as made: inum -> [type, nlink, ents]
    SymTarget,   \* symlink inum -> the target path its data holds
    Calls,       \* p -> the calls [sys, path, new, omode] p makes
    DataBlocks,  \* the data blocks balloc hands out
    MaxFileBlocks \* bound: no write grows a file past this many blocks

Slots == 1..NINODE
Fds   == 1..NOFILE
Files == 1..NFILE
ROOTINO == 1
NoSlot == 0
NoFile == 0
IgetPanic == -1          \* iget found no free slot: panic("iget: no inodes")
MAX_SYMLINK_DEPTH == 16
DirNames == Names \cup {".", ".."}
NoEnts == [n \in DirNames |-> 0]
(* itrunc, ip->type = 0, iupdate: a freed dinode.                         *)
NoAddrs == [q \in {} |-> 0]
FreeInode == [type |-> "free", nlink |-> 0, ents |-> NoEnts, size |-> 0,
              addrs |-> NoAddrs]
NoFileEntry == [ref |-> 0, ip |-> NoSlot, off |-> 0, readable |-> FALSE,
                writable |-> FALSE]
(* The open modes: O_RDONLY, O_WRONLY, O_CREATE|O_RDWR and                *)
(* O_CREATE|O_RDWR|O_TRUNC.                                                *)
Creates(om) == om \in {"create", "trunc"}
Readable(om) == om \in {"rdonly", "create", "trunc"}
Writable(om) == om \in {"wronly", "create", "trunc"}
(* Every place of a block map.                                            *)
Places == UNION {Range(Prefixes(BmapPath(bn))) : bn \in 0..(MAXFILE - 1)}
NoCall == [sys |-> "none", path |-> [abs |-> TRUE, elems |-> << >>],
           new |-> [abs |-> TRUE, elems |-> << >>], omode |-> "rdonly"]
MaxLink == Cardinality(Inums) * Cardinality(DirNames) + Cardinality(Procs)
MaxRef  == 2 * Cardinality(Procs) + NFILE

VARIABLES
    disk,     \* the dinodes: [type, nlink, ents]
    itable,   \* itable.inode[s]: [inum, ref, valid]
    ftable,   \* ftable.file[f]: [ref, ip]
    ofile,    \* p->ofile[fd]: a file, or NoFile
    cwd,      \* p->cwd
    pc,       \* "idle", "walk" (in namex) or the system call stage
    call,     \* the call in progress
    ip,       \* namex's ip, then the inode it returned
    path,     \* what is left of the path namex walks
    depth,    \* symlink_depth
    held,     \* sys_link's ip while it looks up the new name
    bitmap    \* the data blocks marked in use in the bitmap blocks

vars == <<disk, itable, ftable, ofile, cwd, pc, call, ip, path, depth, held,
          bitmap>>

PCs == {"idle", "walk", "open_at", "create_at", "unlink_at", "link_bump",
        "link_at", "link_bad", "chdir_at", "symlink_at", "panic"}

TypeOK ==
    /\ DOMAIN disk = Inums
    /\ \A i \in Inums :
          /\ disk[i].type \in {"free", "dir", "file", "symlink"}
          /\ disk[i].nlink \in 0..MaxLink
          /\ disk[i].ents \in [DirNames -> Inums \cup {0}]
          /\ disk[i].size \in 0..MaxFileBlocks
          /\ DOMAIN disk[i].addrs \subseteq Places
          /\ Range(disk[i].addrs) \subseteq DataBlocks
    /\ itable \in [Slots -> [inum : Inums, ref : 0..MaxRef, valid : BOOLEAN]]
    /\ ftable \in [Files -> [ref : 0..NOFILE * Cardinality(Procs),
                             ip : Slots \cup {NoSlot}, off : 0..MaxFileBlocks,
                             readable : BOOLEAN, writable : BOOLEAN]]
    /\ ofile \in [Procs -> [Fds -> Files \cup {NoFile}]]
    /\ cwd \in [Procs -> Slots]
    /\ pc \in [Procs -> PCs]
    /\ \A p \in Procs : call[p] \in Calls[p] \cup {NoCall}
    /\ ip \in [Procs -> Slots \cup {NoSlot}]
    /\ path \in [Procs -> Seq(DirNames)]
    /\ depth \in [Procs -> 0..MAX_SYMLINK_DEPTH]
    /\ held \in [Procs -> Slots \cup {NoSlot}]
    /\ bitmap \subseteq DataBlocks

(* iinit, and the first processes: each has the root as its cwd, one      *)
(* reference each in slot 1.                                               *)
BootTable == [x \in Slots |-> [inum |-> ROOTINO,
                               ref |-> IF x = 1 THEN Cardinality(Procs) ELSE 0,
                               valid |-> x = 1]]
Init ==
    /\ disk = Disk0
    /\ itable = BootTable
    /\ ftable = [f \in Files |-> NoFileEntry]
    /\ ofile = [p \in Procs |-> [fd \in Fds |-> NoFile]]
    /\ cwd = [p \in Procs |-> 1]
    /\ bitmap = UNION {Range(Disk0[i].addrs) : i \in Inums}
    /\ pc = [p \in Procs |-> "idle"]
    /\ call = [p \in Procs |-> NoCall]
    /\ ip = [p \in Procs |-> NoSlot]
    /\ path = [p \in Procs |-> << >>]
    /\ depth = [p \in Procs |-> 0]
    /\ held = [p \in Procs |-> NoSlot]

(***************************************************************************)
(* The inode layer as functions of st = [t |-> itable, d |-> disk,       *)
(* b |-> bitmap], so a step composes the calls it makes in the order the  *)
(* code makes them.                                                       *)
(***************************************************************************)
Now == [t |-> itable, d |-> disk, b |-> bitmap]
Commit(st) == itable' = st.t /\ disk' = st.d /\ bitmap' = st.b
Inum(st, x) == st.t[x].inum
Type(st, x) == st.d[Inum(st, x)].type

(* iget: the slot holding inum with a positive ref, else the first slot   *)
(* with ref 0, rekeyed and not valid.                                      *)
Cached(t, inum) == {x \in Slots : t[x].ref > 0 /\ t[x].inum = inum}
CanIget(t, inum) == Cached(t, inum) # {} \/ \E x \in Slots : t[x].ref = 0
IgetSlot(t, inum) ==
    IF Cached(t, inum) # {} THEN CHOOSE x \in Cached(t, inum) : TRUE
    ELSE Min({x \in Slots : t[x].ref = 0})
Iget(st, inum) ==
    LET x == IgetSlot(st.t, inum) IN
    IF Cached(st.t, inum) # {} THEN [st EXCEPT !.t[x].ref = @ + 1]
    ELSE [st EXCEPT !.t[x] = [inum |-> inum, ref |-> 1, valid |-> FALSE]]
Idup(st, x) == [st EXCEPT !.t[x].ref = @ + 1]

(* ilock reads the dinode into a slot that is not valid.                  *)
Ilock(st, x) == [st EXCEPT !.t[x].valid = TRUE]

(* bfree of each block of bs: clear its bit in the bitmap block.  A bit  *)
(* already clear is panic("freeing free block"); BlocksOwned says no     *)
(* block of an inode's map is free, so the panic is not modelled.        *)
Bfree(st, bs) == [st EXCEPT !.b = @ \ bs]

(* (mutant) itrunc that frees the data blocks but not the indirect       *)
(* blocks themselves.                                                     *)
ItruncDataOnly(st, x) ==
    LET i == Inum(st, x)
        a == st.d[i].addrs
    IN [st EXCEPT !.d[i].addrs = NoAddrs, !.d[i].size = 0,
                  !.b = @ \ {a[q] : q \in {r \in DOMAIN a : DataPath(r)}}]

(* itrunc: bfree every direct block, every block under the single-,      *)
(* double- and triple-indirect blocks and those blocks themselves, clear  *)
(* addrs, size = 0, iupdate.                                               *)
Itrunc(st, x) ==
    LET i == Inum(st, x) IN
    Bfree([st EXCEPT !.d[i].addrs = NoAddrs, !.d[i].size = 0],
          Range(st.d[i].addrs))

(* iput (and iunlockput: the sleep-lock is not a variable): the last      *)
(* reference to a valid inode with no links is truncated, its type set to *)
(* 0 and the slot invalidated; then ref is decremented.                   *)
Iput(st, x) ==
    LET i == Inum(st, x) IN
    IF st.t[x].ref = 1 /\ st.t[x].valid /\ st.d[i].nlink = 0
      THEN [Itrunc(st, x) EXCEPT !.t[x].valid = FALSE, !.t[x].ref = @ - 1,
                                 !.d[i] = FreeInode]
      ELSE [st EXCEPT !.t[x].ref = @ - 1]

(* ip->nlink++ / ip->nlink-- followed by iupdate(ip).                     *)
IncNlink(st, x) == [st EXCEPT !.d[Inum(st, x)].nlink = @ + 1]
DecNlink(st, x) == [st EXCEPT !.d[Inum(st, x)].nlink = @ - 1]
SetNlink(st, x, k) == [st EXCEPT !.d[Inum(st, x)].nlink = k]

(* dirlookup's scan, and the dirent write of dirlink (inum 0: unlink's    *)
(* cleared entry).                                                        *)
Lookup(st, x, n) == st.d[Inum(st, x)].ents[n]
Dirlink(st, x, n, i) == [st EXCEPT !.d[Inum(st, x)].ents[n] = i]

(* Is the directory empty except for its first two entries, "." and ".."? *)
IsDirEmpty(st, x) == \A n \in Names : Lookup(st, x, n) = 0

(* ialloc: the first inum from 1 whose dinode has type 0 gets the type,   *)
(* then iget.  No such inum is -EFS_INODE_FULL.                           *)
FreeInums(st) == {i \in Inums : st.d[i].type = "free"}
IallocInum(st) == Min(FreeInums(st))
Ialloc(st, type) ==
    LET i == IallocInum(st) IN
    Iget([st EXCEPT !.d[i] = [FreeInode EXCEPT !.type = type]], i)

(* balloc: the first block whose bitmap bit is clear is marked and       *)
(* zeroed; none left is "balloc: out of blocks" and 0.                    *)
FreeBlocks(st) == DataBlocks \ st.b
Balloc(st) == Min(FreeBlocks(st))

(***************************************************************************)
(* bmap(ip, bn) under ilock: every place on the way to bn's data block,   *)
(* the slot of addrs first, that still holds 0 gets a block from balloc  *)
(* (and the indirect block holding it is written); when balloc fails      *)
(* bmap returns 0 and the places it already filled stay filled.  The      *)
(* result is the new st and whether bmap returned a block.                *)
(***************************************************************************)
RECURSIVE AllocPlaces(_, _, _)
AllocPlaces(st, i, qs) ==
    IF qs = << >> THEN [st |-> st, ok |-> TRUE]
    ELSE IF Head(qs) \in DOMAIN st.d[i].addrs
      THEN AllocPlaces(st, i, Tail(qs))
    ELSE IF FreeBlocks(st) = {} THEN [st |-> st, ok |-> FALSE]
    ELSE LET blk == Balloc(st) IN
         AllocPlaces([st EXCEPT !.d[i].addrs = (Head(qs) :> blk) @@ @,
                                !.b = @ \cup {blk}],
                     i, Tail(qs))
BmapAlloc(st, x, bn) == AllocPlaces(st, Inum(st, x), Prefixes(BmapPath(bn)))

(***************************************************************************)
(* namex's loop over a symlink's target: ilock(ip); a non-directory or a  *)
(* missing entry is iunlockput and return 0; else next = dirlookup (an    *)
(* iget), iunlockput(ip), ip = next.  Links met on the way are not         *)
(* followed.  The result is the table and the slot reached, NoSlot on     *)
(* failure, or IgetPanic.                                                  *)
(***************************************************************************)
RECURSIVE TargetWalk(_, _, _)
TargetWalk(st, x, tp) ==
    IF tp = << >> THEN [st |-> st, ip |-> x]
    ELSE LET l == Ilock(st, x)
             j == Lookup(l, x, Head(tp))
         IN IF Type(l, x) # "dir" \/ j = 0 THEN [st |-> Iput(l, x), ip |-> NoSlot]
            ELSE IF ~CanIget(l.t, j) THEN [st |-> st, ip |-> IgetPanic]
            ELSE TargetWalk(Iput(Iget(l, j), x), IgetSlot(l.t, j), Tail(tp))

(* A kernel panic stops every hart: the machine spins in panic() for      *)
(* ever, and nothing else happens until it is reset by hand.  Every other *)
(* action is guarded by ~Panicked.                                         *)
Panicked == \E p \in Procs : pc[p] = "panic"
Halt == Panicked /\ UNCHANGED vars

(* Where a system call goes on when its namex returns an inode, and       *)
(* whether that namex is nameiparent.                                     *)
Cont(p) ==
    CASE call[p].sys = "open" /\ ~Creates(call[p].omode) -> "open_at"
      [] call[p].sys = "open"                             -> "create_at"
      [] call[p].sys = "mkdir"                           -> "create_at"
      [] call[p].sys = "unlink"                          -> "unlink_at"
      [] call[p].sys = "link" /\ held[p] = NoSlot        -> "link_bump"
      [] call[p].sys = "link"                            -> "link_at"
      [] call[p].sys = "chdir"                           -> "chdir_at"
      [] call[p].sys = "symlink"                         -> "symlink_at"
IsParent(p) == Cont(p) \in {"create_at", "unlink_at", "link_at", "symlink_at"}

(* The end of a system call.                                              *)
Done(p) ==
    /\ pc' = [pc EXCEPT ![p] = "idle"]
    /\ ip' = [ip EXCEPT ![p] = NoSlot]
    /\ call' = [call EXCEPT ![p] = NoCall]
    /\ path' = [path EXCEPT ![p] = << >>]
    /\ depth' = [depth EXCEPT ![p] = 0]

(* namex returns 0: the call fails, except that sys_link, which already   *)
(* raised the old inode's nlink, goes to its bad: label.                  *)
Fail(p, st) ==
    /\ Commit(st)
    /\ IF Cont(p) = "link_at"
         THEN /\ pc' = [pc EXCEPT ![p] = "link_bad"]
              /\ ip' = [ip EXCEPT ![p] = NoSlot]
              /\ UNCHANGED <<call, path, depth>>
         ELSE Done(p)

(* namex returns ip: the call goes on with it.                            *)
Return(p, st) ==
    /\ Commit(st)
    /\ pc' = [pc EXCEPT ![p] = Cont(p)]
    /\ UNCHANGED <<ip, call, path, depth>>

(* The start of namex: an absolute path starts at iget(ROOTDEV, ROOTINO), *)
(* a relative one at idup(p->cwd).                                        *)
NamexStart(p, pa, st) ==
    /\ IF pa.abs
         THEN /\ CanIget(st.t, ROOTINO)
              /\ Commit(Iget(st, ROOTINO))
              /\ ip' = [ip EXCEPT ![p] = IgetSlot(st.t, ROOTINO)]
         ELSE /\ Commit(Idup(st, cwd[p]))
              /\ ip' = [ip EXCEPT ![p] = cwd[p]]
    /\ path' = [path EXCEPT ![p] = pa.elems]
    /\ depth' = [depth EXCEPT ![p] = 0]
    /\ pc' = [pc EXCEPT ![p] = "walk"]

(***************************************************************************)
(* One pass of namex's main loop.  With no element left the loop ends:    *)
(* namei returns ip, nameiparent iputs it and returns 0.  Otherwise       *)
(* ilock(ip); a non-directory fails; nameiparent stops before the last    *)
(* element; a missing entry fails; else next = dirlookup (an iget),       *)
(* iunlockput(ip), ilock(next).  A symlink next is released by            *)
(* iunlockput(next) and then iput(next) again, and its (absolute) target  *)
(* is walked from the root before the loop goes on; past                  *)
(* MAX_SYMLINK_DEPTH links it is iunlockput and namex fails, and a         *)
(* relative target fails after the two releases.                          *)
(***************************************************************************)
Walk(p) ==
    LET x == ip[p]
        l == Ilock(Now, x)
        j == Lookup(l, x, Head(path[p]))
    IN
    /\ pc[p] = "walk"
    /\ ~Panicked
    /\ \/ /\ path[p] = << >>
          /\ IF IsParent(p) THEN Fail(p, Iput(Now, x)) ELSE Return(p, Now)
       \/ /\ path[p] # << >>
          /\ Type(l, x) # "dir"
          /\ Fail(p, Iput(l, x))
       \/ /\ path[p] # << >>
          /\ Type(l, x) = "dir"
          /\ IsParent(p) /\ Len(path[p]) = 1
          /\ Return(p, l)
       \/ /\ path[p] # << >>
          /\ Type(l, x) = "dir"
          /\ ~(IsParent(p) /\ Len(path[p]) = 1)
          /\ j = 0
          /\ Fail(p, Iput(l, x))
       \/ /\ path[p] # << >>
          /\ Type(l, x) = "dir"
          /\ ~(IsParent(p) /\ Len(path[p]) = 1)
          /\ j # 0
          /\ CanIget(l.t, j)
          /\ LET nx == IgetSlot(l.t, j)
                 t4 == Ilock(Iput(Iget(l, j), x), nx)
                 t5 == Iput(Iput(t4, nx), nx)
                 r  == TargetWalk(Iget(t5, ROOTINO), IgetSlot(t5.t, ROOTINO),
                                  SymTarget[j].elems)
             IN IF Type(t4, nx) # "symlink"
                  THEN /\ Commit(t4)
                       /\ ip' = [ip EXCEPT ![p] = nx]
                       /\ path' = [path EXCEPT ![p] = Tail(@)]
                       /\ UNCHANGED <<pc, call, depth>>
                ELSE IF depth[p] + 1 > MAX_SYMLINK_DEPTH
                  THEN Fail(p, Iput(t4, nx))
                ELSE IF ~SymTarget[j].abs
                  THEN Fail(p, t5)
                ELSE /\ CanIget(t5.t, ROOTINO)
                     /\ r.ip # IgetPanic
                     /\ IF r.ip = NoSlot THEN Fail(p, r.st)
                        ELSE /\ Commit(r.st)
                             /\ ip' = [ip EXCEPT ![p] = r.ip]
                             /\ path' = [path EXCEPT ![p] = Tail(@)]
                             /\ depth' = [depth EXCEPT ![p] = @ + 1]
                             /\ UNCHANGED <<pc, call>>
    /\ UNCHANGED <<ftable, ofile, cwd, held>>

(* A call of sys_open, sys_mkdir, sys_unlink, sys_link, sys_chdir or      *)
(* sys_symlink: its first namex starts (sys_link's on the old path,       *)
(* sys_symlink's on linkpath).                                            *)
Syscall(p, c) ==
    /\ pc[p] = "idle"
    /\ ~Panicked
    /\ call' = [call EXCEPT ![p] = c]
    /\ NamexStart(p, c.path, Now)
    /\ UNCHANGED <<ftable, ofile, cwd, held>>

(***************************************************************************)
(* The end of sys_open with ip locked: filealloc takes the first file     *)
(* with ref 0 and fdalloc the first free descriptor; if either fails the  *)
(* file (if any) is closed, ip is iunlockput and the call returns         *)
(* -EMFILE.  Otherwise the file refers to ip, whose reference it takes    *)
(* over, and ip is unlocked.                                              *)
(***************************************************************************)
FreeFiles == {f \in Files : ftable[f].ref = 0}
FreeFds(p) == {fd \in Fds : ofile[p][fd] = NoFile}
OpenFile(p, st, x) ==
    IF FreeFiles = {} \/ FreeFds(p) = {}
      THEN Commit(Iput(st, x)) /\ UNCHANGED <<ftable, ofile>>
      ELSE LET om == call[p].omode IN
           /\ Commit(IF om = "trunc" /\ Type(st, x) = "file" THEN Itrunc(st, x)
                                                             ELSE st)
           /\ ftable' = [ftable EXCEPT ![Min(FreeFiles)] =
                           [ref |-> 1, ip |-> x, off |-> 0,
                            readable |-> Readable(om), writable |-> Writable(om)]]
           /\ ofile' = [ofile EXCEPT ![p][Min(FreeFds(p))] = Min(FreeFiles)]

(* sys_open without O_CREATE, once namei returned ip: ilock(ip); a        *)
(* directory opened for writing is iunlockput and -EISDIR.                *)
OpenAt(p) ==
    LET x == ip[p]
        l == Ilock(Now, x)
    IN
    /\ pc[p] = "open_at"
    /\ ~Panicked
    /\ IF Type(l, x) = "dir" /\ call[p].omode # "rdonly"
         THEN Commit(Iput(l, x)) /\ UNCHANGED <<ftable, ofile>>
         ELSE OpenFile(p, l, x)
    /\ Done(p)
    /\ UNCHANGED <<cwd, held>>

(***************************************************************************)
(* create(path, type), once nameiparent returned dp, for sys_open with    *)
(* O_CREATE (T_FILE) and sys_mkdir (T_DIR), and the rest of that call.    *)
(* ilock(dp); an existing entry is iget, dp is iunlockput and ip locked:  *)
(* a file asked for and found is returned to sys_open, anything else is   *)
(* iunlockput and -EEXIST.  Otherwise ialloc (none free: dp is            *)
(* iunlockput and the error returned); ilock(ip), nlink = 1, iupdate; a   *)
(* directory gets "." and ".."; dirlink(dp, name); a directory raises     *)
(* dp->nlink for its ".."; iunlockput(dp).  sys_mkdir then iunlockputs    *)
(* ip, sys_open opens it.                                                 *)
(***************************************************************************)
CreateAt(p) ==
    LET dp   == ip[p]
        name == Head(path[p])
        type == IF call[p].sys = "mkdir" THEN "dir" ELSE "file"
        l    == Ilock(Now, dp)
        j    == Lookup(l, dp, name)
        i    == IallocInum(l)
        x    == IgetSlot(l.t, IF j # 0 THEN j ELSE i)
        e    == Ilock(Iput(Iget(l, j), dp), x)
        a    == SetNlink(Ilock(Ialloc(l, type), x), x, 1)
        b    == IF type = "dir"
                  THEN Dirlink(Dirlink(a, x, ".", i), x, "..", Inum(l, dp))
                  ELSE a
        c    == Dirlink(b, dp, name, i)
        n    == Iput(IF type = "dir" THEN IncNlink(c, dp) ELSE c, dp)
    IN
    /\ pc[p] = "create_at"
    /\ ~Panicked
    /\ \/ /\ j # 0
          /\ CanIget(l.t, j)
          /\ IF type = "file" /\ Type(e, x) = "file"
               THEN OpenFile(p, e, x)
               ELSE Commit(Iput(e, x)) /\ UNCHANGED <<ftable, ofile>>
       \/ /\ j = 0
          /\ FreeInums(l) = {}
          /\ Commit(Iput(l, dp))
          /\ UNCHANGED <<ftable, ofile>>
       \/ /\ j = 0
          /\ FreeInums(l) # {}
          /\ CanIget(l.t, i)
          /\ IF type = "file"
               THEN OpenFile(p, n, x)
               ELSE Commit(Iput(n, x)) /\ UNCHANGED <<ftable, ofile>>
    /\ Done(p)
    /\ UNCHANGED <<cwd, held>>

(* (mutant) sys_unlink that leaves the parent's link count alone when it  *)
(* removes a directory, forgetting the child's "..".                     *)
UnlinkAtKeepParent(p) ==
    LET dp   == ip[p]
        name == Head(path[p])
        l    == Ilock(Now, dp)
        j    == Lookup(l, dp, name)
        x    == IgetSlot(l.t, j)
        e    == Ilock(Iget(l, j), x)
        c    == Dirlink(e, dp, name, 0)
    IN
    /\ pc[p] = "unlink_at"
    /\ ~Panicked
    /\ \/ /\ name \in {".", ".."} \/ j = 0
          /\ Commit(Iput(l, dp))
       \/ /\ name \notin {".", ".."} /\ j # 0
          /\ CanIget(l.t, j)
          /\ Type(e, x) = "dir" /\ ~IsDirEmpty(e, x)
          /\ Commit(Iput(Iput(e, x), dp))
       \/ /\ name \notin {".", ".."} /\ j # 0
          /\ CanIget(l.t, j)
          /\ ~(Type(e, x) = "dir" /\ ~IsDirEmpty(e, x))
          /\ Commit(Iput(DecNlink(Iput(c, dp), x), x))
    /\ Done(p)
    /\ UNCHANGED <<ftable, ofile, cwd, held>>

(***************************************************************************)
(* sys_unlink, once nameiparent returned dp: ilock(dp); "." and ".." and  *)
(* a missing entry go to bad (iunlockput(dp), -1); ip = dirlookup,        *)
(* ilock(ip); a directory that is not empty is iunlockput and goes to     *)
(* bad.  Otherwise the entry is cleared, a directory lowers dp->nlink for *)
(* its "..", iunlockput(dp), then ip->nlink--, iupdate, iunlockput(ip).   *)
(***************************************************************************)
UnlinkAt(p) ==
    LET dp   == ip[p]
        name == Head(path[p])
        l    == Ilock(Now, dp)
        j    == Lookup(l, dp, name)
        x    == IgetSlot(l.t, j)
        e    == Ilock(Iget(l, j), x)
        c    == Dirlink(e, dp, name, 0)
        d    == IF Type(e, x) = "dir" THEN DecNlink(c, dp) ELSE c
    IN
    /\ pc[p] = "unlink_at"
    /\ ~Panicked
    /\ \/ /\ name \in {".", ".."} \/ j = 0
          /\ Commit(Iput(l, dp))
       \/ /\ name \notin {".", ".."} /\ j # 0
          /\ CanIget(l.t, j)
          /\ Type(e, x) = "dir" /\ ~IsDirEmpty(e, x)
          /\ Commit(Iput(Iput(e, x), dp))
       \/ /\ name \notin {".", ".."} /\ j # 0
          /\ CanIget(l.t, j)
          /\ ~(Type(e, x) = "dir" /\ ~IsDirEmpty(e, x))
          /\ Commit(Iput(DecNlink(Iput(d, dp), x), x))
    /\ Done(p)
    /\ UNCHANGED <<ftable, ofile, cwd, held>>

(***************************************************************************)
(* sys_link, once namei(old) returned ip: ilock(ip); a directory is       *)
(* iunlockput and -1.  Otherwise ip->nlink++, iupdate, iunlock, and       *)
(* nameiparent(new) starts while ip is still referenced.                  *)
(***************************************************************************)
LinkBump(p) ==
    LET x == ip[p]
        l == Ilock(Now, x)
    IN
    /\ pc[p] = "link_bump"
    /\ ~Panicked
    /\ \/ /\ Type(l, x) = "dir"
          /\ Commit(Iput(l, x))
          /\ Done(p)
          /\ UNCHANGED held
       \/ /\ Type(l, x) # "dir"
          /\ held' = [held EXCEPT ![p] = x]
          /\ NamexStart(p, call[p].new, IncNlink(l, x))
          /\ UNCHANGED call
    /\ UNCHANGED <<ftable, ofile, cwd>>

(* ... once nameiparent(new) returned dp: ilock(dp); dirlink fails on an  *)
(* existing name (its dirlookup iget is iput again): iunlockput(dp) and   *)
(* bad.  Otherwise the entry is written, iunlockput(dp), iput(ip).        *)
LinkAt(p) ==
    LET dp == ip[p]
        l  == Ilock(Now, dp)
        j  == Lookup(l, dp, Head(path[p]))
    IN
    /\ pc[p] = "link_at"
    /\ ~Panicked
    /\ \/ /\ j # 0
          /\ Commit(Iput(l, dp))
          /\ pc' = [pc EXCEPT ![p] = "link_bad"]
          /\ ip' = [ip EXCEPT ![p] = NoSlot]
          /\ UNCHANGED <<held, call, path, depth>>
       \/ /\ j = 0
          /\ Commit(Iput(Iput(Dirlink(l, dp, Head(path[p]), Inum(l, held[p])), dp),
                         held[p]))
          /\ held' = [held EXCEPT ![p] = NoSlot]
          /\ Done(p)
    /\ UNCHANGED <<ftable, ofile, cwd>>

(* sys_link's bad: ilock(ip), ip->nlink--, iupdate, iunlockput(ip), -1.  *)
LinkBad(p) ==
    /\ pc[p] = "link_bad"
    /\ ~Panicked
    /\ Commit(Iput(DecNlink(Ilock(Now, held[p]), held[p]), held[p]))
    /\ held' = [held EXCEPT ![p] = NoSlot]
    /\ Done(p)
    /\ UNCHANGED <<ftable, ofile, cwd>>

(* (mutant) sys_chdir that never iputs the old working directory.        *)
ChdirAtKeepOld(p) ==
    LET x == ip[p]
        l == Ilock(Now, x)
    IN
    /\ pc[p] = "chdir_at"
    /\ ~Panicked
    /\ \/ /\ Type(l, x) # "dir"
          /\ Commit(Iput(l, x))
          /\ UNCHANGED cwd
       \/ /\ Type(l, x) = "dir"
          /\ Commit(l)
          /\ cwd' = [cwd EXCEPT ![p] = x]
    /\ Done(p)
    /\ UNCHANGED <<ftable, ofile, held>>

(* sys_chdir, once namei returned ip: ilock(ip); a non-directory is       *)
(* iunlockput and -1; else iunlock(ip), iput(p->cwd), p->cwd = ip.        *)
ChdirAt(p) ==
    LET x == ip[p]
        l == Ilock(Now, x)
    IN
    /\ pc[p] = "chdir_at"
    /\ ~Panicked
    /\ \/ /\ Type(l, x) # "dir"
          /\ Commit(Iput(l, x))
          /\ UNCHANGED cwd
       \/ /\ Type(l, x) = "dir"
          /\ Commit(Iput(l, cwd[p]))
          /\ cwd' = [cwd EXCEPT ![p] = x]
    /\ Done(p)
    /\ UNCHANGED <<ftable, ofile, held>>

(***************************************************************************)
(* sys_symlink(target, linkpath), once nameiparent(linkpath) returned dp:  *)
(* ilock(dp); a name that exists is -1 after iunlockput(dp) and the iput  *)
(* of dirlookup's ip.  Otherwise ialloc(dp->dev, T_SYMLINK) fails its     *)
(* type test (only T_FILE, T_DIR and T_DEVICE pass) and returns            *)
(* ERR_PTR_CODE(-EINVAL); sys_symlink tests the result against 0 only, so *)
(* it goes on to ilock the error pointer, a load from an unmapped kernel  *)
(* address: kerneltrap panics with dp still locked and referenced.        *)
(***************************************************************************)
SymlinkAt(p) ==
    LET dp == ip[p]
        l  == Ilock(Now, dp)
        j  == Lookup(l, dp, Head(path[p]))
    IN
    /\ pc[p] = "symlink_at"
    /\ ~Panicked
    /\ \/ /\ j # 0
          /\ CanIget(l.t, j)
          /\ Commit(Iput(Iput(Iget(l, j), dp), IgetSlot(l.t, j)))
          /\ Done(p)
       \/ /\ j = 0
          /\ Commit(l)
          /\ pc' = [pc EXCEPT ![p] = "panic"]
          /\ UNCHANGED <<ip, call, path, depth>>
    /\ UNCHANGED <<ftable, ofile, cwd, held>>

(* argfd: the descriptor names an open file of p.  The calls are given   *)
(* only descriptors in 0..NOFILE-1, so the range test is always passed.  *)
Argfd(p, fd) == ofile[p][fd] # NoFile

(* (mutant) sys_close that does not clear p->ofile[fd], so the same      *)
(* descriptor can be closed twice.                                        *)
CloseKeepFd(p, fd) ==
    LET f == ofile[p][fd] IN
    /\ pc[p] = "idle"
    /\ ~Panicked
    /\ Argfd(p, fd)
    /\ IF ftable[f].ref = 1
         THEN /\ Commit(Iput(Now, ftable[f].ip))
              /\ ftable' = [ftable EXCEPT ![f] = NoFileEntry]
         ELSE /\ ftable' = [ftable EXCEPT ![f].ref = @ - 1]
              /\ UNCHANGED <<disk, itable, bitmap>>
    /\ UNCHANGED <<ofile, cwd, pc, call, ip, path, depth, held>>

(* sys_close: p->ofile[fd] = 0, then fileclose: the last reference to the *)
(* file iputs its inode.                                                  *)
Close(p, fd) ==
    LET f == ofile[p][fd] IN
    /\ pc[p] = "idle"
    /\ ~Panicked
    /\ Argfd(p, fd)
    /\ ofile' = [ofile EXCEPT ![p][fd] = NoFile]
    /\ IF ftable[f].ref = 1
         THEN /\ Commit(Iput(Now, ftable[f].ip))
              /\ ftable' = [ftable EXCEPT ![f] = NoFileEntry]
         ELSE /\ ftable' = [ftable EXCEPT ![f].ref = @ - 1]
              /\ UNCHANGED <<disk, itable, bitmap>>
    /\ UNCHANGED <<cwd, pc, call, ip, path, depth, held>>

(* sys_dup: fdalloc gives the first free descriptor the same file, and    *)
(* filedup raises its ref.  With no free descriptor dup returns -1 and    *)
(* changes nothing.                                                       *)
Dup(p, fd) ==
    LET f == ofile[p][fd] IN
    /\ pc[p] = "idle"
    /\ ~Panicked
    /\ Argfd(p, fd)
    /\ FreeFds(p) # {}
    /\ ofile' = [ofile EXCEPT ![p][Min(FreeFds(p))] = f]
    /\ ftable' = [ftable EXCEPT ![f].ref = @ + 1]
    /\ UNCHANGED <<disk, itable, bitmap, cwd, pc, call, ip, path, depth, held>>

(* (mutant) writei that sets ip->size past off even when bmap returned 0  *)
(* and nothing was written.                                               *)
WriteiGrowAlways(st, x, o) ==
    LET i == Inum(st, x)
        a == BmapAlloc(st, x, o)
    IN
    IF o > st.d[i].size \/ o + 1 > MAXFILE THEN [st |-> st, n |-> -1]
    ELSE [st |-> [a.st EXCEPT !.d[i].size = Max({@, o + 1})],
          n |-> IF a.ok THEN 1 ELSE 0]

(* writei of the one block at block offset o of the locked inode x: -1    *)
(* for o > ip->size or past MAXFILE; otherwise bmap(ip, off / BSIZE)      *)
(* finds or allocates the block (0 ends the loop with nothing written),   *)
(* ip->size = off if off grew past it, and iupdate(ip) in either case.    *)
(* The result is the state and the blocks written (n).                    *)
Writei(st, x, o) ==
    LET i == Inum(st, x)
        a == BmapAlloc(st, x, o)
    IN
    IF o > st.d[i].size \/ o + 1 > MAXFILE THEN [st |-> st, n |-> -1]
    ELSE IF a.ok THEN [st |-> [a.st EXCEPT !.d[i].size = Max({@, o + 1})],
                       n |-> 1]
    ELSE [st |-> a.st, n |-> 0]

(* readi of the block at block offset o: nothing at or past ip->size;      *)
(* otherwise bmap(ip, off / BSIZE), and 0 ends the loop with nothing read. *)
Readi(st, x, o) ==
    LET a == BmapAlloc(st, x, o) IN
    IF o >= st.d[Inum(st, x)].size THEN [st |-> st, n |-> 0]
    ELSE [st |-> a.st, n |-> IF a.ok THEN 1 ELSE 0]

(* The file's offset after a transfer of n blocks (-1 is an error).      *)
Advance(f, n) ==
    IF n > 0 THEN [ftable EXCEPT ![f].off = @ + n] ELSE ftable

(***************************************************************************)
(* sys_write of one block: argfd, then filewrite (file.c) checks           *)
(* f->writable, ilocks f->ip, calls writei(ip, f->off, BSIZE), adds the    *)
(* bytes written to f->off and iunlocks.  MaxFileBlocks bounds the         *)
(* offsets written at; a write past the size is always allowed, since it  *)
(* fails.                                                                  *)
(***************************************************************************)
Write(p, fd) ==
    LET f == ofile[p][fd]
        x == ftable[f].ip
        w == Writei(Ilock(Now, x), x, ftable[f].off)
    IN
    /\ pc[p] = "idle"
    /\ ~Panicked
    /\ Argfd(p, fd) /\ ftable[f].writable
    /\ ftable[f].off < MaxFileBlocks \/ ftable[f].off > disk[Inum(Now, x)].size
    /\ Commit(w.st)
    /\ ftable' = Advance(f, w.n)
    /\ UNCHANGED <<ofile, cwd, pc, call, ip, path, depth, held>>

(* sys_read of one block: argfd, then fileread checks f->readable, ilocks *)
(* f->ip, calls readi(ip, f->off, BSIZE) and adds the bytes read to off.  *)
Read(p, fd) ==
    LET f == ofile[p][fd]
        x == ftable[f].ip
        r == Readi(Ilock(Now, x), x, ftable[f].off)
    IN
    /\ pc[p] = "idle"
    /\ ~Panicked
    /\ Argfd(p, fd) /\ ftable[f].readable
    /\ Commit(r.st)
    /\ ftable' = Advance(f, r.n)
    /\ UNCHANGED <<ofile, cwd, pc, call, ip, path, depth, held>>

(***************************************************************************)
(* A crash and reboot.  The log makes every system call's disk writes     *)
(* atomic, so the disk that survives is one no call was in the middle of; *)
(* memory is lost, and the first process's fsinit runs ireclaim: every    *)
(* dinode with a type and no links (a file that was unlinked while open)  *)
(* is iget, ilock'ed, iunlock'ed and iput, which frees it.               *)
(***************************************************************************)
Orphan(i) == disk[i].type # "free" /\ disk[i].nlink = 0
(* (mutant) a reboot without ireclaim.                                   *)
IreclaimNone == disk
Ireclaim == [i \in Inums |-> IF Orphan(i) THEN FreeInode ELSE disk[i]]
Crash ==
    /\ \A p \in Procs : pc[p] = "idle"
    /\ disk' = Ireclaim
    /\ bitmap' = bitmap \ UNION {Range(disk[i].addrs) :
                                  i \in {k \in Inums : Ireclaim[k] # disk[k]}}
    /\ itable' = BootTable
    /\ ftable' = [f \in Files |-> NoFileEntry]
    /\ ofile' = [p \in Procs |-> [fd \in Fds |-> NoFile]]
    /\ cwd' = [p \in Procs |-> 1]
    /\ UNCHANGED <<pc, call, ip, path, depth, held>>

Next ==
    \/ \E p \in Procs :
          \/ \E c \in Calls[p] : Syscall(p, c)
          \/ Walk(p) \/ OpenAt(p) \/ CreateAt(p) \/ UnlinkAt(p)
          \/ LinkBump(p) \/ LinkAt(p) \/ LinkBad(p) \/ ChdirAt(p)
          \/ SymlinkAt(p)
          \/ \E fd \in Fds : Close(p, fd) \/ Dup(p, fd) \/ Write(p, fd)
                              \/ Read(p, fd)
    \/ Crash
    \/ Halt

Spec == Init /\ [][Next]_vars

-----------------------------------------------------------------------------
(* The processes that hold a reference to slot x: a namex in progress or a *)
(* call holding the inode it returned, sys_link's old inode, an open file, *)
(* and a working directory.                                               *)
Holders(x) ==
    Cardinality({p \in Procs : pc[p] \notin {"idle", "link_bad"} /\ ip[p] = x})
    + Cardinality({p \in Procs : held[p] = x})
    + Cardinality({f \in Files : ftable[f].ref > 0 /\ ftable[f].ip = x})
    + Cardinality({p \in Procs : cwd[p] = x})

(* The reference count of every inode table slot equals the references    *)
(* held to it.  iget, idup and iput in namex, the system calls, fileclose *)
(* and chdir are meant to keep it so (spec section 8, inode reference); a *)
(* slot whose count is below its holders is recycled under them, and one  *)
(* above them is never freed.                                             *)
RefCountsMatch ==
    \A x \in Slots : itable[x].ref = Holders(x)

(* The directories that still have a name: a directory whose link count  *)
(* fell to 0 was removed by unlink and is only waiting for its last iput. *)
LiveDir(d) == disk[d].type = "dir" /\ disk[d].nlink > 0

(* The link count of every inode equals the entries naming it in live     *)
(* directories ("." aside; a directory's ".." counts for its parent),     *)
(* plus one while a sys_link has raised it and not yet written the new    *)
(* entry.  create, unlink and link change an entry and the count in one   *)
(* locked stretch, or undo the count on failure; a count above its        *)
(* entries is an inode never freed, one below is freed while named.       *)
LinkCountsMatch ==
    \A i \in Inums :
        disk[i].nlink =
            Cardinality({<<d, n>> \in Inums \X (DirNames \ {"."}) :
                            LiveDir(d) /\ disk[d].ents[n] = i})
            + Cardinality({p \in Procs : held[p] # NoSlot
                                         /\ itable[held[p]].inum = i})

(* An inode is allocated on disk exactly when it has a link or an         *)
(* in-memory reference: iput frees the last reference to an unlinked      *)
(* inode, ireclaim frees the ones a crash left unreferenced, and nothing  *)
(* frees an inode that is still named or held.                            *)
InodeLive ==
    \A i \in Inums :
        disk[i].type # "free" <=>
            (disk[i].nlink > 0 \/ \E x \in Slots : itable[x].ref > 0
                                                  /\ itable[x].inum = i)
(* Every data block marked in the bitmap belongs to exactly one place of  *)
(* one inode's block map, and every block a map names is marked: bmap     *)
(* marks before it links, a failed bmap keeps what it linked, itrunc      *)
(* (from O_TRUNC, iput and ireclaim) unmarks exactly what it unlinks.  A  *)
(* block marked and unnamed is lost for good; one named twice is two      *)
(* files' data, or a file's data and an indirect block, in one block.     *)
BlocksOwned ==
    /\ bitmap = UNION {Range(disk[i].addrs) : i \in Inums}
    /\ \A i, k \in Inums : \A q \in DOMAIN disk[i].addrs, r \in DOMAIN disk[k].addrs :
          <<i, q>> # <<k, r>> => disk[i].addrs[q] # disk[k].addrs[r]

(* Every block below a file's size has a data block: writei moves size    *)
(* only past what it wrote, so a read within the size never meets a hole  *)
(* (readi's bmap would allocate one in the middle of a read).             *)
SizeMapped ==
    \A i \in Inums : \A bn \in 0..(disk[i].size - 1) :
        BmapPath(bn) \in DOMAIN disk[i].addrs
====
