----------------------------- MODULE MCFsInode -----------------------------
(* Instantiates FsInode for TLC: two processes, four inode numbers, and   *)
(* two disks with the calls made on them.                                 *)
EXTENDS FsInode, TLC
CONSTANTS p1, p2
MCProcs == {p1, p2}
MCInums == 1..4
ProcSymmetry == Permutations(MCProcs)

Abs(es) == [abs |-> TRUE, elems |-> es]
Rel(es) == [abs |-> FALSE, elems |-> es]
Sys(s, pa, new, om) == [sys |-> s, path |-> pa, new |-> new, omode |-> om]
Dir(es, nl) == [FreeInode EXCEPT !.type = "dir", !.nlink = nl,
                 !.ents = [n \in DirNames |-> IF n \in DOMAIN es THEN es[n] ELSE 0]]
Leaf(ty) == [FreeInode EXCEPT !.type = ty, !.nlink = 1]
MCDataBlocks == 1..3

(* bmap's subtractions, / and % agree with the reference numbering of     *)
(* Bmap.tla for every file block below MAXFILE of the configured NDIRECT  *)
(* and NINDIRECT: no two file blocks share a place and none lands on the  *)
(* slot of an indirect block.  TLC evaluates this before any state.       *)
ASSUME BmapMatchesRef
(* skipelem, iterated as namex iterates it, splits every path of up to 5 *)
(* characters over {/, a, b} into the elements of the [abs, elems] record *)
(* FsInode walks, with a name buffer of 2 bytes so that elements reach    *)
(* DIRSIZ and are cut.                                                    *)
PathP == INSTANCE Path WITH DIRSIZ <- 2, Letters <- {"a", "b"}, MaxPath <- 5
ASSUME PathP!SkipelemMatchesRef
(* writei's tests and loop at a 4-bit uint and 2-byte blocks: 2^4 bytes  *)
(* lie below MAXFILE*BSIZE = 28, as 2^32 lies below it in fs.h.  WriteiOk *)
(* holds the answer for every file size, so TLC computes it once.         *)
MCBSIZE == 2
WB == INSTANCE WriteiBounds WITH BSIZE <- MCBSIZE, UINT_BITS <- 4
WriteiOk == [size \in WB!Uint |-> WB!WriteiInRange(size)]
(* On every file of the disk, a write writei accepts, at any off and n a  *)
(* caller passes, asks bmap for exactly the blocks of bytes off .. off +   *)
(* n - 1: writei's overflow test keeps the loop from wrapping to block 0. *)
(* That they lie below MAXFILE follows from the width alone (2^UINT_BITS  *)
(* bytes fit in MAXFILE blocks), not from writei's MAXFILE test.          *)
WriteiBlocksInRange ==
    \A i \in Inums : disk[i].type = "file" => WriteiOk[disk[i].size * MCBSIZE]
NoTarget == [i \in MCInums |-> Abs(<< >>)]

(* Symlinks: / holds directory d and symlink s -> /d; d holds file f.     *)
SymNames == {"d", "s", "f"}
SymDisk == (1 :> Dir("." :> 1 @@ ".." :> 1 @@ "d" :> 2 @@ "s" :> 4, 2)
            @@ 2 :> Dir("." :> 2 @@ ".." :> 1 @@ "f" :> 3, 1)
            @@ 3 :> Leaf("file") @@ 4 :> Leaf("symlink"))
SymTargets == [NoTarget EXCEPT ![4] = Abs(<<"d">>)]
SymOpens == {Sys("open", Abs(<<"d", "f">>), Abs(<< >>), "rdonly"),
             Sys("open", Abs(<<"s", "f">>), Abs(<< >>), "rdonly")}
SymCalls == [p \in MCProcs |-> SymOpens]

(* Names: / holds directory d, d holds file f (one block, under its      *)
(* single-indirect block: data blocks 1 and 2 of 3), and inode 4 is free. *)
(* The calls make a in / (a file or a directory), link /d/f to /a, create *)
(* /a/f, unlink /d/f and /d, step into /a, and fail in each way the code  *)
(* checks for.                                                             *)
FsNames == {"a", "d", "f"}
FsDisk == (1 :> Dir("." :> 1 @@ ".." :> 1 @@ "d" :> 2, 2)
           @@ 2 :> Dir("." :> 2 @@ ".." :> 1 @@ "f" :> 3, 1)
           @@ 3 :> [Leaf("file") EXCEPT !.size = 1,
                                        !.addrs = (<<0>> :> 1) @@ (<<0, 0>> :> 2)]
           @@ 4 :> FreeInode)
None == Abs(<< >>)
(* p1 works on files: it opens /d/f, creates or truncates /a, links /d/f *)
(* to /a, and creates /a/f: in /a when p2 has made it a directory (the    *)
(* disk is full unless f has been freed), a walk through a file when /a  *)
(* is one; and it reads and writes what it opened.                        *)
FileCalls ==
    {Sys("open", Abs(<<"d", "f">>), None, "rdonly"),
     Sys("open", Abs(<<"a">>), None, "trunc"),
     Sys("link", Abs(<<"d", "f">>), Abs(<<"a">>), "rdonly"),
     Sys("open", Abs(<<"a", "f">>), None, "create")}
(* p2 works on directories: it makes /a a directory and steps into it (a *)
(* file when p1 got there first), unlinks /d/f and /d, and makes the     *)
(* calls that fail: a directory linked, and symlink /a -> /d, which fails *)
(* when /a exists and panics the kernel otherwise.                        *)
DirCalls ==
    {Sys("mkdir", Abs(<<"a">>), None, "rdonly"),
     Sys("unlink", Abs(<<"d", "f">>), None, "rdonly"),
     Sys("unlink", Abs(<<"d">>), None, "rdonly"),
     Sys("chdir", Abs(<<"a">>), None, "rdonly"),
     Sys("link", Abs(<<"d">>), Abs(<<"a">>), "rdonly"),
     Sys("symlink", Abs(<<"a">>), Abs(<<"d">>), "rdonly")}
FsCalls == (p1 :> FileCalls) @@ (p2 :> DirCalls)

(* A slot with ref 0 is only ever recycled, and iget rewrites all of it,  *)
(* so its stale inum and valid flag cannot change what happens next: the  *)
(* view forgets them.                                                     *)
LiveTable == [x \in Slots |-> IF itable[x].ref = 0 THEN [inum |-> ROOTINO, ref |-> 0, valid |-> FALSE]
                                                    ELSE itable[x]]
FsView == <<disk, LiveTable, ftable, ofile, cwd, pc, call, ip, path, depth, held,
           bitmap>>
====
