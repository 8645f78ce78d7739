-------------------------------- MODULE Bmap --------------------------------
(***************************************************************************)
(* The block map of an inode (kernel/fs.h, bmap in kernel/fs.c): which    *)
(* slot of ip->addrs, and which entries of which indirect blocks, lead to *)
(* the data block holding file block bn.                                  *)
(*                                                                         *)
(* A place in the tree is a path: <<s>> is ip->addrs[s], <<s, i>> entry i *)
(* of the block ip->addrs[s] names, and so on.  bmap walks the prefixes   *)
(* of BmapPath(bn) and allocates every one that is still 0.  NDIRECT and  *)
(* NINDIRECT are constants here (10 and BSIZE / sizeof(uint) = 1024 in    *)
(* fs.h) so that a model can keep them small.                             *)
(***************************************************************************)
EXTENDS Naturals, Sequences

CONSTANTS
    NDIRECT,     \* direct block addresses in addrs[]
    NINDIRECT    \* addresses in one indirect block

NINDIRECT2 == NINDIRECT * NINDIRECT
NINDIRECT3 == NINDIRECT * NINDIRECT * NINDIRECT
MAXFILE == NDIRECT + NINDIRECT + NINDIRECT2 + NINDIRECT3

(* bmap's four cases, each after subtracting the blocks of the cases     *)
(* before it: addrs[bn]; a[bn] of addrs[NDIRECT]; a[bn / NINDIRECT] of    *)
(* addrs[NDIRECT+1] then a[bn % NINDIRECT]; a[bn / NINDIRECT2] of         *)
(* addrs[NDIRECT+2], then a[(bn % NINDIRECT2) / NINDIRECT], then          *)
(* a[bn % NINDIRECT].  bn >= MAXFILE is panic("bmap: out of range").      *)
BmapPath(bn) ==
    IF bn < NDIRECT THEN <<bn>>
    ELSE LET b1 == bn - NDIRECT IN
    IF b1 < NINDIRECT THEN <<NDIRECT, b1>>
    ELSE LET b2 == b1 - NINDIRECT IN
    IF b2 < NINDIRECT2
      THEN <<NDIRECT + 1, b2 \div NINDIRECT, b2 % NINDIRECT>>
    ELSE LET b3 == b2 - NINDIRECT2 IN
         <<NDIRECT + 2, b3 \div NINDIRECT2, (b3 % NINDIRECT2) \div NINDIRECT,
           b3 % NINDIRECT>>

(* The places bmap walks through for bn, the slot of addrs first.         *)
Prefixes(q) == [k \in 1..Len(q) |-> SubSeq(q, 1, k)]

-----------------------------------------------------------------------------
(* The reference: a file's blocks are numbered direct blocks first, then  *)
(* the blocks under the single-, double- and triple-indirect block, each  *)
(* level in the order of its entries read as a number in base NINDIRECT.  *)
RECURSIVE BaseValue(_)
BaseValue(ds) ==
    IF ds = << >> THEN 0
    ELSE BaseValue(SubSeq(ds, 1, Len(ds) - 1)) * NINDIRECT + ds[Len(ds)]

(* The first file block under the level-k indirect block (k = 1, 2, 3).   *)
RECURSIVE LevelStart(_)
LevelStart(k) ==
    IF k = 1 THEN NDIRECT ELSE LevelStart(k - 1) + NINDIRECT ^ (k - 1)

(* A place that can hold a data block: a direct slot, or an entry k       *)
(* levels below addrs[NDIRECT + k - 1], every index within its block.     *)
DataPath(q) ==
    \/ Len(q) = 1 /\ q[1] \in 0..(NDIRECT - 1)
    \/ /\ Len(q) \in 2..4
       /\ q[1] = NDIRECT + Len(q) - 2
       /\ \A j \in 2..Len(q) : q[j] \in 0..(NINDIRECT - 1)

(* The file block a data place holds under the reference numbering.       *)
RefBlock(q) ==
    IF Len(q) = 1 THEN q[1] ELSE LevelStart(Len(q) - 1) + BaseValue(Tail(q))

(* bmap sends every file block below MAXFILE to a place that can hold     *)
(* data, and to the place the reference numbering gives it, so no two     *)
(* blocks of a file share a data block and none lands on an indirect      *)
(* block's own slot.  The subtractions and the / and % of the four cases  *)
(* in fs.c are what this checks.                                          *)
BmapMatchesRef ==
    \A bn \in 0..(MAXFILE - 1) :
        DataPath(BmapPath(bn)) /\ RefBlock(BmapPath(bn)) = bn
====
