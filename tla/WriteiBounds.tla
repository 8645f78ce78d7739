---------------------------- MODULE WriteiBounds ----------------------------
(***************************************************************************)
(* The byte range of a write (writei in kernel/fs.c): its two tests on    *)
(* off and n and the loop that hands off / BSIZE to bmap chunk by chunk.  *)
(* off, n, tot and m are 32-bit uints in the code, so every sum wraps at  *)
(* 2^32; here the width is UINT_BITS, so that every off and n can be      *)
(* enumerated.  MAXFILE*BSIZE is a size_t (NINDIRECT is a sizeof), so the *)
(* second test compares without wrapping.                                 *)
(***************************************************************************)
EXTENDS Naturals, Bmap

CONSTANTS
    BSIZE,       \* bytes of a block
    UINT_BITS    \* width of C's uint

Uint == 0..(2^UINT_BITS - 1)
UAdd(a, b) == (a + b) % 2^UINT_BITS

(* (mutant) the overflow test off + n < off left out.                     *)
WriteiAcceptsNoWrap(size, off, n) ==
    /\ ~(off > size)
    /\ ~(UAdd(off, n) > MAXFILE * BSIZE)

(* if(off > ip->size || off + n < off) return -1;                         *)
(* if(off + n > MAXFILE*BSIZE) return -1;                                 *)
WriteiAccepts(size, off, n) ==
    /\ ~(off > size \/ UAdd(off, n) < off)
    /\ ~(UAdd(off, n) > MAXFILE * BSIZE)

(* The loop: bmap(ip, off/BSIZE), m = min(n - tot, BSIZE - off%BSIZE),    *)
(* then tot += m and off += m, until tot = n; the file blocks it asks     *)
(* bmap for.  left is n - tot.                                            *)
RECURSIVE WriteiBlocks(_, _)
WriteiBlocks(off, left) ==
    IF left = 0 THEN {}
    ELSE LET m == IF left < BSIZE - (off % BSIZE) THEN left
                  ELSE BSIZE - (off % BSIZE)
         IN  {off \div BSIZE} \cup WriteiBlocks(UAdd(off, m), left - m)

(* A write writei accepts on a file of size bytes asks bmap for exactly  *)
(* the file blocks that hold bytes off .. off + n - 1, none of them at or *)
(* past MAXFILE, whatever off and n the caller passes: the overflow test *)
(* keeps the loop from wrapping back to the start of the file.  The bound *)
(* MAXFILE holds whenever 2^UINT_BITS <= MAXFILE*BSIZE, by the width.     *)
WriteiInRange(size) ==
    \A off, n \in Uint :
        WriteiAccepts(size, off, n) /\ n > 0 =>
            /\ WriteiBlocks(off, n) = (off \div BSIZE)..((off + n - 1) \div BSIZE)
            /\ (off + n - 1) \div BSIZE < MAXFILE
====
