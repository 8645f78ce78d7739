------------------------------ MODULE MCKalloc ------------------------------
(***************************************************************************)
(* Kalloc for TLC: the values of sbrk's n, in pages.  -1 shrinks (and,    *)
(* at size 0, wraps below 0); 2 is an eager grow that can run out of      *)
(* memory after mapping one page, or pass TRAPFRAME.                       *)
(***************************************************************************)
EXTENDS Kalloc

MCSbrkN == {-1, 1, 2}
=============================================================================
