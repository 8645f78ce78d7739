------------------------------ MODULE MCBCache ------------------------------
(* Three blocks for two buffers, so that get_block must recycle a buffer. *)
EXTENDS BCache, TLC
CONSTANTS t1, t2, b1, b2, b3
MCThreads == {t1, t2}
MCBlocks == {b1, b2, b3}
====
