------------------------------ MODULE MCErrno ------------------------------
(* Instantiates Errno: a handler either succeeds (0, as getpid's pid would *)
(* be some non-negative value) or fails with -ENOENT, as sys_open does for *)
(* a missing path.                                                         *)
EXTENDS Errno

ENOENT == 2
MCReturns == {0, -ENOENT}
=============================================================================
