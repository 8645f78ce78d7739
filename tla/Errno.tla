------------------------------- MODULE Errno -------------------------------
(***************************************************************************)
(* The system-call dispatcher's last-error rule (kernel/syscall.c,         *)
(* syscall()) as one process sees it, with sys_geterrno (kernel/sysproc.c) *)
(* as one of the calls it dispatches.  The handlers other than geterrno    *)
(* are abstracted to the value they return.                                *)
(***************************************************************************)
EXTENDS Integers

CONSTANTS
    Returns,   \* values a handler other than geterrno may return
    ENOSYS     \* errno.h: 38

VARIABLES
    errno,     \* p->errno
    a0,        \* p->trapframe->a0, what the user sees as the result
    last       \* the kind of the call just made (for stating properties)

vars == <<errno, a0, last>>

Init ==
    /\ errno = 0          \* allocproc: p->errno = 0
    /\ a0 = 0
    /\ last = "none"

\* syscall(): a negative return becomes errno = -ret and a0 = -1; any other
\* return clears errno (EOK) and is passed through
Dispatch(ret) ==
    IF ret < 0 THEN errno' = -ret /\ a0' = -1
               ELSE errno' = 0 /\ a0' = ret

\* sys_geterrno: return myproc()->errno, then through the dispatcher
GetErrno ==
    /\ Dispatch(errno)
    /\ last' = "geterrno"

\* any implemented handler, returning r
Call(r) ==
    /\ Dispatch(r)
    /\ last' = "call"

\* syscall(): a number with no handler
Unknown ==
    /\ errno' = ENOSYS
    /\ a0' = -1
    /\ last' = "unknown"

Next == GetErrno \/ Unknown \/ \E r \in Returns : Call(r)

Spec == Init /\ [][Next]_vars

TypeOK ==
    /\ errno \in Nat
    /\ a0 \in Int
    /\ last \in {"none", "geterrno", "call", "unknown"}

(* errno persistence (spec section 8, user/errno_test.c test 5): two       *)
(* geterrno calls in a row return the same value, so reading the last     *)
(* error does not itself change it.                                        *)
ErrnoPersists ==
    [][last = "geterrno" /\ last' = "geterrno" => a0' = a0]_vars
=============================================================================
