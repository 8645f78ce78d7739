----------------------------- MODULE MCSyncPrims -----------------------------
(* Instantiates SyncPrims with one producer and two consumers on a ring of *)
(* two slots, one mutex user (the condition's waiter and signaller take    *)
(* the same mutex), a waiter and a signaller, two readers and a writer.   *)
(* CondWaitPanic.cfg leaves the mutex user out.                           *)
EXTENDS SyncPrims, TLC

CONSTANTS p1, k1, k2, m1, cw1, cs1, r1, r2, w1
=============================================================================
