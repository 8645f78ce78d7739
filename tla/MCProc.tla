------------------------------- MODULE MCProc -------------------------------
(* Instantiates Proc for TLC: the harts are model values, and the model is *)
(* symmetric in them.                                                      *)
EXTENDS Proc, TLC

CONSTANTS c1, c2

MCCPUs2 == {c1, c2}
MCCPUs1 == {c1}
AllPolicies == {RR, PRIO, MLFQ}
NoPolicy == {}
MlfqOnly == {MLFQ}
RrPrio == {RR, PRIO}
CpuSymmetry == Permutations(CPUs)
=============================================================================
