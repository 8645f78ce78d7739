---------------------------- MODULE ProcLifecycle ----------------------------
(***************************************************************************)
(* What the process table promises (spec section 4.7), with no CPUs,       *)
(* locks, channels or selectors: the life of a slot, its parent pointer    *)
(* and its killed flag.                                                    *)
(*                                                                         *)
(*   free -> embryo -> ready <-> running -> blocked -> ready               *)
(*                               running -> zombie -> free                 *)
(*                                                                         *)
(* A slot is created not killed and is given a parent by a running         *)
(* process; only a running process blocks, exits or reaps; exit hands the *)
(* children to the init slot and may wake the parent and init; a zombie    *)
(* is freed only by its parent; kill finds a slot that has an id, marks    *)
(* it and wakes it if it is blocked.  Proc.tla is checked to implement     *)
(* this specification.                                                     *)
(***************************************************************************)
CONSTANTS
    Slots,     \* the process slots
    InitSlot,  \* the init process's slot
    NoSlot     \* a null parent

VARIABLES
    lstate,    \* the life stage of each slot
    lparent,   \* each slot's parent, or NoSlot
    lkilled    \* each slot's killed flag

lvars == <<lstate, lparent, lkilled>>

Stages == {"free", "embryo", "ready", "running", "blocked", "zombie"}

LTypeOK ==
    /\ lstate \in [Slots -> Stages]
    /\ lparent \in [Slots -> Slots \cup {NoSlot}]
    /\ lkilled \in [Slots -> BOOLEAN]

LInit ==
    /\ lstate = [s \in Slots |-> IF s = InitSlot THEN "ready" ELSE "free"]
    /\ lparent = [s \in Slots |-> NoSlot]
    /\ lkilled = [s \in Slots |-> FALSE]

(* A free slot becomes an embryo, with no parent and not killed.          *)
Alloc(s) ==
    /\ lstate[s] = "free" /\ ~lkilled[s]
    /\ lstate' = [lstate EXCEPT ![s] = "embryo"]
    /\ UNCHANGED <<lparent, lkilled>>

(* The running process p becomes the parent of the embryo s.              *)
Adopt(p, s) ==
    /\ lstate[p] = "running" /\ lstate[s] = "embryo" /\ lparent[s] = NoSlot
    /\ lparent' = [lparent EXCEPT ![s] = p]
    /\ UNCHANGED <<lstate, lkilled>>

(* An embryo with a parent becomes ready.                                 *)
Start(s) ==
    /\ lstate[s] = "embryo" /\ lparent[s] # NoSlot
    /\ lstate' = [lstate EXCEPT ![s] = "ready"]
    /\ UNCHANGED <<lparent, lkilled>>

Run(s) ==
    /\ lstate[s] = "ready"
    /\ lstate' = [lstate EXCEPT ![s] = "running"]
    /\ UNCHANGED <<lparent, lkilled>>

Preempt(s) ==
    /\ lstate[s] = "running"
    /\ lstate' = [lstate EXCEPT ![s] = "ready"]
    /\ UNCHANGED <<lparent, lkilled>>

Block(s) ==
    /\ lstate[s] = "running"
    /\ lstate' = [lstate EXCEPT ![s] = "blocked"]
    /\ UNCHANGED <<lparent, lkilled>>

(* Some blocked slots become ready.                                       *)
Wake(W) ==
    /\ W # {} /\ \A s \in W : lstate[s] = "blocked"
    /\ lstate' = [s \in Slots |-> IF s \in W THEN "ready" ELSE lstate[s]]
    /\ UNCHANGED <<lparent, lkilled>>

(* The running slot s other than init becomes a zombie; its children go    *)
(* to init; of its parent and init, those in W (blocked) become ready.     *)
Exit(s, W) ==
    /\ lstate[s] = "running" /\ s # InitSlot
    /\ W \subseteq {lparent[s], InitSlot} \ {s}
    /\ \A w \in W : lstate[w] = "blocked"
    /\ lstate' = [t \in Slots |-> IF t = s THEN "zombie"
                                  ELSE IF t \in W THEN "ready" ELSE lstate[t]]
    /\ lparent' = [t \in Slots |-> IF lparent[t] = s THEN InitSlot ELSE lparent[t]]
    /\ UNCHANGED lkilled

(* The running parent p frees its zombie child z.                         *)
Reap(p, z) ==
    /\ lstate[p] = "running" /\ lstate[z] = "zombie" /\ lparent[z] = p
    /\ lstate' = [lstate EXCEPT ![z] = "free"]
    /\ lparent' = [lparent EXCEPT ![z] = NoSlot]
    /\ lkilled' = [lkilled EXCEPT ![z] = FALSE]

(* Kill of a slot that has an id: mark it; if blocked it becomes ready.   *)
Kill(s) ==
    /\ lstate[s] # "free"
    /\ lkilled' = [lkilled EXCEPT ![s] = TRUE]
    /\ lstate' = [lstate EXCEPT ![s] = IF @ = "blocked" THEN "ready" ELSE @]
    /\ UNCHANGED lparent

LNext ==
    \/ \E s \in Slots :
          Alloc(s) \/ Start(s) \/ Run(s) \/ Preempt(s) \/ Block(s) \/ Kill(s)
    \/ \E p, s \in Slots : Adopt(p, s) \/ Reap(p, s)
    \/ \E W \in SUBSET Slots : Wake(W)
    \/ \E s \in Slots, W \in SUBSET Slots : Exit(s, W)

LSpec == LInit /\ [][LNext]_lvars
=============================================================================
