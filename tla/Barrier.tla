------------------------------- MODULE Barrier -------------------------------
(***************************************************************************)
(* The Barrier of threads/synch.cc: count threads call Wait, once each.    *)
(* sem and mutex are its two semaphores.                                   *)
(***************************************************************************)
EXTENDS Synch, FiniteSets

CONSTANT Threads              \* the threads that meet at the barrier

ASSUME ThreadsAssumption == IsFiniteSet(Threads)

VARIABLES
    arrived,                  \* Barrier::arrived
    stage                     \* the next statement of Wait for each thread

barrierVars == <<synchVars, arrived, stage>>

count == Cardinality(Threads)

(* "outside": has not got past mutex->P(); "arrive": at arrived++;         *)
(* "unlock": at mutex->V(); "wait": at sem->P(); "passed": Wait returned.  *)
BarrierInit ==
    /\ value = [s \in {"sem", "mutex"} |-> IF s = "mutex" THEN 1 ELSE 0]
    /\ queue = [s \in {"sem", "mutex"} |-> <<>>]
    /\ owner = << >>          \* no locks, no conditions
    /\ waiters = << >>
    /\ arrived = 0
    /\ stage = [t \in Threads |-> "outside"]

GoOn(t, from, to) == stage[t] = from /\ stage' = [stage EXCEPT ![t] = to]

(* mutex->P(), sem->P() *)
Lock(t) ==
    /\ GoOn(t, "outside", "arrive")
    /\ Pass(t, "mutex")
    /\ UNCHANGED <<owner, waiters, arrived>>

LockBlocks(t) ==
    /\ stage[t] = "outside"
    /\ Block(t, "mutex")
    /\ UNCHANGED <<owner, waiters, arrived, stage>>

(* Variant: the barrier opens one thread too early. *)
ArriveEarly(t) ==
    /\ GoOn(t, "arrive", "unlock")
    /\ arrived' = arrived + 1
    /\ IF arrived + 2 = count THEN V("sem") ELSE UNCHANGED <<value, queue>>
    /\ UNCHANGED <<owner, waiters>>

(* arrived++; if (arrived == count) sem->V() *)
Arrive(t) ==
    /\ GoOn(t, "arrive", "unlock")
    /\ arrived' = arrived + 1
    /\ IF arrived + 1 = count THEN V("sem") ELSE UNCHANGED <<value, queue>>
    /\ UNCHANGED <<owner, waiters>>

(* mutex->V() *)
Unlock(t) ==
    /\ GoOn(t, "unlock", "wait")
    /\ V("mutex")
    /\ UNCHANGED <<owner, waiters, arrived>>

(* sem->P() *)
Leave(t) ==
    /\ GoOn(t, "wait", "passed")
    /\ Pass(t, "sem")
    /\ UNCHANGED <<owner, waiters, arrived>>

LeaveBlocks(t) ==
    /\ stage[t] = "wait"
    /\ Block(t, "sem")
    /\ UNCHANGED <<owner, waiters, arrived, stage>>

Wait(t) == \/ Lock(t) \/ LockBlocks(t) \/ Arrive(t) \/ Unlock(t)
           \/ Leave(t) \/ LeaveBlocks(t)

BarrierNext == \E t \in Threads : Wait(t)

BarrierSpec == BarrierInit /\ [][BarrierNext]_barrierVars

-----------------------------------------------------------------------------
(* Nobody continues before all count threads have called Wait, and at most *)
(* one thread at a time is between the P and the V of mutex.               *)
NobodyLeavesEarly ==
    /\ \A t, u \in Threads : stage[t] = "passed" => stage[u] # "outside"
    /\ \A t, u \in Threads : {stage[t], stage[u]} \subseteq {"arrive", "unlock"} => t = u
=============================================================================
