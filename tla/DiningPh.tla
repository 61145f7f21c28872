------------------------------ MODULE DiningPh ------------------------------
(***************************************************************************)
(* The dining philosophers of threads/diningph.cc, a monitor made of one   *)
(* Lock and one Condition per philosopher, and the threads of              *)
(* threads/threadtest.cc that use it.                                      *)
(***************************************************************************)
EXTENDS Synch

CONSTANTS
    N,       \* philosophers (5 in the code)
    Rounds   \* times each of them eats (10 in the code)

ASSUME NAssumption == N \in Nat /\ N > 1
ASSUME RoundsAssumption == Rounds \in Nat
ASSUME NullAssumption == NULL \notin 0 .. N - 1

VARIABLES
    state,   \* DiningPh::state
    eaten,   \* the loop variable i of Philo
    pc       \* the next statement of each philosopher's thread

vars == <<synchVars, state, eaten, pc>>

Phil == 0 .. N - 1
dp == "dp"                        \* the monitor's Lock; self[i] is Condition i

Left(i) == (i + (N - 1)) % N
Right(i) == (i + 1) % N

States == {"Thinking", "Hungry", "Eating"}

(***************************************************************************)
(* "pickup", "putdown": in dp->Acquire's P.  "hungry", "thinking":    *)
(* Acquire is to set owner, then the new state is assigned.  "test",       *)
(* "left", "right": at a call of test.  "check": at the "if ... Hungry".   *)
(* "waiting": in self[who]->Wait.  "leavePickup", "leavePutdown": at       *)
(* Release.                                                                *)
(***************************************************************************)
Places == {"pickup", "hungry", "test", "check", "waiting", "leavePickup",
           "eat", "putdown", "thinking", "left", "right", "leavePutdown", "done"}

Init ==
    /\ value = [s \in {dp} |-> 1]
    /\ queue = [s \in {dp} |-> <<>>]
    /\ owner = [l \in {dp} |-> NULL]
    /\ waiters = [i \in Phil |-> <<>>]
    /\ state = [i \in Phil |-> "Thinking"]
    /\ eaten = [i \in Phil |-> 0]
    /\ pc = [i \in Phil |-> IF Rounds = 0 THEN "done" ELSE "pickup"]

Goto(i, from, to) == pc[i] = from /\ pc' = [pc EXCEPT ![i] = to]

-----------------------------------------------------------------------------
(* DiningPh::test: philosopher i eats if it is hungry and neither          *)
(* neighbour eats; t is the thread that looks.                             *)
MayEatLeftOnly(i) == state[Left(i)] # "Eating" /\ state[i] = "Hungry"    \* variant

MayEat(i) ==
    state[Left(i)] # "Eating" /\ state[i] = "Hungry" /\ state[Right(i)] # "Eating"

(* Variant: test wakes the philosopher, who is to look for itself. *)
testOnlySignals(t, i) ==
    /\ IF MayEat(i) /\ t # i THEN Signal(t, i, dp) ELSE UNCHANGED waiters
    /\ state' = IF MayEat(i) /\ t = i THEN [state EXCEPT ![i] = "Eating"] ELSE state

test(t, i) ==
    IF MayEat(i)
       THEN /\ state' = [state EXCEPT ![i] = "Eating"]
            /\ Signal(t, i, dp)
       ELSE UNCHANGED <<state, waiters>>

(* pickup and putdown: dp->Acquire() *)
Acquire(i) ==
    /\ \/ Goto(i, "pickup", "hungry") \/ Goto(i, "putdown", "thinking")
    /\ Pass(i, dp)
    /\ UNCHANGED <<owner, waiters, state, eaten>>

AcquireBlocks(i) ==
    /\ pc[i] \in {"pickup", "putdown"}
    /\ Block(i, dp)
    /\ UNCHANGED <<owner, waiters, state, eaten, pc>>

(* pickup: state[who] = Hungry *)
Pickup(i) ==
    /\ Goto(i, "hungry", "test")
    /\ SetOwner(i, dp)
    /\ state' = [state EXCEPT ![i] = "Hungry"]
    /\ UNCHANGED <<value, queue, waiters, eaten>>

(* pickup: test(who) *)
PickupTest(i) ==
    /\ Goto(i, "test", "check")
    /\ test(i, i)
    /\ UNCHANGED <<value, queue, owner, eaten>>

(* pickup: if (state[who] == Hungry) self[who]->Wait(dp) *)
PickupWait(i) ==
    /\ Goto(i, "check", "waiting")
    /\ state[i] = "Hungry"
    /\ WaitBegin(i, i, dp)
    /\ UNCHANGED <<state, eaten>>

PickupNoWait(i) ==
    /\ Goto(i, "check", "leavePickup")
    /\ state[i] # "Hungry"
    /\ UNCHANGED <<synchVars, state, eaten>>

(* the rest of Wait, once signalled *)
PickupWoken(i) ==
    /\ Goto(i, "waiting", "leavePickup")
    /\ WaitReacquire(i, dp)
    /\ UNCHANGED <<state, eaten>>

PickupWokenBlocks(i) ==
    /\ pc[i] = "waiting"
    /\ WaitBlock(i, dp)
    /\ UNCHANGED <<state, eaten, pc>>

(* pickup: dp->Release() *)
PickupRelease(i) ==
    /\ Goto(i, "leavePickup", "eat")
    /\ Release(dp)
    /\ UNCHANGED <<waiters, state, eaten>>

(* Philo between pickup and putdown *)
Eat(i) ==
    /\ Goto(i, "eat", "putdown")
    /\ UNCHANGED <<synchVars, state, eaten>>

(* putdown: state[who] = Thinking *)
Putdown(i) ==
    /\ Goto(i, "thinking", "left")
    /\ SetOwner(i, dp)
    /\ state' = [state EXCEPT ![i] = "Thinking"]
    /\ UNCHANGED <<value, queue, waiters, eaten>>

(* putdown: test of the left, then of the right neighbour *)
PutdownLeft(i) ==
    /\ Goto(i, "left", "right")
    /\ test(i, Left(i))
    /\ UNCHANGED <<value, queue, owner, eaten>>

PutdownRight(i) ==
    /\ Goto(i, "right", "leavePutdown")
    /\ test(i, Right(i))
    /\ UNCHANGED <<value, queue, owner, eaten>>

(* putdown: dp->Release(), then the next round of Philo *)
PutdownRelease(i) ==
    /\ Goto(i, "leavePutdown", IF eaten[i] + 1 = Rounds THEN "done" ELSE "pickup")
    /\ Release(dp)
    /\ eaten' = [eaten EXCEPT ![i] = @ + 1]
    /\ UNCHANGED <<waiters, state>>

Step(i) ==
    \/ Acquire(i) \/ AcquireBlocks(i)
    \/ Pickup(i) \/ PickupTest(i) \/ PickupWait(i) \/ PickupNoWait(i)
    \/ PickupWoken(i) \/ PickupWokenBlocks(i) \/ PickupRelease(i)
    \/ Eat(i)
    \/ Putdown(i) \/ PutdownLeft(i) \/ PutdownRight(i) \/ PutdownRelease(i)

(* Every thread has finished. *)
Finished == (\A i \in Phil : pc[i] = "done") /\ UNCHANGED vars

Next == (\E i \in Phil : Step(i)) \/ Finished

(* A thread that is not asleep is on the ready list and gets its turn.     *)
Fairness == \A i \in Phil : WF_vars(Step(i))

Spec == Init /\ [][Next]_vars /\ Fairness

-----------------------------------------------------------------------------
(* The monitor's state is well formed. *)
TypeOK ==
    /\ value \in [{dp} -> Nat]
    /\ queue \in [{dp} -> Seq(Phil)]
    /\ owner \in [{dp} -> Phil \union {NULL}]
    /\ waiters \in [Phil -> Seq(Phil)]
    /\ state \in [Phil -> States]
    /\ eaten \in [Phil -> 0 .. Rounds]
    /\ pc \in [Phil -> Places]

(* Neighbours never eat at the same time: test looks at both before it     *)
(* lets a philosopher eat.                                                 *)
NoNeighboursEat ==
    \A i \in Phil : state[i] = "Eating" => state[Right(i)] # "Eating"

(* pickup returns only with the forks: Wait is called under an if, not a   *)
(* while, so a woken philosopher does not look at its state again.         *)
PickupGivesForks ==
    \A i \in Phil : pc[i] \in {"leavePickup", "eat", "putdown", "thinking"}
                        => state[i] = "Eating"

InMonitor == {"hungry", "test", "check", "leavePickup", "thinking", "left",
              "right", "leavePutdown"}

(* The Lock works: one thread at most is inside the monitor, its value     *)
(* says whether one is, and owner is never another thread.                 *)
MonitorExclusive ==
    /\ \A i, j \in Phil : pc[i] \in InMonitor /\ pc[j] \in InMonitor => i = j
    /\ value[dp] = IF \E i \in Phil : pc[i] \in InMonitor THEN 0 ELSE 1
    /\ owner[dp] # NULL => pc[owner[dp]] \in InMonitor

(* No signal is missing: when nobody is in the monitor, a philosopher that *)
(* sleeps on its condition has an eating neighbour, who will wake it.      *)
HungryIsRemembered ==
    \A i \in Phil :
        value[dp] = 1 /\ i \in Elems(waiters[i])
            => "Eating" \in {state[Left(i)], state[Right(i)]}

(* Every philosopher eats Rounds times and finishes. *)
EveryoneFinishes == <>(\A i \in Phil : pc[i] = "done")
=============================================================================
