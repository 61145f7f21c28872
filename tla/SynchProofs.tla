------------------------------ MODULE SynchProofs ------------------------------
(***************************************************************************)
(* Proofs about the programs whose threads or processes meet: on the       *)
(* classes of threads/synch.cc, Barrier::Wait, for any number of threads,  *)
(* and the dining philosophers, for any number of them and of rounds; and  *)
(* the roundabout of TareaProgramada1, for any number of streets, cars and *)
(* starts, and any limit.                                                  *)
(***************************************************************************)
EXTENDS Barrier, DiningPh, Roundabout, DataProofs, FiniteSetTheorems

Sems == {"sem", "mutex"}
Inside == {t \in Threads : stage[t] \in {"arrive", "unlock"}}
Arrived == {t \in Threads : stage[t] \in {"unlock", "wait", "passed"}}
Through == {t \in Threads : stage[t] = "passed"}

BarrierTypeOK ==
    /\ value \in [Sems -> Nat]
    /\ arrived \in Nat
    /\ stage \in [Threads -> {"outside", "arrive", "unlock", "wait", "passed"}]

(* mutex is a mutex: its value and the threads inside are one together.    *)
MutexExact ==
    /\ \A t, u \in Inside : t = u
    /\ Inside # {} => value["mutex"] = 0
    /\ value["mutex"] <= 1

(* arrived counts the threads that have arrived. *)
ArrivedExact == arrived = Cardinality(Arrived)

(* sem is signalled only once, when all have arrived. *)
OpensLate ==
    /\ value["sem"] + Cardinality(Through) <= 1
    /\ value["sem"] + Cardinality(Through) > 0 => arrived = count

BInv == BarrierTypeOK /\ MutexExact /\ ArrivedExact /\ OpensLate

-----------------------------------------------------------------------------
(* Sets of threads are finite. *)
LEMMA Finite ==
    /\ count \in Nat
    /\ \A S \in SUBSET Threads : IsFiniteSet(S) /\ Cardinality(S) \in Nat
  BY ThreadsAssumption, FS_Subset, FS_CardinalityType DEF count

(* Before the first call nobody has arrived and the mutex is free. *)
LEMMA InitHolds == BarrierInit => BInv
<1> SUFFICES ASSUME BarrierInit PROVE BInv
  OBVIOUS
<1>1. BarrierTypeOK
  BY DEF BarrierInit, BarrierTypeOK, Sems
<1>2. Inside = {} /\ Arrived = {} /\ Through = {}
  BY DEF BarrierInit, Inside, Arrived, Through
<1>3. value["mutex"] = 1 /\ value["sem"] = 0 /\ arrived = 0
  BY DEF BarrierInit
<1> QED BY <1>1, <1>2, <1>3, FS_EmptySet
        DEF BInv, MutexExact, ArrivedExact, OpensLate

(* A thread that arrives is one more, so it is not there yet when all are. *)
LEMMA ArriveHolds ==
    ASSUME BInv, NEW t \in Threads, Arrive(t)
    PROVE  BInv'
<1>1. /\ stage[t] = "arrive" /\ stage' = [stage EXCEPT ![t] = "unlock"]
      /\ arrived' = arrived + 1
      /\ value' = IF arrived + 1 = count THEN [value EXCEPT !["sem"] = @ + 1] ELSE value
  BY DEF Arrive, GoOn, V
<1>2. BarrierTypeOK'
  BY <1>1 DEF BInv, BarrierTypeOK, Sems
<1>3. Inside' = Inside /\ value'["mutex"] = value["mutex"]
  BY <1>1 DEF BInv, BarrierTypeOK, Inside, Sems
<1>4. Arrived' = Arrived \union {t} /\ t \notin Arrived
  BY <1>1 DEF BInv, BarrierTypeOK, Arrived
<1>5. Through' = Through
  BY <1>1 DEF BInv, BarrierTypeOK, Through
<1>6. Cardinality(Arrived') = Cardinality(Arrived) + 1 /\ IsFiniteSet(Arrived)
  <2>1. IsFiniteSet(Arrived)
    BY Finite DEF Arrived
  <2> QED BY <1>4, <2>1, FS_AddElement
<1>7. arrived # count
  <2>1. Arrived \subseteq Threads /\ Arrived # Threads
    BY <1>4 DEF Arrived
  <2> QED BY <2>1, ThreadsAssumption, FS_Subset DEF BInv, ArrivedExact, count
<1>8. value["sem"] = 0 /\ Cardinality(Through) = 0
  <2>1. Cardinality(Through) \in Nat /\ value["sem"] \in Nat
    BY Finite DEF Through, BInv, BarrierTypeOK, Sems
  <2> QED BY <1>7, <2>1 DEF BInv, OpensLate
<1>9. OpensLate'
  <2>1. CASE arrived + 1 = count
    <3>1. value'["sem"] = 1
      BY <1>1, <1>8, <2>1 DEF BInv, BarrierTypeOK, Sems
    <3>2. count' = count
      BY DEF count
    <3> QED BY <1>1, <1>5, <1>8, <2>1, <3>1, <3>2 DEF OpensLate
  <2>2. CASE arrived + 1 # count
    BY <1>1, <1>5, <1>8, <2>2 DEF OpensLate
  <2> QED BY <2>1, <2>2
<1> QED BY <1>1, <1>2, <1>3, <1>4, <1>6, <1>9 DEF BInv, MutexExact, ArrivedExact

(* The P and the V of the mutex move one thread in and out. *)
LEMMA MutexHolds ==
    ASSUME BInv, NEW t \in Threads, Lock(t) \/ Unlock(t)
    PROVE  BInv'
<1>1. arrived' = arrived /\ count' = count /\ value'["sem"] = value["sem"]
  BY DEF BInv, BarrierTypeOK, Lock, Unlock, Pass, V, count, Sems
<1>2. BarrierTypeOK'
  BY DEF BInv, BarrierTypeOK, Lock, Unlock, GoOn, Pass, V, Sems
<1>3. Arrived' = Arrived /\ Through' = Through
  BY DEF BInv, BarrierTypeOK, Lock, Unlock, GoOn, Arrived, Through
<1>4. CASE Lock(t)
  <2>1. value["mutex"] \in Nat \ {0} /\ value'["mutex"] = value["mutex"] - 1
    BY <1>4 DEF BInv, BarrierTypeOK, Lock, Pass, Sems
  <2>2. Inside = {} /\ Inside' = {t}
    BY <1>4, <2>1 DEF BInv, BarrierTypeOK, MutexExact, Lock, GoOn, Inside
  <2>3. MutexExact'
    BY <2>1, <2>2 DEF BInv, MutexExact
  <2> QED BY <1>1, <1>2, <1>3, <2>3 DEF BInv, ArrivedExact, OpensLate
<1>5. CASE Unlock(t)
  <2>1. value'["mutex"] = value["mutex"] + 1
    BY <1>5 DEF BInv, BarrierTypeOK, Unlock, V, Sems
  <2>2. t \in Inside /\ Inside' = {}
    BY <1>5 DEF BInv, BarrierTypeOK, MutexExact, Unlock, GoOn, Inside
  <2>3. MutexExact'
    BY <2>1, <2>2 DEF BInv, MutexExact
  <2> QED BY <1>1, <1>2, <1>3, <2>3 DEF BInv, ArrivedExact, OpensLate
<1> QED BY <1>4, <1>5

(* A thread that leaves takes the unit that the last one put there. *)
LEMMA LeaveHolds ==
    ASSUME BInv, NEW t \in Threads, Leave(t)
    PROVE  BInv'
<1>1. /\ arrived' = arrived /\ count' = count /\ value'["mutex"] = value["mutex"]
      /\ value["sem"] \in Nat /\ value'["sem"] = value["sem"] - 1
  BY DEF BInv, BarrierTypeOK, Leave, Pass, count, Sems
<1>2. BarrierTypeOK'
  BY DEF BInv, BarrierTypeOK, Leave, GoOn, Pass, Sems
<1>3. /\ Arrived' = Arrived /\ Inside' = Inside
      /\ Through' = Through \union {t} /\ t \notin Through
  BY DEF BInv, BarrierTypeOK, Leave, GoOn, Arrived, Inside, Through
<1>4. Cardinality(Through') = Cardinality(Through) + 1 /\ Cardinality(Through) \in Nat
  <2>1. IsFiniteSet(Through) /\ Cardinality(Through) \in Nat
    BY Finite DEF Through
  <2> QED BY <1>3, <2>1, FS_AddElement
<1> QED BY <1>1, <1>2, <1>3, <1>4 DEF BInv, MutexExact, ArrivedExact, OpensLate

(* Every step of Wait keeps the invariant. *)
LEMMA StepHolds == BInv /\ [BarrierNext]_barrierVars => BInv'
<1> SUFFICES ASSUME BInv, [BarrierNext]_barrierVars PROVE BInv'
  OBVIOUS
<1> DEFINE Same == UNCHANGED <<value, arrived, stage>>
<1>1. ASSUME Same PROVE BInv'
  BY <1>1 DEF BInv, BarrierTypeOK, MutexExact, ArrivedExact, OpensLate,
              Inside, Arrived, Through, count
<1>2. CASE UNCHANGED barrierVars
  BY <1>1, <1>2 DEF barrierVars, synchVars
<1>3. ASSUME NEW t \in Threads, Wait(t) PROVE BInv'
  <2>1. CASE Lock(t) \/ Unlock(t)
    BY <2>1, MutexHolds
  <2>2. CASE Arrive(t)
    BY <2>2, ArriveHolds
  <2>3. CASE Leave(t)
    BY <2>3, LeaveHolds
  <2>4. CASE LockBlocks(t) \/ LeaveBlocks(t)
    BY <1>1, <2>4 DEF LockBlocks, LeaveBlocks, Block
  <2> QED BY <1>3, <2>1, <2>2, <2>3, <2>4 DEF Wait
<1> QED BY <1>2, <1>3 DEF BarrierNext

(* The invariant holds in every state of the barrier. *)
LEMMA BarrierInvariant == BarrierSpec => []BInv
  BY InitHolds, StepHolds, PTL DEF BarrierSpec

-----------------------------------------------------------------------------
(* Barrier::Wait: nobody returns from it before all count threads have     *)
(* called it, and mutex protects arrived, for any number of threads.       *)
THEOREM BarrierWaitsForAll == BarrierSpec => []NobodyLeavesEarly
<1>1. BInv => NobodyLeavesEarly
  <2> SUFFICES ASSUME BInv PROVE NobodyLeavesEarly
    OBVIOUS
  <2>1. ASSUME NEW t \in Threads, NEW u \in Threads, stage[t] = "passed"
        PROVE  stage[u] # "outside"
    <3>1. Cardinality(Through) > 0
      <4>1. t \in Through /\ IsFiniteSet(Through) /\ Cardinality(Through) \in Nat
        BY <2>1, Finite DEF Through
      <4> QED BY <4>1, FS_EmptySet
    <3>2. Cardinality(Arrived) = Cardinality(Threads)
      BY <3>1, Finite DEF BInv, BarrierTypeOK, Sems, OpensLate, ArrivedExact, count, Through
    <3>3. Arrived = Threads
      BY <3>2, ThreadsAssumption, FS_Subset DEF Arrived
    <3> QED BY <3>3 DEF Arrived
  <2>2. ASSUME NEW t \in Threads, NEW u \in Threads,
               {stage[t], stage[u]} \subseteq {"arrive", "unlock"}
        PROVE  t = u
    BY <2>2 DEF BInv, MutexExact, Inside
  <2> QED BY <2>1, <2>2 DEF NobodyLeavesEarly
<1> QED BY <1>1, BarrierInvariant, PTL

(* sem is signalled a single time: of all the threads that wait only one   *)
(* ever returns from Barrier::Wait, whatever their number.                 *)
OnlyOneContinues == \A t, u \in Threads : stage[t] = "passed" /\ stage[u] = "passed" => t = u

(* Barrier::Wait returns to at most one thread. *)
THEOREM OneThreadPasses == BarrierSpec => []OnlyOneContinues
<1>1. BInv => OnlyOneContinues
  <2> SUFFICES ASSUME BInv, NEW t \in Through, NEW u \in Through, t # u PROVE FALSE
    BY DEF OnlyOneContinues, Through
  <2>1. IsFiniteSet(Through) /\ {t, u} \in SUBSET Through
    BY Finite DEF Through
  <2>2. Cardinality({t, u}) = 2
    <3>1. IsFiniteSet({t}) /\ Cardinality({t}) = 1 /\ {t, u} = {t} \union {u} /\ u \notin {t}
      BY FS_Singleton
    <3> QED BY <3>1, FS_AddElement
  <2>3. Cardinality({t, u}) <= Cardinality(Through)
    BY <2>1, FS_Subset
  <2> QED BY <2>2, <2>3, Finite DEF BInv, OpensLate, BarrierTypeOK, Sems, Through
<1> QED BY <1>1, BarrierInvariant, PTL

-----------------------------------------------------------------------------
(* The dining philosophers. *)

(* The remainder of a number below 2 * N. *)
LEMMA Wrap ==
    ASSUME NEW k \in Nat, k < 2 * N
    PROVE  k % N = IF k < N THEN k ELSE k - N
  BY NAssumption

(* Each philosopher has two neighbours, and is a neighbour of theirs. *)
LEMMA Neighbours ==
    \A i \in Phil :
        /\ Left(i) \in Phil /\ Right(i) \in Phil /\ Left(i) # i /\ Right(i) # i
        /\ Right(Left(i)) = i /\ Left(Right(i)) = i
<1>1. \A i \in Phil : Right(i) = IF i = N - 1 THEN 0 ELSE i + 1
  BY Wrap, NAssumption DEF Phil, Right
<1>2. \A i \in Phil : Left(i) = IF i = 0 THEN N - 1 ELSE i - 1
  BY Wrap, NAssumption DEF Phil, Left
<1>3. \A i \in Phil : Left(i) \in Phil /\ Right(i) \in Phil /\ Left(i) # i /\ Right(i) # i
  BY <1>1, <1>2, NAssumption DEF Phil
<1> QED BY <1>1, <1>2, <1>3, NAssumption DEF Phil

-----------------------------------------------------------------------------
(* A philosopher that is not done has rounds to go. *)
RoundsLeft == \A i \in Phil : pc[i] # "done" => eaten[i] < Rounds

(* Past SetOwner, the thread inside the monitor is the owner of the lock,  *)
(* so that Signal and Wait work.                                           *)
OwnerInside ==
    \A i \in Phil :
        pc[i] \in {"test", "check", "leavePickup", "left", "right", "leavePutdown"}
            => owner[dp] = i

(* Only philosopher i waits on condition i, once, and inside pickup. *)
OwnCondition ==
    \A i \in Phil :
        /\ Elems(waiters[i]) \subseteq {i} /\ NoDuplicates(waiters[i])
        /\ i \in Elems(waiters[i]) => pc[i] = "waiting"

(* The state of a philosopher agrees with where its thread is. *)
StateFollowsPc ==
    \A i \in Phil :
        /\ pc[i] \in {"pickup", "hungry", "left", "right", "leavePutdown", "done"}
               => state[i] = "Thinking"
        /\ pc[i] = "test" => state[i] = "Hungry"
        /\ pc[i] = "check" => state[i] \in {"Hungry", "Eating"}
        /\ pc[i] = "waiting" =>
               state[i] = IF i \in Elems(waiters[i]) THEN "Hungry" ELSE "Eating"
        /\ pc[i] \in {"leavePickup", "eat", "putdown", "thinking"} => state[i] = "Eating"

(* A philosopher that waits, or is about to, has an eating neighbour, or   *)
(* one that is in putdown and has yet to test it.                          *)
Pending(i) ==
    \/ "Eating" \in {state[Left(i)], state[Right(i)]}
    \/ pc[Left(i)] \in {"left", "right"} \/ pc[Right(i)] = "left"

Remembered ==
    \A i \in Phil :
        i \in Elems(waiters[i]) \/ (pc[i] = "check" /\ state[i] = "Hungry")
            => Pending(i)

(* The inductive invariant. *)
DInv ==
    /\ TypeOK /\ RoundsLeft
    /\ MonitorExclusive /\ OwnerInside
    /\ OwnCondition /\ StateFollowsPc /\ NoNeighboursEat /\ Remembered

-----------------------------------------------------------------------------
(* Semaphore::V keeps the lock's semaphore well formed. *)
LEMMA VType ==
    ASSUME TypeOK, V(dp)
    PROVE  value' \in [{dp} -> Nat] /\ queue' \in [{dp} -> Seq(Phil)]
<1>1. queue[dp] # <<>> => Tail(queue[dp]) \in Seq(Phil)
  BY TailElems DEF TypeOK
<1>2. queue' = [queue EXCEPT ![dp] = IF queue[dp] = <<>> THEN queue[dp] ELSE Tail(queue[dp])]
  BY DEF V
<1>3. queue' \in [{dp} -> Seq(Phil)]
  BY <1>1, <1>2 DEF TypeOK
<1>4. value' \in [{dp} -> Nat]
  BY DEF V, TypeOK
<1> QED BY <1>3, <1>4

(* So does the queueing up in P. *)
LEMMA BlockType ==
    ASSUME TypeOK, NEW i \in Phil, Block(i, dp)
    PROVE  value' \in [{dp} -> Nat] /\ queue' \in [{dp} -> Seq(Phil)]
<1>1. Append(queue[dp], i) \in Seq(Phil)
  BY AppendElems DEF TypeOK
<1>2. queue' = [queue EXCEPT ![dp] = Append(queue[dp], i)] /\ value' = value
  BY DEF Block
<1> QED BY <1>1, <1>2 DEF TypeOK

(* DiningPh::test keeps its part of the state well formed. *)
LEMMA testType ==
    ASSUME TypeOK, NEW t \in Phil, NEW i \in Phil, test(t, i)
    PROVE  state' \in [Phil -> States] /\ waiters' \in [Phil -> Seq(Phil)]
<1>1. CASE ~MayEat(i)
  BY <1>1 DEF test, TypeOK
<1>2. CASE MayEat(i)
  <2>1. state' \in [Phil -> States]
    BY <1>2 DEF test, TypeOK, States
  <2>2. waiters[i] # <<>> => Tail(waiters[i]) \in Seq(Phil)
    BY TailElems DEF TypeOK
  <2>3. \/ waiters' = [waiters EXCEPT ![i] = waiters[i]]
        \/ waiters[i] # <<>> /\ waiters' = [waiters EXCEPT ![i] = Tail(waiters[i])]
    BY <1>2 DEF test, Signal
  <2> QED BY <2>1, <2>2, <2>3 DEF TypeOK
<1> QED BY <1>1, <1>2

(* The state DiningPh::DiningPh sets up satisfies the invariant. *)
LEMMA InitInvariant == Init => DInv
<1> SUFFICES ASSUME Init PROVE DInv
  OBVIOUS
<1>1. \A i \in Phil : waiters[i] = <<>> /\ Elems(waiters[i]) = {} /\ NoDuplicates(waiters[i])
  BY EmptyElems DEF Init
<1>2. TypeOK /\ RoundsLeft
  BY RoundsAssumption DEF Init, TypeOK, RoundsLeft, States, Places
<1>3. MonitorExclusive /\ OwnerInside
  BY DEF Init, MonitorExclusive, OwnerInside, InMonitor
<1>4. OwnCondition /\ StateFollowsPc
  BY <1>1 DEF Init, OwnCondition, StateFollowsPc
<1>5. NoNeighboursEat /\ Remembered
  BY <1>1 DEF Init, NoNeighboursEat, Remembered
<1> QED BY <1>2, <1>3, <1>4, <1>5 DEF DInv

(* Every step keeps the state well formed. *)
LEMMA NextType == TypeOK /\ RoundsLeft /\ [Next]_vars => TypeOK' /\ RoundsLeft'
<1> SUFFICES ASSUME TypeOK, RoundsLeft, [Next]_vars PROVE TypeOK' /\ RoundsLeft'
  OBVIOUS
<1> USE RoundsAssumption DEF Goto
<1>1. ASSUME NEW i \in Phil, Acquire(i) PROVE TypeOK' /\ RoundsLeft'
  <2>1. PICK p \in Places : /\ pc' = [pc EXCEPT ![i] = p] /\ p # "done"
                            /\ pc[i] # "done"
    BY <1>1 DEF Acquire, Places
  <2>2. value' \in [{dp} -> Nat] /\ UNCHANGED <<queue, owner, waiters, state, eaten>>
    BY <1>1 DEF Acquire, Pass, TypeOK
  <2> QED BY <2>1, <2>2 DEF TypeOK, RoundsLeft
<1>2. ASSUME NEW i \in Phil, AcquireBlocks(i) PROVE TypeOK' /\ RoundsLeft'
  BY <1>2, BlockType DEF AcquireBlocks, TypeOK, RoundsLeft
<1>3. ASSUME NEW i \in Phil, Pickup(i) PROVE TypeOK' /\ RoundsLeft'
  BY <1>3 DEF Pickup, SetOwner, TypeOK, RoundsLeft, Places, States
<1>4. ASSUME NEW i \in Phil, PickupTest(i) PROVE TypeOK' /\ RoundsLeft'
  BY <1>4, testType DEF PickupTest, TypeOK, RoundsLeft, Places
<1>5. ASSUME NEW i \in Phil, PickupWait(i) PROVE TypeOK' /\ RoundsLeft'
  <2>1. V(dp) /\ owner' = [owner EXCEPT ![dp] = NULL]
        /\ waiters' = [waiters EXCEPT ![i] = Append(waiters[i], i)]
    BY <1>5 DEF PickupWait, WaitBegin, Release
  <2>2. Append(waiters[i], i) \in Seq(Phil)
    BY AppendElems DEF TypeOK
  <2>3. waiters' \in [Phil -> Seq(Phil)]
    BY <2>1, <2>2 DEF TypeOK
  <2> QED BY <1>5, <2>1, <2>3, VType DEF PickupWait, TypeOK, RoundsLeft, Places
<1>6. ASSUME NEW i \in Phil, PickupNoWait(i) PROVE TypeOK' /\ RoundsLeft'
  BY <1>6 DEF PickupNoWait, synchVars, TypeOK, RoundsLeft, Places
<1>7. ASSUME NEW i \in Phil, PickupWoken(i) PROVE TypeOK' /\ RoundsLeft'
  BY <1>7 DEF PickupWoken, WaitReacquire, Pass, TypeOK, RoundsLeft, Places
<1>8. ASSUME NEW i \in Phil, PickupWokenBlocks(i) PROVE TypeOK' /\ RoundsLeft'
  BY <1>8, BlockType DEF PickupWokenBlocks, WaitBlock, TypeOK, RoundsLeft
<1>9. ASSUME NEW i \in Phil, PickupRelease(i) PROVE TypeOK' /\ RoundsLeft'
  BY <1>9, VType DEF PickupRelease, Release, TypeOK, RoundsLeft, Places
<1>10. ASSUME NEW i \in Phil, Eat(i) PROVE TypeOK' /\ RoundsLeft'
  BY <1>10 DEF Eat, synchVars, TypeOK, RoundsLeft, Places
<1>11. ASSUME NEW i \in Phil, Putdown(i) PROVE TypeOK' /\ RoundsLeft'
  BY <1>11 DEF Putdown, SetOwner, TypeOK, RoundsLeft, Places, States
<1>12. ASSUME NEW i \in Phil, PutdownLeft(i) \/ PutdownRight(i)
       PROVE  TypeOK' /\ RoundsLeft'
  <2>1. PICK j \in Phil : test(i, j)
    BY <1>12, Neighbours DEF PutdownLeft, PutdownRight
  <2>2. state' \in [Phil -> States] /\ waiters' \in [Phil -> Seq(Phil)]
    BY <2>1, testType
  <2>3. PICK p \in {"right", "leavePutdown"} :
           pc' = [pc EXCEPT ![i] = p] /\ pc[i] # "done"
    BY <1>12 DEF PutdownLeft, PutdownRight
  <2>4. UNCHANGED <<value, queue, owner, eaten>>
    BY <1>12 DEF PutdownLeft, PutdownRight
  <2>5. pc' \in [Phil -> Places] /\ RoundsLeft'
    BY <2>3, <2>4 DEF TypeOK, RoundsLeft, Places
  <2> QED BY <2>2, <2>4, <2>5 DEF TypeOK
<1>13. ASSUME NEW i \in Phil, PutdownRelease(i) PROVE TypeOK' /\ RoundsLeft'
  <2>1. /\ V(dp) /\ owner' = [owner EXCEPT ![dp] = NULL]
        /\ eaten' = [eaten EXCEPT ![i] = @ + 1] /\ UNCHANGED <<waiters, state>>
        /\ pc[i] = "leavePutdown"
        /\ pc' = [pc EXCEPT ![i] = IF eaten[i] + 1 = Rounds THEN "done" ELSE "pickup"]
    BY <1>13 DEF PutdownRelease, Release
  <2>2. eaten[i] \in 0 .. Rounds /\ eaten[i] < Rounds
    BY <2>1 DEF TypeOK, RoundsLeft
  <2>3. eaten' \in [Phil -> 0 .. Rounds] /\ pc' \in [Phil -> Places] /\ RoundsLeft'
    BY <2>1, <2>2 DEF TypeOK, RoundsLeft, Places
  <2> QED BY <2>1, <2>3, VType DEF TypeOK
<1>14. ASSUME UNCHANGED vars PROVE TypeOK' /\ RoundsLeft'
  BY <1>14 DEF vars, synchVars, TypeOK, RoundsLeft
<1> QED BY <1>1, <1>2, <1>3, <1>4, <1>5, <1>6, <1>7, <1>8, <1>9, <1>10, <1>11,
           <1>12, <1>13, <1>14 DEF Next, Step, Finished

-----------------------------------------------------------------------------
Monitor == MonitorExclusive /\ OwnerInside

(* A thread enters the monitor, past the P of Acquire. *)
LEMMA EnterMonitor ==
    ASSUME DInv, NEW i \in Phil, NEW p \in InMonitor, pc' = [pc EXCEPT ![i] = p],
           value[dp] > 0, value' = [value EXCEPT ![dp] = @ - 1],
           \/ UNCHANGED owner /\ p \in {"hungry", "thinking"}
           \/ owner' = [owner EXCEPT ![dp] = i]
    PROVE  Monitor'
<1>1. \A j \in Phil : pc[j] \notin InMonitor
  BY DEF DInv, MonitorExclusive
<1>2. value[dp] = 1 /\ value'[dp] = 0
  BY DEF DInv, MonitorExclusive, TypeOK
<1>3. \A j \in Phil : pc'[j] \in InMonitor <=> j = i
  BY <1>1 DEF DInv, TypeOK
<1>4. owner[dp] = NULL
  BY <1>1 DEF DInv, TypeOK, MonitorExclusive
<1>5. MonitorExclusive'
  BY <1>2, <1>3, <1>4 DEF MonitorExclusive, DInv, TypeOK
<1>6. OwnerInside'
  BY <1>3 DEF OwnerInside, InMonitor, DInv, TypeOK
<1> QED BY <1>5, <1>6 DEF Monitor

(* The thread inside the monitor moves on; it is or becomes the owner. *)
LEMMA StayInMonitor ==
    ASSUME DInv, NEW i \in Phil, NEW p \in InMonitor, pc[i] \in InMonitor,
           pc' = [pc EXCEPT ![i] = p], UNCHANGED value,
           \/ UNCHANGED owner /\ owner[dp] = i
           \/ owner' = [owner EXCEPT ![dp] = i]
    PROVE  Monitor'
<1>1. \A j \in Phil : pc[j] \in InMonitor <=> j = i
  BY DEF DInv, MonitorExclusive
<1>2. \A j \in Phil : pc'[j] \in InMonitor <=> j = i
  BY <1>1 DEF DInv, TypeOK
<1>3. value'[dp] = 0 /\ owner'[dp] = i
  BY DEF DInv, MonitorExclusive, TypeOK
<1>4. MonitorExclusive'
  BY <1>2, <1>3 DEF MonitorExclusive, DInv, TypeOK
<1>5. OwnerInside'
  BY <1>2, <1>3 DEF OwnerInside, InMonitor
<1> QED BY <1>4, <1>5 DEF Monitor

(* The thread inside the monitor leaves it: Release. *)
LEMMA LeaveMonitor ==
    ASSUME DInv, NEW i \in Phil, NEW p, p \notin InMonitor, pc[i] \in InMonitor,
           pc' = [pc EXCEPT ![i] = p], Release(dp)
    PROVE  Monitor'
<1>1. value[dp] = 0 /\ \A j \in Phil : pc[j] \in InMonitor <=> j = i
  BY DEF DInv, MonitorExclusive
<1>2. value'[dp] = 1 /\ owner'[dp] = NULL
  BY <1>1 DEF Release, V, DInv, TypeOK
<1>3. \A j \in Phil : pc'[j] \notin InMonitor
  BY <1>1 DEF DInv, TypeOK
<1>4. MonitorExclusive'
  BY <1>2, <1>3 DEF MonitorExclusive
<1>5. OwnerInside'
  BY <1>3 DEF OwnerInside, InMonitor
<1> QED BY <1>4, <1>5 DEF Monitor

(* A thread outside the monitor stays outside. *)
LEMMA StayOutside ==
    ASSUME DInv, NEW i \in Phil, NEW p, p \notin InMonitor, pc[i] \notin InMonitor,
           pc' = [pc EXCEPT ![i] = p], UNCHANGED <<value, owner>>
    PROVE  Monitor'
<1>1. \A j \in Phil : IF j = i THEN pc'[j] \notin InMonitor ELSE pc'[j] = pc[j]
  BY DEF DInv, TypeOK
<1>2. \A j \in Phil : pc'[j] \in InMonitor <=> pc[j] \in InMonitor
  BY <1>1
<1>3. MonitorExclusive'
  BY <1>2 DEF MonitorExclusive, DInv, TypeOK
<1>4. OwnerInside'
  BY <1>1 DEF OwnerInside, InMonitor, DInv
<1> QED BY <1>3, <1>4 DEF Monitor

(* Every step keeps the monitor exclusive. *)
LEMMA NextMonitor == DInv /\ [Next]_vars => Monitor'
<1> SUFFICES ASSUME DInv, [Next]_vars PROVE Monitor'
  OBVIOUS
<1> USE DEF Goto, InMonitor
<1>1. ASSUME NEW i \in Phil, Acquire(i) PROVE Monitor'
  BY <1>1, EnterMonitor DEF Acquire, Pass
<1>2. ASSUME NEW i \in Phil, AcquireBlocks(i) PROVE Monitor'
  BY <1>2 DEF AcquireBlocks, Block, DInv, Monitor, MonitorExclusive, OwnerInside
<1>3. ASSUME NEW i \in Phil, Pickup(i) PROVE Monitor'
  BY <1>3, StayInMonitor DEF Pickup, SetOwner
<1>4. ASSUME NEW i \in Phil, PickupTest(i) PROVE Monitor'
  BY <1>4, StayInMonitor DEF PickupTest, DInv, OwnerInside
<1>5. ASSUME NEW i \in Phil, PickupWait(i) PROVE Monitor'
  BY <1>5, LeaveMonitor DEF PickupWait, WaitBegin
<1>6. ASSUME NEW i \in Phil, PickupNoWait(i) PROVE Monitor'
  BY <1>6, StayInMonitor DEF PickupNoWait, synchVars, DInv, OwnerInside
<1>7. ASSUME NEW i \in Phil, PickupWoken(i) PROVE Monitor'
  BY <1>7, EnterMonitor DEF PickupWoken, WaitReacquire, Pass
<1>8. ASSUME NEW i \in Phil, PickupWokenBlocks(i) PROVE Monitor'
  BY <1>8 DEF PickupWokenBlocks, WaitBlock, Block, DInv, Monitor, MonitorExclusive,
              OwnerInside
<1>9. ASSUME NEW i \in Phil, PickupRelease(i) PROVE Monitor'
  BY <1>9, LeaveMonitor DEF PickupRelease
<1>10. ASSUME NEW i \in Phil, Eat(i) PROVE Monitor'
  BY <1>10, StayOutside DEF Eat, synchVars
<1>11. ASSUME NEW i \in Phil, Putdown(i) PROVE Monitor'
  BY <1>11, StayInMonitor DEF Putdown, SetOwner
<1>12. ASSUME NEW i \in Phil, PutdownLeft(i) PROVE Monitor'
  BY <1>12, StayInMonitor DEF PutdownLeft, DInv, OwnerInside
<1>13. ASSUME NEW i \in Phil, PutdownRight(i) PROVE Monitor'
  BY <1>13, StayInMonitor DEF PutdownRight, DInv, OwnerInside
<1>14. ASSUME NEW i \in Phil, PutdownRelease(i) PROVE Monitor'
  <2>1. PICK p \in {"done", "pickup"} : pc' = [pc EXCEPT ![i] = p]
    BY <1>14 DEF PutdownRelease
  <2> QED BY <1>14, <2>1, LeaveMonitor DEF PutdownRelease
<1>15. ASSUME UNCHANGED vars PROVE Monitor'
  BY <1>15 DEF vars, synchVars, DInv, Monitor, MonitorExclusive, OwnerInside
<1> QED BY <1>1, <1>2, <1>3, <1>4, <1>5, <1>6, <1>7, <1>8, <1>9, <1>10, <1>11,
           <1>12, <1>13, <1>14, <1>15 DEF Next, Step, Finished
-----------------------------------------------------------------------------
Forks == OwnCondition /\ StateFollowsPc /\ NoNeighboursEat /\ Remembered

(* DiningPh::test, called by the owner of the lock: the philosopher that   *)
(* may eat does, and no longer waits.                                      *)
LEMMA testEffect ==
    ASSUME DInv, NEW t \in Phil, NEW i \in Phil, owner[dp] = t, test(t, i)
    PROVE  \/ ~MayEat(i) /\ UNCHANGED <<state, waiters>>
           \/ /\ MayEat(i) /\ state' = [state EXCEPT ![i] = "Eating"]
              /\ \A j \in Phil :
                    /\ Elems(waiters'[j]) = IF j = i THEN {} ELSE Elems(waiters[j])
                    /\ NoDuplicates(waiters'[j])
<1>1. CASE ~MayEat(i)
  BY <1>1 DEF test
<1>2. CASE MayEat(i)
  <2>1. /\ state' = [state EXCEPT ![i] = "Eating"]
        /\ waiters' = [waiters EXCEPT ![i] = IF waiters[i] # <<>> THEN Tail(waiters[i])
                                             ELSE waiters[i]]
    BY <1>2 DEF test, Signal, IsHeldByCurrentThread
  <2>2. waiters[i] \in Seq(Phil) /\ Elems(waiters[i]) \subseteq {i} /\ NoDuplicates(waiters[i])
    BY DEF DInv, TypeOK, OwnCondition
  <2>3. CASE waiters[i] # <<>>
    <3>1. /\ Head(waiters[i]) = i /\ NoDuplicates(Tail(waiters[i]))
          /\ Elems(Tail(waiters[i])) = {}
      <4> DEFINE first == Head(waiters[i])
                 rest == Tail(waiters[i])
      <4>1. /\ first \in Elems(waiters[i]) /\ NoDuplicates(rest)
            /\ Elems(waiters[i]) = Elems(rest) \union {first} /\ first \notin Elems(rest)
        BY <2>2, <2>3, TailElems
      <4> HIDE DEF first, rest
      <4>2. first = i /\ Elems(rest) = {}
        BY <2>2, <4>1
      <4> QED BY <4>1, <4>2 DEF first, rest
    <3>2. \A j \in Phil : waiters'[j] = IF j = i THEN Tail(waiters[i]) ELSE waiters[j]
      BY <2>1, <2>3 DEF DInv, TypeOK
    <3>3. \A j \in Phil : NoDuplicates(waiters[j])
      BY DEF DInv, OwnCondition
    <3>4. ASSUME NEW j \in Phil
          PROVE  /\ Elems(waiters'[j]) = IF j = i THEN {} ELSE Elems(waiters[j])
                 /\ NoDuplicates(waiters'[j])
      <4>1. CASE j = i
        BY <3>1, <3>2, <3>3, <4>1
      <4>2. CASE j # i
        BY <3>2, <3>3, <4>2
      <4> QED BY <4>1, <4>2
    <3> QED BY <1>2, <2>1, <3>4
  <2>4. CASE waiters[i] = <<>>
    <3>1. Elems(waiters[i]) = {}
      BY <2>4, EmptyElems
    <3>2. \A j \in Phil : waiters'[j] = waiters[j]
      BY <2>1, <2>4 DEF DInv, TypeOK
    <3>3. \A j \in Phil : NoDuplicates(waiters[j])
      BY DEF DInv, OwnCondition
    <3>4. ASSUME NEW j \in Phil
          PROVE  /\ Elems(waiters'[j]) = IF j = i THEN {} ELSE Elems(waiters[j])
                 /\ NoDuplicates(waiters'[j])
      <4>1. CASE j = i
        BY <3>1, <3>2, <3>3, <4>1
      <4>2. CASE j # i
        BY <3>2, <3>3, <4>2
      <4> QED BY <4>1, <4>2
    <3> QED BY <1>2, <2>1, <3>4
  <2> QED BY <2>3, <2>4
<1> QED BY <1>1, <1>2

(* test lets nobody eat next to an eating philosopher. *)
LEMMA testKeepsApart ==
    ASSUME DInv, NEW i \in Phil, MayEat(i), state' = [state EXCEPT ![i] = "Eating"]
    PROVE  NoNeighboursEat'
<1> SUFFICES ASSUME NEW j \in Phil, state'[j] = "Eating"
             PROVE  state'[Right(j)] # "Eating"
  BY DEF NoNeighboursEat
<1>1. /\ Right(j) \in Phil /\ Left(Right(j)) = j /\ Right(j) # j
  BY Neighbours
<1>2. CASE j = i
  BY <1>1, <1>2 DEF MayEat, DInv, TypeOK
<1>3. CASE j # i /\ Right(j) = i
  BY <1>1, <1>3 DEF MayEat, DInv, TypeOK
<1>4. CASE j # i /\ Right(j) # i
  BY <1>1, <1>4 DEF DInv, NoNeighboursEat, TypeOK
<1> QED BY <1>2, <1>3, <1>4

(* A step that changes no philosopher's state and no condition. *)
LEMMA KeepForks ==
    ASSUME DInv, NEW i \in Phil, NEW p, pc' = [pc EXCEPT ![i] = p],
           UNCHANGED <<state, waiters>>,
           \/ pc[i] = "pickup" /\ p = "hungry"
           \/ pc[i] = "check" /\ p = "leavePickup" /\ state[i] # "Hungry"
           \/ pc[i] = "waiting" /\ p = "leavePickup" /\ i \notin Elems(waiters[i])
           \/ pc[i] = "leavePickup" /\ p = "eat"
           \/ pc[i] = "eat" /\ p = "putdown"
           \/ pc[i] = "putdown" /\ p = "thinking"
           \/ pc[i] = "leavePutdown" /\ p \in {"pickup", "done"}
    PROVE  Forks'
<1> USE DEF DInv
<1>1. \A j \in Phil : pc'[j] = IF j = i THEN p ELSE pc[j]
  BY DEF TypeOK
<1>2. OwnCondition'
  BY <1>1 DEF OwnCondition
<1>3. StateFollowsPc'
  BY <1>1 DEF StateFollowsPc
<1>4. NoNeighboursEat'
  BY DEF NoNeighboursEat
<1>5. Remembered'
  BY <1>1, Neighbours DEF Remembered, Pending
<1> QED BY <1>2, <1>3, <1>4, <1>5 DEF Forks

(* pickup: the philosopher becomes hungry, and looks at its neighbours. *)
LEMMA PickupForks ==
    ASSUME DInv, NEW i \in Phil, Pickup(i)
    PROVE  Forks'
<1> USE DEF DInv
<1>1. /\ pc[i] = "hungry" /\ state[i] = "Thinking" /\ UNCHANGED waiters
      /\ \A j \in Phil : /\ pc'[j] = IF j = i THEN "test" ELSE pc[j]
                         /\ state'[j] = IF j = i THEN "Hungry" ELSE state[j]
  BY DEF Pickup, Goto, StateFollowsPc, TypeOK
<1>2. OwnCondition'
  BY <1>1 DEF OwnCondition
<1>3. StateFollowsPc'
  BY <1>1 DEF StateFollowsPc
<1>4. NoNeighboursEat'
  BY <1>1, Neighbours DEF NoNeighboursEat
<1>5. Remembered'
  BY <1>1, Neighbours DEF Remembered, Pending
<1> QED BY <1>2, <1>3, <1>4, <1>5 DEF Forks

(* pickup: test of the philosopher itself. *)
LEMMA PickupTestForks ==
    ASSUME DInv, NEW i \in Phil, PickupTest(i)
    PROVE  Forks'
<1> USE DEF DInv
<1>1. /\ pc[i] = "test" /\ state[i] = "Hungry" /\ owner[dp] = i /\ test(i, i)
      /\ i \notin Elems(waiters[i])
      /\ \A j \in Phil : pc'[j] = IF j = i THEN "check" ELSE pc[j]
  BY DEF PickupTest, Goto, StateFollowsPc, OwnerInside, OwnCondition, TypeOK
<1>2. CASE ~MayEat(i)
  <2>1. UNCHANGED <<state, waiters>>
    BY <1>1, <1>2, testEffect
  <2>2. OwnCondition'
    BY <1>1, <2>1 DEF OwnCondition
  <2>3. StateFollowsPc'
    BY <1>1, <2>1 DEF StateFollowsPc
  <2>4. NoNeighboursEat'
    BY <2>1 DEF NoNeighboursEat
  <2>5. Remembered'
    BY <1>1, <1>2, <2>1, Neighbours DEF Remembered, Pending, MayEat
  <2> QED BY <2>2, <2>3, <2>4, <2>5 DEF Forks
<1>3. CASE MayEat(i)
  <2>1. /\ state' = [state EXCEPT ![i] = "Eating"]
        /\ \A j \in Phil :
              /\ Elems(waiters'[j]) = IF j = i THEN {} ELSE Elems(waiters[j])
              /\ NoDuplicates(waiters'[j])
    BY <1>1, <1>3, testEffect
  <2>2. \A j \in Phil : state'[j] = IF j = i THEN "Eating" ELSE state[j]
    BY <2>1 DEF TypeOK
  <2>3. OwnCondition'
    BY <1>1, <2>1 DEF OwnCondition
  <2>4. StateFollowsPc'
    BY <1>1, <2>1, <2>2 DEF StateFollowsPc
  <2>5. NoNeighboursEat'
    BY <1>3, <2>1, testKeepsApart
  <2>6. Remembered'
    BY <1>1, <2>1, <2>2, Neighbours DEF Remembered, Pending
  <2> QED BY <2>3, <2>4, <2>5, <2>6 DEF Forks
<1> QED BY <1>2, <1>3

(* pickup: the philosopher waits for the neighbour that eats. *)
LEMMA PickupWaitForks ==
    ASSUME DInv, NEW i \in Phil, PickupWait(i)
    PROVE  Forks'
<1> USE DEF DInv
<1>1. /\ pc[i] = "check" /\ state[i] = "Hungry" /\ UNCHANGED state
      /\ Elems(waiters[i]) = {}
      /\ \A j \in Phil : pc'[j] = IF j = i THEN "waiting" ELSE pc[j]
  BY DEF PickupWait, Goto, OwnCondition, TypeOK
<1>2. \A j \in Phil : /\ Elems(waiters'[j]) = IF j = i THEN {i} ELSE Elems(waiters[j])
                      /\ NoDuplicates(waiters'[j])
  <2>1. waiters' = [waiters EXCEPT ![i] = Append(waiters[i], i)]
    BY DEF PickupWait, WaitBegin
  <2>2. waiters[i] \in Seq(Phil) /\ NoDuplicates(waiters[i])
    BY DEF TypeOK, OwnCondition
  <2>3. /\ Elems(Append(waiters[i], i)) = {i}
        /\ NoDuplicates(Append(waiters[i], i))
    BY <1>1, <2>2, AppendElems
  <2>4. \A j \in Phil : waiters'[j] = IF j = i THEN Append(waiters[i], i) ELSE waiters[j]
    BY <2>1 DEF TypeOK
  <2> QED BY <2>3, <2>4 DEF OwnCondition
<1>3. OwnCondition'
  BY <1>1, <1>2 DEF OwnCondition
<1>4. StateFollowsPc'
  BY <1>1, <1>2 DEF StateFollowsPc
<1>5. NoNeighboursEat'
  BY <1>1 DEF NoNeighboursEat
<1>6. Remembered'
  BY <1>1, <1>2, Neighbours DEF Remembered, Pending
<1> QED BY <1>3, <1>4, <1>5, <1>6 DEF Forks

(* putdown: the philosopher stops eating; it has yet to test both sides. *)
LEMMA PutdownForks ==
    ASSUME DInv, NEW i \in Phil, Putdown(i)
    PROVE  Forks'
<1> USE DEF DInv
<1>1. /\ pc[i] = "thinking" /\ UNCHANGED waiters
      /\ \A j \in Phil : /\ pc'[j] = IF j = i THEN "left" ELSE pc[j]
                         /\ state'[j] = IF j = i THEN "Thinking" ELSE state[j]
  BY DEF Putdown, Goto, TypeOK
<1>2. OwnCondition'
  BY <1>1 DEF OwnCondition
<1>3. StateFollowsPc'
  BY <1>1 DEF StateFollowsPc
<1>4. NoNeighboursEat'
  BY <1>1, Neighbours DEF NoNeighboursEat
<1>5. Remembered'
  BY <1>1, Neighbours DEF Remembered, Pending
<1> QED BY <1>2, <1>3, <1>4, <1>5 DEF Forks

(* putdown tests neighbour k, who has the philosopher as its neighbour: a  *)
(* hungry k is asleep in Wait, since the monitor is exclusive.             *)
LEMMA PutdownTestForks ==
    ASSUME DInv, NEW i \in Phil, NEW k \in Phil, NEW p, test(i, k),
           pc' = [pc EXCEPT ![i] = p],
           \/ pc[i] = "left" /\ p = "right" /\ k = Left(i)
           \/ pc[i] = "right" /\ p = "leavePutdown" /\ k = Right(i)
    PROVE  Forks'
<1> USE DEF DInv
<1>1. /\ owner[dp] = i /\ k # i
      /\ \A j \in Phil : pc'[j] = IF j = i THEN p ELSE pc[j]
  BY Neighbours DEF OwnerInside, TypeOK
<1>2. state[k] = "Hungry" => pc[k] = "waiting"
  <2>1. pc[k] \notin InMonitor
    BY <1>1 DEF MonitorExclusive, InMonitor
  <2> QED BY <2>1 DEF InMonitor, StateFollowsPc, TypeOK, Places
<1>3. CASE ~MayEat(k)
  <2>1. UNCHANGED <<state, waiters>>
    BY <1>1, <1>3, testEffect
  <2>2. OwnCondition'
    BY <1>1, <2>1 DEF OwnCondition
  <2>3. StateFollowsPc'
    BY <1>1, <2>1 DEF StateFollowsPc
  <2>4. NoNeighboursEat'
    BY <2>1 DEF NoNeighboursEat
  <2>5. Remembered'
    <3> SUFFICES ASSUME NEW j \in Phil,
                        j \in Elems(waiters[j]) \/ (pc'[j] = "check" /\ state[j] = "Hungry")
                 PROVE  Pending(j)'
      BY <2>1 DEF Remembered
    <3>1. Pending(j) /\ state[j] = "Hungry"
      BY <1>1 DEF Remembered, StateFollowsPc, OwnCondition
    <3>2. CASE j = k
      BY <1>3, <2>1, <3>1, <3>2 DEF MayEat, Pending
    <3>3. CASE j # k
      BY <1>1, <2>1, <3>1, <3>3, Neighbours DEF Pending
    <3> QED BY <3>2, <3>3
  <2> QED BY <2>2, <2>3, <2>4, <2>5 DEF Forks
<1>4. CASE MayEat(k)
  <2>1. /\ state' = [state EXCEPT ![k] = "Eating"]
        /\ \A j \in Phil :
              /\ Elems(waiters'[j]) = IF j = k THEN {} ELSE Elems(waiters[j])
              /\ NoDuplicates(waiters'[j])
    BY <1>1, <1>4, testEffect
  <2>2. \A j \in Phil : state'[j] = IF j = k THEN "Eating" ELSE state[j]
    BY <2>1 DEF TypeOK
  <2>3. pc[k] = "waiting"
    BY <1>2, <1>4 DEF MayEat
  <2>4. OwnCondition'
    BY <1>1, <2>1 DEF OwnCondition
  <2>5. StateFollowsPc'
    BY <1>1, <2>1, <2>2, <2>3 DEF StateFollowsPc
  <2>6. NoNeighboursEat'
    BY <1>4, <2>1, testKeepsApart
  <2>7. Remembered'
    <3> SUFFICES ASSUME NEW j \in Phil,
                        j \in Elems(waiters'[j]) \/ (pc'[j] = "check" /\ state'[j] = "Hungry")
                 PROVE  Pending(j)'
      BY DEF Remembered
    <3>1. j # k /\ Pending(j)
      BY <1>1, <2>1, <2>2 DEF Remembered
    <3> QED BY <1>1, <2>2, <3>1, Neighbours DEF Pending
  <2> QED BY <2>4, <2>5, <2>6, <2>7 DEF Forks
<1> QED BY <1>3, <1>4

(* Every step keeps the philosophers' states right. *)
LEMMA NextForks == DInv /\ [Next]_vars => Forks'
<1> SUFFICES ASSUME DInv, [Next]_vars PROVE Forks'
  OBVIOUS
<1>1. ASSUME NEW i \in Phil, Acquire(i) PROVE Forks'
  BY <1>1, KeepForks DEF Acquire, Goto
<1>2. ASSUME UNCHANGED <<state, waiters, pc>> PROVE Forks'
  BY <1>2 DEF DInv, Forks, OwnCondition, StateFollowsPc, NoNeighboursEat, Remembered, Pending
<1>3. ASSUME NEW i \in Phil, AcquireBlocks(i) \/ PickupWokenBlocks(i) PROVE Forks'
  BY <1>2, <1>3 DEF AcquireBlocks, PickupWokenBlocks, WaitBlock
<1>4. ASSUME NEW i \in Phil, PickupNoWait(i) \/ Eat(i) PROVE Forks'
  BY <1>4, KeepForks DEF PickupNoWait, Eat, Goto, synchVars
<1>5. ASSUME NEW i \in Phil, PickupWoken(i) PROVE Forks'
  <2>1. i \notin Elems(waiters[i])
    BY <1>5 DEF PickupWoken, WaitReacquire, Pass, Asleep, DInv, TypeOK
  <2> QED BY <1>5, <2>1, KeepForks DEF PickupWoken, WaitReacquire, Goto
<1>6. ASSUME NEW i \in Phil, PickupRelease(i) PROVE Forks'
  BY <1>6, KeepForks DEF PickupRelease, Goto
<1>7. ASSUME NEW i \in Phil, PutdownRelease(i) PROVE Forks'
  <2>1. PICK p \in {"done", "pickup"} : pc' = [pc EXCEPT ![i] = p]
    BY <1>7 DEF PutdownRelease, Goto
  <2>2. pc[i] = "leavePutdown" /\ UNCHANGED <<state, waiters>>
    BY <1>7 DEF PutdownRelease, Goto
  <2> QED BY <2>1, <2>2, KeepForks
<1>8. ASSUME NEW i \in Phil, PutdownLeft(i) PROVE Forks'
  BY <1>8, PutdownTestForks, Neighbours DEF PutdownLeft, Goto
<1>9. ASSUME NEW i \in Phil, PutdownRight(i) PROVE Forks'
  BY <1>9, PutdownTestForks, Neighbours DEF PutdownRight, Goto
<1>10. ASSUME UNCHANGED vars PROVE Forks'
  BY <1>2, <1>10 DEF vars, synchVars
<1> QED BY <1>1, <1>3, <1>4, <1>5, <1>6, <1>7, <1>8, <1>9, <1>10, PickupForks,
           PickupTestForks, PickupWaitForks, PutdownForks DEF Next, Step, Finished

(* The inductive invariant holds in every state. *)
THEOREM Invariance == Spec => []DInv
<1>1. DInv /\ [Next]_vars => DInv'
  <2> SUFFICES ASSUME DInv, [Next]_vars PROVE DInv'
    OBVIOUS
  <2>1. TypeOK' /\ RoundsLeft'
    BY NextType DEF DInv
  <2>2. Monitor' /\ Forks'
    BY NextMonitor, NextForks
  <2> QED BY <2>1, <2>2 DEF DInv, Monitor, Forks
<1> QED BY <1>1, InitInvariant, PTL DEF Spec

(* For any number of philosophers and rounds, neighbours never eat at the  *)
(* same time.                                                              *)
THEOREM NeighboursApart == Spec => []NoNeighboursEat
<1>1. DInv => NoNeighboursEat
  BY DEF DInv
<1> QED BY <1>1, Invariance, PTL

(* For any number of philosophers, pickup returns only to a philosopher    *)
(* that eats, although Wait is under an if and not a while.                *)
THEOREM PickupReturnsEating == Spec => []PickupGivesForks
<1>1. DInv => PickupGivesForks
  BY DEF DInv, StateFollowsPc, PickupGivesForks
<1> QED BY <1>1, Invariance, PTL

(* For any number of philosophers, at most one thread is in the monitor,   *)
(* the value of the lock's semaphore says whether one is, and the owner is *)
(* that one.                                                               *)
THEOREM MonitorIsExclusive == Spec => []MonitorExclusive
<1>1. DInv => MonitorExclusive
  BY DEF DInv
<1> QED BY <1>1, Invariance, PTL

(* For any number of philosophers, one that sleeps while nobody is in the  *)
(* monitor has an eating neighbour, whose putdown will test it.            *)
THEOREM HungryRemembered == Spec => []HungryIsRemembered
<1>1. DInv => HungryIsRemembered
  <2> SUFFICES ASSUME DInv, NEW i \in Phil, value[dp] = 1, i \in Elems(waiters[i])
               PROVE  "Eating" \in {state[Left(i)], state[Right(i)]}
    BY DEF HungryIsRemembered
  <2>1. \A j \in Phil : pc[j] \notin {"left", "right"}
    BY DEF DInv, MonitorExclusive, InMonitor
  <2> QED BY <2>1, Neighbours DEF DInv, Remembered, Pending
<1> QED BY <1>1, Invariance, PTL

-----------------------------------------------------------------------------
(* TareaProgramada1. *)
Critical == {"load", "store", "scan", "pass", "flush"}
Counted == {"full", "scan", "pass", "last", "flush", "turn", "out", "failed"}
CarPlaces == Critical \union Counted \union {"none", "start", "arrive"}

(* total holds sums of the counters, of which nothing else is needed. *)
RoundaboutTypeOK ==
    /\ mailbox \in BOOLEAN
    /\ messages \in [Streets -> Nat] /\ carsInStreet \in [Streets -> Nat]
    /\ forked \in 0 .. TOTAL_CARS
    /\ place \in [Cars -> CarPlaces]
    /\ street \in [Cars -> Streets] /\ pick \in [Cars -> Looped]
    /\ tmp \in [Cars -> Nat]
    /\ total = [i \in Cars |-> total[i]]

(* Where the cars may be in each phase of main, and what it has set up.    *)
PhaseExact ==
    /\ phase \in {"mailbox", "sem", "fork", "wait", "orphaned", "return", "exited"}
    /\ phase \in {"mailbox", "sem"} => forked = 0
    /\ phase \in {"mailbox", "sem", "fork"} =>
          \A i \in Cars : i >= forked => place[i] = "none"
    /\ phase \in {"return", "exited"} =>
          \A i \in Cars : place[i] \in {"none", "out", "failed"}
    /\ phase = "sem" => messages = NoCars

(* One car at a time is between sem_wait and sem_post. *)
SemExact ==
    /\ \A i \in Cars : place[i] \in Critical => sem = "taken"
    /\ \A i, j \in Cars : place[i] \in Critical /\ place[j] \in Critical => i = j

(* What a car has read from shared memory is still there while it holds    *)
(* the semaphore; only the last car, below the limit, lets all cars pass.  *)
LocalsExact ==
    \A i \in Cars :
        /\ place[i] = "store" => tmp[i] = carsInStreet[street[i]]
        /\ place[i] = "pass" => tmp[i] <= carsInStreet[pick[i]]
        /\ place[i] \in {"last", "flush"} => i = Last /\ total[Last] < MAX_CARS

Accounted(s) == carsInStreet[s] + messages[s] + Cardinality(Passed(s))

(* The conservation of cars in every state, critical sections included.    *)
(* Without the queue the last car can only send nothing.                   *)
Conserved ==
    phase \in {"fork", "wait", "orphaned"} =>
        \A s \in Streets :
            /\ Accounted(s) >= Cardinality(Registered(s))
            /\ ~(LastHasFlushed /\ mailbox) =>
                  Accounted(s) = Cardinality(Registered(s))

RInv == RoundaboutTypeOK /\ PhaseExact /\ SemExact /\ LocalsExact /\ FreshStart /\ Conserved

-----------------------------------------------------------------------------
(* There are cars and streets, and street 0 is one the loops visit. *)
LEMMA RoundaboutConstants ==
    /\ Last \in Cars /\ 0 \in Looped /\ Looped \subseteq Streets
    /\ NoCars \in [Streets -> Nat] /\ \A s \in Streets : NoCars[s] = 0
    /\ Cars \subseteq Nat /\ TOTAL_CARS \notin Cars /\ IsFiniteSet(Looped)
    /\ \A i \in Nat : i < TOTAL_CARS <=> i \in Cars
  BY ConstantsAssumption, FS_Interval DEF Last, Cars, Looped, Streets, NoCars

(* The sets that are counted are finite. *)
LEMMA FiniteCars ==
    \A s \in Streets :
        /\ IsFiniteSet(Registered(s)) /\ Cardinality(Registered(s)) \in Nat
        /\ IsFiniteSet(Passed(s)) /\ Cardinality(Passed(s)) \in Nat
<1>1. IsFiniteSet(Cars)
  BY ConstantsAssumption, FS_Interval DEF Cars
<1>2. \A s \in Streets : Registered(s) \in SUBSET Cars /\ Passed(s) \in SUBSET Cars
  BY DEF Registered, Passed
<1> QED BY <1>1, <1>2, FS_Subset, FS_CardinalityType

(* A step of a car that keeps its street, does not register or pass, and   *)
(* changes no counter and no message keeps all cars accounted for.         *)
LEMMA SameCounts ==
    ASSUME RoundaboutTypeOK, Conserved, NEW i \in Cars, NEW p \in CarPlaces,
           place' = [place EXCEPT ![i] = p], p \in Counted <=> place[i] \in Counted,
           place[i] # "out", p # "out",
           \A j \in Cars : place'[j] \in Counted => street'[j] = street[j],
           \A j \in Cars : place[j] \in {"turn", "out"} => total'[j] = total[j],
           i = Last /\ place[i] = "turn" => ~mailbox,
           UNCHANGED <<phase, mailbox>>,
           \A s \in Streets : carsInStreet'[s] + messages'[s] = carsInStreet[s] + messages[s]
    PROVE  Conserved'
<1> SUFFICES ASSUME phase \in {"fork", "wait", "orphaned"}, NEW s \in Streets
             PROVE  /\ Accounted(s)' >= Cardinality(Registered(s)')
                    /\ ~(LastHasFlushed /\ mailbox)' =>
                          Accounted(s)' = Cardinality(Registered(s)')
  BY DEF Conserved
<1>1. \A j \in Cars : /\ place'[j] \in Counted <=> place[j] \in Counted
                      /\ place'[j] = "out" <=> place[j] = "out"
  BY DEF RoundaboutTypeOK
<1>2. Registered(s)' = Registered(s)
  BY <1>1 DEF Registered, Counted
<1>3. Passed(s)' = Passed(s)
  BY <1>1 DEF Passed, Counted
<1>4. LastHasFlushed /\ mailbox => LastHasFlushed' /\ mailbox'
  BY RoundaboutConstants DEF LastHasFlushed, RoundaboutTypeOK
<1> QED BY <1>2, <1>3, <1>4 DEF Conserved, Accounted

-----------------------------------------------------------------------------
(* main and its signals: no car is in a critical section before the fork   *)
(* of the first one and after the end of the last.                         *)
LEMMA SetupHolds ==
    ASSUME RInv, OpenMailbox \/ OpenSemaphore \/ JoinCars \/ Return
    PROVE  RInv'
<1> USE DEF RInv
<1>1. UNCHANGED carVars /\ UNCHANGED <<forked, runs>>
  BY DEF OpenMailbox, OpenSemaphore, JoinCars, Return
<1>2. RoundaboutTypeOK'
  BY <1>1, RoundaboutConstants DEF RoundaboutTypeOK, carVars, OpenMailbox, OpenSemaphore, JoinCars, Return
<1>3. \A i \in Cars : place[i] \in {"none", "out", "failed"}
  BY RoundaboutConstants
     DEF RoundaboutTypeOK, PhaseExact, Ended, OpenMailbox, OpenSemaphore, JoinCars, Return
<1>4. SemExact' /\ LocalsExact'
  BY <1>1, <1>3 DEF SemExact, LocalsExact, Critical, carVars
<1>5. PhaseExact'
  BY <1>1, <1>3 DEF PhaseExact, carVars, OpenMailbox, OpenSemaphore, JoinCars, Return
<1>6. FreshStart'
  BY <1>1 DEF FreshStart, PhaseExact, OpenMailbox, OpenSemaphore, JoinCars, Return
<1>7. Conserved'
  <2>1. CASE phase' # "fork"
    BY <2>1 DEF Conserved, OpenMailbox, OpenSemaphore, JoinCars, Return
  <2>2. CASE phase' = "fork"
    <3>1. phase = "sem" /\ carsInStreet' = NoCars /\ messages' = NoCars
      BY <2>2 DEF OpenMailbox, OpenSemaphore, JoinCars, Return, PhaseExact
    <3>2. \A i \in Cars : place'[i] = "none"
      BY <1>1, <3>1, RoundaboutConstants DEF PhaseExact, carVars
    <3>3. \A s \in Streets : /\ Cardinality(Registered(s)') = 0
                             /\ Cardinality(Passed(s)') = 0
      <4> TAKE s \in Streets
      <4>1. Registered(s)' = {} /\ Passed(s)' = {}
        BY <3>2 DEF Registered, Passed
      <4> QED BY <4>1, FS_EmptySet
    <3> QED BY <3>1, <3>3, RoundaboutConstants DEF Conserved, Accounted
  <2> QED BY <2>1, <2>2
<1> QED BY <1>2, <1>4, <1>5, <1>6, <1>7

(* A car that is forked is not counted yet. *)
LEMMA ForkHolds ==
    ASSUME RInv, ForkCar
    PROVE  RInv'
<1> USE DEF RInv
<1>1. /\ forked \in Cars /\ place' = [place EXCEPT ![forked] = "start"] /\ forked' = forked + 1
      /\ UNCHANGED <<ipcVars, runs, street, tmp, total, pick>>
      /\ phase = "fork" /\ phase' \in {"fork", "wait"}
      /\ place[forked] = "none"
  BY RoundaboutConstants DEF ForkCar, RoundaboutTypeOK, PhaseExact, Cars
<1>2. RoundaboutTypeOK'
  BY <1>1, ConstantsAssumption DEF RoundaboutTypeOK, CarPlaces, ipcVars, Cars
<1>3. SemExact' /\ LocalsExact'
  BY <1>1, RoundaboutConstants DEF RoundaboutTypeOK, SemExact, LocalsExact, Critical, ipcVars
<1>4. PhaseExact'
  BY <1>1, RoundaboutConstants DEF RoundaboutTypeOK, PhaseExact
<1>5. FreshStart'
  BY <1>1, RoundaboutConstants DEF FreshStart
<1>6. Conserved'
  <2>1. \A s \in Streets : Registered(s)' = Registered(s) /\ Passed(s)' = Passed(s)
    BY <1>1 DEF RoundaboutTypeOK, Registered, Passed
  <2>2. LastHasFlushed' = LastHasFlushed
    BY <1>1, RoundaboutConstants DEF RoundaboutTypeOK, LastHasFlushed
  <2> QED BY <1>1, <2>1, <2>2 DEF Conserved, Accounted, ipcVars
<1> QED BY <1>2, <1>3, <1>4, <1>5, <1>6

(* When a fork fails nothing happens to the cars there are. *)
LEMMA ForkFailsHolds ==
    ASSUME RInv, ForkFails
    PROVE  RInv'
<1> USE DEF RInv
<1>1. /\ phase = "fork" /\ phase' = "orphaned"
      /\ UNCHANGED <<mailbox, messages, sem, carsInStreet, forked, place, street, tmp, total, pick>>
  BY DEF ForkFails, ipcVars, carVars
<1>2. RoundaboutTypeOK' /\ PhaseExact' /\ SemExact' /\ LocalsExact' /\ FreshStart'
  BY <1>1 DEF RoundaboutTypeOK, PhaseExact, SemExact, LocalsExact, FreshStart
<1>3. \A s \in Streets : Accounted(s)' = Accounted(s) /\ Registered(s)' = Registered(s)
  BY <1>1 DEF Accounted, Registered, Passed
<1>4. Conserved'
  BY <1>1, <1>3 DEF Conserved, LastHasFlushed
<1> QED BY <1>2, <1>4

(* A killed run leaves its objects, and no process. *)
LEMMA KillHolds ==
    ASSUME RInv, Kill \/ Restart
    PROVE  RInv'
<1> USE DEF RInv
<1>1. /\ \A i \in Cars : place'[i] = "none"
      /\ UNCHANGED ipcVars /\ forked' = 0 /\ phase' \in {"mailbox", "exited"}
  BY DEF Kill, Restart, NoProcesses
<1>2. RoundaboutTypeOK'
  <2>1. 0 \in Streets /\ 0 \in 0 .. TOTAL_CARS
    BY RoundaboutConstants, ConstantsAssumption
  <2>2. mailbox' = mailbox /\ messages' = messages /\ carsInStreet' = carsInStreet
    BY <1>1 DEF ipcVars
  <2> QED BY <1>1, <2>1, <2>2, RoundaboutConstants
          DEF RoundaboutTypeOK, CarPlaces, Kill, Restart, NoProcesses
<1>3. SemExact' /\ LocalsExact'
  BY <1>1 DEF SemExact, LocalsExact, Critical
<1> QED BY <1>1, <1>2, <1>3 DEF PhaseExact, FreshStart, Conserved

-----------------------------------------------------------------------------
(* A car takes steps only while main forks cars or waits for them, or has  *)
(* left them behind.                                                       *)
LEMMA CarRuns ==
    ASSUME RInv, NEW i \in Cars, place[i] \notin {"none", "out", "failed"},
           NEW p \in CarPlaces, place' = [place EXCEPT ![i] = p], UNCHANGED mainVars
    PROVE  phase \in {"fork", "wait", "orphaned"} /\ PhaseExact' /\ FreshStart'
<1> USE DEF RInv
<1>1. phase \in {"fork", "wait", "orphaned"} /\ (phase = "fork" => i < forked)
  BY RoundaboutConstants DEF PhaseExact, RoundaboutTypeOK
<1>2. PhaseExact'
  BY <1>1, RoundaboutConstants DEF PhaseExact, RoundaboutTypeOK, mainVars
<1>3. FreshStart'
  BY <1>1, RoundaboutConstants DEF FreshStart, RoundaboutTypeOK, mainVars
<1> QED BY <1>1, <1>2, <1>3

(* rand() and sem_wait change nothing that is counted. *)
LEMMA EnterHolds ==
    ASSUME RInv, NEW i \in Cars, ChooseStreet(i) \/ SemWait(i)
    PROVE  RInv'
<1> USE DEF RInv
<1>1. PICK p \in CarPlaces :
         /\ place' = [place EXCEPT ![i] = p] /\ p # "none"
         /\ <<place[i], p>> \in {<<"start", "arrive">>, <<"arrive", "load">>,
                              <<"full", "scan">>, <<"last", "flush">>}
  BY DEF ChooseStreet, SemWait, MoveTo, CarPlaces, Critical, Counted
<1>2. UNCHANGED <<mailbox, messages, carsInStreet, mainVars, tmp, total, pick>>
  BY DEF ChooseStreet, SemWait, ipcVars
<1>3. /\ street' \in [Cars -> Streets]
      /\ \A j \in Cars : j # i \/ p # "arrive" => street'[j] = street[j]
  <2>1. CASE ChooseStreet(i)
    <3>1. p = "arrive"
      BY <1>1, <2>1 DEF ChooseStreet, MoveTo, RoundaboutTypeOK
    <3>2. PICK s \in 1 .. TOTAL_STREETS : street' = [street EXCEPT ![i] = s]
      BY <2>1 DEF ChooseStreet
    <3>3. s \in Streets
      BY ConstantsAssumption DEF Streets
    <3> QED BY <3>1, <3>2, <3>3 DEF RoundaboutTypeOK
  <2>2. CASE SemWait(i)
    BY <2>2 DEF SemWait, RoundaboutTypeOK
  <2> QED BY <2>1, <2>2
<1>4. RoundaboutTypeOK'
  BY <1>1, <1>2, <1>3 DEF RoundaboutTypeOK, mainVars
<1>5. PhaseExact' /\ FreshStart'
  BY <1>1, <1>2, CarRuns
<1>6. SemExact'
  BY <1>1 DEF RoundaboutTypeOK, SemExact, ChooseStreet, SemWait, ipcVars, Critical, MoveTo
<1>7. LocalsExact'
  BY <1>1, <1>2, <1>3 DEF RoundaboutTypeOK, LocalsExact
<1>8. Conserved'
  <2>1. p \in Counted <=> place[i] \in Counted
    BY <1>1 DEF Counted
  <2>2. \A j \in Cars : place'[j] \in Counted => street'[j] = street[j]
    BY <1>1, <1>3 DEF RoundaboutTypeOK, Counted
  <2> QED BY <1>1, <1>2, <2>1, <2>2, SameCounts DEF mainVars
<1> QED BY <1>4, <1>5, <1>6, <1>7, <1>8

(* Reading shared memory inside the critical section: Load and Scan. *)
LEMMA ReadHolds ==
    ASSUME RInv, NEW i \in Cars, Load(i) \/ Scan(i)
    PROVE  RInv'
<1> USE DEF RInv
<1>1. PICK p \in {"store", "pass"} :
         /\ place' = [place EXCEPT ![i] = p] /\ place[i] \in {"load", "scan"}
         /\ place[i] = "load" <=> p = "store"
  BY DEF Load, Scan, MoveTo
<1>2. UNCHANGED <<ipcVars, mainVars, street, total>>
  BY DEF Load, Scan
<1>3. /\ tmp' \in [Cars -> Nat] /\ pick' \in [Cars -> Looped]
      /\ \A j \in Cars : j # i => tmp'[j] = tmp[j] /\ pick'[j] = pick[j]
      /\ p = "store" => tmp'[i] = carsInStreet[street[i]]
      /\ p = "pass" => tmp'[i] <= carsInStreet[pick'[i]]
  <2>1. CASE Load(i)
    BY <1>1, <2>1 DEF Load, MoveTo, RoundaboutTypeOK
  <2>2. CASE Scan(i)
    <3> DEFINE counts == {carsInStreet[s] : s \in Looped}
               most == Max(counts)
               fullest == {s \in Looped : carsInStreet[s] = most}
    <3>1. counts \subseteq Nat /\ counts # {}
      BY RoundaboutConstants DEF RoundaboutTypeOK
    <3>2. IsFiniteSet(counts)
      <4> DEFINE f == [s \in Looped |-> carsInStreet[s]]
      <4>1. f \in Surjection(Looped, counts)
        BY DEF Surjection
      <4> QED BY <4>1, RoundaboutConstants, FS_Surjection
    <3>3. most \in counts
      BY <3>1, <3>2, MaxNat
    <3>4. fullest # {} /\ fullest \subseteq Nat
      BY <3>3, ConstantsAssumption DEF Looped
    <3>5. Min(fullest) \in fullest
      BY <3>4, MinNat
    <3>6. most \in Nat
      BY <3>1, <3>3
    <3> HIDE DEF most, counts
    <3>7. /\ tmp' = [tmp EXCEPT ![i] = most]
          /\ pick' = [pick EXCEPT ![i] = IF most = 0 THEN 0 ELSE Min(fullest)]
      BY <2>2 DEF Scan, most, counts
    <3>8. pick'[i] \in Looped /\ tmp'[i] = most
      BY <3>5, <3>7, RoundaboutConstants DEF RoundaboutTypeOK
    <3>9. most <= carsInStreet[pick'[i]]
      BY <3>5, <3>6, <3>7, <3>8, RoundaboutConstants DEF RoundaboutTypeOK
    <3>10. p = "pass"
      BY <1>1, <2>2 DEF Scan, MoveTo, RoundaboutTypeOK
    <3> QED BY <3>6, <3>7, <3>8, <3>9, <3>10 DEF RoundaboutTypeOK
  <2> QED BY <2>1, <2>2
<1>4. RoundaboutTypeOK'
  BY <1>1, <1>2, <1>3 DEF RoundaboutTypeOK, mainVars, ipcVars, CarPlaces, Critical
<1>5. PhaseExact' /\ FreshStart'
  BY <1>1, <1>2, CarRuns DEF CarPlaces, Critical
<1>6. SemExact'
  BY <1>1, <1>2 DEF RoundaboutTypeOK, SemExact, Critical, ipcVars
<1>7. LocalsExact'
  BY <1>1, <1>2, <1>3 DEF RoundaboutTypeOK, LocalsExact, ipcVars
<1>8. Conserved'
  <2>1. p \in Counted <=> place[i] \in Counted
    BY <1>1 DEF Counted
  <2>2. p \in CarPlaces
    BY <1>1 DEF CarPlaces, Critical
  <2> QED BY <1>1, <1>2, <2>1, <2>2, SameCounts DEF mainVars, ipcVars
<1> QED BY <1>4, <1>5, <1>6, <1>7, <1>8

(* The store counts the car, and the car is counted: no update is lost.    *)
LEMMA StoreHolds ==
    ASSUME RInv, NEW i \in Cars, Store(i)
    PROVE  RInv'
<1> USE DEF RInv
<1> DEFINE here == street[i]
<1>1. PICK p \in {"full", "last", "turn"} :
         /\ place' = [place EXCEPT ![i] = p] /\ place[i] = "store"
         /\ p = "last" => i = Last /\ total'[i] < MAX_CARS
  BY DEF Store, MoveTo, Onward
<1>2. /\ UNCHANGED <<mailbox, messages, mainVars, street, tmp, pick>> /\ sem' = "free"
      /\ \E n : total' = [total EXCEPT ![i] = n]
  BY DEF Store
<1>3. here \in Streets /\ carsInStreet' = [carsInStreet EXCEPT ![here] = @ + 1]
  BY <1>1 DEF Store, LocalsExact, RoundaboutTypeOK
<1> HIDE DEF here
<1>4. /\ total' = [j \in Cars |-> total'[j]]
      /\ \A j \in Cars : j # i => total'[j] = total[j]
  BY <1>2 DEF RoundaboutTypeOK
<1>5. RoundaboutTypeOK'
  BY <1>1, <1>2, <1>3, <1>4 DEF RoundaboutTypeOK, mainVars, CarPlaces, Counted
<1>6. phase \in {"fork", "wait", "orphaned"} /\ PhaseExact' /\ FreshStart'
  BY <1>1, <1>2, CarRuns DEF CarPlaces, Counted
<1>7. \A j \in Cars : j # i => place[j] \notin Critical /\ place'[j] = place[j]
  BY <1>1 DEF SemExact, Critical, RoundaboutTypeOK
<1>8. place'[i] = p /\ p \notin Critical
  BY <1>1 DEF RoundaboutTypeOK, Critical
<1>9. SemExact'
  BY <1>7, <1>8 DEF SemExact
<1>10. LocalsExact'
  BY <1>1, <1>2, <1>4, <1>7, <1>8, RoundaboutConstants DEF LocalsExact, Critical
<1>11. \A s \in Streets : Passed(s)' = Passed(s)
  BY <1>1, <1>2, <1>7, <1>8 DEF Passed
<1>12. \A s \in Streets :
          IF s = here THEN Registered(s)' = Registered(s) \union {i} /\ i \notin Registered(s)
                      ELSE Registered(s)' = Registered(s)
  BY <1>1, <1>2, <1>7, <1>8 DEF Registered, here
<1>13. \A s \in Streets :
          Cardinality(Registered(s)') = Cardinality(Registered(s)) + IF s = here THEN 1 ELSE 0
  BY <1>12, FiniteCars, FS_AddElement
<1>14. LastHasFlushed => LastHasFlushed'
  BY <1>1, <1>4, <1>7, RoundaboutConstants DEF LastHasFlushed
<1>15. \A s \in Streets :
          /\ carsInStreet[s] \in Nat /\ messages[s] \in Nat /\ messages'[s] = messages[s]
          /\ carsInStreet'[s] = IF s = here THEN carsInStreet[s] + 1 ELSE carsInStreet[s]
  BY <1>2, <1>3 DEF RoundaboutTypeOK
<1>16. Conserved'
  <2> SUFFICES ASSUME NEW s \in Streets
               PROVE  /\ Accounted(s)' >= Cardinality(Registered(s)')
                      /\ ~(LastHasFlushed /\ mailbox)' =>
                            Accounted(s)' = Cardinality(Registered(s)')
    BY DEF Conserved
  <2>1. /\ Accounted(s) >= Cardinality(Registered(s))
        /\ ~(LastHasFlushed /\ mailbox) => Accounted(s) = Cardinality(Registered(s))
        /\ Cardinality(Registered(s)) \in Nat /\ Cardinality(Passed(s)) \in Nat
    BY <1>6, FiniteCars DEF Conserved
  <2> QED BY <1>2, <1>11, <1>13, <1>14, <1>15, <2>1 DEF Accounted
<1> QED BY <1>5, <1>6, <1>9, <1>10, <1>16

(* allowPass turns counted cars of a street into messages for it. *)
LEMMA AllowPassHolds ==
    ASSUME RInv, NEW i \in Cars, AllowPass(i)
    PROVE  RInv'
<1> USE DEF RInv
<1>1. PICK p \in {"last", "turn"} :
         /\ place' = [place EXCEPT ![i] = p] /\ place[i] = "pass"
         /\ p = "last" => i = Last /\ total'[i] < MAX_CARS
  BY DEF AllowPass, MoveTo, Onward
<1>2. /\ UNCHANGED <<mailbox, mainVars, street, tmp, pick>>
      /\ \E n : total' = [total EXCEPT ![i] = n]
  BY DEF AllowPass
<1>3. pick[i] \in Streets /\ tmp[i] \in Nat /\ tmp[i] <= carsInStreet[pick[i]]
  BY <1>1, RoundaboutConstants DEF LocalsExact, RoundaboutTypeOK
<1>4. /\ messages' \in [Streets -> Nat] /\ carsInStreet' \in [Streets -> Nat]
      /\ \A s \in Streets :
            carsInStreet'[s] + messages'[s] = carsInStreet[s] + messages[s]
  <2>1. /\ messages' = [messages EXCEPT ![pick[i]] = @ + tmp[i]]
        /\ carsInStreet' = [carsInStreet EXCEPT ![pick[i]] = @ - tmp[i]]
    BY DEF AllowPass
  <2>2. carsInStreet[pick[i]] - tmp[i] \in Nat
    BY <1>3 DEF RoundaboutTypeOK
  <2> QED BY <1>3, <2>1, <2>2 DEF RoundaboutTypeOK
<1>5. /\ total' = [j \in Cars |-> total'[j]]
      /\ \A j \in Cars : j # i => total'[j] = total[j]
  BY <1>2 DEF RoundaboutTypeOK
<1>6. RoundaboutTypeOK'
  BY <1>1, <1>2, <1>4, <1>5 DEF RoundaboutTypeOK, mainVars, CarPlaces, Counted
<1>7. PhaseExact' /\ FreshStart'
  BY <1>1, <1>2, CarRuns DEF CarPlaces, Counted
<1>8. \A j \in Cars : j # i => place[j] \notin Critical /\ place'[j] = place[j]
  BY <1>1 DEF SemExact, Critical, RoundaboutTypeOK
<1>9. place'[i] = p /\ p \notin Critical
  BY <1>1 DEF RoundaboutTypeOK, Critical
<1>10. SemExact'
  BY <1>8, <1>9 DEF SemExact
<1>11. LocalsExact'
  BY <1>1, <1>2, <1>5, <1>8, <1>9, RoundaboutConstants DEF LocalsExact, Critical
<1>12. Conserved'
  <2>1. p \in Counted /\ place[i] \in Counted /\ p \in CarPlaces
    BY <1>1 DEF Counted, CarPlaces
  <2>2. \A j \in Cars : place[j] \in {"turn", "out"} => total'[j] = total[j]
    BY <1>1, <1>5
  <2> QED BY <1>1, <1>2, <1>4, <2>1, <2>2, SameCounts DEF mainVars
<1> QED BY <1>6, <1>7, <1>10, <1>11, <1>12

(* A car that gives up takes nothing with it. *)
LEMMA FailHolds ==
    ASSUME RInv, NEW i \in Cars, SendFails(i) \/ ReceiveFails(i)
    PROVE  RInv'
<1> USE DEF RInv
<1>1. /\ place' = [place EXCEPT ![i] = "failed"] /\ place[i] \in {"pass", "flush", "turn"}
      /\ place[i] = "turn" => ~mailbox
      /\ UNCHANGED <<ipcVars, mainVars, street, tmp, total, pick>>
  BY DEF SendFails, ReceiveFails, MoveTo
<1>2. RoundaboutTypeOK'
  BY <1>1 DEF RoundaboutTypeOK, mainVars, ipcVars, CarPlaces, Counted
<1>3. PhaseExact' /\ FreshStart'
  BY <1>1, CarRuns DEF CarPlaces, Counted
<1>4. SemExact' /\ LocalsExact'
  BY <1>1 DEF SemExact, LocalsExact, Critical, RoundaboutTypeOK, ipcVars
<1>5. Conserved'
  BY <1>1, SameCounts DEF mainVars, ipcVars, CarPlaces, Counted
<1> QED BY <1>2, <1>3, <1>4, <1>5

(* The last car sends a message for every car counted, and the counters    *)
(* stay: from here on there may be messages too many.                      *)
LEMMA FlushHolds ==
    ASSUME RInv, NEW i \in Cars, AllowAllCarsToPass(i)
    PROVE  RInv'
<1> USE DEF RInv
<1>1. /\ place' = [place EXCEPT ![i] = "turn"] /\ place[i] = "flush"
      /\ i = Last /\ total[Last] < MAX_CARS
      /\ UNCHANGED <<mailbox, carsInStreet, mainVars, street, tmp, total, pick>>
  BY DEF AllowAllCarsToPass, MoveTo, LocalsExact
<1>2. /\ messages' \in [Streets -> Nat]
      /\ \A s \in Streets : messages'[s] >= messages[s]
      /\ ~mailbox => \A s \in Streets : messages'[s] = messages[s]
  BY RoundaboutConstants DEF AllowAllCarsToPass, RoundaboutTypeOK
<1>3. RoundaboutTypeOK'
  BY <1>1, <1>2 DEF RoundaboutTypeOK, mainVars, CarPlaces, Counted
<1>4. phase \in {"fork", "wait", "orphaned"} /\ PhaseExact' /\ FreshStart'
  BY <1>1, CarRuns DEF CarPlaces, Counted
<1>5. SemExact' /\ LocalsExact'
  BY <1>1 DEF SemExact, LocalsExact, Critical, RoundaboutTypeOK
<1>6. \A s \in Streets : Registered(s)' = Registered(s) /\ Passed(s)' = Passed(s)
  BY <1>1 DEF Registered, Passed, RoundaboutTypeOK
<1>7. LastHasFlushed' /\ ~LastHasFlushed
  BY <1>1 DEF LastHasFlushed, RoundaboutTypeOK
<1>8. Conserved'
  <2> SUFFICES ASSUME NEW s \in Streets
               PROVE  /\ Accounted(s)' >= Cardinality(Registered(s)')
                      /\ ~(LastHasFlushed /\ mailbox)' =>
                            Accounted(s)' = Cardinality(Registered(s)')
    BY DEF Conserved
  <2>1. Accounted(s) = Cardinality(Registered(s)) /\ Cardinality(Passed(s)) \in Nat
    BY <1>4, <1>7, FiniteCars DEF Conserved
  <2> QED BY <1>1, <1>2, <1>6, <1>7, <2>1 DEF Accounted, RoundaboutTypeOK
<1> QED BY <1>3, <1>4, <1>5, <1>8

(* A car that receives its message has passed. *)
LEMMA TurnHolds ==
    ASSUME RInv, NEW i \in Cars, CarWaitingTurn(i)
    PROVE  RInv'
<1> USE DEF RInv
<1> DEFINE here == street[i]
<1>1. /\ place' = [place EXCEPT ![i] = "out"] /\ place[i] = "turn"
      /\ UNCHANGED <<mailbox, sem, carsInStreet, mainVars, street, tmp, total, pick>>
      /\ here \in Streets /\ messages[here] > 0
      /\ messages' = [messages EXCEPT ![here] = @ - 1]
  BY DEF CarWaitingTurn, MoveTo, RoundaboutTypeOK
<1> HIDE DEF here
<1>2. messages' \in [Streets -> Nat]
  <2>1. messages[here] - 1 \in Nat
    BY <1>1 DEF RoundaboutTypeOK
  <2> QED BY <1>1, <2>1 DEF RoundaboutTypeOK
<1>3. RoundaboutTypeOK'
  BY <1>1, <1>2 DEF RoundaboutTypeOK, mainVars, CarPlaces, Counted
<1>4. phase \in {"fork", "wait", "orphaned"} /\ PhaseExact' /\ FreshStart'
  BY <1>1, CarRuns DEF CarPlaces, Counted
<1>5. SemExact' /\ LocalsExact'
  BY <1>1 DEF SemExact, LocalsExact, Critical, RoundaboutTypeOK
<1>6. \A s \in Streets : Registered(s)' = Registered(s)
  BY <1>1 DEF Registered, RoundaboutTypeOK
<1>7. \A s \in Streets :
         IF s = here THEN Passed(s)' = Passed(s) \union {i} /\ i \notin Passed(s)
                     ELSE Passed(s)' = Passed(s)
  BY <1>1 DEF Passed, RoundaboutTypeOK, here
<1>8. \A s \in Streets :
         Cardinality(Passed(s)') = Cardinality(Passed(s)) + IF s = here THEN 1 ELSE 0
  BY <1>7, FiniteCars, FS_AddElement
<1>9. LastHasFlushed' = LastHasFlushed
  BY <1>1, RoundaboutConstants DEF LastHasFlushed, RoundaboutTypeOK
<1>10. \A s \in Streets :
          /\ carsInStreet[s] \in Nat /\ messages[s] \in Nat
          /\ messages'[s] = IF s = here THEN messages[s] - 1 ELSE messages[s]
  BY <1>1 DEF RoundaboutTypeOK
<1>11. Conserved'
  <2> SUFFICES ASSUME NEW s \in Streets
               PROVE  /\ Accounted(s)' >= Cardinality(Registered(s)')
                      /\ ~(LastHasFlushed /\ mailbox)' =>
                            Accounted(s)' = Cardinality(Registered(s)')
    BY DEF Conserved
  <2>1. /\ Accounted(s) >= Cardinality(Registered(s))
        /\ ~(LastHasFlushed /\ mailbox) => Accounted(s) = Cardinality(Registered(s))
        /\ Cardinality(Registered(s)) \in Nat /\ Cardinality(Passed(s)) \in Nat
    BY <1>4, FiniteCars DEF Conserved
  <2>2. Accounted(s)' = Accounted(s)
    BY <1>1, <1>8, <1>10, <2>1 DEF Accounted
  <2> QED BY <1>1, <1>6, <1>9, <2>1, <2>2
<1> QED BY <1>3, <1>4, <1>5, <1>11

-----------------------------------------------------------------------------
(* The first start finds no IPC objects. *)
LEMMA RoundaboutStarts == RoundaboutInit => RInv
<1> SUFFICES ASSUME RoundaboutInit PROVE RInv
  OBVIOUS
<1>1. RoundaboutTypeOK
  <2>1. 0 \in Streets /\ 0 \in 0 .. TOTAL_CARS
    BY RoundaboutConstants, ConstantsAssumption
  <2> QED BY <2>1, RoundaboutConstants DEF RoundaboutInit, RoundaboutTypeOK, CarPlaces
<1> QED BY <1>1 DEF RoundaboutInit, RInv, PhaseExact, SemExact, LocalsExact, Critical,
                    FreshStart, Conserved

(* Every step of main and of the cars keeps the invariant. *)
LEMMA RoundaboutKeeps == RInv /\ [RoundaboutNext]_roundaboutVars => RInv'
<1> SUFFICES ASSUME RInv, [RoundaboutNext]_roundaboutVars PROVE RInv'
  OBVIOUS
<1>1. CASE UNCHANGED roundaboutVars
  <2> USE <1>1 DEF RInv, roundaboutVars, ipcVars, mainVars, carVars
  <2>1. RoundaboutTypeOK' /\ PhaseExact' /\ SemExact' /\ LocalsExact' /\ FreshStart'
    BY DEF RoundaboutTypeOK, PhaseExact, SemExact, LocalsExact, FreshStart
  <2>2. Conserved'
    <3>1. \A s \in Streets : Accounted(s)' = Accounted(s) /\ Registered(s)' = Registered(s)
      BY DEF Accounted, Registered, Passed
    <3> QED BY <3>1 DEF Conserved, LastHasFlushed
  <2> QED BY <2>1, <2>2
<1>2. CASE Parent
  BY <1>2, SetupHolds, ForkHolds DEF Parent
<1>3. CASE ForkFails \/ Kill \/ Restart
  BY <1>3, ForkFailsHolds, KillHolds
<1>4. ASSUME NEW i \in Cars, Car(i) PROVE RInv'
  BY <1>4, EnterHolds, ReadHolds, StoreHolds, AllowPassHolds, FlushHolds, FailHolds,
     TurnHolds DEF Car
<1> QED BY <1>1, <1>2, <1>3, <1>4 DEF RoundaboutNext

(* The invariant holds whatever the cars do and whenever they are killed.  *)
LEMMA RoundaboutInvariant == RoundaboutSpec => []RInv
  BY RoundaboutStarts, RoundaboutKeeps, PTL DEF RoundaboutSpec

(* Each car that registered on a street is counted there, or there is a    *)
(* message for its street, or it has passed: no update of carsInStreet is  *)
(* lost, for any number of cars and streets (Car.cpp).                     *)
THEOREM NoCarIsLost == RoundaboutSpec => []CarsConserved
<1>1. RInv => CarsConserved
  BY DEF RInv, Conserved, CarsConserved, Accounted
<1> QED BY <1>1, RoundaboutInvariant, PTL

(* main finds a free semaphore, zero counters and an empty queue when it   *)
(* starts to fork, however many earlier runs were killed and wherever.     *)
THEOREM RunsStartClean == RoundaboutSpec => []FreshStart
<1>1. RInv => FreshStart
  BY DEF RInv
<1> QED BY <1>1, RoundaboutInvariant, PTL
=============================================================================
