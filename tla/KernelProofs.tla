---------------------------- MODULE KernelProofs ----------------------------
(***************************************************************************)
(* A thread of module Kernel is in one place, its semaphores implement the *)
(* counting semaphores of module SemaphoreSpec, no wake-up is lost, and    *)
(* the machine halts only when no thread could ever run again: proofs for  *)
(* any number of threads, semaphores and devices.                          *)
(***************************************************************************)
EXTENDS Kernel, DataProofs

(* The status of a thread agrees with where it is. *)
StatusFollowsPc ==
    \A t \in Threads :
        /\ pc[t] = "created" => status[t] = "JUST_CREATED"
        /\ pc[t] \in {"startup", "yielded"} => status[t] = "READY"
        /\ pc[t] \in {"run", "test", "enable"} => status[t] = "RUNNING"
        /\ pc[t] \in {"sleep", "idle", "blocked"} => status[t] \in {"BLOCKED", "READY"}
        /\ pc[t] = "dead" => status[t] = "BLOCKED"

(* Only a thread that is dead or about to die is to be destroyed, nothing  *)
(* can wake it, and deleted threads are dead.                              *)
CarcassesAreDead ==
    /\ \A t \in deleted : pc[t] = "dead" /\ t # threadToBeDestroyed
    /\ threadToBeDestroyed # NULL =>
          /\ pc[threadToBeDestroyed] \in {"dead", "sleep", "idle"}
          /\ status[threadToBeDestroyed] = "BLOCKED"
          /\ \A s \in Sems : threadToBeDestroyed \notin Elems(queue[s])

(* The inductive invariant: OnePlacePerThread alone says nothing of the    *)
(* status of a thread that is on no list, nor of what may be deleted.      *)
Placed == OneProcessor /\ ReadyListExact /\ WaitersExact
              /\ StatusFollowsPc /\ CarcassesAreDead
IInv == TypeOK /\ Placed

-----------------------------------------------------------------------------
(* Sub-actions used by several operations preserve their part of the type. *)

(* Scheduler::Run. *)
LEMMA RunType ==
    ASSUME TypeOK, NEW t \in Threads, NEW next \in Threads,
           NEW st \in Statuses, NEW away \in Places, Run(t, next, st, away)
    PROVE  /\ status' \in [Threads -> Statuses] /\ currentThread' \in Threads
           /\ pc' \in [Threads -> Places]
           /\ threadToBeDestroyed' \in Threads \union {NULL} /\ deleted' \subseteq Threads
  BY DEF TypeOK, Run, Resume, DeleteCarcass, Statuses, Places

(* Thread::Yield. *)
LEMMA DoYieldType ==
    ASSUME TypeOK, NEW t \in Threads, DoYield(t)
    PROVE  /\ status' \in [Threads -> Statuses] /\ currentThread' \in Threads
           /\ pc' \in [Threads -> Places] /\ readyList' \in Seq(Threads)
           /\ threadToBeDestroyed' \in Threads \union {NULL} /\ deleted' \subseteq Threads
           /\ level' \in {"IntOn", "IntOff"}
<1>1. CASE readyList = <<>>
  BY <1>1 DEF TypeOK, DoYield, Places
<1>2. CASE readyList # <<>>
  <2>1. Head(readyList) \in Threads /\ Tail(readyList) \in Seq(Threads)
    BY <1>2, TailElems DEF TypeOK
  <2>2. Run(t, Head(readyList), "READY", "yielded")
    BY <1>2 DEF DoYield
  <2>3. readyList' = Append(Tail(readyList), t) /\ level' = "IntOff"
    BY <1>2 DEF DoYield
  <2>4. "READY" \in Statuses /\ "yielded" \in Places
    BY DEF Statuses, Places
  <2> QED BY <2>1, <2>2, <2>3, <2>4, RunType, AppendElems
<1> QED BY <1>1, <1>2

(* Semaphore::V. *)
LEMMA SignalType ==
    ASSUME TypeOK, NEW s \in Sems, Signal(s)
    PROVE  /\ value' \in [Sems -> Nat] /\ queue' \in [Sems -> Seq(Threads)]
           /\ readyList' \in Seq(Threads) /\ status' \in [Threads -> Statuses]
<1>1. value' \in [Sems -> Nat]
  BY DEF TypeOK, Signal
<1>2. CASE queue[s] = <<>>
  BY <1>1, <1>2 DEF TypeOK, Signal, Wake
<1>3. CASE queue[s] # <<>>
  <2>1. Head(queue[s]) \in Threads /\ Tail(queue[s]) \in Seq(Threads)
    BY <1>3, TailElems DEF TypeOK
  <2>2. readyList' = Append(readyList, Head(queue[s])) /\ readyList \in Seq(Threads)
    BY <1>3 DEF TypeOK, Signal, Wake
  <2>3. readyList' \in Seq(Threads)
    BY <2>1, <2>2, AppendElems
  <2> QED BY <1>1, <1>3, <2>1, <2>3 DEF TypeOK, Signal, Wake, Statuses
<1> QED BY <1>2, <1>3

(* The interrupt handlers. *)
LEMMA HandlerType ==
    ASSUME TypeOK, NEW i \in Devices \union {Timer}, Handler(i)
    PROVE  /\ value' \in [Sems -> Nat] /\ queue' \in [Sems -> Seq(Threads)]
           /\ readyList' \in Seq(Threads) /\ status' \in [Threads -> Statuses]
           /\ yieldOnReturn' \in BOOLEAN /\ pending' \subseteq Devices \union {Timer}
<1>1. CASE i = Timer
  BY <1>1 DEF Handler, TypeOK
<1>2. CASE i # Timer
  <2>1. DeviceSem[i] \in Sems /\ Signal(DeviceSem[i])
    BY <1>2, DeviceAssumption DEF Handler
  <2> QED BY <1>2, <2>1, SignalType DEF Handler, TypeOK
<1> QED BY <1>1, <1>2

-----------------------------------------------------------------------------
(* The state Initialize sets up is well formed. *)
LEMMA InitType == Init => TypeOK
<1> SUFFICES ASSUME Init PROVE TypeOK
  OBVIOUS
<1>1. /\ status \in [Threads -> Statuses] /\ pc \in [Threads -> Places]
      /\ onSem \in [Threads -> Sems \union {NULL}]
  BY DEF Init, Statuses, Places
<1>2. readyList \in Seq(Threads) /\ queue \in [Sems -> Seq(Threads)]
  BY DEF Init
<1>3. yieldOnReturn \in BOOLEAN /\ pending \subseteq Devices \union {Timer}
  BY DEF Init
<1> QED BY <1>1, <1>2, <1>3, MainAssumption, ValueAssumption DEF Init, TypeOK

(* Every operation of the kernel keeps it so. *)
LEMMA NextType == TypeOK /\ [Next]_vars => TypeOK'
<1> SUFFICES ASSUME TypeOK, [Next]_vars PROVE TypeOK'
  OBVIOUS
<1>1. ASSUME NEW t \in Threads, NEW u \in Threads, Fork(t, u) PROVE TypeOK'
  <2>1. readyList' \in Seq(Threads)
    BY <1>1, AppendElems DEF Fork, TypeOK
  <2> QED BY <1>1, <2>1 DEF Fork, TypeOK, Statuses, Places, machVars, semVars
<1>2. ASSUME NEW t \in Threads, NEW s \in Sems, P(t, s) PROVE TypeOK'
  BY <1>2 DEF P, TypeOK, Places, machVars, semVars
<1>3. ASSUME NEW t \in Threads, NEW s \in Sems, V(t, s) PROVE TypeOK'
  BY <1>3, SignalType DEF V, TypeOK, Places, machVars
<1>4. ASSUME NEW t \in Threads, NEW s \in Sems, Destroy(t, s) PROVE TypeOK'
  <2>1. readyList' \in Seq(Threads)
    BY <1>4, ConcatElems DEF Destroy, TypeOK
  <2>2. queue' \in [Sems -> Seq(Threads)]
    BY <1>4 DEF Destroy, TypeOK
  <2> QED BY <1>4, <2>1, <2>2 DEF Destroy, TypeOK, Places, Statuses, machVars
<1>5. ASSUME NEW t \in Threads, Yield(t) PROVE TypeOK'
  BY <1>5, DoYieldType DEF Yield, TypeOK, machVars, semVars
<1>6. ASSUME NEW t \in Threads, Finish(t) PROVE TypeOK'
  BY <1>6 DEF Finish, TypeOK, Places, Statuses, machVars, semVars
<1>7. ASSUME NEW t \in Threads, NEW d \in Devices, StartIO(t, d) PROVE TypeOK'
  BY <1>7 DEF StartIO, TypeOK, semVars
<1>8. ASSUME NEW t \in Threads, PTest(t) PROVE TypeOK'
  <2>1. CASE value[onSem[t]] = 0
    <3>1. \A s \in Sems : Append(queue[s], t) \in Seq(Threads)
      BY AppendElems DEF TypeOK
    <3>2. queue' = [queue EXCEPT ![onSem[t]] = Append(queue[onSem[t]], t)]
      BY <1>8, <2>1 DEF PTest
    <3>3. queue' \in [Sems -> Seq(Threads)]
      <4>1. queue \in [Sems -> Seq(Threads)]
        BY DEF TypeOK
      <4> QED BY <3>1, <3>2, <4>1
    <3> QED BY <1>8, <2>1, <3>3 DEF PTest, TypeOK, Places, Statuses, machVars
  <2>2. CASE value[onSem[t]] # 0
    <3>1. value' \in [Sems -> Nat]
      BY <1>8, <2>2 DEF PTest, TypeOK
    <3> QED BY <1>8, <2>2, <3>1 DEF PTest, TypeOK, Places, machVars
  <2> QED BY <2>1, <2>2
<1>9. ASSUME NEW t \in Threads, TickDone(t) PROVE TypeOK'
  <2>1. CASE yieldOnReturn
    BY <1>9, <2>1, DoYieldType DEF TickDone, TypeOK, machVars, semVars
  <2>2. CASE ~yieldOnReturn
    BY <1>9, <2>2 DEF TickDone, TypeOK, Places, machVars, semVars
  <2> QED BY <2>1, <2>2
<1>10. ASSUME NEW t \in Threads, Sleep(t) PROVE TypeOK'
  <2> DEFINE away == IF threadToBeDestroyed = t THEN "dead" ELSE "blocked"
  <2>1. Head(readyList) \in Threads /\ Tail(readyList) \in Seq(Threads)
    BY <1>10, TailElems DEF Sleep, TypeOK
  <2>2. Run(t, Head(readyList), status[t], away) /\ away \in Places
    BY <1>10 DEF Sleep, Places
  <2>3. status[t] \in Statuses
    BY DEF TypeOK
  <2> QED BY <1>10, <2>1, <2>2, <2>3, RunType
          DEF Sleep, TypeOK, machVars, semVars
<1>11. ASSUME NEW t \in Threads, IdleDone(t) PROVE TypeOK'
  BY <1>11 DEF IdleDone, TypeOK, Places, semVars
<1>12. ASSUME NEW t \in Threads, Halt(t) PROVE TypeOK'
  BY <1>12 DEF Halt, TypeOK, semVars
<1>13. ASSUME NEW t \in Threads, NEW i \in Devices \union {Timer}, TickFire(t, i)
       PROVE  TypeOK'
  BY <1>13, HandlerType DEF TickFire, TypeOK
<1>14. ASSUME NEW t \in Threads, NEW i \in Devices \union {Timer}, IdleFire(t, i)
       PROVE  TypeOK'
  BY <1>14, HandlerType DEF IdleFire, TypeOK, Places
<1>15. ASSUME UNCHANGED vars PROVE TypeOK'
  BY <1>15 DEF vars, TypeOK
<1> QED BY <1>1, <1>2, <1>3, <1>4, <1>5, <1>6, <1>7, <1>8, <1>9, <1>10, <1>11,
           <1>12, <1>13, <1>14, <1>15 DEF Next, Call, Step, Fire, Halted

(* The kernel's state stays well formed: in particular no V, P or handler  *)
(* ever makes the value of a semaphore negative, and nothing but threads   *)
(* gets on the ready list and the wait queues.                             *)
THEOREM TypeCorrect == Spec => []TypeOK
<1>1. Init => TypeOK
  BY InitType
<1>2. TypeOK /\ [Next]_vars => TypeOK'
  BY NextType
<1> QED BY <1>1, <1>2, PTL DEF Spec

-----------------------------------------------------------------------------
(* Only threads are on the ready list and the wait queues. *)
LEMMA ListsOfThreads ==
    ASSUME TypeOK
    PROVE  Elems(readyList) \subseteq Threads /\ \A s \in Sems : Elems(queue[s]) \subseteq Threads
  BY ElemsType DEF TypeOK

(* The thread FindNextToRun returns is not running, unless it is the one   *)
(* that looks for work; it waits for nothing and is no carcass.            *)
LEMMA NextToRun ==
    ASSUME IInv, readyList # <<>>
    PROVE  LET next == Head(readyList) IN
           /\ next \in Threads /\ next \in Elems(readyList)
           /\ status[next] = "READY"
           /\ pc[next] \in {"startup", "yielded", "blocked", "sleep", "idle"}
           /\ pc[next] \in {"sleep", "idle"} => next = currentThread
           /\ next # threadToBeDestroyed /\ next \notin deleted
           /\ \A s \in Sems : next \notin Elems(queue[s])
<1> DEFINE next == Head(readyList)
<1>1. next \in Threads /\ next \in Elems(readyList)
  BY TailElems DEF IInv, TypeOK
<1>2. status[next] = "READY"
  BY <1>1 DEF IInv, Placed, ReadyListExact
<1>3. pc[next] \in {"startup", "yielded", "blocked", "sleep", "idle"}
  BY <1>1, <1>2 DEF IInv, Placed, StatusFollowsPc, TypeOK, Places
<1>4. pc[next] \in {"sleep", "idle"} => next = currentThread
  BY <1>1 DEF IInv, Placed, OneProcessor, OnProcessor
<1>5. next # threadToBeDestroyed /\ next \notin deleted
  BY <1>1, <1>2, <1>3, NullAssumption DEF IInv, Placed, CarcassesAreDead
<1>6. \A s \in Sems : next \notin Elems(queue[s])
  BY <1>2 DEF IInv, Placed, WaitersExact
<1> QED BY <1>1, <1>2, <1>3, <1>4, <1>5, <1>6

(* Thread::Yield keeps every thread in its place: the caller moves to the  *)
(* end of the ready list, the head of the list to the processor.           *)
LEMMA DoYieldPlaced ==
    ASSUME IInv, NEW t \in Threads, t = currentThread, pc[t] \in {"run", "enable"},
           DoYield(t), UNCHANGED <<queue, onSem>>
    PROVE  Placed'
<1> USE DEF IInv, Placed
<1>1. CASE readyList = <<>>
  <2>1. OneProcessor'
    BY <1>1 DEF DoYield, OneProcessor, OnProcessor, TypeOK
  <2>2. ReadyListExact'
    BY <1>1 DEF DoYield, ReadyListExact
  <2>3. WaitersExact'
    BY <1>1, ListsOfThreads DEF DoYield, WaitersExact, TypeOK
  <2>4. StatusFollowsPc'
    BY <1>1 DEF DoYield, StatusFollowsPc, TypeOK
  <2>5. CarcassesAreDead'
    BY <1>1 DEF DoYield, CarcassesAreDead, TypeOK
  <2> QED BY <2>1, <2>2, <2>3, <2>4, <2>5
<1>2. CASE readyList # <<>>
  <2> DEFINE next == Head(readyList)
  <2>1. /\ next \in Threads /\ next # t
        /\ status[next] = "READY"
        /\ pc[next] \in {"startup", "yielded", "blocked"}
        /\ next # threadToBeDestroyed /\ next \notin deleted
        /\ \A s \in Sems : next \notin Elems(queue[s])
    BY <1>2, NextToRun DEF StatusFollowsPc
  <2>2. /\ status[t] = "RUNNING" /\ t \notin Elems(readyList) /\ t \notin deleted
        /\ t # threadToBeDestroyed
        /\ \A s \in Sems : t \notin Elems(queue[s])
    BY NullAssumption
       DEF StatusFollowsPc, ReadyListExact, WaitersExact, CarcassesAreDead
  <2>3. /\ readyList' = Append(Tail(readyList), t)
        /\ Elems(readyList') = (Elems(readyList) \ {next}) \union {t}
        /\ NoDuplicates(readyList')
    <3> DEFINE rest == Tail(readyList)
    <3>1. /\ rest \in Seq(Threads) /\ NoDuplicates(rest)
          /\ Elems(rest) = Elems(readyList) \ {next}
      BY <1>2, TailElems DEF TypeOK, ReadyListExact
    <3>2. readyList' = Append(rest, t)
      BY <1>2 DEF DoYield
    <3> HIDE DEF rest, next
    <3>3. t \notin Elems(rest)
      BY <2>2, <3>1
    <3>4. Elems(Append(rest, t)) = Elems(rest) \union {t} /\ NoDuplicates(Append(rest, t))
      BY <3>1, <3>3, AppendElems
    <3> QED BY <3>1, <3>2, <3>4 DEF rest
  <2>4. /\ currentThread' = next /\ level' = "IntOff"
        /\ status' = [status EXCEPT ![t] = "READY", ![next] = "RUNNING"]
        /\ pc' = [pc EXCEPT ![t] = "yielded",
                            ![next] = IF pc[next] = "blocked" THEN "test" ELSE "enable"]
    BY <1>2, <2>1 DEF DoYield, Run, Resume
  <2>5. OneProcessor'
    BY <2>1, <2>4 DEF OneProcessor, OnProcessor, TypeOK
  <2>6. ReadyListExact'
    BY <2>1, <2>2, <2>3, <2>4 DEF ReadyListExact, TypeOK
  <2>7. WaitersExact'
    BY <2>1, <2>2, <2>4, ListsOfThreads DEF WaitersExact, TypeOK
  <2>8. StatusFollowsPc'
    BY <2>1, <2>4 DEF StatusFollowsPc, TypeOK
  <2>9. CarcassesAreDead'
    <3>1. pc[next] = "startup" => UNCHANGED <<threadToBeDestroyed, deleted>>
      BY <1>2 DEF DoYield, Run
    <3>2. pc[next] # "startup" => DeleteCarcass
      BY <1>2 DEF DoYield, Run
    <3>3. threadToBeDestroyed # NULL => pc[threadToBeDestroyed] = "dead"
      BY <2>2 DEF CarcassesAreDead, OneProcessor, OnProcessor, TypeOK
    <3>4. CASE pc[next] = "startup"
      BY <2>1, <2>2, <2>4, <3>1, <3>3, <3>4 DEF CarcassesAreDead, TypeOK
    <3>5. CASE pc[next] # "startup"
      BY <2>1, <2>2, <2>4, <3>2, <3>3, <3>5, NullAssumption
         DEF CarcassesAreDead, DeleteCarcass, TypeOK
    <3> QED BY <3>4, <3>5
  <2> QED BY <2>5, <2>6, <2>7, <2>8, <2>9
<1> QED BY <1>1, <1>2

(* What Wake(s) does when somebody waits on s: waiter moves from the queue *)
(* to the ready list.                                                      *)
Woke(s, waiter) ==
    /\ waiter \in Elems(queue[s]) /\ onSem[waiter] = s
    /\ status[waiter] = "BLOCKED" /\ status' = [status EXCEPT ![waiter] = "READY"]
    /\ Elems(readyList') = Elems(readyList) \union {waiter}
    /\ NoDuplicates(readyList')
    /\ \A r \in Sems : /\ Elems(queue'[r]) = Elems(queue[r]) \ {waiter}
                       /\ NoDuplicates(queue'[r])

(* V takes one thread off the wait queue, and no other queue loses one. *)
LEMMA WakeMoves ==
    ASSUME IInv, NEW s \in Sems, Wake(s), queue[s] # <<>>
    PROVE  \E waiter \in Threads : Woke(s, waiter)
<1> USE DEF IInv, Placed
<1> DEFINE waiter == Head(queue[s])
           rest == Tail(queue[s])
<1>1. /\ waiter \in Threads /\ waiter \in Elems(queue[s])
      /\ NoDuplicates(rest) /\ Elems(rest) = Elems(queue[s]) \ {waiter}
  BY TailElems DEF TypeOK, WaitersExact
<1>2. /\ readyList' = Append(readyList, waiter)
      /\ status' = [status EXCEPT ![waiter] = "READY"]
      /\ queue' = [queue EXCEPT ![s] = rest]
  BY DEF Wake
<1> HIDE DEF waiter, rest
<1>3. /\ onSem[waiter] = s /\ status[waiter] = "BLOCKED"
      /\ waiter \notin Elems(readyList)
  BY <1>1 DEF WaitersExact, ReadyListExact
<1>4. /\ Elems(readyList') = Elems(readyList) \union {waiter}
      /\ NoDuplicates(readyList')
  BY <1>1, <1>2, <1>3, AppendElems DEF TypeOK, ReadyListExact
<1>5. \A r \in Sems : /\ Elems(queue'[r]) = Elems(queue[r]) \ {waiter}
                      /\ NoDuplicates(queue'[r])
  BY <1>1, <1>2, <1>3 DEF TypeOK, WaitersExact
<1> QED BY <1>1, <1>2, <1>3, <1>4, <1>5 DEF Woke

(* Semaphore::V, called by a thread or a handler: the first waiter moves   *)
(* from the queue to the ready list, while the running thread moves within *)
(* the kernel.                                                             *)
LEMMA WakePlaced ==
    ASSUME IInv, NEW s \in Sems, NEW t \in Threads, t = currentThread, Wake(s),
           NEW p, pc' = [pc EXCEPT ![t] = p],
           \/ pc[t] \in {"run", "enable"} /\ p = "enable"
           \/ pc[t] \in {"sleep", "idle"} /\ p = "idle",
           level' = "IntOff",
           UNCHANGED <<currentThread, threadToBeDestroyed, deleted, onSem>>
    PROVE  Placed'
<1> USE DEF IInv, Placed
<1>1. CASE queue[s] = <<>>
  <2>1. UNCHANGED <<queue, readyList, status>>
    BY <1>1 DEF Wake
  <2>2. OneProcessor'
    BY DEF OneProcessor, OnProcessor, TypeOK
  <2>3. ReadyListExact'
    BY <2>1 DEF ReadyListExact
  <2>4. WaitersExact'
    BY <2>1, ListsOfThreads DEF WaitersExact, TypeOK
  <2>5. StatusFollowsPc'
    BY <2>1 DEF StatusFollowsPc, TypeOK
  <2>6. CarcassesAreDead'
    BY <2>1 DEF CarcassesAreDead, TypeOK
  <2> QED BY <2>2, <2>3, <2>4, <2>5, <2>6
<1>2. CASE queue[s] # <<>>
  <2>1. PICK waiter \in Threads : Woke(s, waiter)
    BY <1>2, WakeMoves
  <2>2. pc[waiter] \in {"blocked", "sleep", "idle"} /\ waiter # threadToBeDestroyed
    BY <2>1, NullAssumption DEF Woke, WaitersExact, CarcassesAreDead
  <2>3. OneProcessor'
    BY DEF OneProcessor, OnProcessor, TypeOK
  <2>4. ReadyListExact'
    BY <2>1 DEF Woke, ReadyListExact, TypeOK
  <2>5. WaitersExact'
    BY <2>1, <2>2, ListsOfThreads DEF Woke, WaitersExact, TypeOK
  <2>6. StatusFollowsPc'
    BY <2>1, <2>2 DEF Woke, StatusFollowsPc, TypeOK
  <2>7. CarcassesAreDead'
    BY <2>1, <2>2, NullAssumption DEF Woke, CarcassesAreDead, TypeOK
  <2> QED BY <2>3, <2>4, <2>5, <2>6, <2>7
<1> QED BY <1>1, <1>2

(* An interrupt handler: the timer's, which only asks for a Yield, or a    *)
(* device's, which does a V.                                               *)
LEMMA HandlerPlaced ==
    ASSUME IInv, NEW i \in Devices \union {Timer}, Handler(i),
           NEW t \in Threads, t = currentThread, NEW p, pc' = [pc EXCEPT ![t] = p],
           \/ pc[t] = "enable" /\ p = "enable"
           \/ pc[t] \in {"sleep", "idle"} /\ p = "idle",
           UNCHANGED <<level, currentThread, threadToBeDestroyed, deleted, onSem>>
    PROVE  Placed'
<1>1. level' = "IntOff"
  BY DEF IInv, Placed, OneProcessor, TypeOK
<1>2. CASE i = Timer
  <2>1. UNCHANGED <<queue, readyList, status>>
    BY <1>2 DEF Handler
  <2> USE DEF IInv, Placed
  <2>2. OneProcessor'
    BY <1>1 DEF OneProcessor, OnProcessor, TypeOK
  <2>3. ReadyListExact'
    BY <2>1 DEF ReadyListExact
  <2>4. WaitersExact'
    BY <2>1, ListsOfThreads DEF WaitersExact, TypeOK
  <2>5. StatusFollowsPc'
    BY <2>1 DEF StatusFollowsPc, TypeOK
  <2>6. CarcassesAreDead'
    BY <2>1 DEF CarcassesAreDead, TypeOK
  <2> QED BY <2>2, <2>3, <2>4, <2>5, <2>6
<1>3. CASE i # Timer
  <2>1. DeviceSem[i] \in Sems /\ Wake(DeviceSem[i])
    BY <1>3, DeviceAssumption DEF Handler, Signal
  <2> QED BY <1>1, <2>1, WakePlaced
<1> QED BY <1>2, <1>3

(* Thread::Sleep gives the processor to the head of the ready list, which  *)
(* may be the sleeper itself; a finished thread is dead from now on, and   *)
(* is deleted unless the new thread runs for the first time.               *)
LEMMA SleepPlaced ==
    ASSUME IInv, NEW t \in Threads, Sleep(t)
    PROVE  Placed'
<1> USE DEF IInv, Placed
<1> DEFINE next == Head(readyList)
           rest == Tail(readyList)
           away == IF threadToBeDestroyed = t THEN "dead" ELSE "blocked"
<1>1. /\ t = currentThread /\ pc[t] = "sleep" /\ readyList # <<>>
      /\ status[t] \in {"BLOCKED", "READY"} /\ t \notin deleted
      /\ level = "IntOff" /\ UNCHANGED <<level, queue, onSem>>
  BY DEF Sleep, semVars, StatusFollowsPc, CarcassesAreDead, OneProcessor, TypeOK
<1>2. /\ next \in Threads /\ status[next] = "READY"
      /\ pc[next] \in {"startup", "yielded", "blocked", "sleep"}
      /\ pc[next] = "sleep" <=> next = t
      /\ next # threadToBeDestroyed /\ next \notin deleted
      /\ \A s \in Sems : next \notin Elems(queue[s])
  BY <1>1, NextToRun
<1>3. /\ readyList' = rest
      /\ Elems(rest) = Elems(readyList) \ {next} /\ NoDuplicates(rest)
  BY <1>1, TailElems DEF TypeOK, ReadyListExact, Sleep
<1>4. Run(t, next, status[t], away)
  BY DEF Sleep
<1> HIDE DEF next, rest
<1>5. /\ currentThread' = next
      /\ status' = [status EXCEPT ![next] = "RUNNING"]
      /\ \A x \in Threads : pc'[x] = IF x = next
                                      THEN IF pc[x] \in {"startup", "yielded"}
                                           THEN "enable" ELSE "test"
                                      ELSE IF x = t THEN away ELSE pc[x]
  BY <1>2, <1>4 DEF Run, Resume, TypeOK
<1> HIDE DEF away
<1>6. OneProcessor'
  BY <1>1, <1>2, <1>5 DEF OneProcessor, OnProcessor, away
<1>7. ReadyListExact'
  BY <1>2, <1>3, <1>5 DEF ReadyListExact, TypeOK
<1>8. WaitersExact'
  <2>1. \A s \in Sems : threadToBeDestroyed # NULL => threadToBeDestroyed \notin Elems(queue[s])
    BY DEF CarcassesAreDead
  <2> QED BY <1>1, <1>2, <1>5, <2>1, ListsOfThreads, NullAssumption
          DEF WaitersExact, TypeOK, away
<1>9. StatusFollowsPc'
  <2>1. threadToBeDestroyed = t => status[t] = "BLOCKED"
    BY NullAssumption DEF CarcassesAreDead
  <2> QED BY <1>1, <1>2, <1>5, <2>1 DEF StatusFollowsPc, TypeOK, away
<1>10. CarcassesAreDead'
  <2>1. threadToBeDestroyed # NULL =>
           /\ threadToBeDestroyed \in Threads
           /\ pc'[threadToBeDestroyed] = "dead"
           /\ status'[threadToBeDestroyed] = "BLOCKED"
    BY <1>1, <1>2, <1>5 DEF CarcassesAreDead, OneProcessor, OnProcessor, TypeOK, away
  <2>2. \A x \in deleted : x \in Threads /\ pc'[x] = "dead"
    BY <1>1, <1>2, <1>5 DEF CarcassesAreDead, TypeOK
  <2>3. CASE pc[next] = "startup"
    <3>1. UNCHANGED <<threadToBeDestroyed, deleted>>
      BY <1>4, <2>3 DEF Run
    <3> QED BY <1>1, <2>1, <2>2, <3>1 DEF CarcassesAreDead
  <2>4. CASE pc[next] # "startup"
    <3>1. DeleteCarcass
      BY <1>4, <2>4 DEF Run
    <3> QED BY <2>1, <2>2, <3>1, NullAssumption
            DEF CarcassesAreDead, DeleteCarcass, TypeOK
  <2> QED BY <2>3, <2>4
<1> QED BY <1>6, <1>7, <1>8, <1>9, <1>10

(* Thread::Fork: the new thread goes on the ready list. *)
LEMMA ForkPlaced ==
    ASSUME IInv, NEW t \in Threads, NEW u \in Threads, Fork(t, u)
    PROVE  Placed'
<1> USE DEF IInv, Placed
<1>1. /\ t = currentThread /\ pc[t] = "run" /\ pc[u] = "created" /\ t # u
      /\ status[u] = "JUST_CREATED" /\ u \notin Elems(readyList)
  BY DEF Fork, Running, StatusFollowsPc, ReadyListExact
<1>2. /\ level' = "IntOff" /\ status' = [status EXCEPT ![u] = "READY"]
      /\ pc' = [pc EXCEPT ![u] = "startup", ![t] = "enable"]
      /\ UNCHANGED <<currentThread, threadToBeDestroyed, deleted, queue, onSem>>
  BY DEF Fork, semVars
<1>3. Elems(readyList') = Elems(readyList) \union {u} /\ NoDuplicates(readyList')
  <2>1. readyList' = Append(readyList, u)
    BY DEF Fork
  <2> QED BY <1>1, <2>1, AppendElems DEF TypeOK, ReadyListExact
<1>4. OneProcessor'
  BY <1>1, <1>2 DEF OneProcessor, OnProcessor, TypeOK
<1>5. ReadyListExact'
  BY <1>1, <1>2, <1>3 DEF ReadyListExact, TypeOK
<1>6. WaitersExact'
  BY <1>1, <1>2, ListsOfThreads DEF WaitersExact, TypeOK
<1>7. StatusFollowsPc'
  BY <1>1, <1>2 DEF StatusFollowsPc, TypeOK
<1>8. CarcassesAreDead'
  BY <1>1, <1>2 DEF CarcassesAreDead, TypeOK
<1> QED BY <1>4, <1>5, <1>6, <1>7, <1>8

(* A queue with one more thread, which was not on it. *)
LEMMA LongerQueue ==
    ASSUME IInv, NEW t \in Threads, NEW r \in Sems, t \notin Elems(queue[r])
    PROVE  /\ Elems(Append(queue[r], t)) = Elems(queue[r]) \union {t}
           /\ NoDuplicates(Append(queue[r], t))
<1>1. queue[r] \in Seq(Threads) /\ NoDuplicates(queue[r])
  BY DEF IInv, Placed, TypeOK, WaitersExact
<1> QED BY <1>1, AppendElems

(* A thread that joins the queue of s in P is on that queue only. *)
LEMMA JoinQueue ==
    ASSUME IInv, NEW t \in Threads, NEW s, queue' = [queue EXCEPT ![s] = Append(queue[s], t)],
           \A r \in Sems : t \notin Elems(queue[r]), NEW r \in Sems
    PROVE  /\ Elems(queue'[r]) = IF r = s THEN Elems(queue[r]) \union {t}
                                 ELSE Elems(queue[r])
           /\ NoDuplicates(queue'[r])
<1>1. queue'[r] = IF r = s THEN Append(queue[r], t) ELSE queue[r]
  BY DEF IInv, TypeOK
<1>2. NoDuplicates(queue[r])
  BY DEF IInv, Placed, WaitersExact
<1>3. /\ Elems(Append(queue[r], t)) = Elems(queue[r]) \union {t}
      /\ NoDuplicates(Append(queue[r], t))
  BY LongerQueue, Zenon
<1>4. CASE r = s
  <2>1. queue'[r] = Append(queue[r], t)
    BY <1>1, <1>4
  <2> QED BY <1>3, <1>4, <2>1, Zenon
<1>5. CASE r # s
  <2>1. queue'[r] = queue[r]
    BY <1>1, <1>5
  <2> QED BY <1>2, <1>5, <2>1
<1> QED BY <1>4, <1>5, Zenon

(* The test in Semaphore::P: the thread gets through or joins the queue.   *)
LEMMA PTestPlaced ==
    ASSUME IInv, NEW t \in Threads, PTest(t)
    PROVE  Placed'
<1> USE DEF IInv, Placed
<1> DEFINE s == onSem[t]
<1>1. /\ t = currentThread /\ pc[t] = "test" /\ status[t] = "RUNNING"
      /\ \A r \in Sems : t \notin Elems(queue[r])
      /\ t \notin Elems(readyList) /\ t # threadToBeDestroyed /\ t \notin deleted
  BY NullAssumption
     DEF PTest, StatusFollowsPc, WaitersExact, ReadyListExact, CarcassesAreDead
<1>2. UNCHANGED <<currentThread, readyList, threadToBeDestroyed, deleted, level>>
  BY DEF PTest
<1>3. CASE value[s] = 0
  <2>1. /\ queue' = [queue EXCEPT ![s] = Append(queue[s], t)]
        /\ status' = [status EXCEPT ![t] = "BLOCKED"]
        /\ pc' = [pc EXCEPT ![t] = "sleep"] /\ UNCHANGED onSem
    BY <1>3 DEF PTest
  <2>2. \A r \in Sems : /\ Elems(queue'[r]) = IF r = s THEN Elems(queue[r]) \union {t}
                                               ELSE Elems(queue[r])
                        /\ NoDuplicates(queue'[r])
    <3> HIDE DEF IInv, Placed, s
    <3>1. queue' = [queue EXCEPT ![s] = Append(queue[s], t)]
      BY <2>1
    <3>2. \A q \in Sems : t \notin Elems(queue[q])
      BY <1>1
    <3> TAKE r \in Sems
    <3> QED BY <3>1, <3>2, JoinQueue, Zenon
  <2>3. OneProcessor'
    BY <1>1, <1>2, <2>1 DEF OneProcessor, OnProcessor, TypeOK
  <2>4. ReadyListExact'
    BY <1>1, <1>2, <2>1 DEF ReadyListExact, TypeOK
  <2>5. WaitersExact'
    <3> SUFFICES ASSUME NEW r \in Sems, NEW x \in Elems(queue'[r])
                 PROVE  /\ onSem'[x] = r /\ status'[x] = "BLOCKED"
                        /\ pc'[x] \in {"blocked", "sleep", "idle"}
      BY <2>2 DEF WaitersExact
    <3>1. CASE x = t
      <4>1. r = s
        BY <1>1, <2>2, <3>1
      <4> QED BY <2>1, <3>1, <4>1 DEF TypeOK
    <3>2. CASE x # t
      <4>1. x \in Elems(queue[r]) /\ x \in Threads
        BY <2>2, <3>2, ListsOfThreads
      <4> QED BY <2>1, <3>2, <4>1 DEF WaitersExact, TypeOK
    <3> QED BY <3>1, <3>2
  <2>6. StatusFollowsPc'
    BY <1>1, <2>1 DEF StatusFollowsPc, TypeOK
  <2>7. CarcassesAreDead'
    <3>1. \A r \in Sems : \A x : x \in Elems(queue'[r]) => x = t \/ x \in Elems(queue[r])
      BY <2>2
    <3> QED BY <1>1, <1>2, <2>1, <3>1 DEF CarcassesAreDead, TypeOK
  <2> QED BY <2>3, <2>4, <2>5, <2>6, <2>7
<1>4. CASE value[s] # 0
  <2>1. /\ pc' = [pc EXCEPT ![t] = "enable"] /\ onSem' = [onSem EXCEPT ![t] = NULL]
        /\ UNCHANGED <<queue, status>>
    BY <1>4 DEF PTest
  <2>2. OneProcessor'
    BY <1>1, <1>2, <2>1 DEF OneProcessor, OnProcessor, TypeOK
  <2>3. ReadyListExact'
    BY <1>2, <2>1 DEF ReadyListExact
  <2>4. WaitersExact'
    BY <1>1, <2>1, ListsOfThreads DEF WaitersExact, TypeOK
  <2>5. StatusFollowsPc'
    BY <1>1, <2>1 DEF StatusFollowsPc, TypeOK
  <2>6. CarcassesAreDead'
    BY <1>1, <1>2, <2>1 DEF CarcassesAreDead, TypeOK
  <2> QED BY <2>2, <2>3, <2>4, <2>5, <2>6
<1> QED BY <1>3, <1>4

(* Emptying the queue of s leaves the other queues alone. *)
LEMMA EmptyQueue ==
    ASSUME IInv, NEW s \in Sems, queue' = [queue EXCEPT ![s] = <<>>]
    PROVE  \A r \in Sems : /\ Elems(queue'[r]) = IF r = s THEN {} ELSE Elems(queue[r])
                          /\ NoDuplicates(queue'[r])
<1> USE DEF IInv, Placed
<1> TAKE r \in Sems
<1>1. CASE r = s
  <2>1. queue'[r] = <<>>
    BY <1>1 DEF TypeOK
  <2> QED BY <1>1, <2>1, EmptyElems
<1>2. CASE r # s
  <2>1. queue'[r] = queue[r]
    BY <1>2 DEF TypeOK
  <2> QED BY <1>2, <2>1 DEF WaitersExact
<1> QED BY <1>1, <1>2

(* Semaphore::Destroy: the whole queue moves to the ready list. *)
LEMMA DestroyPlaced ==
    ASSUME IInv, NEW t \in Threads, NEW s \in Sems, Destroy(t, s)
    PROVE  Placed'
<1> USE DEF IInv, Placed
<1>1. /\ t = currentThread /\ pc[t] = "run" /\ status[t] = "RUNNING"
      /\ \A r \in Sems : t \notin Elems(queue[r])
      /\ t # threadToBeDestroyed /\ t \notin deleted
  BY NullAssumption
     DEF Destroy, Running, StatusFollowsPc, WaitersExact, CarcassesAreDead
<1>2. /\ level' = "IntOff" /\ pc' = [pc EXCEPT ![t] = "enable"]
      /\ status' = [x \in Threads |->
                        IF x \in Elems(queue[s]) THEN "READY" ELSE status[x]]
      /\ queue' = [queue EXCEPT ![s] = <<>>]
      /\ UNCHANGED <<currentThread, threadToBeDestroyed, deleted, onSem>>
  BY DEF Destroy
<1>3. \A x \in Elems(queue[s]) :
         /\ x \in Threads /\ status[x] = "BLOCKED" /\ x \notin Elems(readyList)
         /\ pc[x] \in {"blocked", "sleep", "idle"}
         /\ \A r \in Sems : r # s => x \notin Elems(queue[r])
  BY ListsOfThreads DEF WaitersExact, ReadyListExact
<1>4. /\ Elems(readyList') = Elems(readyList) \union Elems(queue[s])
      /\ NoDuplicates(readyList')
  <2>1. readyList' = readyList \o queue[s]
    BY DEF Destroy
  <2>2. readyList \in Seq(Threads) /\ queue[s] \in Seq(Threads)
    BY DEF TypeOK
  <2>3. NoDuplicates(readyList) /\ NoDuplicates(queue[s])
    BY DEF ReadyListExact, WaitersExact
  <2>4. Elems(readyList) \intersect Elems(queue[s]) = {}
    BY <1>3
  <2> QED BY <2>1, <2>2, <2>3, <2>4, ConcatElems
<1>5. \A r \in Sems : /\ Elems(queue'[r]) = IF r = s THEN {} ELSE Elems(queue[r])
                      /\ NoDuplicates(queue'[r])
  BY <1>2, EmptyQueue
<1>6. OneProcessor'
  BY <1>1, <1>2 DEF OneProcessor, OnProcessor, TypeOK
<1>7. ReadyListExact'
  BY <1>2, <1>3, <1>4 DEF ReadyListExact, TypeOK
<1>8. WaitersExact'
  <2> SUFFICES ASSUME NEW r \in Sems, NEW x \in Elems(queue'[r])
               PROVE  /\ onSem'[x] = r /\ status'[x] = "BLOCKED"
                      /\ pc'[x] \in {"blocked", "sleep", "idle"}
    BY <1>5 DEF WaitersExact
  <2>1. r # s /\ x \in Elems(queue[r]) /\ x \in Threads
    BY <1>5, ListsOfThreads
  <2>2. x # t /\ x \notin Elems(queue[s])
    BY <1>1, <1>3, <2>1
  <2> QED BY <1>2, <2>1, <2>2 DEF WaitersExact, TypeOK
<1>9. StatusFollowsPc'
  <2> SUFFICES ASSUME NEW x \in Threads
               PROVE  /\ pc'[x] = "created" => status'[x] = "JUST_CREATED"
                      /\ pc'[x] \in {"startup", "yielded"} => status'[x] = "READY"
                      /\ pc'[x] \in {"run", "test", "enable"} => status'[x] = "RUNNING"
                      /\ pc'[x] \in {"sleep", "idle", "blocked"} =>
                             status'[x] \in {"BLOCKED", "READY"}
                      /\ pc'[x] = "dead" => status'[x] = "BLOCKED"
    BY DEF StatusFollowsPc
  <2>1. CASE x \in Elems(queue[s])
    <3>1. pc'[x] \in {"blocked", "sleep", "idle"} /\ status'[x] = "READY"
      BY <1>1, <1>2, <1>3, <2>1 DEF TypeOK
    <3> QED BY <3>1
  <2>2. CASE x \notin Elems(queue[s])
    <3>1. status'[x] = status[x] /\ pc'[x] = IF x = t THEN "enable" ELSE pc[x]
      BY <1>2, <2>2 DEF TypeOK
    <3> QED BY <1>1, <3>1 DEF StatusFollowsPc
  <2> QED BY <2>1, <2>2
<1>10. CarcassesAreDead'
  <2>1. \A x \in deleted : pc'[x] = "dead"
    BY <1>1, <1>2 DEF CarcassesAreDead, TypeOK
  <2>2. ASSUME threadToBeDestroyed # NULL
        PROVE  /\ pc'[threadToBeDestroyed] \in {"dead", "sleep", "idle"}
               /\ status'[threadToBeDestroyed] = "BLOCKED"
               /\ \A r \in Sems : threadToBeDestroyed \notin Elems(queue'[r])
    BY <1>1, <1>2, <1>5, <2>2 DEF CarcassesAreDead, TypeOK
  <2> QED BY <1>2, <2>1, <2>2 DEF CarcassesAreDead
<1> QED BY <1>6, <1>7, <1>8, <1>9, <1>10

(* A step in which the running thread only moves within the kernel, and no *)
(* list and no status changes.                                             *)
LEMMA MovePlaced ==
    ASSUME IInv, NEW t \in Threads, t = currentThread, NEW p,
           pc' = [pc EXCEPT ![t] = p],
           \/ pc[t] = "run" /\ p = "test" /\ level' = "IntOff"
           \/ pc[t] = "enable" /\ p = "run" /\ level' = "IntOn"
           \/ pc[t] = "idle" /\ p = "sleep" /\ level' = level,
           \A x \in Threads : x # t => onSem'[x] = onSem[x],
           pc[t] = "idle" => onSem' = onSem,
           UNCHANGED <<status, currentThread, readyList, threadToBeDestroyed,
                       deleted, queue>>
    PROVE  Placed'
<1> USE DEF IInv, Placed
<1>1. OneProcessor'
  BY DEF OneProcessor, OnProcessor, TypeOK
<1>2. ReadyListExact'
  BY DEF ReadyListExact
<1>3. WaitersExact'
  BY ListsOfThreads DEF WaitersExact, TypeOK
<1>4. StatusFollowsPc'
  BY DEF StatusFollowsPc, TypeOK
<1>5. CarcassesAreDead'
  BY DEF CarcassesAreDead, TypeOK
<1> QED BY <1>1, <1>2, <1>3, <1>4, <1>5

(* Thread::Finish: the running thread, which is on no list, becomes the    *)
(* thread to be destroyed.                                                 *)
LEMMA FinishPlaced ==
    ASSUME IInv, NEW t \in Threads, Finish(t)
    PROVE  Placed'
<1> USE DEF IInv, Placed
<1>1. /\ t = currentThread /\ pc[t] = "run" /\ status[t] = "RUNNING"
      /\ t \notin Elems(readyList) /\ t \notin deleted
      /\ \A r \in Sems : t \notin Elems(queue[r])
  BY DEF Finish, Running, StatusFollowsPc, WaitersExact, ReadyListExact,
         CarcassesAreDead
<1>2. /\ level' = "IntOff" /\ threadToBeDestroyed' = t
      /\ status' = [status EXCEPT ![t] = "BLOCKED"]
      /\ pc' = [pc EXCEPT ![t] = "sleep"]
      /\ UNCHANGED <<currentThread, readyList, deleted, queue, onSem>>
  BY DEF Finish, semVars
<1>3. OneProcessor'
  BY <1>1, <1>2 DEF OneProcessor, OnProcessor, TypeOK
<1>4. ReadyListExact'
  BY <1>1, <1>2 DEF ReadyListExact, TypeOK
<1>5. WaitersExact'
  BY <1>1, <1>2, ListsOfThreads DEF WaitersExact, TypeOK
<1>6. StatusFollowsPc'
  BY <1>1, <1>2 DEF StatusFollowsPc, TypeOK
<1>7. CarcassesAreDead'
  BY <1>1, <1>2 DEF CarcassesAreDead, TypeOK
<1> QED BY <1>3, <1>4, <1>5, <1>6, <1>7

(* Before the first step only Main is placed, on the processor. *)
LEMMA InitPlaced == Init => Placed
<1> SUFFICES ASSUME Init PROVE Placed
  OBVIOUS
<1>1. Elems(readyList) = {} /\ NoDuplicates(readyList)
  BY EmptyElems DEF Init
<1>2. \A s \in Sems : Elems(queue[s]) = {} /\ NoDuplicates(queue[s])
  BY EmptyElems DEF Init
<1>3. OneProcessor
  BY MainAssumption DEF Init, OneProcessor, OnProcessor
<1>4. ReadyListExact
  BY <1>1 DEF Init, ReadyListExact
<1>5. WaitersExact
  BY <1>2 DEF WaitersExact
<1>6. StatusFollowsPc
  BY DEF Init, StatusFollowsPc
<1>7. CarcassesAreDead
  BY DEF Init, CarcassesAreDead
<1> QED BY <1>3, <1>4, <1>5, <1>6, <1>7 DEF Placed

(* Every operation keeps every thread in its place. *)
LEMMA NextPlaced == IInv /\ [Next]_vars => Placed'
<1> SUFFICES ASSUME IInv, [Next]_vars PROVE Placed'
  OBVIOUS
<1>1. ASSUME NEW t \in Threads, NEW u \in Threads, Fork(t, u) PROVE Placed'
  BY <1>1, ForkPlaced
<1>2. ASSUME NEW t \in Threads, NEW s \in Sems, P(t, s) PROVE Placed'
  <2>1. \A x \in Threads : x # t => onSem'[x] = onSem[x]
    BY <1>2 DEF P, IInv, TypeOK
  <2> QED BY <1>2, <2>1, MovePlaced DEF P, Running, semVars
<1>3. ASSUME NEW t \in Threads, NEW s \in Sems, V(t, s) PROVE Placed'
  BY <1>3, WakePlaced DEF V, Running, Signal
<1>4. ASSUME NEW t \in Threads, NEW s \in Sems, Destroy(t, s) PROVE Placed'
  BY <1>4, DestroyPlaced
<1>5. ASSUME NEW t \in Threads, Yield(t) PROVE Placed'
  BY <1>5, DoYieldPlaced DEF Yield, Running, semVars
<1>6. ASSUME NEW t \in Threads, Finish(t) PROVE Placed'
  BY <1>6, FinishPlaced
<1>7. ASSUME NEW t \in Threads, NEW d \in Devices, StartIO(t, d) PROVE Placed'
  BY <1>7 DEF StartIO, semVars, IInv, Placed, OneProcessor, ReadyListExact,
              WaitersExact, StatusFollowsPc, CarcassesAreDead
<1>8. ASSUME NEW t \in Threads, PTest(t) PROVE Placed'
  BY <1>8, PTestPlaced
<1>9. ASSUME NEW t \in Threads, TickDone(t) PROVE Placed'
  <2>1. CASE yieldOnReturn
    BY <1>9, <2>1, DoYieldPlaced DEF TickDone, semVars
  <2>2. CASE ~yieldOnReturn
    BY <1>9, <2>2, MovePlaced DEF TickDone, semVars
  <2> QED BY <2>1, <2>2
<1>10. ASSUME NEW t \in Threads, Sleep(t) PROVE Placed'
  BY <1>10, SleepPlaced
<1>11. ASSUME NEW t \in Threads, IdleDone(t) PROVE Placed'
  BY <1>11, MovePlaced DEF IdleDone, semVars
<1>12. ASSUME NEW t \in Threads, Halt(t) PROVE Placed'
  BY <1>12 DEF Halt, semVars, IInv, Placed, OneProcessor, ReadyListExact,
               WaitersExact, StatusFollowsPc, CarcassesAreDead
<1>13. ASSUME NEW t \in Threads, NEW i \in Devices \union {Timer}, TickFire(t, i)
       PROVE  Placed'
  <2>1. pc' = [pc EXCEPT ![t] = "enable"]
    BY <1>13 DEF TickFire, IInv, TypeOK
  <2> QED BY <1>13, <2>1, HandlerPlaced DEF TickFire
<1>14. ASSUME NEW t \in Threads, NEW i \in Devices \union {Timer}, IdleFire(t, i)
       PROVE  Placed'
  BY <1>14, HandlerPlaced DEF IdleFire
<1>15. ASSUME UNCHANGED vars PROVE Placed'
  BY <1>15 DEF vars, IInv, Placed, OneProcessor, ReadyListExact,
               WaitersExact, StatusFollowsPc, CarcassesAreDead
<1> QED BY <1>1, <1>2, <1>3, <1>4, <1>5, <1>6, <1>7, <1>8, <1>9, <1>10, <1>11,
           <1>12, <1>13, <1>14, <1>15 DEF Next, Call, Step, Fire, Halted

(* The inductive invariant holds in every state. *)
THEOREM Invariance == Spec => []IInv
<1>1. Init => IInv
  BY InitType, InitPlaced DEF IInv
<1>2. IInv /\ [Next]_vars => IInv'
  BY NextType, NextPlaced DEF IInv
<1> QED BY <1>1, <1>2, PTL DEF Spec

(* For any number of threads, semaphores and devices, a thread is on the   *)
(* processor, once on the ready list, or once on one wait queue, and never *)
(* in two of these places, whatever the interrupts do.                     *)
THEOREM OnePlace == Spec => []OnePlacePerThread
<1>1. IInv => OnePlacePerThread
  BY DEF IInv, Placed, OnePlacePerThread
<1> QED BY <1>1, Invariance, PTL

(* For any number of threads, the scheduler never reaches a thread whose   *)
(* destructor has run.                                                     *)
THEOREM DeletedIsUnreachable == Spec => []NoUseAfterDelete
<1>1. IInv => NoUseAfterDelete
  <2> SUFFICES ASSUME IInv, NEW t \in deleted
               PROVE  /\ t # currentThread /\ t # threadToBeDestroyed
                      /\ t \notin Elems(readyList)
                      /\ \A s \in Sems : t \notin Elems(queue[s])
    BY DEF NoUseAfterDelete
  <2>1. t \in Threads /\ pc[t] = "dead" /\ t # threadToBeDestroyed
    BY DEF IInv, TypeOK, Placed, CarcassesAreDead
  <2>2. t # currentThread
    BY <2>1 DEF IInv, Placed, OneProcessor, OnProcessor
  <2>3. t \notin Elems(readyList)
    BY <2>1 DEF IInv, Placed, StatusFollowsPc, ReadyListExact
  <2>4. \A s \in Sems : t \notin Elems(queue[s])
    BY <2>1 DEF IInv, Placed, WaitersExact
  <2> QED BY <2>1, <2>2, <2>3, <2>4
<1> QED BY <1>1, Invariance, PTL

-----------------------------------------------------------------------------
(* A thread is inside a P exactly when it is in the code of P, or in the   *)
(* Sleep that P calls; the other Sleep is the one of Finish.               *)
InP == {"test", "sleep", "idle", "blocked"}

OnSemExact ==
    \A t \in Threads :
        /\ onSem[t] # NULL => pc[t] \in InP /\ t # threadToBeDestroyed
        /\ pc[t] \in InP => onSem[t] # NULL \/ t = threadToBeDestroyed

RInv == IInv /\ OnSemExact

-----------------------------------------------------------------------------
(* Scheduler::Run never resumes a thread inside P that called no P, and    *)
(* the carcass it deletes is no longer in Sleep.                           *)
LEMMA RunOnSem ==
    ASSUME RInv, NEW t \in Threads, t = currentThread, readyList # <<>>,
           NEW st, NEW away, Run(t, Head(readyList), st, away),
           \/ pc[t] \in {"run", "enable"} /\ away = "yielded"
           \/ /\ pc[t] = "sleep"
              /\ away = IF threadToBeDestroyed = t THEN "dead" ELSE "blocked",
           UNCHANGED onSem
    PROVE  OnSemExact'
<1> DEFINE next == Head(readyList)
<1>1. /\ next \in Threads
      /\ pc[next] \in {"startup", "yielded", "blocked", "sleep", "idle"}
      /\ pc[next] \in {"sleep", "idle"} => next = currentThread
      /\ next # threadToBeDestroyed
  BY NextToRun DEF RInv
<1>2. \A x \in Threads : pc'[x] = IF x = next
                                  THEN IF pc[x] \in {"startup", "yielded"}
                                       THEN "enable" ELSE "test"
                                  ELSE IF x = t THEN away ELSE pc[x]
  BY <1>1 DEF Run, Resume, RInv, IInv, TypeOK
<1>3. threadToBeDestroyed' \in {threadToBeDestroyed, NULL}
  BY DEF Run, DeleteCarcass
<1> HIDE DEF next
<1>4. \A x \in Threads : x = threadToBeDestroyed /\ x # t => pc[x] = "dead"
  BY NullAssumption
     DEF RInv, IInv, Placed, CarcassesAreDead, OneProcessor, OnProcessor
<1> SUFFICES ASSUME NEW x \in Threads
             PROVE  /\ onSem[x] # NULL => pc'[x] \in InP /\ x # threadToBeDestroyed'
                    /\ pc'[x] \in InP => onSem[x] # NULL \/ x = threadToBeDestroyed'
  BY DEF OnSemExact
<1>5. CASE x = next
  BY <1>1, <1>2, <1>3, <1>5, NullAssumption DEF RInv, OnSemExact, InP
<1>6. CASE x # next /\ x = t
  BY <1>1, <1>2, <1>3, <1>6, NullAssumption DEF RInv, OnSemExact, InP
<1>7. CASE x # next /\ x # t
  BY <1>1, <1>2, <1>3, <1>4, <1>7, NullAssumption DEF RInv, OnSemExact, InP
<1> QED BY <1>5, <1>6, <1>7

(* A step in which no thread is switched: what the running thread's place  *)
(* says of onSem stays true.                                               *)
LEMMA StayOnSem ==
    ASSUME RInv, NEW t \in Threads, NEW p, pc' = [pc EXCEPT ![t] = p],
           \A x \in Threads : x # t => onSem'[x] = onSem[x],
           UNCHANGED threadToBeDestroyed,
           \/ onSem'[t] = onSem[t] /\ (pc[t] \in InP <=> p \in InP)
           \/ onSem'[t] = NULL /\ p \notin InP
           \/ onSem'[t] # NULL /\ p \in InP /\ t # threadToBeDestroyed
    PROVE  OnSemExact'
  BY DEF RInv, IInv, TypeOK, OnSemExact

(* Every operation keeps the record of who is inside P exact. *)
LEMMA NextOnSem == RInv /\ [Next]_vars => OnSemExact'
<1> SUFFICES ASSUME RInv, [Next]_vars PROVE OnSemExact'
  OBVIOUS
<1>0. TypeOK /\ IInv
  BY DEF RInv, IInv
<1>1. ASSUME NEW t \in Threads, NEW u \in Threads, Fork(t, u) PROVE OnSemExact'
  <2>1. /\ pc[t] = "run" /\ pc[u] = "created" /\ UNCHANGED <<onSem, threadToBeDestroyed>>
        /\ pc' = [pc EXCEPT ![u] = "startup", ![t] = "enable"]
    BY <1>1 DEF Fork, Running
  <2> QED BY <1>0, <2>1 DEF RInv, TypeOK, OnSemExact, InP
<1>2. ASSUME NEW t \in Threads, NEW s \in Sems, P(t, s) PROVE OnSemExact'
  <2>1. /\ pc' = [pc EXCEPT ![t] = "test"] /\ UNCHANGED threadToBeDestroyed
        /\ onSem' = [onSem EXCEPT ![t] = s] /\ s # NULL /\ pc[t] = "run"
    BY <1>2, NullAssumption DEF P, Running
  <2>2. t # threadToBeDestroyed
    BY <2>1, NullAssumption DEF RInv, IInv, Placed, CarcassesAreDead
  <2> QED BY <1>0, <2>1, <2>2, StayOnSem DEF TypeOK, InP
<1>3. ASSUME NEW t \in Threads, NEW s \in Sems, V(t, s) PROVE OnSemExact'
  BY <1>3, StayOnSem DEF V, Running, InP
<1>4. ASSUME NEW t \in Threads, NEW s \in Sems, Destroy(t, s) PROVE OnSemExact'
  BY <1>4, StayOnSem DEF Destroy, Running, InP
<1>5. ASSUME NEW t \in Threads, DoYield(t), t = currentThread,
             pc[t] \in {"run", "enable"}, UNCHANGED onSem
      PROVE  OnSemExact'
  <2>1. CASE readyList = <<>>
    BY <1>5, <2>1, StayOnSem DEF DoYield, InP
  <2>2. CASE readyList # <<>>
    BY <1>5, <2>2, RunOnSem DEF DoYield
  <2> QED BY <2>1, <2>2
<1>6. ASSUME NEW t \in Threads, Yield(t) PROVE OnSemExact'
  BY <1>5, <1>6 DEF Yield, Running
<1>7. ASSUME NEW t \in Threads, Finish(t) PROVE OnSemExact'
  <2>1. /\ threadToBeDestroyed' = t /\ pc[t] = "run" /\ UNCHANGED onSem
        /\ pc' = [pc EXCEPT ![t] = "sleep"] /\ currentThread = t
    BY <1>7 DEF Finish, Running
  <2>2. \A x \in Threads : x = threadToBeDestroyed /\ x # t => pc[x] = "dead"
    BY <2>1, NullAssumption
       DEF RInv, IInv, Placed, CarcassesAreDead, OneProcessor, OnProcessor
  <2> QED BY <1>0, <2>1, <2>2 DEF RInv, TypeOK, OnSemExact, InP
<1>8. ASSUME NEW t \in Threads, NEW d \in Devices, StartIO(t, d) PROVE OnSemExact'
  BY <1>8 DEF StartIO, RInv, OnSemExact
<1>9. ASSUME NEW t \in Threads, PTest(t) PROVE OnSemExact'
  <2>1. pc[t] = "test" /\ UNCHANGED threadToBeDestroyed
    BY <1>9 DEF PTest
  <2>2. CASE value[onSem[t]] = 0
    BY <1>9, <2>1, <2>2, StayOnSem DEF PTest, InP
  <2>3. CASE value[onSem[t]] # 0
    <3>1. pc' = [pc EXCEPT ![t] = "enable"] /\ onSem' = [onSem EXCEPT ![t] = NULL]
      BY <1>9, <2>3 DEF PTest
    <3> QED BY <1>0, <2>1, <3>1, StayOnSem DEF TypeOK, InP
  <2> QED BY <2>2, <2>3
<1>10. ASSUME NEW t \in Threads, TickDone(t) PROVE OnSemExact'
  <2>1. CASE yieldOnReturn
    BY <1>5, <1>10, <2>1 DEF TickDone
  <2>2. CASE ~yieldOnReturn
    BY <1>10, <2>2, StayOnSem DEF TickDone, InP
  <2> QED BY <2>1, <2>2
<1>11. ASSUME NEW t \in Threads, Sleep(t) PROVE OnSemExact'
  BY <1>11, RunOnSem DEF Sleep
<1>12. ASSUME NEW t \in Threads, IdleDone(t) PROVE OnSemExact'
  BY <1>12, StayOnSem DEF IdleDone, InP
<1>13. ASSUME NEW t \in Threads, Halt(t) PROVE OnSemExact'
  BY <1>13 DEF Halt, RInv, OnSemExact
<1>14. ASSUME NEW t \in Threads, NEW i \in Devices \union {Timer}, TickFire(t, i)
       PROVE  OnSemExact'
  BY <1>14 DEF TickFire, RInv, OnSemExact
<1>15. ASSUME NEW t \in Threads, NEW i \in Devices \union {Timer}, IdleFire(t, i)
       PROVE  OnSemExact'
  BY <1>15, StayOnSem DEF IdleFire, InP
<1>16. ASSUME UNCHANGED vars PROVE OnSemExact'
  BY <1>16 DEF vars, RInv, OnSemExact
<1> QED BY <1>1, <1>2, <1>3, <1>4, <1>6, <1>7, <1>8, <1>9, <1>10, <1>11,
           <1>12, <1>13, <1>14, <1>15, <1>16 DEF Next, Call, Step, Fire, Halted

(* In every state a thread has onSem set exactly while it is inside P. *)
THEOREM RefinementInvariant == Spec => []RInv
<1>1. Init => RInv
  BY InitType, InitPlaced DEF Init, RInv, IInv, OnSemExact, InP
<1>2. RInv /\ [Next]_vars => RInv'
  BY NextType, NextPlaced, NextOnSem DEF RInv, IInv
<1> QED BY <1>1, <1>2, PTL DEF Spec

-----------------------------------------------------------------------------
(* A step that changes neither value nor onSem is not seen. *)
LEMMA Unseen ==
    ASSUME UNCHANGED <<value, onSem>>
    PROVE  UNCHANGED Semaphore!vars
  BY DEF Semaphore!vars, Waiting

(* Semaphore::V by a thread or a handler is the V of the specification. *)
LEMMA SignalIsV ==
    ASSUME NEW s \in Sems, Signal(s), UNCHANGED onSem
    PROVE  Semaphore!Next
  BY DEF Signal, Semaphore!Next, Semaphore!V, Waiting

(* The P of a running thread enters the semaphore. *)
LEMMA PIsEnter ==
    ASSUME RInv, NEW t \in Threads, NEW s \in Sems, P(t, s)
    PROVE  Semaphore!Next
<1>1. onSem[t] = NULL /\ onSem' = [onSem EXCEPT ![t] = s] /\ UNCHANGED value
  BY DEF P, Running, semVars, RInv, OnSemExact, InP
<1>2. \A r \in Sems : t \notin Waiting[r]
  BY <1>1, NullAssumption DEF Waiting
<1>3. Waiting' = [Waiting EXCEPT ![s] = @ \union {t}]
  <2>1. \A r \in Sems : Waiting'[r] = IF r = s THEN Waiting[r] \union {t} ELSE Waiting[r]
    BY <1>1, <1>2 DEF Waiting, RInv, IInv, TypeOK
  <2> QED BY <2>1 DEF Waiting
<1>4. Semaphore!Enter(t, s)
  BY <1>1, <1>2, <1>3 DEF Semaphore!Enter
<1> QED BY <1>4 DEF Semaphore!Next

(* The test that lets a thread through takes one unit of a positive value. *)
LEMMA PTestIsLeave ==
    ASSUME RInv, NEW t \in Threads, PTest(t), value[onSem[t]] # 0
    PROVE  Semaphore!Next
<1> DEFINE s == onSem[t]
<1>1. /\ value' = [value EXCEPT ![s] = @ - 1]
      /\ onSem' = [onSem EXCEPT ![t] = NULL] /\ pc[t] = "test"
  BY DEF PTest
<1>2. s \in Sems
  <2>1. t # threadToBeDestroyed
    BY <1>1, NullAssumption DEF RInv, IInv, Placed, CarcassesAreDead
  <2> QED BY <1>1, <2>1 DEF RInv, IInv, TypeOK, OnSemExact, InP
<1> HIDE DEF s
<1>3. t \in Waiting[s] /\ value[s] > 0
  BY <1>2 DEF Waiting, RInv, IInv, TypeOK, s
<1>4. Waiting' = [Waiting EXCEPT ![s] = @ \ {t}]
  <2>1. \A x \in Threads : onSem'[x] = IF x = t THEN NULL ELSE onSem[x]
    BY <1>1 DEF RInv, IInv, TypeOK
  <2>2. onSem[t] = s /\ NULL \notin Sems
    BY NullAssumption DEF s
  <2>3. \A r \in Sems : Waiting'[r] = IF r = s THEN Waiting[r] \ {t} ELSE Waiting[r]
    BY <1>2, <2>1, <2>2 DEF Waiting
  <2> QED BY <2>3, <1>2 DEF Waiting
<1>5. Semaphore!Leave(t, s)
  BY <1>1, <1>3, <1>4 DEF Semaphore!Leave
<1> QED BY <1>2, <1>5 DEF Semaphore!Next

(* Every step of the kernel is a step of the specification, or unseen. *)
LEMMA StepRefines == RInv /\ [Next]_vars => [Semaphore!Next]_(Semaphore!vars)
<1> SUFFICES ASSUME RInv, [Next]_vars PROVE Semaphore!Next \/ UNCHANGED Semaphore!vars
  OBVIOUS
<1>1. ASSUME NEW t \in Threads, Call(t)
      PROVE  Semaphore!Next \/ UNCHANGED Semaphore!vars
  <2>1. ASSUME NEW u \in Threads, Fork(t, u) PROVE UNCHANGED <<value, onSem>>
    BY <2>1 DEF Fork, semVars
  <2>2. ASSUME NEW s \in Sems, V(t, s) PROVE Signal(s) /\ UNCHANGED onSem
    BY <2>2 DEF V
  <2>3. ASSUME NEW s \in Sems, Destroy(t, s) PROVE UNCHANGED <<value, onSem>>
    BY <2>3 DEF Destroy
  <2>4. ASSUME Yield(t) \/ Finish(t) PROVE UNCHANGED <<value, onSem>>
    BY <2>4 DEF Yield, Finish, semVars
  <2> QED BY <1>1, <2>1, <2>2, <2>3, <2>4, PIsEnter, SignalIsV, Unseen DEF Call
<1>2. ASSUME NEW t \in Threads, Step(t)
      PROVE  Semaphore!Next \/ UNCHANGED Semaphore!vars
  <2>1. ASSUME PTest(t), value[onSem[t]] = 0 PROVE UNCHANGED <<value, onSem>>
    BY <2>1 DEF PTest
  <2>2. ASSUME TickDone(t) \/ Sleep(t) \/ IdleDone(t) \/ Halt(t)
        PROVE  UNCHANGED <<value, onSem>>
    BY <2>2 DEF TickDone, Sleep, IdleDone, Halt, semVars
  <2> QED BY <1>2, <2>1, <2>2, PTestIsLeave, Unseen DEF Step
<1>3. ASSUME NEW t \in Threads, NEW d \in Devices, StartIO(t, d)
      PROVE  UNCHANGED Semaphore!vars
  BY <1>3, Unseen DEF StartIO, semVars
<1>4. ASSUME NEW i \in Devices \union {Timer}, Fire(i)
      PROVE  Semaphore!Next \/ UNCHANGED Semaphore!vars
  <2>1. Handler(i) /\ UNCHANGED onSem
    BY <1>4 DEF Fire, TickFire, IdleFire
  <2>2. CASE i = Timer
    BY <2>1, <2>2, Unseen DEF Handler
  <2>3. CASE i # Timer
    <3>1. DeviceSem[i] \in Sems /\ Signal(DeviceSem[i])
      BY <2>1, <2>3, DeviceAssumption DEF Handler
    <3> QED BY <2>1, <3>1, SignalIsV
  <2> QED BY <2>2, <2>3
<1>5. ASSUME UNCHANGED vars PROVE UNCHANGED Semaphore!vars
  BY <1>5, Unseen DEF vars
<1> QED BY <1>1, <1>2, <1>3, <1>4, <1>5 DEF Next, Halted

(* Whatever the switches and the interrupts in between, the semaphores of  *)
(* threads/synch.cc are counting semaphores: P takes one unit of a         *)
(* positive value, V adds one, nothing else touches the value.             *)
THEOREM SemaphoresCount == Spec => ImplementsSemaphore
<1>1. Init => Semaphore!Init
  BY NullAssumption DEF Init, Semaphore!Init, Waiting
<1>2. RInv /\ [Next]_vars => [Semaphore!Next]_(Semaphore!vars)
  BY StepRefines
<1> QED BY <1>1, <1>2, RefinementInvariant, PTL
        DEF Spec, ImplementsSemaphore, Semaphore!Spec

-----------------------------------------------------------------------------
(* A thread blocked inside P is on the queue of that semaphore. *)
BlockedIsQueued ==
    \A t \in Threads : status[t] = "BLOCKED" /\ onSem[t] # NULL
                           => t \in Elems(queue[onSem[t]])

WInv == RInv /\ BlockedIsQueued /\ NoLostWakeup

-----------------------------------------------------------------------------
(* The threads awake inside a P are finitely many. *)
LEMMA WokenFinite ==
    ASSUME NEW s \in Sems
    PROVE  IsFiniteSet(Woken(s)) /\ Cardinality(Woken(s)) \in Nat
  BY FS_Subset, FS_CardinalityType, ThreadsAssumption DEF Woken

(* A step that changes no value, no queue and nobody's onSem, and blocks   *)
(* no thread that is inside P, keeps every wake-up.                        *)
LEMMA QuietKeeps ==
    ASSUME WInv, UNCHANGED <<value, queue, onSem>>,
           \A x \in Threads :
               status'[x] = "BLOCKED" /\ onSem[x] # NULL => status[x] = "BLOCKED"
    PROVE  BlockedIsQueued' /\ NoLostWakeup'
<1>1. BlockedIsQueued'
  BY DEF WInv, BlockedIsQueued
<1>2. NoLostWakeup'
  BY DEF WInv, NoLostWakeup, Woken
<1> QED BY <1>1, <1>2

(* V by a thread or a handler: one more unit, one more thread awake. *)
LEMMA SignalKeeps ==
    ASSUME WInv, NEW s \in Sems, Signal(s), UNCHANGED onSem
    PROVE  BlockedIsQueued' /\ NoLostWakeup'
<1> USE DEF WInv, RInv, IInv
<1>1. Wake(s) /\ value' = [value EXCEPT ![s] = @ + 1]
  BY DEF Signal
<1>2. CASE queue[s] = <<>>
  <2>1. UNCHANGED <<queue, status>>
    BY <1>1, <1>2 DEF Wake
  <2>2. BlockedIsQueued'
    BY <2>1 DEF BlockedIsQueued
  <2>3. \A r \in Sems : r # s => value'[r] = value[r]
    BY <1>1 DEF TypeOK
  <2>4. NoLostWakeup'
    BY <1>2, <2>1, <2>3 DEF NoLostWakeup, Woken
  <2> QED BY <2>2, <2>4
<1>3. CASE queue[s] # <<>>
  <2>1. PICK waiter \in Threads : Woke(s, waiter)
    BY <1>1, <1>3, WakeMoves
  <2>2. BlockedIsQueued'
    <3>1. \A x \in Threads : status'[x] = "BLOCKED" => x # waiter /\ status[x] = "BLOCKED"
      BY <2>1 DEF Woke, TypeOK
    <3> QED BY <2>1, <3>1 DEF Woke, BlockedIsQueued, TypeOK
  <2>3. NoLostWakeup'
    <3> SUFFICES ASSUME NEW r \in Sems, queue'[r] # <<>>
                 PROVE  Cardinality(Woken(r)') >= value'[r]
      BY DEF NoLostWakeup, Woken
    <3>1. queue[r] # <<>>
      <4>1. CASE r = s
        BY <1>3, <4>1
      <4>2. CASE r # s
        BY <1>1, <1>3, <4>2 DEF Wake, TypeOK
      <4> QED BY <4>1, <4>2
    <3>2. Cardinality(Woken(r)) >= value[r]
      BY <3>1 DEF NoLostWakeup
    <3>3. CASE r = s
      <4>1. Woken(r)' = Woken(r) \union {waiter} /\ waiter \notin Woken(r)
        BY <2>1, <3>3 DEF Woke, Woken
      <4>2. Cardinality(Woken(r)') = Cardinality(Woken(r)) + 1
        BY <4>1, WokenFinite, FS_AddElement
      <4>3. value'[r] = value[r] + 1 /\ value[r] \in Nat
        BY <1>1, <3>3 DEF TypeOK
      <4> QED BY <3>2, <4>2, <4>3, WokenFinite
    <3>4. CASE r # s
      <4>1. Woken(r)' = Woken(r)
        BY <2>1, <3>4 DEF Woke, Woken
      <4>2. value'[r] = value[r]
        BY <1>1, <3>4 DEF TypeOK
      <4> QED BY <3>2, <4>1, <4>2
    <3> QED BY <3>3, <3>4
  <2> QED BY <2>2, <2>3
<1> QED BY <1>2, <1>3

(* A thread that enters P is one more that will test the value. *)
LEMMA PKeeps ==
    ASSUME WInv, NEW t \in Threads, NEW s \in Sems, P(t, s)
    PROVE  BlockedIsQueued' /\ NoLostWakeup'
<1> USE DEF WInv, RInv, IInv
<1>1. /\ onSem[t] = NULL /\ onSem' = [onSem EXCEPT ![t] = s]
      /\ UNCHANGED <<value, queue, status>> /\ status[t] = "RUNNING"
  BY DEF P, Running, semVars, OnSemExact, InP, Placed, StatusFollowsPc
<1>2. BlockedIsQueued'
  BY <1>1 DEF BlockedIsQueued, TypeOK
<1>3. \A r \in Sems : t \notin Elems(queue[r])
  BY <1>1 DEF Placed, WaitersExact
<1>4. \A r \in Sems : Woken(r)' = IF r = s THEN Woken(r) \union {t} ELSE Woken(r)
  BY <1>1, <1>3, NullAssumption DEF Woken, TypeOK
<1>5. \A r \in Sems : Cardinality(Woken(r)') >= Cardinality(Woken(r))
  <2> TAKE r \in Sems
  <2>1. IsFiniteSet(Woken(r)) /\ Cardinality(Woken(r)) \in Nat
    BY WokenFinite
  <2>2. CASE r = s
    <3>1. \/ Cardinality(Woken(r) \union {t}) = Cardinality(Woken(r))
          \/ Cardinality(Woken(r) \union {t}) = Cardinality(Woken(r)) + 1
      BY <2>1, FS_AddElement
    <3>2. Woken(r)' = Woken(r) \union {t}
      BY <1>4, <2>2
    <3> QED BY <2>1, <3>1, <3>2
  <2>3. CASE r # s
    <3>1. Woken(r)' = Woken(r)
      BY <1>4, <2>3
    <3> QED BY <2>1, <3>1
  <2> QED BY <2>2, <2>3
<1>6. NoLostWakeup'
  <2> SUFFICES ASSUME NEW r \in Sems, queue'[r] # <<>>
               PROVE  Cardinality(Woken(r)') >= value'[r]
    BY DEF NoLostWakeup, Woken
  <2>1. Cardinality(Woken(r)) >= value[r] /\ value'[r] = value[r]
    BY <1>1 DEF NoLostWakeup
  <2>2. /\ Cardinality(Woken(r)) \in Nat /\ Cardinality(Woken(r)') \in Nat
        /\ value[r] \in Nat
    BY <1>4, WokenFinite, FS_AddElement, FS_CardinalityType DEF TypeOK
  <2> QED BY <1>5, <2>1, <2>2
<1> QED BY <1>2, <1>6

(* The test in P: the thread takes the unit it was woken for, or blocks    *)
(* because there is none.                                                  *)
LEMMA PTestKeeps ==
    ASSUME WInv, NEW t \in Threads, PTest(t)
    PROVE  BlockedIsQueued' /\ NoLostWakeup'
<1> USE DEF WInv, RInv, IInv
<1> DEFINE s == onSem[t]
<1>1. /\ pc[t] = "test" /\ status[t] = "RUNNING" /\ t # threadToBeDestroyed
      /\ \A r \in Sems : t \notin Elems(queue[r])
  BY NullAssumption
     DEF PTest, Placed, StatusFollowsPc, WaitersExact, CarcassesAreDead
<1>2. s \in Sems
  BY <1>1 DEF TypeOK, OnSemExact, InP
<1>3. CASE value[s] = 0
  <2>1. /\ queue' = [queue EXCEPT ![s] = Append(queue[s], t)]
        /\ status' = [status EXCEPT ![t] = "BLOCKED"] /\ UNCHANGED <<value, onSem>>
    BY <1>3 DEF PTest
  <2>2. \A r \in Sems : Elems(queue'[r]) = IF r = s THEN Elems(queue[r]) \union {t}
                                           ELSE Elems(queue[r])
    <3>1. IInv
      OBVIOUS
    <3> HIDE DEF WInv, RInv, IInv, s
    <3> TAKE r \in Sems
    <3>2. queue' = [queue EXCEPT ![s] = Append(queue[s], t)]
      BY <2>1
    <3>3. \A q \in Sems : t \notin Elems(queue[q])
      BY <1>1
    <3> QED BY <3>1, <3>2, <3>3, JoinQueue, Zenon
  <2>3. BlockedIsQueued'
    <3> SUFFICES ASSUME NEW x \in Threads, status'[x] = "BLOCKED", onSem[x] # NULL
                 PROVE  x \in Elems(queue'[onSem[x]])
      BY <2>1 DEF BlockedIsQueued
    <3>1. onSem[x] \in Sems
      BY DEF TypeOK
    <3>2. CASE x = t
      BY <1>2, <2>2, <3>2
    <3>3. CASE x # t
      <4>1. x \in Elems(queue[onSem[x]])
        BY <2>1, <3>3 DEF BlockedIsQueued, TypeOK
      <4> QED BY <2>2, <3>1, <4>1
    <3> QED BY <3>2, <3>3
  <2>4. NoLostWakeup'
    <3> SUFFICES ASSUME NEW r \in Sems, queue'[r] # <<>>
                 PROVE  Cardinality(Woken(r)') >= value'[r]
      BY DEF NoLostWakeup, Woken
    <3>1. CASE r = s
      <4>1. Cardinality(Woken(r)') \in Nat
        <5>1. Woken(r)' \in SUBSET Threads
          BY DEF Woken
        <5> QED BY <5>1, FS_Subset, FS_CardinalityType, ThreadsAssumption
      <4>2. value'[r] = 0
        BY <1>3, <2>1, <3>1
      <4> QED BY <4>1, <4>2
    <3>2. CASE r # s
      <4>1. queue'[r] = queue[r] /\ Woken(r)' = Woken(r)
        BY <2>1, <3>2 DEF Woken, TypeOK
      <4> QED BY <2>1, <4>1 DEF NoLostWakeup
    <3> QED BY <3>1, <3>2
  <2> QED BY <2>3, <2>4
<1>4. CASE value[s] # 0
  <2>1. /\ value' = [value EXCEPT ![s] = @ - 1]
        /\ onSem' = [onSem EXCEPT ![t] = NULL] /\ UNCHANGED <<queue, status>>
    BY <1>4 DEF PTest
  <2>2. BlockedIsQueued'
    BY <1>1, <2>1 DEF BlockedIsQueued, TypeOK
  <2>3. NoLostWakeup'
    <3> SUFFICES ASSUME NEW r \in Sems, queue[r] # <<>>
                 PROVE  Cardinality(Woken(r)') >= value'[r]
      BY <2>1 DEF NoLostWakeup, Woken
    <3>1. Cardinality(Woken(r)) >= value[r] /\ value[r] \in Nat
      BY DEF NoLostWakeup, TypeOK
    <3>2. CASE r = s
      <4>1. Woken(r)' = Woken(r) \ {t} /\ t \in Woken(r)
        BY <1>1, <1>2, <2>1, <3>2, NullAssumption DEF Woken, TypeOK
      <4>2. Cardinality(Woken(r)') = Cardinality(Woken(r)) - 1
        BY <4>1, WokenFinite, FS_RemoveElement
      <4>3. value'[r] = value[r] - 1
        BY <1>2, <2>1, <3>2 DEF TypeOK
      <4> QED BY <3>1, <4>2, <4>3, WokenFinite
    <3>3. CASE r # s
      <4>1. Woken(r)' = Woken(r)
        BY <1>2, <2>1, <3>3, NullAssumption DEF Woken, TypeOK
      <4>2. value'[r] = value[r]
        BY <1>2, <2>1, <3>3 DEF TypeOK
      <4> QED BY <3>1, <4>1, <4>2
    <3> QED BY <3>2, <3>3
  <2> QED BY <2>2, <2>3
<1> QED BY <1>3, <1>4

(* Destroy wakes everybody on s, so that nobody is left asleep there. *)
LEMMA DestroyKeeps ==
    ASSUME WInv, NEW t \in Threads, NEW s \in Sems, Destroy(t, s)
    PROVE  BlockedIsQueued' /\ NoLostWakeup'
<1> USE DEF WInv, RInv, IInv
<1>1. /\ queue' = [queue EXCEPT ![s] = <<>>]
      /\ status' = [x \in Threads |->
                        IF x \in Elems(queue[s]) THEN "READY" ELSE status[x]]
      /\ UNCHANGED <<value, onSem>>
  BY DEF Destroy
<1>2. \A r \in Sems : Elems(queue'[r]) = IF r = s THEN {} ELSE Elems(queue[r])
  BY <1>1, EmptyQueue
<1>3. BlockedIsQueued'
  BY <1>1, <1>2 DEF BlockedIsQueued, TypeOK
<1>4. NoLostWakeup'
  <2> SUFFICES ASSUME NEW r \in Sems, queue'[r] # <<>>
               PROVE  Cardinality(Woken(r)') >= value'[r]
    BY DEF NoLostWakeup, Woken
  <2>1. r # s /\ queue'[r] = queue[r]
    BY <1>1 DEF TypeOK
  <2>2. Woken(r)' = Woken(r)
    BY <1>1, <2>1 DEF Woken
  <2> QED BY <1>1, <2>1, <2>2 DEF NoLostWakeup
<1> QED BY <1>3, <1>4

(* Every operation keeps every wake-up. *)
LEMMA NextKeeps == WInv /\ [Next]_vars => BlockedIsQueued' /\ NoLostWakeup'
<1> SUFFICES ASSUME WInv, [Next]_vars PROVE BlockedIsQueued' /\ NoLostWakeup'
  OBVIOUS
<1> DEFINE Quiet == /\ UNCHANGED <<value, queue, onSem>>
                    /\ \A x \in Threads : status'[x] = "BLOCKED" /\ onSem[x] # NULL
                                             => status[x] = "BLOCKED"
<1>0. Quiet => BlockedIsQueued' /\ NoLostWakeup'
  BY QuietKeeps
<1>1. ASSUME NEW t \in Threads, NEW u \in Threads, Fork(t, u) PROVE Quiet
  BY <1>1 DEF Fork, semVars, WInv, RInv, IInv, TypeOK
<1>2. ASSUME NEW t \in Threads, DoYield(t), UNCHANGED <<value, queue, onSem>>
      PROVE  Quiet
  <2>1. CASE readyList = <<>>
    BY <1>2, <2>1 DEF DoYield
  <2>2. CASE readyList # <<>>
    <3>1. /\ Head(readyList) \in Threads
          /\ status' = [status EXCEPT ![t] = "READY", ![Head(readyList)] = "RUNNING"]
      BY <1>2, <2>2, NextToRun DEF DoYield, Run, WInv, RInv
    <3> QED BY <1>2, <3>1 DEF WInv, RInv, IInv, TypeOK
  <2> QED BY <2>1, <2>2
<1>3. ASSUME NEW t \in Threads, Yield(t) PROVE Quiet
  BY <1>2, <1>3 DEF Yield, semVars
<1>4. ASSUME NEW t \in Threads, Finish(t) PROVE Quiet
  <2>1. onSem[t] = NULL
    BY <1>4 DEF Finish, Running, WInv, RInv, OnSemExact, InP
  <2> QED BY <1>4, <2>1 DEF Finish, semVars, WInv, RInv, IInv, TypeOK
<1>5. ASSUME NEW t \in Threads, NEW d \in Devices, StartIO(t, d) PROVE Quiet
  BY <1>5 DEF StartIO, semVars
<1>6. ASSUME NEW t \in Threads, TickDone(t) PROVE Quiet
  <2>1. UNCHANGED <<value, queue, onSem>>
    BY <1>6 DEF TickDone, semVars
  <2>2. CASE yieldOnReturn
    BY <1>2, <1>6, <2>1, <2>2 DEF TickDone
  <2>3. CASE ~yieldOnReturn
    BY <1>6, <2>1, <2>3 DEF TickDone
  <2> QED BY <2>2, <2>3
<1>7. ASSUME NEW t \in Threads, Sleep(t) PROVE Quiet
  <2>1. /\ Head(readyList) \in Threads
        /\ status' = [status EXCEPT ![t] = status[t], ![Head(readyList)] = "RUNNING"]
    BY <1>7, NextToRun DEF Sleep, Run, WInv, RInv
  <2> QED BY <1>7, <2>1 DEF Sleep, semVars, WInv, RInv, IInv, TypeOK
<1>8. ASSUME NEW t \in Threads, IdleDone(t) \/ Halt(t) PROVE Quiet
  BY <1>8 DEF IdleDone, Halt, semVars
<1>9. ASSUME NEW i \in Devices \union {Timer}, Fire(i)
      PROVE  BlockedIsQueued' /\ NoLostWakeup'
  <2>1. Handler(i) /\ UNCHANGED onSem
    BY <1>9 DEF Fire, TickFire, IdleFire
  <2>2. CASE i = Timer
    BY <1>0, <2>1, <2>2 DEF Handler
  <2>3. CASE i # Timer
    <3>1. DeviceSem[i] \in Sems /\ Signal(DeviceSem[i])
      BY <2>1, <2>3, DeviceAssumption DEF Handler
    <3> QED BY <2>1, <3>1, SignalKeeps
  <2> QED BY <2>2, <2>3
<1>10. ASSUME NEW t \in Threads, NEW s \in Sems, V(t, s)
       PROVE  BlockedIsQueued' /\ NoLostWakeup'
  BY <1>10, SignalKeeps DEF V
<1>11. ASSUME UNCHANGED vars PROVE Quiet
  BY <1>11 DEF vars
<1> HIDE DEF Quiet
<1> QED BY <1>0, <1>1, <1>3, <1>4, <1>5, <1>6, <1>7, <1>8, <1>9, <1>10, <1>11,
           PKeeps, PTestKeeps, DestroyKeeps DEF Next, Call, Step, Halted

(* Before the first step nobody is blocked. *)
LEMMA InitKeeps == Init => BlockedIsQueued /\ NoLostWakeup
<1>1. Init => BlockedIsQueued
  BY DEF Init, BlockedIsQueued
<1>2. Init => NoLostWakeup
  BY DEF Init, NoLostWakeup
<1> QED BY <1>1, <1>2

(* The invariant behind the wake-ups holds in every state. *)
THEOREM WakeupInvariant == Spec => []WInv
<1>1. Init => WInv
  BY InitType, InitPlaced, InitKeeps, NullAssumption
     DEF Init, WInv, RInv, IInv, OnSemExact, InP
<1>2. WInv /\ [Next]_vars => WInv'
  BY NextType, NextPlaced, NextOnSem, NextKeeps DEF WInv, RInv, IInv
<1> QED BY <1>1, <1>2, PTL DEF Spec

(* For any finite number of threads: while threads sleep on a semaphore,   *)
(* there is an awake thread inside P for every unit of its value, although *)
(* V wakes a thread before it increments and others may take the value.    *)
THEOREM WakeupsAreKept == Spec => []NoLostWakeup
<1>1. WInv => NoLostWakeup
  BY DEF WInv
<1> QED BY <1>1, WakeupInvariant, PTL

-----------------------------------------------------------------------------
(* Once halted the machine stays in Sleep, where Halt was called, and the  *)
(* threads are stuck.                                                      *)
HaltInv ==
    WInv /\ HaltOnlyWhenStuck /\ (mode = "Halted" => pc[currentThread] = "sleep")

(* When Idle finds the ready list empty and nothing pending, a thread that *)
(* is inside P is asleep on a semaphore without value: if it had value, an *)
(* awake thread inside that P would be ready.                              *)
LEMMA HaltIsStuck ==
    ASSUME WInv, NEW t \in Threads, Halt(t)
    PROVE  HaltOnlyWhenStuck'
<1> USE DEF WInv, RInv, IInv
<1>1. /\ currentThread = t /\ pc[t] = "sleep" /\ readyList = <<>>
      /\ pending \subseteq {Timer}
      /\ UNCHANGED <<status, threadToBeDestroyed, pending, value, queue, pc, onSem>>
  BY DEF Halt, semVars
<1>2. \A x \in Threads : status[x] # "READY"
  BY <1>1, EmptyElems DEF Placed, ReadyListExact
<1>3. \A x \in Threads : onSem[x] # NULL =>
          /\ onSem[x] \in Sems /\ status[x] = "BLOCKED"
          /\ x \in Elems(queue[onSem[x]])
  <2> SUFFICES ASSUME NEW x \in Threads, onSem[x] # NULL
               PROVE  /\ onSem[x] \in Sems /\ status[x] = "BLOCKED"
                      /\ x \in Elems(queue[onSem[x]])
    OBVIOUS
  <2>1. pc[x] \in {"sleep", "idle", "blocked"}
    BY <1>1 DEF OnSemExact, InP, Placed, OneProcessor, OnProcessor
  <2>2. status[x] = "BLOCKED"
    BY <1>2, <2>1 DEF Placed, StatusFollowsPc
  <2> QED BY <2>2 DEF BlockedIsQueued, TypeOK
<1>4. \A s \in Sems : Woken(s) = {}
  BY <1>3, NullAssumption DEF Woken
<1>5. \A s \in Sems : queue[s] # <<>> => value[s] = 0
  <2> TAKE s \in Sems
  <2>1. Cardinality(Woken(s)) = 0 /\ value[s] \in Nat
    BY <1>4, FS_EmptySet DEF TypeOK
  <2> QED BY <2>1 DEF NoLostWakeup
<1>6. ASSUME NEW x \in Threads
      PROVE  \/ status[x] = "JUST_CREATED"
             \/ pc[x] = "dead" \/ x = threadToBeDestroyed
             \/ \E s \in Sems : x \in Elems(queue[s]) /\ value[s] = 0
  <2>1. CASE onSem[x] # NULL
    <3>1. onSem[x] \in Sems /\ x \in Elems(queue[onSem[x]])
      BY <1>3, <2>1
    <3>2. queue[onSem[x]] # <<>>
      BY <3>1, EmptyElems
    <3> QED BY <1>5, <3>1, <3>2
  <2>2. CASE onSem[x] = NULL
    <3>1. pc[x] \in InP => x = threadToBeDestroyed
      BY <2>2 DEF OnSemExact
    <3>2. pc[x] \notin {"startup", "yielded"}
      BY <1>2 DEF Placed, StatusFollowsPc
    <3>3. pc[x] \notin {"run", "enable"}
      BY <1>1 DEF Placed, OneProcessor, OnProcessor
    <3>4. pc[x] = "created" => status[x] = "JUST_CREATED"
      BY DEF Placed, StatusFollowsPc
    <3> QED BY <3>1, <3>2, <3>3, <3>4 DEF InP, TypeOK, Places
  <2> QED BY <2>1, <2>2
<1> QED BY <1>1, <1>6 DEF HaltOnlyWhenStuck

(* A halted machine takes no step; any other step than Halt leaves it on.  *)
LEMMA NextHalt ==
    HaltInv /\ [Next]_vars
        => HaltOnlyWhenStuck' /\ (mode' = "Halted" => pc'[currentThread'] = "sleep")
<1> SUFFICES ASSUME HaltInv, [Next]_vars
             PROVE  HaltOnlyWhenStuck' /\ (mode' = "Halted" => pc'[currentThread'] = "sleep")
  OBVIOUS
<1>1. CASE UNCHANGED vars
  BY <1>1 DEF vars, HaltInv, HaltOnlyWhenStuck
<1>2. ASSUME NEW t \in Threads, Halt(t)
      PROVE  HaltOnlyWhenStuck' /\ (mode' = "Halted" => pc'[currentThread'] = "sleep")
  BY <1>2, HaltIsStuck DEF HaltInv, Halt
<1>3. ASSUME NEW t \in Threads, Call(t) PROVE mode' # "Halted"
  BY <1>3 DEF Call, Fork, P, V, Destroy, Yield, Finish, Running, machVars
<1>4. ASSUME NEW t \in Threads, PTest(t) \/ TickDone(t) \/ Sleep(t) \/ IdleDone(t)
      PROVE  mode' # "Halted"
  BY <1>4 DEF PTest, TickDone, Sleep, IdleDone, machVars
<1>5. ASSUME NEW t \in Threads, NEW d \in Devices, StartIO(t, d) PROVE mode' # "Halted"
  BY <1>5 DEF StartIO, Running
<1>6. ASSUME NEW i \in Devices \union {Timer}, Fire(i) PROVE mode' # "Halted"
  BY <1>6 DEF Fire, TickFire, IdleFire
<1> QED BY <1>1, <1>2, <1>3, <1>4, <1>5, <1>6 DEF Next, Step, Halted, HaltOnlyWhenStuck

(* For any finite number of threads: the machine halts only when every     *)
(* thread is finished, never started, or waits on a semaphore that has no  *)
(* value, and nothing is pending that could change it.                     *)
THEOREM HaltsOnlyWhenStuck == Spec => []HaltOnlyWhenStuck
<1>1. Init => HaltInv
  BY InitType, InitPlaced, InitKeeps, NullAssumption
     DEF Init, HaltInv, WInv, RInv, IInv, OnSemExact, InP, HaltOnlyWhenStuck
<1>2. HaltInv /\ [Next]_vars => HaltInv'
  BY NextType, NextPlaced, NextOnSem, NextKeeps, NextHalt DEF HaltInv, WInv, RInv, IInv
<1>3. HaltInv => HaltOnlyWhenStuck
  BY DEF HaltInv
<1> QED BY <1>1, <1>2, <1>3, PTL DEF Spec
=============================================================================
