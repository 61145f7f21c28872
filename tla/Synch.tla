-------------------------------- MODULE Synch --------------------------------
(***************************************************************************)
(* Semaphore, Lock, Mutex and Condition of threads/synch.cc, as the threads*)
(* that use them see them: the state of the objects and what one           *)
(* uninterrupted stretch of each operation does to it.  Modules of code    *)
(* written with these classes extend this one and say, with a program      *)
(* counter of their own, where their threads are.                          *)
(*                                                                         *)
(* The ready list is not kept: a thread on no wait queue may run next.     *)
(* Module Kernel has the ready list, the switches and the interrupts, and  *)
(* shows that the semaphores built with them behave like the ones here.    *)
(***************************************************************************)
EXTENDS Lists

CONSTANT NULL

VARIABLES
    value,    \* Semaphore::value of each semaphore (a lock's is its own)
    queue,    \* Semaphore::queue
    owner,    \* Lock::owner and Mutex::owner
    waiters   \* Condition::queue of each condition

synchVars == <<value, queue, owner, waiters>>

(* t is asleep in a P or a Condition::Wait. *)
Asleep(t) ==
    \/ \E s \in DOMAIN queue : t \in Elems(queue[s])
    \/ \E c \in DOMAIN waiters : t \in Elems(waiters[c])

-----------------------------------------------------------------------------
(* Semaphore::P, one test of its loop.  The thread gets through, or it     *)
(* queues up and sleeps; once woken it tests again.                        *)
Pass(t, s) ==
    /\ ~Asleep(t) /\ value[s] > 0
    /\ value' = [value EXCEPT ![s] = @ - 1]
    /\ UNCHANGED queue

Block(t, s) ==
    /\ ~Asleep(t) /\ value[s] = 0
    /\ queue' = [queue EXCEPT ![s] = Append(@, t)]
    /\ UNCHANGED value

(* Semaphore::V: wake the first waiter, if any, and increment. *)
V(s) ==
    /\ queue' = [queue EXCEPT ![s] = IF @ = <<>> THEN @ ELSE Tail(@)]
    /\ value' = [value EXCEPT ![s] = @ + 1]

-----------------------------------------------------------------------------
(* Lock::Acquire and Mutex::Lock are P and then, after P turned interrupts *)
(* on again, SetOwner.                                                     *)
SetOwner(t, l) ==
    /\ ~Asleep(t)
    /\ owner' = [owner EXCEPT ![l] = t]

(* Lock::Release, Mutex::Unlock; nothing checks that the owner calls it. *)
Release(l) ==
    /\ owner' = [owner EXCEPT ![l] = NULL]
    /\ V(l)

IsHeldByCurrentThread(t, l) == owner[l] = t

-----------------------------------------------------------------------------
(* Variant: Wait keeps the lock while it sleeps. *)
WaitBeginKeepsLock(t, c, l) ==
    /\ ~Asleep(t) /\ IsHeldByCurrentThread(t, l)
    /\ waiters' = [waiters EXCEPT ![c] = Append(@, t)]
    /\ UNCHANGED <<value, queue, owner>>

(* Condition::Wait up to its Sleep: interrupts are off, so releasing the   *)
(* lock and joining the wait queue are one step.                           *)
WaitBegin(t, c, l) ==
    /\ ~Asleep(t) /\ IsHeldByCurrentThread(t, l)
    /\ Release(l)
    /\ waiters' = [waiters EXCEPT ![c] = Append(@, t)]

(* Wait after a Signal: Acquire, with interrupts still off, so that P and  *)
(* the assignment of owner are one step, or P sleeps.                      *)
WaitReacquire(t, l) ==
    /\ Pass(t, l)
    /\ owner' = [owner EXCEPT ![l] = t]
    /\ UNCHANGED waiters

WaitBlock(t, l) ==
    /\ Block(t, l)
    /\ UNCHANGED <<owner, waiters>>

(* Condition::Signal: wake the first waiter; nothing if the lock is not    *)
(* the caller's.                                                           *)
Signal(t, c, l) ==
    /\ ~Asleep(t)
    /\ waiters' = [waiters EXCEPT ![c] =
                      IF @ # <<>> /\ IsHeldByCurrentThread(t, l)
                      THEN Tail(@) ELSE @]
=============================================================================
