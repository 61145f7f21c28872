---------------------------- MODULE SemaphoreSpec ----------------------------
(***************************************************************************)
(* What a Semaphore promises (threads/synch.h): "P() -- wait until value   *)
(* > 0, then decrement.  V() -- increment, waking up a waiting thread if   *)
(* necessary."  No ready list, no wait queue, no interrupts.               *)
(***************************************************************************)
EXTENDS Naturals

CONSTANTS Threads, Sems, InitialValue

VARIABLES
    value,     \* the value of each semaphore
    waiting    \* the threads inside P of each semaphore

vars == <<value, waiting>>

Init ==
    /\ value = InitialValue
    /\ waiting = [s \in Sems |-> {}]

(* A thread calls P. *)
Enter(t, s) ==
    /\ \A r \in Sems : t \notin waiting[r]
    /\ waiting' = [waiting EXCEPT ![s] = @ \union {t}]
    /\ UNCHANGED value

(* P returns. *)
Leave(t, s) ==
    /\ t \in waiting[s] /\ value[s] > 0
    /\ waiting' = [waiting EXCEPT ![s] = @ \ {t}]
    /\ value' = [value EXCEPT ![s] = @ - 1]

(* A thread or an interrupt handler calls V. *)
V(s) ==
    /\ value' = [value EXCEPT ![s] = @ + 1]
    /\ UNCHANGED waiting

Next == \E s \in Sems : V(s) \/ \E t \in Threads : Enter(t, s) \/ Leave(t, s)

Spec == Init /\ [][Next]_vars
=============================================================================
