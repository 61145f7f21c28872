------------------------------- MODULE Kernel -------------------------------
(***************************************************************************)
(* The NachOS thread system: Thread (threads/thread.cc), Scheduler         *)
(* (threads/scheduler.cc), Semaphore (threads/synch.cc) and the parts of   *)
(* the simulated hardware they run on, Interrupt (machine/interrupt.cc)    *)
(* and Timer (machine/timer.cc).                                           *)
(*                                                                         *)
(* There is one processor.  Kernel code runs with interrupts off and is    *)
(* only interrupted where it turns them on again: SetLevel(IntOn) calls    *)
(* OneTick, which runs the handlers that are due and, if one of them asked *)
(* for it, calls Yield.  So an action below is one stretch of code between *)
(* two such points.  What a thread does between kernel calls is arbitrary: *)
(* any thread may make any call at any time.                               *)
(*                                                                         *)
(* Simulated time is abstracted: whichever interrupt is pending may be the *)
(* next one due.                                                           *)
(***************************************************************************)
EXTENDS Lists, FiniteSets

CONSTANTS
    Threads,       \* thread control blocks the program may ever create
    Main,          \* the thread Initialize makes of the running process
    Sems,          \* semaphores
    InitialValue,  \* the value each semaphore is constructed with
    Devices,       \* I/O devices whose interrupt handler does a V
    DeviceSem,     \* the semaphore the handler of a device signals
    Timer,         \* the interrupt of the time-slice device
    NULL,          \* the null pointer
    MaxValue       \* bound: no V is called on a semaphore that has reached it

ASSUME ThreadsAssumption == IsFiniteSet(Threads)
ASSUME MainAssumption  == Main \in Threads
ASSUME NullAssumption  == NULL \notin Threads \union Sems
ASSUME ValueAssumption == InitialValue \in [Sems -> Nat]
ASSUME DeviceAssumption ==
    /\ DeviceSem \in [Devices -> Sems]
    /\ Timer \notin Devices

VARIABLES
    status,              \* Thread::status
    currentThread,       \* the thread on the processor
    readyList,           \* Scheduler::readyList
    threadToBeDestroyed, \* the finished thread whose carcass is still there
    deleted,             \* threads whose destructor has run
    level,               \* Interrupt::level
    yieldOnReturn,       \* Interrupt::yieldOnReturn
    pending,             \* Interrupt::pending, as the set of its interrupts
    mode,                \* Interrupt::status; "Halted" once Halt was called
    value,               \* Semaphore::value
    queue,               \* Semaphore::queue
    pc,                  \* where each thread is
    onSem                \* the semaphore of the P a thread is in

vars == <<status, currentThread, readyList, threadToBeDestroyed, deleted,
          level, yieldOnReturn, pending, mode, value, queue, pc, onSem>>

semVars == <<value, queue>>
machVars == <<pending, mode>>

Statuses == {"JUST_CREATED", "RUNNING", "READY", "BLOCKED"}

(***************************************************************************)
(* Where a thread is.  "startup": forked, SWITCH will enter ThreadRoot.    *)
(* "run": in the program, interrupts on.  "test": in P, about to look at   *)
(* value.  "enable": about to turn interrupts on again (SetLevel, hence    *)
(* OneTick).  "sleep": in Sleep, looking for a thread to run.  "idle": in  *)
(* Interrupt::Idle, some handler has run.  "yielded", "blocked": switched  *)
(* out by Yield, by Sleep.  "dead": finished, never to run again.          *)
(***************************************************************************)
Places == {"created", "startup", "run", "test", "enable", "sleep", "idle",
           "yielded", "blocked", "dead"}

Init ==
    /\ status = [t \in Threads |->
                    IF t = Main THEN "RUNNING" ELSE "JUST_CREATED"]
    /\ currentThread = Main
    /\ readyList = <<>>
    /\ threadToBeDestroyed = NULL
    /\ deleted = {}
    /\ level = "IntOn"
    /\ yieldOnReturn = FALSE
    /\ pending \in {{}, {Timer}}       \* the -rs flag creates the timer or not
    /\ mode = "SystemMode"
    /\ value = InitialValue
    /\ queue = [s \in Sems |-> <<>>]
    /\ pc = [t \in Threads |-> IF t = Main THEN "run" ELSE "created"]
    /\ onSem = [t \in Threads |-> NULL]

-----------------------------------------------------------------------------
(* Scheduler::Run: switch from t, which leaves with status st and will     *)
(* continue at place "away", to next.  The code after SWITCH runs in the   *)
(* thread switched to and deletes the carcass; a thread that runs for the  *)
(* first time starts in ThreadRoot instead and never gets there.           *)

Resume(x) == IF pc[x] \in {"startup", "yielded"} THEN "enable" ELSE "test"

(* Variant: threadToBeDestroyed is not reset. *)
DeleteCarcassKeepsPointer ==
    /\ deleted' = IF threadToBeDestroyed = NULL THEN deleted
                  ELSE deleted \union {threadToBeDestroyed}
    /\ UNCHANGED threadToBeDestroyed

DeleteCarcass ==
    /\ deleted' = IF threadToBeDestroyed = NULL THEN deleted
                  ELSE deleted \union {threadToBeDestroyed}
    /\ threadToBeDestroyed' = NULL

Run(t, next, st, away) ==
    /\ currentThread' = next
    /\ status' = [status EXCEPT ![t] = st, ![next] = "RUNNING"]
    /\ pc' = [pc EXCEPT ![t] = away, ![next] = Resume(next)]
    /\ IF pc[next] = "startup"
          THEN UNCHANGED <<threadToBeDestroyed, deleted>>
          ELSE DeleteCarcass

(* Variant: a thread that yields goes to the front of the ready list. *)
DoYieldPrepends(t) ==
    /\ level' = "IntOff"
    /\ IF readyList = <<>>
          THEN /\ pc' = [pc EXCEPT ![t] = "enable"]
               /\ UNCHANGED <<status, currentThread, readyList,
                              threadToBeDestroyed, deleted>>
          ELSE /\ readyList' = <<t>> \o Tail(readyList)
               /\ Run(t, Head(readyList), "READY", "yielded")

(* Thread::Yield, up to the SetLevel that ends it. *)
DoYield(t) ==
    /\ level' = "IntOff"
    /\ IF readyList = <<>>
          THEN /\ pc' = [pc EXCEPT ![t] = "enable"]
               /\ UNCHANGED <<status, currentThread, readyList,
                              threadToBeDestroyed, deleted>>
          ELSE /\ readyList' = Append(Tail(readyList), t)
               /\ Run(t, Head(readyList), "READY", "yielded")

(* Variants of the wake-up in V: the waiter stays on the queue; it is taken*)
(* off the queue but not made ready.                                       *)
WakeLeavesWaiter(s) ==
    /\ IF queue[s] = <<>>
          THEN UNCHANGED <<readyList, status>>
          ELSE /\ readyList' = Append(readyList, Head(queue[s]))
               /\ status' = [status EXCEPT ![Head(queue[s])] = "READY"]
    /\ UNCHANGED queue

WakeForgetsWaiter(s) ==
    /\ queue' = [queue EXCEPT ![s] = IF @ = <<>> THEN @ ELSE Tail(@)]
    /\ UNCHANGED <<readyList, status>>

(* Semaphore::V between its two SetLevels; also what a device handler does.*)
Wake(s) ==
    IF queue[s] = <<>>
       THEN UNCHANGED <<queue, readyList, status>>
       ELSE /\ queue' = [queue EXCEPT ![s] = Tail(@)]
            /\ readyList' = Append(readyList, Head(queue[s]))
            /\ status' = [status EXCEPT ![Head(queue[s])] = "READY"]

(* Variant: V wakes a waiter only when it finds the value 0. *)
SignalFirstOnly(s) ==
    /\ IF value[s] = 0 THEN Wake(s) ELSE UNCHANGED <<queue, readyList, status>>
    /\ value' = [value EXCEPT ![s] = @ + 1]

Signal(s) == Wake(s) /\ value' = [value EXCEPT ![s] = @ + 1]

(* One pass of Interrupt::CheckIfDue that finds interrupt i due.  The      *)
(* timer schedules its next interrupt and asks for a Yield on return.      *)
Handler(i) ==
    IF i = Timer
       THEN /\ yieldOnReturn' = TRUE
            /\ UNCHANGED <<pending, value, queue, readyList, status>>
       ELSE /\ pending' = pending \ {i}
            /\ Signal(DeviceSem[i])
            /\ UNCHANGED yieldOnReturn

-----------------------------------------------------------------------------
(* Calls made by the running thread.                                       *)

Running(t) == mode # "Halted" /\ currentThread = t /\ pc[t] = "run"

(* Thread::Fork *)
Fork(t, u) ==
    /\ Running(t) /\ pc[u] = "created"
    /\ level' = "IntOff"
    /\ status' = [status EXCEPT ![u] = "READY"]
    /\ readyList' = Append(readyList, u)
    /\ pc' = [pc EXCEPT ![u] = "startup", ![t] = "enable"]
    /\ UNCHANGED <<currentThread, threadToBeDestroyed, deleted, yieldOnReturn,
                   machVars, semVars, onSem>>

(* Semaphore::P, up to the test of value *)
P(t, s) ==
    /\ Running(t)
    /\ level' = "IntOff"
    /\ pc' = [pc EXCEPT ![t] = "test"]
    /\ onSem' = [onSem EXCEPT ![t] = s]
    /\ UNCHANGED <<status, currentThread, readyList, threadToBeDestroyed,
                   deleted, yieldOnReturn, machVars, semVars>>

(* One test of the loop in P: take the semaphore, or queue up and Sleep.   *)
PTest(t) ==
    /\ mode # "Halted" /\ currentThread = t /\ pc[t] = "test"
    /\ LET s == onSem[t] IN
       IF value[s] = 0
          THEN /\ queue' = [queue EXCEPT ![s] = Append(@, t)]
               /\ status' = [status EXCEPT ![t] = "BLOCKED"]
               /\ pc' = [pc EXCEPT ![t] = "sleep"]
               /\ UNCHANGED <<value, onSem>>
          ELSE /\ value' = [value EXCEPT ![s] = @ - 1]
               /\ pc' = [pc EXCEPT ![t] = "enable"]
               /\ onSem' = [onSem EXCEPT ![t] = NULL]
               /\ UNCHANGED <<queue, status>>
    /\ UNCHANGED <<currentThread, readyList, threadToBeDestroyed, deleted,
                   level, yieldOnReturn, machVars>>

(* Semaphore::V *)
V(t, s) ==
    /\ Running(t) /\ value[s] < MaxValue
    /\ level' = "IntOff"
    /\ Signal(s)
    /\ pc' = [pc EXCEPT ![t] = "enable"]
    /\ UNCHANGED <<currentThread, threadToBeDestroyed, deleted, yieldOnReturn,
                   machVars, onSem>>

(* Variant: Destroy gives every waiter a unit of value. *)
DestroyLetsThrough(t, s) ==
    /\ Running(t)
    /\ level' = "IntOff"
    /\ readyList' = readyList \o queue[s]
    /\ status' = [x \in Threads |->
                     IF x \in Elems(queue[s]) THEN "READY" ELSE status[x]]
    /\ queue' = [queue EXCEPT ![s] = <<>>]
    /\ value' = [value EXCEPT ![s] = @ + Len(queue[s])]
    /\ pc' = [pc EXCEPT ![t] = "enable"]
    /\ UNCHANGED <<currentThread, threadToBeDestroyed, deleted, yieldOnReturn,
                   machVars, onSem>>

(* Semaphore::Destroy: every waiter is made ready, value stays. *)
Destroy(t, s) ==
    /\ Running(t)
    /\ level' = "IntOff"
    /\ readyList' = readyList \o queue[s]
    /\ status' = [x \in Threads |->
                     IF x \in Elems(queue[s]) THEN "READY" ELSE status[x]]
    /\ queue' = [queue EXCEPT ![s] = <<>>]
    /\ pc' = [pc EXCEPT ![t] = "enable"]
    /\ UNCHANGED <<currentThread, threadToBeDestroyed, deleted, yieldOnReturn,
                   machVars, value, onSem>>

(* Thread::Yield called by the program *)
Yield(t) ==
    /\ Running(t)
    /\ DoYield(t)
    /\ UNCHANGED <<yieldOnReturn, machVars, semVars, onSem>>

(* Thread::Finish, up to the search for another thread in Sleep *)
Finish(t) ==
    /\ Running(t)
    /\ level' = "IntOff"
    /\ threadToBeDestroyed' = t
    /\ status' = [status EXCEPT ![t] = "BLOCKED"]
    /\ pc' = [pc EXCEPT ![t] = "sleep"]
    /\ UNCHANGED <<currentThread, readyList, deleted, yieldOnReturn, machVars,
                   semVars, onSem>>

(* A device is given a request: it calls Interrupt::Schedule. *)
StartIO(t, d) ==
    /\ Running(t) /\ d \notin pending /\ value[DeviceSem[d]] < MaxValue
    /\ pending' = pending \union {d}
    /\ UNCHANGED <<status, currentThread, readyList, threadToBeDestroyed,
                   deleted, level, yieldOnReturn, mode, semVars, pc, onSem>>

-----------------------------------------------------------------------------
(* Steps of the kernel and of the simulated hardware.                      *)

(* SetLevel(IntOn), OneTick: a pending interrupt is due. *)
TickFire(t, i) ==
    /\ mode # "Halted" /\ currentThread = t /\ pc[t] = "enable"
    /\ i \in pending
    /\ Handler(i)
    /\ UNCHANGED <<currentThread, threadToBeDestroyed, deleted, level, mode,
                   pc, onSem>>

(* OneTick after the handlers: interrupts go on; Yield if one asked for it.*)
TickDone(t) ==
    /\ mode # "Halted" /\ currentThread = t /\ pc[t] = "enable"
    /\ yieldOnReturn' = FALSE
    /\ IF yieldOnReturn
          THEN DoYield(t)
          ELSE /\ level' = "IntOn"
               /\ pc' = [pc EXCEPT ![t] = "run"]
               /\ UNCHANGED <<status, currentThread, readyList,
                              threadToBeDestroyed, deleted>>
    /\ UNCHANGED <<machVars, semVars, onSem>>

(* Thread::Sleep finds a thread to run; it may be the sleeper itself. *)
Sleep(t) ==
    /\ mode # "Halted" /\ currentThread = t /\ pc[t] = "sleep"
    /\ readyList # <<>>
    /\ readyList' = Tail(readyList)
    /\ LET next == Head(readyList) IN
       Run(t, next, status[t],
           IF threadToBeDestroyed = t THEN "dead" ELSE "blocked")
    /\ UNCHANGED <<level, yieldOnReturn, machVars, semVars, onSem>>

(* Interrupt::Idle: the clock jumps to the next interrupt, unless it is    *)
(* the timer and nothing else is pending; then whatever else is due fires. *)
IdleFire(t, i) ==
    /\ currentThread = t
    /\ \/ pc[t] = "sleep" /\ readyList = <<>> /\ mode = "SystemMode"
       \/ pc[t] = "idle"
    /\ i \in pending /\ pending # {Timer}
    /\ Handler(i)
    /\ mode' = "IdleMode"
    /\ pc' = [pc EXCEPT ![t] = "idle"]
    /\ UNCHANGED <<currentThread, threadToBeDestroyed, deleted, level, onSem>>

(* Idle returns to the loop in Sleep. *)
IdleDone(t) ==
    /\ currentThread = t /\ pc[t] = "idle"
    /\ yieldOnReturn' = FALSE
    /\ mode' = "SystemMode"
    /\ pc' = [pc EXCEPT ![t] = "sleep"]
    /\ UNCHANGED <<status, currentThread, readyList, threadToBeDestroyed,
                   deleted, level, pending, semVars, onSem>>

(* Idle finds nothing that could ever make a thread ready: Halt. *)
Halt(t) ==
    /\ mode = "SystemMode" /\ currentThread = t /\ pc[t] = "sleep"
    /\ readyList = <<>>
    /\ pending \subseteq {Timer}
    /\ mode' = "Halted"
    /\ UNCHANGED <<status, currentThread, readyList, threadToBeDestroyed,
                   deleted, level, yieldOnReturn, pending, semVars, pc, onSem>>

(* Halt calls Cleanup, which exits. *)
Halted == mode = "Halted" /\ UNCHANGED vars

-----------------------------------------------------------------------------
Call(t) ==
    \/ \E u \in Threads : Fork(t, u)
    \/ \E s \in Sems : P(t, s) \/ V(t, s) \/ Destroy(t, s)
    \/ Yield(t) \/ Finish(t)

Step(t) == PTest(t) \/ TickDone(t) \/ Sleep(t) \/ IdleDone(t) \/ Halt(t)

Fire(i) == \E t \in Threads : TickFire(t, i) \/ IdleFire(t, i)

Next ==
    \/ \E t \in Threads : Call(t) \/ Step(t)
    \/ \E t \in Threads, d \in Devices : StartIO(t, d)
    \/ \E i \in Devices \union {Timer} : Fire(i)
    \/ Halted

(***************************************************************************)
(* Kernel code never stops half way, the program keeps making calls, and   *)
(* simulated time advances at every tick, so that a pending interrupt is   *)
(* due after finitely many ticks or when the machine idles.                *)
(***************************************************************************)
Fairness ==
    /\ \A t \in Threads : WF_vars(Call(t)) /\ WF_vars(Step(t))
    /\ \A i \in Devices \union {Timer} : SF_vars(Fire(i))

Spec == Init /\ [][Next]_vars /\ Fairness

-----------------------------------------------------------------------------
(* The kernel's state is well formed. *)
TypeOK ==
    /\ status \in [Threads -> Statuses]
    /\ currentThread \in Threads
    /\ readyList \in Seq(Threads)
    /\ threadToBeDestroyed \in Threads \union {NULL}
    /\ deleted \subseteq Threads
    /\ level \in {"IntOn", "IntOff"}
    /\ yieldOnReturn \in BOOLEAN
    /\ pending \subseteq Devices \union {Timer}
    /\ mode \in {"SystemMode", "IdleMode", "Halted"}
    /\ value \in [Sems -> Nat]
    /\ queue \in [Sems -> Seq(Threads)]
    /\ pc \in [Threads -> Places]
    /\ onSem \in [Threads -> Sems \union {NULL}]

OnProcessor == {"run", "test", "enable", "sleep", "idle"}

(* Exactly one thread is executing; interrupts are off whenever it is in   *)
(* the kernel, as the ASSERTs of Thread::Sleep and Interrupt::CheckIfDue   *)
(* require.                                                                *)
OneProcessor ==
    /\ \A t \in Threads : pc[t] \in OnProcessor <=> t = currentThread
    /\ level = "IntOn" <=> pc[currentThread] = "run"

(* A thread is on the ready list exactly when its status says so, and once *)
ReadyListExact ==
    /\ \A t \in Threads : status[t] = "READY" <=> t \in Elems(readyList)
    /\ NoDuplicates(readyList)

(* A thread waits on at most one semaphore, the one its P named, once, and *)
(* is BLOCKED while it does.                                               *)
WaitersExact ==
    \A s \in Sems :
        /\ NoDuplicates(queue[s])
        /\ \A t \in Elems(queue[s]) :
              /\ onSem[t] = s /\ status[t] = "BLOCKED"
              /\ pc[t] \in {"blocked", "sleep", "idle"}

(* A thread is in one place only: on the processor, once on the ready      *)
(* list, or once on one wait queue.  What Yield, Fork, V, Destroy and the  *)
(* handlers append to the ready list is never there already, although an   *)
(* idle handler may wake the very thread that is looking for work.         *)
OnePlacePerThread == OneProcessor /\ ReadyListExact /\ WaitersExact

(* A thread whose destructor has run is not reachable from the scheduler   *)
(* any more: it is not running (the ASSERT in ~Thread), on no list, and    *)
(* not about to be deleted a second time.                                  *)
NoUseAfterDelete ==
    \A t \in deleted :
        /\ t # currentThread /\ t # threadToBeDestroyed
        /\ t \notin Elems(readyList)
        /\ \A s \in Sems : t \notin Elems(queue[s])

(* Threads in P(s) that are not asleep on s: they will test value again.   *)
Woken(s) == {t \in Threads : onSem[t] = s /\ t \notin Elems(queue[s])}

(* V wakes a waiter before it increments value, and the waiter tests again *)
(* when it runs, by when another thread may have taken the value: while    *)
(* threads sleep on s there is an awake one for each unit of value.        *)
NoLostWakeup ==
    \A s \in Sems : queue[s] # <<>> => Cardinality(Woken(s)) >= value[s]

(* Idle says "No threads ready or runnable, and no pending interrupts":    *)
(* the machine halts only when every thread is finished, never started, or *)
(* waits on a semaphore whose value is 0.                                  *)
HaltOnlyWhenStuck ==
    mode = "Halted" =>
        /\ pending \subseteq {Timer}
        /\ \A t \in Threads :
            \/ status[t] = "JUST_CREATED"
            \/ pc[t] = "dead" \/ t = threadToBeDestroyed
            \/ \E s \in Sems : t \in Elems(queue[s]) /\ value[s] = 0

(* With time slices on, a ready thread gets the processor: the ready list  *)
(* is FIFO, and the timer makes the running thread yield.                  *)
ReadyThreadRuns ==
    \A t \in Threads :
        (Timer \in pending /\ status[t] = "READY") ~> (status[t] = "RUNNING")

(* The kernel's semaphores are counting semaphores: seen from outside, P   *)
(* takes exactly one unit of a positive value and V adds one, whatever the *)
(* interrupts and switches in between; Destroy changes nothing.            *)
Waiting == [s \in Sems |-> {t \in Threads : onSem[t] = s}]

Semaphore == INSTANCE SemaphoreSpec WITH waiting <- Waiting

ImplementsSemaphore == Semaphore!Spec
=============================================================================
