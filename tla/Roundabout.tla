----------------------------- MODULE Roundabout -----------------------------
(***************************************************************************)
(* TareaProgramada1: cars, one process each, pass a roundabout without a   *)
(* controlling process.  They share an array of counters (System V shared  *)
(* memory) guarded by a named POSIX semaphore, and let each other pass by  *)
(* messages in a System V queue, one type per street.  A message stands    *)
(* for one car that may leave.                                             *)
(*                                                                         *)
(* The IPC objects outlive the processes: the program may be killed at any *)
(* moment and started again, and finds what it left.  What the operating   *)
(* system does with them is modelled from the calls the program makes.     *)
(***************************************************************************)
EXTENDS Naturals, FiniteSets, FiniteSetsExt

CONSTANTS
    TOTAL_STREETS,   \* 7 in the code
    TOTAL_CARS,      \* 6
    MAX_CARS,        \* 6
    MaxRuns          \* bound: times the program is started

ASSUME ConstantsAssumption ==
    /\ TOTAL_STREETS \in Nat \ {0} /\ TOTAL_CARS \in Nat \ {0}
    /\ MAX_CARS \in Nat \ {0} /\ MaxRuns \in Nat \ {0}

VARIABLES
    \* IPC objects
    mailbox,         \* the queue exists
    messages,        \* how many messages of each street's type it holds
    sem,             \* the semaphore, "none" while it does not exist
    carsInStreet,    \* the shared memory
    \* the parent
    phase,           \* where main is
    forked,          \* cars forked
    runs,            \* times main was started
    \* the cars
    place,              \* where each car is; from "load" to "flush" it holds the semaphore
    street,          \* randomStreet
    tmp,             \* a value read from shared memory
    total,           \* totalCarsInRoundabout
    pick             \* streetWithMostCars / 10

ipcVars == <<mailbox, messages, sem, carsInStreet>>
mainVars == <<phase, forked, runs>>
carVars == <<place, street, tmp, total, pick>>
roundaboutVars == <<ipcVars, mainVars, carVars>>

Cars == 0 .. TOTAL_CARS - 1
Last == TOTAL_CARS - 1

(***************************************************************************)
(* randomStreet is 1 .. TOTAL_STREETS, every loop over the streets visits  *)
(* 0 .. TOTAL_STREETS - 1.  The segment is twice as long as it has to be,  *)
(* so that the counter of street TOTAL_STREETS is there, and 0 at first    *)
(* because the segment is new.                                             *)
(***************************************************************************)
Streets == 0 .. TOTAL_STREETS
Looped == 0 .. TOTAL_STREETS - 1

NoCars == [s \in Streets |-> 0]

Total(counts) == MapThenSumSet(LAMBDA s : counts[s], Looped)

RoundaboutInit ==
    /\ mailbox = FALSE /\ messages = NoCars /\ sem = "none"
    /\ carsInStreet = NoCars
    /\ phase = "mailbox" /\ forked = 0 /\ runs = 1
    /\ place = [i \in Cars |-> "none"]
    /\ street = [i \in Cars |-> 0] /\ tmp = [i \in Cars |-> 0]
    /\ total = [i \in Cars |-> 0] /\ pick = [i \in Cars |-> 0]

-----------------------------------------------------------------------------
(* Variant: messages of an earlier run stay in the queue. *)
OpenMailboxKeepsMessages ==
    /\ phase = "mailbox" /\ phase' = "sem"
    /\ mailbox' = TRUE
    /\ UNCHANGED <<messages, sem, carsInStreet, forked, runs, carVars>>

(* main: open the queue; if messages are pending, deleteAllMessages, which *)
(* removes the queue itself.                                               *)
OpenMailbox ==
    /\ phase = "mailbox" /\ phase' = "sem"
    /\ mailbox' = ~(mailbox /\ messages # NoCars)
    /\ messages' = NoCars
    /\ UNCHANGED <<sem, carsInStreet, forked, runs, carVars>>

(* main: a new, zeroed segment; then the semaphore, created exclusively:   *)
(* if it is there already it is unlinked and the program gives up.         *)
OpenSemaphore ==
    /\ phase = "sem"
    /\ carsInStreet' = NoCars
    /\ IF sem = "none"
          THEN sem' = "free" /\ phase' = "fork"
          ELSE sem' = "none" /\ phase' = "exited"
    /\ UNCHANGED <<mailbox, messages, forked, runs, carVars>>

(* main: fork the next car *)
ForkCar ==
    /\ phase = "fork" /\ forked < TOTAL_CARS
    /\ place' = [place EXCEPT ![forked] = "start"]
    /\ forked' = forked + 1
    /\ phase' = IF forked' = TOTAL_CARS THEN "wait" ELSE "fork"
    /\ UNCHANGED <<ipcVars, runs, street, tmp, total, pick>>

(* main: fork fails and main exits; the cars already forked go on. *)
ForkFails ==
    /\ phase = "fork" /\ phase' = "orphaned"
    /\ UNCHANGED <<ipcVars, forked, runs, carVars>>

Ended == {"out", "failed"}

(* main: wait for every car, remove the segment and the semaphore *)
JoinCars ==
    /\ phase = "wait" /\ \A i \in Cars : place[i] \in Ended
    /\ phase' = "return"
    /\ sem' = "none"
    /\ UNCHANGED <<mailbox, messages, carsInStreet, forked, runs, carVars>>

(* main returns: ~Mailbox removes the queue *)
Return ==
    /\ phase = "return" /\ phase' = "exited"
    /\ mailbox' = FALSE /\ messages' = NoCars
    /\ UNCHANGED <<sem, carsInStreet, forked, runs, carVars>>

NoProcesses ==
    /\ forked' = 0
    /\ place' = [i \in Cars |-> "none"]
    /\ street' = [i \in Cars |-> 0] /\ tmp' = [i \in Cars |-> 0]
    /\ total' = [i \in Cars |-> 0] /\ pick' = [i \in Cars |-> 0]

(* All processes are killed, or the cars that a failing fork left behind    *)
(* have come to their end; the IPC objects stay.                           *)
Kill ==
    /\ phase # "exited" /\ phase' = "exited"
    /\ NoProcesses
    /\ UNCHANGED <<ipcVars, runs>>

(* The program is started again. *)
Restart ==
    /\ phase = "exited" /\ runs < MaxRuns
    /\ phase' = "mailbox" /\ runs' = runs + 1
    /\ NoProcesses
    /\ UNCHANGED ipcVars

-----------------------------------------------------------------------------
MoveTo(i, from, to) == place[i] = from /\ place' = [place EXCEPT ![i] = to]

(* After the two critical sections: the last car lets everybody pass if    *)
(* its total is below the limit; every car then waits for its turn.        *)
Onward(i, n) == IF i = Last /\ n < MAX_CARS THEN "last" ELSE "turn"

(* rand() % TOTAL_STREETS + 1 *)
ChooseStreet(i) ==
    /\ MoveTo(i, "start", "arrive")
    /\ \E s \in 1 .. TOTAL_STREETS : street' = [street EXCEPT ![i] = s]
    /\ UNCHANGED <<ipcVars, mainVars, tmp, total, pick>>

(* Variant: the semaphore is not taken. *)
SemWaitSkipped(i) ==
    /\ sem = "free"
    /\ \/ MoveTo(i, "arrive", "load") \/ MoveTo(i, "full", "scan")
       \/ MoveTo(i, "last", "flush")
    /\ UNCHANGED <<ipcVars, mainVars, street, tmp, total, pick>>

(* sem_wait, at the start of each critical section *)
SemWait(i) ==
    /\ sem = "free" /\ sem' = "taken"
    /\ \/ MoveTo(i, "arrive", "load") \/ MoveTo(i, "full", "scan")
       \/ MoveTo(i, "last", "flush")
    /\ UNCHANGED <<mailbox, messages, carsInStreet, mainVars, street, tmp,
                   total, pick>>

(* carsInStreet[randomStreet] = carsInStreet[randomStreet] + 1: the load,  *)
(* then the store, the sum over the streets and sem_post                   *)
Load(i) ==
    /\ MoveTo(i, "load", "store")
    /\ tmp' = [tmp EXCEPT ![i] = carsInStreet[street[i]]]
    /\ UNCHANGED <<ipcVars, mainVars, street, total, pick>>

(* Variant: the limit itself does not count as full. *)
StoreLimitOff(i) ==
    /\ carsInStreet' = [carsInStreet EXCEPT ![street[i]] = tmp[i] + 1]
    /\ total' = [total EXCEPT ![i] = Total(carsInStreet')]
    /\ MoveTo(i, "store", IF total'[i] > MAX_CARS THEN "full"
                        ELSE Onward(i, total'[i]))
    /\ sem' = "free"
    /\ UNCHANGED <<mailbox, messages, mainVars, street, tmp, pick>>

Store(i) ==
    /\ carsInStreet' = [carsInStreet EXCEPT ![street[i]] = tmp[i] + 1]
    /\ total' = [total EXCEPT ![i] = Total(carsInStreet')]
    /\ MoveTo(i, "store", IF total'[i] >= MAX_CARS THEN "full"
                        ELSE Onward(i, total'[i]))
    /\ sem' = "free"
    /\ UNCHANGED <<mailbox, messages, mainVars, street, tmp, pick>>

(* the first street with the most cars; street 0 and 0 cars if none has any*)
Scan(i) ==
    /\ MoveTo(i, "scan", "pass")
    /\ LET most == Max({carsInStreet[s] : s \in Looped})
           first == Min({s \in Looped : carsInStreet[s] = most})
       IN  /\ tmp' = [tmp EXCEPT ![i] = most]
           /\ pick' = [pick EXCEPT ![i] = IF most = 0 THEN 0 ELSE first]
    /\ UNCHANGED <<ipcVars, mainVars, street, total>>

(* Variant: no sem_post after allowPass. *)
AllowPassNoPost(i) ==
    /\ mailbox \/ tmp[i] = 0
    /\ messages' = [messages EXCEPT ![pick[i]] = @ + tmp[i]]
    /\ carsInStreet' = [carsInStreet EXCEPT ![pick[i]] = @ - tmp[i]]
    /\ total' = [total EXCEPT ![i] = @ + Total(carsInStreet')]
    /\ MoveTo(i, "pass", Onward(i, total'[i]))
    /\ UNCHANGED <<mailbox, sem, mainVars, street, tmp, pick>>

(* allowPass, the subtraction, the sum (added to the old total), sem_post.  *)
(* A message that cannot be sent ends the car, with the semaphore taken.   *)
AllowPass(i) ==
    /\ mailbox \/ tmp[i] = 0
    /\ messages' = [messages EXCEPT ![pick[i]] = @ + tmp[i]]
    /\ carsInStreet' = [carsInStreet EXCEPT ![pick[i]] = @ - tmp[i]]
    /\ total' = [total EXCEPT ![i] = @ + Total(carsInStreet')]
    /\ MoveTo(i, "pass", Onward(i, total'[i]))
    /\ sem' = "free"
    /\ UNCHANGED <<mailbox, mainVars, street, tmp, pick>>

(* allowAllCarsToPass: a message for every car counted, the counts stay *)
AllowAllCarsToPass(i) ==
    /\ MoveTo(i, "flush", "turn")
    /\ mailbox \/ \A s \in Looped : carsInStreet[s] = 0
    /\ messages' = [s \in Streets |->
                       messages[s] + IF s \in Looped THEN carsInStreet[s] ELSE 0]
    /\ sem' = "free"
    /\ UNCHANGED <<mailbox, carsInStreet, mainVars, street, tmp, total, pick>>

(* Mailbox::send exits: the queue is gone, or strnlen finds no zero in the *)
(* 1024 bytes of mtext, of which only the text copied in is initialised.   *)
(* The buffer is the same for every message, so the first one decides.     *)
SendFails(i) ==
    /\ \/ MoveTo(i, "pass", "failed") /\ tmp[i] > 0
       \/ MoveTo(i, "flush", "failed") /\ \E s \in Looped : carsInStreet[s] > 0
    /\ UNCHANGED <<ipcVars, mainVars, street, tmp, total, pick>>

(* carWaitingTurn: receive a message of the car's street *)
CarWaitingTurn(i) ==
    /\ MoveTo(i, "turn", "out")
    /\ mailbox /\ messages[street[i]] > 0
    /\ messages' = [messages EXCEPT ![street[i]] = @ - 1]
    /\ UNCHANGED <<mailbox, sem, carsInStreet, mainVars, street, tmp, total,
                   pick>>

ReceiveFails(i) ==
    /\ MoveTo(i, "turn", "failed")
    /\ ~mailbox
    /\ UNCHANGED <<ipcVars, mainVars, street, tmp, total, pick>>

-----------------------------------------------------------------------------
Car(i) ==
    \/ ChooseStreet(i) \/ SemWait(i) \/ Load(i) \/ Store(i) \/ Scan(i)
    \/ AllowPass(i) \/ AllowAllCarsToPass(i) \/ SendFails(i)
    \/ CarWaitingTurn(i) \/ ReceiveFails(i)

Parent == OpenMailbox \/ OpenSemaphore \/ ForkCar \/ JoinCars \/ Return

RoundaboutNext == Parent \/ ForkFails \/ Kill \/ Restart \/ \E i \in Cars : Car(i)

(***************************************************************************)
(* Processes are scheduled by the operating system.  sem_wait is enabled   *)
(* again and again while other cars use the semaphore; each car does so a  *)
(* few times only, so strong fairness asks no more than that a free        *)
(* semaphore is not refused for ever.                                      *)
(***************************************************************************)
RoundaboutFairness ==
    /\ WF_roundaboutVars(Parent)
    /\ \A i \in Cars : WF_roundaboutVars(Car(i)) /\ SF_roundaboutVars(SemWait(i))

RoundaboutSpec == RoundaboutInit /\ [][RoundaboutNext]_roundaboutVars /\ RoundaboutFairness

-----------------------------------------------------------------------------

Registered(s) == {i \in Cars : street[i] = s /\
                     place[i] \in {"full", "scan", "pass", "last", "flush", "turn",
                                "out", "failed"}}
Passed(s) == {i \in Cars : street[i] = s /\ place[i] = "out"}

LastHasFlushed == place[Last] \in {"turn", "out"} /\ total[Last] < MAX_CARS

(* Whenever the semaphore is free: each car that registered on a street is *)
(* counted there, or a message for its street is in the queue, or it has   *)
(* passed; no update of the counters is lost.  The last car sends messages *)
(* for cars that stay counted: from then on there may be messages too many.*)
CarsConserved ==
    sem = "free" /\ phase \in {"fork", "wait", "orphaned"} =>
        \A s \in Streets :
            LET accounted == carsInStreet[s] + messages[s] + Cardinality(Passed(s))
            IN  IF LastHasFlushed
                   THEN accounted >= Cardinality(Registered(s))
                   ELSE accounted = Cardinality(Registered(s))

(* Whatever an earlier, killed run left behind, the cars of a run start    *)
(* with a free semaphore, zero counters and no message that would let a    *)
(* car pass before anybody allowed it.                                     *)
FreshStart ==
    phase = "fork" /\ forked = 0 =>
        sem = "free" /\ carsInStreet = NoCars /\ messages = NoCars

ACarFailed == \E i \in Cars : place[i] = "failed"

(* If the counters reach the limit, some car eventually passes, unless the *)
(* program is killed or a car gave up.                                     *)
FullRoundaboutMoves ==
    (phase \in {"fork", "wait", "orphaned"} /\ sem = "free" /\ Total(carsInStreet) >= MAX_CARS)
        ~> (phase = "exited" \/ ACarFailed \/ \E i \in Cars : place[i] = "out")

(* No car is stuck before its turn: every forked car gets through its      *)
(* critical sections, unless the program is killed or a car gave up (it    *)
(* exits with the semaphore taken).                                        *)
EveryCarQueuesUp ==
    \A i \in Cars :
        (place[i] = "start") ~> (place[i] \in {"turn", "out", "none"} \/ ACarFailed)
=============================================================================
