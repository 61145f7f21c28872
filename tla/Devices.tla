------------------------------ MODULE Devices -------------------------------
(***************************************************************************)
(* The simulated hardware in simulated time: Interrupt                     *)
(* (machine/interrupt.cc) with its sorted list of pending interrupts,      *)
(* Timer (machine/timer.cc), Console (machine/console.cc) and the timing   *)
(* of Disk (machine/disk.cc), driven by the main thread of                 *)
(*     nachos -rs seed (options that read and write the disk | -c in out)  *)
(* whose console test is ConsoleTest (userprog/progtest.cc).  What the     *)
(* sectors hold is FileSys's matter; here a request only takes its time.   *)
(*                                                                         *)
(* No other thread is ready, so a Yield only turns interrupts off and on   *)
(* again, and a P that finds 0 idles until a handler's V.                  *)
(***************************************************************************)
EXTENDS LinkedList, Integers

CONSTANTS
    SystemTick, ConsoleTime, RotationTime, SeekTime,  \* stats.h
    TimerDelays,      \* what Random may make of TimeOfNextInterrupt
    SectorsPerTrack, NumTracks,
    Inputs,           \* what may be typed
    EOF,              \* the character whose code is that of EOF
    MaxRequests,      \* bound: disk requests of the main thread
    MaxPolls          \* bound: polls that find nothing typed yet

ASSUME TicksAssumption ==
    {SystemTick, ConsoleTime, RotationTime, SeekTime} \union TimerDelays \subseteq Nat \ {0}
ASSUME GeometryAssumption == SectorsPerTrack \in Nat \ {0} /\ NumTracks \in Nat \ {0}
ASSUME InputsAssumption == \A i \in Inputs : i \in Seq(Range(i))

VARIABLES
    totalTicks,     \* Statistics::totalTicks
    pending,        \* Interrupt::pending, keyed by when
    status,         \* Interrupt::status
    yieldOnReturn,  \* Interrupt::yieldOnReturn
    phase,          \* what the machine is doing, see Phases
    readyList,      \* Scheduler::readyList
    value,          \* Semaphore::value
    queue,          \* Semaphore::queue
    pc,             \* where the main thread is
    console,        \* Console: keyboard left to read, display, incoming, putBusy
    ch,             \* ConsoleTest's character
    disk,           \* Disk: active, lastSector, bufferInit
    request,        \* history: the number of requests, the latest one and when it was made
    booked,         \* history: the interrupts scheduled that have not fired
    input,          \* what is typed, all of it
    fromFile,       \* whether in is a file or a terminal
    polls           \* polls that may still find nothing typed

machVars == <<status, yieldOnReturn, readyList>>
thread == <<pc, ch>>
given == <<input, fromFile>>
vars == <<totalTicks, pending, machVars, phase, value, queue, thread, console, disk, request,
          booked, given, polls>>

(* "run": kernel code runs, interrupts on.  "tick": in OneTick.  "idle":   *)
(* in Idle, nothing has fired.  "drain": in Idle's second loop.  "halted": *)
(* Cleanup has run.  "aborted": an ASSERT failed.                          *)
Phases == {"run", "tick", "idle", "drain", "halted", "aborted"}
Sectors == 0 .. SectorsPerTrack * NumTracks - 1
Sems == {"readAvail", "writeDone", "disk"}
Main == "main"

NoConsole == [open |-> FALSE, keyboard |-> <<>>, display |-> <<>>, incoming |-> EOF, putBusy |-> FALSE]
NoRequest == [n |-> 0, sector |-> 0, writing |-> FALSE, made |-> 0, tracks |-> 0, when |-> 0]

(* Initialize, with a timer.  Its Enable has ticked. *)
Init ==
    /\ totalTicks = SystemTick
    /\ \E d \in TimerDelays : /\ pending = SortedInsert(NewList, "TimerInt", d)
                              /\ booked = {<<"TimerInt", d>>}
    /\ status = "SystemMode" /\ yieldOnReturn = FALSE /\ phase = "tick"
    /\ readyList = NewList
    /\ value = [s \in Sems |-> 0] /\ queue = [s \in Sems |-> NewList]
    /\ pc = "main" /\ ch = EOF
    /\ input \in Inputs /\ fromFile \in BOOLEAN
    /\ console = NoConsole
    /\ disk = [active |-> FALSE, lastSector |-> 0, bufferInit |-> 0]
    /\ request = NoRequest
    /\ polls = MaxPolls

-----------------------------------------------------------------------------
(* Interrupt::Schedule: the interrupt goes into the list l at time now. *)
Schedule(l, now, type, fromNow) == SortedInsert(l, type, now + fromNow)

(* SetLevel(IntOn), up to the interrupts that are due *)
Enable == phase' = "tick" /\ totalTicks' = totalTicks + SystemTick

(* Semaphore::V inside a handler *)
V(s) ==
    /\ value' = [value EXCEPT ![s] = @ + 1]
    /\ IF IsEmpty(queue[s]) THEN UNCHANGED <<queue, readyList>>
       ELSE /\ queue' = [queue EXCEPT ![s] = SortedRemove(@)]
            /\ readyList' = ListAppend(readyList, FirstElement(queue[s]).item)

NoV == UNCHANGED <<value, queue, readyList>>

Fired(type) == booked \ {<<type, FirstElement(pending).key>>}

(* A device whose handler schedules its next interrupt; one that does not *)
Again(rest, now, type, delay) ==
    /\ pending' = Schedule(rest, now, type, delay)
    /\ booked' = Fired(type) \union {<<type, now + delay>>}

Over(rest, type) == pending' = rest /\ booked' = Fired(type)

(* Timer::TimerExpired and TimerInterruptHandler *)
TimerExpired(rest, now) ==
    /\ \E delay \in TimerDelays : Again(rest, now, "TimerInt", delay)
    /\ yieldOnReturn' = TRUE
    /\ NoV
    /\ UNCHANGED <<console, disk, polls>>

(* Disk::HandleInterrupt and SynchDisk::RequestDone *)
HandleInterrupt(rest) ==
    /\ disk' = [disk EXCEPT !.active = FALSE]
    /\ V("disk")
    /\ Over(rest, "DiskInt")
    /\ UNCHANGED <<yieldOnReturn, console, polls>>

(* Variant: the display stays busy. *)
WriteDoneBusy(rest) ==
    /\ V("writeDone")
    /\ Over(rest, "ConsoleWriteInt")
    /\ UNCHANGED <<yieldOnReturn, console, disk, polls>>

(* Console::WriteDone *)
WriteDone(rest) ==
    /\ console' = [console EXCEPT !.putBusy = FALSE]
    /\ V("writeDone")
    /\ Over(rest, "ConsoleWriteInt")
    /\ UNCHANGED <<yieldOnReturn, disk, polls>>

(* PollFile: a file can always be read, a terminal once something is typed.*)
PollFile ==
    /\ fromFile \/ console.keyboard # <<>>
    /\ UNCHANGED polls

PollFileFails ==
    /\ ~fromFile
    /\ console.keyboard = <<>> \/ polls > 0
    /\ polls' = IF console.keyboard = <<>> THEN polls ELSE polls - 1

(* Variant: a character that was not fetched yet is overwritten. *)
CheckCharAvailAlways(rest, now) ==
    /\ Again(rest, now, "ConsoleReadInt", ConsoleTime)
    /\ IF console.keyboard = <<>> THEN NoV /\ UNCHANGED console
       ELSE /\ console' = [console EXCEPT !.incoming = Head(console.keyboard), !.keyboard = Tail(@)]
            /\ V("readAvail")
    /\ UNCHANGED <<yieldOnReturn, disk, polls>>

(* Console::CheckCharAvail *)
CheckCharAvail(rest, now) ==
    /\ Again(rest, now, "ConsoleReadInt", ConsoleTime)
    /\ \/ /\ console.incoming # EOF
          /\ NoV
          /\ UNCHANGED <<console, polls>>
       \/ /\ console.incoming = EOF
          /\ PollFileFails
          /\ NoV
          /\ UNCHANGED console
       \/ /\ console.incoming = EOF
          /\ PollFile
          /\ console' = [console EXCEPT !.incoming = Head(console.keyboard), !.keyboard = Tail(@)]
          /\ V("readAvail")
    /\ UNCHANGED <<yieldOnReturn, disk>>

(* ... whose Read aborts at the end of a file *)
ReadAborts(type) ==
    type = "ConsoleReadInt" /\ fromFile /\ console.incoming = EOF /\ console.keyboard = <<>>

-----------------------------------------------------------------------------
(* Interrupt::CheckIfDue, in parts.  The first interrupt is due if its     *)
(* time has come or if the clock may be advanced to it; when the machine   *)
(* is idle a timer alone is not worth waiting for.                         *)
First == FirstElement(pending)
Now(advanceClock) == IF advanceClock /\ First.key > totalTicks THEN First.key ELSE totalTicks
Due(advanceClock) ==
    /\ ~IsEmpty(pending)
    /\ First.key <= Now(advanceClock)
    /\ ~(status = "IdleMode" /\ First.item = "TimerInt" /\ IsEmpty(SortedRemove(pending)))

(* An interrupt taken off the list and not fired is put back: after those  *)
(* that are due at the same time.                                          *)
PutBack ==
    /\ pending' = IF IsEmpty(pending) THEN pending
                  ELSE SortedInsert(SortedRemove(pending), First.item, First.key)
    /\ UNCHANGED booked

Fire(advanceClock, then) ==
    LET now == Now(advanceClock)
        rest == SortedRemove(pending)
    IN  /\ Due(advanceClock)
        /\ totalTicks' = now
        /\ IF ReadAborts(First.item)
              THEN /\ phase' = "aborted"
                   /\ NoV
                   /\ UNCHANGED <<pending, booked, yieldOnReturn, console, disk, polls>>
              ELSE /\ phase' = then
                   /\ \/ First.item = "TimerInt" /\ TimerExpired(rest, now)
                      \/ First.item = "DiskInt" /\ HandleInterrupt(rest)
                      \/ First.item = "ConsoleWriteInt" /\ WriteDone(rest)
                      \/ First.item = "ConsoleReadInt" /\ CheckCharAvail(rest, now)
        /\ UNCHANGED <<status, thread, request, given>>

(* Interrupt::OneTick *)
TickFire == phase = "tick" /\ Fire(FALSE, "tick")

TickDone ==
    /\ phase = "tick" /\ ~Due(FALSE)
    /\ PutBack
    /\ IF yieldOnReturn THEN Enable ELSE phase' = "run" /\ UNCHANGED totalTicks
    /\ yieldOnReturn' = FALSE
    /\ NoV
    /\ UNCHANGED <<status, thread, console, disk, request, given, polls>>

(* Interrupt::Idle *)
IdleFire == phase = "idle" /\ Fire(TRUE, "drain")

(* ... has nothing to wait for.  The clock is at a lone timer by the time   *)
(* CheckIfDue puts it back.                                                *)
IdleHalt ==
    /\ phase = "idle" /\ ~Due(TRUE)
    /\ totalTicks' = IF IsEmpty(pending) THEN totalTicks ELSE Now(TRUE)
    /\ PutBack
    /\ phase' = "halted"
    /\ UNCHANGED <<machVars, value, queue, thread, console, disk, request, given, polls>>

DrainFire == phase = "drain" /\ Fire(FALSE, "drain")

(* ... and back in Sleep: the main thread runs if it is ready.  It goes on *)
(* in P, where the value is positive now.                                  *)
DrainDone ==
    /\ phase = "drain" /\ ~Due(FALSE)
    /\ PutBack
    /\ yieldOnReturn' = FALSE
    /\ IF IsEmpty(readyList)
          THEN /\ phase' = "idle" /\ status' = "IdleMode"
               /\ UNCHANGED readyList
          ELSE /\ phase' = "run" /\ status' = "SystemMode"
               /\ readyList' = SortedRemove(readyList)
    /\ UNCHANGED <<totalTicks, value, queue, thread, console, disk, request, given, polls>>

-----------------------------------------------------------------------------
(* Disk::TimeToSeek, ModuloDiff, ComputeLatency and UpdateLast *)
Tracks(a, b) ==
    LET d == (a \div SectorsPerTrack) - (b \div SectorsPerTrack) IN IF d < 0 THEN -d ELSE d

TimeToSeek(newSector) ==
    LET seek == Tracks(newSector, disk.lastSector) * SeekTime
        over == (totalTicks + seek) % RotationTime
    IN  [seek |-> seek, rotation |-> IF over > 0 THEN RotationTime - over ELSE 0]

ModuloDiff(to, from) ==
    (((to % SectorsPerTrack) - (from % SectorsPerTrack)) + SectorsPerTrack) % SectorsPerTrack

(* Variant: the sector is in the track buffer as soon as the head is on it.*)
InTrackBufferEarly(newSector, timeAfter) ==
    (timeAfter - disk.bufferInit) \div RotationTime
        >= ModuloDiff(newSector, disk.bufferInit \div RotationTime)

InTrackBuffer(newSector, timeAfter) ==
    (timeAfter - disk.bufferInit) \div RotationTime
        > ModuloDiff(newSector, disk.bufferInit \div RotationTime)

ComputeLatency(newSector, writing) ==
    LET t == TimeToSeek(newSector)
        timeAfter == totalTicks + t.seek + t.rotation
    IN  IF ~writing /\ t.seek = 0 /\ InTrackBuffer(newSector, timeAfter) THEN RotationTime
        ELSE t.seek + t.rotation + ModuloDiff(newSector, timeAfter \div RotationTime) * RotationTime
             + RotationTime

UpdateLast(newSector) ==
    LET t == TimeToSeek(newSector)
    IN  [disk EXCEPT !.active = TRUE, !.lastSector = newSector,
                     !.bufferInit = IF t.seek = 0 THEN @ ELSE totalTicks + t.seek + t.rotation]

-----------------------------------------------------------------------------
(* The main thread.  Calls that only lock and unlock take a tick.          *)
At(p) == phase = "run" /\ pc = p
Goto(p) == pc' = p /\ UNCHANGED ch

(* Semaphore::P: from p to q *)
P(s, p, q) ==
    /\ At(p)
    /\ IF value[s] = 0
          THEN /\ queue' = [queue EXCEPT ![s] = ListAppend(@, Main)]
               /\ phase' = "idle" /\ status' = "IdleMode"
               /\ UNCHANGED <<totalTicks, value, thread>>
          ELSE /\ value' = [value EXCEPT ![s] = @ - 1]
               /\ Goto(q)
               /\ Enable
               /\ UNCHANGED <<queue, status>>
    /\ UNCHANGED <<pending, yieldOnReturn, readyList, console, disk, request, booked, given, polls>>

Ticks(p, q) ==
    /\ At(p)
    /\ Goto(q)
    /\ Enable
    /\ UNCHANGED <<pending, machVars, value, queue, console, disk, request, booked, given, polls>>

(* SynchDisk::ReadSector and WriteSector: Acquire, the request, P, Release *)
Acquire == request.n < MaxRequests /\ Ticks("main", "request")

Request(s, writing) ==
    LET latency == ComputeLatency(s, writing)
    IN  /\ At("request")
        /\ IF disk.active
              THEN phase' = "aborted" /\ UNCHANGED <<pending, booked, disk, request, thread>>
              ELSE /\ pending' = Schedule(pending, totalTicks, "DiskInt", latency)
                   /\ booked' = booked \union {<<"DiskInt", totalTicks + latency>>}
                   /\ disk' = UpdateLast(s)
                   /\ request' = [n |-> request.n + 1, sector |-> s, writing |-> writing, made |-> totalTicks,
                                  tracks |-> Tracks(s, disk.lastSector), when |-> totalTicks + latency]
                   /\ Goto("transfer")
                   /\ UNCHANGED phase
        /\ UNCHANGED <<totalTicks, machVars, value, queue, console, given, polls>>

RequestDone == P("disk", "transfer", "release")
Release == Ticks("release", "main")

(* ConsoleTest begins: Console::Console *)
NewConsole ==
    /\ At("main") /\ request.n = 0
    /\ console' = [NoConsole EXCEPT !.open = TRUE, !.keyboard = input]
    /\ pending' = Schedule(pending, totalTicks, "ConsoleReadInt", ConsoleTime)
    /\ booked' = booked \union {<<"ConsoleReadInt", totalTicks + ConsoleTime>>}
    /\ Goto("read")
    /\ UNCHANGED <<totalTicks, phase, machVars, value, queue, disk, request, given, polls>>

WaitChar == P("readAvail", "read", "echo")

(* Console::GetChar and PutChar *)
Echo ==
    /\ At("echo")
    /\ IF console.putBusy
          THEN phase' = "aborted" /\ UNCHANGED <<pending, booked, console, thread>>
          ELSE /\ ch' = console.incoming
               /\ console' = [console EXCEPT !.incoming = EOF, !.putBusy = TRUE,
                                             !.display = Append(@, console.incoming)]
               /\ pending' = Schedule(pending, totalTicks, "ConsoleWriteInt", ConsoleTime)
               /\ booked' = booked \union {<<"ConsoleWriteInt", totalTicks + ConsoleTime>>}
               /\ pc' = "written"
               /\ UNCHANGED phase
    /\ UNCHANGED <<totalTicks, machVars, value, queue, disk, request, given, polls>>

WaitWritten == P("writeDone", "written", IF ch = "q" THEN "quit" ELSE "read")

(* Interrupt::Halt after ConsoleTest; without -c, main finishes and sleeps.*)
Halt ==
    /\ At("quit")
    /\ phase' = "halted"
    /\ UNCHANGED <<totalTicks, pending, machVars, value, queue, thread, console, disk, request,
                   booked, given, polls>>

Finish ==
    /\ At("main")
    /\ phase' = "idle" /\ status' = "IdleMode"
    /\ Goto("finished")
    /\ UNCHANGED <<totalTicks, pending, yieldOnReturn, readyList, value, queue, console, disk,
                   request, booked, given, polls>>

Next ==
    \/ TickFire \/ TickDone \/ IdleFire \/ IdleHalt \/ DrainFire \/ DrainDone
    \/ Acquire \/ RequestDone \/ Release
    \/ \E s \in Sectors, writing \in BOOLEAN : Request(s, writing)
    \/ NewConsole \/ WaitChar \/ Echo \/ WaitWritten
    \/ Halt \/ Finish

(* The program is one thread of the host: it goes on as long as it can. *)
Spec == Init /\ [][Next]_vars /\ WF_vars(Next)

-----------------------------------------------------------------------------
(* The pending list, walked along its pointers, holds exactly the          *)
(* interrupts that were scheduled and have not fired, earliest first, ends *)
(* at last and keeps no other element; and while the kernel runs none of   *)
(* them is overdue.                                                        *)
PendingExact ==
    LET e == Elements(pending)
    IN  /\ Len(e) = Cardinality(booked)
        /\ {<<e[k].item, e[k].key>> : k \in DOMAIN e} = booked
        /\ \A j, k \in DOMAIN e : j < k => e[j].key <= e[k].key
        /\ Cardinality(DOMAIN pending.node) = Len(e)
        /\ pending.last = IF e = <<>> THEN Nil ELSE Last(Walk(pending))
        /\ phase = "run" => \A b \in booked : b[2] > totalTicks

(* No character that is typed is lost, doubled or overtaken on its way     *)
(* from the keyboard through Console::incoming and ConsoleTest to the      *)
(* display, as long as none of them is taken for "no character".           *)
EchoInOrder ==
    console.open /\ (\A k \in DOMAIN input : input[k] # EOF) =>
        input = console.display
                \o (IF console.incoming = EOF THEN <<>> ELSE <<console.incoming>>)
                \o console.keyboard

(* A request completes when its sector has rotated under the head, after   *)
(* the seek: a write right then and not before, a read at the latest then  *)
(* but only if the sector has passed since the head came to this track.    *)
(* It never takes more than the seek and a rotation (rounded up).          *)
Passed(s, from, to) ==
    \E n \in 1 .. to \div RotationTime :
        /\ (n - 1) * RotationTime >= from
        /\ (n - 1) % SectorsPerTrack = s % SectorsPerTrack

SectorUnderHead ==
    disk.active =>
        LET arrives == request.made + request.tracks * SeekTime
        IN  /\ request.when <= arrives + (SectorsPerTrack + 1) * RotationTime
            /\ Passed(request.sector, disk.bufferInit, request.when)
            /\ request.writing => /\ request.when % RotationTime = 0
                                  /\ Passed(request.sector, arrives, request.when)
                                  /\ ~Passed(request.sector, arrives, request.when - 1)

(* The machine comes to a halt: no interrupt is lost on the way, no        *)
(* assertion of a device fails but that of a Read at the end of the file.  *)
ComesToHalt == <>(phase = "halted" \/ (phase = "aborted" /\ ReadAborts("ConsoleReadInt")))
=============================================================================
