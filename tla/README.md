# UCR-CI0122 in TLA+

The repository holds the programs of an operating systems course: **NachOS**
(`proyectos/NachOSx64/code`, a small teaching kernel that runs on a simulated
MIPS machine, extended by the students with locks, conditions, a barrier, system
calls and address spaces), a second copy of it with **virtual memory**
(`proyectos/vm`), and **TareaProgramada1**, a program whose processes coordinate
through System V and POSIX IPC. This directory models these programs from the
simulated hardware up to the system calls, checks the models with TLC on small
instances, and proves with TLAPS, for all instances, the safety properties of the
kernel's threads and semaphores, the dining philosophers, the barrier, the
roundabout, the process and file system calls, virtual memory, the file system, the post
office and the devices with the list of pending interrupts.

Paths below are relative to `src/proyectos/NachOSx64/code` (NachOS) or to
`src/tareas-programadas/TareaProgramada1/src` (roundabout). The virtual memory
copy repeats most files; the ones of its own are named `vm: ...`.

## 1. Inventory

| component | state | operations | interacts with | what is hard, what makes it correct |
|---|---|---|---|---|
| Threads, scheduler (`threads/thread.cc`, `scheduler.cc`) | `status`, `currentThread`, `readyList`, `threadToBeDestroyed` | Fork, Yield, Sleep, Finish, Run | Semaphore calls Sleep and ReadyToRun; Interrupt calls Yield; Idle is called from Sleep | a thread is in one place only; a finished thread is deleted once, by another thread; ready threads run |
| Interrupt, Timer (`machine/interrupt.cc`, `timer.cc`) | `level`, `pending`, `yieldOnReturn`, `status`, the ticks | SetLevel, OneTick, CheckIfDue, Idle, Schedule, Halt | handlers run in the middle of kernel code that turns interrupts on, and while the processor idles | handlers wake threads, even the one that looks for work; Idle must not halt too early; no interrupt is lost from the sorted list |
| Lists (`threads/list.h`, `synchlist.h`) | nodes, `first`, `last` | Append, Prepend, Remove, SortedInsert, SortedRemove | every queue of the kernel | the `last` pointer; order |
| Semaphore (`threads/synch.cc`) | `value`, `queue` | P, V, Destroy | all of the above | no lost wake-up, no value taken twice |
| Lock, Mutex, Condition (`threads/synch.cc`) | a semaphore and `owner`; a queue of threads | Acquire, Release, Wait, Signal, Broadcast | made of Semaphore, ReadyToRun and Sleep | `owner` is set outside the protected stretch; Wait releases, sleeps and acquires again |
| Barrier (`threads/synch.cc`) | `arrived`, two semaphores | Wait | Semaphore | none continues early |
| Dining philosophers (`threads/diningph.cc`, `threadtest.cc`) | `state[5]`, a Lock, a Condition each | pickup, putdown, test | Lock, Condition | neighbours do not eat together; Wait under an `if`; everybody eats |
| Process system calls (`userprog/exception.cc`) | `processMap`, `processTable`, `Thread::id` | Exec, Join, Exit, Fork, Halt | threads, semaphores, AddrSpace | Join waits for its child; ids are reused |
| Open files, sockets (`userprog/exception.cc`, `nachosOpenFilesTable.cc`) | a global table, one per thread, the host's descriptors, `semConsole` | Create, Open, Read, Write, Close, Socket, Connect | the host's files | two tables; a handle is not a descriptor; a Read that fails half way |
| Address spaces, loading (`userprog/addrspace.cc`, `bitmap.cc`) | `memoryMap`, page tables, main memory | constructors, destructor | called by Exec, Fork, Exit; reads the NOFF file | programs do not share frames; segments land where they belong |
| Object files (`bin/coff2noff.c`, `coff2flat.c`, `main.c`, `disasm.c`) | a file's sections | convert, load | AddrSpace, the interpreter | sections of all sizes and orders |
| Virtual memory (`vm: userprog/addrspace.cc`, `swap.cc`, `machine/translate.cc`) | page table, TLB, frames, swap | page fault handler, eviction | machine, swap file | stale translations, dirty pages that are dropped |
| MIPS machine (`machine/mipssim.cc`, `machine.cc`, `translate.cc`) | registers, a pending load, memory | one instruction | interrupts between instructions, the scheduler | delayed loads and branches across a switch; overflow; precise exceptions |
| Interpreter, disassembler (`bin/execute.c`, `d.c`) | its own registers and memory | one instruction | none | the same instruction set three times |
| File system (`filesys/*.cc`) | directory, free map, headers, data on disk | Create, Open, Remove, Read, Write | synchronous disk | no lock; a crash between two sector writes; parts of sectors |
| Synchronous disk (`filesys/synchdisk.cc`, `machine/disk.cc`) | a lock, a semaphore, one outstanding request; head and track buffer | ReadSector, WriteSector | interrupt handler | one request at a time; latency |
| Network, post office (`network/post.cc`, `machine/network.cc`) | mailboxes, one incoming packet, sockets | Send, Receive, the postal worker | interrupt handlers, SynchList, Lock | lost packets, overwritten packets, a machine that is not up |
| Console (`machine/console.cc`, `userprog/progtest.cc`) | `putBusy`, `incoming` | PutChar, GetChar, polling | interrupt handlers | slow readers, a busy display |
| Roundabout (`main.cpp`, `Car.cpp`, `Mailbox.cpp`) | shared counters, a semaphore, a message queue | cars arrive, let each other pass, wait for a message | processes of the host | lost updates; IPC objects that outlive a killed run; cars nobody lets pass |

`PROJECT.json` lists every component with its status, and under `hazards`
each place of the code where something hard to test can go wrong.

## 2. Modules

| module | models | extends |
|---|---|---|
| `Lists` | what the kernel's queues are used for: a list is a sequence | |
| `LinkedList` | `threads/list.h` with its nodes and pointers | |
| `Kernel` | threads, scheduler, semaphores, interrupts, timer | `Lists` |
| `SemaphoreSpec` | what `threads/synch.h` promises of a semaphore (abstract) | |
| `Synch` | Semaphore, Lock, Mutex, Condition as client code sees them | `Lists` |
| `DiningPh` | the monitor and its threads | `Synch` |
| `Barrier` | `Barrier::Wait` | `Synch` |
| `Processes` | Exec, Join, Exit, Fork, Halt; which frames a program has | `Synch` |
| `OpenFiles` | the file, console and socket system calls | `Synch` |
| `PostOffice` | post office, SynchList, network device, sockets, MailTest | `Synch` |
| `FileSys` | file system and SynchDisk | |
| `Devices` | interrupts in simulated time, timer, console, disk timing, ConsoleTest | `LinkedList` |
| `VirtualMemory` | paging, TLB, swap | |
| `Mips` | one instruction of the simulated processor | |
| `Interp`, `Disasm` | `bin/execute.c`; `bin/d.c` and `opstrings.c` | `Mips`; `Interp` |
| `UserMode` | user threads on the processor, the interpreter beside them | `Disasm` |
| `Loader` | `coff2noff`, `coff2flat`, the loaders of `bin/`, `AddrSpace` | |
| `Roundabout` | TareaProgramada1 | |
| `MC...` | constants for TLC | the module of that name |
| `DataProofs` | lemmas about lists and numbers | `Lists` |
| `KernelProofs`, `ProcessesProofs`, `OpenFilesProofs`, `PostOfficeProofs`, `DevicesProofs` | theorems | the module they are about |
| `SynchProofs` | theorems about the three programs that synchronise by themselves | `DiningPh`, `Barrier`, `Roundabout` |
| `StorageProofs` | theorems about memory and disk | `VirtualMemory`, `FileSys` |

**Grain of atomicity.** NachOS has one processor, and its kernel code runs with
interrupts off; it can lose the processor only in `SetLevel(IntOn)` (which runs
due handlers and may Yield), and in the explicit Sleep and Yield. An action of
`Kernel` is therefore one stretch of code between two such points. `pc` records
at which of them each thread is: `test` (in `P`, about to look at `value`),
`sleep` (in `Thread::Sleep`), `idle` (in `Interrupt::Idle`, a handler has run),
`enable` (at the `SetLevel` that ends a call) and so on. What threads do between
calls is arbitrary: any thread may make any call. `Run(t, next, st, away)` is
`Scheduler::Run` with both halves: the code after `SWITCH` belongs to `next`,
and a thread that runs for the first time starts in `ThreadRoot` and skips it.
In `Kernel` simulated time is abstracted: whichever interrupt is pending may be
due next.

`Synch` gives the same classes without the ready list: a thread that is on no
wait queue may run next. `Kernel` justifies this: its semaphores are shown to
implement `SemaphoreSpec`. Modules that extend `Synch` add a program counter for
their own threads and cut their code wherever an operation turns interrupts on.
In `Lock::Acquire`, `owner` is assigned after `P` has turned interrupts on, so
that is a step of its own; inside `Condition::Wait` interrupts are off, so
there it is not.

The other modules are cut the same way:

* **`Processes`**: the history variables `child` (the thread each process record
  was made for) and `parent` (the thread whose Fork made this one) are only read
  by properties. An `ASSERT` that fails sets `aborted`, after which nothing
  happens.
* **`OpenFiles`**: a system call is one step but where it sleeps (`semConsole`).
  Programs are arbitrary sequences of calls. The host hands out the lowest free
  descriptor, or refuses: Open returns -1 then, and Socket registers the -1. `hit` records whether each transfer reached the file the handle
  was opened for.
* **`FileSys`**: an operation is the sequence of sector transfers it makes, each
  one a request to the disk, the wait and the interrupt; what is computed
  in memory in between belongs to the step that starts the next transfer.
  `Crash` keeps the disk and loses the threads. The history `flags` record
  whether two modifications overlapped, whether a file was written after it was
  removed, and whether a sector that a crash left both free and in use has been
  allocated again. An Open that a Remove overtakes can read a header from a
  sector that holds data by then: what the bytes of data mean as a header is not
  modelled, the model stops there (`simulator` is "stale Open").
* **`PostOffice`**: each machine has its clients, a postal worker, a network
  device and a socket; `Boot` starts a machine at any time. Whether the network
  is reliable is chosen at the start; if not, any packet may be lost. `inbox` is
  the buffered packet, `sendDue` counts the `NetworkSendDone` interrupts that
  `Network::Send` has scheduled. `sendBusy` is not in the state: the code never
  makes it true (behaviour 16).
* **`Devices`** keeps `totalTicks`, the sorted list of pending interrupts and
  the devices' own state, for one thread: the one that reads and writes disk
  sectors, or runs ConsoleTest. Times are constants; only their order and
  divisibility matter.
* **`VirtualMemory`**: a load or a store is a step, a store that faults restarts
  after the handler as the machine restarts it. `flat` is what memory without
  paging would hold, `tainted` the pages an eviction has touched. Where
  `findPageToSwap` runs past the end of the page table, it either finds nothing or
  returns what is no page of the table, and the program stops; bytes there that
  look like an entry for one of its pages are left out.
* **`Mips`, `UserMode`**: a word has `WordBits` bits, a half word and a byte a
  half and a quarter of that, so that carries, sign extension and overflow can
  be enumerated. Each thread's program is a choice of instructions; after an
  instruction the processor may go to the other thread. `Interp` executes the
  same words on its own memory; an instruction on which its code is known to do
  something else than `mipssim.cc` (`Differs`, section 5) ends the comparison
  (`apart`).
* **`Loader`**: a byte is the name of the file, the section and the place it
  comes from, so that any byte that ends up in the wrong place is seen.
* **`Roundabout`**: each memory access of `carsInStreet[s] = carsInStreet[s] + 1`
  is a step, so that the semaphore has something to protect. `Kill` ends all
  processes at any moment and leaves the IPC objects; `Restart` runs `main`
  again. `ForkFails` ends `main` and leaves the cars it has forked, which go on
  (`orphaned`); that the program is started again before they have ended is left
  out. `SendFails` covers both ways `Mailbox::send` can exit: the queue is
  gone, or `strnlen` runs over the uninitialised rest of the buffer.

Operators whose comment begins with "Variant" are deliberately wrong forms
of the operator that follows. They are used by no specification; replacing the
operator by its variant must make TLC report the property named with it in
`PROJECT.json`, which shows that the property can fail.

## 3. What TLC checks

| run | instance | properties |
|---|---|---|
| `kernel` | 4 threads, 1 semaphore, 1 device, a timer or none, value at most 2 | `OnePlacePerThread`, `NoUseAfterDelete`, `NoLostWakeup`, `HaltOnlyWhenStuck`, `ReadyThreadRuns`, `ImplementsSemaphore` |
| `dining` | 4 philosophers, 2 rounds | `NoNeighboursEat`, `PickupGivesForks`, `EveryoneFinishes` |
| `barrier` | 4 threads | `NobodyLeavesEarly` |
| `processes` | 4 threads, 2 ids, 5 frames, programs of 1 + 1 pages, 3 Execs | `JoinWaits`, `IdsUnique`, `FramesSeparateUntilForkedExit` |
| `openfiles` | 2 threads, 2 files, 5 handles, 4 calls | `FilesReached`, `HandlesAreDescriptors`, `ReadsReturn` |
| `vm` | 3 pages, 2 frames, 2 TLB slots, 4 blocks of swap | `FramesExact`, `UntouchedPagesFlat`, `StoreCompletes` |
| `usermode` | 2 threads, words of 4 bits, 4 registers | `InStep`, `ArithmeticExact`, `PreciseExceptions`, `DisassemblyAgrees` |
| `filesys` | 2 threads, 2 names, 10 sectors of 2 bytes, 3 operations, 1 crash | `Consistent`, `FilesIntact`, `AssertionsHold` |
| `post` | 2 machines; MailTest on both, or 2 senders and 2 receivers | `MailInOrder`, `OneSend`, `HaltsTogether`, `ClientsEnd` |
| `devices` | 3 requests on 2 tracks of 3 sectors, or 3 inputs of up to 5 characters | `PendingExact`, `EchoInOrder`, `SectorUnderHead`, `ComesToHalt` |
| `loader` | 107 object files of up to 2 pages of code and of data, 2 Execs | `LoadedAsInterpreted`, `FlatAsInterpreted` |
| `roundabout` | 3 streets, 3 cars, limit 2, started twice | `CarsConserved`, `FreshStart`, `FullRoundaboutMoves`, `EveryCarQueuesUp` |

What they say:

* **Kernel.** A thread is on the processor, on the ready list or on one wait
  queue, once, and interrupts are off in the kernel. A thread whose destructor
  has run is reachable from nowhere. While threads sleep on a semaphore there is
  an awake thread in its `P` for every unit of value. Idle halts the machine
  only when nobody can ever run. With time slices on, a ready thread runs. Seen
  from outside, the semaphores are those of `SemaphoreSpec`.
* **DiningPh.** Neighbours do not eat together; `pickup` returns only with the
  forks although it waits under an `if`; everybody eats in every round.
* **Barrier.** Nobody continues before the last has arrived.
* **Processes.** Join waits for its child and an id is not reused while its
  process runs, for every id but 0; memory is separate and accounted for until a
  thread that shares its space exits. Both exceptions are exact: without
  them TLC finds the behaviours 3 and 4 of section 5.
* **OpenFiles.** A transfer through a handle of Open reaches the file that was
  opened, as long as nobody closes the console's handles. Handles and host
  descriptors are the same number as long as only one table is used, the
  console stays open and the host refuses no socket. A Read gets back from the console, whatever it reads from.
* **VirtualMemory.** Every marked frame belongs to one page in memory, also
  after evictions. Pages that no eviction touched are translated correctly and
  hold what was last written. A store that faults is restarted until it is done,
  or the program is stopped. `UntouchedPagesFlat` is as much of "paging is
  invisible" as holds: without `tainted` it fails (behaviour 6).
* **UserMode.** Wherever a thread is preempted, and across system calls, its
  registers, pending load, delayed branch and memory are those of an interpreter
  that runs the program alone. Products, quotients and overflow are those of the
  integers. An exception leaves registers and memory as before the instruction,
  with the load under way done. What the disassembler prints is what the machine
  does.
* **FileSys.** Between operations, the free map marks exactly what the directory
  and the headers use and no two files share a sector, unless the machine has
  crashed or two modifications overlapped. In every state, also after a
  crash, a file is found and holds the bytes last written, and reads return them.
  The disk never gets a second request.
* **PostOffice.** What was sent to a box is, in order and once, in the hands of
  its receivers, in the box, with the worker, in the inbox or in the socket. A
  machine has one packet at a time in the device, and its sender waits for that
  packet's own interrupt (`OneSend`). Send returns also when the
  packet is lost. A machine that halts at the end of MailTest leaves the other
  with all it needs. With a reliable network all clients end.
* **Devices.** The list of pending interrupts is a sorted, properly terminated
  list of exactly the interrupts that were scheduled and have not happened.
  ConsoleTest echoes what is typed, in order. A request ends when its sector has
  passed completely under the head, and a write at the first such moment. The machine
  comes to a halt.
* **Loader.** Whatever ran in its frames before, a program finds its code, and
  its data up to the end of the page in which the code ends, where the interpreter of `bin/`
  has them; the image of `coff2flat` is what that interpreter loads.
* **Roundabout.** No update of the counters is lost; a run starts clean whatever
  a killed one left; a full roundabout lets a car pass; no car is stuck before
  its turn.

**Bounds.** Kernel: two threads can sleep, one hold the processor and one be
woken at the same time; more waiters than units, and units taken before the
waiter runs, all occur; `MaxValue` only bounds the calls of V. Dining: with four
philosophers opposite ones can eat together and a philosopher can have one or
two eating neighbours; two rounds make a philosopher come back while its
neighbour still waits. Roundabout: three
cars exceed the limit of two and two of the three streets are ones the loops
visit, so the choice of the street with the most cars, the full branch of one
car and the last-car branch of another are all reached in one run; two starts
reach every state a killed run can leave. Processes: two ids make reuse happen,
five frames run out after two programs and a Fork. OpenFiles: four calls open a
file, close it, or a console handle, in another thread and use the number
again; the table fills up with two files. VirtualMemory: with
three pages, two frames and two slots every page can be evicted and come back,
and slots are replaced in turn. UserMode: one of six first instructions leaves a
load or a branch pending or changes registers, then every instruction of the
set follows, with
operands at the corners of the range, and a switch may come anywhere. FileSys:
two bytes a sector make requests within, across and at the end of sectors; a
directory entry lies across two sectors; three operations are enough for a
Create, a Remove and a third that uses what they left. PostOffice: MailTest has
a send, a receive, a send and a receive on each side; the second scenario has
contention on the device and on a mailbox. Devices: the times keep the order and
the non-divisibility of those of `stats.h`; timer delays that are shorter than
a tick are left out. Loader: sizes from nothing to two pages, of every
parity. The word "bound" marks every such constant in the modules.

**Deadlock** is checked in `kernel` and `dining`. Elsewhere the system may
really stop: threads stay asleep in `Barrier`, programs end or wait for a
process that never exits, machines halt, an `ASSERT` ends the simulator.

**Fairness.** `Kernel`: kernel code does not stop half way and programs
keep making calls (weak fairness of each thread's calls and steps); a pending
interrupt is due after finitely many ticks, and every kernel call ticks (strong
fairness of each interrupt, which is only enabled at ticks). `DiningPh`: a
thread that is not asleep is on the ready list, which is FIFO, and
the philosophers of `threadtest.cc` call Yield in every round (weak fairness per
thread); that a ready thread runs is what `ReadyThreadRuns` shows of `Kernel`.
`OpenFiles`: a thread in a system call goes on when it is not asleep (weak
fairness of the exception handler, per thread). `PostOffice`, `Devices`: the
simulator does not stop while anything can happen (weak fairness of the next
step); programs are finite. `VirtualMemory`: the machine goes on with the store
under way. `Roundabout`: the host schedules processes (weak fairness), and does
not refuse a semaphore for ever that is free again and again (strong fairness of
`sem_wait`); nothing forces `Kill` or `Restart`. `Barrier`, `Processes`,
`UserMode`, `FileSys` and `Loader` have safety properties only and no fairness.

## 4. What is proved

All proofs are for any values of the constants. The assumptions are the named
`ASSUME`s of the modules, and TLC evaluates them in the runs: the main
thread is a thread, `NULL` is none of the things it stands beside, sizes are
positive and large enough for one program (`Processes`) or for the console's
handles (`OpenFiles`), initial values are natural numbers, the timer is
not a device that does a V, the image of `VirtualMemory` is made of values,
there are at least two philosophers, a machine has a mailbox 0 and its clients run
sequences of calls (`PostOffice`), the times of `stats.h` and the disk's geometry
are positive and what is typed is a sequence (`Devices`), the disk has room for the
largest file and requests are for at least one byte (`FileSys`), and in `Kernel` and
`Barrier` the set of threads is finite, because the proofs count threads.

* **`KernelProofs`**. `TypeCorrect`: `Spec => []TypeOK`. `OnePlace` and
  `DeletedIsUnreachable` follow from the inductive invariant `IInv`. The property
  `OnePlacePerThread` is not inductive: when the head of the ready list is
  switched to, nothing says that it is not already running, or dead. `IInv` adds
  `StatusFollowsPc` (what the status of a thread may be at each place) and
  `CarcassesAreDead` (a thread to be destroyed cannot be woken, a deleted one is
  dead). There is one lemma per operation; `WakePlaced` serves `V` and the
  handlers, `DoYieldPlaced` serves `Yield` and the time slice.
  `SemaphoresCount`: `Spec => ImplementsSemaphore`, under the mapping that takes
  a thread to be waiting on `s` while `onSem` is `s`. `P` maps to `Enter`, the
  test that succeeds to `Leave`, `V` and device handlers to `V`, everything else
  to a stutter. It needs `OnSemExact`: a thread that resumes inside `P` really
  called one, although `Finish` goes through the same `Sleep`.
  `WakeupsAreKept` and `HaltsOnlyWhenStuck`: the first is a counting argument (V
  adds a unit and an awake thread, a successful test takes one of each, and a
  thread that goes to sleep found the value 0). The second uses it: when the
  ready list is empty nobody is awake, so a semaphore with sleepers has no value.
* **`SynchProofs`, dining philosophers**. `NeighboursApart`, `PickupReturnsEating`,
  `MonitorIsExclusive`, `HungryRemembered`, all from `DInv`. Its main additions
  are `OwnerInside` (`Signal` does nothing for a thread that is not the owner),
  `StateFollowsPc` (a hungry philosopher outside the monitor is asleep in Wait,
  so that `test` may let it eat on its behalf), and `Remembered`: a philosopher
  that waits has an eating neighbour or one that is in `putdown` and has not
  tested it yet.
* **`SynchProofs`, barrier**. `BarrierWaitsForAll` and `OneThreadPasses`, from `BInv`:
  the mutex's value and the threads inside it are one together, so `arrived`
  counts exactly the threads that have arrived, and `sem` has given at most one
  unit, which it got when they were all there.
* **`SynchProofs`, roundabout**. `NoCarIsLost` and `RunsStartClean` from `RInv`: a car
  is between `sem_wait` and `sem_post` alone (`SemExact`), so what it has read of
  the shared counters still holds when it writes them (`LocalsExact`), and
  counters, messages and cars that have passed always add up to the cars
  registered (`Conserved`), also in the middle of the loops that send the messages;
  `PhaseExact` says that a new run begins when all cars of the last are gone.
* **`ProcessesProofs`**. `IdsNotReused` and `JoinReturnsAfterExit` from `PInv`.
  That ids are unique depends on what every joiner will do: `TableExact` says
  that a marked id has the record of the thread that was given it,
  `ChildrenExact` that records are for threads Exec made, and `SignalledOnce` that
  a record's semaphore and the joiners that have passed it are at most one, and
  only after the child's Exit. So one of several joiners alone gets to clear the
  id, once. `MemoryIsPrivate` from `FInv`: the frames of the threads that have not
  exited are apart, but for the pages Fork shares, and exactly those are marked.
  It needs `FindBitsFree` about the repeated `BitMap::Find`.
* **`OpenFilesProofs`**. `TransfersReachTheirFile` and
  `ConnectMayPassTheHandle` from one invariant. For the first, `Apart`:
  the descriptors of the tables that Close works on are open and differ from each
  other and from the global table's, so that no Close takes away a file that
  Open gave out, and the host cannot give out its descriptor again. For the
  second, `Same`: while one table is used, the open descriptors below
  `MAX_OPEN_FILES` are its handles, so that the lowest free handle and the lowest
  free descriptor are the same number; it needs what becomes of descriptors
  when the table is full, and after a Close in the middle.
* **`StorageProofs`, virtual memory**. `FramesAreExact`, `UntouchedPagesAreFlat` and
  `NothingIsSwappedOut` from `Sound`. Its parts are `Exact` (marked frames and
  pages in memory are one to one), `SlotsRight` (a slot that an eviction left
  stale leads neither to the frame of an untouched page nor to a free one,
  otherwise a store through it would change that page), `Holds` (a free frame is
  full of zeros and a page not loaded yet is as in its file) and `Unswapped`.
  There is a lemma per helper of the page fault handler (`updateTLB`, `updatePT`,
  loading, eviction) and they are composed as the handler calls them.
* **`StorageProofs`, file system**. `FileSystemConsistent` and
  `FileSysAssertionsHold` from `FileSysSound`, which has two parts. `DiskServed`
  holds whatever happens, crashes included: the thread that waits for the disk is
  the owner of the lock (`LockExact`), so the disk is idle when the lock is free.
  `FilesExact` holds until the machine crashes or threads change the same thing
  at a time. `Consistent` says nothing of the middle of Create and Remove, where
  the map, the directory and the header are written one after the other;
  `FilesExact` says for each transfer what is on the disk already and what is only
  in memory. `Fetching`: the directory, map and header that an operation has read
  are those on the disk, because it is the only one that changes them.
  `Creating` and `Removing`: one entry `e` is in hand, the files of all other
  entries are apart from its sectors, and the map is theirs without, or with, those
  of `e`. The entry that lies across the two sectors of the directory is the
  difficult one: between the two writes its first half is new and its name is
  old, and the proof works for any place of it. Reads and writes of open files go on
  meanwhile: they change data sectors of files in the directory only
  (`DataRequested`), which disturbs neither (the lemmas from `DataWritten` to
  `DataExact`). There is a lemma per kind of transfer for the request and for what
  comes after it, and the disk, the map and the run are parameters of the
  definitions, so that what is proved of the disk before a write applies to the one
  after it.
  `FilesIntactWithoutCrashes`: until the machine crashes, `FilesIntact` holds, in the
  middle of operations too. Three more layers lie on top of `FilesExact`, and each
  uses those below it. `Measured`: what a header or a request names lies within its file,
  and the sectors of one header are all different. `Listing`: every living file is
  found in the first entry with its name, and that entry is the same in the
  directory that is being written back. This needs proof because the entry across
  the two directory sectors bears its old name for a while, in use, and `FindFile`
  takes the first match. `Intact`: the bytes of living files are those last
  written (`BytesKept`), and the buffer of each transfer that no write overtakes
  holds them too, in a partial `WriteAt` those around the new bytes (`BufferKept`),
  since it writes whole sectors and puts back what it has read before.
  `AllocatesFreeSectors` says that what `FilesIntact` excepts for sectors that are
  allocated twice comes from crashes only. The first
  attempt at this proof did not go through, and showed an error of the model: a read
  through a handle of a removed file, whose name a Create had in hand again, was
  compared with bytes of the file before. `lastRead` now judges a read only when
  the file lives; the bounds of `filesys` are too small to reach the case.
* **`PostOfficeProofs`**. `OneSendAtATime` and
  `MailStaysInOrder` from `OInv`. `SendExact`: one thread of a machine is
  between `sendLock`'s P and V, and the interrupts that are due and the units of
  `messageSent` are together one while it waits there, and none otherwise; so no
  sender goes on with the interrupt of another's packet, also when the network
  lost one. `InboxExact`: `messageAvailable`
  and the worker that has passed it are together the number of buffered packets,
  nought or one, so the worker never fetches a packet that is not there and
  `CheckPktAvail` never overwrites one. Both are needed before the order of mail
  can be followed. `MailInOrder` says of each mailbox which of the accepted
  packets it has got, by an increasing map from what was taken and is queued to the
  packets of the socket: the proof gives that map after each step. It is
  unchanged until the worker appends a packet, and then grows by one.
  `MailTestHaltsTogether` adds, for the two machines that run MailTest (the other
  threads of the machines make no calls; with programs that do not halt a machine
  there is nothing to show), what each side knows of the other (`Talking`): whatever
  has come to a machine was sent by the other one, to box 1 only once that side
  is in its second `Send`, and a thread that holds mail of box 1, or is past it, has
  a machine to which such mail came. So a machine that halts has the
  acknowledgement of the other, which was sent by a machine that was up and did
  not fail in it; its own has gone out before, and was accepted unless the
  network loses packets. Loss, late starts and any interleaving of the postal
  workers are covered; that the addresses differ is the only assumption.
* **`DevicesProofs`** has three invariants, each of which uses the one before.
  `EchoedInOrder` from `EInv`: the character of the keyboard is in `incoming`
  exactly while `readAvail` has a unit or ConsoleTest is on its way to fetch it
  (`OneIncoming`), which is why a second one does not overwrite it.
  `PendingListExact` and `NoDeviceAborts` from `MInv`: each device that is at
  work has exactly one interrupt booked (`BookedExact`), what it ends with is a unit
  its one caller waits for (`UnderWay`), and the list, followed from `first`
  by the `next` pointers to `last`, is what is booked. The lemmas about
  `LinkedList` state for each operation what a list holds afterwards (`InsertHolds`,
  `RemoveHolds`, `AppendHolds`); the path of the pointers is a recursive function of
  the number of steps, and facts about it are proved by taking the least number
  of steps for which they fail. That nothing is overdue (`OnTime`) is not obvious:
  `CheckIfDue` puts back what it does not fire, behind interrupts of the same time,
  so a timer and a disk interrupt of one tick change places in an idle machine
  each time it looks, and the proof has to say which is first and when.
  `DiskTurns` from `HInv`: with `Quotient` and `Division` for `/` and `%` of any
  rotation time, the moment `ModuloDiff` and `ComputeLatency` compute is the first
  at which the sector is under the head, and the track buffer was begun at the
  start of a sector and not after now (`bufferInit`), also when a seek discards it.
* **`DataProofs`** has what these need of lists and sets of numbers: the
  elements of a list after Append and Tail, Min, Max, and the k-th smallest.
  Facts that need induction are proved from the library's theorem that `<` is
  well founded on the naturals, by taking a least counterexample.

Only model-checked: liveness (`ReadyThreadRuns`, `EveryoneFinishes`,
`FullRoundaboutMoves`, `EveryCarQueuesUp`, `StoreCompletes`, `ReadsReturn`,
`ClientsEnd`, `ComesToHalt`), because fairness and ENABLED are out of the
prover's reach; the properties of `UserMode` and `Loader`, which are about what
bitwise operators, unknown to the prover, and definitions that recurse over data
compute; and `FilesIntact` of `FileSys` after a crash, where only some of
`FilesExact` is left and an invariant would have to say which sectors each
operation that was cut short has lost or marked.

## 5. Where the code and its comments disagree

The models follow the code, and their properties are stated so that they hold of
it; these are the places where a comment promises more, or two parts of the code
do not agree. Where a property makes an exception, it is for one of these.

1. `Barrier::Wait` signals once; `synch.h` says that all threads "can continue".
   One does (`OneThreadPasses`), the others sleep for ever.
2. Streets are numbered from 1 and looped over from 0 (`main.cpp`): the last car
   does not let the cars of the last street pass, and `main` waits for ever.
3. Threads that Exec did not make have id 0, like the first process Exec makes:
   the Exit of a forked thread lets a Join on that process return while it runs
   (`syscall.h`: "Only return once the the user program "id" has finished").
4. `~AddrSpace` clears frames that a forked thread shares with its parent; the
   next Exec loads over them.
5. `threadToBeDestroyed` can be overwritten before the thread it points to is
   deleted: a leak, and nothing else, as `NoUseAfterDelete` shows.
6. `vm:` dirty bits are set in the TLB and looked for in the page table: a
   modified page is dropped when it is evicted (`addrspace.cc`: "move page from
   main memory to swap ONLY IF IT IS DIRTY"), and its TLB entry stays valid;
   the swap file is never written (`NothingIsSwappedOut`).
   `readOnly` of a TLB entry is never initialised.
7. `iteratorCreate` is never reset: the second Create of a run reads behind
   the name and overruns its buffer.
8. Close works on the thread's own table, which only Socket fills, Open on the
   global one; the console's handles are in every thread's table, and a second
   Close of one closes the host's descriptor again, by then another file's; `usage` is never incremented; Connect passes the handle to the
   host as a descriptor; a socket that the host refuses gets a handle for -1;
   Write on a socket returns -1; the two socket types are
   swapped; Bind, Listen, Accept and Shutdown do not advance the program counter.
9. A child whose file cannot be opened never signals its process record, and
   Exit signals before it frees its frames.
10. `bin/execute.c` is not the machine of `mipssim.cc`: see `Differs` in
    `UserMode` (OR, SRL, the immediate logic instructions, MULT, branches in
    delay slots, JALR into its own register, LWL and LWR); `d.c` prints MFLO with
    `rs` and JALR without `rd`.
11. A typed character equal to `(char) EOF` is taken for "no character" and
    overtaken by the next one. `ConsoleTest` on a file that ends with its `q`
    (`progtest.cc`: "Stop when the user types a 'q'") may read past the end and
    abort.
12. The data segment is loaded by `for (offset = codeSegmentPages; offset <
    dataSegmentPages; ...)`: data beyond the last page of the code is
    missing. The bss is not cleared in reused frames (`noff.h`: "should be
    zero'ed before use").
13. `coff2noff` refuses `.bss` and `.sbss` exactly when they are contiguous; its
    comment says "make sure they are contiguous".
14. Create and Remove that overlap lose updates, and a crash between the three
    writes of Create leaves a file whose sectors are free; the next
    Create then takes them. An Open that a Remove overtakes reads its header
    from a sector that is free, and that may hold data by then.
15. A packet to a machine that has not been started, or has halted, fails an
    `ASSERT` and ends the sender.
16. `Network::sendBusy` (`network.h`: "Packet is being sent.") is only ever
    assigned `false` (`network.cc`, lines 36 and 90): `Network::Send` does not set
    it, so that its `ASSERT` that it is false can never fail and guards nothing.
    What it should guard holds all the same, because of `sendLock` and
    `messageSent`: `OneSend` states it, `OneSendAtATime` proves it.
17. `PostalDelivery` does not look at the length `Network::Receive` returns: if it
    were called with no packet buffered it would deliver its last mail again. It
    is not, as `MailInOrder` shows.
18. `fork` that fails ends `main` (`main.cpp`, line 79) but not the cars already
    forked, and leaves the IPC objects behind.

## 6. Not modelled, and why

* `threads/preemptive.cc`: a `ptrace` and `SIGALRM` harness of the host. Its
  effect, a Yield at any moment, is a behaviour of `Kernel`.
* `switch.s`, stack allocation, the stack fencepost: machine code below the
  grain of the models.
* `Condition::Broadcast`: no code of the repository calls it. The Sem, Lock and
  Cond system calls are empty functions.
* The rest of `machine/sysdep.cc`, `stats.cc`, `utility.cc`, `main.cc`, `fstest.cc`,
  the debugger, `Print` and `DumpState`: host calls, counters, formatting.
* `bin/out.c` and the traces and cache simulation of `bin/`: output only.
* User test programs, `c++example`, the notebooks: inputs of the system,
  teaching material, data analysis.
* `proyectos/vm` repeats most files of `proyectos/NachOSx64` line for line; a
  definition names one of the two copies.

A theorem that would come next: `FilesIntact` after crashes, from what is left of
`FilesExact` when an operation is cut short.
