----------------------------- MODULE Processes -----------------------------
(***************************************************************************)
(* User processes of the userprog project: the system calls Exec, Join,    *)
(* Exit, Fork and Halt of userprog/exception.cc, with the tables they keep *)
(* (processMap, processTable), and the address spaces of                   *)
(* userprog/addrspace.cc, which take page frames from memoryMap.           *)
(*                                                                         *)
(* A system call runs without interruption up to the next call that turns  *)
(* interrupts on (a P, a V, a Thread::Fork, a Yield): one action each.     *)
(* Programs are arbitrary sequences of system calls.                       *)
(***************************************************************************)
EXTENDS Synch, Integers, FiniteSets, FiniteSetsExt

CONSTANTS
    Threads,       \* kernel threads the programs may ever create
    Main,          \* the thread that runs the first program
    NumIds,        \* BITMAP_SIZE (128 in the code)
    NumPhysPages,  \* page frames of the machine (32)
    SharedPages,   \* pages of a program's code and data
    StackPages,    \* pages of its stack (8)
    MaxExecs       \* bound: process records Exec may allocate

ASSUME SizesAssumption ==
    /\ {NumIds, NumPhysPages, SharedPages, StackPages} \subseteq Nat \ {0}
    /\ MaxExecs \in Nat
    /\ SharedPages + StackPages <= NumPhysPages
ASSUME MainAssumption == Main \in Threads /\ NULL \notin Threads \union Nat

VARIABLES
    pc,            \* where each thread is
    id,            \* Thread::id, 0 unless Exec set it
    parent,        \* the thread whose Fork made this one (history)
    frames,        \* physicalPage of every page of each thread's space
    memoryMap,     \* frames marked in the BitMap memoryMap
    processMap,    \* ids marked in the BitMap processMap
    processTable,  \* the process record of each id; record k has semaphore k
    execs,         \* process records allocated
    child,         \* the thread each process record was made for (history)
    joining,       \* the record and the id of the Join a thread is in
    aborted        \* an ASSERT failed

procVars == <<processMap, processTable, execs, child>>
vars == <<synchVars, pc, id, parent, frames, memoryMap, procVars, joining,
          aborted>>

Ids == 0 .. NumIds - 1
Frames == 0 .. NumPhysPages - 1
NumPages == SharedPages + StackPages
Records == 1 .. MaxExecs

Init ==
    /\ value = [k \in Records |-> 0]
    /\ queue = [k \in Records |-> <<>>]
    /\ owner = << >> /\ waiters = << >>        \* no locks, no conditions
    /\ pc = [t \in Threads |-> IF t = Main THEN "run" ELSE "unused"]
    /\ id = [t \in Threads |-> 0]
    /\ parent = [t \in Threads |-> NULL]
    /\ frames = [t \in Threads |->
                    IF t = Main THEN [p \in 1 .. NumPages |-> p - 1] ELSE << >>]
    /\ memoryMap = 0 .. NumPages - 1           \* StartProcess loaded Main
    /\ processMap = {}
    /\ processTable = [i \in Ids |-> NULL]
    /\ execs = 0
    /\ child = [k \in Records |-> NULL]
    /\ joining = [t \in Threads |-> NULL]
    /\ aborted = FALSE

(* BitMap::Find called n times on a map of "size" bits: the first clear    *)
(* bits in ascending order, then -1.                                       *)
FindBits(marked, size, n) ==
    [j \in 1 .. n |->
        LET clear == {b \in 0 .. size - 1 : b \notin marked}
            jth == {b \in clear : Cardinality({c \in clear : c < b}) = j - 1}
        IN  IF jth = {} THEN -1 ELSE CHOOSE b \in jth : TRUE]

Goto(t, from, to) == ~aborted /\ pc[t] = from /\ pc' = [pc EXCEPT ![t] = to]

-----------------------------------------------------------------------------
(* NachOS_Exec: reserve an id and a process record, Fork the child thread. *)
(* The result is 0, whatever the id.                                       *)
Exec(t, c) ==
    /\ ~aborted /\ pc[t] = "run" /\ pc[c] = "unused" /\ execs < MaxExecs
    /\ LET i == FindBits(processMap, NumIds, 1)[1]
           k == execs + 1
       IN  /\ i # -1
           /\ processMap' = processMap \union {i}
           /\ processTable' = [processTable EXCEPT ![i] = k]
           /\ execs' = k
           /\ child' = [child EXCEPT ![k] = c]
           /\ id' = [id EXCEPT ![c] = i]
           /\ pc' = [pc EXCEPT ![c] = "execStart"]
    /\ UNCHANGED <<synchVars, parent, frames, memoryMap, joining, aborted>>

(* NachOS_Exec with no id left: the result is -1. *)
ExecFails(t) ==
    /\ Goto(t, "run", "run")
    /\ FindBits(processMap, NumIds, 1)[1] = -1
    /\ UNCHANGED <<synchVars, id, parent, frames, memoryMap, procVars, joining,
                   aborted>>

(* Variant: the frames are not marked. *)
LoadUnmarked(c) ==
    /\ Goto(c, "execStart", "run")
    /\ NumPages <= NumPhysPages - Cardinality(memoryMap)
    /\ frames' = [frames EXCEPT ![c] = FindBits(memoryMap, NumPhysPages, NumPages)]
    /\ UNCHANGED <<synchVars, id, parent, memoryMap, procVars, joining, aborted>>

(* NachosAssistExec: the child loads the program into free frames; the     *)
(* constructor asserts that there are enough.                              *)
Load(c) ==
    /\ Goto(c, "execStart", "run")
    /\ IF NumPages <= NumPhysPages - Cardinality(memoryMap)
          THEN /\ frames' = [frames EXCEPT ![c] =
                                FindBits(memoryMap, NumPhysPages, NumPages)]
               /\ memoryMap' = memoryMap \union
                     {frames'[c][p] : p \in 1 .. NumPages}
               /\ UNCHANGED aborted
          ELSE /\ aborted' = TRUE
               /\ UNCHANGED <<frames, memoryMap>>
    /\ UNCHANGED <<synchVars, id, parent, procVars, joining>>

(* NachosAssistExec: the file cannot be opened, the thread returns and     *)
(* finishes; nobody signals the process record.                            *)
LoadFails(c) ==
    /\ Goto(c, "execStart", "dead")
    /\ UNCHANGED <<synchVars, id, parent, frames, memoryMap, procVars, joining,
                   aborted>>

(* NachOS_Fork: the child shares code and data and has a stack of its own. *)
(* Nothing checks that frames are left: physicalPage may become -1.        *)
Fork(t, c) ==
    /\ ~aborted /\ pc[t] = "run" /\ pc[c] = "unused"
    /\ pc' = [pc EXCEPT ![c] = "run"]
    /\ parent' = [parent EXCEPT ![c] = t]
    /\ LET stack == FindBits(memoryMap, NumPhysPages, StackPages) IN
       /\ frames' = [frames EXCEPT ![c] =
             [p \in 1 .. NumPages |-> IF p <= SharedPages THEN frames[t][p]
                                      ELSE stack[p - SharedPages]]]
       /\ memoryMap' = memoryMap \union
             ({stack[p] : p \in 1 .. StackPages} \intersect Frames)
    /\ UNCHANGED <<synchVars, id, procVars, joining, aborted>>

(* Variant: Join frees the id before it waits. *)
JoinFreesFirst(t, i) ==
    /\ Goto(t, "run", "joining")
    /\ i \in processMap
    /\ processMap' = processMap \ {i}
    /\ joining' = [joining EXCEPT ![t] = [record |-> processTable[i], id |-> i]]
    /\ UNCHANGED <<synchVars, id, parent, frames, memoryMap, processTable, execs,
                   child, aborted>>

(* NachOS_Join: only if the id is marked; P on the record's semaphore.     *)
Join(t, i) ==
    /\ Goto(t, "run", "joining")
    /\ i \in processMap
    /\ joining' = [joining EXCEPT ![t] = [record |-> processTable[i], id |-> i]]
    /\ UNCHANGED <<synchVars, id, parent, frames, memoryMap, procVars, aborted>>

JoinPass(t) ==
    /\ Goto(t, "joining", "joined")
    /\ Pass(t, joining[t].record)
    /\ UNCHANGED <<owner, waiters, id, parent, frames, memoryMap, procVars,
                   joining, aborted>>

JoinBlock(t) ==
    /\ Goto(t, "joining", "joining")
    /\ Block(t, joining[t].record)
    /\ UNCHANGED <<owner, waiters, id, parent, frames, memoryMap, procVars,
                   joining, aborted>>

(* NachOS_Join after P: the id is free again. *)
JoinReturn(t) ==
    /\ Goto(t, "joined", "run")
    /\ processMap' = processMap \ {joining[t].id}
    /\ joining' = [joining EXCEPT ![t] = NULL]
    /\ UNCHANGED <<synchVars, id, parent, frames, memoryMap, processTable, execs,
                   child, aborted>>

(* Variant: Exit signals the newest process record. *)
ExitSignalsNewest(t) ==
    /\ Goto(t, "run", "exiting")
    /\ IF execs = 0 THEN UNCHANGED <<value, queue>> ELSE V(execs)
    /\ UNCHANGED <<owner, waiters, id, parent, frames, memoryMap, procVars,
                   joining, aborted>>

(* NachOS_Exit: signal the record found under the thread's id, if any.     *)
Exit(t) ==
    /\ Goto(t, "run", "exiting")
    /\ LET k == processTable[id[t]] IN
       IF k = NULL THEN UNCHANGED <<value, queue>> ELSE V(k)
    /\ UNCHANGED <<owner, waiters, id, parent, frames, memoryMap, procVars,
                   joining, aborted>>

(* NachOS_Exit after V: delete the address space, which clears the frame   *)
(* of every page, shared or not; clearing bit -1 fails an ASSERT.  Finish. *)
ExitFree(t) ==
    /\ Goto(t, "exiting", "dead")
    /\ LET mine == {frames[t][p] : p \in 1 .. NumPages} IN
       /\ memoryMap' = memoryMap \ mine
       /\ aborted' = (-1 \in mine)
    /\ UNCHANGED <<synchVars, id, parent, frames, procVars, joining>>

(* NachOS_Halt: the calling thread finishes, and only it. *)
Halt(t) ==
    /\ Goto(t, "run", "halted")
    /\ UNCHANGED <<synchVars, id, parent, frames, memoryMap, procVars, joining,
                   aborted>>

-----------------------------------------------------------------------------
Next ==
    \/ \E t, c \in Threads : Exec(t, c) \/ Fork(t, c)
    \/ \E t \in Threads, i \in Ids : Join(t, i)
    \/ \E t \in Threads :
          \/ ExecFails(t) \/ Load(t) \/ LoadFails(t)
          \/ JoinPass(t) \/ JoinBlock(t) \/ JoinReturn(t)
          \/ Exit(t) \/ ExitFree(t) \/ Halt(t)

Spec == Init /\ [][Next]_vars

-----------------------------------------------------------------------------
HasExited(t) == pc[t] \in {"exiting", "dead"}

(* "Only return once the user program id has finished", for every id but   *)
(* 0: Join gets past P only after the process it names called Exit.        *)
(* Threads that Exec did not make, the main thread and those of Fork, have *)
(* id 0 too, and signal record 0 when they exit.                           *)
JoinWaits ==
    \A t \in Threads :
        pc[t] = "joined" /\ joining[t].id # 0 => HasExited(child[joining[t].record])

(* Two programs that run never have the same id, and the table still has   *)
(* their record, for every id but 0: Join frees an id only after its       *)
(* process exited, whichever of several joiners comes first.               *)
IdsUnique ==
    \A k \in 1 .. execs :
        LET c == child[k] IN
        ~HasExited(c) /\ id[c] # 0 =>
            id[c] \in processMap /\ processTable[id[c]] = k

UsesFrames(t) == pc[t] \in {"run", "joining", "joined", "exiting"}
FramesOf(t) == {frames[t][p] : p \in DOMAIN frames[t]} \ {-1}
Forked(t) == parent[t] # NULL \/ \E u \in Threads : parent[u] = t

(* Stacks of all threads and all memory of unrelated programs are separate,*)
(* and every frame in use is marked.                                       *)
FramesSeparate ==
    /\ \A t, u \in Threads :
          t # u /\ UsesFrames(t) /\ UsesFrames(u) =>
             \A p, q \in 1 .. NumPages :
                frames[t][p] = frames[u][q] /\ frames[t][p] # -1 =>
                   p = q /\ p <= SharedPages /\ Forked(t) /\ Forked(u)
    /\ \A t \in Threads : UsesFrames(t) => FramesOf(t) \subseteq memoryMap

(* Memory is separate as long as no thread of a program that called Fork   *)
(* has exited; and no frame is lost then: the frames marked are those of   *)
(* the threads that run and of those that called Halt.                     *)
FramesSeparateUntilForkedExit ==
    ~aborted /\ (\A t \in Threads : pc[t] = "dead" => ~Forked(t)) =>
        /\ FramesSeparate
        /\ memoryMap = UNION {FramesOf(t) : t \in
                                {u \in Threads : UsesFrames(u) \/ pc[u] = "halted"}}
=============================================================================
