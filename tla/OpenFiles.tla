----------------------------- MODULE OpenFiles -----------------------------
(***************************************************************************)
(* The system calls on files and sockets (userprog/exception.cc), the      *)
(* tables of open files (userprog/nachosOpenFilesTable.cc) and the host's  *)
(* descriptors below them.  There is a global table, which Open, Read and  *)
(* Write use, and one per thread, shared by Fork, which Socket, Connect    *)
(* and Close use.  Programs are arbitrary sequences of system calls.       *)
(***************************************************************************)
EXTENDS Synch, Integers, FiniteSetsExt

CONSTANTS
    Threads, Main,
    Names,           \* of files
    MAX_OPEN_FILES,  \* 32 in the code
    MaxFd,           \* bound: the host's largest descriptor
    MaxCalls         \* bound: system calls made

ASSUME SizesAssumption ==
    MAX_OPEN_FILES \in Nat /\ MAX_OPEN_FILES >= 3 /\ MaxFd \in Nat /\ MaxFd >= 2
ASSUME ThreadsAssumption ==
    Main \in Threads /\ {"global", "console", "failed"} \intersect Threads = {}
ASSUME NullAssumption == NULL \notin [kind : {"file"}, name : Names]

VARIABLES
    call,       \* the system call each thread is in, as start.s left it in the registers
    r2,         \* the last result of each thread
    global,     \* nachosOpenFilesTable
    tables,     \* the tables that Thread::Thread allocated, one for each thread
    openFiles,  \* Thread::openFiles: whose table a thread uses
    fds,        \* host: what each descriptor is open on
    created,    \* iteratorCreate > 0
    ipv6,       \* socketMap
    status,
    meant,      \* history: the object that a handle was given to the thread for
    hit,        \* history: did the last Read or Write work on the file it was meant for?
    used,       \* history: the tables that a handle was taken from; "console" was closed;
                \* a socket has "failed"
    calls

tablesVars == <<global, tables, openFiles>>
history == <<meant, hit, used>>
vars == <<synchVars, call, r2, tablesVars, fds, created, ipv6, status, history, calls>>

Console == {0, 1, 2}
ConsoleInput == 0
ConsoleOutput == 1
ConsoleError == 2
Handles == 0 .. MAX_OPEN_FILES - 1
Fds == 0 .. MaxFd
semConsole == "semConsole"

Closed == [kind |-> "closed", name |-> NULL]
Object(kind, name) == [kind |-> kind, name |-> name]
User == [op |-> "none", h |-> 0, name |-> NULL]

(* NachosOpenFilesTable::NachosOpenFilesTable *)
NewTable == [map |-> Console, unix |-> [h \in Handles |-> IF h \in Console THEN h ELSE -1], usage |-> 1]

Init ==
    /\ value = [s \in {semConsole} |-> 1] /\ queue = [s \in {semConsole} |-> <<>>]
    /\ owner = <<>> /\ waiters = <<>>
    /\ call = [t \in Threads |-> IF t = Main THEN User ELSE [User EXCEPT !.op = "unused"]]
    /\ r2 = [t \in Threads |-> 0]
    /\ global = NewTable /\ tables = [t \in Threads |-> NewTable]
    /\ openFiles = [t \in Threads |-> t]
    /\ fds = [d \in Fds |-> IF d \in Console THEN Object("console", NULL) ELSE Closed]
    /\ created = FALSE /\ ipv6 = {} /\ status = "running"
    /\ meant = [t \in Threads |-> [h \in Handles |-> NULL]]
    /\ hit = TRUE /\ used = {} /\ calls = 0

-----------------------------------------------------------------------------
(* The table of t; NachosOpenFilesTable::Open, Close and getUnixHandle *)
Own(t) == tables[openFiles[t]]

TableOpen(tab, fd) ==
    IF Handles \subseteq tab.map THEN [handle |-> -1, table |-> tab]
    ELSE LET h == Min(Handles \ tab.map)
         IN  [handle |-> h, table |-> [tab EXCEPT !.map = @ \union {h}, !.unix[h] = fd]]

TableCloseForgotten(tab, h) == tab           \* variant: only the host closes
TableClose(tab, h) == [tab EXCEPT !.map = @ \ {h}, !.unix[h] = -1]
delThread(tab) == [tab EXCEPT !.usage = @ - 1]
isOpened(tab, h) == h \in tab.map
getUnixHandle(tab, h) == IF isOpened(tab, h) THEN tab.unix[h] ELSE -1

(* The host gives out the lowest descriptor. *)
Free == {d \in Fds : fds[d] = Closed}
FreeFd == Min(Free)
HostOpen(object) == Free # {} /\ fds' = [fds EXCEPT ![FreeFd] = object]

(* A program calls a stub of start.s, which leaves the number of the call  *)
(* in r2 and traps.                                                        *)
Trap(t, c) ==
    /\ status = "running" /\ call[t] = User /\ calls < MaxCalls
    /\ call' = [call EXCEPT ![t] = c] /\ calls' = calls + 1
    /\ UNCHANGED <<synchVars, r2, tablesVars, fds, created, ipv6, status, history>>

(* ExceptionHandler found the call; returnFromSystemCall with its result.  *)
Serves(t, op) == status = "running" /\ ~Asleep(t) /\ call[t].op = op
Returns(t, result) == /\ call' = [call EXCEPT ![t] = User]
                      /\ r2' = [r2 EXCEPT ![t] = result]

-----------------------------------------------------------------------------
(* NachOS_Create: iteratorCreate is not reset, so the second name that is  *)
(* read is empty and OpenForWrite fails its ASSERT.                        *)
Create(t) ==
    /\ Serves(t, "Create")
    /\ \/ ~created /\ created' = TRUE /\ Returns(t, 0) /\ UNCHANGED status
       \/ created /\ status' = "ASSERT Create" /\ UNCHANGED <<call, r2, created>>
    /\ UNCHANGED <<synchVars, tablesVars, fds, ipv6, history, calls>>

(* NachOS_Open: the host opens the file, the global table gets a handle.   *)
(* When the table is full the host's descriptor stays open.                *)
Open(t) ==
    LET object == Object("file", call[t].name)
        opened == TableOpen(global, FreeFd)
    IN  /\ Serves(t, "Open")
        /\ HostOpen(object) /\ global' = opened.table
        /\ Returns(t, opened.handle)
        /\ meant' = IF opened.handle = -1 THEN meant ELSE [meant EXCEPT ![t][opened.handle] = object]
        /\ used' = used \union {"global"}
        /\ UNCHANGED <<synchVars, tables, openFiles, created, ipv6, status, hit, calls>>

(* The host refuses to open the file. *)
OpenFails(t) ==
    /\ Serves(t, "Open") /\ Returns(t, -1)
    /\ UNCHANGED <<synchVars, tablesVars, fds, created, ipv6, status, history, calls>>

(* The host's read or write on descriptor d is for the file that t means. *)
Reaches(t, h, d) == meant[t][h] \in [kind : {"file"}, name : Names] => fds[d] = meant[t][h]

(* Variant: the handle is taken for the host's descriptor. *)
WriteByHandle(t) ==
    LET h == call[t].h
    IN  /\ Serves(t, "Write")
        /\ IF isOpened(global, h) /\ h \notin Console
           THEN Returns(t, 1) /\ hit' = Reaches(t, h, h)
           ELSE Returns(t, IF h \in {1, 2} THEN 1 ELSE -1) /\ UNCHANGED hit
        /\ UNCHANGED <<synchVars, tablesVars, fds, created, ipv6, status, meant, used, calls>>

(* NachOS_Write.  BitMap::Test asserts that the handle is in range.  The   *)
(* result of the host's write is not looked at.                            *)
Write(t) ==
    LET h == call[t].h
    IN  /\ Serves(t, "Write")
        /\ \/ /\ h \in {ConsoleOutput, ConsoleError} /\ Returns(t, 1) /\ UNCHANGED <<status, hit>>
           \/ /\ h \notin Handles /\ status' = "ASSERT Test" /\ UNCHANGED <<call, r2, hit>>
           \/ /\ h = ConsoleInput \/ (h \in Handles \ Console /\ ~isOpened(global, h))
              /\ Returns(t, -1) /\ UNCHANGED <<status, hit>>
           \/ /\ h \in Handles \ Console /\ isOpened(global, h)
              /\ Returns(t, 1) /\ hit' = Reaches(t, h, getUnixHandle(global, h)) /\ UNCHANGED status
        /\ UNCHANGED <<synchVars, tablesVars, fds, created, ipv6, meant, used, calls>>

(* NachOS_Read: one at a time.  P ... *)
ReadEnter(t) ==
    /\ Serves(t, "Read") /\ Pass(t, semConsole)
    /\ call' = [call EXCEPT ![t].op = "reading"]
    /\ UNCHANGED <<owner, waiters, r2, tablesVars, fds, created, ipv6, status, history, calls>>

ReadBlocks(t) ==
    /\ Serves(t, "Read") /\ Block(t, semConsole)
    /\ UNCHANGED <<owner, waiters, call, r2, tablesVars, fds, created, ipv6, status, history, calls>>

(* ... then the console's characters, as many as come before the end of    *)
(* the input, or what the host reads, and V.                               *)
ReadResult(t) ==
    LET h == call[t].h
        d == getUnixHandle(global, h)
    IN  \/ /\ h = ConsoleInput /\ \E n \in 0 .. 1 : Returns(t, n)
           /\ UNCHANGED hit
        \/ /\ h = ConsoleOutput \/ (h \in Handles \ Console /\ ~isOpened(global, h))
           /\ Returns(t, -1) /\ UNCHANGED hit
        \/ /\ h \in Handles \ {ConsoleInput, ConsoleOutput} /\ isOpened(global, h)
           /\ \E n \in (IF fds[d] = Closed THEN {-1} ELSE 0 .. 1) : Returns(t, n)
           /\ hit' = Reaches(t, h, d)

(* Variant: a Read that fails keeps the semaphore. *)
ReadKeepsSemaphore(t) ==
    /\ Serves(t, "reading")
    /\ ReadResult(t)
    /\ IF r2'[t] = -1 THEN UNCHANGED <<value, queue>> ELSE V(semConsole)
    /\ UNCHANGED <<owner, waiters, tablesVars, fds, created, ipv6, status, meant, used, calls>>

Read(t) ==
    /\ Serves(t, "reading")
    /\ \/ ReadResult(t) /\ V(semConsole) /\ UNCHANGED status
       \/ call[t].h \notin Handles /\ status' = "ASSERT Test" /\ UNCHANGED <<value, queue, call, r2, hit>>
    /\ UNCHANGED <<owner, waiters, tablesVars, fds, created, ipv6, meant, used, calls>>

(* NachOS_Close: the thread's own table. *)
Close(t) ==
    LET h == call[t].h
        d == getUnixHandle(Own(t), h)
    IN  /\ Serves(t, "Close")
        /\ \/ h \notin Handles /\ status' = "ASSERT Test" /\ UNCHANGED <<call, r2, tables, fds, used>>
           \/ /\ h \in Handles /\ ~isOpened(Own(t), h) /\ Returns(t, -1)
              /\ UNCHANGED <<tables, fds, used, status>>
           \/ /\ h \in Handles /\ isOpened(Own(t), h)
              /\ tables' = [tables EXCEPT ![openFiles[t]] = TableClose(@, h)]
              /\ fds' = [fds EXCEPT ![d] = Closed]
              /\ Returns(t, IF d = -1 \/ fds[d] = Closed THEN -1 ELSE 0)
              /\ used' = IF h \in Console THEN used \union {"console"} ELSE used
              /\ UNCHANGED status
        /\ UNCHANGED <<synchVars, global, openFiles, created, ipv6, meant, hit, calls>>

-----------------------------------------------------------------------------
(* NachOS_Socket: a socket of the host in the thread's own table; IPv6     *)
(* sockets are remembered by their handle.  When the host refuses, the -1  *)
(* it returns is registered like a descriptor.                             *)
Socket(t, fails) ==
    LET opened == TableOpen(Own(t), IF fails THEN -1 ELSE FreeFd)
    IN  /\ Serves(t, "Socket")
        /\ IF fails THEN UNCHANGED fds ELSE HostOpen(Object("socket", NULL))
        /\ tables' = [tables EXCEPT ![openFiles[t]] = opened.table]
        /\ Returns(t, opened.handle)
        /\ \E six \in BOOLEAN : ipv6' = IF six THEN ipv6 \union {opened.handle} ELSE ipv6
        /\ meant' = IF opened.handle = -1 THEN meant
                     ELSE [meant EXCEPT ![t][opened.handle] = Object("socket", NULL)]
        /\ used' = used \union {openFiles[t]} \union (IF fails THEN {"failed"} ELSE {})
        /\ UNCHANGED <<synchVars, global, openFiles, created, status, hit, calls>>

(* NachOS_Connect: the host is asked to connect the descriptor that has    *)
(* the number of the handle.  It throws when that fails, which ends        *)
(* NachOS.                                                                 *)
Connect(t) ==
    LET h == call[t].h
    IN  /\ Serves(t, "Connect")
        /\ \/ h \notin Handles /\ status' = "ASSERT Test" /\ UNCHANGED <<call, r2>>
           \/ h \in Handles /\ fds[h].kind = "socket" /\ Returns(t, r2[t]) /\ UNCHANGED status
           \/ h \in Handles /\ fds[h].kind = "socket" /\ status' = "refused" /\ UNCHANGED <<call, r2>>
           \/ h \in Handles /\ fds[h].kind # "socket" /\ status' = "not a socket" /\ UNCHANGED <<call, r2>>
        /\ UNCHANGED <<synchVars, tablesVars, fds, created, ipv6, history, calls>>

(* The calls for semaphores, locks and conditions, which only return, with *)
(* the number of the call still in r2; and Yield.                          *)
Stub(t) ==
    /\ Serves(t, "Sem") /\ Returns(t, r2[t])
    /\ UNCHANGED <<synchVars, tablesVars, fds, created, ipv6, status, history, calls>>

(* NachOS_Fork shares the table; Exec makes a thread with its own. *)
Fork(t, c) ==
    /\ Serves(t, "Fork") /\ call[c].op = "unused"
    /\ openFiles' = [openFiles EXCEPT ![c] = openFiles[t]]
    /\ call' = [call EXCEPT ![t] = User, ![c] = User]
    /\ meant' = [meant EXCEPT ![c] = meant[t]]
    /\ UNCHANGED <<synchVars, r2, global, tables, fds, created, ipv6, status, hit, used, calls>>

Exec(t, c) ==
    /\ Serves(t, "Exec") /\ call[c].op = "unused"
    /\ call' = [call EXCEPT ![t] = User, ![c] = User]
    /\ UNCHANGED <<synchVars, r2, tablesVars, fds, created, ipv6, status, history, calls>>

(* NachOS_Exit: delThread; nothing is closed. *)
Exit(t) ==
    /\ Serves(t, "Exit") /\ call' = [call EXCEPT ![t].op = "dead"]
    /\ global' = delThread(global)
    /\ UNCHANGED <<synchVars, r2, tables, openFiles, fds, created, ipv6, status, history, calls>>

(* NachOS_Bind, Listen, Accept and Shutdown are empty: the program counter *)
(* stays on the syscall instruction and the thread makes the same call for *)
(* ever.                                                                   *)
NeverReturns == {"Bind"}

(* The calls that ExceptionHandler dispatches *)
SystemCalls ==
    [op : {"Create", "Open"}, h : {0}, name : Names]
    \union [op : {"Read", "Write", "Close", "Connect"}, h : Handles \union {MAX_OPEN_FILES}, name : {NULL}]
    \union [op : {"Socket", "Sem", "Fork", "Exec", "Exit"} \union NeverReturns, h : {0}, name : {NULL}]

ExceptionHandler(t) ==
    \/ Create(t) \/ Open(t) \/ OpenFails(t) \/ Write(t) \/ ReadEnter(t) \/ ReadBlocks(t) \/ Read(t)
    \/ Close(t) \/ (\E fails \in BOOLEAN : Socket(t, fails)) \/ Connect(t) \/ Stub(t) \/ Exit(t)
    \/ \E c \in Threads : Fork(t, c) \/ Exec(t, c)

Next == \E t \in Threads : ExceptionHandler(t) \/ \E c \in SystemCalls : Trap(t, c)

(* Programs need not go on, the kernel does. *)
Spec == Init /\ [][Next]_vars /\ \A t \in Threads : WF_vars(ExceptionHandler(t))

-----------------------------------------------------------------------------
(* What a thread reads or writes through a handle that Open gave it is the *)
(* file it opened, whatever the other threads open, close and connect, as  *)
(* long as nobody closes the console's handles: Close finds those in every *)
(* thread's table, so it can close the host's descriptors 0 to 2 a second  *)
(* time, when they are already a file's (NachOS_Open, Read, Write, Close). *)
FilesReached == "console" \notin used => hit

(* NachOS_Connect passes the handle to the host where it means the host's  *)
(* descriptor.  The two are the same number as long as one table is used,  *)
(* the console's handles stay open and the host refuses no socket.         *)
HandlesAreDescriptors ==
    Cardinality(used) <= 1 /\ {"console", "failed"} \intersect used = {} =>
      \A tab \in {global} \union Range(tables) : \A h \in tab.map : tab.unix[h] = h

(* NachOS_Read returns, with a result or an error, or an assertion stops   *)
(* NachOS: semConsole is given back on every path.                         *)
ReadsReturn == \A t \in Threads : call[t].op = "Read" ~> (call[t] = User \/ status # "running")
=============================================================================
