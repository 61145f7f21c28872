------------------------------ MODULE FileSys ------------------------------
(***************************************************************************)
(* The NachOS file system on its disk: Create, Remove, Open, ReadAt and    *)
(* WriteAt as the sequences of sector transfers they make, through         *)
(* SynchDisk (a lock and a semaphore around one request at a time), with   *)
(* several threads and with crashes between transfers.  The directory      *)
(* fills two sectors and one of its entries lies across both.              *)
(***************************************************************************)
EXTENDS Integers, Sequences, FiniteSets, FiniteSetsExt

CONSTANTS
    Threads, Names,
    OldNames,        \* the file that exists, and is open, at first (or NULL)
    NumSectors,      \* 1024 in the code
    SectorSize,      \* bytes: 128 in the code
    NumDirEntries,   \* 10 in the code
    Straddle,        \* the entry whose name is in the second sector: 6 there
    Sizes,           \* file sizes that Create is asked for
    Reads, Writings, \* <<position, numBytes>> of reads and of writes
    Vals,            \* bytes that are written
    MaxOps,          \* bound: operations started
    MaxCrashes,      \* bound: crashes
    NULL

Sectors == 0 .. NumSectors - 1
DirEntries == 0 .. NumDirEntries - 1
FreeMapSector == 0
DirectorySector == 1
System == 0 .. 4                  \* both headers, the map, the directory
Junk == -1                        \* a byte nobody initialised

divRoundUp(n, s) == (n + s - 1) \div s

ASSUME DiskAssumption ==
    /\ NumSectors \in Nat /\ NumSectors > 5 /\ SectorSize \in Nat \ {0}
    /\ NumDirEntries \in Nat \ {0} /\ Straddle \in DirEntries
ASSUME NamesAssumption ==
    NULL \notin Threads \union Names /\ OldNames \subseteq Names \union {NULL}
(* The largest file fits on the disk, which the one that exists may be. *)
ASSUME FileSizesAssumption ==
    /\ Sizes \subseteq Nat /\ Sizes # {} /\ IsFiniteSet(Sizes)
    /\ divRoundUp(Max(Sizes), SectorSize) < NumSectors - 5
(* OpenFile::ReadAt and WriteAt return 0 at once for no bytes. *)
ASSUME RequestsAssumption == Reads \union Writings \subseteq Nat \X (Nat \ {0})

VARIABLES
    disk,            \* the map, the directory and the other sectors
    synchDisk,       \* the lock's owner, the disk's active flag, the semaphore
    run,             \* run[t]: the operation of thread t
    file,            \* file[t]: the file t has open
    live,            \* history: live[n]: n was created and nobody began to remove it
    written,         \* history: the bytes written to n since then
    lastRead,        \* history: did the last read return them
    flags,           \* history: what happened that the code does not guard against
    ops,
    simulator        \* "running", or why it stopped

fileSysVars == <<disk, synchDisk, run, file, live, written, lastRead, flags, ops, simulator>>

Modifiers == {"Create", "Remove"}
NoHdr == [numBytes |-> 0, dataSectors |-> <<>>]
Idle == [op |-> "idle", pc |-> "none", name |-> NULL, numBytes |-> 0, position |-> 0,
         value |-> 0, sector |-> -1, hdr |-> NoHdr, map |-> {}, dir |-> <<>>,
         buf |-> <<>>, i |-> 0, waiting |-> FALSE, raced |-> FALSE]
NotOpen == [name |-> NULL, sector |-> -1, hdr |-> NoHdr]
NoEntry == [inUse |-> FALSE, sector |-> 0, name |-> NULL]      \* DirectoryEntry
EmptyDir == [e \in DirEntries |-> NoEntry]
IdleDisk == [lock |-> NULL, active |-> FALSE, semaphore |-> 0]    \* SynchDisk
Blank == [k \in 1 .. SectorSize |-> 0]
Sector(kind, hdr, bytes) == [kind |-> kind, hdr |-> hdr, bytes |-> bytes]

Unwritten == [k \in 0 .. Max(Sizes) - 1 |-> NULL]

-----------------------------------------------------------------------------
(* FileSystem::FileSystem(true): the map and the directory have sectors 2  *)
(* to 4.  Or a file has been created and opened since.                     *)
Formatted ==
    [map |-> System, dir |-> EmptyDir,
     sec |-> [s \in Sectors |-> Sector("data", NoHdr, Blank)]]

(* BitMap::Find, repeatedly: the first n clear bits, in order *)
FindSectors(map, n) ==
    LET clear == Sectors \ map
    IN  [k \in 1 .. n |-> CHOOSE s \in clear : Cardinality({c \in clear : c < s}) = k - 1]

(* FileHeader::Allocate, when there is room *)
Allocate(map, size) == [numBytes |-> size,
                        dataSectors |-> FindSectors(map, divRoundUp(size, SectorSize))]

(* FileHeader::FileLength, ByteToSector; OpenFile::OpenFile *)
FileLength(hdr) == hdr.numBytes
ByteToSector(hdr, offset) == hdr.dataSectors[(offset \div SectorSize) + 1]
OpenFile(n, s, hdr) == [name |-> n, sector |-> s, hdr |-> hdr]

WithFile(d, n, size) ==
    LET s == FindSectors(d.map, 1)[1]
        hdr == Allocate(d.map \union {s}, size)
    IN  [map |-> d.map \union {s} \union Range(hdr.dataSectors),
         dir |-> [d.dir EXCEPT ![0] = [inUse |-> TRUE, sector |-> s, name |-> n]],
         sec |-> [d.sec EXCEPT ![s] = Sector("hdr", hdr, Blank)]]

FileSysInit ==
    \E old \in OldNames :
      LET d == IF old = NULL THEN Formatted ELSE WithFile(Formatted, old, Max(Sizes))
          s == d.dir[0].sector
      IN  /\ disk = d
          /\ synchDisk = IdleDisk
          /\ run = [t \in Threads |-> Idle]
          /\ file = [t \in Threads |-> IF old # NULL
                        THEN OpenFile(old, s, d.sec[s].hdr) ELSE NotOpen]
          /\ live = [n \in Names |-> n = old]
          /\ written = [n \in Names |-> Unwritten]
          /\ lastRead = TRUE
          /\ flags = [overlapped |-> FALSE, wild |-> FALSE, reused |-> FALSE, crashes |-> 0]
          /\ ops = 0 /\ simulator = "running"

-----------------------------------------------------------------------------
(* Directory::FindIndex and Find *)
Listed(dir, n) == {e \in DirEntries : dir[e].inUse /\ dir[e].name = n}
FindFile(dir, n) == IF Listed(dir, n) = {} THEN -1 ELSE dir[Min(Listed(dir, n))].sector

(* Directory::Add, into the first free entry, and Directory::Remove *)
FreeEntries(dir) == {e \in DirEntries : ~dir[e].inUse}
Add(dir, n, s) == [dir EXCEPT ![Min(FreeEntries(dir))] =
                                 [inUse |-> TRUE, sector |-> s, name |-> n]]
RemoveName(dir, n) == [dir EXCEPT ![Min(Listed(dir, n))].inUse = FALSE]

(* What one sector of the directory carries from src to dst *)
DirPart(part, src, dst) ==
    [e \in DirEntries |->
       CASE e = Straddle /\ part = 1 ->
              [dst[e] EXCEPT !.inUse = src[e].inUse, !.sector = src[e].sector]
         [] e = Straddle /\ part = 2 -> [dst[e] EXCEPT !.name = src[e].name]
         [] e # Straddle -> IF (e < Straddle) = (part = 1) THEN src[e] ELSE dst[e]]

(* The sectors that the files in the directory on the disk own *)
Owned(s) == {s} \union IF disk.sec[s].kind = "hdr" THEN Range(disk.sec[s].hdr.dataSectors) ELSE {}
UsedOnDisk == UNION {Owned(disk.dir[e].sector) : e \in {e \in DirEntries : disk.dir[e].inUse}}

(* The file t has open is still the one in the directory. *)
UpToDate(t) ==
    LET h == file[t]
    IN  /\ FindFile(disk.dir, h.name) = h.sector
        /\ disk.sec[h.sector].kind = "hdr" /\ disk.sec[h.sector].hdr = h.hdr

Busy(t) == run[t].op # "idle"

-----------------------------------------------------------------------------
(* The transfers of the operations, in order: where each goes next is in   *)
(* After.                                                                  *)

(* OpenFile::ReadAt and WriteAt clip the request at the end of the file. *)
Clipped(t, n, position) == LET len == FileLength(file[t].hdr)
                           IN  IF position + n > len THEN len - position ELSE n
FirstSector(r) == r.position \div SectorSize
LastSector(r) == (r.position + r.numBytes - 1) \div SectorSize
FirstAligned(r) == r.position = FirstSector(r) * SectorSize
LastAligned(r) == r.position + r.numBytes = (LastSector(r) + 1) * SectorSize

(* Variant: the last sector is read only when the first is not aligned. *)
RmwLastOnlyUnaligned(r) == ~LastAligned(r) /\ FirstSector(r) # LastSector(r) /\ ~FirstAligned(r)

(* Is the last sector to be read before it is written? *)
RmwLast(r) == ~LastAligned(r) /\ (FirstSector(r) # LastSector(r) \/ FirstAligned(r))

(* Where a read or a write starts *)
FirstTransfer(r) ==
    CASE r.op = "Read" -> "readData"
      [] r.op = "Write" /\ ~FirstAligned(r) -> "rmwFirst"
      [] r.op = "Write" /\ FirstAligned(r) /\ RmwLast(r) -> "rmwLast"
      [] OTHER -> "writeData"

(* bcopy of the bytes to write into the buffer: sector i of the file *)
Changed(r, i) ==
    [k \in 1 .. SectorSize |->
       IF i * SectorSize + k - 1 \in r.position .. r.position + r.numBytes - 1
       THEN r.value ELSE r.buf[i - FirstSector(r) + 1][k]]

(* ReadAt within WriteAt: bytes after the end of the file are not copied. *)
Fetched(t, i) ==
    LET s == disk.sec[ByteToSector(file[t].hdr, i * SectorSize)]
    IN  [k \in 1 .. SectorSize |->
           IF i * SectorSize + k > FileLength(file[t].hdr) \/ s.kind = "hdr" THEN Junk ELSE s.bytes[k]]

(* BitMap::FetchFrom and WriteBack: the map fills one sector. *)
FetchMap(r) == [r EXCEPT !.map = disk.map]
WriteBackMap(r) == [disk EXCEPT !.map = r.map]

(* The transfer that t waits for: what it leaves in the memory of t *)
ReadInto(t) ==
    LET r == run[t]
    IN  CASE r.pc = "dir1" -> [r EXCEPT !.dir = DirPart(1, disk.dir, EmptyDir)]
          [] r.pc = "dir2" -> [r EXCEPT !.dir = DirPart(2, disk.dir, @)]
          [] r.pc = "map" -> FetchMap(r)
          [] r.pc = "hdr" -> [r EXCEPT !.hdr = disk.sec[r.sector].hdr]
          [] r.pc = "readData" -> [r EXCEPT !.buf[r.i - FirstSector(r) + 1] = Fetched(t, r.i)]
          [] r.pc = "rmwFirst" -> [r EXCEPT !.buf[1] = Fetched(t, FirstSector(r))]
          [] r.pc = "rmwLast" -> [r EXCEPT !.buf[Len(r.buf)] = Fetched(t, LastSector(r))]
          [] OTHER -> r

(* ... and on the disk *)
WrittenTo(t) ==
    LET r == run[t]
    IN  CASE r.pc = "writeHdr" -> [disk EXCEPT !.sec[r.sector] = Sector("hdr", r.hdr, Blank)]
          [] r.pc = "writeDir1" -> [disk EXCEPT !.dir = DirPart(1, r.dir, @)]
          [] r.pc = "writeDir2" -> [disk EXCEPT !.dir = DirPart(2, r.dir, @)]
          [] r.pc = "writeMap" -> WriteBackMap(r)
          [] r.pc = "writeData" ->
               [disk EXCEPT !.sec[ByteToSector(file[t].hdr, r.i * SectorSize)] =
                  Sector("data", NoHdr, Changed(r, r.i))]
          [] OTHER -> disk

-----------------------------------------------------------------------------
(* FileSystem::Create once it has the map: no free sector for the header,  *)
(* no free entry or no room for the data make it fail.                     *)
CreateInMemory(r) ==
    LET s == FindSectors(r.map, 1)[1]
        map1 == r.map \union {s}
        hdr == Allocate(map1, r.numBytes)
    IN  IF \/ Sectors \subseteq r.map \/ FreeEntries(r.dir) = {}
           \/ Cardinality(Sectors \ map1) < divRoundUp(r.numBytes, SectorSize)
        THEN Idle
        ELSE [r EXCEPT !.sector = s, !.dir = Add(r.dir, r.name, s), !.hdr = hdr,
                       !.map = map1 \union Range(hdr.dataSectors), !.pc = "writeHdr"]

(* FileSystem::Remove once it has the map *)
RemoveInMemory(r) ==
    [r EXCEPT !.map = @ \ ({r.sector} \union Range(r.hdr.dataSectors)),
              !.dir = RemoveName(@, r.name), !.pc = "writeMap"]

(* Variant: Create does not flush the map. *)
WritesNoMap(op) == IF op = "Create" THEN <<"writeHdr", "rmwDir", "writeDir1", "writeDir2">>
                   ELSE <<"writeMap", "rmwDir", "writeDir1", "writeDir2">>

(* The order in which Create and Remove flush their changes.  The second   *)
(* sector of the directory is not full: WriteAt reads it first.            *)
Writes(op) == IF op = "Create" THEN <<"writeHdr", "rmwDir", "writeDir1", "writeDir2", "writeMap">>
              ELSE <<"writeMap", "rmwDir", "writeDir1", "writeDir2">>

(* The operation after a transfer *)
After(r) ==
    LET Goto(p) == [r EXCEPT !.pc = p]
        order == Writes(r.op)
        k == CHOOSE k \in DOMAIN order : order[k] = r.pc
    IN  CASE r.pc = "dir1" -> Goto("dir2")
          [] r.pc = "dir2" -> IF FindFile(r.dir, r.name) = -1 <=> r.op # "Create" THEN Idle
                              ELSE IF r.op = "Create" THEN Goto("map")
                              ELSE [r EXCEPT !.sector = FindFile(r.dir, r.name), !.pc = "hdr"]
          [] r.pc = "hdr" -> IF r.op = "Open" THEN Idle ELSE Goto("map")
          [] r.pc = "map" -> IF r.op = "Create" THEN CreateInMemory(r) ELSE RemoveInMemory(r)
          [] r.op \in Modifiers /\ r.pc \in Range(order) ->
               IF k = Len(order) THEN Idle ELSE Goto(order[k + 1])
          [] r.pc = "rmwFirst" -> IF RmwLast(r) THEN Goto("rmwLast") ELSE Goto("writeData")
          [] r.pc = "rmwLast" -> Goto("writeData")
          [] r.pc \in {"readData", "writeData"} ->
               IF r.i = LastSector(r) THEN Idle ELSE [r EXCEPT !.i = @ + 1]

(* FileHeader::Deallocate: "ought to be marked!" *)
Unmarked(r) == r.op = "Remove" /\ r.pc = "map" /\ ~(Range(r.hdr.dataSectors) \subseteq r.map)

-----------------------------------------------------------------------------
(* A thread starts an operation. *)
Begin(t, r) ==
    /\ simulator = "running" /\ ~Busy(t) /\ ops < MaxOps
    /\ ops' = ops + 1
    /\ LET raced(u) == u # t /\ {run[u].op, r.op} \in {{"Read", "Write"}}
           me == [r EXCEPT !.raced = \E u \in Threads : raced(u)]
       IN  run' = [u \in Threads |-> IF u = t THEN me
                                      ELSE [run[u] EXCEPT !.raced = @ \/ raced(u)]]
    /\ flags' = [flags EXCEPT !.overlapped =
                   @ \/ \E u \in Threads :
                          \/ {run[u].op, r.op} \subseteq Modifiers
                          \/ {run[u].op, r.op} = {"Write"} /\ run[u].name = r.name]
    /\ UNCHANGED <<disk, synchDisk, file, written, lastRead, simulator>>

(* FileSystem::Create, Remove and Open fetch the directory. *)
Create(t, n, size) ==
    /\ Begin(t, [Idle EXCEPT !.op = "Create", !.pc = "dir1", !.name = n, !.numBytes = size])
    /\ UNCHANGED live
Remove(t, n) ==
    /\ Begin(t, [Idle EXCEPT !.op = "Remove", !.pc = "dir1", !.name = n])
    /\ live' = [live EXCEPT ![n] = FALSE]
Open(t, n) ==
    /\ Begin(t, [Idle EXCEPT !.op = "Open", !.pc = "dir1", !.name = n])
    /\ UNCHANGED live

(* OpenFile::ReadAt and WriteAt return 0 past the end of the file. *)
Transfer(t, op, request, v) ==
    LET r == [Idle EXCEPT !.op = op, !.position = request[1], !.value = v,
                          !.numBytes = Clipped(t, request[2], request[1]),
                          !.name = file[t].name]
    IN  /\ file[t] # NotOpen /\ request[1] < FileLength(file[t].hdr)
        /\ Begin(t, [r EXCEPT !.pc = FirstTransfer(r), !.i = FirstSector(r),
                               !.buf = [k \in 1 .. LastSector(r) - FirstSector(r) + 1 |->
                                          [b \in 1 .. SectorSize |-> Junk]]])
        /\ UNCHANGED live

(* Variant: without the lock. *)
RequestNoLock(t) ==
    /\ simulator = "running" /\ Busy(t) /\ ~run[t].waiting
    /\ IF synchDisk.active
       THEN simulator' = "disk ASSERT" /\ UNCHANGED <<disk, synchDisk, run, written, flags>>
       ELSE /\ synchDisk' = [synchDisk EXCEPT !.lock = t, !.active = TRUE]
            /\ run' = [run EXCEPT ![t] = [ReadInto(t) EXCEPT !.waiting = TRUE]]
            /\ disk' = WrittenTo(t)
            /\ UNCHANGED <<written, flags, simulator>>
    /\ UNCHANGED <<file, live, lastRead, ops>>

(* SynchDisk::ReadSector and WriteSector take the lock and make the        *)
(* request; the disk moves the data at once and the interrupt comes later. *)
Request(t) ==
    LET r == run[t]
        writes == r.pc = "writeData"
        bytes == {k \in r.position .. r.position + r.numBytes - 1 : k \div SectorSize = r.i}
    IN  /\ simulator = "running" /\ Busy(t) /\ ~r.waiting /\ synchDisk.lock = NULL
        /\ IF synchDisk.active
           THEN simulator' = "disk ASSERT" /\ UNCHANGED <<disk, synchDisk, run, written, flags>>
           ELSE /\ synchDisk' = [synchDisk EXCEPT !.lock = t, !.active = TRUE]
                /\ run' = [run EXCEPT ![t] = [ReadInto(t) EXCEPT !.waiting = TRUE]]
                /\ disk' = WrittenTo(t)
                /\ flags' = [flags EXCEPT !.wild = @ \/ (writes /\ ~UpToDate(t))]
                /\ written' = IF writes /\ UpToDate(t)
                               THEN [written EXCEPT ![r.name] =
                                       [k \in DOMAIN @ |-> IF k \in bytes THEN r.value ELSE @[k]]]
                               ELSE written
                /\ UNCHANGED simulator
        /\ UNCHANGED <<file, live, lastRead, ops>>

(* Disk::HandleInterrupt, DiskRequestDone *)
HandleInterrupt ==
    /\ simulator = "running" /\ synchDisk.active
    /\ synchDisk' = [synchDisk EXCEPT !.active = FALSE, !.semaphore = @ + 1]
    /\ UNCHANGED <<disk, run, file, live, written, lastRead, flags, ops, simulator>>

(* The bytes that a read returns are those last written. *)
ReadsBack(t) ==
    LET r == run[t]
    IN  \A k \in r.position .. r.position + r.numBytes - 1 :
          written[r.name][k] \in {NULL, r.buf[(k \div SectorSize) - FirstSector(r) + 1][(k % SectorSize) + 1]}

(* The thread comes back from SynchDisk and goes on to the next transfer.  *)
(* A header read from a sector that holds data is garbage, which an Open   *)
(* that a Remove overtakes may find.                                       *)
Complete(t) ==
    LET r == run[t]
        next == After(r)
        taken == {next.sector} \union Range(next.hdr.dataSectors)
        garbage == r.pc = "hdr" /\ disk.sec[r.sector].kind # "hdr"
    IN  /\ simulator = "running" /\ r.waiting /\ synchDisk.semaphore > 0
        /\ synchDisk' = [synchDisk EXCEPT !.lock = NULL, !.semaphore = @ - 1]
        /\ simulator' = CASE Unmarked(r) -> "ought to be marked"
                        [] garbage -> IF r.op = "Open" THEN "stale Open" ELSE "garbage header"
                        [] OTHER -> "running"
        /\ run' = [run EXCEPT ![t] = [next EXCEPT !.waiting = FALSE]]
        /\ file' = IF r.op = "Open" /\ r.pc = "hdr"
                    THEN [file EXCEPT ![t] = OpenFile(r.name, r.sector, r.hdr)]
                    ELSE file
        /\ live' = [live EXCEPT ![r.name] = @ \/ (r.op = "Create" /\ r.pc = "writeMap")]
        /\ written' = IF r.op = "Create" /\ r.pc = "writeMap"
                       THEN [written EXCEPT ![r.name] = Unwritten] ELSE written
        /\ lastRead' = IF r.op = "Read" /\ next = Idle /\ live[r.name] /\ UpToDate(t) /\ ~r.raced
                        THEN ReadsBack(t) ELSE TRUE
        /\ flags' = [flags EXCEPT !.reused =
                       @ \/ (next.pc = "writeHdr" /\ taken \intersect UsedOnDisk # {})]
        /\ UNCHANGED <<disk, ops>>

(* The machine stops and is started again on the same disk:                *)
(* FileSystem::FileSystem(false).  When no operation is writing that loses *)
(* only the open files.                                                    *)
Crash ==
    /\ simulator = "running" /\ flags.crashes < MaxCrashes
    /\ \E t \in Threads : run[t].op \in Modifiers \union {"Write"}
    /\ flags' = [flags EXCEPT !.crashes = @ + 1]
    /\ run' = [t \in Threads |-> Idle] /\ file' = [t \in Threads |-> NotOpen]
    /\ synchDisk' = IdleDisk
    /\ lastRead' = TRUE
    /\ UNCHANGED <<disk, live, written, ops, simulator>>

FileSysNext ==
    \/ \E t \in Threads, n \in Names :
         (\E size \in Sizes : Create(t, n, size)) \/ Remove(t, n) \/ Open(t, n)
    \/ \E t \in Threads, q \in Reads : Transfer(t, "Read", q, 0)
    \/ \E t \in Threads, q \in Writings, v \in Vals : Transfer(t, "Write", q, v)
    \/ \E t \in Threads : Request(t) \/ Complete(t)
    \/ HandleInterrupt
    \/ Crash

FileSysSpec == FileSysInit /\ [][FileSysNext]_fileSysVars

-----------------------------------------------------------------------------

Calm == ~flags.overlapped /\ ~flags.wild

(* Between operations the map marks exactly what the directory and the     *)
(* headers use, no two files share a sector and no name is listed twice:   *)
(* unless the machine crashed, two threads changed the directory or wrote  *)
(* the same file at a time, or one wrote to a file that had been removed.  *)
Consistent ==
    (Calm /\ flags.crashes = 0 /\ \A t \in Threads : run[t].op \notin Modifiers) =>
      LET used == {e \in DirEntries : disk.dir[e].inUse}
      IN  /\ disk.map = System \union UsedOnDisk
          /\ \A e, d \in used : e # d =>
               /\ disk.dir[e].name # disk.dir[d].name
               /\ Owned(disk.dir[e].sector) \intersect Owned(disk.dir[d].sector) = {}
          /\ \A e \in used : live[disk.dir[e].name]

(* In every state, in the middle of operations on other files and after a  *)
(* crash, a file that was created and is not being removed is found under  *)
(* its name and holds the bytes last written to it, and a read returned    *)
(* those, also across sectors and up to the end of the file: unless a      *)
(* sector that a crash left both free and in use was allocated again.      *)
FilesIntact ==
    (Calm /\ ~flags.reused) =>
      /\ lastRead
      /\ \A n \in Names : live[n] =>
          LET s == FindFile(disk.dir, n)
          IN  /\ s # -1 /\ disk.sec[s].kind = "hdr"
              /\ \A k \in 0 .. disk.sec[s].hdr.numBytes - 1 :
                   LET d == disk.sec[s].hdr.dataSectors[(k \div SectorSize) + 1]
                   IN  written[n][k] # NULL =>
                         disk.sec[d].kind = "data" /\ disk.sec[d].bytes[(k % SectorSize) + 1] = written[n][k]

(* No assertion fails: the disk gets one request at a time whatever the    *)
(* threads do, and what Remove frees is a header and marked sectors, unless*)
(* the machine crashed or two threads changed the directory at a time.     *)
AssertionsHold ==
    /\ simulator # "disk ASSERT"
    /\ simulator \in {"ought to be marked", "garbage header"} =>
         flags.crashes > 0 \/ flags.overlapped \/ flags.wild
=============================================================================
