------------------------------- MODULE Loader -------------------------------
(***************************************************************************)
(* How a program gets from the object file the cross-compiler writes into  *)
(* memory.  bin/coff2noff.c makes a NOFF file of it, which the constructor *)
(* of AddrSpace (userprog/addrspace.cc) loads into free frames;            *)
(* bin/coff2flat.c makes an image; the interpreter and the disassembler of *)
(* bin/ (main.c, disasm.c) load the object file itself.                    *)
(*                                                                         *)
(* An object file is the sequence of its sections.  A byte is the name of  *)
(* its file and section and its place there; Blank is a zero no file has.  *)
(***************************************************************************)
EXTENDS Integers, SequencesExt, FiniteSetsExt

CONSTANTS
    Files,          \* Files[n]: the sections of object file n: s_name, s_paddr, s_vaddr, s_size
    PageSize, NumPhysPages, UserStackSize,
    NoffHeaderSize, \* sizeof(NoffHeader)
    StackSize,      \* of coff2flat.c
    MEMSIZE,        \* of the interpreter
    MaxExecs        \* bound: programs started

VARIABLES
    memoryMap,      \* the frames in use
    mainMemory,
    running,        \* the address spaces: file, pageTable
    execs,          \* programs started so far
    aborted         \* an ASSERT of AddrSpace failed

vars == <<memoryMap, mainMemory, running, execs, aborted>>

Blank == <<>>
divRoundUp(n, s) == (n + s - 1) \div s
RawBytes(n, s) == [k \in 1 .. s.s_size |-> <<n, s.s_name, k>>]
CodeNames == {".text"}
DataNames == {".data", ".rdata"}
BssNames == {".bss", ".sbss"}

-----------------------------------------------------------------------------
(* bin/coff2noff.c: the NOFF header and what follows it in the file *)
NoSegment == [virtualAddr |-> 0, inFileAddr |-> 0, size |-> 0]
NoffHeader == [code |-> NoSegment, initData |-> NoSegment, uninitData |-> NoSegment]
Noff(state, hdr, bytes) == [state |-> state, hdr |-> hdr, bytes |-> bytes]
None == Noff("none", NoffHeader, <<>>)          \* no file, or it was unlinked

InNoffFile(f) == NoffHeaderSize + Len(f.bytes)
CopySegment(f, seg, n, s) ==
    Noff("ok", [f.hdr EXCEPT ![seg] = [virtualAddr |-> s.s_paddr, inFileAddr |-> InNoffFile(f),
                                       size |-> s.s_size]],
         f.bytes \o RawBytes(n, s))

(* A second .bss is refused if it follows the first one, added if not. *)
GrowBss(f, s) ==
    LET u == f.hdr.uninitData
    IN  CASE u.size = 0 -> [f EXCEPT !.hdr.uninitData.virtualAddr = s.s_paddr,
                                     !.hdr.uninitData.size = s.s_size]
          [] u.size # 0 /\ s.s_paddr = u.virtualAddr + u.size -> None
          [] OTHER -> [f EXCEPT !.hdr.uninitData.size = @ + s.s_size]

AddSection(f, n, s) ==
    CASE f = None \/ s.s_size = 0 -> f
      [] s.s_size # 0 /\ s.s_name \in CodeNames -> CopySegment(f, "code", n, s)
      [] s.s_size # 0 /\ s.s_name \in DataNames ->
           IF f.hdr.initData.size # 0 THEN None ELSE CopySegment(f, "initData", n, s)
      [] s.s_size # 0 /\ s.s_name \in BssNames -> GrowBss(f, s)
      [] OTHER -> None                          \* an unknown segment

coff2noff(n) ==
    FoldLeft(LAMBDA f, s : AddSection(f, n, s), Noff("ok", NoffHeader, <<>>), Files[n])

(* Variant: only .bss is known not to be in the file. *)
coff2flatSbss(n) ==
    LET secs == Files[n]
        top == Max({0} \union {secs[i].s_paddr + secs[i].s_size : i \in DOMAIN secs})
        image == FoldLeft(LAMBDA b, s : IF s.s_name = ".bss" THEN b ELSE b \o RawBytes(n, s), <<>>, secs)
    IN  [a \in 0 .. top + StackSize - 1 |-> IF a < Len(image) THEN image[a + 1] ELSE Blank]

(* bin/coff2flat.c: the sections one after the other, and a blank word     *)
(* after the space for the stack.                                          *)
coff2flat(n) ==
    LET secs == Files[n]
        top == Max({0} \union {secs[i].s_paddr + secs[i].s_size : i \in DOMAIN secs})
        image == FoldLeft(LAMBDA b, s : IF s.s_name \in BssNames THEN b ELSE b \o RawBytes(n, s), <<>>, secs)
    IN  [a \in 0 .. top + StackSize - 1 |-> IF a < Len(image) THEN image[a + 1] ELSE Blank]

(* load_program of bin/main.c: the first section of each name that has data *)
(* in the file goes to its virtual address (memoffset on), the rest stays   *)
(* blank.  A section that reaches the end of the memory ends the program;   *)
(* bin/disasm.c loads the same way and lets one end there.                  *)
Stopped == <<>>
LoadOrder == <<".text", ".rdata", ".data", ".sdata">>
Named(n, name) == SelectSeq(Files[n], LAMBDA s : s.s_name = name)

load_section(mem, n, s) ==
    IF mem = Stopped \/ s.s_vaddr + s.s_size >= MEMSIZE THEN Stopped
    ELSE [a \in DOMAIN mem |-> IF a - s.s_vaddr \in 0 .. s.s_size - 1
                               THEN RawBytes(n, s)[a - s.s_vaddr + 1] ELSE mem[a]]

load_program(n) ==
    FoldLeft(LAMBDA mem, name : IF Named(n, name) = <<>> THEN mem
                                ELSE load_section(mem, n, Head(Named(n, name))),
             [a \in 0 .. MEMSIZE - 1 |-> Blank], LoadOrder)

-----------------------------------------------------------------------------
(* OpenFile::ReadAt: what the file has at position, at most numBytes *)
ReadAt(f, numBytes, position) ==
    SubSeq(f.bytes, position - NoffHeaderSize + 1, Min({position - NoffHeaderSize + numBytes, Len(f.bytes)}))

(* Pages from .. to - 1 of a segment, each read into its frame *)
LoadPages(memory, f, pageTable, inFileAddr, from, to) ==
    LET Frame(p) == CHOOSE k \in from .. to - 1 : pageTable[k + 1] = p
        Loads(p) == \E k \in from .. to - 1 : pageTable[k + 1] = p
        Page(p) == ReadAt(f, PageSize, PageSize * Frame(p) + inFileAddr)
        At(a) == a \div PageSize
    IN  [a \in DOMAIN memory |->
           IF Loads(At(a)) /\ a % PageSize < Len(Page(At(a))) THEN Page(At(a))[(a % PageSize) + 1]
           ELSE memory[a]]

NumPages(hdr) ==
    divRoundUp(hdr.code.size + hdr.initData.size + hdr.uninitData.size + UserStackSize, PageSize)

(* BitMap::Find, once for each page *)
FindFrames(n) ==
    LET clear == (0 .. NumPhysPages - 1) \ memoryMap
    IN  [i \in 1 .. n |-> CHOOSE p \in clear : Cardinality({q \in clear : q < p}) = i - 1]

(* The data segment: its pages are counted from the first one after the    *)
(* code, and up to the number of data pages.                               *)
LoadData(memory, f, pageTable) ==
    LoadPages(memory, f, pageTable, f.hdr.initData.inFileAddr,
              divRoundUp(f.hdr.code.size, PageSize), divRoundUp(f.hdr.initData.size, PageSize))

(* Variant: the last page of the code is left out when it is not full. *)
LoadCodeFullPages(memory, f, pageTable) ==
    LoadPages(memory, f, pageTable, f.hdr.code.inFileAddr, 0, f.hdr.code.size \div PageSize)

LoadCode(memory, f, pageTable) ==
    LoadPages(memory, f, pageTable, f.hdr.code.inFileAddr, 0, divRoundUp(f.hdr.code.size, PageSize))

-----------------------------------------------------------------------------
Init ==
    /\ memoryMap = {} /\ mainMemory = [a \in 0 .. NumPhysPages * PageSize - 1 |-> Blank]
    /\ running = {} /\ execs = 0 /\ aborted = FALSE

(* AddrSpace::AddrSpace *)
Exec(n) ==
    LET f == coff2noff(n)
        numPages == NumPages(f.hdr)
        pageTable == FindFrames(numPages)
    IN  /\ f # None /\ ~aborted /\ execs < MaxExecs
        /\ execs' = execs + 1
        /\ IF numPages > NumPhysPages - Cardinality(memoryMap)
              THEN aborted' = TRUE /\ UNCHANGED <<memoryMap, mainMemory, running>>
              ELSE /\ memoryMap' = memoryMap \union Range(pageTable)
                   /\ mainMemory' = LoadData(LoadCode(mainMemory, f, pageTable), f, pageTable)
                   /\ running' = running \union {[file |-> n, pageTable |-> pageTable]}
                   /\ UNCHANGED aborted

(* AddrSpace::~AddrSpace: the frames are given back as they are. *)
Exit(r) ==
    /\ ~aborted
    /\ running' = running \ {r}
    /\ memoryMap' = memoryMap \ Range(r.pageTable)
    /\ UNCHANGED <<mainMemory, execs, aborted>>

Next ==
    \/ \E n \in DOMAIN Files : Exec(n)
    \/ \E r \in running : Exit(r)

Spec == Init /\ [][Next]_vars

-----------------------------------------------------------------------------
UserByte(r, a) == mainMemory[r.pageTable[(a \div PageSize) + 1] * PageSize + (a % PageSize)]
Section(n, names) == SelectSeq(Files[n], LAMBDA s : s.s_name \in names /\ s.s_size # 0)
Addresses(s) == s.s_paddr .. s.s_paddr + s.s_size - 1

(* Linked the way the repository's programs are: code at 0, then the data, *)
(* and the two addresses of a section the same.                            *)
Packed(n) ==
    LET s == Section(n, CodeNames \union DataNames)
    IN  \A i \in DOMAIN s :
          /\ s[i].s_paddr = IF i = 1 THEN 0 ELSE s[i - 1].s_paddr + s[i - 1].s_size
          /\ s[i].s_vaddr = s[i].s_paddr

(* Whatever ran in its frames before and runs beside it, a program finds   *)
(* its code, and its data up to the end of the page where the code ends,   *)
(* where the interpreter of bin/ has them; all its data if it has no code. *)
LoadedAsInterpreted ==
    \A r \in running :
        LET mem == load_program(r.file)
            code == Section(r.file, CodeNames)
            full == IF code = <<>> THEN MEMSIZE ELSE divRoundUp(code[1].s_size, PageSize) * PageSize
        IN  Packed(r.file) /\ mem # Stopped /\ (code = <<>> \/ code[1].s_paddr = 0) =>
              \A s \in Range(Section(r.file, CodeNames \union DataNames)) :
                \A a \in Addresses(s) : a < full => UserByte(r, a) = mem[a]

(* The image of coff2flat is what the interpreter loads, with the stack    *)
(* blank, for a program whose sections follow one another.                 *)
FlatAsInterpreted ==
    \A r \in running : Packed(r.file) =>
        LET flat == coff2flat(r.file)
            mem == load_program(r.file)
        IN  mem # Stopped => \A a \in DOMAIN flat : flat[a] = mem[a]
=============================================================================
