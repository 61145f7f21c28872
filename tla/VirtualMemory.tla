--------------------------- MODULE VirtualMemory ---------------------------
(***************************************************************************)
(* Demand paging in the virtual memory copy of NachOS: one user program    *)
(* (nachos -x), its page table, a software-filled TLB, the frames of main  *)
(* memory and the swap file.  Memory is modelled page by page: an access   *)
(* reads or writes "the" value of a page.  An ASSERT that fails, and a     *)
(* wild pointer that hits unmapped memory, end the simulator.              *)
(*                                                                         *)
(* Exec and Fork make address spaces whose swap and executable are never   *)
(* set in this copy, so only the first program can take page faults.       *)
(***************************************************************************)
EXTENDS Integers, FiniteSets, FiniteSetsExt

CONSTANTS
    NumPages,        \* pages of the program: code, data and stack
    NumPhysPages,    \* frames of main memory, 32 in the code
    TLBSize,         \* 4 in the code
    Values,          \* what a page can hold
    Zero,            \* what mainMemory holds at first
    Image,           \* what the executable holds for each page
    NoBytes          \* ... where the file ends before the page

Pages == 0 .. NumPages - 1
Frames == 0 .. NumPhysPages - 1
Slots == 0 .. TLBSize - 1
SwapSize == 2 * NumPhysPages

ASSUME SizesAssumption ==
    NumPages \in Nat \ {0} /\ NumPhysPages \in Nat \ {0} /\ TLBSize \in Nat \ {0}
ASSUME ImageAssumption ==
    Zero \in Values /\ NoBytes \notin Values /\ Image \in [Pages -> Values \union {NoBytes}]

VARIABLES
    vm,              \* the kernel's tables, the memory and the swap file
    status,          \* "running", or why the simulator stopped
    store,           \* the store instruction under way: it restarts after a fault
    load,            \* the last load: what it returned and what was last written
    flat,            \* history: what a memory without paging would hold
    tainted          \* history: pages that were evicted or came in by an eviction

vars == <<vm, status, store, load, flat, tainted>>

None == [page |-> -1, value |-> Zero]

(* AddrSpace::AddrSpace, Machine, Swap: nothing is mapped.  new does not    *)
(* initialise readOnly of a TLB entry, and nothing assigns it later.        *)
Init ==
    /\ \E ro \in [Slots -> BOOLEAN] :
         vm = [pageTable |-> [v \in Pages |-> [physicalPage |-> -1, valid |-> FALSE,
                                               dirty |-> FALSE]],
               tlb |-> [i \in Slots |-> [virtualPage |-> 0, physicalPage |-> 0,
                                         valid |-> FALSE, readOnly |-> ro[i],
                                         dirty |-> FALSE]],
               tlbCounter |-> 0,
               memoryMap |-> {},
               mainMemory |-> [f \in Frames |-> Zero],
               swapMap |-> {},
               swapFile |-> [b \in 0 .. SwapSize - 1 |-> Zero],
               oldPage |-> 0]
    /\ status = "running" /\ store = None
    /\ load = [got |-> Zero, expected |-> Zero, page |-> 0]
    /\ flat = [v \in Pages |-> IF Image[v] = NoBytes THEN Zero ELSE Image[v]]
    /\ tainted = {}

-----------------------------------------------------------------------------
(* BitMap::Find: the first clear bit, which it sets; -1 if there is none *)
Find(map, size) ==
    IF 0 .. size - 1 \subseteq map THEN -1 ELSE Min((0 .. size - 1) \ map)

(* Variant: the entry is not made valid. *)
updateTLBNotValid(m, v) ==
    [m EXCEPT !.tlb[m.tlbCounter] =
                 [@ EXCEPT !.virtualPage = v,
                           !.physicalPage = m.pageTable[v].physicalPage],
              !.tlbCounter = (@ + 1) % TLBSize]

(* The slots are filled in turn; readOnly and dirty of the slot stay.       *)
(* tlbCounter is only used modulo TLBSize.                                  *)
updateTLB(m, v) ==
    [m EXCEPT !.tlb[m.tlbCounter] =
                 [@ EXCEPT !.virtualPage = v, !.valid = TRUE,
                           !.physicalPage = m.pageTable[v].physicalPage],
              !.tlbCounter = (@ + 1) % TLBSize]

updatePT(m, v, f) ==
    [m EXCEPT !.pageTable[v] = [@ EXCEPT !.physicalPage = f, !.valid = TRUE]]

(* Variant: the page is looked up in the file by its frame. *)
writeInMemoryByFrame(m, v, f) ==
    IF Image[f] = NoBytes THEN m ELSE [m EXCEPT !.mainMemory[f] = Image[f]]

(* Read the page from the executable; where the file has no bytes for it   *)
(* the frame keeps what it held.                                           *)
writeInMemory(m, v, f) ==
    IF Image[v] = NoBytes THEN m ELSE [m EXCEPT !.mainMemory[f] = Image[v]]

(* Swap::movePageToSwap; a full swap file fails an ASSERT *)
movePageToSwap(m, v, f) ==
    LET b == Find(m.swapMap, SwapSize)
    IN  [m EXCEPT !.swapFile[b] = m.mainMemory[f],
                  !.swapMap = @ \union {b},
                  !.pageTable[v] = [physicalPage |-> b, valid |-> FALSE, dirty |-> TRUE]]

(* Swap::movePageToMainMemory *)
movePageToMainMemory(m, v, f) ==
    LET b == m.pageTable[v].physicalPage
    IN  [m EXCEPT !.mainMemory[f] = m.swapFile[b],
                  !.swapMap = @ \ {b},
                  !.pageTable[v] = [physicalPage |-> f, valid |-> TRUE, dirty |-> TRUE]]

(* Swap::findPageToSwap: the first page in memory from oldPage on, else     *)
(* the first below it.  The loop runs to the size of the swap file, past    *)
(* the end of a smaller page table: if what lies there looks valid, it is a *)
(* victim.  -1 is an index outside the page table, and the program stops;   *)
(* bytes there that name a page of the table are left out.                  *)
findPageToSwap(m) ==
    LET valid == {v \in Pages : v < SwapSize /\ m.pageTable[v].valid}
        later == {v \in valid : v >= m.oldPage}
    IN  IF later # {} THEN {Min(later)}
        ELSE (IF NumPages < SwapSize THEN {-1} ELSE {})
               \union (IF valid # {} THEN {Min(valid)} ELSE {-1})

Evict(m, v) == [m EXCEPT !.pageTable[v] = [physicalPage |-> -1, valid |-> FALSE,
                                           dirty |-> FALSE]]

(* No frame is free: the victim p gives its frame to page v.  A victim that *)
(* is not dirty in the page table is dropped; the TLB is filled before the  *)
(* page table when v comes from the executable, and never invalidated.      *)
ReplacePage(m, v, p) ==
    LET n == [m EXCEPT !.oldPage = p]
        f == n.pageTable[p].physicalPage
        inSwap == n.pageTable[v].physicalPage # -1
        dirty == n.pageTable[p].dirty
        saved == IF dirty THEN movePageToSwap(n, p, f) ELSE n
        mapped == IF inSwap THEN updateTLB(movePageToMainMemory(saved, v, f), v)
                  ELSE updatePT(updateTLB(writeInMemory(saved, v, f), v), v, f)
    IN  [vm |-> IF dirty THEN mapped ELSE Evict(mapped, p),
         ret |-> IF dirty THEN -1 ELSE f, victim |-> p]

(* Variant: the frame found is not marked. *)
FillFrameUnmarked(m, v, f) == updateTLB(updatePT(writeInMemory(m, v, f), v, f), v)

(* Find returned the free frame f: page v comes in. *)
FillFrame(m, v, f) ==
    LET n == [m EXCEPT !.memoryMap = @ \union {f}]
    IN  updateTLB(IF m.pageTable[v].physicalPage = -1
                     THEN updatePT(writeInMemory(n, v, f), v, f)
                     ELSE movePageToMainMemory(n, v, f), v)

(* AddrSpace::pageFaultHandler: the possible results *)
pageFaultHandler(m, v) ==
    LET f == Find(m.memoryMap, NumPhysPages)
        Done(n, r) == {[vm |-> n, ret |-> r, victim |-> -1]}
    IN  CASE v \notin Pages -> Done(m, -1)
          [] v \in Pages /\ m.pageTable[v].valid ->
               Done(updateTLB(m, v), m.pageTable[v].physicalPage)
          [] v \in Pages /\ ~m.pageTable[v].valid /\ f # -1 -> Done(FillFrame(m, v, f), f)
          [] OTHER -> {IF p = -1 THEN [vm |-> m, ret |-> -1, victim |-> -2]
                       ELSE ReplacePage(m, v, p) : p \in findPageToSwap(m)}

-----------------------------------------------------------------------------
(* Machine::Translate with a TLB: the first valid entry for the page *)
Entries(m, v) == {i \in Slots : m.tlb[i].valid /\ m.tlb[i].virtualPage = v}

Translate(m, v, aligned, writing) ==
    LET i == Min(Entries(m, v))
    IN  CASE ~aligned -> "AddressErrorException"
          [] aligned /\ Entries(m, v) = {} -> "PageFaultException"
          [] aligned /\ Entries(m, v) # {} /\ m.tlb[i].readOnly /\ writing ->
               "ReadOnlyException"
          [] aligned /\ Entries(m, v) # {} /\ ~(m.tlb[i].readOnly /\ writing) ->
               IF m.tlb[i].physicalPage \notin Frames THEN "BusErrorException"
               ELSE "NoException"

Frame(m, v) == m.tlb[Min(Entries(m, v))].physicalPage

(* Machine::Translate sets the dirty bit of the entry it used. *)
SetDirty(m, v) == [m EXCEPT !.tlb[Min(Entries(m, v))].dirty = TRUE]

Expected(v) == IF v \in Pages THEN flat[v] ELSE Zero

(* ExceptionHandler: everything but a page fault fails an ASSERT. *)
RaiseException(exc) ==
    /\ exc \notin {"NoException", "PageFaultException"}
    /\ status' = exc
    /\ UNCHANGED <<vm, store, load, flat, tainted>>

(* The page fault handler returned r.  Without a frame to show for it the  *)
(* ASSERT fails; victim -2 is an index outside the page table.             *)
Handled(r, v) ==
    /\ vm' = r.vm
    /\ tainted' = IF r.victim >= 0 THEN tainted \union {v, r.victim} ELSE tainted
    /\ status' = CASE r.ret # -1 -> "running"
                   [] r.ret = -1 /\ v \notin Pages -> "OutOfRange"
                   [] OTHER -> IF r.victim = -2 THEN "WildPointer" ELSE "NoSpace"

Returns(v, got) == load' = [got |-> got, expected |-> Expected(v), page |-> v]

(* Machine::ReadMem.  After a fault it translates again and does not look  *)
(* at the result: if that fails, physicalAddress is not initialised and    *)
(* the value is anything, or the simulator crashes.                        *)
ReadMem(v, aligned) ==
    LET exc == Translate(vm, v, aligned, FALSE)
    IN  /\ status = "running" /\ store = None
        /\ \/ /\ exc = "NoException"
              /\ Returns(v, vm.mainMemory[Frame(vm, v)])
              /\ UNCHANGED <<vm, status, store, flat, tainted>>
           \/ RaiseException(exc)

ReadFault(v) ==
    /\ status = "running" /\ store = None
    /\ Translate(vm, v, TRUE, FALSE) = "PageFaultException"
    /\ \E r \in pageFaultHandler(vm, v) :
         /\ Handled(r, v)
         /\ IF r.ret = -1 THEN UNCHANGED load
            ELSE IF Translate(r.vm, v, TRUE, FALSE) = "NoException"
              THEN Returns(v, r.vm.mainMemory[Frame(r.vm, v)])
            ELSE \E any \in Values : Returns(v, any)
    /\ UNCHANGED <<store, flat>>

(* The program starts a store. *)
StoreWord(v, d) ==
    /\ status = "running" /\ store = None
    /\ store' = [page |-> v, value |-> d]
    /\ UNCHANGED <<vm, status, load, flat, tainted>>

(* Machine::WriteMem *)
WriteMem(aligned) ==
    LET v == store.page
        exc == Translate(vm, v, aligned, TRUE)
    IN  /\ status = "running" /\ store # None
        /\ \/ /\ exc = "NoException"
              /\ vm' = [SetDirty(vm, v) EXCEPT !.mainMemory[Frame(vm, v)] = store.value]
              /\ flat' = [flat EXCEPT ![v] = store.value]
              /\ store' = None
              /\ UNCHANGED <<status, load, tainted>>
           \/ RaiseException(exc)

(* A fault in WriteMem: it returns false and the instruction is run again. *)
WriteFault ==
    /\ status = "running" /\ store # None
    /\ Translate(vm, store.page, TRUE, TRUE) = "PageFaultException"
    /\ \E r \in pageFaultHandler(vm, store.page) : Handled(r, store.page)
    /\ UNCHANGED <<store, load, flat>>

-----------------------------------------------------------------------------
Accesses == 0 .. NumPages        \* the last one is outside the program

Next ==
    \/ \E v \in Accesses, aligned \in BOOLEAN : ReadMem(v, aligned)
    \/ \E v \in Accesses : ReadFault(v) \/ \E d \in Values : StoreWord(v, d)
    \/ \E aligned \in BOOLEAN : WriteMem(aligned)
    \/ WriteFault

(* The simulator runs one instruction after the other. *)
Fairness == WF_vars(WriteMem(TRUE) \/ WriteFault)

Spec == Init /\ [][Next]_vars /\ Fairness

-----------------------------------------------------------------------------
InMemory == {v \in Pages : vm.pageTable[v].valid}

(* Every frame marked in memoryMap belongs to exactly one page, and every  *)
(* page in memory has a marked frame: none is shared, none is lost.        *)
FramesExact ==
    /\ vm.memoryMap = {vm.pageTable[v].physicalPage : v \in InMemory}
    /\ \A v, w \in InMemory :
          vm.pageTable[v].physicalPage = vm.pageTable[w].physicalPage => v = w

(* A page that no eviction touched is translated correctly and holds what  *)
(* was last written to it, whatever stale TLB entries the evicted pages    *)
(* left behind; a load from it returns that.                               *)
UntouchedPagesFlat ==
    /\ \A v \in Pages \ tainted :
         /\ \A i \in Entries(vm, v) :
               vm.tlb[i].physicalPage = vm.pageTable[v].physicalPage
                   /\ vm.pageTable[v].valid
         /\ vm.pageTable[v].valid =>
               vm.mainMemory[vm.pageTable[v].physicalPage] = flat[v]
    /\ load.page \notin tainted => load.got = load.expected

(* A store that faults is restarted until it is done, or the program is    *)
(* stopped.                                                                *)
StoreCompletes == (store # None) ~> (store = None \/ status # "running")
=============================================================================
