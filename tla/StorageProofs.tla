---------------------------- MODULE StorageProofs ----------------------------
(***************************************************************************)
(* Proofs about what is kept in memory and on the disk, for any sizes.     *)
(*                                                                         *)
(* Demand paging keeps the frames exact, never uses its swap file, and is  *)
(* invisible to the pages that no eviction touched, for any executable.    *)
(*                                                                         *)
(* The file system is consistent between operations and gives the disk one *)
(* request at a time, for any threads, names and requests, any number of   *)
(* directory entries and any place where the sectors of the directory      *)
(* part: unless the machine crashes or threads change the same thing at a  *)
(* time, which nothing guards against.  Without crashes every file that    *)
(* lives keeps, byte for byte, what was written to it, and reads return it.*)
(***************************************************************************)
EXTENDS VirtualMemory, FileSys, DataProofs

(* Demand paging. *)

(* The types of a page table entry, a TLB slot and all of vm.              *)
Entry == [physicalPage : Frames \union {-1}, valid : BOOLEAN, dirty : BOOLEAN]
Slot == [virtualPage : Pages, physicalPage : Frames \union {-1}, valid : BOOLEAN,
         readOnly : BOOLEAN, dirty : BOOLEAN]
VM == [pageTable : [Pages -> Entry], tlb : [Slots -> Slot], tlbCounter : Slots,
       memoryMap : SUBSET Frames, mainMemory : [Frames -> Values],
       swapMap : SUBSET Int, swapFile : [0 .. SwapSize - 1 -> Values], oldPage : Pages]

Valid(m, v) == m.pageTable[v].valid
FrameOf(m, v) == m.pageTable[v].physicalPage

(* -1 is no frame, and the sets of numbers are what they seem. *)
LEMMA FrameSizes ==
    /\ NumPages \in Nat \ {0} /\ NumPhysPages \in Nat \ {0} /\ TLBSize \in Nat \ {0}
    /\ -1 \notin Frames /\ 0 \in Pages /\ 0 \in Frames /\ 0 \in Slots /\ -1 \notin Pages
    /\ SwapSize \in Nat
  BY SizesAssumption DEF Pages, Frames, Slots, SwapSize

(* updateTLB fills one slot and touches nothing else. *)
LEMMA UpdateTLB ==
    ASSUME NEW m \in VM, NEW v \in Pages
    PROVE  /\ updateTLB(m, v) \in VM
           /\ updateTLB(m, v).pageTable = m.pageTable
           /\ updateTLB(m, v).memoryMap = m.memoryMap
           /\ updateTLB(m, v).mainMemory = m.mainMemory
           /\ updateTLB(m, v).swapMap = m.swapMap
           /\ updateTLB(m, v).tlb[m.tlbCounter].valid
           /\ updateTLB(m, v).tlb[m.tlbCounter].virtualPage = v
           /\ updateTLB(m, v).tlb[m.tlbCounter].physicalPage = FrameOf(m, v)
           /\ \A i \in Slots \ {m.tlbCounter} : updateTLB(m, v).tlb[i] = m.tlb[i]
<1>1. (m.tlbCounter + 1) % TLBSize \in Slots
  BY FrameSizes DEF VM, Slots
<1>2. /\ m.tlb \in [Slots -> Slot] /\ m.tlbCounter \in Slots /\ m.tlb[m.tlbCounter] \in Slot
      /\ FrameOf(m, v) \in Frames \union {-1}
  BY DEF VM, Entry, FrameOf
<1> DEFINE s == [m.tlb[m.tlbCounter] EXCEPT !.virtualPage = v, !.valid = TRUE,
                                            !.physicalPage = FrameOf(m, v)]
           tlb == [m.tlb EXCEPT ![m.tlbCounter] = s]
<1>3. s \in Slot /\ s.valid /\ s.virtualPage = v /\ s.physicalPage = FrameOf(m, v)
  BY <1>2 DEF Slot
<1>4. updateTLB(m, v) = [m EXCEPT !.tlb = tlb, !.tlbCounter = (m.tlbCounter + 1) % TLBSize]
  BY DEF updateTLB, FrameOf
<1> HIDE DEF s
<1>5. tlb \in [Slots -> Slot] /\ tlb[m.tlbCounter] = s
      /\ \A i \in Slots \ {m.tlbCounter} : tlb[i] = m.tlb[i]
  BY <1>2, <1>3
<1> HIDE DEF tlb
<1>6. /\ updateTLB(m, v) \in VM /\ updateTLB(m, v).tlb = tlb
      /\ updateTLB(m, v).pageTable = m.pageTable
      /\ updateTLB(m, v).memoryMap = m.memoryMap
      /\ updateTLB(m, v).mainMemory = m.mainMemory
      /\ updateTLB(m, v).swapMap = m.swapMap
  BY <1>1, <1>4, <1>5 DEF VM
<1> QED BY <1>3, <1>5, <1>6

(* m and n differ in the page table, the memory map, main memory or        *)
(* oldPage only.                                                           *)
SameTLB(m, n) == n.tlb = m.tlb /\ n.tlbCounter = m.tlbCounter /\ n.swapMap = m.swapMap

(* updatePT maps one page. *)
LEMMA UpdatePT ==
    ASSUME NEW m \in VM, NEW v \in Pages, NEW f \in Frames
    PROVE  /\ updatePT(m, v, f) \in VM /\ SameTLB(m, updatePT(m, v, f))
           /\ updatePT(m, v, f).memoryMap = m.memoryMap
           /\ updatePT(m, v, f).mainMemory = m.mainMemory
           /\ Valid(updatePT(m, v, f), v) /\ FrameOf(updatePT(m, v, f), v) = f
           /\ updatePT(m, v, f).pageTable[v].dirty = m.pageTable[v].dirty
           /\ \A w \in Pages \ {v} : updatePT(m, v, f).pageTable[w] = m.pageTable[w]
<1> DEFINE e == [m.pageTable[v] EXCEPT !.physicalPage = f, !.valid = TRUE]
           table == [m.pageTable EXCEPT ![v] = e]
<1>1. m.pageTable \in [Pages -> Entry] /\ m.pageTable[v] \in Entry
  BY DEF VM
<1>2. e \in Entry /\ e.valid /\ e.physicalPage = f /\ e.dirty = m.pageTable[v].dirty
  BY <1>1 DEF Entry
<1>3. updatePT(m, v, f) = [m EXCEPT !.pageTable = table]
  BY DEF updatePT
<1> HIDE DEF e
<1>4. /\ table \in [Pages -> Entry] /\ table[v] = e
      /\ \A w \in Pages \ {v} : table[w] = m.pageTable[w]
  BY <1>1, <1>2
<1> HIDE DEF table
<1>5. /\ updatePT(m, v, f) \in VM /\ SameTLB(m, updatePT(m, v, f))
      /\ updatePT(m, v, f).memoryMap = m.memoryMap
      /\ updatePT(m, v, f).mainMemory = m.mainMemory
      /\ updatePT(m, v, f).pageTable = table
  BY <1>3, <1>4 DEF VM, SameTLB
<1> QED BY <1>2, <1>4, <1>5 DEF Valid, FrameOf

(* The victim of an eviction is mapped no more. *)
LEMMA EvictOne ==
    ASSUME NEW m \in VM, NEW v \in Pages
    PROVE  /\ Evict(m, v) \in VM /\ SameTLB(m, Evict(m, v))
           /\ Evict(m, v).memoryMap = m.memoryMap
           /\ Evict(m, v).mainMemory = m.mainMemory
           /\ ~Valid(Evict(m, v), v) /\ FrameOf(Evict(m, v), v) = -1
           /\ ~Evict(m, v).pageTable[v].dirty
           /\ \A w \in Pages \ {v} : Evict(m, v).pageTable[w] = m.pageTable[w]
<1> DEFINE e == [physicalPage |-> -1, valid |-> FALSE, dirty |-> FALSE]
           table == [m.pageTable EXCEPT ![v] = e]
<1>1. m.pageTable \in [Pages -> Entry]
  BY DEF VM
<1>2. e \in Entry /\ ~e.valid /\ e.physicalPage = -1 /\ ~e.dirty
  BY DEF Entry
<1>3. Evict(m, v) = [m EXCEPT !.pageTable = table]
  BY DEF Evict
<1> HIDE DEF e
<1>4. /\ table \in [Pages -> Entry] /\ table[v] = e
      /\ \A w \in Pages \ {v} : table[w] = m.pageTable[w]
  BY <1>1, <1>2
<1> HIDE DEF table
<1>5. /\ Evict(m, v) \in VM /\ SameTLB(m, Evict(m, v))
      /\ Evict(m, v).memoryMap = m.memoryMap
      /\ Evict(m, v).mainMemory = m.mainMemory
      /\ Evict(m, v).pageTable = table
  BY <1>3, <1>4 DEF VM, SameTLB
<1> QED BY <1>2, <1>4, <1>5 DEF Valid, FrameOf

(* What a page holds before the program runs. *)
First(v) == IF Image[v] = NoBytes THEN Zero ELSE Image[v]

(* writeInMemory changes one frame at most; a frame that holds zeros gets  *)
(* what the page holds at first.                                           *)
LEMMA WriteInMemory ==
    ASSUME NEW m \in VM, NEW v \in Pages, NEW f \in Frames
    PROVE  /\ writeInMemory(m, v, f) \in VM /\ SameTLB(m, writeInMemory(m, v, f))
           /\ writeInMemory(m, v, f).memoryMap = m.memoryMap
           /\ writeInMemory(m, v, f).pageTable = m.pageTable
           /\ m.mainMemory[f] = Zero => writeInMemory(m, v, f).mainMemory[f] = First(v)
           /\ \A g \in Frames \ {f} : writeInMemory(m, v, f).mainMemory[g] = m.mainMemory[g]
<1>1. CASE Image[v] = NoBytes
  BY <1>1 DEF writeInMemory, First, SameTLB
<1>2. CASE Image[v] # NoBytes
  <2> DEFINE memory == [m.mainMemory EXCEPT ![f] = Image[v]]
  <2>1. writeInMemory(m, v, f) = [m EXCEPT !.mainMemory = memory]
    BY <1>2 DEF writeInMemory
  <2>2. /\ memory \in [Frames -> Values] /\ memory[f] = Image[v]
        /\ \A g \in Frames \ {f} : memory[g] = m.mainMemory[g]
    BY <1>2, ImageAssumption DEF VM
  <2> HIDE DEF memory
  <2> QED BY <1>2, <2>1, <2>2 DEF VM, SameTLB, First
<1> QED BY <1>1, <1>2

-----------------------------------------------------------------------------
(* No page is ever dirty in the page table, so nothing goes to the swap    *)
(* file, and a page that is not in memory has no frame number.             *)
Unswapped(m) ==
    /\ m \in VM /\ m.swapMap = {}
    /\ \A v \in Pages : ~m.pageTable[v].dirty /\ (Valid(m, v) <=> FrameOf(m, v) # -1)

(* The frames marked are those of the pages in memory, one each. *)
Exact(m) ==
    /\ \A f \in Frames : f \in m.memoryMap <=> \E v \in Pages : Valid(m, v) /\ FrameOf(m, v) = f
    /\ \A v, w \in Pages : Valid(m, v) /\ Valid(m, w) /\ FrameOf(m, v) = FrameOf(m, w) => v = w

Translates(m, i, v) == m.tlb[i].valid /\ m.tlb[i].virtualPage = v
InTLB(m, v) == \E i \in Slots : Translates(m, i, v)

(* A slot for a page outside T is right, and nobody else's slot leads to   *)
(* the frame of such a page; no slot leads to a free frame.                *)
SlotsRight(m, T) ==
    /\ \A v \in Pages \ T, i \in Slots : Translates(m, i, v) =>
          Valid(m, v) /\ m.tlb[i].physicalPage = FrameOf(m, v)
    /\ \A v \in Pages \ T, i \in Slots :
          m.tlb[i].valid /\ Valid(m, v) /\ m.tlb[i].physicalPage = FrameOf(m, v)
             => m.tlb[i].virtualPage = v
    /\ \A i \in Slots : m.tlb[i].valid => m.tlb[i].physicalPage \in m.memoryMap \union {-1}

(* Pages outside T hold what they should, and free frames hold zeros. *)
Holds(m, T, fl) ==
    /\ \A v \in Pages \ T : IF Valid(m, v) THEN m.mainMemory[FrameOf(m, v)] = fl[v]
                            ELSE fl[v] = First(v)
    /\ \A f \in Frames : f \notin m.memoryMap => m.mainMemory[f] = Zero

Sound(m, T, fl) == Unswapped(m) /\ Exact(m) /\ SlotsRight(m, T) /\ Holds(m, T, fl)

(* BitMap::Find gives a clear bit, or -1. *)
LEMMA FindFree ==
    ASSUME NEW map \in SUBSET Frames, Find(map, NumPhysPages) # -1
    PROVE  Find(map, NumPhysPages) \in Frames \ map
<1>1. (0 .. NumPhysPages - 1) \ map \subseteq Nat /\ (0 .. NumPhysPages - 1) \ map # {}
  BY FrameSizes DEF Find
<1>2. Find(map, NumPhysPages) = Min((0 .. NumPhysPages - 1) \ map)
  BY DEF Find
<1> HIDE DEF Frames
<1> QED BY <1>1, <1>2, MinNat DEF Frames

(* A fault on a page that is in memory fills a slot. *)
LEMMA RefillSound ==
    ASSUME NEW m, NEW T, NEW fl, Sound(m, T, fl), NEW v \in Pages, Valid(m, v)
    PROVE  /\ Sound(updateTLB(m, v), T, fl)
           /\ InTLB(updateTLB(m, v), v)
<1> DEFINE n == updateTLB(m, v)
<1>0. m \in VM
  BY DEF Sound, Unswapped
<1>1. /\ n \in VM /\ n.pageTable = m.pageTable /\ n.memoryMap = m.memoryMap
      /\ n.mainMemory = m.mainMemory /\ n.swapMap = m.swapMap
      /\ n.tlb[m.tlbCounter].valid /\ n.tlb[m.tlbCounter].virtualPage = v
      /\ n.tlb[m.tlbCounter].physicalPage = FrameOf(m, v)
      /\ \A i \in Slots \ {m.tlbCounter} : n.tlb[i] = m.tlb[i]
  BY <1>0, UpdateTLB
<1>2. m.tlbCounter \in Slots
  BY <1>0 DEF VM
<1> HIDE DEF n
<1>3. \A w \in Pages : (Valid(n, w) <=> Valid(m, w)) /\ FrameOf(n, w) = FrameOf(m, w)
  BY <1>1 DEF Valid, FrameOf
<1>4. Unswapped(n) /\ Exact(n) /\ Holds(n, T, fl)
  BY <1>1, <1>3 DEF Sound, Unswapped, Exact, Holds
<1>5. FrameOf(m, v) \in m.memoryMap
  <2>1. FrameOf(m, v) \in Frames \union {-1} /\ FrameOf(m, v) # -1
    BY <1>0 DEF Sound, Unswapped, VM, Entry, FrameOf
  <2> QED BY <2>1 DEF Sound, Exact
<1>6. SlotsRight(n, T)
  <2>1. ASSUME NEW w \in Pages \ T, NEW i \in Slots, Translates(n, i, w)
        PROVE  Valid(n, w) /\ n.tlb[i].physicalPage = FrameOf(n, w)
    <3>1. CASE i = m.tlbCounter
      BY <1>1, <1>3, <2>1, <3>1 DEF Translates
    <3>2. CASE i # m.tlbCounter
      BY <1>1, <1>3, <2>1, <3>2 DEF Translates, Sound, SlotsRight
    <3> QED BY <3>1, <3>2
  <2>2. ASSUME NEW w \in Pages \ T, NEW i \in Slots, n.tlb[i].valid, Valid(n, w),
               n.tlb[i].physicalPage = FrameOf(n, w)
        PROVE  n.tlb[i].virtualPage = w
    <3>1. CASE i = m.tlbCounter
      BY <1>1, <1>3, <2>2, <3>1 DEF Sound, Exact
    <3>2. CASE i # m.tlbCounter
      BY <1>1, <1>3, <2>2, <3>2 DEF Sound, SlotsRight
    <3> QED BY <3>1, <3>2
  <2>3. ASSUME NEW i \in Slots, n.tlb[i].valid
        PROVE  n.tlb[i].physicalPage \in n.memoryMap \union {-1}
    BY <1>1, <1>5, <2>3 DEF Sound, SlotsRight
  <2> QED BY <2>1, <2>2, <2>3 DEF SlotsRight
<1>7. Translates(n, m.tlbCounter, v)
  BY <1>1 DEF Translates
<1> QED BY <1>2, <1>4, <1>6, <1>7 DEF n, Sound, InTLB

(* A page that comes into a free frame holds what the executable says. *)
LEMMA FillSound ==
    ASSUME NEW m, NEW T, NEW fl, Sound(m, T, fl), NEW v \in Pages, ~Valid(m, v),
           NEW f \in Frames \ m.memoryMap
    PROVE  /\ Sound(FillFrame(m, v, f), T, fl)
           /\ InTLB(FillFrame(m, v, f), v)
<1> DEFINE a == [m EXCEPT !.memoryMap = @ \union {f}]
           b == writeInMemory(a, v, f)
           n == updatePT(b, v, f)
<1>0. m \in VM /\ FrameOf(m, v) = -1
  BY DEF Sound, Unswapped
<1>1. FillFrame(m, v, f) = updateTLB(n, v)
  BY <1>0 DEF FillFrame, FrameOf
<1>2. /\ a \in VM /\ SameTLB(m, a) /\ a.memoryMap = m.memoryMap \union {f}
      /\ a.pageTable = m.pageTable /\ a.mainMemory = m.mainMemory
  BY <1>0 DEF VM, SameTLB
<1> HIDE DEF a
<1>3. /\ b \in VM /\ SameTLB(a, b) /\ b.memoryMap = a.memoryMap /\ b.pageTable = a.pageTable
      /\ a.mainMemory[f] = Zero => b.mainMemory[f] = First(v)
      /\ \A g \in Frames \ {f} : b.mainMemory[g] = a.mainMemory[g]
  BY <1>2, WriteInMemory
<1> HIDE DEF b
<1>4. /\ n \in VM /\ SameTLB(b, n) /\ n.memoryMap = b.memoryMap
      /\ n.mainMemory = b.mainMemory /\ Valid(n, v) /\ FrameOf(n, v) = f
      /\ n.pageTable[v].dirty = b.pageTable[v].dirty
      /\ \A w \in Pages \ {v} : n.pageTable[w] = b.pageTable[w]
  BY <1>3, UpdatePT
<1> HIDE DEF n
<1>5. /\ n.tlb = m.tlb /\ n.swapMap = m.swapMap /\ n.memoryMap = m.memoryMap \union {f}
      /\ n.mainMemory[f] = First(v)
      /\ \A g \in Frames \ {f} : n.mainMemory[g] = m.mainMemory[g]
      /\ \A w \in Pages : n.pageTable[w].dirty = m.pageTable[w].dirty
      /\ \A w \in Pages \ {v} : /\ Valid(n, w) <=> Valid(m, w)
                                /\ FrameOf(n, w) = FrameOf(m, w)
  BY <1>2, <1>3, <1>4 DEF SameTLB, Valid, FrameOf, Sound, Holds
<1>6. \A w \in Pages : Valid(m, w) => FrameOf(m, w) \in m.memoryMap /\ FrameOf(m, w) # f
  <2> SUFFICES ASSUME NEW w \in Pages, Valid(m, w) PROVE FrameOf(m, w) \in m.memoryMap
    OBVIOUS
  <2>1. FrameOf(m, w) \in Frames
    BY <1>0 DEF Sound, Unswapped, VM, Entry, FrameOf
  <2> QED BY <2>1 DEF Sound, Exact
<1>7. Unswapped(n)
  BY <1>4, <1>5, FrameSizes DEF Sound, Unswapped
<1>8. Exact(n)
  <2>1. ASSUME NEW g \in Frames
        PROVE  g \in n.memoryMap <=> \E w \in Pages : Valid(n, w) /\ FrameOf(n, w) = g
    <3>1. g \in m.memoryMap <=> \E w \in Pages : Valid(m, w) /\ FrameOf(m, w) = g
      BY DEF Sound, Exact
    <3>2. (\E w \in Pages : Valid(n, w) /\ FrameOf(n, w) = g)
             <=> (g = f \/ \E w \in Pages : Valid(m, w) /\ FrameOf(m, w) = g)
      BY <1>4, <1>5
    <3> QED BY <1>5, <3>1, <3>2
  <2>2. ASSUME NEW w \in Pages, NEW x \in Pages, Valid(n, w), Valid(n, x),
               FrameOf(n, w) = FrameOf(n, x)
        PROVE  w = x
    <3>1. CASE w # v /\ x # v
      BY <1>5, <2>2, <3>1 DEF Sound, Exact
    <3>2. CASE (w = v) # (x = v)
      BY <1>4, <1>5, <1>6, <2>2, <3>2
    <3> QED BY <3>1, <3>2
  <2> QED BY <2>1, <2>2 DEF Exact
<1>9. SlotsRight(n, T)
  <2>1. ASSUME NEW i \in Slots, n.tlb[i].valid
        PROVE  n.tlb[i].physicalPage \in m.memoryMap \union {-1} /\ n.tlb[i].physicalPage # f
    BY <1>5, <2>1, FrameSizes DEF Sound, SlotsRight
  <2>2. ASSUME NEW w \in Pages \ T, NEW i \in Slots, Translates(n, i, w)
        PROVE  Valid(n, w) /\ n.tlb[i].physicalPage = FrameOf(n, w)
    BY <1>4, <1>5, <2>2 DEF Translates, Sound, SlotsRight
  <2>3. ASSUME NEW w \in Pages \ T, NEW i \in Slots, n.tlb[i].valid, Valid(n, w),
               n.tlb[i].physicalPage = FrameOf(n, w)
        PROVE  n.tlb[i].virtualPage = w
    BY <1>4, <1>5, <2>1, <2>3 DEF Sound, SlotsRight
  <2> QED BY <1>5, <2>1, <2>2, <2>3 DEF SlotsRight
<1>10. Holds(n, T, fl)
  <2>1. ASSUME NEW w \in Pages \ T
        PROVE  IF Valid(n, w) THEN n.mainMemory[FrameOf(n, w)] = fl[w] ELSE fl[w] = First(w)
    <3>1. CASE w = v
      BY <1>4, <1>5, <2>1, <3>1 DEF Sound, Holds
    <3>2. CASE w # v /\ Valid(m, w)
      <4>1. FrameOf(m, w) \in Frames \ {f}
        BY <1>0, <1>6, <3>2 DEF VM
      <4> QED BY <1>5, <2>1, <3>2, <4>1 DEF Sound, Holds
    <3>3. CASE w # v /\ ~Valid(m, w)
      BY <1>5, <2>1, <3>3 DEF Sound, Holds
    <3> QED BY <3>1, <3>2, <3>3
  <2>2. \A g \in Frames : g \notin n.memoryMap => n.mainMemory[g] = Zero
    BY <1>5 DEF Sound, Holds
  <2> QED BY <2>1, <2>2 DEF Holds
<1>11. Sound(n, T, fl)
  BY <1>7, <1>8, <1>9, <1>10 DEF Sound
<1> QED BY <1>1, <1>4, <1>11, RefillSound

(* The victim of Swap::findPageToSwap is in memory. *)
LEMMA VictimInMemory ==
    ASSUME NEW m \in VM, NEW p \in findPageToSwap(m), p # -1
    PROVE  p \in Pages /\ Valid(m, p)
<1> DEFINE valid == {v \in Pages : v < SwapSize /\ m.pageTable[v].valid}
           later == {v \in valid : v >= m.oldPage}
<1>1. valid \subseteq Nat /\ later \subseteq Nat
  BY FrameSizes DEF Pages
<1>2. \/ later # {} /\ p = Min(later)
      \/ valid # {} /\ p = Min(valid)
  BY DEF findPageToSwap
<1>3. p \in valid
  <2> HIDE DEF valid
  <2>1. later # {} => Min(later) \in later
    <3> HIDE DEF later
    <3> QED BY <1>1, MinNat
  <2>2. valid # {} => Min(valid) \in valid
    BY <1>1, MinNat
  <2> QED BY <1>2, <2>1, <2>2
<1> QED BY <1>3 DEF Valid

(* An eviction gives the victim's frame to another page, and concerns no   *)
(* page but these two.                                                     *)
LEMMA ReplaceSound ==
    ASSUME NEW m, NEW T, NEW fl, Sound(m, T, fl), NEW v \in Pages, ~Valid(m, v),
           NEW p \in Pages, Valid(m, p)
    PROVE  /\ Sound(ReplacePage(m, v, p).vm, T \union {v, p}, fl)
           /\ ReplacePage(m, v, p).victim = p
<1> DEFINE f == FrameOf(m, p)
           a == [m EXCEPT !.oldPage = p]
           b == writeInMemory(a, v, f)
           c == updateTLB(b, v)
           d == updatePT(c, v, f)
           n == Evict(d, p)
<1>0. m \in VM /\ FrameOf(m, v) = -1 /\ ~m.pageTable[p].dirty /\ p # v
  BY DEF Sound, Unswapped
<1>1. f \in Frames /\ f \in m.memoryMap
  <2>1. f \in Frames
    BY <1>0 DEF Sound, Unswapped, VM, Entry, FrameOf
  <2> QED BY <2>1 DEF Sound, Exact
<1>2. /\ a \in VM /\ SameTLB(m, a) /\ a.memoryMap = m.memoryMap
      /\ a.pageTable = m.pageTable /\ a.mainMemory = m.mainMemory
  BY <1>0 DEF VM, SameTLB
<1>3. ReplacePage(m, v, p).vm = n /\ ReplacePage(m, v, p).victim = p
  BY <1>0, <1>2 DEF ReplacePage, FrameOf
<1> HIDE DEF a, f
<1>4. /\ b \in VM /\ SameTLB(a, b) /\ b.memoryMap = a.memoryMap /\ b.pageTable = a.pageTable
      /\ \A g \in Frames \ {f} : b.mainMemory[g] = a.mainMemory[g]
  BY <1>1, <1>2, WriteInMemory
<1> HIDE DEF b
<1>5. /\ c \in VM /\ c.pageTable = b.pageTable /\ c.memoryMap = b.memoryMap
      /\ c.mainMemory = b.mainMemory /\ c.swapMap = b.swapMap
      /\ c.tlb[b.tlbCounter].virtualPage = v
      /\ c.tlb[b.tlbCounter].physicalPage = FrameOf(b, v)
      /\ \A i \in Slots \ {b.tlbCounter} : c.tlb[i] = b.tlb[i]
  BY <1>4, UpdateTLB
<1> HIDE DEF c
<1>6. /\ d \in VM /\ SameTLB(c, d) /\ d.memoryMap = c.memoryMap
      /\ d.mainMemory = c.mainMemory /\ Valid(d, v) /\ FrameOf(d, v) = f
      /\ d.pageTable[v].dirty = c.pageTable[v].dirty
      /\ \A w \in Pages \ {v} : d.pageTable[w] = c.pageTable[w]
  BY <1>1, <1>5, UpdatePT
<1> HIDE DEF d
<1>7. /\ n \in VM /\ SameTLB(d, n) /\ n.memoryMap = d.memoryMap
      /\ n.mainMemory = d.mainMemory /\ ~Valid(n, p) /\ FrameOf(n, p) = -1
      /\ ~n.pageTable[p].dirty
      /\ \A w \in Pages \ {p} : n.pageTable[w] = d.pageTable[w]
  BY <1>6, EvictOne
<1> HIDE DEF n
<1>8. /\ n.swapMap = m.swapMap /\ n.memoryMap = m.memoryMap
      /\ \A g \in Frames \ {f} : n.mainMemory[g] = m.mainMemory[g]
      /\ Valid(n, v) /\ FrameOf(n, v) = f /\ ~n.pageTable[v].dirty
      /\ \A w \in Pages \ {v, p} : n.pageTable[w] = m.pageTable[w]
  BY <1>0, <1>2, <1>4, <1>5, <1>6, <1>7 DEF SameTLB, Valid, FrameOf, Sound, Unswapped
<1>9. /\ n.tlb[m.tlbCounter].virtualPage = v /\ n.tlb[m.tlbCounter].physicalPage = -1
      /\ \A i \in Slots \ {m.tlbCounter} : n.tlb[i] = m.tlb[i]
  BY <1>0, <1>2, <1>4, <1>5, <1>6, <1>7 DEF SameTLB, FrameOf
<1>10. \A w \in Pages \ {v, p} : (Valid(n, w) <=> Valid(m, w)) /\ FrameOf(n, w) = FrameOf(m, w)
  BY <1>8 DEF Valid, FrameOf
<1>11. \A w \in Pages \ {v, p} : Valid(m, w) => FrameOf(m, w) # f
  BY DEF Sound, Exact, f
<1>12. Unswapped(n)
  <2>1. \A w \in Pages : ~n.pageTable[w].dirty
    BY <1>7, <1>8 DEF Sound, Unswapped
  <2>2. \A w \in Pages : Valid(n, w) <=> FrameOf(n, w) # -1
    BY <1>1, <1>7, <1>8, <1>10, FrameSizes DEF Sound, Unswapped
  <2> QED BY <1>7, <1>8, <2>1, <2>2 DEF Sound, Unswapped
<1>13. Exact(n)
  <2>1. ASSUME NEW g \in Frames
        PROVE  g \in n.memoryMap <=> \E w \in Pages : Valid(n, w) /\ FrameOf(n, w) = g
    <3>1. g \in m.memoryMap <=> \E w \in Pages : Valid(m, w) /\ FrameOf(m, w) = g
      BY DEF Sound, Exact
    <3>2. CASE g = f
      BY <1>1, <1>8, <3>2
    <3>3. CASE g # f
      <4>1. ASSUME NEW w \in Pages, Valid(m, w), FrameOf(m, w) = g
            PROVE  Valid(n, w) /\ FrameOf(n, w) = g
        BY <1>10, <3>3, <4>1 DEF f
      <4>2. ASSUME NEW w \in Pages, Valid(n, w), FrameOf(n, w) = g
            PROVE  Valid(m, w) /\ FrameOf(m, w) = g
        BY <1>7, <1>8, <1>10, <3>3, <4>2
      <4> QED BY <1>8, <3>1, <4>1, <4>2
    <3> QED BY <3>2, <3>3
  <2>2. ASSUME NEW w \in Pages, NEW x \in Pages, Valid(n, w), Valid(n, x),
               FrameOf(n, w) = FrameOf(n, x)
        PROVE  w = x
    <3>1. w # p /\ x # p
      BY <1>7, <2>2
    <3>2. CASE w # v /\ x # v
      BY <1>10, <2>2, <3>1, <3>2 DEF Sound, Exact
    <3>3. CASE (w = v) # (x = v)
      BY <1>8, <1>10, <1>11, <2>2, <3>1, <3>3
    <3> QED BY <3>2, <3>3
  <2> QED BY <2>1, <2>2 DEF Exact
<1>14. SlotsRight(n, T \union {v, p})
  <2>1. ASSUME NEW i \in Slots, n.tlb[i].valid
        PROVE  n.tlb[i].physicalPage \in n.memoryMap \union {-1}
    BY <1>8, <1>9, <2>1 DEF Sound, SlotsRight
  <2>2. ASSUME NEW w \in Pages \ (T \union {v, p}), NEW i \in Slots, Translates(n, i, w)
        PROVE  Valid(n, w) /\ n.tlb[i].physicalPage = FrameOf(n, w)
    <3>1. i # m.tlbCounter
      BY <1>9, <2>2 DEF Translates
    <3> QED BY <1>9, <1>10, <2>2, <3>1 DEF Translates, Sound, SlotsRight
  <2>3. ASSUME NEW w \in Pages \ (T \union {v, p}), NEW i \in Slots, n.tlb[i].valid,
               Valid(n, w), n.tlb[i].physicalPage = FrameOf(n, w)
        PROVE  n.tlb[i].virtualPage = w
    <3>1. FrameOf(n, w) # -1
      BY <1>12, <2>3 DEF Unswapped
    <3>2. i # m.tlbCounter
      BY <1>9, <2>3, <3>1
    <3> QED BY <1>9, <1>10, <2>3, <3>2 DEF Sound, SlotsRight
  <2> QED BY <2>1, <2>2, <2>3 DEF SlotsRight
<1>15. Holds(n, T \union {v, p}, fl)
  <2>1. ASSUME NEW w \in Pages \ (T \union {v, p})
        PROVE  IF Valid(n, w) THEN n.mainMemory[FrameOf(n, w)] = fl[w] ELSE fl[w] = First(w)
    <3>1. CASE Valid(m, w)
      <4>1. FrameOf(m, w) \in Frames \ {f}
        BY <1>0, <1>11, <2>1, <3>1 DEF Sound, Unswapped, VM, Entry, FrameOf
      <4> QED BY <1>8, <1>10, <2>1, <3>1, <4>1 DEF Sound, Holds
    <3>2. CASE ~Valid(m, w)
      BY <1>10, <2>1, <3>2 DEF Sound, Holds
    <3> QED BY <3>1, <3>2
  <2>2. \A g \in Frames : g \notin n.memoryMap => n.mainMemory[g] = Zero
    BY <1>1, <1>8 DEF Sound, Holds
  <2> QED BY <2>1, <2>2 DEF Holds
<1> QED BY <1>3, <1>12, <1>13, <1>14, <1>15 DEF Sound

(* AddrSpace::pageFaultHandler: every result is sound again, the pages of  *)
(* an eviction apart; without one, the page is in the TLB.                 *)
LEMMA HandlerSound ==
    ASSUME NEW m, NEW T, NEW fl, Sound(m, T, fl), NEW v, NEW r \in pageFaultHandler(m, v)
    PROVE  /\ Sound(r.vm, IF r.victim >= 0 THEN T \union {v, r.victim} ELSE T, fl)
           /\ r.ret # -1 => /\ v \in Pages
                            /\ r.victim >= 0 \/ InTLB(r.vm, v)
<1> DEFINE f == Find(m.memoryMap, NumPhysPages)
<1>0. m \in VM /\ m.memoryMap \in SUBSET Frames
  BY DEF Sound, Unswapped, VM
<1>1. CASE v \notin Pages
  <2>1. r = [vm |-> m, ret |-> -1, victim |-> -1]
    BY <1>1 DEF pageFaultHandler
  <2> QED BY <2>1
<1>2. CASE v \in Pages /\ Valid(m, v)
  <2>1. r = [vm |-> updateTLB(m, v), ret |-> m.pageTable[v].physicalPage, victim |-> -1]
    BY <1>2 DEF pageFaultHandler, Valid
  <2> QED BY <1>2, <2>1, RefillSound
<1>3. CASE v \in Pages /\ ~Valid(m, v) /\ f # -1
  <2>1. r = [vm |-> FillFrame(m, v, f), ret |-> f, victim |-> -1]
    BY <1>3 DEF pageFaultHandler, Valid
  <2>2. f \in Frames \ m.memoryMap
    BY <1>0, <1>3, FindFree
  <2> HIDE DEF f
  <2> QED BY <1>3, <2>1, <2>2, FillSound
<1>4. CASE v \in Pages /\ ~Valid(m, v) /\ f = -1
  <2>1. PICK p \in findPageToSwap(m) :
           r = IF p = -1 THEN [vm |-> m, ret |-> -1, victim |-> -2] ELSE ReplacePage(m, v, p)
    BY <1>4 DEF pageFaultHandler, Valid
  <2>2. CASE p = -1
    BY <2>1, <2>2
  <2>3. CASE p # -1
    <3>1. p \in Pages /\ Valid(m, p)
      BY <1>0, <2>3, VictimInMemory
    <3>2. Sound(r.vm, T \union {v, p}, fl) /\ r.victim = p
      BY <1>4, <2>1, <2>3, <3>1, ReplaceSound
    <3>3. p >= 0
      BY <3>1, FrameSizes DEF Pages
    <3> QED BY <1>4, <3>2, <3>3
  <2> QED BY <2>2, <2>3
<1> QED BY <1>1, <1>2, <1>3, <1>4

-----------------------------------------------------------------------------
(* Machine::Translate without an exception uses a slot of the page. *)
LEMMA TranslateUsesSlot ==
    ASSUME NEW m, NEW T, NEW fl, Sound(m, T, fl), NEW v, NEW aligned, NEW writing,
           Translate(m, v, aligned, writing) = "NoException"
    PROVE  /\ v \in Pages /\ Min(Entries(m, v)) \in Slots /\ Translates(m, Min(Entries(m, v)), v)
           /\ Frame(m, v) \in Frames
<1>1. Entries(m, v) # {} /\ Entries(m, v) \subseteq Nat
  <2>1. aligned /\ Entries(m, v) # {}
    BY DEF Translate
  <2>2. Entries(m, v) \subseteq Nat
    BY FrameSizes DEF Entries, Slots
  <2> QED BY <2>1, <2>2
<1>2. Min(Entries(m, v)) \in Entries(m, v)
  BY <1>1, MinNat
<1>3. m.tlb \in [Slots -> Slot]
  BY DEF Sound, Unswapped, VM
<1>4. Frame(m, v) \in Frames
  BY <1>1 DEF Translate, Frame
<1> QED BY <1>2, <1>3, <1>4 DEF Entries, Translates, Slot

(* A load from page v returns x. *)
PageReads(m, v, x) ==
    Translate(m, v, TRUE, FALSE) = "NoException" /\ m.mainMemory[Frame(m, v)] = x

(* A page outside T that has a slot is read without an exception, and the  *)
(* load returns what the page should hold.                                 *)
LEMMA UntouchedRead ==
    ASSUME NEW m, NEW T, NEW fl, Sound(m, T, fl), NEW v \in Pages, v \notin T,
           InTLB(m, v)
    PROVE  PageReads(m, v, fl[v])
<1> DEFINE j == Min(Entries(m, v))
<1>1. Entries(m, v) # {} /\ Entries(m, v) \subseteq Nat
  BY FrameSizes DEF Translates, InTLB, Entries, Slots
<1>2. j \in Entries(m, v)
  BY <1>1, MinNat
<1>3. Valid(m, v) /\ Frame(m, v) = FrameOf(m, v)
  BY <1>2 DEF Entries, Translates, Frame, Sound, SlotsRight
<1>4. FrameOf(m, v) \in Frames
  BY <1>3 DEF Sound, Unswapped, VM, Entry, FrameOf
<1>5. m.tlb[j].physicalPage \in Frames
  BY <1>3, <1>4 DEF Frame
<1> HIDE DEF j
<1>6. Translate(m, v, TRUE, FALSE) = "NoException"
  BY <1>1, <1>5 DEF Translate, j
<1> QED BY <1>3, <1>6 DEF Sound, Holds, PageReads

(* A store through a slot changes no page outside T but its own, whatever  *)
(* stale frame the slot names.                                             *)
LEMMA StoreSound ==
    ASSUME NEW m, NEW T, NEW fl \in [Pages -> Values], Sound(m, T, fl),
           NEW v, NEW aligned, NEW d \in Values,
           Translate(m, v, aligned, TRUE) = "NoException"
    PROVE  Sound([SetDirty(m, v) EXCEPT !.mainMemory[Frame(m, v)] = d], T,
                 [fl EXCEPT ![v] = d])
<1> DEFINE j == Min(Entries(m, v))
           f == Frame(m, v)
           s == [m.tlb[j] EXCEPT !.dirty = TRUE]
           tlb == [m.tlb EXCEPT ![j] = s]
           memory == [m.mainMemory EXCEPT ![f] = d]
           n == [SetDirty(m, v) EXCEPT !.mainMemory[f] = d]
           gl == [fl EXCEPT ![v] = d]
<1>0. m \in VM /\ m.tlb \in [Slots -> Slot] /\ m.mainMemory \in [Frames -> Values]
  BY DEF Sound, Unswapped, VM
<1>1. /\ v \in Pages /\ j \in Slots /\ Translates(m, j, v) /\ f \in Frames
      /\ m.tlb[j].physicalPage = f
  BY TranslateUsesSlot DEF Frame
<1>2. m.tlb[j] \in Slot
  BY <1>0, <1>1
<1>3. n = [m EXCEPT !.tlb = tlb, !.mainMemory = memory]
  <2>1. SetDirty(m, v) = [m EXCEPT !.tlb = tlb]
    BY DEF SetDirty
  <2>2. SetDirty(m, v).mainMemory = m.mainMemory
    BY <1>0, <2>1 DEF VM
  <2> HIDE DEF tlb, f
  <2> QED BY <1>0, <2>1, <2>2 DEF VM
<1> HIDE DEF j, f
<1>4. /\ s \in Slot /\ s.valid = m.tlb[j].valid /\ s.virtualPage = m.tlb[j].virtualPage
      /\ s.physicalPage = m.tlb[j].physicalPage
  BY <1>2 DEF Slot
<1> HIDE DEF s
<1>5. /\ tlb \in [Slots -> Slot]
      /\ \A i \in Slots : /\ tlb[i].valid = m.tlb[i].valid
                          /\ tlb[i].virtualPage = m.tlb[i].virtualPage
                          /\ tlb[i].physicalPage = m.tlb[i].physicalPage
  BY <1>0, <1>1, <1>4
<1>6. /\ memory \in [Frames -> Values] /\ memory[f] = d
      /\ \A g \in Frames \ {f} : memory[g] = m.mainMemory[g]
  BY <1>0, <1>1
<1> HIDE DEF tlb, memory, n
<1>7. /\ n \in VM /\ n.tlb = tlb /\ n.mainMemory = memory /\ n.pageTable = m.pageTable
      /\ n.memoryMap = m.memoryMap /\ n.swapMap = m.swapMap
  BY <1>0, <1>3, <1>5, <1>6 DEF VM
<1>8. \A w \in Pages : (Valid(n, w) <=> Valid(m, w)) /\ FrameOf(n, w) = FrameOf(m, w)
  BY <1>7 DEF Valid, FrameOf
<1>9. Unswapped(n) /\ Exact(n)
  BY <1>7, <1>8 DEF Sound, Unswapped, Exact
<1>10. SlotsRight(n, T)
  BY <1>5, <1>7, <1>8 DEF Sound, SlotsRight, Translates
<1>11. f \in m.memoryMap
  BY <1>1, FrameSizes DEF Translates, Sound, SlotsRight
<1>12. gl[v] = d /\ \A w \in Pages \ {v} : gl[w] = fl[w]
  BY <1>1
<1> HIDE DEF gl
<1>13. Holds(n, T, gl)
  <2>1. ASSUME NEW w \in Pages \ T
        PROVE  IF Valid(n, w) THEN n.mainMemory[FrameOf(n, w)] = gl[w] ELSE gl[w] = First(w)
    <3>1. CASE w = v
      <4>1. Valid(m, v) /\ FrameOf(m, v) = f
        BY <1>1, <2>1, <3>1 DEF Sound, SlotsRight
      <4> QED BY <1>1, <1>6, <1>7, <1>8, <1>12, <3>1, <4>1
    <3>2. CASE w # v /\ Valid(m, w)
      <4>1. FrameOf(m, w) # f
        BY <1>1, <2>1, <3>2 DEF Sound, SlotsRight, Translates
      <4>2. FrameOf(m, w) \in Frames
        BY <1>0, <3>2 DEF Sound, Unswapped, VM, Entry, FrameOf
      <4> QED BY <1>6, <1>7, <1>8, <1>12, <2>1, <3>2, <4>1, <4>2 DEF Sound, Holds
    <3>3. CASE w # v /\ ~Valid(m, w)
      BY <1>8, <1>12, <2>1, <3>3 DEF Sound, Holds
    <3> QED BY <3>1, <3>2, <3>3
  <2>2. \A g \in Frames : g \notin n.memoryMap => n.mainMemory[g] = Zero
    BY <1>6, <1>7, <1>11 DEF Sound, Holds
  <2> QED BY <2>1, <2>2 DEF Holds
<1>14. Sound(n, T, gl)
  BY <1>9, <1>10, <1>13 DEF Sound
<1> QED BY <1>14 DEF n, gl, f

-----------------------------------------------------------------------------
VInv ==
    /\ Sound(vm, tainted, flat)
    /\ flat \in [Pages -> Values] /\ store.value \in Values
    /\ load.page \notin tainted => load.got = load.expected

(* Nothing is mapped at first. *)
LEMMA InitSound == Init => VInv
<1> SUFFICES ASSUME Init PROVE VInv
  OBVIOUS
<1>1. PICK ro \in [Slots -> BOOLEAN] :
         vm = [pageTable |-> [v \in Pages |-> [physicalPage |-> -1, valid |-> FALSE,
                                               dirty |-> FALSE]],
               tlb |-> [i \in Slots |-> [virtualPage |-> 0, physicalPage |-> 0,
                                         valid |-> FALSE, readOnly |-> ro[i],
                                         dirty |-> FALSE]],
               tlbCounter |-> 0,
               memoryMap |-> {},
               mainMemory |-> [f \in Frames |-> Zero],
               swapMap |-> {},
               swapFile |-> [b \in 0 .. SwapSize - 1 |-> Zero],
               oldPage |-> 0]
  BY DEF Init
<1>2. \A v \in Pages : ~Valid(vm, v) /\ FrameOf(vm, v) = -1 /\ ~vm.pageTable[v].dirty
  BY <1>1 DEF Valid, FrameOf
<1>3. vm \in VM
  <2>1. vm.pageTable \in [Pages -> Entry]
    BY <1>1 DEF Entry
  <2>2. vm.tlb \in [Slots -> Slot]
    BY <1>1, FrameSizes DEF Slot
  <2> QED BY <1>1, <2>1, <2>2, FrameSizes, ImageAssumption DEF VM
<1>4. Unswapped(vm) /\ Exact(vm)
  BY <1>1, <1>2, <1>3 DEF Unswapped, Exact
<1>5. \A v \in Pages : flat[v] = First(v)
  BY DEF Init, First
<1>6. Holds(vm, tainted, flat)
  BY <1>1, <1>2, <1>5 DEF Holds
<1>7. SlotsRight(vm, tainted)
  BY <1>1 DEF SlotsRight, Translates
<1>8. flat \in [Pages -> Values] /\ store.value \in Values
  BY ImageAssumption DEF Init, None
<1> QED BY <1>4, <1>6, <1>7, <1>8 DEF VInv, Sound, Init

(* Loads, stores and their faults keep the memory sound. *)
LEMMA StepSound == VInv /\ [Next]_vars => VInv'
<1> SUFFICES ASSUME VInv, [Next]_vars PROVE VInv'
  OBVIOUS
<1>1. ASSUME NEW v \in Accesses, NEW aligned \in BOOLEAN, ReadMem(v, aligned)
      PROVE  VInv'
  <2>1. CASE Translate(vm, v, aligned, FALSE) = "NoException"
    <3>1. /\ UNCHANGED <<vm, store, flat, tainted>>
          /\ load' = [got |-> vm.mainMemory[Frame(vm, v)], expected |-> Expected(v), page |-> v]
      BY <1>1, <2>1 DEF ReadMem, Returns, RaiseException
    <3>2. v \in Pages /\ Expected(v) = flat[v] /\ InTLB(vm, v)
      BY <2>1, TranslateUsesSlot DEF VInv, Expected, InTLB
    <3>3. ASSUME v \notin tainted PROVE vm.mainMemory[Frame(vm, v)] = flat[v]
      <4>1. Sound(vm, tainted, flat) /\ v \in Pages /\ v \notin tainted
        BY <3>2, <3>3 DEF VInv
      <4>2. PageReads(vm, v, flat[v])
        BY <3>2, <4>1, UntouchedRead
      <4> QED BY <4>2 DEF PageReads
    <3> QED BY <3>1, <3>2, <3>3 DEF VInv
  <2>2. CASE Translate(vm, v, aligned, FALSE) # "NoException"
    BY <1>1, <2>2 DEF ReadMem, RaiseException, VInv
  <2> QED BY <2>1, <2>2
<1>2. ASSUME NEW v, NEW r \in pageFaultHandler(vm, v), Handled(r, v)
      PROVE  /\ Sound(vm', tainted', flat) /\ tainted \subseteq tainted' /\ vm' = r.vm
             /\ r.ret # -1 /\ v \notin tainted' =>
                   v \in Pages /\ InTLB(r.vm, v)
  <2>1. /\ Sound(r.vm, IF r.victim >= 0 THEN tainted \union {v, r.victim} ELSE tainted, flat)
        /\ r.ret # -1 => /\ v \in Pages
                         /\ r.victim >= 0 \/ InTLB(r.vm, v)
    BY <1>2, HandlerSound DEF VInv
  <2>2. /\ vm' = r.vm
        /\ tainted' = IF r.victim >= 0 THEN tainted \union {v, r.victim} ELSE tainted
    BY <1>2 DEF Handled
  <2> QED BY <2>1, <2>2
<1>3. ASSUME NEW v \in Accesses, ReadFault(v)
      PROVE  VInv'
  <2>1. UNCHANGED <<store, flat>>
    BY <1>3 DEF ReadFault
  <2>2. PICK r \in pageFaultHandler(vm, v) :
           /\ Handled(r, v)
           /\ IF r.ret = -1 THEN UNCHANGED load
              ELSE IF Translate(r.vm, v, TRUE, FALSE) = "NoException"
                THEN Returns(v, r.vm.mainMemory[Frame(r.vm, v)])
              ELSE \E any \in Values : Returns(v, any)
    BY <1>3 DEF ReadFault
  <2>3. /\ Sound(vm', tainted', flat) /\ tainted \subseteq tainted' /\ vm' = r.vm
        /\ r.ret # -1 /\ v \notin tainted' =>
              v \in Pages /\ InTLB(r.vm, v)
    BY <1>2, <2>2
  <2>4. load'.page \notin tainted' => load'.got = load'.expected
    <3>1. CASE r.ret = -1
      <4>1. UNCHANGED load
        BY <2>2, <3>1
      <4> QED BY <2>3, <4>1 DEF VInv
    <3>2. CASE r.ret # -1 /\ v \in tainted'
      <4>1. \E x : Returns(v, x)
        BY <2>2, <3>2
      <4> QED BY <3>2, <4>1 DEF Returns
    <3>3. CASE r.ret # -1 /\ v \notin tainted'
      <4>1. /\ v \in Pages /\ v \notin tainted' /\ InTLB(r.vm, v)
            /\ Sound(r.vm, tainted', flat)
        BY <2>3, <3>3
      <4>2. PageReads(r.vm, v, flat[v])
        BY <4>1, UntouchedRead
      <4> QED BY <2>2, <3>3, <4>1, <4>2 DEF Returns, Expected, PageReads
    <3> QED BY <3>1, <3>2, <3>3
  <2> QED BY <2>1, <2>3, <2>4 DEF VInv
<1>4. ASSUME NEW v \in Accesses, NEW d \in Values, StoreWord(v, d)
      PROVE  VInv'
  BY <1>4 DEF StoreWord, VInv
<1>5. ASSUME NEW aligned \in BOOLEAN, WriteMem(aligned)
      PROVE  VInv'
  <2>1. CASE Translate(vm, store.page, aligned, TRUE) = "NoException"
    <3> DEFINE v == store.page
    <3>1. /\ vm' = [SetDirty(vm, v) EXCEPT !.mainMemory[Frame(vm, v)] = store.value]
          /\ flat' = [flat EXCEPT ![v] = store.value]
          /\ store' = None /\ UNCHANGED <<load, tainted>>
      BY <1>5, <2>1 DEF WriteMem, RaiseException
    <3>2. Sound(vm', tainted, flat')
      BY <2>1, <3>1, StoreSound DEF VInv
    <3>3. flat' \in [Pages -> Values] /\ store'.value \in Values
      BY <3>1, ImageAssumption DEF VInv, None
    <3> QED BY <3>1, <3>2, <3>3 DEF VInv
  <2>2. CASE Translate(vm, store.page, aligned, TRUE) # "NoException"
    BY <1>5, <2>2 DEF WriteMem, RaiseException, VInv
  <2> QED BY <2>1, <2>2
<1>6. ASSUME WriteFault
      PROVE  VInv'
  <2>1. UNCHANGED <<store, load, flat>>
    BY <1>6 DEF WriteFault
  <2>2. PICK r \in pageFaultHandler(vm, store.page) : Handled(r, store.page)
    BY <1>6 DEF WriteFault
  <2>3. Sound(vm', tainted', flat) /\ tainted \subseteq tainted'
    BY <1>2, <2>2
  <2> QED BY <2>1, <2>3 DEF VInv
<1>7. CASE UNCHANGED vars
  BY <1>7 DEF vars, VInv
<1> QED BY <1>1, <1>3, <1>4, <1>5, <1>6, <1>7 DEF Next

(* The invariant holds in every reachable state. *)
LEMMA Invariant == Spec => []VInv
BY InitSound, StepSound, PTL DEF Spec

(* Every frame marked in memoryMap belongs to exactly one page, and every  *)
(* page in memory has a marked frame, after any number of faults and       *)
(* evictions.                                                              *)
THEOREM FramesAreExact == Spec => []FramesExact
<1>1. VInv => FramesExact
  <2> SUFFICES ASSUME VInv PROVE FramesExact
    OBVIOUS
  <2>1. Unswapped(vm) /\ Exact(vm) /\ vm.memoryMap \subseteq Frames
    BY DEF VInv, Sound, Unswapped, VM
  <2>2. \A v \in InMemory : v \in Pages /\ Valid(vm, v) /\ FrameOf(vm, v) \in Frames
    BY <2>1 DEF Unswapped, VM, Entry, FrameOf, Valid, InMemory
  <2>3. \A v \in Pages : Valid(vm, v) => v \in InMemory
    BY DEF InMemory, Valid
  <2>4. vm.memoryMap = {FrameOf(vm, v) : v \in InMemory}
    BY <2>1, <2>2, <2>3 DEF Exact
  <2>5. \A v, w \in InMemory : FrameOf(vm, v) = FrameOf(vm, w) => v = w
    BY <2>1, <2>2 DEF Exact
  <2> QED BY <2>4, <2>5 DEF FramesExact, FrameOf
<1> QED BY <1>1, Invariant, PTL

(* Paging is invisible to a page that no eviction touched: it is           *)
(* translated correctly, holds what was last written to it, and a load     *)
(* from it returns that, whatever the stale slots of other pages lead to.  *)
THEOREM UntouchedPagesAreFlat == Spec => []UntouchedPagesFlat
<1>1. VInv => UntouchedPagesFlat
  <2> SUFFICES ASSUME VInv PROVE UntouchedPagesFlat
    OBVIOUS
  <2>1. ASSUME NEW v \in Pages \ tainted, NEW i \in Entries(vm, v)
        PROVE  vm.tlb[i].physicalPage = vm.pageTable[v].physicalPage /\ vm.pageTable[v].valid
    BY <2>1 DEF VInv, Sound, SlotsRight, Translates, Entries, Valid, FrameOf
  <2>2. ASSUME NEW v \in Pages \ tainted, vm.pageTable[v].valid
        PROVE  vm.mainMemory[vm.pageTable[v].physicalPage] = flat[v]
    BY <2>2 DEF VInv, Sound, Holds, Valid, FrameOf
  <2> QED BY <2>1, <2>2 DEF UntouchedPagesFlat, VInv
<1> QED BY <1>1, Invariant, PTL

(* The dirty bits of the TLB are never copied to the page table, so no     *)
(* page is ever written to the swap file, and what an evicted page held is *)
(* lost.                                                                   *)
SwapUnused == vm.swapMap = {} /\ \A v \in Pages : ~vm.pageTable[v].dirty

(* The swap file is never used. *)
THEOREM NothingIsSwappedOut == Spec => []SwapUnused
<1>1. VInv => SwapUnused
  BY DEF VInv, Sound, Unswapped, SwapUnused
<1> QED BY <1>1, Invariant, PTL

-----------------------------------------------------------------------------
(* The file system.  The disk, the directory and a run are parameters of   *)
(* most definitions: what a lemma says of one disk it says of the next.    *)

(* Every field of a run is there. *)
Fields(r) ==
    r = [op |-> r.op, pc |-> r.pc, name |-> r.name, numBytes |-> r.numBytes,
         position |-> r.position, value |-> r.value, sector |-> r.sector, hdr |-> r.hdr,
         map |-> r.map, dir |-> r.dir, buf |-> r.buf, i |-> r.i,
         waiting |-> r.waiting, raced |-> r.raced]

(* Where a run of each operation can be. *)
Places == [idle |-> {"none"}, Open |-> {"dir1", "dir2", "hdr"}, Read |-> {"readData"},
           Write |-> {"rmwFirst", "rmwLast", "writeData"},
           Create |-> {"dir1", "dir2", "map", "writeHdr", "rmwDir", "writeDir1", "writeDir2",
             "writeMap"},
           Remove |-> {"dir1", "dir2", "hdr", "map", "writeMap", "rmwDir", "writeDir1",
             "writeDir2"}]

(* Where Create and Remove write what they have changed in memory. *)
Flushing == {"writeHdr", "rmwDir", "writeDir1", "writeDir2", "writeMap"}

(* What the history remembers. *)
Flags == [overlapped : BOOLEAN, wild : BOOLEAN, reused : BOOLEAN, crashes : Nat]

(* The runs, and where they are. *)
RunType ==
    /\ run = [t \in Threads |-> run[t]]
    /\ \A t \in Threads :
         /\ Fields(run[t]) /\ run[t].waiting \in BOOLEAN
         /\ run[t].op \in DOMAIN Places /\ run[t].pc \in Places[run[t].op]
         /\ run[t].op = "idle" => ~run[t].waiting
    /\ flags \in Flags

(* Exactly the thread that waits for the disk has the lock of SynchDisk,   *)
(* and the disk works for nobody else.                                     *)
LockExact ==
    /\ synchDisk \in [lock : Threads \union {NULL}, active : BOOLEAN, semaphore : {0, 1}]
    /\ \A t \in Threads : run[t].waiting <=> synchDisk.lock = t
    /\ synchDisk.active => synchDisk.semaphore = 0
    /\ synchDisk.lock = NULL => ~synchDisk.active /\ synchDisk.semaphore = 0

(* The part of the invariant that holds whatever happens. *)
DiskServed == RunType /\ LockExact /\ simulator # "disk ASSERT"

(* Nothing has happened that the code does not guard against. *)
Quiet == Calm /\ flags.crashes = 0

(* File headers, those that Allocate has filled in, and directories. *)
Hdr == [numBytes : Nat, dataSectors : Seq(Sectors)]
WellFormed(h) == h \in Hdr /\ Len(h.dataSectors) = divRoundUp(h.numBytes, SectorSize)
Dir == [DirEntries -> [inUse : BOOLEAN, sector : Sectors, name : Names \union {NULL}]]

(* The entries in use, what a file owns, and what all files own, or all    *)
(* but that of one entry.                                                  *)
InUse(d) == {e \in DirEntries : d.dir[e].inUse}
OwnedIn(d, s) == {s} \union (IF d.sec[s].kind = "hdr" THEN Range(d.sec[s].hdr.dataSectors) ELSE {})
UsedBut(d, e) == UNION {OwnedIn(d, d.dir[c].sector) : c \in InUse(d) \ {e}}
Used(d) == UNION {OwnedIn(d, d.dir[c].sector) : c \in InUse(d)}

(* What the disk holds. *)
DiskType(d) ==
    /\ d = [map |-> d.map, dir |-> d.dir, sec |-> d.sec]
    /\ d.dir \in Dir
    /\ d.sec = [s \in Sectors |-> d.sec[s]]
    /\ \A s \in Sectors : d.sec[s].kind \in {"hdr", "data"} /\ d.sec[s].hdr \in Hdr

(* What a run and the file its thread has open hold, where it is. *)
Typed(r, f) ==
    /\ f = [name |-> f.name, sector |-> f.sector, hdr |-> f.hdr] /\ f.hdr \in Hdr
    /\ r.hdr \in Hdr
    /\ f = NotOpen \/ f.sector \in Sectors
    /\ r.op \in {"Create", "Remove", "Open"} => r.name \in Names
    /\ r.op = "Create" => r.numBytes \in Nat
    /\ r.pc = "dir2" \/ (r.pc = "dir1" /\ r.waiting) => r.dir \in Dir
    /\ r.pc = "hdr" => r.sector \in Sectors
    /\ r.op = "Write" =>
         /\ f.sector \in Sectors
         /\ r.position \in Nat /\ r.numBytes \in Nat \ {0}
         /\ r.position + r.numBytes <= FileLength(f.hdr)
         /\ r.i \in FirstSector(r) .. LastSector(r)

(* A header, and data sectors besides, none of them of the system. *)
IsFile(d, s) ==
    /\ d.sec[s].kind = "hdr" /\ WellFormed(d.sec[s].hdr)
    /\ s \notin Range(d.sec[s].hdr.dataSectors) /\ OwnedIn(d, s) \intersect System = {}

(* The entries are files, and no two of them share a sector. *)
FilesApart(d) ==
    /\ \A e \in InUse(d) : IsFile(d, d.dir[e].sector)
    /\ \A e, c \in InUse(d) :
         e # c => OwnedIn(d, d.dir[e].sector) \intersect OwnedIn(d, d.dir[c].sector) = {}

(* At most one thread creates or removes a file. *)
OneModifier(rn) ==
    \A t, u \in Threads : rn[t].op \in Modifiers /\ rn[u].op \in Modifiers => t = u

(* A file that was created and that nobody began to remove. *)
Living(lv, n) == n \in Names /\ lv[n]

(* The map is exact, no name is listed twice, and a file that is listed    *)
(* lives or is just being removed.                                         *)
AtRest(d, lv, rn) ==
    /\ d.map = System \union Used(d)
    /\ \A e, c \in InUse(d) : e # c => d.dir[e].name # d.dir[c].name
    /\ \A e \in InUse(d) : \/ Living(lv, d.dir[e].name)
                           \/ \E t \in Threads : rn[t].op = "Remove" /\ rn[t].name = d.dir[e].name

(* So it is while no thread flushes. *)
Settled(d, lv, rn) == (\A t \in Threads : rn[t].pc \notin Flushing) => AtRest(d, lv, rn)

(* What Create and Remove have read so far is what the disk holds. *)
Fetching(d, r) ==
    /\ (r.pc = "dir1" /\ r.waiting) \/ (r.pc = "dir2" /\ ~r.waiting) =>
         r.dir = DirPart(1, d.dir, EmptyDir)
    /\ (r.pc = "dir2" /\ r.waiting) \/ r.pc \in {"hdr", "map"} => r.dir = d.dir
    /\ r.pc = "map" /\ r.waiting => r.map = d.map
    /\ r.op = "Create" /\ r.pc = "map" => Listed(d.dir, r.name) = {}
    /\ r.op = "Remove" /\ r.pc \in {"hdr", "map"} =>
         Listed(d.dir, r.name) # {} /\ r.sector = FindFile(d.dir, r.name)
    /\ r.op = "Remove" /\ ((r.pc = "hdr" /\ r.waiting) \/ r.pc = "map") =>
         r.hdr = d.sec[r.sector].hdr

(* How much of the directory entry has been written. *)
Begun(r) == \/ r.pc \in {"writeHdr", "rmwDir"} \/ (r.pc = "writeDir1" /\ ~r.waiting)
            \/ (r.op = "Remove" /\ r.pc = "writeMap")
Half(r) == (r.pc = "writeDir1" /\ r.waiting) \/ (r.pc = "writeDir2" /\ ~r.waiting)
Done(r) == (r.pc = "writeDir2" /\ r.waiting) \/ (r.op = "Create" /\ r.pc = "writeMap")

(* All entries but e are as they were, and none has the name in hand. *)
Others(d, lv, r, e) ==
    /\ r.dir \in Dir
    /\ \A c \in DirEntries \ {e} : d.dir[c] = r.dir[c]
    /\ \A b, c \in InUse(d) \ {e} : b # c => d.dir[b].name # d.dir[c].name
    /\ \A c \in InUse(d) \ {e} : d.dir[c].name # r.name /\ Living(lv, d.dir[c].name)

(* The sectors of the file that is created. *)
New(r) == {r.sector} \union Range(r.hdr.dataSectors)

(* Create has e in hand: the file lies apart from all others, the map is   *)
(* still that of the others until it is written, and the header comes      *)
(* before the entry.                                                       *)
Creating(d, lv, r, e) ==
    /\ Others(d, lv, r, e)
    /\ r.sector \in Sectors /\ WellFormed(r.hdr) /\ r.sector \notin Range(r.hdr.dataSectors)
    /\ New(r) \intersect (System \union UsedBut(d, e)) = {}
    /\ r.dir[e] = [inUse |-> TRUE, sector |-> r.sector, name |-> r.name]
    /\ r.map = (System \union UsedBut(d, e)) \union New(r)
    /\ d.map = IF r.pc = "writeMap" /\ r.waiting THEN r.map ELSE System \union UsedBut(d, e)
    /\ (r.pc # "writeHdr" \/ r.waiting) =>
         d.sec[r.sector].kind = "hdr" /\ d.sec[r.sector].hdr = r.hdr
    /\ Begun(r) => ~d.dir[e].inUse
    /\ Half(r) => /\ d.dir[e].inUse => d.dir[e].sector = r.sector
                  /\ e = Straddle => d.dir[e].inUse
                  /\ e < Straddle => d.dir[e] = r.dir[e]
    /\ Done(r) => d.dir[e] = r.dir[e]

(* Remove has e in hand: the map comes before the entry. *)
Removing(d, lv, r, e) ==
    /\ Others(d, lv, r, e)
    /\ ~r.dir[e].inUse
    /\ r.map = System \union UsedBut(d, e)
    /\ r.pc # "writeMap" \/ r.waiting => d.map = r.map
    /\ Half(r) /\ e <= Straddle => ~d.dir[e].inUse
    /\ Done(r) => ~d.dir[e].inUse

(* What a run of Create or Remove knows is what the disk holds or will     *)
(* hold.                                                                   *)
RunExact(d, lv, r) ==
    /\ r.op \in Modifiers /\ r.pc \notin Flushing => Fetching(d, r)
    /\ r.op = "Create" /\ r.pc \in Flushing => \E e \in DirEntries : Creating(d, lv, r, e)
    /\ r.op = "Remove" /\ r.pc \in Flushing => \E e \in DirEntries : Removing(d, lv, r, e)

(* The part of the invariant that holds while nothing has gone wrong. *)
FilesExact ==
    /\ DiskType(disk) /\ live \in [Names -> BOOLEAN] /\ file = [t \in Threads |-> file[t]]
    /\ \A t \in Threads : Typed(run[t], file[t])
    /\ FilesApart(disk) /\ OneModifier(run) /\ Settled(disk, live, run)
    /\ \A t \in Threads : RunExact(disk, live, run[t])
    /\ simulator \notin {"ought to be marked", "garbage header"}

(* The inductive invariant of the file system. *)
FileSysSound == DiskServed /\ (Quiet => FilesExact)

(* Where each transfer leads. *)
LEMMA AfterIs ==
    ASSUME NEW r, Fields(r), r.op \in DOMAIN Places, r.pc \in Places[r.op]
    PROVE  /\ r.pc = "dir1" => After(r) = [r EXCEPT !.pc = "dir2"]
           /\ r.pc = "dir2" =>
                After(r) = IF FindFile(r.dir, r.name) = -1 <=> r.op # "Create" THEN Idle
                           ELSE IF r.op = "Create" THEN [r EXCEPT !.pc = "map"]
                           ELSE [r EXCEPT !.sector = FindFile(r.dir, r.name), !.pc = "hdr"]
           /\ r.pc = "hdr" => After(r) = IF r.op = "Open" THEN Idle ELSE [r EXCEPT !.pc = "map"]
           /\ r.pc = "map" => After(r) = IF r.op = "Create" THEN CreateInMemory(r)
                ELSE RemoveInMemory(r)
           /\ r.pc = "writeHdr" => After(r) = [r EXCEPT !.pc = "rmwDir"]
           /\ r.pc = "rmwDir" => After(r) = [r EXCEPT !.pc = "writeDir1"]
           /\ r.pc = "writeDir1" => After(r) = [r EXCEPT !.pc = "writeDir2"]
           /\ r.pc = "writeDir2" =>
                After(r) = IF r.op = "Create" THEN [r EXCEPT !.pc = "writeMap"] ELSE Idle
           /\ r.pc = "writeMap" =>
                After(r) = IF r.op = "Create" THEN Idle ELSE [r EXCEPT !.pc = "rmwDir"]
           /\ r.pc = "rmwFirst" =>
                After(r) = IF RmwLast(r) THEN [r EXCEPT !.pc = "rmwLast"]
                  ELSE [r EXCEPT !.pc = "writeData"]
           /\ r.pc = "rmwLast" => After(r) = [r EXCEPT !.pc = "writeData"]
           /\ r.pc \in {"readData", "writeData"} =>
                After(r) = IF r.i = LastSector(r) THEN Idle ELSE [r EXCEPT !.i = r.i + 1]
<1> DEFINE order == Writes(r.op)
           k == CHOOSE n \in DOMAIN order : order[n] = r.pc
<1>1. r.op = "Create" => order = <<"writeHdr", "rmwDir", "writeDir1", "writeDir2", "writeMap">>
  BY DEF Writes
<1>2. r.op # "Create" => order = <<"writeMap", "rmwDir", "writeDir1", "writeDir2">>
  BY DEF Writes
<1>3. r.op \in {"Create", "Remove"} /\ r.pc \in Flushing => r.pc \in Range(order)
  BY <1>1, <1>2 DEF Range, Flushing, Places
<1>4. r.pc \in Flushing => r.op \in Modifiers
  BY DEF Flushing, Places, Modifiers
<1>5. r.pc \in Flushing => After(r) = IF k = Len(order) THEN Idle
        ELSE [r EXCEPT !.pc = order[k + 1]]
  BY <1>3, <1>4 DEF After, Modifiers, Flushing
<1>6. r.op = "Create" => /\ r.pc = "writeHdr" => k = 1
                         /\ r.pc = "rmwDir" => k = 2
                         /\ r.pc = "writeDir1" => k = 3
                         /\ r.pc = "writeDir2" => k = 4
                         /\ r.pc = "writeMap" => k = 5
  BY <1>1
<1>7. r.op = "Remove" => /\ r.pc = "writeMap" => k = 1
                         /\ r.pc = "rmwDir" => k = 2
                         /\ r.pc = "writeDir1" => k = 3
                         /\ r.pc = "writeDir2" => k = 4
  BY <1>2
<1>8. r.pc \notin Flushing => ~(r.op \in Modifiers /\ r.pc \in Range(order))
  BY <1>1, <1>2 DEF Modifiers, Range, Flushing
<1>9. /\ r.pc = "dir1" => After(r) = [r EXCEPT !.pc = "dir2"]
      /\ r.pc = "hdr" => After(r) = IF r.op = "Open" THEN Idle ELSE [r EXCEPT !.pc = "map"]
      /\ r.pc = "map" => After(r) = IF r.op = "Create" THEN CreateInMemory(r) ELSE RemoveInMemory(r)
  BY <1>8 DEF After, Flushing
<1>13. r.pc = "dir2" =>
            After(r) = IF FindFile(r.dir, r.name) = -1 <=> r.op # "Create" THEN Idle
                       ELSE IF r.op = "Create" THEN [r EXCEPT !.pc = "map"]
                       ELSE [r EXCEPT !.sector = FindFile(r.dir, r.name), !.pc = "hdr"]
  BY <1>8 DEF After, Flushing
<1>10. /\ r.pc = "rmwFirst" =>
             After(r) = IF RmwLast(r) THEN [r EXCEPT !.pc = "rmwLast"]
               ELSE [r EXCEPT !.pc = "writeData"]
       /\ r.pc = "rmwLast" => After(r) = [r EXCEPT !.pc = "writeData"]
  BY <1>8 DEF After, Flushing
<1>11. r.pc \in {"readData", "writeData"} =>
             After(r) = IF r.i = LastSector(r) THEN Idle ELSE [r EXCEPT !.i = r.i + 1]
  BY <1>8 DEF After, Flushing
<1> HIDE DEF k
<1>12. CASE r.pc \in Flushing
  <2>1. CASE r.op = "Create"
    <3>1. /\ r.pc = "writeHdr" => After(r) = [r EXCEPT !.pc = "rmwDir"]
          /\ r.pc = "rmwDir" => After(r) = [r EXCEPT !.pc = "writeDir1"]
          /\ r.pc = "writeDir1" => After(r) = [r EXCEPT !.pc = "writeDir2"]
          /\ r.pc = "writeDir2" => After(r) = [r EXCEPT !.pc = "writeMap"]
          /\ r.pc = "writeMap" => After(r) = Idle
      <4>1. /\ Len(order) = 5 /\ order[2] = "rmwDir" /\ order[3] = "writeDir1"
            /\ order[4] = "writeDir2" /\ order[5] = "writeMap"
        BY <1>1, <2>1
      <4> HIDE DEF order
      <4> QED BY <1>5, <1>6, <1>12, <2>1, <4>1 DEF Flushing
    <3> QED BY <1>12, <2>1, <3>1 DEF Flushing
  <2>2. CASE r.op = "Remove"
    <3>1. /\ r.pc = "rmwDir" => After(r) = [r EXCEPT !.pc = "writeDir1"]
          /\ r.pc = "writeDir1" => After(r) = [r EXCEPT !.pc = "writeDir2"]
          /\ r.pc = "writeDir2" => After(r) = Idle
          /\ r.pc = "writeMap" => After(r) = [r EXCEPT !.pc = "rmwDir"]
      <4>1. /\ Len(order) = 4 /\ order[2] = "rmwDir" /\ order[3] = "writeDir1"
            /\ order[4] = "writeDir2"
        BY <1>2, <2>2
      <4> HIDE DEF order
      <4> QED BY <1>5, <1>7, <1>12, <2>2, <4>1 DEF Flushing
    <3> QED BY <1>12, <2>2, <3>1 DEF Flushing, Places
  <2> QED BY <1>4, <1>12, <2>1, <2>2 DEF Modifiers
<1> QED BY Zenon, <1>9, <1>13, <1>10, <1>11, <1>12 DEF Flushing

(* What a transfer leaves in the memory of its thread. *)
LEMMA ReadIntoIs ==
    ASSUME NEW t, NEW r, r = run[t], Fields(r), NEW q, q = ReadInto(t)
    PROVE  /\ Fields(q)
           /\ q.op = r.op /\ q.pc = r.pc /\ q.name = r.name /\ q.numBytes = r.numBytes
           /\ q.position = r.position /\ q.sector = r.sector /\ q.i = r.i
           /\ q.dir = IF r.pc = "dir1" THEN DirPart(1, disk.dir, EmptyDir)
                        ELSE IF r.pc = "dir2" THEN DirPart(2, disk.dir, r.dir) ELSE r.dir
           /\ q.map = IF r.pc = "map" THEN disk.map ELSE r.map
           /\ q.hdr = IF r.pc = "hdr" THEN disk.sec[r.sector].hdr ELSE r.hdr
<1>1. CASE r.pc \notin {"dir1", "dir2", "map", "hdr"}
  <2>1. \E b : q = [r EXCEPT !.buf = b]
    <3>1. r = [r EXCEPT !.buf = r.buf]
      BY DEF Fields
    <3>2. r.pc \notin {"readData", "rmwFirst", "rmwLast"} => q = r
      BY <1>1 DEF ReadInto
    <3>3. r.pc = "readData" => \E b : q = [r EXCEPT !.buf = b]
      BY DEF ReadInto
    <3>4. r.pc = "rmwFirst" => \E b : q = [r EXCEPT !.buf = b]
      BY DEF ReadInto
    <3>5. r.pc = "rmwLast" => \E b : q = [r EXCEPT !.buf = b]
      BY DEF ReadInto
    <3> QED BY <3>1, <3>2, <3>3, <3>4, <3>5
  <2>2. PICK b : q = [r EXCEPT !.buf = b]
    BY <2>1
  <2> QED BY <1>1, <2>2 DEF Fields
<1>2. CASE r.pc = "dir1"
  <2>1. q = [r EXCEPT !.dir = DirPart(1, disk.dir, EmptyDir)]
    BY <1>2 DEF ReadInto
  <2> QED BY <1>2, <2>1 DEF Fields
<1>3. CASE r.pc = "dir2"
  <2>1. q = [r EXCEPT !.dir = DirPart(2, disk.dir, r.dir)]
    BY <1>3 DEF ReadInto
  <2> QED BY <1>3, <2>1 DEF Fields
<1>4. CASE r.pc = "map"
  <2>1. q = [r EXCEPT !.map = disk.map]
    BY <1>4 DEF ReadInto, FetchMap
  <2> QED BY <1>4, <2>1 DEF Fields
<1>5. CASE r.pc = "hdr"
  <2>1. q = [r EXCEPT !.hdr = disk.sec[r.sector].hdr]
    BY <1>5 DEF ReadInto
  <2> QED BY <1>5, <2>1 DEF Fields
<1> QED BY <1>1, <1>2, <1>3, <1>4, <1>5

(* Two runs that differ in raced only, as Begin leaves them. *)
Alike(q, r) ==
    /\ q.op = r.op /\ q.pc = r.pc /\ q.name = r.name /\ q.numBytes = r.numBytes
    /\ q.position = r.position /\ q.value = r.value /\ q.sector = r.sector
    /\ q.hdr = r.hdr /\ q.map = r.map /\ q.dir = r.dir /\ q.buf = r.buf /\ q.i = r.i
    /\ q.waiting = r.waiting

(* The history of overlapping reads and writes changes nothing else. *)
LEMMA RacedAlike ==
    ASSUME NEW r, Fields(r), NEW b, NEW q, q = [r EXCEPT !.raced = b]
    PROVE  Fields(q) /\ Alike(q, r)
  BY DEF Fields, Alike

(* What Begin leaves in run. *)
LEMMA BeginIs ==
    ASSUME RunType, NEW t \in Threads, NEW r, Fields(r), Begin(t, r)
    PROVE  /\ run[t].op = "idle" /\ simulator = "running"
           /\ run' = [u \in Threads |-> run'[u]]
           /\ \A u \in Threads : Fields(run'[u])
           /\ Alike(run'[t], r)
           /\ \A u \in Threads \ {t} : Alike(run'[u], run[u])
           /\ UNCHANGED <<disk, synchDisk, file, simulator>>
           /\ flags' \in Flags
           /\ flags'.wild = flags.wild /\ flags'.crashes = flags.crashes
           /\ ~flags'.overlapped =>
                /\ ~flags.overlapped
                /\ r.op \in Modifiers => \A u \in Threads : run[u].op \notin Modifiers
<1> DEFINE raced(u) == u # t /\ {run[u].op, r.op} \in {{"Read", "Write"}}
           me == [r EXCEPT !.raced = \E u \in Threads : raced(u)]
           other(u) == [run[u] EXCEPT !.raced = @ \/ raced(u)]
           over == \E u \in Threads :
                          \/ {run[u].op, r.op} \subseteq Modifiers
                          \/ {run[u].op, r.op} = {"Write"} /\ run[u].name = r.name
<1>1. /\ run' = [u \in Threads |-> IF u = t THEN me ELSE other(u)]
      /\ flags' = [flags EXCEPT !.overlapped = @ \/ over]
      /\ run[t].op = "idle" /\ simulator = "running"
      /\ UNCHANGED <<disk, synchDisk, file, simulator>>
  BY DEF Begin, Busy
<1>2. \A u \in Threads : Fields(run[u])
  BY DEF RunType
<1>3. Fields(me) /\ Alike(me, r)
  <2>1. \A b : LET q == [r EXCEPT !.raced = b] IN Fields(q) /\ Alike(q, r)
    BY RacedAlike
  <2> QED BY <2>1
<1>4. ASSUME NEW u \in Threads
      PROVE  Fields(other(u)) /\ Alike(other(u), run[u])
  <2>1. \A b : LET q == [run[u] EXCEPT !.raced = b] IN Fields(q) /\ Alike(q, run[u])
    BY <1>2, RacedAlike
  <2> QED BY <2>1
<1>5. flags \in Flags
  BY DEF RunType
<1> HIDE DEF raced, over, me, other
<1>6. flags' \in Flags /\ flags'.wild = flags.wild /\ flags'.crashes = flags.crashes
  BY <1>1, <1>5 DEF Flags
<1>7. ~flags'.overlapped => ~flags.overlapped /\ ~over
  BY <1>1, <1>5 DEF Flags
<1>8. ~over /\ r.op \in Modifiers => \A u \in Threads : run[u].op \notin Modifiers
  BY DEF over
<1>9. run'[t] = me /\ \A u \in Threads \ {t} : run'[u] = other(u)
  BY <1>1
<1>10. run' = [u \in Threads |-> run'[u]]
  BY <1>1
<1> QED BY <1>1, <1>3, <1>4, <1>6, <1>7, <1>8, <1>9, <1>10

(* The first part of the invariant through each kind of step. *)
LEMMA BeginLocks ==
    ASSUME DiskServed, NEW t \in Threads, NEW r, Fields(r), Begin(t, r),
           r.op \in DOMAIN Places, r.pc \in Places[r.op], ~r.waiting, r.waiting \in BOOLEAN
    PROVE  DiskServed'
<1>1. RunType /\ LockExact
  BY DEF DiskServed
<1>2. \A u \in Threads : Alike(run'[u], IF u = t THEN r ELSE run[u])
  BY <1>1, BeginIs
<1>3. ~run[t].waiting
  BY <1>1, BeginIs DEF RunType
<1>4. RunType'
  BY <1>1, <1>2, BeginIs DEF RunType, Alike
<1>5. LockExact'
  BY <1>1, <1>2, <1>3, BeginIs DEF RunType, LockExact, Alike
<1> QED BY <1>4, <1>5, BeginIs, <1>1 DEF DiskServed

(* Setting a field leaves a run with all its fields. *)
LEMMA FieldSet ==
    ASSUME NEW r, Fields(r), NEW b
    PROVE  /\ Fields([r EXCEPT !.pc = b]) /\ Fields([r EXCEPT !.waiting = b])
           /\ Fields([r EXCEPT !.i = b]) /\ Fields([r EXCEPT !.sector = b])
           /\ Fields([r EXCEPT !.map = b]) /\ Fields([r EXCEPT !.dir = b])
           /\ Fields([r EXCEPT !.hdr = b])
  BY DEF Fields

(* What is left of an operation after a transfer. *)
LEMMA AfterFields ==
    ASSUME NEW r, Fields(r), r.op \in DOMAIN Places, r.pc \in Places[r.op], r.op # "idle",
           NEW q, q = After(r)
    PROVE  Fields(q) /\ q.pc \in Places[q.op] /\ (q.op = r.op \/ q = Idle)
<1>1. Fields(Idle) /\ Idle.pc \in Places[Idle.op]
  BY DEF Fields, Idle, Places
<1>2. ASSUME NEW p, q = [r EXCEPT !.pc = p], p \in Places[r.op]
      PROVE  Fields(q) /\ q.op = r.op /\ q.pc \in Places[q.op]
  BY <1>2, FieldSet DEF Fields
<1>3. SUFFICES q = Idle \/ (\E p \in Places[r.op] : q = [r EXCEPT !.pc = p])
                 \/ (Fields(q) /\ q.op = r.op /\ q.pc \in Places[q.op])
  BY <1>1, <1>2
<1>4. CASE r.pc \in {"writeHdr", "rmwDir", "writeDir1", "writeDir2", "writeMap"}
  <2>1. \/ q = Idle
        \/ \E p \in {"rmwDir", "writeDir1", "writeDir2"} : q = [r EXCEPT !.pc = p]
        \/ r.op = "Create" /\ q = [r EXCEPT !.pc = "writeMap"]
    BY <1>4, AfterIs
  <2>2. {"rmwDir", "writeDir1", "writeDir2"} \subseteq Places[r.op]
          /\ "writeMap" \in Places["Create"]
    BY <1>4 DEF Places
  <2> QED BY <2>1, <2>2
<1>5. CASE r.pc \in {"rmwFirst", "rmwLast"}
  <2>1. \E p \in {"rmwLast", "writeData"} : q = [r EXCEPT !.pc = p]
    BY <1>5, AfterIs
  <2>2. {"rmwLast", "writeData"} \subseteq Places[r.op]
    BY <1>5 DEF Places
  <2> QED BY <2>1, <2>2
<1>6. CASE r.pc \in {"readData", "writeData"}
  <2>1. q = Idle \/ q = [r EXCEPT !.i = r.i + 1]
    BY <1>6, AfterIs
  <2>2. ASSUME NEW b, q = [r EXCEPT !.i = b]
        PROVE  Fields(q) /\ q.op = r.op /\ q.pc = r.pc
    BY <2>2 DEF Fields
  <2> QED BY <2>1, <2>2
<1>7. CASE r.pc \in {"dir1", "hdr"}
  <2>1. /\ r.pc = "dir1" => q = [r EXCEPT !.pc = "dir2"]
        /\ r.pc = "hdr" => q = IF r.op = "Open" THEN Idle ELSE [r EXCEPT !.pc = "map"]
    BY AfterIs
  <2>2. /\ r.pc = "dir1" => "dir2" \in Places[r.op]
        /\ r.pc = "hdr" /\ r.op # "Open" => "map" \in Places[r.op]
    BY DEF Places
  <2> QED BY <1>7, <2>1, <2>2
<1>8. CASE r.pc = "dir2"
  <2>1. \/ q = Idle
        \/ r.op = "Create" /\ q = [r EXCEPT !.pc = "map"]
        \/ r.op # "Create" /\ q = [r EXCEPT !.sector = FindFile(r.dir, r.name), !.pc = "hdr"]
    BY <1>8, AfterIs
  <2>2. ASSUME NEW s, q = [r EXCEPT !.sector = s, !.pc = "hdr"]
        PROVE  Fields(q) /\ q.op = r.op /\ q.pc = "hdr"
    BY <2>2 DEF Fields
  <2>3. (r.op = "Create" => "map" \in Places[r.op]) /\ (r.op # "Create" => "hdr" \in Places[r.op])
    BY <1>8 DEF Places
  <2> QED BY <2>1, <2>2, <2>3
<1>9. CASE r.pc = "map" /\ r.op = "Create"
  <2>1. q = CreateInMemory(r)
    BY <1>9, AfterIs
  <2> DEFINE s0 == FindSectors(r.map, 1)[1]
             map1 == r.map \union {s0}
             hdr == Allocate(map1, r.numBytes)
             full == \/ Sectors \subseteq r.map \/ FreeEntries(r.dir) = {}
                     \/ Cardinality(Sectors \ map1) < divRoundUp(r.numBytes, SectorSize)
  <2>5. q = IF full THEN Idle
            ELSE [r EXCEPT !.sector = s0, !.dir = Add(r.dir, r.name, s0), !.hdr = hdr,
                       !.map = map1 \union Range(hdr.dataSectors), !.pc = "writeHdr"]
    BY Zenon, <2>1 DEF CreateInMemory
  <2> HIDE DEF s0, map1, hdr, full
  <2>3. "writeHdr" \in Places[r.op]
    BY <1>9 DEF Places
  <2>4. CASE ~full
    <3>1. Fields(q) /\ q.op = r.op /\ q.pc = "writeHdr"
      <4>1. q = [r EXCEPT !.sector = s0, !.dir = Add(r.dir, r.name, s0), !.hdr = hdr,
                       !.map = map1 \union Range(hdr.dataSectors), !.pc = "writeHdr"]
        BY <2>4, <2>5
      <4> QED BY <4>1 DEF Fields
    <3> QED BY <2>3, <3>1
  <2> QED BY <2>4, <2>5
<1>10. CASE r.pc = "map" /\ r.op # "Create"
  <2>1. q = RemoveInMemory(r)
    BY <1>10, AfterIs
  <2>2. \E d, m : q = [r EXCEPT !.map = m, !.dir = d, !.pc = "writeMap"]
    BY Zenon, <2>1 DEF RemoveInMemory
  <2>3. ASSUME NEW d, NEW m, q = [r EXCEPT !.map = m, !.dir = d, !.pc = "writeMap"]
        PROVE  Fields(q) /\ q.op = r.op /\ q.pc = "writeMap"
    BY <2>3 DEF Fields
  <2>4. "writeMap" \in Places[r.op]
    BY <1>10 DEF Places
  <2> QED BY <2>2, <2>3, <2>4
<1> QED BY <1>4, <1>5, <1>6, <1>7, <1>8, <1>9, <1>10 DEF Places

(* A request finds the disk at rest. *)
LEMMA RequestIs ==
    ASSUME DiskServed, NEW t \in Threads, Request(t)
    PROVE  /\ simulator = "running" /\ run[t].op # "idle" /\ ~run[t].waiting
                /\ synchDisk.lock = NULL
           /\ Fields(run[t]) /\ Fields(run'[t]) /\ run'[t].waiting
           /\ run'[t].op = run[t].op /\ run'[t].pc = run[t].pc /\ run'[t].name = run[t].name
           /\ run'[t].numBytes = run[t].numBytes
           /\ run'[t].position = run[t].position /\ run'[t].sector = run[t].sector
           /\ run'[t].i = run[t].i
           /\ run'[t].dir = IF run[t].pc = "dir1" THEN DirPart(1, disk.dir, EmptyDir)
                        ELSE IF run[t].pc = "dir2" THEN DirPart(2, disk.dir, run[t].dir)
                          ELSE run[t].dir
           /\ run'[t].map = IF run[t].pc = "map" THEN disk.map ELSE run[t].map
           /\ run'[t].hdr = IF run[t].pc = "hdr" THEN disk.sec[run[t].sector].hdr ELSE run[t].hdr
           /\ run' = [u \in Threads |-> run'[u]] /\ \A u \in Threads \ {t} : run'[u] = run[u]
           /\ disk' = WrittenTo(t)
           /\ synchDisk' = [synchDisk EXCEPT !.lock = t, !.active = TRUE]
           /\ flags' \in Flags
           /\ flags'.overlapped = flags.overlapped /\ flags'.crashes = flags.crashes
           /\ ~flags'.wild => ~flags.wild /\ (run[t].pc = "writeData" => UpToDate(t))
           /\ UNCHANGED <<file, live, simulator>>
<1> DEFINE r == run[t]
           q == run'[t]
<1>1. ~synchDisk.active /\ RunType
  BY DEF Request, DiskServed, LockExact
<1>2. Fields(r)
  BY <1>1 DEF RunType
<1> DEFINE into == ReadInto(t)
<1>3. /\ simulator = "running" /\ r.op # "idle" /\ ~r.waiting /\ synchDisk.lock = NULL
      /\ synchDisk' = [synchDisk EXCEPT !.lock = t, !.active = TRUE]
      /\ run' = [run EXCEPT ![t] = [into EXCEPT !.waiting = TRUE]]
      /\ disk' = WrittenTo(t)
      /\ flags' = [flags EXCEPT !.wild = @ \/ (r.pc = "writeData" /\ ~UpToDate(t))]
      /\ UNCHANGED <<file, live, simulator>>
  BY <1>1 DEF Request, Busy
<1>4. /\ Fields(into)
      /\ into.op = r.op /\ into.pc = r.pc /\ into.name = r.name /\ into.numBytes = r.numBytes
      /\ into.position = r.position /\ into.sector = r.sector /\ into.i = r.i
      /\ into.dir = IF r.pc = "dir1" THEN DirPart(1, disk.dir, EmptyDir)
                        ELSE IF r.pc = "dir2" THEN DirPart(2, disk.dir, r.dir) ELSE r.dir
      /\ into.map = IF r.pc = "map" THEN disk.map ELSE r.map
      /\ into.hdr = IF r.pc = "hdr" THEN disk.sec[r.sector].hdr ELSE r.hdr
  BY <1>2, ReadIntoIs
<1> HIDE DEF into
<1>5. q = [into EXCEPT !.waiting = TRUE]
  BY <1>1, <1>3 DEF RunType
<1>6. /\ Fields(q) /\ q.waiting
      /\ q.op = into.op /\ q.pc = into.pc /\ q.name = into.name /\ q.numBytes = into.numBytes
      /\ q.position = into.position /\ q.sector = into.sector /\ q.i = into.i
      /\ q.dir = into.dir /\ q.map = into.map /\ q.hdr = into.hdr
  BY <1>4, <1>5 DEF Fields
<1>7. /\ flags' \in Flags
      /\ flags'.overlapped = flags.overlapped /\ flags'.crashes = flags.crashes
      /\ ~flags'.wild => ~flags.wild /\ (r.pc = "writeData" => UpToDate(t))
  <2> DEFINE lost == r.pc = "writeData" /\ ~UpToDate(t)
  <2>1. flags' = [flags EXCEPT !.wild = @ \/ lost] /\ flags \in Flags
    BY <1>1, <1>3 DEF RunType
  <2> HIDE DEF lost
  <2>2. /\ flags' \in Flags
        /\ flags'.overlapped = flags.overlapped /\ flags'.crashes = flags.crashes
        /\ ~flags'.wild => ~flags.wild /\ ~lost
    BY <2>1 DEF Flags
  <2> QED BY <2>2 DEF lost
<1>8. run' = [u \in Threads |-> run'[u]] /\ \A u \in Threads \ {t} : run'[u] = run[u]
  BY <1>1, <1>3 DEF RunType
<1> QED BY <1>2, <1>3, <1>4, <1>6, <1>7, <1>8

LEMMA RequestLocks ==
    ASSUME DiskServed, NEW t \in Threads, Request(t)
    PROVE  DiskServed'
<1> DEFINE r == run[t]
           q == run'[t]
<1>1. RunType /\ LockExact
  BY DEF DiskServed
<1>2. /\ simulator = "running" /\ r.op # "idle" /\ ~r.waiting /\ synchDisk.lock = NULL
      /\ Fields(q) /\ q.waiting /\ q.op = r.op /\ q.pc = r.pc
      /\ run' = [u \in Threads |-> run'[u]] /\ \A u \in Threads \ {t} : run'[u] = run[u]
      /\ synchDisk' = [synchDisk EXCEPT !.lock = t, !.active = TRUE]
      /\ flags' \in Flags /\ UNCHANGED simulator
  BY RequestIs
<1>3. RunType'
  BY <1>1, <1>2 DEF RunType
<1>4. LockExact'
  BY <1>1, <1>2, NamesAssumption DEF LockExact
<1> QED BY <1>2, <1>3, <1>4 DEF DiskServed

(* What the end of a transfer changes. *)
LEMMA CompleteIs ==
    ASSUME DiskServed, NEW t \in Threads, Complete(t)
    PROVE  /\ simulator = "running" /\ run[t].op # "idle" /\ run[t].waiting
                /\ synchDisk.semaphore = 1
           /\ run[t].op \in DOMAIN Places /\ run[t].pc \in Places[run[t].op]
           /\ Fields(run[t]) /\ Fields(run'[t]) /\ run'[t].waiting = FALSE
           /\ run'[t] = [After(run[t]) EXCEPT !.waiting = FALSE]
           /\ run'[t].pc \in Places[run'[t].op] /\ (run'[t].op = run[t].op \/ run'[t].op = "idle")
           /\ run' = [u \in Threads |-> run'[u]] /\ \A u \in Threads \ {t} : run'[u] = run[u]
           /\ synchDisk' = [synchDisk EXCEPT !.lock = NULL, !.semaphore = 0]
           /\ flags' \in Flags
           /\ flags'.overlapped = flags.overlapped /\ flags'.crashes = flags.crashes
           /\ flags'.wild = flags.wild
           /\ live' = [live EXCEPT ![run[t].name] = @ \/ (run[t].op = "Create" /\ run[t].pc
                = "writeMap")]
           /\ file' = IF run[t].op = "Open" /\ run[t].pc = "hdr"
                      THEN [file EXCEPT ![t] = OpenFile(run[t].name, run[t].sector,
                        run[t].hdr)] ELSE file
           /\ simulator' = CASE Unmarked(run[t]) -> "ought to be marked"
                             [] run[t].pc = "hdr" /\ disk.sec[run[t].sector].kind # "hdr" ->
                                  IF run[t].op = "Open" THEN "stale Open" ELSE "garbage header"
                             [] OTHER -> "running"
           /\ UNCHANGED disk
<1> DEFINE r == run[t]
           q == run'[t]
<1>1. RunType /\ LockExact /\ synchDisk.semaphore = 1
  <2>1. RunType /\ LockExact /\ synchDisk.semaphore > 0
    BY DEF Complete, DiskServed
  <2> QED BY <2>1 DEF LockExact
<1>2. /\ simulator = "running" /\ r.waiting
      /\ synchDisk' = [synchDisk EXCEPT !.lock = NULL, !.semaphore = @ - 1]
      /\ run' = [run EXCEPT ![t] = [After(r) EXCEPT !.waiting = FALSE]]
      /\ \E b : flags' = [flags EXCEPT !.reused = @ \/ b]
      /\ live' = [live EXCEPT ![r.name] = @ \/ (r.op = "Create" /\ r.pc = "writeMap")]
      /\ file' = IF r.op = "Open" /\ r.pc = "hdr"
                 THEN [file EXCEPT ![t] = OpenFile(r.name, r.sector, r.hdr)] ELSE file
      /\ UNCHANGED disk
  BY DEF Complete
<1>3. simulator' = CASE Unmarked(r) -> "ought to be marked"
                     [] r.pc = "hdr" /\ disk.sec[r.sector].kind # "hdr" ->
                          IF r.op = "Open" THEN "stale Open" ELSE "garbage header"
                     [] OTHER -> "running"
  BY DEF Complete
<1>4. r.op # "idle" /\ Fields(r) /\ r.op \in DOMAIN Places /\ r.pc \in Places[r.op]
  BY <1>1, <1>2 DEF RunType
<1> DEFINE a == After(r)
<1>5. Fields(a) /\ a.pc \in Places[a.op] /\ (a.op = r.op \/ a.op = "idle")
  BY <1>4, AfterFields DEF Idle
<1> HIDE DEF a
<1>6. q = [a EXCEPT !.waiting = FALSE]
  BY <1>1, <1>2 DEF RunType, a
<1>7. Fields(q) /\ q.waiting = FALSE /\ q.op = a.op /\ q.pc = a.pc
  BY <1>5, <1>6 DEF Fields
<1>8. /\ flags' \in Flags
      /\ flags'.overlapped = flags.overlapped /\ flags'.crashes = flags.crashes
      /\ flags'.wild = flags.wild
  BY <1>1, <1>2 DEF RunType, Flags
<1>9. run' = [u \in Threads |-> run'[u]] /\ \A u \in Threads \ {t} : run'[u] = run[u]
  BY <1>1, <1>2 DEF RunType
<1>10. synchDisk' = [synchDisk EXCEPT !.lock = NULL, !.semaphore = 0]
  BY <1>1, <1>2 DEF LockExact
<1> QED BY <1>1, <1>2, <1>3, <1>4, <1>5, <1>6, <1>7, <1>8, <1>9, <1>10 DEF a

(* A thread that comes back from the disk gives the lock up. *)
LEMMA CompleteLocks ==
    ASSUME DiskServed, NEW t \in Threads, Complete(t)
    PROVE  DiskServed'
<1> DEFINE r == run[t]
           q == run'[t]
<1>1. RunType /\ LockExact
  BY DEF DiskServed
<1>2. /\ Fields(q) /\ q.waiting = FALSE /\ q.op \in DOMAIN Places /\ q.pc \in Places[q.op]
           /\ r.waiting
      /\ run' = [u \in Threads |-> run'[u]] /\ \A u \in Threads \ {t} : run'[u] = run[u]
      /\ synchDisk' = [synchDisk EXCEPT !.lock = NULL, !.semaphore = 0]
      /\ synchDisk.semaphore = 1 /\ flags' \in Flags
  BY CompleteIs DEF Places
<1>3. simulator' # "disk ASSERT"
  BY CompleteIs
<1>4. RunType'
  BY <1>1, <1>2 DEF RunType
<1>5. LockExact'
  <2>1. synchDisk' \in [lock : Threads \union {NULL}, active : BOOLEAN, semaphore : {0, 1}]
    BY <1>1, <1>2 DEF LockExact
  <2>2. synchDisk'.lock = NULL /\ synchDisk'.semaphore = 0 /\ ~synchDisk'.active
    BY <1>1, <1>2 DEF LockExact
  <2>3. \A u \in Threads : ~run'[u].waiting /\ u # NULL
    BY <1>1, <1>2, NamesAssumption DEF LockExact
  <2> QED BY <2>1, <2>2, <2>3 DEF LockExact
<1> QED BY <1>3, <1>4, <1>5 DEF DiskServed

(* Sectors and entries are numbers, -1 is none. *)
LEMMA Numbers ==
    /\ Sectors \subseteq Nat /\ -1 \notin Sectors /\ DirEntries \subseteq Nat
    /\ System \subseteq Sectors /\ IsFiniteSet(Sectors) /\ Cardinality(Sectors) = NumSectors
    /\ NumSectors \in Nat /\ Straddle \in DirEntries
    /\ \A n \in Nat : divRoundUp(n, SectorSize) \in Nat
<1>1. /\ NumSectors \in Nat /\ NumSectors > 5 /\ SectorSize \in Nat \ {0} /\ NumDirEntries \in Nat
      /\ Straddle \in DirEntries
  BY DiskAssumption
<1>2. \A n \in Nat : divRoundUp(n, SectorSize) \in Nat
  <2> TAKE n \in Nat
  <2>1. n + SectorSize - 1 \in Nat
    BY <1>1
  <2> QED BY <1>1, <2>1, Divided DEF divRoundUp
<1>3. IsFiniteSet(Sectors) /\ Cardinality(Sectors) = NumSectors
  BY <1>1, FS_Interval DEF Sectors
<1> QED BY <1>1, <1>2, <1>3 DEF Sectors, DirEntries, System

(* Find answers the sector of an entry with the name, or there is none. *)
LEMMA FindFileIs ==
    ASSUME NEW dir \in Dir, NEW n
    PROVE  /\ FindFile(dir, n) = -1 <=> Listed(dir, n) = {}
           /\ Listed(dir, n) # {} =>
                \E e \in DirEntries : /\ e = Min(Listed(dir, n)) /\ dir[e].inUse /\ dir[e].name = n
                                      /\ FindFile(dir, n) = dir[e].sector
                                      /\ dir[e].sector \in Sectors
<1>1. Listed(dir, n) \subseteq Nat
  BY Numbers DEF Listed
<1>2. Listed(dir, n) # {} => Min(Listed(dir, n)) \in Listed(dir, n)
  BY <1>1, MinNat
<1>3. \A e \in DirEntries : dir[e].sector \in Sectors
  BY DEF Dir
<1>4. Listed(dir, n) # {} =>
        \E e \in DirEntries : /\ e = Min(Listed(dir, n)) /\ dir[e].inUse /\ dir[e].name = n
                              /\ FindFile(dir, n) = dir[e].sector /\ dir[e].sector \in Sectors
  BY <1>2, <1>3 DEF Listed, FindFile
<1>5. Listed(dir, n) = {} => FindFile(dir, n) = -1
  BY DEF FindFile
<1> QED BY <1>4, <1>5, Numbers

(* Add fills one entry, Remove clears one; the others stay as they are.    *)
LEMMA AddIs ==
    ASSUME NEW dir \in Dir, NEW n \in Names, NEW s \in Sectors, FreeEntries(dir) # {}
    PROVE  \E e \in DirEntries :
              /\ ~dir[e].inUse /\ Add(dir, n, s) \in Dir
              /\ Add(dir, n, s)[e] = [inUse |-> TRUE, sector |-> s, name |-> n]
              /\ \A d \in DirEntries \ {e} : Add(dir, n, s)[d] = dir[d]
<1> DEFINE e == Min(FreeEntries(dir))
<1>1. e \in DirEntries /\ ~dir[e].inUse
  BY Numbers, MinNat DEF FreeEntries
<1>2. Add(dir, n, s) = [dir EXCEPT ![e] = [inUse |-> TRUE, sector |-> s, name |-> n]]
  BY DEF Add
<1> HIDE DEF e
<1>3. Add(dir, n, s) \in Dir
  BY <1>1, <1>2 DEF Dir
<1> QED BY <1>1, <1>2, <1>3 DEF Dir

(* Directory::Remove clears the entry that it finds. *)
LEMMA RemoveNameIs ==
    ASSUME NEW dir \in Dir, NEW n, NEW e, e = Min(Listed(dir, n)), e \in DirEntries
    PROVE  /\ RemoveName(dir, n) \in Dir /\ ~RemoveName(dir, n)[e].inUse
           /\ \A d \in DirEntries \ {e} : RemoveName(dir, n)[d] = dir[d]
<1>1. RemoveName(dir, n) = [dir EXCEPT ![e] = [dir[e] EXCEPT !.inUse = FALSE]]
  BY DEF RemoveName
<1>2. [dir[e] EXCEPT !.inUse = FALSE] \in [inUse : BOOLEAN, sector : Sectors,
        name : Names \union {NULL}]
  BY DEF Dir
<1>3. ~[dir[e] EXCEPT !.inUse = FALSE].inUse
  BY DEF Dir
<1> QED BY <1>1, <1>2, <1>3 DEF Dir

(* What each sector of the directory carries, and both together. *)
LEMMA DirPartIs ==
    ASSUME NEW src \in Dir, NEW dst \in Dir
    PROVE  /\ DirPart(1, src, dst) \in Dir /\ DirPart(2, src, dst) \in Dir
           /\ \A e \in DirEntries :
                /\ e < Straddle => DirPart(1, src, dst)[e] = src[e]
                     /\ DirPart(2, src, dst)[e] = dst[e]
                /\ e > Straddle => DirPart(1, src, dst)[e] = dst[e]
                     /\ DirPart(2, src, dst)[e] = src[e]
                /\ e = Straddle =>
                     /\ DirPart(1, src, dst)[e] = [inUse |-> src[e].inUse,
                          sector |-> src[e].sector, name |-> dst[e].name]
                     /\ DirPart(2, src, dst)[e] = [inUse |-> dst[e].inUse,
                          sector |-> dst[e].sector, name |-> src[e].name]
<1>1. Straddle \in DirEntries /\ DirEntries \subseteq Nat
  BY Numbers
<1>2. ASSUME NEW e \in DirEntries
      PROVE  /\ e < Straddle => DirPart(1, src, dst)[e] = src[e] /\ DirPart(2, src, dst)[e] = dst[e]
             /\ e > Straddle => DirPart(1, src, dst)[e] = dst[e] /\ DirPart(2, src, dst)[e] = src[e]
  BY <1>1 DEF DirPart
<1>3. /\ DirPart(1, src, dst)[Straddle] =
           [dst[Straddle] EXCEPT !.inUse = src[Straddle].inUse, !.sector = src[Straddle].sector]
      /\ DirPart(2, src, dst)[Straddle] = [dst[Straddle] EXCEPT !.name = src[Straddle].name]
  BY <1>1 DEF DirPart
<1>4. src[Straddle] \in [inUse : BOOLEAN, sector : Sectors, name : Names \union {NULL}]
      /\ dst[Straddle] \in [inUse : BOOLEAN, sector : Sectors, name : Names \union {NULL}]
  BY <1>1 DEF Dir
<1>5. /\ DirPart(1, src, dst)[Straddle] =
           [inUse |-> src[Straddle].inUse, sector |-> src[Straddle].sector,
             name |-> dst[Straddle].name]
      /\ DirPart(2, src, dst)[Straddle] =
           [inUse |-> dst[Straddle].inUse, sector |-> dst[Straddle].sector,
             name |-> src[Straddle].name]
  BY <1>3, <1>4
<1>6. \A e \in DirEntries : e < Straddle \/ e > Straddle \/ e = Straddle
  BY <1>1
<1>7. ASSUME NEW p \in {1, 2}
      PROVE  DirPart(p, src, dst) \in Dir
  <2>1. ASSUME NEW e \in DirEntries
        PROVE  DirPart(p, src, dst)[e] \in [inUse : BOOLEAN, sector : Sectors,
                 name : Names \union {NULL}]
    <3>1. CASE e = Straddle
      BY <1>4, <1>5, <3>1
    <3>2. CASE e # Straddle
      <4>1. DirPart(p, src, dst)[e] \in {src[e], dst[e]}
        BY <1>2, <1>6, <3>2
      <4> QED BY <4>1 DEF Dir
    <3> QED BY <3>1, <3>2
  <2> DEFINE f(e) == CASE e = Straddle /\ p = 1 ->
                            [dst[e] EXCEPT !.inUse = src[e].inUse, !.sector = src[e].sector]
                       [] e = Straddle /\ p = 2 -> [dst[e] EXCEPT !.name = src[e].name]
                       [] e # Straddle -> IF (e < Straddle) = (p = 1) THEN src[e] ELSE dst[e]
  <2>2. DirPart(p, src, dst) = [e \in DirEntries |-> f(e)]
    BY Zenon DEF DirPart
  <2> HIDE DEF f
  <2>3. \A e \in DirEntries : f(e) \in [inUse : BOOLEAN, sector : Sectors,
          name : Names \union {NULL}]
    BY <2>1, <2>2
  <2> QED BY <2>2, <2>3 DEF Dir
<1> QED BY <1>2, <1>5, <1>7

(* Reading both sectors of the directory yields all of it. *)
LEMMA WholeDirectory ==
    ASSUME NEW src \in Dir
    PROVE  EmptyDir \in Dir /\ DirPart(2, src, DirPart(1, src, EmptyDir)) = src
<1>1. EmptyDir \in Dir
  BY Numbers DEF EmptyDir, NoEntry, Dir, Sectors
<1>2. PICK one : one = DirPart(1, src, EmptyDir)
  OBVIOUS
<1>3. PICK two : two = DirPart(2, src, one)
  OBVIOUS
<1>4. /\ one \in Dir
      /\ \A e \in DirEntries :
           /\ e < Straddle => one[e] = src[e]
           /\ e = Straddle => one[e] = [inUse |-> src[e].inUse, sector |-> src[e].sector,
                name |-> EmptyDir[e].name]
  BY <1>1, <1>2, DirPartIs
<1>5. /\ two \in Dir
      /\ \A e \in DirEntries :
           /\ e < Straddle => two[e] = one[e]
           /\ e > Straddle => two[e] = src[e]
           /\ e = Straddle => two[e] = [inUse |-> one[e].inUse, sector |-> one[e].sector,
                name |-> src[e].name]
  BY <1>3, <1>4, DirPartIs
<1>6. ASSUME NEW e \in DirEntries
      PROVE  two[e] = src[e]
  <2>1. src[e] = [inUse |-> src[e].inUse, sector |-> src[e].sector, name |-> src[e].name]
    BY DEF Dir
  <2>2. e < Straddle \/ e > Straddle \/ e = Straddle
    BY Numbers
  <2>3. CASE e = Straddle
    <3>1. one[e] = [inUse |-> src[e].inUse, sector |-> src[e].sector, name |-> EmptyDir[e].name]
      BY <1>4, <2>3, Zenon
    <3>2. one[e].inUse = src[e].inUse /\ one[e].sector = src[e].sector
      BY <3>1
    <3> QED BY <1>5, <2>1, <2>3, <3>2
  <2> QED BY <1>4, <1>5, <2>2, <2>3
<1>7. two = src
  BY <1>5, <1>6 DEF Dir
<1> QED BY <1>1, <1>2, <1>3, <1>7

(* BitMap::Find finds free sectors as long as there are enough. *)
LEMMA FindSectorsFree ==
    ASSUME NEW map, NEW n \in Nat, n <= Cardinality(Sectors \ map)
    PROVE  FindSectors(map, n) \in [1 .. n -> Sectors \ map]
<1> DEFINE clear == Sectors \ map
<1>1. clear \subseteq Nat /\ IsFiniteSet(clear)
  BY Numbers, FS_Subset
<1>2. ASSUME NEW k \in 1 .. n
      PROVE  \E s \in clear : Cardinality({c \in clear : c < s}) = k - 1
  <2>1. k - 1 \in Nat /\ k - 1 < Cardinality(clear)
    BY <1>1, FS_CardinalityType
  <2> HIDE DEF clear
  <2> QED BY <1>1, <2>1, KthSmallest
<1>3. FindSectors(map,
        n) = [k \in 1 .. n |-> CHOOSE s \in clear : Cardinality({c \in clear : c < s}) = k - 1]
  BY DEF FindSectors
<1> HIDE DEF clear
<1>4. \A k \in 1 .. n : (CHOOSE s \in clear : Cardinality({c \in clear : c < s}) = k - 1) \in clear
  BY <1>2
<1>5. FindSectors(map, n) \in [1 .. n -> clear]
  BY <1>3, <1>4
<1> QED BY <1>5 DEF clear

(* The first clear bit is clear. *)
LEMMA FirstFree ==
    ASSUME NEW map, ~(Sectors \subseteq map)
    PROVE  FindSectors(map, 1)[1] \in Sectors \ map
<1>1. IsFiniteSet(Sectors \ map) /\ Sectors \ map # {}
  BY Numbers, FS_Subset
<1>2. Cardinality(Sectors \ map) \in Nat /\ Cardinality(Sectors \ map) # 0
  BY <1>1, FS_CardinalityType, FS_EmptySet
<1>3. 1 \in Nat /\ 1 <= Cardinality(Sectors \ map)
  BY <1>2
<1>4. FindSectors(map, 1) \in [1 .. 1 -> Sectors \ map]
  BY <1>3, FindSectorsFree
<1> QED BY <1>4

(* FileHeader::Allocate takes as many clear sectors as the file needs. *)
LEMMA AllocateIs ==
    ASSUME NEW map, NEW n \in Nat, divRoundUp(n, SectorSize) <= Cardinality(Sectors \ map),
           NEW hdr, hdr = Allocate(map, n)
    PROVE  WellFormed(hdr) /\ Range(hdr.dataSectors) \subseteq Sectors \ map
<1> DEFINE m == divRoundUp(n, SectorSize)
<1>1. m \in Nat
  BY Numbers
<1>2. hdr = [numBytes |-> n, dataSectors |-> FindSectors(map, m)]
  BY DEF Allocate
<1>3. FindSectors(map, m) \in [1 .. m -> Sectors \ map]
  BY <1>1, FindSectorsFree
<1> HIDE DEF m
<1>4. FindSectors(map, m) \in Seq(Sectors) /\ Len(FindSectors(map, m)) = m
  BY <1>1, <1>3
<1>5. Range(FindSectors(map, m)) \subseteq Sectors \ map
  BY <1>3 DEF Range
<1> QED BY <1>2, <1>4, <1>5 DEF WellFormed, Hdr, m

(* A position within the file is in a sector of the file. *)
LEMMA SectorOfFile ==
    ASSUME NEW h, WellFormed(h), NEW p \in Nat, NEW n \in Nat \ {0}, p + n <= h.numBytes,
           NEW i \in (p \div SectorSize) .. ((p + n - 1) \div SectorSize)
    PROVE  /\ ByteToSector(h, i * SectorSize) \in Range(h.dataSectors)
           /\ i \in Nat /\ i + 1 \in DOMAIN h.dataSectors
           /\ ByteToSector(h, i * SectorSize) = h.dataSectors[i + 1]
<1> DEFINE len == h.numBytes
           a == p + n - 1
           b == len + SectorSize - 1
           x == a \div SectorSize
           y == b \div SectorSize
<1>1. /\ SectorSize \in Nat \ {0} /\ len \in Nat /\ h.dataSectors \in Seq(Sectors)
      /\ Len(h.dataSectors) = y
  BY DiskAssumption DEF WellFormed, Hdr, divRoundUp
<1>2. a \in Nat /\ b \in Nat /\ a <= len - 1 /\ b = len + SectorSize - 1
  BY SMTT(30), <1>1
<1>3. x \in Nat /\ y \in Nat /\ p \div SectorSize \in Nat
  BY <1>1, <1>2, Divided
<1>4. i \in Nat /\ i <= x
  BY <1>3
<1>5. (i * SectorSize) \div SectorSize = i
  <2>1. i * SectorSize = (SectorSize * i) + 0
    BY <1>1, <1>4
  <2>2. i * SectorSize \in Nat /\ 0 \in 0 .. SectorSize - 1
    BY <1>1, <1>4
  <2> QED BY <1>1, <1>4, <2>1, <2>2, Quotient
<1>6. i < y
  <2>1. SUFFICES ASSUME y <= i PROVE FALSE
    BY <1>3, <1>4
  <2>2. SectorSize * y <= SectorSize * x
    BY <1>1, <1>3, <1>4, <2>1, Product
  <2>3. /\ SectorSize * x \in Nat /\ a = (SectorSize * x) + (a % SectorSize)
             /\ a % SectorSize \in Nat
    BY <1>1, <1>2, <1>3, Product, Division, Divided
  <2>4. /\ SectorSize * y \in Nat /\ b = (SectorSize * y) + (b % SectorSize)
        /\ b % SectorSize \in 0 .. SectorSize - 1
    BY ZenonT(60), <1>1, <1>2, <1>3, Product, Division, Divided
  <2>5. b % SectorSize <= SectorSize - 1 /\ a % SectorSize >= 0
    BY <1>1, <2>3, <2>4
  <2> DEFINE X == SectorSize * x
             Y == SectorSize * y
             ra == a % SectorSize
             rb == b % SectorSize
  <2>6. /\ X \in Nat /\ Y \in Nat /\ ra \in Nat /\ rb \in Int /\ Y <= X /\ a = X + ra
        /\ b = Y + rb /\ rb <= SectorSize - 1
    BY <1>1, <2>2, <2>3, <2>4, <2>5
  <2> HIDE DEF X, Y, ra, rb, a, b
  <2> QED BY <1>1, <1>2, <2>6
<1>7. i + 1 \in 1 .. Len(h.dataSectors)
  BY <1>1, <1>3, <1>4, <1>6
<1>8. h.dataSectors[i + 1] \in Range(h.dataSectors)
  BY <1>1, <1>7 DEF Range
<1>9. i + 1 \in DOMAIN h.dataSectors
  BY <1>1, <1>7
<1> HIDE DEF x, y
<1> QED BY <1>4, <1>5, <1>8, <1>9 DEF ByteToSector

(* A thread at rest. *)
LEMMA IdleIs ==
    /\ Fields(Idle) /\ Idle.op = "idle" /\ Idle.pc = "none" /\ Idle.waiting = FALSE
    /\ Idle.hdr = NoHdr /\ NoHdr \in Hdr /\ WellFormed(NoHdr)
    /\ Idle.op \in DOMAIN Places /\ Idle.pc \in Places[Idle.op]
<1>1. Fields(Idle) /\ Idle.op = "idle" /\ Idle.pc = "none" /\ Idle.waiting = FALSE
        /\ Idle.hdr = NoHdr
  BY DEF Fields, Idle
<1>2. NoHdr \in Hdr /\ Len(NoHdr.dataSectors) = 0 /\ NoHdr.numBytes = 0
  BY DEF NoHdr, Hdr
<1>4. Idle.op \in DOMAIN Places /\ Idle.pc \in Places[Idle.op]
  BY <1>1 DEF Places
<1>3. divRoundUp(0, SectorSize) = 0
  <2>1. SectorSize \in Nat \ {0} /\ 0 + SectorSize - 1 = SectorSize - 1
    BY DiskAssumption
  <2>2. 0 \in Nat /\ SectorSize - 1 \in 0 .. SectorSize - 1
          /\ SectorSize - 1 = (SectorSize * 0) + (SectorSize - 1)
    BY <2>1
  <2>3. (SectorSize - 1) \div SectorSize = 0
    BY <2>1, <2>2, Quotient
  <2> QED BY <2>1, <2>3 DEF divRoundUp
<1> QED BY <1>1, <1>2, <1>3, <1>4 DEF WellFormed

(* The initial states, a crash and an interrupt keep the lock exact. *)
LEMMA InitLocks == FileSysInit => DiskServed
<1> SUFFICES ASSUME FileSysInit PROVE DiskServed
  OBVIOUS
<1>1. /\ synchDisk = IdleDisk /\ run = [t \in Threads |-> Idle]
      /\ flags = [overlapped |-> FALSE, wild |-> FALSE, reused |-> FALSE, crashes |-> 0]
      /\ simulator = "running"
  BY DEF FileSysInit
<1>2. RunType
  BY <1>1, IdleIs DEF RunType, Flags
<1>3. LockExact
  BY <1>1, IdleIs, NamesAssumption DEF LockExact, IdleDisk
<1> QED BY <1>1, <1>2, <1>3 DEF DiskServed

(* A crash frees the lock. *)
LEMMA CrashLocks == DiskServed /\ Crash => DiskServed'
<1> SUFFICES ASSUME DiskServed, Crash PROVE DiskServed'
  OBVIOUS
<1>1. /\ synchDisk' = IdleDisk /\ run' = [t \in Threads |-> Idle]
      /\ flags' = [flags EXCEPT !.crashes = @ + 1]
      /\ UNCHANGED simulator /\ flags \in Flags
  BY DEF Crash, DiskServed, RunType
<1>2. RunType'
  <2>1. flags' \in Flags
    BY <1>1 DEF Flags
  <2> QED BY <1>1, <2>1, IdleIs DEF RunType
<1>3. LockExact'
  BY <1>1, IdleIs, NamesAssumption DEF LockExact, IdleDisk
<1> QED BY <1>1, <1>2, <1>3 DEF DiskServed

(* An interrupt signals the thread that has the lock. *)
LEMMA InterruptLocks == DiskServed /\ HandleInterrupt => DiskServed'
<1> SUFFICES ASSUME DiskServed, HandleInterrupt PROVE DiskServed'
  OBVIOUS
<1>1. /\ synchDisk.active /\ synchDisk' = [synchDisk EXCEPT !.active = FALSE, !.semaphore = @ + 1]
      /\ UNCHANGED <<run, flags, simulator>> /\ LockExact /\ RunType
  BY DEF HandleInterrupt, DiskServed
<1>2. RunType'
  BY <1>1 DEF RunType
<1>3. LockExact'
  <2>1. synchDisk \in [lock : Threads \union {NULL}, active : BOOLEAN, semaphore : {0, 1}]
        /\ synchDisk.semaphore = 0 /\ synchDisk.lock # NULL
    BY <1>1 DEF LockExact
  <2>2. /\ synchDisk' = [synchDisk EXCEPT !.active = FALSE, !.semaphore = 1]
        /\ synchDisk'.lock = synchDisk.lock /\ ~synchDisk'.active
    BY <1>1, <2>1
  <2>3. synchDisk' \in [lock : Threads \union {NULL}, active : BOOLEAN, semaphore : {0, 1}]
    BY <2>1, <2>2
  <2> QED BY <1>1, <2>1, <2>2, <2>3 DEF LockExact
<1> QED BY <1>1, <1>2, <1>3 DEF DiskServed

(* How a read or a write begins, and how Create, Remove and Open do. *)
Span(r) == LastSector(r) - FirstSector(r) + 1
TransferBegins(t, op, request, r) ==
    /\ Fields(r) /\ Begin(t, r) /\ r.op = op /\ r.pc \in Places[op] /\ r.waiting = FALSE
    /\ r.pc = FirstTransfer(r) /\ r.buf = [k \in 1 .. Span(r) |-> r.buf[k]]
    /\ r.position = request[1] /\ r.numBytes = Clipped(t, request[2], request[1])
    /\ r.i = FirstSector(r) /\ r.hdr = NoHdr /\ r.name = file[t].name
    /\ file[t] # NotOpen /\ request[1] < FileLength(file[t].hdr) /\ UNCHANGED live
CommandBegins(t, n, r) ==
    /\ Fields(r) /\ Begin(t, r) /\ r.op \in {"Create", "Remove", "Open"} /\ r.pc = "dir1"
    /\ r.waiting = FALSE /\ r.name = n /\ r.hdr = NoHdr
    /\ r.op = "Create" => r.numBytes \in Sizes
    /\ live' = IF r.op = "Remove" THEN [live EXCEPT ![n] = FALSE] ELSE live

(* What an operation begins with. *)
LEMMA TransferIs ==
    ASSUME NEW t \in Threads, NEW op \in {"Read", "Write"}, NEW request, NEW v,
           Transfer(t, op, request, v)
    PROVE  \E r : TransferBegins(t, op, request, r)
<1>0. PICK z : z = Idle
  OBVIOUS
<1>1. PICK r0 : r0 = [z EXCEPT !.op = op, !.position = request[1], !.value = v,
                               !.numBytes = Clipped(t, request[2], request[1]),
                               !.name = file[t].name]
  OBVIOUS
<1>8. PICK b : b = [k \in 1 .. Span(r0) |-> [c \in 1 .. SectorSize |-> Junk]]
  OBVIOUS
<1>2. PICK r : r = [r0 EXCEPT !.pc = FirstTransfer(r0), !.i = FirstSector(r0), !.buf = b]
               /\ Begin(t, r)
  BY <1>0, <1>1, <1>8 DEF Transfer, Span
<1>3. file[t] # NotOpen /\ request[1] < FileLength(file[t].hdr) /\ UNCHANGED live
  BY DEF Transfer
<1>4. /\ Fields(r0) /\ r0.op = op /\ r0.waiting = z.waiting /\ r0.position = request[1]
      /\ r0.numBytes = Clipped(t, request[2], request[1]) /\ r0.hdr = z.hdr
      /\ r0.name = file[t].name
  <2>1. Fields(z)
    BY <1>0, IdleIs
  <2> QED BY <1>1, <2>1 DEF Fields
<1>5. FirstTransfer(r0) \in Places[op]
  BY <1>4 DEF FirstTransfer, Places
<1>6. /\ Fields(r) /\ r.op = r0.op /\ r.pc = FirstTransfer(r0) /\ r.waiting = r0.waiting
      /\ r.position = r0.position /\ r.numBytes = r0.numBytes
      /\ r.i = FirstSector(r0) /\ r.hdr = r0.hdr /\ r.name = r0.name /\ r.buf = b
  BY <1>2, <1>4 DEF Fields
<1>7. r.i = FirstSector(r) /\ r.waiting = FALSE /\ r.hdr = NoHdr
  BY <1>0, <1>4, <1>6, IdleIs DEF FirstSector
<1>9. FirstSector(r) = FirstSector(r0) /\ LastSector(r) = LastSector(r0)
  BY <1>6 DEF FirstSector, LastSector
<1>10. FirstTransfer(r) = FirstTransfer(r0)
  <2>1. (FirstAligned(r) <=> FirstAligned(r0)) /\ (LastAligned(r) <=> LastAligned(r0))
    BY <1>6, <1>9 DEF FirstAligned, LastAligned
  <2>2. RmwLast(r) <=> RmwLast(r0)
    BY <1>9, <2>1 DEF RmwLast
  <2> QED BY <1>6, <2>1, <2>2 DEF FirstTransfer
<1>11. r.buf = [k \in 1 .. Span(r) |-> r.buf[k]]
  <2>1. Span(r) = Span(r0)
    BY <1>9 DEF Span
  <2> QED BY <1>6, <1>8, <2>1
<1>12. /\ r.op = op /\ r.pc \in Places[op] /\ r.waiting = FALSE /\ r.pc = FirstTransfer(r)
       /\ r.position = request[1] /\ r.numBytes = Clipped(t, request[2], request[1])
       /\ r.i = FirstSector(r) /\ r.hdr = NoHdr /\ r.name = file[t].name
  BY <1>4, <1>5, <1>6, <1>7, <1>10
<1>13. Fields(r) /\ Begin(t, r)
  BY <1>2, <1>6
<1>14. TransferBegins(t, op, request, r)
  BY Zenon, <1>3, <1>11, <1>12, <1>13 DEF TransferBegins
<1> QED BY <1>14

(* So Create, Remove and Open begin. *)
LEMMA CommandIs ==
    ASSUME NEW t \in Threads, NEW n \in Names,
           (\E size \in Sizes : Create(t, n, size)) \/ Remove(t, n) \/ Open(t, n)
    PROVE  \E r : CommandBegins(t, n, r)
<1>0. PICK z : z = Idle
  OBVIOUS
<1>1. Fields(z) /\ z.waiting = FALSE /\ z.hdr = NoHdr
  BY <1>0, IdleIs
<1>2. CASE \E size \in Sizes : Create(t, n, size)
  <2>1. PICK size \in Sizes : Create(t, n, size)
    BY <1>2
  <2>2. PICK r : r = [z EXCEPT !.op = "Create", !.pc = "dir1", !.name = n, !.numBytes = size]
    OBVIOUS
  <2>3. Begin(t, r) /\ UNCHANGED live
    BY <1>0, <2>1, <2>2 DEF Create
  <2>4. /\ Fields(r) /\ r.op = "Create" /\ r.pc = "dir1" /\ r.waiting = z.waiting /\ r.name = n
        /\ r.hdr = z.hdr /\ r.numBytes = size
    BY <1>1, <2>2 DEF Fields
  <2> QED BY <1>1, <2>3, <2>4 DEF CommandBegins
<1>3. CASE Remove(t, n)
  <2>2. PICK r : r = [z EXCEPT !.op = "Remove", !.pc = "dir1", !.name = n]
    OBVIOUS
  <2>3. Begin(t, r) /\ live' = [live EXCEPT ![n] = FALSE]
    BY <1>0, <1>3, <2>2 DEF Remove
  <2>4. /\ Fields(r) /\ r.op = "Remove" /\ r.pc = "dir1" /\ r.waiting = z.waiting /\ r.name = n
        /\ r.hdr = z.hdr
    BY <1>1, <2>2 DEF Fields
  <2> QED BY <1>1, <2>3, <2>4 DEF CommandBegins
<1>4. CASE Open(t, n)
  <2>2. PICK r : r = [z EXCEPT !.op = "Open", !.pc = "dir1", !.name = n]
    OBVIOUS
  <2>3. Begin(t, r) /\ UNCHANGED live
    BY <1>0, <1>4, <2>2 DEF Open
  <2>4. /\ Fields(r) /\ r.op = "Open" /\ r.pc = "dir1" /\ r.waiting = z.waiting /\ r.name = n
        /\ r.hdr = z.hdr
    BY <1>1, <2>2 DEF Fields
  <2> QED BY <1>1, <2>3, <2>4 DEF CommandBegins
<1> QED BY <1>2, <1>3, <1>4

(* Every step keeps the lock exact. *)
LEMMA NextLocks == DiskServed /\ [FileSysNext]_fileSysVars => DiskServed'
<1> SUFFICES ASSUME DiskServed, [FileSysNext]_fileSysVars PROVE DiskServed'
  OBVIOUS
<1>1. ASSUME NEW t \in Threads, NEW n \in Names,
             (\E size \in Sizes : Create(t, n, size)) \/ Remove(t, n) \/ Open(t, n)
      PROVE  DiskServed'
  <2>1. PICK r : CommandBegins(t, n, r)
    BY <1>1, CommandIs
  <2>2. Fields(r) /\ Begin(t, r) /\ r.waiting = FALSE /\ r.op \in DOMAIN Places
          /\ r.pc \in Places[r.op]
    BY <2>1 DEF CommandBegins, Places
  <2> QED BY <2>2, BeginLocks, <2>1 DEF CommandBegins
<1>2. ASSUME NEW t \in Threads, NEW op \in {"Read", "Write"}, NEW q, NEW v,
             Transfer(t, op, q, v)
      PROVE  DiskServed'
  <2>1. PICK r : TransferBegins(t, op, q, r)
    BY <1>2, TransferIs
  <2>2. Fields(r) /\ Begin(t, r) /\ r.waiting = FALSE /\ r.op \in DOMAIN Places
          /\ r.pc \in Places[r.op]
    BY <2>1 DEF TransferBegins, Places
  <2> QED BY <2>2, BeginLocks, <2>1 DEF TransferBegins
<1>3. CASE UNCHANGED fileSysVars
  BY <1>3 DEF fileSysVars, DiskServed, RunType, LockExact
<1>4. CASE \E t \in Threads : Request(t) \/ Complete(t)
  BY <1>4, RequestLocks, CompleteLocks
<1>5. CASE HandleInterrupt
  BY <1>5, InterruptLocks
<1>6. CASE Crash
  BY <1>6, CrashLocks
<1> QED BY <1>1, <1>2, <1>3, <1>4, <1>5, <1>6 DEF FileSysNext

(* The state's own operators, with the disk as a parameter. *)
LEMMA OwnedIs ==
    /\ UsedOnDisk = Used(disk)
    /\ \A s : Owned(s) = OwnedIn(disk, s)
<1>1. \A s : Owned(s) = OwnedIn(disk, s)
  BY DEF Owned, OwnedIn
<1> QED BY <1>1 DEF UsedOnDisk, Used, InUse

(* One entry more, or one less. *)
LEMMA UsedOneMore ==
    ASSUME NEW d, NEW e
    PROVE  /\ e \in InUse(d) => Used(d) = UsedBut(d, e) \union OwnedIn(d, d.dir[e].sector)
           /\ e \notin InUse(d) => Used(d) = UsedBut(d, e)
           /\ \A c \in InUse(d) \ {e} : OwnedIn(d, d.dir[c].sector) \subseteq UsedBut(d, e)
  BY DEF Used, UsedBut

(* The file of an entry lies apart from the others. *)
LEMMA UsedApart ==
    ASSUME NEW d, FilesApart(d), NEW e \in InUse(d)
    PROVE  UsedBut(d, e) \intersect OwnedIn(d, d.dir[e].sector) = {}
  BY DEF UsedBut, FilesApart

(* Two disks on which the entries but e are the same, with the same headers. *)
SameBut(d, n, e) ==
    /\ \A c \in DirEntries \ {e} : n.dir[c] = d.dir[c]
    /\ \A c \in InUse(d) \ {e} : n.sec[d.dir[c].sector] = d.sec[d.dir[c].sector]

(* Then the others own the same sectors. *)
LEMMA SameUsed ==
    ASSUME NEW d, NEW n, NEW e,
           SameBut(d, n, e)
    PROVE  /\ InUse(n) \ {e} = InUse(d) \ {e}
           /\ \A c \in InUse(d) \ {e} : OwnedIn(n, n.dir[c].sector) = OwnedIn(d, d.dir[c].sector)
           /\ UsedBut(n, e) = UsedBut(d, e)
<1>1. InUse(n) \ {e} = InUse(d) \ {e}
  BY DEF InUse, SameBut
<1>2. \A c \in InUse(d) \ {e} : OwnedIn(n, n.dir[c].sector) = OwnedIn(d, d.dir[c].sector)
  BY DEF InUse, OwnedIn, SameBut
<1> QED BY <1>1, <1>2 DEF UsedBut

(* The files stay apart when those but e do and e is free or apart. *)
LEMMA ApartBut ==
    ASSUME NEW d, NEW n, NEW e, FilesApart(d),
           SameBut(d, n, e),
           e \in InUse(n) => /\ IsFile(n, n.dir[e].sector)
                             /\ OwnedIn(n, n.dir[e].sector) \intersect UsedBut(d, e) = {}
    PROVE  FilesApart(n)
<1>1. /\ InUse(n) \ {e} = InUse(d) \ {e}
      /\ \A c \in InUse(d) \ {e} : OwnedIn(n, n.dir[c].sector) = OwnedIn(d, d.dir[c].sector)
      /\ UsedBut(n, e) = UsedBut(d, e)
  BY SameUsed
<1>2. ASSUME NEW c \in InUse(n)
      PROVE  IsFile(n, n.dir[c].sector)
  <2>1. CASE c = e
    BY <2>1
  <2>2. CASE c # e
    <3>1. c \in InUse(d) \ {e} /\ n.dir[c] = d.dir[c] /\ IsFile(d, d.dir[c].sector)
      BY <1>1, <2>2 DEF FilesApart, InUse, SameBut
    <3>2. n.sec[d.dir[c].sector] = d.sec[d.dir[c].sector]
      BY <3>1 DEF SameBut
    <3> QED BY <1>1, <3>1, <3>2 DEF IsFile
  <2> QED BY <2>1, <2>2
<1>3. ASSUME NEW b \in InUse(n), NEW c \in InUse(n), b # c
      PROVE  OwnedIn(n, n.dir[b].sector) \intersect OwnedIn(n, n.dir[c].sector) = {}
  <2>1. CASE b # e /\ c # e
    BY <1>1, <1>3, <2>1 DEF FilesApart
  <2>2. \A a \in InUse(n) \ {e} : OwnedIn(n, n.dir[a].sector) \subseteq UsedBut(d, e)
    BY <1>1, UsedOneMore
  <2>3. CASE b = e
    BY <1>3, <2>2, <2>3
  <2>4. CASE c = e
    BY <1>3, <2>2, <2>4
  <2> QED BY <2>1, <2>3, <2>4
<1> QED BY <1>2, <1>3 DEF FilesApart

(* Runs alike are exact alike. *)
LEMMA AlikeTyped ==
    ASSUME NEW q, NEW r, Alike(q, r), NEW f, Typed(r, f)
    PROVE  Typed(q, f)
  BY DEF Alike, Typed, FirstSector, LastSector

(* What is known of a run is known of one that is alike. *)
LEMMA AlikeExact ==
    ASSUME NEW q, NEW r, Alike(q, r), NEW d, NEW lv, RunExact(d, lv, r)
    PROVE  RunExact(d, lv, q)
<1>1. /\ q.op = r.op /\ q.pc = r.pc /\ q.name = r.name /\ q.sector = r.sector
      /\ q.hdr = r.hdr /\ q.map = r.map /\ q.dir = r.dir /\ q.waiting = r.waiting
  BY DEF Alike
<1>2. Fetching(d, r) => Fetching(d, q)
  BY <1>1 DEF Fetching
<1>3. (Begun(r) <=> Begun(q)) /\ (Half(r) <=> Half(q)) /\ (Done(r) <=> Done(q)) /\ New(q) = New(r)
  BY <1>1 DEF Begun, Half, Done, New
<1>4. ASSUME NEW e, Others(d, lv, r, e)
      PROVE  Others(d, lv, q, e)
  BY <1>1, <1>4 DEF Others
<1>5. ASSUME NEW e, Creating(d, lv, r, e)
      PROVE  Creating(d, lv, q, e)
  BY <1>1, <1>3, <1>4, <1>5 DEF Creating
<1>6. ASSUME NEW e, Removing(d, lv, r, e)
      PROVE  Removing(d, lv, q, e)
  BY <1>1, <1>3, <1>4, <1>6 DEF Removing
<1> QED BY <1>1, <1>2, <1>5, <1>6 DEF RunExact

(* What a request makes of a run. *)
Requested(d, r, q) ==
    /\ q.waiting /\ ~r.waiting
    /\ q.op = r.op /\ q.pc = r.pc /\ q.name = r.name /\ q.numBytes = r.numBytes
    /\ q.position = r.position /\ q.sector = r.sector /\ q.i = r.i
    /\ q.dir = IF r.pc = "dir1" THEN DirPart(1, d.dir, EmptyDir)
               ELSE IF r.pc = "dir2" THEN DirPart(2, d.dir, r.dir) ELSE r.dir
    /\ q.map = IF r.pc = "map" THEN d.map ELSE r.map
    /\ q.hdr = IF r.pc = "hdr" THEN d.sec[r.sector].hdr ELSE r.hdr

(* A request leaves the types as they are. *)
LEMMA RequestedTyped ==
    ASSUME NEW d, DiskType(d), NEW r, NEW q, Requested(d, r, q), NEW f, Typed(r, f)
    PROVE  Typed(q, f)
<1>1. /\ q.op = r.op /\ q.pc = r.pc /\ q.name = r.name /\ q.numBytes = r.numBytes
      /\ q.position = r.position /\ q.sector = r.sector /\ q.i = r.i
  BY DEF Requested
<1>2. q.hdr \in Hdr
  BY DEF Requested, Typed, DiskType
<1>3. q.pc = "dir2" \/ (q.pc = "dir1" /\ q.waiting) => q.dir \in Dir
  <2>1. EmptyDir \in Dir /\ d.dir \in Dir
    BY WholeDirectory DEF DiskType
  <2>2. r.pc = "dir1" => q.dir \in Dir
    <3>1. r.pc = "dir1" => q.dir = DirPart(1, d.dir, EmptyDir)
      BY DEF Requested
    <3> QED BY <2>1, <3>1, DirPartIs
  <2>3. r.pc = "dir2" => q.dir \in Dir
    <3>1. r.pc = "dir2" => q.dir = DirPart(2, d.dir, r.dir) /\ r.dir \in Dir
      BY DEF Requested, Typed
    <3> QED BY <2>1, <3>1, DirPartIs
  <2> QED BY <1>1, <2>2, <2>3
<1> QED BY <1>1, <1>2, <1>3 DEF Typed, FirstSector, LastSector

(* A transfer that reads. *)
LEMMA RequestReads ==
    ASSUME NEW d, DiskType(d), NEW r, NEW q, Requested(d, r, q), NEW lv, RunExact(d, lv, r),
           r.pc \notin Flushing
    PROVE  RunExact(d, lv, q)
<1>1. /\ q.op = r.op /\ q.pc = r.pc /\ q.name = r.name /\ q.sector = r.sector
      /\ ~r.waiting /\ q.waiting
  BY DEF Requested
<1>2. SUFFICES ASSUME r.op \in Modifiers PROVE Fetching(d, q)
  BY <1>1 DEF RunExact
<1>3. Fetching(d, r)
  BY <1>2 DEF RunExact
<1>4. r.pc = "dir1" => q.dir = DirPart(1, d.dir, EmptyDir)
  BY DEF Requested
<1>5. r.pc = "dir2" => q.dir = d.dir
  <2>1. r.pc = "dir2" => q.dir = DirPart(2, d.dir, DirPart(1, d.dir, EmptyDir))
    BY <1>1, <1>3 DEF Requested, Fetching
  <2> QED BY <2>1, WholeDirectory DEF DiskType
<1>6. r.pc \in {"hdr", "map"} => q.dir = d.dir
  BY <1>3 DEF Requested, Fetching
<1>7. /\ r.pc = "map" => q.map = d.map /\ q.hdr = r.hdr
      /\ r.pc = "hdr" => q.hdr = d.sec[r.sector].hdr
  BY DEF Requested
<1> QED BY <1>1, <1>3, <1>4, <1>5, <1>6, <1>7 DEF Fetching

(* A disk with one sector changed. *)
SectorSet(d, n, s, x) == n = [d EXCEPT !.sec[s] = x]

(* It is still a disk, and the rest of it is the same. *)
LEMMA SectorWritten ==
    ASSUME NEW d, DiskType(d), NEW s \in Sectors, NEW x, x.kind \in {"hdr", "data"},
           x.hdr \in Hdr,
           NEW n, SectorSet(d, n, s, x)
    PROVE  /\ DiskType(n) /\ n.map = d.map /\ n.dir = d.dir /\ n.sec[s] = x
           /\ \A c \in Sectors \ {s} : n.sec[c] = d.sec[c]
<1>1. /\ n = [d EXCEPT !.sec = [d.sec EXCEPT ![s] = x]]
      /\ d = [map |-> d.map, dir |-> d.dir, sec |-> d.sec]
  BY DEF DiskType, SectorSet
<1>2. n = [map |-> d.map, dir |-> d.dir, sec |-> [d.sec EXCEPT ![s] = x]]
  BY <1>1
<1>3. n.map = d.map /\ n.dir = d.dir /\ n.sec = [d.sec EXCEPT ![s] = x]
        /\ d.sec = [c \in Sectors |-> d.sec[c]]
  BY <1>2 DEF DiskType
<1>4. n.sec[s] = x /\ (\A c \in Sectors \ {s} : n.sec[c] = d.sec[c])
        /\ n.sec = [c \in Sectors |-> n.sec[c]]
  BY <1>3
<1> QED BY <1>2, <1>3, <1>4 DEF DiskType

(* Writing a sector that no other file owns leaves the others alone. *)
LEMMA OthersKept ==
    ASSUME NEW d, NEW n, NEW e \in DirEntries, SameBut(d, n, e), NEW r, NEW q, NEW lv,
           Others(d, lv, r, e),
           q.dir = r.dir, q.name = r.name
    PROVE  Others(n, lv, q, e)
<1>1. InUse(n) \ {e} = InUse(d) \ {e}
  BY SameUsed
<1>2. \A c \in InUse(n) \ {e} : n.dir[c] = d.dir[c]
  BY DEF SameBut, InUse
<1>3. \A c \in DirEntries \ {e} : n.dir[c] = d.dir[c]
  BY DEF SameBut
<1> QED BY <1>1, <1>2, <1>3 DEF Others

(* Create writes the header, into a sector that no file owns. *)
LEMMA HeaderWritten ==
    ASSUME NEW d, DiskType(d), FilesApart(d), NEW e \in DirEntries, NEW lv, NEW r,
           Creating(d, lv, r, e),
           NEW q, Requested(d, r, q), r.pc = "writeHdr",
           NEW n, SectorSet(d, n, r.sector, Sector("hdr", r.hdr, Blank))
    PROVE  DiskType(n) /\ FilesApart(n) /\ Creating(n, lv, q, e)
<1> DEFINE x == Sector("hdr", r.hdr, Blank)
<1>1. r.sector \in Sectors /\ r.hdr \in Hdr /\ x.kind = "hdr" /\ x.hdr = r.hdr
  BY DEF Creating, WellFormed, Sector
<1> HIDE DEF x
<1>2. /\ DiskType(n) /\ n.map = d.map /\ n.dir = d.dir /\ n.sec[r.sector] = x
      /\ \A c \in Sectors \ {r.sector} : n.sec[c] = d.sec[c]
  BY <1>1, SectorWritten DEF x
<1>3. ~d.dir[e].inUse /\ InUse(d) \ {e} = InUse(d) /\ InUse(n) = InUse(d)
  BY <1>2 DEF Creating, Begun, InUse
<1>4. ASSUME NEW c \in InUse(d) \ {e}
      PROVE  d.dir[c].sector \in Sectors /\ d.dir[c].sector # r.sector
  <2>1. d.dir[c].sector \in UsedBut(d, e)
    BY UsedOneMore DEF OwnedIn
  <2>2. r.sector \notin UsedBut(d, e)
    BY DEF Creating, New
  <2>3. d.dir[c] \in [inUse : BOOLEAN, sector : Sectors, name : Names \union {NULL}]
    BY DEF DiskType, Dir, InUse
  <2> QED BY <2>1, <2>2, <2>3
<1>5. SameBut(d, n, e)
  BY <1>2, <1>4 DEF SameBut
<1>6. e \notin InUse(n)
  BY <1>3
<1>7. FilesApart(n)
  BY <1>5, <1>6, ApartBut
<1>8. UsedBut(n, e) = UsedBut(d, e)
  BY <1>5, SameUsed
<1>9. /\ q.op = r.op /\ q.pc = r.pc /\ q.name = r.name /\ q.sector = r.sector
      /\ q.dir = r.dir /\ q.map = r.map /\ q.hdr = r.hdr /\ q.waiting
  BY DEF Requested
<1>10. Others(n, lv, q, e)
  <2>1. Others(d, lv, r, e)
    BY DEF Creating
  <2> QED BY <1>5, <1>9, <2>1, OthersKept
<1>11. Creating(n, lv, q, e)
  <2>1. New(q) = New(r)
    BY <1>9 DEF New
  <2> QED BY <1>1, <1>2, <1>3, <1>8, <1>9, <1>10, <2>1 DEF Creating, Begun, Half, Done
<1> QED BY <1>2, <1>7, <1>11

(* A disk with one of the two sectors of its directory changed. *)
DirSet(d, n, p, dir) == n = [d EXCEPT !.dir = DirPart(p, dir, d.dir)]

(* It is still a disk, and the rest of it is the same. *)
LEMMA DirWritten ==
    ASSUME NEW d, DiskType(d), NEW dir \in Dir, NEW p \in {1, 2}, NEW n, DirSet(d, n, p, dir)
    PROVE  /\ DiskType(n) /\ n.map = d.map /\ n.sec = d.sec /\ n.dir = DirPart(p, dir, d.dir)
           /\ \A c \in DirEntries : dir[c] = d.dir[c] => n.dir[c] = d.dir[c]
<1>1. d = [map |-> d.map, dir |-> d.dir, sec |-> d.sec] /\ d.dir \in Dir
  BY DEF DiskType
<1>2. DirPart(p, dir, d.dir) \in Dir
  BY <1>1, DirPartIs
<1>3. n.map = d.map /\ n.sec = d.sec /\ n.dir = DirPart(p, dir, d.dir)
      /\ n = [map |-> n.map, dir |-> n.dir, sec |-> n.sec]
  BY <1>1 DEF DirSet
<1>4. DiskType(n)
  BY <1>2, <1>3 DEF DiskType
<1>5. ASSUME NEW c \in DirEntries, dir[c] = d.dir[c]
      PROVE  DirPart(p, dir, d.dir)[c] = d.dir[c]
  <2>1. c < Straddle \/ c > Straddle \/ c = Straddle
    BY Numbers
  <2>2. d.dir[c] \in [inUse : BOOLEAN, sector : Sectors, name : Names \union {NULL}]
    BY <1>1 DEF Dir
  <2>3. d.dir[c] = [inUse |-> d.dir[c].inUse, sector |-> d.dir[c].sector, name |-> d.dir[c].name]
    BY <2>2
  <2>4. CASE p = 1
    BY <1>1, <1>5, <2>1, <2>3, <2>4, DirPartIs
  <2>5. CASE p = 2
    BY <1>1, <1>5, <2>1, <2>3, <2>5, DirPartIs
  <2> QED BY <2>4, <2>5
<1> QED BY <1>3, <1>4, <1>5

(* What the write of a part leaves of the entry e. *)
FirstPart(n, d, r, e) ==
    /\ e < Straddle => n.dir[e] = r.dir[e]
    /\ e > Straddle => n.dir[e] = d.dir[e]
    /\ e = Straddle => n.dir[e].inUse = r.dir[e].inUse /\ n.dir[e].sector = r.dir[e].sector
SecondPart(n, d, r, e) ==
    /\ e < Straddle => n.dir[e] = d.dir[e]
    /\ e > Straddle => n.dir[e] = r.dir[e]
    /\ e = Straddle => n.dir[e] = [inUse |-> d.dir[e].inUse, sector |-> d.dir[e].sector,
                                   name |-> r.dir[e].name]

(* A write of a part of the directory changes the entry e only. *)
LEMMA EntryWritten ==
    ASSUME NEW d, DiskType(d), NEW e \in DirEntries, NEW r, r.dir \in Dir,
           \A c \in DirEntries \ {e} : d.dir[c] = r.dir[c],
           NEW p \in {1, 2}, NEW n, DirSet(d, n, p, r.dir)
    PROVE  /\ DiskType(n) /\ n.map = d.map /\ n.sec = d.sec /\ SameBut(d, n, e)
           /\ p = 1 => FirstPart(n, d, r, e)
           /\ p = 2 => SecondPart(n, d, r, e)
<1>1. r.dir \in Dir /\ d.dir \in Dir /\ \A c \in DirEntries \ {e} : d.dir[c] = r.dir[c]
  BY DEF DiskType
<1>2. /\ DiskType(n) /\ n.map = d.map /\ n.sec = d.sec /\ n.dir = DirPart(p, r.dir, d.dir)
      /\ \A c \in DirEntries \ {e} : n.dir[c] = d.dir[c]
  BY <1>1, DirWritten
<1>3. SameBut(d, n, e)
  BY <1>2 DEF SameBut
<1>4. p = 1 => FirstPart(n, d, r, e)
  <2>1. p = 1 => n.dir = DirPart(1, r.dir, d.dir)
    BY <1>2
  <2> DEFINE m == DirPart(1, r.dir, d.dir)
  <2>2. /\ e < Straddle => m[e] = r.dir[e]
        /\ e > Straddle => m[e] = d.dir[e]
        /\ e = Straddle => m[e] = [inUse |-> r.dir[e].inUse, sector |-> r.dir[e].sector,
                                  name |-> d.dir[e].name]
    BY Zenon, <1>1, DirPartIs
  <2> HIDE DEF m
  <2>3. e = Straddle => m[e].inUse = r.dir[e].inUse /\ m[e].sector = r.dir[e].sector
    BY <2>2
  <2> QED BY <2>1, <2>2, <2>3 DEF FirstPart, m
<1>5. p = 2 => SecondPart(n, d, r, e)
  <2>1. p = 2 => n.dir = DirPart(2, r.dir, d.dir)
    BY <1>2
  <2> DEFINE m == DirPart(2, r.dir, d.dir)
  <2>2. /\ e < Straddle => m[e] = d.dir[e]
        /\ e > Straddle => m[e] = r.dir[e]
        /\ e = Straddle => m[e] = [inUse |-> d.dir[e].inUse, sector |-> d.dir[e].sector,
                                  name |-> r.dir[e].name]
    BY Zenon, <1>1, DirPartIs
  <2> QED BY Zenon, <2>1, <2>2 DEF SecondPart
<1> QED BY <1>2, <1>3, <1>4, <1>5

(* Create writes the entry, in one or two parts. *)
LEMMA EntryAdded ==
    ASSUME NEW d, DiskType(d), FilesApart(d), NEW e \in DirEntries, NEW lv, NEW r,
           Creating(d, lv, r, e),
           NEW q, Requested(d, r, q), NEW p \in {1, 2},
           r.pc = IF p = 1 THEN "writeDir1" ELSE "writeDir2",
           NEW n, DirSet(d, n, p, r.dir)
    PROVE  DiskType(n) /\ FilesApart(n) /\ Creating(n, lv, q, e)
<1>1. Others(d, lv, r, e)
  BY DEF Creating
<1>2. /\ DiskType(n) /\ n.map = d.map /\ n.sec = d.sec /\ SameBut(d, n, e)
      /\ UsedBut(n, e) = UsedBut(d, e) /\ \A s : OwnedIn(n, s) = OwnedIn(d, s)
      /\ p = 1 => FirstPart(n, d, r, e)
      /\ p = 2 => SecondPart(n, d, r, e)
  <2>1. r.dir \in Dir /\ \A c \in DirEntries \ {e} : d.dir[c] = r.dir[c]
    BY <1>1 DEF Others
  <2>2. /\ DiskType(n) /\ n.map = d.map /\ n.sec = d.sec /\ SameBut(d, n, e)
        /\ p = 1 => FirstPart(n, d, r, e)
        /\ p = 2 => SecondPart(n, d, r, e)
    BY <2>1, EntryWritten
  <2>3. UsedBut(n, e) = UsedBut(d, e)
    BY <2>2, SameUsed
  <2>4. \A s : OwnedIn(n, s) = OwnedIn(d, s)
    BY <2>2 DEF OwnedIn
  <2> QED BY <2>2, <2>3, <2>4
<1>3. /\ q.op = r.op /\ q.pc = r.pc /\ q.name = r.name /\ q.sector = r.sector
      /\ q.dir = r.dir /\ q.map = r.map /\ q.hdr = r.hdr /\ q.waiting /\ ~r.waiting
  BY DEF Requested
<1>4. e < Straddle \/ e > Straddle \/ e = Straddle
  BY Numbers
<1>5. r.dir[e] = [inUse |-> TRUE, sector |-> r.sector, name |-> r.name]
  BY DEF Creating
<1>6. /\ ~Begun(q)
      /\ Half(q) => /\ e = Straddle => n.dir[e].inUse
                    /\ e < Straddle => n.dir[e] = r.dir[e]
      /\ Done(q) => n.dir[e] = r.dir[e]
      /\ n.dir[e].inUse => n.dir[e].sector = r.sector
  <2>1. CASE p = 1
    <3>1. Begun(r) /\ ~Begun(q) /\ ~Done(q) /\ ~d.dir[e].inUse
      BY <1>3, <2>1 DEF Begun, Done, Creating
    <3>2. /\ e < Straddle => n.dir[e] = r.dir[e]
          /\ e > Straddle => n.dir[e] = d.dir[e]
          /\ e = Straddle => n.dir[e].inUse = r.dir[e].inUse /\ n.dir[e].sector = r.dir[e].sector
      BY <1>2, <2>1 DEF FirstPart
    <3>4. r.dir[e].inUse = TRUE /\ r.dir[e].sector = r.sector
      BY <1>5
    <3>3. /\ n.dir[e].inUse => n.dir[e].sector = r.sector
          /\ e = Straddle => n.dir[e].inUse
      BY <1>4, <3>1, <3>2, <3>4
    <3> QED BY <3>1, <3>2, <3>3
  <2>2. CASE p = 2
    <3>1. Half(r) /\ Done(q) /\ ~Begun(q) /\ ~Half(q)
      BY <1>3, <2>2 DEF Begun, Half, Done
    <3>2. /\ d.dir[e].inUse => d.dir[e].sector = r.sector
          /\ e = Straddle => d.dir[e].inUse
          /\ e < Straddle => d.dir[e] = r.dir[e]
      BY <3>1 DEF Creating
    <3>3. /\ e < Straddle => n.dir[e] = d.dir[e]
          /\ e > Straddle => n.dir[e] = r.dir[e]
          /\ e = Straddle => n.dir[e] = [inUse |-> d.dir[e].inUse, sector |-> d.dir[e].sector,
                                         name |-> r.dir[e].name]
      BY <1>2, <2>2 DEF SecondPart
    <3>4. e = Straddle => n.dir[e] = r.dir[e]
      <4>1. d.dir[e].inUse \in BOOLEAN
        BY DEF DiskType, Dir
      <4>2. e = Straddle => d.dir[e].inUse = TRUE /\ d.dir[e].sector = r.sector
              /\ r.dir[e].name = r.name
        BY <1>5, <3>2, <4>1
      <4> QED BY <1>5, <3>3, <4>2
    <3>5. n.dir[e] = r.dir[e]
      BY <1>4, <3>2, <3>3, <3>4
    <3> QED BY <1>5, <3>1, <3>5
  <2> QED BY <2>1, <2>2
<1>7. d.sec[r.sector].kind = "hdr" /\ d.sec[r.sector].hdr = r.hdr
  BY DEF Creating
<1>8. OwnedIn(n, r.sector) = New(r) /\ New(q) = New(r)
        /\ New(r) \intersect (System \union UsedBut(d, e)) = {}
  BY <1>2, <1>3, <1>7 DEF OwnedIn, New, Creating
<1>9. IsFile(n, r.sector)
  BY <1>2, <1>7, <1>8 DEF IsFile, Creating
<1>10. FilesApart(n)
  <2>1. n.dir[e].inUse =>
          IsFile(n, n.dir[e].sector) /\ OwnedIn(n, n.dir[e].sector) \intersect UsedBut(d, e) = {}
    BY <1>6, <1>8, <1>9
  <2>2. e \in InUse(n) =>
          IsFile(n, n.dir[e].sector) /\ OwnedIn(n, n.dir[e].sector) \intersect UsedBut(d, e) = {}
    BY <2>1 DEF InUse
  <2> QED BY <1>2, <2>2, ApartBut
<1>11. Others(n, lv, q, e)
  BY <1>1, <1>2, <1>3, OthersKept
<1>12. Creating(n, lv, q, e)
  BY <1>2, <1>3, <1>6, <1>7, <1>8, <1>11 DEF Creating
<1> QED BY <1>2, <1>10, <1>12

(* Remove writes the entry. *)
LEMMA EntryCleared ==
    ASSUME NEW d, DiskType(d), FilesApart(d), NEW e \in DirEntries, NEW lv, NEW r,
           Removing(d, lv, r, e),
           NEW q, Requested(d, r, q), NEW p \in {1, 2},
           r.pc = IF p = 1 THEN "writeDir1" ELSE "writeDir2",
           NEW n, DirSet(d, n, p, r.dir)
    PROVE  DiskType(n) /\ FilesApart(n) /\ Removing(n, lv, q, e)
<1>1. Others(d, lv, r, e)
  BY DEF Removing
<1>2. /\ DiskType(n) /\ n.map = d.map /\ n.sec = d.sec /\ SameBut(d, n, e)
      /\ UsedBut(n, e) = UsedBut(d, e) /\ \A s : OwnedIn(n, s) = OwnedIn(d, s)
      /\ p = 1 => FirstPart(n, d, r, e)
      /\ p = 2 => SecondPart(n, d, r, e)
  <2>1. r.dir \in Dir /\ \A c \in DirEntries \ {e} : d.dir[c] = r.dir[c]
    BY <1>1 DEF Others
  <2>2. /\ DiskType(n) /\ n.map = d.map /\ n.sec = d.sec /\ SameBut(d, n, e)
        /\ p = 1 => FirstPart(n, d, r, e)
        /\ p = 2 => SecondPart(n, d, r, e)
    BY <2>1, EntryWritten
  <2>3. UsedBut(n, e) = UsedBut(d, e)
    BY <2>2, SameUsed
  <2>4. \A s : OwnedIn(n, s) = OwnedIn(d, s)
    BY <2>2 DEF OwnedIn
  <2> QED BY <2>2, <2>3, <2>4
<1>3. /\ q.op = r.op /\ q.pc = r.pc /\ q.name = r.name /\ q.sector = r.sector
      /\ q.dir = r.dir /\ q.map = r.map /\ q.hdr = r.hdr /\ q.waiting /\ ~r.waiting
  BY DEF Requested
<1>4. (e < Straddle \/ e > Straddle \/ e = Straddle) /\ ~(e < Straddle /\ e > Straddle)
      /\ (e <= Straddle <=> e < Straddle \/ e = Straddle)
  BY Numbers
<1>5. ~r.dir[e].inUse
  BY DEF Removing
<1>6. /\ Half(q) /\ e <= Straddle => ~n.dir[e].inUse
      /\ Done(q) => ~n.dir[e].inUse
      /\ n.dir[e].inUse => d.dir[e].inUse /\ n.dir[e].sector = d.dir[e].sector
  <2>1. CASE p = 1
    <3>1. ~Done(q)
      BY <1>3, <2>1 DEF Done
    <3>2. /\ e < Straddle => n.dir[e] = r.dir[e]
          /\ e > Straddle => n.dir[e] = d.dir[e]
          /\ e = Straddle => n.dir[e].inUse = r.dir[e].inUse /\ n.dir[e].sector = r.dir[e].sector
      BY <1>2, <2>1 DEF FirstPart
    <3> QED BY <1>4, <1>5, <3>1, <3>2
  <2>2. CASE p = 2
    <3>1. Half(r) /\ ~Half(q)
      BY <1>3, <2>2 DEF Half
    <3>2. e <= Straddle => ~d.dir[e].inUse
      BY <3>1 DEF Removing
    <3>3. /\ e < Straddle => n.dir[e] = d.dir[e]
          /\ e > Straddle => n.dir[e] = r.dir[e]
          /\ e = Straddle => n.dir[e].inUse = d.dir[e].inUse
      BY <1>2, <2>2 DEF SecondPart
    <3> QED BY <1>4, <1>5, <3>1, <3>2, <3>3
  <2> QED BY <2>1, <2>2
<1>7. FilesApart(n)
  <2>1. ASSUME e \in InUse(n)
        PROVE  IsFile(n, n.dir[e].sector)
                 /\ OwnedIn(n, n.dir[e].sector) \intersect UsedBut(d, e) = {}
    <3>1. e \in InUse(d) /\ n.dir[e].sector = d.dir[e].sector
      BY <1>6, <2>1 DEF InUse
    <3>2. IsFile(d, d.dir[e].sector) /\ UsedBut(d, e) \intersect OwnedIn(d, d.dir[e].sector) = {}
      BY <3>1, UsedApart DEF FilesApart
    <3> QED BY <1>2, <3>1, <3>2 DEF IsFile
  <2> QED BY <1>2, <2>1, ApartBut
<1>8. Others(n, lv, q, e)
  BY <1>1, <1>2, <1>3, OthersKept
<1>9. Removing(n, lv, q, e)
  BY <1>2, <1>3, <1>5, <1>6, <1>8 DEF Removing
<1> QED BY <1>2, <1>7, <1>9

(* A disk with another map. *)
MapSet(d, n, map) == n = [d EXCEPT !.map = map]

(* Both write the map, Create last and Remove first. *)
LEMMA MapWritten ==
    ASSUME NEW d, DiskType(d), FilesApart(d), NEW e \in DirEntries, NEW lv, NEW r,
           NEW q, Requested(d, r, q), r.pc = "writeMap", NEW n, MapSet(d, n, r.map)
    PROVE  /\ DiskType(n) /\ FilesApart(n)
           /\ Creating(d, lv, r, e) /\ r.op = "Create" => Creating(n, lv, q, e)
           /\ Removing(d, lv, r, e) /\ r.op = "Remove" => Removing(n, lv, q, e)
<1>1. n.map = r.map /\ n.dir = d.dir /\ n.sec = d.sec
      /\ n = [map |-> n.map, dir |-> n.dir, sec |-> n.sec]
  BY DEF DiskType, MapSet
<1>2. DiskType(n)
  BY <1>1 DEF DiskType
<1>3. SameBut(d, n, e) /\ InUse(n) = InUse(d) /\ \A s : OwnedIn(n, s) = OwnedIn(d, s)
  BY <1>1 DEF SameBut, InUse, OwnedIn
<1>4. FilesApart(n)
  BY <1>1, <1>3 DEF FilesApart, IsFile
<1>5. UsedBut(n, e) = UsedBut(d, e)
  BY <1>3, SameUsed
<1>6. /\ q.op = r.op /\ q.pc = r.pc /\ q.name = r.name /\ q.sector = r.sector
      /\ q.dir = r.dir /\ q.map = r.map /\ q.hdr = r.hdr /\ q.waiting /\ ~r.waiting
  BY DEF Requested
<1>7. New(q) = New(r) /\ ~Half(q) /\ (Done(q) <=> Done(r)) /\ (Begun(q) <=> Begun(r))
  BY <1>6 DEF New, Half, Done, Begun
<1>8. Others(d, lv, r, e) => Others(n, lv, q, e)
  BY <1>3, <1>6, OthersKept
<1>9. Creating(d, lv, r, e) /\ r.op = "Create" => Creating(n, lv, q, e)
  BY <1>1, <1>5, <1>6, <1>7, <1>8 DEF Creating
<1>10. Removing(d, lv, r, e) /\ r.op = "Remove" => Removing(n, lv, q, e)
  BY <1>1, <1>5, <1>6, <1>7, <1>8 DEF Removing
<1> QED BY <1>2, <1>4, <1>9, <1>10

(* n is d after a write into a file: only data has changed. *)
DataOnly(d, n, x) ==
    /\ n.map = d.map /\ n.dir = d.dir
    /\ \E c \in InUse(d) : x \in Range(d.sec[d.dir[c].sector].hdr.dataSectors)
    /\ \A s \in Sectors \ {x} : n.sec[s] = d.sec[s]
    /\ \A b \in InUse(d) : x # d.dir[b].sector /\ d.dir[b].sector \in Sectors

(* A sector of a file written over is still data, and no header has        *)
(* changed.                                                                *)
LEMMA DataWritten ==
    ASSUME NEW d, DiskType(d), FilesApart(d), NEW c \in InUse(d),
           NEW x \in Range(d.sec[d.dir[c].sector].hdr.dataSectors), x \in Sectors,
           NEW bytes, NEW n, SectorSet(d, n, x, Sector("data", NoHdr, bytes))
    PROVE  DiskType(n) /\ DataOnly(d, n, x)
<1> DEFINE v == Sector("data", NoHdr, bytes)
<1>1. v.kind = "data" /\ v.hdr \in Hdr
  BY IdleIs DEF Sector
<1> HIDE DEF v
<1>2. /\ DiskType(n) /\ n.map = d.map /\ n.dir = d.dir
      /\ \A s \in Sectors \ {x} : n.sec[s] = d.sec[s]
  BY <1>1, SectorWritten DEF v
<1>3. ASSUME NEW b \in InUse(d)
      PROVE  x # d.dir[b].sector /\ d.dir[b].sector \in Sectors
  <2>1. IsFile(d, d.dir[c].sector) /\ x \in OwnedIn(d, d.dir[c].sector)
    BY DEF FilesApart, IsFile, OwnedIn
  <2>2. CASE b = c
    BY <2>1, <2>2 DEF IsFile, DiskType, Dir, InUse
  <2>3. CASE b # c
    <3>1. d.dir[b].sector \in OwnedIn(d, d.dir[b].sector)
      BY DEF OwnedIn
    <3>2. d.dir[b].sector \in Sectors
      BY DEF DiskType, Dir, InUse
    <3> QED BY <2>1, <2>3, <3>1, <3>2 DEF FilesApart
  <2> QED BY <2>2, <2>3
<1> QED BY <1>2, <1>3 DEF DataOnly

(* The files stay apart, *)
LEMMA DataApart ==
    ASSUME NEW d, FilesApart(d), NEW n, NEW x, DataOnly(d, n, x)
    PROVE  /\ InUse(n) = InUse(d) /\ FilesApart(n) /\ Used(n) = Used(d)
           /\ \A e : UsedBut(n, e) = UsedBut(d, e)
           /\ \A b \in InUse(d) : n.sec[d.dir[b].sector] = d.sec[d.dir[b].sector]
<1>1. InUse(n) = InUse(d)
  BY DEF DataOnly, InUse
<1>2. \A b \in InUse(d) : n.sec[d.dir[b].sector] = d.sec[d.dir[b].sector] /\ n.dir[b] = d.dir[b]
  BY DEF DataOnly
<1>3. \A b \in InUse(d) : OwnedIn(n, n.dir[b].sector) = OwnedIn(d, d.dir[b].sector)
  BY <1>2 DEF OwnedIn
<1>4. \A b \in InUse(d) : IsFile(n, n.dir[b].sector)
  BY <1>2, <1>3 DEF FilesApart, IsFile
<1>5. FilesApart(n)
  BY <1>1, <1>3, <1>4 DEF FilesApart
<1>6. Used(n) = Used(d) /\ \A e : UsedBut(n, e) = UsedBut(d, e)
  BY <1>1, <1>3 DEF Used, UsedBut
<1> QED BY <1>1, <1>2, <1>5, <1>6

(* what was at rest stays so, *)
LEMMA DataAtRest ==
    ASSUME NEW d, FilesApart(d), NEW n, NEW x, DataOnly(d, n, x), NEW lv, NEW rn,
           AtRest(d, lv, rn)
    PROVE  AtRest(n, lv, rn)
<1>1. InUse(n) = InUse(d) /\ Used(n) = Used(d)
  BY DataApart
<1>2. n.map = d.map /\ n.dir = d.dir
  BY DEF DataOnly
<1> QED BY <1>1, <1>2 DEF AtRest

(* what Create and Remove have read is still what the disk holds, *)
LEMMA DataFetching ==
    ASSUME NEW d, DiskType(d), FilesApart(d), NEW n, NEW x, DataOnly(d, n, x), NEW r,
           Fetching(d, r)
    PROVE  Fetching(n, r)
<1>1. n.map = d.map /\ n.dir = d.dir
  BY DEF DataOnly
<1>2. r.op = "Remove" /\ r.pc \in {"hdr", "map"} => n.sec[r.sector] = d.sec[r.sector]
  <2>1. SUFFICES ASSUME Listed(d.dir, r.name) # {}, r.sector = FindFile(d.dir, r.name)
                 PROVE  n.sec[r.sector] = d.sec[r.sector]
    BY DEF Fetching
  <2>2. \E e \in DirEntries : d.dir[e].inUse /\ r.sector = d.dir[e].sector
    BY <2>1, FindFileIs DEF DiskType
  <2>3. \E e \in InUse(d) : r.sector = d.dir[e].sector
    BY <2>2 DEF InUse
  <2> QED BY <2>3, DataApart
<1> QED BY <1>1, <1>2 DEF Fetching

(* the other entries are the same, *)
LEMMA DataOthers ==
    ASSUME NEW d, FilesApart(d), NEW n, NEW x, DataOnly(d, n, x), NEW lv, NEW r, NEW e,
           Others(d, lv, r, e)
    PROVE  Others(n, lv, r, e)
<1>1. InUse(n) = InUse(d)
  BY DataApart
<1>2. n.dir = d.dir
  BY DEF DataOnly
<1> QED BY <1>1, <1>2 DEF Others

(* and a file that is being created stays apart. *)
LEMMA DataCreating ==
    ASSUME NEW d, FilesApart(d), NEW n, NEW x, DataOnly(d, n, x), NEW lv, NEW r, NEW e,
           Creating(d, lv, r, e), r.op = "Create", r.pc \in Flushing
    PROVE  Creating(n, lv, r, e)
<1>1. n.map = d.map /\ n.dir = d.dir /\ UsedBut(n, e) = UsedBut(d, e)
  <2>1. n.map = d.map /\ n.dir = d.dir
    BY DEF DataOnly
  <2>2. UsedBut(n, e) = UsedBut(d, e)
    BY DataApart
  <2> QED BY <2>1, <2>2
<1>2. Others(n, lv, r, e)
  BY DataOthers DEF Creating
<1>3. x # r.sector
  <2>1. PICK c \in InUse(d) : x \in Range(d.sec[d.dir[c].sector].hdr.dataSectors)
    BY DEF DataOnly
  <2>2. CASE c # e
    <3>1. x \in OwnedIn(d, d.dir[c].sector)
      BY <2>1 DEF OwnedIn, FilesApart, IsFile
    <3>2. x \in UsedBut(d, e)
      BY <2>2, <3>1, UsedOneMore
    <3> QED BY <3>2 DEF Creating, New
  <2>3. CASE c = e
    <3>1. d.dir[e].inUse
      BY <2>3 DEF InUse
    <3>2. ~Begun(r)
      BY <3>1 DEF Creating
    <3>3. Half(r) \/ Done(r)
      BY <3>2 DEF Begun, Half, Done, Flushing
    <3>4. d.dir[e].sector = r.sector
      BY <3>1, <3>3 DEF Creating
    <3>5. d.sec[r.sector].hdr = r.hdr
      BY <3>2 DEF Creating, Begun
    <3> QED BY <2>1, <2>3, <3>4, <3>5 DEF Creating
  <2> QED BY <2>2, <2>3
<1>4. n.sec[r.sector] = d.sec[r.sector]
  BY <1>3 DEF DataOnly, Creating
<1> QED BY <1>1, <1>2, <1>4 DEF Creating

(* So a write of data disturbs neither Create nor Remove. *)
LEMMA DataExact ==
    ASSUME NEW d, DiskType(d), FilesApart(d), NEW n, NEW x, DataOnly(d, n, x), NEW lv, NEW r,
           RunExact(d, lv, r)
    PROVE  RunExact(n, lv, r)
<1>1. Fetching(d, r) => Fetching(n, r)
  BY DataFetching
<1>2. ASSUME NEW e, Creating(d, lv, r, e), r.op = "Create", r.pc \in Flushing
      PROVE  Creating(n, lv, r, e)
  BY <1>2, DataCreating
<1>3. ASSUME NEW e, Removing(d, lv, r, e)
      PROVE  Removing(n, lv, r, e)
  <2>1. n.map = d.map /\ n.dir = d.dir /\ UsedBut(n, e) = UsedBut(d, e)
    BY DataApart DEF DataOnly
  <2>2. Others(n, lv, r, e)
    BY <1>3, DataOthers DEF Removing
  <2> QED BY <1>3, <2>1, <2>2 DEF Removing
<1> QED BY <1>1, <1>2, <1>3 DEF RunExact

(* What the end of a transfer makes of a run. *)
Stopped(q) == q.op = "idle" /\ q.pc = "none" /\ q.hdr = NoHdr /\ ~q.waiting
Kept(r, q) == /\ q.op = r.op /\ q.name = r.name /\ q.numBytes = r.numBytes
  /\ q.position = r.position
              /\ ~q.waiting
KeptBuffer(r, q) == q.value = r.value /\ q.buf = r.buf /\ q.raced = r.raced
Moved(r, q, p) == /\ Kept(r, q) /\ q.pc = p /\ q.sector = r.sector /\ q.i = r.i
                  /\ q.hdr = r.hdr /\ q.map = r.map /\ q.dir = r.dir /\ KeptBuffer(r, q)

(* Create has what it needs in memory. *)
Created(r, q) ==
    LET s == FindSectors(r.map, 1)[1]
        map1 == r.map \union {s}
    IN  /\ Kept(r, q) /\ q.pc = "writeHdr"
        /\ ~(Sectors \subseteq r.map) /\ FreeEntries(r.dir) # {}
        /\ ~(Cardinality(Sectors \ map1) < divRoundUp(r.numBytes, SectorSize))
        /\ q.sector = s /\ q.dir = Add(r.dir, r.name, s) /\ q.hdr = Allocate(map1, r.numBytes)
        /\ q.map = map1 \union Range(q.hdr.dataSectors)

(* Remove has changed the map and the directory in memory. *)
Removed(r, q) ==
    /\ Kept(r, q) /\ q.pc = "writeMap" /\ q.sector = r.sector /\ q.hdr = r.hdr
    /\ q.map = r.map \ ({r.sector} \union Range(r.hdr.dataSectors))
    /\ q.dir = RemoveName(r.dir, r.name)

(* A name was found. *)
Opening(r, q) ==
    /\ Kept(r, q) /\ q.pc = "hdr" /\ q.sector = FindFile(r.dir, r.name)
    /\ q.hdr = r.hdr /\ q.map = r.map /\ q.dir = r.dir

(* An operation that is over, one that goes on, and what the map brings. *)
LEMMA IdleStopped ==
    ASSUME NEW q, q = [Idle EXCEPT !.waiting = FALSE]
    PROVE  Stopped(q)
<1>1. PICK z : z = Idle
  OBVIOUS
<1>2. Fields(z) /\ q = [z EXCEPT !.waiting = FALSE]
  BY <1>1, IdleIs
<1>3. q.op = z.op /\ q.pc = z.pc /\ q.hdr = z.hdr /\ q.waiting = FALSE
  BY <1>2 DEF Fields
<1> QED BY <1>1, <1>3, IdleIs DEF Stopped

LEMMA PcMoved ==
    ASSUME NEW r, Fields(r), NEW a, NEW p, a = [r EXCEPT !.pc = p], NEW q,
           q = [a EXCEPT !.waiting = FALSE]
    PROVE  Moved(r, q, p)
<1>1. /\ Fields(a) /\ a.op = r.op /\ a.name = r.name /\ a.numBytes = r.numBytes
           /\ a.position = r.position
      /\ a.pc = p /\ a.sector = r.sector /\ a.i = r.i /\ a.hdr = r.hdr /\ a.map = r.map
      /\ a.dir = r.dir /\ a.value = r.value /\ a.buf = r.buf /\ a.raced = r.raced
  BY DEF Fields
<1>2. /\ q.op = a.op /\ q.name = a.name /\ q.numBytes = a.numBytes /\ q.position = a.position
      /\ q.pc = a.pc /\ q.sector = a.sector /\ q.i = a.i /\ q.hdr = a.hdr /\ q.map = a.map
      /\ q.dir = a.dir /\ q.waiting = FALSE /\ q.value = a.value /\ q.buf = a.buf
      /\ q.raced = a.raced
  BY <1>1 DEF Fields
<1> QED BY <1>1, <1>2 DEF Moved, Kept, KeptBuffer

(* CreateInMemory gives up or does what Created says. *)
LEMMA CreatedIs ==
    ASSUME NEW r, Fields(r), NEW a, a = CreateInMemory(r), NEW q,
           q = [a EXCEPT !.waiting = FALSE]
    PROVE  Stopped(q) \/ Created(r, q)
<1> DEFINE s0 == FindSectors(r.map, 1)[1]
           map1 == r.map \union {s0}
           hdr0 == Allocate(map1, r.numBytes)
           full == \/ Sectors \subseteq r.map \/ FreeEntries(r.dir) = {}
                   \/ Cardinality(Sectors \ map1) < divRoundUp(r.numBytes, SectorSize)
           dir0 == Add(r.dir, r.name, s0)
           map0 == map1 \union Range(hdr0.dataSectors)
<1>1. a = IF full THEN Idle
          ELSE [r EXCEPT !.sector = s0, !.dir = dir0, !.hdr = hdr0, !.map = map0, !.pc = "writeHdr"]
  BY Zenon DEF CreateInMemory
<1> HIDE DEF full, s0, map1, hdr0, dir0, map0
<1>2. CASE full
  BY <1>1, <1>2, IdleStopped
<1>3. CASE ~full
  <2>1. a = [r EXCEPT !.sector = s0, !.dir = dir0, !.hdr = hdr0, !.map = map0, !.pc = "writeHdr"]
    BY <1>1, <1>3
  <2>2. /\ Fields(a) /\ a.op = r.op /\ a.name = r.name /\ a.numBytes = r.numBytes
        /\ a.position = r.position /\ a.pc = "writeHdr" /\ a.sector = s0 /\ a.dir = dir0
        /\ a.hdr = hdr0 /\ a.map = map0
    BY <2>1 DEF Fields
  <2>3. /\ q.op = a.op /\ q.name = a.name /\ q.numBytes = a.numBytes /\ q.position = a.position
        /\ q.pc = a.pc /\ q.sector = a.sector /\ q.hdr = a.hdr /\ q.map = a.map
        /\ q.dir = a.dir /\ q.waiting = FALSE
    BY <2>2 DEF Fields
  <2>4. Kept(r, q) /\ q.pc = "writeHdr" /\ q.sector = s0 /\ q.dir = dir0 /\ q.hdr = hdr0
          /\ q.map = map0
    BY <2>2, <2>3 DEF Kept
  <2> QED BY Zenon, <1>3, <2>4 DEF Created, s0, map1, hdr0, full, dir0, map0
<1> QED BY <1>2, <1>3

(* RemoveInMemory does what Removed says. *)
LEMMA RemovedIs ==
    ASSUME NEW r, Fields(r), NEW a, a = RemoveInMemory(r), NEW q,
           q = [a EXCEPT !.waiting = FALSE]
    PROVE  Removed(r, q)
<1> DEFINE map0 == r.map \ ({r.sector} \union Range(r.hdr.dataSectors))
           dir0 == RemoveName(r.dir, r.name)
<1>1. a = [r EXCEPT !.map = map0, !.dir = dir0, !.pc = "writeMap"]
  BY DEF RemoveInMemory
<1> HIDE DEF map0, dir0
<1>2. /\ Fields(a) /\ a.op = r.op /\ a.name = r.name /\ a.numBytes = r.numBytes
      /\ a.position = r.position /\ a.pc = "writeMap" /\ a.sector = r.sector /\ a.dir = dir0
      /\ a.hdr = r.hdr /\ a.map = map0
  BY <1>1 DEF Fields
<1>3. /\ q.op = a.op /\ q.name = a.name /\ q.numBytes = a.numBytes /\ q.position = a.position
      /\ q.pc = a.pc /\ q.sector = a.sector /\ q.hdr = a.hdr /\ q.map = a.map
      /\ q.dir = a.dir /\ q.waiting = FALSE
  BY <1>2 DEF Fields
<1> QED BY <1>2, <1>3 DEF Removed, Kept, map0, dir0

(* The file that was found is fetched. *)
LEMMA OpeningIs ==
    ASSUME NEW r, Fields(r), NEW a, NEW s, a = [r EXCEPT !.sector = s, !.pc = "hdr"],
           s = FindFile(r.dir, r.name), NEW q, q = [a EXCEPT !.waiting = FALSE]
    PROVE  Opening(r, q)
<1>2. /\ Fields(a) /\ a.op = r.op /\ a.name = r.name /\ a.numBytes = r.numBytes
      /\ a.position = r.position /\ a.pc = "hdr" /\ a.sector = s /\ a.dir = r.dir
      /\ a.hdr = r.hdr /\ a.map = r.map
  BY DEF Fields
<1>3. /\ q.op = a.op /\ q.name = a.name /\ q.numBytes = a.numBytes /\ q.position = a.position
      /\ q.pc = a.pc /\ q.sector = a.sector /\ q.hdr = a.hdr /\ q.map = a.map
      /\ q.dir = a.dir /\ q.waiting = FALSE
  BY <1>2 DEF Fields
<1> QED BY <1>2, <1>3 DEF Opening, Kept

(* The end of a transfer, of a run that is somewhere. *)
Completed(r, q) == q = [After(r) EXCEPT !.waiting = FALSE]
Runs(r) == Fields(r) /\ r.op \in DOMAIN Places /\ r.pc \in Places[r.op] /\ r.op # "idle"

(* What the end of a transfer makes of a run of Create, Remove or Open. *)
LEMMA CompletedIs ==
    ASSUME NEW r, Runs(r), NEW q, Completed(r, q)
    PROVE  /\ r.pc = "dir1" => Moved(r, q, "dir2")
           /\ r.pc = "dir2" => IF FindFile(r.dir, r.name) = -1 <=> r.op # "Create" THEN Stopped(q)
                               ELSE IF r.op = "Create" THEN Moved(r, q, "map") ELSE Opening(r, q)
           /\ r.pc = "hdr" => IF r.op = "Open" THEN Stopped(q) ELSE Moved(r, q, "map")
           /\ r.pc = "map" => IF r.op = "Create" THEN Stopped(q) \/ Created(r, q) ELSE Removed(r, q)
           /\ r.pc = "writeHdr" => Moved(r, q, "rmwDir")
           /\ r.pc = "rmwDir" => Moved(r, q, "writeDir1")
           /\ r.pc = "writeDir1" => Moved(r, q, "writeDir2")
           /\ r.pc = "writeDir2" => IF r.op = "Create" THEN Moved(r, q, "writeMap") ELSE Stopped(q)
           /\ r.pc = "writeMap" => IF r.op = "Create" THEN Stopped(q) ELSE Moved(r, q, "rmwDir")
<1> DEFINE a == After(r)
<1>1. /\ r.pc = "dir1" => a = [r EXCEPT !.pc = "dir2"]
      /\ r.pc = "dir2" =>
           a = IF FindFile(r.dir, r.name) = -1 <=> r.op # "Create" THEN Idle
               ELSE IF r.op = "Create" THEN [r EXCEPT !.pc = "map"]
               ELSE [r EXCEPT !.sector = FindFile(r.dir, r.name), !.pc = "hdr"]
      /\ r.pc = "hdr" => a = IF r.op = "Open" THEN Idle ELSE [r EXCEPT !.pc = "map"]
      /\ r.pc = "map" => a = IF r.op = "Create" THEN CreateInMemory(r) ELSE RemoveInMemory(r)
      /\ r.pc = "writeHdr" => a = [r EXCEPT !.pc = "rmwDir"]
      /\ r.pc = "rmwDir" => a = [r EXCEPT !.pc = "writeDir1"]
      /\ r.pc = "writeDir1" => a = [r EXCEPT !.pc = "writeDir2"]
      /\ r.pc = "writeDir2" => a = IF r.op = "Create" THEN [r EXCEPT !.pc = "writeMap"] ELSE Idle
      /\ r.pc = "writeMap" => a = IF r.op = "Create" THEN Idle ELSE [r EXCEPT !.pc = "rmwDir"]
  BY AfterIs DEF Runs
<1>2. q = [a EXCEPT !.waiting = FALSE] /\ Fields(r)
  BY DEF Completed, Runs
<1> HIDE DEF a
<1>3. a = Idle => Stopped(q)
  BY <1>2, IdleStopped
<1>4. ASSUME NEW p, a = [r EXCEPT !.pc = p]
      PROVE  Moved(r, q, p)
  BY <1>2, <1>4, PcMoved
<1>5. a = CreateInMemory(r) => Stopped(q) \/ Created(r, q)
  BY <1>2, CreatedIs
<1>6. a = RemoveInMemory(r) => Removed(r, q)
  BY <1>2, RemovedIs
<1>7. a = [r EXCEPT !.sector = FindFile(r.dir, r.name), !.pc = "hdr"] => Opening(r, q)
  BY <1>2, OpeningIs
<1> QED BY Zenon, <1>1, <1>3, <1>4, <1>5, <1>6, <1>7

(* A file that is written or read: what remains. *)
Carried(r, q) ==
    \/ Stopped(q) /\ r.pc \in {"readData", "writeData"} /\ r.i = LastSector(r)
    \/ /\ Kept(r, q) /\ KeptBuffer(r, q) /\ q.hdr = r.hdr
       /\ \/ /\ r.pc = "rmwFirst" /\ q.i = r.i
             /\ q.pc = IF RmwLast(r) THEN "rmwLast" ELSE "writeData"
          \/ r.pc = "rmwLast" /\ q.pc = "writeData" /\ q.i = r.i
          \/ /\ r.pc \in {"readData", "writeData"} /\ q.pc = r.pc
             /\ r.i # LastSector(r) /\ q.i = r.i + 1

(* Reads and writes go on to their next sector. *)
LEMMA CarriedIs ==
    ASSUME NEW r, Runs(r), r.op \in {"Read", "Write"}, NEW q, Completed(r, q)
    PROVE  Carried(r, q)
<1> DEFINE a == After(r)
<1>1. /\ r.pc = "rmwFirst" =>
           a = IF RmwLast(r) THEN [r EXCEPT !.pc = "rmwLast"] ELSE [r EXCEPT !.pc = "writeData"]
      /\ r.pc = "rmwLast" => a = [r EXCEPT !.pc = "writeData"]
      /\ r.pc \in {"readData", "writeData"} =>
           a = IF r.i = LastSector(r) THEN Idle ELSE [r EXCEPT !.i = r.i + 1]
  BY AfterIs DEF Runs
<1>2. q = [a EXCEPT !.waiting = FALSE] /\ Fields(r)
        /\ r.pc \in {"rmwFirst", "rmwLast", "writeData", "readData"}
  BY DEF Completed, Runs, Places
<1> HIDE DEF a
<1>3. a = Idle => Stopped(q)
  BY <1>2, IdleStopped
<1>4. ASSUME NEW p, a = [r EXCEPT !.pc = p]
      PROVE  Kept(r, q) /\ KeptBuffer(r, q) /\ q.hdr = r.hdr /\ q.pc = p /\ q.i = r.i
  <2>1. Moved(r, q, p)
    BY <1>2, <1>4, PcMoved
  <2> QED BY <2>1 DEF Moved
<1>5. ASSUME NEW j, a = [r EXCEPT !.i = j]
      PROVE  Kept(r, q) /\ KeptBuffer(r, q) /\ q.hdr = r.hdr /\ q.pc = r.pc /\ q.i = j
  <2>1. /\ Fields(a) /\ a.op = r.op /\ a.name = r.name /\ a.numBytes = r.numBytes
        /\ a.position = r.position /\ a.pc = r.pc /\ a.i = j /\ a.hdr = r.hdr
        /\ a.value = r.value /\ a.buf = r.buf /\ a.raced = r.raced
    BY <1>2, <1>5 DEF Fields
  <2>2. /\ q.op = a.op /\ q.name = a.name /\ q.numBytes = a.numBytes /\ q.position = a.position
        /\ q.pc = a.pc /\ q.i = a.i /\ q.hdr = a.hdr /\ q.waiting = FALSE
        /\ q.value = a.value /\ q.buf = a.buf /\ q.raced = a.raced
    BY <1>2, <2>1 DEF Fields
  <2> QED BY <2>1, <2>2 DEF Kept, KeptBuffer
<1>7. CASE r.pc = "rmwFirst"
  BY <1>1, <1>4, <1>7 DEF Carried
<1>8. CASE r.pc = "rmwLast"
  BY <1>1, <1>4, <1>8 DEF Carried
<1>9. CASE r.pc \in {"readData", "writeData"}
  <2>1. CASE r.i = LastSector(r)
    BY <1>1, <1>3, <1>9, <2>1 DEF Carried
  <2>2. CASE r.i # LastSector(r)
    BY <1>1, <1>5, <1>9, <2>2 DEF Carried
  <2> QED BY <2>1, <2>2
<1> QED BY <1>2, <1>7, <1>8, <1>9

(* What else a run that ends leaves as it was. *)
RestKept(d, lv, r) ==
    /\ d.map = System \union Used(d)
    /\ \A e, c \in InUse(d) : e # c => d.dir[e].name # d.dir[c].name
    /\ \A e \in InUse(d) : \/ Living(lv, d.dir[e].name)
                           \/ r.op = "Remove" /\ r.name = d.dir[e].name

(* The map is exact again and all files are alive. *)
AllKept(d, lv) ==
    /\ d.map = System \union Used(d)
    /\ \A e, c \in InUse(d) : e # c => d.dir[e].name # d.dir[c].name
    /\ \A e \in InUse(d) : Living(lv, d.dir[e].name)

(* Create has allocated what no file uses. *)
LEMMA CreateBegins ==
    ASSUME NEW d, DiskType(d), FilesApart(d), NEW lv, NEW r, Fetching(d, r), RestKept(d, lv, r),
           r.op = "Create", r.pc = "map", r.waiting, r.name \in Names, r.numBytes \in Nat,
           NEW q, Created(r, q)
    PROVE  \E e \in DirEntries : Creating(d, lv, q, e)
<1>1. r.dir = d.dir /\ r.map = d.map /\ Listed(d.dir, r.name) = {} /\ d.dir \in Dir
  BY DEF Fetching, DiskType
<1> DEFINE s == FindSectors(r.map, 1)[1]
           map1 == r.map \union {s}
<1>2. /\ Kept(r, q) /\ q.pc = "writeHdr" /\ ~(Sectors \subseteq r.map) /\ FreeEntries(r.dir) # {}
      /\ ~(Cardinality(Sectors \ map1) < divRoundUp(r.numBytes, SectorSize))
      /\ q.sector = s /\ q.dir = Add(r.dir, r.name, s) /\ q.hdr = Allocate(map1, r.numBytes)
      /\ q.map = map1 \union Range(q.hdr.dataSectors)
  BY DEF Created
<1>3. s \in Sectors \ r.map
  BY <1>2, FirstFree
<1>4. WellFormed(q.hdr) /\ Range(q.hdr.dataSectors) \subseteq Sectors \ map1
  <2>1. divRoundUp(r.numBytes, SectorSize) <= Cardinality(Sectors \ map1)
    <3>1. IsFiniteSet(Sectors \ map1)
      BY Numbers, FS_Subset
    <3>2. Cardinality(Sectors \ map1) \in Nat
      BY <3>1, FS_CardinalityType
    <3>3. divRoundUp(r.numBytes, SectorSize) \in Nat
      BY Numbers
    <3> QED BY <1>2, <3>2, <3>3
  <2>2. q.hdr = Allocate(map1, r.numBytes)
    BY <1>2
  <2> HIDE DEF map1, s
  <2> QED BY <2>1, <2>2, AllocateIs
<1> HIDE DEF s
<1>5. PICK e \in DirEntries :
              /\ ~r.dir[e].inUse /\ q.dir \in Dir
              /\ q.dir[e] = [inUse |-> TRUE, sector |-> s, name |-> r.name]
              /\ \A c \in DirEntries \ {e} : q.dir[c] = r.dir[c]
  <2>1. r.dir \in Dir /\ s \in Sectors
    BY <1>1, <1>3
  <2> QED BY <1>2, <2>1, AddIs
<1>6. e \notin InUse(d) /\ InUse(d) \ {e} = InUse(d)
  BY <1>1, <1>5 DEF InUse
<1>7. Used(d) = UsedBut(d, e)
  BY <1>6, UsedOneMore
<1>8. d.map = System \union UsedBut(d, e)
  BY <1>7 DEF RestKept
<1>9. New(q) = {s} \union Range(q.hdr.dataSectors) /\ New(q) \intersect r.map = {}
      /\ q.map = r.map \union New(q)
  BY <1>2, <1>3, <1>4 DEF New
<1>10. Others(d, lv, q, e)
  <2>1. \A c \in DirEntries \ {e} : d.dir[c] = q.dir[c]
    BY <1>1, <1>5
  <2>2. \A c \in InUse(d) : d.dir[c].name # r.name
    BY <1>1 DEF Listed, InUse
  <2>3. q.name = r.name
    BY <1>2 DEF Kept
  <2> QED BY <1>5, <1>6, <2>1, <2>2, <2>3 DEF Others, RestKept
<1>11. /\ ~q.waiting /\ q.name = r.name /\ q.pc = "writeHdr" /\ ~Half(q) /\ ~Done(q)
       /\ ~d.dir[e].inUse /\ q.sector \notin Range(q.hdr.dataSectors) /\ q.sector \in Sectors
  BY <1>1, <1>2, <1>3, <1>4, <1>5 DEF Kept, Half, Done
<1>12. Creating(d, lv, q, e)
  BY <1>1, <1>2, <1>4, <1>5, <1>8, <1>9, <1>10, <1>11 DEF Creating
<1> QED BY <1>12

(* Remove gives back what the file owned, and nothing else. *)
LEMMA RemoveBegins ==
    ASSUME NEW d, DiskType(d), FilesApart(d), NEW lv, NEW r, Fetching(d, r), RestKept(d, lv, r),
           r.op = "Remove", r.pc = "map", r.waiting,
           NEW q, Removed(r, q)
    PROVE  (\E e \in DirEntries : Removing(d, lv, q, e)) /\ ~Unmarked(r)
<1>1. /\ r.dir = d.dir /\ r.map = d.map /\ Listed(d.dir, r.name) # {}
           /\ r.sector = FindFile(d.dir, r.name)
      /\ r.hdr = d.sec[r.sector].hdr /\ d.dir \in Dir
  BY DEF Fetching, DiskType
<1>2. PICK e \in DirEntries : /\ e = Min(Listed(d.dir, r.name)) /\ d.dir[e].inUse
                                   /\ d.dir[e].name = r.name
                              /\ r.sector = d.dir[e].sector
  BY <1>1, FindFileIs
<1>3. e \in InUse(d)
  BY <1>2 DEF InUse
<1>4. OwnedIn(d, r.sector) = {r.sector} \union Range(r.hdr.dataSectors)
  BY <1>1, <1>2, <1>3 DEF OwnedIn, FilesApart, IsFile
<1>5. d.map = System \union UsedBut(d, e) \union OwnedIn(d, r.sector)
  BY <1>2, <1>3, UsedOneMore DEF RestKept
<1>6. OwnedIn(d, r.sector) \intersect (System \union UsedBut(d, e)) = {}
  BY ZenonT(60), <1>2, <1>3, UsedApart DEF FilesApart, IsFile
<1>7. /\ Kept(r, q) /\ q.pc = "writeMap" /\ q.map = r.map \ OwnedIn(d, r.sector)
      /\ q.dir = RemoveName(d.dir, r.name)
  BY <1>1, <1>4 DEF Removed
<1>8. q.map = System \union UsedBut(d, e)
  BY <1>1, <1>5, <1>6, <1>7
<1>9. q.dir \in Dir /\ ~q.dir[e].inUse /\ \A c \in DirEntries \ {e} : q.dir[c] = d.dir[c]
  BY <1>1, <1>2, <1>7, RemoveNameIs
<1>10. Others(d, lv, q, e)
  <2>1. q.name = r.name
    BY <1>7 DEF Kept
  <2>2. \A c \in InUse(d) \ {e} : d.dir[c].name # r.name
    BY <1>2, <1>3 DEF RestKept
  <2>3. \A c \in InUse(d) \ {e} : Living(lv, d.dir[c].name)
    BY <2>2 DEF RestKept
  <2> QED BY <1>9, <2>1, <2>2, <2>3 DEF Others, RestKept
<1>11. ~q.waiting /\ ~Half(q) /\ ~Done(q)
  BY <1>7 DEF Kept, Half, Done
<1>12. Removing(d, lv, q, e)
  BY <1>7, <1>8, <1>9, <1>10, <1>11 DEF Removing
<1>13. ~Unmarked(r)
  BY <1>1, <1>4, <1>5 DEF Unmarked
<1> QED BY <1>12, <1>13

(* The next write of Create and of Remove. *)
LEMMA CreateMoves ==
    ASSUME NEW d, NEW lv, NEW e, NEW r, Creating(d, lv, r, e), r.op = "Create", r.waiting,
           NEW p, NEW q, Moved(r, q, p),
           \/ r.pc = "writeHdr" /\ p = "rmwDir"
           \/ r.pc = "rmwDir" /\ p = "writeDir1"
           \/ r.pc = "writeDir1" /\ p = "writeDir2"
           \/ r.pc = "writeDir2" /\ p = "writeMap"
    PROVE  Creating(d, lv, q, e)
<1>1. /\ q.op = r.op /\ q.name = r.name /\ ~q.waiting /\ q.pc = p /\ q.sector = r.sector
      /\ q.hdr = r.hdr /\ q.map = r.map /\ q.dir = r.dir
  BY DEF Moved, Kept
<1>2. New(q) = New(r)
  BY <1>1 DEF New
<1>3. Others(d, lv, q, e)
  BY <1>1 DEF Creating, Others
<1>4. /\ Begun(q) => Begun(r)
      /\ Half(q) => Half(r)
      /\ Done(q) => Done(r)
      /\ r.pc # "writeMap"
  BY <1>1 DEF Begun, Half, Done
<1> QED BY <1>1, <1>2, <1>3, <1>4 DEF Creating

(* Remove goes on from one write to the next. *)
LEMMA RemoveMoves ==
    ASSUME NEW d, NEW lv, NEW e, NEW r, Removing(d, lv, r, e), r.op = "Remove", r.waiting,
           NEW p, NEW q, Moved(r, q, p),
           \/ r.pc = "writeMap" /\ p = "rmwDir"
           \/ r.pc = "rmwDir" /\ p = "writeDir1"
           \/ r.pc = "writeDir1" /\ p = "writeDir2"
    PROVE  Removing(d, lv, q, e)
<1>1. /\ q.op = r.op /\ q.name = r.name /\ ~q.waiting /\ q.pc = p /\ q.sector = r.sector
      /\ q.hdr = r.hdr /\ q.map = r.map /\ q.dir = r.dir
  BY DEF Moved, Kept
<1>3. Others(d, lv, q, e)
  BY <1>1 DEF Removing, Others
<1>4. /\ Half(q) => Half(r)
      /\ ~Done(q)
  BY <1>1 DEF Half, Done
<1> QED BY <1>1, <1>3, <1>4 DEF Removing

(* At their ends the directory and the map are as they say. *)
LEMMA CreateEnds ==
    ASSUME NEW d, NEW lv, lv \in [Names -> BOOLEAN], NEW e \in DirEntries, NEW r,
           Creating(d, lv, r, e),
           r.op = "Create", r.pc = "writeMap", r.waiting, r.name \in Names
    PROVE  AllKept(d, [lv EXCEPT ![r.name] = TRUE])
<1> DEFINE lv2 == [lv EXCEPT ![r.name] = TRUE]
<1>1. Done(r) /\ d.dir[e] = r.dir[e]
        /\ r.dir[e] = [inUse |-> TRUE, sector |-> r.sector, name |-> r.name]
  BY DEF Creating, Done
<1>2. e \in InUse(d) /\ d.dir[e].sector = r.sector /\ d.dir[e].name = r.name
  BY <1>1 DEF InUse
<1>3. d.map = (System \union UsedBut(d, e)) \union New(r)
  BY DEF Creating
<1>4. OwnedIn(d, d.dir[e].sector) = New(r)
  BY <1>2 DEF Creating, OwnedIn, New
<1>5. d.map = System \union Used(d)
  BY <1>2, <1>3, <1>4, UsedOneMore
<1>6. Others(d, lv, r, e)
  BY DEF Creating
<1>7. \A b, c \in InUse(d) : b # c => d.dir[b].name # d.dir[c].name
  BY <1>2, <1>6 DEF Others
<1>8. \A n : Living(lv, n) \/ n = r.name => Living(lv2, n)
  BY DEF Living
<1>9. \A c \in InUse(d) : Living(lv2, d.dir[c].name)
  BY <1>2, <1>6, <1>8 DEF Others
<1> QED BY <1>5, <1>7, <1>9 DEF AllKept

(* The last write of Remove leaves the disk at rest. *)
LEMMA RemoveEnds ==
    ASSUME NEW d, NEW lv, NEW e \in DirEntries, NEW r, Removing(d, lv, r, e),
           r.op = "Remove", r.pc = "writeDir2", r.waiting
    PROVE  AllKept(d, lv)
<1>1. Done(r) /\ ~d.dir[e].inUse /\ d.map = r.map /\ Others(d, lv, r, e)
      /\ r.map = System \union UsedBut(d, e)
  BY DEF Removing, Done
<1>2. e \notin InUse(d) /\ InUse(d) \ {e} = InUse(d)
  BY <1>1 DEF InUse
<1>3. Used(d) = UsedBut(d, e)
  BY <1>2, UsedOneMore
<1> QED BY <1>1, <1>2, <1>3 DEF AllKept, Others

(* The whole of what the end of a transfer of Create or Remove does. *)
Ended(d, lv, lv2, r, q) ==
    \/ Stopped(q) /\ AllKept(d, lv2)
    \/ /\ lv2 = lv /\ q.op = r.op /\ q.name = r.name /\ RunExact(d, lv, q)
       /\ q.pc \notin Flushing => r.pc \notin Flushing

(* An operation that ends before it changes anything. *)
LEMMA EarlyEnded ==
    ASSUME NEW d, DiskType(d), FilesApart(d), NEW lv, NEW r, Runs(r), r.op \in Modifiers,
           r.waiting,
           RunExact(d, lv, r), r.pc \in {"dir1", "dir2", "hdr"}, RestKept(d, lv, r), NEW q,
           Completed(r, q)
    PROVE  Ended(d, lv, lv, r, q)
<1>1. Fetching(d, r) /\ r.op \in {"Create", "Remove"}
  BY DEF RunExact, Flushing, Modifiers
<1>2. r.pc = "dir2" => r.dir = d.dir
  BY <1>1 DEF Fetching
<1>3. FindFile(d.dir, r.name) = -1 <=> Listed(d.dir, r.name) = {}
  BY FindFileIs DEF DiskType
<1>4. CASE r.pc = "dir2" /\ (FindFile(r.dir, r.name) = -1 <=> r.op # "Create")
  <2>1. Stopped(q)
    BY <1>4, CompletedIs
  <2>2. r.op = "Remove" => \A e \in InUse(d) : d.dir[e].name # r.name
    BY <1>2, <1>3, <1>4 DEF Listed, InUse
  <2>3. AllKept(d, lv)
    BY <2>2 DEF RestKept, AllKept
  <2> QED BY <2>1, <2>3 DEF Ended
<1>5. ASSUME Kept(r, q), q.pc \in {"dir2", "hdr", "map"}, Fetching(d, q)
      PROVE  Ended(d, lv, lv, r, q)
  BY <1>5 DEF Ended, RunExact, Kept, Flushing
<1>6. CASE r.pc = "dir1"
  <2>1. Moved(r, q, "dir2")
    BY <1>6, CompletedIs
  <2>2. Fetching(d, q)
    BY <1>1, <1>6, <2>1 DEF Fetching, Moved, Kept
  <2> QED BY <1>5, <2>1, <2>2 DEF Moved
<1>7. CASE r.pc = "hdr"
  <2>1. Moved(r, q, "map") /\ r.op = "Remove"
    BY <1>1, <1>7, CompletedIs DEF Runs, Places
  <2>2. Fetching(d, q)
    BY <1>1, <1>7, <2>1 DEF Fetching, Moved, Kept
  <2> QED BY <1>5, <2>1, <2>2 DEF Moved
<1>8. CASE r.pc = "dir2" /\ ~(FindFile(r.dir, r.name) = -1 <=> r.op # "Create")
  <2>1. CASE r.op = "Create"
    <3>1. Moved(r, q, "map")
      BY <1>8, <2>1, CompletedIs
    <3>2. Listed(d.dir, r.name) = {}
      BY <1>2, <1>3, <1>8, <2>1
    <3>3. Fetching(d, q)
      BY <1>2, <1>8, <2>1, <3>1, <3>2 DEF Fetching, Moved, Kept
    <3> QED BY <1>5, <3>1, <3>3 DEF Moved
  <2>2. CASE r.op # "Create"
    <3>1. Opening(r, q)
      BY <1>8, <2>2, CompletedIs
    <3>2. Listed(d.dir, r.name) # {}
      BY <1>2, <1>3, <1>8, <2>2
    <3>3. Fetching(d, q)
      BY <1>1, <1>2, <1>8, <2>2, <3>1, <3>2 DEF Fetching, Opening, Kept
    <3> QED BY <1>5, <3>1, <3>3 DEF Opening
  <2> QED BY <2>1, <2>2
<1> QED BY <1>4, <1>6, <1>7, <1>8

(* Once it has the map, Create or Remove has an entry in hand. *)
LEMMA MapEnded ==
    ASSUME NEW d, DiskType(d), FilesApart(d), NEW lv, NEW r, Runs(r), r.op \in Modifiers,
           r.waiting,
           RunExact(d, lv, r), r.pc = "map", RestKept(d, lv, r), NEW q, Completed(r, q),
           r.name \in Names, r.op = "Create" => r.numBytes \in Nat
    PROVE  Ended(d, lv, lv, r, q) /\ ~Unmarked(r)
<1>1. Fetching(d, r) /\ r.op \in {"Create", "Remove"}
  BY DEF RunExact, Flushing, Modifiers
<1>2. CASE r.op = "Create"
  <2>1. Stopped(q) \/ Created(r, q)
    BY <1>2, CompletedIs
  <2>2. ~Unmarked(r)
    BY <1>2 DEF Unmarked
  <2>3. CASE Stopped(q)
    BY <1>2, <2>2, <2>3 DEF Ended, RestKept, AllKept
  <2>4. CASE Created(r, q)
    <3>1. \E e \in DirEntries : Creating(d, lv, q, e)
      BY <1>1, <1>2, <2>4, CreateBegins
    <3>2. q.op = "Create" /\ q.name = r.name /\ q.pc = "writeHdr"
      BY <1>2, <2>4 DEF Created, Kept
    <3> QED BY <1>2, <2>2, <3>1, <3>2 DEF Ended, RunExact, Flushing
  <2> QED BY <2>1, <2>3, <2>4
<1>3. CASE r.op = "Remove"
  <2>1. Removed(r, q)
    BY <1>3, CompletedIs
  <2>2. (\E e \in DirEntries : Removing(d, lv, q, e)) /\ ~Unmarked(r)
    BY <1>1, <1>3, <2>1, RemoveBegins
  <2>3. q.op = "Remove" /\ q.name = r.name /\ q.pc = "writeMap"
    BY <1>3, <2>1 DEF Removed, Kept
  <2> QED BY <1>3, <2>2, <2>3 DEF Ended, RunExact, Flushing
<1> QED BY <1>1, <1>2, <1>3

(* The end of each write. *)
LEMMA FlushEnded ==
    ASSUME NEW d, NEW lv, lv \in [Names -> BOOLEAN], NEW r, Runs(r), r.op \in Modifiers,
           r.waiting,
           RunExact(d, lv, r), r.pc \in Flushing, NEW q, Completed(r, q), r.name \in Names,
           NEW lv2,
           lv2 = IF r.op = "Create" /\ r.pc = "writeMap" THEN [lv EXCEPT ![r.name] = TRUE] ELSE lv
    PROVE  Ended(d, lv, lv2, r, q)
<1>1. r.op \in {"Create", "Remove"}
  BY DEF Modifiers
<1>2. CASE r.op = "Create"
  <2>1. PICK e \in DirEntries : Creating(d, lv, r, e)
    BY <1>2 DEF RunExact
  <2>2. CASE r.pc = "writeMap"
    BY <1>2, <2>1, <2>2, CompletedIs, CreateEnds DEF Ended
  <2>3. CASE r.pc # "writeMap"
    <3>1. \E p \in Flushing :
             /\ Moved(r, q, p)
             /\ \/ r.pc = "writeHdr" /\ p = "rmwDir"
                \/ r.pc = "rmwDir" /\ p = "writeDir1"
                \/ r.pc = "writeDir1" /\ p = "writeDir2"
                \/ r.pc = "writeDir2" /\ p = "writeMap"
      BY <1>2, <2>3, CompletedIs DEF Flushing
    <3>2. Creating(d, lv, q, e)
      BY <1>2, <2>1, <3>1, CreateMoves
    <3> QED BY <1>2, <2>3, <3>1, <3>2 DEF Ended, RunExact, Moved, Kept
  <2> QED BY <2>2, <2>3
<1>3. CASE r.op = "Remove"
  <2>1. PICK e \in DirEntries : Removing(d, lv, r, e)
    BY <1>3 DEF RunExact
  <2>2. CASE r.pc = "writeDir2"
    BY <1>3, <2>1, <2>2, CompletedIs, RemoveEnds DEF Ended
  <2>3. CASE r.pc # "writeDir2"
    <3>1. \E p \in Flushing :
             /\ Moved(r, q, p)
             /\ \/ r.pc = "writeMap" /\ p = "rmwDir"
                \/ r.pc = "rmwDir" /\ p = "writeDir1"
                \/ r.pc = "writeDir1" /\ p = "writeDir2"
      <4>1. r.pc # "writeHdr"
        BY <1>3 DEF Runs, Places
      <4> QED BY <1>3, <2>3, <4>1, CompletedIs DEF Flushing
    <3>2. Removing(d, lv, q, e)
      BY <1>3, <2>1, <3>1, RemoveMoves
    <3> QED BY <1>3, <2>3, <3>1, <3>2 DEF Ended, RunExact, Moved, Kept
  <2> QED BY <2>2, <2>3
<1> QED BY <1>1, <1>2, <1>3

(* Quotients grow with what is divided. *)
LEMMA QuotientsGrow ==
    ASSUME NEW b \in Nat \ {0}, NEW x \in Nat, NEW y \in Nat, x <= y
    PROVE  x \div b <= y \div b
<1> DEFINE p == x \div b
           q == y \div b
           rx == x % b
           ry == y % b
<1>1. /\ p \in Nat /\ q \in Nat /\ rx \in 0 .. b - 1 /\ ry \in 0 .. b - 1
      /\ x = (b * p) + rx /\ y = (b * q) + ry
  BY Divided, Division
<1> HIDE DEF p, q, rx, ry
<1>2. SUFFICES ASSUME q + 1 <= p PROVE FALSE
  BY <1>1 DEF p, q
<1>3. b * (q + 1) <= b * p /\ b * (q + 1) = (b * q) + b /\ b * p \in Nat /\ b * q \in Nat
  BY <1>1, <1>2, Product
<1> DEFINE P == b * p
           Q == b * q
<1>4. P \in Nat /\ Q \in Nat /\ Q + b <= P /\ x = P + rx /\ y = Q + ry
  BY <1>1, <1>3
<1> HIDE DEF P, Q
<1> QED BY <1>1, <1>4

(* Requests are clipped to what the file holds. *)
LEMMA TransferTyped ==
    ASSUME NEW t \in Threads, NEW op \in {"Read", "Write"}, NEW request \in Nat \X (Nat \ {0}),
           NEW r,
           TransferBegins(t, op, request, r), NEW s, Typed(s, file[t])
    PROVE  /\ Typed(r, file[t]) /\ file[t].sector \in Sectors
           /\ r.position \in Nat /\ r.numBytes \in Nat \ {0}
           /\ r.position + r.numBytes <= file[t].hdr.numBytes
           /\ r.i \in FirstSector(r) .. LastSector(r)
<1> DEFINE pos == request[1]
           num == request[2]
           len == file[t].hdr.numBytes
<1>1. /\ r.op = op /\ r.pc \in Places[op] /\ ~r.waiting /\ r.position = pos /\ r.hdr = NoHdr
      /\ r.numBytes = Clipped(t, num, pos) /\ r.i = FirstSector(r)
      /\ file[t] # NotOpen /\ pos < len
  BY DEF TransferBegins, FileLength
<1>2. file[t].sector \in Sectors /\ len \in Nat /\ pos \in Nat /\ num \in Nat \ {0}
  BY <1>1 DEF Typed, Hdr
<1>3. r.numBytes = IF pos + num > len THEN len - pos ELSE num
  BY <1>1 DEF Clipped, FileLength
<1> HIDE DEF pos, num, len
<1>4. r.numBytes \in Nat \ {0} /\ pos + r.numBytes <= len /\ r.position \in Nat
  BY <1>1, <1>2, <1>3
<1>5. r.i \in FirstSector(r) .. LastSector(r)
  <2> DEFINE last == r.position + r.numBytes - 1
  <2>1. last \in Nat /\ r.position <= last /\ SectorSize \in Nat \ {0}
    BY <1>4, DiskAssumption
  <2> HIDE DEF last
  <2>2. FirstSector(r) = r.position \div SectorSize /\ LastSector(r) = last \div SectorSize
    BY DEF FirstSector, LastSector, last
  <2>3. /\ r.position \div SectorSize \in Nat /\ last \div SectorSize \in Nat
        /\ r.position \div SectorSize <= last \div SectorSize
    BY <1>4, <2>1, Divided, QuotientsGrow
  <2> QED BY <1>1, <2>2, <2>3
<1>6. r.pc \notin {"dir1", "dir2", "hdr"} /\ r.op \notin {"Create", "Remove", "Open"}
  BY <1>1 DEF Places
<1>7. r.position + r.numBytes <= FileLength(file[t].hdr)
  BY <1>1, <1>4 DEF FileLength, len
<1>8. /\ file[t] = [name |-> file[t].name, sector |-> file[t].sector, hdr |-> file[t].hdr]
      /\ file[t].hdr \in Hdr
  BY DEF Typed
<1>9. r.hdr \in Hdr /\ r.pc # "dir1" /\ r.pc # "dir2" /\ r.pc # "hdr" /\ r.op # "Create"
  BY <1>1, <1>6, IdleIs
<1>10. Typed(r, file[t])
  BY <1>2, <1>4, <1>5, <1>6, <1>7, <1>8, <1>9 DEF Typed
<1> QED BY <1>2, <1>4, <1>5, <1>7, <1>10 DEF FileLength

(* Create, Remove and Open begin with a name and a size. *)
LEMMA CommandTyped ==
    ASSUME NEW t \in Threads, NEW n \in Names, NEW r, CommandBegins(t, n, r), NEW s,
           Typed(s, file[t])
    PROVE  Typed(r, file[t])
<1>1. /\ r.op \in {"Create", "Remove", "Open"} /\ r.pc = "dir1" /\ r.waiting = FALSE /\ r.name = n
      /\ r.hdr = NoHdr
      /\ r.op = "Create" => r.numBytes \in Sizes
  BY DEF CommandBegins
<1> QED BY <1>1, FileSizesAssumption, IdleIs DEF Typed

(* Only Create and Remove have something to be exact about. *)
LEMMA NotModifier ==
    ASSUME NEW r, r.op \notin Modifiers, NEW d, NEW lv
    PROVE  RunExact(d, lv, r)
  BY DEF RunExact, Modifiers

(* A thread starts an operation. *)
LEMMA BeginKeeps ==
    ASSUME FileSysSound, NEW t \in Threads, NEW r, Fields(r), Begin(t, r), Quiet',
           r.waiting = FALSE, r.pc \notin Flushing, r.op # "idle", Typed(r, file[t]),
           r.op \in Modifiers => r.pc = "dir1", r.op = "Remove" => r.name \in Names,
           live' = IF r.op = "Remove" THEN [live EXCEPT ![r.name] = FALSE] ELSE live
    PROVE  FilesExact'
<1>1. /\ run[t].op = "idle" /\ simulator = "running"
      /\ run' = [u \in Threads |-> run'[u]]
      /\ Alike(run'[t], r)
      /\ \A u \in Threads \ {t} : Alike(run'[u], run[u])
      /\ UNCHANGED <<disk, synchDisk, file, simulator>>
      /\ flags'.wild = flags.wild /\ flags'.crashes = flags.crashes
      /\ ~flags'.overlapped =>
           /\ ~flags.overlapped
           /\ r.op \in Modifiers => \A u \in Threads : run[u].op \notin Modifiers
  BY BeginIs DEF FileSysSound, DiskServed
<1>2. Quiet /\ (r.op \in Modifiers => \A u \in Threads : run[u].op \notin Modifiers)
  BY <1>1 DEF Quiet, Calm
<1>3. FilesExact /\ RunType
  BY <1>2 DEF FileSysSound, DiskServed
<1>4. ASSUME NEW u \in Threads PROVE Typed(run'[u], file'[u])
  <2>1. CASE u = t
    BY <1>1, <2>1, AlikeTyped
  <2>2. CASE u # t
    <3>1. Typed(run[u], file[u])
      BY <1>3 DEF FilesExact
    <3> QED BY <1>1, <2>2, <3>1, AlikeTyped
  <2> QED BY <2>1, <2>2
<1>5. /\ run'[t].op = r.op /\ run'[t].pc = r.pc /\ run'[t].name = r.name
           /\ run'[t].waiting = r.waiting
      /\ \A u \in Threads \ {t} : run'[u].op = run[u].op /\ run'[u].pc = run[u].pc
           /\ run'[u].name = run[u].name
  BY <1>1 DEF Alike
<1>6. ASSUME NEW u \in Threads PROVE RunExact(disk', live', run'[u])
  <2>1. CASE u = t /\ r.op \in Modifiers
    <3>1. r.pc = "dir1" /\ Fetching(disk', run'[t])
      BY <1>5, <2>1 DEF Fetching
    <3> QED BY <1>5, <2>1, <3>1 DEF RunExact, Flushing
  <2>2. CASE run'[u].op \notin Modifiers
    BY <2>2, NotModifier
  <2>3. CASE u # t /\ run'[u].op \in Modifiers
    <3>1. run[u].op \in Modifiers /\ r.op \notin Modifiers
      BY <1>2, <1>5, <2>3
    <3>2. live' = live /\ disk' = disk
      BY <1>1, <3>1 DEF Modifiers
    <3>3. RunExact(disk, live, run[u]) /\ Alike(run'[u], run[u])
      BY <1>1, <1>3, <2>3 DEF FilesExact
    <3> QED BY <3>2, <3>3, AlikeExact
  <2> QED BY <1>5, <2>1, <2>2, <2>3
<1>7. OneModifier(run')
  BY ZenonT(60), <1>2, <1>3, <1>5 DEF OneModifier, FilesExact
<1>8. live' \in [Names -> BOOLEAN]
  BY <1>3 DEF FilesExact
<1>9. Settled(disk', live', run')
  <2>1. SUFFICES ASSUME \A u \in Threads : run'[u].pc \notin Flushing
                 PROVE  AtRest(disk, live', run')
    BY <1>1 DEF Settled
  <2>2. run[t].pc \notin Flushing
    BY <1>1, <1>3 DEF RunType, Places, Flushing
  <2>3. AtRest(disk, live, run)
    BY <1>3, <1>5, <2>1, <2>2 DEF FilesExact, Settled
  <2>4. ASSUME NEW e \in InUse(disk)
        PROVE  \/ Living(live', disk.dir[e].name)
               \/ \E u \in Threads : run'[u].op = "Remove" /\ run'[u].name = disk.dir[e].name
    <3>1. CASE Living(live, disk.dir[e].name)
      <4>1. CASE r.op = "Remove" /\ r.name = disk.dir[e].name
        BY <1>5, <4>1
      <4>2. CASE ~(r.op = "Remove" /\ r.name = disk.dir[e].name)
        BY <1>3, <3>1, <4>2 DEF Living, FilesExact
      <4> QED BY <4>1, <4>2
    <3>2. CASE \E u \in Threads : run[u].op = "Remove" /\ run[u].name = disk.dir[e].name
      BY <1>1, <1>5, <3>2
    <3> QED BY <2>3, <3>1, <3>2 DEF AtRest
  <2> QED BY <2>3, <2>4 DEF AtRest
<1> QED BY <1>1, <1>3, <1>4, <1>6, <1>7, <1>8, <1>9 DEF FilesExact

(* What each request writes to the disk. *)
LEMMA WrittenIs ==
    ASSUME NEW t, NEW r, r = run[t]
    PROVE  /\ r.pc = "writeHdr"
                => SectorSet(disk, WrittenTo(t), r.sector, Sector("hdr", r.hdr, Blank))
           /\ r.pc = "writeDir1" => DirSet(disk, WrittenTo(t), 1, r.dir)
           /\ r.pc = "writeDir2" => DirSet(disk, WrittenTo(t), 2, r.dir)
           /\ r.pc = "writeMap" => MapSet(disk, WrittenTo(t), r.map)
           /\ r.pc = "writeData" =>
                SectorSet(disk, WrittenTo(t), ByteToSector(file[t].hdr, r.i * SectorSize),
                          Sector("data", NoHdr, Changed(r, r.i)))
           /\ r.pc \notin {"writeHdr", "writeDir1", "writeDir2", "writeMap", "writeData"} =>
                WrittenTo(t) = disk
<1>1. r.pc = "writeHdr" => SectorSet(disk, WrittenTo(t), r.sector, Sector("hdr", r.hdr, Blank))
  BY DEF WrittenTo, SectorSet
<1>2. r.pc = "writeDir1" => DirSet(disk, WrittenTo(t), 1, r.dir)
  BY DEF WrittenTo, DirSet
<1>3. r.pc = "writeDir2" => DirSet(disk, WrittenTo(t), 2, r.dir)
  BY DEF WrittenTo, DirSet
<1>4. r.pc = "writeMap" => MapSet(disk, WrittenTo(t), r.map)
  BY DEF WrittenTo, MapSet, WriteBackMap
<1>5. r.pc = "writeData" =>
                SectorSet(disk, WrittenTo(t), ByteToSector(file[t].hdr, r.i * SectorSize),
                          Sector("data", NoHdr, Changed(r, r.i)))
  BY DEF WrittenTo, SectorSet
<1>6. r.pc \notin {"writeHdr", "writeDir1", "writeDir2", "writeMap", "writeData"} =>
                WrittenTo(t) = disk
  BY DEF WrittenTo
<1> QED BY <1>1, <1>2, <1>3, <1>4, <1>5, <1>6

(* The transfer that is neither read nor written here: the rest of the     *)
(* directory's second sector is read before it is written.                 *)
LEMMA RmwRequested ==
    ASSUME NEW d, NEW e, NEW lv, NEW r, NEW q, Requested(d, r, q), r.pc = "rmwDir"
    PROVE  /\ Creating(d, lv, r, e) => Creating(d, lv, q, e)
           /\ Removing(d, lv, r, e) => Removing(d, lv, q, e)
<1>1. /\ q.op = r.op /\ q.pc = r.pc /\ q.name = r.name /\ q.sector = r.sector
      /\ q.dir = r.dir /\ q.map = r.map /\ q.hdr = r.hdr
  BY DEF Requested
<1>2. New(q) = New(r) /\ ~Half(q) /\ ~Done(q) /\ Begun(r)
  BY <1>1 DEF New, Half, Done, Begun
<1>3. Others(d, lv, r, e) => Others(d, lv, q, e)
  BY <1>1 DEF Others
<1>4. Creating(d, lv, r, e) => Creating(d, lv, q, e)
  BY <1>1, <1>2, <1>3 DEF Creating
<1>5. Removing(d, lv, r, e) => Removing(d, lv, q, e)
  BY <1>1, <1>2, <1>3 DEF Removing
<1> QED BY <1>4, <1>5

(* One of the writes of Create or Remove. *)
LEMMA FlushRequested ==
    ASSUME NEW d, DiskType(d), FilesApart(d), NEW lv, NEW r, Runs(r), r.pc \in Flushing,
           RunExact(d, lv, r),
           NEW q, Requested(d, r, q), NEW n,
           r.pc = "writeHdr" => SectorSet(d, n, r.sector, Sector("hdr", r.hdr, Blank)),
           r.pc = "writeDir1" => DirSet(d, n, 1, r.dir),
           r.pc = "writeDir2" => DirSet(d, n, 2, r.dir),
           r.pc = "writeMap" => MapSet(d, n, r.map),
           r.pc = "rmwDir" => n = d
    PROVE  DiskType(n) /\ FilesApart(n) /\ RunExact(n, lv, q)
<1>1. q.op = r.op /\ q.pc = r.pc /\ r.op \in {"Create", "Remove"}
  BY DEF Requested, Runs, Places, Flushing
<1>2. CASE r.op = "Create"
  <2>1. PICK e \in DirEntries : Creating(d, lv, r, e)
    BY <1>2 DEF RunExact
  <2>2. DiskType(n) /\ FilesApart(n) /\ Creating(n, lv, q, e)
    <3>1. CASE r.pc = "writeHdr"
      BY <2>1, <3>1, HeaderWritten
    <3>2. CASE r.pc = "writeDir1"
      BY <2>1, <3>2, EntryAdded
    <3>3. CASE r.pc = "writeDir2"
      BY <2>1, <3>3, EntryAdded
    <3>4. CASE r.pc = "writeMap"
      BY <1>2, <2>1, <3>4, MapWritten
    <3>5. CASE r.pc = "rmwDir"
      BY <2>1, <3>5, RmwRequested
    <3> QED BY <3>1, <3>2, <3>3, <3>4, <3>5 DEF Flushing
  <2> QED BY <1>1, <1>2, <2>2 DEF RunExact
<1>3. CASE r.op = "Remove"
  <2>1. PICK e \in DirEntries : Removing(d, lv, r, e)
    BY <1>3 DEF RunExact
  <2>2. DiskType(n) /\ FilesApart(n) /\ Removing(n, lv, q, e)
    <3>1. r.pc # "writeHdr"
      BY <1>3 DEF Runs, Places
    <3>2. CASE r.pc = "writeDir1"
      BY <2>1, <3>2, EntryCleared
    <3>3. CASE r.pc = "writeDir2"
      BY <2>1, <3>3, EntryCleared
    <3>4. CASE r.pc = "writeMap"
      BY <1>3, <2>1, <3>4, MapWritten
    <3>5. CASE r.pc = "rmwDir"
      BY <2>1, <3>5, RmwRequested
    <3> QED BY <3>1, <3>2, <3>3, <3>4, <3>5 DEF Flushing
  <2> QED BY <1>1, <1>3, <2>2 DEF RunExact
<1> QED BY <1>1, <1>2, <1>3

(* A write into a file that is still the one in the directory. *)
LEMMA DataRequested ==
    ASSUME FilesExact, NEW t \in Threads, UpToDate(t), run[t].op = "Write",
           NEW n, NEW bytes,
           SectorSet(disk, n, ByteToSector(file[t].hdr, run[t].i * SectorSize),
                     Sector("data", NoHdr, bytes))
    PROVE  DiskType(n) /\ DataOnly(disk, n, ByteToSector(file[t].hdr, run[t].i * SectorSize))
<1> DEFINE h == file[t]
           x == ByteToSector(h.hdr, run[t].i * SectorSize)
<1>1. /\ FindFile(disk.dir, h.name) = h.sector
      /\ disk.sec[h.sector].hdr = h.hdr /\ disk.dir \in Dir /\ FilesApart(disk)
      /\ DiskType(disk)
  BY DEF UpToDate, FilesExact, DiskType
<1>2. /\ h.sector \in Sectors
      /\ run[t].position \in Nat /\ run[t].numBytes \in Nat \ {0}
      /\ run[t].position + run[t].numBytes <= h.hdr.numBytes
      /\ run[t].i \in FirstSector(run[t]) .. LastSector(run[t])
  BY DEF FilesExact, Typed, FileLength
<1> HIDE DEF h
<1>3. Listed(disk.dir, h.name) # {}
  BY <1>1, <1>2, FindFileIs, Numbers
<1>4. PICK c \in DirEntries : disk.dir[c].inUse /\ h.sector = disk.dir[c].sector
  BY <1>1, <1>3, FindFileIs
<1>5. c \in InUse(disk)
  BY <1>4 DEF InUse
<1>6. WellFormed(h.hdr)
  BY <1>1, <1>4, <1>5 DEF FilesApart, IsFile
<1>7. x \in Range(h.hdr.dataSectors)
  <2>1. run[t].i \in (run[t].position \div SectorSize)
          .. ((run[t].position + run[t].numBytes - 1) \div SectorSize)
    BY <1>2 DEF FirstSector, LastSector
  <2> QED BY <1>2, <1>6, <2>1, SectorOfFile
<1>8. x \in Sectors
  <2>1. Range(h.hdr.dataSectors) \subseteq Sectors
    BY <1>6 DEF WellFormed, Hdr, Range
  <2> QED BY <1>7, <2>1
<1>9. x \in Range(disk.sec[disk.dir[c].sector].hdr.dataSectors)
  BY <1>1, <1>4, <1>7
<1>10. SectorSet(disk, n, x, Sector("data", NoHdr, bytes))
  BY DEF h
<1> HIDE DEF x
<1>11. DiskType(n) /\ DataOnly(disk, n, x)
  BY <1>1, <1>5, <1>8, <1>9, <1>10, DataWritten
<1> QED BY <1>11 DEF x, h

(* A request is made. *)
LEMMA RequestKeeps ==
    ASSUME FileSysSound, NEW t \in Threads, Request(t), Quiet'
    PROVE  FilesExact'
<1>1. DiskServed
  BY DEF FileSysSound
<1>2. /\ simulator = "running" /\ run[t].op # "idle"
      /\ Fields(run[t]) /\ Requested(disk, run[t], run'[t])
      /\ run' = [u \in Threads |-> run'[u]] /\ \A u \in Threads \ {t} : run'[u] = run[u]
      /\ disk' = WrittenTo(t)
      /\ flags'.overlapped = flags.overlapped /\ flags'.crashes = flags.crashes
      /\ ~flags'.wild => ~flags.wild /\ (run[t].pc = "writeData" => UpToDate(t))
      /\ UNCHANGED <<file, live, simulator>>
  BY <1>1, RequestIs DEF Requested
<1>3. Quiet /\ (run[t].pc = "writeData" => UpToDate(t))
  BY <1>2 DEF Quiet, Calm
<1>4. FilesExact /\ RunType
  BY <1>1, <1>3 DEF FileSysSound, DiskServed
<1>5. /\ DiskType(disk) /\ live \in [Names -> BOOLEAN] /\ file = [u \in Threads |-> file[u]]
      /\ \A u \in Threads : Typed(run[u], file[u])
      /\ FilesApart(disk) /\ OneModifier(run) /\ Settled(disk, live, run)
      /\ \A u \in Threads : RunExact(disk, live, run[u])
  BY <1>4 DEF FilesExact
<1>6. Runs(run[t])
  BY <1>2, <1>4 DEF Runs, RunType
<1>7. \A u \in Threads : run'[u].op = run[u].op /\ run'[u].pc = run[u].pc
        /\ run'[u].name = run[u].name
  BY <1>2 DEF Requested
<1>8. \A u \in Threads : Typed(run'[u], file'[u])
  BY <1>2, <1>5, RequestedTyped
<1>9. OneModifier(run')
  BY <1>5, <1>7 DEF OneModifier
<1>10. /\ DiskType(disk') /\ FilesApart(disk') /\ Settled(disk', live, run')
       /\ \A u \in Threads : RunExact(disk', live, run'[u])
  <2>1. CASE run[t].pc \in Flushing
    <3>1. DiskType(disk') /\ FilesApart(disk') /\ RunExact(disk', live, run'[t])
      <4>1. /\ run[t].pc = "writeHdr" =>
                  SectorSet(disk, disk', run[t].sector, Sector("hdr", run[t].hdr, Blank))
            /\ run[t].pc = "writeDir1" => DirSet(disk, disk', 1, run[t].dir)
            /\ run[t].pc = "writeDir2" => DirSet(disk, disk', 2, run[t].dir)
            /\ run[t].pc = "writeMap" => MapSet(disk, disk', run[t].map)
            /\ run[t].pc = "rmwDir" => disk' = disk
        BY <1>2, WrittenIs
      <4> QED BY <1>2, <1>5, <1>6, <2>1, <4>1, FlushRequested
    <3>2. Settled(disk', live, run')
      BY <1>7, <2>1 DEF Settled
    <3>3. run[t].op \in Modifiers
      BY <1>6, <2>1 DEF Runs, Places, Flushing, Modifiers
    <3>4. \A u \in Threads \ {t} : run'[u].op \notin Modifiers
      BY <1>5, <1>7, <3>3 DEF OneModifier
    <3> QED BY <3>1, <3>2, <3>4, NotModifier
  <2>2. CASE run[t].pc = "writeData"
    <3> DEFINE x == ByteToSector(file[t].hdr, run[t].i * SectorSize)
    <3>1. SectorSet(disk, disk', x, Sector("data", NoHdr, Changed(run[t], run[t].i)))
      BY <1>2, <2>2, WrittenIs
    <3>2. run[t].op = "Write"
      BY <1>6, <2>2 DEF Runs, Places
    <3>3. DiskType(disk') /\ DataOnly(disk, disk', x)
      BY <1>3, <1>4, <2>2, <3>1, <3>2, DataRequested
    <3> HIDE DEF x
    <3>4. FilesApart(disk')
      BY <1>5, <3>3, DataApart
    <3>5. Settled(disk', live, run')
      <4>1. SUFFICES ASSUME \A u \in Threads : run'[u].pc \notin Flushing
                     PROVE  AtRest(disk', live, run')
        BY DEF Settled
      <4>2. AtRest(disk, live, run)
        BY <1>5, <1>7, <4>1 DEF Settled
      <4>3. AtRest(disk', live, run)
        BY <1>5, <3>3, <4>2, DataAtRest
      <4> QED BY <1>7, <4>3 DEF AtRest
    <3>6. \A u \in Threads \ {t} : RunExact(disk', live, run'[u])
      BY <1>2, <1>5, <3>3, DataExact
    <3>7. run'[t].op \notin Modifiers
      BY <1>7, <3>2 DEF Modifiers
    <3> QED BY <3>3, <3>4, <3>5, <3>6, <3>7, NotModifier
  <2>3. CASE run[t].pc \notin Flushing /\ run[t].pc # "writeData"
    <3>1. disk' = disk
      BY <1>2, <2>3, WrittenIs DEF Flushing
    <3>2. RunExact(disk, live, run'[t])
      BY <1>2, <1>5, <2>3, RequestReads
    <3>3. Settled(disk, live, run')
      <4>1. SUFFICES ASSUME \A u \in Threads : run'[u].pc \notin Flushing
                     PROVE  AtRest(disk, live, run')
        BY DEF Settled
      <4>2. AtRest(disk, live, run)
        BY <1>5, <1>7, <4>1 DEF Settled
      <4> QED BY <1>7, <4>2 DEF AtRest
    <3> QED BY <1>2, <1>5, <3>1, <3>2, <3>3
  <2> QED BY <2>1, <2>2, <2>3
<1> QED BY <1>2, <1>4, <1>5, <1>8, <1>9, <1>10 DEF FilesExact

(* What the end of a transfer leaves in a run has its type. *)
LEMMA StoppedTyped ==
    ASSUME NEW r, NEW f, Typed(r, f), NEW q, Stopped(q)
    PROVE  Typed(q, f)
  BY IdleIs DEF Typed, Stopped

(* A run that goes on keeps its types. *)
LEMMA KeptTyped ==
    ASSUME NEW r, NEW f, Typed(r, f), NEW q, Kept(r, q), r.op # "Write", q.hdr \in Hdr,
           q.pc = "dir2" => q.dir \in Dir, q.pc # "dir1", q.pc = "hdr" => q.sector \in Sectors
    PROVE  Typed(q, f)
  BY DEF Typed, Kept

(* So does the end of a transfer of Create, Remove and Open, *)
LEMMA CommandEndTyped ==
    ASSUME NEW r, Runs(r), r.op \in {"Create", "Remove", "Open"}, r.waiting, NEW f, Typed(r, f),
           NEW q, Completed(r, q), q.pc = "writeHdr" => q.hdr \in Hdr
    PROVE  Typed(q, f)
<1>1. r.hdr \in Hdr /\ (r.pc \in {"dir1", "dir2"} => r.dir \in Dir) /\ r.op # "Write"
  BY DEF Typed
<1>2. ASSUME NEW p, Moved(r, q, p), p \notin {"dir1", "hdr"}, p = "dir2" => r.dir \in Dir
      PROVE  Typed(q, f)
  BY <1>1, <1>2, KeptTyped DEF Moved
<1>3. Stopped(q) => Typed(q, f)
  BY StoppedTyped
<1>4. CASE r.pc = "dir1"
  BY <1>1, <1>2, <1>4, CompletedIs
<1>5. CASE r.pc = "dir2"
  <2>1. Stopped(q) \/ Moved(r, q, "map") \/ (Opening(r, q) /\ FindFile(r.dir, r.name) # -1)
    BY <1>5, CompletedIs
  <2>2. ASSUME Opening(r, q), FindFile(r.dir, r.name) # -1
        PROVE  Typed(q, f)
    <3>1. q.sector \in Sectors
      BY <1>1, <1>5, <2>2, FindFileIs DEF Opening
    <3> QED BY <1>1, <2>2, <3>1, KeptTyped DEF Opening
  <2> QED BY <1>2, <1>3, <2>1, <2>2
<1>6. CASE r.pc = "hdr"
  BY <1>2, <1>3, <1>6, CompletedIs
<1>7. CASE r.pc = "map"
  <2>1. Stopped(q) \/ Created(r, q) \/ Removed(r, q)
    BY <1>7, CompletedIs
  <2>2. CASE Created(r, q)
    BY <1>1, <2>2, KeptTyped DEF Created
  <2>3. CASE Removed(r, q)
    BY <1>1, <2>3, KeptTyped DEF Removed
  <2> QED BY <1>3, <2>1, <2>2, <2>3
<1>8. CASE r.pc \in Flushing
  <2>1. Stopped(q) \/ \E p \in Flushing : Moved(r, q, p)
    BY <1>8, CompletedIs DEF Flushing
  <2> QED BY <1>2, <1>3, <2>1 DEF Flushing
<1> QED BY <1>4, <1>5, <1>6, <1>7, <1>8 DEF Runs, Places, Flushing

(* and that of a read or a write. *)
LEMMA CarriedTyped ==
    ASSUME NEW r, NEW f, Typed(r, f), r.op \in {"Read", "Write"}, NEW q, Carried(r, q)
    PROVE  Typed(q, f)
<1>1. CASE Stopped(q)
  BY <1>1, StoppedTyped
<1>2. CASE ~Stopped(q)
  <2>1. /\ q.op = r.op /\ q.numBytes = r.numBytes /\ q.position = r.position
        /\ q.hdr = r.hdr /\ q.pc \notin {"dir1", "dir2", "hdr"}
        /\ q.i = r.i \/ (r.i # LastSector(r) /\ q.i = r.i + 1)
    BY <1>2 DEF Carried, Kept
  <2>2. FirstSector(q) = FirstSector(r) /\ LastSector(q) = LastSector(r)
    BY <2>1 DEF FirstSector, LastSector
  <2>3. CASE r.op = "Read"
    BY <2>1, <2>3 DEF Typed
  <2>4. CASE r.op = "Write"
    <3>1. /\ r.position \in Nat /\ r.numBytes \in Nat \ {0}
               /\ r.i \in FirstSector(r) .. LastSector(r)
      BY <2>4 DEF Typed
    <3>2. FirstSector(r) \in Nat /\ LastSector(r) \in Nat
      <4> DEFINE last == r.position + r.numBytes - 1
      <4>1. last \in Nat /\ SectorSize \in Nat \ {0}
        BY <3>1, DiskAssumption
      <4> HIDE DEF last
      <4> QED BY <3>1, <4>1, Divided DEF FirstSector, LastSector, last
    <3>3. q.i \in FirstSector(q) .. LastSector(q)
      BY <2>1, <2>2, <3>1, <3>2
    <3> QED BY <2>1, <2>4, <3>3 DEF Typed
  <2> QED BY <2>3, <2>4
<1> QED BY <1>1, <1>2

(* A transfer of Create or Remove ends. *)
LEMMA ModifierCompletes ==
    ASSUME FilesExact, DiskServed, NEW t \in Threads, Complete(t), run[t].op \in Modifiers
    PROVE  FilesExact'
<1> DEFINE more == run[t].op = "Create" /\ run[t].pc = "writeMap"
<1>1. /\ run[t].op # "idle" /\ run[t].waiting
      /\ Runs(run[t]) /\ Completed(run[t], run'[t])
      /\ run'[t].pc \in Places[run'[t].op] /\ (run'[t].op = run[t].op \/ run'[t].op = "idle")
      /\ run' = [u \in Threads |-> run'[u]] /\ \A u \in Threads \ {t} : run'[u] = run[u]
      /\ live' = [live EXCEPT ![run[t].name] = @ \/ more]
      /\ UNCHANGED <<disk, file>>
  BY CompleteIs DEF Runs, Completed, Modifiers
<1>2. simulator' = CASE Unmarked(run[t]) -> "ought to be marked"
                     [] run[t].pc = "hdr" /\ disk.sec[run[t].sector].kind # "hdr" ->
                          IF run[t].op = "Open" THEN "stale Open" ELSE "garbage header"
                     [] OTHER -> "running"
  BY CompleteIs
<1>3. /\ DiskType(disk) /\ live \in [Names -> BOOLEAN] /\ file = [u \in Threads |-> file[u]]
      /\ \A u \in Threads : Typed(run[u], file[u])
      /\ FilesApart(disk) /\ OneModifier(run) /\ Settled(disk, live, run)
      /\ \A u \in Threads : RunExact(disk, live, run[u])
  BY DEF FilesExact
<1>4. run[t].name \in Names /\ (run[t].op = "Create" => run[t].numBytes \in Nat)
        /\ run[t].op # "Open"
  BY <1>3 DEF Typed, Modifiers
<1>5. live' = IF more THEN [live EXCEPT ![run[t].name] = TRUE] ELSE live
  BY <1>1, <1>3, <1>4
<1> HIDE DEF more
<1>6. \A u \in Threads \ {t} : run[u].op \notin Modifiers
  BY <1>3 DEF OneModifier
<1>7. run[t].pc \notin Flushing => RestKept(disk, live, run[t])
  <2>1. SUFFICES ASSUME run[t].pc \notin Flushing PROVE RestKept(disk, live, run[t])
    OBVIOUS
  <2>2. RunType
    BY DEF DiskServed
  <2>3. \A u \in Threads : run[u].pc \notin Flushing
    BY <1>6, <2>1, <2>2 DEF RunType, Places, Flushing, Modifiers
  <2>4. AtRest(disk, live, run)
    BY <1>3, <2>3 DEF Settled
  <2>5. \A u \in Threads : run[u].op = "Remove" => u = t
    BY <1>6 DEF Modifiers
  <2> QED BY <2>4, <2>5 DEF AtRest, RestKept
<1>8. Ended(disk, live, live', run[t], run'[t]) /\ ~Unmarked(run[t])
  <2>1. CASE run[t].pc \in {"dir1", "dir2", "hdr"}
    <3>1. RestKept(disk, live, run[t]) /\ live' = live
      BY <1>5, <1>7, <2>1 DEF Flushing, more
    <3>2. Ended(disk, live, live, run[t], run'[t])
      BY <1>1, <1>3, <2>1, <3>1, EarlyEnded
    <3> QED BY <2>1, <3>1, <3>2 DEF Unmarked
  <2>2. CASE run[t].pc = "map"
    <3>1. RestKept(disk, live, run[t]) /\ live' = live
      BY <1>5, <1>7, <2>2 DEF Flushing, more
    <3>2. Ended(disk, live, live, run[t], run'[t]) /\ ~Unmarked(run[t])
      BY <1>1, <1>3, <1>4, <2>2, <3>1, MapEnded
    <3> QED BY <3>1, <3>2
  <2>3. CASE run[t].pc \in Flushing
    <3>1. Ended(disk, live, live', run[t], run'[t])
      BY <1>1, <1>3, <1>4, <1>5, <2>3, FlushEnded DEF more
    <3> QED BY <2>3, <3>1 DEF Unmarked, Flushing
  <2> QED BY <1>1, <2>1, <2>2, <2>3 DEF Runs, Places, Modifiers, Flushing
<1>9. simulator' = "running"
  <2>1. run[t].pc = "hdr" => disk.sec[run[t].sector].kind = "hdr"
    <3>1. SUFFICES ASSUME run[t].pc = "hdr" PROVE disk.sec[run[t].sector].kind = "hdr"
      OBVIOUS
    <3>2. run[t].op = "Remove" /\ Fetching(disk, run[t])
      BY <1>1, <1>3, <3>1 DEF Runs, Places, Modifiers, RunExact, Flushing
    <3>3. Listed(disk.dir, run[t].name) # {} /\ run[t].sector = FindFile(disk.dir, run[t].name)
      BY <3>1, <3>2 DEF Fetching
    <3>4. \E e \in DirEntries : disk.dir[e].inUse /\ run[t].sector = disk.dir[e].sector
      BY <1>3, <3>3, FindFileIs DEF DiskType
    <3> QED BY <1>3, <3>4 DEF InUse, FilesApart, IsFile
  <2> QED BY <1>2, <1>8, <2>1
<1>10. RunExact(disk, live', run'[t])
  <2>1. CASE Stopped(run'[t])
    BY <2>1, NotModifier DEF Stopped, Modifiers
  <2>2. CASE ~Stopped(run'[t])
    BY <1>8, <2>2 DEF Ended
  <2> QED BY <2>1, <2>2
<1>11. Typed(run'[t], file[t])
  <2>1. run'[t].pc = "writeHdr" => run'[t].hdr \in Hdr
    <3>1. run'[t].pc = "writeHdr" => run'[t].op = "Create"
      BY <1>1, <1>4 DEF Places, Modifiers
    <3>2. run'[t].pc = "writeHdr" => \E e \in DirEntries : Creating(disk, live', run'[t], e)
      BY <1>10, <3>1 DEF RunExact, Flushing
    <3> QED BY <3>2 DEF Creating, WellFormed
  <2>2. run[t].op \in {"Create", "Remove", "Open"}
    BY DEF Modifiers
  <2> QED BY <1>1, <1>3, <2>1, <2>2, CommandEndTyped
<1>12. /\ \A u \in Threads : RunExact(disk, live', run'[u])
       /\ \A u \in Threads : Typed(run'[u], file'[u])
       /\ OneModifier(run')
  <2>1. \A u \in Threads \ {t} : run'[u].op \notin Modifiers
    BY <1>1, <1>6
  <2>2. \A u \in Threads : RunExact(disk, live', run'[u])
    BY <1>10, <2>1, NotModifier
  <2>3. OneModifier(run')
    BY <2>1 DEF OneModifier
  <2> QED BY <1>1, <1>3, <1>11, <2>2, <2>3
<1>13. live' \in [Names -> BOOLEAN]
  BY <1>3, <1>4, <1>5
<1>14. Settled(disk, live', run')
  <2>1. SUFFICES ASSUME \A u \in Threads : run'[u].pc \notin Flushing
                 PROVE  AtRest(disk, live', run')
    BY DEF Settled
  <2>2. CASE Stopped(run'[t])
    <3>1. AllKept(disk, live')
      <4>1. run'[t].op # run[t].op
        BY <1>1, <2>2 DEF Stopped
      <4> QED BY <1>8, <4>1 DEF Ended
    <3> QED BY <3>1 DEF AllKept, AtRest
  <2>3. CASE ~Stopped(run'[t])
    <3>1. live' = live /\ run'[t].op = run[t].op /\ run'[t].name = run[t].name
            /\ run[t].pc \notin Flushing
      BY <1>8, <2>1, <2>3 DEF Ended
    <3>2. AtRest(disk, live, run)
      BY <1>1, <1>3, <2>1, <3>1 DEF Settled
    <3>3. \A u \in Threads : run'[u].op = run[u].op /\ run'[u].name = run[u].name
      BY <1>1, <3>1
    <3> QED BY <3>1, <3>2, <3>3 DEF AtRest
  <2> QED BY <2>2, <2>3
<1> QED BY <1>1, <1>3, <1>9, <1>12, <1>13, <1>14 DEF FilesExact

(* A transfer of Open, Read or Write ends. *)
LEMMA OtherCompletes ==
    ASSUME FilesExact, DiskServed, NEW t \in Threads, Complete(t), run[t].op \notin Modifiers
    PROVE  FilesExact'
<1>1. /\ run[t].op # "idle" /\ run[t].waiting
      /\ Runs(run[t]) /\ Completed(run[t], run'[t])
      /\ run'[t].pc \in Places[run'[t].op] /\ (run'[t].op = run[t].op \/ run'[t].op = "idle")
      /\ run' = [u \in Threads |-> run'[u]] /\ \A u \in Threads \ {t} : run'[u] = run[u]
      /\ live' = [live EXCEPT ![run[t].name] = @ \/ (run[t].op = "Create" /\ run[t].pc
           = "writeMap")]
      /\ file' = IF run[t].op = "Open" /\ run[t].pc = "hdr"
                 THEN [file EXCEPT ![t] = OpenFile(run[t].name, run[t].sector, run[t].hdr)]
                   ELSE file
      /\ UNCHANGED disk
  BY CompleteIs DEF Runs, Completed
<1>2. simulator' = CASE Unmarked(run[t]) -> "ought to be marked"
                     [] run[t].pc = "hdr" /\ disk.sec[run[t].sector].kind # "hdr" ->
                          IF run[t].op = "Open" THEN "stale Open" ELSE "garbage header"
                     [] OTHER -> "running"
  BY CompleteIs
<1>3. /\ DiskType(disk) /\ live \in [Names -> BOOLEAN] /\ file = [u \in Threads |-> file[u]]
      /\ \A u \in Threads : Typed(run[u], file[u])
      /\ FilesApart(disk) /\ OneModifier(run) /\ Settled(disk, live, run)
      /\ \A u \in Threads : RunExact(disk, live, run[u])
  BY DEF FilesExact
<1>4. run[t].op \in {"Open", "Read", "Write"}
  BY <1>1 DEF Runs, Places, Modifiers
<1>5. live' = live
  <2>1. live' = [live EXCEPT ![run[t].name] = @ \/ FALSE]
    BY <1>1, <1>4
  <2> QED BY <1>3, <2>1
<1>6. simulator' \notin {"ought to be marked", "garbage header"}
  <2>1. ~Unmarked(run[t])
    BY <1>4 DEF Unmarked
  <2>2. run[t].pc = "hdr" => run[t].op = "Open"
    BY <1>1, <1>4 DEF Runs, Places
  <2> QED BY <1>2, <2>1, <2>2
<1>7. run'[t].op \notin Modifiers /\ run'[t].pc \notin Flushing /\ run[t].pc \notin Flushing
      /\ run'[t].pc # "writeHdr"
  BY <1>1, <1>4 DEF Runs, Places, Flushing, Modifiers
<1>8. Typed(run'[t], file[t])
  <2>1. CASE run[t].op = "Open"
    BY <1>1, <1>3, <1>7, <2>1, CommandEndTyped
  <2>2. CASE run[t].op \in {"Read", "Write"}
    BY <1>1, <1>3, <2>2, CarriedIs, CarriedTyped
  <2> QED BY <1>4, <2>1, <2>2
<1>9. Typed(run'[t], file'[t])
  <2>1. CASE run[t].op = "Open" /\ run[t].pc = "hdr"
    <3>1. file'[t] = [name |-> run[t].name, sector |-> run[t].sector, hdr |-> run[t].hdr]
      BY <1>1, <1>3, <2>1 DEF OpenFile
    <3>2. run[t].sector \in Sectors /\ run[t].hdr \in Hdr
      BY <1>3, <2>1 DEF Typed
    <3>3. Stopped(run'[t])
      BY <1>1, <2>1, CompletedIs
    <3> QED BY <3>1, <3>2, <3>3, IdleIs DEF Typed, Stopped
  <2>2. CASE ~(run[t].op = "Open" /\ run[t].pc = "hdr")
    <3>1. file' = file
      BY <1>1, <2>2
    <3> QED BY <1>8, <3>1
  <2> QED BY <2>1, <2>2
<1>10. /\ file' = [u \in Threads |-> file'[u]] /\ \A u \in Threads \ {t} : file'[u] = file[u]
  BY <1>1, <1>3
<1>11. /\ \A u \in Threads : RunExact(disk, live', run'[u])
       /\ \A u \in Threads : Typed(run'[u], file'[u])
       /\ OneModifier(run')
  <2>1. \A u \in Threads : RunExact(disk, live', run'[u])
    BY <1>1, <1>3, <1>5, <1>7, NotModifier
  <2>2. OneModifier(run')
    BY <1>1, <1>3, <1>7 DEF OneModifier
  <2> QED BY <1>1, <1>3, <1>9, <1>10, <2>1, <2>2
<1>12. Settled(disk, live', run')
  <2>1. SUFFICES ASSUME \A u \in Threads : run'[u].pc \notin Flushing
                 PROVE  AtRest(disk, live, run')
    BY <1>5 DEF Settled
  <2>2. AtRest(disk, live, run)
    BY <1>1, <1>3, <1>7, <2>1 DEF Settled
  <2>3. \A u \in Threads : run[u].op = "Remove" => run'[u] = run[u]
    BY <1>1, <1>4
  <2> QED BY <2>2, <2>3 DEF AtRest
<1> QED BY <1>1, <1>3, <1>5, <1>6, <1>10, <1>11, <1>12 DEF FilesExact

(* The disk that FileSystem::FileSystem(true) leaves has no files. *)
LEMMA FormattedIs ==
    /\ DiskType(Formatted) /\ InUse(Formatted) = {} /\ Formatted.map = System
    /\ Formatted.dir = EmptyDir
    /\ Formatted.sec = [s \in Sectors |-> Sector("data", NoHdr, Blank)]
<1>1. /\ Formatted = [map |-> Formatted.map, dir |-> Formatted.dir, sec |-> Formatted.sec]
      /\ Formatted.map = System /\ Formatted.dir = EmptyDir
      /\ Formatted.sec = [s \in Sectors |-> Sector("data", NoHdr, Blank)]
  BY DEF Formatted
<1>2. EmptyDir \in Dir /\ \A e \in DirEntries : EmptyDir[e].inUse = FALSE
  <2>1. 0 \in Sectors
    BY DiskAssumption DEF Sectors
  <2>2. NoEntry \in [inUse : BOOLEAN, sector : Sectors, name : Names \union {NULL}]
          /\ NoEntry.inUse = FALSE
    BY <2>1 DEF NoEntry
  <2> QED BY <2>2 DEF EmptyDir, Dir
<1>3. \A s \in Sectors : Formatted.sec[s].kind = "data" /\ Formatted.sec[s].hdr = NoHdr
  BY <1>1 DEF Sector
<1>4. DiskType(Formatted)
  BY <1>1, <1>2, <1>3, IdleIs DEF DiskType
<1>5. InUse(Formatted) = {}
  BY <1>1, <1>2 DEF InUse
<1> QED BY <1>1, <1>4, <1>5

(* There is room for the largest file besides the header of it. *)
LEMMA RoomForOne ==
    ASSUME NEW s \in Sectors \ System
    PROVE  /\ Max(Sizes) \in Nat
           /\ divRoundUp(Max(Sizes), SectorSize) <= Cardinality(Sectors \ (System \union {s}))
<1>1. Max(Sizes) \in Nat
  BY MaxNat, FileSizesAssumption
<1>2. NumSectors \in Nat /\ NumSectors > 5 /\ divRoundUp(Max(Sizes), SectorSize) < NumSectors - 5
  BY DiskAssumption, FileSizesAssumption
<1>3. /\ Sectors \ System = 5 .. NumSectors - 1
  BY <1>2 DEF Sectors, System
<1>4. /\ IsFiniteSet(5 .. NumSectors - 1)
      /\ Cardinality(5 .. NumSectors - 1) = NumSectors - 5
  <2>1. 5 \in Int /\ NumSectors - 1 \in Int /\ ~(5 > NumSectors - 1)
    BY <1>2
  <2>2. Cardinality(5 .. NumSectors - 1) = (NumSectors - 1) - 5 + 1
          /\ IsFiniteSet(5 .. NumSectors - 1)
    BY <2>1, FS_Interval
  <2> QED BY <1>2, <2>2
<1>5. Sectors \ (System \union {s}) = (5 .. NumSectors - 1) \ {s} /\ s \in 5 .. NumSectors - 1
  BY <1>3
<1>6. Cardinality((5 .. NumSectors - 1) \ {s}) = (NumSectors - 5) - 1
  <2> DEFINE S == 5 .. NumSectors - 1
  <2>1. s \in S /\ IsFiniteSet(S) /\ Cardinality(S) = NumSectors - 5
    BY <1>4, <1>5
  <2> HIDE DEF S
  <2>2. Cardinality(S \ {s}) = (NumSectors - 5) - 1
    BY <2>1, FS_RemoveElement
  <2> QED BY <2>2 DEF S
<1>7. divRoundUp(Max(Sizes), SectorSize) \in Nat
  BY <1>1, Numbers
<1> QED BY <1>1, <1>2, <1>5, <1>6, <1>7

(* The disk with one file on it. *)
LEMMA WithFileIs ==
    ASSUME NEW n \in Names, NEW d, d = WithFile(Formatted, n, Max(Sizes))
    PROVE  /\ DiskType(d) /\ InUse(d) = {0} /\ 0 \in DirEntries /\ d.dir[0].name = n
           /\ d.dir[0].sector \in Sectors /\ d.sec[d.dir[0].sector].hdr \in Hdr
           /\ IsFile(d, d.dir[0].sector)
           /\ d.map = System \union OwnedIn(d, d.dir[0].sector)
<1>1. PICK s : s = FindSectors(System, 1)[1]
  OBVIOUS
<1>2. PICK hdr : hdr = Allocate(System \union {s}, Max(Sizes))
  OBVIOUS
<1>3. d = [map |-> (System \union {s}) \union Range(hdr.dataSectors),
           dir |-> [Formatted.dir EXCEPT ![0] = [inUse |-> TRUE, sector |-> s, name |-> n]],
           sec |-> [Formatted.sec EXCEPT ![s] = Sector("hdr", hdr, Blank)]]
  BY <1>1, <1>2, FormattedIs DEF WithFile
<1>4. s \in Sectors \ System
  <2>1. ~(Sectors \subseteq System)
    BY DiskAssumption DEF Sectors, System
  <2> QED BY <1>1, <2>1, FirstFree
<1>5. /\ WellFormed(hdr) /\ hdr \in Hdr
           /\ Range(hdr.dataSectors) \subseteq Sectors \ (System \union {s})
  <2> DEFINE taken == System \union {s}
             size == Max(Sizes)
  <2>1. size \in Nat /\ divRoundUp(size, SectorSize) <= Cardinality(Sectors \ taken)
          /\ hdr = Allocate(taken, size)
    BY <1>2, <1>4, RoomForOne
  <2> HIDE DEF taken, size
  <2>2. WellFormed(hdr) /\ Range(hdr.dataSectors) \subseteq Sectors \ taken
    BY <2>1, AllocateIs
  <2> QED BY <2>2 DEF WellFormed, taken
<1>6. 0 \in DirEntries
  BY DiskAssumption DEF DirEntries
<1>7. /\ d.map = (System \union {s}) \union Range(hdr.dataSectors)
      /\ d.dir = [EmptyDir EXCEPT ![0] = [inUse |-> TRUE, sector |-> s, name |-> n]]
      /\ d.sec = [Formatted.sec EXCEPT ![s] = Sector("hdr", hdr, Blank)]
      /\ d = [map |-> d.map, dir |-> d.dir, sec |-> d.sec]
  BY <1>3, FormattedIs
<1>8. /\ d.sec = [x \in Sectors |-> d.sec[x]]
      /\ d.sec[s].kind = "hdr" /\ d.sec[s].hdr = hdr
      /\ \A x \in Sectors \ {s} : d.sec[x].kind = "data" /\ d.sec[x].hdr = NoHdr
  BY <1>4, <1>7, FormattedIs DEF Sector
<1>9. /\ d.dir[0] = [inUse |-> TRUE, sector |-> s, name |-> n]
      /\ \A e \in DirEntries \ {0} : d.dir[e] = NoEntry
      /\ d.dir = [e \in DirEntries |-> d.dir[e]]
  BY <1>6, <1>7 DEF EmptyDir
<1>10. d.dir \in Dir
  <2>1. NoEntry \in [inUse : BOOLEAN, sector : Sectors, name : Names \union {NULL}]
    BY DiskAssumption DEF NoEntry, Sectors
  <2>2. d.dir[0] \in [inUse : BOOLEAN, sector : Sectors, name : Names \union {NULL}]
    BY <1>4, <1>9
  <2> QED BY <1>9, <2>1, <2>2 DEF Dir
<1>11. InUse(d) = {0}
  BY <1>6, <1>9 DEF InUse, NoEntry
<1>12. DiskType(d)
  BY <1>5, <1>7, <1>8, <1>10, IdleIs DEF DiskType
<1>13. OwnedIn(d, s) = {s} \union Range(hdr.dataSectors)
  BY <1>8 DEF OwnedIn
<1>14. IsFile(d, s)
  BY <1>4, <1>5, <1>8, <1>13 DEF IsFile
<1>15. d.map = System \union OwnedIn(d, s)
  BY <1>7, <1>13
<1> QED BY <1>4, <1>5, <1>6, <1>8, <1>9, <1>11, <1>12, <1>14, <1>15

(* The initial states. *)
LEMMA InitQuiet == FileSysInit => FilesExact
<1> SUFFICES ASSUME FileSysInit PROVE FilesExact
  OBVIOUS
<1>1. PICK old \in OldNames :
        /\ disk = IF old = NULL THEN Formatted ELSE WithFile(Formatted, old, Max(Sizes))
        /\ file = [t \in Threads |-> IF old # NULL
                     THEN OpenFile(old, disk.dir[0].sector, disk.sec[disk.dir[0].sector].hdr)
                     ELSE NotOpen]
        /\ live = [n \in Names |-> n = old]
        /\ run = [t \in Threads |-> Idle] /\ simulator = "running"
  BY DEF FileSysInit
<1>2. \A t \in Threads : run[t] = Idle /\ run[t].op = "idle" /\ run[t].pc = "none"
                         /\ run[t].waiting = FALSE /\ run[t].hdr = NoHdr
  BY <1>1, IdleIs
<1>3. /\ OneModifier(run) /\ \A t \in Threads : RunExact(disk, live, run[t])
  BY <1>2, NotModifier DEF OneModifier, Modifiers
<1>4. live \in [Names -> BOOLEAN] /\ file = [t \in Threads |-> file[t]]
  BY <1>1
<1>5. ASSUME NEW f, f = [name |-> f.name, sector |-> f.sector, hdr |-> f.hdr], f.hdr \in Hdr,
             f = NotOpen \/ f.sector \in Sectors, NEW t \in Threads
      PROVE  Typed(run[t], f)
  BY <1>2, <1>5, IdleIs DEF Typed
<1>6. CASE old = NULL
  <2>1. disk = Formatted
    BY <1>1, <1>6
  <2>2. DiskType(disk) /\ InUse(disk) = {} /\ disk.map = System
    BY <2>1, FormattedIs
  <2>3. Used(disk) = {} /\ FilesApart(disk) /\ AtRest(disk, live, run)
    BY <2>2 DEF Used, FilesApart, AtRest
  <2>4. ASSUME NEW t \in Threads PROVE Typed(run[t], file[t])
    <3>1. file[t] = NotOpen
      BY <1>1, <1>6
    <3>2. NotOpen = [name |-> NotOpen.name, sector |-> NotOpen.sector, hdr |-> NotOpen.hdr]
            /\ NotOpen.hdr = NoHdr
      BY DEF NotOpen
    <3> QED BY <1>5, <3>1, <3>2, IdleIs
  <2> QED BY <1>1, <1>3, <1>4, <2>2, <2>3, <2>4 DEF FilesExact, Settled
<1>7. CASE old # NULL
  <2>1. old \in Names /\ disk = WithFile(Formatted, old, Max(Sizes))
    BY <1>1, <1>7, NamesAssumption
  <2>2. /\ DiskType(disk) /\ InUse(disk) = {0} /\ 0 \in DirEntries /\ disk.dir[0].name = old
        /\ disk.dir[0].sector \in Sectors /\ disk.sec[disk.dir[0].sector].hdr \in Hdr
        /\ IsFile(disk, disk.dir[0].sector)
        /\ disk.map = System \union OwnedIn(disk, disk.dir[0].sector)
    BY <2>1, WithFileIs
  <2>3. FilesApart(disk)
    BY <2>2 DEF FilesApart
  <2>4. AtRest(disk, live, run)
    <3>1. Used(disk) = OwnedIn(disk, disk.dir[0].sector)
      BY <2>2 DEF Used
    <3>2. Living(live, old)
      BY <1>1, <2>1 DEF Living
    <3> QED BY <2>2, <3>1, <3>2 DEF AtRest
  <2>5. ASSUME NEW t \in Threads PROVE Typed(run[t], file[t])
    <3>1. file[t] = [name |-> old, sector |-> disk.dir[0].sector,
            hdr |-> disk.sec[disk.dir[0].sector].hdr]
      BY <1>1, <1>7 DEF OpenFile
    <3>2. /\ file[t].name = old /\ file[t].sector = disk.dir[0].sector
          /\ file[t].hdr = disk.sec[disk.dir[0].sector].hdr
      BY <3>1
    <3> QED BY <1>5, <2>2, <3>1, <3>2
  <2> QED BY <1>1, <1>3, <1>4, <2>2, <2>3, <2>4, <2>5 DEF FilesExact, Settled
<1> QED BY <1>6, <1>7

(* No step breaks the invariant. *)
LEMMA NextQuiet == FileSysSound /\ [FileSysNext]_fileSysVars => FileSysSound'
<1> SUFFICES ASSUME FileSysSound, [FileSysNext]_fileSysVars PROVE FileSysSound'
  OBVIOUS
<1>1. DiskServed /\ DiskServed' /\ (Quiet => FilesExact)
  BY NextLocks DEF FileSysSound
<1>2. SUFFICES ASSUME Quiet' PROVE FilesExact'
  BY <1>1 DEF FileSysSound
<1>3. ASSUME NEW t \in Threads, NEW n \in Names,
             (\E size \in Sizes : Create(t, n, size)) \/ Remove(t, n) \/ Open(t, n)
      PROVE  FilesExact'
  <2>1. PICK r : CommandBegins(t, n, r)
    BY <1>3, CommandIs
  <2>2. /\ Fields(r) /\ Begin(t, r) /\ r.waiting = FALSE /\ r.op # "idle" /\ r.pc = "dir1"
             /\ r.name = n
        /\ r.op \in {"Create", "Remove", "Open"}
        /\ live' = IF r.op = "Remove" THEN [live EXCEPT ![n] = FALSE] ELSE live
    BY <2>1 DEF CommandBegins
  <2>3. Quiet
    BY <1>1, <1>2, <2>2, BeginIs DEF Quiet, Calm, DiskServed
  <2>4. Typed(r, file[t])
    BY <1>1, <2>1, <2>3, CommandTyped DEF FilesExact
  <2> QED BY <1>2, <2>2, <2>4, BeginKeeps DEF Flushing
<1>4. ASSUME NEW t \in Threads, NEW op \in {"Read", "Write"}, NEW q \in Nat \X (Nat \ {0}),
             NEW v,
             Transfer(t, op, q, v)
      PROVE  FilesExact'
  <2>1. PICK r : TransferBegins(t, op, q, r)
    BY <1>4, TransferIs
  <2>2. /\ Fields(r) /\ Begin(t, r) /\ r.waiting = FALSE /\ r.op = op /\ r.pc \in Places[op]
        /\ UNCHANGED live
    BY <2>1 DEF TransferBegins
  <2>3. Quiet
    BY <1>1, <1>2, <2>2, BeginIs DEF Quiet, Calm, DiskServed
  <2>4. Typed(r, file[t])
    BY <1>1, <2>1, <2>3, TransferTyped DEF FilesExact
  <2>5. r.op \notin Modifiers /\ r.op # "idle" /\ r.pc \notin Flushing /\ r.op # "Remove"
    BY <2>2 DEF Modifiers, Places, Flushing
  <2> QED BY <1>2, <2>2, <2>4, <2>5, BeginKeeps
<1>5. CASE \E t \in Threads : Request(t)
  BY <1>2, <1>5, RequestKeeps
<1>6. CASE \E t \in Threads : Complete(t)
  <2>1. PICK t \in Threads : Complete(t)
    BY <1>6
  <2>2. /\ flags'.overlapped = flags.overlapped /\ flags'.crashes = flags.crashes
        /\ flags'.wild = flags.wild
    BY <1>1, <2>1, CompleteIs
  <2>3. FilesExact
    BY <1>1, <1>2, <2>2 DEF Quiet, Calm
  <2> QED BY <1>1, <2>1, <2>3, ModifierCompletes, OtherCompletes
<1>7. CASE HandleInterrupt
  <2>1. UNCHANGED <<disk, run, file, live, flags, simulator>>
    BY <1>7 DEF HandleInterrupt
  <2>2. FilesExact
    BY <1>1, <1>2, <2>1 DEF Quiet, Calm
  <2> QED BY <2>1, <2>2 DEF FilesExact
<1>8. CASE Crash
  <2>1. flags' = [flags EXCEPT !.crashes = @ + 1] /\ flags \in Flags
    BY <1>1, <1>8 DEF Crash, DiskServed, RunType
  <2>2. flags'.crashes # 0
    BY <2>1 DEF Flags
  <2> QED BY <1>2, <2>2 DEF Quiet
<1>9. CASE UNCHANGED fileSysVars
  <2>1. UNCHANGED <<disk, run, file, live, flags, simulator>>
    BY <1>9 DEF fileSysVars
  <2>2. FilesExact
    BY <1>1, <1>2, <2>1 DEF Quiet, Calm
  <2> QED BY <2>1, <2>2 DEF FilesExact
<1>10. \A q \in Reads \union Writings : q \in Nat \X (Nat \ {0})
  BY RequestsAssumption
<1> QED BY <1>3, <1>4, <1>5, <1>6, <1>7, <1>8, <1>9, <1>10 DEF FileSysNext

(* The invariant always holds. *)
LEMMA AlwaysSound == FileSysSpec => []FileSysSound
<1>1. FileSysInit => FileSysSound
  BY InitLocks, InitQuiet DEF FileSysSound
<1> QED BY <1>1, NextQuiet, PTL DEF FileSysSpec

(* While no machine crashes and no two threads change the directory, or    *)
(* the same file, at a time, the file system is consistent between         *)
(* operations (FileSystem::Create and Remove): the map marks exactly the   *)
(* sectors that files use, no two files share one or have the same name,   *)
(* and every file that is listed was created and not removed.              *)
THEOREM FileSystemConsistent == FileSysSpec => []Consistent
<1>1. FileSysSound => Consistent
  <2> SUFFICES ASSUME FileSysSound, Calm
    /\ flags.crashes = 0, \A t \in Threads : run[t].op \notin Modifiers
               PROVE  /\ disk.map = System \union UsedOnDisk
                      /\ \A e, d \in InUse(disk) : e # d =>
                           /\ disk.dir[e].name # disk.dir[d].name
                           /\ Owned(disk.dir[e].sector) \intersect Owned(disk.dir[d].sector) = {}
                      /\ \A e \in InUse(disk) : live[disk.dir[e].name]
    BY DEF Consistent, InUse
  <2>1. FilesExact /\ RunType
    BY DEF FileSysSound, Quiet, DiskServed
  <2>2. \A t \in Threads : run[t].pc \notin Flushing
    BY <2>1 DEF RunType, Places, Flushing, Modifiers
  <2>3. AtRest(disk, live, run) /\ FilesApart(disk)
    BY <2>1, <2>2 DEF FilesExact, Settled
  <2>4. \A e \in InUse(disk) : Living(live, disk.dir[e].name)
    BY <2>3 DEF AtRest, Modifiers
  <2> QED BY <2>3, <2>4, OwnedIs DEF AtRest, FilesApart, Living
<1> QED BY <1>1, AlwaysSound, PTL

(* The disk gets one request at a time whatever the threads do             *)
(* (SynchDisk), crashes included; and what FileHeader::Deallocate frees    *)
(* was marked, and is that of a header, unless the machine crashed or two  *)
(* threads changed the directory at a time.                                *)
THEOREM FileSysAssertionsHold == FileSysSpec => []AssertionsHold
<1>1. FileSysSound => AssertionsHold
  <2> SUFFICES ASSUME FileSysSound PROVE AssertionsHold
    OBVIOUS
  <2>0. SUFFICES ASSUME simulator \in {"ought to be marked", "garbage header"}
                 PROVE  flags.crashes > 0 \/ flags.overlapped \/ flags.wild
    <3>1. simulator # "disk ASSERT"
      BY DEF FileSysSound, DiskServed
    <3> QED BY <3>1 DEF AssertionsHold
  <2>1. ~Quiet /\ flags \in Flags
    BY <2>0 DEF FileSysSound, FilesExact, DiskServed, RunType
  <2>2. flags.crashes \in Nat
    BY <2>1 DEF Flags
  <2> QED BY <2>1, <2>2 DEF Quiet, Calm
<1> QED BY <1>1, AlwaysSound, PTL

-----------------------------------------------------------------------------
(* The bytes of the files, while the machine does not crash: headers and   *)
(* requests are within their files (Measured), the files that live are     *)
(* listed where a flush finds them and leaves them (Listing), and what is  *)
(* on the disk and in the buffers is what was written (Intact).            *)

(* The bytes of the files.  A position is sector i of its file, byte j.    *)
ByteAt(i, j) == i * SectorSize + j - 1

(* The sector and the byte of a position, *)
LEMMA ByteOf ==
    ASSUME NEW i \in Nat, NEW j \in 1 .. SectorSize
    PROVE  /\ ByteAt(i, j) \in Nat /\ ByteAt(i, j) \div SectorSize = i
           /\ ByteAt(i, j) % SectorSize = j - 1
           /\ i * SectorSize + j = ByteAt(i, j) + 1
           /\ i * SectorSize \in Nat /\ (i * SectorSize) \div SectorSize = i
<1>1. SectorSize \in Nat \ {0} /\ j - 1 \in 0 .. SectorSize - 1 /\ 0 \in 0 .. SectorSize - 1
  BY DiskAssumption
<1>2. SectorSize * i \in Nat /\ i * SectorSize = (SectorSize * i) + 0
  BY <1>1, Product
<1> DEFINE p == SectorSize * i
<1>3. /\ ByteAt(i, j) = p + (j - 1) /\ p \in Nat /\ i * SectorSize = p + 0
  BY <1>1, <1>2 DEF ByteAt
<1> HIDE DEF p
<1>4. ByteAt(i, j) \in Nat /\ i * SectorSize \in Nat
  BY <1>1, <1>3
<1>5. ByteAt(i, j) \div SectorSize = i /\ ByteAt(i, j) % SectorSize = j - 1
  <2>1. ByteAt(i, j) = (SectorSize * i) + (j - 1)
    BY <1>3 DEF p
  <2> QED BY Zenon, <1>1, <1>4, <2>1, Quotient
<1>6. (i * SectorSize) \div SectorSize = i
  BY Zenon, <1>1, <1>2, <1>4, Quotient
<1> QED BY <1>1, <1>3, <1>4, <1>5, <1>6

(* and the position that they are. *)
LEMMA OfByte ==
    ASSUME NEW k \in Nat
    PROVE  /\ k \div SectorSize \in Nat /\ (k % SectorSize) + 1 \in 1 .. SectorSize
           /\ ByteAt(k \div SectorSize, (k % SectorSize) + 1) = k
<1>1. SectorSize \in Nat \ {0}
  BY DiskAssumption
<1> DEFINE q == k \div SectorSize
           m == k % SectorSize
<1>2. q \in Nat /\ m \in 0 .. SectorSize - 1 /\ k = (SectorSize * q) + m
  BY <1>1, Divided, Division
<1> HIDE DEF q, m
<1>3. SectorSize * q \in Nat /\ q * SectorSize = SectorSize * q
  BY <1>1, <1>2, Product
<1>4. ByteAt(q, m + 1) = k
  BY <1>1, <1>2, <1>3 DEF ByteAt
<1> QED BY <1>1, <1>2, <1>4 DEF q, m

(* The bytes that are read or written, and that there are some. *)
Bytes(r) == r.position .. r.position + r.numBytes - 1
Asked(r) == r.position \in Nat /\ r.numBytes \in Nat \ {0}

(* Where a request is. *)
LEMMA SpanIs ==
    ASSUME NEW r, Asked(r)
    PROVE  /\ FirstSector(r) \in Nat /\ LastSector(r) \in Nat /\ FirstSector(r) <= LastSector(r)
           /\ Bytes(r) \subseteq Nat
           /\ \A k \in Bytes(r) : k \div SectorSize \in FirstSector(r) .. LastSector(r)
<1> DEFINE p == r.position
           last == r.position + r.numBytes - 1
<1>1. p \in Nat /\ last \in Nat /\ p <= last /\ SectorSize \in Nat \ {0}
  BY DiskAssumption DEF Asked
<1>2. FirstSector(r) = p \div SectorSize /\ LastSector(r) = last \div SectorSize
       /\ Bytes(r) = p .. last
  BY DEF FirstSector, LastSector, Bytes
<1> HIDE DEF p, last
<1>3. p \div SectorSize \in Nat /\ last \div SectorSize \in Nat
  BY <1>1, Divided
<1>4. p \div SectorSize <= last \div SectorSize
  BY <1>1, QuotientsGrow
<1>5. ASSUME NEW k \in p .. last
      PROVE  k \in Nat /\ k \div SectorSize \in (p \div SectorSize) .. (last \div SectorSize)
  <2>1. k \in Nat /\ p <= k /\ k <= last
    BY <1>1
  <2>2. k \div SectorSize \in Nat
    BY <1>1, <2>1, Divided
  <2>3. p \div SectorSize <= k \div SectorSize /\ k \div SectorSize <= last \div SectorSize
    BY <1>1, <2>1, QuotientsGrow
  <2> QED BY <1>3, <2>1, <2>2, <2>3
<1> QED BY <1>2, <1>3, <1>4, <1>5

(* A header of a file: within the largest size, its sectors all different. *)
Fits(h) ==
    /\ h.numBytes <= Max(Sizes)
    /\ \A i, j \in DOMAIN h.dataSectors : h.dataSectors[i] = h.dataSectors[j] => i = j

(* A read or a write within the file that its thread has open. *)
Moving(r, f) ==
    /\ f.sector \in Sectors /\ r.name = f.name /\ Asked(r)
    /\ r.position + r.numBytes <= f.hdr.numBytes
    /\ r.i \in FirstSector(r) .. LastSector(r)
    /\ r.buf = [k \in 1 .. Span(r) |-> r.buf[k]]

(* What a run and the file its thread has open hold, besides. *)
RunSound(r, f) ==
    /\ Fits(r.hdr) /\ Fits(f.hdr)
    /\ f.sector \in Sectors => f.name \in Names
    /\ r.op = "Create" => r.numBytes \in Sizes
    /\ r.op \in {"Read", "Write"} => Moving(r, f)

(* The bytes that were written. *)
HistoryType(w) == w = [n \in Names |-> [k \in 0 .. Max(Sizes) - 1 |-> w[n][k]]]

(* The headers and the requests are those of files, and so is the history. *)
Measured ==
    /\ HistoryType(written) /\ \A s \in Sectors : Fits(disk.sec[s].hdr)
    /\ \A t \in Threads : RunSound(run[t], file[t])

(* No file is larger than the largest size. *)
LEMMA LargestSize ==
    /\ Max(Sizes) \in Nat /\ (\A n \in Sizes : n \in Nat /\ n <= Max(Sizes)) /\ Fits(NoHdr)
<1>1. Max(Sizes) \in Sizes /\ \A n \in Sizes : Max(Sizes) >= n
  BY MaxNat, FileSizesAssumption
<1>2. Sizes \subseteq Nat
  BY FileSizesAssumption
<1>3. Fits(NoHdr)
  <2>1. NoHdr.numBytes = 0 /\ NoHdr.dataSectors = << >>
    BY DEF NoHdr
  <2>2. DOMAIN NoHdr.dataSectors = {}
    BY <2>1
  <2> QED BY <1>1, <1>2, <2>1, <2>2 DEF Fits
<1> QED BY <1>1, <1>2, <1>3

(* BitMap::Find finds different sectors. *)
LEMMA AllocateFits ==
    ASSUME NEW map, NEW n \in Sizes, divRoundUp(n, SectorSize) <= Cardinality(Sectors \ map),
           NEW hdr, hdr = Allocate(map, n)
    PROVE  Fits(hdr)
<1> DEFINE m == divRoundUp(n, SectorSize)
           clear == Sectors \ map
           Below(s) == Cardinality({c \in clear : c < s})
<1>1. n \in Nat /\ n <= Max(Sizes) /\ m \in Nat
  BY LargestSize, Numbers
<1>2. hdr.numBytes = n /\ hdr.dataSectors = [k \in 1 .. m |-> CHOOSE s \in clear : Below(s) = k - 1]
  BY DEF Allocate, FindSectors
<1>3. clear \subseteq Nat /\ IsFiniteSet(clear) /\ m <= Cardinality(clear)
  BY Numbers, FS_Subset
<1> HIDE DEF m
<1>4. ASSUME NEW k \in 1 .. m
      PROVE  Below(CHOOSE s \in clear : Below(s) = k - 1) = k - 1
  <2>1. k - 1 \in Nat /\ k - 1 < Cardinality(clear)
    BY <1>1, <1>3, FS_CardinalityType
  <2> HIDE DEF clear
  <2>2. \E s \in clear : Below(s) = k - 1
    BY <1>3, <2>1, KthSmallest
  <2> QED BY <2>2
<1> HIDE DEF clear, Below
<1>5. ASSUME NEW i \in 1 .. m, NEW j \in 1 .. m, hdr.dataSectors[i] = hdr.dataSectors[j]
      PROVE  i = j
  <2>1. Below(hdr.dataSectors[i]) = i - 1 /\ Below(hdr.dataSectors[j]) = j - 1
    BY <1>2, <1>4
  <2> QED BY <1>1, <1>5, <2>1
<1>6. DOMAIN hdr.dataSectors = 1 .. m
  BY <1>2
<1> QED BY <1>1, <1>2, <1>5, <1>6 DEF Fits

(* What the beginning of an operation tells of those that overlap it. *)
LEMMA BeginHistory ==
    ASSUME RunType, NEW t \in Threads, NEW r, Fields(r), Begin(t, r)
    PROVE  /\ UNCHANGED <<written, lastRead>>
           /\ ~run'[t].raced => \A u \in Threads \ {t} : {run[u].op, r.op} # {"Read", "Write"}
           /\ \A u \in Threads \ {t} :
                ~run'[u].raced => ~run[u].raced /\ {run[u].op, r.op} # {"Read", "Write"}
           /\ ~flags'.overlapped => \A u \in Threads :
                ~({run[u].op, r.op} = {"Write"} /\ run[u].name = r.name)
<1> DEFINE raced(u) == u # t /\ {run[u].op, r.op} \in {{"Read", "Write"}}
           me == [r EXCEPT !.raced = \E u \in Threads : raced(u)]
           other(u) == [run[u] EXCEPT !.raced = @ \/ raced(u)]
           over == \E u \in Threads :
                          \/ {run[u].op, r.op} \subseteq Modifiers
                          \/ {run[u].op, r.op} = {"Write"} /\ run[u].name = r.name
<1>1. /\ run' = [u \in Threads |-> IF u = t THEN me ELSE other(u)]
      /\ flags' = [flags EXCEPT !.overlapped = @ \/ over]
      /\ UNCHANGED <<written, lastRead>>
  BY DEF Begin
<1>2. flags \in Flags /\ \A u \in Threads : Fields(run[u])
  BY DEF RunType
<1>3. \A x : Fields(x) => \A b : [x EXCEPT !.raced = b].raced = b
  BY DEF Fields
<1>4. me.raced = (\E u \in Threads : raced(u))
  BY Zenon, <1>3
<1>5. \A u \in Threads : other(u).raced = (run[u].raced \/ raced(u))
  BY Zenon, <1>2, <1>3
<1> HIDE DEF me, other
<1>6. run'[t] = me /\ \A u \in Threads \ {t} : run'[u] = other(u)
  BY <1>1
<1>7. ~run'[t].raced => ~\E u \in Threads : raced(u)
  BY Zenon, <1>4, <1>6
<1>8. \A u \in Threads \ {t} : ~run'[u].raced => ~run[u].raced /\ ~raced(u)
  BY Zenon, <1>5, <1>6
<1> HIDE DEF over
<1>9. ~flags'.overlapped => ~over
  BY <1>1, <1>2 DEF Flags
<1>10. ~flags'.overlapped => \A u \in Threads :
         ~({run[u].op, r.op} = {"Write"} /\ run[u].name = r.name)
  BY <1>9 DEF over
<1> QED BY <1>1, <1>7, <1>8, <1>10

(* What a request leaves in the buffer and adds to the history, *)
LEMMA RequestHistory ==
    ASSUME DiskServed, NEW t \in Threads, Request(t),
           NEW r, r = run[t], NEW bytes, bytes = {k \in Bytes(r) : k \div SectorSize = r.i}
    PROVE  /\ run'[t].value = r.value /\ run'[t].raced = r.raced
           /\ run'[t].buf =
                CASE r.pc = "readData" -> [r.buf EXCEPT ![r.i - FirstSector(r) + 1] = Fetched(t, r.i)]
                  [] r.pc = "rmwFirst" -> [r.buf EXCEPT ![1] = Fetched(t, FirstSector(r))]
                  [] r.pc = "rmwLast" -> [r.buf EXCEPT ![Len(r.buf)] = Fetched(t, LastSector(r))]
                  [] OTHER -> r.buf
           /\ written' = IF r.pc = "writeData" /\ UpToDate(t)
                         THEN [written EXCEPT ![r.name] =
                                 [k \in DOMAIN written[r.name] |->
                                    IF k \in bytes THEN r.value ELSE written[r.name][k]]]
                         ELSE written
           /\ UNCHANGED <<live, lastRead>>
<1>1. ~synchDisk.active /\ RunType
  BY DEF Request, DiskServed, LockExact
<1> DEFINE into == ReadInto(t)
<1>2. /\ run' = [run EXCEPT ![t] = [into EXCEPT !.waiting = TRUE]]
      /\ UNCHANGED <<live, lastRead>>
  BY <1>1 DEF Request
<1>3. written' = IF r.pc = "writeData" /\ UpToDate(t)
                 THEN [written EXCEPT ![r.name] =
                         [k \in DOMAIN written[r.name] |->
                            IF k \in bytes THEN r.value ELSE written[r.name][k]]]
                 ELSE written
  BY Zenon, <1>1 DEF Request, Bytes
<1>4. Fields(r) /\ Fields(into)
  BY <1>1, ReadIntoIs DEF RunType
<1>5. into.value = r.value /\ into.raced = r.raced
      /\ into.buf = CASE r.pc = "readData" ->
                             [r.buf EXCEPT ![r.i - FirstSector(r) + 1] = Fetched(t, r.i)]
                      [] r.pc = "rmwFirst" -> [r.buf EXCEPT ![1] = Fetched(t, FirstSector(r))]
                      [] r.pc = "rmwLast" -> [r.buf EXCEPT ![Len(r.buf)] = Fetched(t, LastSector(r))]
                      [] OTHER -> r.buf
  <2>1. \A x : /\ [r EXCEPT !.buf = x].buf = x /\ [r EXCEPT !.buf = x].value = r.value
               /\ [r EXCEPT !.buf = x].raced = r.raced
    BY <1>4 DEF Fields
  <2>2. CASE r.pc = "readData"
    <3>1. PICK x : x = [r.buf EXCEPT ![r.i - FirstSector(r) + 1] = Fetched(t, r.i)]
      OBVIOUS
    <3>2. into = [r EXCEPT !.buf = x]
      BY <2>2, <3>1 DEF ReadInto
    <3> QED BY <2>1, <2>2, <3>1, <3>2
  <2>3. CASE r.pc = "rmwFirst"
    <3>1. PICK x : x = [r.buf EXCEPT ![1] = Fetched(t, FirstSector(r))]
      OBVIOUS
    <3>2. into = [r EXCEPT !.buf = x]
      BY <2>3, <3>1 DEF ReadInto
    <3> QED BY <2>1, <2>3, <3>1, <3>2
  <2>4. CASE r.pc = "rmwLast"
    <3>1. PICK x : x = [r.buf EXCEPT ![Len(r.buf)] = Fetched(t, LastSector(r))]
      OBVIOUS
    <3>2. into = [r EXCEPT !.buf = x]
      BY <2>4, <3>1 DEF ReadInto
    <3> QED BY <2>1, <2>4, <3>1, <3>2
  <2>5. CASE r.pc \notin {"readData", "rmwFirst", "rmwLast"}
    <3>1. into.value = r.value /\ into.raced = r.raced /\ into.buf = r.buf
      <4>1. r.pc = "dir1" => \E x : into = [r EXCEPT !.dir = x]
        BY DEF ReadInto
      <4>2. r.pc = "dir2" => \E x : into = [r EXCEPT !.dir = x]
        BY DEF ReadInto
      <4>3. r.pc = "map" => \E x : into = [r EXCEPT !.map = x]
        BY DEF ReadInto, FetchMap
      <4>4. r.pc = "hdr" => \E x : into = [r EXCEPT !.hdr = x]
        BY DEF ReadInto
      <4>5. r.pc \notin {"dir1", "dir2", "map", "hdr"} => into = r
        BY <2>5 DEF ReadInto
      <4>9. r.pc = "dir1" \/ r.pc = "dir2" \/ r.pc = "map" \/ r.pc = "hdr" \/ into = r
        BY <4>5
      <4> HIDE DEF into
      <4> DEFINE Rest(a) == a.value = r.value /\ a.raced = r.raced /\ a.buf = r.buf
      <4>6. ASSUME NEW x, \/ into = [r EXCEPT !.dir = x] \/ into = [r EXCEPT !.map = x]
                          \/ into = [r EXCEPT !.hdr = x]
            PROVE  Rest(into)
        BY <1>4, <4>6 DEF Fields
      <4>7. into = r => Rest(into)
        OBVIOUS
      <4> HIDE DEF Rest
      <4>8. Rest(into)
        BY <4>1, <4>2, <4>3, <4>4, <4>6, <4>7, <4>9
      <4> QED BY <4>8 DEF Rest
    <3> QED BY <2>5, <3>1
  <2> QED BY <2>2, <2>3, <2>4, <2>5
<1> HIDE DEF into
<1>6. run'[t] = [into EXCEPT !.waiting = TRUE]
  BY <1>1, <1>2 DEF RunType
<1>7. run'[t].value = into.value /\ run'[t].raced = into.raced /\ run'[t].buf = into.buf
  BY <1>4, <1>6 DEF Fields
<1> QED BY <1>2, <1>3, <1>5, <1>7

(* of that, what does not name the bytes, *)
LEMMA RequestBuffer ==
    ASSUME DiskServed, NEW t \in Threads, Request(t), NEW r, r = run[t]
    PROVE  /\ run'[t].value = r.value /\ run'[t].raced = r.raced
           /\ run'[t].buf =
                CASE r.pc = "readData" -> [r.buf EXCEPT ![r.i - FirstSector(r) + 1] = Fetched(t, r.i)]
                  [] r.pc = "rmwFirst" -> [r.buf EXCEPT ![1] = Fetched(t, FirstSector(r))]
                  [] r.pc = "rmwLast" -> [r.buf EXCEPT ![Len(r.buf)] = Fetched(t, LastSector(r))]
                  [] OTHER -> r.buf
           /\ ~(r.pc = "writeData" /\ UpToDate(t)) => written' = written
           /\ UNCHANGED <<live, lastRead>>
<1>1. PICK bytes : bytes = {k \in Bytes(r) : k \div SectorSize = r.i}
  OBVIOUS
<1> QED BY ZenonT(60), <1>1, RequestHistory

(* and what the end of one does. *)
LEMMA CompleteHistory ==
    ASSUME NEW t \in Threads, Complete(t), NEW r, r = run[t]
    PROVE  /\ written' = IF r.op = "Create" /\ r.pc = "writeMap"
                         THEN [written EXCEPT ![r.name] = Unwritten] ELSE written
           /\ lastRead' = IF /\ r.op = "Read" /\ After(r) = Idle /\ live[r.name] /\ UpToDate(t)
                             /\ ~r.raced
                          THEN ReadsBack(t) ELSE TRUE
  BY DEF Complete

(* An operation begins: all of it. *)
Started(t, r) ==
    /\ Alike(run'[t], r) /\ \A u \in Threads \ {t} : Alike(run'[u], run[u])
    /\ run[t].op = "idle" /\ r.op \in {"Create", "Remove", "Open", "Read", "Write"}
    /\ r.pc \notin Flushing /\ r.waiting = FALSE /\ r.hdr = NoHdr
    /\ r.op \in {"Create", "Remove", "Open"} => r.name \in Names
    /\ r.op = "Create" => r.numBytes \in Sizes
    /\ r.op \in {"Read", "Write"} =>
         /\ Moving(r, file[t]) /\ r.i = FirstSector(r) /\ r.pc = FirstTransfer(r)
    /\ r.op \in Modifiers => \A u \in Threads : run[u].op \notin Modifiers
    /\ live' = IF r.op = "Remove" THEN [live EXCEPT ![r.name] = FALSE] ELSE live
    /\ ~run'[t].raced => \A u \in Threads \ {t} : {run[u].op, r.op} # {"Read", "Write"}
    /\ \A u \in Threads \ {t} :
         ~run'[u].raced => ~run[u].raced /\ {run[u].op, r.op} # {"Read", "Write"}
    /\ \A u \in Threads : ~({run[u].op, r.op} = {"Write"} /\ run[u].name = r.name)
    /\ UNCHANGED <<disk, file, written, lastRead>>

(* What a step is while nothing goes wrong. *)
LEMMA QuietStep ==
    ASSUME FileSysSound, [FileSysNext]_fileSysVars, Quiet'
    PROVE  /\ Quiet /\ FilesExact /\ FilesExact' /\ DiskServed /\ DiskServed'
           /\ \/ \E t \in Threads : \E r : Started(t, r)
              \/ \E t \in Threads : Request(t) \/ Complete(t)
              \/ UNCHANGED <<disk, run, file, live, written, lastRead>>
<1>1. DiskServed /\ DiskServed' /\ (Quiet => FilesExact) /\ FilesExact' /\ RunType
  BY NextQuiet DEF FileSysSound, DiskServed
<1>2. ASSUME NEW t \in Threads, NEW r, Fields(r), Begin(t, r)
      PROVE  /\ Quiet /\ FilesExact /\ UNCHANGED <<disk, file, written, lastRead>>
             /\ Alike(run'[t], r) /\ \A u \in Threads \ {t} : Alike(run'[u], run[u])
             /\ run[t].op = "idle"
             /\ r.op \in Modifiers => \A u \in Threads : run[u].op \notin Modifiers
             /\ ~run'[t].raced => \A u \in Threads \ {t} : {run[u].op, r.op} # {"Read", "Write"}
             /\ \A u \in Threads \ {t} :
                  ~run'[u].raced => ~run[u].raced /\ {run[u].op, r.op} # {"Read", "Write"}
             /\ \A u \in Threads : ~({run[u].op, r.op} = {"Write"} /\ run[u].name = r.name)
  <2>1. ~flags'.overlapped /\ flags'.crashes = 0 /\ ~flags'.wild
    BY DEF Quiet, Calm
  <2>2. /\ run[t].op = "idle"
        /\ Alike(run'[t], r) /\ \A u \in Threads \ {t} : Alike(run'[u], run[u])
        /\ UNCHANGED <<disk, file>>
        /\ flags'.wild = flags.wild /\ flags'.crashes = flags.crashes
        /\ ~flags'.overlapped =>
             /\ ~flags.overlapped
             /\ r.op \in Modifiers => \A u \in Threads : run[u].op \notin Modifiers
    BY <1>1, <1>2, BeginIs
  <2>3. Quiet /\ FilesExact
    BY <1>1, <2>1, <2>2 DEF Quiet, Calm
  <2> QED BY <1>1, <1>2, <2>1, <2>2, <2>3, BeginHistory
<1>3. ASSUME NEW t \in Threads, NEW n \in Names,
             (\E size \in Sizes : Create(t, n, size)) \/ Remove(t, n) \/ Open(t, n)
      PROVE  Quiet /\ FilesExact /\ \E r : Started(t, r)
  <2>1. PICK r : CommandBegins(t, n, r)
    BY <1>3, CommandIs
  <2>2. /\ Fields(r) /\ Begin(t, r) /\ r.op \in {"Create", "Remove", "Open"} /\ r.pc = "dir1"
        /\ r.waiting = FALSE /\ r.name = n /\ r.hdr = NoHdr
        /\ r.op = "Create" => r.numBytes \in Sizes
        /\ live' = IF r.op = "Remove" THEN [live EXCEPT ![n] = FALSE] ELSE live
    BY <2>1 DEF CommandBegins
  <2>3. r.pc \notin Flushing /\ r.op \notin {"Read", "Write"}
    BY <2>2 DEF Flushing
  <2>4. Started(t, r)
    BY <1>2, <2>2, <2>3 DEF Started
  <2> QED BY <1>2, <2>2, <2>4
<1>4. ASSUME NEW t \in Threads, NEW op \in {"Read", "Write"}, NEW q \in Nat \X (Nat \ {0}),
             NEW v, Transfer(t, op, q, v)
      PROVE  Quiet /\ FilesExact /\ \E r : Started(t, r)
  <2>1. PICK r : TransferBegins(t, op, q, r)
    BY <1>4, TransferIs
  <2>2. /\ Fields(r) /\ Begin(t, r) /\ r.op = op /\ r.pc \in Places[op] /\ r.waiting = FALSE
        /\ r.pc = FirstTransfer(r) /\ r.buf = [k \in 1 .. Span(r) |-> r.buf[k]]
        /\ r.i = FirstSector(r) /\ r.hdr = NoHdr /\ r.name = file[t].name /\ UNCHANGED live
    BY <2>1 DEF TransferBegins
  <2>3. Quiet /\ FilesExact
    BY <1>2, <2>2
  <2>4. Typed(run[t], file[t])
    BY <2>3 DEF FilesExact
  <2>5. /\ file[t].sector \in Sectors
        /\ r.position \in Nat /\ r.numBytes \in Nat \ {0}
        /\ r.position + r.numBytes <= file[t].hdr.numBytes
        /\ r.i \in FirstSector(r) .. LastSector(r)
    BY <2>1, <2>4, TransferTyped
  <2>6. Moving(r, file[t])
    BY <2>2, <2>5 DEF Moving, Asked
  <2>7. r.pc \notin Flushing /\ r.op \notin {"Create", "Remove", "Open"} /\ r.op \notin Modifiers
    BY <2>2 DEF Flushing, Places, Modifiers
  <2>8. Started(t, r)
    BY <1>2, <2>2, <2>6, <2>7 DEF Started
  <2> QED BY <2>3, <2>8
<1>5. ASSUME NEW t \in Threads, Request(t) \/ Complete(t)
      PROVE  Quiet /\ FilesExact
  <2>1. /\ flags'.overlapped = flags.overlapped /\ flags'.crashes = flags.crashes
        /\ ~flags'.wild => ~flags.wild
    BY <1>1, <1>5, RequestIs, CompleteIs
  <2> QED BY <1>1, <2>1 DEF Quiet, Calm
<1>6. CASE HandleInterrupt \/ UNCHANGED fileSysVars
  <2>1. UNCHANGED <<disk, run, file, live, written, lastRead, flags>>
    BY <1>6 DEF HandleInterrupt, fileSysVars
  <2> QED BY <1>1, <2>1 DEF Quiet, Calm
<1>7. ~Crash
  <2>1. ASSUME Crash PROVE FALSE
    <3>1. flags' = [flags EXCEPT !.crashes = @ + 1] /\ flags \in Flags
      BY <1>1, <2>1 DEF Crash, RunType
    <3>2. flags'.crashes # 0
      BY <3>1 DEF Flags
    <3> QED BY <3>2 DEF Quiet
  <2> QED BY <2>1
<1>8. \A q \in Reads \union Writings : q \in Nat \X (Nat \ {0})
  BY RequestsAssumption
<1>9. CASE \E t \in Threads : Request(t) \/ Complete(t)
  BY <1>1, <1>5, <1>9
<1>10. CASE \/ \E t \in Threads, n \in Names :
                 (\E size \in Sizes : Create(t, n, size)) \/ Remove(t, n) \/ Open(t, n)
            \/ \E t \in Threads, q \in Reads : Transfer(t, "Read", q, 0)
            \/ \E t \in Threads, q \in Writings, v \in Vals : Transfer(t, "Write", q, v)
  BY <1>1, <1>3, <1>4, <1>8, <1>10
<1> QED BY <1>6, <1>7, <1>9, <1>10 DEF FileSysNext

(* Runs alike are measured alike, *)
LEMMA AlikeSound ==
    ASSUME NEW q, NEW r, Alike(q, r), NEW f, RunSound(r, f)
    PROVE  RunSound(q, f)
<1>1. /\ q.op = r.op /\ q.name = r.name /\ q.numBytes = r.numBytes /\ q.position = r.position
      /\ q.hdr = r.hdr /\ q.buf = r.buf /\ q.i = r.i
  BY DEF Alike
<1>2. FirstSector(q) = FirstSector(r) /\ LastSector(q) = LastSector(r) /\ Span(q) = Span(r)
  BY <1>1 DEF FirstSector, LastSector, Span
<1>3. Moving(r, f) => Moving(q, f)
  BY <1>1, <1>2 DEF Moving, Asked
<1> QED BY <1>1, <1>3 DEF RunSound

(* and one that is over has nothing to measure. *)
LEMMA StoppedSound ==
    ASSUME NEW q, Stopped(q), NEW f, Fits(f.hdr), f.sector \in Sectors => f.name \in Names
    PROVE  RunSound(q, f)
  BY LargestSize DEF RunSound, Stopped

(* A write changes one sector. *)
LEMMA SectorSetIs ==
    ASSUME NEW d, DiskType(d), NEW n, NEW s, NEW x, SectorSet(d, n, s, x)
    PROVE  n.dir = d.dir /\ \A c \in Sectors : n.sec[c] = d.sec[c] \/ (c = s /\ n.sec[c] = x)
<1>1. /\ n = [d EXCEPT !.sec = [d.sec EXCEPT ![s] = x]]
      /\ d = [map |-> d.map, dir |-> d.dir, sec |-> d.sec]
      /\ d.sec = [c \in Sectors |-> d.sec[c]]
  BY DEF DiskType, SectorSet
<1>2. n = [map |-> d.map, dir |-> d.dir, sec |-> [d.sec EXCEPT ![s] = x]]
  BY <1>1
<1>3. n.dir = d.dir /\ n.sec = [d.sec EXCEPT ![s] = x]
  BY <1>2
<1> QED BY <1>1, <1>3

(* What each request leaves of the sectors and the directory. *)
LEMMA WhatChanges ==
    ASSUME DiskType(disk), NEW t, NEW r, r = run[t], NEW n, n = WrittenTo(t)
    PROVE  /\ r.pc \notin {"writeHdr", "writeData"} => n.sec = disk.sec
           /\ r.pc \notin {"writeDir1", "writeDir2"} => n.dir = disk.dir
           /\ r.pc = "writeHdr" => \A c \in Sectors :
                \/ n.sec[c] = disk.sec[c]
                \/ c = r.sector /\ n.sec[c] = Sector("hdr", r.hdr, Blank)
           /\ r.pc = "writeData" => \A c \in Sectors :
                \/ n.sec[c] = disk.sec[c]
                \/ /\ c = ByteToSector(file[t].hdr, r.i * SectorSize)
                   /\ n.sec[c] = Sector("data", NoHdr, Changed(r, r.i))
<1>1. disk = [map |-> disk.map, dir |-> disk.dir, sec |-> disk.sec]
  BY DEF DiskType
<1>2. ASSUME NEW p, NEW dir, DirSet(disk, n, p, dir) PROVE n.sec = disk.sec
  BY <1>1, <1>2 DEF DirSet
<1>3. ASSUME NEW map, MapSet(disk, n, map) PROVE n.sec = disk.sec /\ n.dir = disk.dir
  BY <1>1, <1>3 DEF MapSet
<1>4. CASE r.pc \in {"writeHdr", "writeData"}
  BY <1>4, WrittenIs, SectorSetIs
<1>5. CASE r.pc \in {"writeDir1", "writeDir2"}
  BY <1>2, <1>5, WrittenIs
<1>6. CASE r.pc = "writeMap"
  BY <1>3, <1>6, WrittenIs
<1>7. CASE r.pc \notin {"writeHdr", "writeDir1", "writeDir2", "writeMap", "writeData"}
  BY <1>7, WrittenIs
<1> QED BY <1>4, <1>5, <1>6, <1>7

(* The history of one file is rewritten. *)
LEMMA HistorySet ==
    ASSUME NEW w, HistoryType(w), NEW n \in Names, NEW f, DOMAIN f = DOMAIN w[n],
           f = [k \in DOMAIN f |-> f[k]], NEW v, v = [w EXCEPT ![n] = f]
    PROVE  /\ HistoryType(v) /\ v[n] = f /\ \A m \in Names \ {n} : v[m] = w[m]
           /\ DOMAIN w[n] = 0 .. Max(Sizes) - 1
<1> DEFINE D == 0 .. Max(Sizes) - 1
<1>1. w = [m \in Names |-> [k \in D |-> w[m][k]]]
  BY DEF HistoryType
<1> HIDE DEF D
<1>2. DOMAIN w[n] = D /\ f = [k \in D |-> f[k]] /\ v[n] = f /\ \A m \in Names \ {n} : v[m] = w[m]
  BY <1>1
<1>3. ASSUME NEW m \in Names PROVE v[m] = [k \in D |-> v[m][k]]
  BY <1>1, <1>2
<1>4. v = [m \in Names |-> v[m]]
  BY <1>1
<1>5. v = [m \in Names |-> [k \in D |-> v[m][k]]]
  BY <1>3, <1>4
<1> QED BY <1>2, <1>5 DEF HistoryType, D

(* A request leaves the measures as they are, *)
LEMMA RequestMeasured ==
    ASSUME FilesExact, DiskServed, NEW t \in Threads, Request(t), Measured
    PROVE  Measured'
<1> DEFINE r == run[t]
           q == run'[t]
<1>1. /\ r.op # "idle" /\ Fields(r)
      /\ q.op = r.op /\ q.name = r.name /\ q.numBytes = r.numBytes
      /\ q.position = r.position /\ q.i = r.i
      /\ q.hdr = IF r.pc = "hdr" THEN disk.sec[r.sector].hdr ELSE r.hdr
      /\ \A u \in Threads \ {t} : run'[u] = run[u]
      /\ disk' = WrittenTo(t) /\ UNCHANGED file
  BY RequestIs
<1>2. /\ HistoryType(written) /\ \A s \in Sectors : Fits(disk.sec[s].hdr)
      /\ \A u \in Threads : RunSound(run[u], file[u])
  BY DEF Measured
<1>3. DiskType(disk) /\ Typed(r, file[t])
  BY DEF FilesExact
<1>4. r.op \in DOMAIN Places /\ r.pc \in Places[r.op]
  BY DEF DiskServed, RunType
<1>5. \A s \in Sectors : Fits(disk'.sec[s].hdr)
  <2> DEFINE x == Sector("hdr", r.hdr, Blank)
             y == Sector("data", NoHdr, Changed(r, r.i))
  <2>1. x.hdr = r.hdr /\ y.hdr = NoHdr
    BY DEF Sector
  <2> HIDE DEF x, y
  <2>2. \A c \in Sectors : disk'.sec[c] = disk.sec[c] \/ disk'.sec[c] = x \/ disk'.sec[c] = y
    <3>1. /\ r.pc \notin {"writeHdr", "writeData"} => disk'.sec = disk.sec
          /\ r.pc = "writeHdr" => \A c \in Sectors : disk'.sec[c] = disk.sec[c] \/ disk'.sec[c] = x
          /\ r.pc = "writeData" => \A c \in Sectors : disk'.sec[c] = disk.sec[c] \/ disk'.sec[c] = y
      BY <1>1, <1>3, WhatChanges DEF x, y
    <3> QED BY <3>1
  <2>3. Fits(r.hdr)
    BY <1>2 DEF RunSound
  <2> QED BY <1>2, <2>1, <2>2, <2>3, LargestSize
<1>6. HistoryType(written')
  <2>1. CASE r.pc = "writeData" /\ UpToDate(t)
    <3> DEFINE bytes == {k \in Bytes(r) : k \div SectorSize = r.i}
               f == [k \in DOMAIN written[r.name] |->
                       IF k \in bytes THEN r.value ELSE written[r.name][k]]
    <3>1. written' = [written EXCEPT ![r.name] = f]
      BY <2>1, RequestHistory
    <3>2. r.name \in Names
      <4>1. r.op = "Write"
        BY <1>1, <1>4, <2>1 DEF Places
      <4> QED BY <1>2, <4>1 DEF RunSound, Moving
    <3>3. DOMAIN f = DOMAIN written[r.name] /\ f = [k \in DOMAIN f |-> f[k]]
      OBVIOUS
    <3> HIDE DEF f
    <3> QED BY <1>2, <3>1, <3>2, <3>3, HistorySet
  <2>2. CASE ~(r.pc = "writeData" /\ UpToDate(t))
    <3>1. written' = written
      BY <2>2, RequestBuffer
    <3> QED BY <1>2, <3>1
  <2> QED BY <2>1, <2>2
<1>7. RunSound(q, file[t])
  <2>1. RunSound(r, file[t])
    BY <1>2
  <2>2. Fits(q.hdr)
    <3>1. r.pc = "hdr" => r.sector \in Sectors
      BY <1>3 DEF Typed
    <3> QED BY <1>1, <1>2, <2>1, <3>1 DEF RunSound
  <2>3. r.op \in {"Read", "Write"} => Moving(q, file[t])
    <3>1. SUFFICES ASSUME r.op \in {"Read", "Write"} PROVE Moving(q, file[t])
      OBVIOUS
    <3>2. Moving(r, file[t])
      BY <2>1, <3>1 DEF RunSound
    <3>3. FirstSector(q) = FirstSector(r) /\ LastSector(q) = LastSector(r) /\ Span(q) = Span(r)
      BY <1>1 DEF FirstSector, LastSector, Span
    <3>4. r.buf = [k \in 1 .. Span(r) |-> r.buf[k]]
      BY <3>2 DEF Moving
    <3>5. \A k, x : DOMAIN [r.buf EXCEPT ![k] = x] = 1 .. Span(r)
                    /\ [r.buf EXCEPT ![k] = x] = [j \in 1 .. Span(r) |-> [r.buf EXCEPT ![k] = x][j]]
      BY <3>4
    <3>6. (\E k, x : q.buf = [r.buf EXCEPT ![k] = x]) \/ q.buf = r.buf
      <4>1. q.buf =
                CASE r.pc = "readData" -> [r.buf EXCEPT ![r.i - FirstSector(r) + 1] = Fetched(t, r.i)]
                  [] r.pc = "rmwFirst" -> [r.buf EXCEPT ![1] = Fetched(t, FirstSector(r))]
                  [] r.pc = "rmwLast" -> [r.buf EXCEPT ![Len(r.buf)] = Fetched(t, LastSector(r))]
                  [] OTHER -> r.buf
        BY RequestBuffer
      <4> QED BY <4>1
    <3>7. q.buf = [k \in 1 .. Span(q) |-> q.buf[k]]
      BY <3>3, <3>4, <3>5, <3>6
    <3> QED BY <1>1, <3>2, <3>3, <3>7 DEF Moving, Asked
  <2> QED BY <1>1, <2>1, <2>2, <2>3 DEF RunSound
<1> QED BY <1>1, <1>2, <1>5, <1>6, <1>7 DEF Measured

(* the end of one too, *)
LEMMA CompleteMeasured ==
    ASSUME FilesExact, DiskServed, NEW t \in Threads, Complete(t), Measured
    PROVE  Measured'
<1> DEFINE r == run[t]
           q == run'[t]
<1>1. /\ r.op # "idle" /\ Runs(r) /\ Completed(r, q)
      /\ \A u \in Threads \ {t} : run'[u] = run[u]
      /\ file' = IF r.op = "Open" /\ r.pc = "hdr"
                 THEN [file EXCEPT ![t] = OpenFile(r.name, r.sector, r.hdr)] ELSE file
      /\ UNCHANGED disk
  BY CompleteIs DEF Runs, Completed
<1>2. /\ HistoryType(written) /\ \A s \in Sectors : Fits(disk.sec[s].hdr)
      /\ \A u \in Threads : RunSound(run[u], file[u])
  BY DEF Measured
<1>3. DiskType(disk) /\ Typed(r, file[t]) /\ file = [u \in Threads |-> file[u]]
  BY DEF FilesExact
<1>4. r.op \in DOMAIN Places /\ r.pc \in Places[r.op] /\ RunSound(r, file[t])
  BY <1>1, <1>2 DEF Runs
<1>5. HistoryType(written')
  <2>1. CASE r.op = "Create" /\ r.pc = "writeMap"
    <3> DEFINE f == Unwritten
    <3>1. written' = [written EXCEPT ![r.name] = f]
      BY <2>1, CompleteHistory
    <3>2. r.name \in Names
      BY <1>3, <2>1 DEF Typed
    <3>3. DOMAIN f = DOMAIN written[r.name] /\ f = [k \in DOMAIN f |-> f[k]]
      BY <1>2, <3>2 DEF Unwritten, HistoryType
    <3> HIDE DEF f
    <3> QED BY <1>2, <3>1, <3>2, <3>3, HistorySet
  <2>2. CASE ~(r.op = "Create" /\ r.pc = "writeMap")
    <3>1. written' = written
      BY <2>2, CompleteHistory
    <3> QED BY <1>2, <3>1
  <2> QED BY <2>1, <2>2
<1>6. CASE r.op \in {"Read", "Write"}
  <2>1. Carried(r, q)
    BY <1>1, <1>6, CarriedIs
  <2>2. CASE Stopped(q)
    BY <1>1, <1>2, <1>4, <1>5, <1>6, <2>2, StoppedSound DEF RunSound, Measured
  <2>3. CASE ~Stopped(q)
    <3>1. /\ q.op = r.op /\ q.name = r.name /\ q.numBytes = r.numBytes
          /\ q.position = r.position /\ q.hdr = r.hdr /\ q.buf = r.buf
          /\ q.i = r.i \/ (r.i # LastSector(r) /\ q.i = r.i + 1)
      BY <2>1, <2>3 DEF Carried, Kept, KeptBuffer
    <3>2. FirstSector(q) = FirstSector(r) /\ LastSector(q) = LastSector(r) /\ Span(q) = Span(r)
      BY <3>1 DEF FirstSector, LastSector, Span
    <3>3. Moving(r, file[t])
      BY <1>4, <1>6 DEF RunSound
    <3>4. q.i \in FirstSector(q) .. LastSector(q)
      <4>1. FirstSector(r) \in Nat /\ LastSector(r) \in Nat /\ r.i \in FirstSector(r) .. LastSector(r)
        BY <3>3, SpanIs DEF Moving
      <4> QED BY <3>1, <3>2, <4>1
    <3>5. Moving(q, file[t])
      BY <3>1, <3>2, <3>3, <3>4 DEF Moving, Asked
    <3>6. RunSound(q, file[t])
      BY <1>4, <1>6, <3>1, <3>5 DEF RunSound
    <3> QED BY <1>1, <1>2, <1>5, <1>6, <3>6 DEF Measured
  <2> QED BY <2>2, <2>3
<1>7. CASE r.op \in {"Create", "Remove", "Open"}
  <2>1. \/ Stopped(q)
        \/ q.op = r.op /\ q.numBytes = r.numBytes /\ Fits(q.hdr)
    <3>1. r.pc # "map" => Stopped(q) \/ (Kept(r, q) /\ q.hdr = r.hdr)
      <4>1. r.pc # "map" => Stopped(q) \/ (\E p : Moved(r, q, p)) \/ Opening(r, q)
        BY <1>1, <1>7, CompletedIs DEF Runs, Places
      <4> QED BY <4>1 DEF Moved, Opening
    <3>2. CASE r.pc # "map"
      BY <1>4, <3>1, <3>2 DEF Kept, RunSound
    <3>3. CASE r.pc = "map" /\ r.op = "Create"
      <4>1. Stopped(q) \/ Created(r, q)
        BY <1>1, <3>3, CompletedIs
      <4>2. ASSUME Created(r, q) PROVE Fits(q.hdr)
        <5> DEFINE map1 == r.map \union {FindSectors(r.map, 1)[1]}
        <5>1. /\ ~(Cardinality(Sectors \ map1) < divRoundUp(r.numBytes, SectorSize))
              /\ q.hdr = Allocate(map1, r.numBytes)
          BY <4>2 DEF Created
        <5> HIDE DEF map1
        <5>2. r.numBytes \in Sizes /\ r.numBytes \in Nat
          BY <1>4, <3>3, LargestSize DEF RunSound
        <5>3. IsFiniteSet(Sectors \ map1)
          BY Numbers, FS_Subset
        <5>4. Cardinality(Sectors \ map1) \in Nat
          BY <5>3, FS_CardinalityType
        <5>5. divRoundUp(r.numBytes, SectorSize) \in Nat
          BY <5>2, Numbers
        <5>6. divRoundUp(r.numBytes, SectorSize) <= Cardinality(Sectors \ map1)
          BY <5>1, <5>4, <5>5
        <5> QED BY <5>1, <5>2, <5>6, AllocateFits
      <4> QED BY <4>1, <4>2 DEF Created, Kept
    <3>4. CASE r.pc = "map" /\ r.op # "Create"
      <4>1. Removed(r, q)
        BY <1>1, <3>4, CompletedIs
      <4> QED BY <1>4, <4>1 DEF Removed, Kept, RunSound
    <3> QED BY <3>2, <3>3, <3>4
  <2>2. Fits(file'[t].hdr) /\ (file'[t].sector \in Sectors => file'[t].name \in Names)
    <3>1. CASE r.op = "Open" /\ r.pc = "hdr"
      <4>1. file'[t] = [name |-> r.name, sector |-> r.sector, hdr |-> r.hdr]
        BY <1>1, <1>3, <3>1 DEF OpenFile
      <4>2. r.name \in Names
        BY <1>3, <3>1 DEF Typed
      <4> QED BY <1>4, <4>1, <4>2 DEF RunSound
    <3>2. CASE ~(r.op = "Open" /\ r.pc = "hdr")
      BY <1>1, <1>4, <3>2 DEF RunSound
    <3> QED BY <3>1, <3>2
  <2>3. RunSound(q, file'[t])
    <3>1. CASE Stopped(q)
      BY <2>2, <3>1, StoppedSound
    <3>2. CASE ~Stopped(q)
      BY <1>4, <1>7, <2>1, <2>2, <3>2 DEF RunSound
    <3> QED BY <3>1, <3>2
  <2>4. \A u \in Threads \ {t} : file'[u] = file[u]
    BY <1>1, <1>3
  <2> QED BY <1>1, <1>2, <1>5, <2>3, <2>4 DEF Measured
<1> QED BY <1>1, <1>6, <1>7 DEF Runs, Places

(* and the beginning of an operation. *)
LEMMA StartMeasured ==
    ASSUME NEW t \in Threads, NEW r, Started(t, r), Measured
    PROVE  Measured'
<1>1. /\ Alike(run'[t], r) /\ \A u \in Threads \ {t} : Alike(run'[u], run[u])
      /\ UNCHANGED <<disk, file, written>>
      /\ r.op = "Create" => r.numBytes \in Sizes
      /\ r.op \in {"Read", "Write"} => Moving(r, file[t])
      /\ r.hdr = NoHdr
  BY DEF Started
<1>2. \A u \in Threads : RunSound(run[u], file[u])
  BY DEF Measured
<1>3. RunSound(r, file[t])
  BY <1>1, <1>2, LargestSize DEF RunSound
<1>4. \A u \in Threads : RunSound(run'[u], file[u])
  BY <1>1, <1>2, <1>3, AlikeSound
<1> QED BY <1>1, <1>4 DEF Measured

(* At first there is nothing to measure but the file that exists. *)
LEMMA InitMeasured == FileSysInit => Measured
<1> SUFFICES ASSUME FileSysInit PROVE Measured
  OBVIOUS
<1>1. PICK old \in OldNames :
        /\ disk = IF old = NULL THEN Formatted ELSE WithFile(Formatted, old, Max(Sizes))
        /\ file = [t \in Threads |-> IF old # NULL
                     THEN OpenFile(old, disk.dir[0].sector, disk.sec[disk.dir[0].sector].hdr)
                     ELSE NotOpen]
        /\ run = [t \in Threads |-> Idle] /\ written = [n \in Names |-> Unwritten]
  BY DEF FileSysInit
<1>2. \A t \in Threads : Stopped(run[t])
  BY <1>1, IdleIs DEF Stopped
<1>3. HistoryType(written)
  BY <1>1 DEF HistoryType, Unwritten
<1>4. \A s \in Sectors : Formatted.sec[s].hdr = NoHdr
  BY FormattedIs DEF Sector
<1>5. CASE old = NULL
  <2>1. \A t \in Threads : file[t] = NotOpen /\ file[t].hdr = NoHdr /\ file[t].sector \notin Sectors
    BY <1>1, <1>5, Numbers DEF NotOpen
  <2>2. \A t \in Threads : RunSound(run[t], file[t])
    BY <1>2, <2>1, StoppedSound, LargestSize
  <2> QED BY <1>1, <1>3, <1>4, <1>5, <2>2, LargestSize DEF Measured
<1>6. CASE old # NULL
  <2>1. old \in Names
    BY <1>6, NamesAssumption
  <2>2. PICK s : s = FindSectors(System, 1)[1]
    OBVIOUS
  <2>3. PICK hdr : hdr = Allocate(System \union {s}, Max(Sizes))
    OBVIOUS
  <2>4. disk = [map |-> (System \union {s}) \union Range(hdr.dataSectors),
                dir |-> [Formatted.dir EXCEPT ![0] = [inUse |-> TRUE, sector |-> s, name |-> old]],
                sec |-> [Formatted.sec EXCEPT ![s] = Sector("hdr", hdr, Blank)]]
    BY <1>1, <1>6, <2>2, <2>3, FormattedIs DEF WithFile
  <2>5. s \in Sectors \ System
    <3>1. ~(Sectors \subseteq System)
      BY DiskAssumption DEF Sectors, System
    <3> QED BY <2>2, <3>1, FirstFree
  <2>6. Fits(hdr)
    <3> DEFINE size == Max(Sizes)
               taken == System \union {s}
    <3>1. size \in Sizes
      BY MaxNat, FileSizesAssumption
    <3>2. divRoundUp(size, SectorSize) <= Cardinality(Sectors \ taken) /\ hdr = Allocate(taken, size)
      BY <2>3, <2>5, RoomForOne
    <3> HIDE DEF size, taken
    <3> QED BY <3>1, <3>2, AllocateFits
  <2>7. /\ disk.dir = [EmptyDir EXCEPT ![0] = [inUse |-> TRUE, sector |-> s, name |-> old]]
        /\ disk.sec = [Formatted.sec EXCEPT ![s] = Sector("hdr", hdr, Blank)]
    BY <2>4, FormattedIs
  <2>8. disk.sec[s].hdr = hdr /\ \A c \in Sectors \ {s} : disk.sec[c].hdr = NoHdr
    BY <1>4, <2>5, <2>7, FormattedIs DEF Sector
  <2>9. \A c \in Sectors : Fits(disk.sec[c].hdr)
    BY <2>6, <2>8, LargestSize
  <2>10. disk.dir[0].sector \in Sectors
    BY <1>1, <1>6, <2>1, WithFileIs
  <2>11. \A t \in Threads : Fits(file[t].hdr) /\ file[t].name \in Names
    <3>1. \A t \in Threads : file[t] = [name |-> old, sector |-> disk.dir[0].sector,
            hdr |-> disk.sec[disk.dir[0].sector].hdr]
      BY <1>1, <1>6 DEF OpenFile
    <3> QED BY <2>1, <2>9, <2>10, <3>1
  <2>12. \A t \in Threads : RunSound(run[t], file[t])
    BY <1>2, <2>11, StoppedSound
  <2> QED BY <1>3, <2>9, <2>12 DEF Measured
<1> QED BY <1>5, <1>6

(* So headers and requests are always within their files. *)
LEMMA AlwaysMeasured == FileSysSpec => [](Quiet => Measured)
<1>1. FileSysInit => (Quiet => Measured)
  BY InitMeasured
<1>2. FileSysSound /\ (Quiet => Measured) /\ [FileSysNext]_fileSysVars => (Quiet => Measured)'
  <2> SUFFICES ASSUME FileSysSound, Quiet => Measured, [FileSysNext]_fileSysVars, Quiet'
               PROVE  Measured'
    OBVIOUS
  <2>1. /\ Quiet /\ FilesExact /\ FilesExact' /\ DiskServed /\ DiskServed'
        /\ \/ \E t \in Threads : \E r : Started(t, r)
           \/ \E t \in Threads : Request(t) \/ Complete(t)
           \/ UNCHANGED <<disk, run, file, live, written, lastRead>>
    BY QuietStep
  <2>2. Measured
    BY <2>1
  <2>3. CASE UNCHANGED <<disk, run, file, live, written, lastRead>>
    BY <2>2, <2>3 DEF Measured
  <2> QED BY <2>1, <2>2, <2>3, StartMeasured, RequestMeasured, CompleteMeasured
<1> QED BY <1>1, <1>2, AlwaysSound, PTL DEF FileSysSpec

(* A name is found in the first entry that has it, in use or not: the      *)
(* names that Remove leaves in the directory come after it.                *)
Placed(dir, n, c) ==
    /\ c \in DirEntries /\ dir[c].inUse /\ dir[c].name = n
    /\ \A b \in DirEntries : dir[b].name = n => c <= b

(* The files that live are where a flush finds them and leaves them.       *)
Listing(d, lv, rn) ==
    /\ \A n \in Names : lv[n] => \E c : Placed(d.dir, n, c)
    /\ \A t \in Threads : rn[t].pc \in Flushing =>
         /\ ~lv[rn[t].name]
         /\ \A n \in Names : lv[n] =>
              \E c : Placed(d.dir, n, c) /\ Placed(rn[t].dir, n, c) /\ d.dir[c] = rn[t].dir[c]
         /\ rn[t].op = "Create" => \E c : Placed(rn[t].dir, rn[t].name, c)
    /\ \A t \in Threads : rn[t].op = "Remove" => ~lv[rn[t].name]

(* There Directory::Find finds it. *)
LEMMA PlacedFound ==
    ASSUME NEW dir, NEW n, NEW c, Placed(dir, n, c)
    PROVE  FindFile(dir, n) = dir[c].sector
<1> DEFINE L == Listed(dir, n)
<1>1. L = {e \in DirEntries : dir[e].inUse /\ dir[e].name = n} /\ L \subseteq Nat /\ c \in L
  BY Numbers DEF Listed, Placed
<1>2. \A b \in L : c <= b
  BY <1>1 DEF Placed
<1> HIDE DEF L
<1>3. Min(L) \in L /\ \A b \in L : Min(L) <= b
  BY <1>1, MinNat
<1>4. Min(L) = c
  BY <1>1, <1>2, <1>3
<1> QED BY <1>1, <1>4 DEF FindFile, L

(* What a part of a directory takes from two directories that agree. *)
LEMMA PartPlaced ==
    ASSUME NEW src \in Dir, NEW dst \in Dir, NEW p \in {1, 2}, NEW n, NEW c,
           Placed(src, n, c), Placed(dst, n, c), src[c] = dst[c],
           NEW dir, dir = DirPart(p, src, dst)
    PROVE  Placed(dir, n, c) /\ dir[c] = dst[c]
<1>1. \A b \in DirEntries : /\ dir[b].name \in {src[b].name, dst[b].name}
                            /\ src[b] = dst[b] => dir[b] = dst[b]
  <2> SUFFICES ASSUME NEW b \in DirEntries
               PROVE  /\ dir[b].name \in {src[b].name, dst[b].name}
                      /\ src[b] = dst[b] => dir[b] = dst[b]
    OBVIOUS
  <2>1. b < Straddle \/ b > Straddle \/ b = Straddle
    BY Numbers
  <2>2. dst[b] = [inUse |-> dst[b].inUse, sector |-> dst[b].sector, name |-> dst[b].name]
    BY DEF Dir
  <2>3. b # Straddle => dir[b] \in {src[b], dst[b]}
    <3>1. /\ b < Straddle => DirPart(1, src, dst)[b] = src[b] /\ DirPart(2, src, dst)[b] = dst[b]
          /\ b > Straddle => DirPart(1, src, dst)[b] = dst[b] /\ DirPart(2, src, dst)[b] = src[b]
      BY DirPartIs
    <3>2. dir = DirPart(1, src, dst) \/ dir = DirPart(2, src, dst)
      OBVIOUS
    <3> QED BY Zenon, <2>1, <3>1, <3>2
  <2>4. b = Straddle => dir[b] = IF p = 1 THEN [inUse |-> src[b].inUse,
                           sector |-> src[b].sector, name |-> dst[b].name]
                          ELSE [inUse |-> dst[b].inUse, sector |-> dst[b].sector,
                                name |-> src[b].name]
    BY DirPartIs
  <2> QED BY <2>2, <2>3, <2>4
<1> QED BY <1>1 DEF Placed

(* The beginning of an operation leaves the disk, and takes at most a file *)
(* from the living.                                                        *)
LEMMA StartListing ==
    ASSUME FilesExact, FilesExact', NEW t \in Threads, NEW r, Started(t, r), Listing(disk, live, run)
    PROVE  Listing(disk', live', run')
<1>1. /\ Alike(run'[t], r) /\ \A u \in Threads \ {t} : Alike(run'[u], run[u])
      /\ r.pc \notin Flushing /\ UNCHANGED disk
      /\ live' = IF r.op = "Remove" THEN [live EXCEPT ![r.name] = FALSE] ELSE live
      /\ r.op = "Remove" => r.name \in Names
  BY DEF Started
<1>2. live \in [Names -> BOOLEAN]
  BY DEF FilesExact
<1>3. \A n : live'[n] => live[n]
  BY <1>1, <1>2
<1>4. r.op = "Remove" => ~live'[r.name]
  BY <1>1, <1>2
<1>5. run'[t].op = r.op /\ run'[t].pc = r.pc /\ run'[t].name = r.name
  BY <1>1 DEF Alike
<1>6. \A u \in Threads \ {t} : run'[u].op = run[u].op /\ run'[u].pc = run[u].pc
        /\ run'[u].name = run[u].name /\ run'[u].dir = run[u].dir
  BY <1>1 DEF Alike
<1>7. \A u \in Threads : run'[u].pc \in Flushing => u # t
  BY <1>1, <1>5
<1>8. \A u \in Threads : run'[u].op = "Remove" => ~live'[run'[u].name]
  BY <1>3, <1>4, <1>5, <1>6 DEF Listing
<1>9. \A u \in Threads : run'[u].pc \in Flushing =>
         /\ ~live'[run'[u].name]
         /\ \A n \in Names : live'[n] =>
              \E c : Placed(disk.dir, n, c) /\ Placed(run'[u].dir, n, c)
                     /\ disk.dir[c] = run'[u].dir[c]
         /\ run'[u].op = "Create" => \E c : Placed(run'[u].dir, run'[u].name, c)
  BY <1>3, <1>6, <1>7 DEF Listing
<1> QED BY <1>1, <1>3, <1>8, <1>9 DEF Listing

(* What Create and Remove flush is a directory. *)
LEMMA FlushedDir ==
    ASSUME FilesExact, DiskServed, NEW t \in Threads, run[t].pc \in Flushing
    PROVE  /\ run[t].op \in Modifiers /\ run[t].dir \in Dir
           /\ \A u \in Threads \ {t} : run[u].pc \notin Flushing
<1>1. \A u \in Threads : run[u].op \in DOMAIN Places /\ run[u].pc \in Places[run[u].op]
  BY DEF DiskServed, RunType
<1>2. \A u \in Threads : run[u].pc \in Flushing => run[u].op \in Modifiers
  BY <1>1 DEF Places, Flushing, Modifiers
<1>3. \A u \in Threads : run[u].op \in Modifiers /\ run[t].op \in Modifiers => u = t
  BY DEF FilesExact, OneModifier
<1>4. \E e : Creating(disk, live, run[t], e) \/ Removing(disk, live, run[t], e)
  BY <1>2 DEF FilesExact, RunExact, Modifiers
<1>5. run[t].dir \in Dir
  BY <1>4 DEF Creating, Removing, Others
<1> QED BY <1>2, <1>3, <1>5

(* A request leaves the files where they are. *)
LEMMA RequestPlaced ==
    ASSUME FilesExact, DiskServed, NEW t \in Threads, Request(t), Listing(disk, live, run)
    PROVE  /\ run[t].pc \in Flushing => \A n \in Names, c \in DirEntries :
                /\ Placed(disk.dir, n, c) /\ Placed(run[t].dir, n, c) /\ disk.dir[c] = run[t].dir[c]
                => Placed(disk'.dir, n, c) /\ disk'.dir[c] = disk.dir[c]
           /\ run[t].pc \notin Flushing => disk'.dir = disk.dir
<1> DEFINE r == run[t]
<1>1. disk' = WrittenTo(t) /\ DiskType(disk)
  BY RequestIs DEF FilesExact
<1>2. r.pc \notin {"writeDir1", "writeDir2"} => disk'.dir = disk.dir
  BY <1>1, WhatChanges
<1>3. ASSUME r.pc \in {"writeDir1", "writeDir2"}
      PROVE  r.dir \in Dir /\ disk.dir \in Dir
             /\ \E p \in {1, 2} : disk'.dir = DirPart(p, r.dir, disk.dir)
  <2>1. r.dir \in Dir
    BY <1>3, FlushedDir DEF Flushing
  <2>2. r.pc = "writeDir1" => DirSet(disk, disk', 1, r.dir)
    BY <1>1, WrittenIs
  <2>3. r.pc = "writeDir2" => DirSet(disk, disk', 2, r.dir)
    BY <1>1, WrittenIs
  <2>4. PICK p \in {1, 2} : DirSet(disk, disk', p, r.dir)
    BY <1>3, <2>2, <2>3
  <2>5. disk'.dir = DirPart(p, r.dir, disk.dir)
    BY <1>1, <2>1, <2>4, DirWritten
  <2> QED BY <1>1, <2>1, <2>5 DEF DiskType
<1>4. ASSUME r.pc \in Flushing, NEW n \in Names, NEW c \in DirEntries,
             Placed(disk.dir, n, c), Placed(r.dir, n, c), disk.dir[c] = r.dir[c]
      PROVE  Placed(disk'.dir, n, c) /\ disk'.dir[c] = disk.dir[c]
  <2>1. CASE r.pc \notin {"writeDir1", "writeDir2"}
    BY <1>2, <1>4, <2>1
  <2>2. CASE r.pc \in {"writeDir1", "writeDir2"}
    <3>1. PICK p \in {1, 2} : disk'.dir = DirPart(p, r.dir, disk.dir)
      BY <1>3, <2>2
    <3>2. r.dir \in Dir /\ disk.dir \in Dir
      BY <1>3, <2>2
    <3> QED BY <1>4, <3>1, <3>2, PartPlaced
  <2> QED BY <2>1, <2>2
<1> QED BY <1>2, <1>4 DEF Flushing

(* So what is listed stays listed, *)
LEMMA RequestListing ==
    ASSUME FilesExact, DiskServed, NEW t \in Threads, Request(t), Listing(disk, live, run)
    PROVE  Listing(disk', live', run')
<1> DEFINE r == run[t]
<1>1. /\ run'[t].op = r.op /\ run'[t].pc = r.pc /\ run'[t].name = r.name
      /\ r.pc \in Flushing => run'[t].dir = r.dir
      /\ \A u \in Threads \ {t} : run'[u] = run[u]
      /\ live' = live
  BY RequestIs DEF Flushing
<1>2. \A u \in Threads : run'[u].op = run[u].op /\ run'[u].pc = run[u].pc
        /\ run'[u].name = run[u].name /\ (run[u].pc \in Flushing => run'[u].dir = run[u].dir)
  BY <1>1
<1>3. \A u \in Threads : run[u].pc \in Flushing /\ u # t => r.pc \notin Flushing
  BY FlushedDir
<1>4. ASSUME NEW n \in Names, NEW c, Placed(disk.dir, n, c),
             r.pc \in Flushing => Placed(r.dir, n, c) /\ disk.dir[c] = r.dir[c]
      PROVE  Placed(disk'.dir, n, c) /\ disk'.dir[c] = disk.dir[c]
  BY <1>4, RequestPlaced DEF Placed
<1>5. ASSUME NEW n \in Names, live[n]
      PROVE  \E c : Placed(disk'.dir, n, c)
  <2>1. PICK c : Placed(disk.dir, n, c)
                 /\ (r.pc \in Flushing => Placed(r.dir, n, c) /\ disk.dir[c] = r.dir[c])
    BY <1>5 DEF Listing
  <2> QED BY <1>4, <2>1
<1>6. ASSUME NEW u \in Threads, run[u].pc \in Flushing, NEW n \in Names, live[n]
      PROVE  \E c : Placed(disk'.dir, n, c) /\ Placed(run[u].dir, n, c)
                    /\ disk'.dir[c] = run[u].dir[c]
  <2>1. PICK c : Placed(disk.dir, n, c) /\ Placed(run[u].dir, n, c) /\ disk.dir[c] = run[u].dir[c]
    BY <1>6 DEF Listing
  <2>2. r.pc \in Flushing => u = t
    BY <1>3, <1>6
  <2>3. Placed(disk'.dir, n, c) /\ disk'.dir[c] = disk.dir[c]
    BY <1>4, <2>1, <2>2
  <2> QED BY <2>1, <2>3
<1>7. \A u \in Threads : run[u].pc \in Flushing =>
        /\ ~live[run[u].name]
        /\ run[u].op = "Create" => \E c : Placed(run[u].dir, run[u].name, c)
  BY DEF Listing
<1>8. \A u \in Threads : run[u].op = "Remove" => ~live[run[u].name]
  BY DEF Listing
<1>9. \A u \in Threads : run'[u].pc \in Flushing =>
         /\ ~live'[run'[u].name]
         /\ \A n \in Names : live'[n] =>
              \E c : Placed(disk'.dir, n, c) /\ Placed(run'[u].dir, n, c)
                     /\ disk'.dir[c] = run'[u].dir[c]
         /\ run'[u].op = "Create" => \E c : Placed(run'[u].dir, run'[u].name, c)
  BY <1>1, <1>2, <1>6, <1>7
<1>10. \A u \in Threads : run'[u].op = "Remove" => ~live'[run'[u].name]
  BY <1>1, <1>2, <1>8
<1> QED BY <1>1, <1>5, <1>9, <1>10 DEF Listing

(* Add fills the first free entry: a name that was not listed is placed    *)
(* there, and the others stay where they are.                              *)
LEMMA AddPlaced ==
    ASSUME NEW dir \in Dir, NEW n \in Names, NEW s \in Sectors, FreeEntries(dir) # {},
           Listed(dir, n) = {}, NEW a, a = Add(dir, n, s)
    PROVE  /\ \E c : Placed(a, n, c)
           /\ \A m, c : m # n /\ Placed(dir, m, c) => Placed(a, m, c) /\ a[c] = dir[c]
<1> DEFINE F == FreeEntries(dir)
           e == Min(F)
<1>1. F = {c \in DirEntries : ~dir[c].inUse} /\ F \subseteq Nat /\ F # {}
  BY Numbers DEF FreeEntries
<1>2. /\ a = [dir EXCEPT ![e] = [inUse |-> TRUE, sector |-> s, name |-> n]]
      /\ dir = [c \in DirEntries |-> dir[c]]
  BY DEF Add, Dir
<1> HIDE DEF F
<1>3. e \in F /\ \A b \in F : e <= b
  BY <1>1, MinNat
<1>4. e \in DirEntries /\ ~dir[e].inUse
  BY <1>1, <1>3
<1> HIDE DEF e
<1>5. /\ a[e].inUse /\ a[e].name = n
      /\ \A b \in DirEntries \ {e} : a[b] = dir[b]
  BY <1>2, <1>4
<1>6. \A b \in DirEntries : a[b].name = n => e <= b
  <2> SUFFICES ASSUME NEW b \in DirEntries, a[b].name = n PROVE e <= b
    OBVIOUS
  <2>1. CASE b = e
    BY <1>4, <2>1, Numbers
  <2>2. CASE b # e /\ dir[b].inUse
    <3>1. b \in Listed(dir, n)
      BY <1>5, <2>2 DEF Listed
    <3> QED BY <3>1
  <2>3. CASE ~dir[b].inUse
    BY <1>1, <1>3, <2>3
  <2> QED BY <2>1, <2>2, <2>3
<1>7. Placed(a, n, e)
  BY <1>4, <1>5, <1>6 DEF Placed
<1>8. \A m, c : m # n /\ Placed(dir, m, c) => Placed(a, m, c) /\ a[c] = dir[c]
  BY <1>4, <1>5 DEF Placed
<1> QED BY <1>7, <1>8

(* Directory::Remove leaves the others where they are. *)
LEMMA RemovePlaced ==
    ASSUME NEW dir \in Dir, NEW n, Listed(dir, n) # {}, NEW a, a = RemoveName(dir, n)
    PROVE  \A m, c : m # n /\ Placed(dir, m, c) => Placed(a, m, c) /\ a[c] = dir[c]
<1> DEFINE e == Min(Listed(dir, n))
<1>1. a = [dir EXCEPT ![e].inUse = FALSE] /\ dir = [c \in DirEntries |-> dir[c]]
  BY DEF RemoveName, Dir
<1>2. e \in DirEntries /\ dir[e].name = n
  BY FindFileIs
<1> HIDE DEF e
<1>3. \A b \in DirEntries \ {e} : a[b] = dir[b]
  BY <1>1
<1>4. dir[e] = [inUse |-> dir[e].inUse, sector |-> dir[e].sector, name |-> dir[e].name]
  BY <1>2 DEF Dir
<1>5. a[e] = [inUse |-> FALSE, sector |-> dir[e].sector, name |-> dir[e].name]
  BY <1>1, <1>2, <1>4
<1>6. \A b \in DirEntries : a[b].name = dir[b].name
  BY <1>3, <1>5
<1> QED BY <1>2, <1>3, <1>6 DEF Placed

(* What the end of a transfer means for the directory. *)
LEMMA CompleteShape ==
    ASSUME NEW r, Runs(r), NEW q, Completed(r, q)
    PROVE  /\ q.op = "Remove" => r.op = "Remove" /\ q.name = r.name
           /\ q.pc \in Flushing =>
                \/ r.op = "Create" /\ r.pc = "map" /\ Created(r, q)
                \/ r.op = "Remove" /\ r.pc = "map" /\ Removed(r, q)
                \/ r.pc \in Flushing /\ q.op = r.op /\ q.name = r.name /\ q.dir = r.dir
<1>1. CASE r.op \in {"Read", "Write"}
  <2>1. Carried(r, q)
    BY <1>1, CarriedIs
  <2> QED BY <1>1, <2>1 DEF Carried, Stopped, Kept, Flushing
<1>2. CASE r.op \in {"Create", "Remove", "Open"}
  <2>1. CASE r.pc \in {"dir1", "dir2", "hdr"}
    BY <2>1, CompletedIs DEF Stopped, Moved, Opening, Kept, Flushing
  <2>2. CASE r.pc = "map"
    <3>1. r.op \in {"Create", "Remove"}
      BY <1>2, <2>2 DEF Runs, Places
    <3> QED BY <2>2, <3>1, CompletedIs DEF Stopped, Created, Removed, Kept, Flushing
  <2>3. CASE r.pc \in Flushing
    <3>1. Stopped(q) \/ \E p : Moved(r, q, p)
      BY <2>3, CompletedIs DEF Flushing
    <3> QED BY <2>3, <3>1 DEF Stopped, Moved, Kept, Flushing
  <2> QED BY <1>2, <2>1, <2>2, <2>3 DEF Runs, Places, Flushing
<1> QED BY <1>1, <1>2 DEF Runs, Places

(* At its end Create leaves the file where it was added. *)
LEMMA CreatedPlaced ==
    ASSUME FilesExact, NEW t \in Threads, run[t].op = "Create", run[t].pc = "writeMap",
           NEW c, Placed(run[t].dir, run[t].name, c)
    PROVE  Placed(disk.dir, run[t].name, c)
<1> DEFINE r == run[t]
<1>1. PICK e \in DirEntries : Creating(disk, live, r, e)
  BY DEF FilesExact, RunExact, Flushing, Modifiers
<1>2. \A b \in DirEntries \ {e} : disk.dir[b] = r.dir[b]
  BY <1>1 DEF Creating, Others
<1>3. Done(r) => disk.dir[e] = r.dir[e]
  BY <1>1 DEF Creating
<1>4. \A b \in DirEntries : disk.dir[b] = r.dir[b]
  BY <1>2, <1>3 DEF Done
<1> QED BY <1>4 DEF Placed

(* The directory in memory has been changed. *)
LEMMA MapPlaced ==
    ASSUME FilesExact, NEW t \in Threads, run[t].pc = "map", run[t].waiting,
           NEW q, NEW r, r = run[t],
           (r.op = "Create" /\ Created(r, q)) \/ (r.op = "Remove" /\ Removed(r, q))
    PROVE  /\ q.name = r.name /\ q.op = r.op
           /\ \A m, c : m # r.name /\ Placed(disk.dir, m, c) =>
                Placed(q.dir, m, c) /\ q.dir[c] = disk.dir[c]
           /\ r.op = "Create" => Listed(disk.dir, r.name) = {} /\ \E c : Placed(q.dir, r.name, c)
<1>1. Fetching(disk, r)
  BY DEF FilesExact, RunExact, Flushing, Modifiers
<1>2. r.dir = disk.dir /\ disk.dir \in Dir
  BY <1>1 DEF Fetching, FilesExact, DiskType
<1>3. CASE r.op = "Create" /\ Created(r, q)
  <2>1. PICK s : s = FindSectors(r.map, 1)[1]
    OBVIOUS
  <2>2. /\ Kept(r, q) /\ ~(Sectors \subseteq r.map) /\ FreeEntries(r.dir) # {}
        /\ q.dir = Add(r.dir, r.name, s)
    BY <1>3, <2>1 DEF Created
  <2>3. s \in Sectors
    BY <2>1, <2>2, FirstFree
  <2>4. Listed(disk.dir, r.name) = {}
    BY <1>1, <1>3 DEF Fetching
  <2>5. r.name \in Names
    BY <1>3 DEF FilesExact, Typed
  <2> QED BY <1>2, <2>2, <2>3, <2>4, <2>5, AddPlaced DEF Kept
<1>4. CASE r.op = "Remove" /\ Removed(r, q)
  <2>1. Kept(r, q) /\ q.dir = RemoveName(r.dir, r.name)
    BY <1>4 DEF Removed
  <2>2. Listed(disk.dir, r.name) # {}
    BY <1>1, <1>4 DEF Fetching
  <2> QED BY <1>2, <1>4, <2>1, <2>2, RemovePlaced DEF Kept
<1> QED BY <1>3, <1>4

(* also when a transfer ends. *)
LEMMA CompleteListing ==
    ASSUME FilesExact, DiskServed, NEW t \in Threads, Complete(t), Listing(disk, live, run)
    PROVE  Listing(disk', live', run')
<1> DEFINE r == run[t]
           q == run'[t]
           ends == r.op = "Create" /\ r.pc = "writeMap"
<1>1. /\ Runs(r) /\ Completed(r, q) /\ r.waiting
      /\ \A u \in Threads \ {t} : run'[u] = run[u]
      /\ live' = [live EXCEPT ![r.name] = @ \/ ends]
      /\ UNCHANGED disk
  BY CompleteIs DEF Runs, Completed
<1>2. live \in [Names -> BOOLEAN] /\ \A u \in Threads : run[u].op = "Create" => run[u].name \in Names
  BY DEF FilesExact, Typed
<1>3. \A n \in Names : live'[n] <=> live[n] \/ (n = r.name /\ ends)
  BY Zenon, <1>1, <1>2
<1>4. \A n : n \notin Names => live'[n] = live[n]
  BY <1>1, <1>2
<1>5. /\ q.op = "Remove" => r.op = "Remove" /\ q.name = r.name
      /\ q.pc \in Flushing =>
           \/ r.op = "Create" /\ r.pc = "map" /\ Created(r, q)
           \/ r.op = "Remove" /\ r.pc = "map" /\ Removed(r, q)
           \/ r.pc \in Flushing /\ q.op = r.op /\ q.name = r.name /\ q.dir = r.dir
  BY <1>1, CompleteShape
<1>6. /\ \A n \in Names : live[n] => \E c : Placed(disk.dir, n, c)
      /\ \A u \in Threads : run[u].pc \in Flushing =>
           /\ ~live[run[u].name]
           /\ \A n \in Names : live[n] =>
                \E c : Placed(disk.dir, n, c) /\ Placed(run[u].dir, n, c)
                       /\ disk.dir[c] = run[u].dir[c]
           /\ run[u].op = "Create" => \E c : Placed(run[u].dir, run[u].name, c)
      /\ \A u \in Threads : run[u].op = "Remove" => ~live[run[u].name]
  BY DEF Listing
<1>7. ends => r.pc \in Flushing /\ \A u \in Threads \ {t} : run[u].pc \notin Flushing
  BY FlushedDir DEF Flushing
<1>8. ends => q.pc \notin Flushing
  BY <1>1, CompletedIs DEF Stopped, Flushing
<1>9. ends => \A u \in Threads : run[u].op # "Remove"
  <2>1. \A u \in Threads : ends /\ run[u].op = "Remove" => u = t
    BY DEF FilesExact, OneModifier, Modifiers
  <2> QED BY <2>1
<1>10. ~ends => \A n : live'[n] <=> live[n]
  BY <1>3, <1>4
<1> HIDE DEF r, q, ends
<1>11. ASSUME NEW n \in Names, live'[n] PROVE \E c : Placed(disk.dir, n, c)
  <2>1. CASE live[n]
    BY <1>6, <2>1
  <2>2. CASE n = r.name /\ ends
    BY <1>6, <1>7, <2>2, CreatedPlaced DEF r, ends
  <2> QED BY <1>3, <1>11, <2>1, <2>2
<1>12. \A u \in Threads : run'[u].op = "Remove" => ~live'[run'[u].name]
  <2> SUFFICES ASSUME NEW u \in Threads, run'[u].op = "Remove" PROVE ~live'[run'[u].name]
    OBVIOUS
  <2>1. run[u].op = "Remove" /\ run'[u].name = run[u].name
    BY <1>1, <1>5 DEF q, r
  <2> QED BY <1>6, <1>9, <1>10, <2>1
<1>13. ASSUME NEW u \in Threads, run'[u].pc \in Flushing, ~ends, u # t \/ r.pc \in Flushing
       PROVE  /\ ~live'[run'[u].name]
              /\ \A n \in Names : live'[n] =>
                   \E c : Placed(disk.dir, n, c) /\ Placed(run'[u].dir, n, c)
                          /\ disk.dir[c] = run'[u].dir[c]
              /\ run'[u].op = "Create" => \E c : Placed(run'[u].dir, run'[u].name, c)
  <2>1. /\ run[u].pc \in Flushing /\ run'[u].op = run[u].op /\ run'[u].name = run[u].name
        /\ run'[u].dir = run[u].dir
    <3>1. CASE u # t
      BY <1>1, <1>13, <3>1
    <3>2. CASE u = t
      <4>1. r.pc # "map" /\ q.pc \in Flushing
        BY <1>13, <3>2 DEF Flushing, q
      <4> QED BY <1>5, <3>2, <4>1 DEF q, r
    <3> QED BY <3>1, <3>2
  <2>2. PICK dir : dir = run[u].dir
    OBVIOUS
  <2>3. PICK name : name = run[u].name
    OBVIOUS
  <2>4. ~live[name] /\ (run[u].op = "Create" => \E c : Placed(dir, name, c))
    BY <1>6, <2>1, <2>2, <2>3
  <2>5. \A n \in Names : live[n] =>
          \E c : Placed(disk.dir, n, c) /\ Placed(dir, n, c) /\ disk.dir[c] = dir[c]
    BY <1>6, <2>1, <2>2
  <2>6. run'[u].dir = dir /\ run'[u].name = name /\ run'[u].op = run[u].op
    BY <2>1, <2>2, <2>3
  <2>7. \A n : live'[n] <=> live[n]
    BY <1>10, <1>13
  <2> QED BY <2>4, <2>5, <2>6, <2>7
<1>14. ASSUME q.pc \in Flushing, ~ends, r.pc \notin Flushing
       PROVE  /\ ~live'[q.name]
              /\ \A n \in Names : live'[n] =>
                   \E c : Placed(disk.dir, n, c) /\ Placed(q.dir, n, c) /\ disk.dir[c] = q.dir[c]
              /\ q.op = "Create" => \E c : Placed(q.dir, q.name, c)
  <2>1. r.pc = "map" /\ ((r.op = "Create" /\ Created(r, q)) \/ (r.op = "Remove" /\ Removed(r, q)))
    BY <1>5, <1>14
  <2>2. /\ q.name = r.name /\ q.op = r.op
        /\ \A m, c : m # r.name /\ Placed(disk.dir, m, c) =>
             Placed(q.dir, m, c) /\ q.dir[c] = disk.dir[c]
        /\ r.op = "Create" => Listed(disk.dir, r.name) = {} /\ \E c : Placed(q.dir, r.name, c)
    BY <1>1, <2>1, MapPlaced DEF r
  <2>3. ~live[r.name]
    <3>1. CASE r.op = "Remove"
      BY <1>6, <3>1 DEF r
    <3>2. CASE r.op = "Create"
      <4>1. r.name \in Names
        BY <1>2, <3>2 DEF r
      <4>2. ~\E c : Placed(disk.dir, r.name, c)
        BY <2>2, <3>2 DEF Placed, Listed
      <4> QED BY <1>6, <4>1, <4>2
    <3> QED BY <2>1, <3>1, <3>2
  <2>4. \A n \in Names : live[n] =>
          \E c : Placed(disk.dir, n, c) /\ Placed(q.dir, n, c) /\ disk.dir[c] = q.dir[c]
    BY <1>6, <2>2, <2>3
  <2> QED BY <1>10, <1>14, <2>2, <2>3, <2>4
<1>15. \A u \in Threads : run'[u].pc \in Flushing =>
              /\ ~live'[run'[u].name]
              /\ \A n \in Names : live'[n] =>
                   \E c : Placed(disk.dir, n, c) /\ Placed(run'[u].dir, n, c)
                          /\ disk.dir[c] = run'[u].dir[c]
              /\ run'[u].op = "Create" => \E c : Placed(run'[u].dir, run'[u].name, c)
  <2> SUFFICES ASSUME NEW u \in Threads, run'[u].pc \in Flushing
               PROVE  /\ ~live'[run'[u].name]
                      /\ \A n \in Names : live'[n] =>
                           \E c : Placed(disk.dir, n, c) /\ Placed(run'[u].dir, n, c)
                                  /\ disk.dir[c] = run'[u].dir[c]
                      /\ run'[u].op = "Create" => \E c : Placed(run'[u].dir, run'[u].name, c)
    OBVIOUS
  <2>1. ~ends
    <3>1. ASSUME ends PROVE FALSE
      <4>1. u # t => run[u].pc \in Flushing
        BY <1>1
      <4> QED BY <1>7, <1>8, <3>1, <4>1 DEF q
    <3> QED BY <3>1
  <2>2. CASE u # t \/ r.pc \in Flushing
    BY <1>13, <2>1, <2>2
  <2>3. CASE u = t /\ r.pc \notin Flushing
    BY <1>14, <2>1, <2>3 DEF q
  <2> QED BY <2>2, <2>3
<1> QED BY <1>1, <1>11, <1>12, <1>15 DEF Listing

(* The file that exists at first is in the first entry of all. *)
LEMMA InitListing == FileSysInit => Listing(disk, live, run)
<1> SUFFICES ASSUME FileSysInit PROVE Listing(disk, live, run)
  OBVIOUS
<1>1. PICK old \in OldNames :
        /\ disk = IF old = NULL THEN Formatted ELSE WithFile(Formatted, old, Max(Sizes))
        /\ run = [t \in Threads |-> Idle] /\ live = [n \in Names |-> n = old]
  BY DEF FileSysInit
<1>2. \A t \in Threads : run[t].op = "idle" /\ run[t].pc = "none"
  BY <1>1, IdleIs
<1>3. ASSUME NEW n \in Names, live[n] PROVE \E c : Placed(disk.dir, n, c)
  <2>1. n = old /\ old # NULL
    BY <1>1, <1>3, NamesAssumption
  <2>2. disk = WithFile(Formatted, n, Max(Sizes))
    BY <1>1, <2>1
  <2>3. InUse(disk) = {0} /\ 0 \in DirEntries /\ disk.dir[0].name = n
    BY <2>2, WithFileIs
  <2>4. disk.dir[0].inUse
    BY <2>3 DEF InUse
  <2>5. \A b \in DirEntries : 0 <= b
    BY Numbers
  <2>6. Placed(disk.dir, n, 0)
    BY <2>3, <2>4, <2>5 DEF Placed
  <2> QED BY <2>6
<1> QED BY <1>2, <1>3 DEF Listing, Flushing

(* The files that live are always listed. *)
LEMMA AlwaysListed == FileSysSpec => [](Quiet => Listing(disk, live, run))
<1>1. FileSysInit => (Quiet => Listing(disk, live, run))
  BY InitListing
<1>2. FileSysSound /\ (Quiet => Listing(disk, live, run)) /\ [FileSysNext]_fileSysVars
        => (Quiet => Listing(disk, live, run))'
  <2> SUFFICES ASSUME FileSysSound, Quiet => Listing(disk, live, run), [FileSysNext]_fileSysVars,
                      Quiet'
               PROVE  Listing(disk', live', run')
    OBVIOUS
  <2>1. /\ Quiet /\ FilesExact /\ FilesExact' /\ DiskServed /\ DiskServed'
        /\ \/ \E t \in Threads : \E r : Started(t, r)
           \/ \E t \in Threads : Request(t) \/ Complete(t)
           \/ UNCHANGED <<disk, run, file, live, written, lastRead>>
    BY QuietStep
  <2>2. Listing(disk, live, run)
    BY <2>1
  <2>3. CASE UNCHANGED <<disk, run, file, live, written, lastRead>>
    BY <2>2, <2>3
  <2> QED BY <2>1, <2>2, <2>3, StartListing, RequestListing, CompleteListing
<1> QED BY <1>1, <1>2, AlwaysSound, PTL DEF FileSysSpec

(* The header of the file with a name, and sector i of that file. *)
FileOf(d, n) == d.sec[FindFile(d.dir, n)].hdr
DataOf(d, n, i) == d.sec[FileOf(d, n).dataSectors[i + 1]]

(* A name that is placed is that of a file. *)
LEMMA PlacedFile ==
    ASSUME NEW d, DiskType(d), FilesApart(d), NEW n, NEW c, Placed(d.dir, n, c),
           NEW s, s = FindFile(d.dir, n)
    PROVE  /\ c \in InUse(d) /\ s = d.dir[c].sector /\ s \in Sectors /\ IsFile(d, s)
           /\ FileOf(d, n) = d.sec[s].hdr /\ WellFormed(FileOf(d, n))
           /\ s \in OwnedIn(d, s) /\ Range(FileOf(d, n).dataSectors) \subseteq OwnedIn(d, s)
           /\ Range(FileOf(d, n).dataSectors) \subseteq Sectors
           /\ s \notin Range(FileOf(d, n).dataSectors)
<1>1. c \in DirEntries /\ d.dir[c].inUse /\ s = d.dir[c].sector
  BY PlacedFound DEF Placed
<1>2. c \in InUse(d)
  BY <1>1 DEF InUse
<1>3. s \in Sectors
  BY <1>1 DEF DiskType, Dir
<1>4. IsFile(d, s)
  BY <1>1, <1>2 DEF FilesApart
<1>5. FileOf(d, n) = d.sec[s].hdr
  BY DEF FileOf
<1> DEFINE h == FileOf(d, n)
<1> HIDE DEF h
<1>6. WellFormed(h) /\ s \notin Range(h.dataSectors) /\ d.sec[s].kind = "hdr"
  BY <1>4, <1>5 DEF IsFile, h
<1>7. Range(h.dataSectors) \subseteq Sectors
  BY <1>6 DEF WellFormed, Hdr, Range
<1>8. OwnedIn(d, s) = {s} \union Range(h.dataSectors)
  BY <1>5, <1>6 DEF OwnedIn, h
<1> QED BY <1>1, <1>2, <1>3, <1>4, <1>5, <1>6, <1>7, <1>8 DEF h

(* Where a byte of a file is. *)
LEMMA SectorOfByte ==
    ASSUME NEW h, WellFormed(h), NEW i \in Nat, NEW j \in 1 .. SectorSize,
           ByteAt(i, j) < h.numBytes
    PROVE  /\ i + 1 \in DOMAIN h.dataSectors /\ h.dataSectors[i + 1] \in Range(h.dataSectors)
           /\ ByteToSector(h, i * SectorSize) = h.dataSectors[i + 1]
<1> DEFINE k == ByteAt(i, j)
<1>1. k \in Nat /\ k \div SectorSize = i
  BY ByteOf
<1>2. h.numBytes \in Nat
  BY DEF WellFormed, Hdr
<1> HIDE DEF k
<1>3. k + 1 <= h.numBytes /\ k + 1 - 1 = k /\ 1 \in Nat \ {0}
  BY <1>1, <1>2 DEF k
<1>4. i \in (k \div SectorSize) .. ((k + 1 - 1) \div SectorSize)
  BY <1>1, <1>3
<1>5. /\ ByteToSector(h, i * SectorSize) \in Range(h.dataSectors)
      /\ i + 1 \in DOMAIN h.dataSectors
      /\ ByteToSector(h, i * SectorSize) = h.dataSectors[i + 1]
  BY <1>1, <1>3, <1>4, SectorOfFile
<1> QED BY <1>5

(* What a request leaves of a file that lives: all of it, but the sector   *)
(* that a write to it is about.                                            *)
LEMMA FileSteady ==
    ASSUME FilesExact, FilesExact', DiskServed, NEW t \in Threads, Request(t), Quiet', Measured,
           Listing(disk, live, run), NEW n \in Names, live[n], NEW s, s = FindFile(disk.dir, n)
    PROVE  /\ FindFile(disk'.dir, n) = s /\ disk'.sec[s] = disk.sec[s]
           /\ \A x \in Range(FileOf(disk, n).dataSectors) :
                \/ disk'.sec[x] = disk.sec[x]
                \/ /\ run[t].pc = "writeData" /\ run[t].name = n
                   /\ x = ByteToSector(file[t].hdr, run[t].i * SectorSize)
                   /\ disk'.sec[x] = Sector("data", NoHdr, Changed(run[t], run[t].i))
<1> DEFINE r == run[t]
           h == FileOf(disk, n)
<1>1. /\ r.op # "idle" /\ disk' = WrittenTo(t)
      /\ r.pc = "writeData" => UpToDate(t)
      /\ r.op \in DOMAIN Places /\ r.pc \in Places[r.op] /\ Runs(r)
  BY RequestIs DEF Quiet, Calm, DiskServed, RunType, Runs
<1>2. DiskType(disk) /\ FilesApart(disk)
  BY DEF FilesExact
<1>3. PICK c : /\ Placed(disk.dir, n, c)
               /\ r.pc \in Flushing => Placed(r.dir, n, c) /\ disk.dir[c] = r.dir[c]
  BY DEF Listing
<1>4. c \in DirEntries /\ Placed(disk'.dir, n, c) /\ disk'.dir[c] = disk.dir[c]
  BY <1>3, RequestPlaced DEF Placed
<1>5. FindFile(disk'.dir, n) = s
  BY <1>3, <1>4, PlacedFound
<1>6. /\ c \in InUse(disk) /\ s = disk.dir[c].sector /\ s \in Sectors /\ IsFile(disk, s)
      /\ s \in OwnedIn(disk, s) /\ Range(h.dataSectors) \subseteq OwnedIn(disk, s)
      /\ Range(h.dataSectors) \subseteq Sectors /\ s \notin Range(h.dataSectors)
  BY SMTT(30), <1>2, <1>3, PlacedFile
<1> HIDE DEF h
<1>7. CASE r.pc \notin {"writeHdr", "writeData"}
  BY <1>1, <1>2, <1>5, <1>7, WhatChanges DEF h
<1>8. CASE r.pc = "writeHdr"
  <2>1. r.op = "Create"
    BY <1>1, <1>8 DEF Places
  <2>2. PICK e \in DirEntries : Creating(disk, live, r, e)
    BY <1>8, <2>1 DEF FilesExact, RunExact, Flushing
  <2>3. ~disk.dir[e].inUse /\ r.sector \notin UsedBut(disk, e)
    BY <1>8, <2>2 DEF Creating, Begun, New
  <2>4. OwnedIn(disk, s) \subseteq UsedBut(disk, e)
    BY <1>6, <2>3, UsedOneMore DEF InUse
  <2>5. r.sector \notin OwnedIn(disk, s)
    BY <2>3, <2>4
  <2>6. \A x \in Sectors : disk'.sec[x] = disk.sec[x] \/ x = r.sector
    BY <1>1, <1>2, <1>8, WhatChanges
  <2> QED BY <1>5, <1>6, <2>5, <2>6 DEF h
<1>9. CASE r.pc = "writeData"
  <2> DEFINE f == file[t]
             x == ByteToSector(f.hdr, r.i * SectorSize)
             new == Sector("data", NoHdr, Changed(r, r.i))
  <2>1. r.op = "Write" /\ UpToDate(t)
    BY <1>1, <1>9 DEF Places
  <2>2. f.sector \in Sectors /\ r.name = f.name /\ r.name \in Names
    BY <2>1 DEF Measured, RunSound, Moving
  <2>3. FindFile(disk.dir, r.name) = f.sector /\ disk.sec[f.sector].hdr = f.hdr
    BY <2>1, <2>2 DEF UpToDate
  <2>4. \A y \in Sectors : disk'.sec[y] = disk.sec[y] \/ (y = x /\ disk'.sec[y] = new)
    BY <1>1, <1>2, <1>9, WhatChanges
  <2>5. DataOnly(disk, disk', x)
    <3>1. SectorSet(disk, disk', x, new)
      BY <1>1, <1>9, WrittenIs
    <3> QED BY <2>1, <3>1, DataRequested
  <2>6. x # s
    BY <1>6, <2>5 DEF DataOnly
  <2>7. CASE r.name = n
    BY <1>5, <1>6, <1>9, <2>4, <2>6, <2>7 DEF h
  <2>8. CASE r.name # n
    <3>1. Listed(disk.dir, r.name) # {} /\ disk.dir \in Dir
      BY <1>2, <2>2, <2>3, Numbers, FindFileIs DEF DiskType
    <3>2. PICK b \in DirEntries : /\ disk.dir[b].inUse /\ disk.dir[b].name = r.name
                                  /\ f.sector = disk.dir[b].sector
      BY <2>3, <3>1, FindFileIs
    <3>3. b \in InUse(disk) /\ b # c
      BY <1>3, <2>8, <3>2 DEF InUse, Placed
    <3>4. OwnedIn(disk, s) \intersect OwnedIn(disk, f.sector) = {}
      BY <1>2, <1>6, <3>2, <3>3 DEF FilesApart
    <3>5. x \in OwnedIn(disk, f.sector)
      <4>1. IsFile(disk, f.sector)
        BY <1>2, <3>2, <3>3 DEF FilesApart
      <4>2. WellFormed(f.hdr) /\ OwnedIn(disk, f.sector) = {f.sector} \union Range(f.hdr.dataSectors)
        BY <2>3, <4>1 DEF IsFile, OwnedIn
      <4>3. /\ r.position \in Nat /\ r.numBytes \in Nat \ {0}
            /\ r.position + r.numBytes <= f.hdr.numBytes
            /\ r.i \in (r.position \div SectorSize) .. ((r.position + r.numBytes - 1) \div SectorSize)
        BY <2>1 DEF Measured, RunSound, Moving, Asked, FirstSector, LastSector
      <4>4. x \in Range(f.hdr.dataSectors)
        BY <4>2, <4>3, SectorOfFile
      <4> QED BY <4>2, <4>4
    <3>6. x \notin OwnedIn(disk, s)
      BY <3>4, <3>5
    <3>7. s # x /\ \A y \in Range(h.dataSectors) : y # x
      BY <1>6, <3>6
    <3> QED BY <1>5, <1>6, <2>4, <3>7 DEF h
  <2> QED BY <2>7, <2>8
<1> QED BY <1>7, <1>8, <1>9

(* The bytes on the disk are those that were written. *)
BytesKept(d, lv, w) ==
    \A n \in Names, i \in Nat, j \in 1 .. SectorSize :
        lv[n] /\ ByteAt(i, j) < FileOf(d, n).numBytes /\ w[n][ByteAt(i, j)] # NULL =>
          DataOf(d, n, i).kind = "data" /\ DataOf(d, n, i).bytes[j] = w[n][ByteAt(i, j)]

(* The open file is the one in the directory. *)
SameFile(d, f) ==
    /\ FindFile(d.dir, f.name) = f.sector
    /\ d.sec[f.sector].kind = "hdr" /\ d.sec[f.sector].hdr = f.hdr

(* Sector i of the file is in the buffer. *)
Has(r, i) ==
    \/ /\ r.op = "Read" /\ i \in FirstSector(r) .. LastSector(r)
       /\ i < r.i \/ (i = r.i /\ r.waiting)
    \/ /\ r.op = "Write" /\ i = FirstSector(r) /\ ~FirstAligned(r)
       /\ r.pc # "rmwFirst" \/ r.waiting
    \/ /\ r.op = "Write" /\ i = LastSector(r) /\ RmwLast(r)
       /\ r.pc = "writeData" \/ (r.pc = "rmwLast" /\ r.waiting)

(* A read that no write overtakes, or a write, of a file that lives. *)
Concerned(d, lv, r, f) ==
    /\ r.op \in {"Read", "Write"} /\ (r.op = "Read" => ~r.raced)
    /\ lv[f.name] /\ SameFile(d, f)

(* What is in its buffer, but for the bytes to write, is what was written. *)
BufferKept(d, lv, w, r, f) ==
    Concerned(d, lv, r, f) =>
      \A i \in Nat, j \in 1 .. SectorSize :
          /\ Has(r, i) /\ ByteAt(i, j) < f.hdr.numBytes /\ w[f.name][ByteAt(i, j)] # NULL
          /\ (r.op = "Write" => ByteAt(i, j) \notin Bytes(r))
          => r.buf[i - FirstSector(r) + 1][j] = w[f.name][ByteAt(i, j)]

(* Who reads and writes at a time. *)
Racing(rn) ==
    \A t, u \in Threads :
        /\ rn[t].op = "Read" /\ ~rn[t].raced => rn[u].op # "Write"
        /\ rn[t].op = "Write" /\ rn[u].op = "Write" /\ rn[t].name = rn[u].name => t = u

(* What is around the bytes to write has been read before. *)
LEMMA EdgeHas ==
    ASSUME NEW r, Asked(r), r.op = "Write", r.pc = "writeData",
           NEW i \in FirstSector(r) .. LastSector(r), NEW j \in 1 .. SectorSize,
           ByteAt(i, j) \notin Bytes(r)
    PROVE  Has(r, i)
<1> DEFINE k == ByteAt(i, j)
           first == FirstSector(r)
           last == LastSector(r)
           end == r.position + r.numBytes
<1>1. /\ first \in Nat /\ last \in Nat /\ first <= last /\ i \in Nat /\ first <= i /\ i <= last
  BY SpanIs
<1>2. /\ r.position \in Nat /\ end \in Nat /\ end - 1 \in Nat /\ SectorSize \in Nat \ {0}
  BY DiskAssumption DEF Asked
<1>12. r.position + r.numBytes - 1 = end - 1
  BY DEF Asked
<1>3. /\ first = r.position \div SectorSize /\ last = (end - 1) \div SectorSize
      /\ Bytes(r) = r.position .. end - 1
  BY Zenon, <1>12 DEF FirstSector, LastSector, Bytes
<1>4. k \in Nat /\ k \div SectorSize = i /\ k = i * SectorSize + j - 1 /\ i * SectorSize \in Nat
  BY <1>1, ByteOf DEF ByteAt
<1>5. k < r.position \/ end <= k
  <2>1. k \notin r.position .. end - 1
    BY <1>3
  <2> HIDE DEF k, end
  <2> QED BY <1>2, <1>4, <2>1
<1>6. (i + 1) * SectorSize = (i * SectorSize) + SectorSize
  <2>1. SectorSize * (i + 1) = (SectorSize * i) + SectorSize
    BY <1>1, <1>2, Product
  <2>2. (i + 1) * SectorSize = SectorSize * (i + 1) /\ i * SectorSize = SectorSize * i
    BY <1>1, <1>2
  <2> QED BY <2>1, <2>2
<1> DEFINE p == i * SectorSize
<1>7. /\ FirstAligned(r) <=> r.position = first * SectorSize
      /\ LastAligned(r) <=> end = (last + 1) * SectorSize
  BY DEF FirstAligned, LastAligned
<1>8. j \in 1 .. SectorSize /\ j \in Int
  BY <1>2
<1> HIDE DEF k, first, last, end, p
<1>9. k = p + j - 1 /\ p \in Nat /\ (i + 1) * SectorSize = p + SectorSize
  BY <1>4, <1>6 DEF p
<1>10. CASE k < r.position
  <2>1. i <= first
    <3>1. k \div SectorSize <= r.position \div SectorSize
      BY <1>2, <1>4, <1>10, QuotientsGrow
    <3> QED BY <1>3, <1>4, <3>1
  <2>2. i = first
    BY <1>1, <2>1
  <2>3. r.position # p
    BY <1>2, <1>8, <1>9, <1>10
  <2>4. ~FirstAligned(r)
    BY <1>7, <2>2, <2>3 DEF p
  <2> QED BY <2>2, <2>4 DEF Has, first
<1>11. CASE end <= k
  <2>1. last <= i
    <3>1. end - 1 <= k
      BY <1>2, <1>4, <1>11
    <3>2. (end - 1) \div SectorSize <= k \div SectorSize
      BY <1>2, <1>4, <3>1, QuotientsGrow
    <3> QED BY <1>3, <1>4, <3>2
  <2>2. i = last
    BY <1>1, <2>1
  <2>3. end # p + SectorSize
    BY <1>2, <1>8, <1>9, <1>11
  <2>4. ~LastAligned(r)
    BY <1>7, <1>9, <2>2, <2>3
  <2>5. CASE RmwLast(r)
    BY <2>2, <2>5 DEF Has, last
  <2>6. CASE ~RmwLast(r)
    BY <2>2, <2>4, <2>6 DEF Has, RmwLast, first, last
  <2> QED BY <2>5, <2>6
<1> QED BY <1>5, <1>10, <1>11

(* What is read from the disk is what was written. *)
LEMMA FetchedIs ==
    ASSUME FilesExact, Listing(disk, live, run), BytesKept(disk, live, written), NEW t \in Threads,
           NEW f, f = file[t], f.name \in Names, live[f.name], SameFile(disk, f),
           NEW i \in Nat, NEW j \in 1 .. SectorSize,
           ByteAt(i, j) < f.hdr.numBytes, written[f.name][ByteAt(i, j)] # NULL
    PROVE  Fetched(t, i)[j] = written[f.name][ByteAt(i, j)]
<1> DEFINE n == f.name
           s == disk.sec[ByteToSector(f.hdr, i * SectorSize)]
<1>1. FileOf(disk, n) = f.hdr
  BY DEF FileOf, SameFile
<1>2. PICK c : Placed(disk.dir, n, c)
  BY DEF Listing
<1>3. WellFormed(f.hdr)
  <2>1. PICK s0 : s0 = FindFile(disk.dir, n)
    OBVIOUS
  <2>2. WellFormed(FileOf(disk, n))
    BY <1>2, <2>1, PlacedFile DEF FilesExact
  <2> QED BY <1>1, <2>2
<1>4. s = DataOf(disk, n, i)
  BY <1>1, <1>3, SectorOfByte DEF DataOf
<1>5. s.kind = "data" /\ s.bytes[j] = written[n][ByteAt(i, j)]
  BY <1>1, <1>4 DEF BytesKept
<1>6. ~(i * SectorSize + j > f.hdr.numBytes)
  <2>1. i * SectorSize + j = ByteAt(i, j) + 1 /\ ByteAt(i, j) \in Nat
    BY ByteOf
  <2>2. f.hdr.numBytes \in Nat
    BY <1>3 DEF WellFormed, Hdr
  <2> QED BY <2>1, <2>2
<1>7. Fetched(t, i)[j] = IF i * SectorSize + j > f.hdr.numBytes \/ s.kind = "hdr" THEN Junk
                         ELSE s.bytes[j]
  BY DEF Fetched, FileLength
<1> QED BY <1>5, <1>6, <1>7

(* What a request adds to the history. *)
LEMMA RequestWrites ==
    ASSUME FilesExact, DiskServed, NEW t \in Threads, Request(t), Quiet', Measured,
           NEW n \in Names, NEW r, r = run[t]
    PROVE  /\ ~(r.pc = "writeData" /\ r.name = n) => written'[n] = written[n]
           /\ r.pc = "writeData" /\ r.name = n => \A k \in 0 .. Max(Sizes) - 1 :
                written'[n][k] = IF k \in Bytes(r) /\ k \div SectorSize = r.i THEN r.value
                                 ELSE written[n][k]
<1>1. r.pc = "writeData" => UpToDate(t)
  BY RequestIs DEF Quiet, Calm
<1>2. r.pc # "writeData" => written' = written
  BY RequestBuffer
<1>3. CASE r.pc = "writeData"
  <2>7. PICK bytes : bytes = {k \in Bytes(r) : k \div SectorSize = r.i}
    OBVIOUS
  <2> DEFINE f == [k \in DOMAIN written[r.name] |->
                     IF k \in bytes THEN r.value ELSE written[r.name][k]]
  <2>1. written' = [written EXCEPT ![r.name] = f]
    <3> DEFINE rt == run[t]
               bs == {k \in Bytes(rt) : k \div SectorSize = rt.i}
    <3>1. written' = IF rt.pc = "writeData" /\ UpToDate(t)
                     THEN [written EXCEPT ![rt.name] =
                             [k \in DOMAIN written[rt.name] |->
                                IF k \in bs THEN rt.value ELSE written[rt.name][k]]]
                     ELSE written
      BY RequestHistory
    <3>2. rt = r /\ bs = bytes
      BY <2>7
    <3> HIDE DEF rt, bs
    <3>3. written' = IF r.pc = "writeData" /\ UpToDate(t) THEN [written EXCEPT ![r.name] = f]
                     ELSE written
      BY <3>1, <3>2
    <3> HIDE DEF f
    <3> QED BY <1>1, <1>3, <3>3
  <2>2. r.name \in Names
    <3>1. r.op = "Write"
      <4>1. r.op \in DOMAIN Places /\ r.pc \in Places[r.op]
        BY DEF DiskServed, RunType
      <4> QED BY <1>3, <4>1 DEF Places
    <3> QED BY <3>1 DEF Measured, RunSound, Moving
  <2>3. DOMAIN f = DOMAIN written[r.name] /\ f = [k \in DOMAIN f |-> f[k]]
    OBVIOUS
  <2>4. \A k \in DOMAIN written[r.name] :
          f[k] = IF k \in bytes THEN r.value ELSE written[r.name][k]
    OBVIOUS
  <2> HIDE DEF f
  <2>5. HistoryType(written)
    BY DEF Measured
  <2>6. /\ written'[r.name] = f /\ DOMAIN written[r.name] = 0 .. Max(Sizes) - 1
        /\ \A m \in Names \ {r.name} : written'[m] = written[m]
    <3>1. PICK w : w = written
      OBVIOUS
    <3>2. PICK n0 \in Names : n0 = r.name
      BY <2>2
    <3>3. PICK v : v = [w EXCEPT ![n0] = f]
      OBVIOUS
    <3>4. v[n0] = f /\ DOMAIN w[n0] = 0 .. Max(Sizes) - 1 /\ \A m \in Names \ {n0} : v[m] = w[m]
      <4>1. HistoryType(w) /\ DOMAIN f = DOMAIN w[n0] /\ f = [k \in DOMAIN f |-> f[k]]
        BY <2>3, <2>5, <3>1, <3>2
      <4>2. PICK D : D = 0 .. Max(Sizes) - 1
        OBVIOUS
      <4>3. w = [m \in Names |-> [k \in D |-> w[m][k]]]
        BY <4>1, <4>2 DEF HistoryType
      <4> QED BY <3>3, <4>2, <4>3
    <3> QED BY <2>1, <3>1, <3>2, <3>3, <3>4
  <2> QED BY <1>3, <2>4, <2>6, <2>7
<1> QED BY <1>2, <1>3

(* A request keeps the bytes of every file. *)
LEMMA RequestBytes ==
    ASSUME FilesExact, FilesExact', DiskServed, NEW t \in Threads, Request(t), Quiet', Measured,
           Listing(disk, live, run), BytesKept(disk, live, written),
           BufferKept(disk, live, written, run[t], file[t])
    PROVE  BytesKept(disk', live', written')
<1> DEFINE r == run[t]
           f == file[t]
<1>1. live' = live /\ (r.pc = "writeData" => UpToDate(t) /\ r.op = "Write")
  <2>1. live' = live /\ (r.pc = "writeData" => UpToDate(t))
    BY RequestIs DEF Quiet, Calm
  <2>2. r.pc = "writeData" => r.op = "Write"
    <3>1. r.op \in DOMAIN Places /\ r.pc \in Places[r.op]
      BY DEF DiskServed, RunType
    <3> QED BY <3>1 DEF Places
  <2> QED BY <2>1, <2>2
<1>2. DiskType(disk) /\ FilesApart(disk)
  BY DEF FilesExact
<1> SUFFICES ASSUME NEW n \in Names, NEW i \in Nat, NEW j \in 1 .. SectorSize, live[n],
                    ByteAt(i, j) < FileOf(disk', n).numBytes, written'[n][ByteAt(i, j)] # NULL
             PROVE  DataOf(disk', n, i).kind = "data"
                    /\ DataOf(disk', n, i).bytes[j] = written'[n][ByteAt(i, j)]
  BY <1>1 DEF BytesKept
<1> DEFINE k == ByteAt(i, j)
           h == FileOf(disk, n)
           x == h.dataSectors[i + 1]
           y == ByteToSector(f.hdr, r.i * SectorSize)
<1>3. PICK s : s = FindFile(disk.dir, n)
  OBVIOUS
<1>4. PICK c : Placed(disk.dir, n, c)
  BY DEF Listing
<1>5. s \in Sectors /\ WellFormed(h) /\ h = disk.sec[s].hdr
  BY <1>2, <1>3, <1>4, PlacedFile
<1>6. FindFile(disk'.dir, n) = s /\ disk'.sec[s] = disk.sec[s]
  BY <1>3, FileSteady
<1>7. FileOf(disk', n) = h /\ DataOf(disk', n, i) = disk'.sec[x] /\ DataOf(disk, n, i) = disk.sec[x]
  BY <1>3, <1>6 DEF FileOf, DataOf
<1>8. Fits(h) /\ k < h.numBytes /\ k \in Nat /\ k \div SectorSize = i
  BY <1>5, <1>7, ByteOf DEF Measured
<1>9. i + 1 \in DOMAIN h.dataSectors /\ x \in Range(h.dataSectors)
  BY <1>5, <1>8, SectorOfByte
<1>10. k \in 0 .. Max(Sizes) - 1
  <2>1. h.numBytes \in Nat /\ Max(Sizes) \in Nat /\ h.numBytes <= Max(Sizes)
    BY <1>5, <1>8, LargestSize DEF WellFormed, Hdr, Fits
  <2> HIDE DEF k, h
  <2> QED BY <1>8, <2>1
<1>11. \/ disk'.sec[x] = disk.sec[x]
       \/ /\ r.pc = "writeData" /\ r.name = n /\ x = y
          /\ disk'.sec[x] = Sector("data", NoHdr, Changed(r, r.i))
  BY <1>3, <1>9, FileSteady
<1>12. /\ ~(r.pc = "writeData" /\ r.name = n) => written'[n] = written[n]
       /\ r.pc = "writeData" /\ r.name = n =>
            written'[n][k] = IF k \in Bytes(r) /\ k \div SectorSize = r.i THEN r.value
                             ELSE written[n][k]
  BY <1>10, RequestWrites
<1>13. written[n][k] # NULL => disk.sec[x].kind = "data" /\ disk.sec[x].bytes[j] = written[n][k]
  BY <1>7, <1>8 DEF BytesKept
<1>14. CASE ~(r.pc = "writeData" /\ r.name = n)
  BY <1>7, <1>11, <1>12, <1>13, <1>14
<1>15. CASE r.pc = "writeData" /\ r.name = n
  <2>1. UpToDate(t) /\ Moving(r, f) /\ r.op = "Write"
    BY <1>1, <1>15 DEF Measured, RunSound
  <2>2. /\ FindFile(disk.dir, f.name) = f.sector /\ disk.sec[f.sector].hdr = f.hdr
        /\ disk.sec[f.sector].kind = "hdr" /\ f.name = n
    BY <1>15, <2>1 DEF UpToDate, Moving
  <2>3. f.hdr = h /\ SameFile(disk, f)
    BY <1>3, <1>5, <2>2 DEF SameFile
  <2>4. r.i + 1 \in DOMAIN h.dataSectors /\ y = h.dataSectors[r.i + 1] /\ r.i \in Nat
    <3>1. /\ r.position \in Nat /\ r.numBytes \in Nat \ {0} /\ r.position + r.numBytes <= h.numBytes
          /\ r.i \in (r.position \div SectorSize) .. ((r.position + r.numBytes - 1) \div SectorSize)
      BY <2>1, <2>3 DEF Moving, Asked, FirstSector, LastSector
    <3> HIDE DEF h
    <3>2. /\ r.i \in Nat /\ r.i + 1 \in DOMAIN h.dataSectors
          /\ ByteToSector(h, r.i * SectorSize) = h.dataSectors[r.i + 1]
      BY <1>5, <3>1, SectorOfFile
    <3> QED BY <2>3, <3>2
  <2>5. CASE i # r.i
    <3>1. x # y
      <4>1. i + 1 # r.i + 1
        BY <2>4, <2>5
      <4> QED BY <1>8, <1>9, <2>4, <4>1 DEF Fits
    <3>2. disk'.sec[x] = disk.sec[x]
      BY <1>11, <3>1
    <3>3. written'[n][k] = written[n][k]
      BY <1>8, <1>12, <1>15, <2>5
    <3> QED BY <1>7, <1>13, <3>2, <3>3
  <2>6. CASE i = r.i
    <3> DEFINE new == Changed(r, i)
               in == k \in Bytes(r)
    <3>1. i * SectorSize + j - 1 = k
      BY DEF ByteAt
    <3>2. new[j] = IF in THEN r.value ELSE r.buf[i - FirstSector(r) + 1][j]
      BY <3>1 DEF Changed, Bytes
    <3>3. written'[n][k] = IF in THEN r.value ELSE written[n][k]
      BY <1>8, <1>12, <1>15, <2>6
    <3>4. ~in /\ written[n][k] # NULL => r.buf[i - FirstSector(r) + 1][j] = written[n][k]
      <4>1. SUFFICES ASSUME ~in, written[n][k] # NULL
                     PROVE  r.buf[i - FirstSector(r) + 1][j] = written[n][k]
        OBVIOUS
      <4>2. Has(r, i)
        BY <1>15, <2>1, <2>6, <4>1, EdgeHas DEF Moving
      <4>3. Concerned(disk, live, r, f)
        BY <2>1, <2>2, <2>3 DEF Concerned
      <4> QED BY <1>8, <2>2, <2>3, <4>1, <4>2, <4>3 DEF BufferKept
    <3>5. disk.sec[x] = disk'.sec[x] \/ disk'.sec[x] = Sector("data", NoHdr, new)
      BY <1>11, <2>6
    <3>6. disk'.sec[x] = Sector("data", NoHdr, new)
      <4>1. x = y
        BY <2>4, <2>6
      <4>2. SectorSet(disk, disk', y, Sector("data", NoHdr, new))
        <5>1. disk' = WrittenTo(t)
          BY RequestIs
        <5>2. SectorSet(disk, WrittenTo(t), y, Sector("data", NoHdr, Changed(r, r.i)))
          BY <1>15, WrittenIs
        <5>3. Changed(r, r.i) = new
          BY <2>6
        <5> QED BY Zenon, <5>1, <5>2, <5>3
      <4>3. x \in Sectors
        BY <1>5, <1>9 DEF WellFormed, Hdr, Range
      <4>4. NoHdr \in Hdr /\ Sector("data", NoHdr, new).kind = "data"
            /\ Sector("data", NoHdr, new).hdr = NoHdr
        BY IdleIs DEF Sector
      <4> HIDE DEF new, x, y
      <4> QED BY <1>2, <4>1, <4>2, <4>3, <4>4, SectorWritten
    <3> HIDE DEF new, in
    <3>7. disk'.sec[x].kind = "data" /\ disk'.sec[x].bytes[j] = new[j]
      BY <3>6 DEF Sector
    <3> QED BY <1>7, <3>2, <3>3, <3>4, <3>7
  <2> QED BY <2>5, <2>6
<1> QED BY <1>14, <1>15

(* What a transfer of a read, or one before a write, leaves in the buffer: *)
(* one more sector.                                                        *)
Fetches(r, b, a, x) ==
    /\ a \in FirstSector(r) .. LastSector(r)
    /\ b = [r.buf EXCEPT ![a - FirstSector(r) + 1] = x]

(* That is what a transfer does, and no other sector is counted as there. *)
LEMMA RequestFetches ==
    ASSUME FilesExact, DiskServed, NEW t \in Threads, Request(t), NEW r, r = run[t],
           Moving(r, file[t]), r.op \in {"Read", "Write"}
    PROVE  IF r.pc = "writeData" THEN run'[t].buf = r.buf
           ELSE \E a : /\ Fetches(r, run'[t].buf, a, Fetched(t, a))
                       /\ \A i : Has(run'[t], i) => i = a \/ Has(r, i)
<1> DEFINE q == run'[t]
<1>1. /\ q.op = r.op /\ q.pc = r.pc /\ q.numBytes = r.numBytes /\ q.position = r.position
      /\ q.i = r.i /\ r.op \in DOMAIN Places /\ r.pc \in Places[r.op]
  BY RequestIs DEF DiskServed, RunType
<1>2. q.buf = CASE r.pc = "readData" -> [r.buf EXCEPT ![r.i - FirstSector(r) + 1] = Fetched(t, r.i)]
                [] r.pc = "rmwFirst" -> [r.buf EXCEPT ![1] = Fetched(t, FirstSector(r))]
                [] r.pc = "rmwLast" -> [r.buf EXCEPT ![Len(r.buf)] = Fetched(t, LastSector(r))]
                [] OTHER -> r.buf
  BY RequestBuffer
<1>3. r.op = "Read" => r.pc = "readData"
  BY <1>1 DEF Places
<1>4. r.op = "Write" => r.pc \in {"rmwFirst", "rmwLast", "writeData"}
  BY <1>1 DEF Places
<1>5. /\ FirstSector(q) = FirstSector(r) /\ LastSector(q) = LastSector(r)
      /\ FirstAligned(q) = FirstAligned(r) /\ RmwLast(q) = RmwLast(r)
  BY <1>1 DEF FirstSector, LastSector, FirstAligned, LastAligned, RmwLast
<1>6. /\ FirstSector(r) \in Nat /\ LastSector(r) \in Nat /\ FirstSector(r) <= LastSector(r)
      /\ r.i \in FirstSector(r) .. LastSector(r)
  BY SpanIs DEF Moving
<1> HIDE DEF q
<1>7. CASE r.pc = "readData"
  <2>1. r.op = "Read"
    BY <1>3, <1>4, <1>7
  <2>2. Fetches(r, q.buf, r.i, Fetched(t, r.i))
    BY <1>2, <1>6, <1>7 DEF Fetches
  <2>3. \A i : Has(q, i) => i = r.i \/ Has(r, i)
    BY <1>1, <1>5, <2>1 DEF Has
  <2> QED BY <1>7, <2>2, <2>3 DEF q
<1>8. CASE r.pc = "rmwFirst"
  <2>1. r.op = "Write"
    BY <1>3, <1>4, <1>8
  <2>2. FirstSector(r) - FirstSector(r) + 1 = 1 /\ FirstSector(r) \in FirstSector(r) .. LastSector(r)
    BY <1>6
  <2>3. Fetches(r, q.buf, FirstSector(r), Fetched(t, FirstSector(r)))
    BY <1>2, <1>8, <2>2 DEF Fetches
  <2>4. \A i : Has(q, i) => i = FirstSector(r) \/ Has(r, i)
    BY <1>1, <1>5, <1>8, <2>1 DEF Has
  <2> QED BY <1>8, <2>3, <2>4 DEF q
<1>9. CASE r.pc = "rmwLast"
  <2>1. r.op = "Write"
    BY <1>3, <1>4, <1>9
  <2>2. Len(r.buf) = LastSector(r) - FirstSector(r) + 1
    <3>1. r.buf = [k \in 1 .. Span(r) |-> r.buf[k]]
      BY DEF Moving
    <3>2. Span(r) \in Nat /\ Span(r) = LastSector(r) - FirstSector(r) + 1
      BY <1>6 DEF Span
    <3> QED BY <3>1, <3>2
  <2>3. LastSector(r) \in FirstSector(r) .. LastSector(r)
    BY <1>6
  <2>4. Fetches(r, q.buf, LastSector(r), Fetched(t, LastSector(r)))
    BY <1>2, <1>9, <2>2, <2>3 DEF Fetches
  <2>5. \A i : Has(q, i) => i = LastSector(r) \/ Has(r, i)
    BY <1>1, <1>5, <1>9, <2>1 DEF Has
  <2> QED BY <1>9, <2>4, <2>5 DEF q
<1>10. CASE r.pc = "writeData"
  BY <1>2, <1>10 DEF q
<1> QED BY <1>3, <1>4, <1>7, <1>8, <1>9, <1>10

(* What a file that lives and is open is after a request, it was before. *)
LEMMA SameBefore ==
    ASSUME FilesExact, FilesExact', DiskServed, NEW t \in Threads, Request(t), Quiet', Measured,
           Listing(disk, live, run), NEW f, f.name \in Names, live[f.name], SameFile(disk', f)
    PROVE  SameFile(disk, f)
<1>1. PICK s : s = FindFile(disk.dir, f.name)
  OBVIOUS
<1>2. FindFile(disk'.dir, f.name) = s /\ disk'.sec[s] = disk.sec[s]
  BY <1>1, FileSteady
<1> QED BY <1>1, <1>2 DEF SameFile

(* The thread that makes the request *)
LEMMA OwnBuffer ==
    ASSUME FilesExact, FilesExact', DiskServed, NEW t \in Threads, Request(t), Quiet', Measured,
           Listing(disk, live, run), BytesKept(disk, live, written),
           BufferKept(disk, live, written, run[t], file[t])
    PROVE  BufferKept(disk', live', written', run'[t], file[t])
<1> DEFINE r == run[t]
           q == run'[t]
           f == file[t]
           n == f.name
           first == FirstSector(r)
<1>1. /\ q.op = r.op /\ q.pc = r.pc /\ q.numBytes = r.numBytes /\ q.position = r.position
      /\ q.i = r.i /\ live' = live /\ q.raced = r.raced
  <2>1. q.raced = r.raced
    BY RequestBuffer
  <2> QED BY <2>1, RequestIs
<1>2. FirstSector(q) = first /\ LastSector(q) = LastSector(r) /\ Bytes(q) = Bytes(r)
      /\ FirstAligned(q) = FirstAligned(r) /\ RmwLast(q) = RmwLast(r)
  BY <1>1 DEF FirstSector, LastSector, Bytes, FirstAligned, LastAligned, RmwLast
<1> SUFFICES ASSUME Concerned(disk', live, q, f), NEW i \in Nat, NEW j \in 1 .. SectorSize,
                    Has(q, i), ByteAt(i, j) < f.hdr.numBytes, written'[n][ByteAt(i, j)] # NULL,
                    r.op = "Write" => ByteAt(i, j) \notin Bytes(r)
             PROVE  q.buf[i - first + 1][j] = written'[n][ByteAt(i, j)]
  BY <1>1, <1>2 DEF BufferKept
<1> DEFINE k == ByteAt(i, j)
<1>3. /\ r.op \in {"Read", "Write"} /\ (r.op = "Read" => ~r.raced) /\ live[n] /\ SameFile(disk', f)
  BY <1>1 DEF Concerned
<1>4. Moving(r, f) /\ n \in Names /\ Fits(f.hdr) /\ f.sector \in Sectors
  BY <1>3 DEF Measured, RunSound, Moving
<1>5. SameFile(disk, f) /\ r.name = n
  BY <1>3, <1>4, SameBefore DEF Moving
<1>6. Concerned(disk, live, r, f)
  BY <1>3, <1>5 DEF Concerned
<1>7. k \in 0 .. Max(Sizes) - 1
  <2>1. k \in Nat /\ f.hdr.numBytes <= Max(Sizes) /\ Max(Sizes) \in Nat /\ k < f.hdr.numBytes
    BY <1>4, LargestSize, ByteOf DEF Fits
  <2>2. f.hdr.numBytes \in Nat
    BY DEF FilesExact, Typed, Hdr
  <2> HIDE DEF k, f
  <2> QED BY <2>1, <2>2
<1>8. r.pc = "writeData" => r.op = "Write"
  <2>1. r.op \in DOMAIN Places /\ r.pc \in Places[r.op]
    BY DEF DiskServed, RunType
  <2> QED BY <2>1 DEF Places
<1>9. written'[n][k] = written[n][k]
  <2>1. ~(r.pc = "writeData" /\ r.name = n) => written'[n] = written[n]
    BY <1>4, RequestWrites
  <2>2. r.pc = "writeData" /\ r.name = n =>
           written'[n][k] = IF k \in Bytes(r) /\ k \div SectorSize = r.i THEN r.value
                            ELSE written[n][k]
    BY <1>4, <1>7, RequestWrites
  <2> QED BY <1>5, <1>8, <2>1, <2>2
<1> HIDE DEF k
<1>10. Has(r, i) => r.buf[i - first + 1][j] = written[n][k]
  BY <1>6, <1>9 DEF BufferKept, k
<1>11. CASE r.pc = "writeData"
  <2>1. q.buf = r.buf
    BY <1>3, <1>4, <1>11, RequestFetches
  <2>2. Has(r, i)
    BY <1>1, <1>2, <1>8, <1>11 DEF Has
  <2> QED BY <1>9, <1>10, <2>1, <2>2 DEF k
<1>12. CASE r.pc # "writeData"
  <2>1. PICK a : /\ Fetches(r, q.buf, a, Fetched(t, a))
                 /\ \A b : Has(q, b) => b = a \/ Has(r, b)
    BY <1>3, <1>4, <1>12, RequestFetches
  <2>2. /\ first \in Nat /\ LastSector(r) \in Nat /\ first <= LastSector(r)
        /\ Span(r) = LastSector(r) - first + 1 /\ a \in first .. LastSector(r)
        /\ q.buf = [r.buf EXCEPT ![a - first + 1] = Fetched(t, a)]
        /\ DOMAIN r.buf = 1 .. Span(r)
    <3>1. r.buf = [b \in 1 .. Span(r) |-> r.buf[b]]
      BY <1>4 DEF Moving
    <3> QED BY <1>4, <2>1, <3>1, SpanIs DEF Moving, Span, Fetches
  <2> HIDE DEF q, r, first
  <2>3. a - first + 1 \in 1 .. Span(r)
    BY <2>2
  <2>4. CASE i = a
    <3>1. q.buf[i - first + 1] = Fetched(t, i)
      BY <2>2, <2>3, <2>4
    <3>2. Fetched(t, i)[j] = written[n][k]
      BY <1>3, <1>4, <1>5, <1>9, FetchedIs DEF k
    <3> QED BY <1>9, <3>1, <3>2 DEF k
  <2>5. CASE i # a
    <3>1. Has(r, i)
      BY <2>1, <2>5
    <3>2. i - first + 1 # a - first + 1
      BY <2>2, <2>5
    <3>3. q.buf[i - first + 1] = r.buf[i - first + 1]
      BY <2>2, <3>2
    <3> QED BY <1>9, <1>10, <3>1, <3>3 DEF k
  <2> QED BY <2>4, <2>5
<1> QED BY <1>11, <1>12

(* and the others that read or write meanwhile. *)
LEMMA OtherBuffer ==
    ASSUME FilesExact, FilesExact', DiskServed, NEW t \in Threads, Request(t), Quiet', Measured,
           Listing(disk, live, run), Racing(run), NEW u \in Threads \ {t},
           BufferKept(disk, live, written, run[u], file[u])
    PROVE  BufferKept(disk', live', written', run[u], file[u])
<1> DEFINE r == run[t]
           q == run[u]
           f == file[u]
           n == f.name
<1>1. live' = live
  BY RequestIs
<1> SUFFICES ASSUME Concerned(disk', live, q, f)
             PROVE  Concerned(disk, live, q, f) /\ written'[n] = written[n]
  BY <1>1 DEF BufferKept
<1>2. q.op \in {"Read", "Write"} /\ (q.op = "Read" => ~q.raced) /\ live[n] /\ SameFile(disk', f)
  BY DEF Concerned
<1>3. Moving(q, f) /\ n \in Names
  BY <1>2 DEF Measured, RunSound, Moving
<1>4. SameFile(disk, f)
  BY <1>2, <1>3, SameBefore
<1>5. ~(r.pc = "writeData" /\ r.name = n)
  <2>1. r.pc = "writeData" => r.op = "Write"
    <3>1. r.op \in DOMAIN Places /\ r.pc \in Places[r.op]
      BY DEF DiskServed, RunType
    <3> QED BY <3>1 DEF Places
  <2>2. q.name = n
    BY <1>3 DEF Moving
  <2>3. q.op = "Read" => r.op # "Write"
    BY <1>2 DEF Racing
  <2>4. q.op = "Write" /\ r.op = "Write" => q.name # r.name
    BY DEF Racing
  <2> QED BY <1>2, <2>1, <2>2, <2>3, <2>4
<1>6. written'[n] = written[n]
  BY <1>3, <1>5, RequestWrites
<1> QED BY <1>2, <1>4, <1>6 DEF Concerned

(* The part of the invariant that is about the bytes. *)
Intact ==
    /\ BytesKept(disk, live, written)
    /\ \A t \in Threads : BufferKept(disk, live, written, run[t], file[t])
    /\ Racing(run) /\ lastRead

(* A request keeps all of it, *)
LEMMA RequestIntact ==
    ASSUME FilesExact, FilesExact', DiskServed, NEW t \in Threads, Request(t), Quiet', Measured,
           Listing(disk, live, run), Intact
    PROVE  Intact'
<1>1. /\ BytesKept(disk, live, written) /\ Racing(run) /\ lastRead
      /\ \A u \in Threads : BufferKept(disk, live, written, run[u], file[u])
  BY DEF Intact
<1>2. BytesKept(disk', live', written')
  BY <1>1, RequestBytes
<1>3. PICK r : r = run[t]
  OBVIOUS
<1>4. run'[t].raced = r.raced /\ lastRead' = lastRead
  BY <1>3, RequestBuffer
<1>5. /\ run'[t].op = r.op /\ run'[t].name = r.name /\ file' = file
      /\ \A u \in Threads \ {t} : run'[u] = run[u]
  BY <1>3, RequestIs
<1>6. \A u \in Threads : BufferKept(disk', live', written', run'[u], file'[u])
  <2>1. BufferKept(disk', live', written', run'[t], file[t])
    BY <1>1, OwnBuffer
  <2>2. \A u \in Threads \ {t} : BufferKept(disk', live', written', run[u], file[u])
    BY <1>1, OtherBuffer
  <2> QED BY <1>5, <2>1, <2>2
<1>7. Racing(run')
  <2>1. \A u \in Threads : /\ run'[u].op = run[u].op /\ run'[u].name = run[u].name
                           /\ run'[u].raced = run[u].raced
    BY <1>3, <1>4, <1>5
  <2> QED BY <1>1, <2>1 DEF Racing
<1> QED BY <1>1, <1>2, <1>4, <1>6, <1>7 DEF Intact

(* so does the beginning of an operation, with nothing in the buffer, *)
LEMMA StartIntact ==
    ASSUME FilesExact, NEW t \in Threads, NEW r, Started(t, r), Intact
    PROVE  Intact'
<1> DEFINE q == run'[t]
<1>1. /\ BytesKept(disk, live, written) /\ Racing(run) /\ lastRead
      /\ \A u \in Threads : BufferKept(disk, live, written, run[u], file[u])
  BY DEF Intact
<1>2. /\ Alike(q, r) /\ \A u \in Threads \ {t} : Alike(run'[u], run[u])
      /\ run[t].op = "idle" /\ r.waiting = FALSE
      /\ live' = IF r.op = "Remove" THEN [live EXCEPT ![r.name] = FALSE] ELSE live
      /\ UNCHANGED <<disk, file, written, lastRead>>
  BY DEF Started
<1>3. /\ q.op = r.op /\ q.name = r.name
      /\ \A u \in Threads \ {t} : run'[u].op = run[u].op /\ run'[u].name = run[u].name
  BY <1>2 DEF Alike
<1>4. \A n : live'[n] => live[n]
  <2>1. live \in [Names -> BOOLEAN]
    BY DEF FilesExact
  <2> QED BY <1>2, <2>1
<1>5. BytesKept(disk', live', written')
  BY <1>1, <1>2, <1>4 DEF BytesKept
<1>6. Racing(run')
  <2>1. /\ ~q.raced => \A u \in Threads \ {t} : {run[u].op, r.op} # {"Read", "Write"}
        /\ \A u \in Threads \ {t} :
             ~run'[u].raced => ~run[u].raced /\ {run[u].op, r.op} # {"Read", "Write"}
        /\ \A u \in Threads : ~({run[u].op, r.op} = {"Write"} /\ run[u].name = r.name)
    BY DEF Started
  <2>2. r.op = "Read" /\ ~q.raced => \A u \in Threads \ {t} : run[u].op # "Write"
    BY <2>1
  <2>3. \A u \in Threads \ {t} : run[u].op = "Read" /\ ~run'[u].raced => r.op # "Write" /\ ~run[u].raced
    BY <2>1
  <2>4. \A u \in Threads : r.op = "Write" /\ run[u].op = "Write" => run[u].name # r.name
    BY <2>1
  <2> HIDE DEF q
  <2>5. ASSUME NEW v \in Threads, NEW u \in Threads
        PROVE  /\ run'[v].op = "Read" /\ ~run'[v].raced => run'[u].op # "Write"
               /\ run'[v].op = "Write" /\ run'[u].op = "Write" /\ run'[v].name = run'[u].name
                  => v = u
    <3>1. CASE v = t /\ u = t
      BY <3>1
    <3>2. CASE v = t /\ u # t
      BY <1>3, <2>2, <2>4, <3>2 DEF q
    <3>3. CASE v # t /\ u = t
      BY <1>3, <2>3, <2>4, <3>3 DEF q
    <3>4. CASE v # t /\ u # t
      BY <1>1, <1>3, <2>3, <3>4, <2>1 DEF Racing
    <3> QED BY <3>1, <3>2, <3>3, <3>4
  <2> QED BY <2>5 DEF Racing
<1>7. ASSUME NEW u \in Threads \ {t} PROVE BufferKept(disk, live', written, run'[u], file[u])
  <2> DEFINE a == run'[u]
             b == run[u]
             f == file[u]
  <2>1. /\ a.op = b.op /\ a.pc = b.pc /\ a.numBytes = b.numBytes /\ a.position = b.position
        /\ a.i = b.i /\ a.buf = b.buf /\ a.waiting = b.waiting
    BY <1>2 DEF Alike
  <2>2. ~a.raced => ~b.raced
    BY DEF Started
  <2> HIDE DEF a, b, f
  <2>3. FirstSector(a) = FirstSector(b) /\ LastSector(a) = LastSector(b) /\ Bytes(a) = Bytes(b)
        /\ FirstAligned(a) = FirstAligned(b) /\ RmwLast(a) = RmwLast(b)
    BY <2>1 DEF FirstSector, LastSector, Bytes, FirstAligned, LastAligned, RmwLast
  <2>4. \A i : Has(a, i) => Has(b, i)
    BY <2>1, <2>3 DEF Has
  <2>5. Concerned(disk, live', a, f) => Concerned(disk, live, b, f)
    BY <1>4, <2>1, <2>2 DEF Concerned
  <2>6. BufferKept(disk, live, written, b, f)
    BY <1>1 DEF b, f
  <2>7. BufferKept(disk, live', written, a, f)
    BY <2>1, <2>3, <2>4, <2>5, <2>6 DEF BufferKept
  <2> QED BY <2>7 DEF a, f
<1>8. BufferKept(disk, live', written, q, file[t])
  <2>1. /\ q.op = r.op /\ q.pc = r.pc /\ q.numBytes = r.numBytes /\ q.position = r.position
        /\ q.i = r.i /\ q.waiting = r.waiting
    BY <1>2 DEF Alike
  <2>2. FirstSector(q) = FirstSector(r) /\ LastSector(q) = LastSector(r)
        /\ FirstAligned(q) = FirstAligned(r) /\ RmwLast(q) = RmwLast(r)
    BY <2>1 DEF FirstSector, LastSector, FirstAligned, LastAligned, RmwLast
  <2> HIDE DEF q
  <2>3. ASSUME r.op \in {"Read", "Write"}, NEW i PROVE ~Has(q, i)
    <3>1. r.i = FirstSector(r) /\ r.pc = FirstTransfer(r) /\ Moving(r, file[t])
      BY <2>3 DEF Started
    <3>2. FirstSector(r) \in Nat /\ LastSector(r) \in Nat
      BY <3>1, SpanIs DEF Moving
    <3>3. CASE r.op = "Read"
      <4>1. \A b \in FirstSector(r) .. LastSector(r) : ~(b < FirstSector(r))
        BY <3>2
      <4> QED BY <1>2, <2>1, <2>2, <3>1, <3>3, <4>1 DEF Has
    <3>4. CASE r.op = "Write"
      <4>1. /\ ~FirstAligned(r) => r.pc = "rmwFirst"
            /\ FirstAligned(r) /\ RmwLast(r) => r.pc = "rmwLast"
        BY <3>1, <3>4 DEF FirstTransfer
      <4> QED BY <1>2, <2>1, <2>2, <3>4, <4>1 DEF Has
    <3> QED BY <2>3, <3>3, <3>4
  <2> QED BY <2>1, <2>3 DEF BufferKept, Concerned
<1> QED BY <1>1, <1>2, <1>5, <1>6, <1>7, <1>8 DEF Intact

(* What a transfer that ends leaves in a buffer. *)
LEMMA CarriedHas ==
    ASSUME NEW r, NEW q, Carried(r, q), r.waiting, q.op \in {"Read", "Write"}, Asked(r),
           r.i \in FirstSector(r) .. LastSector(r)
    PROVE  /\ q.op = r.op /\ q.name = r.name /\ q.buf = r.buf /\ q.raced = r.raced
           /\ FirstSector(q) = FirstSector(r) /\ Bytes(q) = Bytes(r)
           /\ \A i \in Nat : Has(q, i) => Has(r, i)
<1>1. /\ q.op = r.op /\ q.name = r.name /\ q.numBytes = r.numBytes
      /\ q.position = r.position /\ q.waiting = FALSE
      /\ q.buf = r.buf /\ q.raced = r.raced
      /\ \/ /\ r.pc = "rmwFirst" /\ q.i = r.i
            /\ q.pc = IF RmwLast(r) THEN "rmwLast" ELSE "writeData"
         \/ r.pc = "rmwLast" /\ q.pc = "writeData" /\ q.i = r.i
         \/ /\ r.pc \in {"readData", "writeData"} /\ q.pc = r.pc
            /\ r.i # LastSector(r) /\ q.i = r.i + 1
  <2>1. ~Stopped(q)
    BY DEF Stopped
  <2>2. Kept(r, q) /\ KeptBuffer(r, q)
        /\ \/ /\ r.pc = "rmwFirst" /\ q.i = r.i
              /\ q.pc = IF RmwLast(r) THEN "rmwLast" ELSE "writeData"
           \/ r.pc = "rmwLast" /\ q.pc = "writeData" /\ q.i = r.i
           \/ /\ r.pc \in {"readData", "writeData"} /\ q.pc = r.pc
              /\ r.i # LastSector(r) /\ q.i = r.i + 1
    BY Zenon, <2>1 DEF Carried
  <2>3. q.waiting = FALSE
    BY <2>2 DEF Kept
  <2> QED BY <2>2, <2>3 DEF Kept, KeptBuffer
<1>2. /\ FirstSector(q) = FirstSector(r) /\ LastSector(q) = LastSector(r) /\ Bytes(q) = Bytes(r)
      /\ FirstAligned(q) = FirstAligned(r) /\ RmwLast(q) = RmwLast(r)
  BY <1>1 DEF FirstSector, LastSector, Bytes, FirstAligned, LastAligned, RmwLast
<1>3. r.i \in Nat
  BY SpanIs
<1>4. ASSUME NEW i \in Nat, Has(q, i) PROVE Has(r, i)
  <2>1. CASE r.op = "Read"
    <3>1. i \in FirstSector(r) .. LastSector(r) /\ i < q.i
      BY <1>1, <1>2, <1>4, <2>1 DEF Has
    <3>2. i < r.i \/ i = r.i
      BY <1>1, <1>3, <3>1
    <3> QED BY <2>1, <3>1, <3>2 DEF Has
  <2>2. CASE r.op = "Write"
    BY <1>1, <1>2, <1>4, <2>2 DEF Has
  <2> QED BY <1>1, <2>1, <2>2
<1> QED BY <1>1, <1>2, <1>4

(* The last transfer of a read leaves in the buffer what was written. *)
LEMMA ReadIntact ==
    ASSUME FilesExact, DiskServed, NEW t \in Threads, Complete(t), Measured, Intact,
           run[t].op = "Read", After(run[t]) = Idle, live[run[t].name], UpToDate(t), ~run[t].raced
    PROVE  ReadsBack(t)
<1> DEFINE r == run[t]
           f == file[t]
           q == run'[t]
<1>1. Runs(r) /\ r.waiting /\ Completed(r, q)
  BY CompleteIs DEF Runs, Completed
<1>2. Moving(r, f) /\ r.name = f.name
  BY DEF Measured, RunSound, Moving
<1>3. r.i = LastSector(r)
  <2>1. r.pc = "readData"
    BY <1>1 DEF Runs, Places
  <2>2. After(r) = IF r.i = LastSector(r) THEN Idle ELSE [r EXCEPT !.i = r.i + 1]
    BY <1>1, <2>1, AfterIs DEF Runs
  <2>3. \A x : [r EXCEPT !.i = x].op = "Read"
    BY <1>1 DEF Runs, Fields
  <2>4. Idle.op = "idle"
    BY IdleIs
  <2> QED BY <2>2, <2>3, <2>4
<1>4. /\ FirstSector(r) \in Nat /\ LastSector(r) \in Nat /\ FirstSector(r) <= LastSector(r)
      /\ Bytes(r) \subseteq Nat
      /\ \A k \in Bytes(r) : k \div SectorSize \in FirstSector(r) .. LastSector(r)
  BY <1>2, SpanIs DEF Moving
<1>5. Concerned(disk, live, r, f) /\ BufferKept(disk, live, written, r, f)
  <2>1. SameFile(disk, f)
    BY DEF UpToDate, SameFile
  <2> QED BY <1>2, <2>1 DEF Concerned, Intact
<1>6. ASSUME NEW k \in Bytes(r)
      PROVE  written[r.name][k] \in
               {NULL, r.buf[(k \div SectorSize) - FirstSector(r) + 1][(k % SectorSize) + 1]}
  <2> DEFINE i == k \div SectorSize
             j == (k % SectorSize) + 1
  <2>1. /\ k \in Nat /\ i \in Nat /\ j \in 1 .. SectorSize /\ ByteAt(i, j) = k
        /\ i \in FirstSector(r) .. LastSector(r)
    BY <1>4, OfByte
  <2>2. k < f.hdr.numBytes
    <3>1. k <= r.position + r.numBytes - 1 /\ r.position + r.numBytes <= f.hdr.numBytes
          /\ r.position \in Nat /\ r.numBytes \in Nat
      BY <1>2 DEF Moving, Asked, Bytes
    <3>2. f.hdr.numBytes \in Nat
      BY DEF FilesExact, Typed, Hdr
    <3> HIDE DEF r, f
    <3> QED BY <2>1, <3>1, <3>2
  <2> HIDE DEF i, j
  <2>3. Has(r, i)
    <3>1. i < r.i \/ i = r.i
      BY <1>3, <1>4, <2>1
    <3> QED BY <1>1, <2>1, <3>1 DEF Has
  <2>4. written[r.name][k] # NULL => r.buf[i - FirstSector(r) + 1][j] = written[r.name][k]
    BY <1>2, <1>5, <2>1, <2>2, <2>3 DEF BufferKept
  <2> QED BY <2>4 DEF i, j
<1> QED BY <1>6 DEF ReadsBack, Bytes

(* Nothing is written to a file that is being created. *)
LEMMA NothingWritten ==
    ASSUME NEW h, h.numBytes \in Nat, Fits(h), NEW i \in Nat, NEW j \in 1 .. SectorSize,
           ByteAt(i, j) < h.numBytes
    PROVE  Unwritten[ByteAt(i, j)] = NULL
<1> DEFINE k == ByteAt(i, j)
<1>1. k \in Nat
  BY ByteOf
<1>2. Max(Sizes) \in Nat /\ h.numBytes <= Max(Sizes) /\ k < h.numBytes
  BY LargestSize DEF Fits
<1> HIDE DEF k
<1>3. k \in 0 .. Max(Sizes) - 1
  BY <1>1, <1>2
<1> QED BY <1>3 DEF Unwritten, k

(* What the end of a transfer changes of the history. *)
LEMMA CompleteWrites ==
    ASSUME FilesExact, DiskServed, NEW t \in Threads, Complete(t), Measured,
           Listing(disk, live, run), NEW ends, ends = (run[t].op = "Create" /\ run[t].pc = "writeMap")
    PROVE  /\ \A n \in Names : ~(ends /\ n = run[t].name) =>
                (live'[n] <=> live[n]) /\ written'[n] = written[n]
           /\ ends => run[t].name \in Names /\ written'[run[t].name] = Unwritten
<1> DEFINE r == run[t]
<1>1. /\ live' = [live EXCEPT ![r.name] = @ \/ ends] /\ live \in [Names -> BOOLEAN]
      /\ ends => r.name \in Names
  BY CompleteIs DEF FilesExact, Typed
<1>2. written' = IF ends THEN [written EXCEPT ![r.name] = Unwritten] ELSE written
  BY CompleteHistory
<1>3. written = [n \in Names |-> written[n]]
  <2>1. written = [n \in Names |-> [k \in 0 .. Max(Sizes) - 1 |-> written[n][k]]]
    BY DEF Measured, HistoryType
  <2> QED BY <2>1
<1> HIDE DEF r
<1>4. \A n \in Names : ~(ends /\ n = r.name) => (live'[n] <=> live[n])
  BY Zenon, <1>1
<1>5. PICK u : u = Unwritten
  OBVIOUS
<1>6. \A n \in Names : ~(ends /\ n = r.name) => written'[n] = written[n]
  BY <1>2, <1>3, <1>5
<1>7. ends => written'[r.name] = Unwritten
  BY <1>1, <1>2, <1>3, <1>5
<1> QED BY <1>1, <1>4, <1>6, <1>7 DEF r

(* and the end of a transfer. *)
LEMMA CompleteIntact ==
    ASSUME FilesExact, DiskServed, NEW t \in Threads, Complete(t), Measured,
           Listing(disk, live, run), Listing(disk', live', run'), Intact
    PROVE  Intact'
<1> DEFINE r == run[t]
           q == run'[t]
           ends == r.op = "Create" /\ r.pc = "writeMap"
<1>1. /\ Runs(r) /\ Completed(r, q) /\ r.waiting /\ UNCHANGED disk
      /\ \A u \in Threads \ {t} : run'[u] = run[u]
      /\ file' = IF r.op = "Open" /\ r.pc = "hdr"
                 THEN [file EXCEPT ![t] = OpenFile(r.name, r.sector, r.hdr)] ELSE file
      /\ q.op = r.op \/ q.op = "idle"
  BY CompleteIs DEF Runs, Completed
<1>2. /\ \A n \in Names : ~(ends /\ n = r.name) => (live'[n] <=> live[n]) /\ written'[n] = written[n]
      /\ ends => r.name \in Names /\ written'[r.name] = Unwritten
  BY CompleteWrites
<1>3. /\ BytesKept(disk, live, written) /\ Racing(run) /\ lastRead
      /\ \A u \in Threads : BufferKept(disk, live, written, run[u], file[u])
  BY DEF Intact
<1>4. DiskType(disk) /\ FilesApart(disk) /\ file = [u \in Threads |-> file[u]]
  BY DEF FilesExact
<1> HIDE DEF ends
<1>5. BytesKept(disk, live', written')
  <2> SUFFICES ASSUME NEW n \in Names, NEW i \in Nat, NEW j \in 1 .. SectorSize, live'[n],
                      ByteAt(i, j) < FileOf(disk, n).numBytes, written'[n][ByteAt(i, j)] # NULL
               PROVE  DataOf(disk, n, i).kind = "data"
                      /\ DataOf(disk, n, i).bytes[j] = written'[n][ByteAt(i, j)]
    BY DEF BytesKept
  <2>1. CASE ends /\ n = r.name
    <3>1. PICK c : Placed(disk.dir, n, c)
      BY <1>1 DEF Listing
    <3>2. PICK s : s = FindFile(disk.dir, n)
      OBVIOUS
    <3>3. s \in Sectors /\ WellFormed(FileOf(disk, n)) /\ FileOf(disk, n) = disk.sec[s].hdr
      BY <1>4, <3>1, <3>2, PlacedFile
    <3>4. Fits(FileOf(disk, n)) /\ FileOf(disk, n).numBytes \in Nat
      BY <3>3 DEF Measured, WellFormed, Hdr
    <3>5. Unwritten[ByteAt(i, j)] = NULL
      BY <3>4, NothingWritten
    <3> QED BY <1>2, <2>1, <3>5
  <2>2. CASE ~(ends /\ n = r.name)
    BY <1>2, <1>3, <2>2 DEF BytesKept
  <2> QED BY <2>1, <2>2
<1>6. ASSUME NEW u \in Threads, NEW f, f = file[u], NEW a, a = run[u],
             Concerned(disk, live', a, f), NEW i \in Nat, NEW j \in 1 .. SectorSize,
             Has(a, i), ByteAt(i, j) < f.hdr.numBytes, written'[f.name][ByteAt(i, j)] # NULL,
             a.op = "Write" => ByteAt(i, j) \notin Bytes(a)
      PROVE  a.buf[i - FirstSector(a) + 1][j] = written'[f.name][ByteAt(i, j)]
  <2>1. /\ a.op \in {"Read", "Write"} /\ (a.op = "Read" => ~a.raced)
        /\ live'[f.name] /\ SameFile(disk, f)
    BY <1>6 DEF Concerned
  <2>2. f.name \in Names /\ Fits(f.hdr) /\ f.hdr.numBytes \in Nat
    <3>1. RunSound(a, f) /\ f.hdr \in Hdr
      BY <1>6 DEF Measured, FilesExact, Typed
    <3> QED BY <2>1, <3>1 DEF RunSound, Moving, Hdr
  <2>3. CASE ends /\ f.name = r.name
    <3>1. Unwritten[ByteAt(i, j)] = NULL
      BY <1>6, <2>2, NothingWritten
    <3> QED BY <1>2, <1>6, <2>3, <3>1
  <2>4. CASE ~(ends /\ f.name = r.name)
    <3>1. live[f.name] /\ written'[f.name] = written[f.name]
      BY <1>2, <2>1, <2>2, <2>4
    <3>2. Concerned(disk, live, a, f) /\ BufferKept(disk, live, written, a, f)
      BY <1>3, <1>6, <2>1, <3>1 DEF Concerned
    <3> QED BY <1>6, <3>1, <3>2 DEF BufferKept
  <2> QED BY <2>3, <2>4
<1>7. \A u \in Threads : BufferKept(disk, live', written', run[u], file[u])
  BY <1>6 DEF BufferKept
<1>8. q.op \in {"Read", "Write"} =>
        /\ file' = file
        /\ q.op = r.op /\ q.name = r.name /\ q.buf = r.buf /\ q.raced = r.raced
        /\ FirstSector(q) = FirstSector(r) /\ Bytes(q) = Bytes(r)
        /\ \A i \in Nat : Has(q, i) => Has(r, i)
  <2> SUFFICES ASSUME q.op \in {"Read", "Write"}
               PROVE  /\ file' = file
                      /\ q.op = r.op /\ q.name = r.name /\ q.buf = r.buf /\ q.raced = r.raced
                      /\ FirstSector(q) = FirstSector(r) /\ Bytes(q) = Bytes(r)
                      /\ \A i \in Nat : Has(q, i) => Has(r, i)
    OBVIOUS
  <2>1. r.op \in {"Read", "Write"} /\ r.op # "Open"
    BY <1>1
  <2>2. Carried(r, q)
    BY <1>1, <2>1, CarriedIs
  <2>3. Moving(r, file[t])
    BY <2>1 DEF Measured, RunSound
  <2> QED BY <1>1, <2>1, <2>2, <2>3, CarriedHas DEF Moving
<1>9. \A u \in Threads : BufferKept(disk, live', written', run'[u], file'[u])
  <2>1. BufferKept(disk, live', written', q, file'[t])
    <3>1. CASE q.op \in {"Read", "Write"}
      <4> DEFINE f == file[t]
      <4>1. BufferKept(disk, live', written', r, f) /\ file' = file
        BY <1>7, <1>8, <3>1
      <4>2. /\ q.op = r.op /\ q.buf = r.buf /\ q.raced = r.raced
            /\ FirstSector(q) = FirstSector(r) /\ Bytes(q) = Bytes(r)
            /\ \A i \in Nat : Has(q, i) => Has(r, i)
        BY <1>8, <3>1
      <4> HIDE DEF q, r, f
      <4>3. Concerned(disk, live', q, f) => Concerned(disk, live', r, f)
        BY <4>2 DEF Concerned
      <4>4. BufferKept(disk, live', written', q, f)
        BY <4>1, <4>2, <4>3 DEF BufferKept
      <4> QED BY <4>1, <4>4 DEF f
    <3>2. CASE q.op \notin {"Read", "Write"}
      BY <3>2 DEF BufferKept, Concerned
    <3> QED BY <3>1, <3>2
  <2>2. \A u \in Threads \ {t} : run'[u] = run[u] /\ file'[u] = file[u]
    BY <1>1, <1>4
  <2> QED BY <1>7, <2>1, <2>2
<1>10. Racing(run')
  <2>1. \A u \in Threads : run'[u].op \in {"Read", "Write"} =>
          /\ run'[u].op = run[u].op /\ run'[u].name = run[u].name /\ run'[u].raced = run[u].raced
    BY <1>1, <1>8
  <2> QED BY <1>3, <2>1 DEF Racing
<1>11. lastRead'
  <2>1. lastRead' = IF r.op = "Read" /\ After(r) = Idle /\ live[r.name] /\ UpToDate(t) /\ ~r.raced
                    THEN ReadsBack(t) ELSE TRUE
    BY CompleteHistory
  <2> QED BY <2>1, ReadIntact
<1> QED BY <1>1, <1>3, <1>5, <1>9, <1>10, <1>11 DEF Intact

(* At first nothing was written and no thread reads or writes. *)
LEMMA InitIntact == FileSysInit => Intact
<1> SUFFICES ASSUME FileSysInit PROVE Intact
  OBVIOUS
<1>1. /\ run = [t \in Threads |-> Idle] /\ written = [n \in Names |-> Unwritten] /\ lastRead
      /\ Measured
  BY InitMeasured DEF FileSysInit
<1>2. \A t \in Threads : run[t].op = "idle"
  BY <1>1, IdleIs
<1>3. FilesExact /\ Listing(disk, live, run)
  BY InitQuiet, InitListing
<1>4. BytesKept(disk, live, written)
  <2> SUFFICES ASSUME NEW n \in Names, NEW i \in Nat, NEW j \in 1 .. SectorSize, live[n],
                      ByteAt(i, j) < FileOf(disk, n).numBytes, written[n][ByteAt(i, j)] # NULL
               PROVE  FALSE
    BY DEF BytesKept
  <2>1. PICK c : Placed(disk.dir, n, c)
    BY <1>3 DEF Listing
  <2>2. PICK s : s = FindFile(disk.dir, n)
    OBVIOUS
  <2>3. s \in Sectors /\ WellFormed(FileOf(disk, n)) /\ FileOf(disk, n) = disk.sec[s].hdr
    BY <1>3, <2>1, <2>2, PlacedFile DEF FilesExact
  <2>4. Fits(FileOf(disk, n)) /\ FileOf(disk, n).numBytes \in Nat
    BY <1>1, <2>3 DEF Measured, WellFormed, Hdr
  <2> QED BY <1>1, <2>4, NothingWritten
<1> QED BY <1>1, <1>2, <1>4 DEF Intact, BufferKept, Concerned, Racing

(* All of it is inductive together. *)
LEMMA AlwaysIntact == FileSysSpec => [](Quiet => Intact)
<1> DEFINE Lists == Listing(disk, live, run)
<1>1. FileSysInit => (Quiet => Intact)
  BY InitIntact
<1>2. /\ FileSysSound /\ (Quiet => Measured) /\ (Quiet => Lists) /\ (Quiet => Lists)'
      /\ (Quiet => Intact) /\ [FileSysNext]_fileSysVars
      => (Quiet => Intact)'
  <2> SUFFICES ASSUME FileSysSound, Quiet => Measured, Quiet => Lists, Lists', Quiet => Intact,
                      [FileSysNext]_fileSysVars, Quiet'
               PROVE  Intact'
    OBVIOUS
  <2>1. /\ Quiet /\ FilesExact /\ FilesExact' /\ DiskServed /\ DiskServed'
        /\ \/ \E t \in Threads : \E r : Started(t, r)
           \/ \E t \in Threads : Request(t) \/ Complete(t)
           \/ UNCHANGED <<disk, run, file, live, written, lastRead>>
    BY QuietStep
  <2>2. Measured /\ Lists /\ Intact
    BY <2>1
  <2>3. CASE UNCHANGED <<disk, run, file, live, written, lastRead>>
    BY <2>2, <2>3 DEF Intact
  <2> QED BY <2>1, <2>2, <2>3, StartIntact, RequestIntact, CompleteIntact
<1>3. FileSysSpec => [](Quiet => Lists)
  BY AlwaysListed
<1> HIDE DEF Lists
<1> QED BY <1>1, <1>2, <1>3, AlwaysSound, AlwaysMeasured, PTL DEF FileSysSpec

(* What Create takes is free: a sector in use is allocated again only      *)
(* after a crash, or when threads changed the same thing at a time. So     *)
(* the exception FilesIntact makes for such sectors is for crashes.        *)
THEOREM AllocatesFreeSectors == FileSysSpec => [](flags.crashes = 0 /\ Calm => ~flags.reused)
<1>1. FileSysInit => (Quiet => ~flags.reused)
  BY DEF FileSysInit
<1>2. /\ FileSysSound /\ (Quiet => ~flags.reused) /\ [FileSysNext]_fileSysVars
      => (Quiet => ~flags.reused)'
  <2> SUFFICES ASSUME FileSysSound, Quiet => ~flags.reused, [FileSysNext]_fileSysVars, Quiet',
                      flags'.reused
               PROVE  FALSE
    OBVIOUS
  <2>1. Quiet /\ FilesExact' /\ DiskServed /\ DiskServed'
    BY QuietStep
  <2>2. flags \in Flags /\ ~flags.reused /\ flags'.reused # flags.reused
    BY <2>1 DEF DiskServed, RunType
  <2>3. PICK t \in Threads : Complete(t)
    <3>1. ~HandleInterrupt /\ ~UNCHANGED fileSysVars
      BY <2>2 DEF HandleInterrupt, fileSysVars
    <3>2. ~Crash
      BY <2>2 DEF Crash, Flags
    <3>3. \A t \in Threads : ~Request(t)
      BY <2>2 DEF Request, Flags
    <3>4. ASSUME NEW t \in Threads, NEW r, Begin(t, r) PROVE FALSE
      BY <2>2, <3>4 DEF Begin, Flags
    <3> QED BY ZenonT(60), <3>1, <3>2, <3>3, <3>4 DEF FileSysNext, Create, Remove, Open, Transfer
  <2>4. LET next == After(run[t])
        IN  next.pc = "writeHdr"
            /\ ({next.sector} \union Range(next.hdr.dataSectors)) \intersect UsedOnDisk # {}
    BY <2>2, <2>3 DEF Complete, Flags
  <2>5. PICK q : q = run'[t]
    OBVIOUS
  <2>6. /\ q = [After(run[t]) EXCEPT !.waiting = FALSE] /\ Fields(q) /\ q.op \in DOMAIN Places
        /\ q.pc \in Places[q.op]
    BY <2>1, <2>3, <2>5, CompleteIs DEF DiskServed, RunType
  <2>7. q.pc = "writeHdr" /\ New(q) \intersect UsedOnDisk # {}
    BY <2>4, <2>6 DEF New
  <2>8. q.op = "Create"
    BY <2>6, <2>7 DEF Places
  <2>9. PICK e \in DirEntries : Creating(disk', live', q, e)
    BY <2>1, <2>5, <2>7, <2>8 DEF FilesExact, RunExact, Flushing
  <2>10. UNCHANGED disk
    BY <2>3 DEF Complete
  <2>11. New(q) \intersect UsedBut(disk, e) = {} /\ e \notin InUse(disk)
    BY <2>7, <2>9, <2>10 DEF Creating, Begun, InUse
  <2> QED BY <2>7, <2>11, OwnedIs, UsedOneMore
<1> QED BY <1>1, <1>2, AlwaysSound, PTL DEF FileSysSpec, Quiet

(* While no machine crashes, a file that was created and is not being      *)
(* removed is found under its name and holds, byte for byte, what was last *)
(* written to it (OpenFile::WriteAt), also while threads create, remove,   *)
(* read and write other files; and a read that no write overtakes returned *)
(* it (OpenFile::ReadAt): unless two threads changed the directory or one  *)
(* file at a time, or one wrote to a file that had been removed.           *)
THEOREM FilesIntactWithoutCrashes == FileSysSpec => [](flags.crashes = 0 => FilesIntact)
<1>1. FileSysSound /\ (Quiet => Intact) /\ (Quiet => Measured) /\ (Quiet => Listing(disk, live, run))
        => (flags.crashes = 0 => FilesIntact)
  <2> SUFFICES ASSUME FileSysSound, Quiet => Intact, Quiet => Measured,
                      Quiet => Listing(disk, live, run), flags.crashes = 0, Calm
               PROVE  /\ lastRead
                      /\ \A n \in Names : live[n] =>
                          LET s == FindFile(disk.dir, n)
                          IN  /\ s # -1 /\ disk.sec[s].kind = "hdr"
                              /\ \A k \in 0 .. disk.sec[s].hdr.numBytes - 1 :
                                   LET d == disk.sec[s].hdr.dataSectors[(k \div SectorSize) + 1]
                                   IN  written[n][k] # NULL =>
                                         /\ disk.sec[d].kind = "data"
                                         /\ disk.sec[d].bytes[(k % SectorSize) + 1] = written[n][k]
    BY DEF FilesIntact
  <2>1. /\ Intact /\ Listing(disk, live, run) /\ DiskType(disk) /\ FilesApart(disk)
    BY DEF Quiet, FileSysSound, FilesExact
  <2>2. lastRead /\ BytesKept(disk, live, written)
    BY <2>1 DEF Intact
  <2>3. ASSUME NEW n \in Names, live[n], NEW s, s = FindFile(disk.dir, n)
        PROVE  /\ s # -1 /\ disk.sec[s].kind = "hdr"
               /\ \A k \in 0 .. disk.sec[s].hdr.numBytes - 1 :
                    LET d == disk.sec[s].hdr.dataSectors[(k \div SectorSize) + 1]
                    IN  written[n][k] # NULL =>
                          /\ disk.sec[d].kind = "data"
                          /\ disk.sec[d].bytes[(k % SectorSize) + 1] = written[n][k]
    <3>1. PICK c : Placed(disk.dir, n, c)
      BY <2>1, <2>3 DEF Listing
    <3>2. /\ s \in Sectors /\ disk.sec[s].kind = "hdr" /\ FileOf(disk, n) = disk.sec[s].hdr
          /\ disk.sec[s].hdr.numBytes \in Nat
      <4>1. s \in Sectors /\ IsFile(disk, s) /\ FileOf(disk, n) = disk.sec[s].hdr
        BY <2>1, <2>3, <3>1, PlacedFile
      <4> QED BY <4>1 DEF IsFile, WellFormed, Hdr
    <3>3. ASSUME NEW k \in 0 .. disk.sec[s].hdr.numBytes - 1, written[n][k] # NULL,
                 NEW d, d = disk.sec[s].hdr.dataSectors[(k \div SectorSize) + 1]
          PROVE  disk.sec[d].kind = "data" /\ disk.sec[d].bytes[(k % SectorSize) + 1] = written[n][k]
      <4> DEFINE i == k \div SectorSize
                 j == (k % SectorSize) + 1
      <4>1. k \in Nat /\ k < disk.sec[s].hdr.numBytes
        BY <3>2
      <4>2. i \in Nat /\ j \in 1 .. SectorSize /\ ByteAt(i, j) = k
        BY <4>1, OfByte
      <4>3. DataOf(disk, n, i) = disk.sec[d]
        BY <3>2, <3>3 DEF DataOf
      <4> HIDE DEF i, j
      <4>4. DataOf(disk, n, i).kind = "data" /\ DataOf(disk, n, i).bytes[j] = written[n][k]
        BY <2>2, <2>3, <3>2, <3>3, <4>1, <4>2 DEF BytesKept
      <4> QED BY <4>3, <4>4 DEF j
    <3> QED BY <3>2, <3>3, Numbers
  <2> QED BY <2>2, <2>3
<1> QED BY <1>1, AlwaysSound, AlwaysIntact, AlwaysMeasured, AlwaysListed, PTL
=============================================================================
