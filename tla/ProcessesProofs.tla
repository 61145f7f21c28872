--------------------------- MODULE ProcessesProofs ---------------------------
(***************************************************************************)
(* Join waits for its child, ids are not reused too early, and programs    *)
(* have their page frames for themselves: proofs for any number of         *)
(* threads, ids, frames, pages and calls.                                  *)
(***************************************************************************)
EXTENDS Processes, DataProofs

(* n different clear bits as long as there are so many, and -1 after that. *)
FirstClear(found, marked, size, n) ==
    /\ found \in [1 .. n -> ((0 .. size - 1) \ marked) \union {-1}]
    /\ \A i, j \in 1 .. n : found[i] = found[j] /\ found[i] # -1 => i = j
    /\ n <= Cardinality((0 .. size - 1) \ marked) => \A j \in 1 .. n : found[j] # -1

(* This is what BitMap::Find called n times gives. *)
LEMMA FindBitsFree ==
    ASSUME NEW marked, NEW size \in Nat, NEW n \in Nat
    PROVE  FirstClear(FindBits(marked, size, n), marked, size, n)
<1> DEFINE clear == {b \in 0 .. size - 1 : b \notin marked}
           below(b) == {c \in clear : c < b}
           jth(j) == {b \in clear : Cardinality(below(b)) = j - 1}
           f == FindBits(marked, size, n)
<1>1. f = [j \in 1 .. n |-> IF jth(j) = {} THEN -1 ELSE CHOOSE b \in jth(j) : TRUE]
  BY DEF FindBits
<1>2. clear = (0 .. size - 1) \ marked
  OBVIOUS
<1>3. clear \subseteq Nat /\ IsFiniteSet(clear)
  <2>1. IsFiniteSet(0 .. size - 1)
    BY FS_Interval
  <2>2. clear \in SUBSET (0 .. size - 1)
    OBVIOUS
  <2>3. IsFiniteSet(clear)
    BY <2>1, <2>2, FS_Subset
  <2> QED BY <2>3
<1> HIDE DEF f, clear
<1>4. \A j \in 1 .. n : IF jth(j) = {} THEN f[j] = -1 ELSE f[j] \in jth(j)
  BY <1>1
<1>5. f \in [1 .. n -> clear \union {-1}]
  BY <1>1, <1>4
<1>6. \A j \in 1 .. n : f[j] # -1 => Cardinality(below(f[j])) = j - 1
  BY <1>4
<1>7. ASSUME NEW i \in 1 .. n, NEW j \in 1 .. n, f[i] = f[j], f[i] # -1
      PROVE  i = j
  <2>1. i - 1 = j - 1
    BY <1>6, <1>7
  <2> QED BY <2>1
<1>8. ASSUME n <= Cardinality(clear), NEW j \in 1 .. n
      PROVE  f[j] # -1
  <2>1. Cardinality(clear) \in Nat
    BY <1>3, FS_CardinalityType
  <2>2. j - 1 \in Nat /\ j - 1 < Cardinality(clear)
    BY <1>8, <2>1
  <2>3. jth(j) # {}
    <3> HIDE DEF jth
    <3>1. PICK b \in clear : Cardinality({c \in clear : c < b}) = j - 1
      BY <1>3, <2>2, KthSmallest
    <3> QED BY <3>1 DEF jth
  <2>4. f[j] \in clear
    BY <1>4, <2>3
  <2> QED BY <1>3, <2>4
<1> QED BY <1>2, <1>5, <1>7, <1>8 DEF f, FirstClear

-----------------------------------------------------------------------------
Places == {"unused", "execStart", "run", "joining", "joined", "exiting", "dead", "halted"}
Made == 1 .. execs                       \* the process records made so far
IdOf(k) == id[child[k]]                  \* the id that Exec gave record k

TypeOK ==
    /\ value \in [Records -> Nat]
    /\ execs \in 0 .. MaxExecs
    /\ pc \in [Threads -> Places]
    /\ id \in [Threads -> Ids]
    /\ processMap \subseteq Ids
    /\ processTable \in [Ids -> Made \union {NULL}]
    /\ child \in [Records -> Threads \union {NULL}]
    /\ joining = [t \in Threads |-> joining[t]]

(* Every record was made for a thread of its own; only those threads have  *)
(* an id other than 0.                                                     *)
ChildrenExact ==
    /\ \A k \in Made : child[k] \in Threads /\ pc[child[k]] # "unused"
    /\ \A k, l \in Made : child[k] = child[l] => k = l
    /\ \A t \in Threads : id[t] # 0 => \E k \in Made : child[k] = t

(* The table and the threads in Join name records by their ids. *)
TableExact ==
    /\ \A i \in processMap : processTable[i] # NULL
    /\ \A i \in Ids : processTable[i] # NULL => IdOf(processTable[i]) = i
    /\ \A t \in Threads : pc[t] \in {"joining", "joined"} =>
          joining[t].record \in Made /\ joining[t].id = IdOf(joining[t].record)

Joined(t, k) == pc[t] = "joined" /\ joining[t].record = k

(* The Exit of a process is signalled once, to one joiner; until that one  *)
(* has freed the id, the id belongs to the process that exited.            *)
SignalledOnce ==
    /\ \A k \in Records : k \notin Made => value[k] = 0
    /\ \A k \in Made : IdOf(k) # 0 =>
          /\ value[k] > 0 \/ (\E t \in Threads : Joined(t, k)) =>
                HasExited(child[k]) /\ IdOf(k) \in processMap /\ processTable[IdOf(k)] = k
          /\ value[k] <= 1
          /\ value[k] = 1 => \A t \in Threads : ~Joined(t, k)
          /\ \A t, u \in Threads : Joined(t, k) /\ Joined(u, k) => t = u

PInv == TypeOK /\ ChildrenExact /\ TableExact /\ SignalledOnce /\ IdsUnique

-----------------------------------------------------------------------------
(* A step that makes no record and touches no table, semaphore or joiner,  *)
(* and revives no thread, keeps the invariant.                             *)
LEMMA QuietHolds ==
    ASSUME PInv, UNCHANGED <<value, id, procVars, joining>>,
           pc' \in [Threads -> Places],
           \A t \in Threads : /\ pc'[t] = "unused" => pc[t] = "unused"
                              /\ pc'[t] = "joining" => pc[t] = "joining"
                              /\ pc'[t] = "joined" => pc[t] = "joined"
                              /\ HasExited(t) => pc'[t] \in {"exiting", "dead"}
    PROVE  PInv'
<1> USE DEF PInv, procVars
<1>1. TypeOK'
  BY DEF TypeOK, Made
<1>2. ChildrenExact'
  BY DEF ChildrenExact, Made
<1>3. TableExact'
  BY DEF TableExact, Made, IdOf
<1>4. Made' = Made /\ \A k \in Made : IdOf(k)' = IdOf(k) /\ child[k] \in Threads
  BY DEF Made, IdOf, ChildrenExact
<1>5. SignalledOnce'
  <2>1. \A k \in Made, t \in Threads : Joined(t, k)' => Joined(t, k)
    BY DEF Joined
  <2>2. \A k \in Made : HasExited(child[k]) => HasExited(child[k])'
    BY <1>4 DEF HasExited
  <2> QED BY <1>4, <2>1, <2>2 DEF SignalledOnce
<1>6. IdsUnique'
  <2>1. \A k \in Made : HasExited(child[k]) => HasExited(child[k])'
    BY <1>4 DEF HasExited
  <2> QED BY <1>4, <2>1 DEF IdsUnique, Made, IdOf
<1> QED BY <1>1, <1>2, <1>3, <1>5, <1>6

(* Exec takes an id that nobody has, and a new record. *)
LEMMA ExecHolds ==
    ASSUME PInv, NEW t \in Threads, NEW c \in Threads, Exec(t, c)
    PROVE  PInv'
<1> USE DEF PInv
<1> DEFINE i == FindBits(processMap, NumIds, 1)[1]
           k == execs + 1
<1>1. i \in Ids \ processMap
  <2>1. FindBits(processMap, NumIds, 1) \in [1 .. 1 -> (Ids \ processMap) \union {-1}]
    BY SizesAssumption, FindBitsFree DEF Ids, FirstClear
  <2>2. i # -1
    BY DEF Exec
  <2> QED BY <2>1, <2>2
<1>2. /\ pc[c] = "unused" /\ pc' = [pc EXCEPT ![c] = "execStart"]
      /\ processMap' = processMap \union {i}
      /\ processTable' = [processTable EXCEPT ![i] = k]
      /\ execs' = k /\ child' = [child EXCEPT ![k] = c] /\ id' = [id EXCEPT ![c] = i]
      /\ UNCHANGED <<value, joining>> /\ execs < MaxExecs
  BY DEF Exec, synchVars
<1> HIDE DEF i
<1>3. execs \in Nat /\ k \in Records /\ Made' = Made \union {k} /\ k \notin Made
  BY <1>2, SizesAssumption DEF TypeOK, Made, Records
<1>4. Made \subseteq Records /\ k # NULL
  BY <1>3, SizesAssumption, MainAssumption DEF TypeOK, Made, Records
<1> HIDE DEF k
<1>5. TypeOK'
  <2>1. execs' \in 0 .. MaxExecs
    BY <1>2, SizesAssumption DEF TypeOK, k
  <2> QED BY <1>1, <1>2, <1>3, <2>1 DEF TypeOK, Places
<1>6. /\ child'[k] = c
      /\ \A l \in Made : child'[l] = child[l] /\ child[l] \in Threads /\ child[l] # c
  BY <1>2, <1>3, <1>4 DEF TypeOK, ChildrenExact
<1>7. ChildrenExact'
  <2>1. \A l \in Made' : child'[l] \in Threads /\ pc'[child'[l]] # "unused"
    BY <1>2, <1>3, <1>6 DEF TypeOK, ChildrenExact
  <2>2. \A l, n \in Made' : child'[l] = child'[n] => l = n
    BY <1>3, <1>6 DEF ChildrenExact
  <2>3. \A u \in Threads : id'[u] # 0 => \E l \in Made' : child'[l] = u
    BY <1>2, <1>3, <1>6 DEF TypeOK, ChildrenExact
  <2> QED BY <2>1, <2>2, <2>3 DEF ChildrenExact
<1>8. \A l \in Made : IdOf(l)' = IdOf(l)
  BY <1>2, <1>6 DEF IdOf, TypeOK
<1>9. id'[child'[k]] = i
  BY <1>2, <1>6 DEF TypeOK
<1>10. TableExact'
  <2>1. \A j \in processMap' : processTable'[j] # NULL
    BY <1>1, <1>2, <1>4 DEF TypeOK, TableExact
  <2>2. ASSUME NEW j \in Ids, processTable'[j] # NULL
        PROVE  id'[child'[processTable'[j]]] = j
    <3>1. CASE j = i
      BY <1>1, <1>2, <1>9, <3>1 DEF TypeOK
    <3>2. CASE j # i
      <4>1. processTable'[j] = processTable[j] /\ processTable[j] \in Made
        BY <1>2, <2>2, <3>2 DEF TypeOK
      <4> QED BY <1>2, <1>6, <2>2, <4>1 DEF TableExact, IdOf, TypeOK
    <3> QED BY <3>1, <3>2
  <2>3. ASSUME NEW u \in Threads, pc'[u] \in {"joining", "joined"}
        PROVE  /\ joining'[u].record \in Made'
               /\ joining'[u].id = id'[child'[joining'[u].record]]
    <3>1. pc[u] = pc'[u]
      BY <1>2, <2>3 DEF TypeOK
    <3> QED BY <1>2, <1>3, <1>6, <2>3, <3>1 DEF TableExact, IdOf, TypeOK
  <2> QED BY <2>1, <2>2, <2>3 DEF TableExact, IdOf
<1>11. \A l \in Made : IdOf(l) \in processMap => processTable'[IdOf(l)] = processTable[IdOf(l)]
  BY <1>1, <1>2 DEF TypeOK
<1>12. \A l \in Made : HasExited(child[l])' <=> HasExited(child[l])
  BY <1>2, <1>6 DEF HasExited, TypeOK
<1>13. \A u \in Threads, l \in Made' : Joined(u, l)' => l \in Made
  <2> SUFFICES ASSUME NEW u \in Threads, NEW l \in Made', Joined(u, l)'
               PROVE  l \in Made
    OBVIOUS
  <2>1. pc'[u] = "joined" /\ joining'[u].record = l
    BY DEF Joined
  <2>2. pc[u] = "joined" /\ joining[u].record = l
    BY <1>2, <2>1 DEF TypeOK
  <2> QED BY <2>2 DEF TableExact
<1>14. \A u \in Threads, l \in Made : Joined(u, l)' <=> Joined(u, l)
  BY <1>2 DEF Joined, TypeOK
<1>15. SignalledOnce'
  <2>1. \A l \in Records : l \notin Made' => value'[l] = 0
    BY <1>2, <1>3 DEF SignalledOnce
  <2>2. value'[k] = 0
    BY <1>2, <1>3 DEF SignalledOnce
  <2>3. ASSUME NEW l \in Made, id'[child'[l]] # 0
        PROVE  /\ value'[l] > 0 \/ (\E u \in Threads : Joined(u, l)') =>
                     /\ pc'[child'[l]] \in {"exiting", "dead"}
                     /\ id'[child'[l]] \in processMap'
                     /\ processTable'[id'[child'[l]]] = l
               /\ value'[l] <= 1
               /\ value'[l] = 1 => \A u \in Threads : ~Joined(u, l)'
               /\ \A u, v \in Threads : Joined(u, l)' /\ Joined(v, l)' => u = v
    <3>1. id'[child'[l]] = IdOf(l)
      BY <1>8 DEF IdOf
    <3>2. pc'[child'[l]] \in {"exiting", "dead"} <=> HasExited(child[l])
      BY <1>6, <1>12 DEF HasExited
    <3>3. value'[l] = value[l]
      BY <1>2
    <3> QED BY <1>2, <1>11, <1>14, <2>3, <3>1, <3>2, <3>3 DEF SignalledOnce
  <2>4. \A u \in Threads, l \in Made' : Joined(u, l)' => l # k
    BY <1>3, <1>13
  <2> QED BY <1>3, <2>1, <2>2, <2>3, <2>4 DEF SignalledOnce, IdOf, HasExited
<1>16. IdsUnique'
  <2> SUFFICES ASSUME NEW l \in Made', pc'[child'[l]] \notin {"exiting", "dead"},
                      id'[child'[l]] # 0
               PROVE  /\ id'[child'[l]] \in processMap'
                      /\ processTable'[id'[child'[l]]] = l
    BY DEF IdsUnique, HasExited, Made
  <2>1. CASE l = k
    BY <1>1, <1>2, <1>9, <2>1 DEF TypeOK
  <2>2. CASE l \in Made
    <3>1. id'[child'[l]] = IdOf(l) /\ ~HasExited(child[l])
      BY <1>6, <1>8, <1>12, <2>2 DEF IdOf, HasExited
    <3>2. IdOf(l) \in processMap /\ processTable[IdOf(l)] = l
      BY <2>2, <3>1 DEF IdsUnique, IdOf, Made
    <3> QED BY <1>2, <1>11, <2>2, <3>1, <3>2
  <2> QED BY <1>3, <2>1, <2>2
<1> QED BY <1>5, <1>7, <1>10, <1>15, <1>16

(* Join looks the record up under its id. *)
LEMMA JoinHolds ==
    ASSUME PInv, NEW t \in Threads, NEW i \in Ids, Join(t, i)
    PROVE  PInv'
<1> USE DEF PInv
<1>1. /\ pc[t] = "run" /\ pc' = [pc EXCEPT ![t] = "joining"] /\ i \in processMap
      /\ joining' = [joining EXCEPT ![t] = [record |-> processTable[i], id |-> i]]
      /\ UNCHANGED <<value, id, processMap, processTable, execs, child>>
  BY DEF Join, Goto, synchVars, procVars
<1>2. TypeOK'
  BY <1>1 DEF TypeOK, Places, Made
<1>3. ChildrenExact'
  BY <1>1 DEF TypeOK, ChildrenExact, Made
<1>4. TableExact'
  BY <1>1 DEF TypeOK, TableExact, Made, IdOf
<1>5. \A k \in Made, u \in Threads : Joined(u, k)' <=> Joined(u, k)
  BY <1>1 DEF TypeOK, Joined
<1>6. Made' = Made /\ \A k \in Made : IdOf(k)' = IdOf(k) /\ (HasExited(child[k])' <=> HasExited(child[k]))
  BY <1>1 DEF TypeOK, Made, IdOf, HasExited, ChildrenExact
<1>7. SignalledOnce'
  BY <1>1, <1>5, <1>6 DEF SignalledOnce
<1>8. IdsUnique'
  BY <1>1, <1>6 DEF IdsUnique, Made, IdOf
<1> QED BY <1>2, <1>3, <1>4, <1>7, <1>8

(* P lets one joiner through. *)
LEMMA JoinPassHolds ==
    ASSUME PInv, NEW t \in Threads, JoinPass(t)
    PROVE  PInv'
<1> USE DEF PInv
<1> DEFINE r == joining[t].record
<1>1. /\ pc[t] = "joining" /\ pc' = [pc EXCEPT ![t] = "joined"]
      /\ value[r] > 0 /\ value' = [value EXCEPT ![r] = @ - 1]
      /\ UNCHANGED <<id, processMap, processTable, execs, child, joining>>
  BY DEF JoinPass, Goto, Pass, procVars
<1>2. r \in Made /\ Made \subseteq Records
  BY <1>1, SizesAssumption DEF TableExact, TypeOK, Made, Records
<1> HIDE DEF r
<1>3. TypeOK'
  <2>1. value[r] - 1 \in Nat
    BY <1>1, <1>2 DEF TypeOK
  <2> QED BY <1>1, <2>1 DEF TypeOK, Places, Made
<1>4. ChildrenExact'
  BY <1>1 DEF TypeOK, ChildrenExact, Made
<1>5. TableExact'
  BY <1>1 DEF TypeOK, TableExact, Made, IdOf
<1>6. \A k \in Made, u \in Threads : Joined(u, k)' <=> Joined(u, k) \/ (u = t /\ k = r)
  BY <1>1 DEF TypeOK, Joined, r
<1>7. Made' = Made /\ \A k \in Made : IdOf(k)' = IdOf(k) /\ (HasExited(child[k])' <=> HasExited(child[k]))
  BY <1>1 DEF TypeOK, Made, IdOf, HasExited, ChildrenExact
<1>8. SignalledOnce'
  <2>1. \A k \in Records : value[k] \in Nat /\ value'[k] = IF k = r THEN value[k] - 1 ELSE value[k]
    BY <1>1, <1>2 DEF TypeOK
  <2> QED BY <1>1, <1>2, <1>6, <1>7, <2>1 DEF SignalledOnce
<1>9. IdsUnique'
  BY <1>1, <1>7 DEF IdsUnique, Made, IdOf
<1> QED BY <1>3, <1>4, <1>5, <1>8, <1>9

(* The joiner that P let through frees the id of a process that exited.    *)
LEMMA JoinReturnHolds ==
    ASSUME PInv, NEW t \in Threads, JoinReturn(t)
    PROVE  PInv'
<1> USE DEF PInv
<1> DEFINE r == joining[t].record
<1>1. /\ pc[t] = "joined" /\ pc' = [pc EXCEPT ![t] = "run"]
      /\ processMap' = processMap \ {joining[t].id}
      /\ joining' = [joining EXCEPT ![t] = NULL]
      /\ UNCHANGED <<value, id, processTable, execs, child>>
  BY DEF JoinReturn, Goto, synchVars
<1>2. r \in Made /\ joining[t].id = IdOf(r) /\ Joined(t, r)
  BY <1>1 DEF TableExact, Joined
<1> HIDE DEF r
<1>3. TypeOK'
  BY <1>1 DEF TypeOK, Places, Made
<1>4. ChildrenExact'
  BY <1>1 DEF TypeOK, ChildrenExact, Made
<1>5. TableExact'
  BY <1>1 DEF TypeOK, TableExact, Made, IdOf
<1>6. \A k \in Made, u \in Threads : Joined(u, k)' <=> Joined(u, k) /\ u # t
  BY <1>1 DEF TypeOK, Joined
<1>7. Made' = Made /\ \A k \in Made : IdOf(k)' = IdOf(k) /\ (HasExited(child[k])' <=> HasExited(child[k]))
  BY <1>1 DEF TypeOK, Made, IdOf, HasExited, ChildrenExact
<1>8. \A k \in Made : IdOf(k) # 0 /\ IdOf(k) = IdOf(r) /\ processTable[IdOf(k)] = k => k = r
  BY <1>2 DEF SignalledOnce
<1>9. SignalledOnce'
  <2> SUFFICES ASSUME NEW k \in Made, IdOf(k) # 0
               PROVE  /\ value[k] > 0 \/ (\E u \in Threads : Joined(u, k)') =>
                            /\ HasExited(child[k]) /\ IdOf(k) \in processMap'
                            /\ processTable[IdOf(k)] = k
                      /\ value[k] <= 1
                      /\ value[k] = 1 => \A u \in Threads : ~Joined(u, k)'
                      /\ \A u, v \in Threads : Joined(u, k)' /\ Joined(v, k)' => u = v
    BY <1>1, <1>7 DEF SignalledOnce
  <2>1. value[r] \in Nat
    BY <1>2, SizesAssumption DEF TypeOK, Made, Records
  <2>2. CASE k = r
    <3>1. value[k] = 0 /\ \A u \in Threads : Joined(u, k) => u = t
      BY <1>2, <2>1, <2>2 DEF SignalledOnce
    <3> QED BY <1>6, <3>1
  <2>3. CASE k # r
    BY <1>1, <1>2, <1>6, <1>8, <2>3 DEF SignalledOnce
  <2> QED BY <2>2, <2>3
<1>10. IdsUnique'
  <2> SUFFICES ASSUME NEW k \in Made, ~HasExited(child[k]), IdOf(k) # 0
               PROVE  IdOf(k) \in processMap' /\ processTable[IdOf(k)] = k
    BY <1>1, <1>7 DEF IdsUnique, Made, IdOf
  <2>1. IdOf(k) \in processMap /\ processTable[IdOf(k)] = k
    BY DEF IdsUnique, Made, IdOf
  <2>2. IdOf(k) # IdOf(r)
    BY <1>2, <1>8, <2>1 DEF SignalledOnce
  <2> QED BY <1>1, <1>2, <2>1, <2>2
<1> QED BY <1>3, <1>4, <1>5, <1>9, <1>10

(* Exit signals the record of the process itself, for the first time; a    *)
(* thread that Exec did not make signals the record with id 0 at most.     *)
LEMMA ExitHolds ==
    ASSUME PInv, NEW t \in Threads, Exit(t)
    PROVE  PInv'
<1> USE DEF PInv
<1> DEFINE r == processTable[id[t]]
<1>1. /\ pc[t] = "run" /\ pc' = [pc EXCEPT ![t] = "exiting"]
      /\ value' = IF r = NULL THEN value ELSE [value EXCEPT ![r] = @ + 1]
      /\ UNCHANGED <<id, processMap, processTable, execs, child, joining>>
  BY DEF Exit, Goto, V, procVars
<1>2. /\ r \in Made \union {NULL} /\ Made \subseteq Records
      /\ r # NULL => IdOf(r) = id[t]
  BY SizesAssumption DEF TypeOK, TableExact, Made, Records
<1>3. id[t] # 0 => r \in Made /\ child[r] = t /\ id[t] \in processMap
  <2> SUFFICES ASSUME id[t] # 0 PROVE r \in Made /\ child[r] = t /\ id[t] \in processMap
    OBVIOUS
  <2>1. PICK k \in Made : child[k] = t
    BY DEF ChildrenExact
  <2>2. id[child[k]] \in processMap /\ processTable[id[child[k]]] = k
    BY <1>1, <2>1 DEF IdsUnique, HasExited, Made
  <2> QED BY <2>1, <2>2
<1> HIDE DEF r
<1>4. TypeOK'
  BY <1>1, <1>2 DEF TypeOK, Places, Made
<1>5. ChildrenExact'
  BY <1>1 DEF TypeOK, ChildrenExact, Made
<1>6. TableExact'
  BY <1>1 DEF TypeOK, TableExact, Made, IdOf
<1>7. \A k \in Made, u \in Threads : Joined(u, k)' <=> Joined(u, k)
  BY <1>1 DEF TypeOK, Joined
<1>8. /\ Made' = Made
      /\ \A k \in Made : /\ IdOf(k)' = IdOf(k)
                         /\ HasExited(child[k])' <=> HasExited(child[k]) \/ child[k] = t
  BY <1>1 DEF TypeOK, Made, IdOf, HasExited, ChildrenExact
<1>9. \A k \in Records : /\ value[k] \in Nat
                         /\ value'[k] = IF k = r /\ r # NULL THEN value[k] + 1 ELSE value[k]
  BY <1>1, <1>2 DEF TypeOK
<1>10. SignalledOnce'
  <2>1. \A k \in Records : k \notin Made => value'[k] = 0
    BY <1>2, <1>9 DEF SignalledOnce
  <2>2. ASSUME NEW k \in Made, IdOf(k) # 0
        PROVE  /\ value'[k] > 0 \/ (\E u \in Threads : Joined(u, k)) =>
                     /\ HasExited(child[k]) \/ child[k] = t
                     /\ IdOf(k) \in processMap /\ processTable[IdOf(k)] = k
               /\ value'[k] <= 1
               /\ value'[k] = 1 => \A u \in Threads : ~Joined(u, k)
               /\ \A u, v \in Threads : Joined(u, k) /\ Joined(v, k) => u = v
    <3>1. CASE k = r
      <4>1. k # NULL
        BY MainAssumption DEF Made, TypeOK
      <4>2. IdOf(k) = id[t] /\ child[k] = t
        BY <1>2, <1>3, <2>2, <3>1, <4>1
      <4>3. ~HasExited(child[k])
        BY <1>1, <4>2 DEF HasExited
      <4>4. value[k] = 0 /\ \A u \in Threads : ~Joined(u, k)
        BY <1>2, <1>9, <2>2, <4>3 DEF SignalledOnce
      <4>5. IdOf(k) \in processMap /\ processTable[IdOf(k)] = k
        BY <2>2, <4>3 DEF IdsUnique, Made, IdOf
      <4>6. value'[k] = 1
        BY <1>2, <1>9, <3>1, <4>1, <4>4
      <4> QED BY <4>2, <4>4, <4>5, <4>6
    <3>2. CASE k # r
      <4>1. value'[k] = value[k]
        BY <1>2, <1>9, <3>2
      <4> QED BY <2>2, <4>1 DEF SignalledOnce
    <3> QED BY <3>1, <3>2
  <2>3. ASSUME NEW k \in Made', IdOf(k)' # 0
        PROVE  /\ value'[k] > 0 \/ (\E u \in Threads : Joined(u, k)') =>
                     /\ HasExited(child[k])'
                     /\ IdOf(k)' \in processMap' /\ processTable'[IdOf(k)'] = k
               /\ value'[k] <= 1
               /\ value'[k] = 1 => \A u \in Threads : ~Joined(u, k)'
               /\ \A u, v \in Threads : Joined(u, k)' /\ Joined(v, k)' => u = v
    <3>1. k \in Made /\ IdOf(k)' = IdOf(k)
      BY <1>8
    <3> QED BY <1>1, <1>7, <1>8, <2>2, <2>3, <3>1
  <2> QED BY <1>1, <1>8, <2>1, <2>3 DEF SignalledOnce
<1>11. IdsUnique'
  BY <1>1, <1>8 DEF IdsUnique, Made, IdOf
<1> QED BY <1>4, <1>5, <1>6, <1>10, <1>11

(* The invariant is inductive: Join and Exit move the signals, the other   *)
(* calls leave the tables alone.                                           *)
LEMMA InitHolds == Init => PInv
<1> SUFFICES ASSUME Init PROVE PInv
  OBVIOUS
<1>1. Made = {} /\ 0 \in Ids /\ 0 \in 0 .. MaxExecs
  BY SizesAssumption DEF Init, Made, Ids
<1>2. TypeOK
  BY <1>1 DEF Init, TypeOK, Places
<1>3. ChildrenExact
  BY <1>1 DEF Init, ChildrenExact
<1>4. TableExact
  BY <1>1 DEF Init, TableExact
<1>5. SignalledOnce
  BY <1>1 DEF Init, SignalledOnce
<1>6. IdsUnique
  BY <1>1 DEF IdsUnique, Made
<1> QED BY <1>2, <1>3, <1>4, <1>5, <1>6 DEF PInv

(* Every system call keeps the tables in order. *)
LEMMA StepHolds == PInv /\ [Next]_vars => PInv'
<1> SUFFICES ASSUME PInv, [Next]_vars PROVE PInv'
  OBVIOUS
<1>1. ASSUME NEW t \in Threads, NEW c \in Threads, Fork(t, c)
      PROVE  PInv'
  <2>1. /\ pc[c] = "unused" /\ pc' = [pc EXCEPT ![c] = "run"]
        /\ UNCHANGED <<value, id, procVars, joining>>
    BY <1>1 DEF Fork, synchVars
  <2> QED BY <2>1, QuietHolds DEF PInv, TypeOK, Places, HasExited
<1>2. ASSUME NEW t \in Threads, ExecFails(t) \/ Load(t) \/ LoadFails(t) \/ JoinBlock(t)
      PROVE  PInv'
  <2>1. /\ pc[t] \in {"run", "execStart", "joining"}
        /\ UNCHANGED <<value, id, procVars, joining>>
        /\ \E to \in {"run", "dead", "joining"} :
              /\ pc' = [pc EXCEPT ![t] = to]
              /\ to = "joining" => pc[t] = "joining"
    BY <1>2 DEF ExecFails, Load, LoadFails, JoinBlock, Goto, synchVars, Block
  <2> QED BY <2>1, QuietHolds DEF PInv, TypeOK, Places, HasExited
<1>3. ASSUME NEW t \in Threads, ExitFree(t) \/ Halt(t)
      PROVE  PInv'
  <2>1. /\ UNCHANGED <<value, id, procVars, joining>>
        /\ \/ pc[t] = "exiting" /\ pc' = [pc EXCEPT ![t] = "dead"]
           \/ pc[t] = "run" /\ pc' = [pc EXCEPT ![t] = "halted"]
    BY <1>3 DEF ExitFree, Halt, Goto, synchVars
  <2> QED BY <2>1, QuietHolds DEF PInv, TypeOK, Places, HasExited
<1>4. CASE UNCHANGED vars
  BY <1>4, QuietHolds DEF vars, synchVars, procVars, PInv, TypeOK, HasExited
<1> QED BY <1>1, <1>2, <1>3, <1>4, ExecHolds, JoinHolds, JoinPassHolds, JoinReturnHolds,
           ExitHolds DEF Next

(* The invariant holds in every reachable state. *)
LEMMA Invariant == Spec => []PInv
BY InitHolds, StepHolds, PTL DEF Spec

(* Two programs that run never have the same id, and the table still has   *)
(* their record, for every id but 0: a Join frees an id only after its     *)
(* process exited, whichever of several joiners comes first.               *)
THEOREM IdsNotReused == Spec => []IdsUnique
<1>1. PInv => IdsUnique
  BY DEF PInv
<1> QED BY <1>1, Invariant, PTL

(* A Join of an id other than 0 gets past its P only after the program it  *)
(* names called Exit, however many threads join it and however often the   *)
(* id was used before.                                                     *)
THEOREM JoinReturnsAfterExit == Spec => []JoinWaits
<1>1. PInv => JoinWaits
  <2> SUFFICES ASSUME PInv, NEW t \in Threads, pc[t] = "joined", joining[t].id # 0
               PROVE  HasExited(child[joining[t].record])
    BY DEF JoinWaits
  <2>1. /\ joining[t].record \in Made
        /\ joining[t].id = IdOf(joining[t].record)
    BY DEF PInv, TableExact
  <2>2. Joined(t, joining[t].record)
    BY DEF Joined
  <2> QED BY <2>1, <2>2 DEF PInv, SignalledOnce
<1> QED BY <1>1, Invariant, PTL

-----------------------------------------------------------------------------
(* Page frames. *)
Owners == {t \in Threads : UsesFrames(t) \/ pc[t] = "halted"}
InSpace == 1 .. NumPages

(* No thread of a program that called Fork has exited. *)
NoForkedExit == ~aborted /\ \A t \in Threads : pc[t] = "dead" => ~Forked(t)

(* Two pages have the same frame only if Fork made them share it. *)
Apart ==
    \A t, u \in Owners, p, q \in InSpace :
        frames[t][p] = frames[u][q] /\ frames[t][p] # -1 =>
            p = q /\ (t = u \/ (p <= SharedPages /\ Forked(t) /\ Forked(u)))

(* The frames marked are the frames of the threads that have not exited. *)
Marked ==
    \A f \in Frames :
        f \in memoryMap <=> \E t \in Owners, p \in InSpace : frames[t][p] = f

FramesType ==
    /\ aborted \in BOOLEAN
    /\ pc \in [Threads -> Places]
    /\ parent \in [Threads -> Threads \union {NULL}]
    /\ frames = [t \in Threads |-> frames[t]]
    /\ \A t \in Threads : pc[t] = "unused" => parent[t] = NULL
    /\ ~aborted => /\ memoryMap \subseteq Frames
                   /\ \A t \in Owners : frames[t] \in [InSpace -> Frames \union {-1}]

FInv == FramesType /\ (NoForkedExit => Apart /\ Marked)

(* The numbers of pages and frames are numbers, and -1 is no frame. *)
LEMMA Sizes ==
    /\ NumPages \in Nat /\ SharedPages \in Nat /\ StackPages \in Nat /\ NumPhysPages \in Nat
    /\ SharedPages <= NumPages /\ -1 \notin Frames /\ NumPages = SharedPages + StackPages
BY SizesAssumption DEF NumPages, Frames

(* Calls that neither allocate nor free frames. *)
LEMMA SameFramesHolds ==
    ASSUME FInv, UNCHANGED <<frames, memoryMap, parent, aborted>>,
           pc' \in [Threads -> Places], Owners' = Owners,
           \A t \in Threads : /\ pc[t] = "dead" => pc'[t] = "dead"
                              /\ pc'[t] = "unused" => pc[t] = "unused"
    PROVE  FInv'
<1>1. FramesType'
  BY DEF FInv, FramesType
<1>2. ASSUME NoForkedExit' PROVE Apart' /\ Marked'
  <2>1. \A t \in Threads : Forked(t)' <=> Forked(t)
    BY DEF Forked
  <2>2. NoForkedExit
    BY <1>2, <2>1 DEF NoForkedExit
  <2>3. Owners \subseteq Threads
    BY DEF Owners
  <2> QED BY <2>1, <2>2, <2>3 DEF FInv, Apart, Marked
<1> QED BY <1>1, <1>2 DEF FInv

(* The child of Exec loads its program into frames that nobody has. *)
LEMMA LoadHolds ==
    ASSUME FInv, NEW c \in Threads, Load(c)
    PROVE  FInv'
<1> DEFINE found == FindBits(memoryMap, NumPhysPages, NumPages)
           enough == NumPages <= NumPhysPages - Cardinality(memoryMap)
<1>1. /\ ~aborted /\ pc[c] = "execStart" /\ pc' = [pc EXCEPT ![c] = "run"]
      /\ UNCHANGED parent /\ pc \in [Threads -> Places] /\ memoryMap \subseteq Frames
  BY DEF Load, Goto, FInv, FramesType
<1>2. CASE ~enough
  <2>1. aborted' = TRUE /\ UNCHANGED frames
    BY <1>2 DEF Load
  <2> QED BY <1>1, <2>1 DEF FInv, FramesType, NoForkedExit, Places
<1>3. CASE enough
  <2>1. /\ frames' = [frames EXCEPT ![c] = found] /\ UNCHANGED aborted
        /\ memoryMap' = memoryMap \union {frames'[c][p] : p \in InSpace}
    BY <1>3 DEF Load, InSpace
  <2>2. NumPages <= Cardinality(Frames \ memoryMap)
    <3>1. IsFiniteSet(Frames) /\ Cardinality(Frames) = NumPhysPages
      BY Sizes, FS_Interval DEF Frames
    <3>2. IsFiniteSet(memoryMap) /\ Cardinality(memoryMap) \in Nat
      BY <1>1, <3>1, FS_Subset, FS_CardinalityType
    <3>3. Cardinality(Frames \ memoryMap) = Cardinality(Frames) - Cardinality(Frames \intersect memoryMap)
      BY <3>1, FS_Difference
    <3>4. Frames \intersect memoryMap = memoryMap
      BY <1>1
    <3> QED BY <1>3, <3>1, <3>2, <3>3, <3>4, Sizes
  <2>3. /\ found \in [InSpace -> (Frames \ memoryMap) \union {-1}]
        /\ \A i, j \in InSpace : found[i] = found[j] /\ found[i] # -1 => i = j
        /\ \A j \in InSpace : found[j] # -1
    <3>1. FirstClear(found, memoryMap, NumPhysPages, NumPages)
      BY FindBitsFree, Sizes
    <3> QED BY <2>2, <3>1 DEF Frames, InSpace, FirstClear
  <2> HIDE DEF found, enough
  <2>4. /\ Owners' = Owners \union {c} /\ c \notin Owners /\ Owners \subseteq Threads
        /\ frames'[c] = found /\ \A t \in Owners : frames'[t] = frames[t]
    BY <1>1, <2>1 DEF Owners, UsesFrames, FInv, FramesType, Places
  <2>5. \A j \in InSpace : found[j] \in Frames \ memoryMap
    BY <2>3
  <2>6. FramesType'
    <3>1. memoryMap' \subseteq Frames
      BY <1>1, <2>1, <2>4, <2>5
    <3>2. \A t \in Owners' : frames'[t] \in [InSpace -> Frames \union {-1}]
      BY <1>1, <2>3, <2>4 DEF FInv, FramesType
    <3>3. InSpace' = InSpace /\ Frames' = Frames
      BY DEF InSpace, Frames, NumPages
    <3> QED BY <1>1, <2>1, <3>1, <3>2, <3>3 DEF FInv, FramesType, Places
  <2>7. ASSUME NoForkedExit' PROVE Apart' /\ Marked'
    <3>1. \A t \in Threads : Forked(t)' <=> Forked(t)
      BY <1>1 DEF Forked
    <3>2. NoForkedExit
      BY <1>1, <2>7, <3>1 DEF NoForkedExit, Places
    <3>3. Apart /\ Marked
      BY <3>2 DEF FInv
    <3>4. ASSUME NEW t \in Owners, NEW p \in InSpace, frames[t][p] # -1
          PROVE  frames[t][p] \in memoryMap
      <4>1. frames[t][p] \in Frames
        BY <1>1, <3>4 DEF FInv, FramesType
      <4> QED BY <3>3, <4>1 DEF Marked
    <3>5. Apart'
      <4> SUFFICES ASSUME NEW t \in Owners', NEW u \in Owners', NEW p \in InSpace, NEW q \in InSpace,
                          frames'[t][p] = frames'[u][q], frames'[t][p] # -1
                   PROVE  p = q /\ (t = u \/ (p <= SharedPages /\ Forked(t)' /\ Forked(u)'))
        BY DEF Apart, InSpace, NumPages
      <4>1. CASE t = c /\ u = c
        BY <2>3, <2>4, <4>1
      <4>2. CASE t # c /\ u # c
        BY <2>4, <3>1, <3>3, <4>2 DEF Apart
      <4>3. CASE (t = c) # (u = c)
        BY <2>4, <2>5, <3>4, <4>3
      <4> QED BY <4>1, <4>2, <4>3
    <3>6. Marked'
      BY <2>1, <2>4, <3>3 DEF Marked
    <3> QED BY <3>5, <3>6
  <2> QED BY <2>6, <2>7 DEF FInv
<1> QED BY <1>2, <1>3

(* Fork shares the pages of code and data, and takes frames that nobody    *)
(* has for the stack, as far as there are any.                             *)
LEMMA ForkHolds ==
    ASSUME FInv, NEW t \in Threads, NEW c \in Threads, Fork(t, c)
    PROVE  FInv'
<1> DEFINE stack == FindBits(memoryMap, NumPhysPages, StackPages)
<1>1. /\ ~aborted /\ pc[t] = "run" /\ pc[c] = "unused" /\ pc' = [pc EXCEPT ![c] = "run"]
      /\ parent' = [parent EXCEPT ![c] = t] /\ UNCHANGED aborted
      /\ frames' = [frames EXCEPT ![c] =
            [p \in InSpace |-> IF p <= SharedPages THEN frames[t][p]
                               ELSE stack[p - SharedPages]]]
      /\ memoryMap' = memoryMap \union ({stack[p] : p \in 1 .. StackPages} \intersect Frames)
  BY DEF Fork, InSpace
<1>2. pc \in [Threads -> Places] /\ memoryMap \subseteq Frames
  BY <1>1 DEF FInv, FramesType
<1>3. /\ stack \in [1 .. StackPages -> (Frames \ memoryMap) \union {-1}]
      /\ \A i, j \in 1 .. StackPages : stack[i] = stack[j] /\ stack[i] # -1 => i = j
  <2>1. StackPages \in Nat /\ NumPhysPages \in Nat
    BY Sizes
  <2> HIDE DEF stack
  <2>2. FirstClear(stack, memoryMap, NumPhysPages, StackPages)
    BY <2>1, FindBitsFree DEF stack
  <2> QED BY <2>2 DEF Frames, FirstClear
<1> HIDE DEF stack
<1>4. /\ Owners' = Owners \union {c} /\ c \notin Owners /\ t \in Owners /\ t # c
      /\ Owners \subseteq Threads /\ \A u \in Owners : frames'[u] = frames[u]
  BY <1>1, <1>2 DEF Owners, UsesFrames, FInv, FramesType, Places
<1>5. \A p \in InSpace :
         /\ p <= SharedPages => frames'[c][p] = frames[t][p]
         /\ ~(p <= SharedPages) => /\ frames'[c][p] = stack[p - SharedPages]
                                   /\ p - SharedPages \in 1 .. StackPages
  BY <1>1, Sizes DEF FInv, FramesType, InSpace
<1>6. frames[t] \in [InSpace -> Frames \union {-1}]
  BY <1>1, <1>4 DEF FInv, FramesType
<1>7. FramesType'
  <2>1. memoryMap' \subseteq Frames
    BY <1>1, <1>2
  <2>2. \A p \in InSpace : frames'[c][p] \in Frames \union {-1}
    BY <1>3, <1>5, <1>6
  <2>3. frames'[c] \in [InSpace -> Frames \union {-1}]
    BY <1>1, <2>2 DEF FInv, FramesType
  <2>4. \A u \in Owners' : frames'[u] \in [InSpace -> Frames \union {-1}]
    BY <1>1, <1>4, <2>3 DEF FInv, FramesType
  <2>5. \A u \in Threads : pc'[u] = "unused" => parent'[u] = NULL
    BY <1>1, <1>2 DEF FInv, FramesType
  <2>6. InSpace' = InSpace /\ Frames' = Frames
    BY DEF InSpace, Frames, NumPages
  <2> QED BY <1>1, <2>1, <2>4, <2>5, <2>6 DEF FInv, FramesType, Places
<1>8. ASSUME NoForkedExit' PROVE Apart' /\ Marked'
  <2>1. /\ Forked(c)' /\ Forked(t)'
        /\ \A u \in Threads : Forked(u) => Forked(u)'
    <3>1. parent \in [Threads -> Threads \union {NULL}] /\ parent[c] = NULL /\ t # NULL
      BY <1>1, MainAssumption DEF FInv, FramesType
    <3>2. parent'[c] = t /\ \A v \in Threads : parent[v] # NULL => parent'[v] = parent[v]
      BY <1>1, <3>1
    <3>3. \A u \in Threads : u # NULL
      BY MainAssumption
    <3> QED BY <3>1, <3>2, <3>3 DEF Forked
  <2>2. NoForkedExit
    BY <1>1, <1>2, <1>8, <2>1 DEF NoForkedExit, Places
  <2>3. Apart /\ Marked
    BY <2>2 DEF FInv
  <2>4. ASSUME NEW u \in Owners, NEW p \in InSpace, frames[u][p] # -1
        PROVE  frames[u][p] \in memoryMap
    <3>1. frames[u][p] \in Frames
      BY <1>1, <2>4 DEF FInv, FramesType
    <3> QED BY <2>3, <3>1 DEF Marked
  <2>5. ASSUME NEW u \in Owners, NEW p \in InSpace, NEW q \in InSpace,
               frames'[u][p] = frames'[c][q], frames'[u][p] # -1
        PROVE  p = q /\ p <= SharedPages /\ Forked(u)'
    <3>1. CASE ~(q <= SharedPages)
      <4>1. frames[u][p] \in memoryMap
        BY <1>4, <2>4, <2>5
      <4> QED BY <1>3, <1>4, <1>5, <2>5, <3>1, <4>1
    <3>2. CASE q <= SharedPages
      <4>1. frames[u][p] = frames[t][q] /\ frames[u][p] # -1
        BY <1>4, <1>5, <2>5, <3>2
      <4>2. p = q /\ (u = t \/ Forked(u))
        BY <1>4, <2>3, <4>1 DEF Apart
      <4> QED BY <1>4, <2>1, <3>2, <4>2
    <3> QED BY <3>1, <3>2
  <2>6. ASSUME NEW p \in InSpace, NEW q \in InSpace,
               frames'[c][p] = frames'[c][q], frames'[c][p] # -1
        PROVE  p = q
    <3>1. CASE p <= SharedPages /\ q <= SharedPages
      BY <1>4, <1>5, <2>3, <2>6, <3>1 DEF Apart
    <3>2. CASE ~(p <= SharedPages) /\ ~(q <= SharedPages)
      <4>1. p - SharedPages = q - SharedPages
        BY <1>3, <1>5, <2>6, <3>2
      <4> QED BY <4>1, Sizes DEF InSpace
    <3>3. CASE p <= SharedPages /\ ~(q <= SharedPages)
      BY <1>3, <1>4, <1>5, <2>4, <2>6, <3>3
    <3>4. CASE ~(p <= SharedPages) /\ q <= SharedPages
      BY <1>3, <1>4, <1>5, <2>4, <2>6, <3>4
    <3> QED BY <3>1, <3>2, <3>3, <3>4
  <2>7. Apart'
    <3> SUFFICES ASSUME NEW u \in Owners', NEW v \in Owners', NEW p \in InSpace, NEW q \in InSpace,
                        frames'[u][p] = frames'[v][q], frames'[u][p] # -1
                 PROVE  p = q /\ (u = v \/ (p <= SharedPages /\ Forked(u)' /\ Forked(v)'))
      BY DEF Apart, InSpace, NumPages
    <3>1. CASE u \in Owners /\ v \in Owners
      BY <1>4, <2>1, <2>3, <3>1 DEF Apart
    <3>2. CASE u \in Owners /\ v = c
      BY <2>1, <2>5, <3>2
    <3>3. CASE u = c /\ v \in Owners
      BY <2>1, <2>5, <3>3
    <3>4. CASE u = c /\ v = c
      BY <2>6, <3>4
    <3> QED BY <1>4, <3>1, <3>2, <3>3, <3>4
  <2>8. ASSUME NEW f \in Frames
        PROVE  f \in memoryMap' <=> \E u \in Owners', p \in InSpace : frames'[u][p] = f
    <3>1. ASSUME f \in memoryMap PROVE \E u \in Owners', p \in InSpace : frames'[u][p] = f
      BY <1>4, <2>3, <3>1 DEF Marked
    <3>2. ASSUME NEW i \in 1 .. StackPages, f = stack[i]
          PROVE  \E u \in Owners', p \in InSpace : frames'[u][p] = f
      <4>1. i + SharedPages \in InSpace /\ ~(i + SharedPages <= SharedPages)
            /\ (i + SharedPages) - SharedPages = i
        BY Sizes DEF InSpace
      <4>2. frames'[c][i + SharedPages] = f
        BY <1>5, <3>2, <4>1
      <4> QED BY <1>4, <4>1, <4>2
    <3>3. ASSUME NEW u \in Owners', NEW p \in InSpace, frames'[u][p] = f
          PROVE  f \in memoryMap'
      <4>1. CASE u \in Owners
        BY <1>1, <1>4, <2>3, <3>3, <4>1 DEF Marked
      <4>2. CASE u = c /\ p <= SharedPages
        BY <1>1, <1>4, <1>5, <2>3, <3>3, <4>2 DEF Marked
      <4>3. CASE u = c /\ ~(p <= SharedPages)
        BY <1>1, <1>5, <3>3, <4>3
      <4> QED BY <1>4, <4>1, <4>2, <4>3
    <3> QED BY <1>1, <3>1, <3>2, <3>3
  <2>9. Marked'
    BY <2>8 DEF Marked, Frames, InSpace, NumPages
  <2> QED BY <2>7, <2>9
<1> QED BY <1>7, <1>8 DEF FInv

(* A program that never called Fork gives back frames that nobody else has. *)
LEMMA ExitFreeHolds ==
    ASSUME FInv, NEW t \in Threads, ExitFree(t)
    PROVE  FInv'
<1>1. /\ ~aborted /\ pc[t] = "exiting" /\ pc' = [pc EXCEPT ![t] = "dead"]
      /\ memoryMap' = memoryMap \ {frames[t][p] : p \in InSpace}
      /\ aborted' \in BOOLEAN /\ UNCHANGED <<parent, frames>>
  BY DEF ExitFree, Goto, InSpace
<1>2. pc \in [Threads -> Places] /\ memoryMap \subseteq Frames
  BY <1>1 DEF FInv, FramesType
<1>3. Owners' = Owners \ {t} /\ t \in Owners /\ Owners \subseteq Threads
  BY <1>1, <1>2 DEF Owners, UsesFrames
<1>4. FramesType'
  <2>1. InSpace' = InSpace /\ Frames' = Frames
    BY DEF InSpace, Frames, NumPages
  <2> QED BY <1>1, <1>2, <1>3, <2>1 DEF FInv, FramesType, Places
<1>5. ASSUME NoForkedExit' PROVE Apart' /\ Marked'
  <2>1. (\A u \in Threads : Forked(u)' <=> Forked(u)) /\ pc'[t] = "dead"
    BY <1>1, <1>2 DEF Forked
  <2>2. ~Forked(t) /\ NoForkedExit
    BY <1>1, <1>2, <1>5, <2>1 DEF NoForkedExit
  <2>3. Apart /\ Marked
    BY <2>2 DEF FInv
  <2>4. Apart'
    BY <1>1, <1>3, <2>1, <2>3 DEF Apart
  <2>5. ASSUME NEW f \in Frames
        PROVE  f \in memoryMap' <=> \E u \in Owners \ {t}, p \in InSpace : frames[u][p] = f
    <3>1. ASSUME NEW u \in Owners \ {t}, NEW p \in InSpace, frames[u][p] = f,
                 NEW q \in InSpace
          PROVE  frames[t][q] # f
      BY <1>3, <2>2, <2>3, <3>1, Sizes DEF Apart
    <3> QED BY <1>1, <1>3, <2>3, <3>1 DEF Marked
  <2>6. Marked'
    BY <1>1, <1>3, <2>5 DEF Marked
  <2> QED BY <2>4, <2>6
<1> QED BY <1>4, <1>5 DEF FInv

(* StartProcess loaded the first program into the first frames. *)
LEMMA InitFrames == Init => FInv
<1> SUFFICES ASSUME Init PROVE FInv
  OBVIOUS
<1>1. Owners = {Main} /\ Main \in Threads /\ ~aborted
  BY MainAssumption DEF Init, Owners, UsesFrames
<1>2. frames[Main] = [p \in InSpace |-> p - 1] /\ memoryMap = 0 .. NumPages - 1
  BY <1>1 DEF Init, InSpace
<1>3. /\ NumPages <= NumPhysPages /\ \A p \in InSpace : p \in Nat /\ p - 1 \in 0 .. NumPages - 1
      /\ 0 .. NumPages - 1 \subseteq Frames
  BY Sizes, SizesAssumption DEF InSpace, Frames
<1>4. FramesType
  <2>1. frames[Main] \in [InSpace -> Frames \union {-1}]
    BY <1>2, <1>3
  <2> QED BY <1>1, <1>2, <1>3, <2>1 DEF Init, FramesType, Places
<1>5. Apart
  BY <1>1, <1>2, <1>3 DEF Apart
<1>6. ASSUME NEW f \in Frames
      PROVE  f \in memoryMap <=> \E p \in InSpace : frames[Main][p] = f
  <2>1. f \in memoryMap => f + 1 \in InSpace /\ (f + 1) - 1 = f
    BY <1>2, Sizes DEF InSpace
  <2> QED BY <1>2, <1>3, <2>1
<1>7. Marked
  BY <1>1, <1>6 DEF Marked
<1> QED BY <1>4, <1>5, <1>7 DEF FInv

(* Only Load, Fork and the end of Exit change who has which frame. *)
LEMMA StepFrames == FInv /\ [Next]_vars => FInv'
<1> SUFFICES ASSUME FInv, [Next]_vars PROVE FInv'
  OBVIOUS
<1>1. pc \in [Threads -> Places]
  BY DEF FInv, FramesType
<1>2. ASSUME NEW t \in Threads, NEW c \in Threads, Exec(t, c)
      PROVE  FInv'
  <2>1. /\ pc[c] = "unused" /\ pc' = [pc EXCEPT ![c] = "execStart"]
        /\ UNCHANGED <<frames, memoryMap, parent, aborted>>
    BY <1>2 DEF Exec
  <2>2. Owners' = Owners
    BY <1>1, <2>1 DEF Owners, UsesFrames
  <2> QED BY <1>1, <2>1, <2>2, SameFramesHolds DEF Places
<1>3. ASSUME NEW t \in Threads,
             \/ ExecFails(t) \/ JoinPass(t) \/ JoinBlock(t) \/ JoinReturn(t)
             \/ Exit(t) \/ Halt(t) \/ (\E i \in Ids : Join(t, i))
      PROVE  FInv'
  <2>1. /\ UNCHANGED <<frames, memoryMap, parent, aborted>>
        /\ pc[t] \in {"run", "joining", "joined"}
        /\ \E to \in {"run", "joining", "joined", "exiting", "halted"} : pc' = [pc EXCEPT ![t] = to]
    BY <1>3 DEF ExecFails, Join, JoinPass, JoinBlock, JoinReturn, Exit, Halt, Goto
  <2>2. Owners' = Owners
    BY <1>1, <2>1 DEF Owners, UsesFrames
  <2> QED BY <1>1, <2>1, <2>2, SameFramesHolds DEF Places
<1>4. ASSUME NEW t \in Threads, LoadFails(t)
      PROVE  FInv'
  <2>1. /\ UNCHANGED <<frames, memoryMap, parent, aborted>>
        /\ pc[t] = "execStart" /\ pc' = [pc EXCEPT ![t] = "dead"]
    BY <1>4 DEF LoadFails, Goto
  <2>2. Owners' = Owners
    BY <1>1, <2>1 DEF Owners, UsesFrames
  <2> QED BY <1>1, <2>1, <2>2, SameFramesHolds DEF Places
<1>5. CASE UNCHANGED vars
  <2>1. Owners' = Owners
    BY <1>5 DEF vars, Owners, UsesFrames
  <2> QED BY <1>1, <1>5, <2>1, SameFramesHolds DEF vars
<1> QED BY <1>2, <1>3, <1>4, <1>5, LoadHolds, ForkHolds, ExitFreeHolds DEF Next

(* As long as no thread of a program that called Fork has exited, stacks   *)
(* and the memory of unrelated programs are separate, every frame in use   *)
(* is marked, and no marked frame is lost, for any number of threads,      *)
(* frames and pages: the allocation of Exec and of Fork is sound, and what *)
(* breaks it is only the Exit of a thread that shares its pages.           *)
THEOREM MemoryIsPrivate == Spec => []FramesSeparateUntilForkedExit
<1>1. FInv => FramesSeparateUntilForkedExit
  <2> SUFFICES ASSUME FInv, NoForkedExit
               PROVE  /\ FramesSeparate
                      /\ memoryMap = UNION {FramesOf(t) : t \in Owners}
    BY DEF FramesSeparateUntilForkedExit, NoForkedExit, Owners
  <2>1. /\ Apart /\ Marked /\ memoryMap \subseteq Frames
        /\ \A t \in Owners : frames[t] \in [InSpace -> Frames \union {-1}]
    BY DEF FInv, FramesType, NoForkedExit
  <2>2. \A t \in Owners : FramesOf(t) = {frames[t][p] : p \in InSpace} \ {-1}
    BY <2>1 DEF FramesOf
  <2>3. \A t \in Owners, p \in InSpace : frames[t][p] # -1 => frames[t][p] \in Frames
    BY <2>1
  <2>4. \A t \in Owners : FramesOf(t) \subseteq memoryMap
    BY <2>1, <2>2, <2>3 DEF Marked
  <2>5. \A f \in memoryMap : \E t \in Owners : f \in FramesOf(t)
    BY <2>1, <2>2, Sizes DEF Marked
  <2>6. \A t \in Threads : UsesFrames(t) => t \in Owners
    BY DEF Owners
  <2>7. FramesSeparate
    BY <2>1, <2>4, <2>6 DEF FramesSeparate, Apart, InSpace
  <2> QED BY <2>4, <2>5, <2>7
<1>2. Spec => []FInv
  BY InitFrames, StepFrames, PTL DEF Spec
<1> QED BY <1>1, <1>2, PTL
=============================================================================
