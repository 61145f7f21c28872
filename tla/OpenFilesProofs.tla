--------------------------- MODULE OpenFilesProofs ---------------------------
(***************************************************************************)
(* A transfer through a handle of Open reaches the file that was opened,   *)
(* and handles are descriptors as long as one table is used: proofs for    *)
(* any number of threads, files, handles and descriptors.                  *)
(***************************************************************************)
EXTENDS OpenFiles, DataProofs

FileObject == [kind : {"file"}, name : Names]
Objects == [kind : {"closed", "console", "file", "socket"}, name : Names \union {NULL}]
Table == [map : SUBSET Handles, unix : [Handles -> Fds \union {-1}], usage : Int]
Ops == {"none", "unused", "reading", "dead", "Create", "Open", "Read", "Write", "Close",
        "Connect", "Socket", "Sem", "Fork", "Exec", "Exit", "Bind"}
Calls == [op : Ops, h : Nat, name : Names \union {NULL}]

TypeOK ==
    /\ call \in [Threads -> Calls]
    /\ global \in Table /\ Console \subseteq global.map
    /\ tables \in [Threads -> Table] /\ openFiles \in [Threads -> Threads]
    /\ fds \in [Fds -> Objects]
    /\ meant \in [Threads -> [Handles -> Objects \union {NULL}]]
    /\ IsFiniteSet(used)

(* Handle h of table o stands for an open descriptor of its own. *)
InUse(o, h) == h \in tables[o].map \ Console /\ tables[o].unix[h] # -1

(* No table has a closed descriptor, and no two handles of the tables that *)
(* Close works on have the same one, nor one of the global table's.        *)
Apart ==
    /\ \A h \in global.map \ Console : global.unix[h] \in Fds /\ fds[global.unix[h]] # Closed
    /\ \A o \in Threads : \A h \in Handles : InUse(o, h) =>
          /\ fds[tables[o].unix[h]] # Closed
          /\ \A k \in global.map \ Console : global.unix[k] # tables[o].unix[h]
    /\ \A o, p \in Threads : \A h, k \in Handles :
          InUse(o, h) /\ InUse(p, k) /\ tables[o].unix[h] = tables[p].unix[k] => o = p /\ h = k

(* A handle that Open gave to a thread leads to the file it was for.       *)
Lead ==
    \A t \in Threads : \A h \in Handles : meant[t][h] \in FileObject =>
        h \in global.map \ Console /\ fds[global.unix[h]] = meant[t][h]

(* What holds while nobody closes a handle of the console. *)
Reaching == "console" \notin used =>
    /\ hit /\ Apart /\ Lead
    /\ \A o \in Threads : Console \subseteq tables[o].map

(* At most one table was used, the console stays open, no socket failed.   *)
OneTable == Cardinality(used) <= 1 /\ {"console", "failed"} \intersect used = {}

(* All tables but one are new, and below the size of a table the open      *)
(* descriptors are the handles of that one.                                *)
Same == OneTable =>
    /\ \A h \in global.map : global.unix[h] = h
    /\ "global" \notin used => global.map = Console
    /\ \A o \in Threads :
         /\ Console \subseteq tables[o].map
         /\ \A h \in tables[o].map : tables[o].unix[h] = h
         /\ o \notin used => tables[o].map = Console
    /\ \A d \in Fds \intersect Handles :
         fds[d] # Closed <=> d \in global.map \/ \E o \in Threads : d \in tables[o].map

FInv == TypeOK /\ Reaching /\ Same

-----------------------------------------------------------------------------
(* The console has handles, and -1 is neither handle nor descriptor. *)
LEMMA Numbers ==
    /\ Console \subseteq Handles /\ Handles \subseteq Nat /\ Fds \subseteq Nat
    /\ -1 \notin Handles /\ -1 \notin Fds
  BY SizesAssumption DEF Console, Handles, Fds

(* The kinds of objects differ. *)
LEMMA Kinds ==
    /\ Closed \in Objects /\ Closed \notin FileObject
    /\ \A n \in Names \union {NULL} :
          Object("file", n) \in Objects /\ Object("file", n) # Closed
    /\ Object("socket", NULL) \in Objects /\ Object("console", NULL) \in Objects
    /\ Object("socket", NULL) # Closed /\ Object("console", NULL) # Closed
    /\ Object("socket", NULL) \notin FileObject
    /\ NULL \notin FileObject
  BY NullAssumption DEF Objects, Object, Closed, FileObject

(* What a Table's Open does: the first free handle stands for fd, or the   *)
(* table is full.                                                          *)
Opens(tab, fd, h, new) ==
    /\ new \in Table
    /\ \/ h = -1 /\ Handles \subseteq tab.map /\ new = tab
       \/ /\ h \in Handles \ tab.map /\ \A k \in Handles \ tab.map : h <= k
          /\ new.map = tab.map \union {h} /\ new.unix = [tab.unix EXCEPT ![h] = fd]

(* NachosOpenFilesTable::Open does that. *)
LEMMA TableOpens ==
    ASSUME NEW tab \in Table, NEW fd \in Fds \union {-1}
    PROVE  Opens(tab, fd, TableOpen(tab, fd).handle, TableOpen(tab, fd).table)
<1>1. CASE Handles \subseteq tab.map
  BY <1>1 DEF TableOpen, Opens
<1>2. CASE ~(Handles \subseteq tab.map)
  <2> DEFINE h == Min(Handles \ tab.map)
             new == [tab EXCEPT !.map = @ \union {h}, !.unix[h] = fd]
  <2>1. Handles \ tab.map # {} /\ Handles \ tab.map \subseteq Nat
    BY <1>2, Numbers
  <2>2. h \in Handles \ tab.map /\ \A k \in Handles \ tab.map : h <= k
    BY <2>1, MinNat
  <2>3. TableOpen(tab, fd) = [handle |-> h, table |-> new]
    BY <1>2 DEF TableOpen
  <2> HIDE DEF h
  <2>4. /\ new \in Table /\ new.map = tab.map \union {h}
        /\ new.unix = [tab.unix EXCEPT ![h] = fd]
    BY <2>2 DEF Table
  <2> HIDE DEF new
  <2> QED BY <2>2, <2>3, <2>4 DEF Opens
<1> QED BY <1>1, <1>2

(* The new handle stands for fd, the others for what they stood for. *)
LEMMA OpensOne ==
    ASSUME NEW tab \in Table, NEW fd, NEW h, NEW new, Opens(tab, fd, h, new)
    PROVE  /\ tab.map \subseteq new.map
           /\ \A k \in new.map :
                 \/ k = h /\ k \in Handles \ tab.map /\ new.unix[k] = fd
                 \/ k # h /\ k \in tab.map /\ new.unix[k] = tab.unix[k]
<1>1. CASE h = -1
  <2>1. new = tab /\ h \notin tab.map
    BY <1>1, Numbers DEF Opens, Table
  <2> QED BY <2>1
<1>2. CASE h # -1
  <2>1. /\ h \in Handles \ tab.map /\ new.map = tab.map \union {h}
        /\ new.unix = [tab.unix EXCEPT ![h] = fd]
    BY <1>2 DEF Opens
  <2>2. tab.unix \in [Handles -> Fds \union {-1}] /\ tab.map \subseteq Handles
    BY DEF Table
  <2> QED BY <2>1, <2>2
<1> QED BY <1>1, <1>2

(* The host's next descriptor is the lowest that is free. *)
LEMMA FreeFdIsFree ==
    ASSUME Free # {}
    PROVE  /\ FreeFd \in Fds /\ fds[FreeFd] = Closed
           /\ \A d \in Fds : fds[d] = Closed => FreeFd <= d
<1>1. Free \subseteq Nat
  BY Numbers DEF Free
<1>2. FreeFd \in Free /\ \A d \in Free : FreeFd <= d
  BY <1>1, MinNat DEF FreeFd
<1> QED BY <1>2 DEF Free

(* A set with at most one element has no two. *)
LEMMA AtMostOne ==
    ASSUME NEW S, IsFiniteSet(S), Cardinality(S) <= 1, NEW x \in S, NEW y \in S
    PROVE  x = y
<1> SUFFICES ASSUME x # y PROVE FALSE
  OBVIOUS
<1>1. Cardinality({x, y}) = 2
  <2>1. {x, y} = {x} \union {y} /\ IsFiniteSet({x}) /\ Cardinality({x}) = 1 /\ y \notin {x}
    BY FS_Singleton
  <2>2. Cardinality({x} \union {y}) = 2
    BY <2>1, FS_AddElement
  <2> QED BY <2>1, <2>2
<1>2. {x, y} \in SUBSET S /\ Cardinality({x, y}) <= Cardinality(S) /\ Cardinality(S) \in Nat
  BY FS_Subset, FS_CardinalityType
<1> QED BY <1>1, <1>2

(* Using table o leaves the history of one table only if no other was used *)
(* before.                                                                 *)
LEMMA UseTable ==
    ASSUME IsFiniteSet(used), NEW o, NEW more, IsFiniteSet(more), o \in more,
           used' = used \union more
    PROVE  /\ IsFiniteSet(used')
           /\ OneTable' => OneTable /\ used \subseteq {o}
<1>1. IsFiniteSet(used')
  BY FS_Union
<1>2. ASSUME OneTable' PROVE OneTable /\ used \subseteq {o}
  <2>1. used \in SUBSET used' /\ Cardinality(used) <= Cardinality(used')
    BY <1>1, FS_Subset
  <2>2. Cardinality(used) \in Nat /\ Cardinality(used') \in Nat
    BY <1>1, FS_CardinalityType
  <2>3. Cardinality(used) <= 1
    BY <1>2, <2>1, <2>2 DEF OneTable
  <2>4. {"console", "failed"} \intersect used = {}
    BY <1>2 DEF OneTable
  <2>5. \A x \in used : x = o
    BY <1>1, <1>2, AtMostOne DEF OneTable
  <2> QED BY <2>3, <2>4, <2>5 DEF OneTable
<1> QED BY <1>1, <1>2

-----------------------------------------------------------------------------
(* What the registers of a thread hold has its type. *)
LEMMA CallTypes ==
    /\ User \in Calls /\ SystemCalls \subseteq Calls
    /\ \A c \in Calls : \A o \in Ops : [c EXCEPT !.op = o] \in Calls
<1>1. User \in Calls
  BY DEF User, Calls, Ops
<1>2. SystemCalls \subseteq Calls
  <2>1. [op : {"Create", "Open"}, h : {0}, name : Names] \subseteq Calls
    BY DEF Calls, Ops
  <2>2. Handles \union {MAX_OPEN_FILES} \subseteq Nat
    BY Numbers, SizesAssumption
  <2>3. [op : {"Read", "Write", "Close", "Connect"}, h : Handles \union {MAX_OPEN_FILES},
         name : {NULL}] \subseteq Calls
    BY <2>2 DEF Calls, Ops
  <2>4. {"Socket", "Sem", "Fork", "Exec", "Exit"} \union NeverReturns \subseteq Ops
    BY DEF NeverReturns, Ops
  <2>5. [op : {"Socket", "Sem", "Fork", "Exec", "Exit"} \union NeverReturns, h : {0},
         name : {NULL}] \subseteq Calls
    BY <2>4 DEF Calls
  <2> QED BY <2>1, <2>3, <2>5 DEF SystemCalls
<1>3. \A c \in Calls : \A o \in Ops : [c EXCEPT !.op = o] \in Calls
  BY DEF Calls
<1> QED BY <1>1, <1>2, <1>3

(* At first every table has the console only, and so does the host. *)
LEMMA InitHolds == Init => FInv
<1> SUFFICES ASSUME Init PROVE FInv
  OBVIOUS
<1>1. NewTable \in Table /\ NewTable.map = Console
      /\ \A h \in Console : NewTable.unix[h] = h
  BY Numbers, SizesAssumption DEF NewTable, Table, Console, Fds
<1>2. TypeOK
  <2>1. call \in [Threads -> Calls]
    BY CallTypes DEF Init, Ops
  <2>2. fds \in [Fds -> Objects]
    BY Kinds DEF Init
  <2> QED BY <1>1, <2>1, <2>2, FS_EmptySet DEF Init, TypeOK
<1>3. Reaching
  BY <1>1, Kinds DEF Init, Reaching, Apart, InUse, Lead
<1>4. Same
  BY <1>1, Kinds DEF Init, Same
<1> QED BY <1>2, <1>3, <1>4 DEF FInv

(* A step that changes neither tables nor descriptors keeps the invariant  *)
(* if the calls keep their type and the transfer went to the right file.   *)
LEMMA QuietHolds ==
    ASSUME FInv, call' \in [Threads -> Calls], UNCHANGED <<tablesVars, fds, meant, used>>,
           "console" \notin used => hit'
    PROVE  FInv'
<1> USE DEF FInv, tablesVars
<1>1. TypeOK'
  BY DEF TypeOK
<1>2. Reaching'
  BY DEF Reaching, Apart, InUse, Lead
<1>3. Same'
  BY DEF Same, OneTable
<1> QED BY <1>1, <1>2, <1>3

(* A transfer through a handle of the global table. *)
LEMMA TransferReaches ==
    ASSUME FInv, "console" \notin used, NEW t \in Threads, NEW h \in Handles, isOpened(global, h)
    PROVE  Reaches(t, h, getUnixHandle(global, h))
  BY DEF FInv, Reaching, Lead, Reaches, getUnixHandle, FileObject

(* Open: the descriptor was free, so no other handle stands for it.        *)
LEMMA OpenHolds ==
    ASSUME FInv, NEW t \in Threads, Open(t)
    PROVE  FInv'
<1> DEFINE object == Object("file", call[t].name)
           h == TableOpen(global, FreeFd).handle
           new == TableOpen(global, FreeFd).table
<1>1. /\ Free # {} /\ fds' = [fds EXCEPT ![FreeFd] = object]
      /\ global' = new /\ UNCHANGED <<tables, openFiles, hit>>
      /\ call' = [call EXCEPT ![t] = User]
      /\ meant' = IF h = -1 THEN meant ELSE [meant EXCEPT ![t][h] = object]
      /\ used' = used \union {"global"}
  BY DEF Open, HostOpen, Returns
<1>2. TypeOK /\ Reaching /\ Same
  BY DEF FInv
<1>3. object \in Objects /\ object # Closed
  BY <1>2, Kinds DEF TypeOK, Calls
<1>4. /\ FreeFd \in Fds /\ fds[FreeFd] = Closed
      /\ \A d \in Fds : fds[d] = Closed => FreeFd <= d
  BY <1>1, FreeFdIsFree
<1>5. Opens(global, FreeFd, h, new)
  BY <1>2, <1>4, TableOpens DEF TypeOK
<1>6. IsFiniteSet({"global"}) /\ "global" \in {"global"}
  BY FS_Singleton
<1>7. IsFiniteSet(used') /\ (OneTable' => OneTable /\ used \subseteq {"global"})
  BY <1>1, <1>2, <1>6, UseTable DEF TypeOK
<1> HIDE DEF object, h, new
<1>8. TypeOK'
  <2>1. call' \in [Threads -> Calls]
    BY <1>1, <1>2, CallTypes DEF TypeOK
  <2>2. fds' \in [Fds -> Objects]
    BY <1>1, <1>2, <1>3, <1>4 DEF TypeOK
  <2>3. meant' \in [Threads -> [Handles -> Objects \union {NULL}]]
    BY <1>1, <1>2, <1>3, <1>5 DEF TypeOK, Opens
  <2>4. global' \in Table /\ Console \subseteq global'.map
    BY <1>1, <1>2, <1>5 DEF TypeOK, Opens
  <2> QED BY <1>1, <1>2, <1>7, <2>1, <2>2, <2>3, <2>4 DEF TypeOK
<1>9. ASSUME "console" \notin used'
      PROVE  hit' /\ Apart' /\ Lead' /\ \A o \in Threads : Console \subseteq tables'[o].map
  <2>1. "console" \notin used
    BY <1>1, <1>9
  <2>2. hit /\ Apart /\ Lead /\ \A o \in Threads : Console \subseteq tables[o].map
    BY <1>2, <2>1 DEF Reaching
  <2>3. /\ \A d \in Fds : fds[d] # Closed => fds'[d] = fds[d] /\ d # FreeFd
        /\ fds'[FreeFd] = object
    BY <1>1, <1>2, <1>4 DEF TypeOK
  <2>4. \A k \in global'.map \ Console :
           \/ k = h /\ global'.unix[k] = FreeFd
           \/ k \in global.map /\ global'.unix[k] = global.unix[k]
    BY <1>1, <1>2, <1>5, OpensOne DEF TypeOK
  <2>5. \A o \in Threads : \A k \in Handles : InUse(o, k) => tables[o].unix[k] \in Fds
    BY <1>2 DEF TypeOK, Table, InUse
  <2>6. \A o \in Threads : \A k \in Handles : InUse(o, k)' <=> InUse(o, k)
    BY <1>1 DEF InUse
  <2>7. Apart'
    <3>1. \A k \in global'.map \ Console : global'.unix[k] \in Fds /\ fds'[global'.unix[k]] # Closed
      BY <1>3, <1>4, <2>2, <2>3, <2>4 DEF Apart
    <3>2. \A o \in Threads : \A k \in Handles : InUse(o, k) =>
            /\ fds'[tables[o].unix[k]] # Closed
            /\ \A m \in global'.map \ Console : global'.unix[m] # tables[o].unix[k]
      BY <1>4, <2>2, <2>3, <2>4, <2>5 DEF Apart
    <3> QED BY <1>1, <2>2, <2>6, <3>1, <3>2 DEF Apart
  <2>8. Lead'
    <3> SUFFICES ASSUME NEW u \in Threads, NEW k \in Handles, meant'[u][k] \in FileObject
                 PROVE  k \in global'.map \ Console /\ fds'[global'.unix[k]] = meant'[u][k]
      BY DEF Lead
    <3>1. CASE u = t /\ k = h
      <4>1. h # -1 /\ h \notin Console
        BY <1>2, <1>5, <3>1, Numbers DEF Opens, TypeOK
      <4>2. meant'[u][k] = object /\ k \in global'.map /\ global'.unix[k] = FreeFd
        BY <1>1, <1>2, <1>5, <3>1, <4>1 DEF Opens, TypeOK, Table
      <4> QED BY <2>3, <3>1, <4>1, <4>2
    <3>2. CASE ~(u = t /\ k = h)
      <4>1. meant'[u][k] = meant[u][k]
        BY <1>1, <1>2, <1>5, <3>2 DEF TypeOK, Opens
      <4>2. k \in global.map \ Console /\ fds[global.unix[k]] = meant[u][k]
        BY <2>2, <4>1 DEF Lead
      <4>3. global.unix[k] \in Fds /\ fds[global.unix[k]] # Closed
        BY <2>2, <4>2 DEF Apart
      <4>4. k \in global'.map /\ global'.unix[k] = global.unix[k]
        BY <1>1, <1>2, <1>5, <4>2 DEF Opens, TypeOK, Table
      <4> QED BY <2>3, <4>1, <4>2, <4>3, <4>4
    <3> QED BY <3>1, <3>2
  <2> QED BY <1>1, <2>2, <2>7, <2>8
<1>10. Same'
  <2> SUFFICES ASSUME OneTable' PROVE Same'
    BY DEF Same
  <2>1. OneTable /\ used \subseteq {"global"} /\ \A o \in Threads : o \notin used
    BY <1>7, ThreadsAssumption
  <2>2. /\ \A k \in global.map : global.unix[k] = k
        /\ \A o \in Threads : tables[o].map = Console /\ \A k \in Console : tables[o].unix[k] = k
        /\ \A d \in Fds \intersect Handles : fds[d] # Closed <=> d \in global.map
    BY <1>2, <2>1 DEF Same, TypeOK
  <2>3. CASE h = -1
    <3>1. FreeFd \notin Handles
      BY <1>2, <1>4, <1>5, <2>2, <2>3, Numbers DEF Opens
    <3>2. \A d \in Fds \intersect Handles : fds'[d] = fds[d]
      BY <1>1, <1>2, <3>1 DEF TypeOK
    <3>3. global' = global
      BY <1>1, <1>5, <2>3, Numbers DEF Opens
    <3> QED BY <1>1, <1>2, <2>2, <3>2, <3>3 DEF Same, TypeOK
  <2>4. CASE h # -1
    <3>1. /\ h \in Handles \ global.map /\ \A k \in Handles \ global.map : h <= k
          /\ global'.map = global.map \union {h}
          /\ global'.unix = [global.unix EXCEPT ![h] = FreeFd]
      BY <1>1, <1>5, <2>4 DEF Opens
    <3>2. h = FreeFd
      <4>1. h <= FreeFd
        BY <1>4, <2>2, <3>1, SizesAssumption DEF Handles, Fds
      <4>2. h \in Fds /\ fds[h] = Closed
        BY <1>4, <2>2, <3>1, <4>1, SizesAssumption DEF Handles, Fds
      <4> QED BY <1>4, <3>1, <4>1, <4>2, Numbers
    <3>3. \A k \in global'.map : global'.unix[k] = k
      BY <1>2, <2>2, <3>1, <3>2 DEF TypeOK, Table
    <3>4. \A d \in Fds \intersect Handles : fds'[d] # Closed <=> d \in global'.map
      BY <1>1, <1>2, <1>3, <2>2, <3>1, <3>2 DEF TypeOK
    <3> QED BY <1>1, <1>8, <2>2, <3>3, <3>4 DEF Same, TypeOK
  <2> QED BY <2>3, <2>4
<1> QED BY <1>8, <1>9, <1>10 DEF FInv, Reaching

(* Socket: the same in the table of the thread.  A socket that the host    *)
(* refuses gets a handle for -1, which is no descriptor.                   *)
LEMMA SocketHolds ==
    ASSUME FInv, NEW t \in Threads, NEW fails \in BOOLEAN, Socket(t, fails)
    PROVE  FInv'
<1> DEFINE object == Object("socket", NULL)
           o == openFiles[t]
           fd == IF fails THEN -1 ELSE FreeFd
           h == TableOpen(tables[o], fd).handle
           new == TableOpen(tables[o], fd).table
           more == {o} \union (IF fails THEN {"failed"} ELSE {})
<1>1. /\ fails => UNCHANGED fds
      /\ ~fails => Free # {} /\ fds' = [fds EXCEPT ![FreeFd] = object]
      /\ tables' = [tables EXCEPT ![o] = new] /\ UNCHANGED <<global, openFiles, hit>>
      /\ call' = [call EXCEPT ![t] = User]
      /\ meant' = IF h = -1 THEN meant ELSE [meant EXCEPT ![t][h] = object]
      /\ used' = used \union more
  BY DEF Socket, HostOpen, Returns, Own
<1>2. TypeOK /\ Reaching /\ Same /\ o \in Threads
  BY DEF FInv, TypeOK
<1>3. object \in Objects /\ object # Closed /\ object \notin FileObject
  BY Kinds
<1>4. ~fails => /\ FreeFd \in Fds /\ fds[FreeFd] = Closed
                /\ \A d \in Fds : fds[d] = Closed => FreeFd <= d
  BY <1>1, FreeFdIsFree
<1>5. tables[o] \in Table /\ fd \in Fds \union {-1} /\ Opens(tables[o], fd, h, new)
  BY <1>2, <1>4, TableOpens DEF TypeOK
<1>6. IsFiniteSet(more) /\ o \in more
  BY FS_Singleton, FS_EmptySet, FS_Union
<1> HIDE DEF more
<1>7. IsFiniteSet(used') /\ (OneTable' => OneTable /\ used \subseteq {o})
  BY <1>1, <1>2, <1>6, UseTable DEF TypeOK
<1>8. fails => ~OneTable'
  BY <1>1 DEF OneTable, more
<1>9. fd = -1 <=> fails
  BY <1>4, Numbers
<1> HIDE DEF object, h, new
<1>10. TypeOK'
  <2>1. call' \in [Threads -> Calls]
    BY <1>1, <1>2, CallTypes DEF TypeOK
  <2>2. fds' \in [Fds -> Objects]
    BY <1>1, <1>2, <1>3, <1>4 DEF TypeOK
  <2>3. meant' \in [Threads -> [Handles -> Objects \union {NULL}]]
    BY <1>1, <1>2, <1>3, <1>5 DEF TypeOK, Opens
  <2>4. tables' \in [Threads -> Table]
    BY <1>1, <1>2, <1>5 DEF TypeOK, Opens
  <2> QED BY <1>1, <1>2, <1>7, <2>1, <2>2, <2>3, <2>4 DEF TypeOK
<1>11. \A p \in Threads : tables'[p] = IF p = o THEN new ELSE tables[p]
  BY <1>1, <1>2 DEF TypeOK
<1>12. tables[o].map \subseteq new.map
  BY <1>5, OpensOne
<1>13. ASSUME "console" \notin used'
       PROVE  hit' /\ Apart' /\ Lead' /\ \A p \in Threads : Console \subseteq tables'[p].map
  <2>1. "console" \notin used
    BY <1>1, <1>13
  <2>2. hit /\ Apart /\ Lead /\ \A p \in Threads : Console \subseteq tables[p].map
    BY <1>2, <2>1 DEF Reaching
  <2>3. /\ \A d \in Fds : fds[d] # Closed => fds'[d] = fds[d] /\ d # fd
        /\ ~fails => fds'[fd] = object
    BY <1>1, <1>2, <1>4, Numbers DEF TypeOK
  <2>4. \A p \in Threads : \A k \in Handles : InUse(p, k)' =>
           \/ p = o /\ k = h /\ tables'[p].unix[k] = fd /\ ~fails
           \/ InUse(p, k) /\ tables'[p].unix[k] = tables[p].unix[k]
    <3> SUFFICES ASSUME NEW p \in Threads, NEW k \in Handles, InUse(p, k)'
                 PROVE  \/ p = o /\ k = h /\ tables'[p].unix[k] = fd /\ ~fails
                        \/ InUse(p, k) /\ tables'[p].unix[k] = tables[p].unix[k]
      OBVIOUS
    <3>1. CASE p # o
      BY <1>11, <3>1 DEF InUse
    <3>2. CASE p = o
      <4>1. k \in new.map \ Console /\ new.unix[k] # -1 /\ tables'[p] = new
        BY <1>11, <3>2 DEF InUse
      <4>2. \/ k = h /\ new.unix[k] = fd
            \/ k \in tables[o].map /\ new.unix[k] = tables[o].unix[k]
        BY <1>5, <4>1, OpensOne
      <4> QED BY <1>9, <3>2, <4>1, <4>2 DEF InUse
    <3> QED BY <3>1, <3>2
  <2>5. \A p \in Threads : \A k \in Handles : InUse(p, k) => tables[p].unix[k] \in Fds
    BY <1>2 DEF TypeOK, Table, InUse
  <2>6. Apart'
    <3>1. \A k \in global.map \ Console : global.unix[k] \in Fds /\ fds'[global.unix[k]] # Closed
      BY <2>2, <2>3 DEF Apart
    <3>2. \A p \in Threads : \A k \in Handles : InUse(p, k)' =>
            /\ fds'[tables'[p].unix[k]] # Closed
            /\ \A m \in global.map \ Console : global.unix[m] # tables'[p].unix[k]
      BY <1>3, <2>2, <2>3, <2>4, <2>5 DEF Apart
    <3>3. \A p, q \in Threads : \A k, m \in Handles :
            InUse(p, k)' /\ InUse(q, m)' /\ tables'[p].unix[k] = tables'[q].unix[m] => p = q /\ k = m
      BY <2>2, <2>3, <2>4, <2>5 DEF Apart
    <3> QED BY <1>1, <3>1, <3>2, <3>3 DEF Apart
  <2>7. Lead'
    <3> SUFFICES ASSUME NEW u \in Threads, NEW k \in Handles, meant'[u][k] \in FileObject
                 PROVE  k \in global.map \ Console /\ fds'[global.unix[k]] = meant'[u][k]
      BY <1>1 DEF Lead
    <3>1. meant'[u][k] = meant[u][k]
      BY <1>1, <1>2, <1>3, <1>5 DEF TypeOK, Opens
    <3>2. k \in global.map \ Console /\ fds[global.unix[k]] = meant[u][k]
      BY <2>2, <3>1 DEF Lead
    <3> QED BY <2>2, <2>3, <3>1, <3>2 DEF Apart
  <2>8. \A p \in Threads : Console \subseteq tables'[p].map
    BY <1>11, <1>12, <2>2
  <2> QED BY <1>1, <2>2, <2>6, <2>7, <2>8
<1>14. Same'
  <2> SUFFICES ASSUME OneTable' PROVE Same'
    BY DEF Same
  <2>1. /\ OneTable /\ used \subseteq {o} /\ \A p \in Threads : p \in used => p = o
        /\ "global" \notin used /\ "global" \notin used'
    BY <1>1, <1>2, <1>7, <1>8, ThreadsAssumption DEF more
  <2>2. ~fails /\ fd = FreeFd /\ o \in used'
    BY <1>1, <1>6, <1>8
  <2>3. /\ global.map = Console /\ \A k \in global.map : global.unix[k] = k
        /\ \A p \in Threads : /\ Console \subseteq tables[p].map
                              /\ \A k \in tables[p].map : tables[p].unix[k] = k
                              /\ p # o => tables[p].map = Console
        /\ \A d \in Fds \intersect Handles : fds[d] # Closed <=> d \in tables[o].map
    <3>1. /\ global.map = Console /\ \A k \in global.map : global.unix[k] = k
          /\ \A p \in Threads : /\ Console \subseteq tables[p].map
                                /\ \A k \in tables[p].map : tables[p].unix[k] = k
                                /\ p \notin used => tables[p].map = Console
      BY <1>2, <2>1 DEF Same
    <3>2. \A p \in Threads : p # o => tables[p].map = Console
      BY <2>1, <3>1
    <3>3. \A d \in Fds \intersect Handles :
             fds[d] # Closed <=> d \in global.map \/ \E p \in Threads : d \in tables[p].map
      BY <1>2, <2>1 DEF Same
    <3>4. ASSUME NEW d \in Fds \intersect Handles
          PROVE  fds[d] # Closed <=> d \in tables[o].map
      <4>1. d \in Console => d \in tables[o].map
        BY <1>2, <3>1
      <4>2. \A p \in Threads : d \in tables[p].map => d \in tables[o].map
        BY <3>2, <4>1
      <4> QED BY <1>2, <3>1, <3>3, <4>1, <4>2
    <3> QED BY <3>1, <3>2, <3>4
  <2>4. /\ \A k \in new.map : new.unix[k] = k
        /\ \A d \in Fds \intersect Handles : fds'[d] # Closed <=> d \in new.map
    <3>1. CASE h = -1
      <4>1. FreeFd \notin Handles
        BY <1>4, <1>5, <2>2, <2>3, <3>1, Numbers DEF Opens
      <4>2. \A d \in Fds \intersect Handles : fds'[d] = fds[d]
        BY <1>1, <1>2, <2>2, <4>1 DEF TypeOK
      <4>3. new = tables[o]
        BY <1>5, <3>1, Numbers DEF Opens
      <4> QED BY <1>2, <2>3, <4>2, <4>3
    <3>2. CASE h # -1
      <4>1. /\ h \in Handles \ tables[o].map /\ \A k \in Handles \ tables[o].map : h <= k
            /\ new.map = tables[o].map \union {h}
        BY <1>5, <3>2 DEF Opens
      <4>2. h = FreeFd
        <5>1. h <= FreeFd
          BY <1>4, <2>2, <2>3, <4>1, SizesAssumption DEF Handles, Fds
        <5>2. h \in Fds /\ fds[h] = Closed
          BY <1>4, <2>2, <2>3, <4>1, <5>1, SizesAssumption DEF Handles, Fds
        <5> QED BY <1>4, <2>2, <4>1, <5>1, <5>2, Numbers
      <4>3. \A k \in new.map : new.unix[k] = k
        BY <1>2, <1>5, <2>2, <2>3, <4>2, OpensOne
      <4>4. \A d \in Fds \intersect Handles : fds'[d] # Closed <=> d \in new.map
        BY <1>1, <1>2, <1>3, <2>2, <2>3, <4>1, <4>2 DEF TypeOK
      <4> QED BY <4>3, <4>4
    <3> QED BY <3>1, <3>2
  <2>5. \A p \in Threads : /\ Console \subseteq tables'[p].map
                           /\ \A k \in tables'[p].map : tables'[p].unix[k] = k
                           /\ p \notin used' => tables'[p].map = Console
    BY <1>11, <1>12, <2>2, <2>3, <2>4
  <2>6. ASSUME NEW d \in Fds \intersect Handles
        PROVE  fds'[d] # Closed <=> d \in global'.map \/ \E p \in Threads : d \in tables'[p].map
    <3>1. \A p \in Threads : d \in tables'[p].map => d \in new.map
      BY <1>2, <1>11, <1>12, <2>3
    <3>2. d \in global'.map => d \in new.map
      BY <1>1, <1>2, <1>12, <2>3
    <3>3. d \in new.map => d \in tables'[o].map
      BY <1>2, <1>11
    <3> QED BY <1>2, <2>4, <3>1, <3>2, <3>3
  <2> QED BY <1>1, <2>1, <2>3, <2>5, <2>6 DEF Same
<1> QED BY <1>10, <1>13, <1>14 DEF FInv, Reaching

(* Close: the descriptor belonged to that handle alone, so the files that  *)
(* other handles lead to stay open.                                        *)
LEMMA CloseHolds ==
    ASSUME FInv, NEW t \in Threads, Close(t)
    PROVE  FInv'
<1> DEFINE o == openFiles[t]
           h == call[t].h
           d == tables[o].unix[h]
           new == TableClose(tables[o], h)
<1>1. TypeOK /\ Reaching /\ Same /\ o \in Threads
  BY DEF FInv, TypeOK
<1>2. UNCHANGED <<global, openFiles, meant, hit>> /\ call' \in [Threads -> Calls]
  <2>1. call' = call \/ call' = [call EXCEPT ![t] = User]
    BY DEF Close, Returns
  <2>2. call' \in [Threads -> Calls]
    BY <1>1, <2>1, CallTypes DEF TypeOK
  <2> QED BY <2>2 DEF Close
<1>3. CASE UNCHANGED <<tables, fds, used>>
  BY <1>1, <1>2, <1>3, QuietHolds DEF Reaching, tablesVars
<1>4. CASE /\ h \in Handles /\ isOpened(Own(t), h)
           /\ tables' = [tables EXCEPT ![o] = TableClose(@, h)]
           /\ fds' = [fds EXCEPT ![getUnixHandle(Own(t), h)] = Closed]
           /\ used' = IF h \in Console THEN used \union {"console"} ELSE used
  <2>1. /\ h \in Handles /\ h \in tables[o].map
        /\ tables' = [tables EXCEPT ![o] = new] /\ fds' = [fds EXCEPT ![d] = Closed]
    BY <1>4 DEF isOpened, Own, getUnixHandle
  <2>2. /\ new \in Table /\ new.map = tables[o].map \ {h}
        /\ \A k \in new.map : new.unix[k] = tables[o].unix[k]
    BY <1>1, <2>1 DEF TableClose, TypeOK, Table
  <2> HIDE DEF new, h
  <2>3. \A p \in Threads : tables'[p] = IF p = o THEN new ELSE tables[p]
    BY <1>1, <2>1 DEF TypeOK
  <2>4. TypeOK'
    <3>1. tables' \in [Threads -> Table]
      BY <1>1, <2>1, <2>2 DEF TypeOK
    <3>2. fds' \in [Fds -> Objects]
      BY <1>1, <2>1, Kinds DEF TypeOK
    <3>3. IsFiniteSet(used')
      BY <1>1, <1>4, FS_AddElement DEF TypeOK
    <3> QED BY <1>1, <1>2, <3>1, <3>2, <3>3 DEF TypeOK
  <2>5. CASE h \in Console
    BY <1>4, <2>4, <2>5 DEF FInv, Reaching, Same, OneTable
  <2>6. CASE h \notin Console
    <3>1. used' = used
      BY <1>4, <2>6
    <3>2. \A x \in Fds : x # d => fds'[x] = fds[x]
      BY <1>1, <2>1 DEF TypeOK
    <3>3. ASSUME "console" \notin used'
          PROVE  hit' /\ Apart' /\ Lead' /\ \A p \in Threads : Console \subseteq tables'[p].map
      <4>1. hit /\ Apart /\ Lead /\ \A p \in Threads : Console \subseteq tables[p].map
        BY <1>1, <3>1, <3>3 DEF Reaching
      <4>2. \A p \in Threads : \A k \in Handles : InUse(p, k)' =>
              InUse(p, k) /\ tables'[p].unix[k] = tables[p].unix[k] /\ (p # o \/ k # h)
        BY <2>2, <2>3 DEF InUse
      <4>3. d # -1 => InUse(o, h)
        BY <2>1, <2>6 DEF InUse
      <4>4. \A p \in Threads : \A k \in Handles : InUse(p, k)' =>
              tables[p].unix[k] \in Fds /\ tables[p].unix[k] # d
        <5> SUFFICES ASSUME NEW p \in Threads, NEW k \in Handles, InUse(p, k)'
                     PROVE  tables[p].unix[k] \in Fds /\ tables[p].unix[k] # d
          OBVIOUS
        <5>1. InUse(p, k) /\ (p # o \/ k # h)
          BY <4>2
        <5>2. tables[p].unix[k] \in Fds
          BY <1>1, <5>1 DEF TypeOK, Table, InUse
        <5> QED BY <1>1, <2>1, <4>1, <4>3, <5>1, <5>2, Numbers DEF Apart
      <4>5. \A k \in global.map \ Console : global.unix[k] \in Fds /\ global.unix[k] # d
        BY <1>1, <2>1, <4>1, <4>3, Numbers DEF Apart
      <4>6. Apart'
        <5>1. \A k \in global.map \ Console : global.unix[k] \in Fds /\ fds'[global.unix[k]] # Closed
          BY <3>2, <4>1, <4>5 DEF Apart
        <5>2. \A p \in Threads : \A k \in Handles : InUse(p, k)' =>
                /\ fds'[tables'[p].unix[k]] # Closed
                /\ \A m \in global.map \ Console : global.unix[m] # tables'[p].unix[k]
          BY <3>2, <4>1, <4>2, <4>4 DEF Apart
        <5>3. \A p, q \in Threads : \A k, m \in Handles :
                InUse(p, k)' /\ InUse(q, m)' /\ tables'[p].unix[k] = tables'[q].unix[m] => p = q /\ k = m
          BY <4>1, <4>2 DEF Apart
        <5> QED BY <1>2, <5>1, <5>2, <5>3 DEF Apart
      <4>7. Lead'
        BY <1>2, <3>2, <4>1, <4>5 DEF Lead
      <4>8. \A p \in Threads : Console \subseteq tables'[p].map
        BY <2>2, <2>3, <2>6, <4>1
      <4> QED BY <1>2, <4>1, <4>6, <4>7, <4>8
    <3>4. Same'
      <4> SUFFICES ASSUME OneTable' PROVE Same'
        BY DEF Same
      <4>1. OneTable
        BY <3>1 DEF OneTable
      <4>2. /\ \A k \in global.map : global.unix[k] = k
            /\ "global" \notin used => global.map = Console
            /\ \A p \in Threads : /\ Console \subseteq tables[p].map
                                  /\ \A k \in tables[p].map : tables[p].unix[k] = k
                                  /\ p \notin used => tables[p].map = Console
            /\ \A x \in Fds \intersect Handles :
                 fds[x] # Closed <=> x \in global.map \/ \E p \in Threads : x \in tables[p].map
        BY <1>1, <4>1 DEF Same
      <4>3. o \in used /\ d = h
        BY <1>1, <2>1, <2>6, <4>2
      <4>4. \A x \in used : x = o
        BY <1>1, <4>1, <4>3, AtMostOne DEF TypeOK, OneTable
      <4>5. global.map = Console /\ \A p \in Threads : p # o => tables[p].map = Console
        BY <1>1, <4>2, <4>4, ThreadsAssumption
      <4>6. \A p \in Threads : /\ Console \subseteq tables'[p].map
                               /\ \A k \in tables'[p].map : tables'[p].unix[k] = k
                               /\ p \notin used' => tables'[p].map = Console
        BY <2>2, <2>3, <2>6, <3>1, <4>2, <4>3
      <4>7. ASSUME NEW x \in Fds \intersect Handles
            PROVE  fds'[x] # Closed <=> x \in global'.map \/ \E p \in Threads : x \in tables'[p].map
        <5>1. CASE x = h
          <6>1. fds'[x] = Closed
            BY <1>1, <2>1, <4>3, <5>1 DEF TypeOK
          <6>2. x \notin global'.map /\ \A p \in Threads : x \notin tables'[p].map
            BY <1>2, <2>2, <2>3, <2>6, <4>5, <5>1
          <6> QED BY <6>1, <6>2
        <5>2. CASE x # h
          <6>1. fds'[x] = fds[x]
            BY <3>2, <4>3, <5>2
          <6>2. \A p \in Threads : x \in tables'[p].map <=> x \in tables[p].map
            BY <2>2, <2>3, <5>2
          <6> QED BY <1>2, <4>2, <6>1, <6>2
        <5> QED BY <5>1, <5>2
      <4> QED BY <1>2, <3>1, <4>2, <4>6, <4>7 DEF Same
    <3> QED BY <2>4, <3>3, <3>4 DEF FInv, Reaching
  <2> QED BY <2>5, <2>6
<1> QED BY <1>3, <1>4 DEF Close

(* Fork: the child knows the handles of its parent and shares its table.   *)
LEMMA ForkHolds ==
    ASSUME FInv, NEW t \in Threads, NEW c \in Threads, Fork(t, c)
    PROVE  FInv'
<1>1. /\ UNCHANGED <<global, tables, fds, used, hit>>
      /\ openFiles' = [openFiles EXCEPT ![c] = openFiles[t]]
      /\ meant' = [meant EXCEPT ![c] = meant[t]]
      /\ call' = [call EXCEPT ![t] = User, ![c] = User]
  BY DEF Fork
<1>2. TypeOK /\ Reaching /\ Same
  BY DEF FInv
<1>3. TypeOK'
  BY <1>1, <1>2, CallTypes DEF TypeOK
<1>4. Reaching'
  BY <1>1, <1>2 DEF Reaching, Apart, InUse, Lead, TypeOK
<1>5. Same'
  BY <1>1, <1>2 DEF Same, OneTable
<1> QED BY <1>3, <1>4, <1>5 DEF FInv

(* What a call does to the registers of the calling thread. *)
LEMMA CallStep ==
    ASSUME TypeOK, NEW t \in Threads, NEW c \in Calls, call' = [call EXCEPT ![t] = c] \/ call' = call
    PROVE  call' \in [Threads -> Calls]
  BY DEF TypeOK

(* A transfer hits while the console stays open. *)
LEMMA TransferHolds ==
    ASSUME FInv, NEW t \in Threads, Write(t) \/ Read(t)
    PROVE  FInv'
<1>1. TypeOK /\ ("console" \notin used => hit)
  BY DEF FInv, Reaching
<1>2. UNCHANGED <<tablesVars, fds, meant, used>>
  BY DEF Write, Read
<1>3. call' = [call EXCEPT ![t] = User] \/ call' = call
  BY DEF Write, Read, ReadResult, Returns
<1>4. call' \in [Threads -> Calls]
  BY <1>1, <1>3, CallStep, CallTypes
<1>5. \/ UNCHANGED hit
      \/ \E h \in Handles : isOpened(global, h) /\ hit' = Reaches(t, h, getUnixHandle(global, h))
  BY DEF Write, Read, ReadResult
<1>6. "console" \notin used => hit'
  BY <1>1, <1>5, TransferReaches
<1> QED BY <1>2, <1>4, <1>6, QuietHolds

(* The calls that work on neither tables nor files. *)
LEMMA OtherHolds ==
    ASSUME FInv, NEW t \in Threads,
           \/ \E c \in SystemCalls : Trap(t, c)
           \/ Create(t) \/ OpenFails(t) \/ ReadEnter(t) \/ ReadBlocks(t) \/ Connect(t) \/ Stub(t)
    PROVE  FInv'
<1>1. TypeOK /\ ("console" \notin used => hit)
  BY DEF FInv, Reaching
<1>2. UNCHANGED <<tablesVars, fds, meant, used, hit>>
  BY DEF Trap, Create, OpenFails, ReadEnter, ReadBlocks, Connect, Stub, history
<1>3. call[t] \in Calls /\ "reading" \in Ops
  BY <1>1 DEF TypeOK, Ops
<1>4. \/ call' = call
      \/ \E c \in {User, [call[t] EXCEPT !.op = "reading"]} \union SystemCalls :
            call' = [call EXCEPT ![t] = c]
  BY DEF Trap, Create, OpenFails, ReadEnter, ReadBlocks, Connect, Stub, Returns
<1>5. call' \in [Threads -> Calls]
  BY <1>1, <1>3, <1>4, CallStep, CallTypes
<1> QED BY <1>1, <1>2, <1>5, QuietHolds

(* Exec makes a thread with a table of its own, which is new; Exit closes  *)
(* nothing.                                                                *)
LEMMA ExecExitHolds ==
    ASSUME FInv, NEW t \in Threads, NEW c \in Threads, Exec(t, c) \/ Exit(t)
    PROVE  FInv'
<1>1. TypeOK /\ Reaching /\ Same
  BY DEF FInv
<1>2. /\ UNCHANGED <<tables, openFiles, fds, meant, used, hit>>
      /\ global' = global \/ global' = delThread(global)
  BY DEF Exec, Exit, tablesVars, history
<1>3. call' \in [Threads -> Calls]
  <2>1. call[t] \in Calls /\ "dead" \in Ops
    BY <1>1 DEF TypeOK, Ops
  <2>2. CASE Exec(t, c)
    BY <1>1, <2>2, CallTypes DEF Exec, TypeOK
  <2>3. CASE Exit(t)
    <3>1. call' = [call EXCEPT ![t] = [call[t] EXCEPT !.op = "dead"]]
      BY <1>1, <2>3 DEF Exit, TypeOK
    <3> QED BY <1>1, <2>1, <3>1, CallStep, CallTypes
  <2> QED BY <2>2, <2>3
<1>4. global' \in Table /\ global'.map = global.map /\ global'.unix = global.unix
  <2>1. /\ delThread(global) \in Table /\ delThread(global).map = global.map
        /\ delThread(global).unix = global.unix
    <3> DEFINE n == global.usage - 1
    <3>1. global \in Table /\ n \in Int
      BY <1>1 DEF TypeOK, Table
    <3>2. delThread(global) = [global EXCEPT !.usage = n]
      BY DEF delThread
    <3> HIDE DEF n
    <3> QED BY <3>1, <3>2 DEF Table
  <2> QED BY <1>1, <1>2, <2>1 DEF TypeOK
<1>5. TypeOK'
  BY <1>1, <1>2, <1>3, <1>4 DEF TypeOK
<1>6. Reaching'
  BY <1>1, <1>2, <1>4 DEF Reaching, Apart, InUse, Lead
<1>7. Same'
  BY <1>1, <1>2, <1>4 DEF Same, OneTable
<1> QED BY <1>5, <1>6, <1>7 DEF FInv

(* Every system call keeps the invariant. *)
LEMMA StepHolds == FInv /\ [Next]_vars => FInv'
<1> SUFFICES ASSUME FInv, [Next]_vars PROVE FInv'
  OBVIOUS
<1>1. CASE UNCHANGED vars
  <2>1. call' \in [Threads -> Calls] /\ ("console" \notin used => hit')
    BY <1>1 DEF vars, history, FInv, TypeOK, Reaching
  <2> QED BY <1>1, <2>1, QuietHolds DEF vars, history
<1>2. ASSUME NEW t \in Threads, \E c \in SystemCalls : Trap(t, c) PROVE FInv'
  BY <1>2, OtherHolds
<1>3. ASSUME NEW t \in Threads, ExceptionHandler(t) PROVE FInv'
  BY <1>3, OpenHolds, SocketHolds, CloseHolds, ForkHolds, TransferHolds, OtherHolds, ExecExitHolds
     DEF ExceptionHandler
<1> QED BY <1>1, <1>2, <1>3 DEF Next

(* The invariant holds in every reachable state. *)
LEMMA Invariant == Spec => []FInv
BY InitHolds, StepHolds, PTL DEF Spec

(* A Read or a Write through a handle that Open gave reaches the file that *)
(* was opened, whatever other threads open and close, as long as nobody    *)
(* closes a handle of the console.                                         *)
THEOREM TransfersReachTheirFile == Spec => []FilesReached
<1>1. FInv => FilesReached
  BY DEF FInv, Reaching, FilesReached
<1> QED BY <1>1, Invariant, PTL

(* The handle that Connect passes to the host is the host's descriptor     *)
(* while one table is used, the console stays open and no socket fails.    *)
THEOREM ConnectMayPassTheHandle == Spec => []HandlesAreDescriptors
<1>1. FInv => HandlesAreDescriptors
  <2> SUFFICES ASSUME FInv, OneTable, NEW tab \in {global} \union Range(tables), NEW h \in tab.map
               PROVE  tab.unix[h] = h
    BY DEF HandlesAreDescriptors, OneTable
  <2>1. Same /\ DOMAIN tables = Threads
    BY DEF FInv, TypeOK
  <2>2. CASE tab = global
    BY <2>1, <2>2 DEF Same
  <2>3. CASE tab \in Range(tables)
    <3>1. PICK o \in Threads : tab = tables[o]
      BY <2>1, <2>3 DEF Range
    <3> QED BY <2>1, <3>1 DEF Same
  <2> QED BY <2>2, <2>3
<1> QED BY <1>1, Invariant, PTL
=============================================================================
