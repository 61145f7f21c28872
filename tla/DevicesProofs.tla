---------------------------- MODULE DevicesProofs ----------------------------
(***************************************************************************)
(* Proofs about the simulated devices, for any times of the devices, any   *)
(* disk and any input.                                                     *)
(*                                                                         *)
(* EInv, the way of a character: what is typed is echoed in order.         *)
(* MInv, the machine: each device at work has one interrupt booked, the    *)
(* pending list holds them, the main thread waits in one list at most.     *)
(* PendingListExact and NoDeviceAborts follow.                             *)
(* HInv, the disk: the request under way ends when its sector has passed.  *)
(*                                                                         *)
(* That a walk along the list (a recursive function) is the list is shown  *)
(* by the least place at which they could differ.                          *)
(***************************************************************************)
EXTENDS Devices, DataProofs

Chars == (UNION {Range(i) : i \in Inputs}) \union {EOF}
DiskPlaces == {"main", "request", "transfer", "release", "finished"}
ConsolePlaces == {"read", "echo", "written", "quit"}
Consoles == [open : BOOLEAN, keyboard : Seq(Chars), display : Seq(Chars), incoming : Chars,
             putBusy : BOOLEAN]

ConsoleType ==
    /\ input \in Inputs
    /\ value \in [Sems -> Nat]
    /\ console \in Consoles
    /\ pc \in DiskPlaces \union ConsolePlaces

(* ConsoleTest alone opens the console; without it nothing is typed.       *)
ConsoleOpened ==
    /\ console.open <=> pc \in ConsolePlaces
    /\ ~console.open => console = NoConsole /\ value["readAvail"] = 0

Clean == \A k \in DOMAIN input : input[k] # EOF

(* A character waits in incoming exactly while readAvail has a unit or     *)
(* ConsoleTest has taken it and comes to fetch the character.              *)
OneIncoming ==
    Clean => /\ \A k \in DOMAIN console.keyboard : console.keyboard[k] # EOF
             /\ value["readAvail"] + (IF pc = "echo" THEN 1 ELSE 0)
                   = IF console.incoming = EOF THEN 0 ELSE 1

EInv == ConsoleType /\ ConsoleOpened /\ OneIncoming /\ EchoInOrder

-----------------------------------------------------------------------------
(* What is typed is a sequence of characters. *)
LEMMA InputChars == Inputs \subseteq Seq(Chars)
<1> SUFFICES ASSUME NEW i \in Inputs PROVE i \in Seq(Chars)
  OBVIOUS
<1>1. i \in Seq(Range(i)) /\ Range(i) \subseteq Chars
  BY InputsAssumption DEF Chars
<1> HIDE DEF Chars
<1> QED BY <1>1

(* Nothing typed, and no character, are of these types. *)
LEMMA NoChars == <<>> \in Seq(Chars) /\ EOF \in Chars
<1>1. <<>> \in Seq(Chars)
  OBVIOUS
<1>2. \A S : EOF \in S \union {EOF}
  OBVIOUS
<1>3. EOF \in Chars
  BY <1>2, Zenon DEF Chars
<1> QED BY <1>1, <1>3

(* Concatenation is associative. *)
LEMMA Associative ==
    \A S : \A r, s, t \in Seq(S) : (r \o s) \o t = r \o (s \o t)
  OBVIOUS

(* Initialize opens no console. *)
LEMMA EchoInit == Init => EInv
<1> SUFFICES ASSUME Init PROVE EInv
  OBVIOUS
<1>1. <<>> \in Seq(Chars) /\ EOF \in Chars
  BY NoChars
<1>2. NoConsole \in Consoles
  BY <1>1 DEF NoConsole, Consoles
<1>3. /\ console = NoConsole /\ value["readAvail"] = 0 /\ pc = "main"
      /\ value = [s \in Sems |-> 0] /\ input \in Inputs
  BY DEF Init, Sems
<1>4. ConsoleType
  BY <1>2, <1>3 DEF ConsoleType, DiskPlaces
<1>5. console.open = FALSE /\ console.keyboard = <<>> /\ console.incoming = EOF
  BY <1>3 DEF NoConsole
<1>6. ConsoleOpened /\ OneIncoming /\ EchoInOrder
  BY <1>3, <1>5 DEF ConsoleOpened, ConsolePlaces, OneIncoming, EchoInOrder
<1> QED BY <1>4, <1>6 DEF EInv

(* A step that leaves the console, readAvail and what is typed alone.      *)
LEMMA EchoKept ==
    ASSUME EInv, UNCHANGED <<console, input>>, value' \in [Sems -> Nat],
           value'["readAvail"] = value["readAvail"], pc' \in DiskPlaces \union ConsolePlaces,
           pc \in ConsolePlaces <=> pc' \in ConsolePlaces, pc = "echo" <=> pc' = "echo"
    PROVE  EInv'
<1>1. ConsoleType' /\ ConsoleOpened'
  BY DEF EInv, ConsoleType, ConsoleOpened
<1>2. OneIncoming'
  BY DEF EInv, OneIncoming, Clean
<1>3. EchoInOrder'
  BY DEF EInv, EchoInOrder
<1> QED BY <1>1, <1>2, <1>3 DEF EInv

(* V in a handler *)
LEMMA VEffect ==
    ASSUME value \in [Sems -> Nat], NEW s \in Sems, V(s)
    PROVE  /\ value' \in [Sems -> Nat] /\ value'[s] = value[s] + 1
           /\ \A t \in Sems : t # s => value'[t] = value[t]
  BY DEF V

(* A character that CheckCharAvail reads moves from the keyboard to        *)
(* incoming, which was empty, and V announces it.                          *)
LEMMA CharRead ==
    ASSUME EInv, NEW rest, NEW now, CheckCharAvail(rest, now), ~ReadAborts("ConsoleReadInt"),
           UNCHANGED <<pc, input>>
    PROVE  EInv'
<1>1. CASE NoV /\ UNCHANGED console
  BY <1>1, EchoKept DEF NoV, EInv, ConsoleType
<1>2. CASE /\ console.incoming = EOF /\ PollFile /\ V("readAvail")
           /\ console' = [console EXCEPT !.incoming = Head(console.keyboard), !.keyboard = Tail(@)]
  <2>1. console.keyboard # <<>> /\ console.keyboard \in Seq(Chars) /\ console \in Consoles
    BY <1>2 DEF PollFile, ReadAborts, EInv, ConsoleType, Consoles
  <2>2. console.open /\ pc \in ConsolePlaces
    BY <2>1 DEF EInv, ConsoleOpened, NoConsole
  <2> DEFINE k == console.keyboard
             h == Head(k)
             t == Tail(k)
  <2>3. /\ k = <<h>> \o t /\ h \in Chars /\ t \in Seq(Chars)
        /\ Len(k) \in Nat /\ h = k[1] /\ 1 \in DOMAIN k
        /\ \A i \in DOMAIN t : t[i] = k[i + 1] /\ i + 1 \in DOMAIN k
    BY <2>1
  <2>4. console' = [console EXCEPT !.incoming = h, !.keyboard = t]
    BY <1>2
  <2> HIDE DEF h, t
  <2>5. /\ console' \in Consoles /\ console'.incoming = h /\ console'.keyboard = t
        /\ console'.open = console.open /\ console'.display = console.display
    BY <2>1, <2>3, <2>4 DEF Consoles
  <2>6. value' \in [Sems -> Nat] /\ value'["readAvail"] = value["readAvail"] + 1
    BY <1>2, VEffect DEF EInv, ConsoleType, Sems
  <2>7. ConsoleType' /\ ConsoleOpened'
    BY <2>2, <2>5, <2>6 DEF EInv, ConsoleType, ConsoleOpened
  <2>8. ASSUME Clean
        PROVE  /\ \A i \in DOMAIN t : t[i] # EOF
               /\ h # EOF
               /\ value["readAvail"] = 0 /\ pc # "echo"
    <3>1. \A i \in DOMAIN k : k[i] # EOF
      BY <2>8 DEF EInv, OneIncoming
    <3>2. h # EOF /\ \A i \in DOMAIN t : t[i] # EOF
      BY <2>3, <3>1
    <3>3. value["readAvail"] \in Nat
      BY DEF EInv, ConsoleType, Sems
    <3>4. value["readAvail"] + (IF pc = "echo" THEN 1 ELSE 0) = 0
      BY <1>2, <2>8 DEF EInv, OneIncoming
    <3> QED BY <3>2, <3>3, <3>4
  <2>9. OneIncoming'
    BY <2>5, <2>6, <2>8 DEF OneIncoming, Clean
  <2>10. EchoInOrder'
    <3> SUFFICES ASSUME Clean
                 PROVE  input = console.display \o <<h>> \o t
      BY <2>5, <2>8 DEF EchoInOrder, Clean
    <3>1. input = console.display \o <<>> \o console.keyboard
      BY <1>2, <2>2 DEF EInv, EchoInOrder, ConsoleOpened, Clean
    <3>2. console.display \in Seq(Chars)
      BY <2>1 DEF Consoles
    <3> DEFINE d == console.display
    <3>3. input = d \o k
      BY <2>1, <3>1, <3>2
    <3>4. d \in Seq(Chars)
      BY <3>2
    <3> HIDE DEF d, k
    <3>5. d \o <<h>> \o t = d \o (<<h>> \o t)
      <4> DEFINE u == <<h>>
      <4>1. u \in Seq(Chars) /\ t \in Seq(Chars)
        BY <2>3
      <4> HIDE DEF u
      <4>2. (d \o u) \o t = d \o (u \o t)
        BY <3>4, <4>1, Associative
      <4> QED BY <4>2 DEF u
    <3> QED BY <2>3, <3>3, <3>5 DEF d
  <2> QED BY <2>7, <2>9, <2>10 DEF EInv
<1> QED BY <1>1, <1>2 DEF CheckCharAvail

(* The other handlers leave incoming and readAvail alone. *)
LEMMA FireKeepsEcho ==
    ASSUME EInv, NEW advanceClock, NEW then, Fire(advanceClock, then)
    PROVE  EInv'
<1>1. UNCHANGED <<pc, input>>
  BY DEF Fire, thread, given
<1> DEFINE rest == SortedRemove(pending)
           now == Now(advanceClock)
<1> HIDE DEF rest, now
<1>2. CASE NoV /\ UNCHANGED console
  BY <1>1, <1>2, EchoKept DEF NoV, EInv, ConsoleType
<1>3. CASE HandleInterrupt(rest)
  BY <1>1, <1>3, EchoKept, VEffect DEF HandleInterrupt, EInv, ConsoleType, Sems
<1>4. CASE WriteDone(rest)
  <2>1. /\ console' \in Consoles /\ console'.incoming = console.incoming
        /\ console'.keyboard = console.keyboard /\ console'.open = console.open
        /\ console'.display = console.display
    BY <1>4 DEF WriteDone, EInv, ConsoleType, Consoles
  <2>2. value' \in [Sems -> Nat] /\ value'["readAvail"] = value["readAvail"]
    BY <1>4, VEffect DEF WriteDone, EInv, ConsoleType, Sems
  <2>3. console.open => ConsoleOpened'
    BY <1>1, <2>1 DEF EInv, ConsoleOpened
  <2>4. ~console.open => ConsoleOpened'
    <3> SUFFICES ASSUME ~console.open PROVE ConsoleOpened'
      OBVIOUS
    <3>1. console = NoConsole /\ value["readAvail"] = 0 /\ pc \notin ConsolePlaces
      BY DEF EInv, ConsoleOpened
    <3>2. console' = NoConsole
      BY <1>4, <3>1 DEF WriteDone, NoConsole
    <3> QED BY <1>1, <2>1, <2>2, <3>1, <3>2 DEF ConsoleOpened
  <2>5. OneIncoming'
    BY <1>1, <2>1, <2>2 DEF EInv, OneIncoming, Clean
  <2>6. EchoInOrder'
    BY <1>1, <2>1 DEF EInv, EchoInOrder
  <2> QED BY <1>1, <2>1, <2>2, <2>3, <2>4, <2>5, <2>6 DEF EInv, ConsoleType
<1>5. CASE CheckCharAvail(rest, now) /\ ~ReadAborts("ConsoleReadInt")
  BY <1>1, <1>5, CharRead
<1> QED BY <1>2, <1>3, <1>4, <1>5 DEF Fire, TimerExpired, rest, now

(* A P that takes a unit or waits for one; only that of readAvail counts.  *)
LEMMA PKeepsEcho ==
    ASSUME EInv, RequestDone \/ WaitChar \/ WaitWritten
    PROVE  EInv'
<1>1. UNCHANGED <<console, input>>
  BY DEF RequestDone, WaitChar, WaitWritten, P, given
<1>2. CASE UNCHANGED <<value, thread>>
  BY <1>1, <1>2, EchoKept DEF thread, EInv, ConsoleType
<1>3. ASSUME NEW s \in {"disk", "writeDone"}, NEW p, NEW q, P(s, p, q), value[s] # 0,
             <<p, q>> \in {<<"transfer", "release">>, <<"written", "quit">>, <<"written", "read">>}
      PROVE  EInv'
  <2>1. /\ value' = [value EXCEPT ![s] = @ - 1] /\ pc = p /\ pc' = q
    BY <1>3 DEF P, At, Goto
  <2>2. value' \in [Sems -> Nat] /\ value'["readAvail"] = value["readAvail"]
    BY <1>3, <2>1 DEF EInv, ConsoleType, Sems
  <2> QED BY <1>1, <1>3, <2>1, <2>2, EchoKept DEF DiskPlaces, ConsolePlaces
<1>4. CASE WaitChar /\ value["readAvail"] # 0
  <2>1. value' = [value EXCEPT !["readAvail"] = @ - 1] /\ pc = "read" /\ pc' = "echo"
    BY <1>4 DEF WaitChar, P, At, Goto
  <2>2. value' \in [Sems -> Nat] /\ value'["readAvail"] = value["readAvail"] - 1
    BY <1>4, <2>1 DEF EInv, ConsoleType, Sems
  <2>3. ConsoleType' /\ ConsoleOpened'
    BY <1>1, <2>1, <2>2 DEF EInv, ConsoleType, ConsoleOpened, ConsolePlaces
  <2>4. OneIncoming'
    BY <1>1, <2>1, <2>2 DEF EInv, OneIncoming, Clean, ConsoleType, Sems
  <2>5. EchoInOrder'
    BY <1>1 DEF EInv, EchoInOrder
  <2> QED BY <2>3, <2>4, <2>5 DEF EInv
<1>5. \/ UNCHANGED <<value, thread>>
      \/ WaitChar /\ value["readAvail"] # 0
      \/ P("disk", "transfer", "release") /\ value["disk"] # 0
      \/ P("writeDone", "written", IF ch = "q" THEN "quit" ELSE "read") /\ value["writeDone"] # 0
  BY DEF RequestDone, WaitChar, WaitWritten, P
<1> QED BY <1>2, <1>3, <1>4, <1>5

(* Console::Console, with nothing read of what is typed yet *)
LEMMA NewConsoleKeepsEcho ==
    ASSUME EInv, NewConsole
    PROVE  EInv'
<1>1. /\ console' = [NoConsole EXCEPT !.open = TRUE, !.keyboard = input]
      /\ pc = "main" /\ pc' = "read" /\ UNCHANGED <<value, input>>
  BY DEF NewConsole, At, Goto, given
<1>2. /\ ~console.open /\ value["readAvail"] = 0
  BY <1>1 DEF EInv, ConsoleOpened, ConsolePlaces
<1>3. input \in Seq(Chars) /\ <<>> \in Seq(Chars) /\ EOF \in Chars
  BY InputChars, NoChars DEF EInv, ConsoleType
<1>4. /\ console' \in Consoles /\ console'.open /\ console'.keyboard = input
      /\ console'.display = <<>> /\ console'.incoming = EOF
  BY <1>1, <1>3 DEF Consoles, NoConsole
<1>5. ConsoleType' /\ ConsoleOpened'
  BY <1>1, <1>4 DEF EInv, ConsoleType, ConsoleOpened, ConsolePlaces
<1>6. OneIncoming'
  BY <1>1, <1>2, <1>4 DEF OneIncoming, Clean
<1>7. EchoInOrder'
  BY <1>1, <1>3, <1>4 DEF EchoInOrder
<1> QED BY <1>5, <1>6, <1>7 DEF EInv

(* GetChar fetches the character that is in incoming, PutChar displays it. *)
LEMMA EchoKeepsEcho ==
    ASSUME EInv, Echo
    PROVE  EInv'
<1>1. CASE UNCHANGED <<console, thread>>
  BY <1>1, EchoKept DEF Echo, thread, given, EInv, ConsoleType
<1>2. CASE /\ console' = [console EXCEPT !.incoming = EOF, !.putBusy = TRUE,
                                         !.display = Append(@, console.incoming)]
           /\ pc' = "written"
  <2> DEFINE c == console.incoming
             d == console.display
             k == console.keyboard
             e == Append(d, c)
  <2>1. pc = "echo" /\ UNCHANGED <<value, input>> /\ console.open
    BY DEF Echo, At, given, EInv, ConsoleOpened, ConsolePlaces
  <2>2. c \in Chars /\ d \in Seq(Chars) /\ k \in Seq(Chars) /\ console \in Consoles
    BY DEF EInv, ConsoleType, Consoles
  <2>3. e \in Seq(Chars) /\ e = d \o <<c>>
    BY <2>2
  <2>4. console' = [console EXCEPT !.incoming = EOF, !.putBusy = TRUE, !.display = e]
    BY <1>2
  <2> HIDE DEF e
  <2>5. /\ console' \in Consoles /\ console'.incoming = EOF /\ console'.display = e
        /\ console'.keyboard = k /\ console'.open
    BY <2>1, <2>2, <2>3, <2>4, NoChars DEF Consoles
  <2>6. ConsoleType' /\ ConsoleOpened'
    BY <1>2, <2>1, <2>5 DEF EInv, ConsoleType, ConsoleOpened, ConsolePlaces
  <2>7. ASSUME Clean PROVE c # EOF /\ value["readAvail"] = 0
    <3>1. value["readAvail"] \in Nat
      BY DEF EInv, ConsoleType, Sems
    <3>2. value["readAvail"] + 1 = IF c = EOF THEN 0 ELSE 1
      BY <2>1, <2>7 DEF EInv, OneIncoming
    <3> QED BY <3>1, <3>2
  <2>8. OneIncoming'
    BY <1>2, <2>1, <2>5, <2>7 DEF EInv, OneIncoming, Clean
  <2>9. EchoInOrder'
    <3> SUFFICES ASSUME Clean PROVE input = e \o <<>> \o k
      BY <2>1, <2>5 DEF EchoInOrder, Clean
    <3>1. input = d \o <<c>> \o k
      BY <2>1, <2>7 DEF EInv, EchoInOrder, Clean
    <3>2. e \o <<>> = e
      BY <2>3
    <3> QED BY <2>3, <3>1, <3>2
  <2> QED BY <2>6, <2>8, <2>9 DEF EInv
<1> QED BY <1>1, <1>2 DEF Echo

(* Every step of the machine and of the main thread keeps the invariant.   *)
LEMMA EchoStep == EInv /\ [Next]_vars => EInv'
<1> SUFFICES ASSUME EInv, [Next]_vars PROVE EInv'
  OBVIOUS
<1>1. value \in [Sems -> Nat] /\ pc \in DiskPlaces \union ConsolePlaces
  BY DEF EInv, ConsoleType
<1>2. CASE UNCHANGED vars
  BY <1>1, <1>2, EchoKept DEF vars, thread, given
<1>3. CASE TickFire \/ IdleFire \/ DrainFire
  BY <1>3, FireKeepsEcho DEF TickFire, IdleFire, DrainFire
<1>4. CASE TickDone \/ IdleHalt \/ DrainDone \/ Halt
  BY <1>1, <1>4, EchoKept DEF TickDone, IdleHalt, DrainDone, Halt, NoV, thread, given
<1>5. CASE Acquire \/ Release \/ Finish
  BY <1>1, <1>5, EchoKept
     DEF Acquire, Release, Finish, Ticks, At, Goto, given, DiskPlaces, ConsolePlaces
<1>6. ASSUME NEW s, NEW writing, Request(s, writing) PROVE EInv'
  BY <1>1, <1>6, EchoKept
     DEF Request, At, Goto, thread, given, DiskPlaces, ConsolePlaces
<1>7. CASE NewConsole \/ Echo
  BY <1>7, NewConsoleKeepsEcho, EchoKeepsEcho
<1>8. CASE RequestDone \/ WaitChar \/ WaitWritten
  BY <1>8, PKeepsEcho
<1> QED BY <1>2, <1>3, <1>4, <1>5, <1>6, <1>7, <1>8 DEF Next

(* What is typed comes out on the display in order, nothing lost and       *)
(* nothing doubled, as long as no character of it looks like EOF           *)
(* (machine/console.cc, ConsoleTest): for any input and any times.         *)
THEOREM EchoedInOrder == Spec => []EchoInOrder
<1>1. EInv => EchoInOrder
  BY DEF EInv
<1> QED BY <1>1, EchoInit, EchoStep, PTL DEF Spec

-----------------------------------------------------------------------------
Kinds == {"TimerInt", "DiskInt", "ConsoleReadInt", "ConsoleWriteInt"}
Items == Kinds \union {"main"}
Node == [item : Items, key : Nat, next : Nat]
Addresses == Nat \ {0}

(* l is the list whose n elements are at the addresses w[1], ..., w[n], in *)
(* the order of their keys, and its heap holds nothing else.               *)
Chain(l, n, w) ==
    /\ n \in Nat /\ w \in [1 .. n -> Addresses]
    /\ \A j, k \in 1 .. n : w[j] = w[k] => j = k
    /\ l = [first |-> IF n = 0 THEN Nil ELSE w[1], last |-> IF n = 0 THEN Nil ELSE w[n],
            node |-> l.node]
    /\ l.node \in [{w[k] : k \in 1 .. n} -> Node]
    /\ \A k \in 1 .. n : l.node[w[k]].next = IF k = n THEN Nil ELSE w[k + 1]
    /\ \A j, k \in 1 .. n : j < k => l.node[w[j]].key <= l.node[w[k]].key

(* As many addresses as elements *)
LEMMA ChainCount ==
    ASSUME NEW l, NEW n, NEW w, Chain(l, n, w)
    PROVE  IsFiniteSet(DOMAIN l.node) /\ Cardinality(DOMAIN l.node) = n
<1> DEFINE A == {w[k] : k \in 1 .. n}
<1>1. n \in Nat /\ DOMAIN l.node = A /\ w \in [1 .. n -> Addresses]
  BY DEF Chain
<1>2. w \in Surjection(1 .. n, A)
  BY <1>1 DEF Surjection
<1>3. w \in Injection(1 .. n, A)
  BY <1>1 DEF Chain, Injection, IsInjective
<1>4. IsFiniteSet(1 .. n) /\ Cardinality(1 .. n) = n
  BY <1>1, FS_Interval
<1> HIDE DEF A
<1> QED BY <1>1, <1>2, <1>3, <1>4, FS_Surjection

(* A walk along the next pointers meets the elements in their order. *)
LEMMA ChainWalk ==
    ASSUME NEW l, NEW n, NEW w, Chain(l, n, w)
    PROVE  Walk(l) = w
<1>1. n \in Nat /\ Cardinality(DOMAIN l.node) = n /\ w \in [1 .. n -> Addresses]
  BY ChainCount DEF Chain
<1> DEFINE Met(f) == [k \in 0 .. Cardinality(DOMAIN l.node) |-> IF k = 0 THEN l.first
                                       ELSE IF f[k - 1] = Nil THEN Nil ELSE l.node[f[k - 1]].next]
           g == [k \in 0 .. n |-> IF k < n THEN w[k + 1] ELSE Nil]
           met == CHOOSE f : f = Met(f)
           m == Cardinality({k \in DOMAIN met : met[k] # Nil})
<1>2. g = Met(g)
  <2>1. ASSUME NEW k \in 0 .. n PROVE g[k] = Met(g)[k]
    <3>1. CASE k = 0
      BY <1>1, <3>1 DEF Chain, Nil, Addresses
    <3>2. CASE k # 0
      <4>1. k - 1 \in 0 .. n /\ k \in 1 .. n /\ k - 1 < n /\ g[k - 1] = w[k]
        BY <1>1, <3>2
      <4>2. w[k] # Nil /\ l.node[w[k]].next = IF k = n THEN Nil ELSE w[k + 1]
        BY <1>1, <4>1 DEF Chain, Nil, Addresses
      <4> QED BY <1>1, <3>2, <4>1, <4>2
    <3> QED BY <3>1, <3>2
  <2>2. g = [k \in 0 .. n |-> g[k]] /\ Met(g) = [k \in 0 .. n |-> Met(g)[k]]
    BY <1>1
  <2> HIDE DEF g, Met
  <2> QED BY <2>1, <2>2
<1>3. \A f : f = Met(f) => f = g
  <2> SUFFICES ASSUME NEW f, f = Met(f) PROVE f = g
    OBVIOUS
  <2>1. f = [k \in 0 .. n |-> f[k]]
    <3>1. Met(f) = [k \in 0 .. n |-> Met(f)[k]]
      BY <1>1
    <3> HIDE DEF Met
    <3> QED BY <3>1
  <2> DEFINE bad == {k \in 0 .. n : f[k] # g[k]}
  <2>2. bad = {}
    <3> SUFFICES ASSUME bad # {} PROVE FALSE
      OBVIOUS
    <3>1. bad \subseteq Nat
      BY <1>1
    <3>2. PICK k \in bad : \A j \in bad : k <= j
      <4> HIDE DEF bad
      <4> QED BY <3>1, LeastNumber
    <3>3. k \in 0 .. n /\ f[k] # g[k] /\ Met(f)[k] = f[k] /\ Met(g)[k] = g[k]
      BY <1>2, <3>2
    <3> HIDE DEF g
    <3>4. k # 0
      BY <1>1, <3>3
    <3>5. k - 1 \in 0 .. n /\ ~(k <= k - 1)
      <4>1. n \in Nat /\ k \in 0 .. n /\ k # 0
        BY <1>1, <3>3, <3>4
      <4> QED BY <4>1
    <3>6. f[k - 1] = g[k - 1]
      BY <3>2, <3>5
    <3> QED BY <1>1, <3>3, <3>4, <3>6
  <2> QED BY <2>1, <2>2
<1>4. met = g
  <2>1. met = Met(met)
    BY <1>2
  <2> QED BY <1>3, <2>1
<1>5. m = n
  <2>1. {k \in DOMAIN g : g[k] # Nil} = 0 .. n - 1
    BY <1>1 DEF Nil, Addresses
  <2>2. Cardinality(0 .. n - 1) = n
    BY <1>1, FS_Interval
  <2> HIDE DEF met, g
  <2> QED BY <1>4, <2>1, <2>2
<1>6. Walk(l) = [k \in 1 .. m |-> met[k - 1]]
  BY Zenon DEF Walk
<1>7. \A k \in 1 .. n : g[k - 1] = w[k]
  BY <1>1
<1> HIDE DEF g, met, m
<1> QED BY <1>1, <1>4, <1>5, <1>6, <1>7

(* What new returns was not in use. *)
LEMMA FreeIsNew ==
    ASSUME NEW l, NEW n, NEW w, Chain(l, n, w)
    PROVE  Free(l) \in Addresses /\ Free(l) \notin DOMAIN l.node
<1> DEFINE D == DOMAIN l.node
           S == (1 .. Cardinality(D) + 1) \ D
<1>1. n \in Nat /\ IsFiniteSet(D) /\ Cardinality(D) = n
  BY ChainCount DEF Chain
<1> HIDE DEF D
<1>2. S # {}
  <2> SUFFICES ASSUME S = {} PROVE FALSE
    OBVIOUS
  <2>1. 1 .. n + 1 \subseteq D
    BY <1>1
  <2>2. Cardinality(1 .. n + 1) <= n
    BY <1>1, <2>1, FS_Subset
  <2>3. Cardinality(1 .. n + 1) = n + 1
    BY <1>1, FS_Interval
  <2> QED BY <1>1, <2>2, <2>3
<1>3. S \subseteq Addresses
  BY <1>1 DEF Addresses
<1>4. Min(S) \in S
  <2>1. S \subseteq Nat
    BY <1>3 DEF Addresses
  <2> HIDE DEF S
  <2> QED BY <1>2, <2>1, MinNat
<1> QED BY <1>3, <1>4 DEF Free, D

Inserted(w, n, i, p) == [k \in 1 .. n + 1 |-> IF k < i THEN w[k] ELSE IF k = i THEN p ELSE w[k - 1]]

(* m is l with a new element at p, linked in as the i-th. *)
LinkedAt(l, n, w, i, p, item, key, m) ==
    /\ m = [first |-> IF i = 1 THEN p ELSE l.first, last |-> IF i = n + 1 THEN p ELSE l.last,
            node |-> m.node]
    /\ m.node \in [(DOMAIN l.node) \union {p} -> Node]
    /\ m.node[p] = [item |-> item, key |-> key, next |-> IF i = n + 1 THEN Nil ELSE w[i]]
    /\ \A k \in 1 .. n :
          m.node[w[k]] = [l.node[w[k]] EXCEPT !.next = IF k = i - 1 THEN p ELSE @]

(* A new element at p, linked in as the i-th, after those whose key is not *)
(* greater and before those whose key is.                                  *)
LEMMA LinkedIn ==
    ASSUME NEW l, NEW n, NEW w, Chain(l, n, w), NEW i \in 1 .. n + 1,
           NEW p \in Addresses, p \notin DOMAIN l.node,
           NEW item \in Items, NEW key \in Nat,
           \A k \in 1 .. n : k < i => l.node[w[k]].key <= key,
           \A k \in 1 .. n : k >= i => key <= l.node[w[k]].key,
           NEW m, LinkedAt(l, n, w, i, p, item, key, m)
    PROVE  Chain(m, n + 1, Inserted(w, n, i, p))
<1> DEFINE v == Inserted(w, n, i, p)
<1>1. /\ n \in Nat /\ w \in [1 .. n -> Addresses] /\ i \in Nat /\ n + 1 \in Nat
      /\ DOMAIN l.node = {w[k] : k \in 1 .. n}
      /\ \A k \in 1 .. n : l.node[w[k]] \in Node /\ w[k] # p /\ w[k] \in Addresses
  BY DEF Chain
<1>2. /\ v \in [1 .. n + 1 -> Addresses]
      /\ v[i] = p
      /\ \A k \in 1 .. n + 1 : k < i => k \in 1 .. n /\ v[k] = w[k]
      /\ \A k \in 1 .. n + 1 : k > i => k - 1 \in 1 .. n /\ v[k] = w[k - 1]
  BY <1>1 DEF Inserted
<1>3. \A k \in 1 .. n + 1 : k < i \/ k = i \/ k > i
  BY <1>1
<1> HIDE DEF v
<1>4. \A j, k \in 1 .. n + 1 : v[j] = v[k] => j = k
  <2>1. \A j, k \in 1 .. n : w[j] = w[k] => j = k
    BY DEF Chain
  <2> QED BY <1>1, <1>2, <1>3, <2>1
<1>5. {v[k] : k \in 1 .. n + 1} = (DOMAIN l.node) \union {p}
  <2>1. \A k \in 1 .. n + 1 : v[k] \in (DOMAIN l.node) \union {p}
    BY <1>1, <1>2, <1>3
  <2>2. ASSUME NEW k \in 1 .. n PROVE w[k] \in {v[j] : j \in 1 .. n + 1}
    <3>1. CASE k < i
      <4>1. k \in 1 .. n + 1 /\ v[k] = w[k]
        BY <1>1, <1>2, <3>1
      <4> QED BY <4>1
    <3>2. CASE k >= i
      <4>1. k + 1 \in 1 .. n + 1 /\ v[k + 1] = w[k]
        BY <1>1, <1>2, <3>2
      <4> QED BY <4>1
    <3> QED BY <1>1, <3>1, <3>2
  <2>3. p \in {v[j] : j \in 1 .. n + 1}
    BY <1>2
  <2> QED BY <1>1, <2>1, <2>2, <2>3
<1>6. m.first = v[1] /\ m.last = v[n + 1]
  <2>1. /\ m.first = IF i = 1 THEN p ELSE l.first
        /\ m.last = IF i = n + 1 THEN p ELSE l.last
    BY DEF LinkedAt
  <2>2. n # 0 => l.first = w[1] /\ l.last = w[n]
    BY DEF Chain
  <2>3. i # 1 => n # 0 /\ 1 \in 1 .. n + 1 /\ 1 < i
    BY <1>1
  <2>4. i # n + 1 => n # 0 /\ n + 1 \in 1 .. n + 1 /\ n + 1 > i /\ n + 1 - 1 = n
    BY <1>1
  <2>5. i # 1 => v[1] = w[1]
    BY <1>2, <2>3
  <2>6. i # n + 1 => v[n + 1] = w[n]
    <3>1. ASSUME NEW k \in 1 .. n + 1, NEW j \in 1 .. n, k > i, j = k - 1
          PROVE  v[k] = w[j]
      BY <1>2, <3>1
    <3> QED BY <1>1, <2>4, <3>1
  <2> QED BY <1>2, <2>1, <2>2, <2>3, <2>4, <2>5, <2>6
<1>7. \A k \in 1 .. n : /\ m.node[w[k]].key = l.node[w[k]].key
                        /\ m.node[w[k]].next = IF k = i - 1 THEN p ELSE l.node[w[k]].next
  BY <1>1 DEF Node, LinkedAt
<1>8. /\ m.node[p].key = key
      /\ m.node[p].next = IF i = n + 1 THEN Nil ELSE w[i]
  BY DEF LinkedAt
<1>9. ASSUME NEW k \in 1 .. n + 1
      PROVE  m.node[v[k]].next = IF k = n + 1 THEN Nil ELSE v[k + 1]
  <2>0. \A j \in 1 .. n : l.node[w[j]].next = IF j = n THEN Nil ELSE w[j + 1]
    BY DEF Chain
  <2>1. CASE k < i
    <3>1. k \in 1 .. n /\ v[k] = w[k] /\ k # n + 1 /\ k + 1 \in 1 .. n + 1
      BY <1>1, <1>2, <2>1
    <3>2. CASE k = i - 1
      BY <1>1, <1>2, <1>7, <3>1, <3>2
    <3>3. CASE k # i - 1
      <4>1. k + 1 < i /\ k # n
        BY <1>1, <2>1, <3>1, <3>3
      <4>2. v[k + 1] = w[k + 1]
        BY <1>2, <3>1, <4>1
      <4> QED BY <1>7, <2>0, <3>1, <3>3, <4>1, <4>2
    <3> QED BY <3>2, <3>3
  <2>2. CASE k = i
    <3>1. i # n + 1 => i + 1 \in 1 .. n + 1 /\ v[i + 1] = w[i]
      <4>1. i # n + 1 => i + 1 \in 1 .. n + 1 /\ i + 1 > i /\ (i + 1) - 1 = i
        BY <1>1
      <4> QED BY <1>2, <4>1
    <3> QED BY <1>2, <1>8, <2>2, <3>1
  <2>3. CASE k > i
    <3>1. k - 1 \in 1 .. n /\ v[k] = w[k - 1] /\ k - 1 # i - 1
      BY <1>1, <1>2, <2>3
    <3>2. k # n + 1 => k + 1 \in 1 .. n + 1 /\ k + 1 > i /\ v[k + 1] = w[k]
      BY <1>1, <1>2, <2>3
    <3>3. (k - 1 = n <=> k = n + 1) /\ (k - 1) + 1 = k
      BY <1>1
    <3> QED BY <1>7, <2>0, <3>1, <3>2, <3>3
  <2> QED BY <1>3, <2>1, <2>2, <2>3
<1>10. ASSUME NEW j \in 1 .. n + 1, NEW k \in 1 .. n + 1, j < k
       PROVE  m.node[v[j]].key <= m.node[v[k]].key
  <2>1. \A a, b \in 1 .. n : a < b => l.node[w[a]].key <= l.node[w[b]].key
    BY DEF Chain
  <2>2. \A a \in 1 .. n : l.node[w[a]].key \in Nat
    BY <1>1 DEF Node
  <2>3. CASE k < i
    <3>1. j < i
      BY <1>1, <1>10, <2>3
    <3> QED BY <1>2, <1>7, <1>10, <2>1, <2>3, <3>1
  <2>4. CASE k = i
    BY <1>2, <1>7, <1>8, <1>10, <2>4
  <2>5. CASE k > i
    <3>1. k - 1 \in 1 .. n /\ v[k] = w[k - 1] /\ k - 1 >= i
      BY <1>1, <1>2, <2>5
    <3>2. CASE j < i
      <4>1. j \in 1 .. n /\ v[j] = w[j] /\ j < k - 1
        BY <1>1, <1>2, <3>1, <3>2
      <4> QED BY <1>7, <2>1, <3>1, <4>1
    <3>3. CASE j = i
      BY <1>2, <1>7, <1>8, <3>1, <3>3
    <3>4. CASE j > i
      <4>1. j - 1 \in 1 .. n /\ v[j] = w[j - 1] /\ j - 1 < k - 1
        BY <1>1, <1>2, <1>10, <3>4
      <4> QED BY <1>7, <2>1, <3>1, <4>1
    <3> QED BY <1>3, <3>2, <3>3, <3>4
  <2> QED BY <1>3, <2>3, <2>4, <2>5
<1>11. m = [first |-> IF n + 1 = 0 THEN Nil ELSE v[1],
            last |-> IF n + 1 = 0 THEN Nil ELSE v[n + 1], node |-> m.node]
  BY <1>1, <1>6 DEF LinkedAt
<1>12. m.node \in [{v[k] : k \in 1 .. n + 1} -> Node]
  BY <1>5 DEF LinkedAt
<1> QED BY <1>1, <1>2, <1>4, <1>9, <1>10, <1>11, <1>12 DEF Chain, v

(* Where SortedInsert puts an element *)
Place(l, n, w, key) ==
    LET at == {k \in 1 .. n - 1 : key < l.node[w[k + 1]].key}
    IN  IF n = 0 \/ key < l.node[w[1]].key THEN 1 ELSE IF at # {} THEN Min(at) + 1 ELSE n + 1

(* Elements before it are not greater, elements after it are greater. *)
LEMMA PlaceIsRight ==
    ASSUME NEW l, NEW n, NEW w, Chain(l, n, w), NEW key \in Nat
    PROVE  LET i == Place(l, n, w, key)
           IN  /\ i \in 1 .. n + 1
               /\ \A k \in 1 .. n : k < i => l.node[w[k]].key <= key
               /\ \A k \in 1 .. n : k >= i => key < l.node[w[k]].key
<1> DEFINE key1(k) == l.node[w[k]].key
           at == {k \in 1 .. n - 1 : key < key1(k + 1)}
           i == Place(l, n, w, key)
<1>1. /\ n \in Nat /\ \A k \in 1 .. n : key1(k) \in Nat
      /\ \A j, k \in 1 .. n : j < k => key1(j) <= key1(k)
  BY DEF Chain, Node
<1>2. i = IF n = 0 \/ key < key1(1) THEN 1 ELSE IF at # {} THEN Min(at) + 1 ELSE n + 1
  BY DEF Place
<1> HIDE DEF key1, i
<1> SUFFICES /\ i \in 1 .. n + 1
             /\ \A k \in 1 .. n : k < i => key1(k) <= key
             /\ \A k \in 1 .. n : k >= i => key < key1(k)
  BY DEF i, key1
<1>3. CASE n = 0 \/ key < key1(1)
  BY <1>1, <1>2, <1>3
<1>4. CASE n # 0 /\ ~(key < key1(1)) /\ at # {}
  <2>1. at \subseteq Nat
    BY <1>1
  <2>2. Min(at) \in at /\ \A k \in at : Min(at) <= k
    <3> HIDE DEF at
    <3> QED BY <1>4, <2>1, MinNat
  <2>3. /\ i = Min(at) + 1 /\ Min(at) \in 1 .. n - 1 /\ key < key1(Min(at) + 1)
    BY <1>2, <1>4, <2>2
  <2>4. i \in 1 .. n /\ i > 1 /\ key < key1(i)
    BY <1>1, <2>3
  <2>5. ASSUME NEW k \in 1 .. n, k < i PROVE key1(k) <= key
    <3>1. CASE k = 1
      BY <1>1, <1>4, <3>1
    <3>2. CASE k # 1
      <4>1. k - 1 \in 1 .. n - 1 /\ ~(Min(at) <= k - 1) /\ (k - 1) + 1 = k
        BY <1>1, <2>3, <2>5, <3>2
      <4>2. k - 1 \notin at
        BY <2>2, <4>1
      <4>3. ~(key < key1((k - 1) + 1))
        BY <4>1, <4>2
      <4> QED BY <1>1, <4>1, <4>3
    <3> QED BY <3>1, <3>2
  <2>6. ASSUME NEW k \in 1 .. n, k >= i PROVE key < key1(k)
    BY <1>1, <2>4, <2>6
  <2> QED BY <1>1, <2>4, <2>5, <2>6
<1>5. CASE n # 0 /\ ~(key < key1(1)) /\ at = {}
  <2>1. ASSUME NEW k \in 1 .. n PROVE key1(k) <= key
    <3>1. CASE k = 1
      BY <1>1, <1>5, <3>1
    <3>2. CASE k # 1
      <4>1. k - 1 \in 1 .. n - 1 /\ (k - 1) + 1 = k
        BY <1>1, <3>2
      <4>2. ~(key < key1((k - 1) + 1))
        BY <1>5, <4>1
      <4> QED BY <1>1, <4>1, <4>2
    <3> QED BY <3>1, <3>2
  <2> QED BY <1>1, <1>2, <1>5, <2>1
<1> QED BY <1>3, <1>4, <1>5

(* SortedInsert links the element in there. *)
LEMMA InsertLinks ==
    ASSUME NEW l, NEW n, NEW w, Chain(l, n, w), NEW item \in Items, NEW key \in Nat
    PROVE  LinkedAt(l, n, w, Place(l, n, w, key), Free(l), item, key,
                    SortedInsert(l, item, key))
<1> DEFINE p == Free(l)
           i == Place(l, n, w, key)
           m == SortedInsert(l, item, key)
           e == ListElement(item, key)
           at == {k \in 1 .. n - 1 : key < l.node[w[k + 1]].key}
<1>1. /\ n \in Nat /\ w \in [1 .. n -> Addresses]
      /\ l.node \in [{w[k] : k \in 1 .. n} -> Node]
      /\ \A k \in 1 .. n : w[k] \in DOMAIN l.node /\ l.node[w[k]] \in Node /\ w[k] # Nil
      /\ l.first = IF n = 0 THEN Nil ELSE w[1]
      /\ l.last = IF n = 0 THEN Nil ELSE w[n]
      /\ l = [first |-> l.first, last |-> l.last, node |-> l.node]
  BY DEF Chain, Addresses, Nil
<1> HIDE DEF p, m, e
<1>2. Walk(l) = w /\ Len(w) = n
  BY <1>1, ChainWalk
<1>3. p \in Addresses /\ p \notin DOMAIN l.node
  BY FreeIsNew DEF p
<1>4. e = [item |-> item, key |-> key, next |-> Nil] /\ e \in Node
  BY DEF ListElement, Node, Nil, e
<1>5. at = {k \in 1 .. Len(w) - 1 : key < l.node[w[k + 1]].key}
  BY <1>2
<1>6. m = CASE IsEmpty(l) -> OnlyElement(l, p, e)
          [] ~IsEmpty(l) /\ key < l.node[l.first].key ->
               [l EXCEPT !.first = p, !.node = Store(@, p, [e EXCEPT !.next = l.first])]
          [] ~IsEmpty(l) /\ key >= l.node[l.first].key /\ at # {} ->
               LinkAfter(l, w[Min(at)], p, e)
          [] OTHER -> [LinkAfter(l, l.last, p, e) EXCEPT !.last = p]
  BY <1>2, <1>5 DEF SortedInsert, p, e, m
<1> HIDE DEF at, i
<1> SUFFICES LinkedAt(l, n, w, i, p, item, key, m)
  BY DEF m, i, p
<1>7. CASE n = 0
  <2>1. IsEmpty(l) /\ i = 1
    BY <1>1, <1>7 DEF IsEmpty, Place, i
  <2>2. m = [first |-> p, last |-> p, node |-> Store(l.node, p, e)]
    BY <1>6, <2>1 DEF OnlyElement
  <2>3. DOMAIN l.node = {}
    BY <1>1, <1>7
  <2>4. m.node \in [(DOMAIN l.node) \union {p} -> Node] /\ m.node[p] = e
    BY <1>4, <2>2, <2>3 DEF Store
  <2> QED BY <1>1, <1>4, <1>7, <2>1, <2>2, <2>4 DEF LinkedAt
<1>8. CASE n # 0 /\ key < l.node[w[1]].key
  <2>1. ~IsEmpty(l) /\ i = 1 /\ l.first = w[1] /\ 1 \in 1 .. n
    BY <1>1, <1>8 DEF IsEmpty, Place, i
  <2> DEFINE f == [e EXCEPT !.next = l.first]
  <2>2. f = [item |-> item, key |-> key, next |-> w[1]] /\ f \in Node
    <3>1. f = [item |-> item, key |-> key, next |-> w[1]]
      BY <1>4, <2>1
    <3>2. w[1] \in Nat
      BY <1>1, <2>1 DEF Addresses
    <3> HIDE DEF f
    <3> QED BY <3>1, <3>2 DEF Node
  <2> HIDE DEF f
  <2>3. m = [l EXCEPT !.first = p, !.node = Store(@, p, f)]
    <3>1. m = [l EXCEPT !.first = p, !.node = Store(@, p, [e EXCEPT !.next = l.first])]
      <4>1. key < l.node[l.first].key /\ ~(key >= l.node[l.first].key)
        BY <1>1, <1>8, <2>1 DEF Node
      <4> QED BY <1>6, <2>1, <4>1, Zenon
    <3> QED BY <3>1 DEF f
  <2>4. m = [first |-> p, last |-> l.last, node |-> Store(l.node, p, f)]
    BY <1>1, <2>3
  <2>5. /\ m.node \in [(DOMAIN l.node) \union {p} -> Node] /\ m.node[p] = f
        /\ \A k \in 1 .. n : m.node[w[k]] = l.node[w[k]]
    BY <1>1, <1>3, <2>2, <2>4 DEF Store
  <2>6. \A k \in 1 .. n : k # i - 1
    BY <1>1, <2>1
  <2>7. i # n + 1
    BY <1>1, <1>8, <2>1
  <2>8. \A r \in Node : r = [r EXCEPT !.next = @]
    BY DEF Node
  <2>9. \A k \in 1 .. n : m.node[w[k]] = [l.node[w[k]] EXCEPT !.next = IF k = i - 1 THEN p ELSE @]
    BY <1>1, <2>5, <2>6, <2>8
  <2> QED BY <2>1, <2>2, <2>4, <2>5, <2>7, <2>9 DEF LinkedAt
<1>9. ASSUME NEW j \in 1 .. n
      PROVE  LET N == LinkAfter(l, w[j], p, e).node
             IN  /\ LinkAfter(l, w[j], p, e) = [first |-> l.first, last |-> l.last, node |-> N]
                 /\ N \in [(DOMAIN l.node) \union {p} -> Node]
                 /\ N[p] = [item |-> item, key |-> key, next |-> IF j = n THEN Nil ELSE w[j + 1]]
                 /\ \A k \in 1 .. n : N[w[k]] = [l.node[w[k]] EXCEPT !.next = IF k = j THEN p ELSE @]
  <2> DEFINE f == [e EXCEPT !.next = l.node[w[j]].next]
             D == DOMAIN l.node
             g == [l.node EXCEPT ![w[j]].next = p]
             N == Store(g, p, f)
  <2>1. l.node[w[j]].next = IF j = n THEN Nil ELSE w[j + 1]
    BY DEF Chain
  <2>2. f = [item |-> item, key |-> key, next |-> IF j = n THEN Nil ELSE w[j + 1]]
    BY <1>4, <2>1
  <2>3. f \in Node
    BY <1>1, <1>4 DEF Node
  <2>4. /\ g \in [D -> Node]
        /\ \A k \in 1 .. n : g[w[k]] = [l.node[w[k]] EXCEPT !.next = IF k = j THEN p ELSE @]
    <3> DEFINE r == [l.node[w[j]] EXCEPT !.next = p]
    <3>1. r \in Node
      BY <1>1, <1>3 DEF Node, Addresses
    <3>2. g = [l.node EXCEPT ![w[j]] = r]
      OBVIOUS
    <3>3. g[w[j]] = r
      BY <1>1, <3>2
    <3>4. \A k \in 1 .. n : k # j => g[w[k]] = l.node[w[k]]
      BY <1>1, <3>2 DEF Chain
    <3>5. \A x \in Node : x = [x EXCEPT !.next = @]
      BY DEF Node
    <3> HIDE DEF g
    <3>6. g \in [D -> Node]
      <4> HIDE DEF r
      <4> QED BY <1>1, <3>1, <3>2
    <3>7. ASSUME NEW k \in 1 .. n
          PROVE  g[w[k]] = [l.node[w[k]] EXCEPT !.next = IF k = j THEN p ELSE @]
      <4>1. CASE k = j
        BY <3>3, <4>1
      <4>2. CASE k # j
        BY <1>1, <3>4, <3>5, <4>2
      <4> QED BY <4>1, <4>2
    <3> QED BY <3>6, <3>7
  <2> HIDE DEF f, g
  <2>5. /\ N \in [D \union {p} -> Node] /\ N[p] = f
        /\ \A k \in 1 .. n : N[w[k]] = g[w[k]]
    BY <1>1, <1>3, <2>3, <2>4 DEF Store
  <2> HIDE DEF N
  <2>6. LinkAfter(l, w[j], p, e) = [l EXCEPT !.node = N]
    BY DEF LinkAfter, N, f, g
  <2>7. LinkAfter(l, w[j], p, e) = [first |-> l.first, last |-> l.last, node |-> N]
    BY <1>1, <2>6
  <2> QED BY <2>2, <2>4, <2>5, <2>7
<1>10. CASE n # 0 /\ ~(key < l.node[w[1]].key) /\ at # {}
  <2>1. at \subseteq 1 .. n - 1
    BY DEF at
  <2>2. Min(at) \in 1 .. n - 1
    <3>1. at \subseteq Nat /\ at # {}
      BY <1>1, <1>10, <2>1
    <3> HIDE DEF at
    <3> QED BY <2>1, <3>1, MinNat
  <2>3. i = Min(at) + 1
    BY <1>10 DEF Place, at, i
  <2>4. ~IsEmpty(l) /\ l.first = w[1] /\ key >= l.node[l.first].key /\ 1 \in 1 .. n
    BY <1>1, <1>10 DEF IsEmpty, Node
  <2>5. m = LinkAfter(l, w[Min(at)], p, e)
    BY <1>6, <1>10, <2>4
  <2> DEFINE j == Min(at)
  <2>6. j \in 1 .. n /\ i = j + 1 /\ i # 1 /\ i # n + 1 /\ i - 1 = j /\ j # n
    BY <1>1, <2>2, <2>3
  <2>7. m = LinkAfter(l, w[j], p, e)
    BY <2>5
  <2> DEFINE L == LinkAfter(l, w[j], p, e)
  <2> HIDE DEF j
  <2>8. /\ L = [first |-> l.first, last |-> l.last, node |-> L.node]
        /\ L.node \in [(DOMAIN l.node) \union {p} -> Node]
        /\ L.node[p] = [item |-> item, key |-> key, next |-> IF j = n THEN Nil ELSE w[j + 1]]
        /\ \A k \in 1 .. n : L.node[w[k]] = [l.node[w[k]] EXCEPT !.next = IF k = j THEN p ELSE @]
    BY <1>9, <2>6
  <2> HIDE DEF L
  <2> QED BY <2>6, <2>7, <2>8 DEF LinkedAt, L
<1>11. CASE n # 0 /\ ~(key < l.node[w[1]].key) /\ at = {}
  <2>1. i = n + 1
    BY <1>11 DEF Place, at, i
  <2>2. ~IsEmpty(l) /\ l.first = w[1] /\ l.last = w[n] /\ n \in 1 .. n /\ i # 1 /\ i - 1 = n
    <3>1. ~IsEmpty(l) /\ l.first = w[1] /\ l.last = w[n]
      BY <1>1, <1>11 DEF IsEmpty
    <3>2. n \in 1 .. n /\ n + 1 # 1 /\ (n + 1) - 1 = n
      BY <1>1, <1>11
    <3> QED BY <2>1, <3>1, <3>2
  <2> DEFINE L == LinkAfter(l, w[n], p, e)
  <2>3. m = [L EXCEPT !.last = p]
    BY <1>6, <1>11, <2>2
  <2>4. /\ L = [first |-> l.first, last |-> l.last, node |-> L.node]
        /\ L.node \in [(DOMAIN l.node) \union {p} -> Node]
        /\ L.node[p] = [item |-> item, key |-> key, next |-> Nil]
        /\ \A k \in 1 .. n : L.node[w[k]] = [l.node[w[k]] EXCEPT !.next = IF k = n THEN p ELSE @]
    BY <1>9, <2>2
  <2> HIDE DEF L
  <2>5. m = [first |-> l.first, last |-> p, node |-> L.node]
    BY <2>3, <2>4
  <2> QED BY <2>1, <2>2, <2>4, <2>5 DEF LinkedAt
<1> QED BY <1>7, <1>8, <1>10, <1>11

(* SortedRemove unlinks the first element. *)
LEMMA Unlinked ==
    ASSUME NEW l, NEW n, NEW w, Chain(l, n, w), n # 0
    PROVE  Chain(SortedRemove(l), n - 1, [k \in 1 .. n - 1 |-> w[k + 1]])
<1> DEFINE v == [k \in 1 .. n - 1 |-> w[k + 1]]
           m == SortedRemove(l)
           N == [p \in (DOMAIN l.node) \ {l.first} |-> l.node[p]]
<1>1. /\ n \in Nat /\ n - 1 \in Nat /\ w \in [1 .. n -> Addresses]
      /\ DOMAIN l.node = {w[k] : k \in 1 .. n}
      /\ \A k \in 1 .. n : w[k] \in Addresses /\ l.node[w[k]] \in Node
      /\ \A j, k \in 1 .. n : w[j] = w[k] => j = k
      /\ l = [first |-> l.first, last |-> l.last, node |-> l.node]
      /\ l.first = w[1] /\ l.last = w[n] /\ 1 \in 1 .. n /\ n \in 1 .. n
  BY DEF Chain
<1>2. \A k \in 1 .. n - 1 : k \in 1 .. n /\ k + 1 \in 1 .. n /\ v[k] = w[k + 1] /\ k + 1 # 1
  BY <1>1
<1>3. l.node[w[1]].next = IF n = 1 THEN Nil ELSE w[2]
  BY <1>1 DEF Chain
<1>4. m = [first |-> IF n = 1 THEN Nil ELSE w[2], last |-> IF n = 1 THEN Nil ELSE w[n], node |-> N]
  <2>1. l.first = l.last <=> n = 1
    BY <1>1
  <2>2. [l EXCEPT !.node = N] = [first |-> l.first, last |-> l.last, node |-> N]
    <3> HIDE DEF N
    <3> QED BY <1>1
  <2>3. m = IF l.first = l.last THEN [[l EXCEPT !.node = N] EXCEPT !.first = Nil, !.last = Nil]
            ELSE [[l EXCEPT !.node = N] EXCEPT !.first = l.node[l.first].next]
    BY DEF SortedRemove
  <2> HIDE DEF m, N
  <2> QED BY <1>1, <1>3, <2>1, <2>2, <2>3
<1> HIDE DEF m, v
<1>5. (DOMAIN l.node) \ {l.first} = {v[k] : k \in 1 .. n - 1}
  <2>1. \A k \in 1 .. n - 1 : v[k] \in (DOMAIN l.node) \ {l.first}
    BY <1>1, <1>2
  <2>2. ASSUME NEW k \in 1 .. n, w[k] # w[1] PROVE w[k] \in {v[j] : j \in 1 .. n - 1}
    <3>1. k # 1
      BY <2>2
    <3>2. k - 1 \in 1 .. n - 1 /\ (k - 1) + 1 = k
      BY <1>1, <3>1
    <3>3. v[k - 1] = w[k]
      BY <1>2, <3>2
    <3> QED BY <3>2, <3>3
  <2>3. ASSUME NEW p \in (DOMAIN l.node) \ {l.first} PROVE p \in {v[j] : j \in 1 .. n - 1}
    <3>1. PICK k \in 1 .. n : p = w[k]
      BY <1>1
    <3> QED BY <1>1, <2>2, <3>1
  <2> QED BY <2>1, <2>3
<1>6. N \in [{v[k] : k \in 1 .. n - 1} -> Node]
  <2>1. N \in [(DOMAIN l.node) \ {l.first} -> Node]
    BY <1>1
  <2> HIDE DEF N
  <2> QED BY <1>5, <2>1
<1>7. \A k \in 1 .. n - 1 : N[v[k]] = l.node[w[k + 1]]
  BY <1>1, <1>2, <1>5
<1>8. v \in [1 .. n - 1 -> Addresses]
  BY <1>1, <1>2 DEF v
<1>9. \A j, k \in 1 .. n - 1 : v[j] = v[k] => j = k
  <2>1. \A j, k \in 1 .. n - 1 : v[j] = v[k] => j + 1 = k + 1
    BY <1>1, <1>2
  <2> QED BY <2>1
<1>10. \A k \in 1 .. n - 1 : N[v[k]].next = IF k = n - 1 THEN Nil ELSE v[k + 1]
  <2> TAKE k \in 1 .. n - 1
  <2>1. l.node[w[k + 1]].next = IF k + 1 = n THEN Nil ELSE w[(k + 1) + 1]
    BY <1>2 DEF Chain
  <2>2. k # n - 1 => k + 1 \in 1 .. n - 1
    BY <1>1
  <2>3. k = n - 1 <=> k + 1 = n
    BY <1>1
  <2> QED BY <1>2, <1>7, <2>1, <2>2, <2>3
<1>11. \A j, k \in 1 .. n - 1 : j < k => N[v[j]].key <= N[v[k]].key
  <2> SUFFICES ASSUME NEW j \in 1 .. n - 1, NEW k \in 1 .. n - 1, j < k
               PROVE  N[v[j]].key <= N[v[k]].key
    OBVIOUS
  <2>1. j + 1 < k + 1 /\ j + 1 \in 1 .. n /\ k + 1 \in 1 .. n
    BY <1>1, <1>2
  <2>2. l.node[w[j + 1]].key <= l.node[w[k + 1]].key
    BY <2>1 DEF Chain
  <2> QED BY <1>7, <2>2
<1>12. m = [first |-> IF n - 1 = 0 THEN Nil ELSE v[1],
            last |-> IF n - 1 = 0 THEN Nil ELSE v[n - 1], node |-> N]
  <2>1. n # 1 => 1 \in 1 .. n - 1 /\ n - 1 \in 1 .. n - 1 /\ (n - 1) + 1 = n
    BY <1>1
  <2>2. n # 1 => v[1] = w[2] /\ v[n - 1] = w[n]
    BY <1>2, <2>1
  <2> HIDE DEF N
  <2> QED BY <1>1, <1>4, <2>2
<1> HIDE DEF N
<1>13. m.node = N
  BY <1>4
<1>14. m = [first |-> IF n - 1 = 0 THEN Nil ELSE v[1],
            last |-> IF n - 1 = 0 THEN Nil ELSE v[n - 1], node |-> m.node]
  BY <1>12, <1>13
<1> QED BY <1>1, <1>6, <1>8, <1>9, <1>10, <1>11, <1>13, <1>14 DEF Chain, m, v

-----------------------------------------------------------------------------
(* l is a well-formed list of the pairs of items and keys in S, each once. *)
Holds(l, S) ==
    /\ \E n, w : Chain(l, n, w)
    /\ S = {<<l.node[p].item, l.node[p].key>> : p \in DOMAIN l.node}
    /\ \A p, q \in DOMAIN l.node :
          l.node[p].item = l.node[q].item /\ l.node[p].key = l.node[q].key => p = q

(* A new list holds nothing. *)
LEMMA NewHolds == Holds(NewList, {})
<1>1. DOMAIN NewList.node = {}
  BY DEF NewList
<1>2. ASSUME NEW w, w = [k \in 1 .. 0 |-> 1] PROVE Chain(NewList, 0, w)
  BY <1>1, <1>2 DEF Chain, NewList, Node, Addresses
<1>3. \E n, w : Chain(NewList, n, w)
  BY <1>2
<1> QED BY <1>1, <1>3 DEF Holds

(* Its first element has the least key. *)
LEMMA HeldFirst ==
    ASSUME NEW l, NEW S, Holds(l, S)
    PROVE  /\ S \subseteq Items \X Nat
           /\ IsEmpty(l) <=> S = {}
           /\ S # {} => /\ <<FirstElement(l).item, FirstElement(l).key>> \in S
                        /\ \A b \in S : FirstElement(l).key <= b[2]
<1>1. PICK n, w : Chain(l, n, w)
  BY DEF Holds
<1>2. /\ n \in Nat /\ w \in [1 .. n -> Addresses]
      /\ DOMAIN l.node = {w[k] : k \in 1 .. n}
      /\ \A k \in 1 .. n : w[k] \in Addresses /\ l.node[w[k]] \in Node
      /\ l.first = IF n = 0 THEN Nil ELSE w[1]
  BY <1>1 DEF Chain
<1>3. S = {<<l.node[p].item, l.node[p].key>> : p \in DOMAIN l.node}
  BY DEF Holds
<1>4. S \subseteq Items \X Nat
  BY <1>2, <1>3 DEF Node
<1>5. CASE n = 0
  BY <1>2, <1>3, <1>4, <1>5 DEF IsEmpty
<1>6. CASE n # 0
  <2>1. l.first = w[1] /\ 1 \in 1 .. n /\ w[1] # Nil /\ w[1] \in DOMAIN l.node
    BY <1>2, <1>6 DEF Addresses, Nil
  <2>2. FirstElement(l) = l.node[w[1]]
    BY <2>1 DEF FirstElement
  <2>3. \A k \in 1 .. n : l.node[w[1]].key <= l.node[w[k]].key
    <3> TAKE k \in 1 .. n
    <3>1. CASE k = 1
      BY <1>2, <2>1, <3>1 DEF Node
    <3>2. CASE k # 1
      BY <1>1, <2>1, <3>2 DEF Chain
    <3> QED BY <3>1, <3>2
  <2>4. <<l.node[w[1]].item, l.node[w[1]].key>> \in S
    BY <1>3, <2>1
  <2>5. \A b \in S : \E k \in 1 .. n : b = <<l.node[w[k]].item, l.node[w[k]].key>>
    BY <1>2, <1>3
  <2>6. \A b \in S : l.node[w[1]].key <= b[2]
    BY <2>3, <2>5
  <2> QED BY <1>4, <2>1, <2>2, <2>4, <2>6 DEF IsEmpty
<1> QED BY <1>5, <1>6

(* SortedInsert adds a pair, behind a first element that is not greater.   *)
LEMMA InsertHolds ==
    ASSUME NEW l, NEW S, Holds(l, S), NEW item \in Items, NEW key \in Nat,
           <<item, key>> \notin S
    PROVE  LET m == SortedInsert(l, item, key)
           IN  /\ Holds(m, S \union {<<item, key>>})
               /\ IF S = {} \/ key < FirstElement(l).key
                     THEN FirstElement(m).item = item /\ FirstElement(m).key = key
                     ELSE /\ FirstElement(m).item = FirstElement(l).item
                          /\ FirstElement(m).key = FirstElement(l).key
<1> DEFINE m == SortedInsert(l, item, key)
           p == Free(l)
<1>1. PICK n, w : Chain(l, n, w)
  BY DEF Holds
<1> DEFINE i == Place(l, n, w, key)
<1>2. /\ n \in Nat /\ w \in [1 .. n -> Addresses]
      /\ DOMAIN l.node = {w[k] : k \in 1 .. n}
      /\ \A k \in 1 .. n : w[k] \in Addresses /\ l.node[w[k]] \in Node
      /\ l.first = IF n = 0 THEN Nil ELSE w[1]
  BY <1>1 DEF Chain
<1>3. p \in Addresses /\ p \notin DOMAIN l.node
  BY <1>1, FreeIsNew
<1>4. LinkedAt(l, n, w, i, p, item, key, m)
  BY <1>1, InsertLinks
<1>5. /\ i \in 1 .. n + 1
      /\ \A k \in 1 .. n : k < i => l.node[w[k]].key <= key
      /\ \A k \in 1 .. n : k >= i => key < l.node[w[k]].key
  BY <1>1, PlaceIsRight
<1> HIDE DEF m, p, i
<1>6. \A k \in 1 .. n : k >= i => key <= l.node[w[k]].key
  BY <1>2, <1>5 DEF Node
<1>7. Chain(m, n + 1, Inserted(w, n, i, p))
  BY <1>1, <1>3, <1>4, <1>5, <1>6, LinkedIn
<1>8. /\ DOMAIN m.node = (DOMAIN l.node) \union {p}
      /\ m.node[p].item = item /\ m.node[p].key = key
      /\ m.first = IF i = 1 THEN p ELSE l.first
  BY <1>4 DEF LinkedAt
<1>9. \A q \in DOMAIN l.node : m.node[q].item = l.node[q].item /\ m.node[q].key = l.node[q].key
  <2>1. \A k \in 1 .. n :
           m.node[w[k]] = [l.node[w[k]] EXCEPT !.next = IF k = i - 1 THEN p ELSE @]
    BY <1>4 DEF LinkedAt
  <2>2. \A k \in 1 .. n : /\ m.node[w[k]].item = l.node[w[k]].item
                          /\ m.node[w[k]].key = l.node[w[k]].key
    BY <1>2, <2>1 DEF Node
  <2> QED BY <1>2, <2>2
<1>10. S = {<<l.node[q].item, l.node[q].key>> : q \in DOMAIN l.node}
  BY DEF Holds
<1>11. S \union {<<item, key>>} = {<<m.node[q].item, m.node[q].key>> : q \in DOMAIN m.node}
  BY <1>3, <1>8, <1>9, <1>10
<1>12. \A q, r \in DOMAIN m.node :
          m.node[q].item = m.node[r].item /\ m.node[q].key = m.node[r].key => q = r
  <2>1. \A q, r \in DOMAIN l.node :
           l.node[q].item = l.node[r].item /\ l.node[q].key = l.node[r].key => q = r
    BY DEF Holds
  <2>2. \A q \in DOMAIN l.node : ~(l.node[q].item = item /\ l.node[q].key = key)
    BY <1>10
  <2> QED BY <1>3, <1>8, <1>9, <2>1, <2>2
<1>13. Holds(m, S \union {<<item, key>>})
  BY <1>7, <1>11, <1>12 DEF Holds
<1>14. i = 1 <=> n = 0 \/ key < l.node[w[1]].key
  <2>1. CASE n = 0
    BY <1>5, <2>1
  <2>2. CASE n # 0
    <3>1. 1 \in 1 .. n /\ l.node[w[1]].key \in Nat
      BY <1>2, <2>2 DEF Node
    <3> QED BY <1>5, <2>2, <3>1
  <2> QED BY <2>1, <2>2
<1>15. S = {} <=> n = 0
  <2>1. n # 0 => w[1] \in DOMAIN l.node
    BY <1>2
  <2>2. n = 0 => DOMAIN l.node = {}
    BY <1>2
  <2> QED BY <1>10, <2>1, <2>2
<1>16. n # 0 => FirstElement(l) = l.node[w[1]] /\ w[1] \in DOMAIN l.node
  BY <1>2 DEF FirstElement
<1>17. FirstElement(m) = IF i = 1 THEN m.node[p] ELSE m.node[w[1]]
  BY <1>2, <1>8, <1>14 DEF FirstElement
<1> QED BY <1>8, <1>9, <1>13, <1>14, <1>15, <1>16, <1>17 DEF m

(* SortedRemove takes the first one out. *)
LEMMA RemoveHolds ==
    ASSUME NEW l, NEW S, Holds(l, S), S # {}
    PROVE  Holds(SortedRemove(l), S \ {<<FirstElement(l).item, FirstElement(l).key>>})
<1> DEFINE m == SortedRemove(l)
<1>1. PICK n, w : Chain(l, n, w)
  BY DEF Holds
<1>2. S = {<<l.node[p].item, l.node[p].key>> : p \in DOMAIN l.node}
  BY DEF Holds
<1>3. n # 0 /\ l.first = w[1] /\ l.first \in DOMAIN l.node
  BY <1>1, <1>2 DEF Chain
<1>4. \E k, v : Chain(m, k, v)
  BY <1>1, <1>3, Unlinked
<1>5. m.node = [p \in (DOMAIN l.node) \ {l.first} |-> l.node[p]]
  BY <1>1 DEF SortedRemove, Chain
<1> HIDE DEF m
<1>6. \A p, q \in DOMAIN l.node :
         l.node[p].item = l.node[q].item /\ l.node[p].key = l.node[q].key => p = q
  BY DEF Holds
<1>7. S \ {<<l.node[l.first].item, l.node[l.first].key>>}
         = {<<m.node[p].item, m.node[p].key>> : p \in DOMAIN m.node}
  BY <1>2, <1>3, <1>5, <1>6
<1>8. \A p, q \in DOMAIN m.node :
         m.node[p].item = m.node[q].item /\ m.node[p].key = m.node[q].key => p = q
  BY <1>5, <1>6
<1> QED BY <1>4, <1>7, <1>8 DEF Holds, m, FirstElement

(* Append to an empty list is an insertion. *)
LEMMA AppendHolds ==
    ASSUME NEW l, Holds(l, {}), NEW item \in Items
    PROVE  /\ Holds(ListAppend(l, item), {<<item, 0>>})
           /\ FirstElement(ListAppend(l, item)).item = item
<1>1. IsEmpty(l)
  BY HeldFirst
<1>2. ListAppend(l, item) = SortedInsert(l, item, 0)
  BY <1>1 DEF ListAppend, SortedInsert
<1>3. <<item, 0>> \notin {} /\ {} \union {<<item, 0>>} = {<<item, 0>>}
  OBVIOUS
<1>4. /\ Holds(SortedInsert(l, item, 0), {} \union {<<item, 0>>})
      /\ FirstElement(SortedInsert(l, item, 0)).item = item
  <2> SUFFICES ASSUME NEW S, S = {}
               PROVE  /\ Holds(SortedInsert(l, item, 0), S \union {<<item, 0>>})
                      /\ FirstElement(SortedInsert(l, item, 0)).item = item
    OBVIOUS
  <2>1. Holds(l, S) /\ <<item, 0>> \notin S /\ 0 \in Nat
    OBVIOUS
  <2> QED BY <2>1, InsertHolds
<1> QED BY <1>2, <1>3, <1>4

(* A walk along the list meets every pair once, in the order of the keys,  *)
(* and the heap holds no other element.                                    *)
LEMMA HeldExactly ==
    ASSUME NEW l, NEW S, Holds(l, S)
    PROVE  LET e == Elements(l)
           IN  /\ Len(e) = Cardinality(S)
               /\ {<<e[k].item, e[k].key>> : k \in DOMAIN e} = S
               /\ \A j, k \in DOMAIN e : j < k => e[j].key <= e[k].key
               /\ Cardinality(DOMAIN l.node) = Len(e)
               /\ l.last = IF e = <<>> THEN Nil ELSE Last(Walk(l))
<1> DEFINE e == Elements(l)
<1>1. PICK n, w : Chain(l, n, w)
  BY DEF Holds
<1>2. /\ n \in Nat /\ w \in [1 .. n -> Addresses]
      /\ DOMAIN l.node = {w[k] : k \in 1 .. n}
      /\ l.node \in [{w[k] : k \in 1 .. n} -> Node]
      /\ \A j, k \in 1 .. n : j < k => l.node[w[j]].key <= l.node[w[k]].key
      /\ l.last = IF n = 0 THEN Nil ELSE w[n]
  BY <1>1 DEF Chain
<1>3. Walk(l) = w /\ Len(w) = n /\ w \in Seq(Addresses)
  BY <1>1, <1>2, ChainWalk
<1>4. e = [k \in 1 .. n |-> l.node[w[k]]]
  BY <1>3 DEF Elements
<1>5. e \in [1 .. n -> Node]
  BY <1>2, <1>4
<1>6. Len(e) = n /\ DOMAIN e = 1 .. n /\ \A k \in 1 .. n : e[k] = l.node[w[k]]
  BY <1>2, <1>4, <1>5
<1> HIDE DEF e
<1>7. S = {<<l.node[p].item, l.node[p].key>> : p \in DOMAIN l.node}
  BY DEF Holds
<1>8. {<<e[k].item, e[k].key>> : k \in DOMAIN e} = S
  <2>1. \A k \in 1 .. n : <<e[k].item, e[k].key>> \in S
    BY <1>2, <1>6, <1>7
  <2>2. ASSUME NEW b \in S PROVE \E k \in 1 .. n : b = <<e[k].item, e[k].key>>
    <3>1. PICK k \in 1 .. n : b = <<l.node[w[k]].item, l.node[w[k]].key>>
      BY <1>2, <1>7
    <3> QED BY <1>6, <3>1
  <2> QED BY <1>6, <2>1, <2>2
<1>9. Cardinality(DOMAIN l.node) = n /\ IsFiniteSet(DOMAIN l.node)
  BY <1>1, ChainCount
<1>10. Cardinality(S) = n
  <2> DEFINE D == DOMAIN l.node
             f == [p \in D |-> <<l.node[p].item, l.node[p].key>>]
  <2>1. f \in [D -> S] /\ \A p \in D : f[p] = <<l.node[p].item, l.node[p].key>>
    BY <1>7
  <2>2. S = {f[p] : p \in D}
    BY <1>7
  <2>3. \A p, q \in D : f[p] = f[q] => p = q
    BY <2>1 DEF Holds
  <2> HIDE DEF f, D
  <2>4. f \in Surjection(D, S) /\ f \in Injection(D, S)
    BY <2>1, <2>2, <2>3 DEF Surjection, Injection, IsInjective
  <2> QED BY <1>9, <2>4, FS_Surjection DEF D
<1>11. e = <<>> <=> n = 0
  BY <1>2, <1>5, <1>6
<1>12. n # 0 => Last(w) = w[n]
  BY <1>3 DEF Last
<1>13. \A j, k \in DOMAIN e : j < k => e[j].key <= e[k].key
  BY <1>2, <1>6
<1>14. l.last = IF e = <<>> THEN Nil ELSE Last(Walk(l))
  BY <1>2, <1>3, <1>11, <1>12
<1>15. Len(e) = Cardinality(S) /\ Cardinality(DOMAIN l.node) = Len(e)
  BY <1>6, <1>9, <1>10
<1> QED BY <1>8, <1>13, <1>14, <1>15, Zenon DEF e

-----------------------------------------------------------------------------
(* Sectors less than a track apart are at different places of the track.   *)
LEMMA OnePlace ==
    ASSUME NEW n \in Nat \ {0}, NEW m \in Nat, NEW d \in 0 .. n - 1, NEW e \in 0 .. n - 1,
           e < d, (m + e) % n = (m + d) % n
    PROVE  FALSE
<1> DEFINE q == (m + e) \div n
           p == (m + d) \div n
           t == (m + e) % n
<1>1. m + e \in Nat /\ m + d \in Nat
  OBVIOUS
<1>2. q \in Nat /\ p \in Nat /\ t \in 0 .. n - 1
  BY <1>1, Divided
<1>3. m + e = (n * q) + t /\ m + d = (n * p) + t
  BY <1>1, Division
<1> HIDE DEF q, p, t
<1>4. n * q \in Nat /\ n * p \in Nat
  BY <1>2, Product
<1>5. ~(p <= q)
  BY <1>2, <1>3, <1>4, Product
<1>6. n * (q + 1) <= n * p /\ n * (q + 1) = (n * q) + n
  BY <1>2, <1>5, Product
<1> QED BY <1>2, <1>3, <1>4, <1>6

(* Where the head has to turn to *)
LEMMA ModuloDiffRight ==
    ASSUME NEW s \in Nat, NEW n \in Nat
    PROVE  /\ ModuloDiff(s, n) \in 0 .. SectorsPerTrack - 1
           /\ (n + ModuloDiff(s, n)) % SectorsPerTrack = s % SectorsPerTrack
<1> DEFINE N == SectorsPerTrack
           r == s % N
           t == n % N
           q == n \div N
           x == (r - t) + N
<1>1. N \in Nat \ {0}
  BY GeometryAssumption
<1>2. r \in 0 .. N - 1 /\ t \in 0 .. N - 1 /\ q \in Nat /\ n = (N * q) + t
  BY <1>1, Divided, Division
<1>3. ModuloDiff(s, n) = x % N
  BY DEF ModuloDiff
<1> HIDE DEF r, t, q, N
<1>4. x \in Nat /\ N * q \in Nat /\ N * (q + 1) = (N * q) + N
  BY <1>1, <1>2, Product
<1> DEFINE G(k) == k \in 0 .. N - 1 /\ (n + k) % N = r
<1>5. ASSUME x < N PROVE G(x % N)
  <2>1. x % N = x
    <3>1. x = (N * 0) + x /\ x \in 0 .. N - 1
      BY <1>1, <1>4, <1>5
    <3> HIDE DEF x
    <3> QED BY <1>1, <1>4, <3>1, Quotient
  <2>2. n + x = (N * (q + 1)) + r
    BY <1>1, <1>2, <1>4
  <2>3. (n + x) % N = r
    <3>1. n + x \in Nat /\ q + 1 \in Nat
      BY <1>2, <1>4
    <3> HIDE DEF x
    <3> QED BY <1>1, <1>2, <2>2, <3>1, Quotient
  <2>4. x \in 0 .. N - 1
    BY <1>1, <1>4, <1>5
  <2> HIDE DEF x
  <2> QED BY <2>1, <2>3, <2>4
<1>6. ASSUME x >= N PROVE G(x % N)
  <2> DEFINE y == r - t
  <2>1. y \in 0 .. N - 1 /\ x = (N * 1) + y
    BY <1>1, <1>2, <1>6
  <2>2. x % N = y
    <3> HIDE DEF x, y
    <3> QED BY <1>1, <1>4, <2>1, Quotient
  <2>3. n + y = (N * q) + r /\ n + y \in Nat
    BY <1>1, <1>2, <1>4, <2>1
  <2>4. (n + y) % N = r
    <3> HIDE DEF y
    <3> QED BY <1>1, <1>2, <2>3, Quotient
  <2> QED BY <2>1, <2>2, <2>4
<1>7. G(ModuloDiff(s, n))
  BY <1>1, <1>3, <1>4, <1>5, <1>6
<1> QED BY <1>7 DEF r, N

(* The head is on a sector from when its rotation begins: rounded up.      *)
LEMMA RoundedUp ==
    ASSUME NEW a \in Nat, NEW R \in Nat \ {0}
    PROVE  LET over == a % R
           IN  \E m \in Nat : /\ a + (IF over > 0 THEN R - over ELSE 0) = R * m
                              /\ a <= R * m /\ R * m < a + R /\ m <= (a \div R) + 1
<1> DEFINE q == a \div R
           t == a % R
<1>1. q \in Nat /\ t \in 0 .. R - 1 /\ a = (R * q) + t
  BY Divided, Division
<1> HIDE DEF q, t
<1>2. R * q \in Nat /\ R * (q + 1) = (R * q) + R
  BY <1>1, Product
<1>3. CASE t > 0
  <2>1. /\ a + (R - t) = R * (q + 1) /\ a <= R * (q + 1) /\ R * (q + 1) < a + R
        /\ q + 1 \in Nat /\ q + 1 <= q + 1
    BY <1>1, <1>2, <1>3
  <2> QED BY <1>3, <2>1 DEF q, t
<1>4. CASE t = 0
  <2>1. a + 0 = R * q /\ a <= R * q /\ R * q < a + R /\ q <= q + 1
    BY <1>1, <1>2, <1>4
  <2> QED BY <1>1, <1>4, <2>1 DEF q, t
<1> QED BY <1>1, <1>3, <1>4

(* A request that waits for the sector to come under the head, from m on   *)
LEMMA FullTurn ==
    ASSUME NEW s \in Nat, NEW m \in Nat, NEW arrives \in Nat,
           arrives <= RotationTime * m, RotationTime * m < arrives + RotationTime,
           NEW when, when = (RotationTime * m) + ModuloDiff(s, m) * RotationTime + RotationTime
    PROVE  /\ when \in Nat /\ when <= arrives + (SectorsPerTrack + 1) * RotationTime
           /\ RotationTime * m <= when
           /\ \A from \in Nat : from <= RotationTime * m => Passed(s, from, when)
           /\ when % RotationTime = 0 /\ ~Passed(s, arrives, when - 1)
<1> DEFINE R == RotationTime
           N == SectorsPerTrack
           d == ModuloDiff(s, m)
           r == s % N
           n == m + d + 1
<1>1. R \in Nat \ {0} /\ N \in Nat \ {0}
  BY TicksAssumption, GeometryAssumption
<1>2. d \in 0 .. N - 1 /\ (m + d) % N = r
  BY ModuloDiffRight
<1> HIDE DEF R, N, d, r
<1>3. n \in Nat /\ n >= 1 /\ m + d \in Nat
  BY <1>1, <1>2
<1>4. /\ R * m \in Nat /\ R * d \in Nat /\ R * n \in Nat /\ R * (m + d) \in Nat
      /\ R * (m + d) = (R * m) + (R * d) /\ R * n = (R * (m + d)) + R /\ d * R = R * d
  <2>1. \A x, y \in Nat : R * (x + y) = (R * x) + (R * y) /\ R * x \in Nat
    BY <1>1, Product
  <2>2. R * 1 = R /\ n = (m + d) + 1 /\ d * R = R * d
    BY <1>1, <1>2, <1>3
  <2> QED BY <1>1, <1>2, <1>3, <2>1, <2>2
<1>5. when = R * n
  BY <1>1, <1>4 DEF R, d
<1>6. when \in Nat /\ R * m <= when
  BY <1>1, <1>4, <1>5
<1>7. when <= arrives + (N + 1) * R
  <2>1. R * (d + 1) <= R * N /\ R * (d + 1) = (R * d) + R
    BY <1>1, <1>2, Product
  <2>2. (N + 1) * R = (R * N) + R /\ R * N \in Nat
    BY <1>1
  <2> HIDE DEF n
  <2> QED BY <1>1, <1>4, <1>5, <2>1, <2>2 DEF R
<1>8. when \div R = n /\ when % R = 0
  <2>1. when = (R * n) + 0 /\ 0 \in 0 .. R - 1
    BY <1>1, <1>4, <1>5
  <2> HIDE DEF n
  <2> QED BY <1>1, <1>3, <1>6, <2>1, Quotient
<1>9. ASSUME NEW from \in Nat, from <= R * m PROVE Passed(s, from, when)
  <2>1. n \in 1 .. when \div R /\ n - 1 = m + d
    BY <1>2, <1>3, <1>8
  <2>2. (n - 1) * R >= from
    <3>1. (n - 1) * R = R * (m + d)
      BY <1>1, <1>3, <2>1
    <3> QED BY <1>4, <1>9, <3>1
  <2>3. (n - 1) % N = r
    BY <1>2, <2>1
  <2> HIDE DEF n
  <2> QED BY <2>1, <2>2, <2>3 DEF Passed, R, N, r
<1>10. ASSUME Passed(s, arrives, when - 1) PROVE FALSE
  <2>1. (when - 1) \div R = m + d
    <3>1. when - 1 = (R * (m + d)) + (R - 1) /\ when - 1 \in Nat /\ R - 1 \in 0 .. R - 1
      BY <1>1, <1>4, <1>5
    <3> QED BY <1>1, <1>3, <3>1, Quotient
  <2>2. PICK k \in 1 .. m + d : (k - 1) * R >= arrives /\ (k - 1) % N = r
    BY <1>10, <2>1 DEF Passed, R, N, r
  <2>3. k - 1 \in Nat /\ k - 1 <= m + d
    BY <1>3, <2>2
  <2>4. ~(k - 1 < m)
    <3> SUFFICES ASSUME k - 1 < m PROVE FALSE
      OBVIOUS
    <3>1. R * ((k - 1) + 1) <= R * m /\ R * ((k - 1) + 1) = (R * (k - 1)) + R
      BY <1>1, <2>3, Product
    <3>2. (k - 1) * R = R * (k - 1) /\ R * (k - 1) \in Nat
      BY <1>1, <2>3
    <3> QED BY <1>1, <1>4, <2>2, <3>1, <3>2 DEF R
  <2>5. PICK e \in Nat : k - 1 = m + e
    <3>1. (k - 1) - m \in Nat /\ k - 1 = m + ((k - 1) - m)
      BY <2>3, <2>4
    <3> QED BY <3>1
  <2>6. e < d /\ e \in 0 .. N - 1
    BY <1>1, <1>2, <2>2, <2>5
  <2>7. (m + e) % N = (m + d) % N
    BY <1>2, <2>2, <2>5
  <2> QED BY <1>1, <1>2, <2>6, <2>7, OnePlace
<1> QED BY <1>6, <1>7, <1>8, <1>9, <1>10 DEF R, N

(* A read from the track buffer: the sector has passed since it was begun, *)
(* at b, before m.                                                         *)
LEMMA FromBuffer ==
    ASSUME NEW s \in Nat, NEW now \in Nat, NEW m \in Nat, NEW b \in Nat,
           RotationTime * b <= now, now <= RotationTime * m,
           m <= (now \div RotationTime) + 1,
           ((RotationTime * m) - (RotationTime * b)) \div RotationTime > ModuloDiff(s, b)
    PROVE  /\ now + RotationTime <= now + (SectorsPerTrack + 1) * RotationTime
           /\ Passed(s, RotationTime * b, now + RotationTime)
<1> DEFINE R == RotationTime
           N == SectorsPerTrack
           d == ModuloDiff(s, b)
           r == s % N
           q == now \div R
           n == b + d + 1
<1>1. R \in Nat \ {0} /\ N \in Nat \ {0}
  BY TicksAssumption, GeometryAssumption
<1>2. d \in 0 .. N - 1 /\ (b + d) % N = r
  BY ModuloDiffRight
<1>3. q \in Nat /\ now = (R * q) + (now % R) /\ now % R \in 0 .. R - 1
  BY <1>1, Divided, Division
<1> HIDE DEF R, N, d, r, q
<1>4. b <= m
  <2>1. m < b => R * (m + 1) <= R * b /\ R * (m + 1) = (R * m) + R
    BY <1>1, Product
  <2>2. R * m \in Nat /\ R * b \in Nat
    BY <1>1, Product
  <2> QED BY <1>1, <2>1, <2>2 DEF R
<1>5. ((R * m) - (R * b)) \div R = m - b
  <2>1. PICK c \in Nat : m = b + c
    <3>1. m - b \in Nat /\ m = b + (m - b)
      BY <1>4
    <3> QED BY <3>1
  <2>2. /\ R * m = (R * b) + (R * c) /\ R * c \in Nat /\ R * b \in Nat /\ R * m \in Nat
    BY <1>1, <2>1, Product
  <2>3. (R * m) - (R * b) = (R * c) + 0 /\ 0 \in 0 .. R - 1 /\ m - b = c
    BY <1>1, <2>1, <2>2
  <2>4. ((R * m) - (R * b)) \in Nat
    BY <2>2, <2>3
  <2> DEFINE x == (R * m) - (R * b)
  <2>5. x \in Nat /\ x = (R * c) + 0
    BY <2>3, <2>4
  <2> HIDE DEF x
  <2>6. x \div R = c
    BY <1>1, <2>3, <2>5, Quotient
  <2> QED BY <2>3, <2>6 DEF x
<1>6. m - b > d /\ m <= q + 1
  BY <1>5 DEF R, d, q
<1>7. n \in 1 .. q + 1 /\ n - 1 = b + d
  BY <1>2, <1>3, <1>6
<1>8. (now + R) \div R = q + 1
  <2>1. /\ now + R = (R * (q + 1)) + (now % R) /\ now + R \in Nat /\ q + 1 \in Nat
    <3>1. R * (q + 1) = (R * q) + R /\ R * q \in Nat
      BY <1>1, <1>3, Product
    <3> DEFINE t == now % R
    <3>2. now = (R * q) + t /\ t \in 0 .. R - 1
      BY <1>3
    <3> HIDE DEF t
    <3> QED BY <1>1, <1>3, <3>1, <3>2 DEF t
  <2> DEFINE t == now % R
             a == now + R
  <2>2. a \in Nat /\ a = (R * (q + 1)) + t /\ t \in 0 .. R - 1 /\ q + 1 \in Nat
    BY <1>3, <2>1
  <2> HIDE DEF t, a
  <2>3. a \div R = q + 1
    BY <1>1, <2>2, Quotient
  <2> QED BY <2>3 DEF a
<1>9. Passed(s, R * b, now + R)
  <2>1. n \in 1 .. (now + R) \div R
    BY <1>7, <1>8
  <2>2. (n - 1) * R >= R * b
    <3>1. (n - 1) * R = R * (b + d) /\ R * (b + d) >= R * b
      <4>1. (b + d) * R = R * (b + d) /\ b <= b + d /\ b + d \in Nat
        BY <1>1, <1>2
      <4>2. R * b <= R * (b + d) /\ R * b \in Nat /\ R * (b + d) \in Nat
        BY <1>1, <4>1, Product
      <4> HIDE DEF n
      <4> QED BY <1>7, <4>1, <4>2
    <3> QED BY <1>1, <1>2, <3>1, Product
  <2>3. (n - 1) % N = r
    BY <1>2, <1>7
  <2> HIDE DEF n
  <2> QED BY <2>1, <2>2, <2>3 DEF Passed, R, N, r
<1>10. R <= (N + 1) * R
  <2>1. (N + 1) * R = (R * N) + R /\ R * N \in Nat
    BY <1>1
  <2> QED BY <1>1, <2>1
<1>11. now + R <= now + (N + 1) * R
  <2>1. (N + 1) * R \in Nat
    BY <1>1
  <2> QED BY <1>1, <1>10, <2>1
<1> QED BY <1>9, <1>11 DEF R, N

-----------------------------------------------------------------------------
Disks == [active : BOOLEAN, lastSector : Nat, bufferInit : Nat]

MachineType ==
    /\ totalTicks \in Nat /\ phase \in Phases
    /\ booked \subseteq Kinds \X Nat
    /\ disk \in Disks

(* Each device has one interrupt booked while it is at work: the timer     *)
(* always, the keyboard from the Console on.                               *)
Has(kind) == \E k \in Nat : <<kind, k>> \in booked

BookedExact ==
    /\ Holds(pending, booked)
    /\ \A b, c \in booked : b[1] = c[1] => b = c
    /\ Has("TimerInt")
    /\ Has("DiskInt") <=> disk.active
    /\ Has("ConsoleReadInt") <=> console.open
    /\ Has("ConsoleWriteInt") <=> console.putBusy

(* The main thread, the only one, waits in one list at most: in that of a  *)
(* semaphore while the machine is idle, in the ready list after a V.       *)
Queued == {<<Main, 0>>}

ListsExact ==
    /\ Holds(readyList, {}) \/ Holds(readyList, Queued)
    /\ queue = [s \in Sems |-> queue[s]]
    /\ \A s \in Sems : Holds(queue[s], {}) \/ Holds(queue[s], Queued)
    /\ \A s, t \in Sems : Holds(queue[s], Queued) => Holds(readyList, {}) /\ (s = t \/ Holds(queue[t], {}))
    /\ phase \in {"run", "tick"} => \A s \in Sems : Holds(queue[s], {})
    /\ phase \in {"run", "tick", "idle"} => Holds(readyList, {})

(* A request, or a character on its way to the display, ends with a unit   *)
(* in its semaphore, which the main thread waits for.                      *)
UnderWay ==
    /\ disk.active => /\ pc = "transfer" /\ value["disk"] = 0
                      /\ phase # "tick" /\ Holds(readyList, {})
    /\ value["disk"] # 0 => pc = "transfer" /\ value["disk"] = 1
    /\ console.putBusy => pc = "written" /\ value["writeDone"] = 0
    /\ value["writeDone"] # 0 => pc = "written" /\ value["writeDone"] = 1

ModeExact ==
    /\ phase \in {"run", "tick"} => status = "SystemMode"
    /\ phase \in {"idle", "drain"} => status = "IdleMode"

(* No interrupt is overdue while kernel code runs or the machine is idle.  *)
(* Idle does not wait for a timer alone: it is not due while there is only *)
(* the disk, because CheckIfDue, which puts back what it does not fire,    *)
(* changes the order of a timer and a disk interrupt of the same time.     *)
SameTime == \E k \in Nat : <<"TimerInt", k>> \in booked /\ <<"DiskInt", k>> \in booked

OnTime ==
    /\ phase \in {"run", "idle"} => \A b \in booked : b[2] > totalTicks
    /\ phase = "drain" /\ ~console.open =>
          \A k \in Nat : <<"TimerInt", k>> \in booked => k > totalTicks
    /\ phase \in {"run", "idle"} /\ SameTime => First.item = "TimerInt"
    /\ phase = "drain" /\ SameTime => First.item = "DiskInt"

OnlyReadAborts == phase = "aborted" => ReadAborts("ConsoleReadInt")

MInv ==
    EInv /\ MachineType /\ BookedExact /\ ListsExact /\ UnderWay /\ ModeExact /\ OnTime
         /\ OnlyReadAborts

-----------------------------------------------------------------------------
(* The first interrupt of the pending list is booked, and none comes       *)
(* earlier.                                                                *)
LEMMA FirstBooked ==
    ASSUME MInv
    PROVE  /\ ~IsEmpty(pending) /\ <<First.item, First.key>> \in booked
           /\ First.item \in Kinds /\ First.key \in Nat
           /\ \A b \in booked : First.key <= b[2]
           /\ \A k \in Nat : <<First.item, k>> \in booked => k = First.key
<1>1. booked # {} /\ Holds(pending, booked)
  BY DEF MInv, BookedExact, Has
<1>2. /\ ~IsEmpty(pending) /\ <<First.item, First.key>> \in booked
      /\ \A b \in booked : First.key <= b[2]
  BY <1>1, HeldFirst DEF First
<1>3. First.item \in Kinds /\ First.key \in Nat
  BY <1>2 DEF MInv, MachineType
<1>4. \A k \in Nat : <<First.item, k>> \in booked => k = First.key
  BY <1>2 DEF MInv, BookedExact
<1> QED BY <1>2, <1>3, <1>4

(* What is booked without the interrupts of a kind *)
Others(kind) == {b \in booked : b[1] # kind}

(* An interrupt that fires is taken off the list, and no other. *)
LEMMA FiredHolds ==
    ASSUME MInv
    PROVE  /\ Fired(First.item) = Others(First.item)
           /\ Holds(SortedRemove(pending), Others(First.item))
<1>1. <<First.item, First.key>> \in booked
  BY FirstBooked
<1>2. Fired(First.item) = booked \ {<<First.item, First.key>>}
  BY DEF Fired, First
<1>3. \A b \in booked : b[1] = First.item <=> b = <<First.item, First.key>>
  BY <1>1 DEF MInv, BookedExact
<1>4. Fired(First.item) = Others(First.item)
  BY <1>2, <1>3 DEF Others
<1>5. Holds(SortedRemove(pending), booked \ {<<First.item, First.key>>})
  BY <1>1, RemoveHolds DEF MInv, BookedExact, First
<1> QED BY <1>2, <1>4, <1>5

(* The next one of its kind is put behind one of the same time.            *)
LEMMA AgainHolds ==
    ASSUME MInv, NEW now \in Nat, NEW delay \in Nat,
           Again(SortedRemove(pending), now, First.item, delay)
    PROVE  /\ booked' = Others(First.item) \union {<<First.item, now + delay>>}
           /\ Holds(pending', booked')
           /\ \A b \in booked : Others(First.item) = {b} /\ ~(now + delay < b[2]) =>
                 First'.item = b[1]
<1> DEFINE rest == SortedRemove(pending)
           new == <<First.item, now + delay>>
           O == Others(First.item)
<1>1. booked' = O \union {new}
  BY FiredHolds DEF Again
<1>2. pending' = SortedInsert(rest, First.item, now + delay)
  BY DEF Again, Schedule
<1>3. Holds(rest, O) /\ new \notin O
  BY FiredHolds DEF Others
<1>4. First.item \in Items /\ now + delay \in Nat
  BY FirstBooked DEF Items
<1>5. /\ Holds(pending', O \union {new})
      /\ O # {} /\ ~(now + delay < FirstElement(rest).key) =>
            FirstElement(pending').item = FirstElement(rest).item
  <2> HIDE DEF rest, new, O
  <2>1. new = <<First.item, now + delay>>
    BY DEF new
  <2> QED BY <1>2, <1>3, <1>4, <2>1, InsertHolds
<1>6. O # {} => <<FirstElement(rest).item, FirstElement(rest).key>> \in O
  BY <1>3, HeldFirst
<1>7. ASSUME NEW b \in booked, O = {b}, ~(now + delay < b[2]) PROVE First'.item = b[1]
  BY <1>5, <1>6, <1>7 DEF First
<1> QED BY <1>1, <1>5, <1>7

(* What CheckIfDue takes off and does not fire is put back, behind one of  *)
(* the same time.                                                          *)
LEMMA PutBackHolds ==
    ASSUME MInv, PutBack
    PROVE  /\ booked' = booked /\ Holds(pending', booked)
           /\ \A b, c \in booked : booked = {b, c} /\ b # c /\ b[2] = c[2] /\ First.item = b[1] =>
                 First'.item = c[1]
<1> DEFINE rest == SortedRemove(pending)
           f == <<First.item, First.key>>
           O == booked \ {f}
<1>1. /\ ~IsEmpty(pending) /\ f \in booked /\ First.item \in Items /\ First.key \in Nat
  BY FirstBooked DEF Items
<1>2. pending' = SortedInsert(rest, First.item, First.key) /\ booked' = booked
  BY <1>1 DEF PutBack
<1>3. Holds(rest, O)
  BY <1>1, RemoveHolds DEF MInv, BookedExact, First
<1>4. /\ Holds(pending', O \union {f})
      /\ O # {} /\ ~(First.key < FirstElement(rest).key) =>
            FirstElement(pending').item = FirstElement(rest).item
  <2>1. f \notin O /\ f = <<First.item, First.key>>
    OBVIOUS
  <2> HIDE DEF rest, f, O
  <2> QED BY <1>1, <1>2, <1>3, <2>1, InsertHolds
<1>5. O \union {f} = booked
  BY <1>1
<1>6. O # {} => <<FirstElement(rest).item, FirstElement(rest).key>> \in O
  BY <1>3, HeldFirst
<1>7. ASSUME NEW b \in booked, NEW c \in booked, booked = {b, c}, b # c, b[2] = c[2],
             First.item = b[1]
      PROVE  First'.item = c[1]
  <2>1. f = b
    BY <1>1, <1>7 DEF MInv, BookedExact
  <2>2. O = {c}
    BY <1>7, <2>1
  <2>3. <<FirstElement(rest).item, FirstElement(rest).key>> = c
    BY <1>6, <2>2
  <2>4. ~(First.key < FirstElement(rest).key)
    BY <1>1, <1>7, <2>1, <2>3
  <2> QED BY <1>4, <2>2, <2>3, <2>4 DEF First
<1> QED BY <1>2, <1>4, <1>5, <1>7

-----------------------------------------------------------------------------
(* A request takes some time, and leaves the disk at work. *)
LEMMA RequestTakesTime ==
    ASSUME MachineType, NEW s \in Sectors, NEW writing
    PROVE  /\ ComputeLatency(s, writing) \in Nat \ {0}
           /\ UpdateLast(s) \in Disks /\ UpdateLast(s).active
<1> DEFINE t == TimeToSeek(s)
           after == totalTicks + t.seek + t.rotation
<1>1. /\ s \in Nat /\ totalTicks \in Nat /\ disk \in Disks /\ disk.lastSector \in Nat
      /\ disk.bufferInit \in Nat
  BY GeometryAssumption DEF Sectors, MachineType, Disks
<1>2. RotationTime \in Nat \ {0} /\ SeekTime \in Nat \ {0} /\ SectorsPerTrack \in Nat \ {0}
  BY TicksAssumption, GeometryAssumption
<1>3. Tracks(s, disk.lastSector) \in Nat
  <2>1. \A n \in Nat : n \div SectorsPerTrack \in Nat
    BY <1>2, Divided
  <2>2. \A a, b \in Nat : (IF a - b < 0 THEN -(a - b) ELSE a - b) \in Nat
    OBVIOUS
  <2> QED BY <1>1, <2>1, <2>2 DEF Tracks
<1>4. t.seek \in Nat
  BY <1>2, <1>3 DEF TimeToSeek
<1>5. t.rotation \in Nat
  <2>1. \A n \in Nat : n % RotationTime \in 0 .. RotationTime - 1
    BY <1>2, Divided
  <2>2. totalTicks + t.seek \in Nat
    BY <1>1, <1>4
  <2>3. (totalTicks + t.seek) % RotationTime \in 0 .. RotationTime - 1
    BY <2>1, <2>2
  <2> QED BY <1>2, <2>3 DEF TimeToSeek
<1>6. \A n \in Nat : ModuloDiff(s, n) \in Nat
  <2> TAKE n \in Nat
  <2>1. /\ s % SectorsPerTrack \in 0 .. SectorsPerTrack - 1
        /\ n % SectorsPerTrack \in 0 .. SectorsPerTrack - 1
    BY <1>1, <1>2, Divided
  <2>2. ((s % SectorsPerTrack) - (n % SectorsPerTrack)) + SectorsPerTrack \in Nat
    BY <1>2, <2>1
  <2> QED BY <1>2, <2>2, Divided DEF ModuloDiff
<1> HIDE DEF t
<1>7. after \in Nat /\ after \div RotationTime \in Nat
  <2>1. after \in Nat
    BY <1>1, <1>4, <1>5
  <2> HIDE DEF after
  <2> QED BY <1>2, <2>1, Divided
<1>8. ModuloDiff(s, after \div RotationTime) * RotationTime \in Nat
  BY <1>2, <1>6, <1>7
<1>9. t.seek + t.rotation + ModuloDiff(s, after \div RotationTime) * RotationTime + RotationTime
         \in Nat \ {0}
  BY <1>2, <1>4, <1>5, <1>8
<1>10. ComputeLatency(s, writing) \in Nat \ {0}
  BY <1>2, <1>9 DEF ComputeLatency, t
<1>11. UpdateLast(s) \in Disks /\ UpdateLast(s).active
  BY <1>1, <1>4, <1>7 DEF UpdateLast, Disks, t
<1> QED BY <1>10, <1>11

(* Initialize books the timer. *)
LEMMA MachineInit == Init => MInv
<1> SUFFICES ASSUME Init PROVE MInv
  OBVIOUS
<1>1. PICK d \in TimerDelays : /\ pending = SortedInsert(NewList, "TimerInt", d)
                               /\ booked = {<<"TimerInt", d>>}
  BY DEF Init
<1>2. d \in Nat \ {0}
  BY TicksAssumption
<1>3. Holds(pending, booked)
  <2>1. <<"TimerInt", d>> \notin {} /\ {} \union {<<"TimerInt", d>>} = booked
    BY <1>1
  <2>2. ASSUME NEW S, S = {} PROVE Holds(pending, S \union {<<"TimerInt", d>>})
    <3>1. Holds(NewList, S) /\ "TimerInt" \in Items /\ d \in Nat /\ <<"TimerInt", d>> \notin S
      BY <1>2, <2>2, NewHolds DEF Items, Kinds
    <3> QED BY <1>1, <3>1, InsertHolds
  <2> QED BY <2>1, <2>2
<1>4. console.open = FALSE /\ console.putBusy = FALSE /\ disk.active = FALSE
  BY DEF Init, NoConsole
<1>5. BookedExact
  BY <1>1, <1>2, <1>3, <1>4 DEF BookedExact, Has
<1>6. MachineType
  BY <1>1, <1>2, TicksAssumption DEF Init, MachineType, Disks, Kinds, Phases
<1>7. ListsExact
  BY NewHolds DEF Init, ListsExact
<1>8. UnderWay /\ ModeExact /\ OnlyReadAborts
  BY <1>4 DEF Init, UnderWay, ModeExact, OnlyReadAborts, Sems
<1>9. OnTime
  BY DEF Init, OnTime
<1> QED BY <1>5, <1>6, <1>7, <1>8, <1>9, EchoInit DEF MInv

-----------------------------------------------------------------------------
(* A list holds nothing or the main thread, not both. *)
LEMMA HeldOnce ==
    ASSUME NEW l
    PROVE  /\ Holds(l, {}) => IsEmpty(l)
           /\ Holds(l, Queued) => /\ ~IsEmpty(l) /\ FirstElement(l).item = Main
                                  /\ Holds(SortedRemove(l), {})
<1>1. Holds(l, {}) => IsEmpty(l)
  BY HeldFirst
<1>2. ASSUME Holds(l, Queued) PROVE ~IsEmpty(l) /\ FirstElement(l).item = Main /\ Holds(SortedRemove(l), {})
  <2> DEFINE f == <<FirstElement(l).item, FirstElement(l).key>>
  <2>1. Queued # {}
    BY DEF Queued
  <2>2. ~IsEmpty(l) /\ f \in Queued
    BY <1>2, <2>1, HeldFirst
  <2>3. Holds(SortedRemove(l), Queued \ {f})
    BY <1>2, <2>1, RemoveHolds
  <2>4. FirstElement(l).item = Main /\ Queued \ {f} = {}
    BY <2>2 DEF Queued
  <2> QED BY <2>2, <2>3, <2>4
<1> QED BY <1>1, <1>2

(* The disk is used without a console and the console without the disk. *)
LEMMA Apart ==
    ASSUME MInv
    PROVE  /\ disk.active => ~console.open
           /\ ~console.open => ~console.putBusy /\ \A b \in booked : b[1] \in {"TimerInt", "DiskInt"}
           /\ \A b \in booked : b = <<b[1], b[2]>> /\ b[1] \in Kinds /\ b[2] \in Nat
           /\ \A b \in booked : b[1] = "DiskInt" => disk.active
           /\ \A b \in booked : b[1] = "ConsoleReadInt" => console.open
           /\ \A b \in booked : b[1] = "ConsoleWriteInt" => console.putBusy
<1>1. disk.active => ~console.open
  BY DEF MInv, UnderWay, EInv, ConsoleOpened, ConsolePlaces
<1>2. \A b \in booked : b = <<b[1], b[2]>> /\ b[1] \in Kinds /\ b[2] \in Nat
  BY DEF MInv, MachineType
<1>3. /\ \A b \in booked : b[1] = "DiskInt" => disk.active
      /\ \A b \in booked : b[1] = "ConsoleReadInt" => console.open
      /\ \A b \in booked : b[1] = "ConsoleWriteInt" => console.putBusy
  BY <1>2 DEF MInv, BookedExact, Has
<1>4. ~console.open => ~console.putBusy
  BY DEF MInv, EInv, ConsoleOpened, NoConsole
<1> QED BY <1>1, <1>2, <1>3, <1>4 DEF Kinds

(* V in a handler makes the main thread ready if it waits. *)
LEMMA VKeepsLists ==
    ASSUME MInv, NEW s \in Sems, V(s),
           phase \in {"tick", "idle", "drain"}, phase' = IF phase = "tick" THEN "tick" ELSE "drain"
    PROVE  ListsExact' /\ (phase = "tick" => UNCHANGED readyList)
<1>1. ListsExact
  BY DEF MInv
<1>2. CASE IsEmpty(queue[s])
  <2>1. UNCHANGED <<queue, readyList>>
    BY <1>2 DEF V
  <2> QED BY <1>1, <2>1 DEF ListsExact
<1>3. CASE ~IsEmpty(queue[s])
  <2>1. /\ queue' = [queue EXCEPT ![s] = SortedRemove(@)]
        /\ readyList' = ListAppend(readyList, FirstElement(queue[s]).item)
    BY <1>3 DEF V
  <2>2. Holds(queue[s], Queued) /\ FirstElement(queue[s]).item = Main /\ Holds(SortedRemove(queue[s]), {})
    BY <1>1, <1>3, HeldOnce DEF ListsExact
  <2>3. phase # "tick"
    BY <1>1, <1>3, HeldOnce DEF ListsExact
  <2>4. Holds(readyList, {}) /\ \A t \in Sems : t # s => Holds(queue[t], {})
    BY <1>1, <2>2 DEF ListsExact
  <2>5. Holds(readyList', Queued)
    BY <2>1, <2>2, <2>4, AppendHolds DEF Main, Items, Queued
  <2>6. queue' = [t \in Sems |-> queue'[t]] /\ \A t \in Sems : Holds(queue'[t], {})
    BY <1>1, <2>1, <2>2, <2>4 DEF ListsExact
  <2>7. \A t \in Sems : ~Holds(queue'[t], Queued)
    BY <2>6, HeldOnce
  <2> QED BY <2>3, <2>5, <2>6, <2>7 DEF ListsExact
<1> QED BY <1>2, <1>3

(* An interrupt that fires and is scheduled again, at a later time *)
LEMMA AgainKeeps ==
    ASSUME MInv, NEW now \in Nat, NEW delay \in Nat,
           Again(SortedRemove(pending), now, First.item, delay)
    PROVE  /\ Holds(pending', booked') /\ booked' \subseteq Kinds \X Nat
           /\ \A b, c \in booked' : b[1] = c[1] => b = c
           /\ \A kind : Has(kind)' <=> Has(kind)
<1>1. /\ booked' = Others(First.item) \union {<<First.item, now + delay>>}
      /\ Holds(pending', booked')
  BY AgainHolds
<1>2. /\ First.item \in Kinds /\ First.key \in Nat /\ <<First.item, First.key>> \in booked
      /\ now + delay \in Nat
  BY FirstBooked
<1>3. booked' \subseteq Kinds \X Nat
  BY <1>1, <1>2 DEF Others, MInv, MachineType
<1>4. \A b, c \in booked' : b[1] = c[1] => b = c
  BY <1>1 DEF Others, MInv, BookedExact
<1>5. \A kind : Has(kind)' <=> Has(kind)
  BY <1>1, <1>2 DEF Has, Others
<1> QED BY <1>1, <1>3, <1>4, <1>5

(* ... and one that is over *)
LEMMA OverKeeps ==
    ASSUME MInv, Over(SortedRemove(pending), First.item)
    PROVE  /\ Holds(pending', booked') /\ booked' = Others(First.item)
           /\ booked' \subseteq Kinds \X Nat
           /\ \A b, c \in booked' : b[1] = c[1] => b = c
           /\ \A kind : Has(kind)' <=> Has(kind) /\ kind # First.item
<1>1. booked' = Others(First.item) /\ Holds(pending', booked')
  BY FiredHolds DEF Over
<1>2. booked' \subseteq Kinds \X Nat
  BY <1>1 DEF Others, MInv, MachineType
<1>3. \A b, c \in booked' : b[1] = c[1] => b = c
  BY <1>1 DEF Others, MInv, BookedExact
<1>4. \A kind : Has(kind)' <=> Has(kind) /\ kind # First.item
  BY <1>1 DEF Has, Others
<1> QED BY <1>1, <1>2, <1>3, <1>4

-----------------------------------------------------------------------------
(* CheckIfDue in OneTick, in Idle and in Idle's loop *)
Checks(advanceClock, then) ==
    \/ phase = "tick" /\ advanceClock = FALSE /\ then = "tick"
    \/ phase = "idle" /\ advanceClock = TRUE /\ then = "drain"
    \/ phase = "drain" /\ advanceClock = FALSE /\ then = "drain"

(* The clock goes on to the interrupt's time if the machine is idle and    *)
(* stands still otherwise.                                                 *)
LEMMA ClockGoesOn ==
    ASSUME MInv, NEW advanceClock, NEW then, Checks(advanceClock, then), Fire(advanceClock, then)
    PROVE  /\ totalTicks' \in Nat /\ totalTicks' = Now(advanceClock)
           /\ phase = "idle" => totalTicks' = First.key
           /\ phase # "idle" => totalTicks' = totalTicks /\ First.key <= totalTicks
<1>1. /\ totalTicks \in Nat /\ First.key \in Nat /\ <<First.item, First.key>> \in booked
  BY FirstBooked DEF MInv, MachineType
<1>2. totalTicks' = Now(advanceClock) /\ First.key <= Now(advanceClock)
  BY DEF Fire, Due
<1>3. phase = "idle" => First.key > totalTicks
  BY <1>1 DEF MInv, OnTime
<1> QED BY <1>1, <1>2, <1>3 DEF Checks, Now

(* The timer is not due while only the disk and it are booked.             *)
LEMMA TimerOnTime ==
    ASSUME MInv, NEW advanceClock, NEW then, Checks(advanceClock, then), Fire(advanceClock, then),
           phase # "tick", ~console.open, First.item = "DiskInt"
    PROVE  \A k \in Nat : <<"TimerInt", k>> \in booked => k > totalTicks'
<1> SUFFICES ASSUME NEW k \in Nat, <<"TimerInt", k>> \in booked PROVE k > totalTicks'
  OBVIOUS
<1>1. CASE phase = "idle"
  <2>1. totalTicks' = First.key /\ First.key \in Nat /\ <<"DiskInt", First.key>> \in booked
    BY <1>1, ClockGoesOn, FirstBooked
  <2>2. First.key <= k
    BY FirstBooked
  <2>3. First.key # k
    BY <1>1, <2>1 DEF MInv, OnTime, SameTime
  <2> QED BY <2>1, <2>2, <2>3
<1>2. CASE phase = "drain"
  BY <1>2, ClockGoesOn DEF MInv, OnTime
<1> QED BY <1>1, <1>2 DEF Checks

(* What every handler leaves to show *)
Rest == /\ BookedExact /\ ListsExact /\ UnderWay /\ disk \in Disks /\ booked \subseteq Kinds \X Nat
        /\ phase = "drain" => OnTime

(* The timer goes off. *)
LEMMA TimerKeeps ==
    ASSUME MInv, NEW advanceClock, NEW then, Checks(advanceClock, then), Fire(advanceClock, then),
           phase' = then, First.item = "TimerInt",
           TimerExpired(SortedRemove(pending), Now(advanceClock))
    PROVE  Rest'
<1> DEFINE now == Now(advanceClock)
<1>1. now \in Nat /\ totalTicks' = now
  BY ClockGoesOn
<1> HIDE DEF now
<1>2. PICK delay \in TimerDelays : Again(SortedRemove(pending), now, First.item, delay)
  BY DEF TimerExpired, now
<1>3. delay \in Nat /\ delay > 0
  BY TicksAssumption
<1>4. /\ Holds(pending', booked') /\ booked' \subseteq Kinds \X Nat
      /\ \A b, c \in booked' : b[1] = c[1] => b = c
      /\ \A kind : Has(kind)' <=> Has(kind)
  BY <1>1, <1>2, <1>3, AgainKeeps
<1>5. UNCHANGED <<value, queue, readyList, console, disk, pc>>
  BY DEF TimerExpired, NoV, Fire, thread
<1>6. BookedExact'
  BY <1>4, <1>5 DEF MInv, BookedExact
<1>7. ListsExact'
  BY <1>5 DEF MInv, ListsExact, Checks
<1>8. UnderWay'
  BY <1>5 DEF MInv, UnderWay, Checks
<1>9. booked' = Others("TimerInt") \union {<<"TimerInt", now + delay>>}
  BY <1>1, <1>2, <1>3, AgainHolds
<1>10. \A k \in Nat : <<"TimerInt", k>> \in booked' => k > totalTicks'
  BY <1>1, <1>3, <1>9 DEF Others
<1>11. ASSUME SameTime' PROVE First'.item = "DiskInt"
  <2>1. PICK k \in Nat : <<"TimerInt", k>> \in booked' /\ <<"DiskInt", k>> \in booked'
    BY <1>11 DEF SameTime
  <2>2. k = now + delay /\ <<"DiskInt", k>> \in booked
    BY <2>1, <1>9 DEF Others
  <2>3. \A b \in Others("TimerInt") : b = <<"DiskInt", k>>
    <3>1. ~console.open
      BY <2>2, Apart
    <3>2. \A b \in booked : b[1] \in {"TimerInt", "DiskInt"}
      BY <3>1, Apart
    <3>3. \A b \in booked : b[1] = "DiskInt" => b = <<"DiskInt", k>>
      BY <2>2 DEF MInv, BookedExact
    <3> QED BY <3>2, <3>3 DEF Others
  <2>4. Others(First.item) = {<<"DiskInt", k>>}
    BY <2>2, <2>3 DEF Others
  <2>5. ~(now + delay < <<"DiskInt", k>>[2])
    BY <1>1, <1>3, <2>2
  <2> QED BY <1>1, <1>2, <1>3, <2>2, <2>4, <2>5, AgainHolds
<1>12. OnTime' \/ phase' # "drain"
  BY <1>10, <1>11 DEF OnTime
<1> QED BY <1>4, <1>5, <1>6, <1>7, <1>8, <1>12 DEF Rest, MInv, MachineType

(* The disk is done: RequestDone's V. *)
LEMMA DiskKeeps ==
    ASSUME MInv, NEW advanceClock, NEW then, Checks(advanceClock, then), Fire(advanceClock, then),
           phase' = then, First.item = "DiskInt", HandleInterrupt(SortedRemove(pending))
    PROVE  Rest'
<1>1. disk.active /\ ~console.open /\ pc = "transfer" /\ value["disk"] = 0 /\ phase # "tick"
  BY FirstBooked, Apart DEF MInv, UnderWay
<1>2. disk' \in Disks /\ ~disk'.active /\ UNCHANGED <<console, pc>>
  BY DEF HandleInterrupt, MInv, MachineType, Disks, Fire, thread
<1>3. /\ Holds(pending', booked') /\ booked' = Others("DiskInt")
      /\ booked' \subseteq Kinds \X Nat
      /\ \A b, c \in booked' : b[1] = c[1] => b = c
      /\ \A kind : Has(kind)' <=> Has(kind) /\ kind # "DiskInt"
  BY OverKeeps DEF HandleInterrupt
<1>4. BookedExact'
  BY <1>2, <1>3 DEF MInv, BookedExact
<1>5. ListsExact'
  BY <1>1, VKeepsLists DEF HandleInterrupt, Checks, Sems
<1>6. value'["disk"] = 1 /\ value'["writeDone"] = value["writeDone"]
  BY <1>1, VEffect DEF HandleInterrupt, MInv, EInv, ConsoleType, Sems
<1>7. UnderWay'
  BY <1>1, <1>2, <1>6 DEF MInv, UnderWay
<1>8. \A k \in Nat : <<"TimerInt", k>> \in booked' => k > totalTicks'
  BY <1>1, <1>3, TimerOnTime DEF Others
<1>9. ~SameTime'
  BY <1>3 DEF SameTime, Others
<1>10. OnTime' \/ phase' # "drain"
  BY <1>8, <1>9 DEF OnTime
<1> QED BY <1>2, <1>3, <1>4, <1>5, <1>7, <1>10 DEF Rest

(* The display is done. *)
LEMMA DisplayKeeps ==
    ASSUME MInv, NEW advanceClock, NEW then, Checks(advanceClock, then), Fire(advanceClock, then),
           phase' = then, First.item = "ConsoleWriteInt", WriteDone(SortedRemove(pending))
    PROVE  Rest'
<1>1. console.putBusy /\ console.open /\ ~disk.active /\ pc = "written" /\ value["writeDone"] = 0
  BY FirstBooked, Apart DEF MInv, UnderWay
<1>2. /\ console'.open = console.open /\ ~console'.putBusy /\ UNCHANGED <<disk, pc>>
  BY DEF WriteDone, MInv, EInv, ConsoleType, Consoles, Fire, thread
<1>3. /\ Holds(pending', booked') /\ booked' \subseteq Kinds \X Nat
      /\ \A b, c \in booked' : b[1] = c[1] => b = c
      /\ \A kind : Has(kind)' <=> Has(kind) /\ kind # "ConsoleWriteInt"
  BY OverKeeps DEF WriteDone
<1>4. BookedExact'
  BY <1>2, <1>3 DEF MInv, BookedExact
<1>5. ListsExact'
  BY VKeepsLists DEF WriteDone, Checks, Sems
<1>6. value'["writeDone"] = 1 /\ value'["disk"] = value["disk"]
  BY <1>1, VEffect DEF WriteDone, MInv, EInv, ConsoleType, Sems
<1>7. UnderWay'
  BY <1>1, <1>2, <1>6 DEF MInv, UnderWay
<1>8. ~SameTime'
  BY <1>1, <1>3 DEF SameTime, Has, MInv, BookedExact
<1>9. OnTime' \/ phase' # "drain"
  BY <1>1, <1>2, <1>8 DEF OnTime
<1> QED BY <1>1, <1>2, <1>3, <1>4, <1>5, <1>7, <1>9 DEF Rest, MInv, MachineType

(* The keyboard is looked at, and again after ConsoleTime. *)
LEMMA KeyboardKeeps ==
    ASSUME MInv, NEW advanceClock, NEW then, Checks(advanceClock, then), Fire(advanceClock, then),
           phase' = then, First.item = "ConsoleReadInt",
           CheckCharAvail(SortedRemove(pending), Now(advanceClock))
    PROVE  Rest'
<1> DEFINE now == Now(advanceClock)
<1>1. now \in Nat /\ totalTicks' = now
  BY ClockGoesOn
<1> HIDE DEF now
<1>2. ConsoleTime \in Nat /\ Again(SortedRemove(pending), now, First.item, ConsoleTime)
  BY TicksAssumption DEF CheckCharAvail, now
<1>3. /\ Holds(pending', booked') /\ booked' \subseteq Kinds \X Nat
      /\ \A b, c \in booked' : b[1] = c[1] => b = c
      /\ \A kind : Has(kind)' <=> Has(kind)
  BY <1>1, <1>2, AgainKeeps
<1>4. console.open /\ ~disk.active
  BY FirstBooked, Apart
<1>5. /\ console'.open = console.open /\ console'.putBusy = console.putBusy
      /\ UNCHANGED <<disk, pc>>
  BY DEF CheckCharAvail, MInv, EInv, ConsoleType, Consoles, Fire, thread
<1>6. BookedExact'
  BY <1>3, <1>5 DEF MInv, BookedExact
<1>7. ListsExact'
  <2>1. CASE NoV
    BY <2>1 DEF NoV, MInv, ListsExact, Checks
  <2>2. CASE V("readAvail")
    BY <2>2, VKeepsLists DEF Checks, Sems
  <2> QED BY <2>1, <2>2 DEF CheckCharAvail
<1>8. value'["writeDone"] = value["writeDone"] /\ value'["disk"] = value["disk"]
  BY VEffect DEF CheckCharAvail, NoV, MInv, EInv, ConsoleType, Sems
<1>9. UnderWay'
  BY <1>4, <1>5, <1>8 DEF MInv, UnderWay
<1>10. ~SameTime'
  BY <1>3, <1>4 DEF SameTime, Has, MInv, BookedExact
<1>11. OnTime' \/ phase' # "drain"
  BY <1>4, <1>5, <1>10 DEF OnTime
<1> QED BY <1>3, <1>4, <1>5, <1>6, <1>7, <1>9, <1>11 DEF Rest, MInv, MachineType

(* One interrupt fires. *)
LEMMA FireKeeps ==
    ASSUME MInv, NEW advanceClock, NEW then, Checks(advanceClock, then), Fire(advanceClock, then)
    PROVE  MInv'
<1>1. EInv' /\ totalTicks' \in Nat /\ UNCHANGED <<status, pc, input, fromFile>>
  BY FireKeepsEcho, ClockGoesOn DEF MInv, Fire, thread, given
<1>2. CASE ReadAborts(First.item) /\ phase' = "aborted" /\ NoV
           /\ UNCHANGED <<pending, booked, yieldOnReturn, console, disk, polls>>
  <2>1. MachineType'
    BY <1>1, <1>2 DEF MInv, MachineType, Phases
  <2>2. BookedExact'
    BY <1>2 DEF MInv, BookedExact, Has
  <2>3. ListsExact'
    BY <1>2 DEF MInv, ListsExact, NoV
  <2>4. UnderWay'
    BY <1>1, <1>2 DEF MInv, UnderWay, NoV
  <2>5. ModeExact' /\ OnTime' /\ OnlyReadAborts'
    BY <1>1, <1>2 DEF ModeExact, OnTime, OnlyReadAborts, ReadAborts
  <2> QED BY <1>1, <2>1, <2>2, <2>3, <2>4, <2>5 DEF MInv
<1>3. CASE phase' = then /\ Rest'
  <2>1. MachineType'
    BY <1>1, <1>3 DEF Checks, Rest, MachineType, Phases
  <2>2. ModeExact' /\ OnlyReadAborts'
    BY <1>1, <1>3 DEF MInv, ModeExact, OnlyReadAborts, Checks
  <2>3. OnTime'
    BY <1>3 DEF Rest, Checks, OnTime
  <2> QED BY <1>1, <1>3, <2>1, <2>2, <2>3 DEF Rest, MInv
<1> QED BY <1>2, <1>3, TimerKeeps, DiskKeeps, DisplayKeeps, KeyboardKeeps DEF Fire

-----------------------------------------------------------------------------
(* CheckIfDue found nothing due: every interrupt is in the future.         *)
LEMMA NoneDue ==
    ASSUME MInv, phase \in {"tick", "drain"}, ~Due(FALSE)
    PROVE  \A b \in booked : b[2] > totalTicks
<1>1. /\ ~IsEmpty(pending) /\ <<First.item, First.key>> \in booked /\ First.key \in Nat
      /\ \A b \in booked : First.key <= b[2]
  BY FirstBooked
<1>2. totalTicks \in Nat /\ Now(FALSE) = totalTicks
  BY DEF MInv, MachineType, Now
<1>3. CASE First.key > totalTicks
  BY <1>1, <1>2, <1>3, Apart
<1>4. CASE status = "IdleMode" /\ First.item = "TimerInt" /\ IsEmpty(SortedRemove(pending))
  <2>1. phase = "drain"
    BY <1>4 DEF MInv, ModeExact
  <2>2. Others("TimerInt") = {}
    BY <1>4, FiredHolds, HeldFirst
  <2>3. \A b \in booked : b[1] = "TimerInt"
    BY <2>2 DEF Others
  <2>4. ~console.open
    BY <2>3 DEF MInv, BookedExact, Has
  <2>5. \A k \in Nat : <<"TimerInt", k>> \in booked => k > totalTicks
    BY <2>1, <2>4 DEF MInv, OnTime
  <2>6. \A b \in booked : b = <<"TimerInt", b[2]>> /\ b[2] \in Nat
    BY <2>3, Apart
  <2> TAKE b \in booked
  <2> DEFINE k == b[2]
  <2>7. <<"TimerInt", k>> \in booked /\ k \in Nat
    BY <2>6
  <2> HIDE DEF k
  <2>8. k > totalTicks
    BY <2>5, <2>7
  <2> QED BY <2>8 DEF k
<1>5. \/ First.key > totalTicks
      \/ status = "IdleMode" /\ First.item = "TimerInt" /\ IsEmpty(SortedRemove(pending))
  <2>1. First.key <= totalTicks \/ First.key > totalTicks
    BY <1>1, <1>2
  <2>2. First.key <= totalTicks => First.key <= Now(FALSE)
    BY <1>2
  <2> QED BY <1>1, <2>1, <2>2, Zenon DEF Due
<1> QED BY <1>3, <1>4, <1>5, Zenon

(* The end of OneTick *)
LEMMA TickDoneKeeps ==
    ASSUME MInv, TickDone
    PROVE  MInv'
<1>1. EInv'
  BY EchoStep DEF MInv, Next
<1>2. booked' = booked /\ Holds(pending', booked)
  BY PutBackHolds DEF TickDone
<1>3. /\ phase = "tick" /\ UNCHANGED <<value, queue, readyList, status, pc, console, disk>>
      /\ \/ phase' = "tick"
         \/ phase' = "run" /\ UNCHANGED totalTicks
      /\ totalTicks' \in Nat
  BY TicksAssumption DEF TickDone, Enable, NoV, thread, MInv, MachineType
<1>4. MachineType' /\ BookedExact' /\ ListsExact' /\ ModeExact' /\ OnlyReadAborts'
  BY <1>2, <1>3
     DEF MInv, MachineType, Phases, BookedExact, Has, ListsExact, ModeExact, OnlyReadAborts
<1>5. UnderWay'
  BY <1>3 DEF MInv, UnderWay
<1>6. ~SameTime'
  BY <1>2, <1>3 DEF MInv, UnderWay, BookedExact, Has, SameTime
<1>7. OnTime'
  BY <1>2, <1>3, <1>6, NoneDue DEF TickDone, OnTime
<1> QED BY <1>1, <1>4, <1>5, <1>7 DEF MInv

(* Idle found nothing worth waiting for. *)
LEMMA IdleHaltClock ==
    ASSUME MInv, IdleHalt
    PROVE  totalTicks' \in Nat /\ totalTicks <= totalTicks'
<1>1. totalTicks \in Nat
  BY DEF MInv, MachineType
<1>2. ~IsEmpty(pending) => First.key \in Nat
  BY FirstBooked
<1> QED BY <1>1, <1>2 DEF IdleHalt, Now

LEMMA IdleHaltKeeps ==
    ASSUME MInv, IdleHalt
    PROVE  MInv'
<1>1. EInv'
  BY EchoStep DEF MInv, Next
<1>2. booked' = booked /\ Holds(pending', booked)
  BY PutBackHolds DEF IdleHalt
<1>3. /\ phase = "idle" /\ phase' = "halted"
      /\ UNCHANGED <<value, queue, readyList, status, pc, console, disk>>
      /\ totalTicks' \in Nat
  BY IdleHaltClock DEF IdleHalt, machVars, thread
<1>4. MachineType' /\ BookedExact' /\ ListsExact' /\ ModeExact' /\ OnlyReadAborts'
  BY <1>2, <1>3
     DEF MInv, MachineType, Phases, BookedExact, Has, ListsExact, ModeExact, OnlyReadAborts
<1>5. UnderWay' /\ OnTime'
  BY <1>3 DEF MInv, UnderWay, OnTime
<1> QED BY <1>1, <1>4, <1>5 DEF MInv

(* Back in Sleep.  A timer that is due at the same time as the disk is put *)
(* back first.                                                             *)
LEMMA DrainDoneKeeps ==
    ASSUME MInv, DrainDone
    PROVE  MInv'
<1>1. EInv'
  BY EchoStep DEF MInv, Next
<1>2. booked' = booked /\ Holds(pending', booked)
  BY PutBackHolds DEF DrainDone
<1>3. /\ phase = "drain" /\ UNCHANGED <<totalTicks, value, queue, pc, console, disk>>
      /\ \/ /\ IsEmpty(readyList) /\ UNCHANGED readyList
            /\ phase' = "idle" /\ status' = "IdleMode"
         \/ /\ ~IsEmpty(readyList) /\ readyList' = SortedRemove(readyList)
            /\ phase' = "run" /\ status' = "SystemMode"
  BY DEF DrainDone, thread
<1>4. MachineType' /\ BookedExact' /\ ModeExact' /\ OnlyReadAborts'
  BY <1>2, <1>3
     DEF MInv, MachineType, Phases, BookedExact, Has, ModeExact, OnlyReadAborts
<1>5. Holds(readyList', {}) /\ (~IsEmpty(readyList) => \A s \in Sems : Holds(queue[s], {}))
  BY <1>3, HeldOnce DEF MInv, ListsExact
<1>6. ListsExact'
  BY <1>3, <1>5 DEF MInv, ListsExact
<1>7. UnderWay'
  BY <1>3, <1>5 DEF MInv, UnderWay
<1>8. ASSUME SameTime' PROVE First'.item = "TimerInt"
  <2>1. PICK k \in Nat : <<"TimerInt", k>> \in booked /\ <<"DiskInt", k>> \in booked
    BY <1>2, <1>8 DEF SameTime
  <2>2. First.item = "DiskInt"
    BY <1>3, <2>1 DEF MInv, OnTime, SameTime
  <2>3. \A b \in booked : b = <<"TimerInt", k>> \/ b = <<"DiskInt", k>>
    <3>1. \A b \in booked : b[1] \in {"TimerInt", "DiskInt"}
      BY <2>1, Apart
    <3> QED BY <2>1, <3>1 DEF MInv, BookedExact
  <2> DEFINE b == <<"DiskInt", k>>
             c == <<"TimerInt", k>>
  <2>4. booked = {b, c} /\ b # c /\ b[2] = c[2] /\ First.item = b[1] /\ c[1] = "TimerInt"
    BY <2>1, <2>2, <2>3
  <2>5. b \in booked /\ c \in booked
    BY <2>1
  <2> HIDE DEF b, c
  <2> QED BY <2>4, <2>5, PutBackHolds DEF DrainDone
<1>9. OnTime'
  BY <1>2, <1>3, <1>8, NoneDue DEF DrainDone, OnTime
<1> QED BY <1>1, <1>4, <1>6, <1>7, <1>9 DEF MInv

-----------------------------------------------------------------------------
(* Semaphore::P: the main thread waits, or takes the unit.                 *)
LEMMA PKeeps ==
    ASSUME MInv, NEW s \in Sems, NEW p, NEW q, P(s, p, q), EInv',
           <<s, p>> \in {<<"disk", "transfer">>, <<"readAvail", "read">>, <<"writeDone", "written">>},
           q # "transfer", q # "written"
    PROVE  MInv'
<1>1. /\ phase = "run" /\ pc = p
      /\ UNCHANGED <<pending, readyList, console, disk, booked>>
      /\ value \in [Sems -> Nat] /\ totalTicks \in Nat
  BY DEF P, At, MInv, MachineType, EInv, ConsoleType
<1>2. BookedExact'
  BY <1>1 DEF MInv, BookedExact, Has
<1>3. CASE value[s] = 0
  <2>1. /\ queue' = [queue EXCEPT ![s] = ListAppend(@, Main)]
        /\ phase' = "idle" /\ status' = "IdleMode"
        /\ UNCHANGED <<totalTicks, value, pc>>
    BY <1>3 DEF P, thread
  <2>2. MachineType' /\ ModeExact' /\ OnlyReadAborts'
    BY <1>1, <2>1 DEF MInv, MachineType, Phases, ModeExact, OnlyReadAborts
  <2>3. /\ \A t \in Sems : Holds(queue[t], {}) /\ Holds(readyList, {})
        /\ queue = [t \in Sems |-> queue[t]]
    BY <1>1 DEF MInv, ListsExact
  <2>4. Holds(ListAppend(queue[s], Main), Queued)
    BY <2>3, AppendHolds DEF Main, Items, Queued
  <2>5. /\ queue' = [t \in Sems |-> queue'[t]] /\ Holds(queue'[s], Queued)
        /\ \A t \in Sems : t # s => Holds(queue'[t], {})
    BY <2>1, <2>3, <2>4
  <2>6. \A t \in Sems : Holds(queue'[t], Queued) => t = s
    BY <2>5, HeldOnce
  <2>7. ListsExact'
    BY <1>1, <2>1, <2>3, <2>5, <2>6 DEF ListsExact
  <2>8. UnderWay'
    BY <1>1, <2>1 DEF MInv, UnderWay
  <2>9. OnTime'
    BY <1>1, <2>1 DEF MInv, OnTime, SameTime, First
  <2> QED BY <1>2, <2>2, <2>7, <2>8, <2>9 DEF MInv
<1>4. CASE value[s] # 0
  <2>1. /\ value' = [value EXCEPT ![s] = @ - 1] /\ pc' = q
        /\ phase' = "tick" /\ totalTicks' = totalTicks + SystemTick
        /\ UNCHANGED <<queue, status>>
    BY <1>4 DEF P, Goto, Enable
  <2>2. MachineType' /\ ModeExact' /\ OnlyReadAborts' /\ ListsExact'
    BY <1>1, <2>1, TicksAssumption
       DEF MInv, MachineType, Phases, ModeExact, OnlyReadAborts, ListsExact
  <2>3. UnderWay'
    <3>1. \A t \in Sems : value'[t] = IF t = s THEN value[t] - 1 ELSE value[t]
      BY <1>1, <2>1
    <3>2. "disk" \in Sems /\ "writeDone" \in Sems
      BY DEF Sems
    <3>3. ~disk.active /\ value'["disk"] = 0
      BY <1>1, <1>4, <3>1, <3>2 DEF MInv, UnderWay
    <3>4. ~console.putBusy /\ value'["writeDone"] = 0
      BY <1>1, <1>4, <3>1, <3>2 DEF MInv, UnderWay
    <3> QED BY <1>1, <3>3, <3>4 DEF UnderWay
  <2>4. OnTime'
    BY <2>1 DEF OnTime
  <2> QED BY <1>2, <2>2, <2>3, <2>4 DEF MInv
<1> QED BY <1>3, <1>4

(* Acquire, Release, Halt and Finish *)
LEMMA MainKeeps ==
    ASSUME MInv, Acquire \/ Release \/ Halt \/ Finish
    PROVE  MInv'
<1>1. EInv'
  BY EchoStep DEF MInv, Next
<1>2. /\ phase = "run" /\ pc \in {"main", "release", "quit"}
      /\ \/ phase' = "tick" /\ totalTicks' = totalTicks + SystemTick /\ UNCHANGED status
         \/ phase' = "halted" /\ UNCHANGED <<totalTicks, status>>
         \/ phase' = "idle" /\ status' = "IdleMode" /\ UNCHANGED totalTicks
      /\ UNCHANGED <<pending, readyList, value, queue, console, disk, booked>>
  BY DEF Acquire, Release, Halt, Finish, Ticks, At, Goto, Enable, machVars
<1>3. MachineType' /\ ModeExact' /\ OnlyReadAborts'
  BY <1>2, TicksAssumption DEF MInv, MachineType, Phases, ModeExact, OnlyReadAborts
<1>4. BookedExact'
  BY <1>2 DEF MInv, BookedExact, Has
<1>5. ListsExact'
  BY <1>2 DEF MInv, ListsExact
<1>6. UnderWay'
  BY <1>2 DEF MInv, UnderWay
<1>7. OnTime'
  BY <1>2 DEF MInv, OnTime, SameTime, First
<1> QED BY <1>1, <1>3, <1>4, <1>5, <1>6, <1>7 DEF MInv

(* The kernel schedules the interrupt of a device that had none.           *)
LEMMA BookedOnce ==
    ASSUME MInv, NEW kind \in Kinds, ~Has(kind), NEW fromNow \in Nat,
           pending' = Schedule(pending, totalTicks, kind, fromNow),
           booked' = booked \union {<<kind, totalTicks + fromNow>>}
    PROVE  /\ Holds(pending', booked') /\ booked' \subseteq Kinds \X Nat
           /\ \A b, c \in booked' : b[1] = c[1] => b = c
           /\ \A k : Has(k)' <=> Has(k) \/ k = kind
           /\ <<First.item, totalTicks + fromNow>> \in booked => First'.item = First.item
<1> DEFINE t == totalTicks + fromNow
<1>1. t \in Nat /\ kind \in Items /\ Holds(pending, booked)
  BY DEF MInv, MachineType, BookedExact, Items
<1> HIDE DEF t
<1>2. <<kind, t>> \notin booked
  BY <1>1 DEF Has
<1>3. pending' = SortedInsert(pending, kind, t) /\ booked' = booked \union {<<kind, t>>}
  BY DEF Schedule, t
<1>4. /\ Holds(pending', booked')
      /\ booked # {} /\ ~(t < First.key) => First'.item = First.item
  BY <1>1, <1>2, <1>3, InsertHolds DEF First
<1>5. booked \subseteq Kinds \X Nat
  BY DEF MInv, MachineType
<1>6. booked' \subseteq Kinds \X Nat
  BY <1>1, <1>3, <1>5
<1>7. \A b \in booked : b[1] # kind
  BY <1>5 DEF Has
<1>8. \A b, c \in booked' : b[1] = c[1] => b = c
  BY <1>3, <1>7 DEF MInv, BookedExact
<1>9. \A k : Has(k)' <=> Has(k) \/ k = kind
  BY <1>1, <1>3 DEF Has
<1>10. <<First.item, t>> \in booked => First'.item = First.item
  <2>1. <<First.item, t>> \in booked => t = First.key
    BY <1>1, FirstBooked
  <2> QED BY <1>1, <1>4, <2>1, FirstBooked
<1> QED BY <1>4, <1>6, <1>8, <1>9, <1>10 DEF t

(* What no scheduling of the main thread changes *)
LEMMA StillRuns ==
    ASSUME MInv, phase = "run", UNCHANGED <<totalTicks, phase, machVars, value, queue>>,
           booked' \subseteq Kinds \X Nat, disk' \in Disks
    PROVE  MachineType' /\ ListsExact' /\ ModeExact' /\ OnlyReadAborts'
<1>1. UNCHANGED <<status, readyList>>
  BY DEF machVars
<1>2. MachineType' /\ ModeExact' /\ OnlyReadAborts'
  BY <1>1 DEF MInv, MachineType, ModeExact, OnlyReadAborts
<1>3. ListsExact'
  BY <1>1 DEF MInv, ListsExact
<1> QED BY <1>2, <1>3

(* A request finds the disk idle, and its interrupt is put behind a timer  *)
(* of the same time.                                                       *)
LEMMA RequestKeeps ==
    ASSUME MInv, NEW s \in Sectors, NEW writing, Request(s, writing), EInv'
    PROVE  MInv'
<1> DEFINE latency == ComputeLatency(s, writing)
<1>1. /\ phase = "run" /\ pc = "request" /\ ~disk.active /\ ~console.open
      /\ totalTicks \in Nat /\ UNCHANGED <<totalTicks, machVars, value, queue, console>>
  BY DEF Request, At, MInv, UnderWay, EInv, ConsoleOpened, ConsolePlaces, MachineType
<1>2. latency \in Nat \ {0} /\ UpdateLast(s) \in Disks /\ UpdateLast(s).active
  BY RequestTakesTime DEF MInv
<1>3. /\ pending' = Schedule(pending, totalTicks, "DiskInt", latency)
      /\ booked' = booked \union {<<"DiskInt", totalTicks + latency>>}
      /\ disk' = UpdateLast(s) /\ pc' = "transfer" /\ UNCHANGED phase
  BY <1>1 DEF Request, Goto
<1> HIDE DEF latency
<1>4. /\ Holds(pending', booked') /\ booked' \subseteq Kinds \X Nat
      /\ \A b, c \in booked' : b[1] = c[1] => b = c
      /\ \A k : Has(k)' <=> Has(k) \/ k = "DiskInt"
      /\ <<First.item, totalTicks + latency>> \in booked => First'.item = First.item
  <2>1. ~Has("DiskInt") /\ "DiskInt" \in Kinds
    BY <1>1 DEF MInv, BookedExact, Kinds
  <2> QED BY <1>2, <1>3, <2>1, BookedOnce
<1>5. BookedExact'
  BY <1>1, <1>2, <1>3, <1>4 DEF MInv, BookedExact
<1>6. MachineType' /\ ListsExact' /\ ModeExact' /\ OnlyReadAborts'
  BY <1>1, <1>2, <1>3, <1>4, StillRuns
<1>7. UnderWay'
  <2>1. Holds(readyList, {}) /\ value["disk"] = 0 /\ value["writeDone"] = 0 /\ ~console.putBusy
    BY <1>1 DEF MInv, UnderWay, ListsExact
  <2> QED BY <1>1, <1>3, <2>1 DEF UnderWay, machVars
<1>8. \A b \in booked' : b[2] > totalTicks'
  <2>1. \A b \in booked : b[2] > totalTicks
    BY <1>1 DEF MInv, OnTime
  <2> QED BY <1>1, <1>2, <1>3, <2>1
<1>9. ASSUME SameTime' PROVE First'.item = "TimerInt"
  <2>1. First.item = "TimerInt"
    BY <1>1, FirstBooked, Apart
  <2>2. PICK k \in Nat : <<"TimerInt", k>> \in booked' /\ <<"DiskInt", k>> \in booked'
    BY <1>9 DEF SameTime
  <2>3. k = totalTicks + latency /\ <<"TimerInt", k>> \in booked
    <3>1. <<"DiskInt", k>> \notin booked
      BY <1>1, Apart
    <3> QED BY <1>3, <2>2, <3>1
  <2> QED BY <1>4, <2>1, <2>3
<1>10. OnTime'
  BY <1>1, <1>3, <1>8, <1>9 DEF OnTime
<1> QED BY <1>5, <1>6, <1>7, <1>10 DEF MInv

(* Console::Console and Console::PutChar, at their ConsoleTime             *)
LEMMA ConsoleKeeps ==
    ASSUME MInv, NewConsole \/ Echo, EInv'
    PROVE  MInv'
<1>1. /\ phase = "run" /\ ~disk.active
      /\ totalTicks \in Nat /\ UNCHANGED <<totalTicks, machVars, value, queue, disk>>
      /\ disk \in Disks /\ value["disk"] = 0 /\ ~console.putBusy /\ value["writeDone"] = 0
  BY DEF NewConsole, Echo, At, MInv, UnderWay, MachineType
<1>2. ConsoleTime \in Nat /\ ConsoleTime > 0
  BY TicksAssumption
<1>3. ASSUME NEW kind \in {"ConsoleReadInt", "ConsoleWriteInt"}, ~Has(kind), UNCHANGED phase,
             pending' = Schedule(pending, totalTicks, kind, ConsoleTime),
             booked' = booked \union {<<kind, totalTicks + ConsoleTime>>},
             console'.open, console'.open <=> console.open \/ kind = "ConsoleReadInt",
             console'.putBusy <=> kind = "ConsoleWriteInt",
             kind = "ConsoleWriteInt" => pc' = "written"
      PROVE  MInv'
  <2>1. kind \in Kinds
    BY DEF Kinds
  <2>2. /\ Holds(pending', booked') /\ booked' \subseteq Kinds \X Nat
        /\ \A b, c \in booked' : b[1] = c[1] => b = c
        /\ \A k : Has(k)' <=> Has(k) \/ k = kind
    BY <1>2, <1>3, <2>1, BookedOnce
  <2>3. BookedExact'
    BY <1>1, <1>3, <2>2 DEF MInv, BookedExact
  <2>4. MachineType' /\ ListsExact' /\ ModeExact' /\ OnlyReadAborts'
    BY <1>1, <1>3, <2>2, StillRuns
  <2>5. UnderWay'
    BY <1>1, <1>3 DEF UnderWay
  <2>6. \A b \in booked' : b[2] > totalTicks'
    <3>1. \A b \in booked : b[2] > totalTicks
      BY <1>1 DEF MInv, OnTime
    <3> QED BY <1>1, <1>2, <1>3, <3>1
  <2>7. ~SameTime'
    BY <1>1, <1>3, <2>2 DEF SameTime, Has, MInv, BookedExact
  <2>8. OnTime'
    BY <1>1, <1>3, <2>6, <2>7 DEF OnTime
  <2> QED BY <1>3, <2>3, <2>4, <2>5, <2>8 DEF MInv
<1>4. CASE NewConsole
  <2>1. console' = [NoConsole EXCEPT !.open = TRUE, !.keyboard = input] /\ pc = "main"
    BY <1>4 DEF NewConsole, At
  <2>2. console'.open /\ ~console'.putBusy
    BY <2>1 DEF NoConsole
  <2>3. ~console.open /\ ~Has("ConsoleReadInt")
    BY <2>1 DEF MInv, EInv, ConsoleOpened, ConsolePlaces, BookedExact
  <2> QED BY <1>3, <1>4, <2>2, <2>3 DEF NewConsole
<1>5. CASE Echo
  <2>1. /\ console' = [console EXCEPT !.incoming = EOF, !.putBusy = TRUE,
                                      !.display = Append(@, console.incoming)]
        /\ pc' = "written" /\ pc = "echo" /\ console \in Consoles
    BY <1>1, <1>5 DEF Echo, At, MInv, EInv, ConsoleType
  <2>2. console'.open = console.open /\ console'.putBusy
    BY <2>1 DEF Consoles
  <2>3. console.open /\ ~Has("ConsoleWriteInt")
    BY <1>1, <2>1 DEF MInv, EInv, ConsoleOpened, ConsolePlaces, BookedExact
  <2> QED BY <1>1, <1>3, <1>5, <2>1, <2>2, <2>3 DEF Echo
<1> QED BY <1>4, <1>5

(* Every step of the machine and of the main thread keeps the invariant.   *)
LEMMA MachineStep == MInv /\ [Next]_vars => MInv'
<1> SUFFICES ASSUME MInv, [Next]_vars PROVE MInv'
  OBVIOUS
<1>1. EInv'
  BY EchoStep DEF MInv
<1>2. CASE UNCHANGED vars
  <2>1. /\ UNCHANGED <<totalTicks, pending, status, phase, readyList, value, queue, pc, console>>
        /\ UNCHANGED <<disk, booked, fromFile>>
    BY <1>2 DEF vars, machVars, thread, given
  <2>2. MachineType' /\ BookedExact' /\ ModeExact'
    BY <2>1 DEF MInv, MachineType, BookedExact, Has, ModeExact
  <2>3. ListsExact' /\ UnderWay'
    BY <2>1 DEF MInv, ListsExact, UnderWay
  <2>4. OnTime' /\ OnlyReadAborts'
    BY <2>1 DEF MInv, OnTime, SameTime, First, OnlyReadAborts, ReadAborts
  <2> QED BY <1>1, <2>2, <2>3, <2>4 DEF MInv
<1>3. CASE TickFire \/ IdleFire \/ DrainFire
  BY <1>3, FireKeeps DEF TickFire, IdleFire, DrainFire, Checks
<1>4. CASE TickDone \/ IdleHalt \/ DrainDone
  BY <1>4, TickDoneKeeps, IdleHaltKeeps, DrainDoneKeeps
<1>5. CASE Acquire \/ Release \/ Halt \/ Finish
  BY <1>5, MainKeeps
<1>6. ASSUME NEW s \in Sectors, NEW writing, Request(s, writing) PROVE MInv'
  BY <1>1, <1>6, RequestKeeps
<1>7. CASE NewConsole \/ Echo
  BY <1>1, <1>7, ConsoleKeeps
<1>8. CASE RequestDone \/ WaitChar \/ WaitWritten
  BY <1>1, <1>8, PKeeps DEF RequestDone, WaitChar, WaitWritten, Sems
<1> QED BY <1>2, <1>3, <1>4, <1>5, <1>6, <1>7, <1>8 DEF Next

(* The pending list of Interrupt (threads/list.h, machine/interrupt.cc),   *)
(* walked along its pointers, is exactly what was scheduled and has not    *)
(* fired, in its order, and nothing in it is overdue while the kernel      *)
(* runs: for any times of the devices.                                     *)
THEOREM PendingListExact == Spec => []PendingExact
<1>1. MInv => PendingExact
  <2> SUFFICES ASSUME MInv PROVE PendingExact
    OBVIOUS
  <2>1. Holds(pending, booked)
    BY DEF MInv, BookedExact
  <2>2. phase = "run" => \A b \in booked : b[2] > totalTicks
    BY DEF MInv, OnTime
  <2> QED BY <2>1, <2>2, HeldExactly DEF PendingExact
<1> QED BY <1>1, MachineInit, MachineStep, PTL DEF Spec

(* No ASSERT of Console::PutChar or Disk::ReadRequest fails: only Read, at *)
(* the end of the file that is typed, aborts the machine.                  *)
THEOREM NoDeviceAborts == Spec => []OnlyReadAborts
<1>1. MInv => OnlyReadAborts
  BY DEF MInv
<1> QED BY <1>1, MachineInit, MachineStep, PTL DEF Spec

-----------------------------------------------------------------------------
(* A sector begins to pass under the head. *)
Multiple(n) == \E b \in Nat : n = RotationTime * b

(* The request that is under way is right, and so is the track buffer.     *)
HInv ==
    /\ MInv /\ SectorUnderHead
    /\ Multiple(disk.bufferInit)
    /\ disk.bufferInit <= IF disk.active THEN request.when ELSE totalTicks
    /\ disk.active => request.when \in Nat /\ <<"DiskInt", request.when>> \in booked

(* ComputeLatency and UpdateLast: what SectorUnderHead says of the request *)
LEMMA RequestRight ==
    ASSUME MachineType, Multiple(disk.bufferInit), disk.bufferInit <= totalTicks,
           NEW s \in Sectors, NEW writing \in BOOLEAN,
           NEW when, when = totalTicks + ComputeLatency(s, writing),
           NEW arrives, arrives = totalTicks + Tracks(s, disk.lastSector) * SeekTime,
           NEW from, from = UpdateLast(s).bufferInit
    PROVE  /\ Multiple(from) /\ when \in Nat /\ from <= when
           /\ when <= arrives + (SectorsPerTrack + 1) * RotationTime
           /\ Passed(s, from, when)
           /\ writing => /\ when % RotationTime = 0 /\ Passed(s, arrives, when)
                         /\ ~Passed(s, arrives, when - 1)
<1> DEFINE R == RotationTime
           t == TimeToSeek(s)
           after == totalTicks + t.seek + t.rotation
<1>1. R \in Nat \ {0} /\ SeekTime \in Nat \ {0} /\ SectorsPerTrack \in Nat \ {0}
  BY TicksAssumption, GeometryAssumption
<1>2. /\ s \in Nat /\ totalTicks \in Nat /\ disk \in Disks /\ disk.lastSector \in Nat
      /\ disk.bufferInit \in Nat
  BY GeometryAssumption DEF Sectors, MachineType, Disks
<1>3. Tracks(s, disk.lastSector) \in Nat
  <2>1. \A n \in Nat : n \div SectorsPerTrack \in Nat
    BY <1>1, Divided
  <2>2. \A a, b \in Nat : (IF a - b < 0 THEN -(a - b) ELSE a - b) \in Nat
    OBVIOUS
  <2> QED BY <1>2, <2>1, <2>2 DEF Tracks
<1>4. t.seek \in Nat /\ arrives = totalTicks + t.seek /\ arrives \in Nat
  BY <1>1, <1>2, <1>3 DEF TimeToSeek
<1>5. PICK m \in Nat : /\ arrives + t.rotation = R * m
                       /\ arrives <= R * m /\ R * m < arrives + R /\ m <= (arrives \div R) + 1
  <2>1. t.rotation = IF arrives % R > 0 THEN R - (arrives % R) ELSE 0
    BY <1>4 DEF TimeToSeek
  <2> QED BY <1>1, <1>4, <2>1, RoundedUp
<1>6. after = R * m /\ R * m \in Nat
  BY <1>1, <1>4, <1>5, Product
<1>7. from = IF t.seek = 0 THEN disk.bufferInit ELSE R * m
  <2>1. from = IF t.seek = 0 THEN disk.bufferInit ELSE after
    BY <1>2 DEF UpdateLast, Disks
  <2> HIDE DEF t, after
  <2> QED BY <1>6, <2>1
<1>8. ComputeLatency(s, writing) =
         IF ~writing /\ t.seek = 0 /\ InTrackBuffer(s, R * m) THEN R
         ELSE t.seek + t.rotation + ModuloDiff(s, (R * m) \div R) * R + R
  <2>1. ComputeLatency(s, writing) =
           IF ~writing /\ t.seek = 0 /\ InTrackBuffer(s, after) THEN R
           ELSE t.seek + t.rotation + ModuloDiff(s, after \div R) * R + R
    BY DEF ComputeLatency
  <2> HIDE DEF t, after
  <2> QED BY <1>6, <2>1
<1>9. t.rotation \in Nat
  <2>1. t.rotation = (R * m) - arrives
    <3>1. t.rotation = IF arrives % R > 0 THEN R - (arrives % R) ELSE 0
      BY <1>4 DEF TimeToSeek
    <3>2. arrives % R \in 0 .. R - 1
      BY <1>1, <1>4, Divided
    <3> HIDE DEF t
    <3> QED BY <1>1, <1>4, <1>5, <1>6, <3>1, <3>2
  <2> QED BY <1>4, <1>5, <1>6, <2>1
<1> HIDE DEF t, after, R
<1>10. from \in Nat /\ from <= R * m /\ Multiple(from)
  <2>1. R * m = RotationTime * m
    BY DEF R
  <2>2. Multiple(R * m)
    BY <2>1 DEF Multiple
  <2> QED BY <1>2, <1>4, <1>5, <1>6, <1>7, <2>2
<1>11. CASE ~writing /\ t.seek = 0 /\ InTrackBuffer(s, R * m)
  <2>1. when = totalTicks + R /\ arrives = totalTicks /\ from = disk.bufferInit
    BY <1>2, <1>4, <1>7, <1>8, <1>11
  <2>2. PICK b \in Nat : from = R * b
    BY <2>1 DEF Multiple, R
  <2>3. from \div R = b
    <3>1. from = (R * b) + 0 /\ 0 \in 0 .. R - 1
      BY <1>1, <1>10, <2>2
    <3> QED BY <1>1, <1>10, <3>1, Quotient
  <2>4. ((R * m) - from) \div R > ModuloDiff(s, b)
    BY <1>11, <2>1, <2>3 DEF InTrackBuffer, R
  <2>5. /\ totalTicks + R <= totalTicks + (SectorsPerTrack + 1) * R
        /\ Passed(s, from, totalTicks + R)
    <3>1. /\ RotationTime * b <= totalTicks /\ totalTicks <= RotationTime * m
          /\ m <= (totalTicks \div RotationTime) + 1
          /\ ((RotationTime * m) - (RotationTime * b)) \div RotationTime > ModuloDiff(s, b)
      BY <1>5, <2>1, <2>2, <2>4 DEF R
    <3> QED BY <1>2, <2>2, <3>1, FromBuffer DEF R
  <2>6. when \in Nat /\ from <= when
    BY <1>1, <1>2, <1>10, <2>1
  <2> QED BY <1>10, <1>11, <2>1, <2>5, <2>6 DEF R
<1>12. CASE ~(~writing /\ t.seek = 0 /\ InTrackBuffer(s, R * m))
  <2>1. (R * m) \div R = m
    <3> DEFINE x == R * m
    <3>1. x \in Nat /\ x = (R * m) + 0 /\ 0 \in 0 .. R - 1
      BY <1>1, <1>6
    <3> HIDE DEF x
    <3>2. x \div R = m
      BY <1>1, <3>1, Quotient
    <3> QED BY <3>2 DEF x
  <2> DEFINE turn == ModuloDiff(s, m) * R
  <2>2. turn \in Nat
    <3> DEFINE d == ModuloDiff(s, m)
    <3>1. d \in Nat
      BY <1>1, <1>2, <1>5, ModuloDiffRight
    <3> HIDE DEF d
    <3>2. d * R \in Nat
      BY <1>1, <3>1
    <3> QED BY <3>2 DEF d
  <2>3. when = totalTicks + (t.seek + t.rotation + turn + R)
    BY <1>8, <1>12, <2>1
  <2>4. when = (R * m) + turn + R
    <3> DEFINE a == t.seek
               b == t.rotation
               c == R * m
    <3>1. /\ a \in Nat /\ b \in Nat /\ c \in Nat /\ arrives = totalTicks + a /\ arrives + b = c
          /\ when = totalTicks + (a + b + turn + R)
      BY <1>4, <1>5, <1>6, <1>9, <2>3
    <3> HIDE DEF turn, a, b, c
    <3>2. when = c + turn + R
      BY <1>1, <1>2, <2>2, <3>1
    <3> QED BY <3>2 DEF c
  <2>5. /\ when \in Nat /\ when <= arrives + (SectorsPerTrack + 1) * RotationTime
        /\ RotationTime * m <= when
        /\ \A f \in Nat : f <= RotationTime * m => Passed(s, f, when)
        /\ when % RotationTime = 0 /\ ~Passed(s, arrives, when - 1)
    <3>1. /\ arrives <= RotationTime * m /\ RotationTime * m < arrives + RotationTime
          /\ when = (RotationTime * m) + ModuloDiff(s, m) * RotationTime + RotationTime
      BY <1>5, <2>4 DEF R
    <3> QED BY <1>2, <1>4, <3>1, FullTurn
  <2>6. from <= when /\ Passed(s, from, when) /\ Passed(s, arrives, when)
    BY <1>4, <1>5, <1>6, <1>10, <2>5 DEF R
  <2> QED BY <1>10, <2>5, <2>6
<1> QED BY <1>11, <1>12

(* Time does not go back. *)
LEMMA ClockForward ==
    ASSUME MInv, [Next]_vars
    PROVE  totalTicks \in Nat /\ totalTicks' \in Nat /\ totalTicks <= totalTicks'
<1>1. totalTicks \in Nat /\ SystemTick \in Nat
  BY TicksAssumption DEF MInv, MachineType
<1>2. CASE TickFire \/ IdleFire \/ DrainFire
  <2>1. \/ Checks(FALSE, "tick") /\ Fire(FALSE, "tick")
        \/ Checks(TRUE, "drain") /\ Fire(TRUE, "drain")
        \/ Checks(FALSE, "drain") /\ Fire(FALSE, "drain")
    BY <1>2 DEF TickFire, IdleFire, DrainFire, Checks
  <2>2. totalTicks' \in Nat /\ (phase # "idle" => totalTicks' = totalTicks)
        /\ (phase = "idle" => totalTicks' = First.key)
    BY <2>1, ClockGoesOn
  <2>3. phase = "idle" => First.key > totalTicks
    BY FirstBooked DEF MInv, OnTime
  <2> QED BY <1>1, <2>2, <2>3
<1>3. CASE UNCHANGED totalTicks \/ totalTicks' = totalTicks + SystemTick
  BY <1>1, <1>3
<1>4. CASE IdleHalt
  BY <1>1, <1>4, IdleHaltClock
<1> QED BY <1>2, <1>3, <1>4
        DEF Next, vars, TickDone, DrainDone, Acquire, RequestDone, Release, Request, NewConsole,
            WaitChar, Echo, WaitWritten, Halt, Finish, Ticks, P, Enable

(* Only a request and its end change the disk, and only its end takes its  *)
(* interrupt off the list.                                                 *)
LEMMA DiskFrame ==
    ASSUME MInv, [Next]_vars
    PROVE  \/ /\ UNCHANGED <<disk, request>>
              /\ \A k \in Nat : <<"DiskInt", k>> \in booked => <<"DiskInt", k>> \in booked'
           \/ /\ disk.active /\ disk' = [disk EXCEPT !.active = FALSE]
              /\ \A k \in Nat : <<"DiskInt", k>> \in booked => k <= totalTicks'
           \/ \E s \in Sectors, writing \in BOOLEAN : Request(s, writing) /\ ~disk.active
<1>1. ASSUME NEW advanceClock, NEW then, Checks(advanceClock, then), Fire(advanceClock, then)
      PROVE  \/ /\ UNCHANGED <<disk, request>>
                /\ \A k \in Nat : <<"DiskInt", k>> \in booked => <<"DiskInt", k>> \in booked'
             \/ /\ disk.active /\ disk' = [disk EXCEPT !.active = FALSE]
                /\ \A k \in Nat : <<"DiskInt", k>> \in booked => k <= totalTicks'
  <2>1. UNCHANGED request
    BY <1>1 DEF Fire
  <2>2. CASE UNCHANGED <<disk, booked>>
    BY <2>1, <2>2
  <2>3. CASE First.item = "DiskInt" /\ HandleInterrupt(SortedRemove(pending))
    <3>1. disk.active /\ disk' = [disk EXCEPT !.active = FALSE]
      BY <2>3, FirstBooked, Apart DEF HandleInterrupt
    <3>2. \A k \in Nat : <<"DiskInt", k>> \in booked => k = First.key
      BY <2>3, FirstBooked
    <3>3. First.key <= totalTicks'
      BY <1>1 DEF Fire, Due
    <3> QED BY <3>1, <3>2, <3>3
  <2>4. ASSUME First.item # "DiskInt", UNCHANGED disk,
               booked' = Fired(First.item) \/ \E b : booked' = Fired(First.item) \union {b}
        PROVE  /\ UNCHANGED <<disk, request>>
               /\ \A k \in Nat : <<"DiskInt", k>> \in booked => <<"DiskInt", k>> \in booked'
    BY <2>1, <2>4 DEF Fired
  <2>5. CASE First.item = "TimerInt" /\ TimerExpired(SortedRemove(pending), Now(advanceClock))
    BY <2>4, <2>5 DEF TimerExpired, Again
  <2>6. CASE First.item = "ConsoleWriteInt" /\ WriteDone(SortedRemove(pending))
    BY <2>4, <2>6 DEF WriteDone, Over
  <2>7. CASE First.item = "ConsoleReadInt" /\ CheckCharAvail(SortedRemove(pending), Now(advanceClock))
    BY <2>4, <2>7 DEF CheckCharAvail, Again
  <2> QED BY <1>1, <2>2, <2>3, <2>5, <2>6, <2>7 DEF Fire
<1>2. CASE TickFire \/ IdleFire \/ DrainFire
  BY <1>1, <1>2 DEF TickFire, IdleFire, DrainFire, Checks
<1>3. CASE UNCHANGED <<disk, request>> /\ booked \subseteq booked'
  BY <1>3
<1>4. ASSUME NEW s \in Sectors, NEW writing \in BOOLEAN, Request(s, writing)
      PROVE  ~disk.active
  BY <1>4 DEF MInv, UnderWay, Request, At
<1> QED BY <1>2, <1>3, <1>4
        DEF Next, vars, TickDone, IdleHalt, DrainDone, PutBack, Acquire, RequestDone, Release, NewConsole,
            WaitChar, Echo, WaitWritten, Halt, Finish, Ticks, P

(* Every step keeps the request that is under way right. *)
LEMMA HeadStep == HInv /\ [Next]_vars => HInv'
<1> SUFFICES ASSUME HInv, [Next]_vars PROVE HInv'
  OBVIOUS
<1>1. MInv /\ MInv'
  BY MachineStep DEF HInv
<1>2. /\ totalTicks \in Nat /\ totalTicks' \in Nat /\ totalTicks <= totalTicks'
      /\ disk \in Disks /\ disk.bufferInit \in Nat
  BY <1>1, ClockForward DEF MInv, MachineType, Disks
<1>3. CASE /\ UNCHANGED <<disk, request>>
           /\ \A k \in Nat : <<"DiskInt", k>> \in booked => <<"DiskInt", k>> \in booked'
  <2>1. SectorUnderHead' /\ Multiple(disk.bufferInit)'
    BY <1>3 DEF HInv, SectorUnderHead, Multiple
  <2>2. disk'.bufferInit <= IF disk'.active THEN request'.when ELSE totalTicks'
    BY <1>2, <1>3 DEF HInv
  <2> QED BY <1>1, <1>3, <2>1, <2>2 DEF HInv
<1>4. CASE /\ disk.active /\ disk' = [disk EXCEPT !.active = FALSE]
           /\ \A k \in Nat : <<"DiskInt", k>> \in booked => k <= totalTicks'
  <2>1. disk'.active = FALSE /\ disk'.bufferInit = disk.bufferInit
    BY <1>2, <1>4 DEF Disks
  <2>2. SectorUnderHead' /\ Multiple(disk.bufferInit)'
    BY <2>1 DEF HInv, SectorUnderHead, Multiple
  <2>3. disk.bufferInit <= request.when /\ request.when <= totalTicks' /\ request.when \in Nat
    BY <1>4 DEF HInv
  <2>4. disk'.bufferInit <= totalTicks'
    BY <1>2, <2>1, <2>3
  <2> QED BY <1>1, <2>1, <2>2, <2>4 DEF HInv
<1>5. ASSUME NEW s \in Sectors, NEW writing \in BOOLEAN, Request(s, writing), ~disk.active
      PROVE  HInv'
  <2> DEFINE when == totalTicks + ComputeLatency(s, writing)
             tracks == Tracks(s, disk.lastSector)
             arrives == totalTicks + tracks * SeekTime
             from == UpdateLast(s).bufferInit
  <2>1. /\ disk' = UpdateLast(s) /\ UNCHANGED totalTicks
        /\ request' = [n |-> request.n + 1, sector |-> s, writing |-> writing, made |-> totalTicks,
                       tracks |-> tracks, when |-> when]
        /\ <<"DiskInt", when>> \in booked'
    BY <1>5 DEF Request
  <2>2. disk'.active
    BY <1>1, <2>1, RequestTakesTime DEF MInv
  <2>3. /\ Multiple(from) /\ when \in Nat /\ from <= when
        /\ when <= arrives + (SectorsPerTrack + 1) * RotationTime
        /\ Passed(s, from, when)
        /\ writing => /\ when % RotationTime = 0 /\ Passed(s, arrives, when)
                      /\ ~Passed(s, arrives, when - 1)
    <3>1. MachineType /\ Multiple(disk.bufferInit) /\ disk.bufferInit <= totalTicks
      BY <1>1, <1>5 DEF HInv, MInv
    <3> QED BY <3>1, RequestRight
  <2> HIDE DEF when, tracks, from
  <2>4. disk'.bufferInit = from
    BY <2>1 DEF from
  <2>5. /\ request'.sector = s /\ request'.writing = writing /\ request'.made = totalTicks
        /\ request'.tracks = tracks /\ request'.when = when
    BY <2>1
  <2>6. SectorUnderHead'
    BY <2>3, <2>4, <2>5 DEF SectorUnderHead, Passed
  <2>7. Multiple(disk.bufferInit)'
    BY <2>3, <2>4 DEF Multiple
  <2> QED BY <1>1, <2>1, <2>2, <2>3, <2>4, <2>5, <2>6, <2>7 DEF HInv
<1> QED BY <1>1, <1>3, <1>4, <1>5, DiskFrame

(* A request completes when its sector has been under the head (Disk::     *)
(* ComputeLatency, TimeToSeek and UpdateLast in machine/disk.cc), for a    *)
(* disk of any size and any times.                                         *)
THEOREM DiskTurns == Spec => []SectorUnderHead
<1>1. Init => HInv
  <2> SUFFICES ASSUME Init PROVE HInv
    OBVIOUS
  <2>1. ~disk.active /\ disk.bufferInit = 0 /\ totalTicks \in Nat
    BY TicksAssumption DEF Init
  <2>2. Multiple(0)
    <3>1. 0 = RotationTime * 0 /\ 0 \in Nat
      BY TicksAssumption
    <3> QED BY <3>1 DEF Multiple
  <2> QED BY <2>1, <2>2, MachineInit DEF HInv, SectorUnderHead
<1>2. HInv => SectorUnderHead
  BY DEF HInv
<1> QED BY <1>1, <1>2, HeadStep, PTL DEF Spec
=============================================================================
