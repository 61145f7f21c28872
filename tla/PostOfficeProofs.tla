-------------------------- MODULE PostOfficeProofs --------------------------
(***************************************************************************)
(* Proofs about the post offices, for any machines, mailboxes and programs *)
(* of their threads, whether the network loses packets or not: a machine   *)
(* sends one packet at a time, mail is neither lost nor doubled nor        *)
(* overtaken between the wire and the threads that receive it, and the two *)
(* machines that run MailTest do not leave each other alone.               *)
(***************************************************************************)
EXTENDS PostOffice, TLAPS

Mail == [to : Machines \union {0}, from : Machines \union {0}, box : Boxes, reply : Boxes]
Statuses == {"off", "up", "halted", "ASSERT sendto"}
ClientPlaces == {"call", "sendLock", "send", "messageSent", "sent",
                 "getLock", "look", "waiting", "got", "halted"}
WorkerPlaces == {"messageAvailable", "receive", "putLock", "put", "putRelease"}

TypeOK ==
    /\ program \in Scenarios
    /\ status \in [Machines -> Statuses]
    /\ inbox \in [Machines -> Seq(Mail)] /\ sendDue \in [Machines -> Nat]
    /\ socket \in [Machines -> Seq(Mail)] /\ accepted \in [Machines -> Seq(Mail)]
    /\ list \in [Machines \X Boxes -> Seq(Mail)] /\ taken \in [Machines \X Boxes -> Seq(Mail)]
    /\ value \in [Semaphores -> Nat]
    /\ mail \in [Threads -> Mail]
    /\ at \in [Clients -> Nat]
    /\ pc \in [Threads -> ClientPlaces \union WorkerPlaces]

(* A client is in a call of its program, the worker in PostalDelivery. *)
InPlace ==
    /\ \A c \in Clients : /\ pc[c] \in ClientPlaces
                          /\ pc[c] # "call" => at[c] \in DOMAIN program[c]
    /\ \A m \in Machines : pc[Worker(m)] \in WorkerPlaces

(* Between the P and the V of sendLock one thread of a machine at a time.  *)
(* It starts a packet, and there is then either an interrupt to come or a  *)
(* unit in messageSent, until it goes on.                                  *)
SendExact(m) ==
    /\ \A c, d \in Clients : c[1] = m /\ d[1] = m /\ Sending(c) /\ Sending(d) => c = d
    /\ \A c \in Clients : c[1] = m /\ Sending(c) => value[sendLock(m)] = 0
    /\ value[sendLock(m)] <= 1
    /\ sendDue[m] + value[messageSent(m)] = IF AwaitsInterrupt(m) THEN 1 ELSE 0

(* While a packet is buffered there is a unit in messageAvailable, or the  *)
(* worker has taken it and comes for the packet; otherwise neither.        *)
InboxExact(m) ==
    /\ Len(inbox[m]) <= 1
    /\ inbox[m] = <<>> =>
         value[messageAvailable(m)] = 0 /\ pc[Worker(m)] # "receive"
    /\ inbox[m] # <<>> =>
         value[messageAvailable(m)] = IF pc[Worker(m)] = "receive" THEN 0 ELSE 1

Exact == \A m \in Machines : SendExact(m) /\ InboxExact(m)

(* The inductive invariant. *)
OInv == TypeOK /\ InPlace /\ Exact /\ MailInOrder

-----------------------------------------------------------------------------
(* The threads of a machine are its clients and its worker. *)
LEMMA ThreadKinds ==
    /\ \A t \in Threads : t[1] \in Machines /\ (t \in Clients \/ t = Worker(t[1]))
    /\ \A c \in Clients : c \in Threads /\ c[1] \in Machines
    /\ \A m \in Machines : /\ Worker(m) \in Threads /\ Worker(m) \notin Clients
                           /\ Worker(m)[1] = m
  BY KAssumption DEF Threads, Clients, Worker

(* No two semaphores of the post offices are the same. *)
LEMMA SemaphoresApart ==
    \A m \in Machines, b \in Boxes :
        /\ {sendLock(m), messageSent(m), messageAvailable(m), listLock(m, b)} \subseteq Semaphores
        /\ \A n \in Machines :
             /\ sendLock(m) \notin {messageSent(n), messageAvailable(n), listLock(n, b)}
             /\ messageSent(m) \notin {messageAvailable(n), listLock(n, b)}
             /\ messageAvailable(m) # listLock(n, b)
             /\ m # n => /\ sendLock(m) # sendLock(n) /\ messageSent(m) # messageSent(n)
                         /\ messageAvailable(m) # messageAvailable(n)
  BY DEF Semaphores, Locks, sendLock, messageSent, messageAvailable, listLock

(* The call that a client is in, and the mail it makes. *)
LEMMA CallType ==
    ASSUME TypeOK, NEW c \in Clients, at[c] \in DOMAIN program[c]
    PROVE  program[c][at[c]] \in Calls /\ program[c][at[c]].box \in Boxes
<1>1. program[c] \in Seq(Calls)
  BY ProgramsAssumption DEF TypeOK
<1>2. program[c][at[c]] \in Calls
  BY <1>1
<1> QED BY <1>2 DEF Calls

(* A thread that is in a place of clients is a client. *)
LEMMA WhoIsWhere ==
    ASSUME InPlace, NEW t \in Threads
    PROVE  /\ pc[t] \in ClientPlaces => t \in Clients
           /\ pc[t] \in WorkerPlaces => t = Worker(t[1]) /\ t \notin Clients
<1>1. \A p \in ClientPlaces : p \notin WorkerPlaces
  BY DEF ClientPlaces, WorkerPlaces
<1> QED BY <1>1, ThreadKinds DEF InPlace

(* What a thread does when it gets through a semaphore. *)
LEMMA EnterEffect ==
    ASSUME TypeOK, InPlace, NEW t \in Threads, Enter(t), NEW m, m = t[1]
    PROVE  /\ m \in Machines
           /\ UNCHANGED <<hist, status, inbox, sendDue, socket, list, at, mail>>
           /\ \E s \in Semaphores, p \in ClientPlaces \union WorkerPlaces :
                /\ value[s] > 0 /\ value' = [value EXCEPT ![s] = @ - 1]
                /\ pc' = [pc EXCEPT ![t] = p]
                /\ \/ t = Worker(m) /\ pc[t] = "messageAvailable" /\ p = "receive" /\ s = messageAvailable(m)
                   \/ t = Worker(m) /\ pc[t] = "putLock" /\ p = "put" /\ \E b \in Boxes : s = listLock(m, b)
                   \/ t \in Clients /\ pc[t] = "messageSent" /\ p = "sent" /\ s = messageSent(m)
                   \/ t \in Clients /\ pc[t] = "sendLock" /\ p = "send" /\ s = sendLock(m)
                   \/ t \in Clients /\ pc[t] = "getLock" /\ p = "look" /\ \E b \in Boxes : s = listLock(m, b)
<1> DEFINE s == Gate(t)
           p == Inside[pc[t]]
<1>1. /\ value[s] > 0 /\ value' = [value EXCEPT ![s] = @ - 1]
      /\ pc' = [pc EXCEPT ![t] = p] /\ m \in Machines
      /\ UNCHANGED <<hist, status, inbox, sendDue, socket, list, at, mail>>
  BY ThreadKinds DEF Enter, Pass
<1>2. pc[t] \in {"messageAvailable", "messageSent", "sendLock", "getLock", "putLock"}
  BY DEF Enter, Inside
<1>3. CASE pc[t] = "messageAvailable"
  <2>1. s = messageAvailable(m) /\ p = "receive" /\ t = Worker(m)
    BY <1>3, WhoIsWhere DEF Gate, Inside, WorkerPlaces
  <2> QED BY <1>1, <1>3, <2>1, SemaphoresApart, BoxesAssumption DEF WorkerPlaces
<1>4. CASE pc[t] = "messageSent"
  <2>1. s = messageSent(m) /\ p = "sent" /\ t \in Clients
    BY <1>4, WhoIsWhere DEF Gate, Inside, ClientPlaces
  <2> QED BY <1>1, <1>4, <2>1, SemaphoresApart, BoxesAssumption DEF ClientPlaces
<1>5. CASE pc[t] = "sendLock"
  <2>1. s = sendLock(m) /\ p = "send" /\ t \in Clients
    BY <1>5, WhoIsWhere DEF Gate, Inside, ClientPlaces
  <2> QED BY <1>1, <1>5, <2>1, SemaphoresApart, BoxesAssumption DEF ClientPlaces
<1>6. CASE pc[t] = "getLock"
  <2>1. /\ s = listLock(m, program[t][at[t]].box) /\ p = "look" /\ t \in Clients
        /\ at[t] \in DOMAIN program[t]
    BY <1>6, WhoIsWhere DEF Gate, Inside, ClientPlaces, InPlace
  <2>2. program[t][at[t]].box \in Boxes
    BY <2>1, CallType
  <2> QED BY <1>1, <1>6, <2>1, <2>2, SemaphoresApart DEF ClientPlaces
<1>7. CASE pc[t] = "putLock"
  <2>1. s = listLock(m, mail[t].box) /\ p = "put" /\ t = Worker(m)
    BY <1>7, WhoIsWhere DEF Gate, Inside, WorkerPlaces
  <2>2. mail[t].box \in Boxes
    BY DEF TypeOK, Mail
  <2> QED BY <1>1, <1>7, <2>1, <2>2, SemaphoresApart DEF WorkerPlaces
<1> QED BY <1>2, <1>3, <1>4, <1>5, <1>6, <1>7

(* Nothing is the mail of no packets. *)
LEMMA NoMailYet == ASSUME NEW b PROVE IsMailFor(b, <<>>, 0, <<>>)
<1>1. [i \in DOMAIN <<>> |-> 0] \in [DOMAIN <<>> -> 1 .. 0] /\ 1 .. 0 = {} /\ DOMAIN <<>> = {}
  OBVIOUS
<1> QED BY <1>1 DEF IsMailFor

(* Appending to the packets changes nothing about the first of them. *)
LEMMA LaterPackets ==
    ASSUME NEW b, NEW q \in Seq(Mail), NEW x \in Mail, NEW n \in 0 .. Len(q), NEW s,
           IsMailFor(b, q, n, s)
    PROVE  IsMailFor(b, Append(q, x), n, s)
<1>1. \A k \in 1 .. n : Append(q, x)[k] = q[k]
  OBVIOUS
<1> QED BY <1>1 DEF IsMailFor

(* A packet for another box adds nothing to the mail of a box. *)
LEMMA OtherMail ==
    ASSUME NEW b, NEW q, NEW n \in Nat, NEW s, IsMailFor(b, q, n, s), q[n + 1].box # b
    PROVE  IsMailFor(b, q, n + 1, s)
<1>1. PICK f \in [DOMAIN s -> 1 .. n] :
         /\ \A i, j \in DOMAIN s : i < j => f[i] < f[j]
         /\ \A k \in 1 .. n : q[k].box = b <=> \E i \in DOMAIN s : f[i] = k
         /\ \A i \in DOMAIN s : s[i] = q[f[i]]
  BY DEF IsMailFor
<1>2. f \in [DOMAIN s -> 1 .. n + 1] /\ \A i \in DOMAIN s : f[i] # n + 1
  OBVIOUS
<1>3. \A k \in 1 .. n + 1 : k \in 1 .. n \/ k = n + 1
  OBVIOUS
<1> QED BY <1>1, <1>2, <1>3 DEF IsMailFor

(* The next packet for a box is the last of the mail of the box. *)
LEMMA NextMail ==
    ASSUME NEW b, NEW q \in Seq(Mail), NEW n \in Nat, n < Len(q), NEW s \in Seq(Mail),
           IsMailFor(b, q, n, s), q[n + 1].box = b
    PROVE  IsMailFor(b, q, n + 1, Append(s, q[n + 1]))
<1> DEFINE r == Append(s, q[n + 1])
<1>1. PICK f \in [DOMAIN s -> 1 .. n] :
         /\ \A i, j \in DOMAIN s : i < j => f[i] < f[j]
         /\ \A k \in 1 .. n : q[k].box = b <=> \E i \in DOMAIN s : f[i] = k
         /\ \A i \in DOMAIN s : s[i] = q[f[i]]
  BY DEF IsMailFor
<1>2. /\ Len(s) \in Nat /\ DOMAIN s = 1 .. Len(s) /\ DOMAIN r = 1 .. Len(s) + 1
      /\ r[Len(s) + 1] = q[n + 1] /\ \A i \in DOMAIN s : r[i] = s[i]
  OBVIOUS
<1> DEFINE g == [i \in DOMAIN r |-> IF i = Len(s) + 1 THEN n + 1 ELSE f[i]]
<1> HIDE DEF r
<1>3. /\ \A i \in DOMAIN r : i \in DOMAIN s \/ i = Len(s) + 1
      /\ \A i \in DOMAIN s : i \in DOMAIN r /\ i < Len(s) + 1
      /\ Len(s) + 1 \in DOMAIN r
  BY <1>2
<1>4. /\ \A i \in DOMAIN s : g[i] = f[i] /\ f[i] \in 1 .. n
      /\ g[Len(s) + 1] = n + 1 /\ DOMAIN g = DOMAIN r
  BY <1>2, <1>3
<1>5. g \in [DOMAIN r -> 1 .. n + 1]
  BY <1>3, <1>4
<1> HIDE DEF g
<1>6. \A i, j \in DOMAIN r : i < j => g[i] < g[j]
  <2> TAKE i, j \in DOMAIN r
  <2> HAVE i < j
  <2>1. i \in DOMAIN s
    BY <1>2
  <2>2. CASE j \in DOMAIN s
    BY <1>1, <1>4, <2>1, <2>2
  <2>3. CASE j = Len(s) + 1
    BY <1>4, <2>1, <2>3
  <2> QED BY <1>3, <2>2, <2>3
<1>7. \A k \in 1 .. n + 1 : q[k].box = b <=> \E i \in DOMAIN r : g[i] = k
  <2> TAKE k \in 1 .. n + 1
  <2>1. CASE k = n + 1
    BY <1>3, <1>4, <2>1
  <2>2. CASE k \in 1 .. n
    <3>1. \A i \in DOMAIN r : g[i] = k <=> i \in DOMAIN s /\ f[i] = k
      BY <1>2, <1>3, <1>4, <2>2
    <3> QED BY <1>1, <1>3, <2>2, <3>1
  <2> QED BY <2>1, <2>2
<1>8. \A i \in DOMAIN r : r[i] = q[g[i]]
  BY <1>1, <1>2, <1>3, <1>4
<1>9. IsMailFor(b, q, n + 1, r)
  BY <1>5, <1>6, <1>7, <1>8 DEF IsMailFor
<1> QED BY <1>9 DEF r

(* Semaphore::V keeps the semaphores well formed. *)
LEMMA ReleaseEffect ==
    ASSUME TypeOK, NEW l \in Semaphores, V(l)
    PROVE  /\ value' = [value EXCEPT ![l] = value[l] + 1]
           /\ value' \in [Semaphores -> Nat]
  BY DEF TypeOK, V

-----------------------------------------------------------------------------
(* Before the machines are started all is empty. *)
LEMMA InitHolds == Init => OInv
<1> SUFFICES ASSUME Init PROVE OInv
  OBVIOUS
<1>1. /\ pc \in [Threads -> ClientPlaces \union WorkerPlaces]
      /\ \A c \in Clients : pc[c] = "call"
      /\ \A m \in Machines : pc[Worker(m)] = "messageAvailable"
  BY KAssumption DEF Init, ClientPlaces, WorkerPlaces, Threads, Clients, Worker
<1>2. NoMail \in Mail
  BY BoxesAssumption DEF NoMail, Mail
<1>3. TypeOK
  BY <1>1, <1>2 DEF Init, TypeOK, Statuses
<1>4. InPlace
  BY <1>1 DEF Init, InPlace, ClientPlaces, WorkerPlaces
<1>5. ASSUME NEW m \in Machines PROVE SendExact(m) /\ InboxExact(m)
  <2>1. /\ value[sendLock(m)] \in {0, 1} /\ value[messageSent(m)] = 0
        /\ value[messageAvailable(m)] = 0
    BY SemaphoresApart, BoxesAssumption DEF Init, Locks
  <2>2. inbox[m] = <<>> /\ sendDue[m] = 0
    BY DEF Init
  <2> QED BY <1>1, <2>1, <2>2 DEF SendExact, Sending, AwaitsInterrupt, InboxExact
<1>6. ASSUME NEW m \in Machines
      PROVE  Way(m) = <<>> /\ accepted[m] = <<>> /\ Delivered(m) = 0
  <2>1. InHand(m) = <<>> /\ inbox[m] = <<>> /\ socket[m] = <<>> /\ accepted[m] = <<>>
    BY <1>1 DEF Init, InHand
  <2>2. Way(m) = <<>>
    BY <2>1 DEF Way
  <2> QED BY <2>1, <2>2 DEF Delivered
<1>7. ASSUME NEW m \in Machines, NEW b \in Boxes
      PROVE  IsMailFor(b, accepted[m], 0, taken[<<m, b>>] \o list[<<m, b>>])
  <2>1. taken[<<m, b>>] = <<>> /\ list[<<m, b>>] = <<>>
    BY DEF Init
  <2>2. taken[<<m, b>>] \o list[<<m, b>>] = <<>>
    BY <2>1
  <2>3. IsMailFor(b, <<>>, 0, <<>>)
    BY NoMailYet
  <2> QED BY <1>6, <2>2, <2>3
<1>8. MailInOrder
  BY <1>6, <1>7 DEF MailInOrder
<1> QED BY <1>3, <1>4, <1>5, <1>8 DEF OInv, Exact

-----------------------------------------------------------------------------
(* A thread that goes from one of its places to another stays in a call.   *)
LEMMA GotoPlace ==
    ASSUME TypeOK, InPlace, NEW t \in Threads, NEW p \in ClientPlaces \union WorkerPlaces,
           pc' = [pc EXCEPT ![t] = p], UNCHANGED program,
           \/ /\ t \in Clients /\ p \in ClientPlaces /\ at' = at
              /\ p # "call" => at[t] \in DOMAIN program[t]
           \/ t \in Clients /\ p = "call" /\ at' = [at EXCEPT ![t] = @ + 1]
           \/ t \notin Clients /\ p \in WorkerPlaces /\ at' = at
    PROVE  InPlace' /\ pc' \in [Threads -> ClientPlaces \union WorkerPlaces]
           /\ at' \in [Clients -> Nat]
<1>1. /\ pc' \in [Threads -> ClientPlaces \union WorkerPlaces] /\ pc'[t] = p
      /\ \A u \in Threads : u # t => pc'[u] = pc[u]
  BY DEF TypeOK
<1>2. at' \in [Clients -> Nat] /\ \A c \in Clients : c # t => at'[c] = at[c]
  <2>1. CASE at' = at
    BY <2>1 DEF TypeOK
  <2>2. CASE t \in Clients /\ at' = [at EXCEPT ![t] = @ + 1]
    <3>1. at \in [Clients -> Nat] /\ at[t] + 1 \in Nat
      BY <2>2 DEF TypeOK
    <3> QED BY <2>2, <3>1
  <2> QED BY <2>1, <2>2
<1>0. "call" \in ClientPlaces
  BY DEF ClientPlaces
<1>3. ASSUME NEW c \in Clients
      PROVE  pc'[c] \in ClientPlaces /\ (pc'[c] # "call" => at'[c] \in DOMAIN program'[c])
  <2>1. CASE c = t
    BY <1>0, <1>1, <2>1
  <2>2. CASE c # t
    BY <1>1, <1>2, <2>2, ThreadKinds DEF InPlace
  <2> QED BY <2>1, <2>2
<1>4. ASSUME NEW m \in Machines PROVE pc'[Worker(m)] \in WorkerPlaces
  BY <1>1, ThreadKinds DEF InPlace
<1> QED BY <1>1, <1>2, <1>3, <1>4 DEF InPlace

(* Which place a Goto comes from tells whose step it is. *)
LEMMA GotoOf ==
    ASSUME TypeOK, InPlace, NEW t \in Threads, NEW from, NEW to, Goto(t, from, to)
    PROVE  /\ pc[t] = from /\ pc' = [pc EXCEPT ![t] = to] /\ status[t[1]] = "up"
           /\ from \in ClientPlaces => t \in Clients
           /\ from \in WorkerPlaces => t \notin Clients /\ t = Worker(t[1])
  BY WhoIsWhere DEF Goto, Up

(* Every step of a client keeps the state well formed ... *)
LEMMA ClientType ==
    ASSUME TypeOK, InPlace, NEW t \in Threads, ClientStep(t)
    PROVE  TypeOK' /\ InPlace'
<1> DEFINE m == t[1]
           AtCall == t \in Clients /\ at[t] \in DOMAIN program[t]
<1> USE DEF ClientPlaces
<1>0. m \in Machines
  BY ThreadKinds
<1>1. ASSUME Call(t) PROVE TypeOK' /\ InPlace'
  <2>1. AtCall /\ program[t][at[t]] \in Calls
    BY <1>1, CallType DEF Call
  <2>2. PICK p \in {"getLock", "sendLock"} : Goto(t, "call", p)
    BY <1>1 DEF Call
  <2>3. InPlace' /\ pc' \in [Threads -> ClientPlaces \union WorkerPlaces]
    BY <1>1, <2>1, <2>2, GotoPlace, GotoOf DEF Call, hist
  <2>4. PICK x : mail' = [mail EXCEPT ![t] = x] /\ x \in Mail
    <3> DEFINE c == program[t][at[t]]
    <3>1. mail[t] \in Mail /\ c \in Calls
      BY <2>1 DEF TypeOK
    <3>2. /\ [to |-> c.to, from |-> t[1], box |-> c.box, reply |-> c.reply] \in Mail
          /\ [to |-> mail[t].from, from |-> t[1], box |-> mail[t].reply, reply |-> c.reply] \in Mail
      BY <1>0, <3>1 DEF Calls, Mail
    <3>3. c.op \in {"Send", "Answer", "Receive"}
      BY <1>1, <3>1 DEF Call, Calls
    <3> QED BY <1>1, <3>1, <3>2, <3>3 DEF Call
  <2> QED BY <1>1, <2>3, <2>4 DEF TypeOK, Call, hist, synchVars
<1>2. ASSUME HaltMachine(t) PROVE TypeOK' /\ InPlace'
  <2>1. InPlace' /\ pc' \in [Threads -> ClientPlaces \union WorkerPlaces]
    BY <1>2, GotoPlace, GotoOf DEF HaltMachine, hist
  <2> QED BY <1>2, <2>1 DEF TypeOK, HaltMachine, hist, synchVars, DeAssignNameToSocket, Statuses
<1>3. ASSUME NetworkSend(t) PROVE TypeOK' /\ InPlace'
  <2>1. InPlace' /\ pc' \in [Threads -> ClientPlaces \union WorkerPlaces]
    <3>1. Goto(t, "send", "messageSent") /\ at' = at /\ program' = program
      BY <1>3 DEF NetworkSend
    <3>2. t \in Clients /\ pc[t] = "send" /\ pc' = [pc EXCEPT ![t] = "messageSent"]
      BY <3>1, GotoOf
    <3>3. at[t] \in DOMAIN program[t]
      BY <3>2 DEF InPlace
    <3> QED BY <3>1, <3>2, <3>3, GotoPlace
  <2>2. mail[t] \in Mail
    BY DEF TypeOK
  <2>3. /\ status' \in [Machines -> Statuses] /\ socket' \in [Machines -> Seq(Mail)]
        /\ accepted' \in [Machines -> Seq(Mail)]
    <3>1. CASE SendToSocket(m, mail[t].to, mail[t])
      <4>1. ASSUME NEW q \in [Machines -> Seq(Mail)]
            PROVE  [q EXCEPT ![mail[t].to] = Append(@, mail[t])] \in [Machines -> Seq(Mail)]
        <5>1. mail[t].to \in Machines => Append(q[mail[t].to], mail[t]) \in Seq(Mail)
          BY <2>2
        <5> QED BY <5>1
      <4> QED BY <3>1, <4>1 DEF SendToSocket, TypeOK, Statuses
    <3> QED BY <1>3, <3>1 DEF NetworkSend, TypeOK, Statuses
  <2>4. sendDue' \in [Machines -> Nat]
    BY <1>0, <1>3 DEF NetworkSend, TypeOK
  <2> QED BY <1>3, <2>1, <2>3, <2>4 DEF TypeOK, NetworkSend
<1>4. ASSUME SendReturns(t) PROVE TypeOK' /\ InPlace'
  <2>1. InPlace' /\ pc' \in [Threads -> ClientPlaces \union WorkerPlaces] /\ at' \in [Clients -> Nat]
    BY <1>4, GotoPlace, GotoOf DEF SendReturns, hist
  <2>2. value' \in [Semaphores -> Nat]
    BY <1>0, <1>4, ReleaseEffect, SemaphoresApart, BoxesAssumption DEF SendReturns, Release
  <2> QED BY <1>4, <2>1, <2>2 DEF TypeOK, SendReturns, hist
<1>5. ASSUME AtCall, Look(t) \/ LookWait(t) \/ Woken(t) \/ WokenBlocks(t) \/ ReceiveReturns(t)
      PROVE  TypeOK' /\ InPlace'
  <2> DEFINE b == program[t][at[t]].box
  <2>0. b \in Boxes /\ listLock(m, b) \in Semaphores
    BY <1>0, <1>5, CallType, SemaphoresApart
  <2>1. CASE Look(t)
    <3>1. InPlace' /\ pc' \in [Threads -> ClientPlaces \union WorkerPlaces]
      BY <1>5, <2>1, GotoPlace, GotoOf DEF Look
    <3>2. /\ Head(list[<<m, b>>]) \in Mail /\ Tail(list[<<m, b>>]) \in Seq(Mail)
          /\ Append(taken[<<m, b>>], Head(list[<<m, b>>])) \in Seq(Mail)
      BY <1>0, <2>0, <2>1 DEF Look, TypeOK
    <3>3. /\ list' \in [Machines \X Boxes -> Seq(Mail)] /\ taken' \in [Machines \X Boxes -> Seq(Mail)]
          /\ mail' \in [Threads -> Mail]
      BY <2>1, <3>2 DEF Look, Take, TypeOK
    <3> QED BY <2>1, <3>1, <3>3 DEF TypeOK, Look
  <2>2. CASE LookWait(t)
    <3>1. InPlace' /\ pc' \in [Threads -> ClientPlaces \union WorkerPlaces]
      BY <1>5, <2>2, GotoPlace, GotoOf DEF LookWait, hist
    <3>2. value' \in [Semaphores -> Nat]
      BY <2>0, <2>2, ReleaseEffect DEF LookWait, Release
    <3> QED BY <2>2, <3>1, <3>2 DEF TypeOK, LookWait, hist
  <2>3. CASE Woken(t)
    <3>1. InPlace' /\ pc' \in [Threads -> ClientPlaces \union WorkerPlaces]
      BY <1>5, <2>3, GotoPlace, GotoOf DEF Woken, hist
    <3>2. value' \in [Semaphores -> Nat]
      BY <2>0, <2>3 DEF Woken, WaitReacquire, Pass, TypeOK
    <3> QED BY <2>3, <3>1, <3>2 DEF TypeOK, Woken, hist
  <2>4. CASE WokenBlocks(t)
    BY <2>4 DEF WokenBlocks, WaitBlock, Block, TypeOK, InPlace, hist
  <2>5. CASE ReceiveReturns(t)
    <3>1. InPlace' /\ pc' \in [Threads -> ClientPlaces \union WorkerPlaces] /\ at' \in [Clients -> Nat]
      BY <1>5, <2>5, GotoPlace, GotoOf DEF ReceiveReturns, hist
    <3>2. value' \in [Semaphores -> Nat]
      BY <2>0, <2>5, ReleaseEffect DEF ReceiveReturns, Release
    <3> QED BY <2>5, <3>1, <3>2 DEF TypeOK, ReceiveReturns, hist
  <2> QED BY <1>5, <2>1, <2>2, <2>3, <2>4, <2>5
<1> QED BY <1>1, <1>2, <1>3, <1>4, <1>5 DEF ClientStep

(* Filling the inbox of a machine changes no other. *)
LEMMA InboxEffect ==
    ASSUME TypeOK, NEW m \in Machines, NEW q \in Seq(Mail), inbox' = [inbox EXCEPT ![m] = q]
    PROVE  /\ inbox' \in [Machines -> Seq(Mail)] /\ inbox'[m] = q
           /\ \A n \in Machines : n # m => inbox'[n] = inbox[n]
  BY DEF TypeOK

(* ... and so does every step of the worker ... *)
LEMMA WorkerType ==
    ASSUME TypeOK, InPlace, NEW t \in Threads, WorkerStep(t)
    PROVE  TypeOK' /\ InPlace'
<1> DEFINE m == t[1]
<1> USE DEF WorkerPlaces
<1>0. m \in Machines /\ mail[t] \in Mail /\ mail[t].box \in Boxes
  BY ThreadKinds DEF TypeOK, Mail
<1>1. ASSUME PostalDelivery(t) PROVE TypeOK' /\ InPlace'
  <2>1. InPlace' /\ pc' \in [Threads -> ClientPlaces \union WorkerPlaces]
    BY <1>1, GotoPlace, GotoOf DEF PostalDelivery, hist
  <2>2. inbox' \in [Machines -> Seq(Mail)]
    <3>1. inbox' = [inbox EXCEPT ![m] = <<>>]
      BY <1>1 DEF PostalDelivery, NetworkReceive
    <3>2. <<>> \in Seq(Mail)
      OBVIOUS
    <3> QED BY <1>0, <3>1, <3>2, InboxEffect
  <2>3. mail' \in [Threads -> Mail]
    <3>1. inbox[m] # <<>> => Head(inbox[m]) \in Mail
      BY <1>0 DEF TypeOK
    <3> QED BY <1>0, <1>1, <3>1 DEF PostalDelivery, TypeOK
  <2> QED BY <1>1, <2>1, <2>2, <2>3 DEF TypeOK, PostalDelivery, hist, synchVars
<1>2. ASSUME Put(t) PROVE TypeOK' /\ InPlace'
  <2>1. InPlace' /\ pc' \in [Threads -> ClientPlaces \union WorkerPlaces]
    BY <1>2, GotoPlace, GotoOf DEF Put, hist
  <2>2. list' \in [Machines \X Boxes -> Seq(Mail)]
    <3>1. Append(list[<<m, mail[t].box>>], mail[t]) \in Seq(Mail)
      BY <1>0 DEF TypeOK
    <3> QED BY <1>2, <3>1 DEF Put, TypeOK
  <2> QED BY <1>2, <2>1, <2>2 DEF TypeOK, Put, hist
<1>3. ASSUME PutReturns(t) PROVE TypeOK' /\ InPlace'
  <2>1. InPlace' /\ pc' \in [Threads -> ClientPlaces \union WorkerPlaces]
    BY <1>3, GotoPlace, GotoOf DEF PutReturns, hist
  <2>2. value' \in [Semaphores -> Nat]
    BY <1>0, <1>3, ReleaseEffect, SemaphoresApart DEF PutReturns, Release
  <2> QED BY <1>3, <2>1, <2>2 DEF TypeOK, PutReturns, hist
<1> QED BY <1>1, <1>2, <1>3 DEF WorkerStep

(* ... a thread that gets through a semaphore or sleeps ... *)
LEMMA EnterType ==
    ASSUME TypeOK, InPlace, NEW t \in Threads, Enter(t) \/ EnterBlocks(t)
    PROVE  TypeOK' /\ InPlace'
<1>1. CASE Enter(t)
  <2>1. PICK s \in Semaphores, p \in ClientPlaces \union WorkerPlaces :
          /\ value[s] > 0 /\ value' = [value EXCEPT ![s] = @ - 1]
          /\ pc' = [pc EXCEPT ![t] = p]
          /\ \/ t = Worker(t[1]) /\ p \in {"receive", "put"}
             \/ t \in Clients /\ pc[t] # "call" /\ p \in {"sent", "send", "look"}
    BY <1>1, EnterEffect
  <2>2. UNCHANGED <<hist, status, inbox, sendDue, socket, list, at, mail>>
    BY <1>1, EnterEffect
  <2>3. value' \in [Semaphores -> Nat]
    BY <2>1 DEF TypeOK
  <2>4. InPlace' /\ pc' \in [Threads -> ClientPlaces \union WorkerPlaces]
    <3>1. t = Worker(t[1]) => t \notin Clients
      BY ThreadKinds
    <3>2. t \in Clients /\ pc[t] # "call" => at[t] \in DOMAIN program[t]
      BY DEF InPlace
    <3> QED BY <2>1, <2>2, <3>1, <3>2, GotoPlace DEF hist, ClientPlaces, WorkerPlaces
  <2> QED BY <2>2, <2>3, <2>4 DEF TypeOK, hist
<1>2. CASE EnterBlocks(t)
  BY <1>2 DEF EnterBlocks, Block, TypeOK, InPlace, hist
<1> QED BY <1>1, <1>2

(* ... and the devices. *)
LEMMA DeviceType ==
    ASSUME TypeOK, InPlace, NEW m \in Machines, Boot(m) \/ SendDone(m) \/ CheckPktAvail(m)
    PROVE  TypeOK' /\ InPlace'
<1>1. CASE Boot(m)
  BY <1>1 DEF Boot, AssignNameToSocket, Statuses, TypeOK, InPlace, hist, synchVars
<1>2. CASE SendDone(m)
  <2>1. value' \in [Semaphores -> Nat]
    BY <1>2, ReleaseEffect, SemaphoresApart, BoxesAssumption DEF SendDone, PacketSent
  <2>2. sendDue' \in [Machines -> Nat]
    BY <1>2 DEF SendDone, TypeOK
  <2> QED BY <1>2, <2>1, <2>2 DEF SendDone, TypeOK, InPlace, hist
<1>3. CASE CheckPktAvail(m)
  <2>1. value' \in [Semaphores -> Nat]
    BY <1>3, ReleaseEffect, SemaphoresApart, BoxesAssumption DEF CheckPktAvail, IncomingPacket
  <2>2. /\ socket[m] \in Seq(Mail) /\ <<Head(socket[m])>> \in Seq(Mail)
        /\ Tail(socket[m]) \in Seq(Mail)
    BY <1>3 DEF CheckPktAvail, PollSocket, TypeOK
  <2>3. inbox' \in [Machines -> Seq(Mail)]
    BY <1>3, <2>2, InboxEffect DEF CheckPktAvail
  <2>4. socket' \in [Machines -> Seq(Mail)]
    BY <1>3, <2>2 DEF CheckPktAvail, ReadFromSocket, TypeOK
  <2> QED BY <1>3, <2>1, <2>3, <2>4 DEF CheckPktAvail, TypeOK, InPlace, hist
<1> QED BY <1>1, <1>2, <1>3

(* The state stays well formed. *)
LEMMA NextType == TypeOK /\ InPlace /\ [Next]_vars => TypeOK' /\ InPlace'
<1>1. TypeOK /\ InPlace /\ UNCHANGED vars => TypeOK' /\ InPlace'
  BY DEF vars, synchVars, TypeOK, InPlace
<1> QED BY <1>1, ClientType, WorkerType, EnterType, DeviceType DEF Next

-----------------------------------------------------------------------------
(* Of what happens elsewhere the invariants of a machine know nothing. *)
LEMMA SendFrame ==
    ASSUME NEW m \in Machines, SendExact(m),
           \A c \in Clients : c[1] = m => pc'[c] = pc[c] \/ ~(Sending(c) \/ Sending(c)'),
           value'[sendLock(m)] = value[sendLock(m)],
           value'[messageSent(m)] = value[messageSent(m)],
           sendDue'[m] = sendDue[m]
    PROVE  SendExact(m)'
<1>1. AwaitsInterrupt(m)' <=> AwaitsInterrupt(m)
  BY DEF AwaitsInterrupt, Sending
<1> QED BY <1>1 DEF SendExact, Sending

(* ... and one that leaves the inbox and its semaphore as they are. *)
LEMMA InboxFrame ==
    ASSUME NEW m \in Machines, InboxExact(m), inbox'[m] = inbox[m],
           value'[messageAvailable(m)] = value[messageAvailable(m)],
           pc'[Worker(m)] = "receive" <=> pc[Worker(m)] = "receive"
    PROVE  InboxExact(m)'
  BY DEF InboxExact

(* Calls, the locks of the mailboxes and the way of the worker back are    *)
(* such an elsewhere.                                                      *)
LEMMA Aside ==
    ASSUME TypeOK, InPlace, Exact, UNCHANGED <<inbox, sendDue>>,
           \/ pc' = pc
           \/ \E t \in Threads, p \in ClientPlaces \union WorkerPlaces :
                /\ pc' = [pc EXCEPT ![t] = p]
                /\ pc[t] \notin {"send", "messageSent", "sent", "receive"}
                /\ p \notin {"send", "messageSent", "sent", "receive"},
           \/ value' = value
           \/ \E n \in Machines, b \in Boxes, x \in Int : value' = [value EXCEPT ![listLock(n, b)] = x]
    PROVE  Exact'
<1>1. ASSUME NEW m \in Machines
      PROVE  /\ value'[sendLock(m)] = value[sendLock(m)]
             /\ value'[messageSent(m)] = value[messageSent(m)]
             /\ value'[messageAvailable(m)] = value[messageAvailable(m)]
  BY SemaphoresApart DEF TypeOK
<1>2. \A u \in Threads : \/ pc'[u] = pc[u]
                        \/ /\ pc[u] \notin {"send", "messageSent", "sent", "receive"}
                           /\ pc'[u] \notin {"send", "messageSent", "sent", "receive"}
  BY DEF TypeOK
<1>3. ASSUME NEW m \in Machines PROVE SendExact(m)'
  BY <1>1, <1>2, SendFrame, ThreadKinds DEF Sending, Exact
<1>4. ASSUME NEW m \in Machines PROVE InboxExact(m)'
  BY <1>1, <1>2, InboxFrame, ThreadKinds DEF Exact
<1> QED BY <1>3, <1>4 DEF Exact

(* A step on the send side of a machine: all others know nothing of it,    *)
(* and its inbox neither.                                                  *)
LEMMA SendStep ==
    ASSUME TypeOK, InPlace, Exact, NEW t \in Clients, NEW m \in Machines, m = t[1],
           NEW p \in ClientPlaces, pc' = [pc EXCEPT ![t] = p],
           \A s \in Semaphores : s \notin {sendLock(m), messageSent(m)} => value'[s] = value[s],
           inbox' = inbox, \A n \in Machines : n # m => sendDue'[n] = sendDue[n],
           SendExact(m)'
    PROVE  Exact'
<1>1. \A u \in Threads : u # t => pc'[u] = pc[u]
  BY DEF TypeOK
<1>2. ASSUME NEW n \in Machines, n # m PROVE SendExact(n)'
  <2>1. /\ value'[sendLock(n)] = value[sendLock(n)]
        /\ value'[messageSent(n)] = value[messageSent(n)]
    BY <1>2, SemaphoresApart, BoxesAssumption
  <2> QED BY <1>1, <1>2, <2>1, SendFrame, ThreadKinds DEF Exact
<1>3. ASSUME NEW n \in Machines PROVE InboxExact(n)'
  <2>1. value'[messageAvailable(n)] = value[messageAvailable(n)]
    BY SemaphoresApart, BoxesAssumption
  <2>2. pc'[Worker(n)] = pc[Worker(n)]
    BY <1>1, ThreadKinds
  <2> QED BY <2>1, <2>2, InboxFrame DEF Exact
<1> QED BY <1>2, <1>3 DEF Exact

(* A step on the receive side of a machine. *)
LEMMA InboxStep ==
    ASSUME TypeOK, InPlace, Exact, NEW m \in Machines,
           \A t \in Threads : t # Worker(m) => pc'[t] = pc[t],
           \A s \in Semaphores : s # messageAvailable(m) => value'[s] = value[s],
           sendDue' = sendDue, \A n \in Machines : n # m => inbox'[n] = inbox[n],
           InboxExact(m)'
    PROVE  Exact'
<1>1. ASSUME NEW n \in Machines, n # m PROVE InboxExact(n)'
  <2>1. value'[messageAvailable(n)] = value[messageAvailable(n)]
    BY <1>1, SemaphoresApart, BoxesAssumption
  <2>2. pc'[Worker(n)] = pc[Worker(n)]
    BY <1>1, ThreadKinds
  <2> QED BY <1>1, <2>1, <2>2, InboxFrame DEF Exact
<1>2. ASSUME NEW n \in Machines PROVE SendExact(n)'
  <2>1. /\ value'[sendLock(n)] = value[sendLock(n)]
        /\ value'[messageSent(n)] = value[messageSent(n)]
    BY SemaphoresApart, BoxesAssumption
  <2>2. \A c \in Clients : pc'[c] = pc[c]
    BY ThreadKinds
  <2> QED BY <2>1, <2>2, SendFrame DEF Exact
<1> QED BY <1>1, <1>2 DEF Exact

-----------------------------------------------------------------------------
(* Getting through a semaphore takes its only unit. *)
LEMMA EnterExact ==
    ASSUME TypeOK, InPlace, Exact, NEW t \in Threads, Enter(t)
    PROVE  Exact'
<1> DEFINE m == t[1]
<1>1. m \in Machines /\ UNCHANGED <<inbox, sendDue>> /\ SendExact(m) /\ InboxExact(m)
  BY EnterEffect DEF Exact
<1>2. PICK s \in Semaphores, p \in ClientPlaces \union WorkerPlaces :
        /\ value[s] > 0 /\ value' = [value EXCEPT ![s] = @ - 1]
        /\ pc' = [pc EXCEPT ![t] = p]
        /\ \/ t = Worker(m) /\ pc[t] = "messageAvailable" /\ p = "receive" /\ s = messageAvailable(m)
           \/ t = Worker(m) /\ pc[t] = "putLock" /\ p = "put" /\ \E b \in Boxes : s = listLock(m, b)
           \/ t \in Clients /\ pc[t] = "messageSent" /\ p = "sent" /\ s = messageSent(m)
           \/ t \in Clients /\ pc[t] = "sendLock" /\ p = "send" /\ s = sendLock(m)
           \/ t \in Clients /\ pc[t] = "getLock" /\ p = "look" /\ \E b \in Boxes : s = listLock(m, b)
  BY EnterEffect
<1>3. /\ \A u \in Threads : u # t => pc'[u] = pc[u]
      /\ pc'[t] = p /\ value[s] \in Nat /\ value'[s] = value[s] - 1
      /\ \A r \in Semaphores : r # s => value'[r] = value[r]
      /\ {sendLock(m), messageSent(m), messageAvailable(m)} \subseteq Semaphores
      /\ sendLock(m) # messageSent(m)
  BY <1>1, <1>2, SemaphoresApart, BoxesAssumption DEF TypeOK
<1> HIDE DEF m
<1>4. CASE \E b \in Boxes : s = listLock(m, b)
  <2>1. value[s] - 1 \in Int /\ p \in {"put", "look"} /\ pc[t] \in {"putLock", "getLock"}
    BY <1>1, <1>2, <1>3, <1>4, SemaphoresApart
  <2> QED BY <1>1, <1>2, <1>4, <2>1, Aside
<1>5. CASE t = Worker(m) /\ pc[t] = "messageAvailable" /\ p = "receive" /\ s = messageAvailable(m)
  <2>1. InboxExact(m)'
    BY <1>1, <1>2, <1>3, <1>5 DEF InboxExact
  <2> QED BY <1>1, <1>3, <1>5, <2>1, InboxStep
<1>6. CASE t \in Clients /\ pc[t] = "messageSent" /\ p = "sent" /\ s = messageSent(m)
  <2>1. SendExact(m)'
    <3>1. \A c \in Clients : Sending(c)' <=> Sending(c)
      BY <1>3, <1>6, ThreadKinds DEF Sending
    <3>2. value[messageSent(m)] \in Nat /\ sendDue[m] \in Nat
      BY <1>1, <1>3, <1>6 DEF TypeOK
    <3>3. sendDue[m] = 0 /\ value[messageSent(m)] = 1
      BY <1>1, <1>2, <1>6, <3>2 DEF SendExact
    <3>4. ~AwaitsInterrupt(m)'
      <4>1. \A c \in Clients : c[1] = m /\ Sending(c) => c = t
        BY <1>1, <1>6 DEF SendExact, Sending, m
      <4> QED BY <1>3, <1>6, <3>1, <4>1, ThreadKinds DEF AwaitsInterrupt, Sending
    <3>5. sendDue'[m] = 0 /\ value'[messageSent(m)] = 0 /\ value'[sendLock(m)] = value[sendLock(m)]
      BY <1>1, <1>3, <1>6, <3>3
    <3> QED BY <1>1, <3>1, <3>4, <3>5 DEF SendExact
  <2>2. \A r \in Semaphores : r \notin {sendLock(m), messageSent(m)} => value'[r] = value[r]
    BY <1>3, <1>6
  <2> QED BY <1>1, <1>2, <1>6, <2>1, <2>2, SendStep DEF ClientPlaces, m
<1>7. CASE t \in Clients /\ pc[t] = "sendLock" /\ p = "send" /\ s = sendLock(m)
  <2>1. SendExact(m)'
    <3>1. \A c \in Clients : c[1] = m => ~Sending(c)
      BY <1>1, <1>2, <1>3, <1>7 DEF SendExact
    <3>2. \A c \in Clients : Sending(c)' => c = t \/ Sending(c)
      BY <1>3, ThreadKinds DEF Sending
    <3>3. ~AwaitsInterrupt(m) /\ ~AwaitsInterrupt(m)'
      BY <1>3, <1>7, <3>1, ThreadKinds DEF AwaitsInterrupt, Sending
    <3>4. value'[sendLock(m)] = 0 /\ value'[messageSent(m)] = value[messageSent(m)]
      BY <1>1, <1>2, <1>3, <1>7 DEF SendExact
    <3> QED BY <1>1, <3>1, <3>2, <3>3, <3>4 DEF SendExact
  <2>2. \A r \in Semaphores : r \notin {sendLock(m), messageSent(m)} => value'[r] = value[r]
    BY <1>3, <1>7
  <2> QED BY <1>1, <1>2, <1>7, <2>1, <2>2, SendStep DEF ClientPlaces, m
<1> QED BY <1>2, <1>4, <1>5, <1>6, <1>7

(* sendLock is held: no interrupt is to come for another packet. *)
LEMMA NetworkSendExact ==
    ASSUME TypeOK, InPlace, Exact, NEW t \in Threads, NetworkSend(t)
    PROVE  Exact'
<1> DEFINE m == t[1]
<1>1. /\ pc[t] = "send" /\ pc' = [pc EXCEPT ![t] = "messageSent"] /\ value' = value
      /\ inbox' = inbox /\ sendDue' = [sendDue EXCEPT ![m] = @ + 1]
  BY DEF NetworkSend, Goto
<1>2. t \in Clients /\ m \in Machines /\ SendExact(m)
  BY <1>1, WhoIsWhere, ThreadKinds DEF ClientPlaces, Exact
<1>3. /\ \A u \in Threads : u # t => pc'[u] = pc[u]
      /\ pc'[t] = "messageSent" /\ value[messageSent(m)] \in Nat
  BY <1>1, <1>2, SemaphoresApart, BoxesAssumption DEF TypeOK
<1>4. /\ sendDue'[m] = sendDue[m] + 1 /\ sendDue[m] \in Nat
      /\ \A n \in Machines : n # m => sendDue'[n] = sendDue[n]
  BY <1>1, <1>2 DEF TypeOK
<1>0. t[1] = m
  OBVIOUS
<1> HIDE DEF m
<1>5. ~AwaitsInterrupt(m) /\ AwaitsInterrupt(m)'
  <2>1. \A c \in Clients : c[1] = m => pc[c] # "messageSent"
    BY <1>0, <1>1, <1>2 DEF SendExact, Sending
  <2> QED BY <1>0, <1>2, <1>3, <2>1 DEF AwaitsInterrupt
<1>6. SendExact(m)'
  <2>1. \A c \in Clients : Sending(c)' <=> Sending(c)
    BY <1>1, <1>3, ThreadKinds DEF Sending
  <2>2. sendDue'[m] + value'[messageSent(m)] = 1
    BY <1>1, <1>2, <1>3, <1>4, <1>5 DEF SendExact
  <2> QED BY <1>1, <1>2, <1>5, <2>1, <2>2 DEF SendExact
<1> QED BY <1>0, <1>1, <1>2, <1>4, <1>6, SendStep DEF ClientPlaces

(* At the end of Send there is neither an interrupt to come nor a unit     *)
(* left in messageSent.                                                    *)
LEMMA SendReturnsExact ==
    ASSUME TypeOK, InPlace, Exact, NEW t \in Threads, SendReturns(t)
    PROVE  Exact'
<1> DEFINE m == t[1]
<1>1. /\ pc[t] = "sent" /\ pc' = [pc EXCEPT ![t] = "call"]
      /\ UNCHANGED <<inbox, sendDue>> /\ V(sendLock(m))
  BY DEF SendReturns, Goto, Release
<1>2. t \in Clients /\ m \in Machines /\ SendExact(m)
  BY <1>1, WhoIsWhere, ThreadKinds DEF ClientPlaces, Exact
<1>3. /\ \A u \in Threads : u # t => pc'[u] = pc[u]
      /\ pc'[t] = "call" /\ sendLock(m) \in Semaphores /\ messageSent(m) \in Semaphores
      /\ sendLock(m) # messageSent(m)
  BY <1>1, <1>2, SemaphoresApart, BoxesAssumption DEF TypeOK
<1>4. /\ value'[sendLock(m)] = value[sendLock(m)] + 1
      /\ \A r \in Semaphores : r # sendLock(m) => value'[r] = value[r]
  BY <1>1, <1>3, ReleaseEffect DEF TypeOK
<1> HIDE DEF m
<1>5. /\ value[sendLock(m)] = 0 /\ \A c \in Clients : c[1] = m => ~Sending(c)'
      /\ ~AwaitsInterrupt(m) /\ ~AwaitsInterrupt(m)'
  <2>1. Sending(t) /\ ~Sending(t)'
    BY <1>1, <1>3 DEF Sending
  <2>2. \A c \in Clients : c[1] = m /\ Sending(c) => c = t
    BY <1>2, <2>1 DEF SendExact, m
  <2>3. \A c \in Clients : c # t => (Sending(c)' <=> Sending(c))
    BY <1>3, ThreadKinds DEF Sending
  <2>4. \A c \in Clients : c[1] = m => pc[c] # "messageSent"
    BY <1>1, <2>2 DEF Sending
  <2>5. value[sendLock(m)] = 0
    BY <1>2, <2>1 DEF SendExact, m
  <2>6. \A c \in Clients : c[1] = m => ~Sending(c)'
    BY <2>1, <2>2, <2>3
  <2> QED BY <2>4, <2>5, <2>6 DEF AwaitsInterrupt, Sending
<1>6. SendExact(m)'
  BY <1>1, <1>2, <1>3, <1>4, <1>5 DEF SendExact
<1> QED BY <1>1, <1>2, <1>4, <1>6, SendStep DEF ClientPlaces, m

(* The interrupt puts the unit for the thread that sends. *)
LEMMA SendDoneExact ==
    ASSUME TypeOK, InPlace, Exact, NEW m \in Machines, SendDone(m)
    PROVE  Exact'
<1>1. /\ sendDue[m] > 0 /\ sendDue' = [sendDue EXCEPT ![m] = @ - 1] /\ pc' = pc
      /\ inbox' = inbox /\ V(messageSent(m)) /\ SendExact(m)
  BY DEF SendDone, PacketSent, Exact
<1>2. /\ sendLock(m) \in Semaphores /\ messageSent(m) \in Semaphores
      /\ sendLock(m) # messageSent(m)
  BY SemaphoresApart, BoxesAssumption
<1>3. /\ value'[messageSent(m)] = value[messageSent(m)] + 1
      /\ \A r \in Semaphores : r # messageSent(m) => value'[r] = value[r]
  BY <1>1, <1>2, ReleaseEffect DEF TypeOK
<1>4. /\ sendDue'[m] = sendDue[m] - 1 /\ sendDue[m] \in Nat /\ value[messageSent(m)] \in Nat
      /\ \A n \in Machines : n # m => sendDue'[n] = sendDue[n]
  BY <1>1, <1>2 DEF TypeOK
<1>5. SendExact(m)'
  <2>1. AwaitsInterrupt(m)' <=> AwaitsInterrupt(m)
    BY <1>1 DEF AwaitsInterrupt
  <2>2. sendDue'[m] + value'[messageSent(m)] = sendDue[m] + value[messageSent(m)]
    BY <1>3, <1>4
  <2>3. value'[sendLock(m)] = value[sendLock(m)]
    BY <1>2, <1>3
  <2> QED BY <1>1, <2>1, <2>2, <2>3 DEF SendExact, Sending
<1>6. PICK c \in Clients : c[1] = m /\ pc[c] = "messageSent"
  BY <1>1, <1>4 DEF SendExact, AwaitsInterrupt
<1>7. pc' = [pc EXCEPT ![c] = "messageSent"]
  BY <1>1, <1>6, ThreadKinds DEF TypeOK
<1> QED BY <1>1, <1>3, <1>4, <1>5, <1>6, <1>7, SendStep DEF ClientPlaces

(* A packet goes to the empty buffer, and a unit to messageAvailable. *)
LEMMA CheckPktAvailExact ==
    ASSUME TypeOK, InPlace, Exact, NEW m \in Machines, CheckPktAvail(m)
    PROVE  Exact'
<1>1. /\ inbox[m] = <<>> /\ inbox' = [inbox EXCEPT ![m] = <<Head(socket[m])>>]
      /\ sendDue' = sendDue /\ pc' = pc /\ V(messageAvailable(m)) /\ InboxExact(m) /\ socket[m] # <<>>
  BY DEF CheckPktAvail, IncomingPacket, PollSocket, Exact
<1>2. messageAvailable(m) \in Semaphores
  BY SemaphoresApart, BoxesAssumption
<1>3. /\ value'[messageAvailable(m)] = value[messageAvailable(m)] + 1
      /\ \A r \in Semaphores : r # messageAvailable(m) => value'[r] = value[r]
  BY <1>1, <1>2, ReleaseEffect DEF TypeOK
<1>4. <<Head(socket[m])>> \in Seq(Mail)
  BY <1>1 DEF TypeOK
<1>5. /\ inbox'[m] = <<Head(socket[m])>>
      /\ \A n \in Machines : n # m => inbox'[n] = inbox[n]
  BY <1>1, <1>4, InboxEffect
<1>6. InboxExact(m)'
  <2>1. value'[messageAvailable(m)] = 1 /\ pc'[Worker(m)] # "receive"
    BY <1>1, <1>3 DEF InboxExact
  <2>2. Len(inbox'[m]) = 1 /\ inbox'[m] # <<>>
    BY <1>4, <1>5
  <2> QED BY <2>1, <2>2 DEF InboxExact
<1> QED BY <1>1, <1>3, <1>5, <1>6, InboxStep

(* The worker comes for a packet that is there. *)
LEMMA PostalDeliveryExact ==
    ASSUME TypeOK, InPlace, Exact, NEW t \in Threads, PostalDelivery(t)
    PROVE  Exact' /\ inbox[t[1]] # <<>>
<1> DEFINE m == t[1]
<1>1. /\ pc[t] = "receive" /\ pc' = [pc EXCEPT ![t] = "putLock"] /\ value' = value
      /\ sendDue' = sendDue /\ inbox' = [inbox EXCEPT ![m] = <<>>]
  BY DEF PostalDelivery, Goto, NetworkReceive, synchVars
<1>2. t = Worker(m) /\ m \in Machines /\ InboxExact(m)
  BY <1>1, WhoIsWhere, ThreadKinds DEF WorkerPlaces, Exact
<1>3. /\ \A u \in Threads : u # t => pc'[u] = pc[u]
      /\ pc'[t] = "putLock"
  BY <1>1, <1>2 DEF TypeOK
<1>4. <<>> \in Seq(Mail)
  OBVIOUS
<1>5. /\ inbox'[m] = <<>>
      /\ \A n \in Machines : n # m => inbox'[n] = inbox[n]
  BY <1>1, <1>2, <1>4, InboxEffect
<1> HIDE DEF m
<1>6. inbox[m] # <<>> /\ value[messageAvailable(m)] = 0
  BY <1>1, <1>2 DEF InboxExact
<1>7. InboxExact(m)'
  BY <1>1, <1>2, <1>3, <1>5, <1>6 DEF InboxExact
<1>8. Exact'
  BY <1>1, <1>2, <1>3, <1>5, <1>7, InboxStep
<1> QED BY <1>6, <1>8 DEF m

(* The lists of the mailboxes and the calls are aside. *)
LEMMA OtherExact ==
    ASSUME TypeOK, InPlace, Exact, NEW t \in Threads,
           \/ Call(t) \/ HaltMachine(t) \/ EnterBlocks(t)
           \/ /\ t \in Clients /\ at[t] \in DOMAIN program[t]
              /\ Look(t) \/ LookWait(t) \/ Woken(t) \/ WokenBlocks(t) \/ ReceiveReturns(t)
           \/ Put(t) \/ PutReturns(t)
    PROVE  Exact'
<1> DEFINE m == t[1]
           b == program[t][at[t]].box
           Calling == t \in Clients /\ at[t] \in DOMAIN program[t]
           Quiet == {"send", "messageSent", "sent", "receive"}
           Moves == \E p \in ClientPlaces \union WorkerPlaces :
                      pc' = [pc EXCEPT ![t] = p] /\ pc[t] \notin Quiet /\ p \notin Quiet
           Locks1 == \/ value' = value
                     \/ \E n \in Machines, c \in Boxes, x \in Int : value' = [value EXCEPT ![listLock(n, c)] = x]
<1>1. m \in Machines /\ mail[t].box \in Boxes /\ (Calling => b \in Boxes)
  BY ThreadKinds, CallType DEF TypeOK, Mail
<1>2. \A c \in Boxes : listLock(m, c) \in Semaphores /\ value[listLock(m, c)] \in Nat
  BY <1>1, SemaphoresApart DEF TypeOK
<1>3. \A c \in Boxes : V(listLock(m, c)) => Locks1
  <2> TAKE c \in Boxes
  <2> HAVE V(listLock(m, c))
  <2>1. value' = [value EXCEPT ![listLock(m, c)] = value[listLock(m, c)] + 1]
    BY <1>2, ReleaseEffect
  <2>2. value[listLock(m, c)] + 1 \in Int
    BY <1>2
  <2> QED BY <1>1, <2>1, <2>2
<1>4. \A from, to \in (ClientPlaces \union WorkerPlaces) \ Quiet : Goto(t, from, to) => Moves
  BY DEF Goto
<1> USE DEF ClientPlaces, WorkerPlaces
<1>5. CASE Call(t)
  <2>1. Moves /\ UNCHANGED <<value, inbox, sendDue>>
    BY <1>4, <1>5 DEF Call, synchVars
  <2> QED BY <2>1, Aside
<1>6. CASE HaltMachine(t)
  <2>1. Moves /\ UNCHANGED <<value, inbox, sendDue>>
    BY <1>4, <1>6 DEF HaltMachine, synchVars
  <2> QED BY <2>1, Aside
<1>7. CASE EnterBlocks(t)
  BY <1>7, Aside DEF EnterBlocks, Block
<1>8. CASE Calling /\ Look(t)
  <2>1. Moves /\ UNCHANGED <<value, inbox, sendDue>>
    BY <1>4, <1>8 DEF Look
  <2> QED BY <2>1, Aside
<1>9. CASE Calling /\ LookWait(t)
  <2>1. Moves /\ V(listLock(m, b)) /\ UNCHANGED <<inbox, sendDue>>
    BY <1>4, <1>9 DEF LookWait, Release
  <2>2. Locks1
    BY <1>1, <1>3, <1>9, <2>1
  <2> QED BY <2>1, <2>2, Aside
<1>10. CASE Calling /\ Woken(t)
  <2>1. /\ Moves /\ UNCHANGED <<inbox, sendDue>>
        /\ value' = [value EXCEPT ![listLock(m, b)] = value[listLock(m, b)] - 1]
    BY <1>4, <1>10 DEF Woken, WaitReacquire, Pass
  <2>2. value[listLock(m, b)] - 1 \in Int
    BY <1>1, <1>2, <1>10
  <2>3. Locks1
    BY <1>1, <1>10, <2>1, <2>2
  <2> QED BY <2>1, <2>3, Aside
<1>11. CASE Calling /\ WokenBlocks(t)
  BY <1>11, Aside DEF WokenBlocks, WaitBlock, Block
<1>12. CASE Calling /\ ReceiveReturns(t)
  <2>1. Moves /\ V(listLock(m, b)) /\ UNCHANGED <<inbox, sendDue>>
    BY <1>4, <1>12 DEF ReceiveReturns, Release
  <2>2. Locks1
    BY <1>1, <1>3, <1>12, <2>1
  <2> QED BY <2>1, <2>2, Aside
<1>13. CASE Put(t)
  <2>1. Moves /\ UNCHANGED <<value, inbox, sendDue>>
    BY <1>4, <1>13 DEF Put
  <2> QED BY <2>1, Aside
<1>14. CASE PutReturns(t)
  <2>1. Moves /\ V(listLock(m, mail[t].box)) /\ UNCHANGED <<inbox, sendDue>>
    BY <1>4, <1>14 DEF PutReturns, Release
  <2>2. Locks1
    BY <1>1, <1>3, <2>1
  <2> QED BY <2>1, <2>2, Aside
<1> QED BY <1>5, <1>6, <1>7, <1>8, <1>9, <1>10, <1>11, <1>12, <1>13, <1>14

(* Semaphores and devices stay in agreement with the threads. *)
LEMMA NextExact ==
    ASSUME TypeOK, InPlace, Exact, [Next]_vars
    PROVE  Exact'
<1>1. CASE UNCHANGED vars
  BY <1>1, Aside DEF vars, synchVars
<1>2. ASSUME NEW m \in Machines, Boot(m) PROVE Exact'
  BY <1>2, Aside DEF Boot, synchVars
<1> QED BY <1>1, <1>2, SendDoneExact, CheckPktAvailExact, EnterExact, NetworkSendExact,
           SendReturnsExact, PostalDeliveryExact, OtherExact
        DEF Next, ClientStep, WorkerStep

-----------------------------------------------------------------------------
(* Moving an element from the head of one list to the end of the list      *)
(* before it, and adding one at the end, as a socket, an inbox and the     *)
(* list of a mailbox do it.                                                *)
LEMMA MovedElement ==
    ASSUME NEW S, NEW q \in Seq(S), NEW r \in Seq(S), r # <<>>
    PROVE  Append(q, Head(r)) \o Tail(r) = q \o r
  OBVIOUS

(* Adding an element at the end of the second part adds it to the whole. *)
LEMMA AddedElement ==
    ASSUME NEW S, NEW q \in Seq(S), NEW r \in Seq(S), NEW x \in S
    PROVE  q \o Append(r, x) = Append(q \o r, x)
  OBVIOUS

(* Nothing in front, and nothing behind, changes nothing. *)
LEMMA EmptyConcat ==
    ASSUME NEW S, NEW q \in Seq(S)
    PROVE  <<>> \o q = q /\ q \o <<>> = q
  OBVIOUS

(* A sequence of one element is its head. *)
LEMMA OneElement ==
    ASSUME NEW S, NEW q \in Seq(S), q # <<>>, Len(q) <= 1
    PROVE  q = <<Head(q)>> /\ Head(q) \in S
<1>1. Len(q) \in Nat /\ Len(q) # 0
  OBVIOUS
<1>2. Len(q) = 1
  BY <1>1
<1> QED BY <1>2

(* What is on its way is mail. *)
LEMMA WayType ==
    ASSUME TypeOK, NEW m \in Machines
    PROVE  /\ InHand(m) \in Seq(Mail) /\ inbox[m] \in Seq(Mail) /\ socket[m] \in Seq(Mail)
           /\ Way(m) \in Seq(Mail) /\ accepted[m] \in Seq(Mail)
<1>1. InHand(m) \in Seq(Mail)
  BY ThreadKinds DEF TypeOK, InHand
<1>2. inbox[m] \in Seq(Mail) /\ socket[m] \in Seq(Mail) /\ accepted[m] \in Seq(Mail)
  BY DEF TypeOK
<1> QED BY <1>1, <1>2 DEF Way

Here(m, b) == taken[<<m, b>>] \o list[<<m, b>>]

Ordered(m) ==
    /\ Delivered(m) >= 0
    /\ \A i \in DOMAIN Way(m) : Way(m)[i] = accepted[m][Delivered(m) + i]
    /\ \A b \in Boxes : IsMailFor(b, accepted[m], Delivered(m), Here(m, b))

(* A step that moves mail on its way, or out of a list, keeps the order. *)
LEMMA SameOrder ==
    ASSUME NEW m \in Machines, Ordered(m), Way(m)' = Way(m), accepted'[m] = accepted[m],
           \A b \in Boxes : Here(m, b)' = Here(m, b)
    PROVE  Ordered(m)'
<1>1. Delivered(m)' = Delivered(m)
  BY DEF Delivered
<1> QED BY <1>1 DEF Ordered

(* A packet that is sent goes to the end of the way. *)
LEMMA SentInOrder ==
    ASSUME TypeOK, NEW m \in Machines, Ordered(m), NEW x \in Mail,
           Way(m)' = Append(Way(m), x), accepted'[m] = Append(accepted[m], x),
           \A b \in Boxes : Here(m, b)' = Here(m, b)
    PROVE  Ordered(m)'
<1> DEFINE w == Way(m)
           a == accepted[m]
           n == Delivered(m)
<1>1. w \in Seq(Mail) /\ a \in Seq(Mail)
  BY WayType
<1>2. n = Len(a) - Len(w) /\ n >= 0 /\ n \in 0 .. Len(a)
  BY <1>1 DEF Delivered, Ordered
<1>3. Delivered(m)' = n
  <2>1. /\ Len(Append(a, x)) = Len(a) + 1 /\ Len(Append(w, x)) = Len(w) + 1
        /\ Len(a) \in Nat /\ Len(w) \in Nat
    BY <1>1
  <2>2. Delivered(m)' = Len(Append(a, x)) - Len(Append(w, x))
    BY DEF Delivered
  <2> QED BY <1>2, <2>1, <2>2
<1>4. \A i \in DOMAIN w : w[i] = a[n + i]
  BY DEF Ordered
<1>5. \A b \in Boxes : IsMailFor(b, Append(a, x), n, Here(m, b))
  BY <1>1, <1>2, LaterPackets DEF Ordered
<1> HIDE DEF w, a, n
<1>6. \A i \in DOMAIN Append(w, x) : Append(w, x)[i] = Append(a, x)[n + i]
  <2> TAKE i \in DOMAIN Append(w, x)
  <2>1. CASE i \in DOMAIN w
    <3>1. i \in 1 .. Len(w) /\ n + i \in 1 .. Len(a)
      BY <1>1, <1>2, <2>1
    <3>2. Append(w, x)[i] = w[i] /\ Append(a, x)[n + i] = a[n + i]
      BY <1>1, <3>1
    <3> DEFINE ww == Append(w, x)
               aa == Append(a, x)
    <3>3. ww[i] = w[i] /\ aa[n + i] = a[n + i]
      BY <3>2
    <3> HIDE DEF ww, aa
    <3>4. ww[i] = aa[n + i]
      BY <1>4, <2>1, <3>3
    <3> QED BY <3>4 DEF ww, aa
  <2>2. CASE i = Len(w) + 1
    <3>1. n + i = Len(a) + 1
      BY <1>1, <1>2, <2>2
    <3>2. Append(w, x)[Len(w) + 1] = x /\ Append(a, x)[Len(a) + 1] = x
      BY <1>1
    <3> QED BY <2>2, <3>1, <3>2
  <2>3. i \in DOMAIN w \/ i = Len(w) + 1
    BY <1>1
  <2> QED BY <2>1, <2>2, <2>3, Zenon
<1> QED BY <1>2, <1>3, <1>5, <1>6 DEF Ordered, w, a, n

(* The first packet of the way goes to the end of its list. *)
LEMMA PutInOrder ==
    ASSUME TypeOK, NEW m \in Machines, Ordered(m), NEW x \in Mail, NEW w \in Seq(Mail),
           Way(m) = <<x>> \o w, Way(m)' = w, accepted'[m] = accepted[m],
           \A b \in Boxes : /\ Here(m, b) \in Seq(Mail)
                           /\ Here(m, b)' = IF b = x.box THEN Append(Here(m, b), x) ELSE Here(m, b)
    PROVE  Ordered(m)'
<1> DEFINE a == accepted[m]
           n == Delivered(m)
<1>1. a \in Seq(Mail) /\ Len(Way(m)) = Len(w) + 1 /\ Way(m)[1] = x
      /\ \A i \in DOMAIN w : Way(m)[i + 1] = w[i] /\ i + 1 \in DOMAIN Way(m)
      /\ 1 \in DOMAIN Way(m)
  BY WayType
<1>2. n = Len(a) - Len(w) - 1 /\ n >= 0 /\ n \in Nat /\ n < Len(a)
  <2>1. Len(a) \in Nat /\ Len(w) \in Nat
    BY <1>1
  <2>2. n = Len(a) - Len(Way(m)) /\ n >= 0
    BY DEF Delivered, Ordered
  <2> QED BY <1>1, <2>1, <2>2
<1>3. Delivered(m)' = n + 1
  <2>1. Len(a) \in Nat /\ Len(w) \in Nat
    BY <1>1
  <2>2. Delivered(m)' = Len(a) - Len(w)
    BY DEF Delivered
  <2> QED BY <1>2, <2>1, <2>2
<1>4. a[n + 1] = x /\ \A i \in DOMAIN w : w[i] = a[n + (i + 1)]
  BY <1>1 DEF Ordered
<1>5. \A b \in Boxes : IsMailFor(b, a, n, Here(m, b))
  BY DEF Ordered
<1> HIDE DEF a, n
<1>6. \A i \in DOMAIN w : w[i] = a[n + 1 + i]
  <2> TAKE i \in DOMAIN w
  <2>1. n + 1 + i = n + (i + 1)
    BY <1>2
  <2> QED BY <1>4, <2>1
<1>7. ASSUME NEW b \in Boxes PROVE IsMailFor(b, a, n + 1, Here(m, b)')
  <2>1. CASE b = x.box
    <3>1. IsMailFor(b, a, n, Here(m, b)) /\ Here(m, b) \in Seq(Mail) /\ a[n + 1].box = b
      BY <1>4, <1>5, <2>1
    <3>2. IsMailFor(b, a, n + 1, Append(Here(m, b), a[n + 1]))
      BY <1>1, <1>2, <3>1, NextMail
    <3> QED BY <1>4, <2>1, <3>2
  <2>2. CASE b # x.box
    BY <1>2, <1>4, <1>5, <2>2, OtherMail
  <2> QED BY <2>1, <2>2
<1>8. n + 1 >= 0
  BY <1>2
<1> QED BY <1>3, <1>6, <1>7, <1>8 DEF Ordered, a

(* The worker's hands are full from PostalDelivery to Put. *)
LEMMA HandsUnchanged ==
    ASSUME TypeOK, NEW m \in Machines,
           mail'[Worker(m)] = mail[Worker(m)],
           pc'[Worker(m)] \in {"putLock", "put"} <=> pc[Worker(m)] \in {"putLock", "put"}
    PROVE  InHand(m)' = InHand(m)
  BY DEF InHand

(* Steps that touch neither the way of a machine's mail nor its lists. *)
LEMMA AsideOrder ==
    ASSUME TypeOK, InPlace, MailInOrder,
           UNCHANGED <<taken, list, accepted, inbox, sendDue, socket>>,
           \/ pc' = pc
           \/ \E t \in Threads, p \in ClientPlaces \union WorkerPlaces :
                /\ pc' = [pc EXCEPT ![t] = p]
                /\ t \in Clients \/ (p \in {"putLock", "put"} <=> pc[t] \in {"putLock", "put"}),
           \A m \in Machines : mail'[Worker(m)] = mail[Worker(m)]
    PROVE  MailInOrder'
<1> SUFFICES ASSUME NEW m \in Machines PROVE Ordered(m)'
  BY DEF MailInOrder, Ordered, Here
<1>1. Ordered(m)
  BY DEF MailInOrder, Ordered, Here
<1>2. pc'[Worker(m)] \in {"putLock", "put"} <=> pc[Worker(m)] \in {"putLock", "put"}
  BY ThreadKinds DEF TypeOK
<1>3. Way(m)' = Way(m)
  BY <1>2, HandsUnchanged DEF Way
<1> QED BY <1>1, <1>3, SameOrder DEF Here

(* Network::Send puts the packet at the end of a socket, or nowhere. *)
LEMMA NetworkSendOrder ==
    ASSUME TypeOK, InPlace, Exact, MailInOrder, NEW t \in Threads, NetworkSend(t)
    PROVE  MailInOrder'
<1> DEFINE to == mail[t].to
           x == mail[t]
<1> SUFFICES ASSUME NEW m \in Machines PROVE Ordered(m)'
  BY DEF MailInOrder, Ordered, Here
<1>1. /\ Ordered(m) /\ x \in Mail
  BY DEF MailInOrder, Ordered, Here, TypeOK
<1>2. /\ pc[t] = "send" /\ pc' = [pc EXCEPT ![t] = "messageSent"]
      /\ inbox' = inbox
      /\ UNCHANGED <<taken, list, mail>>
  BY DEF NetworkSend, Goto
<1>3. t \in Clients
  BY <1>2, WhoIsWhere DEF ClientPlaces
<1>4. InHand(m)' = InHand(m) /\ inbox'[m] = inbox[m]
      /\ \A b \in Boxes : Here(m, b)' = Here(m, b)
  <2>1. pc'[Worker(m)] = pc[Worker(m)]
    BY <1>2, <1>3, ThreadKinds DEF TypeOK
  <2>2. inbox'[m] = inbox[m]
    BY <1>2, <1>3, ThreadKinds DEF TypeOK
  <2> QED BY <1>2, <2>1, <2>2, HandsUnchanged DEF Here
<1>5. \/ socket' = socket /\ accepted' = accepted
      \/ /\ socket' = [socket EXCEPT ![to] = Append(@, x)]
         /\ accepted' = [accepted EXCEPT ![to] = Append(@, x)]
  BY DEF NetworkSend, SendToSocket
<1> HIDE DEF to, x
<1>6. CASE socket'[m] = socket[m] /\ accepted'[m] = accepted[m]
  BY <1>1, <1>4, <1>6, SameOrder DEF Way
<1>7. CASE socket'[m] = Append(socket[m], x) /\ accepted'[m] = Append(accepted[m], x)
  <2> DEFINE h == InHand(m)
             i == inbox[m]
             q == socket[m]
  <2>1. h \in Seq(Mail) /\ i \in Seq(Mail) /\ q \in Seq(Mail) /\ i \o q \in Seq(Mail)
    BY WayType
  <2>2. Way(m) = h \o (i \o q) /\ Way(m)' = h \o (i \o Append(q, x))
    BY <1>4, <1>7 DEF Way
  <2> HIDE DEF h, i, q
  <2>3. i \o Append(q, x) = Append(i \o q, x) /\ h \o Append(i \o q, x) = Append(h \o (i \o q), x)
    BY <1>1, <2>1, AddedElement
  <2>4. Way(m)' = Append(Way(m), x)
    BY <2>2, <2>3
  <2> QED BY <1>1, <1>4, <1>7, <2>4, SentInOrder
<1>8. \/ socket'[m] = socket[m] /\ accepted'[m] = accepted[m]
      \/ socket'[m] = Append(socket[m], x) /\ accepted'[m] = Append(accepted[m], x)
  BY <1>5 DEF TypeOK
<1> QED BY <1>6, <1>7, <1>8

(* The interrupt moves a packet from the socket to the inbox, which was    *)
(* empty.                                                                  *)
LEMMA CheckPktAvailOrder ==
    ASSUME TypeOK, MailInOrder, NEW n \in Machines, CheckPktAvail(n)
    PROVE  MailInOrder'
<1> SUFFICES ASSUME NEW m \in Machines PROVE Ordered(m)'
  BY DEF MailInOrder, Ordered, Here
<1>1. /\ Ordered(m) /\ UNCHANGED <<taken, list, mail, pc, accepted>>
      /\ inbox[n] = <<>> /\ inbox' = [inbox EXCEPT ![n] = <<Head(socket[n])>>]
      /\ socket[n] # <<>> /\ socket' = [socket EXCEPT ![n] = Tail(@)]
  BY DEF MailInOrder, Ordered, Here, CheckPktAvail, PollSocket, ReadFromSocket, hist
<1>2. InHand(m)' = InHand(m) /\ \A b \in Boxes : Here(m, b)' = Here(m, b)
  BY <1>1 DEF InHand, Here
<1>3. CASE m # n
  <2>1. inbox'[m] = inbox[m] /\ socket'[m] = socket[m]
    BY <1>1, <1>3 DEF TypeOK
  <2> QED BY <1>1, <1>2, <2>1, SameOrder DEF Way
<1>4. CASE m = n
  <2>1. /\ <<Head(socket[m])>> \in Seq(Mail) /\ socket[m] \in Seq(Mail)
        /\ socket'[m] = Tail(socket[m])
    BY <1>1, <1>4 DEF TypeOK
  <2>2. inbox'[m] = <<Head(socket[m])>>
    BY <1>1, <1>4, <2>1, InboxEffect
  <2>3. <<Head(socket[m])>> \o Tail(socket[m]) = <<>> \o socket[m]
    BY <1>1, <1>4, <2>1
  <2>4. Way(m)' = Way(m)
    BY <1>1, <1>2, <1>4, <2>1, <2>2, <2>3 DEF Way
  <2> QED BY <1>1, <1>2, <2>4, SameOrder
<1> QED BY <1>3, <1>4

(* PostalDelivery moves it from the inbox to the worker's hands. *)
LEMMA PostalDeliveryOrder ==
    ASSUME TypeOK, InPlace, Exact, MailInOrder, NEW t \in Threads, PostalDelivery(t)
    PROVE  MailInOrder'
<1> DEFINE n == t[1]
<1> SUFFICES ASSUME NEW m \in Machines PROVE Ordered(m)'
  BY DEF MailInOrder, Ordered, Here
<1>1. /\ Ordered(m) /\ UNCHANGED <<taken, list, socket, accepted>>
      /\ pc[t] = "receive" /\ pc' = [pc EXCEPT ![t] = "putLock"]
      /\ inbox' = [inbox EXCEPT ![n] = <<>>]
      /\ inbox[n] # <<>> /\ mail' = [mail EXCEPT ![t] = Head(inbox[n])]
  BY PostalDeliveryExact DEF MailInOrder, Ordered, Here, PostalDelivery, Goto, NetworkReceive, hist
<1>2. t = Worker(n) /\ n \in Machines /\ Len(inbox[n]) <= 1
  BY <1>1, WhoIsWhere, ThreadKinds DEF WorkerPlaces, Exact, InboxExact
<1>3. \A b \in Boxes : Here(m, b)' = Here(m, b)
  BY <1>1 DEF Here
<1>4. <<>> \in Seq(Mail)
  OBVIOUS
<1>5. /\ inbox'[n] = <<>>
      /\ \A k \in Machines : k # n => inbox'[k] = inbox[k]
  BY <1>1, <1>2, <1>4, InboxEffect
<1>6. /\ pc'[t] = "putLock" /\ mail'[t] = Head(inbox[n])
      /\ \A u \in Threads : u # t => pc'[u] = pc[u] /\ mail'[u] = mail[u]
  BY <1>1 DEF TypeOK
<1> HIDE DEF n
<1>7. CASE m # n
  <2>1. InHand(m)' = InHand(m)
    BY <1>2, <1>6, <1>7, ThreadKinds DEF InHand
  <2>2. Way(m)' = Way(m)
    BY <1>1, <1>5, <1>7, <2>1 DEF Way
  <2> QED BY <1>1, <1>3, <2>2, SameOrder
<1>8. CASE m = n
  <2> DEFINE q == inbox[m]
  <2>1. InHand(m) = <<>> /\ InHand(m)' = <<Head(q)>>
    BY <1>1, <1>2, <1>6, <1>8 DEF InHand
  <2>2. q \in Seq(Mail) /\ q # <<>> /\ Len(q) <= 1 /\ socket[m] \in Seq(Mail)
    BY <1>1, <1>2, <1>8 DEF TypeOK
  <2>3. Way(m) = <<>> \o (q \o socket[m]) /\ Way(m)' = <<Head(q)>> \o (<<>> \o socket[m])
    BY <1>1, <1>5, <1>8, <2>1 DEF Way
  <2> HIDE DEF q
  <2>4. q = <<Head(q)>> /\ Head(q) \in Mail
    BY <2>2, OneElement
  <2>5. /\ <<>> \o socket[m] = socket[m]
        /\ <<>> \o (q \o socket[m]) = q \o socket[m]
    BY <2>2, EmptyConcat
  <2>6. Way(m)' = Way(m)
    BY <2>3, <2>4, <2>5
  <2> QED BY <1>1, <1>3, <2>6, SameOrder
<1> QED BY <1>7, <1>8

(* Put moves it from there to the end of the list of its mailbox. *)
LEMMA PutOrder ==
    ASSUME TypeOK, InPlace, MailInOrder, NEW t \in Threads, Put(t)
    PROVE  MailInOrder'
<1> DEFINE n == t[1]
           x == mail[t]
<1> SUFFICES ASSUME NEW m \in Machines PROVE Ordered(m)'
  BY DEF MailInOrder, Ordered, Here
<1>1. /\ Ordered(m) /\ UNCHANGED <<taken, socket, accepted, inbox, sendDue, mail>>
      /\ pc[t] = "put" /\ pc' = [pc EXCEPT ![t] = "putRelease"]
      /\ list' = [list EXCEPT ![<<n, x.box>>] = Append(@, x)]
  BY DEF MailInOrder, Ordered, Here, Put, Goto, hist
<1>2. t = Worker(n) /\ n \in Machines /\ x \in Mail /\ x.box \in Boxes
  BY <1>1, WhoIsWhere, ThreadKinds DEF WorkerPlaces, TypeOK, Mail
<1>3. pc'[t] = "putRelease" /\ \A u \in Threads : u # t => pc'[u] = pc[u]
  BY <1>1 DEF TypeOK
<1>4. ASSUME NEW b \in Boxes
      PROVE  /\ taken[<<m, b>>] \in Seq(Mail) /\ list[<<m, b>>] \in Seq(Mail)
             /\ list'[<<m, b>>] = IF m = n /\ b = x.box THEN Append(list[<<m, b>>], x)
                                                       ELSE list[<<m, b>>]
  BY <1>1, <1>2 DEF TypeOK
<1> HIDE DEF n, x
<1>5. CASE m # n
  <2>1. InHand(m)' = InHand(m)
    BY <1>1, <1>2, <1>3, <1>5, ThreadKinds DEF InHand
  <2>2. \A b \in Boxes : Here(m, b)' = Here(m, b)
    BY <1>1, <1>4, <1>5 DEF Here
  <2>3. Way(m)' = Way(m)
    BY <1>1, <2>1 DEF Way
  <2> QED BY <1>1, <2>2, <2>3, SameOrder
<1>6. CASE m = n
  <2> DEFINE w == inbox[m] \o socket[m]
  <2>1. InHand(m) = <<x>> /\ InHand(m)' = <<>>
    BY <1>1, <1>2, <1>3, <1>6 DEF InHand, x
  <2>2. w \in Seq(Mail)
    BY WayType
  <2>3. Way(m) = <<x>> \o w /\ Way(m)' = <<>> \o w
    BY <1>1, <2>1 DEF Way
  <2> HIDE DEF w
  <2>4. Way(m)' = w
    BY <2>2, <2>3, EmptyConcat
  <2>5. ASSUME NEW b \in Boxes
        PROVE  /\ Here(m, b) \in Seq(Mail)
               /\ Here(m, b)' = IF b = x.box THEN Append(Here(m, b), x) ELSE Here(m, b)
    <3>1. Here(m, b)' = taken[<<m, b>>] \o list'[<<m, b>>]
      BY <1>1 DEF Here
    <3>2. Here(m, b) = taken[<<m, b>>] \o list[<<m, b>>]
      BY DEF Here
    <3>3. Here(m, b) \in Seq(Mail)
      BY <1>4, <3>2
    <3>4. CASE b = x.box
      <4>1. list'[<<m, b>>] = Append(list[<<m, b>>], x)
        BY <1>4, <1>6, <3>4
      <4> DEFINE q == taken[<<m, b>>]
                 r == list[<<m, b>>]
      <4>2. q \in Seq(Mail) /\ r \in Seq(Mail) /\ Here(m, b)' = q \o Append(r, x)
            /\ Here(m, b) = q \o r
        BY <1>4, <3>1, <3>2, <4>1
      <4> HIDE DEF q, r
      <4>3. q \o Append(r, x) = Append(q \o r, x)
        BY <1>2, <4>2, AddedElement
      <4>4. Here(m, b)' = Append(Here(m, b), x)
        BY <4>2, <4>3
      <4> QED BY <3>3, <3>4, <4>4, Zenon
    <3>5. CASE b # x.box
      <4>1. list'[<<m, b>>] = list[<<m, b>>]
        BY <1>4, <3>5
      <4> QED BY <3>1, <3>2, <3>3, <3>5, <4>1, Zenon
    <3> QED BY <3>4, <3>5, Zenon
  <2> QED BY <1>1, <1>2, <2>2, <2>3, <2>4, <2>5, PutInOrder
<1> QED BY <1>5, <1>6

(* Look takes the head of a list. *)
LEMMA LookOrder ==
    ASSUME TypeOK, InPlace, MailInOrder, NEW t \in Clients, at[t] \in DOMAIN program[t], Look(t)
    PROVE  MailInOrder'
<1> DEFINE n == t[1]
           c == program[t][at[t]].box
           q == list[<<n, c>>]
<1> SUFFICES ASSUME NEW m \in Machines PROVE Ordered(m)'
  BY DEF MailInOrder, Ordered, Here
<1>1. /\ Ordered(m) /\ UNCHANGED <<socket, accepted, inbox, sendDue>>
      /\ pc' = [pc EXCEPT ![t] = "got"]
      /\ q # <<>> /\ list' = [list EXCEPT ![<<n, c>>] = Tail(@)]
      /\ taken' = [taken EXCEPT ![<<n, c>>] = Append(@, Head(q))]
      /\ mail' = [mail EXCEPT ![t] = Head(q)]
  BY DEF MailInOrder, Ordered, Here, Look, Take, Goto
<1>2. n \in Machines /\ c \in Boxes
  BY ThreadKinds, CallType
<1>3. Way(m)' = Way(m)
  <2>1. pc'[Worker(m)] = pc[Worker(m)] /\ mail'[Worker(m)] = mail[Worker(m)]
    BY <1>1, ThreadKinds DEF TypeOK
  <2>2. InHand(m)' = InHand(m)
    BY <2>1 DEF InHand
  <2> QED BY <1>1, <2>2 DEF Way
<1>4. ASSUME NEW b \in Boxes PROVE Here(m, b)' = Here(m, b)
  <2>1. taken[<<m, b>>] \in Seq(Mail) /\ list[<<m, b>>] \in Seq(Mail)
    BY DEF TypeOK
  <2>2. CASE m = n /\ b = c
    <3>1. /\ list'[<<m, b>>] = Tail(list[<<m, b>>])
          /\ taken'[<<m, b>>] = Append(taken[<<m, b>>], Head(list[<<m, b>>]))
      BY <1>1, <1>2, <2>2 DEF TypeOK
    <3>2. list[<<m, b>>] # <<>>
      BY <1>1, <2>2
    <3> QED BY <2>1, <3>1, <3>2, MovedElement DEF Here
  <2>3. CASE ~(m = n /\ b = c)
    BY <1>1, <1>2, <2>3 DEF Here, TypeOK
  <2> QED BY <2>2, <2>3
<1> QED BY <1>1, <1>3, <1>4, SameOrder

(* Every step keeps the mail in order. *)
LEMMA NextOrder ==
    ASSUME TypeOK, InPlace, Exact, MailInOrder, [Next]_vars
    PROVE  MailInOrder'
<1> USE DEF ClientPlaces, WorkerPlaces
<1> DEFINE Still == UNCHANGED <<taken, list, accepted, inbox, sendDue, socket>>
           MailStays == \A m \in Machines : mail'[Worker(m)] = mail[Worker(m)]
<1>1. ASSUME UNCHANGED vars PROVE MailInOrder'
  BY <1>1, AsideOrder DEF vars
<1>2. ASSUME NEW m \in Machines, Boot(m) PROVE MailInOrder'
  BY <1>2, AsideOrder DEF Boot, hist
<1>3. ASSUME NEW m \in Machines, SendDone(m) PROVE MailInOrder'
  <2> SUFFICES ASSUME NEW n \in Machines PROVE Ordered(n)'
    BY DEF MailInOrder, Ordered, Here
  <2>1. Ordered(n) /\ UNCHANGED <<taken, list, accepted, socket, pc, mail>>
    BY <1>3 DEF MailInOrder, Ordered, Here, SendDone, hist
  <2>2. inbox'[n] = inbox[n]
    BY <1>3 DEF SendDone, TypeOK
  <2> QED BY <2>1, <2>2, SameOrder DEF Way, InHand, Here
<1>4. ASSUME NEW m \in Machines, CheckPktAvail(m) PROVE MailInOrder'
  BY <1>4, CheckPktAvailOrder
<1>5. ASSUME NEW t \in Threads, Enter(t) PROVE MailInOrder'
  <2>1. UNCHANGED <<hist, status, inbox, sendDue, socket, list, at, mail>>
    BY <1>5, EnterEffect
  <2>2. PICK p \in ClientPlaces \union WorkerPlaces :
          /\ pc' = [pc EXCEPT ![t] = p]
          /\ t \in Clients \/ (p \in {"putLock", "put"} <=> pc[t] \in {"putLock", "put"})
    BY <1>5, EnterEffect
  <2> QED BY <2>1, <2>2, AsideOrder DEF hist
<1>6. ASSUME NEW t \in Threads, EnterBlocks(t) PROVE MailInOrder'
  BY <1>6, AsideOrder DEF EnterBlocks, hist
<1>7. ASSUME NEW t \in Threads, NEW from \in ClientPlaces, NEW p \in ClientPlaces,
             Goto(t, from, p), Still,
             mail' = mail \/ \E x : mail' = [mail EXCEPT ![t] = x]
      PROVE  MailInOrder'
  <2>1. t \in Clients /\ pc' = [pc EXCEPT ![t] = p]
    BY <1>7, GotoOf
  <2>2. MailStays
    BY <1>7, <2>1, ThreadKinds DEF TypeOK
  <2>3. p \in ClientPlaces \union WorkerPlaces
    OBVIOUS
  <2> QED BY <1>7, <2>1, <2>2, <2>3, AsideOrder
<1>8. ASSUME NEW t \in Threads, ClientStep(t) PROVE MailInOrder'
  <2>1. CASE Call(t)
    <3>1. PICK p \in {"getLock", "sendLock"} : Goto(t, "call", p)
      BY <2>1 DEF Call
    <3>2. Still /\ \E x : mail' = [mail EXCEPT ![t] = x]
      BY <2>1 DEF Call, hist
    <3> QED BY <1>7, <3>1, <3>2
  <2>2. CASE HaltMachine(t)
    BY <1>7, <2>2 DEF HaltMachine, hist
  <2>3. CASE NetworkSend(t)
    BY <2>3, NetworkSendOrder
  <2>4. CASE SendReturns(t)
    BY <1>7, <2>4 DEF SendReturns, hist
  <2>5. CASE t \in Clients /\ at[t] \in DOMAIN program[t] /\ Look(t)
    BY <2>5, LookOrder
  <2>6. CASE LookWait(t)
    BY <1>7, <2>6 DEF LookWait, hist
  <2>7. CASE Woken(t)
    BY <1>7, <2>7 DEF Woken, hist
  <2>8. CASE WokenBlocks(t)
    BY <2>8, AsideOrder DEF WokenBlocks, hist
  <2>9. CASE ReceiveReturns(t)
    BY <1>7, <2>9 DEF ReceiveReturns, hist
  <2> QED BY <1>8, <2>1, <2>2, <2>3, <2>4, <2>5, <2>6, <2>7, <2>8, <2>9 DEF ClientStep
<1>9. ASSUME NEW t \in Threads, WorkerStep(t) PROVE MailInOrder'
  <2>1. CASE PostalDelivery(t)
    BY <2>1, PostalDeliveryOrder
  <2>2. CASE Put(t)
    BY <2>2, PutOrder
  <2>3. CASE PutReturns(t)
    <3>1. /\ Still /\ mail' = mail /\ pc[t] = "putRelease"
          /\ pc' = [pc EXCEPT ![t] = "messageAvailable"]
      BY <2>3 DEF PutReturns, Goto, hist
    <3>2. "messageAvailable" \in ClientPlaces \union WorkerPlaces
      OBVIOUS
    <3> QED BY <3>1, <3>2, AsideOrder
  <2> QED BY <1>9, <2>1, <2>2, <2>3 DEF WorkerStep
<1> QED BY <1>1, <1>2, <1>3, <1>4, <1>5, <1>6, <1>8, <1>9 DEF Next

(* The invariant holds in every state of the post offices. *)
LEMMA Invariant == Spec => []OInv
<1>1. OInv /\ [Next]_vars => OInv'
  BY NextType, NextExact, NextOrder DEF OInv
<1> QED BY InitHolds, <1>1, PTL DEF Spec

-----------------------------------------------------------------------------
(* PostOffice::Send and the network's interrupt handler send one packet of *)
(* a machine at a time, which Network::sendBusy does not see to: for each  *)
(* packet handed to the device one thread sleeps in Send until its own     *)
(* SendDone interrupt, and no interrupt and no unit of messageSent is left *)
(* over.  For any number of machines and of threads that send, whatever    *)
(* their programs, the losses of the network and the order of interrupts.  *)
THEOREM OneSendAtATime == Spec => []OneSend
<1>1. OInv => OneSend
  BY DEF OInv, Exact, SendExact, OneSend
<1> QED BY <1>1, Invariant, PTL

(* Between the wire and the threads that call Receive no mail is lost,     *)
(* doubled, overtaken or put in the wrong box, however many threads send   *)
(* and receive it and whatever the network loses before it is accepted.    *)
THEOREM MailStaysInOrder == Spec => []MailInOrder
<1>1. OInv => MailInOrder
  BY DEF OInv
<1> QED BY <1>1, Invariant, PTL

-----------------------------------------------------------------------------
(* MailTest on two machines.  c has sent its acknowledgement, and its      *)
(* machine did not fail in it.                                             *)
Acknowledging(c) == at[c] > 3 \/ (at[c] = 3 /\ pc[c] \in {"messageSent", "sent"})
Acknowledged(c) == Acknowledging(c) /\ status[c[1]] \in {"up", "halted"}

(* A packet for box b has come to machine m. *)
Arrived(m, b) == \E i \in DOMAIN accepted[m] : accepted[m][i].box = b

(* Where the client c is in its MailTest with d, and what it has in hand. *)
InMailTest(c, d) ==
    /\ program[c] = MailTest(d[1])
    /\ at[c] \in 1 .. 5
    /\ at[c] \in {1, 3} => pc[c] \in {"call", "sendLock", "send", "messageSent", "sent"}
    /\ at[c] \in {2, 4} => pc[c] \in {"call", "getLock", "look", "waiting", "got"}
    /\ at[c] = 5 => pc[c] \in {"call", "halted"}
    /\ at[c] \in {1, 3} /\ pc[c] \in {"sendLock", "send"} =>
         mail[c] = [to |-> d[1], from |-> c[1], box |-> IF at[c] = 1 THEN 0 ELSE 1, reply |-> 1]
    /\ (at[c] = 2 /\ pc[c] = "got") \/ (at[c] = 3 /\ pc[c] = "call") =>
         mail[c].from = d[1] /\ mail[c].reply = 1

(* What c has sent to the machine of d, and what it has got from there. *)
Exchanged(c, d) ==
    /\ (at[c] = 4 /\ pc[c] = "got") \/ at[c] = 5 => Arrived(c[1], 1)
    /\ status[c[1]] = "off" => at[c] = 1 /\ pc[c] = "call"
    /\ status[c[1]] = "halted" => at[c] = 5
    /\ \A i \in DOMAIN accepted[d[1]] :
         /\ accepted[d[1]][i].from = c[1] /\ accepted[d[1]][i].reply = 1
         /\ accepted[d[1]][i].box = 1 => Acknowledged(c)
    /\ reliable /\ Acknowledged(c) => Arrived(d[1], 1)

(* One side of the exchange, and the two sides. *)
Side(c, d) == InMailTest(c, d) /\ Exchanged(c, d)

(* The programs of main's option -o on two machines: nobody else calls.    *)
RunMailTest(c, d) ==
    /\ c[1] # d[1] /\ program[c] = MailTest(d[1]) /\ program[d] = MailTest(c[1])
    /\ \A e \in Clients \ {c, d} : program[e] = <<>>

Talking(c, d) == Side(c, d) /\ Side(d, c) /\ RunMailTest(c, d)

(* What is done elsewhere, as far as c and d can tell. *)
Elsewhere(c, d) ==
    /\ program' = program /\ reliable' = reliable
    /\ at'[c] = at[c] /\ pc'[c] = pc[c] /\ mail'[c] = mail[c]
    /\ status'[c[1]] = status[c[1]] \/ (status[c[1]] = "off" /\ status'[c[1]] = "up")
    /\ accepted'[d[1]] = accepted[d[1]]
    /\ Arrived(c[1], 1) => Arrived(c[1], 1)'

(* What is done elsewhere disturbs nothing that was said of c. *)
LEMMA ElsewhereKeeps ==
    ASSUME NEW c, NEW d, Side(c, d), Elsewhere(c, d)
    PROVE  Side(c, d)'
<1>1. InMailTest(c, d)'
  BY DEF Side, InMailTest, Elsewhere
<1>2. Acknowledging(c)' <=> Acknowledging(c)
  BY DEF Elsewhere, Acknowledging
<1>3. Acknowledged(c)' <=> Acknowledged(c)
  <2>1. CASE status'[c[1]] = status[c[1]]
    BY <1>2, <2>1 DEF Acknowledged
  <2>2. CASE status[c[1]] = "off"
    BY <1>2, <2>2 DEF Acknowledged, Acknowledging, Side, Exchanged
  <2> QED BY <2>1, <2>2 DEF Elsewhere
<1>4. Exchanged(c, d)'
  <2>1. Arrived(d[1], 1)' <=> Arrived(d[1], 1)
    BY DEF Elsewhere, Arrived
  <2>2. status'[c[1]] \in {"off", "halted"} => status'[c[1]] = status[c[1]]
    BY DEF Elsewhere
  <2> QED BY <1>3, <2>1, <2>2 DEF Side, Exchanged, Elsewhere
<1> QED BY <1>1, <1>4 DEF Side

(* The calls of MailTest *)
LEMMA MailTestCalls ==
    ASSUME NEW c, NEW d, InMailTest(c, d)
    PROVE  /\ Len(program[c]) = 5 /\ DOMAIN program[c] = 1 .. 5
           /\ program[c][1] = Send(d[1], 0, 1) /\ program[c][2] = Receive(0)
           /\ program[c][3] = Answer(1) /\ program[c][4] = Receive(1) /\ program[c][5] = Halt
  BY DEF InMailTest, MailTest

(* Mail in a box has been accepted by the machine, for that box. *)
LEMMA InBox ==
    ASSUME TypeOK, MailInOrder, NEW m \in Machines, NEW b \in Boxes, list[<<m, b>>] # <<>>
    PROVE  \E k \in DOMAIN accepted[m] : /\ Head(list[<<m, b>>]) = accepted[m][k]
                                         /\ accepted[m][k].box = b
<1> DEFINE tk == taken[<<m, b>>]
           ls == list[<<m, b>>]
           s == tk \o ls
           q == accepted[m]
           n == Delivered(m)
<1>1. tk \in Seq(Mail) /\ ls \in Seq(Mail) /\ q \in Seq(Mail) /\ Way(m) \in Seq(Mail)
  BY WayType DEF TypeOK
<1>2. IsMailFor(b, q, n, s) /\ n >= 0 /\ n = Len(q) - Len(Way(m))
  BY DEF MailInOrder, Delivered
<1> HIDE DEF tk, ls, q, n
<1>3. Len(tk) + 1 \in DOMAIN s /\ s[Len(tk) + 1] = Head(ls)
  BY <1>1 DEF ls
<1>4. n \in Nat /\ n <= Len(q)
  BY <1>1, <1>2, WayType
<1> HIDE DEF s
<1>5. PICK f \in [DOMAIN s -> 1 .. n] :
        /\ \A k \in 1 .. n : q[k].box = b <=> \E i \in DOMAIN s : f[i] = k
        /\ \A i \in DOMAIN s : s[i] = q[f[i]]
  BY <1>2 DEF IsMailFor
<1>6. PICK k \in 1 .. n : k = f[Len(tk) + 1]
  BY <1>3, <1>5
<1>7. q[k].box = b /\ q[k] = Head(ls) /\ k \in DOMAIN q
  BY <1>1, <1>3, <1>4, <1>5, <1>6
<1> QED BY <1>7 DEF ls, q

(* A step of c that no machine notices. *)
LEMMA QuietStep ==
    ASSUME NEW c, NEW d, Side(c, d), InMailTest(c, d)', UNCHANGED <<hist, status>>,
           Acknowledging(c)' <=> Acknowledging(c), status[c[1]] = "up",
           (at'[c] = 4 /\ pc'[c] = "got") \/ at'[c] = 5 => Arrived(c[1], 1)
    PROVE  Side(c, d)'
<1>1. program' = program /\ reliable' = reliable /\ accepted' = accepted /\ status' = status
  BY DEF hist
<1>2. (Acknowledged(c)' <=> Acknowledged(c)) /\ \A m : Arrived(m, 1)' <=> Arrived(m, 1)
  BY <1>1 DEF Acknowledged, Arrived
<1> QED BY <1>1, <1>2 DEF Side, Exchanged

(* The places of a client, one by one. *)
LEMMA MovedTo ==
    ASSUME TypeOK, NEW c \in Clients, NEW p, pc' = [pc EXCEPT ![c] = p]
    PROVE  pc'[c] = p /\ \A t \in Threads : t # c => pc'[t] = pc[t]
  BY ThreadKinds DEF TypeOK

(* The calls of MailTest make the packets that they should. *)
LEMMA CallTalks ==
    ASSUME OInv, NEW c \in Clients, NEW d \in Clients, Talking(c, d), Call(c)
    PROVE  Side(c, d)'
<1> DEFINE k == program[c][at[c]]
           p == IF k.op = "Receive" THEN "getLock" ELSE "sendLock"
<1>1. /\ TypeOK /\ Side(c, d) /\ InMailTest(c, d) /\ at[c] \in DOMAIN program[c] /\ k.op # "Halt"
      /\ pc[c] = "call" /\ pc' = [pc EXCEPT ![c] = p] /\ status[c[1]] = "up"
      /\ UNCHANGED <<hist, status>> /\ at' = at
      /\ mail' = [mail EXCEPT ![c] =
             CASE k.op = "Send" -> [to |-> k.to, from |-> c[1], box |-> k.box, reply |-> k.reply]
               [] k.op = "Answer" ->
                    [to |-> mail[c].from, from |-> c[1], box |-> mail[c].reply, reply |-> k.reply]
               [] k.op = "Receive" -> mail[c]]
  BY DEF OInv, Talking, Side, Call, Goto, Up
<1>2. c \in Threads /\ pc'[c] = p
  BY <1>1, MovedTo, ThreadKinds
<1>3. at[c] \in 1 .. 4
  <2>1. at[c] # 5
    BY <1>1, MailTestCalls DEF Halt
  <2> QED BY <1>1, <2>1 DEF InMailTest
<1>4. /\ at[c] \in {2, 4} => k.op = "Receive"
      /\ at[c] = 1 => k = [op |-> "Send", to |-> d[1], box |-> 0, reply |-> 1]
      /\ at[c] = 3 => k = [op |-> "Answer", to |-> 0, box |-> 0, reply |-> 1]
  BY <1>1, MailTestCalls DEF Receive, Send, Answer
<1>5. /\ at[c] = 1 => mail'[c] = [to |-> d[1], from |-> c[1], box |-> 0, reply |-> 1]
      /\ at[c] = 3 => mail'[c] = [to |-> d[1], from |-> c[1], box |-> 1, reply |-> 1]
  <2>1. DOMAIN mail = Threads
    BY <1>1 DEF TypeOK
  <2>2. at[c] = 3 => mail[c].from = d[1] /\ mail[c].reply = 1
    BY <1>1 DEF InMailTest
  <2> HIDE DEF k
  <2>3. CASE at[c] = 1
    BY <1>1, <1>2, <1>4, <2>1, <2>3
  <2>4. CASE at[c] = 3
    BY <1>1, <1>2, <1>4, <2>1, <2>2, <2>4
  <2> QED BY <2>3, <2>4
<1>6. /\ at[c] \in {1, 3} => pc'[c] = "sendLock"
      /\ at[c] \in {2, 4} => pc'[c] = "getLock"
  BY <1>2, <1>4
<1> HIDE DEF k, p
<1>7. program' = program
  BY <1>1 DEF hist
<1>8. InMailTest(c, d)'
  <2>1. CASE at[c] \in {1, 3}
    <3>1. pc'[c] = "sendLock" /\ at'[c] = at[c] /\ ~(at[c] \in {2, 4}) /\ at[c] # 5
      BY <1>1, <1>6, <2>1
    <3>2. mail'[c] = [to |-> d[1], from |-> c[1], box |-> IF at[c] = 1 THEN 0 ELSE 1, reply |-> 1]
      BY <1>5, <2>1
    <3> QED BY <1>1, <1>7, <3>1, <3>2, Zenon DEF InMailTest
  <2>2. CASE at[c] \in {2, 4}
    <3>1. pc'[c] = "getLock" /\ at'[c] = at[c] /\ ~(at[c] \in {1, 3}) /\ at[c] # 5 /\ at[c] # 3
      BY <1>1, <1>6, <2>2
    <3> QED BY <1>1, <1>7, <3>1 DEF InMailTest
  <2> QED BY <1>3, <2>1, <2>2
<1>9. Acknowledging(c)' <=> Acknowledging(c)
  BY <1>1, <1>3, <1>6 DEF Acknowledging
<1> QED BY <1>1, <1>3, <1>6, <1>8, <1>9, QuietStep

(* Getting through a semaphore moves c on in its call. *)
LEMMA EnterTalks ==
    ASSUME OInv, NEW c \in Clients, NEW d \in Clients, Talking(c, d), Enter(c)
    PROVE  Side(c, d)'
<1>1. /\ TypeOK /\ InPlace /\ Side(c, d) /\ InMailTest(c, d) /\ status[c[1]] = "up" /\ c \in Threads
      /\ c \notin {Worker(m) : m \in Machines}
  BY ThreadKinds DEF OInv, Talking, Side, Enter, Up
<1>2. /\ UNCHANGED <<hist, status, at, mail>> /\ program' = program
      /\ \E p : /\ pc' = [pc EXCEPT ![c] = p]
                /\ \/ pc[c] = "messageSent" /\ p = "sent"
                   \/ pc[c] = "sendLock" /\ p = "send"
                   \/ pc[c] = "getLock" /\ p = "look"
  BY <1>1, EnterEffect DEF hist
<1>3. \/ pc[c] = "messageSent" /\ pc'[c] = "sent"
      \/ pc[c] = "sendLock" /\ pc'[c] = "send"
      \/ pc[c] = "getLock" /\ pc'[c] = "look"
  BY <1>1, <1>2, MovedTo
<1>4. InMailTest(c, d)'
  BY <1>1, <1>2, <1>3 DEF InMailTest
<1>5. Acknowledging(c)' <=> Acknowledging(c)
  BY <1>2, <1>3 DEF Acknowledging
<1>6. ~(at'[c] = 4 /\ pc'[c] = "got") /\ at'[c] # 5
  BY <1>1, <1>2, <1>3 DEF InMailTest
<1> QED BY <1>1, <1>2, <1>4, <1>5, <1>6, QuietStep

(* The ends of Send and Receive. *)
LEMMA ReturnTalks ==
    ASSUME OInv, NEW c \in Clients, NEW d \in Clients, Talking(c, d),
           SendReturns(c) \/ ReceiveReturns(c)
    PROVE  Side(c, d)'
<1>1. /\ TypeOK /\ Side(c, d) /\ InMailTest(c, d) /\ status[c[1]] = "up"
      /\ UNCHANGED <<hist, status, mail>> /\ pc[c] \in {"sent", "got"}
      /\ pc' = [pc EXCEPT ![c] = "call"] /\ at' = [at EXCEPT ![c] = @ + 1]
  BY DEF OInv, Talking, Side, SendReturns, ReceiveReturns, Goto, Up
<1>2. pc'[c] = "call" /\ at'[c] = at[c] + 1 /\ at[c] \in 1 .. 5 /\ program' = program
  BY <1>1, MovedTo DEF TypeOK, InMailTest, hist
<1>3. (pc[c] = "sent" /\ at[c] \in {1, 3}) \/ (pc[c] = "got" /\ at[c] \in {2, 4})
  BY <1>1, <1>2 DEF InMailTest
<1>4. InMailTest(c, d)'
  BY <1>1, <1>2, <1>3 DEF InMailTest
<1>5. Acknowledging(c)' <=> Acknowledging(c)
  BY <1>2, <1>3 DEF Acknowledging
<1>6. at'[c] = 5 => Arrived(c[1], 1)
  BY <1>1, <1>2, <1>3 DEF Side, Exchanged
<1> QED BY <1>1, <1>2, <1>4, <1>5, <1>6, QuietStep

(* What MailTest receives comes from the other side. *)
LEMMA LookTalks ==
    ASSUME OInv, NEW c \in Clients, NEW d \in Clients, Talking(c, d), Look(c),
           at[c] \in DOMAIN program[c]
    PROVE  Side(c, d)'
<1> DEFINE b == program[c][at[c]].box
           ls == list[<<c[1], b>>]
<1>1. /\ TypeOK /\ MailInOrder /\ Side(c, d) /\ InMailTest(c, d) /\ status[c[1]] = "up"
      /\ Exchanged(d, c)
      /\ UNCHANGED <<program, reliable, accepted, status, at>> /\ pc[c] = "look"
      /\ pc' = [pc EXCEPT ![c] = "got"] /\ ls # <<>>
      /\ mail' = [mail EXCEPT ![c] = Head(ls)]
  BY DEF OInv, Talking, Side, Look, Take, Goto, Up
<1>2. pc'[c] = "got" /\ mail'[c] = Head(ls) /\ at[c] \in {2, 4}
  <2>1. at[c] \in {2, 4} /\ c \in Threads
    BY <1>1, ThreadKinds DEF InMailTest
  <2> QED BY <1>1, <2>1, MovedTo DEF TypeOK
<1>3. (at[c] = 2 => b = 0) /\ (at[c] = 4 => b = 1) /\ b \in Boxes /\ c[1] \in Machines
  BY <1>1, MailTestCalls, CallType, ThreadKinds DEF Receive
<1>4. PICK k \in DOMAIN accepted[c[1]] :
        Head(ls) = accepted[c[1]][k] /\ accepted[c[1]][k].box = b
  BY <1>1, <1>3, InBox
<1>5. mail'[c].from = d[1] /\ mail'[c].reply = 1
  BY <1>1, <1>2, <1>4 DEF Exchanged
<1>6. at[c] = 4 => Arrived(c[1], 1)
  BY <1>3, <1>4 DEF Arrived
<1> HIDE DEF b, ls
<1>7. InMailTest(c, d)'
  BY <1>1, <1>2, <1>5 DEF InMailTest
<1>8. Acknowledging(c)' <=> Acknowledging(c)
  BY <1>1, <1>2 DEF Acknowledging
<1>9. (Acknowledged(c)' <=> Acknowledged(c)) /\ \A m : Arrived(m, 1)' <=> Arrived(m, 1)
  BY <1>1, <1>8 DEF Acknowledged, Arrived
<1>10. Exchanged(c, d)'
  BY <1>1, <1>2, <1>6, <1>9 DEF Exchanged, Side
<1> QED BY <1>7, <1>10 DEF Side

(* Waiting for mail. *)
LEMMA WaitTalks ==
    ASSUME OInv, NEW c \in Clients, NEW d \in Clients, Talking(c, d),
           LookWait(c) \/ Woken(c)
    PROVE  Side(c, d)'
<1>1. /\ TypeOK /\ Side(c, d) /\ InMailTest(c, d) /\ status[c[1]] = "up"
      /\ UNCHANGED <<hist, status, mail, at>>
      /\ \/ pc[c] = "look" /\ pc' = [pc EXCEPT ![c] = "waiting"]
         \/ pc[c] = "waiting" /\ pc' = [pc EXCEPT ![c] = "look"]
  BY DEF OInv, Talking, Side, LookWait, Woken, Goto, Up
<1>2. /\ {pc[c], pc'[c]} \subseteq {"look", "waiting"} /\ program' = program
  BY <1>1, MovedTo DEF hist
<1>3. InMailTest(c, d)' /\ at[c] \in {2, 4}
  BY <1>1, <1>2 DEF InMailTest
<1>4. Acknowledging(c)' <=> Acknowledging(c)
  BY <1>1, <1>2 DEF Acknowledging
<1> QED BY <1>1, <1>2, <1>3, <1>4, QuietStep

(* Halting, at the end of MailTest. *)
LEMMA HaltTalks ==
    ASSUME OInv, NEW c \in Clients, NEW d \in Clients, Talking(c, d), HaltMachine(c)
    PROVE  Side(c, d)'
<1>1. /\ TypeOK /\ Side(c, d) /\ InMailTest(c, d) /\ Exchanged(c, d) /\ status[c[1]] = "up"
      /\ UNCHANGED <<hist, mail, at>> /\ at[c] \in DOMAIN program[c] /\ program[c][at[c]] = Halt
      /\ pc' = [pc EXCEPT ![c] = "halted"] /\ status' = [status EXCEPT ![c[1]] = "halted"]
  BY DEF OInv, Talking, Side, HaltMachine, Goto, Up, DeAssignNameToSocket
<1>2. /\ pc'[c] = "halted" /\ status'[c[1]] = "halted"
      /\ program' = program /\ accepted' = accepted /\ reliable' = reliable
  BY <1>1, MovedTo, ThreadKinds DEF hist, TypeOK
<1>3. at[c] = 5
  <2>1. /\ program[c][1].op = "Send" /\ program[c][2].op = "Receive"
        /\ program[c][3].op = "Answer" /\ program[c][4].op = "Receive" /\ Halt.op = "Halt"
    <3>1. /\ program[c][1] = Send(d[1], 0, 1) /\ program[c][2] = Receive(0)
          /\ program[c][3] = Answer(1) /\ program[c][4] = Receive(1)
      BY <1>1, MailTestCalls
    <3>2. /\ \A u, v, w : Send(u, v, w).op = "Send" /\ Receive(u).op = "Receive"
          /\ \A u : Answer(u).op = "Answer"
          /\ Halt.op = "Halt"
      BY DEF Halt, Send, Receive, Answer
    <3> QED BY <3>1, <3>2
  <2>2. at[c] \in 1 .. 5 /\ program[c][at[c]].op = "Halt"
    BY <1>1, <2>1 DEF InMailTest
  <2> QED BY <2>1, <2>2
<1>4. InMailTest(c, d)'
  BY <1>1, <1>2, <1>3 DEF InMailTest
<1>5. Acknowledged(c) /\ Acknowledged(c)' /\ \A m : Arrived(m, 1)' <=> Arrived(m, 1)
  BY <1>1, <1>2, <1>3 DEF Acknowledged, Acknowledging, Arrived
<1>6. Exchanged(c, d)'
  BY <1>1, <1>2, <1>3, <1>5 DEF Exchanged
<1> QED BY <1>4, <1>6 DEF Side

(* The packet comes to the other machine, or is lost, or c's machine fails. *)
LEMMA NetworkSendTalks ==
    ASSUME OInv, NEW c \in Clients, NEW d \in Clients, Talking(c, d), NetworkSend(c)
    PROVE  Side(c, d)' /\ Elsewhere(d, c)
<1> DEFINE m == c[1]
           n == d[1]
           e == mail[c]
<1>1. /\ TypeOK /\ InMailTest(c, d) /\ Exchanged(c, d) /\ status[m] = "up" /\ m # n
      /\ UNCHANGED <<program, reliable, at, mail>> /\ pc[c] = "send"
      /\ pc' = [pc EXCEPT ![c] = "messageSent"] /\ m \in Machines /\ n \in Machines
      /\ \/ ~reliable /\ status' = status /\ accepted' = accepted
         \/ SendToSocket(m, e.to, e)
  BY ThreadKinds DEF OInv, Talking, RunMailTest, Side, NetworkSend, Goto, Up
<1>2. pc'[c] = "messageSent" /\ pc'[d] = pc[d]
  <2>1. TypeOK /\ c # d /\ d \in Threads /\ pc' = [pc EXCEPT ![c] = "messageSent"]
    BY <1>1, ThreadKinds
  <2> QED BY <2>1, MovedTo
<1>3. /\ at[c] \in {1, 3}
      /\ e = [to |-> n, from |-> m, box |-> IF at[c] = 1 THEN 0 ELSE 1, reply |-> 1]
  <2>1. at[c] \in {1, 3}
    <3>1. InMailTest(c, d) /\ pc[c] = "send"
      BY <1>1
    <3>2. at[c] \in 1 .. 5 /\ at[c] \notin {2, 4} /\ at[c] # 5
      BY <3>1, Zenon DEF InMailTest
    <3> QED BY <3>2
  <2>2. pc[c] \in {"sendLock", "send"}
    BY <1>1
  <2> QED BY <1>1, <2>1, <2>2, Zenon DEF InMailTest
<1>5. ~Acknowledging(c) /\ (Acknowledging(c)' <=> at[c] = 3)
  <2>1. at'[c] = at[c] /\ pc[c] = "send" /\ (at[c] = 1 \/ at[c] = 3)
    BY <1>1, <1>3
  <2> QED BY <1>2, <2>1 DEF Acknowledging
<1>6. InMailTest(c, d)'
  BY <1>1, <1>2, <1>3 DEF InMailTest
<1>7. \A i \in DOMAIN accepted[n] : /\ accepted[n][i].from = m /\ accepted[n][i].reply = 1
                                    /\ accepted[n][i].box # 1
  BY <1>1, <1>5 DEF Exchanged, Acknowledged
<1>8. CASE ~reliable /\ status' = status /\ accepted' = accepted
  <2>0. /\ pc'[c] # "got" /\ at'[c] = at[c] /\ at'[c] # 5 /\ status'[m] = "up"
        /\ accepted' = accepted /\ ~reliable'
    <3>1. at' = at /\ reliable' = reliable /\ status[m] = "up"
      BY <1>1
    <3>2. at[c] # 5
      BY <1>3
    <3> QED BY <1>2, <1>8, <3>1, <3>2
  <2>1. Exchanged(c, d)'
    BY <1>7, <2>0 DEF Exchanged
  <2>2. Elsewhere(d, c)
    BY <1>1, <1>2, <1>8 DEF Elsewhere, Arrived
  <2> QED BY <1>6, <2>1, <2>2 DEF Side
<1>9. CASE SendToSocket(m, e.to, e)
  <2>0. e.to = n
    BY <1>3
  <2>1. CASE status' = status /\ accepted' = [accepted EXCEPT ![n] = Append(@, e)]
    <3> DEFINE q == accepted[n]
               r == accepted'[n]
    <3>1. q \in Seq(Mail) /\ e \in Mail /\ r = Append(q, e) /\ accepted'[m] = accepted[m]
      BY <1>1, <2>1, ThreadKinds DEF TypeOK
    <3>2. /\ DOMAIN r = 1 .. Len(q) + 1 /\ r[Len(q) + 1] = e
          /\ \A i \in DOMAIN q : r[i] = q[i] /\ i \in DOMAIN r
          /\ \A i \in DOMAIN r : i \in DOMAIN q \/ i = Len(q) + 1
      BY <3>1
    <3>3. at[c] = 3 => Acknowledged(c)'
      BY <1>1, <1>5, <2>1 DEF Acknowledged
    <3>4. /\ e.from = m /\ e.reply = 1
          /\ (e.box = 1 <=> at[c] = 3)
      BY <1>3
    <3>5. Len(q) + 1 \in DOMAIN r
      <4>1. Len(q) \in Nat
        BY <3>1
      <4> QED BY <3>2, <4>1
    <3> HIDE DEF q, r
    <3>6. \A i \in DOMAIN r : /\ r[i].from = m /\ r[i].reply = 1
                              /\ r[i].box = 1 => Acknowledged(c)'
      BY <1>7, <3>2, <3>3, <3>4 DEF q
    <3>7. at[c] = 3 => \E i \in DOMAIN r : r[i].box = 1
      BY <3>2, <3>4, <3>5
    <3>8. (Acknowledged(c)' => Arrived(n, 1)') /\ (Arrived(m, 1)' <=> Arrived(m, 1))
      BY <1>5, <3>1, <3>7 DEF Acknowledged, Arrived, r
    <3>9. Exchanged(c, d)'
      BY <1>1, <1>2, <1>3, <2>1, <3>6, <3>8 DEF Exchanged, r
    <3>10. Elsewhere(d, c)
      <4>1. Arrived(n, 1) => Arrived(n, 1)'
        BY <3>2 DEF Arrived, q, r
      <4> QED BY <1>1, <1>2, <2>1, <3>1, <4>1 DEF Elsewhere
    <3> QED BY <1>6, <3>9, <3>10 DEF Side
  <2>2. CASE status' = [status EXCEPT ![m] = "ASSERT sendto"] /\ accepted' = accepted
    <3>1. status'[m] = "ASSERT sendto" /\ status'[n] = status[n] /\ ~Acknowledged(c)'
      BY <1>1, <2>2 DEF TypeOK, Acknowledged
    <3>2. Arrived(m, 1)' <=> Arrived(m, 1)
      BY <2>2 DEF Arrived
    <3>3. Exchanged(c, d)'
      BY <1>1, <1>2, <1>3, <1>7, <2>2, <3>1, <3>2 DEF Exchanged
    <3>4. Elsewhere(d, c)
      BY <1>1, <1>2, <2>2, <3>1 DEF Elsewhere, Arrived
    <3> QED BY <1>6, <3>3, <3>4 DEF Side
  <2> QED BY <1>9, <2>0, <2>1, <2>2 DEF SendToSocket
<1> QED BY <1>1, <1>8, <1>9

-----------------------------------------------------------------------------
(* A step that leaves c and what has come to the two machines alone. *)
LEMMA Untouched ==
    ASSUME NEW c, NEW d, UNCHANGED <<program, reliable, accepted>>,
           at'[c] = at[c], pc'[c] = pc[c], mail'[c] = mail[c],
           status'[c[1]] = status[c[1]] \/ (status[c[1]] = "off" /\ status'[c[1]] = "up")
    PROVE  Elsewhere(c, d)
  BY DEF Elsewhere, Arrived

(* The places of the other threads stay. *)
LEMMA OthersStay ==
    ASSUME TypeOK, NEW c \in Clients, NEW t \in Threads, t # c
    PROVE  /\ \A p : pc' = [pc EXCEPT ![t] = p] => pc'[c] = pc[c]
           /\ \A x : mail' = [mail EXCEPT ![t] = x] => mail'[c] = mail[c]
           /\ at' = [at EXCEPT ![t] = @ + 1] => at'[c] = at[c]
           /\ \A x : status' = [status EXCEPT ![t[1]] = x] =>
                /\ status'[t[1]] = x
                /\ t[1] # c[1] => status'[c[1]] = status[c[1]]
  BY ThreadKinds DEF TypeOK

(* What another thread does, its NetworkSend aside. *)
LEMMA ByAnother ==
    ASSUME OInv, NEW c \in Clients, NEW d, NEW t \in Threads, t # c,
           \/ Enter(t) \/ EnterBlocks(t) \/ WorkerStep(t)
           \/ Call(t) \/ SendReturns(t) \/ (HaltMachine(t) /\ t[1] # c[1])
           \/ Look(t) \/ LookWait(t) \/ Woken(t) \/ WokenBlocks(t) \/ ReceiveReturns(t)
    PROVE  Elsewhere(c, d)
<1>0. TypeOK /\ InPlace /\ t[1] \in Machines
  BY ThreadKinds DEF OInv
<1>1. ASSUME UNCHANGED <<program, reliable, accepted>>,
             pc' = pc \/ \E p : pc' = [pc EXCEPT ![t] = p],
             at' = at \/ at' = [at EXCEPT ![t] = @ + 1],
             mail' = mail \/ \E x : mail' = [mail EXCEPT ![t] = x],
             status' = status \/ (t[1] # c[1] /\ \E x : status' = [status EXCEPT ![t[1]] = x])
      PROVE  Elsewhere(c, d)
  <2>1. pc'[c] = pc[c] /\ at'[c] = at[c] /\ mail'[c] = mail[c] /\ status'[c[1]] = status[c[1]]
    BY <1>0, <1>1, OthersStay
  <2> QED BY <1>1, <2>1, Untouched
<1>2. CASE Enter(t) \/ EnterBlocks(t)
  BY <1>1, <1>2 DEF Enter, EnterBlocks, hist
<1>3. CASE Call(t)
  BY <1>1, <1>3 DEF Call, Goto, hist
<1>4. CASE SendReturns(t) \/ ReceiveReturns(t)
  BY <1>1, <1>4 DEF SendReturns, ReceiveReturns, Goto, hist
<1>5. CASE HaltMachine(t) /\ t[1] # c[1]
  BY <1>1, <1>5 DEF HaltMachine, DeAssignNameToSocket, Goto, hist
<1>6. CASE Look(t)
  BY <1>1, <1>6 DEF Look, Take, Goto
<1>7. CASE LookWait(t) \/ Woken(t) \/ WokenBlocks(t)
  BY <1>1, <1>7 DEF LookWait, Woken, WokenBlocks, Goto, hist
<1>8. CASE PostalDelivery(t)
  <2>1. mail' = mail \/ \E x : mail' = [mail EXCEPT ![t] = x]
    BY <1>8 DEF PostalDelivery
  <2> QED BY <1>1, <1>8, <2>1 DEF PostalDelivery, Goto, hist
<1>9. CASE Put(t) \/ PutReturns(t)
  BY <1>1, <1>9 DEF Put, PutReturns, Goto, hist
<1> QED BY <1>2, <1>3, <1>4, <1>5, <1>6, <1>7, <1>8, <1>9 DEF WorkerStep

(* A step of one of the two, as each of them sees it. *)
LEMMA OneTalks ==
    ASSUME OInv, NEW c \in Clients, NEW d \in Clients, Talking(c, d),
           Enter(c) \/ EnterBlocks(c) \/ ClientStep(c)
    PROVE  Side(c, d)' /\ Side(d, c)'
<1>1. c \in Threads /\ c # d /\ c[1] # d[1] /\ Side(c, d) /\ Side(d, c)
  BY ThreadKinds DEF Talking, RunMailTest
<1>2. CASE NetworkSend(c)
  BY <1>1, <1>2, NetworkSendTalks, ElsewhereKeeps
<1>3. CASE Enter(c) \/ EnterBlocks(c)
  <2>1. Side(d, c)'
    BY <1>1, <1>3, ByAnother, ElsewhereKeeps
  <2>2. ASSUME EnterBlocks(c) PROVE Side(c, d)'
    BY <1>1, <2>2, Untouched, ElsewhereKeeps DEF EnterBlocks, hist
  <2> QED BY <1>3, <2>1, <2>2, EnterTalks
<1>4. CASE ~NetworkSend(c) /\ ClientStep(c)
  <2>1. Side(d, c)'
    BY <1>1, <1>4, ByAnother, ElsewhereKeeps DEF ClientStep
  <2>2. ASSUME WokenBlocks(c) PROVE Side(c, d)'
    BY <1>1, <2>2, Untouched, ElsewhereKeeps DEF WokenBlocks, hist
  <2> QED BY <1>4, <2>1, <2>2, CallTalks, HaltTalks, ReturnTalks, LookTalks, WaitTalks DEF ClientStep
<1> QED BY <1>2, <1>3, <1>4

(* A client without a program calls nothing. *)
LEMMA NobodyElse ==
    ASSUME OInv, NEW c \in Clients, NEW d \in Clients, RunMailTest(c, d), NEW t \in Threads,
           t \notin {c, d}
    PROVE  ~ClientStep(t)
<1>1. SUFFICES ASSUME ClientStep(t) PROVE FALSE
  OBVIOUS
<1>2. TypeOK /\ InPlace
  BY DEF OInv
<1>3. t \in Clients
  <2>1. CASE NetworkSend(t) \/ SendReturns(t)
    BY <1>2, <2>1, WhoIsWhere DEF NetworkSend, SendReturns, Goto, ClientPlaces
  <2> QED BY <1>1, <2>1 DEF ClientStep, Call, HaltMachine
<1>4. program[t] = <<>> /\ DOMAIN program[t] = {}
  BY <1>3 DEF RunMailTest
<1>5. pc[t] = "call"
  BY <1>2, <1>3, <1>4 DEF InPlace
<1> QED BY <1>1, <1>4, <1>5 DEF ClientStep, Call, HaltMachine, NetworkSend, SendReturns, Goto

(* The programs stay what they are. *)
LEMMA ProgramStays == [Next]_vars => program' = program
  BY DEF Next, vars, hist, Boot, SendDone, CheckPktAvail, Enter, EnterBlocks, ClientStep, WorkerStep,
     Call, HaltMachine, NetworkSend, SendReturns, Look, Take, LookWait, Woken, WokenBlocks,
     ReceiveReturns, PostalDelivery, Put, PutReturns

(* Every step keeps what is said of the two sides. *)
LEMMA NextTalks ==
    ASSUME OInv, NEW c \in Clients, NEW d \in Clients, Talking(c, d), [Next]_vars
    PROVE  Talking(c, d)'
<1>1. Side(c, d) /\ Side(d, c) /\ RunMailTest(c, d) /\ Talking(d, c) /\ TypeOK
  BY DEF Talking, RunMailTest, OInv
<1>3. Side(c, d)' /\ Side(d, c)'
  <2>1. CASE UNCHANGED vars
    BY <1>1, <2>1, Untouched, ElsewhereKeeps DEF vars
  <2>2. ASSUME NEW m \in Machines, Boot(m) PROVE Side(c, d)' /\ Side(d, c)'
    <3>1. \A n : status'[n] = status[n] \/ (status[n] = "off" /\ status'[n] = "up")
      BY <1>1, <2>2 DEF Boot, AssignNameToSocket, TypeOK
    <3> QED BY <1>1, <2>2, <3>1, Untouched, ElsewhereKeeps DEF Boot, hist
  <2>3. ASSUME NEW m \in Machines, SendDone(m) \/ CheckPktAvail(m)
        PROVE  Side(c, d)' /\ Side(d, c)'
    BY <1>1, <2>3, Untouched, ElsewhereKeeps DEF SendDone, CheckPktAvail, hist
  <2>4. ASSUME NEW t \in Threads, Enter(t) \/ EnterBlocks(t) \/ ClientStep(t) \/ WorkerStep(t)
        PROVE  Side(c, d)' /\ Side(d, c)'
    <3>1. CASE t \in {c, d} /\ ~WorkerStep(t)
      BY <1>1, <2>4, <3>1, OneTalks
    <3>2. CASE WorkerStep(t)
      <4>1. t # c /\ t # d
        BY <3>2, WhoIsWhere DEF OInv, WorkerStep, PostalDelivery, Put, PutReturns, Goto, WorkerPlaces
      <4> QED BY <1>1, <3>2, <4>1, ByAnother, ElsewhereKeeps
    <3>3. CASE t \notin {c, d} /\ ~WorkerStep(t)
      <4>1. Enter(t) \/ EnterBlocks(t)
        BY <1>1, <2>4, <3>3, NobodyElse
      <4> QED BY <1>1, <3>3, <4>1, ByAnother, ElsewhereKeeps
    <3> QED BY <3>1, <3>2, <3>3
  <2> QED BY <2>1, <2>2, <2>3, <2>4 DEF Next
<1>4. RunMailTest(c, d)'
  <2>1. program' = program
    BY ProgramStays
  <2> QED BY <1>1, <2>1 DEF RunMailTest
<1> QED BY <1>3, <1>4 DEF Talking

(* It holds at the start, *)
LEMMA TalkStarts ==
    ASSUME Init, NEW c \in Clients, NEW d \in Clients, RunMailTest(c, d)
    PROVE  Talking(c, d)
<1>1. ASSUME NEW a \in Clients, NEW b \in Clients, a[1] # b[1], program[a] = MailTest(b[1])
      PROVE  Side(a, b)
  <2>1. /\ at[a] = 1 /\ pc[a] = "call" /\ status[a[1]] = "off" /\ accepted[b[1]] = <<>>
    BY ThreadKinds, KAssumption DEF Init, Clients
  <2>2. InMailTest(a, b)
    BY <1>1, <2>1 DEF InMailTest
  <2>3. ~Acknowledging(a) /\ DOMAIN accepted[b[1]] = {}
    BY <2>1 DEF Acknowledging
  <2>4. Exchanged(a, b)
    BY <2>1, <2>3 DEF Exchanged, Acknowledged
  <2> QED BY <2>2, <2>4 DEF Side
<1> QED BY <1>1 DEF Talking, RunMailTest

(* and says what is to be shown. *)
LEMMA TalkEnds ==
    ASSUME NEW c \in Clients, NEW d \in Clients, Talking(c, d)
    PROVE  HaltsTogether
<1>1. ASSUME NEW a \in Clients, NEW b \in Clients, Side(a, b), Side(b, a), status[a[1]] = "halted"
      PROVE  /\ status[b[1]] \in {"up", "halted"} /\ at[b] >= 3
             /\ at[b] = 3 => pc[b] \in {"messageSent", "sent"}
             /\ reliable => \E i \in DOMAIN accepted[b[1]] : accepted[b[1]][i].box = 1
  <2>1. at[a] = 5 /\ Arrived(a[1], 1) /\ Acknowledged(a)
    BY <1>1 DEF Side, Exchanged, Acknowledged, Acknowledging
  <2>2. Acknowledged(b)
    BY <1>1, <2>1 DEF Side, Exchanged, Arrived
  <2>3. reliable => Arrived(b[1], 1)
    BY <1>1, <2>1 DEF Side, Exchanged
  <2>4. at[b] \in 1 .. 5
    BY <1>1 DEF Side, InMailTest
  <2> QED BY <2>2, <2>3, <2>4 DEF Acknowledged, Acknowledging, Arrived
<1>2. \A e \in Clients : e \notin {c, d} => program[e] = <<>> /\ Elems(program[e]) = {}
  BY DEF Talking, RunMailTest, Elems
<1>3. SUFFICES ASSUME NEW a \in Clients, NEW b \in Clients,
                      Halt \in Elems(program[a]), status[a[1]] = "halted",
                      b[1] # a[1], program[b] # <<>>
               PROVE  Side(a, b) /\ Side(b, a)
  BY <1>1 DEF HaltsTogether
<1> QED BY <1>2, <1>3 DEF Talking

-----------------------------------------------------------------------------
(* What the threads of the machines may be to run: the two MailTests of    *)
(* main's option -o, or programs that halt no machine.                     *)
HaltOnlyInMailTest ==
    \/ \E c, d \in Clients : RunMailTest(c, d)
    \/ \A c \in Clients : Halt \notin Elems(program[c])

(* When one of the two machines that run MailTest halts, the other is      *)
(* still up, or has halted too; it has sent all it had to send; and what   *)
(* it waits for is in its socket if the network loses nothing.  Whenever   *)
(* the machines start and in whatever order their threads run.             *)
THEOREM MailTestHaltsTogether == Spec /\ HaltOnlyInMailTest => []HaltsTogether
<1> DEFINE Talk == \E c, d \in Clients : Talking(c, d)
           NoHalt == \A c \in Clients : Halt \notin Elems(program[c])
<1>1. Init /\ HaltOnlyInMailTest => Talk \/ NoHalt
  BY TalkStarts DEF HaltOnlyInMailTest
<1>2. OInv /\ (Talk \/ NoHalt) /\ [Next]_vars => (Talk \/ NoHalt)'
  <2>1. ASSUME OInv, Talk, [Next]_vars PROVE Talk'
    BY <2>1, NextTalks
  <2>2. ASSUME NoHalt, [Next]_vars PROVE NoHalt'
    <3>1. program' = program
      BY <2>2, ProgramStays
    <3> QED BY <2>2, <3>1
  <2> QED BY <2>1, <2>2
<1>3. Talk \/ NoHalt => HaltsTogether
  <2>1. NoHalt => HaltsTogether
    BY DEF HaltsTogether
  <2> QED BY <2>1, TalkEnds
<1> QED BY <1>1, <1>2, <1>3, Invariant, PTL DEF Spec
=============================================================================
