---------------------------- MODULE PostOffice ----------------------------
(***************************************************************************)
(* The post offices of several NachOS machines (network/post.cc) over the  *)
(* network device (machine/network.cc) and the host's datagram sockets     *)
(* (machine/sysdep.cc).  Each machine has a postal worker, a SynchList     *)
(* (threads/synchlist.h) for every mailbox and the threads that call Send  *)
(* and Receive, MailTest of network/nettest.cc among them.  Machines start *)
(* and halt at any time and the network may lose packets.                  *)
(***************************************************************************)
EXTENDS Synch, Integers

CONSTANTS
    Machines,     \* network addresses
    Boxes,        \* 0 .. 9 in the code
    K,            \* clients of a machine
    Scenarios     \* programs that the clients may have

VARIABLES
    program,      \* program[c]: the calls of client c, in order
    reliable,     \* is the reliability of the network 1?
    status,       \* of each machine
    inbox,        \* Network::inbox of each machine, at most one packet
    sendDue,      \* the NetworkSendDone interrupts scheduled on each machine
    socket,       \* the datagrams in the socket of each machine
    list,         \* SynchList::list of each mailbox
    pc, at,       \* where each thread is; the call of its program
    mail,         \* the packet each thread holds
    accepted,     \* history: the packets put in each machine's socket
    taken         \* history: the mail taken out of each box

vars == <<synchVars, program, reliable, status, inbox, sendDue, socket,
          list, pc, at, mail, accepted, taken>>
hist == <<program, reliable, accepted, taken>>

Clients == Machines \X (1 .. K)
Worker(m) == <<m, 0>>
Threads == Clients \union {Worker(m) : m \in Machines}
Up(t) == status[t[1]] = "up"
NoMail == [to |-> 0, from |-> 0, box |-> 0, reply |-> 0]

(* The semaphores and locks of a machine; a box has a lock and a condition. *)
messageAvailable(m) == <<m, "messageAvailable">>
messageSent(m) == <<m, "messageSent">>
sendLock(m) == <<m, "sendLock">>
listLock(m, b) == <<m, "list", b>>
Locks == {sendLock(m) : m \in Machines} \union {listLock(m, b) : m \in Machines, b \in Boxes}
Semaphores == Locks \union {messageAvailable(m) : m \in Machines}
                    \union {messageSent(m) : m \in Machines}

(* What a client calls: postOffice->Send to a box or, for an answer, to    *)
(* the box that the mail it holds names, and postOffice->Receive.          *)
Send(m, b, r) == [op |-> "Send", to |-> m, box |-> b, reply |-> r]
Answer(r) == [op |-> "Answer", to |-> 0, box |-> 0, reply |-> r]
Receive(b) == [op |-> "Receive", to |-> 0, box |-> b, reply |-> 0]
Halt == [op |-> "Halt", to |-> 0, box |-> 0, reply |-> 0]

(* What a program may be made of *)
Calls == [op : {"Send", "Answer", "Receive", "Halt"}, to : Machines \union {0},
          box : Boxes, reply : Boxes]

ASSUME BoxesAssumption == 0 \in Boxes
ASSUME KAssumption == K \in Nat
ASSUME ProgramsAssumption == Scenarios \subseteq [Clients -> Seq(Calls)]

MailTestNoWait(farAddr) == <<Send(farAddr, 0, 1), Receive(0), Answer(1), Halt>>  \* variant

MailTest(farAddr) == <<Send(farAddr, 0, 1), Receive(0), Answer(1), Receive(1), Halt>>

Init ==
    /\ program \in Scenarios /\ reliable \in BOOLEAN
    /\ status = [m \in Machines |-> "off"]
    /\ inbox = [m \in Machines |-> <<>>] /\ sendDue = [m \in Machines |-> 0]
    /\ socket = [m \in Machines |-> <<>>] /\ accepted = [m \in Machines |-> <<>>]
    /\ list = [b \in Machines \X Boxes |-> <<>>] /\ taken = list
    /\ value = [s \in Semaphores |-> IF s \in Locks THEN 1 ELSE 0]
    /\ queue = [s \in Semaphores |-> <<>>]
    /\ owner = [l \in Locks |-> NULL] /\ waiters = [b \in Machines \X Boxes |-> <<>>]
    /\ pc = [t \in Threads |-> IF t[2] = 0 THEN "messageAvailable" ELSE "call"]
    /\ at = [c \in Clients |-> 1] /\ mail = [t \in Threads |-> NoMail]

Goto(t, from, to) == Up(t) /\ ~Asleep(t) /\ pc[t] = from /\ pc' = [pc EXCEPT ![t] = to]

(* The host's sockets: a machine's has a name while the machine is up; a   *)
(* datagram to a name that nobody has makes the sender fail its ASSERT.    *)
AssignNameToSocket(m) == status' = [status EXCEPT ![m] = "up"]
DeAssignNameToSocket(m) == status' = [status EXCEPT ![m] = "halted"]
PollSocket(m) == socket[m] # <<>>
ReadFromSocket(m) == socket' = [socket EXCEPT ![m] = Tail(@)]
SendToSocket(m, to, p) ==
    \/ /\ status[to] = "up" /\ UNCHANGED status
       /\ socket' = [socket EXCEPT ![to] = Append(@, p)]
       /\ accepted' = [accepted EXCEPT ![to] = Append(@, p)]
    \/ /\ status[to] # "up" /\ status' = [status EXCEPT ![m] = "ASSERT sendto"]
       /\ UNCHANGED <<socket, accepted>>

(* PostOffice::PostOffice, Network::Network *)
Boot(m) ==
    /\ status[m] = "off" /\ AssignNameToSocket(m)
    /\ UNCHANGED <<synchVars, hist, inbox, sendDue, socket, list, pc, at, mail>>

-----------------------------------------------------------------------------
(* The semaphore that a thread is to get through, and where it goes then *)
Gate(t) ==
    LET m == t[1]
    IN  CASE pc[t] = "messageAvailable" -> messageAvailable(m)
          [] pc[t] = "messageSent" -> messageSent(m)
          [] pc[t] = "sendLock" -> sendLock(m)
          [] pc[t] = "getLock" -> listLock(m, program[t][at[t]].box)
          [] pc[t] = "putLock" -> listLock(m, mail[t].box)

Inside == [messageAvailable |-> "receive", messageSent |-> "sent", sendLock |-> "send",
           getLock |-> "look", putLock |-> "put"]

(* Semaphore::P, and Lock::Acquire up to the assignment of owner *)
Enter(t) ==
    /\ Up(t) /\ pc[t] \in DOMAIN Inside /\ Pass(t, Gate(t))
    /\ pc' = [pc EXCEPT ![t] = Inside[pc[t]]]
    /\ UNCHANGED <<owner, waiters, hist, status, inbox, sendDue, socket, list, at, mail>>

EnterBlocks(t) ==
    /\ Up(t) /\ pc[t] \in DOMAIN Inside /\ Block(t, Gate(t))
    /\ UNCHANGED <<owner, waiters, hist, status, inbox, sendDue, socket, list, pc, at, mail>>

-----------------------------------------------------------------------------
(* PostOffice::Send and Receive up to the lock.  Send fills in from. *)
Call(t) ==
    LET c == program[t][at[t]]
    IN  /\ t \in Clients /\ at[t] \in DOMAIN program[t] /\ c.op # "Halt"
        /\ Goto(t, "call", IF c.op = "Receive" THEN "getLock" ELSE "sendLock")
        /\ mail' = [mail EXCEPT ![t] =
             CASE c.op = "Send" -> [to |-> c.to, from |-> t[1], box |-> c.box, reply |-> c.reply]
               [] c.op = "Answer" -> [to |-> @.from, from |-> t[1], box |-> @.reply, reply |-> c.reply]
               [] c.op = "Receive" -> @]
        /\ UNCHANGED <<synchVars, hist, status, inbox, sendDue, socket, list, at>>

(* Interrupt::Halt, Cleanup: the socket and its name go. *)
HaltMachine(t) ==
    /\ t \in Clients /\ at[t] \in DOMAIN program[t] /\ program[t][at[t]] = Halt
    /\ Goto(t, "call", "halted")
    /\ DeAssignNameToSocket(t[1])
    /\ UNCHANGED <<synchVars, hist, inbox, sendDue, socket, list, at, mail>>

(* Network::Send while sendLock is held: a SendDone interrupt is scheduled, *)
(* the packet is lost or goes to the socket of its destination, and         *)
(* SendToSocket aborts when there is no such socket.  sendBusy is not in    *)
(* the state: its two assignments make it false (network.cc:36, 90), so     *)
(* that the ASSERT that it is false (network.cc:107) never fails.           *)
NetworkSend(t) ==
    LET m == t[1]
    IN  /\ Goto(t, "send", "messageSent") /\ SetOwner(t, sendLock(m))
        /\ sendDue' = [sendDue EXCEPT ![m] = @ + 1]
        /\ \/ ~reliable /\ UNCHANGED <<status, socket, accepted>>
           \/ SendToSocket(m, mail[t].to, mail[t])
        /\ UNCHANGED <<value, queue, waiters, program, reliable, taken, inbox, list, at, mail>>

(* Variant: the sender goes on without its interrupt. *)
SendReturnsNoWait(t) ==
    /\ Goto(t, "messageSent", "call") /\ at' = [at EXCEPT ![t] = @ + 1]
    /\ Release(sendLock(t[1]))
    /\ UNCHANGED <<waiters, hist, status, inbox, sendDue, socket, list, mail>>

(* The end of PostOffice::Send *)
SendReturns(t) ==
    /\ Goto(t, "sent", "call") /\ at' = [at EXCEPT ![t] = @ + 1]
    /\ Release(sendLock(t[1]))
    /\ UNCHANGED <<waiters, hist, status, inbox, sendDue, socket, list, mail>>

-----------------------------------------------------------------------------
(* SynchList::Remove, with its lock: while the list is empty, wait.        *)
Take(t) ==
    LET b == <<t[1], program[t][at[t]].box>>
    IN  /\ list' = [list EXCEPT ![b] = Tail(@)] /\ taken' = [taken EXCEPT ![b] = Append(@, Head(list[b]))]
        /\ mail' = [mail EXCEPT ![t] = Head(list[b])]

Look(t) ==
    LET b == <<t[1], program[t][at[t]].box>>
    IN  /\ list[b] # <<>> /\ Take(t)
        /\ Goto(t, "look", "got") /\ SetOwner(t, listLock(b[1], b[2]))
        /\ UNCHANGED <<value, queue, waiters, program, reliable, accepted, status, inbox, sendDue,
                       socket, at>>

(* Wait finds the lock held by its caller: the owner was assigned in the   *)
(* same uninterrupted stretch.                                             *)
LookWait(t) ==
    LET b == <<t[1], program[t][at[t]].box>>
        l == listLock(b[1], b[2])
    IN  /\ list[b] = <<>>
        /\ Goto(t, "look", "waiting")
        /\ Release(l) /\ waiters' = [waiters EXCEPT ![b] = Append(@, t)]
        /\ UNCHANGED <<hist, status, inbox, sendDue, socket, list, at, mail>>

(* Wait once signalled; then the list is looked at again. *)
Woken(t) ==
    LET b == <<t[1], program[t][at[t]].box>>
    IN  /\ Goto(t, "waiting", "look") /\ WaitReacquire(t, listLock(b[1], b[2]))
        /\ UNCHANGED <<hist, status, inbox, sendDue, socket, list, at, mail>>

WokenBlocks(t) ==
    LET b == <<t[1], program[t][at[t]].box>>
    IN  /\ Up(t) /\ pc[t] = "waiting" /\ WaitBlock(t, listLock(b[1], b[2]))
        /\ UNCHANGED <<hist, status, inbox, sendDue, socket, list, pc, at, mail>>

(* The end of MailBox::Get and of Receive *)
ReceiveReturns(t) ==
    /\ Goto(t, "got", "call") /\ at' = [at EXCEPT ![t] = @ + 1]
    /\ Release(listLock(t[1], program[t][at[t]].box))
    /\ UNCHANGED <<waiters, hist, status, inbox, sendDue, socket, list, mail>>

-----------------------------------------------------------------------------
(* Network::Receive leaves the caller's buffer as it is when no packet is  *)
(* there, and PostalDelivery does not look at the length it returns: the   *)
(* worker would deliver its last mail once more.                           *)
NetworkReceive(m) == inbox' = [inbox EXCEPT ![m] = <<>>]

(* PostOffice::PostalDelivery takes the packet ... *)
PostalDelivery(t) ==
    LET m == t[1]
    IN  /\ Goto(t, "receive", "putLock")
        /\ NetworkReceive(m)
        /\ mail' = [mail EXCEPT ![t] = IF inbox[m] = <<>> THEN @ ELSE Head(inbox[m])]
        /\ UNCHANGED <<synchVars, hist, status, sendDue, socket, list, at>>

(* ... and MailBox::Put, SynchList::Append, wakes a waiter. *)
Put(t) ==
    LET b == <<t[1], mail[t].box>>
    IN  /\ Goto(t, "put", "putRelease") /\ SetOwner(t, listLock(b[1], b[2]))
        /\ list' = [list EXCEPT ![b] = Append(@, mail[t])]
        /\ waiters' = [waiters EXCEPT ![b] = IF @ = <<>> THEN @ ELSE Tail(@)]
        /\ UNCHANGED <<value, queue, hist, status, inbox, sendDue, socket, at, mail>>

PutReturns(t) ==
    /\ Goto(t, "putRelease", "messageAvailable")
    /\ Release(listLock(t[1], mail[t].box))
    /\ UNCHANGED <<waiters, hist, status, inbox, sendDue, socket, list, at, mail>>

-----------------------------------------------------------------------------
PacketSent(m) == V(messageSent(m))
IncomingPacket(m) == V(messageAvailable(m))

(* Variant: the post office is not told. *)
SendDoneSilent(m) ==
    /\ status[m] = "up" /\ sendDue[m] > 0
    /\ sendDue' = [sendDue EXCEPT ![m] = @ - 1]
    /\ UNCHANGED <<synchVars, hist, status, inbox, socket, list, pc, at, mail>>

(* Network::SendDone calls PostOffice::PacketSent. *)
SendDone(m) ==
    /\ status[m] = "up" /\ sendDue[m] > 0
    /\ sendDue' = [sendDue EXCEPT ![m] = @ - 1] /\ PacketSent(m)
    /\ UNCHANGED <<owner, waiters, hist, status, inbox, socket, list, pc, at, mail>>

(* Variant: a buffered packet is overwritten. *)
CheckPktAvailAlways(m) ==
    /\ status[m] = "up" /\ PollSocket(m) /\ ReadFromSocket(m)
    /\ inbox' = [inbox EXCEPT ![m] = <<Head(socket[m])>>]
    /\ IncomingPacket(m)
    /\ UNCHANGED <<owner, waiters, hist, status, sendDue, list, pc, at, mail>>

(* Network::CheckPktAvail, PostOffice::IncomingPacket: nothing while a     *)
(* packet is buffered.                                                     *)
CheckPktAvail(m) ==
    /\ status[m] = "up" /\ inbox[m] = <<>> /\ PollSocket(m) /\ ReadFromSocket(m)
    /\ inbox' = [inbox EXCEPT ![m] = <<Head(socket[m])>>]
    /\ IncomingPacket(m)
    /\ UNCHANGED <<owner, waiters, hist, status, sendDue, list, pc, at, mail>>

ClientStep(t) ==
    \/ Call(t) \/ HaltMachine(t) \/ NetworkSend(t) \/ SendReturns(t)
    \/ t \in Clients /\ at[t] \in DOMAIN program[t]
         /\ (Look(t) \/ LookWait(t) \/ Woken(t) \/ WokenBlocks(t) \/ ReceiveReturns(t))

WorkerStep(t) == PostalDelivery(t) \/ Put(t) \/ PutReturns(t)

Next ==
    \/ \E m \in Machines : Boot(m) \/ SendDone(m) \/ CheckPktAvail(m)
    \/ \E t \in Threads : Enter(t) \/ EnterBlocks(t) \/ ClientStep(t) \/ WorkerStep(t)

(* The system does not stop while an interrupt is due or a thread is ready. *)
(* Programs are finite, so the order in which threads are scheduled does    *)
(* not matter for what happens in the end.                                  *)
Spec == Init /\ [][Next]_vars /\ WF_vars(Next)

-----------------------------------------------------------------------------

(* What is on its way from the wire to the mailboxes of a machine: the     *)
(* packet in the hands of the worker, the inbox and the socket.            *)
InHand(m) == IF pc[Worker(m)] \in {"putLock", "put"} THEN <<mail[Worker(m)]>> ELSE <<>>
Way(m) == InHand(m) \o (inbox[m] \o socket[m])
Delivered(m) == Len(accepted[m]) - Len(Way(m))

(* s is what the first n of q have for box b, in their order. *)
IsMailFor(b, q, n, s) ==
    \E f \in [DOMAIN s -> 1 .. n] :
        /\ \A i, j \in DOMAIN s : i < j => f[i] < f[j]
        /\ \A k \in 1 .. n : q[k].box = b <=> \E i \in DOMAIN s : f[i] = k
        /\ \A i \in DOMAIN s : s[i] = q[f[i]]

(* Nothing is lost, doubled or overtaken between the wire and the threads  *)
(* of a machine: of the packets that the senders put in its socket the     *)
(* last ones are on their way, in order, and what was taken out of a box   *)
(* and what is in it are, in order, all the others for that box.           *)
MailInOrder ==
    \A m \in Machines :
        /\ Delivered(m) >= 0
        /\ \A i \in DOMAIN Way(m) : Way(m)[i] = accepted[m][Delivered(m) + i]
        /\ \A b \in Boxes :
             IsMailFor(b, accepted[m], Delivered(m), taken[<<m, b>>] \o list[<<m, b>>])

(* Clients between the P and the V of sendLock *)
Sending(c) == pc[c] \in {"send", "messageSent", "sent"}
AwaitsInterrupt(m) == \E c \in Clients : c[1] = m /\ pc[c] = "messageSent"

(* What sendBusy is for, and sendLock with messageSent achieves: a machine *)
(* is never in the middle of two packets, and every packet handed to the   *)
(* device has exactly one interrupt, or one unit of messageSent, and one   *)
(* thread in Send that has not got past it; a sender never goes on with    *)
(* the interrupt of another's packet and none is left over for the next.   *)
OneSend ==
    \A m \in Machines :
        /\ \A c, d \in Clients : c[1] = m /\ d[1] = m /\ Sending(c) /\ Sending(d) => c = d
        /\ sendDue[m] + value[messageSent(m)] = IF AwaitsInterrupt(m) THEN 1 ELSE 0

(* A machine that halts at the end of MailTest leaves nobody waiting for   *)
(* it: the other has sent all it had to send, and the acknowledgement it   *)
(* waits for has reached its socket unless the network lost it.            *)
HaltsTogether ==
    \A c, d \in Clients :
      (Halt \in Elems(program[c]) /\ status[c[1]] = "halted"
         /\ d[1] # c[1] /\ program[d] # <<>>) =>
        /\ status[d[1]] \in {"up", "halted"} /\ at[d] >= 3
        /\ at[d] = 3 => pc[d] \in {"messageSent", "sent"}
        /\ reliable => \E i \in DOMAIN accepted[d[1]] : accepted[d[1]][i].box = 1

Aborted == \E m \in Machines : status[m] = "ASSERT sendto"

(* Send returns, also when the network loses the packet, unless the        *)
(* machine stops.  With a reliable network all clients come to the end of  *)
(* their programs: senders that share the network, receivers that share a  *)
(* mailbox, and both sides of MailTest; unless one was started too late.   *)
ClientsEnd ==
    /\ \A c \in Clients :
         pc[c] = "sendLock" ~> (pc[c] = "call" \/ status[c[1]] # "up")
    /\ reliable => <>(\A c \in Clients : Aborted \/ status[c[1]] = "halted"
                                          \/ at[c] > Len(program[c]))
=============================================================================
