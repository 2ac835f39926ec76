----------------------------- MODULE PscServer ------------------------------
(***************************************************************************)
(* The TCP server of the PSC (listener.c): the accepting thread of         *)
(* psc_run, one handle_client thread per connection, and the threads that  *)
(* broadcast with psc_send.  They share the table of client slots under    *)
(* the mutex sendguard, and the file descriptors, which no mutex guards.   *)
(*                                                                         *)
(* A step is the code between two points where another thread can be seen: *)
(* a whole critical section where nothing in it blocks or frees a          *)
(* descriptor, and one step per socket call in psc_send and psc_send_one,  *)
(* where accept may run in between.                                        *)
(***************************************************************************)
EXTENDS Integers, FiniteSets, FiniteSetsExt

CONSTANTS
    MaxClients,  \* PSC_MAX_CLIENTS
    Conns,       \* the connections that are ever made
    NumFds,      \* sockets lwIP can hand out
    Listener, Closed, NoConn, Sender

ASSUME ServerAssumption ==
    /\ MaxClients \in Nat \ {0} /\ NumFds \in Nat \ {0}
    /\ IsFiniteSet(Conns)
    /\ {Listener, Closed, NoConn, Sender} \cap Conns = {}
    /\ Cardinality({Listener, Closed, NoConn, Sender}) = 4

Slots == 0..(MaxClients - 1)
Fds == 0..(NumFds - 1)

VARIABLES
    clients_used,  \* the slots in use
    sock,          \* sock[s] of slot s: a descriptor or -1
    fd,            \* what each descriptor refers to
    peer,          \* peer[c]: "new", "up" or "gone"
    acc,           \* the accepting thread: pc, connection, descriptor, slot
    rx,            \* rx[c]: the handle_client thread of connection c
    tx             \* who holds sendguard to send, and what it has left to do

vars == <<clients_used, sock, fd, peer, acc, rx, tx>>

Idle == [pc |-> "idle", by |-> NoConn, todo |-> {}, at |-> 0]
Accepting == [pc |-> "accept", conn |-> NoConn, client |-> 0, slot |-> 0]
NoThread == [pc |-> "none", slot |-> 0, sock |-> 0, on |-> NoConn]

Init ==
    /\ clients_used = {}
    /\ sock = [s \in Slots |-> 0]
    /\ fd = [f \in Fds |-> IF f = 0 THEN Listener ELSE Closed]
    /\ peer = [c \in Conns |-> "new"]
    /\ acc = Accepting
    /\ rx = [c \in Conns |-> NoThread]
    /\ tx = Idle

\* sendguard can be taken: the short critical sections are single steps
GuardFree == tx.pc = "idle"

\* close(f) on whatever f refers to by now; -1 and closed ones are refused
AfterClose(f) == [g \in Fds |-> IF g = f THEN Closed ELSE fd[g]]

Open(c) == \E f \in Fds : fd[f] = c

-----------------------------------------------------------------------------
(* The peers, on the other side of the network.                            *)
PeerGone(c) ==
    /\ peer[c] = "up"
    /\ peer' = [peer EXCEPT ![c] = "gone"]
    /\ UNCHANGED <<clients_used, sock, fd, acc, rx, tx>>

-----------------------------------------------------------------------------
(* psc_run.  accept() hands out the lowest free descriptor; it fails, and  *)
(* is tried again, when there is none or the listening socket is closed.   *)
FreeFds == {f \in Fds : fd[f] = Closed}

Accept(c) ==
    /\ acc.pc = "accept" /\ fd[0] = Listener /\ FreeFds # {}
    /\ peer[c] = "new"
    /\ peer' = [peer EXCEPT ![c] = "up"]
    /\ fd' = [fd EXCEPT ![Min(FreeFds)] = c]
    /\ acc' = [acc EXCEPT !.pc = "alloc", !.conn = c, !.client = Min(FreeFds)]
    /\ UNCHANGED <<clients_used, sock, rx, tx>>

\* Mutant: the used bit is not set.
AllocForgets ==
    /\ acc.pc = "alloc" /\ GuardFree
    /\ LET free == Slots \ clients_used IN
       IF free = {}
       THEN acc' = [acc EXCEPT !.pc = "drop"] /\ UNCHANGED <<clients_used, sock>>
       ELSE /\ sock' = [sock EXCEPT ![Min(free)] = 0]
            /\ acc' = [acc EXCEPT !.pc = "assign", !.slot = Min(free)]
            /\ UNCHANGED clients_used
    /\ UNCHANGED <<fd, peer, rx, tx>>

\* psc_client_alloc: the first unused slot; memset leaves its sock at 0
Alloc ==
    /\ acc.pc = "alloc" /\ GuardFree
    /\ LET free == Slots \ clients_used IN
       IF free = {}
       THEN acc' = [acc EXCEPT !.pc = "drop"] /\ UNCHANGED <<clients_used, sock>>
       ELSE /\ clients_used' = clients_used \cup {Min(free)}
            /\ sock' = [sock EXCEPT ![Min(free)] = 0]
            /\ acc' = [acc EXCEPT !.pc = "assign", !.slot = Min(free)]
    /\ UNCHANGED <<fd, peer, rx, tx>>

Drop ==
    /\ acc.pc = "drop"
    /\ fd' = AfterClose(acc.client)
    /\ acc' = Accepting
    /\ UNCHANGED <<clients_used, sock, peer, rx, tx>>

\* C->sock = client, outside the critical section
Assign ==
    /\ acc.pc = "assign"
    /\ sock' = [sock EXCEPT ![acc.slot] = acc.client]
    /\ acc' = [acc EXCEPT !.pc = "start"]
    /\ UNCHANGED <<clients_used, fd, peer, rx, tx>>

StartThread ==
    /\ acc.pc = "start"
    /\ rx' = [rx EXCEPT ![acc.conn].pc = "start", ![acc.conn].slot = acc.slot]
    /\ acc' = Accepting
    /\ UNCHANGED <<clients_used, sock, fd, peer, tx>>

-----------------------------------------------------------------------------
(* psc_send and psc_send_one: lock, then for every slot in turn send, and  *)
(* on an error close and mark.  C->sock is read again at every use.        *)
SendLock(by, slots) ==
    /\ GuardFree
    /\ tx' = [pc |-> "send", by |-> by, todo |-> slots, at |-> 0]

SendAll ==
    /\ SendLock(Sender, Slots)
    /\ UNCHANGED <<clients_used, sock, fd, peer, acc, rx>>

\* a connection may accept the bytes or time out; anything else is an error
SendOutcomes(f) == IF f \in Fds /\ fd[f] \in Conns
                   THEN {"ok", "error"} ELSE {"error"}

\* psc_send skips unused slots, psc_send_one does not look at clients_used
Skipped(s) == sock[s] = -1 \/ (tx.by = Sender /\ s \notin clients_used)

SendNext ==
    /\ tx.pc = "send" /\ tx.todo # {}
    /\ LET s == Min(tx.todo)
           rest == [tx EXCEPT !.todo = @ \ {s}, !.at = s] IN
       \/ Skipped(s) /\ tx' = rest
       \/ /\ ~Skipped(s)
          /\ \E r \in SendOutcomes(sock[s]) :
                tx' = IF r = "ok" THEN rest ELSE [rest EXCEPT !.pc = "close"]
    /\ UNCHANGED <<clients_used, sock, fd, peer, acc, rx>>

SendClose ==
    /\ tx.pc = "close"
    /\ fd' = AfterClose(sock[tx.at])
    /\ tx' = [tx EXCEPT !.pc = "mark"]
    /\ UNCHANGED <<clients_used, sock, peer, acc, rx>>

\* Mutant: the client that failed is tried again.
SendMarkRetries ==
    /\ tx.pc = "mark"
    /\ tx' = [tx EXCEPT !.pc = "send", !.todo = @ \cup {tx.at}]
    /\ UNCHANGED <<clients_used, sock, fd, peer, acc, rx>>

SendMark ==
    /\ tx.pc = "mark"
    /\ sock' = [sock EXCEPT ![tx.at] = -1]
    /\ tx' = [tx EXCEPT !.pc = "send"]
    /\ UNCHANGED <<clients_used, fd, peer, acc, rx>>

SendUnlock ==
    /\ tx.pc = "send" /\ tx.todo = {}
    /\ tx' = Idle
    /\ rx' = IF tx.by \in Conns THEN [rx EXCEPT ![tx.by].pc = "recv"] ELSE rx
    /\ UNCHANGED <<clients_used, sock, fd, peer, acc>>

-----------------------------------------------------------------------------
(* handle_client.  The descriptor is read once, at the start.              *)
Begin(c) ==
    /\ rx[c].pc = "start"
    /\ rx' = [rx EXCEPT ![c].pc = "conn", ![c].sock = sock[rx[c].slot]]
    /\ UNCHANGED <<clients_used, sock, fd, peer, acc, tx>>

\* client_event(PSC_CONN): psc_send_one to the new client
ConnEvent(c) ==
    /\ rx[c].pc = "conn"
    /\ SendLock(c, {rx[c].slot})
    /\ rx' = [rx EXCEPT ![c].pc = "greet"]
    /\ UNCHANGED <<clients_used, sock, fd, peer, acc>>

\* psc_recvmsg: the descriptor is looked up, then the thread waits on the
\* connection it found there
Recv(c) ==
    /\ rx[c].pc = "recv"
    /\ LET f == rx[c].sock IN
       rx' = IF f \in Fds /\ fd[f] \in Conns
             THEN [rx EXCEPT ![c].pc = "wait", ![c].on = fd[f]]
             ELSE [rx EXCEPT ![c].pc = "free"]
    /\ UNCHANGED <<clients_used, sock, fd, peer, acc, tx>>

\* a message arrives and client_msg handles it
Message(c) ==
    /\ rx[c].pc = "wait" /\ Open(rx[c].on) /\ peer[rx[c].on] = "up"
    /\ rx' = [rx EXCEPT ![c].pc = "recv", ![c].on = NoConn]
    /\ UNCHANGED <<clients_used, sock, fd, peer, acc, tx>>

\* Mutant: a peer that is gone is not noticed.
RecvErrorDeaf(c) ==
    /\ rx[c].pc = "wait"
    /\ ~Open(rx[c].on)
    /\ rx' = [rx EXCEPT ![c].pc = "free", ![c].on = NoConn]
    /\ UNCHANGED <<clients_used, sock, fd, peer, acc, tx>>

RecvError(c) ==
    /\ rx[c].pc = "wait"
    /\ ~Open(rx[c].on) \/ peer[rx[c].on] = "gone"
    /\ rx' = [rx EXCEPT ![c].pc = "free", ![c].on = NoConn]
    /\ UNCHANGED <<clients_used, sock, fd, peer, acc, tx>>

\* SO_RCVTIMEO
RecvTimeout(c) ==
    /\ rx[c].pc = "wait"
    /\ rx' = [rx EXCEPT ![c].pc = "free", ![c].on = NoConn]
    /\ UNCHANGED <<clients_used, sock, fd, peer, acc, tx>>

\* psc_client_free, after the PSC_DIS event that client_event ignores
Free(c) ==
    /\ rx[c].pc = "free" /\ GuardFree
    /\ clients_used' = clients_used \ {rx[c].slot}
    /\ sock' = [sock EXCEPT ![rx[c].slot] = 0]
    /\ rx' = [rx EXCEPT ![c].pc = "close"]
    /\ UNCHANGED <<fd, peer, acc, tx>>

\* close(sock), under sendguard again
Close(c) ==
    /\ rx[c].pc = "close" /\ GuardFree
    /\ fd' = AfterClose(rx[c].sock)
    /\ rx' = [rx EXCEPT ![c].pc = "done"]
    /\ UNCHANGED <<clients_used, sock, peer, acc, tx>>

-----------------------------------------------------------------------------
Acceptor == (\E c \in Conns : Accept(c)) \/ Alloc \/ Drop \/ Assign \/ StartThread
Sending == SendNext \/ SendClose \/ SendMark \/ SendUnlock
Handler(c) == \/ Begin(c) \/ ConnEvent(c) \/ Recv(c) \/ Message(c)
              \/ RecvError(c) \/ RecvTimeout(c) \/ Free(c) \/ Close(c)

Next == \/ Acceptor \/ SendAll \/ Sending
        \/ \E c \in Conns : Handler(c) \/ PeerGone(c)

(* Threads of equal priority are time-sliced, so none that can run is      *)
(* starved, and a mutex goes to its waiters in turn: strong fairness for   *)
(* the steps that take it.  Nothing is assumed of peers, of timeouts or of *)
(* how often psc_send is called.                                           *)
Fairness ==
    /\ SF_vars(Alloc) /\ WF_vars(Drop \/ Assign \/ StartThread)
    /\ WF_vars(Sending)
    /\ \A c \in Conns : /\ WF_vars(Begin(c) \/ Recv(c) \/ RecvError(c))
                        /\ SF_vars(ConnEvent(c)) /\ SF_vars(Free(c))
                        /\ SF_vars(Close(c))

Spec == Init /\ [][Next]_vars /\ Fairness

-----------------------------------------------------------------------------
TypeOK ==
    /\ clients_used \subseteq Slots
    /\ sock \in [Slots -> Fds \cup {-1}]
    /\ fd \in [Fds -> Conns \cup {Listener, Closed}]
    /\ peer \in [Conns -> {"new", "up", "gone"}]
    /\ acc \in [pc : {"accept", "alloc", "drop", "assign", "start"},
                conn : Conns \cup {NoConn}, client : Fds, slot : Slots]
    /\ rx \in [Conns -> [pc : {"none", "start", "conn", "greet", "recv",
                               "wait", "free", "close", "done"},
                         slot : Slots, sock : Fds \cup {-1},
                         on : Conns \cup {NoConn}]]
    /\ tx \in [pc : {"idle", "send", "close", "mark"},
               by : Conns \cup {NoConn, Sender},
               todo : SUBSET Slots, at : Slots]

\* the threads that may use slot s: those started on it that have not freed
\* it, and the accepting thread between alloc and start
RxOf(s) == {c \in Conns : /\ rx[c].slot = s
                          /\ rx[c].pc \notin {"none", "close", "done"}}
OwnersOf(s) == RxOf(s) \cup {c \in {acc.conn} : acc.slot = s
                                  /\ acc.pc \in {"assign", "start"}}

(* The used bits are exactly the slots some thread still works on, and no  *)
(* slot is ever worked on for two connections: psc_client_alloc and        *)
(* psc_client_free against threads that come and go in any order.          *)
OneOwnerPerSlot ==
    \A s \in Slots : Cardinality(OwnersOf(s)) = IF s \in clients_used THEN 1 ELSE 0

(* When no peer is connected any more, every slot is released, whatever    *)
(* descriptors were closed under a thread's feet meanwhile: a thread in    *)
(* psc_recvmsg is always woken and always reaches psc_client_free.         *)
SlotsReleased ==
    [](\A c \in Conns : peer[c] # "up") ~> (clients_used = {})

(* sendguard is never kept: every broadcast and every greeting ends, send  *)
(* errors included, so alloc, free and close can proceed.                  *)
SendEnds == (tx.pc # "idle") ~> (tx.pc = "idle")

(* psc_send's comment at its close(): "will wake up RX thread": what it    *)
(* closes is the connection that the thread of that slot is receiving on.  *)
CloseWakesOwnRx ==
    [][SendClose => /\ sock[tx.at] \in Fds
                    /\ fd[sock[tx.at]] \in OwnersOf(tx.at)]_vars
=============================================================================
