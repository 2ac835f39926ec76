--------------------------- MODULE PscServerProofs --------------------------
(***************************************************************************)
(* Proofs about the TCP server, for any number of slots, connections and   *)
(* descriptors: the types, and that every slot in use has one owner.       *)
(***************************************************************************)
EXTENDS PscServer, FiniteSetTheorems, WellFoundedInduction, TLAPS

-----------------------------------------------------------------------------
(* The inductive invariant.                                                *)

\* handle_client threads that have been started and have not freed their slot
Live(c) == rx[c].pc \notin {"none", "close", "done"}

\* psc_run holds a slot that no thread has been started on yet
Granted == acc.pc \in {"assign", "start"}

\* a connection gets one thread: psc_run starts it after accepting, once
OneThread ==
    /\ acc.pc # "accept" => /\ acc.conn \in Conns /\ peer[acc.conn] # "new"
                            /\ rx[acc.conn].pc = "none"
    /\ \A c \in Conns : peer[c] = "new" => rx[c].pc = "none"

\* who holds sendguard to greet waits for the end of the greeting
Greeting == tx.by \in Conns => rx[tx.by].pc = "greet"

\* two owners of a slot are the same
Exclusive ==
    /\ \A c, d \in Conns : Live(c) /\ Live(d) /\ rx[c].slot = rx[d].slot => c = d
    /\ Granted => \A c \in Conns : Live(c) => rx[c].slot # acc.slot

\* the used bits are the slots with an owner
UsedBits ==
    \A s \in Slots : s \in clients_used <=>
        \/ Granted /\ acc.slot = s
        \/ \E c \in Conns : Live(c) /\ rx[c].slot = s

IInv == TypeOK /\ OneThread /\ Greeting /\ Exclusive /\ UsedBits

-----------------------------------------------------------------------------
\* The least element of a set of numbers is one of them.
LEMMA MinIn ==
    ASSUME NEW S, S \subseteq Nat, S # {}
    PROVE  Min(S) \in S
<1> DEFINE Less == {ss \in Nat \X Nat : ss[1] < ss[2]}
<1>1. IsWellFoundedOn(Less, Nat)
  BY NatLessThanWellFounded, Zenon DEF OpToRel
<1>2. \E x \in S : \A y \in S : ~ (<<y, x>> \in Less)
  <2> HIDE DEF Less
  <2> QED BY <1>1, WFMin
<1>3. \A x, y \in Nat : ~ (<<y, x>> \in Less) => x <= y
  OBVIOUS
<1>4. \E x \in S : \A y \in S : x <= y
  <2> HIDE DEF Less
  <2> QED BY <1>2, <1>3
<1>5. QED
  BY <1>4 DEF Min

\* Slots and descriptors are numbered from 0, and the marks are no connection.
LEMMA Numbers ==
    /\ Slots \subseteq Nat /\ 0 \in Slots
    /\ Fds \subseteq Nat /\ 0 \in Fds /\ -1 \notin Fds
    /\ NoConn \notin Conns /\ Sender \notin Conns
BY ServerAssumption DEF ServerAssumption, Slots, Fds

\* The slot and the descriptor that are handed out are free ones.
LEMMA FreeOnes ==
    /\ Slots \ clients_used # {} => Min(Slots \ clients_used) \in Slots \ clients_used
    /\ FreeFds # {} => Min(FreeFds) \in Fds
<1>1. Slots \ clients_used \subseteq Nat /\ FreeFds \subseteq Nat /\ FreeFds \subseteq Fds
  BY Numbers DEF FreeFds
<1>2. QED
  BY <1>1, MinIn

\* The server starts in a state of the invariant.
LEMMA InitIInv == Init => IInv
<1> SUFFICES ASSUME Init PROVE IInv
  OBVIOUS
<1>1. TypeOK
  BY Numbers DEF Init, TypeOK, Accepting, NoThread, Idle
<1>2. OneThread /\ Greeting /\ Exclusive /\ UsedBits
  BY Numbers DEF Init, OneThread, Greeting, Exclusive, UsedBits, Granted, Live,
                 Accepting, NoThread, Idle
<1>3. QED
  BY <1>1, <1>2 DEF IInv

-----------------------------------------------------------------------------
(* Every step keeps the invariant.                                         *)

\* The records of the three kinds of thread.
AccRecs == [pc : {"accept", "alloc", "drop", "assign", "start"},
            conn : Conns \cup {NoConn}, client : Fds, slot : Slots]
RxRecs == [pc : {"none", "start", "conn", "greet", "recv", "wait", "free", "close", "done"},
           slot : Slots, sock : Fds \cup {-1}, on : Conns \cup {NoConn}]
TxRecs == [pc : {"idle", "send", "close", "mark"},
           by : Conns \cup {NoConn, Sender}, todo : SUBSET Slots, at : Slots]

\* A thread record whose fields are set one by one is a thread record.
LEMMA RxUpdate ==
    ASSUME TypeOK, NEW c \in Conns, NEW r \in RxRecs, rx' = [rx EXCEPT ![c] = r]
    PROVE  rx' \in [Conns -> RxRecs]
BY DEF TypeOK, RxRecs

\* A step of psc_run keeps the types.
LEMMA AcceptorTypes ==
    ASSUME TypeOK, OneThread, Acceptor
    PROVE  TypeOK'
<1> USE Numbers
<1>0. acc \in AccRecs
  BY DEF TypeOK, AccRecs
<1>1. ASSUME NEW c \in Conns, Accept(c) PROVE TypeOK'
  BY <1>1, FreeOnes DEF TypeOK, Accept
<1>2. CASE Alloc
  <2>1. CASE Slots \ clients_used = {}
    BY <1>2, <2>1 DEF TypeOK, Alloc
  <2>2. CASE Slots \ clients_used # {}
    <3> DEFINE s == Min(Slots \ clients_used)
    <3>1. s \in Slots
      BY <2>2, FreeOnes
    <3>2. /\ clients_used' = clients_used \cup {s}
          /\ sock' = [sock EXCEPT ![s] = 0]
          /\ acc' = [acc EXCEPT !.pc = "assign", !.slot = s]
          /\ UNCHANGED <<fd, peer, rx, tx>>
      BY <1>2, <2>2 DEF Alloc
    <3> HIDE DEF s
    <3>3. acc' \in AccRecs
      BY <1>0, <3>1, <3>2 DEF AccRecs
    <3>4. clients_used' \subseteq Slots /\ sock' \in [Slots -> Fds \cup {-1}]
      BY <3>1, <3>2 DEF TypeOK
    <3>5. QED
      BY <3>2, <3>3, <3>4 DEF TypeOK, AccRecs
  <2>3. QED
    BY <2>1, <2>2
<1>3. CASE Drop
  BY <1>3 DEF TypeOK, Drop, AfterClose, Accepting
<1>4. CASE Assign
  BY <1>4 DEF TypeOK, Assign
<1>5. CASE StartThread
  BY <1>5 DEF TypeOK, OneThread, StartThread, Accepting
<1>6. QED
  BY <1>1, <1>2, <1>3, <1>4, <1>5 DEF Acceptor

\* A step of psc_send or psc_send_one keeps the types.
LEMMA SendTypes ==
    ASSUME TypeOK, SendAll \/ Sending
    PROVE  TypeOK'
<1> USE Numbers
<1>1. CASE SendAll
  BY <1>1 DEF TypeOK, SendAll, SendLock
<1>2. CASE SendNext
  <2> DEFINE s == Min(tx.todo)
             rest == [tx EXCEPT !.todo = @ \ {s}, !.at = s]
  <2>1. s \in Slots
    <3>1. tx.todo # {} /\ tx.todo \subseteq Nat /\ tx.todo \subseteq Slots
      BY <1>2 DEF TypeOK, SendNext
    <3>2. QED
      BY <3>1, MinIn
  <2>2. tx' = rest \/ tx' = [rest EXCEPT !.pc = "close"]
    BY <1>2 DEF SendNext
  <2>3. tx \in TxRecs
    BY DEF TypeOK, TxRecs
  <2>4. rest \in TxRecs /\ [rest EXCEPT !.pc = "close"] \in TxRecs
    <3> HIDE DEF s
    <3> QED BY <2>1, <2>3 DEF TxRecs
  <2>5. tx' \in TxRecs
    BY <2>2, <2>4
  <2>6. QED
    BY <1>2, <2>5 DEF TypeOK, SendNext, TxRecs
<1>3. CASE SendClose
  BY <1>3 DEF TypeOK, SendClose, AfterClose
<1>4. CASE SendMark
  BY <1>4 DEF TypeOK, SendMark
<1>5. CASE SendUnlock
  BY <1>5 DEF TypeOK, SendUnlock, Idle
<1>6. QED
  BY <1>1, <1>2, <1>3, <1>4, <1>5 DEF Sending

\* A step of a handle_client thread keeps the types.
LEMMA HandlerTypes ==
    ASSUME TypeOK, NEW c \in Conns, Handler(c)
    PROVE  TypeOK'
<1> USE Numbers
<1>0. rx[c] \in RxRecs /\ sock[rx[c].slot] \in Fds \cup {-1}
  BY DEF TypeOK, RxRecs
<1>a. ASSUME NEW r \in RxRecs, rx' = [rx EXCEPT ![c] = r],
             UNCHANGED <<clients_used, sock, fd, peer, acc, tx>>
      PROVE  TypeOK'
  BY <1>a, RxUpdate DEF TypeOK, RxRecs
<1>1. CASE Begin(c)
  <2> DEFINE r == [rx[c] EXCEPT !.pc = "conn", !.sock = sock[rx[c].slot]]
  <2>1. r \in RxRecs
    BY <1>0 DEF RxRecs
  <2>2. rx' = [rx EXCEPT ![c] = r]
    BY <1>1 DEF Begin, TypeOK
  <2>3. QED
    BY <1>1, <1>a, <2>1, <2>2 DEF Begin
<1>2. CASE ConnEvent(c)
  BY <1>2 DEF TypeOK, ConnEvent, SendLock
<1>3. CASE Recv(c)
  <2> DEFINE r == [rx[c] EXCEPT !.pc = "wait", !.on = fd[rx[c].sock]]
             q == [rx[c] EXCEPT !.pc = "free"]
  <2>1. q \in RxRecs
    BY <1>0 DEF RxRecs
  <2>2. CASE rx[c].sock \in Fds /\ fd[rx[c].sock] \in Conns
    <3>1. r \in RxRecs
      BY <1>0, <2>2 DEF RxRecs
    <3>2. rx' = [rx EXCEPT ![c] = r]
      BY <1>3, <2>2 DEF Recv, TypeOK
    <3>3. QED
      BY <1>3, <1>a, <3>1, <3>2 DEF Recv
  <2>3. CASE ~ (rx[c].sock \in Fds /\ fd[rx[c].sock] \in Conns)
    <3>1. rx' = [rx EXCEPT ![c] = q]
      BY <1>3, <2>3 DEF Recv, TypeOK
    <3>2. QED
      BY <1>3, <1>a, <2>1, <3>1 DEF Recv
  <2>4. QED
    BY <2>2, <2>3
<1>4. CASE Message(c)
  <2> DEFINE r == [rx[c] EXCEPT !.pc = "recv", !.on = NoConn]
  <2>1. r \in RxRecs
    BY <1>0 DEF RxRecs
  <2>2. rx' = [rx EXCEPT ![c] = r]
    BY <1>4 DEF Message, TypeOK
  <2>3. QED
    BY <1>4, <1>a, <2>1, <2>2 DEF Message
<1>5. CASE RecvError(c) \/ RecvTimeout(c)
  <2> DEFINE r == [rx[c] EXCEPT !.pc = "free", !.on = NoConn]
  <2>1. r \in RxRecs
    BY <1>0 DEF RxRecs
  <2>2. rx' = [rx EXCEPT ![c] = r]
    BY <1>5 DEF RecvError, RecvTimeout, TypeOK
  <2>3. QED
    BY <1>5, <1>a, <2>1, <2>2 DEF RecvError, RecvTimeout
<1>7. CASE Free(c)
  BY <1>7 DEF TypeOK, Free
<1>8. CASE Close(c)
  BY <1>8 DEF TypeOK, Close, AfterClose
<1>9. QED
  BY <1>1, <1>2, <1>3, <1>4, <1>5, <1>7, <1>8 DEF Handler

\* A thread that goes on with the slot it has disturbs nothing.
LEMMA ThreadGoesOn ==
    ASSUME IInv, NEW c \in Conns, Live(c), Live(c)', rx'[c].slot = rx[c].slot,
           \A d \in Conns : d # c => rx'[d] = rx[d],
           UNCHANGED <<clients_used, peer, acc>>
    PROVE  (OneThread /\ Exclusive /\ UsedBits)'
<1>1. \A d \in Conns : (Live(d)' <=> Live(d)) /\ rx'[d].slot = rx[d].slot
  BY DEF Live
<1>2. OneThread'
  BY DEF IInv, OneThread, Live
<1>3. Exclusive'
  BY <1>1 DEF IInv, Exclusive, Granted
<1>4. UsedBits'
  BY <1>1 DEF IInv, UsedBits, Granted
<1>5. QED
  BY <1>2, <1>3, <1>4

\* A step that leaves the threads, the slots and the acceptor alone.
LEMMA NothingOwned ==
    ASSUME IInv, UNCHANGED <<clients_used, acc, rx>>,
           \A c \in Conns : peer'[c] = "new" <=> peer[c] = "new"
    PROVE  (OneThread /\ Exclusive /\ UsedBits)'
<1>1. \A d \in Conns : (Live(d)' <=> Live(d)) /\ rx'[d].slot = rx[d].slot
  BY DEF Live
<1>2. OneThread'
  BY DEF IInv, OneThread
<1>3. Exclusive'
  BY <1>1 DEF IInv, Exclusive, Granted
<1>4. UsedBits'
  BY <1>1 DEF IInv, UsedBits, Granted
<1>5. QED
  BY <1>2, <1>3, <1>4

\* A step of psc_run keeps the invariant.
LEMMA AcceptorIInv ==
    ASSUME IInv, Acceptor
    PROVE  IInv'
<1> USE Numbers
<1>0. TypeOK'
  BY AcceptorTypes DEF IInv
<1>1. ASSUME NEW c \in Conns, Accept(c)
      PROVE (OneThread /\ Greeting /\ Exclusive /\ UsedBits)'
  <2>1. /\ acc.pc = "accept" /\ acc'.pc = "alloc" /\ acc'.conn = c
        /\ rx[c].pc = "none" /\ peer'[c] = "up"
        /\ \A d \in Conns : d # c => peer'[d] = peer[d]
        /\ UNCHANGED <<clients_used, rx, tx>>
    BY <1>1 DEF Accept, IInv, TypeOK, OneThread
  <2>2. \A d \in Conns : (Live(d)' <=> Live(d)) /\ rx'[d].slot = rx[d].slot
    BY <2>1 DEF Live
  <2>3. ~Granted /\ ~Granted'
    BY <2>1 DEF Granted
  <2>4. OneThread' /\ Greeting'
    BY <2>1 DEF OneThread, Greeting, IInv
  <2>5. Exclusive'
    BY <2>2, <2>3 DEF IInv, Exclusive
  <2>6. UsedBits'
    BY <2>1, <2>2, <2>3 DEF IInv, UsedBits
  <2>7. QED
    BY <2>4, <2>5, <2>6
<1>2. CASE Alloc /\ Slots \ clients_used # {}
  <2> DEFINE s == Min(Slots \ clients_used)
  <2>1. s \in Slots /\ s \notin clients_used
    BY <1>2, FreeOnes
  <2>2. /\ clients_used' = clients_used \cup {s}
        /\ acc' = [acc EXCEPT !.pc = "assign", !.slot = s]
        /\ acc.pc = "alloc" /\ UNCHANGED <<peer, rx, tx>>
    BY <1>2 DEF Alloc
  <2> HIDE DEF s
  <2>3. acc'.pc = "assign" /\ acc'.slot = s /\ acc'.conn = acc.conn
    BY <2>2 DEF IInv, TypeOK
  <2>4. \A d \in Conns : (Live(d)' <=> Live(d)) /\ rx'[d].slot = rx[d].slot
    BY <2>2 DEF Live
  <2>5. ~Granted /\ Granted'
    BY <2>2, <2>3 DEF Granted
  <2>6. \A d \in Conns : Live(d) => rx[d].slot # s
    BY <2>1, <2>5 DEF IInv, UsedBits
  <2>7. OneThread' /\ Greeting'
    BY <2>2, <2>3 DEF OneThread, Greeting, IInv
  <2>8. Exclusive'
    BY <2>3, <2>4, <2>5, <2>6 DEF IInv, Exclusive
  <2>9. UsedBits'
    BY <2>1, <2>2, <2>3, <2>4, <2>5 DEF IInv, UsedBits
  <2>10. QED
    BY <1>0, <2>7, <2>8, <2>9 DEF IInv
<1>3. CASE (Alloc /\ Slots \ clients_used = {}) \/ Drop
  <2>1. /\ UNCHANGED <<clients_used, peer, rx, tx>>
        /\ acc.pc \in {"alloc", "drop"} /\ acc'.pc \in {"accept", "drop"}
        /\ acc'.pc = "drop" => acc'.conn = acc.conn
    BY <1>3 DEF Alloc, Drop, Accepting, IInv, TypeOK
  <2>2. \A d \in Conns : (Live(d)' <=> Live(d)) /\ rx'[d].slot = rx[d].slot
    BY <2>1 DEF Live
  <2>3. ~Granted /\ ~Granted'
    BY <2>1 DEF Granted
  <2>4. OneThread' /\ Greeting'
    BY <2>1 DEF OneThread, Greeting, IInv
  <2>5. Exclusive'
    BY <2>2, <2>3 DEF IInv, Exclusive
  <2>6. UsedBits'
    BY <2>1, <2>2, <2>3 DEF IInv, UsedBits
  <2>7. QED
    BY <1>0, <2>4, <2>5, <2>6 DEF IInv
<1>4. CASE Assign
  <2>1. /\ UNCHANGED <<clients_used, peer, rx, tx>>
        /\ acc.pc = "assign" /\ acc'.pc = "start"
        /\ acc'.conn = acc.conn /\ acc'.slot = acc.slot
    BY <1>4 DEF Assign, IInv, TypeOK
  <2>2. \A d \in Conns : (Live(d)' <=> Live(d)) /\ rx'[d].slot = rx[d].slot
    BY <2>1 DEF Live
  <2>3. Granted /\ Granted'
    BY <2>1 DEF Granted
  <2>4. OneThread' /\ Greeting'
    BY <2>1 DEF OneThread, Greeting, IInv
  <2>5. Exclusive'
    BY <2>1, <2>2, <2>3 DEF IInv, Exclusive
  <2>6. UsedBits'
    BY <2>1, <2>2, <2>3 DEF IInv, UsedBits
  <2>7. QED
    BY <1>0, <2>4, <2>5, <2>6 DEF IInv
<1>5. CASE StartThread
  <2>1. PICK c \in Conns : /\ c = acc.conn /\ rx[c].pc = "none"
                           /\ peer[c] # "new" /\ acc.pc = "start"
    BY <1>5 DEF StartThread, IInv, OneThread
  <2>2. /\ UNCHANGED <<clients_used, peer, tx>> /\ acc'.pc = "accept"
        /\ rx'[c].pc = "start" /\ rx'[c].slot = acc.slot
        /\ \A d \in Conns : d # c => rx'[d] = rx[d]
    BY <1>5, <2>1 DEF StartThread, Accepting, IInv, TypeOK
  <2>3. Granted /\ ~Granted'
    BY <2>1, <2>2 DEF Granted
  <2>4. /\ ~Live(c) /\ Live(c)'
        /\ \A d \in Conns : d # c => (Live(d)' <=> Live(d)) /\ rx'[d].slot = rx[d].slot
    BY <2>1, <2>2 DEF Live
  <2>5. OneThread'
    BY <2>1, <2>2 DEF OneThread, IInv
  <2>6. Greeting'
    BY <2>1, <2>2 DEF Greeting, IInv
  <2>7. Exclusive'
    BY <2>1, <2>2, <2>3, <2>4 DEF IInv, Exclusive
  <2>8. UsedBits'
    BY <2>1, <2>2, <2>3, <2>4 DEF IInv, UsedBits
  <2>9. QED
    BY <1>0, <2>5, <2>6, <2>7, <2>8 DEF IInv
<1>6. QED
  BY <1>0, <1>1, <1>2, <1>3, <1>4, <1>5 DEF Acceptor, IInv

\* A step of psc_send or psc_send_one keeps the invariant.
LEMMA SendIInv ==
    ASSUME IInv, SendAll \/ Sending
    PROVE  IInv'
<1> USE Numbers
<1>0. TypeOK'
  BY SendTypes DEF IInv
<1>1. CASE SendAll \/ SendNext \/ SendClose \/ SendMark
  <2>1. UNCHANGED <<clients_used, peer, acc, rx>> /\ tx'.by \in {tx.by, Sender}
    <3>1. CASE SendNext
      <4> DEFINE s == Min(tx.todo)
      <4>1. \/ tx' = [tx EXCEPT !.todo = @ \ {s}, !.at = s]
            \/ tx' = [tx EXCEPT !.todo = @ \ {s}, !.at = s, !.pc = "close"]
        BY <3>1 DEF SendNext, IInv, TypeOK
      <4> HIDE DEF s
      <4>2. tx'.by = tx.by
        BY <4>1 DEF IInv, TypeOK
      <4>3. QED
        BY <3>1, <4>2 DEF SendNext
    <3>2. QED
      BY <1>1, <3>1 DEF SendAll, SendLock, SendClose, SendMark, IInv, TypeOK
  <2>2. Greeting'
    BY <2>1 DEF Greeting, IInv
  <2>3. (OneThread /\ Exclusive /\ UsedBits)'
    BY <2>1, NothingOwned
  <2>4. QED
    BY <1>0, <2>2, <2>3 DEF IInv
<1>2. CASE SendUnlock
  <2>1. UNCHANGED <<clients_used, peer, acc>> /\ tx'.by = NoConn
    BY <1>2 DEF SendUnlock, Idle
  <2>2. Greeting'
    BY <2>1 DEF Greeting
  <2>3. CASE tx.by \in Conns
    <3>1. PICK c \in Conns : c = tx.by /\ rx[c].pc = "greet"
      BY <2>3 DEF IInv, Greeting
    <3>2. /\ rx'[c].pc = "recv" /\ rx'[c].slot = rx[c].slot
          /\ \A d \in Conns : d # c => rx'[d] = rx[d]
      BY <1>2, <3>1 DEF SendUnlock, IInv, TypeOK
    <3>3. Live(c) /\ Live(c)'
      BY <3>1, <3>2 DEF Live
    <3>4. QED
      BY <1>0, <2>1, <2>2, <3>2, <3>3, ThreadGoesOn DEF IInv
  <2>4. CASE tx.by \notin Conns
    <3>1. UNCHANGED rx
      BY <1>2, <2>4 DEF SendUnlock
    <3>2. QED
      BY <1>0, <2>1, <2>2, <3>1, NothingOwned DEF IInv
  <2>5. QED
    BY <2>3, <2>4
<1>3. QED
  BY <1>1, <1>2 DEF Sending

\* A step of a handle_client thread keeps the invariant.
LEMMA HandlerIInv ==
    ASSUME IInv, NEW c \in Conns, Handler(c)
    PROVE  IInv'
<1> USE Numbers
<1>0. TypeOK'
  BY HandlerTypes DEF IInv
<1>1. CASE Begin(c) \/ Recv(c) \/ Message(c) \/ RecvError(c) \/ RecvTimeout(c)
  <2>1. /\ rx[c].pc \in {"start", "recv", "wait"}
        /\ rx'[c].pc \in {"conn", "wait", "recv", "free"}
        /\ rx'[c].slot = rx[c].slot
        /\ \A d \in Conns : d # c => rx'[d] = rx[d]
        /\ UNCHANGED <<clients_used, peer, acc, tx>>
    BY <1>1 DEF Begin, Recv, Message, RecvError, RecvTimeout, IInv, TypeOK
  <2>2. Live(c) /\ Live(c)'
    BY <2>1 DEF Live
  <2>3. Greeting'
    BY <2>1 DEF Greeting, IInv
  <2>4. QED
    BY <1>0, <2>1, <2>2, <2>3, ThreadGoesOn DEF IInv
<1>2. CASE ConnEvent(c)
  <2>1. /\ rx[c].pc = "conn" /\ rx'[c].pc = "greet" /\ tx'.by = c
        /\ rx'[c].slot = rx[c].slot
        /\ \A d \in Conns : d # c => rx'[d] = rx[d]
        /\ UNCHANGED <<clients_used, peer, acc>>
    BY <1>2 DEF ConnEvent, SendLock, IInv, TypeOK
  <2>2. Live(c) /\ Live(c)'
    BY <2>1 DEF Live
  <2>3. Greeting'
    BY <2>1 DEF Greeting
  <2>4. QED
    BY <1>0, <2>1, <2>2, <2>3, ThreadGoesOn DEF IInv
<1>3. CASE Free(c)
  <2>1. /\ rx[c].pc = "free" /\ rx'[c].pc = "close"
        /\ \A d \in Conns : d # c => rx'[d] = rx[d]
        /\ clients_used' = clients_used \ {rx[c].slot}
        /\ UNCHANGED <<peer, acc, tx>>
    BY <1>3 DEF Free, IInv, TypeOK
  <2>2. /\ Live(c) /\ ~Live(c)' /\ (Granted' <=> Granted)
        /\ \A d \in Conns : d # c => (Live(d)' <=> Live(d)) /\ rx'[d].slot = rx[d].slot
    BY <2>1 DEF Live, Granted
  <2>3. OneThread'
    BY <2>1 DEF OneThread, IInv
  <2>4. Greeting'
    BY <2>1 DEF Greeting, IInv
  <2>5. Exclusive'
    BY <2>1, <2>2 DEF Exclusive, IInv
  <2>6. UsedBits'
    BY <2>1, <2>2 DEF Exclusive, UsedBits, IInv
  <2>7. QED
    BY <1>0, <2>3, <2>4, <2>5, <2>6 DEF IInv
<1>4. CASE Close(c)
  <2>1. /\ rx[c].pc = "close" /\ rx'[c].pc = "done"
        /\ \A d \in Conns : d # c => rx'[d] = rx[d]
        /\ UNCHANGED <<clients_used, peer, acc, tx>>
    BY <1>4 DEF Close, IInv, TypeOK
  <2>2. /\ ~Live(c) /\ ~Live(c)' /\ (Granted' <=> Granted)
        /\ \A d \in Conns : d # c => (Live(d)' <=> Live(d)) /\ rx'[d].slot = rx[d].slot
    BY <2>1 DEF Live, Granted
  <2>3. OneThread' /\ Greeting'
    BY <2>1 DEF OneThread, Greeting, IInv
  <2>4. Exclusive'
    BY <2>1, <2>2 DEF Exclusive, IInv
  <2>5. UsedBits'
    BY <2>1, <2>2 DEF UsedBits, IInv
  <2>6. QED
    BY <1>0, <2>3, <2>4, <2>5 DEF IInv
<1>5. QED
  BY <1>1, <1>2, <1>3, <1>4 DEF Handler

\* Every step keeps the invariant.
LEMMA NextIInv == IInv /\ [Next]_vars => IInv'
<1> SUFFICES ASSUME IInv, [Next]_vars PROVE IInv'
  OBVIOUS
<1>1. ASSUME NEW c \in Conns, PeerGone(c) PROVE IInv'
  <2>1. TypeOK' /\ UNCHANGED <<clients_used, acc, rx, tx>>
    BY <1>1 DEF PeerGone, IInv, TypeOK
  <2>2. \A d \in Conns : peer'[d] = "new" <=> peer[d] = "new"
    BY <1>1 DEF PeerGone, IInv, TypeOK
  <2>3. Greeting'
    BY <2>1 DEF Greeting, IInv
  <2>4. QED
    BY <2>1, <2>2, <2>3, NothingOwned DEF IInv
<1>2. CASE UNCHANGED vars
  BY <1>2 DEF vars, IInv, TypeOK, OneThread, Greeting, Exclusive, UsedBits, Live, Granted
<1>3. QED
  BY <1>1, <1>2, AcceptorIInv, SendIInv, HandlerIInv DEF Next

-----------------------------------------------------------------------------
(* The theorems.                                                           *)

\* What holds under the invariant: one owner of a slot in use, none of another.
LEMMA OwnersCounted == IInv => OneOwnerPerSlot
<1> SUFFICES ASSUME IInv, NEW s \in Slots
             PROVE  Cardinality(OwnersOf(s)) = IF s \in clients_used THEN 1 ELSE 0
  BY DEF OneOwnerPerSlot
<1>1. OwnersOf(s) = {c \in Conns : Live(c) /\ rx[c].slot = s}
                      \cup {c \in {acc.conn} : Granted /\ acc.slot = s}
  BY DEF OwnersOf, RxOf, Live, Granted
<1>2. CASE s \notin clients_used
  <2>1. OwnersOf(s) = {}
    BY <1>1, <1>2 DEF IInv, UsedBits
  <2>2. QED
    BY <1>2, <2>1, FS_EmptySet
<1>3. CASE s \in clients_used
  <2>1. \E o : OwnersOf(s) = {o}
    <3>1. CASE Granted /\ acc.slot = s
      <4>1. OwnersOf(s) = {acc.conn}
        BY <1>1, <3>1 DEF IInv, Exclusive
      <4>2. QED
        BY <4>1
    <3>2. CASE ~ (Granted /\ acc.slot = s)
      <4>1. PICK c \in Conns : Live(c) /\ rx[c].slot = s
        BY <1>3, <3>2 DEF IInv, UsedBits
      <4>2. \A d \in Conns : Live(d) /\ rx[d].slot = s => d = c
        BY <4>1 DEF IInv, Exclusive
      <4>3. OwnersOf(s) = {c}
        BY <1>1, <3>2, <4>1, <4>2
      <4>4. QED
        BY <4>3
    <3>3. QED
      BY <3>1, <3>2
  <2>2. QED
    BY <1>3, <2>1, FS_Singleton
<1>4. QED
  BY <1>2, <1>3

\* The fields of the server's threads, slots and descriptors keep their types,
\* for any number of slots, connections and descriptors.
THEOREM ServerTypes == Spec => []TypeOK
<1>1. IInv => TypeOK
  BY DEF IInv
<1>2. QED
  BY InitIInv, NextIInv, <1>1, PTL DEF Spec

\* The used bits of psc_client_alloc and psc_client_free are exactly the slots
\* some thread still works on, and no slot is worked on for two connections,
\* whatever descriptors psc_send closes meanwhile.
THEOREM SlotsOwnedOnce == Spec => []OneOwnerPerSlot
BY InitIInv, NextIInv, OwnersCounted, PTL DEF Spec
=============================================================================
