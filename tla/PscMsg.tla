------------------------------- MODULE PscMsg -------------------------------
(***************************************************************************)
(* Receiving messages: psc_recvmsg, psc_recvhead, psc_recvskip and         *)
(* psc_recvall of pscmsg.c, called in a loop by the handle_client thread   *)
(* of one connection, whose messages client_msg then handles.  recv may    *)
(* return any part of what has arrived, time out, or find the peer gone.   *)
(*                                                                         *)
(* The stream is a sequence of units, known by their position.  Data wait  *)
(* in the pool of receive buffers that Discover draws on.                  *)
(***************************************************************************)
EXTENDS Discover, FiniteSets

CONSTANTS
    HeadLen,   \* units of a header
    MaxLen,    \* units of rxbuf
    SkipLen,   \* units of the buffer of psc_recvskip
    Lens,      \* lengths of messages
    MaxMsgs    \* bound on the messages of the peer

ASSUME MsgAssumption ==
    /\ HeadLen \in Nat \ {0} /\ MaxLen \in Nat \ {0} /\ SkipLen \in Nat \ {0}
    /\ Lens \subseteq Nat /\ IsFiniteSet(Lens) /\ MaxMsgs \in Nat

VARIABLES
    peer,      \* "up", "silent" (sends no more) or "gone"
    lens,      \* lens[p] of the message that starts at position p
    sent,      \* units the peer has produced
    unread,    \* units that have arrived and are not received
    pos,       \* units received
    pc,        \* which psc_recvall the thread is in
    need,      \* what that call still has to receive
    start,     \* position of the header of the current message
    mlen,      \* its length as received
    left,      \* len in psc_recvskip
    rxbuf,     \* rxbuf[i]: position of the unit stored there, or -1
    ignored,   \* history: an error was ignored while skipping
    overran    \* a call received more than its buffer holds

stream == <<lens, sent, unread, pos>>
thread == <<pc, need, start, mlen, left, rxbuf, overran>>
vars == <<pool, disco, peer, stream, thread, ignored>>

Init ==
    /\ DiscoInit
    /\ peer = "up" /\ lens = [p \in {} |-> 0] /\ sent = 0 /\ unread = 0 /\ pos = 0
    /\ pc = "head" /\ need = HeadLen /\ start = 0 /\ mlen = 0 /\ left = 0
    /\ rxbuf = [i \in 0..(MaxLen - 1) |-> -1]
    /\ ignored = FALSE /\ overran = FALSE

-----------------------------------------------------------------------------
(* The peer and the network.                                               *)
SendMsg(n) ==
    /\ peer = "up" /\ Cardinality(DOMAIN lens) < MaxMsgs
    /\ lens' = [p \in DOMAIN lens \cup {sent} |-> IF p = sent THEN n ELSE lens[p]]
    /\ sent' = sent + HeadLen + n
    /\ UNCHANGED <<pool, disco, peer, unread, pos, thread, ignored>>

\* the peer stops anywhere in what it was sending
PeerStops ==
    /\ peer = "up" /\ \E p \in {"silent", "gone"} : peer' = p
    /\ \E cut \in (pos + unread)..sent : sent' = cut
    /\ UNCHANGED <<pool, disco, lens, unread, pos, thread, ignored>>

\* a unit arrives, when the driver has a buffer for it
Arrive ==
    /\ pos + unread < sent /\ pool > 0
    /\ unread' = unread + 1 /\ pool' = pool - 1
    /\ UNCHANGED <<disco, peer, lens, sent, pos, thread, ignored>>

-----------------------------------------------------------------------------
(* psc_recvall.                                                            *)
Receiving == pc \in {"head", "body", "skip", "rest"}
Least(m, n) == IF m < n THEN m ELSE n

\* where the units go: only those of the body are kept
Stored(n) ==
    LET done == Least(mlen, MaxLen) - need IN
    [i \in DOMAIN rxbuf |-> IF pc = "body" /\ i \in done..(done + n - 1)
                            THEN pos + i - done ELSE rxbuf[i]]

\* more than psc_recvskip's buffer holds
TooMuch(n) == pc = "rest" /\ left - need + n > SkipLen

\* recv returns n units; beyond the buffer it overwrites the stack, which the
\* thread may or may not survive
Recv(n) ==
    /\ Receiving /\ n \in 1..Least(need, unread)
    /\ pos' = pos + n /\ unread' = unread - n /\ pool' = pool + n
    /\ need' = need - n /\ rxbuf' = Stored(n)
    /\ overran' = (overran \/ TooMuch(n))
    /\ pc' \in (IF TooMuch(n) THEN {pc, "dead"} ELSE {pc})
    /\ UNCHANGED <<disco, peer, lens, sent, start, mlen, left, ignored>>

\* recv has nothing to return: it times out or the peer is gone
RecvFails == Receiving /\ need > 0 /\ unread = 0

\* Mutant: a timeout is not noticed.
RecvErrorDeaf ==
    /\ RecvFails /\ pc # "skip" /\ peer = "gone"
    /\ pc' = "closed"
    /\ UNCHANGED <<pool, disco, peer, stream, need, start, mlen, left, rxbuf,
                   overran, ignored>>

\* the error ends psc_recvmsg and the connection
RecvError ==
    /\ RecvFails /\ pc # "skip"
    /\ pc' = "closed"
    /\ UNCHANGED <<pool, disco, peer, stream, need, start, mlen, left, rxbuf,
                   overran, ignored>>

\* in the loop of psc_recvskip it ends the loop only
SkipError ==
    /\ RecvFails /\ pc = "skip"
    /\ pc' = "rest" /\ need' = left /\ ignored' = TRUE
    /\ UNCHANGED <<pool, disco, peer, stream, start, mlen, left, rxbuf, overran>>

-----------------------------------------------------------------------------
(* The call is complete.                                                   *)
Completed(label) == pc = label /\ need = 0

\* the next part of psc_recvskip, with n units to go
Skip(n) == /\ left' = n
           /\ IF n > SkipLen THEN pc' = "skip" /\ need' = SkipLen
              ELSE pc' = "rest" /\ need' = n

\* psc_recvhead: a header, or units that only look like one or do not
HeadDone ==
    /\ Completed("head")
    /\ \/ \E n \in (IF start \in DOMAIN lens THEN {lens[start]} ELSE Lens) :
             /\ pc' = "body" /\ mlen' = n /\ need' = Least(n, MaxLen)
       \/ start \notin DOMAIN lens /\ pc' = "closed" /\ UNCHANGED <<need, mlen>>
    /\ UNCHANGED <<pool, disco, peer, stream, start, left, rxbuf, overran, ignored>>

\* Mutant: the rest of a long message is taken for the next one.
BodyDoneNoSkip ==
    /\ Completed("body")
    /\ pc' = "handle" /\ UNCHANGED <<left, need>>
    /\ UNCHANGED <<pool, disco, peer, stream, start, mlen, rxbuf, overran, ignored>>

BodyDone ==
    /\ Completed("body")
    /\ IF mlen > MaxLen THEN Skip(mlen - MaxLen)
       ELSE pc' = "handle" /\ UNCHANGED <<left, need>>
    /\ UNCHANGED <<pool, disco, peer, stream, start, mlen, rxbuf, overran, ignored>>

SkipDone ==
    /\ Completed("skip")
    /\ Skip(left - SkipLen)
    /\ UNCHANGED <<pool, disco, peer, stream, start, mlen, rxbuf, overran, ignored>>

RestDone ==
    /\ Completed("rest")
    /\ pc' = "handle"
    /\ UNCHANGED <<pool, disco, peer, stream, need, start, mlen, left, rxbuf,
                   overran, ignored>>

\* client_msg, then the loop of handle_client
Handle ==
    /\ pc = "handle"
    /\ pc' = "head" /\ need' = HeadLen /\ start' = pos
    /\ UNCHANGED <<pool, disco, peer, stream, mlen, left, rxbuf, overran, ignored>>

Thread == \/ RecvError \/ SkipError \/ HeadDone \/ BodyDone \/ SkipDone
          \/ RestDone \/ Handle \/ \E n \in 1..unread : Recv(n)

Next == \/ Thread \/ Arrive \/ PeerStops \/ \E n \in Lens : SendMsg(n)
        \/ DiscoNext /\ UNCHANGED <<peer, stream, thread, ignored>>

(* A thread that can run runs, data under way arrive while there are       *)
(* buffers, and a receive that waits in vain is ended by SO_RCVTIMEO.      *)
Spec == Init /\ [][Next]_vars /\ WF_vars(Thread) /\ WF_vars(Arrive)

-----------------------------------------------------------------------------
TypeOK ==
    /\ DiscoTypeOK
    /\ peer \in {"up", "silent", "gone"}
    /\ sent \in Nat /\ pos \in 0..sent /\ unread \in 0..PoolSize
    /\ DOMAIN lens \subseteq Nat /\ \A p \in DOMAIN lens : lens[p] \in Lens
    /\ pc \in {"head", "body", "skip", "rest", "handle", "closed", "dead"}
    /\ need \in Nat /\ start \in 0..sent /\ mlen \in Lens \cup {0} /\ left \in Nat
    /\ rxbuf \in [0..(MaxLen - 1) -> -1..sent]
    /\ ignored \in BOOLEAN /\ overran \in BOOLEAN

(* However the network cuts the stream, what client_msg is given is one    *)
(* message of the peer, its units in their places - unless an error was    *)
(* ignored in psc_recvskip before.                                         *)
WholeMessages ==
    pc = "handle" /\ ~ignored =>
        /\ start \in DOMAIN lens /\ mlen = lens[start]
        /\ pos = start + HeadLen + mlen
        /\ \A i \in 0..(Least(mlen, MaxLen) - 1) : rxbuf[i] = start + HeadLen + i

(* A peer that sends no more does not keep its thread: after the data      *)
(* under way, SO_RCVTIMEO ends the connection, wherever in a message it    *)
(* stopped and whatever is left of the buffers.                            *)
SilentPeerDropped == peer # "up" ~> pc \in {"closed", "dead"}
=============================================================================
