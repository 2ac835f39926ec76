---------------------------- MODULE PscMsgProofs ----------------------------
(***************************************************************************)
(* Proofs about the framing of messages and the receive buffers, for every *)
(* length of header, message and buffer and every size of the pool.        *)
(***************************************************************************)
EXTENDS PscMsg, TLAPS

-----------------------------------------------------------------------------
(* The inductive invariant.                                                *)

\* the thread and the stream, sharper than the types: nothing is received
\* before it is sent, and what is kept has been received
Numbers ==
    /\ peer \in {"up", "silent", "gone"}
    /\ sent \in Nat /\ pos \in Nat /\ unread \in Nat /\ pos + unread <= sent
    /\ pc \in {"head", "body", "skip", "rest", "handle", "closed", "dead"}
    /\ need \in Nat /\ start \in Nat /\ start <= pos /\ left \in Nat
    /\ mlen \in Lens \cup {0}
    /\ rxbuf \in [0..(MaxLen - 1) -> Int]
    /\ \A i \in 0..(MaxLen - 1) : rxbuf[i] >= -1 /\ rxbuf[i] <= pos
    /\ ignored \in BOOLEAN /\ overran \in BOOLEAN
    /\ pc = "skip" => left > SkipLen

\* the buffers and the references of discovery
Buffers ==
    /\ pool \in Nat /\ datagrams \in Nat /\ replies \in Nat /\ refs \in Nat
    /\ pool + unread + datagrams = PoolSize
    /\ replies <= datagrams
    /\ prep \in {"pending", "installed", "failed"}
    /\ prep = "installed" => refs = 1 + replies
    /\ prep # "installed" => refs = 0 /\ replies = 0 /\ datagrams = 0

\* position p is where a message begins, or will begin if there is another
Boundary(p) == p \in DOMAIN lens \/ (sent <= p /\ (peer = "up" => p = sent))

\* the peer puts its messages end to end
Chain ==
    /\ DOMAIN lens \subseteq Nat
    /\ \A p \in DOMAIN lens : /\ lens[p] \in Lens
                              /\ Boundary(p + HeadLen + lens[p])
                              /\ peer = "up" => p < sent

Body == Least(mlen, MaxLen)
Got(k) == \A i \in 0..(MaxLen - 1) : i < k => rxbuf[i] = start + HeadLen + i

\* the thread is in step with the stream, unless it has ignored an error
InMessage == start \in DOMAIN lens /\ mlen = lens[start]
InHead == pc = "head" => /\ Boundary(start) /\ need <= HeadLen
                         /\ pos = start + HeadLen - need
InBody == pc = "body" => /\ InMessage /\ need <= Body
                         /\ pos = start + HeadLen + Body - need /\ Got(Body - need)
InSkip == pc = "skip" => /\ InMessage /\ need <= SkipLen /\ mlen > MaxLen
                         /\ pos = start + HeadLen + mlen - left + SkipLen - need
                         /\ Got(MaxLen)
InRest == pc = "rest" => /\ InMessage /\ need <= left /\ left <= SkipLen
                         /\ mlen > MaxLen /\ pos = start + HeadLen + mlen - need
                         /\ Got(MaxLen)
InHandle == pc = "handle" => InMessage /\ pos = start + HeadLen + mlen /\ Got(Body)
InStep == ~ignored => InHead /\ InBody /\ InSkip /\ InRest /\ InHandle

MsgInv == Numbers /\ Buffers /\ Chain /\ InStep

-----------------------------------------------------------------------------
\* The constants are positive numbers, and lengths are numbers.
LEMMA Sizes ==
    /\ HeadLen \in Nat \ {0} /\ MaxLen \in Nat \ {0} /\ SkipLen \in Nat \ {0}
    /\ Lens \subseteq Nat /\ PoolSize \in Nat \ {0}
BY MsgAssumption, PoolAssumption DEF MsgAssumption, PoolAssumption

\* The part of a message that is kept.
LEMMA BodyLen ==
    ASSUME Numbers
    PROVE  /\ mlen \in Nat /\ Body \in Nat /\ Body <= MaxLen /\ Body <= mlen
           /\ mlen > MaxLen => Body = MaxLen
           /\ mlen <= MaxLen => Body = mlen
<1>1. mlen \in Nat /\ MaxLen \in Nat
  BY Sizes DEF Numbers
<1>2. QED
  BY <1>1 DEF Body, Least

\* The thread starts in a state of the invariant.
LEMMA InitMsgInv == Init => MsgInv
<1> SUFFICES ASSUME Init PROVE MsgInv
  OBVIOUS
<1>1. Numbers
  <2>1. /\ rxbuf \in [0..(MaxLen - 1) -> Int]
        /\ \A i \in 0..(MaxLen - 1) : rxbuf[i] = -1
    BY DEF Init
  <2>2. /\ peer = "up" /\ sent = 0 /\ unread = 0 /\ pos = 0 /\ pc = "head"
        /\ need = HeadLen /\ start = 0 /\ mlen = 0 /\ left = 0
        /\ ignored = FALSE /\ overran = FALSE
    BY DEF Init
  <2>3. ignored \in BOOLEAN /\ overran \in BOOLEAN
    BY <2>2
  <2>4. \A i \in 0..(MaxLen - 1) : rxbuf[i] >= -1 /\ rxbuf[i] <= pos
    BY <2>1, <2>2
  <2>5. need \in Nat /\ pos + unread <= sent /\ start <= pos /\ mlen \in Lens \cup {0}
    BY <2>2, Sizes
  <2>6. /\ peer \in {"up", "silent", "gone"} /\ pc # "skip"
        /\ pc \in {"head", "body", "skip", "rest", "handle", "closed", "dead"}
        /\ sent \in Nat /\ pos \in Nat /\ unread \in Nat /\ start \in Nat /\ left \in Nat
    BY <2>2
  <2>7. QED
    BY <2>1, <2>3, <2>4, <2>5, <2>6 DEF Numbers
<1>2. Buffers
  BY Sizes DEF Init, DiscoInit, Buffers
<1>3. DOMAIN lens = {}
  BY DEF Init
<1>4. Chain
  BY <1>3 DEF Chain
<1>5. InStep
  BY Sizes DEF Init, InStep, InHead, InBody, InSkip, InRest, InHandle, Boundary
<1>6. QED
  BY <1>1, <1>2, <1>4, <1>5 DEF MsgInv

\* What the peer adds or leaves out keeps the thread in step.
LEMMA StreamGrows ==
    ASSUME InStep, UNCHANGED <<thread, pos, ignored>>,
           \A p \in DOMAIN lens : p \in DOMAIN lens' /\ lens'[p] = lens[p],
           pc = "head" /\ Boundary(start) => Boundary(start)'
    PROVE  InStep'
<1>1. UNCHANGED <<pc, need, start, mlen, left, rxbuf, pos, ignored>>
  BY DEF thread
<1>2. InMessage => InMessage'
  BY <1>1 DEF InMessage
<1>3. /\ Body' = Body
      /\ \A k \in {Body, Body - need, MaxLen} : Got(k) => Got(k)'
  BY <1>1 DEF Body, Got, Least
<1>4. QED
  BY <1>1, <1>2, <1>3 DEF InStep, InHead, InBody, InSkip, InRest, InHandle

\* The peer keeps the invariant.
LEMMA PeerMsgInv ==
    ASSUME MsgInv, PeerStops \/ \E n \in Lens : SendMsg(n)
    PROVE  MsgInv'
<1>1. Numbers /\ Buffers /\ Chain /\ InStep
  BY DEF MsgInv
<1>2. ASSUME NEW n \in Lens, SendMsg(n) PROVE MsgInv'
  <2>1. /\ peer = "up" /\ sent' = sent + HeadLen + n
        /\ DOMAIN lens' = DOMAIN lens \cup {sent} /\ lens'[sent] = n
        /\ \A p \in DOMAIN lens : p # sent => lens'[p] = lens[p]
        /\ UNCHANGED <<pool, disco, peer, unread, pos, thread, ignored>>
    BY <1>2 DEF SendMsg
  <2>2. n \in Nat /\ sent \in Nat /\ HeadLen \in Nat /\ HeadLen >= 1
    BY <1>1, Sizes DEF Numbers
  <2>3. \A p \in DOMAIN lens : p \in Nat /\ p < sent /\ lens[p] \in Nat
    BY <1>1, <2>1, Sizes DEF Chain
  <2>4. Numbers'
    BY <1>1, <2>1, <2>2 DEF Numbers, thread
  <2>5. Buffers'
    BY <1>1, <2>1 DEF Buffers, disco
  <2>7. Chain'
    <3>1. DOMAIN lens' \subseteq Nat
      BY <2>1, <2>2, <2>3
    <3>2. ASSUME NEW p \in DOMAIN lens'
          PROVE  /\ lens'[p] \in Lens /\ Boundary(p + HeadLen + lens[p])'
                 /\ peer' = "up" => p < sent'
      <4>1. CASE p = sent
        BY <2>1, <2>2, <4>1 DEF Boundary
      <4>2. CASE p # sent
        <5>1. p \in DOMAIN lens /\ lens'[p] = lens[p]
          BY <2>1, <4>2
        <5>2. lens[p] \in Lens /\ Boundary(p + HeadLen + lens[p])
          BY <1>1, <5>1 DEF Chain
        <5>3. QED
          BY <2>1, <2>2, <2>3, <5>1, <5>2 DEF Boundary
      <4>3. QED
        BY <4>1, <4>2
    <3>3. QED
      BY <3>1, <3>2 DEF Chain
  <2>8. InStep'
    <3>1. pc = "head" /\ Boundary(start) => Boundary(start)'
      BY <2>1 DEF Boundary, thread
    <3>2. \A p \in DOMAIN lens : p \in DOMAIN lens' /\ lens'[p] = lens[p]
      BY <2>1, <2>3
    <3>3. QED
      BY <1>1, <2>1, <3>1, <3>2, StreamGrows
  <2>9. QED
    BY <2>4, <2>5, <2>7, <2>8 DEF MsgInv
<1>3. CASE PeerStops
  <2>1. /\ peer' \in {"silent", "gone"} /\ pos + unread <= sent' /\ sent' <= sent
        /\ sent' \in Nat
        /\ UNCHANGED <<pool, disco, lens, unread, pos, thread, ignored>>
    BY <1>1, <1>3 DEF PeerStops, Numbers
  <2>2. Numbers'
    BY <1>1, <2>1 DEF Numbers, thread
  <2>3. Buffers'
    BY <1>1, <2>1 DEF Buffers, disco
  <2>4. \A p \in Nat : Boundary(p) => Boundary(p)'
    BY <1>1, <2>1 DEF Boundary, Numbers
  <2>5. \A p \in DOMAIN lens : p + HeadLen + lens[p] \in Nat
    <3>1. \A p \in DOMAIN lens : p \in Nat /\ lens[p] \in Nat
      BY <1>1, Sizes DEF Chain
    <3>2. QED
      BY <3>1, Sizes
  <2>6. Chain'
    BY <1>1, <2>1, <2>4, <2>5 DEF Chain
  <2>7. InStep'
    <3>1. pc = "head" /\ Boundary(start) => Boundary(start)'
      BY <1>1, <2>1 DEF Boundary, thread, Numbers
    <3>2. QED
      BY <1>1, <2>1, <3>1, StreamGrows
  <2>8. QED
    BY <2>2, <2>3, <2>6, <2>7 DEF MsgInv
<1>4. QED
  BY <1>2, <1>3

-----------------------------------------------------------------------------
\* A step of the thread that receives nothing leaves buffers and stream alone.
LEMMA StreamStays ==
    ASSUME Buffers, Chain, UNCHANGED <<pool, disco, peer, stream>>
    PROVE  Buffers' /\ Chain'
<1>1. UNCHANGED <<pool, prep, refs, replies, datagrams, peer, lens, sent, unread, pos>>
  BY DEF disco, stream
<1>2. Buffers'
  BY <1>1 DEF Buffers
<1>3. Chain'
  BY <1>1 DEF Chain, Boundary
<1>4. QED
  BY <1>2, <1>3

\* A unit arrives.
LEMMA ArriveMsgInv ==
    ASSUME MsgInv, Arrive
    PROVE  MsgInv'
<1>1. Numbers /\ Buffers /\ Chain /\ InStep
  BY DEF MsgInv
<1>2. /\ pos + unread < sent /\ pool > 0 /\ unread' = unread + 1 /\ pool' = pool - 1
      /\ UNCHANGED <<prep, refs, replies, datagrams, peer, lens, sent, pos, pc, need,
                     start, mlen, left, rxbuf, overran, ignored>>
  BY DEF Arrive, disco, thread
<1>3. Numbers'
  BY <1>1, <1>2 DEF Numbers
<1>4. Buffers'
  <2>1. pool' \in Nat /\ pool' + unread' + datagrams' = PoolSize
    BY <1>1, <1>2, Sizes DEF Buffers, Numbers
  <2>2. QED
    BY <1>1, <1>2, <2>1 DEF Buffers
<1>5. Chain'
  BY <1>1, <1>2 DEF Chain, Boundary
<1>6. InStep'
  <2>1. pc = "head" /\ Boundary(start) => Boundary(start)'
    BY <1>2 DEF Boundary
  <2>2. \A p \in DOMAIN lens : p \in DOMAIN lens' /\ lens'[p] = lens[p]
    BY <1>2
  <2>3. UNCHANGED <<thread, pos, ignored>>
    BY <1>2 DEF thread
  <2>4. QED
    BY <1>1, <2>1, <2>2, <2>3, StreamGrows
<1>7. QED
  BY <1>3, <1>4, <1>5, <1>6 DEF MsgInv

\* Discovery has its own variables and shares the pool only.
LEMMA DiscoMsgInv ==
    ASSUME MsgInv, DiscoNext, UNCHANGED <<peer, stream, thread, ignored>>
    PROVE  MsgInv'
<1>1. Numbers /\ Buffers /\ Chain /\ InStep
  BY DEF MsgInv
<1>2. UNCHANGED <<peer, lens, sent, unread, pos, pc, need, start, mlen, left, rxbuf,
                  overran, ignored>>
  BY DEF stream, thread
<1>3. Numbers'
  BY <1>1, <1>2 DEF Numbers
<1>4. Buffers'
  <2>1. unread' = unread /\ unread \in Nat
    BY <1>1, <1>2 DEF Numbers
  <2>2. CASE DiscoverPrep
    BY <1>1, <2>1, <2>2 DEF DiscoverPrep, Buffers
  <2>3. CASE ReplySent
    BY <1>1, <2>1, <2>3 DEF ReplySent, Buffers
  <2>4. ASSUME NEW kind \in Kinds, DiscoRecv(kind) PROVE Buffers'
    BY <1>1, <2>1, <2>4, Sizes DEF DiscoRecv, Buffers
  <2>5. QED
    BY <2>2, <2>3, <2>4 DEF DiscoNext
<1>5. Chain'
  BY <1>1, <1>2 DEF Chain, Boundary
<1>6. InStep'
  <2>1. pc = "head" /\ Boundary(start) => Boundary(start)'
    BY <1>2 DEF Boundary
  <2>2. \A p \in DOMAIN lens : p \in DOMAIN lens' /\ lens'[p] = lens[p]
    BY <1>2
  <2>3. UNCHANGED <<thread, pos, ignored>>
    BY <1>2 DEF thread
  <2>4. QED
    BY <1>1, <2>1, <2>2, <2>3, StreamGrows
<1>7. QED
  BY <1>3, <1>4, <1>5, <1>6 DEF MsgInv

-----------------------------------------------------------------------------
(* psc_recvall.                                                            *)

\* A call that is in step never receives more than its buffer holds.
LEMMA NotTooMuch ==
    ASSUME MsgInv, ~ignored, NEW n \in Nat, n <= need
    PROVE  ~TooMuch(n)
<1>1. pc = "rest" => need <= left /\ left <= SkipLen
  BY DEF MsgInv, InStep, InRest
<1>2. need \in Nat /\ left \in Nat /\ SkipLen \in Nat
  BY Sizes DEF MsgInv, Numbers
<1>3. QED
  BY <1>1, <1>2 DEF TooMuch

\* Units of a body go where the ones before them end.
LEMMA StoredBody ==
    ASSUME MsgInv, NEW n \in Nat, n >= 1, n <= need, rxbuf' = Stored(n),
           UNCHANGED <<start, mlen>>
    PROVE  /\ rxbuf' \in [0..(MaxLen - 1) -> Int]
           /\ \A i \in 0..(MaxLen - 1) : rxbuf'[i] >= -1 /\ rxbuf'[i] <= pos + n
           /\ pc # "body" => rxbuf' = rxbuf
           /\ pc = "body" /\ ~ignored =>
                \A i \in 0..(MaxLen - 1) :
                    i < Body - need + n => rxbuf'[i] = start + HeadLen + i
<1>1. /\ rxbuf \in [0..(MaxLen - 1) -> Int] /\ pos \in Nat /\ need \in Nat /\ start \in Nat
      /\ \A i \in 0..(MaxLen - 1) : rxbuf[i] >= -1 /\ rxbuf[i] <= pos
  BY DEF MsgInv, Numbers
<1>2. MaxLen \in Nat /\ Body \in Nat /\ HeadLen \in Nat
  BY Sizes, BodyLen DEF MsgInv
<1> DEFINE done == Body - need
<1>3. done \in Int
  BY <1>1, <1>2
<1>4. rxbuf' = [i \in 0..(MaxLen - 1) |->
                  IF pc = "body" /\ i \in done..(done + n - 1) THEN pos + i - done
                  ELSE rxbuf[i]]
  <2>1. DOMAIN rxbuf = 0..(MaxLen - 1)
    BY <1>1
  <2>2. QED
    BY <2>1 DEF Stored, Body
<1> HIDE DEF done
<1>5. \A i \in 0..(MaxLen - 1) :
         rxbuf'[i] = IF pc = "body" /\ done <= i /\ i < done + n THEN pos + i - done
                     ELSE rxbuf[i]
  BY <1>2, <1>3, <1>4
<1>6. /\ rxbuf' \in [0..(MaxLen - 1) -> Int]
      /\ \A i \in 0..(MaxLen - 1) : rxbuf'[i] >= -1 /\ rxbuf'[i] <= pos + n
  <2>1. ASSUME NEW i \in 0..(MaxLen - 1)
        PROVE  rxbuf'[i] \in Int /\ rxbuf'[i] >= -1 /\ rxbuf'[i] <= pos + n
    <3>1. /\ i \in Int /\ rxbuf[i] \in Int /\ rxbuf[i] >= -1 /\ rxbuf[i] <= pos
          /\ \/ rxbuf'[i] = rxbuf[i]
             \/ done <= i /\ i < done + n /\ rxbuf'[i] = pos + i - done
      BY <1>1, <1>2, <1>5
    <3>2. QED
      BY <1>1, <1>3, <3>1
  <2>2. QED
    BY <1>4, <2>1
<1>7. pc # "body" => rxbuf' = rxbuf
  BY <1>1, <1>4
<1>8. ASSUME pc = "body", ~ignored, NEW i \in 0..(MaxLen - 1), i < done + n
      PROVE  rxbuf'[i] = start + HeadLen + i
  <2>1. pos = start + HeadLen + done /\ (i < done => rxbuf[i] = start + HeadLen + i)
    BY <1>1, <1>2, <1>8 DEF MsgInv, InStep, InBody, Got, done
  <2>2. i \in Int
    BY <1>2
  <2>3. CASE i < done
    <3>1. rxbuf'[i] = rxbuf[i]
      BY <1>3, <1>5, <2>2, <2>3
    <3>2. QED
      BY <2>1, <2>3, <3>1
  <2>4. CASE i >= done
    <3>1. rxbuf'[i] = pos + i - done
      BY <1>3, <1>5, <1>8, <2>2, <2>4
    <3>2. QED
      BY <1>1, <1>2, <1>3, <2>1, <2>2, <3>1
  <2>5. QED
    BY <1>3, <2>2, <2>3, <2>4
<1>9. QED
  BY <1>6, <1>7, <1>8 DEF done

\* A part of what has arrived is received.
LEMMA RecvMsgInv ==
    ASSUME MsgInv, NEW n \in 1..unread, Recv(n)
    PROVE  MsgInv'
<1>1. Numbers /\ Buffers /\ Chain /\ InStep
  BY DEF MsgInv
<1>2. /\ Receiving /\ pos' = pos + n /\ unread' = unread - n /\ pool' = pool + n
      /\ need' = need - n /\ rxbuf' = Stored(n)
      /\ UNCHANGED <<prep, refs, replies, datagrams, peer, lens, sent, start, mlen, left,
                     ignored>>
  BY DEF Recv, disco
<1>3. n \in Nat /\ n >= 1 /\ n <= need /\ n <= unread
  <2>1. need \in Nat /\ unread \in Nat /\ n \in 1..Least(need, unread)
    BY <1>1 DEF Recv, Numbers
  <2>2. QED
    BY <2>1 DEF Least
<1>4. pc' \in {pc, "dead"} /\ (~ignored => pc' = pc) /\ overran' = (overran \/ TooMuch(n))
  BY <1>3, NotTooMuch DEF Recv
<1>5. /\ rxbuf' \in [0..(MaxLen - 1) -> Int]
      /\ \A i \in 0..(MaxLen - 1) : rxbuf'[i] >= -1 /\ rxbuf'[i] <= pos + n
      /\ pc # "body" => rxbuf' = rxbuf
      /\ pc = "body" /\ ~ignored =>
           \A i \in 0..(MaxLen - 1) :
               i < Body - need + n => rxbuf'[i] = start + HeadLen + i
  BY <1>2, <1>3, StoredBody
<1>6. Numbers'
  <2>1. overran' \in BOOLEAN /\ ignored' \in BOOLEAN
    BY <1>1, <1>2, <1>4, Zenon DEF Numbers, TooMuch
  <2>2. /\ sent' \in Nat /\ pos' \in Nat /\ unread' \in Nat /\ pos' + unread' <= sent'
        /\ need' \in Nat /\ start' \in Nat /\ start' <= pos' /\ left' \in Nat
    BY <1>1, <1>2, <1>3 DEF Numbers
  <2>3. /\ peer' \in {"up", "silent", "gone"} /\ mlen' \in Lens \cup {0}
        /\ pc' \in {"head", "body", "skip", "rest", "handle", "closed", "dead"}
        /\ pc' = "skip" => left' > SkipLen
    BY <1>1, <1>2, <1>4 DEF Numbers
  <2>4. \A i \in 0..(MaxLen - 1) : rxbuf'[i] >= -1 /\ rxbuf'[i] <= pos'
    BY <1>2, <1>5
  <2>5. QED
    BY <1>5, <2>1, <2>2, <2>3, <2>4 DEF Numbers
<1>7. Buffers'
  <2>1. pool' \in Nat /\ pool' + unread' + datagrams' = PoolSize
    BY <1>1, <1>2, <1>3, Sizes DEF Buffers, Numbers
  <2>2. QED
    BY <1>1, <1>2, <2>1 DEF Buffers
<1>8. Chain'
  BY <1>1, <1>2 DEF Chain, Boundary
<1>9. InStep'
  <2> SUFFICES ASSUME ~ignored'
               PROVE  (InHead /\ InBody /\ InSkip /\ InRest /\ InHandle)'
    BY DEF InStep
  <2>1. ~ignored /\ pc' = pc /\ pc \in {"head", "body", "skip", "rest"}
    BY <1>2, <1>4 DEF Receiving
  <2>2. InHead /\ InBody /\ InSkip /\ InRest
    BY <1>1, <2>1 DEF InStep
  <2>3. /\ need \in Nat /\ pos \in Nat /\ start \in Nat /\ left \in Nat /\ mlen \in Nat
        /\ HeadLen \in Nat /\ MaxLen \in Nat /\ SkipLen \in Nat /\ Body \in Nat
        /\ Body' = Body
    BY <1>1, <1>2, Sizes, BodyLen DEF Numbers, Body, Least
  <2>4. InMessage => InMessage'
    BY <1>2 DEF InMessage
  <2>5. InHead'
    BY <1>2, <1>3, <2>1, <2>2, <2>3 DEF InHead, Boundary
  <2>6. InBody'
    <3>1. SUFFICES ASSUME pc' = "body"
                   PROVE  (/\ InMessage /\ need <= Body
                           /\ pos = start + HeadLen + Body - need /\ Got(Body - need))'
      BY DEF InBody
    <3>2. InMessage /\ need <= Body /\ pos = start + HeadLen + Body - need
      BY <2>1, <2>2, <3>1 DEF InBody
    <3>3. Body' - need' = Body - need + n
      BY <1>2, <1>3, <2>3
    <3>4. Got(Body - need)'
      BY <1>2, <1>5, <2>1, <3>1, <3>3 DEF Got
    <3>5. need' <= Body' /\ pos' = start' + HeadLen + Body' - need'
      BY <1>2, <1>3, <2>3, <3>2
    <3>6. QED
      BY <2>4, <3>2, <3>4, <3>5
  <2>7. InSkip'
    BY <1>2, <1>3, <1>5, <2>1, <2>2, <2>3, <2>4 DEF InSkip, Got
  <2>8. InRest'
    BY <1>2, <1>3, <1>5, <2>1, <2>2, <2>3, <2>4 DEF InRest, Got
  <2>9. InHandle'
    BY <2>1 DEF InHandle
  <2>10. QED
    BY <2>5, <2>6, <2>7, <2>8, <2>9
<1>10. QED
  BY <1>6, <1>7, <1>8, <1>9 DEF MsgInv

\* An error ends the connection, or the loop of psc_recvskip.
LEMMA ErrorMsgInv ==
    ASSUME MsgInv, RecvError \/ SkipError
    PROVE  MsgInv'
<1>1. Numbers /\ Buffers /\ Chain /\ InStep
  BY DEF MsgInv
<1>2. /\ UNCHANGED <<pool, disco, peer, stream>>
      /\ UNCHANGED <<lens, sent, unread, pos, start, mlen, left, rxbuf, overran>>
      /\ \/ pc' = "closed" /\ need' = need /\ ignored' = ignored
         \/ pc' = "rest" /\ need' = left /\ ignored' = TRUE
  BY DEF RecvError, SkipError, stream
<1>3. Numbers'
  BY <1>1, <1>2 DEF Numbers
<1>4. InStep'
  BY <1>2 DEF InStep, InHead, InBody, InSkip, InRest, InHandle
<1>5. QED
  BY <1>1, <1>2, <1>3, <1>4, StreamStays DEF MsgInv

-----------------------------------------------------------------------------
(* The call is complete.                                                   *)

\* The next part to skip, n units before the end of the message.
LEMMA SkipInStep ==
    ASSUME MsgInv, NEW n \in Nat, n >= 1, Skip(n),
           UNCHANGED <<pool, disco, peer, stream, start, mlen, rxbuf, overran, ignored>>,
           ~ignored => /\ InMessage /\ mlen > MaxLen /\ Got(MaxLen)
                       /\ pos = start + HeadLen + mlen - n
    PROVE  MsgInv'
<1>1. Numbers /\ Buffers /\ Chain /\ InStep
  BY DEF MsgInv
<1>2. UNCHANGED <<peer, lens, sent, unread, pos, start, mlen, rxbuf, overran, ignored>>
  BY DEF stream
<1>3. /\ need \in Nat /\ pos \in Nat /\ start \in Nat /\ mlen \in Nat
      /\ HeadLen \in Nat /\ MaxLen \in Nat /\ SkipLen \in Nat
  BY <1>1, Sizes, BodyLen DEF Numbers
<1>4. /\ left' = n
      /\ \/ n > SkipLen /\ pc' = "skip" /\ need' = SkipLen
         \/ n <= SkipLen /\ pc' = "rest" /\ need' = n
  BY <1>3 DEF Skip
<1>5. Numbers'
  <2>1. /\ need' \in Nat /\ left' \in Nat /\ (pc' = "skip" => left' > SkipLen)
        /\ pc' \in {"head", "body", "skip", "rest", "handle", "closed", "dead"}
    BY <1>3, <1>4
  <2>2. QED
    BY <1>1, <1>2, <2>1 DEF Numbers
<1>6. InStep'
  <2> SUFFICES ASSUME ~ignored'
               PROVE  (InHead /\ InBody /\ InSkip /\ InRest /\ InHandle)'
    BY DEF InStep
  <2>1. (InMessage /\ mlen > MaxLen /\ Got(MaxLen))'
    BY <1>2 DEF InMessage, Got
  <2>2. pos' = start' + HeadLen + mlen' - n
    BY <1>2
  <2>3. QED
    BY <1>2, <1>3, <1>4, <2>1, <2>2 DEF InHead, InBody, InSkip, InRest, InHandle
<1>7. QED
  BY <1>1, <1>5, <1>6, StreamStays DEF MsgInv

\* A header that is in step is the header of a message.
LEMMA HeadMsgInv ==
    ASSUME MsgInv, HeadDone
    PROVE  MsgInv'
<1>1. Numbers /\ Buffers /\ Chain /\ InStep
  BY DEF MsgInv
<1>2. /\ pc = "head" /\ need = 0
      /\ UNCHANGED <<pool, disco, peer, stream>>
      /\ UNCHANGED <<lens, sent, unread, pos, start, left, rxbuf, overran, ignored>>
  BY DEF HeadDone, Completed, stream
<1>3. /\ pos \in Nat /\ start \in Nat /\ sent \in Nat /\ unread \in Nat
      /\ pos + unread <= sent
      /\ HeadLen \in Nat /\ HeadLen >= 1 /\ MaxLen \in Nat
  BY <1>1, Sizes DEF Numbers
<1>4. CASE pc' = "closed" /\ UNCHANGED <<need, mlen>>
  <2>1. Numbers'
    BY <1>1, <1>2, <1>4 DEF Numbers
  <2>2. InStep'
    BY <1>4 DEF InStep, InHead, InBody, InSkip, InRest, InHandle
  <2>3. QED
    BY <1>1, <1>2, <2>1, <2>2, StreamStays DEF MsgInv
<1>5. ASSUME NEW n \in Lens, start \in DOMAIN lens => n = lens[start],
             pc' = "body", mlen' = n, need' = Least(n, MaxLen)
      PROVE  MsgInv'
  <2>1. n \in Nat
    BY Sizes
  <2>2. need' \in Nat /\ Body' = need'
    BY <1>3, <1>5, <2>1 DEF Least, Body
  <2>3. Numbers'
    BY <1>1, <1>2, <1>5, <2>1, <2>2 DEF Numbers
  <2>4. InStep'
    <3> SUFFICES ASSUME ~ignored'
                 PROVE  (InHead /\ InBody /\ InSkip /\ InRest /\ InHandle)'
      BY DEF InStep
    <3>1. Boundary(start) /\ pos = start + HeadLen
      BY <1>1, <1>2, <1>3 DEF InStep, InHead
    <3>2. start \in DOMAIN lens
      BY <1>3, <3>1 DEF Boundary
    <3>3. InMessage'
      BY <1>2, <1>5, <3>2 DEF InMessage
    <3>4. pos' = start' + HeadLen + Body' - need' /\ need' <= Body' /\ Body' - need' = 0
      <4>1. \A a, b, c \in Nat : a = b => c = c + a - b /\ b <= a /\ a - b = 0
        OBVIOUS
      <4>2. Body' \in Nat /\ need' \in Nat /\ start' + HeadLen \in Nat /\ Body' = need'
        BY <1>2, <1>3, <2>2
      <4>3. pos' = start' + HeadLen
        BY <1>2, <3>1
      <4>4. QED
        BY <4>1, <4>2, <4>3, Zenon
    <3>5. Got(Body - need)'
      BY <1>3, <3>4 DEF Got
    <3>6. QED
      BY <1>5, <3>3, <3>4, <3>5 DEF InHead, InBody, InSkip, InRest, InHandle
  <2>5. QED
    BY <1>1, <1>2, <2>3, <2>4, StreamStays DEF MsgInv
<1>6. \A n \in (IF start \in DOMAIN lens THEN {lens[start]} ELSE Lens) :
         n \in Lens /\ (start \in DOMAIN lens => n = lens[start])
  BY <1>1 DEF Chain
<1>7. QED
  BY <1>4, <1>5, <1>6 DEF HeadDone

\* The body is complete: the message is, or the rest of it is skipped.
LEMMA BodyMsgInv ==
    ASSUME MsgInv, BodyDone
    PROVE  MsgInv'
<1>1. Numbers /\ Buffers /\ Chain /\ InStep
  BY DEF MsgInv
<1>2. /\ pc = "body" /\ need = 0
      /\ UNCHANGED <<pool, disco, peer, stream, start, mlen, rxbuf, overran, ignored>>
  BY DEF BodyDone, Completed
<1>3. /\ pos \in Nat /\ start \in Nat /\ mlen \in Nat /\ HeadLen \in Nat /\ MaxLen \in Nat
      /\ Body \in Nat /\ (mlen > MaxLen => Body = MaxLen) /\ (mlen <= MaxLen => Body = mlen)
  BY <1>1, Sizes, BodyLen DEF Numbers
<1>4. ~ignored => InMessage /\ pos = start + HeadLen + Body /\ Got(Body)
  <2>1. Body - 0 = Body /\ start + HeadLen + Body - 0 = start + HeadLen + Body
    BY <1>3
  <2>2. QED
    BY <1>1, <1>2, <2>1 DEF InStep, InBody
<1>5. CASE mlen > MaxLen
  <2>1. mlen - MaxLen \in Nat /\ mlen - MaxLen >= 1 /\ Skip(mlen - MaxLen)
    BY <1>3, <1>5 DEF BodyDone
  <2>2. start + HeadLen + mlen - (mlen - MaxLen) = start + HeadLen + MaxLen
    BY <1>3
  <2>3. ~ignored => /\ InMessage /\ mlen > MaxLen /\ Got(MaxLen)
                    /\ pos = start + HeadLen + mlen - (mlen - MaxLen)
    BY <1>3, <1>4, <1>5, <2>2
  <2>4. QED
    BY <1>2, <2>1, <2>3, SkipInStep
<1>6. CASE mlen <= MaxLen
  <2>1. pc' = "handle" /\ UNCHANGED <<left, need>>
    BY <1>3, <1>6 DEF BodyDone
  <2>2. UNCHANGED <<peer, lens, sent, unread, pos, start, mlen, rxbuf, overran, ignored>>
    BY <1>2 DEF stream
  <2>3. Numbers'
    BY <1>1, <2>1, <2>2 DEF Numbers
  <2>4. Body' = Body /\ (InMessage => InMessage') /\ (Got(Body) => Got(Body)')
    BY <2>2 DEF Body, Least, InMessage, Got
  <2>5. InStep'
    BY <1>3, <1>4, <1>6, <2>1, <2>2, <2>4
       DEF InStep, InHead, InBody, InSkip, InRest, InHandle
  <2>6. QED
    BY <1>1, <1>2, <2>3, <2>5, StreamStays DEF MsgInv
<1>7. QED
  BY <1>3, <1>5, <1>6

\* A part has been skipped.
LEMMA SkipMsgInv ==
    ASSUME MsgInv, SkipDone
    PROVE  MsgInv'
<1>1. /\ pc = "skip" /\ need = 0 /\ Skip(left - SkipLen)
      /\ UNCHANGED <<pool, disco, peer, stream, start, mlen, rxbuf, overran, ignored>>
  BY DEF SkipDone, Completed
<1>2. /\ pos \in Nat /\ start \in Nat /\ mlen \in Nat /\ HeadLen \in Nat /\ MaxLen \in Nat
      /\ SkipLen \in Nat /\ left \in Nat /\ left > SkipLen
  BY <1>1, Sizes, BodyLen DEF MsgInv, Numbers
<1>3. left - SkipLen \in Nat /\ left - SkipLen >= 1
  BY <1>2
<1>4. ~ignored => /\ InMessage /\ mlen > MaxLen /\ Got(MaxLen)
                  /\ pos = start + HeadLen + mlen - (left - SkipLen)
  <2>1. start + HeadLen + mlen - left + SkipLen - 0
           = start + HeadLen + mlen - (left - SkipLen)
    BY <1>2
  <2>2. QED
    BY <1>1, <2>1 DEF MsgInv, InStep, InSkip
<1>5. QED
  BY <1>1, <1>3, <1>4, SkipInStep

\* The last part has been skipped.
LEMMA RestMsgInv ==
    ASSUME MsgInv, RestDone
    PROVE  MsgInv'
<1>1. Numbers /\ Buffers /\ Chain /\ InStep
  BY DEF MsgInv
<1>2. /\ pc = "rest" /\ need = 0 /\ pc' = "handle"
      /\ UNCHANGED <<pool, disco, peer, stream>>
      /\ UNCHANGED <<lens, sent, unread, pos, need, start, mlen, left, rxbuf, overran,
                     ignored>>
  BY DEF RestDone, Completed, stream
<1>3. Numbers'
  BY <1>1, <1>2 DEF Numbers
<1>4. InStep'
  <2> SUFFICES ASSUME ~ignored'
               PROVE  (InHead /\ InBody /\ InSkip /\ InRest /\ InHandle)'
    BY DEF InStep
  <2>1. /\ InMessage /\ mlen > MaxLen /\ pos = start + HeadLen + mlen - need
        /\ Got(MaxLen)
    BY <1>1, <1>2 DEF InStep, InRest
  <2>2. pos = start + HeadLen + mlen /\ Body = MaxLen
    BY <1>1, <1>2, <2>1, Sizes, BodyLen DEF Numbers
  <2>3. (InMessage /\ Got(Body) /\ pos = start + HeadLen + mlen)'
    BY <1>2, <2>1, <2>2 DEF InMessage, Got, Body, Least
  <2>4. QED
    BY <1>2, <2>3 DEF InHead, InBody, InSkip, InRest, InHandle
<1>5. QED
  BY <1>1, <1>2, <1>3, <1>4, StreamStays DEF MsgInv

\* After a message the thread is where the next one begins.
LEMMA HandleMsgInv ==
    ASSUME MsgInv, Handle
    PROVE  MsgInv'
<1>1. Numbers /\ Buffers /\ Chain /\ InStep
  BY DEF MsgInv
<1>2. /\ pc = "handle" /\ pc' = "head" /\ need' = HeadLen /\ start' = pos
      /\ UNCHANGED <<pool, disco, peer, stream>>
      /\ UNCHANGED <<lens, sent, unread, pos, mlen, left, rxbuf, overran, ignored>>
  BY DEF Handle, stream
<1>3. pos \in Nat /\ HeadLen \in Nat /\ pos = pos + HeadLen - HeadLen
  BY <1>1, Sizes DEF Numbers
<1>4. Numbers'
  BY <1>1, <1>2, <1>3 DEF Numbers
<1>5. InStep'
  <2> SUFFICES ASSUME ~ignored'
               PROVE  (InHead /\ InBody /\ InSkip /\ InRest /\ InHandle)'
    BY DEF InStep
  <2>1. start \in DOMAIN lens /\ mlen = lens[start] /\ pos = start + HeadLen + mlen
    BY <1>1, <1>2 DEF InStep, InHandle, InMessage
  <2>2. Boundary(pos)
    BY <1>1, <2>1 DEF Chain
  <2>3. Boundary(start)'
    BY <1>2, <2>2 DEF Boundary
  <2>4. QED
    BY <1>2, <1>3, <2>3 DEF InHead, InBody, InSkip, InRest, InHandle
<1>6. QED
  BY <1>1, <1>2, <1>4, <1>5, StreamStays DEF MsgInv

-----------------------------------------------------------------------------
\* Every step keeps the invariant.
LEMMA NextMsgInv == MsgInv /\ [Next]_vars => MsgInv'
<1> SUFFICES ASSUME MsgInv, [Next]_vars PROVE MsgInv'
  OBVIOUS
<1>1. CASE Thread
  BY <1>1, RecvMsgInv, ErrorMsgInv, HeadMsgInv, BodyMsgInv, SkipMsgInv, RestMsgInv,
     HandleMsgInv DEF Thread
<1>2. CASE Arrive
  BY <1>2, ArriveMsgInv
<1>3. CASE PeerStops \/ \E n \in Lens : SendMsg(n)
  BY <1>3, PeerMsgInv
<1>4. CASE DiscoNext /\ UNCHANGED <<peer, stream, thread, ignored>>
  BY <1>4, DiscoMsgInv
<1>5. CASE UNCHANGED vars
  <2>1. UNCHANGED <<pool, disco, peer, stream, thread, ignored>>
    BY <1>5 DEF vars
  <2>2. UNCHANGED <<peer, lens, sent, unread, pos, pc, need, start, mlen, left, rxbuf,
                    overran, ignored>>
    BY <2>1 DEF stream, thread
  <2>3. Numbers' /\ InStep'
    BY <2>2 DEF MsgInv, Numbers, InStep, InHead, InBody, InSkip, InRest, InHandle,
                InMessage, Boundary, Got, Body, Least
  <2>4. QED
    BY <2>1, <2>3, StreamStays DEF MsgInv
<1>6. QED
  BY <1>1, <1>2, <1>3, <1>4, <1>5 DEF Next

(* The invariant holds for every header, message and buffer length and     *)
(* every size of the pool.                                                 *)
THEOREM Framing == Spec => []MsgInv
BY InitMsgInv, NextMsgInv, PTL DEF Spec

(* Type correctness of pscmsg.c's reception and of discovery.              *)
THEOREM FramingTypes == Spec => []TypeOK
<1>1. MsgInv => TypeOK
  <2> SUFFICES ASSUME MsgInv PROVE TypeOK
    OBVIOUS
  <2>1. Numbers /\ Buffers /\ Chain
    BY DEF MsgInv
  <2>2. DiscoTypeOK /\ unread \in 0..PoolSize
    <3>1. /\ pool \in Nat /\ unread \in Nat /\ datagrams \in Nat /\ replies \in Nat
          /\ refs \in Nat /\ PoolSize \in Nat /\ pool + unread + datagrams = PoolSize
          /\ replies <= datagrams /\ (refs = 0 \/ refs = 1 + replies)
      BY <2>1, Sizes DEF Numbers, Buffers
    <3>2. QED
      BY <2>1, <3>1 DEF DiscoTypeOK, Buffers
  <2>3. sent \in Nat /\ pos \in 0..sent /\ start \in 0..sent /\ need \in Nat /\ left \in Nat
    BY <2>1 DEF Numbers
  <2>4. rxbuf \in [0..(MaxLen - 1) -> -1..sent]
    <3>1. /\ rxbuf \in [0..(MaxLen - 1) -> Int] /\ pos \in Nat /\ unread \in Nat
          /\ sent \in Nat /\ pos + unread <= sent
          /\ \A i \in 0..(MaxLen - 1) : rxbuf[i] >= -1 /\ rxbuf[i] <= pos
      BY <2>1 DEF Numbers
    <3>2. \A i \in 0..(MaxLen - 1) : rxbuf[i] \in -1..sent
      BY <3>1
    <3>3. QED
      BY <3>1, <3>2
  <2>5. /\ ignored \in BOOLEAN /\ overran \in BOOLEAN /\ mlen \in Lens \cup {0}
        /\ peer \in {"up", "silent", "gone"}
        /\ pc \in {"head", "body", "skip", "rest", "handle", "closed", "dead"}
    BY <2>1 DEF Numbers
  <2>6. DOMAIN lens \subseteq Nat /\ \A p \in DOMAIN lens : lens[p] \in Lens
    BY <2>1 DEF Chain
  <2>7. QED
    BY <2>2, <2>3, <2>4, <2>5, <2>6 DEF TypeOK
<1>2. QED
  BY <1>1, Framing, PTL

(* However the network cuts the stream, client_msg is given one message of *)
(* the peer with its units in their places, unless psc_recvskip has        *)
(* ignored an error before.                                                *)
THEOREM MessagesWhole == Spec => []WholeMessages
<1>1. MsgInv => WholeMessages
  <2> SUFFICES ASSUME MsgInv, pc = "handle", ~ignored
               PROVE  /\ start \in DOMAIN lens /\ mlen = lens[start]
                      /\ pos = start + HeadLen + mlen
                      /\ \A i \in 0..(Least(mlen, MaxLen) - 1) :
                            rxbuf[i] = start + HeadLen + i
    BY DEF WholeMessages
  <2>1. InMessage /\ pos = start + HeadLen + mlen /\ Got(Body)
    BY DEF MsgInv, InStep, InHandle
  <2>2. Body \in Nat /\ MaxLen \in Nat /\ Body <= MaxLen
    BY Sizes, BodyLen DEF MsgInv
  <2>3. \A i \in 0..(Body - 1) : i \in 0..(MaxLen - 1) /\ i < Body
    BY <2>2
  <2>4. QED
    BY <2>1, <2>3 DEF InMessage, Got, Body
<1>2. QED
  BY <1>1, Framing, PTL

(* disco_reply_buf keeps its own reference whatever replies are under way. *)
THEOREM ReplyBufStays == Spec => []ReplyBufKept
<1>1. MsgInv => ReplyBufKept
  BY DEF MsgInv, Buffers, ReplyBufKept
<1>2. QED
  BY <1>1, Framing, PTL
=============================================================================
