------------------------------ MODULE Discover ------------------------------
(***************************************************************************)
(* The discovery service of discover.c, a UDP callback that runs on lwIP's *)
(* thread, and the pool of receive buffers it shares with every other      *)
(* receiver (external: lwIP and its Ethernet driver).  The driver takes a  *)
(* buffer of the pool for a datagram and hands it to the callback.         *)
(***************************************************************************)
EXTENDS Integers

CONSTANT PoolSize  \* receive buffers of the pool

ASSUME PoolAssumption == PoolSize \in Nat \ {0}

VARIABLES
    pool,       \* free receive buffers
    prep,       \* discover_prep: "pending", "installed" or "failed"
    refs,       \* references to disco_reply_buf
    replies,    \* replies that the driver has yet to send
    datagrams   \* history: datagrams handed to the callback

disco == <<prep, refs, replies, datagrams>>

DiscoInit == /\ pool = PoolSize /\ prep = "pending" /\ refs = 0
             /\ replies = 0 /\ datagrams = 0

\* the four ways disco_recv can take
Kinds == {"invalid", "truncated", "other", "request"}

\* discover_prep on lwIP's thread: a socket or a reply buffer that cannot be
\* had ends it without a callback; an address in use does not
DiscoverPrep ==
    /\ prep = "pending"
    /\ \/ refs' = 1 /\ prep' = "installed"
       \/ prep' = "failed" /\ UNCHANGED refs
    /\ UNCHANGED <<pool, replies, datagrams>>

\* Mutant: the reply is sent without a reference to disco_reply_buf.
DiscoRecvFrees(kind) ==
    /\ prep = "installed" /\ pool > 0
    /\ pool' = pool - 1 /\ datagrams' = datagrams + 1
    /\ \/ kind = "request" /\ replies' = replies + 1 /\ UNCHANGED refs
       \/ UNCHANGED <<replies, refs>>
    /\ UNCHANGED prep

\* disco_recv: no way out frees the buffer it was handed; a request is
\* answered by a new buffer chained to disco_reply_buf, which the driver keeps
\* until it is sent, unless no buffer can be had or sending fails
DiscoRecv(kind) ==
    /\ prep = "installed" /\ pool > 0
    /\ pool' = pool - 1 /\ datagrams' = datagrams + 1
    /\ \/ kind = "request" /\ replies' = replies + 1 /\ refs' = refs + 1
       \/ UNCHANGED <<replies, refs>>
    /\ UNCHANGED prep

\* the driver has sent a reply: both its buffers lose a reference
ReplySent ==
    /\ replies > 0
    /\ replies' = replies - 1 /\ refs' = refs - 1
    /\ UNCHANGED <<pool, prep, datagrams>>

DiscoNext == DiscoverPrep \/ ReplySent \/ \E kind \in Kinds : DiscoRecv(kind)

DiscoTypeOK ==
    /\ pool \in 0..PoolSize /\ prep \in {"pending", "installed", "failed"}
    /\ replies \in 0..PoolSize /\ datagrams \in 0..PoolSize
    /\ refs \in 0..(PoolSize + 1)

(* disco_reply_buf keeps discovery's own reference whatever replies are    *)
(* under way: it is never given back while the callback can chain it.      *)
ReplyBufKept == prep = "installed" => refs = 1 + replies
=============================================================================
