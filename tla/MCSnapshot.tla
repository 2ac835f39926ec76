----------------------------- MODULE MCSnapshot -----------------------------
(* Bounds: the proportions of the code (Pre = Post = RingLen / 4), with two *)
(* points to a poll instead of 1000 and two polls of delay instead of 50.  *)
EXTENDS Snapshot

Early == {PollPts - 1, PollPts}
=============================================================================
