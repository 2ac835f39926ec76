----------------------------- MODULE MCPscServer ----------------------------
(* Bounds: one slot, two connections (one more than fit), and descriptors  *)
(* for both of them and the listening socket.                              *)
EXTENDS PscServer
=============================================================================
