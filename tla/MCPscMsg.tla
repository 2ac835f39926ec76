------------------------------ MODULE MCPscMsg ------------------------------
(* Bounds: two messages and the place of a third; messages that are empty,   *)
(* fill the buffer, need one or three parts to skip; three receive buffers.  *)
EXTENDS PscMsg
=============================================================================
