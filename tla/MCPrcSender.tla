----------------------------- MODULE MCPrcSender -----------------------------
(* PrcSender on three files: signals of one transfer can still be queued   *)
(* during the next, and two transfers have ended before the third.         *)
EXTENDS PrcSender
=============================================================================
