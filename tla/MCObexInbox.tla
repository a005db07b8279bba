----------------------------- MODULE MCObexInbox -----------------------------
(* ObexInbox on two transfers, one of them too large, and two names: a     *)
(* name is used again after a failure, a crash or a deletion.              *)
EXTENDS ObexInbox
=============================================================================
