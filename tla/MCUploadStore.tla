---------------------------- MODULE MCUploadStore ----------------------------
(* UploadStore on two requests and two names, one of them in two cases;    *)
(* the batches are one file, two files in either order, a fault of each    *)
(* kind first or last, a name twice, in one case and in both, and one file *)
(* too many.                                                               *)
EXTENDS UploadStore

CONSTANTS n1, N1, n2

MCFold == [n \in Name |-> IF n = N1 THEN n1 ELSE n]

Good(n) == [name |-> n, fit |-> "good"]
MCBatches ==
  {<<Good(n1)>>, <<Good(n1), Good(n2)>>, <<Good(n2), Good(n1)>>,
   <<Good(n1), Good(n1)>>, <<Good(n1), Good(N1)>>, <<Good(N1)>>, <<Good(n1), Good(n2), Good(n1)>>}
  \cup {<<Good(n1), [name |-> n2, fit |-> f]>> : f \in {"short", "suffix"}}
  \cup {<<[name |-> n1, fit |-> f], Good(n2)>> : f \in {"short", "suffix"}}
=============================================================================
