------------------------------ MODULE MCSendJobs -----------------------------
(* SendJobs on three jobs: one in the worker, one waiting, one being       *)
(* posted.                                                                 *)
EXTENDS SendJobs, TLC

Symmetric == Permutations(Job)
=============================================================================
