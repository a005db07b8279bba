------------------------------ MODULE JobLedger ------------------------------
(***************************************************************************)
(* What the web interface promises about Bluetooth send jobs: a ledger     *)
(* that outlives the service, one send at a time, a verdict that tells     *)
(* what happened, and "interrupted" for whatever a restart cut short.      *)
(***************************************************************************)
CONSTANTS Job, None

VARIABLES
  ledger,  \* the recorded status of each job, None before it is asked for
  radio,   \* the jobs whose sender runs
  sent     \* the jobs whose sender reported success

vars == <<ledger, radio, sent>>

Init ==
  /\ ledger = [j \in Job |-> None]
  /\ radio = {}
  /\ sent = {}

Ask(j) ==
  /\ ledger[j] = None
  /\ ledger' = [ledger EXCEPT ![j] = "queued"]
  /\ UNCHANGED <<radio, sent>>

Begin(j) ==
  /\ ledger[j] = "queued"
  /\ \A k \in Job : ledger[k] # "running"
  /\ ledger' = [ledger EXCEPT ![j] = "running"]
  /\ UNCHANGED <<radio, sent>>

Send(j) ==
  /\ ledger[j] = "running"
  /\ radio = {}
  /\ radio' = {j}
  /\ UNCHANGED <<ledger, sent>>

SendEnds(j) ==
  /\ j \in radio
  /\ radio' = radio \ {j}
  /\ sent' \in {sent, sent \cup {j}}
  /\ UNCHANGED ledger

Conclude(j) ==
  /\ ledger[j] = "running"
  /\ j \notin radio
  /\ ledger' = [ledger EXCEPT ![j] = IF j \in sent THEN "complete" ELSE "failed"]
  /\ UNCHANGED <<radio, sent>>

Interrupt ==
  /\ ledger' = [j \in Job |-> IF ledger[j] \in {"queued", "running"}
                              THEN "interrupted" ELSE ledger[j]]
  /\ radio' = {}
  /\ UNCHANGED sent

Next == Interrupt \/ \E j \in Job : Ask(j) \/ Begin(j) \/ Send(j) \/ SendEnds(j) \/ Conclude(j)

Spec == Init /\ [][Next]_vars
=============================================================================
