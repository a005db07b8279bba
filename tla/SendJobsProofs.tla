--------------------------- MODULE SendJobsProofs ----------------------------
(***************************************************************************)
(* Until a save fails, SendJobs keeps the promises of JobLedger for any    *)
(* set of jobs.  Linked ties the five places a job is known in (record,    *)
(* request, queue, worker, helper) to its recorded status.                 *)
(***************************************************************************)
EXTENDS SendJobs, TLAPS

(* The table in memory is the one on disk, or there is no process.         *)
Synced ==
  /\ web = "up" => jobs = disk
  /\ web = "down" => at = "idle" /\ queue = <<>> /\ \A j \in Job : request[j] # "posting"

(* A request that has not been submitted has its job saved as queued.      *)
RequestsInv ==
  \A j \in Job : /\ request[j] = "new" => disk[j] = None
                 /\ request[j] = "posting" => disk[j] = "queued"
                 /\ disk[j] \in {None, "queued"} => result[j] = None

QueueInv ==
  /\ \A i \in 1..Len(queue) : disk[queue[i]] = "queued" /\ request[queue[i]] = "done"
  /\ \A i, k \in 1..Len(queue) : queue[i] = queue[k] => i = k

RunnerInv ==
  /\ at # "idle" => disk[runner] = "running"
  /\ \A j \in Job : disk[j] = "running" => runner = j \/ web = "down"
  /\ \A j, k \in Job : disk[j] = "running" /\ disk[k] = "running" => j = k
  /\ at \in {"spawn", "except", "fail"} => runner \notin helpers /\ result[runner] = None
  /\ \A j \in helpers : disk[j] = "running" /\ result[j] = None

Linked == Synced /\ RequestsInv /\ QueueInv /\ RunnerInv
IInv   == TypeOK /\ (flawless => Linked)

LEMMA Saved ==
  ASSUME NEW new, NEW ok \in BOOLEAN, SaveJobs(new, ok), flawless'
  PROVE  ok = TRUE /\ flawless
  BY Zenon DEF SaveJobs

(* What each action that saves does when the save succeeds.                *)
LEMMA CreateAppSaves ==
  ASSUME flawless', CreateApp
  PROVE  /\ jobs' = Loaded(disk)
         /\ disk' = Loaded(disk)
         /\ flawless
<1>1. PICK ok \in BOOLEAN :
           /\ jobs' = (IF ok THEN Loaded(disk) ELSE Nothing)
           /\ disk' = (IF ok THEN Loaded(disk) ELSE disk)
           /\ flawless' = (flawless /\ ok)
  BY Zenon DEF CreateApp
<1>2. flawless /\ ok
  BY <1>1, Zenon
<1> QED BY <1>1, <1>2, Zenon

LEMMA PostSaves ==
  ASSUME flawless', NEW j \in Job, Post(j)
  PROVE  /\ SaveJobs([jobs EXCEPT ![j] = "queued"], TRUE)
         /\ flawless
         /\ request' = [request EXCEPT ![j] = "posting"]
<1>1. PICK ok \in BOOLEAN :
           /\ SaveJobs([jobs EXCEPT ![j] = "queued"], ok)
           /\ request' = [request EXCEPT ![j] = IF ok THEN "posting" ELSE "done"]
  BY Zenon DEF Post
<1>2. ok = TRUE /\ flawless
  BY <1>1, Saved, Zenon
<1> QED BY <1>1, <1>2, Zenon

LEMMA BeginSaves ==
  ASSUME flawless', Begin
  PROVE  /\ SaveJobs([jobs EXCEPT ![Head(queue)] = "running"], TRUE)
         /\ flawless
         /\ Worker(Head(queue), "spawn")
<1>1. PICK ok \in BOOLEAN :
           /\ SaveJobs([jobs EXCEPT ![Head(queue)] = "running"], ok)
           /\ (IF ok THEN Worker(Head(queue), "spawn") ELSE Done)
  BY Zenon DEF Begin
<1>2. ok = TRUE /\ flawless
  BY <1>1, Saved, Zenon
<1> QED BY <1>1, <1>2, Zenon

LEMMA LogLineSaves ==
  ASSUME flawless', LogLine
  PROVE  /\ SaveJobs(jobs, TRUE)
         /\ flawless
         /\ Worker(runner, "reading")
<1>1. PICK ok \in BOOLEAN :
           /\ SaveJobs(jobs, ok)
           /\ Worker(runner, IF ok THEN "reading" ELSE "except")
  BY Zenon DEF LogLine
<1>2. ok = TRUE /\ flawless
  BY <1>1, Saved, Zenon
<1> QED BY <1>1, <1>2, Zenon

LEMMA ConcludeSaves ==
  ASSUME flawless', Conclude
  PROVE  /\ SaveJobs([jobs EXCEPT ![runner] = Verdict(runner)], TRUE)
         /\ flawless
         /\ Done
<1>1. PICK ok \in BOOLEAN :
           /\ SaveJobs([jobs EXCEPT ![runner] = Verdict(runner)], ok)
           /\ (IF ok THEN Done ELSE Worker(runner, "except"))
  BY Zenon DEF Conclude
<1>2. ok = TRUE /\ flawless
  BY <1>1, Saved, Zenon
<1> QED BY <1>1, <1>2, Zenon

LEMMA LogErrorSaves ==
  ASSUME flawless', LogError
  PROVE  /\ SaveJobs(jobs, TRUE)
         /\ flawless
         /\ Worker(runner, "fail")
<1>1. PICK ok \in BOOLEAN :
           /\ SaveJobs(jobs, ok)
           /\ (IF ok THEN Worker(runner, "fail") ELSE Done)
  BY Zenon DEF LogError
<1>2. ok = TRUE /\ flawless
  BY <1>1, Saved, Zenon
<1> QED BY <1>1, <1>2, Zenon

LEMMA FailSaves ==
  ASSUME flawless', Fail
  PROVE  /\ SaveJobs([jobs EXCEPT ![runner] = "failed"], TRUE)
         /\ flawless
         /\ Done
<1>1. PICK ok \in BOOLEAN :
           /\ SaveJobs([jobs EXCEPT ![runner] = "failed"], ok)
           /\ Done
  BY Zenon DEF Fail
<1>2. ok = TRUE /\ flawless
  BY <1>1, Saved, Zenon
<1> QED BY <1>1, <1>2, Zenon

LEMMA InitIInv == Init => IInv
<1> SUFFICES ASSUME Init PROVE IInv
  OBVIOUS
<1> USE NoneAssumption DEF Init, Nothing
<1>1. TypeOK
  BY DEF TypeOK, Table
<1>2. Synced
  BY DEF Synced
<1>3. RequestsInv
  BY DEF RequestsInv
<1>4. QueueInv
  BY DEF QueueInv
<1>5. RunnerInv
  BY DEF RunnerInv
<1> QED BY <1>1, <1>2, <1>3, <1>4, <1>5 DEF IInv, Linked

LEMMA Quiet == IInv /\ UNCHANGED vars => IInv'
  BY DEF IInv, Linked, TypeOK, Synced, RequestsInv, QueueInv, RunnerInv, Table, vars

(* Every variable keeps its type, whatever save fails.                     *)
LEMMA TypeStep == ASSUME TypeOK, Next PROVE TypeOK'
<1> USE DEF TypeOK, Table, InFlight, Final, SaveJobs, Worker, Done
<1>1. CASE CreateApp
  BY <1>1 DEF CreateApp, Loaded, Nothing, GroupGone
<1>2. ASSUME NEW j \in Job, Post(j) PROVE TypeOK'
  BY <1>2 DEF Post
<1>3. ASSUME NEW j \in Job, Submit(j) PROVE TypeOK'
  BY <1>3 DEF Submit
<1>4. CASE Begin
  <2>1. Head(queue) \in Job /\ StillWaiting \in Seq(Job)
    BY <1>4 DEF Begin, StillWaiting
  <2> QED BY <1>4, <2>1, NoneAssumption DEF Begin, Idle
<1>5. CASE Spawn
  BY <1>5, NoneAssumption DEF Spawn
<1>6. ASSUME NEW j \in Job, HelperExits(j) PROVE TypeOK'
  BY <1>6 DEF HelperExits
<1>7. CASE LogLine
  BY <1>7, NoneAssumption DEF LogLine
<1>8. CASE Conclude
  BY <1>8, NoneAssumption DEF Conclude, Verdict
<1>9. CASE LogError
  BY <1>9, NoneAssumption DEF LogError
<1>10. CASE Fail
  BY <1>10 DEF Fail
<1>11. CASE Crash
  BY <1>11 DEF Crash, Nothing
<1> QED
  BY <1>1, <1>2, <1>3, <1>4, <1>5, <1>6, <1>7, <1>8, <1>9, <1>10, <1>11 DEF Next, RunnerNext

LEMMA LinkedStep == ASSUME TypeOK, Linked, Next, flawless' PROVE Linked'
<1> USE NoneAssumption DEF Linked, Table, InFlight, Final, SaveJobs, Worker, Done
<1>1. CASE CreateApp
  <2>0. disk' = Loaded(disk) /\ jobs' = disk'
    BY <1>1, CreateAppSaves, Zenon
  <2>1. disk' = [j \in Job |-> IF disk[j] \in {"queued", "running"} THEN "interrupted" ELSE disk[j]]
    BY <2>0 DEF Loaded
  <2>2. /\ web' = "up" /\ helpers' = {} /\ UNCHANGED <<request, queue, runner, at, result>>
        /\ at = "idle" /\ queue = <<>> /\ \A j \in Job : request[j] # "posting"
    BY <1>1, Zenon DEF CreateApp, GroupGone, Synced, TypeOK
  <2>4. \A j \in Job : /\ disk'[j] # "queued" /\ disk'[j] # "running"
                       /\ disk'[j] = None <=> disk[j] = None
    <3> TAKE j \in Job
    <3>1. disk'[j] = IF disk[j] \in {"queued", "running"} THEN "interrupted" ELSE disk[j]
      BY <2>1, Zenon
    <3> QED BY <3>1
  <2>5. Synced' /\ RunnerInv'
    <3>1. Synced'
      BY <2>0, <2>2 DEF Synced
    <3>2. RunnerInv'
      BY <2>2, <2>4 DEF RunnerInv
    <3> QED BY <3>1, <3>2
  <2>6. RequestsInv'
    <3> SUFFICES ASSUME NEW j \in Job
                 PROVE /\ request[j] = "new" => disk'[j] = None
                       /\ request[j] = "posting" => disk'[j] = "queued"
                       /\ disk'[j] \in {None, "queued"} => result[j] = None
      BY <2>2 DEF RequestsInv
    <3>1. /\ request[j] = "new" => disk[j] = None
          /\ disk[j] = None => result[j] = None
          /\ request[j] # "posting"
      BY <2>2 DEF RequestsInv
    <3> QED BY <2>4, <3>1
  <2>7. QueueInv'
    BY <2>2 DEF QueueInv
  <2> QED BY <2>5, <2>6, <2>7
<1>2. ASSUME NEW j \in Job, Post(j) PROVE Linked'
  <2> USE <1>2 DEF Post
  <2>1. disk' = [disk EXCEPT ![j] = "queued"] /\ jobs' = disk' /\ request' = [request EXCEPT ![j] = "posting"]
    BY PostSaves DEF Synced
  <2>3. disk[j] = None /\ \A i \in 1..Len(queue) : queue[i] # j
    BY DEF RequestsInv, QueueInv
  <2>4. Synced' /\ RunnerInv'
    BY <2>1, <2>3 DEF TypeOK, Synced, RequestsInv, RunnerInv
  <2>4a. RequestsInv'
    BY <2>1, <2>3 DEF TypeOK, RequestsInv, RunnerInv
  <2>4b. QueueInv'
    BY <2>1, <2>3 DEF TypeOK, QueueInv, RequestsInv, RunnerInv
  <2> QED BY <2>4, <2>4a, <2>4b
<1>3. ASSUME NEW j \in Job, Submit(j) PROVE Linked'
  <2> USE <1>3 DEF Submit
  <2>2. \A i \in 1..Len(queue) : queue[i] # j
    BY DEF QueueInv
  <2>3. QueueInv'
    <3>1. Len(queue') = Len(queue) + 1 /\ queue'[Len(queue) + 1] = j /\ \A i \in 1..Len(queue) : queue'[i] = queue[i]
      BY DEF TypeOK
    <3>2. Len(queue) \in Nat
      BY DEF TypeOK
    <3>3. disk[j] = "queued" /\ request'[j] = "done"
      BY DEF TypeOK, RequestsInv
    <3> QED BY <2>2, <3>1, <3>2, <3>3 DEF TypeOK, QueueInv
  <2>4. Synced' /\ RequestsInv' /\ RunnerInv'
    BY DEF TypeOK, Synced, RequestsInv, RunnerInv
  <2> QED BY <2>3, <2>4
<1>4. CASE Begin
  <2> USE <1>4 DEF Begin, Idle, StillWaiting
  <2> DEFINE h == Head(queue)
  <2>1. /\ h \in Job /\ h = queue[1] /\ Len(queue) \in Nat /\ 1 \in 1..Len(queue)
        /\ Len(queue') = Len(queue) - 1 /\ \A i \in 1..Len(queue') : queue'[i] = queue[i + 1]
    BY DEF TypeOK
  <2>2. /\ disk' = [disk EXCEPT ![h] = "running"] /\ jobs' = disk'
        /\ runner' = h /\ at' = "spawn" /\ web = "up"
    BY BeginSaves DEF Synced, TypeOK
  <2>3. disk[h] = "queued" /\ request[h] = "done" /\ result[h] = None
    BY <2>1 DEF QueueInv, RequestsInv
  <2>5. QueueInv'
    <3>1. \A i \in 1..Len(queue') : i + 1 \in 1..Len(queue) /\ i + 1 # 1
      BY <2>1
    <3>2. \A i \in 1..Len(queue') : queue'[i] # h /\ queue'[i] \in Job
      BY <2>1, <3>1 DEF QueueInv, TypeOK
    <3> QED BY <2>1, <2>2, <3>1, <3>2 DEF QueueInv, TypeOK
  <2>6. Synced' /\ RequestsInv' /\ RunnerInv'
    BY <2>1, <2>2, <2>3 DEF TypeOK, Synced, RequestsInv, RunnerInv
  <2> QED BY <2>5, <2>6
<1>5. CASE Spawn
  <2> USE <1>5 DEF Spawn
  <2>1. runner \in Job /\ disk[runner] = "running"
    BY DEF TypeOK, RunnerInv
  <2>3. Synced' /\ RunnerInv'
    BY <2>1 DEF TypeOK, Synced, RequestsInv, RunnerInv
  <2>3a. RequestsInv'
    BY <2>1 DEF TypeOK, RequestsInv, RunnerInv
  <2>3b. QueueInv'
    BY <2>1 DEF TypeOK, QueueInv, RequestsInv, RunnerInv
  <2> QED BY <2>3, <2>3a, <2>3b
<1>6. ASSUME NEW j \in Job, HelperExits(j) PROVE Linked'
  <2> USE <1>6 DEF HelperExits
  <2>2. Synced' /\ RunnerInv'
    BY DEF TypeOK, Synced, RequestsInv, RunnerInv
  <2>2a. RequestsInv'
    BY DEF TypeOK, RequestsInv, RunnerInv
  <2>2b. QueueInv'
    BY DEF TypeOK, QueueInv, RequestsInv, RunnerInv
  <2> QED BY <2>2, <2>2a, <2>2b
<1>7. CASE LogLine
  <2>1. SaveJobs(jobs, TRUE) /\ Worker(runner, "reading")
    BY <1>7, LogLineSaves
  <2>2. UNCHANGED vars
    BY <1>7, <2>1 DEF LogLine, Synced, TypeOK, vars
  <2> QED BY <2>2 DEF vars, Synced, RequestsInv, QueueInv, RunnerInv
<1>8. CASE Conclude
  <2> USE <1>8 DEF Conclude, Verdict
  <2>1. runner \in Job /\ disk[runner] = "running" /\ web = "up"
    BY DEF TypeOK, RunnerInv, Synced
  <2>2. PICK s \in Final : disk' = [disk EXCEPT ![runner] = s] /\ jobs' = disk' /\ runner' = None /\ at' = "idle"
    BY ConcludeSaves, <2>1 DEF Synced
  <2>4. Synced' /\ RunnerInv'
    BY <2>1, <2>2 DEF TypeOK, Synced, RequestsInv, RunnerInv
  <2>4a. RequestsInv'
    BY <2>1, <2>2 DEF TypeOK, RequestsInv, RunnerInv
  <2>4b. QueueInv'
    BY <2>1, <2>2 DEF TypeOK, QueueInv, RequestsInv, RunnerInv
  <2> QED BY <2>4, <2>4a, <2>4b
<1>9. CASE LogError
  <2>1. SaveJobs(jobs, TRUE) /\ Worker(runner, "fail")
    BY <1>9, LogErrorSaves
  <2>2. UNCHANGED <<jobs, disk, request, queue, runner, helpers, result, web>> /\ at' = "fail"
    BY <1>9, <2>1 DEF LogError, Synced, TypeOK
  <2> QED BY <1>9, <2>2 DEF LogError, TypeOK, Synced, RequestsInv, QueueInv, RunnerInv
<1>10. CASE Fail
  <2> USE <1>10 DEF Fail
  <2>1. runner \in Job /\ disk[runner] = "running" /\ web = "up"
    BY DEF TypeOK, RunnerInv, Synced
  <2>2. disk' = [disk EXCEPT ![runner] = "failed"] /\ jobs' = disk' /\ runner' = None /\ at' = "idle"
    BY FailSaves, <2>1 DEF Synced
  <2>4. Synced' /\ RunnerInv'
    BY <2>1, <2>2 DEF TypeOK, Synced, RequestsInv, RunnerInv
  <2>4a. RequestsInv'
    BY <2>1, <2>2 DEF TypeOK, RequestsInv, RunnerInv
  <2>4b. QueueInv'
    BY <2>1, <2>2 DEF TypeOK, QueueInv, RequestsInv, RunnerInv
  <2> QED BY <2>4, <2>4a, <2>4b
<1>11. CASE Crash
  <2> USE <1>11 DEF Crash
  <2>2. Synced' /\ RunnerInv'
    BY DEF TypeOK, Synced, RequestsInv, RunnerInv
  <2>2a. RequestsInv'
    BY DEF TypeOK, RequestsInv, RunnerInv
  <2>2b. QueueInv'
    BY DEF TypeOK, QueueInv, RequestsInv, RunnerInv
  <2> QED BY <2>2, <2>2a, <2>2b
<1> QED
  BY <1>1, <1>2, <1>3, <1>4, <1>5, <1>6, <1>7, <1>8, <1>9, <1>10, <1>11 DEF Next, RunnerNext

LEMMA StillFlawless == ASSUME Next, flawless' PROVE flawless
  BY Zenon DEF Next, RunnerNext, CreateApp, Post, Submit, Begin, Spawn, HelperExits, LogLine,
               Conclude, LogError, Fail, Crash, SaveJobs

LEMMA NextIInv == ASSUME IInv, Next PROVE IInv'
  BY StillFlawless, TypeStep, LinkedStep DEF IInv

-----------------------------------------------------------------------------
(* The invariant holds for any number of jobs.                             *)
THEOREM Invariance == Spec => []IInv
<1>1. IInv /\ [Next]_vars => IInv'
  BY NextIInv, Quiet
<1> QED BY InitIInv, <1>1, PTL DEF Spec

(* Every variable keeps its type.                                          *)
THEOREM TypeCorrect == Spec => []TypeOK
<1>1. IInv => TypeOK
  BY DEF IInv
<1> QED BY Invariance, <1>1, PTL

(* One helper at a time uses the radio, also across restarts: a helper     *)
(* belongs to the one running job.                                         *)
THEOREM OneRadio == Spec => []Serialized
<1>1. IInv => Serialized
  BY DEF IInv, Linked, TypeOK, RunnerInv, OneSend, Serialized
<1> QED BY Invariance, <1>1, PTL

Sent == {j \in Job : result[j] = "ok"}

(* Every step of the code is a step of the ledger or leaves it alone.      *)
LEMMA LedgerStep ==
  ASSUME TypeOK, Linked, Next, flawless' PROVE Ledger!Next \/ UNCHANGED Ledger!vars
<1> USE NoneAssumption DEF Linked, Table, InFlight, Final, SaveJobs, Worker, Done, Ledger!Next, Ledger!vars
<1>1. CASE CreateApp
  <2>1. disk' = Loaded(disk) /\ helpers' = {} /\ result' = result
    BY <1>1, CreateAppSaves, Zenon DEF CreateApp, GroupGone
  <2>2. Ledger!Interrupt
    BY <2>1 DEF Ledger!Interrupt, Loaded
  <2> QED BY <2>2
<1>2. ASSUME NEW j \in Job, Post(j) PROVE Ledger!Next
  <2>1. /\ web = "up" /\ request[j] = "new" /\ UNCHANGED <<helpers, result>>
    BY <1>2 DEF Post
  <2>2. disk[j] = None /\ disk' = [disk EXCEPT ![j] = "queued"]
    BY <1>2, <2>1, PostSaves DEF Synced, RequestsInv
  <2>3. Ledger!Ask(j)
    BY <2>1, <2>2 DEF Ledger!Ask
  <2> QED BY <2>3
<1>3. ASSUME NEW j \in Job, Submit(j) PROVE UNCHANGED Ledger!vars
  BY <1>3 DEF Submit
<1>4. CASE Begin
  <2> DEFINE h == Head(queue)
  <2>1. at = "idle" /\ queue # <<>> /\ UNCHANGED <<helpers, result>>
    BY <1>4 DEF Begin, Idle
  <2>2. h \in Job /\ h = queue[1] /\ 1 \in 1..Len(queue)
    BY <2>1 DEF TypeOK
  <2>3. disk[h] = "queued" /\ web = "up" /\ runner = None
    BY <2>1, <2>2 DEF QueueInv, Synced, TypeOK
  <2>4. disk' = [disk EXCEPT ![h] = "running"]
    BY <1>4, <2>3, BeginSaves DEF Synced
  <2>5. \A k \in Job : disk[k] # "running"
    BY <2>3 DEF RunnerInv
  <2>6. Ledger!Begin(h)
    BY <2>1, <2>3, <2>4, <2>5 DEF Ledger!Begin
  <2> QED BY <2>2, <2>6
<1>5. CASE Spawn
  <2>1. runner \in Job /\ disk[runner] = "running" /\ helpers = {}
    BY <1>5 DEF Spawn, TypeOK, RunnerInv
  <2>2. Ledger!Send(runner) \/ UNCHANGED Ledger!vars
    BY <1>5, <2>1 DEF Spawn, Ledger!Send
  <2> QED BY <2>1, <2>2
<1>6. ASSUME NEW j \in Job, HelperExits(j) PROVE Ledger!Next
  <2>1. PICK r \in {"ok", "bad"} : result' = [result EXCEPT ![j] = r]
    BY <1>6 DEF HelperExits
  <2>2. disk[j] = "running" /\ result \in [Job -> {None, "ok", "bad"}]
    BY <1>6 DEF HelperExits, RunnerInv, TypeOK
  <2>3. Sent' \in {Sent, Sent \cup {j}}
    <3>1. CASE r = "ok"
      <4>1. Sent' = Sent \cup {j}
        BY <2>1, <2>2, <3>1 DEF Sent
      <4> QED BY <4>1
    <3>2. CASE r = "bad"
      <4>1. Sent' = Sent \ {j}
        BY <2>1, <2>2, <3>2 DEF Sent
      <4>2. j \notin Sent
        BY <1>6 DEF HelperExits, RunnerInv, Sent
      <4> QED BY <4>1, <4>2
    <3> QED BY <2>1, <3>1, <3>2
  <2>4. Ledger!SendEnds(j)
    BY <1>6, <2>3 DEF HelperExits, Ledger!SendEnds, Sent
  <2> QED BY <2>4
<1>7. CASE LogLine
  <2>1. disk' = disk /\ UNCHANGED <<helpers, result>>
    BY <1>7, LogLineSaves DEF LogLine, Synced, TypeOK
  <2> QED BY <2>1
<1>8. CASE Conclude
  <2>1. at # "idle" /\ runner \notin helpers /\ UNCHANGED <<helpers, result>>
    BY <1>8 DEF Conclude
  <2>2. runner \in Job /\ disk[runner] = "running" /\ web = "up"
    BY <2>1 DEF TypeOK, RunnerInv, Synced
  <2>3. disk' = [disk EXCEPT ![runner] = Verdict(runner)]
    BY <1>8, <2>2, ConcludeSaves DEF Synced
  <2>4. Ledger!Conclude(runner)
    BY <2>1, <2>2, <2>3 DEF Ledger!Conclude, Verdict
  <2> QED BY <2>2, <2>4
<1>9. CASE LogError
  <2>1. disk' = disk /\ UNCHANGED <<helpers, result>>
    BY <1>9, LogErrorSaves DEF LogError, Synced, TypeOK
  <2> QED BY <2>1
<1>10. CASE Fail
  <2>1. at = "fail" /\ UNCHANGED <<helpers, result>>
    BY <1>10 DEF Fail
  <2>2. /\ runner \in Job /\ disk[runner] = "running" /\ web = "up"
        /\ runner \notin helpers /\ result[runner] = None
    BY <2>1 DEF TypeOK, RunnerInv, Synced
  <2>3. disk' = [disk EXCEPT ![runner] = "failed"]
    BY <1>10, <2>2, FailSaves DEF Synced
  <2>4. Ledger!Conclude(runner)
    BY <2>1, <2>2, <2>3 DEF Ledger!Conclude
  <2> QED BY <2>2, <2>4
<1>11. CASE Crash
  BY <1>11 DEF Crash
<1> QED
  BY <1>1, <1>2, <1>3, <1>4, <1>5, <1>6, <1>7, <1>8, <1>9, <1>10, <1>11 DEF Next, RunnerNext

(* A job that was never handed to a helper.                                *)
Unsent(j) == result[j] = None /\ j \notin helpers

(* What holds whatever save fails: a job is in one of request, queue,      *)
(* worker until it is handed to a helper, and has no verdict before.       *)
FreshInv ==
  /\ \A j \in Job : request[j] \in {"new", "posting"} =>
       Unsent(j) /\ runner # j /\ \A i \in 1..Len(queue) : queue[i] # j
  /\ \A i \in 1..Len(queue) :
       Unsent(queue[i]) /\ runner # queue[i] /\ request[queue[i]] = "done"
  /\ \A i, k \in 1..Len(queue) : queue[i] = queue[k] => i = k
  /\ at = "spawn" =>
       Unsent(runner) /\ request[runner] = "done" /\ jobs[runner] = "running" /\ disk[runner] = "running"
  /\ \A j \in helpers : result[j] = None
  /\ web = "down" => at = "idle" /\ queue = <<>> /\ \A j \in Job : request[j] # "posting"

Fresh == TypeOK /\ FreshInv /\ CompleteIsSent

LEMMA FreshInit == Init => Fresh
<1> SUFFICES ASSUME Init PROVE Fresh
  OBVIOUS
<1>1. TypeOK
  BY InitIInv DEF IInv
<1> QED
  BY <1>1, NoneAssumption DEF Init, Nothing, Fresh, FreshInv, Unsent, CompleteIsSent

LEMMA FreshStep == ASSUME Fresh, Next PROVE Fresh'
<1>0. TypeOK'
  BY TypeStep DEF Fresh
<1> USE NoneAssumption DEF Fresh, Table, InFlight, Final, SaveJobs, Worker, Done
<1>1. CASE CreateApp
  <2> USE <1>1 DEF CreateApp
  <2>1. FreshInv'
    BY DEF TypeOK, FreshInv, Unsent, GroupGone
  <2>2. CompleteIsSent'
    BY DEF CompleteIsSent, Loaded, Nothing
  <2> QED BY <1>0, <2>1, <2>2
<1>2. ASSUME NEW j \in Job, Post(j) PROVE Fresh'
  <2> USE <1>2 DEF Post
  <2>1. FreshInv'
    BY DEF TypeOK, FreshInv, Unsent
  <2>2. CompleteIsSent'
    BY DEF TypeOK, CompleteIsSent
  <2> QED BY <1>0, <2>1, <2>2
<1>3. ASSUME NEW j \in Job, Submit(j) PROVE Fresh'
  <2> USE <1>3 DEF Submit
  <2>1. /\ Len(queue) \in Nat /\ Len(queue') = Len(queue) + 1
        /\ queue'[Len(queue) + 1] = j /\ \A i \in 1..Len(queue) : queue'[i] = queue[i]
    BY DEF TypeOK
  <2>2. FreshInv'
    BY <2>1 DEF TypeOK, FreshInv, Unsent
  <2>3. CompleteIsSent'
    BY DEF CompleteIsSent
  <2> QED BY <1>0, <2>2, <2>3
<1>4. CASE Begin
  <2> USE <1>4 DEF Begin, Idle, StillWaiting
  <2> DEFINE h == Head(queue)
  <2>1. /\ h \in Job /\ h = queue[1] /\ Len(queue) \in Nat /\ 1 \in 1..Len(queue)
        /\ Len(queue') = Len(queue) - 1 /\ \A i \in 1..Len(queue') : queue'[i] = queue[i + 1]
    BY DEF TypeOK
  <2>2. \A i \in 1..Len(queue') : i + 1 \in 1..Len(queue) /\ i + 1 # 1
    BY <2>1
  <2>3. Unsent(h) /\ request[h] = "done" /\ \A i \in 1..Len(queue') : queue'[i] # h
    BY <2>1, <2>2 DEF FreshInv
  <2>4. PICK ok \in BOOLEAN :
             /\ jobs' = [jobs EXCEPT ![h] = "running"]
             /\ disk' = IF ok THEN jobs' ELSE disk
             /\ IF ok THEN runner' = h /\ at' = "spawn" ELSE runner' = None /\ at' = "idle"
    BY Zenon
  <2>5. /\ runner' \in {h, None} /\ \A i \in 1..Len(queue') : runner' # queue'[i]
        /\ UNCHANGED <<request, helpers, result>>
    BY <2>1, <2>2, <2>3, <2>4 DEF TypeOK
  <2>6. \A j \in Job : request[j] \in {"new", "posting"} =>
          Unsent(j) /\ runner' # j /\ \A i \in 1..Len(queue') : queue'[i] # j
    BY <2>1, <2>2, <2>3, <2>5 DEF FreshInv
  <2>7. \A i \in 1..Len(queue') : Unsent(queue'[i]) /\ request[queue'[i]] = "done"
    BY <2>1, <2>2 DEF FreshInv
  <2>8. \A i, k \in 1..Len(queue') : queue'[i] = queue'[k] => i = k
    <3> SUFFICES ASSUME NEW i \in 1..Len(queue'), NEW k \in 1..Len(queue'), queue'[i] = queue'[k]
                 PROVE  i = k
      OBVIOUS
    <3>1. i + 1 \in 1..Len(queue) /\ k + 1 \in 1..Len(queue) /\ queue[i + 1] = queue[k + 1]
      BY <2>1, <2>2
    <3>2. i + 1 = k + 1
      BY <3>1 DEF FreshInv
    <3> QED BY <3>2, <2>1
  <2>9. at' = "spawn" =>
          Unsent(runner') /\ request[runner'] = "done" /\ jobs'[runner'] = "running"
          /\ disk'[runner'] = "running"
    <3>1. at' = "spawn" => ok /\ runner' = h
      BY <2>4
    <3> QED BY <3>1, <2>1, <2>3, <2>4 DEF TypeOK
  <2>10. web = "up" /\ web' = web
    BY <2>1 DEF TypeOK, FreshInv
  <2>12. FreshInv'
    BY <2>5, <2>6, <2>7, <2>8, <2>9, <2>10 DEF FreshInv, Unsent
  <2>11. CompleteIsSent'
    BY <2>1, <2>4 DEF TypeOK, CompleteIsSent
  <2> QED BY <1>0, <2>11, <2>12
<1>5. CASE Spawn
  <2>1. FreshInv' /\ CompleteIsSent'
    BY <1>5 DEF Spawn, TypeOK, FreshInv, Unsent, CompleteIsSent
  <2> QED BY <1>0, <2>1
<1>6. ASSUME NEW j \in Job, HelperExits(j) PROVE Fresh'
  <2>1. FreshInv' /\ CompleteIsSent'
    BY <1>6 DEF HelperExits, TypeOK, FreshInv, Unsent, CompleteIsSent
  <2> QED BY <1>0, <2>1
<1>7. CASE LogLine \/ LogError \/ Fail
  <2>1. FreshInv'
    BY <1>7 DEF LogLine, LogError, Fail, TypeOK, FreshInv, Unsent
  <2>2. CompleteIsSent'
    BY <1>7 DEF LogLine, LogError, Fail, TypeOK, CompleteIsSent
  <2> QED BY <1>0, <2>1, <2>2
<1>8. CASE Conclude
  <2>1. FreshInv'
    BY <1>8 DEF Conclude, TypeOK, FreshInv, Unsent
  <2>2. CompleteIsSent'
    BY <1>8 DEF Conclude, Verdict, TypeOK, CompleteIsSent
  <2> QED BY <1>0, <2>1, <2>2
<1>9. CASE Crash
  <2>1. FreshInv' /\ CompleteIsSent'
    BY <1>9 DEF Crash, Nothing, TypeOK, FreshInv, Unsent, CompleteIsSent
  <2> QED BY <1>0, <2>1
<1> QED
  BY <1>1, <1>2, <1>3, <1>4, <1>5, <1>6, <1>7, <1>8, <1>9 DEF Next, RunnerNext

LEMMA Freshness == Spec => []Fresh
<1>1. Fresh /\ UNCHANGED vars => Fresh'
  BY DEF vars, Fresh, TypeOK, FreshInv, Unsent, CompleteIsSent, Table
<1> QED BY FreshInit, FreshStep, <1>1, PTL DEF Spec

(* No job is sent twice, whatever saves fail: a helper starts only for the *)
(* running job, whose result nothing has set yet.                          *)
THEOREM NoResend == Spec => SentOnce
<1>1. Fresh /\ [Next]_vars =>
        [\A j \in Job : j \in helpers' \ helpers => result[j] = None /\ disk[j] = "running"]_vars
  <2> SUFFICES ASSUME Fresh, Next, NEW j \in Job, j \in helpers' \ helpers
               PROVE  result[j] = None /\ disk[j] = "running"
    OBVIOUS
  <2>1. CASE Spawn
    BY <2>1 DEF Spawn, Fresh, FreshInv, Unsent
  <2>2. CASE ~Spawn
    <3>1. helpers' \subseteq helpers
      BY <2>2, Zenon DEF Next, RunnerNext, CreateApp, GroupGone, Begin, LogLine, Conclude,
                         LogError, Fail, Crash, Post, Submit, HelperExits
    <3> QED BY <3>1
  <2> QED BY <2>1, <2>2
<1> QED BY Freshness, <1>1, PTL DEF Spec, SentOnce

(* Whatever saves fail, a job is called complete only if it was sent.      *)
THEOREM CompleteMeansSent == Spec => []CompleteIsSent
<1>1. Fresh => CompleteIsSent
  BY DEF Fresh
<1> QED BY Freshness, <1>1, PTL

LEMMA LedgerSteps ==
  IInv /\ [Next]_vars => (flawless' => [Ledger!Next]_(Ledger!vars))
<1>1. UNCHANGED vars => UNCHANGED Ledger!vars
  BY DEF vars, Ledger!vars
<1>2. ASSUME IInv, Next, flawless' PROVE Ledger!Next \/ UNCHANGED Ledger!vars
  <2>1. flawless
    BY <1>2, StillFlawless
  <2> QED BY <1>2, <2>1, LedgerStep DEF IInv
<1> QED BY <1>1, <1>2

(* Until a save fails the detailed jobs implement the ledger: one send at  *)
(* a time, no record lost or changed once final, a verdict that agrees     *)
(* with the sender, and "interrupted" for exactly what a restart cut short. *)
THEOREM Refinement == Spec => KeepsLedger
<1>1. Init => Ledger!Init
  BY NoneAssumption DEF Init, Nothing, Ledger!Init
<1>2. IInv /\ [Next]_vars => [flawless' => [Ledger!Next]_(Ledger!vars)]_vars
  BY LedgerSteps
<1> QED BY <1>1, <1>2, Invariance, PTL DEF Spec, KeepsLedger

(* A service none of whose saves fails implements JobLedger.               *)
THEOREM LedgerImplemented == Spec /\ []flawless => Ledger!Spec
<1>1. Init => Ledger!Init
  BY NoneAssumption DEF Init, Nothing, Ledger!Init
<1> QED BY <1>1, LedgerSteps, Invariance, PTL DEF Spec, Ledger!Spec
=============================================================================
