------------------------------ MODULE SendJobs -------------------------------
(***************************************************************************)
(* Bluetooth send jobs of the web process: request threads create and      *)
(* submit them, one worker thread runs them by a helper process each, and  *)
(* every change of the table is written to jobs.json under jobs_lock.      *)
(* A save replaces the file atomically, or fails and leaves it.            *)
(***************************************************************************)
EXTENDS Integers, Sequences, FiniteSets

CONSTANTS
  Job,   \* job identifiers, each from a uuid and used once
  None

ASSUME NoneAssumption ==
  None \notin Job \cup {"queued", "running", "complete", "failed", "interrupted", "ok", "bad"}

VARIABLES
  jobs,     \* the table in memory: the status of each job
  disk,     \* the same in jobs.json
  request,  \* of each job: "new", "posting" before executor.submit, "done"
  queue,    \* the executor's work queue
  runner,   \* the job the worker thread runs, or None
  at,       \* where in run_send_job the worker is
  helpers,  \* the jobs whose palm-web-admin process is alive
  result,   \* how each helper ended: None, "ok" or "bad"
  web,      \* "down" or "up"
  flawless  \* history: no save has failed yet

vars == <<jobs, disk, request, queue, runner, at, helpers, result, web, flawless>>

InFlight == {"queued", "running"}
Final    == {"complete", "failed", "interrupted"}
Table    == [Job -> InFlight \cup Final \cup {None}]
Nothing  == [j \in Job |-> None]

Init ==
  /\ jobs = Nothing
  /\ disk = Nothing
  /\ request = [j \in Job |-> "new"]
  /\ queue = <<>>
  /\ runner = None
  /\ at = "idle"
  /\ helpers = {}
  /\ result = [j \in Job |-> None]
  /\ web = "down"
  /\ flawless = TRUE

-----------------------------------------------------------------------------
(* save_jobs, after the table became new; write_text or replace may raise  *)
(* (a full disk), and the callers see the exception if ~ok.                *)
SaveJobs(new, ok) ==
  /\ jobs' = new
  /\ disk' = IF ok THEN new ELSE disk
  /\ flawless' = (flawless /\ ok)

(* Variants named ...Bug are slips at the lines of the definition that     *)
(* follows them; no specification uses them.                               *)

(* load_jobs: jobs the last process left in flight.                        *)
LoadedBug(t) == [j \in Job |-> IF t[j] = "running" THEN "interrupted" ELSE t[j]]
Loaded(t)    == [j \in Job |-> IF t[j] \in InFlight THEN "interrupted" ELSE t[j]]

(* systemd starts the service again when its control group is empty.       *)
GroupGoneBug == helpers
GroupGone    == {}

(* The status from the helper's return code.                               *)
VerdictBug(j) == "complete"
Verdict(j)    == IF result[j] = "ok" THEN "complete" ELSE "failed"

(* The one worker of ThreadPoolExecutor(max_workers=1).                    *)
Idle == at = "idle"

Worker(j, step) == runner' = j /\ at' = step
DoneBug         == runner' = runner /\ at' = "idle"
Done            == runner' = None /\ at' = "idle"

(* The work queue once the worker has taken a job.                         *)
StillWaitingBug == queue
StillWaiting    == Tail(queue)

-----------------------------------------------------------------------------
(* create_app runs load_jobs; when its save fails the history is dropped.  *)
CreateApp ==
  /\ web = "down"
  /\ web' = "up"
  /\ helpers' = GroupGone
  /\ \E ok \in BOOLEAN :
       /\ jobs' = IF ok THEN Loaded(disk) ELSE Nothing
       /\ disk' = IF ok THEN Loaded(disk) ELSE disk
       /\ flawless' = (flawless /\ ok)
  /\ UNCHANGED <<request, queue, runner, at, result>>

(* start_send: the record is saved first; after a failed save the request  *)
(* fails and the job is never submitted.                                   *)
Post(j) ==
  /\ web = "up"
  /\ request[j] = "new"
  /\ \E ok \in BOOLEAN :
       /\ SaveJobs([jobs EXCEPT ![j] = "queued"], ok)
       /\ request' = [request EXCEPT ![j] = IF ok THEN "posting" ELSE "done"]
  /\ UNCHANGED <<queue, runner, at, helpers, result, web>>

Submit(j) ==
  /\ request[j] = "posting"
  /\ request' = [request EXCEPT ![j] = "done"]
  /\ queue' = Append(queue, j)
  /\ UNCHANGED <<jobs, disk, runner, at, helpers, result, web, flawless>>

(* run_send_job: its first update is not inside the try.                   *)
Begin ==
  /\ Idle
  /\ queue # <<>>
  /\ queue' = StillWaiting
  /\ \E ok \in BOOLEAN :
       /\ SaveJobs([jobs EXCEPT ![Head(queue)] = "running"], ok)
       /\ IF ok THEN Worker(Head(queue), "spawn") ELSE Done
  /\ UNCHANGED <<request, helpers, result, web>>

(* Popen and the write to its standard input.                              *)
Spawn ==
  /\ at = "spawn"
  /\ \/ helpers' = helpers \cup {runner} /\ Worker(runner, "reading")
     \/ Worker(runner, "except") /\ UNCHANGED helpers
  /\ UNCHANGED <<jobs, disk, request, queue, result, web, flawless>>

(* The helper ends by itself, followed or not.                             *)
HelperExits(j) ==
  /\ j \in helpers
  /\ helpers' = helpers \ {j}
  /\ \E r \in {"ok", "bad"} : result' = [result EXCEPT ![j] = r]
  /\ UNCHANGED <<jobs, disk, request, queue, runner, at, web, flawless>>

(* append_job_log of a line of its output; a failure leaves the helper be. *)
LogLine ==
  /\ at = "reading"
  /\ \E ok \in BOOLEAN :
       /\ SaveJobs(jobs, ok)
       /\ Worker(runner, IF ok THEN "reading" ELSE "except")
  /\ UNCHANGED <<request, queue, helpers, result, web>>

Conclude ==
  /\ at = "reading"
  /\ runner \notin helpers
  /\ \E ok \in BOOLEAN :
       /\ SaveJobs([jobs EXCEPT ![runner] = Verdict(runner)], ok)
       /\ IF ok THEN Done ELSE Worker(runner, "except")
  /\ UNCHANGED <<request, queue, helpers, result, web>>

(* except Exception: a log line, whose failure escapes, then "failed".     *)
LogError ==
  /\ at = "except"
  /\ \E ok \in BOOLEAN :
       /\ SaveJobs(jobs, ok)
       /\ IF ok THEN Worker(runner, "fail") ELSE Done
  /\ UNCHANGED <<request, queue, helpers, result, web>>

Fail ==
  /\ at = "fail"
  /\ \E ok \in BOOLEAN : SaveJobs([jobs EXCEPT ![runner] = "failed"], ok)
  /\ Done
  /\ UNCHANGED <<request, queue, helpers, result, web>>

(* The web process dies; its memory and its threads are gone.              *)
Crash ==
  /\ web = "up"
  /\ web' = "down"
  /\ jobs' = Nothing
  /\ queue' = <<>>
  /\ Done
  /\ request' = [j \in Job |-> IF request[j] = "posting" THEN "done" ELSE request[j]]
  /\ UNCHANGED <<disk, helpers, result, flawless>>

RunnerNext == Begin \/ Spawn \/ Conclude \/ LogError \/ Fail

Next ==
  \/ CreateApp \/ RunnerNext \/ LogLine \/ Crash
  \/ \E j \in Job : Post(j) \/ Submit(j) \/ HelperExits(j)

Spec == Init /\ [][Next]_vars

(* Restart=on-failure brings the service back, threads run, and a helper's *)
(* waits all have timeouts.  The service may die again and again.          *)
FairSpec ==
  /\ Spec
  /\ WF_vars(CreateApp) /\ SF_vars(RunnerNext)
  /\ \A j \in Job : SF_vars(Submit(j)) /\ WF_vars(HelperExits(j))

-----------------------------------------------------------------------------
(* Type correctness; the worker holds a job except when it is idle.        *)
TypeOK ==
  /\ jobs \in Table
  /\ disk \in Table
  /\ request \in [Job -> {"new", "posting", "done"}]
  /\ queue \in Seq(Job)
  /\ runner \in Job \cup {None}
  /\ at \in {"idle", "spawn", "reading", "except", "fail"}
  /\ helpers \subseteq Job
  /\ result \in [Job -> {None, "ok", "bad"}]
  /\ web \in {"down", "up"}
  /\ flawless \in BOOLEAN
  /\ at = "idle" <=> runner = None

(* While saves succeed one helper at a time uses the radio, also across    *)
(* restarts ("Jobs are serialized because there is one radio").            *)
OneSend == \A j, k \in helpers : j = k

Serialized == flawless => OneSend

(* "complete" is shown and recorded only for a file that was sent, however *)
(* saves fail.                                                             *)
CompleteIsSent ==
  \A j \in Job : "complete" \in {jobs[j], disk[j]} => result[j] = "ok"

(* No restart, failure or retry sends a job twice; nor does a failing save. *)
SentOnce ==
  [][\A j \in Job : j \in helpers' \ helpers => result[j] = None /\ disk[j] = "running"]_vars

(* While saves succeed every recorded job comes to an end in the record,   *)
(* however often the service dies.                                         *)
Settles == \A j \in Job : disk[j] \in InFlight ~> disk[j] \in Final \/ ~flawless

(* Until the first save that fails, jobs.json is the ledger: every step is *)
(* one of the ledger's or leaves it alone.                                 *)
Ledger ==
  INSTANCE JobLedger WITH ledger <- disk, radio <- helpers,
                          sent <- {j \in Job : result[j] = "ok"}
KeepsLedger == Ledger!Init /\ [][flawless' => [Ledger!Next]_(Ledger!vars)]_vars
=============================================================================
