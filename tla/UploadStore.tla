----------------------------- MODULE UploadStore -----------------------------
(***************************************************************************)
(* The store of .prc and .pdb files: uploads of several files, deletions   *)
(* and sends, in the request threads of the web process and the helper it  *)
(* starts.  No lock guards the directory; what keeps a half uploaded or    *)
(* refused file from a Palm is the order of stage, validate and replace.   *)
(***************************************************************************)
EXTENDS Naturals, Sequences

CONSTANTS
  Request,   \* upload requests
  Name,      \* normalised file names
  Fold,      \* a name without its case: n1.PRC and N1.prc fold to one
  Batches,   \* what a request may carry: sequences of [name, fit]
  MaxFiles,  \* max_upload_files
  None

(* "suffix": not .prc or .pdb.  "short": too small to be a Palm database.  *)
Fit  == {"good", "short", "suffix"}
Item == [name : Name, fit : Fit]

ASSUME BatchesAssumption == Batches \subseteq Seq(Item) \ {<<>>}
ASSUME FoldAssumption    == Fold \in [Name -> Name]
ASSUME MaxAssumption     == MaxFiles \in Nat
ASSUME NoneAssumption    == None \notin Name \cup (Request \X Nat)

VARIABLES
  store,     \* the visible files: which item of which request each name holds
  temps,     \* the hidden temporary files, by the item they were saved from
  batch,     \* what each request carries
  pc,        \* where each request is
  at,        \* the item its loop has come to: saved, published or unlinked
  staged,    \* how many items its finally clause knows of
  deleting,  \* names a deletion has checked and not unlinked
  job,       \* the send in hand: its step, its name, and the file it read
  shown      \* history: the items that have been visible

vars == <<store, temps, batch, pc, at, staged, deleting, job, shown>>

Cleaning == {"keep", "refuse", "break"}
Busy  == {"stage", "validate", "publish"} \cup Cleaning
Ended == {"ok", "rejected", "error", "lost"}

Init ==
  /\ store = [n \in Name |-> None]
  /\ temps = {}
  /\ batch = [r \in Request |-> <<>>]
  /\ pc = [r \in Request |-> "idle"]
  /\ at = [r \in Request |-> 1]
  /\ staged = [r \in Request |-> 0]
  /\ deleting = {}
  /\ job = [step |-> "none", name |-> None, read |-> None]
  /\ shown = {}

-----------------------------------------------------------------------------
(* Variants named ...Bug are slips at the lines of the definition that     *)
(* follows them; no specification uses them.                               *)

Goto(r, here, next) == pc[r] = here /\ pc' = [pc EXCEPT ![r] = next]
Reset(r)            == at' = [at EXCEPT ![r] = 1]
AdvanceBug(r)       == at' = [at EXCEPT ![r] = @ + 2]
Advance(r)          == at' = [at EXCEPT ![r] = @ + 1]
AllDone(r)          == at[r] > Len(batch[r])
Current(r)          == batch[r][at[r]]
RequestOnly(r)      == UNCHANGED <<batch, deleting, job>>

(* The name and the suffix, and no earlier file of the batch by that name, *)
(* whatever the case of either.                                            *)
Admitted(r) ==
  /\ Current(r).fit # "suffix"
  /\ \A i \in 1..(at[r] - 1) : Fold[batch[r][i].name] # Fold[Current(r).name]

(* Every file of the batch has at least 78 bytes and a header.             *)
ValidatedBug(r) == batch[r][1].fit = "good"
Validated(r)    == \A i \in 1..Len(batch[r]) : batch[r][i].fit = "good"

(* The finally clause has come to the end of the staged list.              *)
CleanedBug(r) == at[r] >= staged[r]
Cleaned(r)    == at[r] > staged[r]

-----------------------------------------------------------------------------
Upload(r, b) ==
  /\ Goto(r, "idle", IF Len(b) > MaxFiles THEN "rejected" ELSE "stage")
  /\ batch' = [batch EXCEPT ![r] = b]
  /\ UNCHANGED <<store, temps, at, staged, deleting, job, shown>>

RefuseFile(r) ==
  /\ ~AllDone(r) /\ ~Admitted(r)
  /\ Goto(r, "stage", "refuse") /\ Reset(r)
  /\ UNCHANGED <<store, temps, staged, shown>> /\ RequestOnly(r)

(* uploaded.save under a fresh hidden name; staged only if it returned.    *)
Save(r) ==
  /\ ~AllDone(r) /\ Admitted(r)
  /\ temps' = temps \cup {<<r, at[r]>>}
  /\ \/ Goto(r, "stage", "stage") /\ Advance(r) /\ staged' = [staged EXCEPT ![r] = at[r]]
     \/ Goto(r, "stage", "break") /\ Reset(r) /\ UNCHANGED staged
  /\ UNCHANGED <<store, shown>> /\ RequestOnly(r)

Staged(r) ==
  /\ AllDone(r)
  /\ Goto(r, "stage", "validate") /\ Reset(r)
  /\ UNCHANGED <<store, temps, staged, shown>> /\ RequestOnly(r)

(* The whole batch is looked at; stat, the header or chmod may raise.      *)
Validate(r) ==
  /\ \/ Goto(r, "validate", IF Validated(r) THEN "publish" ELSE "refuse")
     \/ Goto(r, "validate", "break")
  /\ UNCHANGED <<store, temps, at, staged, shown>> /\ RequestOnly(r)

(* temporary.replace(STORE / name), one file after the other.              *)
Replace(r) ==
  /\ ~AllDone(r)
  /\ Goto(r, "publish", "publish") /\ Advance(r)
  /\ store' = [store EXCEPT ![Current(r).name] = <<r, at[r]>>]
  /\ temps' = temps \ {<<r, at[r]>>}
  /\ shown' = shown \cup {<<r, at[r]>>}
  /\ UNCHANGED staged /\ RequestOnly(r)

(* A replace that raises leaves the files before it visible.               *)
ReplaceFailsBug(r) ==
  /\ ~AllDone(r)
  /\ Goto(r, "publish", "publish") /\ Advance(r)
  /\ UNCHANGED <<store, temps, staged, shown>> /\ RequestOnly(r)

ReplaceFails(r) ==
  /\ ~AllDone(r)
  /\ Goto(r, "publish", "break") /\ Reset(r)
  /\ UNCHANGED <<store, temps, staged, shown>> /\ RequestOnly(r)

PublishDone(r) ==
  /\ AllDone(r)
  /\ Goto(r, "publish", "keep") /\ Reset(r)
  /\ UNCHANGED <<store, temps, staged, shown>> /\ RequestOnly(r)

(* finally: temporary.unlink(missing_ok=True) of one staged file after the *)
(* other, whatever the request has come to.  One that raises ends it.      *)
CleanUp(r) ==
  /\ pc[r] \in Cleaning /\ ~Cleaned(r)
  /\ temps' = temps \ {<<r, at[r]>>}
  /\ Advance(r)
  /\ UNCHANGED <<store, pc, staged, shown>> /\ RequestOnly(r)

CleanUpFails(r) ==
  /\ ~Cleaned(r)
  /\ \E here \in Cleaning : Goto(r, here, "error")
  /\ UNCHANGED <<store, temps, at, staged, shown>> /\ RequestOnly(r)

Respond(r) ==
  /\ Cleaned(r)
  /\ \/ Goto(r, "keep", "ok")
     \/ Goto(r, "refuse", "rejected")
     \/ Goto(r, "break", "error")
  /\ UNCHANGED <<store, temps, at, staged, shown>> /\ RequestOnly(r)

(* The web process and the helper in its control group die.                *)
Crash ==
  /\ pc' = [r \in Request |-> IF pc[r] \in Busy THEN "lost" ELSE pc[r]]
  /\ deleting' = {}
  /\ job' = [job EXCEPT !.step = "none"]
  /\ UNCHANGED <<store, temps, batch, at, staged, shown>>

Delete(n) ==
  /\ store[n] # None
  /\ deleting' = deleting \cup {n}
  /\ UNCHANGED <<store, temps, batch, pc, at, staged, job, shown>>

(* path.unlink(), which raises when the file went in between.              *)
Unlink(n) ==
  /\ n \in deleting
  /\ deleting' = deleting \ {n}
  /\ store' = [store EXCEPT ![n] = None]
  /\ UNCHANGED <<temps, batch, pc, at, staged, job, shown>>

(* The send page takes a name of managed_files; the job, when its turn     *)
(* comes, looks for the file, and the sender reads it.                     *)
SendStep(here, next, read) ==
  /\ job.step = here
  /\ job' = [job EXCEPT !.step = next, !.read = read]
  /\ UNCHANGED <<store, temps, batch, pc, at, staged, deleting, shown>>

Send(n) ==
  /\ job.step = "none" /\ store[n] # None
  /\ job' = [step |-> "queued", name |-> n, read |-> None]
  /\ UNCHANGED <<store, temps, batch, pc, at, staged, deleting, shown>>

FileIsThere == SendStep("queued", IF store[job.name] # None THEN "sending" ELSE "none", None)
ReadFile    == SendStep("sending", "none", store[job.name])

RequestNext(r) ==
  \/ \E b \in Batches : Upload(r, b)
  \/ RefuseFile(r) \/ Save(r) \/ Staged(r) \/ Validate(r)
  \/ Replace(r) \/ ReplaceFails(r) \/ PublishDone(r)
  \/ CleanUp(r) \/ CleanUpFails(r) \/ Respond(r)

Next ==
  \/ \E r \in Request : RequestNext(r)
  \/ \E n \in Name : Delete(n) \/ Unlink(n) \/ Send(n)
  \/ FileIsThere \/ ReadFile \/ Crash

Spec == Init /\ [][Next]_vars

-----------------------------------------------------------------------------
(* Type correctness of the directory, the requests and the send.           *)
TypeOK ==
  /\ batch \in [Request -> Batches \cup {<<>>}]
  /\ store \in [Name -> Request \X Nat \cup {None}]
  /\ temps \subseteq Request \X Nat /\ shown \subseteq Request \X Nat
  /\ pc \in [Request -> {"idle"} \cup Busy \cup Ended]
  /\ at \in [Request -> Nat] /\ staged \in [Request -> Nat]
  /\ \A r \in Request : at[r] - 1 <= Len(batch[r]) /\ staged[r] <= Len(batch[r])
  /\ deleting \subseteq Name
  /\ job \in [step : {"none", "queued", "sending"}, name : Name \cup {None},
              read : Request \X Nat \cup {None}]

Accepted(b) ==
  /\ Len(b) <= MaxFiles
  /\ \A i, k \in 1..Len(b) : b[i].fit = "good" /\ (Fold[b[i].name] = Fold[b[k].name] => i = k)

(* What a name shows, and what a send reads under it, is a file uploaded   *)
(* by that name in a batch without a single fault ("stages and validates   *)
(* the whole batch before publishing any file"), whatever other uploads,   *)
(* deletions and crashes overlap.                                          *)
OnlyAccepted ==
  LET Sound(f, n) == f # None => /\ Accepted(batch[f[1]])
                                 /\ f[2] \in 1..Len(batch[f[1]])
                                 /\ batch[f[1]][f[2]].name = n
  IN  Sound(job.read, job.name) /\ \A n \in Name : Sound(store[n], n)

(* An upload that reported success has shown all of its files, a rejected  *)
(* one none.  A replace that failed or a crash may leave a part, which is  *)
(* then the beginning of the batch, all of it staged and validated.        *)
AllOrNone ==
  \A r \in Request :
    LET mine == {i \in 1..Len(batch[r]) : <<r, i>> \in shown} IN
    /\ pc[r] \in {"keep", "ok"} => mine = 1..Len(batch[r])
    /\ pc[r] \in {"refuse", "rejected"} => mine = {}
    /\ \E k \in 0..Len(batch[r]) : mine = 1..k
    /\ mine # {} => staged[r] = Len(batch[r])

(* A request that answered 200 or 400 leaves no temporary; one that failed *)
(* leaves those its finally clause had not come to, and the one of the     *)
(* save that failed.  Until a batch is published or refused each staged    *)
(* file is there, hidden or shown.                                         *)
TempsCleared ==
  \A r \in Request :
    LET mine == {i \in 1..Len(batch[r]) : <<r, i>> \in temps} IN
    /\ pc[r] \in {"ok", "rejected"} => mine = {}
    /\ pc[r] = "error" => mine \subseteq at[r]..(staged[r] + 1)
    /\ pc[r] \in {"stage", "validate", "publish", "keep"} =>
         \A i \in 1..staged[r] : i \in mine \/ <<r, i>> \in shown
=============================================================================
