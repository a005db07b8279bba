------------------------------ MODULE ObexInbox ------------------------------
(***************************************************************************)
(* The Object Push inbox: obexd writes the files, palm-obex-inbox is its   *)
(* agent and keeps a sidecar per transfer, and the web process lists and   *)
(* deletes.  The three share a directory and nothing else; obexd tells the *)
(* agent what became of a transfer by D-Bus signals, in order.             *)
(***************************************************************************)
EXTENDS Integers, Sequences

CONSTANTS
  Transfer,    \* transfers that pass the sender and announced-size checks
  Oversize,    \* those whose payload turns out larger than max_bytes
  Name,        \* file names that safe_filename and the counter can produce
  None

ASSUME OversizeAssumption == Oversize \subseteq Transfer

VARIABLES
  file,     \* the payload under each name: whose it is, and whether whole
  side,     \* the sidecar of each transfer: its status and stored_name
  pending,  \* the agent's reservations, lost with the process
  agent,    \* "down", "recovering", "up", or answering an AuthorizePush
  obex,     \* obexd's view of each transfer
  dest,     \* the path obexd was told
  signals,  \* from obexd to the agent, in order
  deleting, \* the name whose sidecars the web process is removing
  freed,    \* history: the names an administrator has deleted, or a recovery
            \* has emptied although a sidecar calls their file complete
  seen,     \* what a listing in progress has read: the names to hide and,
            \* as history, the transfers asked for by then; or None
  serving,  \* does the running obexd know the agent?
  flawless  \* history: no write of a sidecar has failed yet

web  == <<deleting, freed, seen>>
vars == <<file, side, pending, agent, obex, dest, signals, web, serving, flawless>>

(* "rejected-too-large", "error", "removed" and "interrupted" are "failed": *)
(* only a reader of the audit data tells them apart.                       *)
Status  == {"receiving", "complete", "failed"}
Sidecar == [status : Status, name : Name]
Payload == [by : Transfer, whole : BOOLEAN]
Signal  == [of : Transfer, says : {"complete", "failed"}]
Listing == [hidden : SUBSET Name, asked : SUBSET Transfer]

ASSUME NoneAssumption ==
  None \notin Name \cup Transfer \cup Sidecar \cup Payload \cup Listing

Init ==
  /\ file = [n \in Name |-> None]
  /\ side = [t \in Transfer |-> None]
  /\ pending = [t \in Transfer |-> None]
  /\ agent = "down"
  /\ obex = [t \in Transfer |-> "new"]
  /\ dest = [t \in Transfer |-> None]
  /\ signals = <<>>
  /\ deleting = None
  /\ freed = {}
  /\ seen = None
  /\ serving = FALSE
  /\ flawless = TRUE

-----------------------------------------------------------------------------
(* Variants named ...Bug are slips at the lines of the definition that     *)
(* follows them; no specification uses them.                               *)

(* unique_destination: no such file, and no pending transfer has the path. *)
FreeName(n) == file[n] = None /\ \A t \in Transfer : pending[t] # n

(* What recover_interrupted looks at.                                      *)
InterruptedBug == {}
Interrupted    == {t \in Transfer : side[t] # None /\ side[t].status = "receiving"}

Sidecars == {side[t] : t \in Transfer} \ {None}
Claimed(statuses) == {c.name : c \in {s \in Sidecars : s.status \in statuses}}

(* inbox_files: a name with sidecars is hidden when none is "complete".    *)
HiddenNone == {}
HiddenBug  == Claimed(Status \ {"complete"})
Hidden     == Claimed(Status \ {"complete"}) \ Claimed({"complete"})

Listed(hidden) == {n \in Name \ hidden : file[n] # None}

(* write_metadata replaces the sidecar of t, or raises and leaves it; the  *)
(* variant writes it in place.                                             *)
WriteMetadataBug(t, car, ok) ==
  /\ side' = [side EXCEPT ![t] = IF ok THEN car ELSE [car EXCEPT !.status = "torn"]]
  /\ flawless' = (flawless /\ ok)

WriteMetadata(t, car, ok) ==
  /\ side' = [side EXCEPT ![t] = IF ok THEN car ELSE @]
  /\ flawless' = (flawless /\ ok)

-----------------------------------------------------------------------------
(* AuthorizePush: a destination is reserved and the sidecar written, in    *)
(* one callback; if the write fails obexd has an error for an answer, and  *)
(* the reservation stays until the transfer object goes.                   *)
AuthorizePush(t, n) ==
  /\ agent = "up" /\ serving
  /\ obex[t] = "new"
  /\ FreeName(n)
  /\ pending' = [pending EXCEPT ![t] = n]
  /\ \E ok \in BOOLEAN :
       /\ WriteMetadata(t, [status |-> "receiving", name |-> n], ok)
       /\ agent' = IF ok THEN "answering" ELSE "up"
       /\ obex' = [obex EXCEPT ![t] = IF ok THEN "asking" ELSE "ended"]
       /\ dest' = [dest EXCEPT ![t] = IF ok THEN n ELSE @]
       /\ signals' = IF ok THEN signals ELSE Append(signals, [of |-> t, says |-> "failed"])
  /\ UNCHANGED <<file, web, serving>>

(* obexd has the answer ...                                                *)
Answered(t) ==
  /\ agent = "answering"
  /\ obex[t] = "asking"
  /\ agent' = "up"
  /\ obex' = [obex EXCEPT ![t] = "accepted"]
  /\ UNCHANGED <<file, side, pending, dest, signals, web, serving, flawless>>

(* ... opens, or truncates, the path ...                                   *)
Open(t) ==
  /\ obex[t] = "accepted"
  /\ file' = [file EXCEPT ![dest[t]] = [by |-> t, whole |-> FALSE]]
  /\ obex' = [obex EXCEPT ![t] = "writing"]
  /\ UNCHANGED <<side, pending, agent, dest, signals, web, serving, flawless>>

(* ... and ends: the status, then the removal of the transfer object.  The *)
(* payload may have been unlinked meanwhile.                               *)
Told(t, says) ==
  IF agent \in {"up", "answering"}
  THEN signals \o <<[of |-> t, says |-> says], [of |-> t, says |-> "failed"]>>
  ELSE signals

Receive(t) ==
  /\ obex[t] = "writing"
  /\ obex' = [obex EXCEPT ![t] = "ended"]
  /\ file' = [file EXCEPT ![dest[t]] =
                IF @ # None /\ @.by = t THEN [@ EXCEPT !.whole = TRUE] ELSE @]
  /\ signals' = Told(t, "complete")
  /\ UNCHANGED <<side, pending, agent, dest, web, serving, flawless>>

Abort(t) ==
  /\ obex[t] \in {"accepted", "writing"}
  /\ obex' = [obex EXCEPT ![t] = "ended"]
  /\ signals' = Told(t, "failed")
  /\ UNCHANGED <<file, side, pending, agent, dest, web, serving, flawless>>

(* finish: a complete payload of lawful size is kept, any other is removed; *)
(* the sidecar gets the final status.                                      *)
FinishWith(t, says, reservations) ==
  LET n == pending[t]
      there == file[n] # None
      keep == says = "complete" /\ there /\ file[n].by \notin Oversize
      status == IF there /\ ~keep THEN "failed" ELSE says IN
    /\ pending' = reservations
    /\ file' = [file EXCEPT ![n] = IF keep THEN @ ELSE None]
    /\ \E ok \in BOOLEAN : WriteMetadata(t, [status |-> status, name |-> n], ok)

FinishBug(t, says) == FinishWith(t, says, pending)
Finish(t, says)    == FinishWith(t, says, [pending EXCEPT ![t] = None])

(* properties_changed and interfaces_removed: `transfer_path not in        *)
(* self.pending' returns early.                                            *)
Followed(t) == pending[t] # None

HandleSignal ==
  /\ agent = "up"
  /\ signals # <<>>
  /\ signals' = Tail(signals)
  /\ LET s == Head(signals) IN
       IF Followed(s.of) THEN Finish(s.of, s.says)
       ELSE UNCHANGED <<file, side, pending, flawless>>
  /\ UNCHANGED <<agent, obex, dest, web, serving>>

(* The agent stops, by a signal or a failure: its memory and the signals   *)
(* sent to it are gone; a call it was answering fails and obexd refuses    *)
(* the transfer.                                                           *)
Crash ==
  /\ agent # "down"
  /\ agent' = "down"
  /\ serving' = FALSE
  /\ pending' = [t \in Transfer |-> None]
  /\ signals' = <<>>
  /\ obex' = [t \in Transfer |-> IF obex[t] = "asking" THEN "ended" ELSE obex[t]]
  /\ UNCHANGED <<file, side, dest, web, flawless>>

(* obexd dies and is started again: its transfers end without a signal,    *)
(* and the new one has no agent (Requires= does not stop the inbox then).  *)
ObexDie ==
  /\ obex' = [t \in Transfer |-> IF obex[t] = "new" THEN "new" ELSE "ended"]
  /\ serving' = FALSE
  /\ agent' = IF agent = "answering" THEN "up" ELSE agent
  /\ UNCHANGED <<file, side, pending, dest, signals, web, flawless>>

(* systemd starts it again, RestartSec=3s later: obexd opened meanwhile    *)
(* what it had been told to open.                                          *)
Start ==
  /\ agent = "down"
  /\ \A t \in Transfer : obex[t] # "accepted"
  /\ agent' = "recovering"
  /\ UNCHANGED <<file, side, pending, obex, dest, signals, web, serving, flawless>>

(* recover_interrupted, one sidecar at a time; when the write raises main  *)
(* ends with it.                                                           *)
Recover(t) ==
  /\ agent = "recovering"
  /\ t \in Interrupted
  /\ file' = [file EXCEPT ![side[t].name] = None]
  /\ \E ok \in BOOLEAN :
       /\ WriteMetadata(t, [side[t] EXCEPT !.status = "failed"], ok)
       /\ agent' = IF ok THEN agent ELSE "down"
  /\ freed' = freed \cup ({side[t].name} \cap Claimed({"complete"}))
  /\ UNCHANGED <<pending, obex, dest, signals, deleting, seen, serving>>

(* RegisterAgent, which has obexd started if it is not running.            *)
Registered ==
  /\ agent = "recovering"
  /\ Interrupted = {}
  /\ agent' = "up"
  /\ serving' = TRUE
  /\ UNCHANGED <<file, side, pending, obex, dest, signals, web, flawless>>

(* inbox_delete asks only that the file is there, not that it is listed:   *)
(* the payload goes first ...                                              *)
WebDelete(n) ==
  /\ deleting = None
  /\ file[n] # None
  /\ file' = [file EXCEPT ![n] = None]
  /\ deleting' = n
  /\ freed' = freed \cup {n}
  /\ UNCHANGED <<side, pending, agent, obex, dest, signals, seen, serving, flawless>>

(* ... then its sidecars one by one (remove_inbox_metadata), unless the    *)
(* web process dies.                                                       *)
RemoveMetadata(t) ==
  /\ deleting # None
  /\ side[t] # None /\ side[t].name = deleting
  /\ side' = [side EXCEPT ![t] = None]
  /\ UNCHANGED <<file, pending, agent, obex, dest, signals, web, serving, flawless>>

Deleted ==
  /\ deleting # None
  /\ deleting' = None
  /\ UNCHANGED <<file, side, pending, agent, obex, dest, signals, freed, seen, serving, flawless>>

(* inbox_files reads the sidecars first, and scans the directory later.    *)
ListRead ==
  /\ seen = None
  /\ seen' = [hidden |-> Hidden, asked |-> {t \in Transfer : obex[t] # "new"}]
  /\ UNCHANGED <<file, side, pending, agent, obex, dest, signals, deleting, freed, serving, flawless>>

ListScan ==
  /\ seen # None
  /\ seen' = None
  /\ UNCHANGED <<file, side, pending, agent, obex, dest, signals, deleting, freed, serving, flawless>>

ObexNext(t) == Open(t) \/ Receive(t) \/ Abort(t)

Next ==
  \/ \E t \in Transfer : \/ \E n \in Name : AuthorizePush(t, n)
                         \/ Answered(t) \/ Recover(t) \/ ObexNext(t) \/ RemoveMetadata(t)
  \/ HandleSignal \/ Crash \/ Start \/ Registered \/ ObexDie
  \/ \E n \in Name : WebDelete(n)
  \/ Deleted \/ ListRead \/ ListScan

Spec == Init /\ [][Next]_vars

(* The agent runs on and systemd restarts it (Restart=always), however     *)
(* often it dies; obexd opens what it was told to.  A transfer may take    *)
(* for ever.                                                               *)
Fairness ==
  /\ WF_vars(Start) /\ SF_vars(Registered) /\ SF_vars(HandleSignal)
  /\ SF_vars(\E t \in Transfer : Recover(t) \/ Answered(t))
  /\ \A t \in Transfer : WF_vars(obex[t] = "accepted" /\ ObexNext(t))

FairSpec == Spec /\ Fairness

-----------------------------------------------------------------------------
(* Type correctness of the directory, the sidecars and the signals.        *)
TypeOK ==
  /\ file \in [Name -> Payload \cup {None}]
  /\ side \in [Transfer -> Sidecar \cup {None}]
  /\ pending \in [Transfer -> Name \cup {None}]
  /\ agent \in {"down", "recovering", "up", "answering"}
  /\ obex \in [Transfer -> {"new", "asking", "accepted", "writing", "ended"}]
  /\ dest \in [Transfer -> Name \cup {None}]
  /\ signals \in Seq(Signal)
  /\ deleting \in Name \cup {None}
  /\ freed \subseteq Name
  /\ seen \in Listing \cup {None}
  /\ serving \in BOOLEAN /\ flawless \in BOOLEAN

Presentable(n) == file[n].whole /\ file[n].by \notin Oversize

(* A listing shows only whole files within the size limit ("lists each     *)
(* completed item"), across failed and interrupted transfers, retries and  *)
(* agent restarts.  Exceptions: a name an administrator has deleted or a   *)
(* recovery emptied although its file was complete (the sidecar that calls *)
(* it so is there, or may be, when the name is used again), and a transfer *)
(* authorised after the listing had read the sidecars.                     *)
ListedIsWhole ==
  seen # None =>
    \A n \in Listed(seen.hidden) \ freed : Presentable(n) \/ file[n].by \notin seen.asked

(* What was received is listed: while an agent serves and no write of a    *)
(* sidecar has failed, a whole file of lawful size that nobody freed and   *)
(* whose transfer the agent has let go is shown, whatever sidecars failed  *)
(* attempts, other transfers and earlier agents left with its name.        *)
ReceivedVisible ==
  flawless /\ agent \in {"up", "answering"} =>
    \A n \in Name \ freed :
      file[n] # None /\ Presentable(n) /\ pending[file[n].by] = None => n \in Listed(Hidden)

Discards(n) == file[n] # None /\ Presentable(n) /\ file'[n] = None

(* No transfer writes over a file another one has put there, and a whole   *)
(* file of lawful size goes only by an administrator's deletion or when a  *)
(* restarted agent takes its transfer for an interrupted one; until a      *)
(* write of a sidecar fails, that is a transfer whose end it did not see.  *)
NoneLost ==
  [][\A n \in Name :
       /\ file[n] # None /\ file'[n] # None => file'[n].by = file[n].by
       /\ Discards(n) =>
            \/ deleting' = n
            \/ agent = "recovering" /\ (file[n].by \in Interrupted \/ ~flawless)]_vars

(* The same without the exception ("completed files are retained").        *)
CompletedRetained == [][\A n \in Name : Discards(n) => deleting' = n]_vars

(* A transfer obexd is done with does not stay "receiving", as long as the *)
(* agent knows its obexd and no write has failed.                          *)
TransferSettles ==
  \A t \in Transfer :
    (obex[t] = "ended") ~>
      (side[t] = None \/ side[t].status # "receiving" \/ ~serving \/ ~flawless)
=============================================================================
