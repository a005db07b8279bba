------------------------------ MODULE PrcSender ------------------------------
(***************************************************************************)
(* palm-send-prc sends its files one after the other in one OBEX session   *)
(* and learns what became of each from obexd's signals.  The receivers are *)
(* installed before SendFile, but handlers run only inside loop.run(): a   *)
(* signal that arrives during a blocking call waits in the connection.     *)
(***************************************************************************)
EXTENDS Integers, Sequences

CONSTANTS
  Files  \* how many files the command line names

ASSUME FilesAssumption == Files \in Nat \ {0}

VARIABLES
  cur,       \* the file being sent
  pc,        \* where transfer_one is
  props,     \* state["props"]["Status"]
  terminal,  \* state["terminal"], "none" for None
  removed,   \* state["removed"]
  timedOut,  \* state["timed_out"]
  queue,     \* signals the connection holds: <<file, status or "removed">>
  told,      \* what the sender said of each file
  transfer,  \* obexd's transfer objects
  palm,      \* the files the Palm has
  obexd,     \* is obexd alive?
  stored,    \* is the file being sent still under its path?
  blind      \* history: an answer of SendFile, or a final report, was lost

state == <<props, terminal, removed, timedOut>>
vars  == <<cur, pc, state, queue, told, transfer, palm, obexd, stored, blind>>

File     == 1..Files
Ended    == {"complete", "error"}
Statuses == {"queued", "active"} \cup Ended

Init ==
  /\ cur = 1
  /\ pc = "send"
  /\ props = "none" /\ terminal = "none" /\ removed = FALSE /\ timedOut = FALSE
  /\ queue = <<>>
  /\ told = [f \in File |-> "nothing"]
  /\ transfer = [f \in File |-> "none"]
  /\ palm = {}
  /\ obexd = TRUE
  /\ stored = TRUE /\ blind = FALSE

-----------------------------------------------------------------------------
(* Variants named ...Bug are slips at the lines of the definition that     *)
(* follows them; no specification uses them.                               *)

(* From SendFile on the receivers are there.                               *)
Listening == pc # "done"

(* report(): a final status is terminal.                                   *)
TerminalAny(s) == s
TerminalBug(s) == IF s = "error" THEN "error" ELSE "none"
Terminal(s)    == IF s \in Ended THEN s ELSE "none"

(* The timer that runs from loop.run() until the iteration that quits.     *)
ArmedBug == pc \in {"loop", "leaving"} /\ props = "active"
Armed    == pc \in {"loop", "leaving"}

(* What transfer_one makes of its state after the loop.                    *)
ConclusionBug == IF removed \/ terminal = "complete" THEN "installed" ELSE "failed"
Conclusion    == IF terminal = "complete" THEN "installed" ELSE "failed"

-----------------------------------------------------------------------------
(* SendFile and the first record of its state, or its exception: the size  *)
(* cannot be read, D-Bus or obexd refuses.                                 *)
SendFile ==
  /\ pc = "send" /\ obexd /\ stored
  /\ transfer' = [transfer EXCEPT ![cur] = "queued"]
  /\ props' = "queued" /\ terminal' = "none" /\ removed' = FALSE /\ timedOut' = FALSE
  /\ pc' = "getall"
  /\ UNCHANGED <<cur, queue, told, palm, obexd, stored, blind>>

SendFileFails ==
  /\ pc = "send"
  /\ told' = [told EXCEPT ![cur] = "failed"]
  /\ pc' = "close"
  /\ UNCHANGED <<cur, state, queue, transfer, palm, obexd, stored, blind>>

(* obexd takes the file, and its answer does not come within the 60 s.     *)
SendFileUnanswered ==
  /\ pc = "send" /\ obexd /\ stored
  /\ transfer' = [transfer EXCEPT ![cur] = "queued"]
  /\ told' = [told EXCEPT ![cur] = "failed"]
  /\ blind' = TRUE
  /\ pc' = "close"
  /\ UNCHANGED <<cur, state, queue, palm, obexd, stored>>

(* GetAll answers while the object is there, or its exception is dropped;  *)
(* then report() runs, which asks for the size of the file under its path. *)
(* With no such file its exception leaves transfer_one, and main.          *)
GetAll ==
  /\ pc = "getall"
  /\ \/ UNCHANGED props
     \/ obexd /\ transfer[cur] \in Statuses /\ props' = transfer[cur]
  /\ IF stored
     THEN /\ terminal' = Terminal(props')
          /\ pc' = IF terminal' = "none" THEN "loop" ELSE "ended"
          /\ UNCHANGED <<told, blind>>
     ELSE /\ told' = [told EXCEPT ![cur] = "failed"]
          /\ blind' = TRUE
          /\ pc' = "close"
          /\ UNCHANGED terminal
  /\ UNCHANGED <<cur, removed, timedOut, queue, transfer, palm, obexd, stored>>

(* What report() makes of a status inside a handler, where an exception of *)
(* its own is dropped by the D-Bus binding.                                *)
Report(s) ==
  IF Terminal(s) = "none" THEN UNCHANGED <<pc, terminal, blind>>
  ELSE IF stored THEN terminal' = Terminal(s) /\ pc' = "leaving" /\ UNCHANGED blind
  ELSE blind' = TRUE /\ UNCHANGED <<pc, terminal>>

(* properties_changed and interfaces_removed.  A loop that was told to     *)
(* quit may dispatch a source that was ready in the same iteration.        *)
Dispatch ==
  /\ pc \in {"loop", "leaving"}
  /\ queue # <<>>
  /\ queue' = Tail(queue)
  /\ LET f == Head(queue)[1]
         says == Head(queue)[2] IN
       CASE f # cur -> UNCHANGED <<pc, props, terminal, removed, blind>>
         [] f = cur /\ says = "removed" ->
              removed' = TRUE /\ pc' = "leaving" /\ UNCHANGED <<props, terminal, blind>>
         [] OTHER -> props' = says /\ Report(says) /\ UNCHANGED removed
  /\ UNCHANGED <<cur, timedOut, told, transfer, palm, obexd, stored>>

TimedOut ==
  /\ Armed /\ ~timedOut
  /\ timedOut' = TRUE
  /\ pc' = "leaving"
  /\ UNCHANGED <<cur, props, terminal, removed, queue, told, transfer, palm, obexd, stored, blind>>

(* After the loop: the next file, or an error and, if time ran out, Cancel. *)
Conclude ==
  /\ pc \in {"leaving", "ended"}
  /\ IF terminal = "none" /\ timedOut
     THEN pc' = "cancel" /\ UNCHANGED <<told, cur>>
     ELSE /\ told' = [told EXCEPT ![cur] = Conclusion]
          /\ IF Conclusion = "installed" /\ cur < Files
             THEN pc' = "send" /\ cur' = cur + 1
             ELSE pc' = "close" /\ UNCHANGED cur
  /\ UNCHANGED <<state, queue, transfer, palm, obexd, stored, blind>>

(* An exception of Cancel is dropped.                                      *)
Cancel ==
  /\ pc = "cancel"
  /\ told' = [told EXCEPT ![cur] = "failed"]
  /\ pc' = "close"
  /\ transfer' = [transfer EXCEPT ![cur] =
                    IF obexd /\ @ \in {"queued", "active"} THEN "error" ELSE @]
  /\ UNCHANGED <<cur, state, queue, palm, obexd, stored, blind>>

(* main's finally: RemoveSession, whose failure is only a warning.         *)
Close ==
  /\ pc = "close"
  /\ pc' = "done"
  /\ transfer' \in {transfer, [f \in File |-> "gone"]}
  /\ UNCHANGED <<cur, state, queue, told, palm, obexd, stored, blind>>

-----------------------------------------------------------------------------
Emit(f, says) == queue' = IF Listening THEN Append(queue, <<f, says>>) ELSE queue

(* obexd: a transfer starts, ends one way or the other, and its object is  *)
(* removed, at once (Drop) without a final status.                         *)
Turn(f, from, to) ==
  /\ obexd
  /\ transfer[f] \in from
  /\ transfer' = [transfer EXCEPT ![f] = to]
  /\ UNCHANGED <<cur, pc, state, told, obexd, stored, blind>>

Active(f)   == Turn(f, {"queued"}, "active") /\ Emit(f, "active") /\ UNCHANGED palm
Complete(f) == Turn(f, {"active"}, "complete") /\ Emit(f, "complete") /\ palm' = palm \cup {f}
Error(f)    == Turn(f, {"queued", "active"}, "error") /\ Emit(f, "error") /\ UNCHANGED palm
Remove(f)   == Turn(f, Ended, "gone") /\ Emit(f, "removed") /\ UNCHANGED palm
Drop(f)     == Turn(f, {"queued", "active"}, "gone") /\ Emit(f, "removed") /\ UNCHANGED palm

ObexDie ==
  /\ obexd
  /\ obexd' = FALSE
  /\ UNCHANGED <<cur, pc, state, queue, told, transfer, palm, stored, blind>>

(* The upload is deleted, or saved again, behind the sender's back: the    *)
(* page lets the user do both while a job sends the file.  Also how the    *)
(* next file is found when its turn comes.                                 *)
StoreEdit ==
  /\ pc # "done"
  /\ stored' = ~stored
  /\ UNCHANGED <<cur, pc, state, queue, told, transfer, palm, obexd, blind>>

Sender ==
  \/ SendFile \/ SendFileFails \/ SendFileUnanswered \/ GetAll \/ Dispatch
  \/ TimedOut \/ Conclude \/ Cancel \/ Close

ObexNext(f) == Active(f) \/ Complete(f) \/ Error(f) \/ Remove(f) \/ Drop(f)

Next == Sender \/ ObexDie \/ StoreEdit \/ \E f \in File : ObexNext(f)

Spec == Init /\ [][Next]_vars

(* The sender runs on; while it lives, obexd brings a transfer to its end  *)
(* (the link supervision timeout ends one the Palm has left).              *)
FairSpec == Spec /\ WF_vars(Sender) /\ \A f \in File : WF_vars(ObexNext(f))

-----------------------------------------------------------------------------
(* Type correctness of the sender, the signals and the transfers.          *)
TypeOK ==
  /\ cur \in File
  /\ pc \in {"send", "getall", "loop", "leaving", "ended", "cancel", "close", "done"}
  /\ props \in {"none"} \cup Statuses
  /\ terminal \in {"none"} \cup Ended
  /\ removed \in BOOLEAN /\ timedOut \in BOOLEAN
  /\ queue \in Seq(File \X (Statuses \cup {"removed"}))
  /\ told \in [File -> {"nothing", "installed", "failed"}]
  /\ transfer \in [File -> {"none", "gone"} \cup Statuses]
  /\ palm \subseteq File
  /\ obexd \in BOOLEAN /\ stored \in BOOLEAN /\ blind \in BOOLEAN

(* "Installed/received" is said only of a file the Palm has, whatever      *)
(* signals of earlier transfers are still queued.                          *)
SuccessIsReal == \A f \in File : told[f] = "installed" => f \in palm

(* A file the Palm has is called failed only if it is the last one, and    *)
(* for one of three reasons: the timer elapsed, the 60 s of SendFile did,  *)
(* or report() had no file to measure.  Not for the order of signals, an   *)
(* object that is gone, or one kind of status taken for another.           *)
MissedOnlyBlind ==
  \A f \in File : told[f] = "failed" /\ f \in palm => f = cur /\ (timedOut \/ blind)

(* The sender comes to an end: no wake-up is lost in the blocking calls.   *)
Terminates == <>(pc = "done")
=============================================================================
