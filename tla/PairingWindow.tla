---------------------------- MODULE PairingWindow ----------------------------
(***************************************************************************)
(* The pairing window: palm-lap-pair open and close, the transient systemd *)
(* timer that runs the close, the state file the daemon's agent reads, and *)
(* the adapter flags kept by BlueZ.                                        *)
(*                                                                         *)
(* palm-lap-pair runs as a process per command: nothing stops an admin's   *)
(* shell, the web helper and the close timer from running it at once.      *)
(* One tick of the clock is DURATION / D seconds.                          *)
(***************************************************************************)
EXTENDS Integers

CONSTANTS
  Admin,         \* processes of administrators that run palm-lap-pair
  Timer,         \* the process of palm-lap-pairing-close.service
  D,             \* DURATION, in ticks
  MaxOpens,      \* bound on the number of "open" commands
  Mixed,         \* PIN of a text over a longer one, whose tail stays
  None

ASSUME DurationAssumption == D \in Nat \ {0} /\ MaxOpens \in Nat
ASSUME ProcAssumption == Timer \notin Admin

VARIABLES
  file,     \* pairing.json: its PIN (named by its writer) and time to expiry
  tmp,      \* pairing.tmp, the one temporary name all writers share
  inode,    \* where the file each writer has open is: tmp, file, or gone
  adapter,  \* BlueZ's flags, timeouts and running countdowns
  timer,    \* time left on palm-lap-pairing-close.timer, or None
  daemon,   \* where palm-lapd is in its start
  pc,       \* where each palm-lap-pair process is
  opens,    \* "open" commands so far
  calm      \* history: nothing has overlapped, failed or stalled yet

vars == <<file, tmp, inode, adapter, timer, daemon, pc, opens, calm>>

Proc    == Admin \cup {Timer}
Content == [pin : Admin \cup {None, Mixed}, left : 0..D]  \* pin None: not yet written
Adapter == [pairable : BOOLEAN, discoverable : BOOLEAN, connectable : BOOLEAN,
            timeout : {0, D}, pairLeft : 0..D, discLeft : 0..D]

ASSUME NoneAssumption ==
  /\ None \notin Admin \cup {Timer, Mixed} \cup 0..D \cup Content
  /\ Mixed \notin Admin

(* A process is named by the step it takes next.                           *)
OpenStep  == {"truncate", "write", "publish", "compat", "arm", "pair",
              "discover", "startTimer", "opened", "stalled"}
CloseStep == {"hide", "unpair", "unlink", "connect", "stopTimer"}
Phase     == {"down", "check", "hide", "unpair", "connect", "up"}

Idle(p) == pc[p] = "idle"
AllIdle == \A p \in Proc : Idle(p)

(* At most one command, or one start of the daemon, is under way, and none *)
(* waits for a stalled btmgmt.                                             *)
Orderly ==
  /\ \A p, q \in Proc : ~Idle(p) /\ ~Idle(q) => p = q
  /\ AllIdle \/ daemon \in {"up", "down"}
  /\ \A p \in Proc : pc[p] # "stalled"

-----------------------------------------------------------------------------
(* Variants named ...Bug or ...Long are slips at the lines of the definition *)
(* that follows them; no specification uses them.                          *)

(* BlueZ, as palm-lap-pair and palm-lapd use it.                           *)

(* "BlueZ disables page scanning when both flags are cleared."             *)
DropScan(old, new) ==
  IF ~new.pairable /\ ~new.discoverable /\ (old.pairable \/ old.discoverable)
  THEN [new EXCEPT !.connectable = FALSE] ELSE new

(* Setting a flag starts the countdown of its timeout, 0 meaning for ever. *)
SetPairable(a, v) ==
  DropScan(a, [a EXCEPT !.pairable = v, !.pairLeft = IF v THEN a.timeout ELSE 0])
SetDiscoverable(a, v) ==
  DropScan(a, [a EXCEPT !.discoverable = v, !.discLeft = IF v THEN a.timeout ELSE 0,
                        !.connectable = @ \/ v])
SetConnectable(a) == [a EXCEPT !.connectable = TRUE]

(* Setting the timeouts restarts the countdowns of flags that are set.     *)
ArmBug(a) == a
Arm(a) ==
  [a EXCEPT !.timeout = D,
            !.pairLeft = IF a.pairable THEN D ELSE 0,
            !.discLeft = IF a.discoverable THEN D ELSE 0]

(* A tick: a countdown that reaches its end clears its flag.               *)
Elapse(a) ==
  LET p == IF a.pairLeft = 0 THEN 0 ELSE a.pairLeft - 1
      d == IF a.discLeft = 0 THEN 0 ELSE a.discLeft - 1 IN
    DropScan(a, [a EXCEPT !.pairLeft = p, !.discLeft = d,
                          !.pairable = @ /\ (a.pairLeft # 1),
                          !.discoverable = @ /\ (a.discLeft # 1)])

(* pairing_state() returns a state: a whole file that has not expired.     *)
LiveWindowBug == file # None /\ file.pin \in Admin
LiveWindow == file # None /\ file.pin \in Admin /\ file.left > 0

-----------------------------------------------------------------------------
Init ==
  /\ file = None /\ tmp = None
  /\ inode = [p \in Admin |-> "gone"]
  /\ adapter = [pairable |-> FALSE, discoverable |-> FALSE, connectable |-> TRUE,
                timeout |-> 0, pairLeft |-> 0, discLeft |-> 0]
  /\ timer = None
  /\ daemon = "up"
  /\ pc = [p \in Proc |-> "idle"]
  /\ opens = 0
  /\ calm = TRUE

(* Every action ends with the record of whether it kept to the order; a    *)
(* command that fails is idle again, and not calm.                         *)
Recorded == calm' = (calm /\ Orderly' /\ (daemon' = daemon \/ AllIdle))

(* p takes the step named here and goes on to the next one.                *)
Goto(p, here, next) == pc[p] = here /\ pc' = [pc EXCEPT ![p] = next]
Run(p, first)       == Idle(p) /\ pc' = [pc EXCEPT ![p] = first]

OpenCommand(p) ==
  /\ opens < MaxOpens
  /\ Run(p, "truncate")
  /\ opens' = opens + 1
  /\ UNCHANGED <<file, tmp, inode, adapter, timer, daemon>> /\ Recorded

CloseCommand(p) ==
  /\ Run(p, "hide")
  /\ UNCHANGED <<file, tmp, inode, adapter, timer, daemon, opens>> /\ Recorded

(* temporary.write_text: the file is created, or truncated in place when   *)
(* another writer's is there ...                                           *)
Truncate(p) ==
  /\ Goto(p, "truncate", "write")
  /\ tmp' = [pin |-> None, left |-> D]
  /\ inode' = [inode EXCEPT ![p] = "tmp"]
  /\ UNCHANGED <<file, adapter, timer, daemon, opens>> /\ Recorded

(* ... then written from its start, under whatever name it has by then and *)
(* over whatever another command has written there since, and closed.      *)
Over(old, p) ==
  {[pin |-> x, left |-> D] : x \in IF old.pin = None THEN {p} ELSE {p, Mixed}}
Write(p) ==
  /\ Goto(p, "write", "publish")
  /\ IF inode[p] = "tmp"  THEN tmp' \in Over(tmp, p) ELSE UNCHANGED tmp
  /\ IF inode[p] = "file" THEN file' \in Over(file, p) ELSE UNCHANGED file
  /\ inode' = [inode EXCEPT ![p] = "gone"]
  /\ UNCHANGED <<adapter, timer, daemon, opens>> /\ Recorded

(* The file at old is no longer reachable; the one at tmp is the file now. *)
Renamed == [q \in Admin |-> IF inode[q] = "tmp" THEN "file" ELSE "gone"]
Removed == [q \in Admin |-> IF inode[q] = "file" THEN "gone" ELSE inode[q]]

(* os.chmod and temporary.replace; both fail when the name is gone.        *)
Publish(p) ==
  /\ tmp # None
  /\ Goto(p, "publish", "compat")
  /\ file' = tmp /\ tmp' = None /\ inode' = Renamed
  /\ UNCHANGED <<adapter, timer, daemon, opens>> /\ Recorded

PublishFails(p) ==
  /\ tmp = None
  /\ Goto(p, "publish", "idle")
  /\ calm' = FALSE
  /\ UNCHANGED <<file, tmp, inode, adapter, timer, daemon, opens>>

(* The two btmgmt commands, run with check=True and no timeout: one that   *)
(* stalls is waited for for ever.                                          *)
Compat(p) ==
  /\ UNCHANGED <<file, tmp, inode, adapter, timer, daemon, opens>>
  /\ \/ \E next \in {"arm", "stalled"} : Goto(p, "compat", next) /\ Recorded
     \/ Goto(p, "compat", "idle") /\ calm' = FALSE

(* PairableTimeout and DiscoverableTimeout.                                *)
ArmTimeouts(p) ==
  /\ Goto(p, "arm", "pair")
  /\ adapter' = Arm(adapter)
  /\ UNCHANGED <<file, tmp, inode, timer, daemon, opens>> /\ Recorded

MakePairable(p) ==
  /\ Goto(p, "pair", "discover")
  /\ adapter' = SetPairable(adapter, TRUE)
  /\ UNCHANGED <<file, tmp, inode, timer, daemon, opens>> /\ Recorded

MakeDiscoverable(p) ==
  /\ Goto(p, "discover", "startTimer")
  /\ adapter' = SetDiscoverable(adapter, TRUE)
  /\ UNCHANGED <<file, tmp, inode, timer, daemon, opens>> /\ Recorded

(* systemctl restart palm-lap-pairing-close.timer                          *)
RestartTimerBug  == timer
RestartTimerLong == D + 1
RestartTimer     == D
StartTimer(p) ==
  /\ Goto(p, "startTimer", "opened")
  /\ timer' = RestartTimer
  /\ UNCHANGED <<file, tmp, inode, adapter, daemon, opens>> /\ Recorded

(* "Palm LAP pairing is open": the command has reported and ends.          *)
Report(p) ==
  /\ Goto(p, "opened", "idle")
  /\ UNCHANGED <<file, tmp, inode, adapter, timer, daemon, opens>> /\ Recorded

(* close_window, in its order, then the stop of the timer.                 *)
Hide(p) ==
  /\ Goto(p, "hide", "unpair")
  /\ adapter' = SetDiscoverable(adapter, FALSE)
  /\ UNCHANGED <<file, tmp, inode, timer, daemon, opens>> /\ Recorded

Unpair(p) ==
  /\ Goto(p, "unpair", "unlink")
  /\ adapter' = SetPairable(adapter, FALSE)
  /\ UNCHANGED <<file, tmp, inode, timer, daemon, opens>> /\ Recorded

UnlinkedBug == file
Unlinked    == None
Unlink(p) ==
  /\ Goto(p, "unlink", "connect")
  /\ file' = Unlinked /\ inode' = Removed
  /\ UNCHANGED <<tmp, adapter, timer, daemon, opens>> /\ Recorded

ReconnectBug(a) == a
Reconnect(a)    == SetConnectable(a)
Connect(p) ==
  /\ Goto(p, "connect", "stopTimer")
  /\ adapter' = Reconnect(adapter)
  /\ UNCHANGED <<file, tmp, inode, timer, daemon, opens>> /\ Recorded

StopTimer(p) ==
  /\ Goto(p, "stopTimer", "idle")
  /\ timer' = None
  /\ UNCHANGED <<file, tmp, inode, adapter, daemon, opens>> /\ Recorded

(* A Set that BlueZ refuses or does not answer, or a restart of the timer  *)
(* that fails (check=True), ends the command there.                        *)
Raises(p) ==
  /\ \E here \in {"arm", "pair", "discover", "startTimer", "hide", "unpair", "connect"} :
       Goto(p, here, "idle")
  /\ calm' = FALSE
  /\ UNCHANGED <<file, tmp, inode, adapter, timer, daemon, opens>>

(* The timer elapsed: systemd runs "palm-lap-pair close".                  *)
TimerFires ==
  /\ timer = 0
  /\ Run(Timer, "hide")
  /\ timer' = None
  /\ UNCHANGED <<file, tmp, inode, adapter, daemon, opens>> /\ Recorded

(* systemd stops the daemon, and removes its RuntimeDirectory with it.     *)
DaemonStop ==
  /\ daemon = "up"
  /\ daemon' = "down"
  /\ file' = None /\ tmp' = None
  /\ inode' = [p \in Admin |-> "gone"]
  /\ UNCHANGED <<adapter, timer, pc, opens>> /\ Recorded

(* main registers the agent: BlueZ may make the adapter pairable, without  *)
(* a timeout of its own.                                                   *)
Register ==
  /\ daemon = "down"
  /\ daemon' = "check"
  /\ \E v \in {adapter.pairable, TRUE} : adapter' = [adapter EXCEPT !.pairable = v]
  /\ UNCHANGED <<file, tmp, inode, timer, pc, opens>> /\ Recorded

(* enforce_closed_pairing: nothing to do when the window is live ...       *)
Check ==
  /\ daemon = "check"
  /\ daemon' = IF LiveWindow THEN "up" ELSE "hide"
  /\ UNCHANGED <<file, tmp, inode, adapter, timer, pc, opens>> /\ Recorded

(* ... otherwise the three properties are set, one call each.              *)
Enforce ==
  /\ \/ /\ daemon = "hide" /\ daemon' = "unpair"
        /\ adapter' = SetDiscoverable(adapter, FALSE)
     \/ /\ daemon = "unpair" /\ daemon' = "connect"
        /\ adapter' = SetPairable(adapter, FALSE)
     \/ /\ daemon = "connect" /\ daemon' = "up"
        /\ adapter' = SetConnectable(adapter)
  /\ UNCHANGED <<file, tmp, inode, timer, pc, opens>> /\ Recorded

Aged(f) == IF f = None THEN None ELSE [f EXCEPT !.left = IF @ = 0 THEN 0 ELSE @ - 1]

Tick ==
  /\ file' = Aged(file) /\ tmp' = Aged(tmp)
  /\ adapter' = Elapse(adapter)
  /\ timer' = IF timer \in {None, 0} THEN timer ELSE timer - 1
  /\ UNCHANGED <<inode, daemon, pc, opens>> /\ Recorded

OpenNext(p) ==
  \/ Truncate(p) \/ Write(p) \/ Publish(p) \/ PublishFails(p) \/ ArmTimeouts(p)
  \/ Compat(p) \/ MakePairable(p) \/ MakeDiscoverable(p) \/ StartTimer(p) \/ Report(p)

CloseNext(p) == Hide(p) \/ Unpair(p) \/ Unlink(p) \/ Connect(p) \/ StopTimer(p)

DaemonNext == Register \/ Check \/ Enforce

Next ==
  \/ \E p \in Admin : OpenCommand(p) \/ CloseCommand(p) \/ OpenNext(p)
  \/ \E p \in Proc : CloseNext(p) \/ Raises(p)
  \/ TimerFires \/ DaemonStop \/ DaemonNext \/ Tick

Spec == Init /\ [][Next]_vars

(* Commands run on, systemd starts what it has to start, time passes.      *)
Fairness ==
  /\ \A p \in Admin : WF_vars(OpenNext(p) \/ CloseNext(p))
  /\ WF_vars(CloseNext(Timer))
  /\ SF_vars(TimerFires) /\ WF_vars(DaemonNext) /\ WF_vars(Tick)

FairSpec == Spec /\ Fairness

-----------------------------------------------------------------------------
(* Type correctness of the files, the adapter, the timer and the commands. *)
TypeOK ==
  /\ file \in Content \cup {None} /\ tmp \in Content \cup {None}
  /\ inode \in [Admin -> {"tmp", "file", "gone"}]
  /\ adapter \in Adapter
  /\ timer \in 0..D \cup {None}
  /\ daemon \in Phase
  /\ pc \in [Proc -> OpenStep \cup CloseStep \cup {"idle"}]
  /\ pc[Timer] \notin OpenStep
  /\ opens \in 0..MaxOpens
  /\ calm \in BOOLEAN

(* The adapter is discoverable only under a running countdown, however     *)
(* commands, the timer and the daemon interleave and whichever fails.      *)
DiscoveryTimed == adapter.discoverable => adapter.discLeft > 0

Quiet == AllIdle /\ daemon \in {"up", "down"} /\ timer = None

(* "Keep the controller closed unless palm-lap-pair opened a live window":  *)
(* nobody is at work, no window is live and no countdown runs, so the      *)
(* adapter is not pairable.                                                *)
ClosedUnlessLive ==
  Quiet /\ daemon = "up" /\ adapter.pairable => LiveWindow \/ adapter.pairLeft > 0

(* Once a window is closed, by whichever of the flags' own timeouts, the   *)
(* timer, a command or a daemon start, bonded Palms can still connect, if  *)
(* nothing overlapped or failed ("Keep the controller connectable").       *)
IdleConnectable ==
  calm /\ Quiet /\ ~adapter.pairable /\ ~adapter.discoverable => adapter.connectable

(* When "open" reports success, and nothing overlapped or failed, the agent *)
(* hands out that command's PIN, the close timer runs, and the flags are   *)
(* set for as long as the PIN is live.                                     *)
OpenDelivers ==
  \A p \in Admin : calm /\ pc[p] = "opened" =>
    /\ file # None /\ file.pin = p
    /\ timer # None
    /\ LiveWindow => adapter.pairable /\ adapter.discoverable

Closed == /\ file = None
          /\ ~adapter.pairable /\ ~adapter.discoverable /\ adapter.connectable

(* With finitely many opens, and nothing overlapping or failing, the system *)
(* comes back to the closed state: flags, PIN and page scan.  (What is not *)
(* calm stays so.)                                                         *)
WindowEnds == []<>(calm => Closed)

(* With finitely many opens, discovery and the PIN end for good, even if   *)
(* btmgmt or BlueZ fails, btmgmt never returns and commands overlap.       *)
ExposureEnds == <>[](~adapter.discoverable /\ ~LiveWindow)
=============================================================================
