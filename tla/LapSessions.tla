----------------------------- MODULE LapSessions -----------------------------
(***************************************************************************)
(* The PPP session manager of palm-lapd: the Profile1 object, its table of *)
(* pppd children, and the life of the daemon under systemd.                *)
(*                                                                         *)
(* The daemon is one Python thread, but a signal handler may run between   *)
(* any two bytecodes of a D-Bus callback.  pc therefore names the points   *)
(* of the callbacks between which the table and the children disagree.     *)
(* D-Bus calls are dispatched by the GLib main loop only, one at a time.   *)
(***************************************************************************)
EXTENDS Integers

CONSTANTS
  Device,   \* Bluetooth devices (a BlueZ device path names exactly one MAC)
  Pid,      \* Popen objects that may exist at once; bounds the model
  Ip,       \* IPv4 addresses, as integers, that may be written to config.json
  Subnet,   \* the addresses of the configured subnet
  LocalIp,  \* the gateway's own PPP address
  None      \* no entry

ASSUME IpAssumption   == Ip \subseteq Nat /\ Subnet \subseteq Ip
ASSUME NoneAssumption == None \notin Device \cup Pid \cup Ip

VARIABLES
  disk,         \* "devices" of /etc/palm-lap/config.json: Device -> address or None
  config,       \* the daemon's copy, loaded once by main
  connections,  \* PalmProfile.connections: Device -> Popen object or None
  proc,         \* life of each pppd child
  sess,         \* the device and peer address each pppd was started with
  pc,           \* where the daemon's main thread is
  cur,          \* the Popen object held by the callback in progress, or None
  quit          \* loop.quit() was called and not forgotten by loop.run()

vars == <<disk, config, connections, proc, sess, pc, cur, quit>>

(* "free": no object.  "running": alive and not told to stop.  "signalled":  *)
(* alive after killpg(SIGTERM).  "zombie": exited, status not collected.     *)
(* "done": poll() has collected the status of an object still in the table.  *)
ProcState == {"free", "running", "signalled", "zombie", "done"}

(* "off": not started, or killed.  "start": registering, default signal      *)
(* actions.  "armed": handlers installed, loop.run() not entered.  "loop":   *)
(* in the main loop.  "spawned": NewConnection after Popen, before the table *)
(* is updated.  "popped": _stop after the pop, before the kill.  "final":    *)
(* loop.run() returned.  "exited": main returned.                            *)
Control == {"off", "start", "armed", "loop", "spawned", "popped", "final", "exited"}

Table     == [Device -> Ip \cup {None}]
NoSession == [dev |-> None, ip |-> None]
Session   == [dev : Device, ip : Ip] \cup {NoSession}

Running(p)   == proc[p] = "running"
Alive(p)     == proc[p] \in {"running", "signalled"}
Collected(p) == proc[p] \in {"zombie", "done"}
Tracked(p)   == \E d \in Device : connections[d] = p
DaemonUp     == pc \notin {"off", "exited"}

-----------------------------------------------------------------------------
(* The checks of the code, one operator each; the variants named ...Bug are *)
(* what a slip at the same lines would do, and no specification uses them.  *)

(* The suffix of the interface name: plap<last octet of the peer address>. *)
InterfaceBug(ip) == ip \div 256
Interface(ip)    == ip % 256

(* load_config accepts a device table: each peer address is inside the     *)
(* subnet, is not the gateway's own, and is used once.                     *)
ValidConfig(c) ==
  \A d \in Device : c[d] # None =>
    /\ c[d] \in Subnet \ {LocalIp}
    /\ \A e \in Device \ {d} : c[e] # c[d]

(* details = self.config["devices"].get(mac), read from the daemon's copy. *)
AllowlistedBug(d) == disk[d] # None
Allowlisted(d)    == config[d] # None

(* path in self.connections and self.connections[path].poll() is None      *)
ActiveSession(d) == connections[d] # None /\ Alive(connections[d])

(* Popen first runs subprocess._cleanup, which collects the exited children *)
(* whose objects nobody refers to; the poll of line 242 has collected the   *)
(* exited child the table still has for d.                                  *)
AfterCleanup(d) ==
  [p \in Pid |->
     IF proc[p] = "zombie" /\ p = connections[d] THEN "done"
     ELSE IF proc[p] = "zombie" /\ ~Tracked(p)   THEN "free"
     ELSE proc[p]]

(* stop_all: every entry is popped and its child polled; a live child gets *)
(* SIGTERM, an exited one is collected and its object dropped.             *)
AfterStopAll ==
  [p \in Pid |->
     IF ~Tracked(p) THEN proc[p]
     ELSE IF Running(p) THEN "signalled"
     ELSE IF Collected(p) THEN "free"
     ELSE proc[p]]

EmptyTable == [d \in Device |-> None]

(* What _reap_children forgets: poll() has returned a status.              *)
ExitedChildrenBug == {p \in Pid : Tracked(p) /\ proc[p] = "done"}
ExitedChildren    == {p \in Pid : Tracked(p) /\ Collected(p)}

-----------------------------------------------------------------------------
Init ==
  /\ disk \in Table
  /\ config = EmptyTable
  /\ connections = EmptyTable
  /\ proc = [p \in Pid |-> "free"]
  /\ sess = [p \in Pid |-> NoSession]
  /\ pc = "off"
  /\ cur = None
  /\ quit = FALSE

(* palm-lap-device, or an administrator, puts another file in its place.   *)
EditConfig(table) ==
  /\ disk' = table
  /\ UNCHANGED <<config, connections, proc, sess, pc, cur, quit>>

(* systemd starts the daemon, once the last process of the unit's control  *)
(* group is gone; main returns 2 unless load_config accepts the file.      *)
GroupGoneBug == TRUE
GroupGone    == \A p \in Pid : ~Alive(p)
Start ==
  /\ pc \in {"off", "exited"}
  /\ GroupGone
  /\ ValidConfig(disk)
  /\ config' = disk
  /\ connections' = EmptyTable
  /\ pc' = "start"
  /\ quit' = FALSE
  /\ UNCHANGED <<disk, proc, sess, cur>>

(* The agent and the profile are registered; signal.signal ran twice.      *)
InstallHandlers ==
  /\ pc = "start"
  /\ pc' = "armed"
  /\ UNCHANGED <<disk, config, connections, proc, sess, cur, quit>>

(* loop.run() marks the loop running: a quit() made before it is lost.     *)
EnterLoop ==
  /\ pc = "armed"
  /\ pc' = "loop"
  /\ quit' = FALSE
  /\ UNCHANGED <<disk, config, connections, proc, sess, cur>>

(* NewConnection up to the return of Popen.  p is a fresh object.          *)
NewConnection(d, p) ==
  /\ pc = "loop"
  /\ Allowlisted(d)
  /\ ~ActiveSession(d)
  /\ AfterCleanup(d)[p] = "free"
  /\ proc' = [AfterCleanup(d) EXCEPT ![p] = "running"]
  /\ sess' = [sess EXCEPT ![p] = [dev |-> d, ip |-> config[d]]]
  /\ pc' = "spawned"
  /\ cur' = p
  /\ UNCHANGED <<disk, config, connections, quit>>

(* Popen raised: the poll and the cleanup are all that remains of the call. *)
NewConnectionFails(d) ==
  /\ pc = "loop"
  /\ Allowlisted(d)
  /\ ~ActiveSession(d)
  /\ proc' = AfterCleanup(d)
  /\ UNCHANGED <<disk, config, connections, sess, pc, cur, quit>>

(* self.connections[path] = process; an object it replaces is dropped.     *)
Record ==
  /\ pc = "spawned"
  /\ LET d == sess[cur].dev IN
       /\ connections' = [connections EXCEPT ![d] = cur]
       /\ proc' = [p \in Pid |-> IF p = connections[d] /\ proc[p] = "done"
                                 THEN "free" ELSE proc[p]]
  /\ pc' = "loop"
  /\ cur' = None
  /\ UNCHANGED <<disk, config, sess, quit>>

(* RequestDisconnection: _stop pops the entry ...                          *)
RequestDisconnection(d) ==
  /\ pc = "loop"
  /\ connections[d] # None
  /\ connections' = [connections EXCEPT ![d] = None]
  /\ cur' = connections[d]
  /\ pc' = "popped"
  /\ UNCHANGED <<disk, config, proc, sess, quit>>

(* ... then polls the child: SIGTERM to its group if it lives, otherwise   *)
(* its status is collected and the object dropped.                         *)
StopCurrent(waits) ==
  /\ pc = "popped"
  /\ waits => ~Alive(cur)
  /\ proc' = [proc EXCEPT ![cur] = IF Alive(cur) THEN "signalled" ELSE "free"]
  /\ cur' = None
  /\ pc' = "loop"
  /\ UNCHANGED <<disk, config, connections, sess, quit>>

KillBug == StopCurrent(TRUE)
Kill    == StopCurrent(FALSE)

(* SIGTERM or SIGINT once the handlers are installed: shutdown() runs on   *)
(* the main thread wherever it is, and the interrupted code goes on.       *)
Signal ==
  /\ pc \in {"armed", "loop", "spawned", "popped", "final"}
  /\ connections' = EmptyTable
  /\ proc' = AfterStopAll
  /\ quit' = TRUE
  /\ UNCHANGED <<disk, config, sess, pc, cur>>

(* BlueZ releases the profile: the same calls, from a D-Bus callback.      *)
Release ==
  /\ pc = "loop"
  /\ connections' = EmptyTable
  /\ proc' = AfterStopAll
  /\ quit' = TRUE
  /\ UNCHANGED <<disk, config, sess, pc, cur>>

(* _reap_children, every two seconds of the main loop.                     *)
Reap ==
  /\ pc = "loop"
  /\ ExitedChildren # {}
  /\ connections' = [d \in Device |-> IF connections[d] \in ExitedChildren
                                      THEN None ELSE connections[d]]
  /\ proc' = [p \in Pid |-> IF p \in ExitedChildren THEN "free" ELSE proc[p]]
  /\ UNCHANGED <<disk, config, sess, pc, cur, quit>>

(* loop.run() returns once quit() was called.                              *)
LoopReturn ==
  /\ pc = "loop"
  /\ quit
  /\ pc' = "final"
  /\ UNCHANGED <<disk, config, connections, proc, sess, cur, quit>>

(* The finally clause of main, then the end of the process: init adopts    *)
(* the children and collects those that exited.                            *)
ExitWith(table, state) ==
  /\ pc = "final"
  /\ connections' = table
  /\ proc' = [p \in Pid |-> IF state[p] \in {"zombie", "done"} THEN "free" ELSE state[p]]
  /\ pc' = "exited"
  /\ UNCHANGED <<disk, config, sess, cur, quit>>

FinallyBug == ExitWith(EmptyTable, proc)
Finally    == ExitWith(EmptyTable, AfterStopAll)

(* The daemon dies without running any handler: SIGKILL, or SIGTERM while  *)
(* it is still registering.  Its memory is gone, its children are orphans. *)
Crash ==
  /\ DaemonUp
  /\ pc' = "off"
  /\ connections' = EmptyTable
  /\ cur' = None
  /\ proc' = [p \in Pid |-> IF Collected(p) THEN "free" ELSE proc[p]]
  /\ UNCHANGED <<disk, config, sess, quit>>

(* A pppd exits: the Palm hung up, LCP gave up, or it was told to stop.    *)
PppdExit(p) ==
  /\ Alive(p)
  /\ proc' = [proc EXCEPT ![p] = IF DaemonUp THEN "zombie" ELSE "free"]
  /\ UNCHANGED <<disk, config, connections, sess, pc, cur, quit>>

Next ==
  \/ \E table \in Table : EditConfig(table)
  \/ Start
  \/ InstallHandlers
  \/ EnterLoop
  \/ \E d \in Device, p \in Pid : NewConnection(d, p)
  \/ \E d \in Device : NewConnectionFails(d)
  \/ Record
  \/ \E d \in Device : RequestDisconnection(d)
  \/ Kill
  \/ Signal
  \/ Release
  \/ Reap
  \/ LoopReturn
  \/ Finally
  \/ Crash
  \/ \E p \in Pid : PppdExit(p)

Spec == Init /\ [][Next]_vars

(* The main thread keeps running straight-line code; the main loop reaches *)
(* its end of iteration and its timer again and again whatever else it     *)
(* dispatches, which is strong fairness; pppd obeys SIGTERM.  Nothing is   *)
(* assumed of BlueZ, systemd, the administrator or a pppd left alone.      *)
Fairness ==
  /\ WF_vars(InstallHandlers) /\ WF_vars(EnterLoop)
  /\ WF_vars(Record) /\ WF_vars(Kill) /\ WF_vars(Finally)
  /\ SF_vars(LoopReturn) /\ SF_vars(Reap)
  /\ \A p \in Pid : WF_vars(proc[p] = "signalled" /\ PppdExit(p))

FairSpec == Spec /\ Fairness

-----------------------------------------------------------------------------
(* Type correctness of the daemon, its children and the file.              *)
TypeOK ==
  /\ disk \in Table
  /\ config \in Table
  /\ connections \in [Device -> Pid \cup {None}]
  /\ proc \in [Pid -> ProcState]
  /\ sess \in [Pid -> Session]
  /\ pc \in Control
  /\ cur \in Pid \cup {None}
  /\ quit \in BOOLEAN

(* The daemon can stop every pppd that was not told to stop: the child is  *)
(* in PalmProfile.connections, or a callback in progress holds it.  And    *)
(* main returns only after every pppd it started has exited or was sent    *)
(* SIGTERM, wherever the signal struck NewConnection or _stop.             *)
NoStrayPppd ==
  \A p \in Pid : Running(p) => pc = "off" \/ (DaemonUp /\ (Tracked(p) \/ p = cur))

(* NewConnection never gives a device a second pppd while the first one    *)
(* was not told to stop.                                                   *)
OneSessionPerDevice ==
  \A p, q \in Pid : Running(p) /\ Running(q) /\ sess[p].dev = sess[q].dev => p = q

(* Every live pppd serves a device of the daemon's allowlist, at the       *)
(* address the allowlist gives it, across edits of the file and restarts.  *)
SessionsMatchConfig ==
  \A p \in Pid : Alive(p) => LET d == sess[p].dev IN
    d \in Device /\ config[d] # None /\ sess[p].ip = config[d]

(* When two live pppd use one interface name, one that was told to stop    *)
(* included, they are either the old and the new child of one device, the  *)
(* old one told to stop, or the children of two devices whose addresses,   *)
(* which differ, end in one octet: a subnet wider than a /24 has such      *)
(* addresses, and load_config accepts it.  No edit of the file, restart or *)
(* signal brings two sessions onto one interface in another way.           *)
SessionsDistinct ==
  \A p, q \in Pid :
    LET d == sess[p].dev
        e == sess[q].dev IN
    p # q /\ Alive(p) /\ Alive(q) /\ Interface(sess[p].ip) = Interface(sess[q].ip) =>
      \/ d = e /\ ~(Running(p) /\ Running(q))
      \/ d # e /\ config[d] # config[e] /\ config[d] % 256 = config[e] % 256

(* A shutdown asked of a daemon past loop.run()'s entry is carried out:    *)
(* main returns, or the process is killed.  One asked before is forgotten, *)
(* as GLib forgets a quit() of a loop that does not run yet.               *)
ShutdownCompletes == (quit /\ pc # "armed") ~> ~DaemonUp

(* The table does not keep a child that exited.                            *)
ExitedForgotten ==
  \A p \in Pid : (Tracked(p) /\ Collected(p)) ~> ~(Tracked(p) /\ Collected(p))
=============================================================================
