----------------------------- MODULE LapGateway ------------------------------
(***************************************************************************)
(* palm-lap-device and palm-lapd together: the commands of LapDevice and   *)
(* the daemon of LapSessions share config.json, and systemd stands between *)
(* them, with `systemctl restart` in the steps LapDevice takes at once:    *)
(* the daemon is told to stop or dies, its pppd children leave the control *)
(* group, the file is checked, the command returns, main loads the file.   *)
(***************************************************************************)
EXTENDS Integers

CONSTANTS Device, Pid, Ip, Subnet, LocalIp, Command, Torn, Mixed, None

ASSUME IpAssumption   == Ip \subseteq Nat /\ Subnet \subseteq Ip
ASSUME NoneAssumption ==
  None \notin Device \cup Pid \cup Ip \cup [dev : Device, ip : Ip \cup {None}]
                      \cup [Device -> Ip \cup {None}]
ASSUME TornAssumption ==
  /\ {Torn, Mixed} \cap ([Device -> Ip \cup {None}] \cup {None}) = {}
  /\ Torn # Mixed
ASSUME LocalAssumption == LocalIp \in Ip /\ Device # {}

VARIABLES
  file,                                                   \* config.json
  tmp, inode, trusted, step, req, copy, alone,            \* the commands
  config, connections, proc, sess, pc, cur, quit,         \* the daemon
  asked,     \* commands whose restart systemd has been asked for
  starting   \* ExecStartPre accepted the file, main has yet to load it

daemon   == <<config, connections, proc, sess, pc, cur, quit>>
commands == <<tmp, inode, trusted, step, req, copy, alone>>
vars     == <<file, daemon, commands, asked, starting>>

(* The allowlist in force, as the commands know it.                        *)
InDaemon == IF pc \in {"off", "exited"} THEN None ELSE config

D == INSTANCE LapDevice
       WITH config <- file, loaded <- InDaemon, pc <- step, Usable <- Subnet \ {LocalIp}

(* load_config refuses a file that does not parse, as it does one that     *)
(* gives a device the gateway's own address.                               *)
Disk == IF file \in D!Table THEN file ELSE [d \in Device |-> LocalIp]

S == INSTANCE LapSessions WITH disk <- Disk

Init ==
  /\ file \in {table \in D!Table : D!Valid(table)}
  /\ S!Init
  /\ D!Init
  /\ asked = {}
  /\ starting = FALSE

-----------------------------------------------------------------------------
Systemd == <<asked, starting>>

(* A command runs as far as `systemctl restart`.                           *)
CommandNext ==
  /\ UNCHANGED <<daemon, Systemd>>
  /\ \E p \in Command :
       \/ \E d \in Device :
            \/ D!ReadForRemove(p, d)
            \/ \E ip \in Ip : D!ReadForAdd(p, d, ip)
            \/ \E ip \in Ip \cup {None} : D!Refuse(p, d, ip)
       \/ D!Trust(p) \/ D!Truncate(p) \/ D!Write(p) \/ D!Publish(p) \/ D!PublishFails(p)
       \/ D!Check(p) \/ D!Die(p)

(* The variant is `systemctl restart --no-block`; nothing uses it.         *)
AskRestartBug(p) ==
  /\ step[p] = "restart"
  /\ step' = [step EXCEPT ![p] = "reported"]
  /\ UNCHANGED <<file, daemon, tmp, inode, trusted, req, copy, alone, Systemd>>

AskRestart(p) ==
  /\ step[p] = "restart"
  /\ p \notin asked
  /\ asked' = asked \cup {p}
  /\ UNCHANGED <<file, daemon, commands, starting>>

(* What systemd sends while it stops or loses the daemon, and all else the *)
(* daemon does, but for its start.                                         *)
DaemonNext ==
  /\ UNCHANGED <<file, commands, Systemd>>
  /\ \/ S!InstallHandlers \/ S!EnterLoop \/ S!Record \/ S!Kill \/ S!Signal \/ S!Release
     \/ S!Reap \/ S!LoopReturn \/ S!Finally \/ S!Crash
     \/ \E d \in Device : \/ S!NewConnectionFails(d) \/ S!RequestDisconnection(d)
                          \/ \E p \in Pid : S!NewConnection(d, p)
     \/ \E p \in Pid : S!PppdExit(p)

(* The control group is empty: ExecStartPre, and the end of the restart    *)
(* job for every command that asked before.                                *)
StartPre ==
  /\ pc \in {"off", "exited"}
  /\ S!GroupGone
  /\ ~starting
  /\ UNCHANGED daemon
  /\ D!Restart(asked \cap {p \in Command : step[p] = "restart"})
  /\ asked' = {}
  /\ starting' = D!Valid(file)

(* main loads the file as it is by now, or returns.                        *)
Start ==
  /\ starting
  /\ starting' = FALSE
  /\ UNCHANGED <<file, commands, asked>>
  /\ \/ S!Start
     \/ ~D!Valid(file) /\ UNCHANGED daemon

Next == CommandNext \/ DaemonNext \/ StartPre \/ Start \/ \E p \in Command : AskRestart(p)

Spec == Init /\ [][Next]_vars

-----------------------------------------------------------------------------
(* While commands do not overlap, what one has reported binds the Palms:   *)
(* after "Removed" no pppd serves the device, after "Authorized" none      *)
(* serves it at another address, whatever the daemon, its children and     *)
(* BlueZ were doing when the restart was asked for.                        *)
ReportReachesSessions ==
  \A p \in Command : alone /\ step[p] = "reported" /\ D!Unrivalled(p) =>
    \A q \in Pid : S!Alive(q) /\ sess[q].dev = req[p].dev => sess[q].ip = req[p].ip

(* With the restart in steps, and the sessions and crashes of the daemon   *)
(* between them, the whole still is what LapDevice says: to the commands a *)
(* restart is one step, after which the daemon has the file or is down.    *)
RestartIsOneStep == D!Spec
=============================================================================
