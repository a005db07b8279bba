------------------------------ MODULE LapDevice ------------------------------
(***************************************************************************)
(* palm-lap-device add and remove: the allowlist in config.json, rewritten *)
(* by a process per command, and the restart that makes palm-lapd load it. *)
(*                                                                         *)
(* A command reads the whole file, changes its own copy, writes the copy   *)
(* under one fixed temporary name, renames it over the file, has the       *)
(* daemon check it and restarts the daemon.  Nothing locks the file: the   *)
(* admin's shell and the web helper may run commands at the same time.     *)
(***************************************************************************)
EXTENDS Integers

CONSTANTS
  Device,    \* Bluetooth addresses
  Ip,        \* addresses a peer may be given on the command line
  Usable,    \* those inside the subnet, neither its ends nor the gateway's
  Command,   \* processes of palm-lap-device; each runs one command
  Torn,      \* the contents of a file between its truncation and its writing
  Mixed,     \* a text over a longer one, whose tail stays: it does not parse
  None

ASSUME UsableAssumption == Usable \subseteq Ip
ASSUME NoneAssumption   == None \notin Ip \cup [dev : Device, ip : Ip \cup {None}]
ASSUME TornAssumption   ==
  /\ {Torn, Mixed} \cap ([Device -> Ip \cup {None}] \cup {None}) = {}
  /\ Torn # Mixed

VARIABLES
  config,   \* contents of config.json: an allowlist, Torn or Mixed
  tmp,      \* contents of config.tmp, or None
  inode,    \* where the file each command has open is: tmp, config, or gone
  loaded,   \* the allowlist palm-lapd runs with, or None when it is down
  trusted,  \* devices whose Trusted property is set in BlueZ
  pc,       \* where each command is
  req,      \* what each command was asked: its device and address, None to remove
  copy,     \* the allowlist each command has in memory
  alone     \* history: no two commands have been under way at once

vars == <<config, tmp, inode, loaded, trusted, pc, req, copy, alone>>

Table == [Device -> Ip \cup {None}]
Step  == {"idle", "trust", "truncate", "write", "publish", "check", "restart",
          "reported", "failed"}

(* load_config accepts it; the ends of the subnet, which load_config would *)
(* allow and palm-lap-device refuses, are written by no command.           *)
Valid(c) ==
  /\ c \in Table
  /\ \A d \in Device : c[d] # None =>
       c[d] \in Usable /\ \A e \in Device \ {d} : c[e] # c[d]

UnderWay(p) == pc[p] \notin {"idle", "reported", "failed"}
Solo        == \A p, q \in Command : UnderWay(p) /\ UnderWay(q) => p = q

(* The file starts as an administrator left it: valid, its devices trusted; *)
(* the daemon is yet to be started.                                        *)
Init ==
  /\ config \in {c \in Table : Valid(c)}
  /\ tmp = None
  /\ inode = [p \in Command |-> "gone"]
  /\ loaded = None
  /\ trusted = {d \in Device : config[d] # None}
  /\ pc = [p \in Command |-> "idle"]
  /\ req = [p \in Command |-> None]
  /\ copy = [p \in Command |-> None]
  /\ alone = TRUE

(* Every action ends with the record of whether commands overlapped.       *)
Recorded == alone' = (alone /\ Solo')

Goto(p, here, next) == pc[p] = here /\ pc' = [pc EXCEPT ![p] = next]

-----------------------------------------------------------------------------
(* Variants named ...Bug are slips at the lines of the definition that     *)
(* follows them; no specification uses them.                               *)

(* The checks of add: a usable address that no other device has.           *)
AddAllowedBug(d, ip) == ip \in Usable
AddAllowed(d, ip)    == ip \in Usable /\ \A e \in Device \ {d} : config[e] # ip

(* The command's copy of the file, with the entry of its device changed.   *)
Changed(d, x) == [config EXCEPT ![d] = x]

(* The file is read; one that is no allowlist does not parse.              *)
Refuse(p, d, ip) ==
  /\ Goto(p, "idle", "failed")
  /\ \/ config \notin Table
     \/ config \in Table /\ ip = None /\ config[d] = None
     \/ config \in Table /\ ip # None /\ ~AddAllowed(d, ip)
  /\ req' = [req EXCEPT ![p] = [dev |-> d, ip |-> ip]]
  /\ UNCHANGED <<config, tmp, inode, loaded, trusted, copy>> /\ Recorded

ReadForRemove(p, d) ==
  /\ Goto(p, "idle", "truncate")
  /\ config \in Table /\ config[d] # None
  /\ req' = [req EXCEPT ![p] = [dev |-> d, ip |-> None]]
  /\ copy' = [copy EXCEPT ![p] = Changed(d, None)]
  /\ UNCHANGED <<config, tmp, inode, loaded, trusted>> /\ Recorded

AddFirstStepBug == "truncate"
AddFirstStep    == "trust"
ReadForAdd(p, d, ip) ==
  /\ Goto(p, "idle", AddFirstStep)
  /\ config \in Table /\ AddAllowed(d, ip)
  /\ req' = [req EXCEPT ![p] = [dev |-> d, ip |-> ip]]
  /\ copy' = [copy EXCEPT ![p] = Changed(d, ip)]
  /\ UNCHANGED <<config, tmp, inode, loaded, trusted>> /\ Recorded

(* The device is looked up in BlueZ and trusted; one that is not bonded    *)
(* ends the command.                                                       *)
Trust(p) ==
  /\ Goto(p, "trust", "truncate")
  /\ trusted' = trusted \cup {req[p].dev}
  /\ UNCHANGED <<config, tmp, inode, loaded, req, copy>> /\ Recorded

TruncateBug(p) ==
  /\ Goto(p, "truncate", "write")
  /\ config' = Torn
  /\ inode' = [inode EXCEPT ![p] = "config"]
  /\ UNCHANGED <<tmp, loaded, trusted, req, copy>> /\ Recorded

(* write_config: the temporary is created, or truncated in place when      *)
(* another command's is there ...                                          *)
Truncate(p) ==
  /\ Goto(p, "truncate", "write")
  /\ tmp' = Torn
  /\ inode' = [inode EXCEPT ![p] = "tmp"]
  /\ UNCHANGED <<config, loaded, trusted, req, copy>> /\ Recorded

(* ... then written from its start, under whatever name it has by then and *)
(* over whatever another command has written there since, and closed ...   *)
Over(old, text) == IF old \in {Torn, text} THEN {text} ELSE {text, Mixed}
Write(p) ==
  /\ Goto(p, "write", "publish")
  /\ IF inode[p] = "tmp" THEN tmp' \in Over(tmp, copy[p]) ELSE UNCHANGED tmp
  /\ IF inode[p] = "config" THEN config' \in Over(config, copy[p]) ELSE UNCHANGED config
  /\ inode' = [inode EXCEPT ![p] = "gone"]
  /\ UNCHANGED <<loaded, trusted, req, copy>> /\ Recorded

(* ... and given its mode and renamed, unless the name is gone.            *)
Publish(p) ==
  /\ Goto(p, "publish", "check")
  /\ tmp # None
  /\ config' = tmp
  /\ tmp' = None
  /\ inode' = [q \in Command |-> IF inode[q] = "tmp" THEN "config" ELSE "gone"]
  /\ UNCHANGED <<loaded, trusted, req, copy>> /\ Recorded

PublishFails(p) ==
  /\ Goto(p, "publish", "failed")
  /\ tmp = None
  /\ UNCHANGED <<config, tmp, inode, loaded, trusted, req, copy>> /\ Recorded

(* palm-lapd --check                                                       *)
Check(p) ==
  /\ Goto(p, "check", IF Valid(config) THEN "restart" ELSE "failed")
  /\ UNCHANGED <<config, tmp, inode, loaded, trusted, req, copy>> /\ Recorded

(* systemctl restart palm-lap.service: one restart serves all commands     *)
(* that wait for one (none, if someone else asked for it).  The old daemon *)
(* is gone, ExecStartPre has judged the file, the new one is yet to load   *)
(* it; the commands print their message.                                   *)
Restart(ps) ==
  /\ \A p \in ps : pc[p] = "restart"
  /\ pc' = [p \in Command |-> IF p \notin ps THEN pc[p]
                              ELSE IF Valid(config) THEN "reported" ELSE "failed"]
  /\ loaded' = None
  /\ UNCHANGED <<config, tmp, inode, trusted, req, copy>> /\ Recorded

(* main loads the file, or exits.                                          *)
LoadedUnchecked == config
Loaded          == IF Valid(config) THEN config ELSE None

Load ==
  /\ loaded = None
  /\ loaded' = Loaded
  /\ UNCHANGED <<config, tmp, inode, trusted, pc, req, copy>> /\ Recorded

(* The command is interrupted, or a call it makes fails: nothing is undone. *)
Die(p) ==
  /\ UnderWay(p)
  /\ pc' = [pc EXCEPT ![p] = "failed"]
  /\ UNCHANGED <<config, tmp, inode, loaded, trusted, req, copy>> /\ Recorded

Next ==
  \/ \E p \in Command, d \in Device :
       \/ ReadForRemove(p, d)
       \/ \E ip \in Ip : ReadForAdd(p, d, ip)
       \/ \E ip \in Ip \cup {None} : Refuse(p, d, ip)
  \/ \E p \in Command :
       \/ Trust(p) \/ Truncate(p) \/ Write(p) \/ Publish(p) \/ PublishFails(p)
       \/ Check(p) \/ Die(p)
  \/ \E ps \in SUBSET Command : Restart(ps)
  \/ Load

Spec == Init /\ [][Next]_vars

-----------------------------------------------------------------------------
(* Type correctness of the files, the commands and their copies.           *)
TypeOK ==
  /\ config \in Table \cup {Torn, Mixed}
  /\ tmp \in Table \cup {Torn, Mixed, None}
  /\ inode \in [Command -> {"tmp", "config", "gone"}]
  /\ loaded \in Table \cup {None}
  /\ trusted \subseteq Device
  /\ pc \in [Command -> Step]
  /\ req \in [Command -> [dev : Device, ip : Ip \cup {None}] \cup {None}]
  /\ copy \in [Command -> Table \cup {None}]
  /\ alone \in BOOLEAN

(* Whatever commands overlap, die half way or are refused, config.json is  *)
(* an allowlist load_config accepts, or does not parse.                    *)
WholeIsValid == config \in Table => Valid(config)

(* A device is trusted in BlueZ before any allowlist that names it can be  *)
(* read or loaded, and is still trusted when it is in force.               *)
AuthorizedTrusted ==
  \A d \in Device :
    /\ config \in Table /\ config[d] # None => d \in trusted
    /\ loaded # None /\ loaded[d] # None => d \in trusted

(* While commands do not overlap, whichever of them die and wherever, the  *)
(* daemon finds a file it accepts; and one that reported success has done  *)
(* what it says, in the file and in the daemon, unless another was about   *)
(* the same device.                                                        *)
InForce(p) ==
  /\ config \in Table /\ config[req[p].dev] = req[p].ip
  /\ loaded = None \/ loaded[req[p].dev] = req[p].ip

Unrivalled(p) == \A q \in Command \ {p} : req[q] = None \/ req[q].dev # req[p].dev

SuccessInForce ==
  alone => config \in Table /\ \A p \in Command :
                                pc[p] = "reported" /\ Unrivalled(p) => InForce(p)
=============================================================================
