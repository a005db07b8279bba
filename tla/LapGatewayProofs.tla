-------------------------- MODULE LapGatewayProofs --------------------------
(* Proofs about LapGateway: systemd, the daemon and the commands together, *)
(* for any number of commands, devices and pppd children.                  *)
(*                                                                         *)
(* The first part restates for the gateway's variables what the commands   *)
(* keep, as tlapm cites no theorem of an instantiated module; a restart is *)
(* there one step, and InDaemon any state function that LapDevice's steps  *)
(* change as they say.                                                     *)
EXTENDS LapGateway, TLAPS

(* What a command that has been alone so far can rely on.                  *)
AloneAt(p) ==
  /\ step[p] \in {"trust", "truncate", "write", "publish"} =>
       \A d \in Device : copy[p][d] = IF d = req[p].dev THEN req[p].ip ELSE file[d]
  /\ step[p] = "write" => inode[p] = "tmp" /\ tmp = Torn
  /\ step[p] = "publish" => tmp = copy[p] /\ tmp \in D!Table
  /\ step[p] \in {"check", "restart"} => file[req[p].dev] = req[p].ip
  /\ step[p] = "reported" /\ D!Unrivalled(p) => D!InForce(p)

SoloInv ==
  /\ \A p \in Command : step[p] = "idle" <=> req[p] = None
  /\ alone => D!Solo /\ file \in D!Table /\ \A p \in Command : AloneAt(p)

CopyInv == \A p \in Command : step[p] \in {"trust", "truncate", "write"} => copy[p] \in D!Table

CommandInv == D!TypeOK /\ CopyInv /\ SoloInv

-----------------------------------------------------------------------------
LEMMA TableApart == Torn \notin D!Table /\ Mixed \notin D!Table
BY TornAssumption DEF D!Table

(* A file that is written has the text, or does not parse.                 *)
LEMMA OverKnown ==
  ASSUME NEW old, NEW text
  PROVE  /\ D!Over(old, text) \subseteq {text, Mixed}
         /\ old = Torn => D!Over(old, text) = {text}
BY DEF D!Over

(* Every step of LapDevice keeps the types.                                *)
LEMMA TypeStep ==
  ASSUME CommandInv, [D!Next]_(D!vars)
  PROVE  D!TypeOK' /\ CopyInv'
<1> USE TableApart DEF CommandInv, D!Goto, D!TypeOK, D!Recorded
<1>1. ASSUME NEW p \in Command, NEW d \in Device, NEW x \in Ip \cup {None}, file \in D!Table
      PROVE  [file EXCEPT ![d] = x] \in D!Table
  BY <1>1 DEF D!Table
<1>2. ASSUME NEW p \in Command, NEW d \in Device, D!ReadForRemove(p, d)
      PROVE  D!TypeOK' /\ CopyInv'
  <2>1. D!Changed(d, None) \in D!Table
    BY <1>1, <1>2 DEF D!ReadForRemove, D!Changed
  <2>2. D!TypeOK'
    BY <1>2, <2>1 DEF D!ReadForRemove, D!Step
  <2>3. CopyInv'
    BY <1>2, <2>1 DEF D!ReadForRemove, CopyInv
  <2> QED BY <2>2, <2>3
<1>3. ASSUME NEW p \in Command, NEW d \in Device, NEW ip \in Ip, D!ReadForAdd(p, d, ip)
      PROVE  D!TypeOK' /\ CopyInv'
  <2>1. D!Changed(d, ip) \in D!Table
    BY <1>1, <1>3 DEF D!ReadForAdd, D!Changed
  <2>2. D!TypeOK'
    BY <1>3, <2>1 DEF D!ReadForAdd, D!AddFirstStep, D!Step
  <2>3. CopyInv'
    BY <1>3, <2>1 DEF D!ReadForAdd, D!AddFirstStep, CopyInv
  <2> QED BY <2>2, <2>3
<1>4. ASSUME NEW p \in Command, NEW d \in Device, NEW ip \in Ip \cup {None}, D!Refuse(p, d, ip)
      PROVE  D!TypeOK' /\ CopyInv'
  BY <1>4 DEF D!Refuse, D!Step, CopyInv
<1>5. ASSUME NEW p \in Command, D!Trust(p) PROVE D!TypeOK' /\ CopyInv'
  <2>1. req[p].dev \in Device
    BY <1>5 DEF D!Trust, SoloInv
  <2> QED BY <1>5, <2>1 DEF D!Trust, D!Step, CopyInv
<1>6. ASSUME NEW p \in Command, D!Truncate(p) PROVE D!TypeOK' /\ CopyInv'
  BY <1>6 DEF D!Truncate, D!Step, CopyInv
<1>7. ASSUME NEW p \in Command, D!Write(p) PROVE D!TypeOK' /\ CopyInv'
  <2>1. tmp' \in {tmp, copy[p], Mixed} /\ file' \in {file, copy[p], Mixed}
    BY <1>7, OverKnown DEF D!Write
  <2>2. copy[p] \in D!Table
    BY <1>7 DEF D!Write, CopyInv
  <2> QED BY <1>7, <2>1, <2>2 DEF D!Write, D!Step, CopyInv
<1>8. ASSUME NEW p \in Command, D!Publish(p) PROVE D!TypeOK' /\ CopyInv'
  BY <1>8 DEF D!Publish, D!Step, CopyInv
<1>9. ASSUME NEW p \in Command, D!PublishFails(p) \/ D!Check(p) \/ D!Die(p)
      PROVE  D!TypeOK' /\ CopyInv'
  BY <1>9 DEF D!PublishFails, D!Check, D!Die, D!Step, CopyInv
<1>10. ASSUME NEW ps \in SUBSET Command, D!Restart(ps) PROVE D!TypeOK' /\ CopyInv'
  BY <1>10 DEF D!Restart, D!Step, CopyInv
<1>11. CASE D!Load
  BY <1>11 DEF D!Load, D!Loaded, D!Valid, CopyInv
<1>12. CASE UNCHANGED D!vars
  BY <1>12 DEF D!vars, CopyInv
<1> QED
  BY <1>2, <1>3, <1>4, <1>5, <1>6, <1>7, <1>8, <1>9, <1>10, <1>11, <1>12 DEF D!Next

LEMMA SoloInit == D!Init => SoloInv
BY NoneAssumption, TableApart DEF D!Init, SoloInv, D!Solo, AloneAt, D!UnderWay, D!Valid

(* Command q is asked, to the end of its reading.                          *)
LEMMA SoloAsked ==
  ASSUME CommandInv, SoloInv, NEW q \in Command, NEW d \in Device, NEW ip \in Ip \cup {None},
         step[q] = "idle", file \in D!Table \cup {Torn, Mixed},
         UNCHANGED <<file, tmp, inode, InDaemon>>,
         req' = [req EXCEPT ![q] = [dev |-> d, ip |-> ip]],
         \/ step' = [step EXCEPT ![q] = "failed"] /\ UNCHANGED copy
         \/ /\ step' = [step EXCEPT ![q] = IF ip = None THEN "truncate" ELSE "trust"]
            /\ file \in D!Table
            /\ copy' = [copy EXCEPT ![q] = [file EXCEPT ![d] = ip]],
         D!Recorded
  PROVE  SoloInv'
<1> DEFINE r == [dev |-> d, ip |-> ip]
<1>1. /\ r \in [dev : Device, ip : Ip \cup {None}] /\ r # None
      /\ r.dev = d /\ r.ip = ip
  BY NoneAssumption
<1> HIDE DEF r
<1>2. /\ req'[q] = r /\ req[q] = None
      /\ step'[q] \in {"failed", "truncate", "trust"}
      /\ \A p \in Command \ {q} : step'[p] = step[p] /\ req'[p] = req[p] /\ copy'[p] = copy[p]
      /\ step'[q] # "failed" => \A e \in Device : copy'[q][e] = IF e = d THEN ip ELSE file[e]
  BY DEF CommandInv, D!TypeOK, SoloInv, D!Table, r
<1>3. \A p \in Command : step'[p] = "idle" <=> req'[p] = None
  BY <1>1, <1>2 DEF SoloInv
<1>4. ASSUME alone' PROVE D!Solo' /\ file' \in D!Table /\ \A p \in Command : AloneAt(p)'
  <2>1. D!Solo' /\ alone
    BY <1>4 DEF D!Recorded
  <2>2. AloneAt(q)'
    BY <1>1, <1>2 DEF AloneAt
  <2>3. ASSUME NEW p \in Command \ {q} PROVE AloneAt(p)'
    <3>1. D!Unrivalled(p)' => D!Unrivalled(p)
      BY <1>2 DEF D!Unrivalled
    <3>2. AloneAt(p)
      BY <2>1 DEF SoloInv
    <3> QED BY <1>2, <3>1, <3>2 DEF AloneAt, D!InForce
  <2> QED BY <2>1, <2>2, <2>3 DEF SoloInv
<1> QED BY <1>3, <1>4 DEF SoloInv

(* Command q takes another step, or steps of its own end in failure.       *)
LEMMA SoloOther ==
  ASSUME CommandInv, SoloInv, NEW q \in Command, D!UnderWay(q),
         UNCHANGED req, step'[q] # "idle", D!Recorded,
         \A p \in Command \ {q} : step'[p] = step[p] /\ copy'[p] = copy[p],
         InDaemon' = InDaemon, alone => file' \in D!Table,
         alone => AloneAt(q)',
         alone => \A d \in Device \ {req[q].dev} : file'[d] = file[d]
  PROVE  SoloInv'
<1>1. \A p \in Command : step'[p] = "idle" <=> req'[p] = None
  BY DEF SoloInv, D!UnderWay
<1>2. ASSUME alone' PROVE D!Solo' /\ file' \in D!Table /\ \A p \in Command : AloneAt(p)'
  <2>1. D!Solo' /\ alone /\ D!Solo
    BY <1>2 DEF D!Recorded, SoloInv
  <2>2. ASSUME NEW p \in Command \ {q} PROVE AloneAt(p)'
    <3>1. ~D!UnderWay(p) /\ AloneAt(p)
      BY <2>1 DEF D!Solo, SoloInv
    <3>2. CASE step[p] = "reported" /\ D!Unrivalled(p)
      <4>1. req[p].dev \in Device /\ req[p].dev # req[q].dev
        BY <3>2 DEF D!Unrivalled, SoloInv, D!UnderWay, CommandInv, D!TypeOK
      <4>2. file'[req[p].dev] = file[req[p].dev]
        BY <2>1, <4>1
      <4> QED BY <2>1, <3>1, <3>2, <4>2 DEF AloneAt, D!InForce
    <3>3. CASE ~(step[p] = "reported" /\ D!Unrivalled(p))
      BY <3>1, <3>3 DEF AloneAt, D!UnderWay, D!Unrivalled
    <3> QED BY <3>2, <3>3
  <2> QED BY <2>1, <2>2
<1> QED BY <1>1, <1>2 DEF SoloInv

LEMMA SoloStep == CommandInv /\ SoloInv /\ [D!Next]_(D!vars) => SoloInv'
<1> SUFFICES ASSUME CommandInv, SoloInv, [D!Next]_(D!vars) PROVE SoloInv'
  OBVIOUS
<1>0. D!TypeOK
  BY DEF CommandInv
<1>1. ASSUME NEW p \in Command, NEW d \in Device, D!ReadForRemove(p, d) PROVE SoloInv'
  BY <1>0, <1>1, SoloAsked DEF D!ReadForRemove, D!Changed, D!Goto, D!TypeOK
<1>2. ASSUME NEW p \in Command, NEW d \in Device, NEW ip \in Ip, D!ReadForAdd(p, d, ip)
      PROVE SoloInv'
  <2>1. ip # None
    BY NoneAssumption
  <2> QED BY <1>0, <1>2, <2>1, SoloAsked
          DEF D!ReadForAdd, D!AddFirstStep, D!Changed, D!Goto, D!TypeOK
<1>3. ASSUME NEW p \in Command, NEW d \in Device, NEW ip \in Ip \cup {None}, D!Refuse(p, d, ip)
      PROVE SoloInv'
  BY <1>0, <1>3, SoloAsked DEF D!Refuse, D!Goto, D!TypeOK
<1>4. ASSUME NEW p \in Command, D!Trust(p) PROVE SoloInv'
  <2> USE <1>4 DEF D!Trust, D!Goto
  <2>1. alone => AloneAt(p)'
    BY <1>0 DEF SoloInv, AloneAt, D!TypeOK
  <2> QED BY <1>0, <2>1, SoloOther DEF D!UnderWay, D!TypeOK, SoloInv
<1>5. ASSUME NEW p \in Command, D!Truncate(p) PROVE SoloInv'
  <2> USE <1>5 DEF D!Truncate, D!Goto
  <2>1. alone => AloneAt(p)'
    BY <1>0 DEF SoloInv, AloneAt, D!TypeOK
  <2> QED BY <1>0, <2>1, SoloOther DEF D!UnderWay, D!TypeOK, SoloInv
<1>6. ASSUME NEW p \in Command, D!Write(p) PROVE SoloInv'
  <2> USE <1>6 DEF D!Write, D!Goto
  <2>1. alone => tmp' = copy[p] /\ UNCHANGED file /\ file \in D!Table
    BY OverKnown DEF SoloInv, AloneAt
  <2>2. copy[p] \in D!Table
    BY DEF CommandInv, CopyInv
  <2>3. alone => AloneAt(p)'
    BY <1>0, <2>1, <2>2 DEF SoloInv, AloneAt, D!TypeOK
  <2> QED BY <1>0, <2>1, <2>3, SoloOther DEF D!UnderWay, D!TypeOK
<1>7. ASSUME NEW p \in Command, D!Publish(p) PROVE SoloInv'
  <2> USE <1>7 DEF D!Publish, D!Goto
  <2>1. alone => tmp = copy[p] /\ tmp \in D!Table /\ file \in D!Table
                 /\ \A d \in Device : tmp[d] = IF d = req[p].dev THEN req[p].ip ELSE file[d]
    BY DEF SoloInv, AloneAt
  <2>2. req[p].dev \in Device
    BY <1>0 DEF SoloInv, D!TypeOK
  <2>3. alone => AloneAt(p)'
    BY <1>0, <2>1, <2>2 DEF AloneAt, D!TypeOK
  <2> QED BY <1>0, <2>1, <2>3, TableApart, SoloOther DEF D!UnderWay, D!TypeOK
<1>8. ASSUME NEW p \in Command, D!PublishFails(p) \/ D!Check(p) \/ D!Die(p) PROVE SoloInv'
  <2> USE <1>8 DEF D!PublishFails, D!Check, D!Die, D!Goto, D!UnderWay
  <2>1. alone => AloneAt(p)'
    BY <1>0 DEF SoloInv, AloneAt, D!TypeOK
  <2> QED BY <1>0, <2>1, SoloOther DEF D!TypeOK, SoloInv
<1>9. ASSUME NEW ps \in SUBSET Command, D!Restart(ps) PROVE SoloInv'
  <2> USE <1>9 DEF D!Restart
  <2>1. /\ \A p \in ps : step[p] = "restart" /\ step'[p] \in {"reported", "failed"}
        /\ \A p \in Command \ ps : step'[p] = step[p]
        /\ InDaemon' = None /\ UNCHANGED <<file, tmp, inode, req, copy>>
    BY <1>0 DEF D!TypeOK
  <2>2. \A p \in Command : step'[p] = "idle" <=> req'[p] = None
    BY <2>1 DEF SoloInv
  <2>3. ASSUME alone', NEW p \in Command PROVE AloneAt(p)'
    <3>1. AloneAt(p) /\ file \in D!Table
      BY <2>3 DEF SoloInv, D!Recorded
    <3>2. CASE p \in ps
      BY <2>1, <3>1, <3>2 DEF AloneAt, D!InForce
    <3>3. CASE p \notin ps
      BY <2>1, <3>1, <3>3 DEF AloneAt, D!InForce, D!Unrivalled
    <3> QED BY <3>2, <3>3
  <2> QED BY <2>1, <2>2, <2>3 DEF SoloInv, D!Recorded
<1>10. CASE D!Load
  <2> USE <1>10 DEF D!Load
  <2>1. InDaemon' = None \/ InDaemon' = file
    BY DEF D!Loaded
  <2>2. ASSUME alone', NEW p \in Command PROVE AloneAt(p)'
    BY <2>1, <2>2 DEF SoloInv, AloneAt, D!InForce, D!Unrivalled, D!Recorded
  <2> QED BY <2>2 DEF SoloInv, D!Recorded
<1>11. CASE UNCHANGED D!vars
  BY <1>11 DEF D!vars, SoloInv, D!Solo, D!UnderWay, AloneAt, D!InForce, D!Unrivalled
<1> QED
  BY <1>1, <1>2, <1>3, <1>4, <1>5, <1>6, <1>7, <1>8, <1>9, <1>10, <1>11 DEF D!Next

-----------------------------------------------------------------------------
(* Each step of the gateway is one of the commands', a restart or a        *)
(* loading of the file, or nothing to the commands at all.                 *)

(* The daemon goes, and with it what it had loaded: a restart nobody asked *)
(* for.                                                                    *)
LEMMA DaemonGoes ==
  ASSUME CommandInv, UNCHANGED <<file, commands>>, InDaemon' \in {InDaemon, None}
  PROVE  [D!Next]_(D!vars)
<1>1. CASE InDaemon' = InDaemon
  BY <1>1 DEF commands, D!vars
<1>2. CASE InDaemon' = None
  <2>1. step' = [p \in Command |-> IF p \notin {} THEN step[p]
                                   ELSE IF D!Valid(file) THEN "reported" ELSE "failed"]
    BY DEF commands, CommandInv, D!TypeOK
  <2>2. D!Recorded
    BY DEF commands, CommandInv, SoloInv, D!Recorded, D!Solo, D!UnderWay, D!TypeOK
  <2>3. D!Restart({})
    BY <1>2, <2>1, <2>2 DEF D!Restart, commands
  <2> QED BY <2>3 DEF D!Next
<1> QED BY <1>1, <1>2

LEMMA DaemonStep ==
  ASSUME DaemonNext
  PROVE  InDaemon' \in {InDaemon, None}
BY DEF DaemonNext, InDaemon, S!InstallHandlers, S!EnterLoop, S!Record, S!Kill, S!StopCurrent,
       S!Signal, S!Release, S!Reap, S!LoopReturn, S!Finally, S!ExitWith, S!Crash,
       S!NewConnectionFails, S!RequestDisconnection, S!NewConnection, S!PppdExit

(* What the daemon loads is what load_config accepts.                      *)
LEMMA LoadsDisk ==
  ASSUME CommandInv, S!Start
  PROVE  D!Valid(file) /\ InDaemon' = file /\ InDaemon = None
<1>1. file \in D!Table
  <2> SUFFICES ASSUME file \notin D!Table PROVE FALSE
    OBVIOUS
  <2>1. PICK d \in Device : Disk[d] = LocalIp
    BY LocalAssumption DEF Disk
  <2> QED BY <2>1, LocalAssumption, NoneAssumption DEF S!Start, S!ValidConfig
<1>2. Disk = file
  BY <1>1 DEF Disk
<1> QED BY <1>1, <1>2 DEF S!Start, S!ValidConfig, D!Valid, InDaemon

LEMMA StepRefines ==
  ASSUME CommandInv, [Next]_vars
  PROVE  [D!Next]_(D!vars)
<1>1. CASE CommandNext
  BY <1>1 DEF CommandNext, D!Next
<1>2. CASE DaemonNext
  BY <1>2, DaemonStep, DaemonGoes DEF DaemonNext
<1>3. CASE StartPre
  <2>1. D!Restart(asked \cap {p \in Command : step[p] = "restart"})
    BY <1>3 DEF StartPre
  <2> QED BY <2>1 DEF D!Next
<1>4. CASE Start
  <2>1. UNCHANGED <<file, commands>>
    BY <1>4 DEF Start
  <2>2. CASE S!Start
    <3>1. D!Valid(file) /\ InDaemon' = file /\ InDaemon = None
      BY <2>2, LoadsDisk
    <3>2. D!Recorded
      BY <2>1 DEF commands, CommandInv, SoloInv, D!Recorded, D!Solo, D!UnderWay, D!TypeOK
    <3>3. D!Load
      BY <2>1, <3>1, <3>2 DEF D!Load, D!Loaded, commands
    <3> QED BY <3>3 DEF D!Next
  <2>3. CASE UNCHANGED daemon
    <3>1. InDaemon' = InDaemon
      BY <2>3 DEF daemon, InDaemon
    <3> QED BY <2>1, <3>1, DaemonGoes
  <2> QED BY <1>4, <2>2, <2>3 DEF Start
<1>5. ASSUME NEW p \in Command, AskRestart(p) PROVE [D!Next]_(D!vars)
  <2>1. InDaemon' = InDaemon
    BY <1>5 DEF AskRestart, daemon, InDaemon
  <2> QED BY <1>5, <2>1, DaemonGoes DEF AskRestart
<1>6. CASE UNCHANGED vars
  <2>1. InDaemon' = InDaemon
    BY <1>6 DEF vars, daemon, InDaemon
  <2> QED BY <1>6, <2>1, DaemonGoes DEF vars
<1> QED BY <1>1, <1>2, <1>3, <1>4, <1>5, <1>6 DEF Next

LEMMA CommandInit == Init => D!Init /\ CommandInv
<1> SUFFICES ASSUME Init PROVE D!Init /\ CommandInv
  OBVIOUS
<1>1. D!Init
  BY DEF Init
<1>2. SoloInv
  BY <1>1, SoloInit
<1>3. D!TypeOK /\ CopyInv
  BY <1>1 DEF D!Init, D!TypeOK, D!Valid, D!Step, D!Table, CopyInv
<1> QED BY <1>1, <1>2, <1>3 DEF CommandInv

LEMMA CommandStep ==
  ASSUME CommandInv, [Next]_vars
  PROVE  CommandInv'
<1>1. [D!Next]_(D!vars)
  BY StepRefines
<1>2. SoloInv'
  BY <1>1, SoloStep DEF CommandInv
<1> QED BY <1>1, <1>2, TypeStep DEF CommandInv

(* With the daemon, its children and systemd around them, the commands     *)
(* keep the types and, while they do not overlap, what LapDeviceProofs     *)
(* shows of them.                                                          *)
THEOREM CommandInvariance == Spec => []CommandInv
<1>1. Init => CommandInv
  BY CommandInit
<1>2. CommandInv /\ [Next]_vars => CommandInv'
  BY CommandStep
<1> QED BY <1>1, <1>2, PTL DEF Spec

(* To the commands `systemctl restart` is one step: the daemon told to     *)
(* stop, its children leaving, the check of the file and its loading, with *)
(* the sessions, deaths and other commands between them, implement what    *)
(* LapDevice says of the commands and of the allowlist in force.           *)
THEOREM RestartRefines == Spec => RestartIsOneStep
<1>1. Init => D!Init
  BY CommandInit
<1>2. CommandInv /\ [Next]_vars => [D!Next]_(D!vars)
  BY StepRefines
<1> QED BY <1>1, <1>2, CommandInvariance, PTL DEF Spec, RestartIsOneStep, D!Spec

-----------------------------------------------------------------------------
(* The children and their sessions; a daemon that is up has loaded a file.  *)
DomainInv ==
  /\ DOMAIN proc = Pid /\ DOMAIN sess = Pid
  /\ S!DaemonUp => config # None

SessionInv == DomainInv /\ ReportReachesSessions

(* A pppd that is alive was so before, with the same session, or has just  *)
(* been started for an entry of the allowlist in force.                    *)
LEMMA DaemonSessions ==
  ASSUME DomainInv, DaemonNext
  PROVE  /\ DomainInv'
         /\ \A q \in Pid : S!Alive(q)' =>
              \/ S!Alive(q) /\ sess'[q] = sess[q]
              \/ \E d \in Device : InDaemon # None /\ sess'[q] = [dev |-> d, ip |-> InDaemon[d]]
<1> DEFINE Held ==
      /\ DomainInv'
      /\ \A q \in Pid : S!Alive(q)' =>
           \/ S!Alive(q) /\ sess'[q] = sess[q]
           \/ \E d \in Device : InDaemon # None /\ sess'[q] = [dev |-> d, ip |-> InDaemon[d]]
<1> SUFFICES Held
  OBVIOUS
<1>1. ASSUME NEW d \in Device, NEW p \in Pid, S!NewConnection(d, p) PROVE Held
  <2> USE <1>1 DEF S!NewConnection, DomainInv
  <2>1. DomainInv' /\ InDaemon = config /\ InDaemon # None
    BY DEF S!DaemonUp, S!AfterCleanup, InDaemon
  <2>2. sess'[p] = [dev |-> d, ip |-> config[d]]
    OBVIOUS
  <2>3. ASSUME NEW q \in Pid \ {p}, S!Alive(q)' PROVE S!Alive(q) /\ sess'[q] = sess[q]
    BY <2>3 DEF S!Alive, S!AfterCleanup
  <2> QED BY <2>1, <2>2, <2>3
<1>2. CASE S!InstallHandlers \/ S!EnterLoop \/ S!Record \/ S!Kill \/ S!LoopReturn
  BY <1>2 DEF DomainInv, S!Alive, S!DaemonUp, S!InstallHandlers, S!EnterLoop, S!Record, S!Kill,
     S!StopCurrent, S!LoopReturn
<1>3. CASE S!Signal \/ S!Release \/ S!Finally
  BY <1>3 DEF DomainInv, S!Alive, S!DaemonUp, S!Signal, S!Release, S!Finally, S!ExitWith,
     S!AfterStopAll, S!Running
<1>4. CASE S!Reap \/ S!Crash \/ \E p \in Pid : S!PppdExit(p)
  BY <1>4 DEF DomainInv, S!Alive, S!DaemonUp, S!Reap, S!Crash, S!PppdExit
<1>5. CASE \E d \in Device : S!NewConnectionFails(d) \/ S!RequestDisconnection(d)
  BY <1>5 DEF DomainInv, S!Alive, S!DaemonUp, S!NewConnectionFails, S!RequestDisconnection,
     S!AfterCleanup
<1> HIDE DEF Held
<1> QED BY <1>1, <1>2, <1>3, <1>4, <1>5 DEF DaemonNext

(* A command runs once.                                                    *)
LEMMA CommandAsks ==
  ASSUME CommandInv, CommandNext
  PROVE  \A q \in Command : req[q] # None => req'[q] = req[q]
<1> USE DEF CommandInv
<1>1. ASSUME NEW p \in Command, NEW d \in Device, D!ReadForRemove(p, d)
      PROVE  \A q \in Command : req[q] # None => req'[q] = req[q]
  BY <1>1 DEF D!ReadForRemove, D!Goto, D!TypeOK, SoloInv
<1>2. ASSUME NEW p \in Command, NEW d \in Device, NEW ip \in Ip, D!ReadForAdd(p, d, ip)
      PROVE  \A q \in Command : req[q] # None => req'[q] = req[q]
  BY <1>2 DEF D!ReadForAdd, D!Goto, D!TypeOK, SoloInv
<1>3. ASSUME NEW p \in Command, NEW d \in Device, NEW ip \in Ip \cup {None}, D!Refuse(p, d, ip)
      PROVE  \A q \in Command : req[q] # None => req'[q] = req[q]
  BY <1>3 DEF D!Refuse, D!Goto, D!TypeOK, SoloInv
<1>4. ASSUME NEW p \in Command,
             \/ D!Trust(p) \/ D!Truncate(p) \/ D!Write(p) \/ D!Publish(p)
             \/ D!PublishFails(p) \/ D!Check(p) \/ D!Die(p)
      PROVE  \A q \in Command : req[q] # None => req'[q] = req[q]
  BY <1>4 DEF D!Trust, D!Truncate, D!Write, D!Publish, D!PublishFails, D!Check, D!Die
<1> QED BY <1>1, <1>2, <1>3, <1>4 DEF CommandNext

(* A command that has reported did so before, or just now with no pppd.    *)
LEMMA ReportedBefore ==
  ASSUME CommandInv, [Next]_vars, NEW p \in Command, alone',
         step'[p] = "reported", D!Unrivalled(p)'
  PROVE  /\ alone /\ D!Unrivalled(p) /\ req'[p] = req[p]
         /\ step[p] = "reported" \/ (S!GroupGone /\ UNCHANGED <<proc, sess>>)
<1>1. CASE CommandNext
  <2>1. \A q \in Command : req[q] # None => req'[q] = req[q]
    BY <1>1, CommandAsks
  <2>2. alone /\ step[p] = "reported"
    BY <1>1 DEF CommandNext, CommandInv, D!TypeOK, D!Recorded, D!Goto, D!ReadForRemove,
       D!ReadForAdd, D!AddFirstStep, D!Refuse, D!Trust, D!Truncate, D!Write, D!Publish,
       D!PublishFails, D!Check, D!Die
  <2>3. req[p] # None
    BY <2>2 DEF CommandInv, SoloInv
  <2> QED BY <2>1, <2>2, <2>3 DEF D!Unrivalled
<1>2. CASE DaemonNext
  BY <1>2 DEF DaemonNext, commands, D!Unrivalled
<1>3. CASE StartPre
  BY <1>3 DEF CommandInv, StartPre, D!Restart, D!Recorded, D!Unrivalled, daemon, D!TypeOK
<1>4. CASE Start \/ \E q \in Command : AskRestart(q)
  BY <1>4 DEF Start, AskRestart, commands, D!Unrivalled
<1>5. CASE UNCHANGED vars
  BY <1>5 DEF vars, commands, D!Unrivalled
<1> QED BY <1>1, <1>2, <1>3, <1>4, <1>5 DEF Next

LEMMA SessionStep ==
  ASSUME CommandInv, SessionInv, [Next]_vars
  PROVE  SessionInv'
<1> USE DEF SessionInv
<1>1. CASE DaemonNext
  <2>1. DomainInv'
    BY <1>1, DaemonSessions
  <2>2. UNCHANGED <<alone, step, req>> /\ InDaemon' \in {InDaemon, None}
    BY <1>1, DaemonStep DEF DaemonNext, commands
  <2>3. ASSUME NEW p \in Command, alone, step[p] = "reported", D!Unrivalled(p),
               NEW q \in Pid, S!Alive(q)', sess'[q].dev = req[p].dev
        PROVE  sess'[q].ip = req[p].ip
    <3>1. CASE S!Alive(q) /\ sess'[q] = sess[q]
      BY <2>3, <3>1 DEF ReportReachesSessions
    <3>2. CASE InDaemon # None /\
               \E d \in Device : sess'[q] = [dev |-> d, ip |-> InDaemon[d]]
      <4>1. InDaemon[req[p].dev] = req[p].ip
        BY <2>3, <3>2 DEF CommandInv, SoloInv, AloneAt, D!InForce
      <4>2. PICK d \in Device : sess'[q] = [dev |-> d, ip |-> InDaemon[d]]
        BY <3>2
      <4>3. sess'[q].dev = d /\ sess'[q].ip = InDaemon[d]
        BY <4>2
      <4> QED BY <2>3, <4>1, <4>3
    <3> QED BY <1>1, <2>3, <3>1, <3>2, DaemonSessions
  <2> QED BY <2>1, <2>2, <2>3 DEF ReportReachesSessions, D!Unrivalled
<1>2. CASE ~DaemonNext
  <2>1. UNCHANGED <<proc, sess>>
    BY <1>2 DEF Next, vars, daemon, CommandNext, StartPre, Start, S!Start, AskRestart
  <2>2. S!DaemonUp' => config' # None
    <3>1. CASE S!Start
      BY <3>1, LoadsDisk, NoneAssumption DEF D!Valid, D!Table, S!Start, InDaemon
    <3>2. CASE UNCHANGED daemon
      BY <3>2 DEF daemon, S!DaemonUp, DomainInv
    <3> QED BY <1>2, <3>1, <3>2 DEF Next, vars, CommandNext, StartPre, Start, AskRestart
  <2>3. ASSUME NEW p \in Command, alone', step'[p] = "reported", D!Unrivalled(p)',
               NEW q \in Pid, S!Alive(q)', sess'[q].dev = req'[p].dev
        PROVE  sess'[q].ip = req'[p].ip
    <3>1. S!Alive(q) /\ ~S!GroupGone
      BY <2>1, <2>3 DEF S!Alive, S!GroupGone
    <3>2. alone /\ D!Unrivalled(p) /\ req'[p] = req[p] /\ step[p] = "reported"
      BY <2>3, <3>1, ReportedBefore
    <3> QED BY <2>1, <2>3, <3>1, <3>2 DEF ReportReachesSessions
  <2>4. DomainInv'
    BY <2>2, <2>1 DEF DomainInv
  <2> QED BY <2>3, <2>4 DEF ReportReachesSessions
<1> QED BY <1>1, <1>2

LEMMA SessionInit == Init => SessionInv
BY DEF Init, S!DaemonUp, S!Init, D!Init, SessionInv, DomainInv, ReportReachesSessions

(* While commands do not overlap, what one has reported binds the Palms:   *)
(* no pppd serves the device at another address, or at all once it is      *)
(* removed, however many sessions and commands there are and whatever      *)
(* systemd and the daemon were doing when the restart was asked for.       *)
THEOREM ReportBinds == Spec => []ReportReachesSessions
<1>1. Init => SessionInv
  BY SessionInit
<1>2. CommandInv /\ SessionInv /\ [Next]_vars => SessionInv'
  BY SessionStep
<1>3. SessionInv => ReportReachesSessions
  BY DEF SessionInv
<1> QED BY <1>1, <1>2, <1>3, CommandInvariance, PTL DEF Spec
-----------------------------------------------------------------------------
(* What the daemon reads of the file is a device table, torn or not.       *)
LEMMA DiskTyped ==
  ASSUME CommandInv, [Next]_vars
  PROVE  Disk' \in S!Table
BY CommandStep, LocalAssumption DEF CommandInv, D!TypeOK, D!Table, S!Table, Disk

(* To the daemon a step of the commands or of systemd is an edit of the    *)
(* file, or nothing.                                                       *)
LEMMA FileEdited ==
  ASSUME CommandInv, [Next]_vars, UNCHANGED daemon
  PROVE  S!Next
<1>1. Disk' \in S!Table
  BY DiskTyped
<1>2. PICK table \in S!Table : Disk' = table
  BY <1>1
<1>3. S!EditConfig(table)
  BY <1>2 DEF S!EditConfig, daemon
<1> QED BY <1>3 DEF S!Next

LEMMA SessionsStep ==
  ASSUME CommandInv, [Next]_vars
  PROVE  S!Next
<1>1. CASE DaemonNext
  <2>1. UNCHANGED Disk
    BY <1>1 DEF DaemonNext, Disk
  <2> QED BY <1>1 DEF DaemonNext, S!Next
<1>2. CASE S!Start
  BY <1>2 DEF S!Next
<1>3. CASE UNCHANGED daemon
  BY <1>3, FileEdited
<1> QED BY <1>1, <1>2, <1>3 DEF Next, vars, CommandNext, StartPre, Start, AskRestart

(* The daemon of the gateway is the daemon of LapSessions: whatever the    *)
(* commands write, systemd restarts and wherever a restart stands, its     *)
(* sessions, children and shutdown are those LapSessions allows beside an  *)
(* administrator who edits the file, so the safety that is shown of it     *)
(* there holds beside the commands.                                        *)
THEOREM SessionsRefined == Spec => S!Spec
<1>1. Init => S!Init
  BY DEF Init
<1>2. CommandInv /\ [Next]_vars => [S!Next]_(S!vars)
  BY SessionsStep
<1> QED BY <1>1, <1>2, CommandInvariance, PTL DEF Spec, S!Spec
=============================================================================
