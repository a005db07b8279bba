-------------------------- MODULE LapSessionsProofs --------------------------
(* Proofs about LapSessions, for any devices, children and addresses.      *)
EXTENDS LapSessions, TLAPS

(* The callback in progress: cur is held exactly between the two halves of *)
(* NewConnection and of _stop, is not in the table, and after Popen serves *)
(* a device whose entry, if there is one, is of a child that has exited.   *)
InFlight ==
  /\ cur # None <=> pc \in {"spawned", "popped"}
  /\ cur # None => ~Tracked(cur)
  /\ pc = "spawned" =>
       /\ proc[cur] \in {"running", "zombie"}
       /\ sess[cur].dev \in Device
       /\ connections[sess[cur].dev] # None => ~Alive(connections[sess[cur].dev])

(* The table: an entry is an object of its own device, not yet told to     *)
(* stop; the daemon that is down has none.                                 *)
TableInv ==
  /\ \A d \in Device : connections[d] # None =>
       /\ sess[connections[d]].dev = d
       /\ proc[connections[d]] \in {"running", "zombie", "done"}
  /\ ~DaemonUp => \A d \in Device : connections[d] = None

(* The two halves of NoStrayPppd, of a daemon that is up and of one whose  *)
(* main has returned.                                                      *)
Stoppable == DaemonUp => \A p \in Pid : Running(p) => Tracked(p) \/ p = cur
CleanExit == pc = "exited" => \A p \in Pid : ~Running(p)

(* The inductive invariant.                                                *)
IInv ==
  /\ TypeOK
  /\ InFlight
  /\ TableInv
  /\ Stoppable
  /\ CleanExit
  /\ OneSessionPerDevice
  /\ SessionsMatchConfig
  /\ ValidConfig(config)

LEMMA InitInv == Init => IInv
BY NoneAssumption
   DEF Init, IInv, TypeOK, InFlight, TableInv, Stoppable, CleanExit,
       OneSessionPerDevice, SessionsMatchConfig, ValidConfig, Table, Session,
       NoSession, ProcState, Control, EmptyTable, Running, Alive, Tracked, DaemonUp

(* What stop_all leaves of the children.                                   *)
LEMMA StopAllEffect ==
  ASSUME TypeOK
  PROVE  /\ AfterStopAll \in [Pid -> ProcState]
         /\ \A p \in Pid : AfterStopAll[p] = "running" => Running(p) /\ ~Tracked(p)
         /\ \A p \in Pid : AfterStopAll[p] \in {"running", "signalled"} => Alive(p)
         /\ \A p \in Pid : ~Tracked(p) => AfterStopAll[p] = proc[p]
BY DEF TypeOK, AfterStopAll, ProcState, Running, Alive, Collected

(* What Popen's cleanup leaves of the children.                            *)
LEMMA CleanupEffect ==
  ASSUME TypeOK, TableInv, NEW d \in Device
  PROVE  /\ AfterCleanup(d) \in [Pid -> ProcState]
         /\ \A p \in Pid : AfterCleanup(d)[p] \in {"running", "signalled"} \/ Alive(p)
                              => AfterCleanup(d)[p] = proc[p]
         /\ \A p \in Pid : Tracked(p) =>
              /\ AfterCleanup(d)[p] # "free"
              /\ proc[p] \in {"running", "zombie", "done"} =>
                   AfterCleanup(d)[p] \in {"running", "zombie", "done"}
<1>1. \A p \in Pid : proc[p] \in ProcState
  BY DEF TypeOK
<1>2. \A p \in Pid : AfterCleanup(d)[p] =
        IF proc[p] = "zombie" /\ p = connections[d] THEN "done"
        ELSE IF proc[p] = "zombie" /\ ~Tracked(p)   THEN "free"
        ELSE proc[p]
  BY DEF AfterCleanup
<1>3. AfterCleanup(d) \in [Pid -> ProcState]
  <2>1. AfterCleanup(d) = [p \in Pid |-> AfterCleanup(d)[p]]
    BY DEF AfterCleanup
  <2> QED
    BY <1>1, <1>2, <2>1 DEF ProcState
<1>4. \A p \in Pid : Tracked(p) => proc[p] \in {"running", "zombie", "done"}
  BY NoneAssumption DEF TableInv, Tracked
<1> QED
  BY <1>1, <1>2, <1>3, <1>4 DEF Alive, ProcState

LEMMA StepInv == IInv /\ [Next]_vars => IInv'
<1> SUFFICES ASSUME IInv, [Next]_vars PROVE IInv'
  OBVIOUS
<1> USE NoneAssumption
<1> USE DEF IInv
<1>1. ASSUME NEW table \in Table, EditConfig(table)
      PROVE IInv'
  BY <1>1 DEF EditConfig, TypeOK, InFlight, TableInv, Stoppable, CleanExit,
     OneSessionPerDevice, SessionsMatchConfig, ValidConfig, Table, Running, Alive,
     Tracked, DaemonUp
<1>2. CASE Start
  <2>1. TypeOK'
    BY <1>2 DEF Start, TypeOK, Table, Control, EmptyTable
  <2>2. \A p \in Pid : ~Alive(p) /\ ~Alive(p)' /\ ~Running(p)'
    BY <1>2 DEF Start, GroupGone, Alive, Running
  <2>3. InFlight' /\ TableInv'
    BY <1>2 DEF Start, InFlight, TableInv, TypeOK, EmptyTable, Tracked, DaemonUp
  <2>4. ValidConfig(config)'
    BY <1>2 DEF Start, ValidConfig
  <2> QED
    BY <2>1, <2>2, <2>3, <2>4
       DEF Stoppable, CleanExit, OneSessionPerDevice, SessionsMatchConfig
<1>3. CASE InstallHandlers
  BY <1>3 DEF InstallHandlers, TypeOK, InFlight, TableInv, Stoppable, CleanExit,
     OneSessionPerDevice, SessionsMatchConfig, ValidConfig, Control, Running, Alive,
     Tracked, DaemonUp
<1>4. CASE EnterLoop
  BY <1>4 DEF EnterLoop, TypeOK, InFlight, TableInv, Stoppable, CleanExit,
     OneSessionPerDevice, SessionsMatchConfig, ValidConfig, Control, Running, Alive,
     Tracked, DaemonUp
<1>5. ASSUME NEW d \in Device, NEW p \in Pid, NewConnection(d, p)
      PROVE IInv'
  <2> USE CleanupEffect
  <2>1. /\ ~Tracked(p) /\ cur = None /\ DaemonUp /\ DaemonUp' /\ ~Alive(p)
        /\ \A q \in Pid : Tracked(q)' <=> Tracked(q)
    BY <1>5 DEF NewConnection, InFlight, Tracked, DaemonUp, Alive
  <2>2. TypeOK'
    BY <1>5 DEF NewConnection, TypeOK, Session, ProcState, Control, Allowlisted, Table
  <2>3. \A q \in Pid : q # p =>
          /\ sess'[q] = sess[q]
          /\ Alive(q)' <=> Alive(q)
          /\ Running(q)' <=> Running(q)
          /\ Tracked(q) => proc'[q] # "free"
    BY <1>5 DEF NewConnection, TypeOK, Alive, Running
  <2>4. Running(p)' /\ sess'[p] = [dev |-> d, ip |-> config[d]]
    BY <1>5 DEF NewConnection, TypeOK, Running
  <2>5. TableInv'
    BY <1>5, <2>1, <2>3 DEF NewConnection, TableInv, TypeOK, Tracked, DaemonUp
  <2>6. InFlight'
    BY <1>5, <2>1, <2>3, <2>4
       DEF NewConnection, InFlight, TypeOK, Tracked, Running, Alive, ActiveSession
  <2>7. \A q \in Pid : Running(q) => sess[q].dev # d
    BY <1>5, <2>1 DEF NewConnection, Stoppable, ActiveSession, TableInv, Tracked,
       Running, Alive
  <2>8. OneSessionPerDevice'
    BY <2>3, <2>4, <2>7 DEF OneSessionPerDevice
  <2>9. Stoppable' /\ CleanExit'
    BY <1>5, <2>1, <2>3 DEF NewConnection, Stoppable, CleanExit
  <2>10. SessionsMatchConfig'
    BY <1>5, <2>3, <2>4 DEF NewConnection, SessionsMatchConfig, Allowlisted
  <2> QED
    BY <1>5, <2>2, <2>5, <2>6, <2>8, <2>9, <2>10 DEF NewConnection, ValidConfig
<1>6. ASSUME NEW d \in Device, NewConnectionFails(d)
      PROVE IInv'
  <2> USE CleanupEffect
  <2>1. \A q \in Pid : /\ Alive(q)' <=> Alive(q)
                       /\ Running(q)' <=> Running(q)
                       /\ Tracked(q)' <=> Tracked(q)
    BY <1>6 DEF NewConnectionFails, Alive, Running, Tracked
  <2>2. TypeOK' /\ TableInv'
    BY <1>6 DEF NewConnectionFails, TypeOK, TableInv, Tracked, DaemonUp
  <2>3. InFlight'
    BY <1>6, <2>1 DEF NewConnectionFails, InFlight
  <2> QED
    BY <1>6, <2>1, <2>2, <2>3 DEF NewConnectionFails, Stoppable, CleanExit,
       OneSessionPerDevice, SessionsMatchConfig, ValidConfig, DaemonUp
<1>7. CASE Record
  <2>1. cur \in Pid /\ sess[cur].dev \in Device /\ ~Tracked(cur)
    BY <1>7 DEF Record, InFlight, TypeOK
  <2>2. TypeOK'
    BY <1>7, <2>1 DEF Record, TypeOK, ProcState, Control
  <2>3. \A q \in Pid : /\ Alive(q)' <=> Alive(q)
                       /\ Running(q)' <=> Running(q)
    BY <1>7, <2>1 DEF Record, TypeOK, Alive, Running
  <2>4. \A q \in Pid : Running(q) /\ Tracked(q) => \E e \in Device : connections'[e] = q
    BY <1>7, <2>1 DEF Record, TypeOK, InFlight, Tracked, Running, Alive
  <2>5. \E e \in Device : connections'[e] = cur
    BY <1>7, <2>1 DEF Record, TypeOK
  <2>6. Stoppable' /\ CleanExit'
    BY <1>7, <2>3, <2>4, <2>5 DEF Record, Stoppable, CleanExit, DaemonUp, Tracked
  <2>7. TableInv'
    <3>1. proc[cur] \in {"running", "zombie"}
      BY <1>7, <2>1 DEF Record, InFlight
    <3>2. \A e \in Device : e # sess[cur].dev /\ connections[e] # None =>
             connections[e] # connections[sess[cur].dev]
      BY <2>1 DEF TableInv
    <3> QED
      BY <1>7, <2>1, <2>2, <3>1, <3>2 DEF Record, TypeOK, TableInv, DaemonUp, Tracked, InFlight
  <2>8. InFlight'
    BY <1>7 DEF Record, InFlight
  <2> QED
    BY <1>7, <2>2, <2>3, <2>6, <2>7, <2>8
       DEF Record, OneSessionPerDevice, SessionsMatchConfig, ValidConfig
<1>8. ASSUME NEW d \in Device, RequestDisconnection(d)
      PROVE IInv'
  <2>1. TypeOK'
    BY <1>8 DEF RequestDisconnection, TypeOK, Control
  <2>2. connections[d] \in Pid /\ cur = None /\ cur' = connections[d]
    BY <1>8 DEF RequestDisconnection, TypeOK, InFlight
  <2>3. \A q \in Pid : /\ Alive(q)' <=> Alive(q)
                       /\ Running(q)' <=> Running(q)
                       /\ Tracked(q) => Tracked(q)' \/ q = cur'
    BY <1>8, <2>2 DEF RequestDisconnection, TypeOK, Alive, Running, Tracked
  <2>4. InFlight' /\ TableInv'
    BY <1>8, <2>2 DEF RequestDisconnection, TypeOK, InFlight, TableInv, Tracked, DaemonUp
  <2>5. Stoppable' /\ CleanExit'
    BY <1>8, <2>2, <2>3 DEF RequestDisconnection, Stoppable, CleanExit, DaemonUp
  <2> QED
    BY <1>8, <2>1, <2>3, <2>4, <2>5 DEF RequestDisconnection, OneSessionPerDevice,
       SessionsMatchConfig, ValidConfig
<1>9. CASE Kill
  <2> USE <1>9 DEF Kill, StopCurrent
  <2>1. cur \in Pid /\ ~Tracked(cur)
    BY DEF InFlight, TypeOK
  <2>2. TypeOK'
    BY <2>1 DEF TypeOK, ProcState, Control
  <2>3. \A q \in Pid : /\ Alive(q)' => Alive(q)
                       /\ Running(q)' => Running(q) /\ q # cur
                       /\ Tracked(q)' <=> Tracked(q)
                       /\ Tracked(q) => proc'[q] = proc[q]
    BY <2>1 DEF TypeOK, Alive, Running, Tracked
  <2>4. InFlight' /\ TableInv'
    BY <2>3 DEF TypeOK, InFlight, TableInv, Tracked, DaemonUp
  <2> QED
    BY <2>2, <2>3, <2>4 DEF Stoppable, CleanExit, OneSessionPerDevice,
       SessionsMatchConfig, ValidConfig, DaemonUp
<1>10. CASE Signal
  BY <1>10, StopAllEffect DEF Signal, TypeOK, InFlight, TableInv, Stoppable,
     CleanExit, OneSessionPerDevice, SessionsMatchConfig, ValidConfig, EmptyTable,
     Running, Alive, Tracked, DaemonUp
<1>11. CASE Release
  BY <1>11, StopAllEffect DEF Release, TypeOK, InFlight, TableInv, Stoppable,
     CleanExit, OneSessionPerDevice, SessionsMatchConfig, ValidConfig, EmptyTable,
     Running, Alive, Tracked, DaemonUp
<1>12. CASE Reap
  <2> USE <1>12 DEF Reap
  <2>1. TypeOK'
    BY DEF TypeOK, ProcState
  <2>2. \A q \in Pid : /\ Alive(q)' => Alive(q)
                       /\ Running(q)' => Running(q) /\ q \notin ExitedChildren
                       /\ q \notin ExitedChildren => proc'[q] = proc[q]
    BY DEF TypeOK, ExitedChildren, Alive, Running
  <2>3. \A q \in Pid : q \notin ExitedChildren /\ Tracked(q) => Tracked(q)'
    BY DEF Tracked, TypeOK
  <2>4. \A e \in Device : connections'[e] # None =>
          connections'[e] = connections[e] /\ connections[e] \notin ExitedChildren
    BY DEF TypeOK
  <2>5. TableInv'
    BY <2>2, <2>4 DEF TypeOK, TableInv, DaemonUp
  <2>6. InFlight'
    BY DEF InFlight
  <2> QED
    BY <2>1, <2>2, <2>3, <2>5, <2>6 DEF Stoppable, CleanExit, OneSessionPerDevice,
       SessionsMatchConfig, ValidConfig, DaemonUp
<1>13. CASE LoopReturn
  BY <1>13 DEF LoopReturn, TypeOK, InFlight, TableInv, Stoppable, CleanExit,
     OneSessionPerDevice, SessionsMatchConfig, ValidConfig, Control, Running, Alive,
     Tracked, DaemonUp
<1>14. CASE Finally
  <2> USE <1>14, StopAllEffect DEF Finally, ExitWith
  <2>1. TypeOK'
    BY DEF TypeOK, ProcState, Control, EmptyTable
  <2>2. \A q \in Pid : (Alive(q)' => Alive(q)) /\ ~Running(q)'
    BY DEF TypeOK, Alive, Running, Stoppable, InFlight, DaemonUp
  <2>3. InFlight' /\ TableInv'
    BY DEF TypeOK, InFlight, TableInv, EmptyTable, Tracked, DaemonUp
  <2> QED
    BY <2>1, <2>2, <2>3 DEF Stoppable, CleanExit, OneSessionPerDevice,
       SessionsMatchConfig, ValidConfig
<1>15. CASE Crash
  <2> USE <1>15 DEF Crash
  <2>1. TypeOK'
    BY DEF TypeOK, ProcState, Control, EmptyTable
  <2>2. \A q \in Pid : (Alive(q)' => Alive(q)) /\ (Running(q)' => Running(q))
    BY DEF TypeOK, Alive, Running
  <2>3. InFlight' /\ TableInv'
    BY DEF TypeOK, InFlight, TableInv, EmptyTable, Tracked, DaemonUp
  <2> QED
    BY <2>1, <2>2, <2>3 DEF Stoppable, CleanExit, OneSessionPerDevice,
       SessionsMatchConfig, ValidConfig, DaemonUp
<1>16. ASSUME NEW p \in Pid, PppdExit(p)
       PROVE IInv'
  <2> USE <1>16 DEF PppdExit
  <2>1. TypeOK'
    BY DEF TypeOK, ProcState
  <2>2. \A q \in Pid : (Alive(q)' => Alive(q)) /\ (Running(q)' => Running(q))
    BY DEF TypeOK, Alive, Running
  <2>3. InFlight' /\ TableInv'
    BY <2>2 DEF TypeOK, InFlight, TableInv, Tracked, Alive, DaemonUp
  <2> QED
    BY <2>1, <2>2, <2>3 DEF Stoppable, CleanExit, OneSessionPerDevice,
       SessionsMatchConfig, ValidConfig, Tracked, DaemonUp
<1>17. CASE UNCHANGED vars
  BY <1>17 DEF vars, TypeOK, InFlight, TableInv, Stoppable, CleanExit,
     OneSessionPerDevice, SessionsMatchConfig, ValidConfig, Running, Alive,
     Tracked, DaemonUp
<1> QED
  BY <1>1, <1>2, <1>3, <1>4, <1>5, <1>6, <1>7, <1>8, <1>9, <1>10, <1>11, <1>12,
     <1>13, <1>14, <1>15, <1>16, <1>17 DEF Next

(* The inductive invariant holds in every reachable state of the daemon, its *)
(* children and systemd.                                                   *)
THEOREM Invariance == Spec => []IInv
BY InitInv, StepInv, PTL DEF Spec

(* Every variable keeps its type, and every Popen object that was used     *)
(* carries a device of the allowlist and an address.                       *)
THEOREM TypeCorrect == Spec => []TypeOK
BY Invariance, PTL DEF IInv

(* However signals interleave with NewConnection, RequestDisconnection and *)
(* the reaper, the daemon never loses sight of a pppd it has not stopped,  *)
(* and main never returns with one that was not sent SIGTERM.              *)
THEOREM NothingStray == Spec => []NoStrayPppd
<1>1. IInv => NoStrayPppd
  BY DEF IInv, Stoppable, CleanExit, NoStrayPppd, DaemonUp
<1> QED
  BY <1>1, Invariance, PTL

(* At most one pppd per device that was not told to stop.                  *)
THEOREM OneSession == Spec => []OneSessionPerDevice
BY Invariance, PTL DEF IInv

(* Live pppd agree with the allowlist the daemon loaded, whatever happens  *)
(* to the file and however often the daemon is restarted.                  *)
THEOREM SessionsConfigured == Spec => []SessionsMatchConfig
BY Invariance, PTL DEF IInv

(* On any subnet load_config accepts, and whatever happens to the file and *)
(* the daemon, live pppd share an interface name only as the old and the   *)
(* new child of one device, or when the addresses of their devices differ  *)
(* and end in one octet.                                                   *)
THEOREM SessionsAreDistinct == Spec => []SessionsDistinct
<1>1. IInv => SessionsDistinct
  <2> SUFFICES ASSUME IInv, NEW p \in Pid, NEW q \in Pid, p # q, Alive(p), Alive(q),
                      Interface(sess[p].ip) = Interface(sess[q].ip)
               PROVE  LET d == sess[p].dev
                          e == sess[q].dev IN
                      \/ d = e /\ ~(Running(p) /\ Running(q))
                      \/ d # e /\ config[d] # config[e] /\ config[d] % 256 = config[e] % 256
    BY DEF SessionsDistinct
  <2>1. /\ sess[p].dev \in Device /\ config[sess[p].dev] = sess[p].ip
        /\ config[sess[p].dev] # None
        /\ sess[q].dev \in Device /\ config[sess[q].dev] = sess[q].ip
    BY DEF IInv, SessionsMatchConfig
  <2>2. CASE sess[p].dev = sess[q].dev
    BY <2>2 DEF IInv, OneSessionPerDevice
  <2>3. CASE sess[p].dev # sess[q].dev
    <3>1. config[sess[p].dev] # config[sess[q].dev]
      BY <2>1, <2>3 DEF IInv, ValidConfig
    <3> QED BY <2>1, <2>3, <3>1 DEF Interface
  <2> QED BY <2>2, <2>3
<1> QED
  BY <1>1, Invariance, PTL
=============================================================================
