------------------------- MODULE PairingWindowProofs -------------------------
(* Proofs about PairingWindow, for any number of administrators' processes *)
(* and any duration.                                                       *)
EXTENDS PairingWindow, TLAPS

(* A command that is about to set a flag has set the timeouts before, and  *)
(* nothing ever unsets them.                                               *)
ArmedFirst ==
  \A p \in Admin : pc[p] \in {"pair", "discover"} => adapter.timeout = D

IInv ==
  /\ TypeOK
  /\ ArmedFirst
  /\ DiscoveryTimed

LEMMA InitInv == Init => IInv
BY DurationAssumption, ProcAssumption
   DEF Init, IInv, TypeOK, Adapter, ArmedFirst, DiscoveryTimed, Phase, OpenStep,
       CloseStep, Proc

(* Dropping page scan touches nothing but connectable.                     *)
LEMMA DropScanKeeps ==
  ASSUME NEW old, NEW new \in Adapter
  PROVE  /\ DropScan(old, new) \in Adapter
         /\ DropScan(old, new).timeout = new.timeout
         /\ DropScan(old, new).discoverable = new.discoverable
         /\ DropScan(old, new).discLeft = new.discLeft
<1>1. CASE ~new.pairable /\ ~new.discoverable /\ (old.pairable \/ old.discoverable)
  BY <1>1 DEF DropScan, Adapter
<1>2. CASE ~(~new.pairable /\ ~new.discoverable /\ (old.pairable \/ old.discoverable))
  BY <1>2 DEF DropScan
<1> QED
  BY <1>1, <1>2

(* The five things that happen to the adapter: each keeps its type and its *)
(* timeouts, and leaves no flag of discovery without a countdown.          *)
LEMMA AdapterSteps ==
  ASSUME NEW a \in Adapter, a.discoverable => a.discLeft > 0
  PROVE  /\ \A v \in BOOLEAN :
              /\ SetPairable(a, v) \in Adapter
              /\ SetPairable(a, v).timeout = a.timeout
              /\ SetPairable(a, v).discoverable => SetPairable(a, v).discLeft > 0
         /\ \A v \in BOOLEAN :
              /\ SetDiscoverable(a, v) \in Adapter
              /\ SetDiscoverable(a, v).timeout = a.timeout
              /\ ~v \/ a.timeout = D =>
                   (SetDiscoverable(a, v).discoverable => SetDiscoverable(a, v).discLeft > 0)
         /\ /\ SetConnectable(a) \in Adapter
            /\ SetConnectable(a).timeout = a.timeout
            /\ SetConnectable(a).discoverable => SetConnectable(a).discLeft > 0
         /\ /\ Arm(a) \in Adapter
            /\ Arm(a).timeout = D
            /\ Arm(a).discoverable => Arm(a).discLeft > 0
         /\ /\ Elapse(a) \in Adapter
            /\ Elapse(a).timeout = a.timeout
            /\ Elapse(a).discoverable => Elapse(a).discLeft > 0
<1> USE DurationAssumption
<1>1. ASSUME NEW v \in BOOLEAN
      PROVE  /\ SetPairable(a, v) \in Adapter
             /\ SetPairable(a, v).timeout = a.timeout
             /\ SetPairable(a, v).discoverable => SetPairable(a, v).discLeft > 0
  <2> DEFINE b == [a EXCEPT !.pairable = v, !.pairLeft = IF v THEN a.timeout ELSE 0]
  <2>1. (IF v THEN a.timeout ELSE 0) \in 0..D
    BY DEF Adapter
  <2>2. /\ b \in Adapter /\ b.timeout = a.timeout
        /\ b.discoverable = a.discoverable /\ b.discLeft = a.discLeft
    BY <2>1 DEF Adapter
  <2> HIDE DEF b
  <2>3. DropScan(a, b).discoverable => DropScan(a, b).discLeft > 0
    BY <2>2, DropScanKeeps
  <2> QED
    BY <2>2, <2>3, DropScanKeeps DEF SetPairable, b
<1>2. ASSUME NEW v \in BOOLEAN
      PROVE  /\ SetDiscoverable(a, v) \in Adapter
             /\ SetDiscoverable(a, v).timeout = a.timeout
             /\ ~v \/ a.timeout = D =>
                  (SetDiscoverable(a, v).discoverable => SetDiscoverable(a, v).discLeft > 0)
  <2> DEFINE b == [a EXCEPT !.discoverable = v, !.discLeft = IF v THEN a.timeout ELSE 0,
                            !.connectable = @ \/ v]
  <2>1. (IF v THEN a.timeout ELSE 0) \in 0..D /\ (a.connectable \/ v) \in BOOLEAN
    BY DEF Adapter
  <2>2. /\ b \in Adapter /\ b.timeout = a.timeout
        /\ b.discoverable = v /\ b.discLeft = IF v THEN a.timeout ELSE 0
    BY <2>1 DEF Adapter
  <2>4. SetDiscoverable(a, v) = DropScan(a, b)
    BY DEF SetDiscoverable
  <2> HIDE DEF b
  <2>3. ~v \/ a.timeout = D => (DropScan(a, b).discoverable => DropScan(a, b).discLeft > 0)
    BY <2>2, DropScanKeeps
  <2> QED
    BY <2>2, <2>3, <2>4, DropScanKeeps
<1>3. /\ SetConnectable(a) \in Adapter
      /\ SetConnectable(a).timeout = a.timeout
      /\ SetConnectable(a).discoverable => SetConnectable(a).discLeft > 0
  BY DEF SetConnectable, Adapter
<1>4. /\ Arm(a) \in Adapter
      /\ Arm(a).timeout = D
      /\ Arm(a).discoverable => Arm(a).discLeft > 0
  <2>1. /\ (IF a.pairable THEN D ELSE 0) \in 0..D
        /\ (IF a.discoverable THEN D ELSE 0) \in 0..D
        /\ a.discoverable => (IF a.discoverable THEN D ELSE 0) > 0
    OBVIOUS
  <2>2. /\ Arm(a).discoverable = a.discoverable
        /\ Arm(a).discLeft = IF a.discoverable THEN D ELSE 0
        /\ Arm(a) \in Adapter /\ Arm(a).timeout = D
    BY <2>1 DEF Arm, Adapter
  <2> QED
    BY <2>1, <2>2
<1>5. /\ Elapse(a) \in Adapter
      /\ Elapse(a).timeout = a.timeout
      /\ Elapse(a).discoverable => Elapse(a).discLeft > 0
  <2> DEFINE p == IF a.pairLeft = 0 THEN 0 ELSE a.pairLeft - 1
             d == IF a.discLeft = 0 THEN 0 ELSE a.discLeft - 1
             b == [a EXCEPT !.pairLeft = p, !.discLeft = d,
                            !.pairable = @ /\ (a.pairLeft # 1),
                            !.discoverable = @ /\ (a.discLeft # 1)]
  <2>1. /\ p \in 0..D /\ d \in 0..D
        /\ a.discoverable /\ a.discLeft # 1 => d > 0
        /\ (a.pairable /\ (a.pairLeft # 1)) \in BOOLEAN
        /\ (a.discoverable /\ (a.discLeft # 1)) \in BOOLEAN
    BY DEF Adapter
  <2> HIDE DEF p, d
  <2>2. /\ b \in Adapter /\ b.timeout = a.timeout
        /\ b.discoverable = (a.discoverable /\ (a.discLeft # 1)) /\ b.discLeft = d
    BY <2>1 DEF Adapter
  <2>3. Elapse(a) = DropScan(a, b)
    BY DEF Elapse, p, d
  <2> HIDE DEF b
  <2>4. DropScan(a, b).discoverable => DropScan(a, b).discLeft > 0
    BY <2>1, <2>2, DropScanKeeps
  <2> QED
    BY <2>2, <2>3, <2>4, DropScanKeeps
<1> QED
  BY <1>1, <1>2, <1>3, <1>4, <1>5

LEMMA RecordedType == ASSUME calm \in BOOLEAN, Recorded PROVE calm' \in BOOLEAN
BY DEF Recorded

(* A file that is written is its writer's, or does not parse.              *)
LEMMA OverKnown ==
  ASSUME NEW p \in Admin, NEW old
  PROVE  /\ Over(old, p) \subseteq Content
         /\ old.pin = None => Over(old, p) = {[pin |-> p, left |-> D]}
<1>1. \A x \in {p, Mixed} : [pin |-> x, left |-> D] \in Content
  BY DurationAssumption DEF Content
<1>2. Over(old, p) \subseteq {[pin |-> x, left |-> D] : x \in {p, Mixed}}
  BY DEF Over
<1>3. old.pin = None => Over(old, p) = {[pin |-> p, left |-> D]}
  BY DEF Over
<1> QED BY <1>1, <1>2, <1>3

LEMMA StepInv == IInv /\ [Next]_vars => IInv'
<1> SUFFICES ASSUME IInv, [Next]_vars PROVE IInv'
  OBVIOUS
<1> USE AdapterSteps, ProcAssumption, DurationAssumption
    DEF IInv, TypeOK, ArmedFirst, DiscoveryTimed, Goto, Run, Idle, OpenStep, CloseStep, Proc, Phase
<1>1. ASSUME NEW p \in Admin, OpenCommand(p) \/ CloseCommand(p)
      PROVE IInv'
  BY <1>1, RecordedType DEF OpenCommand, CloseCommand
<1>2. ASSUME NEW p \in Admin, OpenNext(p)
      PROVE IInv'
  <2>1. CASE Truncate(p)
    BY <2>1, RecordedType DEF Truncate, Content
  <2>9. CASE Write(p)
    <3>1. tmp' \in Content \cup {None} /\ file' \in Content \cup {None}
      BY <2>9, OverKnown DEF Write
    <3> QED BY <2>9, <3>1, RecordedType DEF Write
  <2>5. CASE Publish(p)
    BY <2>5, RecordedType DEF Publish, Renamed
  <2>8. CASE PublishFails(p)
    BY <2>8 DEF PublishFails
  <2>6. CASE Compat(p)
    <3>1. /\ \E next \in {"arm", "stalled", "idle"} : pc' = [pc EXCEPT ![p] = next]
          /\ calm' \in BOOLEAN
      BY <2>6, RecordedType DEF Compat
    <3> QED
      BY <2>6, <3>1 DEF Compat
  <2>7. CASE StartTimer(p) \/ Report(p)
    BY <2>7, RecordedType DEF StartTimer, RestartTimer, Report
  <2>2. CASE ArmTimeouts(p)
    BY <2>2, RecordedType DEF ArmTimeouts
  <2>3. CASE MakePairable(p)
    BY <2>3, RecordedType DEF MakePairable
  <2>4. CASE MakeDiscoverable(p)
    BY <2>4, RecordedType DEF MakeDiscoverable
  <2> QED
    BY <1>2, <2>1, <2>2, <2>3, <2>4, <2>5, <2>6, <2>7, <2>8, <2>9 DEF OpenNext
<1>3. ASSUME NEW p \in Proc, CloseNext(p)
      PROVE IInv'
  <2>1. CASE Hide(p)
    BY <2>1, RecordedType DEF Hide
  <2>2. CASE Unpair(p)
    BY <2>2, RecordedType DEF Unpair
  <2>3. CASE Connect(p)
    BY <2>3, RecordedType DEF Connect, Reconnect
  <2>4. CASE Unlink(p) \/ StopTimer(p)
    BY <2>4, RecordedType DEF Unlink, Unlinked, Removed, StopTimer
  <2> QED
    BY <1>3, <2>1, <2>2, <2>3, <2>4 DEF CloseNext
<1>4. CASE TimerFires \/ DaemonStop
  BY <1>4, RecordedType DEF TimerFires, DaemonStop
<1>5. CASE DaemonNext
  <2>1. CASE Register
    BY <2>1, RecordedType DEF Register, Adapter
  <2>2. CASE Check
    BY <2>2, RecordedType DEF Check
  <2>3. CASE Enforce
    BY <2>3, RecordedType DEF Enforce
  <2> QED
    BY <1>5, <2>1, <2>2, <2>3 DEF DaemonNext
<1>6. CASE Tick
  BY <1>6, RecordedType DEF Tick, Aged, Content
<1>7. ASSUME NEW p \in Proc, Raises(p)
      PROVE IInv'
  BY <1>7 DEF Raises
<1>8. CASE UNCHANGED vars
  BY <1>8 DEF vars
<1> QED
  BY <1>1, <1>2, <1>3, <1>4, <1>5, <1>6, <1>7, <1>8 DEF Next

(* The inductive invariant holds in every reachable state.                 *)
THEOREM Invariance == Spec => []IInv
BY InitInv, StepInv, PTL DEF Spec

(* Type correctness of the window's files, adapter, timer and commands.    *)
THEOREM TypeCorrect == Spec => []TypeOK
<1>1. IInv => TypeOK
  BY DEF IInv
<1> QED
  BY <1>1, Invariance, PTL

(* Discovery never outlives its countdown, whatever overlaps or fails.     *)
THEOREM DiscoveryAlwaysTimed == Spec => []DiscoveryTimed
<1>1. IInv => DiscoveryTimed
  BY DEF IInv
<1> QED
  BY <1>1, Invariance, PTL

-----------------------------------------------------------------------------
(* While nothing has overlapped, failed or stalled, one actor is at work   *)
(* at a time, and what it has done so far stands.                          *)

(* A command on its way to starting the timer, or to restoring page scan.  *)
Working(p) ==
  pc[p] \in {"truncate", "write", "publish", "compat", "arm", "pair", "discover",
             "startTimer", "hide", "unpair", "unlink", "connect"}

Pending == timer # None \/ \E p \in Proc : Working(p)

(* The page scan that is off, or that a countdown will drop, and the PIN:  *)
(* something is under way that restores the one and removes the other.     *)
Restored ==
  /\ ~adapter.connectable \/ adapter.pairLeft > 0 \/ adapter.discLeft > 0 =>
       Pending \/ daemon \notin {"up", "down"}
  /\ file # None => Pending
  /\ daemon \in {"unpair", "connect"} => adapter.discLeft = 0
  /\ daemon = "connect" => adapter.pairLeft = 0

(* What a close has done by each of its steps ...                          *)
CloseSoFar(p) ==
  /\ pc[p] \in {"unpair", "unlink", "connect", "stopTimer"} => adapter.discLeft = 0
  /\ pc[p] \in {"unlink", "connect", "stopTimer"} => adapter.pairLeft = 0
  /\ pc[p] \in {"connect", "stopTimer"} => file = None
  /\ pc[p] = "stopTimer" => adapter.connectable

(* ... and an open: a flag it has set outlasts the PIN it has published.   *)
OpenSoFar(p) ==
  /\ pc[p] = "write" => inode[p] = "tmp" /\ tmp # None /\ tmp.pin = None
  /\ pc[p] = "publish" => tmp # None /\ tmp.pin = p
  /\ pc[p] \in {"compat", "arm", "pair", "discover", "startTimer", "opened"} =>
       file # None /\ file.pin = p
  /\ pc[p] \in {"discover", "startTimer", "opened"} /\ file.left > 0 =>
       adapter.pairable /\ adapter.pairLeft >= file.left
  /\ pc[p] \in {"startTimer", "opened"} /\ file.left > 0 =>
       adapter.discoverable /\ adapter.discLeft >= file.left
  /\ pc[p] = "opened" => timer # None

CalmInv ==
  calm => /\ Orderly /\ Restored
          /\ \A p \in Proc : CloseSoFar(p)
          /\ \A p \in Admin : OpenSoFar(p)

(* What each call does to the flags, the countdowns and page scan.         *)
LEMMA FlagSteps ==
  ASSUME NEW a \in Adapter
  PROVE  /\ \A v \in BOOLEAN :
              /\ SetPairable(a, v).pairable = v
              /\ SetPairable(a, v).pairLeft = IF v THEN a.timeout ELSE 0
              /\ SetPairable(a, v).discoverable = a.discoverable
              /\ SetPairable(a, v).discLeft = a.discLeft
         /\ \A v \in BOOLEAN :
              /\ SetDiscoverable(a, v).pairable = a.pairable
              /\ SetDiscoverable(a, v).pairLeft = a.pairLeft
              /\ SetDiscoverable(a, v).discoverable = v
              /\ SetDiscoverable(a, v).discLeft = IF v THEN a.timeout ELSE 0
         /\ /\ SetConnectable(a).connectable
            /\ SetConnectable(a).pairLeft = a.pairLeft
            /\ SetConnectable(a).discLeft = a.discLeft
         /\ /\ Elapse(a).pairable = (a.pairable /\ a.pairLeft # 1)
            /\ Elapse(a).pairLeft = IF a.pairLeft = 0 THEN 0 ELSE a.pairLeft - 1
            /\ Elapse(a).discoverable = (a.discoverable /\ a.discLeft # 1)
            /\ Elapse(a).discLeft = IF a.discLeft = 0 THEN 0 ELSE a.discLeft - 1
            /\ a.connectable /\ a.pairLeft = 0 /\ a.discLeft = 0 => Elapse(a).connectable
<1>1. ASSUME NEW v \in BOOLEAN
      PROVE  /\ SetPairable(a, v).pairable = v
             /\ SetPairable(a, v).pairLeft = IF v THEN a.timeout ELSE 0
             /\ SetPairable(a, v).discoverable = a.discoverable
             /\ SetPairable(a, v).discLeft = a.discLeft
  BY DEF SetPairable, DropScan, Adapter
<1>2. ASSUME NEW v \in BOOLEAN
      PROVE  /\ SetDiscoverable(a, v).pairable = a.pairable
             /\ SetDiscoverable(a, v).pairLeft = a.pairLeft
             /\ SetDiscoverable(a, v).discoverable = v
             /\ SetDiscoverable(a, v).discLeft = IF v THEN a.timeout ELSE 0
  BY DEF SetDiscoverable, DropScan, Adapter
<1>3. /\ SetConnectable(a).connectable
      /\ SetConnectable(a).pairLeft = a.pairLeft
      /\ SetConnectable(a).discLeft = a.discLeft
  BY DEF SetConnectable, Adapter
<1>4. /\ Elapse(a).pairable = (a.pairable /\ a.pairLeft # 1)
      /\ Elapse(a).pairLeft = IF a.pairLeft = 0 THEN 0 ELSE a.pairLeft - 1
      /\ Elapse(a).discoverable = (a.discoverable /\ a.discLeft # 1)
      /\ Elapse(a).discLeft = IF a.discLeft = 0 THEN 0 ELSE a.discLeft - 1
      /\ a.connectable /\ a.pairLeft = 0 /\ a.discLeft = 0 => Elapse(a).connectable
  BY DEF Elapse, DropScan, Adapter
<1> QED BY <1>1, <1>2, <1>3, <1>4

(* Process p takes a step while all is calm: nobody else is at work.       *)
LEMMA ActorStep ==
  ASSUME IInv, CalmInv, calm, Orderly', daemon' = daemon,
         NEW p \in Proc, NEW x, pc' = [pc EXCEPT ![p] = x], pc[p] # "idle" \/ x # "idle",
         Restored' \/ Working(p)', CloseSoFar(p)', p \in Admin => OpenSoFar(p)'
  PROVE  CalmInv'
<1>1. pc'[p] = x /\ \A q \in Proc \ {p} : pc'[q] = pc[q]
  BY DEF IInv, TypeOK
<1>2. \A q \in Proc \ {p} : pc'[q] = "idle"
  BY <1>1 DEF CalmInv, Orderly, Idle
<1>3. daemon \in {"up", "down"}
  BY <1>1 DEF CalmInv, Orderly, AllIdle, Idle
<1>4. Restored'
  BY <1>3 DEF Restored, Pending
<1>5. \A q \in Proc : CloseSoFar(q)'
  BY <1>2 DEF CloseSoFar
<1>6. \A q \in Admin : OpenSoFar(q)'
  BY <1>2 DEF OpenSoFar, Proc
<1> QED BY <1>4, <1>5, <1>6 DEF CalmInv

LEMMA CalmInit == Init => CalmInv
BY NoneAssumption
   DEF Init, CalmInv, Orderly, Restored, Pending, CloseSoFar, OpenSoFar, AllIdle, Idle, Proc

LEMMA CalmOpen ==
  ASSUME IInv, CalmInv, NEW p \in Admin, OpenCommand(p) \/ OpenNext(p)
  PROVE  CalmInv'
<1> SUFFICES ASSUME calm' PROVE CalmInv'
  BY DEF CalmInv
<1> USE DEF Goto, Run, Idle
<1>0. /\ p \in Proc /\ adapter \in Adapter /\ DOMAIN pc = Proc /\ DOMAIN inode = Admin
      /\ file \in Content \cup {None} /\ tmp \in Content \cup {None}
  BY DEF IInv, TypeOK, Proc
<1>1. /\ calm /\ Orderly' /\ daemon' = daemon
      /\ pc[p] # "idle" => CloseSoFar(p) /\ OpenSoFar(p)
  BY <1>0 DEF CalmInv, OpenCommand, OpenNext, Recorded, Truncate, Write, Publish, PublishFails,
     Compat, ArmTimeouts, MakePairable, MakeDiscoverable, StartTimer, Report
<1>2. CASE OpenCommand(p)
  BY <1>0, <1>1, <1>2, ActorStep DEF OpenCommand, Working, CloseSoFar, OpenSoFar
<1>3. CASE Truncate(p)
  <2>1. tmp' = [pin |-> None, left |-> D] /\ tmp' \in Content
    BY <1>3, DurationAssumption DEF Truncate, Content
  <2>2. tmp' # None /\ tmp'.pin = None
    BY <2>1, NoneAssumption
  <2> QED BY <1>0, <1>1, <1>3, <2>2, ActorStep DEF Truncate, Working, CloseSoFar, OpenSoFar
<1>4. CASE Write(p)
  <2>1. tmp' = [pin |-> p, left |-> D] /\ tmp' # None
    <3>1. inode[p] = "tmp" /\ tmp.pin = None
      BY <1>1, <1>4 DEF Write, OpenSoFar
    <3>2. tmp' = [pin |-> p, left |-> D] /\ tmp' \in Content
      BY <1>4, <3>1, OverKnown DEF Write
    <3> QED BY <3>2, NoneAssumption
  <2>2. tmp'.pin = p
    BY <2>1
  <2> HIDE DEF Goto
  <2>3. pc[p] = "write" /\ pc' = [pc EXCEPT ![p] = "publish"] /\ pc'[p] = "publish"
    BY <1>0, <1>4 DEF Write, Goto
  <2> QED BY <1>1, <2>1, <2>2, <2>3, <1>0, ActorStep DEF Working, CloseSoFar, OpenSoFar
<1>5. CASE Publish(p)
  BY <1>0, <1>1, <1>5, ActorStep DEF Publish, Working, CloseSoFar, OpenSoFar
<1>6. CASE Compat(p)
  <2>1. Goto(p, "compat", "arm")
    BY <1>0, <1>1, <1>6 DEF Compat, Orderly
  <2> QED BY <1>0, <1>1, <1>6, <2>1, ActorStep DEF Compat, Working, CloseSoFar, OpenSoFar
<1>7. CASE ArmTimeouts(p)
  BY <1>0, <1>1, <1>7, ActorStep DEF ArmTimeouts, Working, CloseSoFar, OpenSoFar
<1>8. CASE MakePairable(p)
  <2>1. adapter'.pairable /\ adapter'.pairLeft = D
    BY <1>0, <1>8, FlagSteps DEF MakePairable, IInv, ArmedFirst
  <2>2. file # None /\ file.pin = p /\ D >= file.left
    BY <1>0, <1>1, <1>8, DurationAssumption DEF MakePairable, OpenSoFar, Content
  <2> QED BY <1>0, <1>1, <1>8, <2>1, <2>2, ActorStep
          DEF MakePairable, Working, CloseSoFar, OpenSoFar
<1>9. CASE MakeDiscoverable(p)
  <2>1. /\ adapter'.discoverable /\ adapter'.discLeft = D
        /\ adapter'.pairable = adapter.pairable /\ adapter'.pairLeft = adapter.pairLeft
    BY <1>0, <1>9, FlagSteps DEF MakeDiscoverable, IInv, ArmedFirst
  <2>2. file # None /\ file.pin = p /\ D >= file.left
    BY <1>0, <1>1, <1>9, DurationAssumption DEF MakeDiscoverable, OpenSoFar, Content
  <2> QED BY <1>0, <1>1, <1>9, <2>1, <2>2, ActorStep
          DEF MakeDiscoverable, Working, CloseSoFar, OpenSoFar
<1>10. CASE StartTimer(p)
  <2>1. timer' # None /\ Restored'
    <3>1. timer' # None
      BY <1>10, DurationAssumption, NoneAssumption DEF StartTimer, RestartTimer
    <3>2. daemon \in {"up", "down"}
      BY <1>0, <1>1, <1>10 DEF StartTimer, CalmInv, Orderly, AllIdle
    <3> QED BY <1>1, <3>1, <3>2 DEF Restored, Pending
  <2> QED BY <1>0, <1>1, <1>10, <2>1, ActorStep DEF StartTimer, CloseSoFar, OpenSoFar
<1>11. CASE Report(p)
  <2>1. Restored'
    <3>1. timer' # None
      BY <1>1, <1>11 DEF Report, OpenSoFar
    <3>2. daemon \in {"up", "down"}
      BY <1>0, <1>1, <1>11 DEF Report, CalmInv, Orderly, AllIdle
    <3> QED BY <1>1, <3>1, <3>2 DEF Restored, Pending
  <2> QED BY <1>0, <1>1, <1>11, <2>1, ActorStep DEF Report, CloseSoFar, OpenSoFar
<1>12. CASE PublishFails(p)
  BY <1>12 DEF PublishFails
<1> QED
  BY <1>2, <1>3, <1>4, <1>5, <1>6, <1>7, <1>8, <1>9, <1>10, <1>11, <1>12 DEF OpenNext

LEMMA CalmClose ==
  ASSUME IInv, CalmInv, NEW p \in Proc,
         \/ p \in Admin /\ CloseCommand(p)
         \/ p = Timer /\ TimerFires
         \/ CloseNext(p)
  PROVE  CalmInv'
<1> SUFFICES ASSUME calm' PROVE CalmInv'
  BY DEF CalmInv
<1> USE DEF Goto, Run, Idle
<1>0. adapter \in Adapter /\ DOMAIN pc = Proc
  BY DEF IInv, TypeOK
<1>1. /\ calm /\ Orderly' /\ daemon' = daemon
      /\ CloseSoFar(p)
  BY <1>0 DEF CalmInv, CloseCommand, TimerFires, CloseNext, Recorded, Hide, Unpair, Unlink,
     Connect, StopTimer
<1>2. CASE CloseCommand(p)
  BY <1>0, <1>1, <1>2, ActorStep DEF CloseCommand, Working, CloseSoFar, OpenSoFar
<1>3. CASE p = Timer /\ TimerFires
  BY <1>0, <1>1, <1>3, ActorStep DEF TimerFires, Working, CloseSoFar, OpenSoFar
<1>4. CASE Hide(p)
  <2>1. adapter'.discLeft = 0
    BY <1>0, <1>4, FlagSteps DEF Hide
  <2> QED BY <1>0, <1>1, <1>4, <2>1, ActorStep DEF Hide, Working, CloseSoFar, OpenSoFar
<1>5. CASE Unpair(p)
  <2>1. adapter'.pairLeft = 0 /\ adapter'.discLeft = adapter.discLeft
    BY <1>0, <1>5, FlagSteps DEF Unpair
  <2> QED BY <1>0, <1>1, <1>5, <2>1, ActorStep DEF Unpair, Working, CloseSoFar, OpenSoFar
<1>6. CASE Unlink(p)
  BY <1>0, <1>1, <1>6, ActorStep DEF Unlink, Unlinked, Working, CloseSoFar, OpenSoFar
<1>7. CASE Connect(p)
  <2>1. /\ adapter'.connectable /\ adapter'.pairLeft = adapter.pairLeft
        /\ adapter'.discLeft = adapter.discLeft
    BY <1>0, <1>7, FlagSteps DEF Connect, Reconnect
  <2>2. adapter.pairLeft = 0 /\ adapter.discLeft = 0 /\ file = None
    BY <1>1, <1>7 DEF Connect, CloseSoFar
  <2>3. daemon \in {"up", "down"}
    BY <1>0, <1>1, <1>7 DEF Connect, CalmInv, Orderly, AllIdle
  <2>4. Restored'
    BY <1>1, <1>7, <2>1, <2>2, <2>3 DEF Connect, Restored
  <2> QED BY <1>0, <1>1, <1>7, <2>1, <2>2, <2>4, ActorStep DEF Connect, CloseSoFar, OpenSoFar
<1>8. CASE StopTimer(p)
  <2>1. adapter.connectable /\ adapter.pairLeft = 0 /\ adapter.discLeft = 0 /\ file = None
    BY <1>1, <1>8 DEF StopTimer, CloseSoFar
  <2>2. daemon \in {"up", "down"}
    BY <1>0, <1>1, <1>8 DEF StopTimer, CalmInv, Orderly, AllIdle
  <2>3. Restored'
    BY <1>1, <1>8, <2>1, <2>2 DEF StopTimer, Restored
  <2> QED BY <1>0, <1>1, <1>8, <2>3, ActorStep DEF StopTimer, CloseSoFar, OpenSoFar
<1> QED BY <1>2, <1>3, <1>4, <1>5, <1>6, <1>7, <1>8 DEF CloseNext

(* The daemon stops, or takes a step of its start, with no command at work. *)
LEMMA CalmDaemon ==
  ASSUME IInv, CalmInv, DaemonStop \/ DaemonNext
  PROVE  CalmInv'
<1> SUFFICES ASSUME calm' PROVE CalmInv'
  BY DEF CalmInv
<1>0. adapter \in Adapter
  BY DEF IInv, TypeOK
<1>1. /\ calm /\ Orderly' /\ AllIdle /\ Restored /\ pc' = pc /\ timer' = timer
  BY DEF CalmInv, DaemonStop, DaemonNext, Register, Check, Enforce, Recorded
<1>2. Restored'
  <2> USE DEF Restored, Pending, Working, AllIdle, Idle
  <2>1. CASE DaemonStop
    BY <1>1, <2>1 DEF DaemonStop
  <2>2. CASE Register
    BY <1>0, <1>1, <2>2 DEF Register, Adapter
  <2>3. CASE Check
    BY <1>1, <2>3 DEF Check, LiveWindow
  <2>4. CASE Enforce
    <3>0. /\ SetDiscoverable(adapter, FALSE).discLeft = 0
          /\ SetPairable(adapter, FALSE).pairLeft = 0
          /\ SetPairable(adapter, FALSE).discLeft = adapter.discLeft
      BY <1>0, FlagSteps
    <3>1. daemon = "hide" => adapter'.discLeft = 0
      BY <2>4, <3>0 DEF Enforce
    <3>2. daemon = "unpair" => adapter'.discLeft = 0 /\ adapter'.pairLeft = 0
      BY <1>1, <2>4, <3>0 DEF Enforce
    <3>3. daemon = "connect" =>
            adapter'.connectable /\ adapter'.discLeft = 0 /\ adapter'.pairLeft = 0
      BY <1>0, <1>1, <2>4, FlagSteps DEF Enforce
    <3>4. /\ file' = file
          /\ \/ daemon = "hide" /\ daemon' = "unpair"
             \/ daemon = "unpair" /\ daemon' = "connect"
             \/ daemon = "connect" /\ daemon' = "up"
      BY <2>4 DEF Enforce
    <3> QED BY <1>1, <3>1, <3>2, <3>3, <3>4
  <2> QED BY <2>1, <2>2, <2>3, <2>4 DEF DaemonNext
<1> QED BY <1>1, <1>2 DEF CalmInv, CloseSoFar, OpenSoFar, AllIdle, Idle, Proc

LEMMA CalmTick ==
  ASSUME IInv, CalmInv, Tick
  PROVE  CalmInv'
<1> SUFFICES ASSUME calm' PROVE CalmInv'
  BY DEF CalmInv
<1>0. /\ adapter \in Adapter /\ file \in Content \cup {None} /\ tmp \in Content \cup {None}
      /\ timer \in 0..D \cup {None}
  BY DEF IInv, TypeOK
<1>1. /\ calm /\ Orderly' /\ Restored /\ pc' = pc /\ inode' = inode /\ daemon' = daemon
      /\ adapter' = Elapse(adapter)
      /\ \A p \in Proc : CloseSoFar(p)
      /\ \A p \in Admin : OpenSoFar(p)
  BY DEF CalmInv, Tick, Recorded
<1>2. timer # None => timer' # None
  BY <1>0, DurationAssumption, NoneAssumption DEF Tick
<1>3. ASSUME NEW f \in Content
      PROVE  /\ Aged(f) # None /\ Aged(f).pin = f.pin
             /\ Aged(f).left = IF f.left = 0 THEN 0 ELSE f.left - 1
  <2>1. f # None /\ Aged(f) \in Content
    BY NoneAssumption, DurationAssumption DEF Aged, Content
  <2> QED BY <2>1, NoneAssumption DEF Aged, Content
<1>4. Aged(None) = None
  BY DEF Aged
<1>5. file' = Aged(file) /\ tmp' = Aged(tmp)
  BY DEF Tick
<1>6. Restored'
  BY <1>0, <1>1, <1>2, <1>3, <1>4, <1>5, FlagSteps DEF Restored, Pending, Working, Adapter
<1>7. ASSUME NEW p \in Proc PROVE CloseSoFar(p)'
  BY <1>0, <1>1, <1>4, <1>5, FlagSteps DEF CloseSoFar
<1>8. ASSUME NEW p \in Admin PROVE OpenSoFar(p)'
  BY <1>0, <1>1, <1>2, <1>3, <1>4, <1>5, FlagSteps DEF OpenSoFar, Content, Adapter
<1> QED BY <1>1, <1>6, <1>7, <1>8 DEF CalmInv

LEMMA CalmStep == IInv /\ CalmInv /\ [Next]_vars => CalmInv'
<1> SUFFICES ASSUME IInv, CalmInv, [Next]_vars PROVE CalmInv'
  OBVIOUS
<1>1. CASE UNCHANGED vars
  BY <1>1 DEF vars, CalmInv, Orderly, AllIdle, Idle, Restored, Pending, Working, CloseSoFar,
     OpenSoFar
<1>2. ASSUME NEW p \in Proc, Raises(p)
      PROVE CalmInv'
  BY <1>2 DEF Raises, CalmInv
<1> QED
  BY <1>1, <1>2, CalmOpen, CalmClose, CalmDaemon, CalmTick DEF Next, Proc

(* While nothing has overlapped, failed or stalled, each command finds     *)
(* what its earlier steps did, and whatever drops page scan or publishes a *)
(* PIN is followed by what makes up for it (main and close_window of       *)
(* palm-lap-pair, enforce_closed_pairing).                                 *)
THEOREM CalmInvariance == Spec => []CalmInv
BY CalmInit, CalmStep, Invariance, PTL DEF Spec

(* Whoever opens and closes windows, however long they last and however    *)
(* often the daemon restarts, a window that has ended leaves page scan on, *)
(* if nothing overlapped or failed: bonded Palms can connect.              *)
THEOREM EndsConnectable == Spec => []IdleConnectable
<1>1. IInv /\ CalmInv => IdleConnectable
  BY DEF IInv, TypeOK, CalmInv, Restored, Pending, Working, IdleConnectable, Quiet, AllIdle, Idle
<1> QED BY <1>1, Invariance, CalmInvariance, PTL

(* An open that reports success, with nothing overlapping or failing, has  *)
(* given the agent its own PIN and started the timer, and the flags it set *)
(* outlast the PIN.                                                        *)
THEOREM ReportedOpens == Spec => []OpenDelivers
<1>1. CalmInv => OpenDelivers
  BY DEF CalmInv, OpenSoFar, OpenDelivers, LiveWindow
<1> QED BY <1>1, CalmInvariance, PTL
=============================================================================
