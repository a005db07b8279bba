--------------------------- MODULE LapDeviceProofs ---------------------------
(* Proofs about LapDevice, for any number of commands, overlapping or not. *)
EXTENDS LapDevice, TLAPS

(* An allowlist that may be read or loaded: valid, its devices trusted.    *)
Good(c) == Valid(c) /\ \A d \in Device : c[d] # None => d \in trusted

(* The copy a command has in memory: good once its own device is trusted.  *)
CopyInv ==
  \A p \in Command :
    /\ pc[p] \in {"trust", "truncate", "write"} =>
         /\ req[p].dev \in Device
         /\ Valid(copy[p])
         /\ \A d \in Device \ {req[p].dev} : copy[p][d] # None => d \in trusted
    /\ pc[p] \in {"truncate", "write"} => Good(copy[p])

(* The inductive invariant: what is in the file, under the temporary name  *)
(* or in the daemon is good, or does not parse, or is absent.              *)
IInv ==
  /\ TypeOK
  /\ config \in Table => Good(config)
  /\ tmp \in Table \ {None} => Good(tmp)
  /\ loaded = None \/ Good(loaded)
  /\ CopyInv

LEMMA TableApart == Torn \notin Table /\ Mixed \notin Table
BY TornAssumption DEF Table

(* A file that is written has the text, or does not parse.                 *)
LEMMA OverKnown ==
  ASSUME NEW old, NEW text
  PROVE  /\ Over(old, text) \subseteq {text, Mixed}
         /\ old = Torn => Over(old, text) = {text}
BY DEF Over

(* Changing one entry of a valid allowlist, to an address that was allowed *)
(* or to none, leaves it valid.                                            *)
LEMMA EntryChange ==
  ASSUME NEW c, Valid(c), NEW d \in Device, NEW x \in Ip \cup {None},
         x # None => x \in Usable /\ \A e \in Device \ {d} : c[e] # x
  PROVE  Valid([c EXCEPT ![d] = x])
BY DEF Valid, Table

LEMMA InitInv == Init => IInv
BY DEF Init, IInv, TypeOK, Good, CopyInv, Valid, Table, Step

(* A step that leaves the other commands alone has only its own copy to    *)
(* answer for.                                                             *)
LEMMA CopyStep ==
  ASSUME TypeOK, CopyInv, NEW p \in Command, trusted \subseteq trusted',
         \A q \in Command \ {p} :
           pc'[q] = pc[q] /\ req'[q] = req[q] /\ copy'[q] = copy[q],
         pc'[p] \in {"trust", "truncate", "write"} =>
           /\ req'[p].dev \in Device
           /\ Valid(copy'[p])
           /\ \A d \in Device \ {req'[p].dev} : copy'[p][d] # None => d \in trusted',
         pc'[p] \in {"truncate", "write"} =>
           \A d \in Device : copy'[p][d] # None => d \in trusted'
  PROVE  CopyInv'
BY DEF CopyInv, Good, Valid

(* Trust only grows, so what is good stays good.                           *)
LEMMA GoodStays ==
  ASSUME NEW c, Good(c), trusted \subseteq trusted'
  PROVE  Valid(c) /\ \A d \in Device : c[d] # None => d \in trusted'
BY DEF Good

LEMMA RecordedType == ASSUME alone \in BOOLEAN, Recorded PROVE alone' \in BOOLEAN
BY DEF Recorded

LEMMA StepInv == IInv /\ [Next]_vars => IInv'
<1> SUFFICES ASSUME IInv, [Next]_vars PROVE IInv'
  OBVIOUS
<1> USE TableApart, RecordedType DEF IInv
<1>1. ASSUME NEW p \in Command, NEW d \in Device, ReadForRemove(p, d)
      PROVE IInv'
  <2>1. Good(config) /\ config \in Table
    BY <1>1 DEF ReadForRemove, Good, Valid
  <2>2. Valid([config EXCEPT ![d] = None])
    BY <2>1, EntryChange DEF Good
  <2>3. TypeOK'
    BY <1>1, <2>2 DEF ReadForRemove, Changed, Goto, TypeOK, Step, Valid
  <2>4. CopyInv'
    BY <1>1, <2>1, <2>2, CopyStep DEF ReadForRemove, Changed, Goto, TypeOK, Good, Table
  <2> QED
    BY <1>1, <2>3, <2>4 DEF ReadForRemove, Good
<1>2. ASSUME NEW p \in Command, NEW d \in Device, NEW ip \in Ip, ReadForAdd(p, d, ip)
      PROVE IInv'
  <2>1. Good(config) /\ config \in Table
    BY <1>2 DEF ReadForAdd, Good, Valid
  <2>2. Valid([config EXCEPT ![d] = ip])
    BY <1>2, <2>1, EntryChange DEF Good, ReadForAdd, AddAllowed
  <2>3. TypeOK'
    BY <1>2, <2>2 DEF ReadForAdd, Changed, AddFirstStep, Goto, TypeOK, Step, Valid
  <2>4. CopyInv'
    BY <1>2, <2>1, <2>2, CopyStep
       DEF ReadForAdd, Changed, AddFirstStep, Goto, TypeOK, Good, Table
  <2> QED
    BY <1>2, <2>3, <2>4 DEF ReadForAdd, Good
<1>3. ASSUME NEW p \in Command, NEW d \in Device, NEW ip \in Ip \cup {None},
             Refuse(p, d, ip)
      PROVE IInv'
  <2>1. TypeOK'
    BY <1>3 DEF Refuse, Goto, TypeOK, Step
  <2>2. CopyInv'
    BY <1>3, CopyStep DEF Refuse, Goto, TypeOK
  <2> QED
    BY <1>3, <2>1, <2>2 DEF Refuse, Good
<1>4. ASSUME NEW p \in Command, Trust(p)
      PROVE IInv'
  <2> USE <1>4 DEF Trust, Goto
  <2>1. req[p].dev \in Device /\ Valid(copy[p])
        /\ \A d \in Device \ {req[p].dev} : copy[p][d] # None => d \in trusted
    BY DEF CopyInv
  <2>2. TypeOK'
    BY <2>1 DEF TypeOK, Step
  <2>3. CopyInv'
    BY <2>1, CopyStep DEF TypeOK
  <2> QED
    BY <2>2, <2>3 DEF Good
<1>5. ASSUME NEW p \in Command, Truncate(p)
      PROVE IInv'
  <2> USE <1>5 DEF Truncate, Goto
  <2>1. TypeOK'
    BY DEF TypeOK, Step
  <2>2. CopyInv'
    BY CopyStep DEF TypeOK, CopyInv, Good
  <2> QED
    BY <2>1, <2>2 DEF Good
<1>6. ASSUME NEW p \in Command, Write(p)
      PROVE IInv'
  <2> USE <1>6 DEF Write, Goto
  <2>0. tmp' \in {tmp, copy[p], Mixed} /\ config' \in {config, copy[p], Mixed}
    BY OverKnown
  <2>1. Good(copy[p]) /\ copy[p] \in Table
    BY DEF CopyInv, Good, Valid
  <2>2. TypeOK'
    BY <2>0, <2>1 DEF TypeOK, Step
  <2>3. CopyInv'
    BY CopyStep DEF TypeOK, CopyInv, Good
  <2> QED
    BY <2>0, <2>1, <2>2, <2>3 DEF Good
<1>7. ASSUME NEW p \in Command, Publish(p)
      PROVE IInv'
  <2> USE <1>7 DEF Publish, Goto
  <2>1. TypeOK'
    BY DEF TypeOK, Step
  <2>2. CopyInv'
    BY CopyStep DEF TypeOK
  <2> QED
    BY <2>1, <2>2 DEF Good
<1>8. ASSUME NEW p \in Command, PublishFails(p) \/ Check(p) \/ Die(p)
      PROVE IInv'
  <2> USE <1>8 DEF PublishFails, Check, Die, Goto
  <2>1. TypeOK'
    BY DEF TypeOK, Step
  <2>2. CopyInv'
    BY CopyStep DEF TypeOK
  <2> QED
    BY <2>1, <2>2 DEF Good
<1>9. ASSUME NEW ps \in SUBSET Command, Restart(ps)
      PROVE IInv'
  <2> USE <1>9 DEF Restart
  <2>1. TypeOK'
    BY DEF TypeOK, Step
  <2>2. \A p \in Command : pc'[p] \in {"reported", "failed"} \/ pc'[p] = pc[p]
    BY DEF TypeOK
  <2>3. CopyInv'
    BY <2>2 DEF TypeOK, CopyInv, Good
  <2> QED
    BY <2>1, <2>3 DEF Good
<1>10. CASE Load
  <2>1. TypeOK'
    BY <1>10 DEF Load, Loaded, TypeOK, Valid
  <2>2. CopyInv'
    BY <1>10 DEF Load, CopyInv, Good
  <2> QED
    BY <1>10, <2>1, <2>2 DEF Load, Loaded, Good, Valid
<1>11. CASE UNCHANGED vars
  BY <1>11 DEF vars, TypeOK, CopyInv, Good
<1> QED
  BY <1>1, <1>2, <1>3, <1>4, <1>5, <1>6, <1>7, <1>8, <1>9, <1>10, <1>11 DEF Next

-----------------------------------------------------------------------------
(* What a command that has been alone so far can rely on: its copy is the  *)
(* file with its entry changed, the temporary is its own, and what it has  *)
(* published, or reported, is in the file and in no other way in force.    *)
AloneAt(p) ==
  /\ pc[p] \in {"trust", "truncate", "write", "publish"} =>
       \A d \in Device : copy[p][d] = IF d = req[p].dev THEN req[p].ip ELSE config[d]
  /\ pc[p] = "write" => inode[p] = "tmp" /\ tmp = Torn
  /\ pc[p] = "publish" => tmp = copy[p] /\ tmp \in Table
  /\ pc[p] \in {"check", "restart"} => config[req[p].dev] = req[p].ip
  /\ pc[p] = "reported" /\ Unrivalled(p) => InForce(p)

SoloInv ==
  /\ \A p \in Command : pc[p] = "idle" <=> req[p] = None
  /\ alone => Solo /\ config \in Table /\ \A p \in Command : AloneAt(p)

LEMMA SoloInit == Init => SoloInv
BY NoneAssumption, TableApart DEF Init, SoloInv, Solo, AloneAt, UnderWay, Valid

(* Command q is asked, to the end of its reading.                          *)
LEMMA SoloAsked ==
  ASSUME IInv, SoloInv, NEW q \in Command, NEW d \in Device, NEW ip \in Ip \cup {None},
         pc[q] = "idle", config \in Table \cup {Torn, Mixed},
         UNCHANGED <<config, tmp, inode, loaded>>,
         req' = [req EXCEPT ![q] = [dev |-> d, ip |-> ip]],
         \/ pc' = [pc EXCEPT ![q] = "failed"] /\ UNCHANGED copy
         \/ /\ pc' = [pc EXCEPT ![q] = IF ip = None THEN "truncate" ELSE "trust"]
            /\ config \in Table
            /\ copy' = [copy EXCEPT ![q] = [config EXCEPT ![d] = ip]],
         Recorded
  PROVE  SoloInv'
<1> DEFINE r == [dev |-> d, ip |-> ip]
<1>1. /\ r \in [dev : Device, ip : Ip \cup {None}] /\ r # None
      /\ r.dev = d /\ r.ip = ip
  BY NoneAssumption
<1> HIDE DEF r
<1>2. /\ req'[q] = r /\ req[q] = None
      /\ pc'[q] \in {"failed", "truncate", "trust"}
      /\ \A p \in Command \ {q} : pc'[p] = pc[p] /\ req'[p] = req[p] /\ copy'[p] = copy[p]
      /\ pc'[q] # "failed" => \A e \in Device : copy'[q][e] = IF e = d THEN ip ELSE config[e]
  BY DEF IInv, TypeOK, SoloInv, Table, r
<1>3. \A p \in Command : pc'[p] = "idle" <=> req'[p] = None
  BY <1>1, <1>2 DEF SoloInv
<1>4. ASSUME alone' PROVE Solo' /\ config' \in Table /\ \A p \in Command : AloneAt(p)'
  <2>1. Solo' /\ alone
    BY <1>4 DEF Recorded
  <2>2. AloneAt(q)'
    BY <1>1, <1>2 DEF AloneAt
  <2>3. ASSUME NEW p \in Command \ {q} PROVE AloneAt(p)'
    <3>1. Unrivalled(p)' => Unrivalled(p)
      BY <1>2 DEF Unrivalled
    <3>2. AloneAt(p)
      BY <2>1 DEF SoloInv
    <3> QED BY <1>2, <3>1, <3>2 DEF AloneAt, InForce
  <2> QED BY <2>1, <2>2, <2>3 DEF SoloInv
<1> QED BY <1>3, <1>4 DEF SoloInv

(* Command q takes another step, or steps of its own end in failure.       *)
LEMMA SoloOther ==
  ASSUME IInv, SoloInv, NEW q \in Command, UnderWay(q),
         UNCHANGED req, pc'[q] # "idle", Recorded,
         \A p \in Command \ {q} : pc'[p] = pc[p] /\ copy'[p] = copy[p],
         loaded' = loaded, alone => config' \in Table,
         alone => AloneAt(q)',
         alone => \A d \in Device \ {req[q].dev} : config'[d] = config[d]
  PROVE  SoloInv'
<1>1. \A p \in Command : pc'[p] = "idle" <=> req'[p] = None
  BY DEF SoloInv, UnderWay
<1>2. ASSUME alone' PROVE Solo' /\ config' \in Table /\ \A p \in Command : AloneAt(p)'
  <2>1. Solo' /\ alone /\ Solo
    BY <1>2 DEF Recorded, SoloInv
  <2>2. ASSUME NEW p \in Command \ {q} PROVE AloneAt(p)'
    <3>1. ~UnderWay(p) /\ AloneAt(p)
      BY <2>1 DEF Solo, SoloInv
    <3>2. CASE pc[p] = "reported" /\ Unrivalled(p)
      <4>1. req[p].dev \in Device /\ req[p].dev # req[q].dev
        BY <3>2 DEF Unrivalled, SoloInv, UnderWay, IInv, TypeOK
      <4>2. config'[req[p].dev] = config[req[p].dev]
        BY <2>1, <4>1
      <4> QED BY <2>1, <3>1, <3>2, <4>2 DEF AloneAt, InForce
    <3>3. CASE ~(pc[p] = "reported" /\ Unrivalled(p))
      BY <3>1, <3>3 DEF AloneAt, UnderWay, Unrivalled
    <3> QED BY <3>2, <3>3
  <2> QED BY <2>1, <2>2
<1> QED BY <1>1, <1>2 DEF SoloInv

LEMMA SoloStep == IInv /\ SoloInv /\ [Next]_vars => SoloInv'
<1> SUFFICES ASSUME IInv, SoloInv, [Next]_vars PROVE SoloInv'
  OBVIOUS
<1>0. TypeOK
  BY DEF IInv
<1>1. ASSUME NEW p \in Command, NEW d \in Device, ReadForRemove(p, d) PROVE SoloInv'
  BY <1>0, <1>1, SoloAsked DEF ReadForRemove, Changed, Goto, TypeOK
<1>2. ASSUME NEW p \in Command, NEW d \in Device, NEW ip \in Ip, ReadForAdd(p, d, ip)
      PROVE SoloInv'
  <2>1. ip # None
    BY NoneAssumption
  <2> QED BY <1>0, <1>2, <2>1, SoloAsked DEF ReadForAdd, AddFirstStep, Changed, Goto, TypeOK
<1>3. ASSUME NEW p \in Command, NEW d \in Device, NEW ip \in Ip \cup {None}, Refuse(p, d, ip)
      PROVE SoloInv'
  BY <1>0, <1>3, SoloAsked DEF Refuse, Goto, TypeOK
<1>4. ASSUME NEW p \in Command, Trust(p) PROVE SoloInv'
  <2> USE <1>4 DEF Trust, Goto
  <2>1. alone => AloneAt(p)'
    BY <1>0 DEF SoloInv, AloneAt, TypeOK
  <2> QED BY <1>0, <2>1, SoloOther DEF UnderWay, TypeOK, SoloInv
<1>5. ASSUME NEW p \in Command, Truncate(p) PROVE SoloInv'
  <2> USE <1>5 DEF Truncate, Goto
  <2>1. alone => AloneAt(p)'
    BY <1>0 DEF SoloInv, AloneAt, TypeOK
  <2> QED BY <1>0, <2>1, SoloOther DEF UnderWay, TypeOK, SoloInv
<1>6. ASSUME NEW p \in Command, Write(p) PROVE SoloInv'
  <2> USE <1>6 DEF Write, Goto
  <2>1. alone => tmp' = copy[p] /\ UNCHANGED config /\ config \in Table
    BY OverKnown DEF SoloInv, AloneAt
  <2>2. copy[p] \in Table
    BY DEF IInv, CopyInv, Valid
  <2>3. alone => AloneAt(p)'
    BY <1>0, <2>1, <2>2 DEF SoloInv, AloneAt, TypeOK
  <2> QED BY <1>0, <2>1, <2>3, SoloOther DEF UnderWay, TypeOK
<1>7. ASSUME NEW p \in Command, Publish(p) PROVE SoloInv'
  <2> USE <1>7 DEF Publish, Goto
  <2>1. alone => tmp = copy[p] /\ tmp \in Table /\ config \in Table
                 /\ \A d \in Device : tmp[d] = IF d = req[p].dev THEN req[p].ip ELSE config[d]
    BY DEF SoloInv, AloneAt
  <2>2. req[p].dev \in Device
    BY <1>0 DEF SoloInv, TypeOK
  <2>3. alone => AloneAt(p)'
    BY <1>0, <2>1, <2>2 DEF AloneAt, TypeOK
  <2> QED BY <1>0, <2>1, <2>3, TableApart, SoloOther DEF UnderWay, TypeOK
<1>8. ASSUME NEW p \in Command, PublishFails(p) \/ Check(p) \/ Die(p) PROVE SoloInv'
  <2> USE <1>8 DEF PublishFails, Check, Die, Goto, UnderWay
  <2>1. alone => AloneAt(p)'
    BY <1>0 DEF SoloInv, AloneAt, TypeOK
  <2> QED BY <1>0, <2>1, SoloOther DEF TypeOK, SoloInv
<1>9. ASSUME NEW ps \in SUBSET Command, Restart(ps) PROVE SoloInv'
  <2> USE <1>9 DEF Restart
  <2>1. /\ \A p \in ps : pc[p] = "restart" /\ pc'[p] \in {"reported", "failed"}
        /\ \A p \in Command \ ps : pc'[p] = pc[p]
        /\ loaded' = None /\ UNCHANGED <<config, tmp, inode, req, copy>>
    BY <1>0 DEF TypeOK
  <2>2. \A p \in Command : pc'[p] = "idle" <=> req'[p] = None
    BY <2>1 DEF SoloInv
  <2>3. ASSUME alone', NEW p \in Command PROVE AloneAt(p)'
    <3>1. AloneAt(p) /\ config \in Table
      BY <2>3 DEF SoloInv, Recorded
    <3>2. CASE p \in ps
      BY <2>1, <3>1, <3>2 DEF AloneAt, InForce
    <3>3. CASE p \notin ps
      BY <2>1, <3>1, <3>3 DEF AloneAt, InForce, Unrivalled
    <3> QED BY <3>2, <3>3
  <2> QED BY <2>1, <2>2, <2>3 DEF SoloInv, Recorded
<1>10. CASE Load
  <2> USE <1>10 DEF Load
  <2>1. loaded' = None \/ loaded' = config
    BY DEF Loaded
  <2>2. ASSUME alone', NEW p \in Command PROVE AloneAt(p)'
    BY <2>1, <2>2 DEF SoloInv, AloneAt, InForce, Unrivalled, Recorded
  <2> QED BY <2>2 DEF SoloInv, Recorded
<1>11. CASE UNCHANGED vars
  BY <1>11 DEF vars, SoloInv, Solo, UnderWay, AloneAt, InForce, Unrivalled
<1> QED
  BY <1>1, <1>2, <1>3, <1>4, <1>5, <1>6, <1>7, <1>8, <1>9, <1>10, <1>11 DEF Next

-----------------------------------------------------------------------------
(* The inductive invariant holds in every reachable state, whatever        *)
(* commands overlap, die or are refused.                                   *)
THEOREM Invariance == Spec => []IInv
BY InitInv, StepInv, PTL DEF Spec

(* Every variable keeps its type.                                          *)
THEOREM TypeCorrect == Spec => []TypeOK
BY Invariance, PTL DEF IInv

(* However many commands overlap, die or fail, config.json is torn or an   *)
(* allowlist load_config accepts.                                          *)
THEOREM ConfigValid == Spec => []WholeIsValid
<1>1. IInv => WholeIsValid
  BY DEF IInv, WholeIsValid, Good
<1> QED
  BY <1>1, Invariance, PTL

(* No allowlist that can be read or is in force names an untrusted device. *)
THEOREM TrustedFirst == Spec => []AuthorizedTrusted
<1>1. IInv => AuthorizedTrusted
  BY DEF IInv, AuthorizedTrusted, Good
<1> QED
  BY <1>1, Invariance, PTL

(* As long as no two commands have been under way at once, what the one at *)
(* work has in its copy, in the temporary and in the file agree (change of *)
(* the entry, write_config, check).                                        *)
THEOREM SoloInvariance == Spec => []SoloInv
BY SoloInit, SoloStep, Invariance, PTL DEF Spec

(* While commands do not overlap, whichever of them die and wherever, the  *)
(* daemon finds a file it accepts, and "Authorized" or "Removed" is true   *)
(* of the file and of the daemon.                                          *)
THEOREM ReportedIsDone == Spec => []SuccessInForce
<1>1. SoloInv => SuccessInForce
  BY DEF SoloInv, AloneAt, SuccessInForce
<1> QED
  BY <1>1, SoloInvariance, PTL
=============================================================================
