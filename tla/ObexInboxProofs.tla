--------------------------- MODULE ObexInboxProofs ---------------------------
(* Proofs about ObexInbox, for any number of transfers and names, whatever *)
(* fails, dies or is deleted meanwhile.                                    *)
EXTENDS ObexInbox, SequenceTheorems, TLAPS

InFlight == {"asking", "accepted"}
By(n, t) == file[n] # None /\ file[n].by = t

(* A transfer obexd has not asked about has left no trace.                 *)
FreshInv(t) ==
  obex[t] = "new" =>
    /\ side[t] = None /\ dest[t] = None /\ pending[t] = None
    /\ \A n \in Name : ~By(n, t)
    /\ seen # None => t \notin seen.asked

(* What an agent that is not up cannot hold, and who waits for it.         *)
AgentInv ==
  /\ agent \in {"down", "recovering"} => signals = <<>> /\ \A t \in Transfer : pending[t] = None
  /\ agent = "recovering" => \A t \in Transfer : obex[t] \notin InFlight
  /\ agent = "down" => \A t \in Transfer : obex[t] # "asking"

(* The path obexd was told, the reservation and the sidecar agree; between *)
(* the answer and the opening nobody has put a file there, and a listing   *)
(* that was read in between hides the name.                                *)
DestInv(t) ==
  /\ obex[t] \in InFlight \cup {"writing"} => dest[t] # None
  /\ dest[t] # None /\ pending[t] # None => pending[t] = dest[t]
  /\ dest[t] # None /\ side[t] # None => side[t].name = dest[t]
  /\ obex[t] \in InFlight =>
       /\ file[dest[t]] = None
       /\ agent \in {"up", "answering"} => pending[t] = dest[t]
       /\ dest[t] \notin freed => side[t] # None /\ side[t].status = "receiving"
       /\ seen # None /\ t \in seen.asked => dest[t] \in seen.hidden \cup freed

ApartInv ==
  \A t, u \in Transfer : t # u /\ obex[t] \in InFlight /\ obex[u] \in InFlight => dest[t] # dest[u]

(* A file nobody freed is its transfer's, under the name of its sidecar.   *)
FileInv(n) ==
  file[n] # None =>
    LET t == file[n].by IN
    /\ dest[t] = n
    /\ obex[t] # "ended" => ~file[n].whole
    /\ n \notin freed =>
         /\ side[t] # None /\ side[t].name = n /\ side[t].status # "failed"
         /\ side[t].status = "complete" => Presentable(n)

CompleteInv(t) ==
  side[t] # None /\ side[t].status = "complete" /\ side[t].name \notin freed => By(side[t].name, t)

(* What is under a reserved name is the transfer's own.                    *)
PendingInv(t) ==
  pending[t] # None =>
    /\ file[pending[t]] = None \/ By(pending[t], t)
    /\ \A u \in Transfer \ {t} : pending[u] # pending[t]
    /\ side[t] # None => side[t].status = "receiving"
    /\ obex[t] = "writing" => pending[t] \in freed \/ file[pending[t]] # None

(* A signal comes from a transfer that has ended; "complete" says that the *)
(* file, unless it was unlinked, is there and whole.                       *)
SignalInv(s) ==
  /\ obex[s.of] = "ended"
  /\ s.says = "complete" =>
       /\ \A n \in Name : By(n, s.of) => file[n].whole
       /\ pending[s.of] # None => pending[s.of] \in freed \/ file[pending[s.of]] # None

(* A whole file whose end the agent has not handled has a "complete" in    *)
(* the queue before any other signal.                                      *)
OrderInv ==
  \A i \in 1..Len(signals) :
    LET u == signals[i].of IN
    signals[i].says = "failed" /\ pending[u] # None /\ file[pending[u]] # None /\ file[pending[u]].whole =>
      \E j \in 1..(i - 1) : signals[j].of = u /\ signals[j].says = "complete"

DeletingInv == deleting # None => deleting \in freed

(* Until a write of a sidecar fails, "receiving" says what the agent holds *)
(* and no other transfer uses the name.                                    *)
ReceivingInv ==
  flawless =>
    \A t \in Interrupted :
      /\ agent \in {"up", "answering"} => pending[t] = side[t].name
      /\ file[side[t].name] = None \/ By(side[t].name, t)
      /\ \A u \in Interrupted \ {t} : side[u].name # side[t].name
      /\ \A u \in Transfer \ {t} : obex[u] \in InFlight => side[t].name # dest[u]

TransferInv(t) == FreshInv(t) /\ DestInv(t) /\ CompleteInv(t) /\ PendingInv(t)
QueueInv       == \A i \in 1..Len(signals) : SignalInv(signals[i])

IInv ==
  /\ TypeOK /\ AgentInv /\ ApartInv /\ QueueInv /\ OrderInv /\ DeletingInv /\ ReceivingInv
  /\ \A t \in Transfer : TransferInv(t)
  /\ \A n \in Name : FileInv(n)
  /\ ListedIsWhole

-----------------------------------------------------------------------------
(* The queue, position by position.                                        *)
LEMMA SignalTypes ==
  ASSUME TypeOK
  PROVE  /\ Len(signals) \in Nat
         /\ \A i \in 1..Len(signals) : signals[i] \in Signal
<1> HIDE DEF Signal
<1> QED BY LenProperties, ElementOfSeq DEF TypeOK

LEMMA Appended ==
  ASSUME TypeOK, NEW s \in Signal
  PROVE  /\ Append(signals, s) \in Seq(Signal)
         /\ Len(Append(signals, s)) = Len(signals) + 1
         /\ \A i \in 1..Len(signals) : Append(signals, s)[i] = signals[i]
         /\ Append(signals, s)[Len(signals) + 1] = s
<1> HIDE DEF Signal
<1> QED BY AppendProperties DEF TypeOK

LEMMA EndTold ==
  ASSUME TypeOK, NEW t \in Transfer, NEW says \in {"complete", "failed"},
         agent \in {"up", "answering"}
  PROVE  /\ Told(t, says) \in Seq(Signal)
         /\ Len(Told(t, says)) = Len(signals) + 2
         /\ \A i \in 1..Len(signals) : Told(t, says)[i] = signals[i]
         /\ Told(t, says)[Len(signals) + 1] = [of |-> t, says |-> says]
         /\ Told(t, says)[Len(signals) + 2] = [of |-> t, says |-> "failed"]
<1> DEFINE a == [of |-> t, says |-> says]
           b == [of |-> t, says |-> "failed"]
           ab == <<a, b>>
<1>1. a \in Signal /\ b \in Signal
  BY DEF Signal
<1> HIDE DEF Signal, a, b
<1>2. ab \in Seq(Signal) /\ Len(ab) = 2 /\ ab[1] = a /\ ab[2] = b
  BY <1>1
<1> HIDE DEF ab
<1>3. signals \in Seq(Signal) /\ Len(signals) \in Nat
  BY LenProperties DEF TypeOK
<1>4. Told(t, says) = signals \o ab
  BY DEF Told, a, b, ab
<1>5. /\ signals \o ab \in Seq(Signal)
      /\ Len(signals \o ab) = Len(signals) + Len(ab)
      /\ \A i \in 1..(Len(signals) + Len(ab)) :
           (signals \o ab)[i] = IF i <= Len(signals) THEN signals[i] ELSE ab[i - Len(signals)]
  BY <1>2, <1>3, ConcatProperties
<1> QED BY <1>2, <1>3, <1>4, <1>5 DEF a, b

LEMMA QueueHead ==
  ASSUME TypeOK, signals # <<>>
  PROVE  /\ Head(signals) = signals[1] /\ Head(signals) \in Signal
         /\ Tail(signals) \in Seq(Signal)
         /\ Len(signals) \in Nat \ {0} /\ Len(Tail(signals)) = Len(signals) - 1
         /\ \A i \in 1..Len(Tail(signals)) : Tail(signals)[i] = signals[i + 1]
<1> HIDE DEF Signal
<1>1. signals \in Seq(Signal) /\ Len(signals) \in Nat
  BY LenProperties DEF TypeOK
<1>2. Len(signals) # 0
  BY <1>1, EmptySeq
<1> QED BY <1>1, <1>2, HeadTailProperties, ElementOfSeq

(* Each step keeps the types.                                              *)
LEMMA WriteTypes ==
  ASSUME TypeOK, NEW t \in Transfer, NEW car \in Sidecar, NEW ok \in BOOLEAN,
         WriteMetadata(t, car, ok)
  PROVE  side' \in [Transfer -> Sidecar \cup {None}] /\ flawless' \in BOOLEAN
BY DEF TypeOK, WriteMetadata

LEMMA ToldType ==
  ASSUME TypeOK, NEW t \in Transfer, NEW says \in {"complete", "failed"}
  PROVE  Told(t, says) \in Seq(Signal)
<1>1. CASE agent \in {"up", "answering"}
  BY <1>1, EndTold
<1>2. CASE agent \notin {"up", "answering"}
  BY <1>2 DEF Told, TypeOK
<1> QED BY <1>1, <1>2

LEMMA MadeWhole ==
  ASSUME NEW p \in Payload
  PROVE  /\ [p EXCEPT !.whole = TRUE] \in Payload
         /\ [p EXCEPT !.whole = TRUE].by = p.by /\ [p EXCEPT !.whole = TRUE].whole
BY Zenon DEF Payload

LEMMA TypeStep == TypeOK /\ [Next]_vars => TypeOK'
<1> SUFFICES ASSUME TypeOK, [Next]_vars PROVE TypeOK'
  OBVIOUS
<1>1. ASSUME NEW t \in Transfer, NEW n \in Name, AuthorizePush(t, n) PROVE TypeOK'
  <2> DEFINE car == [status |-> "receiving", name |-> n]
             bad == [of |-> t, says |-> "failed"]
  <2>1. car \in Sidecar /\ bad \in Signal
    BY DEF Sidecar, Status, Signal
  <2>2. PICK ok \in BOOLEAN :
          /\ WriteMetadata(t, car, ok)
          /\ agent' = IF ok THEN "answering" ELSE "up"
          /\ obex' = [obex EXCEPT ![t] = IF ok THEN "asking" ELSE "ended"]
          /\ dest' = [dest EXCEPT ![t] = IF ok THEN n ELSE @]
          /\ signals' = IF ok THEN signals ELSE Append(signals, bad)
    BY <1>1 DEF AuthorizePush
  <2>3. pending' = [pending EXCEPT ![t] = n] /\ UNCHANGED <<file, web, serving>>
    BY <1>1 DEF AuthorizePush
  <2> HIDE DEF car, bad
  <2>4. side' \in [Transfer -> Sidecar \cup {None}] /\ flawless' \in BOOLEAN
    BY <2>1, <2>2, WriteTypes
  <2>5. signals' \in Seq(Signal)
    BY <2>1, <2>2, Appended DEF TypeOK
  <2>6. obex' \in [Transfer -> {"new", "asking", "accepted", "writing", "ended"}]
        /\ dest' \in [Transfer -> Name \cup {None}] /\ agent' \in {"answering", "up"}
    BY <2>2 DEF TypeOK
  <2>7. pending' \in [Transfer -> Name \cup {None}]
    BY <2>3 DEF TypeOK
  <2> QED BY <2>3, <2>4, <2>5, <2>6, <2>7 DEF TypeOK, web
<1>2. ASSUME NEW t \in Transfer, Answered(t) PROVE TypeOK'
  BY <1>2 DEF TypeOK, Answered, web
<1>3. ASSUME NEW t \in Transfer, Open(t) PROVE TypeOK'
  BY <1>3 DEF TypeOK, Open, Payload, web
<1>4. ASSUME NEW t \in Transfer, Receive(t) PROVE TypeOK'
  <2>1. signals' \in Seq(Signal)
    BY <1>4, ToldType DEF Receive
  <2>2. PICK f \in Payload \cup {None} : file' = [file EXCEPT ![dest[t]] = f] \/ file' = file
    <3>1. CASE dest[t] \in Name /\ file[dest[t]] # None /\ file[dest[t]].by = t
      <4>1. [file[dest[t]] EXCEPT !.whole = TRUE] \in Payload
        BY <3>1, MadeWhole DEF TypeOK
      <4> QED BY <1>4, <3>1, <4>1 DEF Receive
    <3>2. CASE ~(dest[t] \in Name /\ file[dest[t]] # None /\ file[dest[t]].by = t)
      BY <1>4, <3>2 DEF Receive, TypeOK
    <3> QED BY <3>1, <3>2
  <2>3. file' \in [Name -> Payload \cup {None}]
    BY <2>2 DEF TypeOK
  <2> QED BY <1>4, <2>1, <2>3 DEF TypeOK, Receive, web
<1>5. ASSUME NEW t \in Transfer, Abort(t) PROVE TypeOK'
  <2>1. signals' \in Seq(Signal)
    BY <1>5, ToldType DEF Abort
  <2> QED BY <1>5, <2>1 DEF TypeOK, Abort, web
<1>6. ASSUME NEW t \in Transfer, Recover(t) PROVE TypeOK'
  BY <1>6 DEF TypeOK, Recover, Interrupted, WriteMetadata, Sidecar, Status
<1>7. ASSUME NEW t \in Transfer, RemoveMetadata(t) PROVE TypeOK'
  BY <1>7 DEF TypeOK, RemoveMetadata, web
<1>8. ASSUME HandleSignal PROVE TypeOK'
  <2> DEFINE s == Head(signals)
  <2>1. s \in Signal /\ signals' \in Seq(Signal) /\ UNCHANGED <<agent, obex, dest, web, serving>>
    BY <1>8, QueueHead DEF HandleSignal
  <2>2. CASE Followed(s.of)
    <3> DEFINE n == pending[s.of]
    <3>1. s.of \in Transfer /\ s.says \in {"complete", "failed"} /\ n \in Name
      BY <2>1, <2>2 DEF Signal, Followed, TypeOK
    <3>2. Finish(s.of, s.says)
      BY <1>8, <2>2 DEF HandleSignal
    <3>3. pending' = [pending EXCEPT ![s.of] = None]
      BY <3>2 DEF Finish, FinishWith
    <3>4. file' = [file EXCEPT ![n] = file[n]] \/ file' = [file EXCEPT ![n] = None]
      BY <3>2 DEF Finish, FinishWith
    <3>5. PICK status \in Status, ok \in BOOLEAN :
            WriteMetadata(s.of, [status |-> status, name |-> n], ok)
      BY <3>1, <3>2 DEF Finish, FinishWith, Status
    <3>6. [status |-> status, name |-> n] \in Sidecar
      BY <3>1 DEF Sidecar
    <3>7. side' \in [Transfer -> Sidecar \cup {None}] /\ flawless' \in BOOLEAN
      BY <3>1, <3>5, <3>6, WriteTypes
    <3>8. file' \in [Name -> Payload \cup {None}] /\ pending' \in [Transfer -> Name \cup {None}]
      BY <3>1, <3>3, <3>4 DEF TypeOK
    <3> QED BY <2>1, <3>7, <3>8 DEF TypeOK, web
  <2>3. CASE ~Followed(s.of)
    BY <1>8, <2>1, <2>3 DEF HandleSignal, TypeOK, web
  <2> QED BY <2>2, <2>3
<1>9. ASSUME Crash PROVE TypeOK'
  BY <1>9, EmptySeq DEF TypeOK, Crash, web
<1>10. ASSUME ObexDie PROVE TypeOK'
  BY <1>10 DEF TypeOK, ObexDie, web
<1>11. ASSUME Start \/ Registered \/ Deleted \/ ListScan PROVE TypeOK'
  BY <1>11 DEF TypeOK, Start, Registered, Deleted, ListScan, web
<1>12. ASSUME NEW n \in Name, WebDelete(n) PROVE TypeOK'
  BY <1>12 DEF TypeOK, WebDelete
<1>13. ASSUME ListRead PROVE TypeOK'
  BY <1>13 DEF TypeOK, ListRead, Listing, Hidden, Claimed, Sidecars, Sidecar
<1>14. CASE UNCHANGED vars
  BY <1>14 DEF TypeOK, vars, web
<1> QED
  BY <1>1, <1>2, <1>3, <1>4, <1>5, <1>6, <1>7, <1>8, <1>9, <1>10, <1>11, <1>12, <1>13, <1>14
  DEF Next, ObexNext

-----------------------------------------------------------------------------
(* A listing in progress is not spoilt by a file that goes or gets whole.  *)
LEMMA ListingKept ==
  ASSUME ListedIsWhole, seen' = seen, freed \subseteq freed',
         \A n \in Name : file'[n] = file[n] \/ file'[n] = None
           \/ (file[n] # None /\ file'[n].by = file[n].by /\ file'[n].whole)
  PROVE  ListedIsWhole'
BY DEF ListedIsWhole, Listed, Presentable

LEMMA QueueKept ==
  ASSUME TypeOK, QueueInv, signals' = signals, freed \subseteq freed',
         \A t \in Transfer : obex[t] = "ended" => obex'[t] = "ended" /\ pending'[t] \in {None, pending[t]},
         \A n \in Name : file'[n] = file[n] \/ (n \in freed' /\ file'[n] = None)
           \/ (file'[n] # None /\ obex[file'[n].by] # "ended")
  PROVE  QueueInv'
<1> SUFFICES ASSUME NEW i \in 1..Len(signals) PROVE SignalInv(signals[i])'
  BY DEF QueueInv
<1>1. SignalInv(signals[i]) /\ signals[i] \in Signal
  BY SignalTypes DEF QueueInv
<1> QED BY <1>1 DEF SignalInv, By, Signal, TypeOK

LEMMA OrderKept ==
  ASSUME TypeOK, OrderInv, signals' = signals,
         \A i \in 1..Len(signals) :
           LET u == signals[i].of IN
           \/ pending'[u] = None
           \/ /\ pending'[u] = pending[u]
              /\ file'[pending[u]] = file[pending[u]] \/ file'[pending[u]] = None
  PROVE  OrderInv'
BY DEF OrderInv

LEMMA AuthorizeStep ==
  ASSUME IInv, NEW t \in Transfer, NEW n \in Name, AuthorizePush(t, n), TypeOK'
  PROVE  IInv'
<1> DEFINE car == [status |-> "receiving", name |-> n]
           bad == [of |-> t, says |-> "failed"]
<1>1. /\ TypeOK /\ AgentInv /\ ApartInv /\ QueueInv /\ OrderInv /\ DeletingInv /\ ReceivingInv
      /\ ListedIsWhole
      /\ \A u \in Transfer : TransferInv(u)
      /\ \A m \in Name : FileInv(m)
  BY DEF IInv
<1>2. /\ agent = "up" /\ obex[t] = "new" /\ file[n] = None
      /\ \A u \in Transfer : pending[u] # n
      /\ pending' = [pending EXCEPT ![t] = n]
      /\ UNCHANGED <<file, deleting, freed, seen, serving>>
  BY DEF AuthorizePush, FreeName, web
<1>3. PICK ok \in BOOLEAN :
        /\ WriteMetadata(t, car, ok)
        /\ agent' = IF ok THEN "answering" ELSE "up"
        /\ obex' = [obex EXCEPT ![t] = IF ok THEN "asking" ELSE "ended"]
        /\ dest' = [dest EXCEPT ![t] = IF ok THEN n ELSE @]
        /\ signals' = IF ok THEN signals ELSE Append(signals, bad)
  BY DEF AuthorizePush
<1>4. /\ side[t] = None /\ dest[t] = None /\ pending[t] = None
      /\ \A m \in Name : ~By(m, t)
      /\ seen # None => t \notin seen.asked
  BY <1>1, <1>2 DEF TransferInv, FreshInv
<1>5. car.status = "receiving" /\ car.name = n /\ car # None /\ car \in Sidecar
  BY NoneAssumption DEF Sidecar, Status
<1>6. /\ bad \in Signal /\ bad.of = t /\ bad.says = "failed"
      /\ n # None /\ Len(signals) \in Nat
      /\ \A i \in 1..Len(signals) : signals[i] \in Signal /\ signals[i].of # t
  <2>1. bad \in Signal
    BY DEF Signal
  <2>2. \A i \in 1..Len(signals) : signals[i].of # t
    BY <1>1, <1>2 DEF QueueInv, SignalInv
  <2> QED BY <1>1, <2>1, <2>2, NoneAssumption, SignalTypes
<1>7. /\ side'[t] = IF ok THEN car ELSE None
      /\ dest'[t] = IF ok THEN n ELSE None
      /\ obex'[t] = IF ok THEN "asking" ELSE "ended"
      /\ pending'[t] = n
      /\ flawless' = (flawless /\ ok)
      /\ \A u \in Transfer \ {t} : /\ side'[u] = side[u] /\ dest'[u] = dest[u]
                                  /\ obex'[u] = obex[u] /\ pending'[u] = pending[u]
  BY <1>1, <1>2, <1>3, <1>4 DEF TypeOK, WriteMetadata
<1> HIDE DEF car, bad
<1>8. TransferInv(t)'
  BY <1>1, <1>2, <1>3, <1>4, <1>5, <1>6, <1>7
  DEF TransferInv, FreshInv, DestInv, CompleteInv, PendingInv, By, InFlight
<1>9. ASSUME NEW u \in Transfer \ {t} PROVE TransferInv(u)'
  BY <1>1, <1>2, <1>3, <1>7
  DEF TransferInv, FreshInv, DestInv, CompleteInv, PendingInv, By, InFlight
<1>10. ASSUME NEW m \in Name PROVE FileInv(m)'
  <2>1. FileInv(m) /\ (file[m] # None => file[m].by \in Transfer \ {t})
    BY <1>1, <1>4 DEF By, TypeOK, Payload
  <2> QED BY <1>2, <1>7, <2>1 DEF FileInv, Presentable
<1>11. ApartInv'
  <2>1. \A u \in Transfer \ {t} : obex[u] \in InFlight => dest[u] # n
    BY <1>1, <1>2 DEF TransferInv, DestInv
  <2> QED BY <1>1, <1>7, <2>1 DEF ApartInv, InFlight
<1>12. QueueInv' /\ OrderInv'
  <2>1. CASE ok
    <3>1. QueueInv'
      <4>1. \A u \in Transfer : obex[u] = "ended" =>
              obex'[u] = "ended" /\ pending'[u] \in {None, pending[u]}
        BY <1>2, <1>7
      <4>2. freed \subseteq freed' /\ signals' = signals /\ \A m \in Name : file'[m] = file[m]
        BY <1>2, <1>3, <2>1
      <4> QED BY <1>1, <4>1, <4>2, QueueKept
    <3>2. OrderInv'
      BY <1>1, <1>2, <1>3, <1>6, <1>7, <2>1, OrderKept DEF Signal
    <3> QED BY <3>1, <3>2
  <2>2. CASE ~ok
    <3>1. /\ Len(signals') = Len(signals) + 1 /\ signals'[Len(signals) + 1] = bad
          /\ \A i \in 1..Len(signals) : signals'[i] = signals[i]
      BY <1>1, <1>3, <1>6, <2>2, Appended
    <3>2. ASSUME NEW i \in 1..Len(signals), NEW s, s = signals[i] PROVE SignalInv(s)'
      <4>1. SignalInv(s) /\ s.of \in Transfer \ {t}
        BY <1>1, <1>6, <3>2 DEF QueueInv, Signal
      <4> QED BY <1>2, <1>7, <4>1 DEF SignalInv, By
    <3>3. SignalInv(bad)'
      BY <1>6, <1>7, <2>2 DEF SignalInv
    <3>4. QueueInv'
      BY <1>6, <3>1, <3>2, <3>3 DEF QueueInv, SignalInv, By
    <3>5. OrderInv'
      BY <1>1, <1>2, <1>6, <1>7, <3>1 DEF OrderInv, Signal
    <3> QED BY <3>4, <3>5
  <2> QED BY <2>1, <2>2
<1>13. ReceivingInv'
  <2> SUFFICES ASSUME flawless' PROVE ReceivingInv'
    BY DEF ReceivingInv
  <2>1. ok /\ flawless
    BY <1>7
  <2>2. Interrupted' = Interrupted \cup {t} /\ t \notin Interrupted
    BY <1>4, <1>5, <1>7, <2>1 DEF Interrupted
  <2>3. \A u \in Interrupted : /\ u \in Transfer \ {t} /\ pending[u] = side[u].name /\ side'[u] = side[u]
                             /\ side[u].name # n
    BY <1>1, <1>2, <1>7, <2>1, <2>2 DEF ReceivingInv, Interrupted
  <2>4. \A u \in Transfer \ {t} : obex[u] \in InFlight => dest[u] # n
    BY <1>1, <1>2 DEF TransferInv, DestInv
  <2>5. \A u \in Interrupted :
          /\ file[side[u].name] = None \/ By(side[u].name, u)
          /\ \A v \in Interrupted \ {u} : side[v].name # side[u].name
          /\ \A v \in Transfer \ {u} : obex[v] \in InFlight => side[u].name # dest[v]
    BY <1>1, <2>1 DEF ReceivingInv
  <2>6. side'[t].name = n /\ dest'[t] = n /\ pending'[t] = n
    BY <1>5, <1>7, <2>1
  <2> QED BY <1>2, <1>7, <2>1, <2>2, <2>3, <2>4, <2>5, <2>6 DEF ReceivingInv, By, InFlight
<1>14. AgentInv'
  BY <1>3 DEF AgentInv
<1>15. ListedIsWhole'
  <2>1. freed \subseteq freed' /\ seen' = seen /\ \A m \in Name : file'[m] = file[m]
    BY <1>2
  <2> QED BY <1>1, <2>1, ListingKept
<1>16. DeletingInv'
  BY <1>1, <1>2 DEF DeletingInv
<1> QED BY <1>1, <1>8, <1>9, <1>10, <1>11, <1>12, <1>13, <1>14, <1>15, <1>16 DEF IInv

LEMMA AnsweredStep ==
  ASSUME IInv, NEW t \in Transfer, Answered(t), TypeOK'
  PROVE  IInv'
<1>1. /\ TypeOK /\ AgentInv /\ ApartInv /\ QueueInv /\ OrderInv /\ DeletingInv /\ ReceivingInv
      /\ ListedIsWhole
      /\ \A u \in Transfer : TransferInv(u)
      /\ \A m \in Name : FileInv(m)
  BY DEF IInv
<1>2. /\ agent = "answering" /\ agent' = "up" /\ obex[t] = "asking"
      /\ obex' = [obex EXCEPT ![t] = "accepted"]
      /\ UNCHANGED <<file, side, pending, dest, signals, deleting, freed, seen, serving, flawless>>
  BY DEF Answered, web
<1>3. /\ obex'[t] = "accepted"
      /\ \A u \in Transfer \ {t} : obex'[u] = obex[u]
  BY <1>1, <1>2 DEF TypeOK
<1>4. ASSUME NEW u \in Transfer PROVE TransferInv(u)'
  BY <1>1, <1>2, <1>3
  DEF TransferInv, FreshInv, DestInv, CompleteInv, PendingInv, By, InFlight
<1>5. ASSUME NEW m \in Name PROVE FileInv(m)'
  <2>1. FileInv(m) /\ (file[m] # None => file[m].by \in Transfer)
    BY <1>1 DEF TypeOK, Payload
  <2> QED BY <1>2, <1>3, <2>1 DEF FileInv, Presentable
<1>6. ApartInv' /\ ReceivingInv'
  BY <1>1, <1>2, <1>3 DEF ApartInv, ReceivingInv, Interrupted, By, InFlight
<1>7. QueueInv' /\ OrderInv'
  <2>1. /\ \A u \in Transfer : obex[u] = "ended" => obex'[u] = "ended" /\ pending'[u] \in {None, pending[u]}
        /\ freed \subseteq freed' /\ signals' = signals /\ \A m \in Name : file'[m] = file[m]
    BY <1>2, <1>3
  <2> QED BY <1>1, <1>2, <2>1, QueueKept, OrderKept
<1>8. ListedIsWhole' /\ DeletingInv' /\ AgentInv'
  <2>1. freed \subseteq freed' /\ seen' = seen /\ \A m \in Name : file'[m] = file[m]
    BY <1>2
  <2> QED BY <1>1, <1>2, <2>1, ListingKept DEF DeletingInv, AgentInv
<1> QED BY <1>1, <1>4, <1>5, <1>6, <1>7, <1>8 DEF IInv

LEMMA OpenStep ==
  ASSUME IInv, NEW t \in Transfer, Open(t), TypeOK'
  PROVE  IInv'
<1> DEFINE p == [by |-> t, whole |-> FALSE]
<1>1. /\ TypeOK /\ AgentInv /\ ApartInv /\ QueueInv /\ OrderInv /\ DeletingInv /\ ReceivingInv
      /\ ListedIsWhole
      /\ \A u \in Transfer : TransferInv(u)
      /\ \A m \in Name : FileInv(m)
  BY DEF IInv
<1>2. /\ obex[t] = "accepted" /\ obex' = [obex EXCEPT ![t] = "writing"]
      /\ file' = [file EXCEPT ![dest[t]] = p]
      /\ UNCHANGED <<side, pending, agent, dest, signals, deleting, freed, seen, serving, flawless>>
  BY DEF Open, web
<1>3. /\ dest[t] \in Name /\ file[dest[t]] = None
      /\ agent \in {"up", "answering"} => pending[t] = dest[t]
      /\ dest[t] \notin freed => side[t] # None /\ side[t].status = "receiving" /\ side[t].name = dest[t]
      /\ seen # None /\ t \in seen.asked => dest[t] \in seen.hidden \cup freed
  BY <1>1, <1>2 DEF TransferInv, DestInv, InFlight, TypeOK
<1>4. p \in Payload /\ p # None /\ p.by = t /\ ~p.whole
  <2>1. p \in Payload
    BY DEF Payload
  <2> QED BY <2>1, NoneAssumption
<1>5. /\ obex'[t] = "writing" /\ \A u \in Transfer \ {t} : obex'[u] = obex[u]
      /\ file'[dest[t]] = p /\ \A m \in Name \ {dest[t]} : file'[m] = file[m]
  BY <1>1, <1>2, <1>3 DEF TypeOK
<1> HIDE DEF p
<1>6. \A u \in Transfer \ {t} : pending[u] # dest[t]
  <2>1. CASE agent \in {"up", "answering"}
    BY <1>1, <1>3, <2>1, NoneAssumption DEF TransferInv, PendingInv
  <2>2. CASE agent \notin {"up", "answering"}
    BY <1>1, <1>3, <2>2, NoneAssumption DEF AgentInv, TypeOK
  <2> QED BY <2>1, <2>2
<1>7. TransferInv(t)'
  <2>1. DestInv(t)' /\ PendingInv(t)' /\ FreshInv(t)'
    BY <1>1, <1>2, <1>3, <1>4, <1>5
    DEF TransferInv, FreshInv, DestInv, PendingInv, By, InFlight, TypeOK
  <2>2. CompleteInv(t)'
    BY <1>1, <1>2, <1>3, <1>5 DEF TransferInv, CompleteInv, By, TypeOK, Sidecar
  <2> QED BY <2>1, <2>2 DEF TransferInv
<1>8. ASSUME NEW u \in Transfer \ {t} PROVE TransferInv(u)'
  <2>1. obex[u] \in InFlight => dest[u] # dest[t] /\ dest[u] \in Name
    BY <1>1, <1>2 DEF ApartInv, TransferInv, DestInv, InFlight, TypeOK
  <2>2. DestInv(u)' /\ PendingInv(u)'
    BY <1>1, <1>2, <1>3, <1>5, <1>6, <2>1 DEF TransferInv, DestInv, PendingInv, By, InFlight, TypeOK
  <2>3. FreshInv(u)'
    BY <1>1, <1>2, <1>3, <1>4, <1>5 DEF TransferInv, FreshInv, By
  <2>4. CompleteInv(u)'
    BY <1>1, <1>2, <1>3, <1>5 DEF TransferInv, CompleteInv, By, TypeOK, Sidecar
  <2> QED BY <2>2, <2>3, <2>4 DEF TransferInv
<1>9. ASSUME NEW m \in Name PROVE FileInv(m)'
  <2>1. CASE m = dest[t]
    BY <1>2, <1>3, <1>4, <1>5, <2>1 DEF FileInv
  <2>2. CASE m # dest[t]
    <3>1. FileInv(m) /\ (file[m] # None => file[m].by \in Transfer)
      BY <1>1 DEF TypeOK, Payload
    <3>2. file[m] # None => file[m].by # t
      BY <2>2, <3>1 DEF FileInv
    <3> QED BY <1>2, <1>5, <2>2, <3>1, <3>2 DEF FileInv, Presentable
  <2> QED BY <2>1, <2>2
<1>10. ApartInv'
  BY <1>1, <1>2, <1>5 DEF ApartInv, InFlight
<1>11. QueueInv' /\ OrderInv'
  <2>1. /\ \A u \in Transfer : obex[u] = "ended" => obex'[u] = "ended" /\ pending'[u] \in {None, pending[u]}
        /\ freed \subseteq freed' /\ signals' = signals
    BY <1>2, <1>5
  <2>2. \A m \in Name : file'[m] = file[m] \/ (file'[m] # None /\ obex[file'[m].by] # "ended")
    BY <1>2, <1>4, <1>5
  <2>3. \A i \in 1..Len(signals) : signals[i].of \in Transfer \ {t}
    BY <1>1, <1>2, SignalTypes DEF QueueInv, SignalInv, Signal
  <2>4. \A u \in Transfer \ {t} : pending'[u] = None
          \/ (pending'[u] = pending[u] /\ file'[pending[u]] = file[pending[u]])
    BY <1>1, <1>2, <1>5, <1>6 DEF TypeOK
  <2> QED BY <1>1, <2>1, <2>2, <2>3, <2>4, QueueKept, OrderKept
<1>12. ReceivingInv'
  <2> SUFFICES ASSUME flawless PROVE ReceivingInv'
    BY <1>2 DEF ReceivingInv
  <2>1. ASSUME NEW u \in Interrupted
        PROVE  file'[side[u].name] = None \/ By(side[u].name, u)'
    <3>1. u \in Transfer /\ side[u].name \in Name
      BY <1>1 DEF Interrupted, TypeOK, Sidecar
    <3>2. CASE side[u].name = dest[t]
      <4>1. u = t
        BY <1>1, <1>2, <3>1, <3>2 DEF ReceivingInv, InFlight
      <4> QED BY <1>2, <1>4, <1>5, <3>2, <4>1 DEF By
    <3>3. CASE side[u].name # dest[t]
      BY <1>1, <1>2, <1>5, <3>1, <3>3 DEF ReceivingInv, By
    <3> QED BY <3>2, <3>3
  <2>2. Interrupted' = Interrupted
    BY <1>2 DEF Interrupted
  <2> QED BY <1>1, <1>2, <1>5, <2>1, <2>2 DEF ReceivingInv, By, InFlight
<1>13. ListedIsWhole'
  BY <1>1, <1>2, <1>3, <1>4, <1>5 DEF ListedIsWhole, Listed, Presentable
<1>14. AgentInv' /\ DeletingInv'
  BY <1>1, <1>2, <1>5 DEF AgentInv, DeletingInv, InFlight
<1> QED BY <1>1, <1>7, <1>8, <1>9, <1>10, <1>11, <1>12, <1>13, <1>14 DEF IInv

(* A transfer that ends adds its two signals, if the agent is there.       *)
LEMMA EndedQueue ==
  ASSUME TypeOK, AgentInv, QueueInv, OrderInv,
         NEW t \in Transfer, NEW says \in {"complete", "failed"},
         signals' = Told(t, says), obex[t] # "ended", obex'[t] = "ended",
         \A u \in Transfer \ {t} : obex'[u] = obex[u],
         pending' = pending, freed' = freed,
         \A m \in Name : \/ file'[m] = file[m]
                        \/ (By(m, t) /\ file'[m] # None /\ file'[m].by = t),
         \A u \in Transfer \ {t} : pending[u] # None => file'[pending[u]] = file[pending[u]],
         says = "complete" =>
           /\ \A m \in Name : By(m, t)' => file'[m].whole
           /\ pending[t] # None => pending[t] \in freed \/ file'[pending[t]] # None,
         says = "failed" /\ pending[t] # None /\ file'[pending[t]] # None => ~file'[pending[t]].whole
  PROVE  QueueInv' /\ OrderInv'
<1>1. CASE agent \in {"up", "answering"}
  <2> DEFINE a == [of |-> t, says |-> says]
             b == [of |-> t, says |-> "failed"]
             l == Len(signals)
  <2>1. a.of = t /\ a.says = says /\ b.of = t /\ b.says = "failed"
    OBVIOUS
  <2> HIDE DEF a, b
  <2>2. /\ Len(signals') = l + 2 /\ l \in Nat
        /\ \A i \in 1..l : signals'[i] = signals[i] /\ signals[i] \in Signal
        /\ signals'[l + 1] = a /\ signals'[l + 2] = b
    <3>1. l \in Nat /\ \A i \in 1..l : signals[i] \in Signal
      BY SignalTypes
    <3>2. /\ Len(signals') = l + 2
          /\ \A i \in 1..l : signals'[i] = signals[i]
          /\ signals'[l + 1] = [of |-> t, says |-> says]
          /\ signals'[l + 2] = [of |-> t, says |-> "failed"]
      <4> DEFINE told == Told(t, says)
      <4>1. /\ Len(told) = l + 2 /\ \A i \in 1..l : told[i] = signals[i]
            /\ told[l + 1] = [of |-> t, says |-> says]
            /\ told[l + 2] = [of |-> t, says |-> "failed"]
        BY <1>1, EndTold, Zenon
      <4>2. signals' = told
        OBVIOUS
      <4> QED BY <4>1, <4>2, Zenon
    <3> QED BY <3>1, <3>2 DEF a, b
  <2>3. \A i \in 1..l : signals[i].of \in Transfer \ {t}
    BY <2>2 DEF QueueInv, SignalInv, Signal
  <2>4. ASSUME NEW i \in 1..l, NEW s, s = signals[i] PROVE SignalInv(s)'
    <3>1. SignalInv(s) /\ s.of \in Transfer \ {t}
      BY <2>3, <2>4 DEF QueueInv
    <3>2. ASSUME NEW m \in Name, By(m, s.of)' PROVE By(m, s.of) /\ file'[m] = file[m]
      BY <3>1, <3>2 DEF By
    <3> QED BY <3>1, <3>2 DEF SignalInv
  <2>5. SignalInv(a)' /\ SignalInv(b)'
    BY <2>1 DEF SignalInv
  <2>6. QueueInv'
    <3> SUFFICES ASSUME NEW i \in 1..(l + 2), NEW s, s = signals'[i] PROVE SignalInv(s)'
      BY <2>2 DEF QueueInv, SignalInv, By
    <3>1. i \in 1..l \/ i = l + 1 \/ i = l + 2
      BY <2>2
    <3>2. CASE i \in 1..l
      BY <2>2, <2>4, <3>2
    <3>3. CASE i = l + 1 \/ i = l + 2
      BY <2>2, <2>5, <3>3
    <3> QED BY <3>1, <3>2, <3>3
  <2>7. OrderInv'
    <3> SUFFICES ASSUME NEW i \in 1..(l + 2), NEW u, u = signals'[i].of,
                        signals'[i].says = "failed", pending[u] # None,
                        file'[pending[u]] # None, file'[pending[u]].whole
                 PROVE  \E j \in 1..(i - 1) : signals'[j].of = u /\ signals'[j].says = "complete"
      BY <2>2 DEF OrderInv
    <3>1. CASE i \in 1..l
      <4>1. u \in Transfer \ {t} /\ signals'[i] = signals[i]
        BY <2>2, <2>3, <3>1
      <4>2. PICK j \in 1..(i - 1) : signals[j].of = u /\ signals[j].says = "complete"
        BY <3>1, <4>1 DEF OrderInv
      <4> QED BY <2>2, <3>1, <4>2
    <3>2. CASE i = l + 1
      BY <2>1, <2>2, <3>2
    <3>3. CASE i = l + 2
      <4>1. u = t /\ says = "complete"
        BY <2>1, <2>2, <3>3
      <4>2. l + 1 \in 1..(i - 1)
        BY <2>2, <3>3
      <4> QED BY <2>1, <2>2, <4>1, <4>2
    <3> QED BY <2>2, <3>1, <3>2, <3>3
  <2> QED BY <2>6, <2>7
<1>2. CASE agent \notin {"up", "answering"}
  <2>1. signals' = <<>>
    BY <1>2 DEF Told, AgentInv, TypeOK
  <2>2. Len(signals') = 0
    BY <2>1
  <2> QED BY <2>2 DEF QueueInv, OrderInv
<1> QED BY <1>1, <1>2

LEMMA ReceiveStep ==
  ASSUME IInv, NEW t \in Transfer, Receive(t), TypeOK'
  PROVE  IInv'
<1>1. /\ TypeOK /\ AgentInv /\ ApartInv /\ QueueInv /\ OrderInv /\ DeletingInv /\ ReceivingInv
      /\ ListedIsWhole
      /\ \A u \in Transfer : TransferInv(u)
      /\ \A m \in Name : FileInv(m)
  BY DEF IInv
<1>2. /\ obex[t] = "writing" /\ obex' = [obex EXCEPT ![t] = "ended"]
      /\ signals' = Told(t, "complete")
      /\ UNCHANGED <<side, pending, agent, dest, deleting, freed, seen, serving, flawless>>
  BY DEF Receive, web
<1>3. obex'[t] = "ended" /\ \A u \in Transfer \ {t} : obex'[u] = obex[u]
  BY <1>1, <1>2 DEF TypeOK
<1>4. ASSUME NEW m \in Name
      PROVE  /\ ~By(m, t) => file'[m] = file[m]
             /\ By(m, t) => By(m, t)' /\ file'[m].whole
  <2>1. CASE By(m, t)
    <3>1. m = dest[t] /\ file[m] \in Payload
      BY <1>1, <2>1 DEF FileInv, By, TypeOK
    <3>2. file'[m] = [file[m] EXCEPT !.whole = TRUE]
      BY <1>1, <2>1, <3>1 DEF Receive, By, TypeOK
    <3>3. file'[m] \in Payload /\ file'[m].by = t /\ file'[m].whole
      BY <2>1, <3>1, <3>2, MadeWhole DEF By
    <3> QED BY <2>1, <3>3, NoneAssumption DEF By
  <2>2. CASE ~By(m, t)
    BY <1>1, <2>2 DEF Receive, By, TypeOK
  <2> QED BY <2>1, <2>2
<1>5. ASSUME NEW m \in Name
      PROVE  /\ file'[m] = None <=> file[m] = None
             /\ file'[m] # None => file'[m].by = file[m].by
             /\ \A u \in Transfer : By(m, u)' <=> By(m, u)
  BY <1>4 DEF By
<1>6. ASSUME NEW u \in Transfer PROVE TransferInv(u)'
  <2>1. FreshInv(u)'
    BY <1>1, <1>2, <1>3, <1>5 DEF TransferInv, FreshInv
  <2>2. DestInv(u)'
    BY <1>1, <1>2, <1>3, <1>5 DEF TransferInv, DestInv, TypeOK, InFlight
  <2>3. CompleteInv(u)'
    BY <1>1, <1>2, <1>5 DEF TransferInv, CompleteInv, TypeOK, Sidecar
  <2>4. PendingInv(u)'
    BY <1>1, <1>2, <1>3, <1>5 DEF TransferInv, PendingInv, TypeOK
  <2> QED BY <2>1, <2>2, <2>3, <2>4 DEF TransferInv
<1>7. ASSUME NEW m \in Name PROVE FileInv(m)'
  <2>1. FileInv(m)
    BY <1>1
  <2>2. CASE By(m, t)
    BY <1>2, <1>3, <1>4, <2>1, <2>2 DEF FileInv, Presentable, By
  <2>3. CASE ~By(m, t)
    <3>1. file[m] # None => file[m].by \in Transfer \ {t}
      BY <1>1, <2>3 DEF TypeOK, Payload, By
    <3> QED BY <1>2, <1>3, <1>4, <2>1, <2>3, <3>1 DEF FileInv, Presentable
  <2> QED BY <2>2, <2>3
<1>8. ApartInv'
  BY <1>1, <1>2, <1>3 DEF ApartInv, InFlight
<1>9. QueueInv' /\ OrderInv'
  <2>1. \A m \in Name : file'[m] = file[m] \/ (By(m, t) /\ file'[m] # None /\ file'[m].by = t)
    BY <1>4 DEF By
  <2>2. \A u \in Transfer \ {t} : pending[u] # None => file'[pending[u]] = file[pending[u]]
    BY <1>1, <1>4 DEF TransferInv, PendingInv, By, TypeOK
  <2>3. \A m \in Name : By(m, t)' => file'[m].whole
    BY <1>4, <1>5
  <2>4. pending[t] # None => pending[t] \in freed \/ file'[pending[t]] # None
    BY <1>1, <1>2, <1>5 DEF TransferInv, PendingInv, TypeOK
  <2> QED BY <1>1, <1>2, <1>3, <2>1, <2>2, <2>3, <2>4, EndedQueue
<1>10. ReceivingInv'
  BY <1>1, <1>2, <1>3, <1>5
  DEF ReceivingInv, Interrupted, InFlight, TypeOK, Sidecar
<1>11. ListedIsWhole'
  BY <1>1, <1>2, <1>4, ListingKept DEF By
<1>12. AgentInv' /\ DeletingInv'
  BY <1>1, <1>2, <1>3 DEF AgentInv, DeletingInv, InFlight, Told
<1> QED BY <1>1, <1>6, <1>7, <1>8, <1>9, <1>10, <1>11, <1>12 DEF IInv

LEMMA AbortStep ==
  ASSUME IInv, NEW t \in Transfer, Abort(t), TypeOK'
  PROVE  IInv'
<1>1. /\ TypeOK /\ AgentInv /\ ApartInv /\ QueueInv /\ OrderInv /\ DeletingInv /\ ReceivingInv
      /\ ListedIsWhole
      /\ \A u \in Transfer : TransferInv(u)
      /\ \A m \in Name : FileInv(m)
  BY DEF IInv
<1>2. /\ obex[t] \in {"accepted", "writing"} /\ obex' = [obex EXCEPT ![t] = "ended"]
      /\ signals' = Told(t, "failed")
      /\ UNCHANGED <<file, side, pending, agent, dest, deleting, freed, seen, serving, flawless>>
  BY DEF Abort, web
<1>3. obex'[t] = "ended" /\ \A u \in Transfer \ {t} : obex'[u] = obex[u]
  BY <1>1, <1>2 DEF TypeOK
<1>4. ASSUME NEW u \in Transfer PROVE TransferInv(u)'
  BY <1>1, <1>2, <1>3
  DEF TransferInv, FreshInv, DestInv, CompleteInv, PendingInv, By, InFlight
<1>5. ASSUME NEW m \in Name PROVE FileInv(m)'
  <2>1. FileInv(m) /\ (file[m] # None => file[m].by \in Transfer)
    BY <1>1 DEF TypeOK, Payload
  <2> QED BY <1>2, <1>3, <2>1 DEF FileInv, Presentable
<1>6. ApartInv' /\ ReceivingInv'
  BY <1>1, <1>2, <1>3 DEF ApartInv, ReceivingInv, Interrupted, By, InFlight
<1>7. QueueInv' /\ OrderInv'
  <2>1. pending[t] # None /\ file[pending[t]] # None => ~file[pending[t]].whole
    <3> SUFFICES ASSUME pending[t] # None, file[pending[t]] # None PROVE ~file[pending[t]].whole
      OBVIOUS
    <3>1. pending[t] \in Name /\ file[pending[t]].by = t
      BY <1>1 DEF TransferInv, PendingInv, By, TypeOK
    <3> QED BY <1>1, <1>2, <3>1 DEF FileInv
  <2> QED BY <1>1, <1>2, <1>3, <2>1, EndedQueue
<1>8. ListedIsWhole'
  <2>1. freed \subseteq freed' /\ seen' = seen /\ \A m \in Name : file'[m] = file[m]
    BY <1>2
  <2> QED BY <1>1, <2>1, ListingKept
<1>9. AgentInv' /\ DeletingInv'
  BY <1>1, <1>2, <1>3 DEF AgentInv, DeletingInv, InFlight, Told
<1> QED BY <1>1, <1>4, <1>5, <1>6, <1>7, <1>8, <1>9 DEF IInv

(* What finish does, point by point: it keeps the file, whole and of       *)
(* lawful size, or removes it, and only then may the status be "failed".   *)
FinishedAs(t, says, n, status, ok) ==
  /\ pending'[t] = None /\ \A u \in Transfer \ {t} : pending'[u] = pending[u]
  /\ \A m \in Name \ {n} : file'[m] = file[m]
  /\ \/ /\ file'[n] = file[n] /\ file[n] # None /\ file[n].by \notin Oversize
        /\ says = "complete" /\ status = "complete"
     \/ /\ file'[n] = None
        /\ file[n] # None /\ says = "complete" => file[n].by \in Oversize
        /\ file[n] # None \/ says = "failed" => status = "failed"
        /\ status = "complete" => says = "complete"
  /\ side'[t] = IF ok THEN [status |-> status, name |-> n] ELSE side[t]
  /\ \A u \in Transfer \ {t} : side'[u] = side[u]
  /\ flawless' = (flawless /\ ok)

LEMMA Finishes ==
  ASSUME TypeOK, NEW t \in Transfer, NEW says \in {"complete", "failed"},
         NEW n, n = pending[t], n \in Name, Finish(t, says)
  PROVE  \E status \in {"complete", "failed"}, ok \in BOOLEAN : FinishedAs(t, says, n, status, ok)
<1> DEFINE there == file[n] # None
           keep == says = "complete" /\ there /\ file[n].by \notin Oversize
           status == IF there /\ ~keep THEN "failed" ELSE says
<1>1. /\ pending' = [pending EXCEPT ![t] = None]
      /\ file' = [file EXCEPT ![n] = IF keep THEN file[n] ELSE None]
  BY DEF Finish, FinishWith
<1>2. PICK ok \in BOOLEAN : WriteMetadata(t, [status |-> status, name |-> n], ok)
  BY DEF Finish, FinishWith
<1>3. /\ pending'[t] = None /\ \A u \in Transfer \ {t} : pending'[u] = pending[u]
      /\ \A m \in Name \ {n} : file'[m] = file[m]
      /\ file'[n] = IF keep THEN file[n] ELSE None
  BY <1>1 DEF TypeOK
<1>4. /\ side'[t] = IF ok THEN [status |-> status, name |-> n] ELSE side[t]
      /\ \A u \in Transfer \ {t} : side'[u] = side[u]
      /\ flawless' = (flawless /\ ok)
  BY <1>2 DEF WriteMetadata, TypeOK
<1>5. status \in {"complete", "failed"} /\ (keep => status = "complete")
      /\ (status = "complete" => says = "complete")
  OBVIOUS
<1> WITNESS status \in {"complete", "failed"}, ok \in BOOLEAN
<1> QED BY <1>3, <1>4, <1>5 DEF FinishedAs

LEMMA SignalStep ==
  ASSUME IInv, HandleSignal, TypeOK'
  PROVE  IInv'
<1>0. PICK s, t, n : s = Head(signals) /\ t = s.of /\ n = pending[t]
  OBVIOUS
<1>1. /\ TypeOK /\ AgentInv /\ ApartInv /\ QueueInv /\ OrderInv /\ DeletingInv /\ ReceivingInv
      /\ ListedIsWhole
      /\ \A u \in Transfer : TransferInv(u)
      /\ \A m \in Name : FileInv(m)
  BY DEF IInv
<1>2. /\ agent = "up" /\ signals # <<>> /\ signals' = Tail(signals)
      /\ IF Followed(t) THEN Finish(t, s.says) ELSE UNCHANGED <<file, side, pending, flawless>>
      /\ UNCHANGED <<agent, obex, dest, deleting, freed, seen, serving>>
  BY <1>0 DEF HandleSignal, web
<1>3. /\ s = signals[1] /\ s \in Signal /\ Len(signals) \in Nat \ {0}
      /\ Len(signals') = Len(signals) - 1
      /\ \A i \in 1..Len(signals') : signals'[i] = signals[i + 1]
  BY <1>0, <1>1, <1>2, QueueHead
<1>4. \A i \in 1..Len(signals) : signals[i] \in Signal /\ SignalInv(signals[i])
  BY <1>1, SignalTypes DEF QueueInv
<1>5. /\ t \in Transfer /\ s.says \in {"complete", "failed"} /\ SignalInv(s) /\ obex[t] = "ended"
  BY <1>0, <1>3, <1>4 DEF Signal, SignalInv
<1>6. AgentInv' /\ DeletingInv' /\ ApartInv'
  BY <1>1, <1>2 DEF AgentInv, DeletingInv, ApartInv
<1>7. ASSUME \A u \in Transfer : pending'[u] = None \/ (u # t /\ pending'[u] = pending[u]
               /\ (pending[u] # None => file'[pending[u]] = file[pending[u]]))
      PROVE  OrderInv'
  <2> SUFFICES ASSUME NEW i \in 1..Len(signals'), NEW u, u = signals'[i].of,
                      signals'[i].says = "failed", pending'[u] # None,
                      file'[pending'[u]] # None, file'[pending'[u]].whole
               PROVE  \E j \in 1..(i - 1) : signals'[j].of = u /\ signals'[j].says = "complete"
    BY DEF OrderInv
  <2>1. i + 1 \in 1..Len(signals) /\ signals'[i] = signals[i + 1] /\ u \in Transfer
    BY <1>3, <1>4 DEF Signal
  <2>2. u # t /\ pending[u] # None /\ file[pending[u]] # None /\ file[pending[u]].whole
    BY <1>7, <2>1
  <2>3. PICK j \in 1..i : signals[j].of = u /\ signals[j].says = "complete"
    BY <1>1, <2>1, <2>2 DEF OrderInv
  <2>4. j # 1
    BY <1>0, <1>3, <2>2, <2>3
  <2>5. j - 1 \in 1..(i - 1) /\ signals'[j - 1] = signals[j]
    BY <1>3, <2>1, <2>4
  <2> QED BY <2>3, <2>5
<1>8. CASE Followed(t)
  <2>1. n \in Name /\ (file[n] = None \/ By(n, t))
    BY <1>0, <1>1, <1>5, <1>8 DEF Followed, TransferInv, PendingInv, TypeOK
  <2>2. PICK status \in {"complete", "failed"}, ok \in BOOLEAN : FinishedAs(t, s.says, n, status, ok)
    BY <1>0, <1>1, <1>2, <1>5, <1>8, <2>1, Finishes
  <2> USE DEF FinishedAs
  <2>3. n # None /\ (dest[t] # None => dest[t] = n)
    BY <1>0, <1>1, <1>5, <2>1, NoneAssumption DEF TransferInv, DestInv
  <2>4. \A u \in Transfer \ {t} : pending[u] # n
    BY <1>0, <1>1, <1>5, <2>1, <2>3 DEF TransferInv, PendingInv
  <2>5. /\ \A m \in Name : file'[m] = file[m] \/ (m = n /\ file'[m] = None)
        /\ \A u \in Transfer, m \in Name : By(m, u)' => By(m, u) /\ file'[m] = file[m]
    BY <2>2 DEF By
  <2>6. side[t] = None \/ side[t].status = "receiving"
    BY <1>0, <1>1, <1>5, <2>1, <2>3 DEF TransferInv, PendingInv
  <2>7. ASSUME NEW u \in Transfer \ {t} PROVE TransferInv(u)'
    <3>1. FreshInv(u)'
      BY <1>1, <1>2, <2>2, <2>5 DEF TransferInv, FreshInv
    <3>2. DestInv(u)'
      BY <1>1, <1>2, <2>2, <2>5 DEF TransferInv, DestInv, TypeOK, InFlight
    <3>3. CompleteInv(u)'
      <4> SUFFICES ASSUME NEW k, side[u] # None, side[u].status = "complete", k = side[u].name,
                          k \notin freed
                   PROVE  By(k, u)'
        BY <1>2, <2>2 DEF CompleteInv, By
      <4>1. By(k, u) /\ k \in Name
        BY <1>1 DEF TransferInv, CompleteInv, TypeOK, Sidecar
      <4>2. k # n
        BY <2>1, <4>1 DEF By
      <4> QED BY <2>2, <4>1, <4>2 DEF By
    <3>4. PendingInv(u)'
      BY <1>1, <1>2, <1>5, <2>2, <2>4 DEF TransferInv, PendingInv, TypeOK, By
    <3> QED BY <3>1, <3>2, <3>3, <3>4 DEF TransferInv
  <2>8. TransferInv(t)'
    <3>1. FreshInv(t)' /\ PendingInv(t)'
      BY <1>2, <1>5, <2>2 DEF FreshInv, PendingInv
    <3>2. DestInv(t)'
      BY <1>1, <1>2, <1>5, <2>2, <2>3 DEF TransferInv, DestInv, InFlight
    <3>3. CompleteInv(t)'
      <4> SUFFICES ASSUME NEW k, side'[t] # None, side'[t].status = "complete", k = side'[t].name,
                          k \notin freed
                   PROVE  By(k, t)'
        BY <1>2 DEF CompleteInv, By
      <4>1. ok /\ status = "complete" /\ k = n
        BY <2>2, <2>6
      <4>2. file[n] # None
        BY <1>0, <1>5, <2>2, <2>3, <4>1 DEF SignalInv
      <4> QED BY <2>1, <2>2, <4>1, <4>2 DEF By
    <3> QED BY <3>1, <3>2, <3>3 DEF TransferInv
  <2>9. ASSUME NEW m \in Name PROVE FileInv(m)'
    <3> SUFFICES ASSUME file'[m] # None PROVE FileInv(m)'
      BY DEF FileInv
    <3>0. PICK u : u = file[m].by
      OBVIOUS
    <3>1. file'[m] = file[m] /\ FileInv(m) /\ u \in Transfer /\ u = file[m].by
      BY <1>1, <2>5, <3>0 DEF TypeOK, Payload
    <3>2. CASE u = t
      <4>1. m = n
        BY <2>3, <3>1, <3>2, NoneAssumption DEF FileInv
      <4>2. file[n].by \notin Oversize /\ status = "complete" /\ s.says = "complete"
        BY <2>2, <3>1, <4>1
      <4>3. file[n].whole
        BY <1>0, <1>5, <2>1, <3>1, <3>2, <4>1, <4>2 DEF SignalInv, By
      <4>4. Presentable(m)' /\ UNCHANGED <<obex, dest, freed>>
        BY <1>2, <3>1, <4>1, <4>2, <4>3 DEF Presentable
      <4>5. m \notin freed =>
              /\ side'[t] # None /\ side'[t].name = m /\ side'[t].status # "failed"
        <5>1. CASE ok
          <6>1. side'[t] = [status |-> "complete", name |-> m]
            BY <2>2, <4>1, <4>2, <5>1
          <6>2. [status |-> "complete", name |-> m] \in Sidecar
            BY DEF Sidecar, Status
          <6> QED BY <6>1, <6>2, NoneAssumption
        <5>2. CASE ~ok
          BY <2>2, <3>1, <3>2, <5>2 DEF FileInv
        <5> QED BY <5>1, <5>2
      <4> QED BY <1>5, <3>1, <3>2, <4>4, <4>5 DEF FileInv
    <3>3. CASE u # t
      <4>1. side'[u] = side[u] /\ UNCHANGED <<obex, dest, freed>>
        BY <1>2, <2>2, <3>1, <3>3
      <4> QED BY <3>1, <4>1 DEF FileInv, Presentable
    <3> QED BY <3>2, <3>3
  <2>10. QueueInv'
    <3> SUFFICES ASSUME NEW i \in 1..Len(signals'), NEW r, r = signals'[i] PROVE SignalInv(r)'
      BY DEF QueueInv, SignalInv, By
    <3>1. SignalInv(r) /\ r \in Signal
      BY <1>3, <1>4
    <3>2. r.of = t => pending'[r.of] = None
      BY <2>2
    <3>3. r.of # t => pending'[r.of] = pending[r.of]
            /\ (pending[r.of] # None => file'[pending[r.of]] = file[pending[r.of]])
      BY <1>1, <2>2, <2>4, <3>1 DEF Signal, TypeOK
    <3> QED BY <1>2, <2>5, <3>1, <3>2, <3>3 DEF SignalInv, Signal
  <2>11. OrderInv'
    <3>1. \A u \in Transfer : pending'[u] = None \/ (u # t /\ pending'[u] = pending[u]
            /\ (pending[u] # None => file'[pending[u]] = file[pending[u]]))
      BY <1>1, <2>2, <2>4 DEF TypeOK
    <3> QED BY <1>7, <3>1
  <2>12. ReceivingInv'
    <3> SUFFICES ASSUME flawless' PROVE ReceivingInv'
      BY DEF ReceivingInv
    <3>1. ok /\ flawless
      BY <2>2
    <3>2. Interrupted' \subseteq Interrupted \ {t}
      BY <2>2, <3>1 DEF Interrupted
    <3>3. \A u \in Interrupted' : /\ u \in Transfer \ {t} /\ side'[u] = side[u]
                                  /\ side[u].name \in Name /\ pending'[u] = pending[u]
      BY <1>1, <2>2, <3>2 DEF Interrupted, TypeOK, Sidecar
    <3> QED BY <1>1, <1>2, <2>5, <3>1, <3>2, <3>3 DEF ReceivingInv, By
  <2>13. ListedIsWhole'
    <3>1. \A m \in Name : file'[m] = file[m] \/ file'[m] = None
      BY <2>5
    <3> QED BY <1>1, <1>2, <3>1, ListingKept
  <2> QED BY <1>1, <1>6, <2>7, <2>8, <2>9, <2>10, <2>11, <2>12, <2>13 DEF IInv
<1>9. CASE ~Followed(t)
  <2>1. UNCHANGED <<file, side, pending, flawless, agent, obex, dest, deleting, freed, seen, serving>>
        /\ pending[t] = None
    BY <1>2, <1>9 DEF Followed
  <2>2. ASSUME NEW u \in Transfer PROVE TransferInv(u)'
    BY <1>1, <2>1 DEF TransferInv, FreshInv, DestInv, CompleteInv, PendingInv, By
  <2>3. ASSUME NEW m \in Name PROVE FileInv(m)'
    BY <1>1, <2>1 DEF FileInv, Presentable
  <2>4. QueueInv'
    <3> SUFFICES ASSUME NEW i \in 1..Len(signals'), NEW r, r = signals'[i] PROVE SignalInv(r)'
      BY DEF QueueInv, SignalInv, By
    <3>1. SignalInv(r)
      BY <1>3, <1>4
    <3> QED BY <2>1, <3>1 DEF SignalInv, By
  <2>5. OrderInv'
    BY <1>7, <2>1
  <2>6. ReceivingInv'
    BY <1>1, <2>1 DEF ReceivingInv, Interrupted, By
  <2>7. ListedIsWhole'
    BY <1>1, <2>1 DEF ListedIsWhole, Listed, Presentable
  <2> QED BY <1>1, <1>6, <2>2, <2>3, <2>4, <2>5, <2>6, <2>7 DEF IInv
<1> QED BY <1>8, <1>9

LEMMA CrashStep ==
  ASSUME IInv, Crash, TypeOK'
  PROVE  IInv'
<1>1. /\ TypeOK /\ AgentInv /\ ApartInv /\ QueueInv /\ OrderInv /\ DeletingInv /\ ReceivingInv
      /\ ListedIsWhole
      /\ \A u \in Transfer : TransferInv(u)
      /\ \A m \in Name : FileInv(m)
  BY DEF IInv
<1>2. /\ agent' = "down" /\ signals' = <<>>
      /\ UNCHANGED <<file, side, dest, deleting, freed, seen, flawless>>
      /\ \A u \in Transfer : /\ pending'[u] = None
                            /\ obex'[u] = IF obex[u] = "asking" THEN "ended" ELSE obex[u]
  BY DEF Crash, web
<1>3. ASSUME NEW u \in Transfer PROVE TransferInv(u)'
  BY <1>1, <1>2
  DEF TransferInv, FreshInv, DestInv, CompleteInv, PendingInv, By, InFlight
<1>4. ASSUME NEW m \in Name PROVE FileInv(m)'
  <2>1. FileInv(m) /\ (file[m] # None => file[m].by \in Transfer)
    BY <1>1 DEF TypeOK, Payload
  <2> QED BY <1>2, <2>1 DEF FileInv, Presentable
<1>5. ApartInv' /\ ReceivingInv'
  BY <1>1, <1>2 DEF ApartInv, ReceivingInv, Interrupted, By, InFlight
<1>6. QueueInv' /\ OrderInv'
  <2>1. Len(signals') = 0
    BY <1>2
  <2> QED BY <2>1 DEF QueueInv, OrderInv
<1>7. ListedIsWhole' /\ DeletingInv' /\ AgentInv'
  <2>1. freed \subseteq freed' /\ seen' = seen /\ \A m \in Name : file'[m] = file[m]
    BY <1>2
  <2> QED BY <1>1, <1>2, <2>1, ListingKept DEF DeletingInv, AgentInv
<1> QED BY <1>3, <1>4, <1>5, <1>6, <1>7 DEF IInv

LEMMA ObexDieStep ==
  ASSUME IInv, ObexDie, TypeOK'
  PROVE  IInv'
<1>1. /\ TypeOK /\ AgentInv /\ ApartInv /\ QueueInv /\ OrderInv /\ DeletingInv /\ ReceivingInv
      /\ ListedIsWhole
      /\ \A u \in Transfer : TransferInv(u)
      /\ \A m \in Name : FileInv(m)
  BY DEF IInv
<1>2. /\ agent' = IF agent = "answering" THEN "up" ELSE agent
      /\ UNCHANGED <<file, side, pending, dest, signals, deleting, freed, seen, flawless>>
      /\ \A u \in Transfer : obex'[u] = IF obex[u] = "new" THEN "new" ELSE "ended"
  BY DEF ObexDie, web
<1>3. ASSUME NEW u \in Transfer PROVE TransferInv(u)'
  BY <1>1, <1>2
  DEF TransferInv, FreshInv, DestInv, CompleteInv, PendingInv, By, InFlight
<1>4. ASSUME NEW m \in Name PROVE FileInv(m)'
  <2>1. FileInv(m) /\ (file[m] # None => file[m].by \in Transfer /\ obex[file[m].by] # "new")
    BY <1>1 DEF TypeOK, Payload, TransferInv, FreshInv, By
  <2> QED BY <1>2, <2>1 DEF FileInv, Presentable
<1>5. ApartInv' /\ ReceivingInv'
  BY <1>1, <1>2 DEF ApartInv, ReceivingInv, Interrupted, By, InFlight
<1>6. QueueInv' /\ OrderInv'
  <2>1. /\ \A u \in Transfer : obex[u] = "ended" => obex'[u] = "ended" /\ pending'[u] \in {None, pending[u]}
        /\ freed \subseteq freed' /\ signals' = signals /\ \A m \in Name : file'[m] = file[m]
    BY <1>2
  <2> QED BY <1>1, <1>2, <2>1, QueueKept, OrderKept
<1>7. ListedIsWhole' /\ DeletingInv' /\ AgentInv'
  <2>1. freed \subseteq freed' /\ seen' = seen /\ \A m \in Name : file'[m] = file[m]
    BY <1>2
  <2> QED BY <1>1, <1>2, <2>1, ListingKept DEF DeletingInv, AgentInv, InFlight
<1> QED BY <1>3, <1>4, <1>5, <1>6, <1>7 DEF IInv

LEMMA StartStep ==
  ASSUME IInv, Start \/ Registered, TypeOK'
  PROVE  IInv'
<1>1. /\ TypeOK /\ AgentInv /\ ApartInv /\ QueueInv /\ OrderInv /\ DeletingInv /\ ReceivingInv
      /\ ListedIsWhole
      /\ \A u \in Transfer : TransferInv(u)
      /\ \A m \in Name : FileInv(m)
  BY DEF IInv
<1>2. /\ \/ agent = "down" /\ agent' = "recovering" /\ \A u \in Transfer : obex[u] # "accepted"
         \/ agent = "recovering" /\ agent' = "up" /\ Interrupted = {}
      /\ UNCHANGED <<file, side, pending, obex, dest, signals, deleting, freed, seen, flawless>>
  BY DEF Start, Registered, web
<1>3. \A u \in Transfer : obex[u] \notin InFlight
  BY <1>1, <1>2 DEF AgentInv, InFlight
<1>4. ASSUME NEW u \in Transfer PROVE TransferInv(u)'
  BY <1>1, <1>2, <1>3
  DEF TransferInv, FreshInv, DestInv, CompleteInv, PendingInv, By
<1>5. ASSUME NEW m \in Name PROVE FileInv(m)'
  BY <1>1, <1>2 DEF FileInv, Presentable
<1>6. ApartInv' /\ ReceivingInv' /\ AgentInv' /\ DeletingInv'
  BY <1>1, <1>2, <1>3 DEF ApartInv, ReceivingInv, Interrupted, By, AgentInv, DeletingInv
<1>7. QueueInv' /\ OrderInv'
  BY <1>1, <1>2 DEF QueueInv, OrderInv, SignalInv, By
<1>8. ListedIsWhole'
  BY <1>1, <1>2 DEF ListedIsWhole, Listed, Presentable
<1> QED BY <1>4, <1>5, <1>6, <1>7, <1>8 DEF IInv

LEMMA RecoverStep ==
  ASSUME IInv, NEW t \in Transfer, Recover(t), TypeOK'
  PROVE  IInv'
<1>0. PICK n : n = side[t].name
  OBVIOUS
<1>1. /\ TypeOK /\ AgentInv /\ ApartInv /\ QueueInv /\ OrderInv /\ DeletingInv /\ ReceivingInv
      /\ ListedIsWhole
      /\ \A u \in Transfer : TransferInv(u)
      /\ \A m \in Name : FileInv(m)
  BY DEF IInv
<1>2. /\ agent = "recovering" /\ t \in Interrupted
      /\ file' = [file EXCEPT ![n] = None]
      /\ freed' = freed \cup ({n} \cap Claimed({"complete"}))
      /\ UNCHANGED <<pending, obex, dest, signals, deleting, seen>>
  BY <1>0 DEF Recover
<1>3. PICK ok \in BOOLEAN :
        /\ WriteMetadata(t, [side[t] EXCEPT !.status = "failed"], ok)
        /\ agent' = IF ok THEN agent ELSE "down"
  BY DEF Recover
<1>4. /\ side[t] # None /\ side[t].status = "receiving" /\ side[t].name = n /\ n \in Name
      /\ side[t] \in Sidecar
  BY <1>0, <1>1, <1>2 DEF Interrupted, TypeOK, Sidecar
<1>5. PICK car \in Sidecar : car.status = "failed" /\ car.name = n
                          /\ side'[t] = IF ok THEN car ELSE side[t]
  <2>1. /\ [side[t] EXCEPT !.status = "failed"] \in Sidecar
        /\ [side[t] EXCEPT !.status = "failed"].status = "failed"
        /\ [side[t] EXCEPT !.status = "failed"].name = n
    BY <1>4 DEF Sidecar, Status
  <2>2. side'[t] = IF ok THEN [side[t] EXCEPT !.status = "failed"] ELSE side[t]
    BY <1>1, <1>3 DEF WriteMetadata, TypeOK
  <2> QED BY <2>1, <2>2
<1>6. /\ \A u \in Transfer \ {t} : side'[u] = side[u]
      /\ flawless' = (flawless /\ ok)
      /\ file'[n] = None /\ \A m \in Name \ {n} : file'[m] = file[m]
      /\ car # None /\ freed \subseteq freed'
  BY <1>1, <1>2, <1>3, <1>4, NoneAssumption DEF WriteMetadata, TypeOK
<1>7. /\ signals = <<>> /\ \A u \in Transfer : pending[u] = None /\ obex[u] \notin InFlight
  BY <1>1, <1>2 DEF AgentInv
<1>8. side'[t] # None /\ side'[t].name = n /\ side'[t].status \in {"receiving", "failed"}
  BY <1>4, <1>5, <1>6
<1>9. ASSUME NEW u \in Transfer PROVE TransferInv(u)'
  <2>1. PendingInv(u)'
    BY <1>2, <1>7 DEF PendingInv
  <2>2. FreshInv(u)'
    BY <1>1, <1>2, <1>4, <1>6 DEF TransferInv, FreshInv, By
  <2>3. DestInv(u)'
    BY <1>1, <1>2, <1>4, <1>6, <1>7, <1>8 DEF TransferInv, DestInv
  <2>4. CompleteInv(u)'
    <3>1. CASE u = t
      BY <1>8, <3>1 DEF CompleteInv
    <3>2. CASE u # t
      <4> SUFFICES ASSUME NEW k, side[u] # None, side[u].status = "complete", k = side[u].name,
                          k \notin freed'
                   PROVE  By(k, u)'
        BY <1>6, <3>2 DEF CompleteInv, By
      <4>1. By(k, u) /\ k \in Name
        BY <1>1, <1>6 DEF TransferInv, CompleteInv, TypeOK, Sidecar
      <4>2. k \in Claimed({"complete"})
        BY DEF Claimed, Sidecars
      <4>3. k # n
        BY <1>2, <4>2
      <4> QED BY <1>6, <4>1, <4>3 DEF By
    <3> QED BY <3>1, <3>2
  <2> QED BY <2>1, <2>2, <2>3, <2>4 DEF TransferInv
<1>10. ASSUME NEW m \in Name PROVE FileInv(m)'
  <2> SUFFICES ASSUME file'[m] # None PROVE FileInv(m)'
    BY DEF FileInv
  <2>1. PICK u : u = file[m].by
    OBVIOUS
  <2>2. m # n /\ file'[m] = file[m] /\ FileInv(m) /\ u \in Transfer
    BY <1>1, <1>6, <2>1 DEF TypeOK, Payload
  <2>3. m \notin freed => u # t
    BY <1>4, <2>1, <2>2 DEF FileInv
  <2>4. m \notin freed' => side'[u] = side[u] /\ m \notin freed
    BY <1>6, <2>2, <2>3
  <2> QED BY <1>2, <2>1, <2>2, <2>4 DEF FileInv, Presentable
<1>11. ApartInv' /\ AgentInv' /\ DeletingInv'
  BY <1>1, <1>2, <1>3, <1>6, <1>7 DEF ApartInv, AgentInv, DeletingInv, InFlight
<1>12. QueueInv' /\ OrderInv'
  <2>1. Len(signals') = 0
    BY <1>2, <1>7
  <2> QED BY <2>1 DEF QueueInv, OrderInv
<1>13. ReceivingInv'
  <2> SUFFICES ASSUME flawless' PROVE ReceivingInv'
    BY DEF ReceivingInv
  <2>1. ok /\ flawless
    BY <1>6
  <2>2. \A u \in Interrupted' : /\ u \in Interrupted \ {t} /\ side'[u] = side[u]
                                /\ side[u].name \in Name
    BY <1>1, <1>5, <1>6, <2>1 DEF Interrupted, TypeOK, Sidecar
  <2>3. \A u \in Interrupted' : side[u].name # n
    BY <1>1, <1>2, <1>4, <2>1, <2>2 DEF ReceivingInv
  <2> QED BY <1>1, <1>2, <1>3, <1>6, <1>7, <2>1, <2>2, <2>3 DEF ReceivingInv, By
<1>14. ListedIsWhole'
  BY <1>1, <1>2, <1>6, ListingKept
<1> QED BY <1>9, <1>10, <1>11, <1>12, <1>13, <1>14 DEF IInv

LEMMA WebDeleteStep ==
  ASSUME IInv, NEW n \in Name, WebDelete(n), TypeOK'
  PROVE  IInv'
<1>1. /\ TypeOK /\ AgentInv /\ ApartInv /\ QueueInv /\ OrderInv /\ DeletingInv /\ ReceivingInv
      /\ ListedIsWhole
      /\ \A u \in Transfer : TransferInv(u)
      /\ \A m \in Name : FileInv(m)
  BY DEF IInv
<1>2. /\ freed' = freed \cup {n} /\ deleting' = n
      /\ file'[n] = None /\ \A m \in Name \ {n} : file'[m] = file[m]
      /\ UNCHANGED <<side, pending, agent, obex, dest, signals, seen, flawless>>
  BY <1>1 DEF WebDelete, TypeOK
<1>3. ASSUME NEW u \in Transfer PROVE TransferInv(u)'
  <2>1. FreshInv(u)' /\ PendingInv(u)'
    BY <1>1, <1>2 DEF TransferInv, FreshInv, PendingInv, By, TypeOK
  <2>2. DestInv(u)'
    BY <1>1, <1>2 DEF TransferInv, DestInv, TypeOK, InFlight
  <2>3. CompleteInv(u)'
    BY <1>1, <1>2 DEF TransferInv, CompleteInv, By, TypeOK, Sidecar
  <2> QED BY <2>1, <2>2, <2>3 DEF TransferInv
<1>4. ASSUME NEW m \in Name PROVE FileInv(m)'
  BY <1>1, <1>2 DEF FileInv, Presentable
<1>5. ApartInv' /\ AgentInv' /\ DeletingInv'
  BY <1>1, <1>2 DEF ApartInv, AgentInv, DeletingInv
<1>6. QueueInv' /\ OrderInv'
  <2>1. /\ \A u \in Transfer : obex[u] = "ended" => obex'[u] = "ended" /\ pending'[u] \in {None, pending[u]}
        /\ freed \subseteq freed' /\ signals' = signals
    BY <1>2
  <2>2. \A m \in Name : file'[m] = file[m] \/ (m \in freed' /\ file'[m] = None)
    BY <1>2
  <2>3. \A u \in Transfer : pending'[u] = None
          \/ (pending'[u] = pending[u] /\ (file'[pending[u]] = file[pending[u]] \/ file'[pending[u]] = None))
    BY <1>1, <1>2, <2>2 DEF TypeOK
  <2>4. \A i \in 1..Len(signals) : signals[i].of \in Transfer
    BY <1>1, SignalTypes DEF Signal
  <2> QED BY <1>1, <2>1, <2>2, <2>3, <2>4, QueueKept, OrderKept
<1>7. ReceivingInv'
  <2>1. Interrupted' = Interrupted /\ \A u \in Interrupted : side[u].name \in Name
    BY <1>1, <1>2 DEF Interrupted, TypeOK, Sidecar
  <2> QED BY <1>1, <1>2, <2>1 DEF ReceivingInv, By
<1>8. ListedIsWhole'
  BY <1>1, <1>2, ListingKept
<1> QED BY <1>3, <1>4, <1>5, <1>6, <1>7, <1>8 DEF IInv

LEMMA RemoveStep ==
  ASSUME IInv, NEW t \in Transfer, RemoveMetadata(t), TypeOK'
  PROVE  IInv'
<1>1. /\ TypeOK /\ AgentInv /\ ApartInv /\ QueueInv /\ OrderInv /\ DeletingInv /\ ReceivingInv
      /\ ListedIsWhole
      /\ \A u \in Transfer : TransferInv(u)
      /\ \A m \in Name : FileInv(m)
  BY DEF IInv
<1>2. /\ deleting # None /\ side[t] # None /\ side[t].name = deleting
      /\ side'[t] = None /\ \A u \in Transfer \ {t} : side'[u] = side[u]
      /\ UNCHANGED <<file, pending, agent, obex, dest, signals, deleting, freed, seen, flawless>>
  BY <1>1 DEF RemoveMetadata, TypeOK, web
<1>3. side[t].name \in freed
  BY <1>1, <1>2 DEF DeletingInv
<1>4. ASSUME NEW u \in Transfer PROVE TransferInv(u)'
  BY <1>1, <1>2, <1>3
  DEF TransferInv, FreshInv, DestInv, CompleteInv, PendingInv, By, InFlight
<1>5. ASSUME NEW m \in Name PROVE FileInv(m)'
  <2>1. FileInv(m) /\ (file[m] # None => file[m].by \in Transfer)
    BY <1>1 DEF TypeOK, Payload
  <2> QED BY <1>2, <1>3, <2>1 DEF FileInv, Presentable
<1>6. ApartInv' /\ AgentInv' /\ DeletingInv'
  BY <1>1, <1>2 DEF ApartInv, AgentInv, DeletingInv
<1>7. ReceivingInv'
  <2>1. Interrupted' \subseteq Interrupted /\ \A u \in Interrupted' : side'[u] = side[u]
    BY <1>2 DEF Interrupted
  <2> QED BY <1>1, <1>2, <2>1 DEF ReceivingInv, By
<1>8. QueueInv' /\ OrderInv'
  BY <1>1, <1>2 DEF QueueInv, OrderInv, SignalInv, By
<1>9. ListedIsWhole'
  BY <1>1, <1>2 DEF ListedIsWhole, Listed, Presentable
<1> QED BY <1>4, <1>5, <1>6, <1>7, <1>8, <1>9 DEF IInv

(* A name that is hidden, and what can be under one that is not.           *)
LEMMA HiddenNames ==
  ASSUME IInv, NEW n \in Name, n \notin freed, NEW t \in Transfer,
         side[t] # None, side[t].name = n, side[t].status = "receiving",
         file[n] = None \/ By(n, t)
  PROVE  n \in Hidden
<1>1. n \in Claimed(Status \ {"complete"})
  BY DEF Claimed, Sidecars, Status
<1>2. ASSUME n \in Claimed({"complete"}) PROVE FALSE
  <2>1. PICK u \in Transfer : side[u] # None /\ side[u].status = "complete" /\ side[u].name = n
    BY <1>2 DEF Claimed, Sidecars
  <2>2. By(n, u)
    BY <2>1 DEF IInv, TransferInv, CompleteInv
  <2> QED BY <2>1, <2>2 DEF By
<1> QED BY <1>1, <1>2 DEF Hidden

LEMMA ListReadStep ==
  ASSUME IInv, ListRead, TypeOK'
  PROVE  IInv'
<1>1. /\ TypeOK /\ AgentInv /\ ApartInv /\ QueueInv /\ OrderInv /\ DeletingInv /\ ReceivingInv
      /\ ListedIsWhole
      /\ \A u \in Transfer : TransferInv(u)
      /\ \A m \in Name : FileInv(m)
  BY DEF IInv
<1>2. /\ seen' = [hidden |-> Hidden, asked |-> {u \in Transfer : obex[u] # "new"}]
      /\ UNCHANGED <<file, side, pending, agent, obex, dest, signals, deleting, freed, flawless>>
  BY DEF ListRead
<1>3. seen'.hidden = Hidden /\ seen'.asked = {u \in Transfer : obex[u] # "new"}
  BY <1>2
<1>4. ASSUME NEW u \in Transfer PROVE TransferInv(u)'
  <2>1. obex[u] \in InFlight => dest[u] \in Hidden \cup freed
    BY <1>1, HiddenNames DEF TransferInv, DestInv, TypeOK
  <2>2. DestInv(u)'
    BY <1>1, <1>2, <1>3, <2>1 DEF TransferInv, DestInv
  <2> QED BY <1>1, <1>2, <1>3, <2>2 DEF TransferInv, FreshInv, CompleteInv, PendingInv, By
<1>5. ASSUME NEW m \in Name PROVE FileInv(m)'
  BY <1>1, <1>2 DEF FileInv, Presentable
<1>6. ApartInv' /\ AgentInv' /\ DeletingInv' /\ ReceivingInv'
  BY <1>1, <1>2 DEF ApartInv, AgentInv, DeletingInv, ReceivingInv, Interrupted, By
<1>7. QueueInv' /\ OrderInv'
  BY <1>1, <1>2 DEF QueueInv, OrderInv, SignalInv, By
<1>8. ListedIsWhole'
  <2> SUFFICES ASSUME NEW m \in Name, m \notin Hidden, m \notin freed, file[m] # None
               PROVE  Presentable(m)
    BY <1>2, <1>3 DEF ListedIsWhole, Listed, Presentable
  <2>1. PICK u \in Transfer : u = file[m].by
    BY <1>1 DEF TypeOK, Payload
  <2>2. side[u] # None /\ side[u].name = m /\ side[u].status \in {"receiving", "complete"}
    BY <1>1, <2>1 DEF FileInv, TypeOK, Sidecar, Status
  <2>3. side[u].status # "receiving"
    BY <2>1, <2>2, HiddenNames DEF By
  <2> QED BY <1>1, <2>1, <2>2, <2>3 DEF FileInv
<1> QED BY <1>4, <1>5, <1>6, <1>7, <1>8 DEF IInv

LEMMA QuietStep ==
  ASSUME IInv, Deleted \/ ListScan \/ UNCHANGED vars, TypeOK'
  PROVE  IInv'
<1>1. /\ TypeOK /\ AgentInv /\ ApartInv /\ QueueInv /\ OrderInv /\ DeletingInv /\ ReceivingInv
      /\ ListedIsWhole
      /\ \A u \in Transfer : TransferInv(u)
      /\ \A m \in Name : FileInv(m)
  BY DEF IInv
<1>2. /\ UNCHANGED <<file, side, pending, agent, obex, dest, signals, freed, flawless>>
      /\ seen' = seen \/ seen' = None
      /\ deleting' = deleting \/ deleting' = None
  BY DEF Deleted, ListScan, vars, web
<1>3. ASSUME NEW u \in Transfer PROVE TransferInv(u)'
  BY <1>1, <1>2 DEF TransferInv, FreshInv, DestInv, CompleteInv, PendingInv, By
<1>4. ASSUME NEW m \in Name PROVE FileInv(m)'
  BY <1>1, <1>2 DEF FileInv, Presentable
<1>5. ApartInv' /\ AgentInv' /\ DeletingInv' /\ ReceivingInv'
  BY <1>1, <1>2 DEF ApartInv, AgentInv, DeletingInv, ReceivingInv, Interrupted, By
<1>6. QueueInv' /\ OrderInv' /\ ListedIsWhole'
  BY <1>1, <1>2 DEF QueueInv, OrderInv, SignalInv, By, ListedIsWhole, Listed, Presentable
<1> QED BY <1>3, <1>4, <1>5, <1>6 DEF IInv

LEMMA InitInv == Init => IInv
<1> SUFFICES ASSUME Init PROVE IInv
  OBVIOUS
<1>1. TypeOK
  BY EmptySeq DEF Init, TypeOK
<1>2. Len(signals) = 0
  BY DEF Init
<1>3. QueueInv /\ OrderInv
  BY <1>2 DEF QueueInv, OrderInv
<1>4. AgentInv /\ ApartInv /\ DeletingInv /\ ListedIsWhole
  BY DEF Init, AgentInv, ApartInv, DeletingInv, ListedIsWhole, InFlight
<1>5. ReceivingInv
  BY DEF Init, ReceivingInv, Interrupted
<1>6. ASSUME NEW t \in Transfer PROVE TransferInv(t)
  BY DEF Init, TransferInv, FreshInv, DestInv, CompleteInv, PendingInv, By, InFlight
<1>7. ASSUME NEW n \in Name PROVE FileInv(n)
  BY DEF Init, FileInv
<1> QED BY <1>1, <1>3, <1>4, <1>5, <1>6, <1>7 DEF IInv

LEMMA Step == IInv /\ [Next]_vars => IInv'
<1> SUFFICES ASSUME IInv, [Next]_vars PROVE IInv'
  OBVIOUS
<1>1. TypeOK'
  BY TypeStep DEF IInv
<1>2. ASSUME NEW t \in Transfer, NEW n \in Name, AuthorizePush(t, n) PROVE IInv'
  BY <1>1, <1>2, AuthorizeStep
<1>3. ASSUME NEW t \in Transfer, Answered(t) PROVE IInv'
  BY <1>1, <1>3, AnsweredStep
<1>4. ASSUME NEW t \in Transfer, ObexNext(t) PROVE IInv'
  BY <1>1, <1>4, OpenStep, ReceiveStep, AbortStep DEF ObexNext
<1>5. ASSUME NEW t \in Transfer, Recover(t) PROVE IInv'
  BY <1>1, <1>5, RecoverStep
<1>6. ASSUME NEW t \in Transfer, RemoveMetadata(t) PROVE IInv'
  BY <1>1, <1>6, RemoveStep
<1>7. ASSUME NEW n \in Name, WebDelete(n) PROVE IInv'
  BY <1>1, <1>7, WebDeleteStep
<1>8. CASE HandleSignal
  BY <1>1, <1>8, SignalStep
<1>9. CASE Crash \/ ObexDie
  BY <1>1, <1>9, CrashStep, ObexDieStep
<1>10. CASE Start \/ Registered
  BY <1>1, <1>10, StartStep
<1>11. CASE ListRead
  BY <1>1, <1>11, ListReadStep
<1>12. CASE Deleted \/ ListScan \/ UNCHANGED vars
  BY <1>1, <1>12, QuietStep
<1> QED
  BY <1>2, <1>3, <1>4, <1>5, <1>6, <1>7, <1>8, <1>9, <1>10, <1>11, <1>12 DEF Next

-----------------------------------------------------------------------------
(* Each reachable state satisfies the inductive invariant: what is under a *)
(* name, what the sidecars and the reservations say of it, the signals on  *)
(* their way and what a listing has read, together (palm-obex-inbox.py and *)
(* the inbox functions of palm_web.py).                                    *)
THEOREM Invariance == Spec => []IInv
<1> QED BY InitInv, Step, PTL DEF Spec

(* The directory, the sidecars and the signals keep their types.           *)
THEOREM TypeCorrect == Spec => []TypeOK
<1>1. IInv => TypeOK
  BY DEF IInv
<1> QED BY Invariance, <1>1, PTL

(* A listing shows only whole files of lawful size, unless an              *)
(* administrator or a recovery freed the name or the transfer is later     *)
(* than the listing's reading of the sidecars (inbox_files).               *)
THEOREM ListsWhole == Spec => []ListedIsWhole
<1>1. IInv => ListedIsWhole
  BY DEF IInv
<1> QED BY Invariance, <1>1, PTL

(* A whole file the agent has let go is listed until it is deleted, as     *)
(* long as no write of a sidecar fails: its sidecar is neither "failed"    *)
(* nor, under an agent that serves, still "receiving" (inbox_files).       *)
THEOREM ReceivedListed == Spec => []ReceivedVisible
<1>1. IInv => ReceivedVisible
  <2> SUFFICES ASSUME IInv, flawless, agent \in {"up", "answering"},
                      NEW n \in Name, n \notin freed, file[n] # None, Presentable(n),
                      pending[file[n].by] = None
               PROVE  n \in Listed(Hidden)
    BY DEF ReceivedVisible
  <2> DEFINE t == file[n].by
  <2>1. FileInv(n) /\ t \in Transfer /\ TypeOK
    BY DEF IInv, TypeOK, Payload
  <2>2. side[t] # None /\ side[t].name = n /\ side[t].status # "failed"
    BY <2>1 DEF FileInv
  <2>3. side[t].status # "receiving"
    <3> SUFFICES ASSUME side[t].status = "receiving" PROVE FALSE
      OBVIOUS
    <3>1. t \in Interrupted
      BY <2>1, <2>2 DEF Interrupted
    <3>2. pending[t] = n
      BY <2>2, <3>1 DEF IInv, ReceivingInv
    <3> QED BY <3>2, NoneAssumption
  <2>4. side[t].status = "complete"
    BY <2>1, <2>2, <2>3 DEF TypeOK, Sidecar, Status
  <2>5. n \in Claimed({"complete"})
    BY <2>1, <2>2, <2>4 DEF Claimed, Sidecars
  <2> QED BY <2>5 DEF Listed, Hidden
<1> QED BY Invariance, <1>1, PTL

(* What a step may do to the file under one name.                          *)
Kept(n) ==
  /\ file[n] # None /\ file'[n] # None => file'[n].by = file[n].by
  /\ Discards(n) =>
       \/ deleting' = n
       \/ agent = "recovering" /\ (file[n].by \in Interrupted \/ ~flawless)

LEMMA KeptByOthers ==
  ASSUME NEW n, file'[n] = file[n]
  PROVE  Kept(n)
BY DEF Kept, Discards

LEMMA KeptByHandling ==
  ASSUME IInv, HandleSignal, NEW n \in Name
  PROVE  Kept(n)
<1>1. PICK s, t, m : s = Head(signals) /\ t = s.of /\ m = pending[t]
  OBVIOUS
<1>2. /\ signals # <<>>
      /\ IF Followed(t) THEN Finish(t, s.says) ELSE file' = file
  BY <1>1 DEF HandleSignal
<1>3. /\ s = signals[1] /\ s \in Signal /\ Len(signals) \in Nat \ {0}
  BY <1>1, <1>2, QueueHead DEF IInv
<1>4. t \in Transfer /\ s.says \in {"complete", "failed"} /\ SignalInv(s) /\ 1 \in 1..Len(signals)
  BY <1>1, <1>3 DEF Signal, IInv, QueueInv
<1>5. CASE Followed(t)
  <2>1. m \in Name /\ m # None /\ (file[m] = None \/ By(m, t))
    BY <1>1, <1>4, <1>5 DEF IInv, Followed, TransferInv, PendingInv, TypeOK
  <2>2. /\ \A k \in Name \ {m} : file'[k] = file[k]
        /\ file'[m] = file[m] \/ file'[m] = None
        /\ file'[m] = None /\ file[m] # None /\ s.says = "complete" => file[m].by \in Oversize
    <3>1. PICK status \in {"complete", "failed"}, ok \in BOOLEAN : FinishedAs(t, s.says, m, status, ok)
      BY <1>1, <1>2, <1>4, <1>5, <2>1, Finishes DEF IInv
    <3> QED BY <3>1 DEF FinishedAs
  <2>3. CASE n = m
    <3>1. ~Discards(m)
      <4> SUFFICES ASSUME Discards(m) PROVE FALSE
        OBVIOUS
      <4>1. s.says = "failed" /\ file[m] # None /\ file[m].whole
        BY <1>4, <2>2 DEF Discards, Presentable
      <4>2. OrderInv
        BY DEF IInv
      <4>3. \E j \in 1..(1 - 1) : signals[j].of = t /\ signals[j].says = "complete"
        BY <1>1, <1>3, <1>4, <2>1, <4>1, <4>2 DEF OrderInv
      <4> QED BY <4>3
    <3> QED BY <2>2, <2>3, <3>1 DEF Kept
  <2>4. CASE n # m
    BY <2>2, <2>4, KeptByOthers
  <2> QED BY <2>3, <2>4
<1>6. CASE ~Followed(t)
  BY <1>2, <1>6, KeptByOthers
<1> QED BY <1>5, <1>6

LEMMA KeptByRecovery ==
  ASSUME IInv, NEW t \in Transfer, Recover(t), NEW n \in Name
  PROVE  Kept(n)
<1>1. /\ agent = "recovering" /\ t \in Interrupted /\ TypeOK /\ ReceivingInv
      /\ file' = [file EXCEPT ![side[t].name] = None]
  BY DEF Recover, IInv
<1>2. CASE n = side[t].name
  BY <1>1, <1>2 DEF Kept, TypeOK, ReceivingInv, By, Discards
<1>3. CASE n # side[t].name
  BY <1>1, <1>3, KeptByOthers DEF TypeOK
<1> QED BY <1>2, <1>3

LEMMA KeptByObex ==
  ASSUME IInv, NEW t \in Transfer, ObexNext(t), NEW n \in Name
  PROVE  Kept(n)
<1> USE DEF IInv
<1>1. CASE Open(t)
  <2>1. /\ file' = [file EXCEPT ![dest[t]] = [by |-> t, whole |-> FALSE]]
        /\ file[dest[t]] = None
    BY <1>1 DEF Open, TransferInv, DestInv, InFlight
  <2>2. CASE n = dest[t]
    BY <2>1, <2>2 DEF Kept, Discards
  <2>3. CASE n # dest[t]
    BY <2>1, <2>3, KeptByOthers DEF TypeOK
  <2> QED BY <2>2, <2>3
<1>2. CASE Receive(t)
  <2>1. CASE n = dest[t] /\ By(n, t)
    <3>1. file[n] \in Payload /\ file'[n] = [file[n] EXCEPT !.whole = TRUE]
      BY <1>2, <2>1 DEF Receive, By, TypeOK
    <3>2. file'[n] \in Payload /\ file'[n].by = file[n].by
      BY <3>1, MadeWhole
    <3> QED BY <3>2, NoneAssumption DEF Kept, Discards
  <2>2. CASE ~(n = dest[t] /\ By(n, t))
    BY <1>2, <2>2, KeptByOthers DEF Receive, By, TypeOK
  <2> QED BY <2>1, <2>2
<1>3. CASE Abort(t)
  BY <1>3, KeptByOthers DEF Abort
<1> QED BY <1>1, <1>2, <1>3 DEF ObexNext

(* No step writes over another's file; a whole file of lawful size goes    *)
(* only by a deletion, or in the recovery of a restarted agent, and then,  *)
(* while no write of a sidecar has failed, because the end of its own      *)
(* transfer was not seen (finish, recover_interrupted, inbox_delete).      *)
THEOREM FilesKept == Spec => NoneLost
<1>1. IInv /\ [Next]_vars => [\A n \in Name : Kept(n)]_vars
  <2> SUFFICES ASSUME IInv, Next, NEW n \in Name PROVE Kept(n)
    BY DEF Kept
  <2>1. ASSUME NEW t \in Transfer, ObexNext(t) PROVE Kept(n)
    BY <2>1, KeptByObex
  <2>2. ASSUME NEW t \in Transfer, Recover(t) PROVE Kept(n)
    BY <2>2, KeptByRecovery
  <2>3. CASE HandleSignal
    BY <2>3, KeptByHandling
  <2>4. ASSUME NEW m \in Name, WebDelete(m) PROVE Kept(n)
    <3>1. CASE n = m
      BY <2>4, <3>1 DEF WebDelete, Kept, IInv, TypeOK
    <3>2. CASE n # m
      BY <2>4, <3>2, KeptByOthers DEF WebDelete, IInv, TypeOK
    <3> QED BY <3>1, <3>2
  <2>5. ASSUME NEW t \in Transfer, Answered(t) \/ RemoveMetadata(t) PROVE Kept(n)
    BY <2>5, KeptByOthers DEF Answered, RemoveMetadata
  <2>6. ASSUME NEW t \in Transfer, NEW m \in Name, AuthorizePush(t, m) PROVE Kept(n)
    BY <2>6, KeptByOthers DEF AuthorizePush
  <2>7. CASE Crash \/ Start \/ Registered \/ ObexDie \/ Deleted \/ ListRead \/ ListScan
    BY <2>7, KeptByOthers
    DEF Crash, Start, Registered, ObexDie, Deleted, ListRead, ListScan
  <2> QED BY <2>1, <2>2, <2>3, <2>4, <2>5, <2>6, <2>7 DEF Next
<1>2. [\A n \in Name : Kept(n)]_vars <=>
      [\A n \in Name :
       /\ file[n] # None /\ file'[n] # None => file'[n].by = file[n].by
       /\ Discards(n) =>
            \/ deleting' = n
            \/ agent = "recovering" /\ (file[n].by \in Interrupted \/ ~flawless)]_vars
  BY DEF Kept
<1> QED BY Invariance, <1>1, <1>2, PTL DEF Spec, NoneLost

=============================================================================
