------------------------ MODULE HelperProgramsProofs ------------------------
(* Proofs about the two programs palm-web-admin starts.  PrcSender, for    *)
(* any number of files: what the sender says of a file, against what       *)
(* became of it.  BluetoothRecovery, for any limit of its unit and any     *)
(* timeouts: what a recovery leaves behind.  They share no variable.       *)
EXTENDS PrcSender, BluetoothRecovery, SequenceTheorems, TLAPS

Following == pc \in {"getall", "loop", "leaving", "ended"}

(* The files the Palm has are those obexd has completed; nothing has been  *)
(* asked of it for the files to come.                                      *)
TransferInv ==
  \A f \in File :
    /\ f \in palm => transfer[f] \in {"complete", "gone"}
    /\ transfer[f] = "complete" => f \in palm
    /\ pc # "done" /\ (f > cur \/ (f = cur /\ pc = "send")) => transfer[f] = "none"

(* What a signal that waits in the connection says is true.                *)
SignalInv(s) ==
  /\ s[1] <= cur /\ (pc = "send" => s[1] # cur)
  /\ s[2] = "complete" => s[1] \in palm
  /\ s[2] = "error" => s[1] \notin palm /\ transfer[s[1]] \in {"error", "gone"}
  /\ s[2] = "removed" => transfer[s[1]] = "gone"

QueueInv == \A i \in 1..Len(queue) : SignalInv(queue[i])

(* While a file is followed its completion has been seen or waits in the   *)
(* connection, before the signal that its transfer is removed, unless it   *)
(* came when the file could not be measured.                               *)
Awaited(k) == \E i \in 1..k : queue[i] = <<cur, "complete">>

FollowInv ==
  /\ Following /\ ~blind /\ cur \in palm /\ terminal # "complete" =>
       /\ Awaited(Len(queue))
       /\ \A k \in 1..Len(queue) : queue[k] = <<cur, "removed">> => Awaited(k - 1)
       /\ ~removed
  /\ Following /\ removed => transfer[cur] = "gone"
  /\ Following /\ terminal = "complete" => cur \in palm
  /\ Following /\ terminal = "error" => cur \notin palm /\ transfer[cur] \in {"error", "gone"}
  /\ pc = "getall" => props = "queued" /\ terminal = "none"
  /\ pc = "leaving" => terminal # "none" \/ removed \/ timedOut
  /\ pc = "ended" => terminal # "none"
  /\ pc = "cancel" => timedOut

(* The sender stops at the first file it calls failed; if it had the time, *)
(* an answer and a file to measure, the transfer is over by then, and the  *)
(* Palm has not got it.                                                    *)
ToldInv ==
  \A f \in File :
    /\ told[f] = "installed" => f \in palm
    /\ told[f] = "failed" =>
         /\ f = cur /\ pc \in {"close", "done"}
         /\ timedOut \/ blind \/ (f \notin palm /\ transfer[f] \in {"none", "error", "gone"})

IInv == TypeOK /\ TransferInv /\ QueueInv /\ FollowInv /\ ToldInv

-----------------------------------------------------------------------------
Says == Statuses \cup {"removed"}

LEMMA QueueType ==
  ASSUME TypeOK
  PROVE  /\ queue \in Seq(File \X Says) /\ Len(queue) \in Nat
         /\ \A i \in 1..Len(queue) :
              /\ queue[i] = <<queue[i][1], queue[i][2]>>
              /\ queue[i][1] \in File /\ queue[i][2] \in Says
<1>1. queue \in Seq(File \X Says)
  BY DEF TypeOK, Says
<1>2. \A i \in 1..Len(queue) : queue[i] \in File \X Says
  BY <1>1, ElementOfSeq
<1> QED BY <1>1, <1>2, LenProperties

LEMMA InitInv == Init => IInv
<1> SUFFICES ASSUME Init PROVE IInv
  OBVIOUS
<1> USE FilesAssumption DEF Init, File
<1>0. <<>> \in Seq(File \X (Statuses \cup {"removed"}))
  BY EmptySeq
<1>1. TypeOK
  <2>1. 1 \in 1..Files
    OBVIOUS
  <2> QED BY <1>0, <2>1 DEF TypeOK, Statuses, Ended
<1>2. TransferInv /\ QueueInv /\ ToldInv
  BY DEF TransferInv, QueueInv, ToldInv
<1>3. FollowInv
  BY DEF FollowInv, Following
<1> QED BY <1>1, <1>2, <1>3 DEF IInv

(* The signals that wait stay true while nothing is taken back.            *)
LEMMA QueueKept ==
  ASSUME TypeOK, QueueInv, queue' = queue,
         cur' \in Nat, cur <= cur', pc' = "send" => pc = "send" \/ cur < cur',
         palm' = palm,
         \A f \in File : f \in 1..cur => transfer'[f] = transfer[f] \/ transfer'[f] = "gone"
                                         \/ (f = cur /\ pc = "send")
                                         \/ transfer[f] \in {"none", "queued", "active"}
  PROVE  QueueInv'
<1> SUFFICES ASSUME NEW i \in 1..Len(queue) PROVE SignalInv(queue[i])'
  BY DEF QueueInv
<1>1. SignalInv(queue[i]) /\ queue[i][1] \in File /\ queue[i][1] \in Nat /\ cur \in Nat
  BY QueueType DEF QueueInv, TypeOK, File
<1> QED BY <1>1 DEF SignalInv, File, TypeOK

LEMMA SendFileStep == ASSUME IInv, SendFile PROVE IInv'
<1> USE DEF SendFile, IInv
<1>1. TypeOK'
  BY DEF TypeOK, Statuses
<1>2. cur \in File /\ transfer' = [transfer EXCEPT ![cur] = "queued"] /\ transfer[cur] = "none"
  BY DEF TypeOK, TransferInv
<1>3. TransferInv'
  <2>1. \A f \in File : transfer'[f] = IF f = cur THEN "queued" ELSE transfer[f]
    BY <1>2 DEF TypeOK
  <2>2. cur \notin palm /\ cur \in Nat /\ File \subseteq Nat
    BY <1>2 DEF TransferInv, File
  <2>3. \A f \in File : f > cur => f # cur
    BY <2>2
  <2>4. /\ pc = "send" /\ pc' # "send" /\ cur' = cur /\ palm' = palm
        /\ TransferInv
    OBVIOUS
  <2> HIDE DEF SendFile
  <2> QED BY <2>1, <2>2, <2>3, <2>4 DEF TransferInv
<1>4. QueueInv'
  BY <1>2, QueueKept DEF TypeOK, File
<1>5. FollowInv'
  BY <1>2 DEF FollowInv, Following, TransferInv
<1>6. ToldInv'
  BY DEF ToldInv
<1> QED BY <1>1, <1>3, <1>4, <1>5, <1>6

LEMMA SendFileFailsStep == ASSUME IInv, SendFileFails PROVE IInv'
<1> USE DEF SendFileFails, state, IInv
<1>1. TypeOK'
  BY DEF TypeOK
<1>2. TransferInv'
  BY DEF TransferInv
<1>3. QueueInv'
  BY QueueKept DEF TypeOK, File
<1>4. FollowInv'
  BY DEF FollowInv, Following
<1>5. ToldInv'
  BY DEF ToldInv, TransferInv, TypeOK
<1> QED BY <1>1, <1>2, <1>3, <1>4, <1>5

LEMMA SendFileUnansweredStep == ASSUME IInv, SendFileUnanswered PROVE IInv'
<1> USE DEF SendFileUnanswered, state, IInv
<1>1. TypeOK'
  BY DEF TypeOK, Statuses
<1>2. cur \in File /\ transfer' = [transfer EXCEPT ![cur] = "queued"] /\ transfer[cur] = "none"
  BY DEF TypeOK, TransferInv
<1>3. TransferInv'
  <2>1. \A f \in File : transfer'[f] = IF f = cur THEN "queued" ELSE transfer[f]
    BY <1>2 DEF TypeOK
  <2>2. cur \notin palm /\ cur \in Nat /\ File \subseteq Nat
    BY <1>2 DEF TransferInv, File
  <2>3. \A f \in File : f > cur => f # cur
    BY <2>2
  <2>4. /\ pc = "send" /\ pc' # "send" /\ cur' = cur /\ palm' = palm
        /\ TransferInv
    OBVIOUS
  <2> HIDE DEF SendFileUnanswered
  <2> QED BY <2>1, <2>2, <2>3, <2>4 DEF TransferInv
<1>4. QueueInv'
  BY <1>2, QueueKept DEF TypeOK, File
<1>5. FollowInv'
  BY <1>2 DEF FollowInv, Following
<1>6. ToldInv'
  BY DEF ToldInv, TypeOK
<1> QED BY <1>1, <1>3, <1>4, <1>5, <1>6

LEMMA GetAllStep == ASSUME IInv, GetAll PROVE IInv'
<1> USE DEF GetAll, IInv
<1>1. TypeOK'
  BY DEF TypeOK, Statuses, Ended, Terminal
<1>2. TransferInv'
  BY DEF TransferInv
<1>3. QueueInv'
  BY QueueKept DEF TypeOK, File
<1>4. FollowInv'
  <2>1. /\ pc = "getall" /\ cur \in File /\ UNCHANGED <<cur, removed, queue, transfer, palm>>
        /\ \/ /\ UNCHANGED blind
              /\ terminal' \in {"none", "complete", "error"}
              /\ pc' = IF terminal' = "none" THEN "loop" ELSE "ended"
           \/ pc' = "close"
    BY DEF TypeOK, Terminal, Ended, Statuses
  <2>2. pc' # "close" /\ terminal' # "none" => terminal' = transfer[cur]
    BY DEF Terminal, Ended, FollowInv, Following, TypeOK
  <2>3. pc' # "close" =>
          /\ terminal' = "complete" => cur \in palm
          /\ terminal' = "error" => cur \notin palm /\ transfer[cur] \in {"error", "gone"}
    BY <2>1, <2>2 DEF TransferInv
  <2>4. Following /\ terminal = "none"
    BY <2>1 DEF FollowInv, Following
  <2>5. ~blind /\ cur \in palm =>
          /\ Awaited(Len(queue)) /\ ~removed
          /\ \A k \in 1..Len(queue) : queue[k] = <<cur, "removed">> => Awaited(k - 1)
    BY <2>4 DEF FollowInv
  <2>6. \A k : Awaited(k)' <=> Awaited(k)
    BY <2>1 DEF Awaited
  <2>7. removed => transfer[cur] = "gone"
    BY <2>4 DEF FollowInv
  <2>8. CASE pc' = "close"
    BY <2>8 DEF FollowInv, Following
  <2>9. CASE pc' # "close"
    <3> HIDE DEF GetAll
    <3> QED BY <2>1, <2>3, <2>5, <2>6, <2>7, <2>9 DEF FollowInv
  <2> QED BY <2>8, <2>9
<1>5. ToldInv'
  BY DEF ToldInv, TypeOK
<1> QED BY <1>1, <1>2, <1>3, <1>4, <1>5

LEMMA TimedOutStep == ASSUME IInv, TimedOut PROVE IInv'
<1> USE DEF TimedOut, Armed, IInv
<1>1. TypeOK'
  BY DEF TypeOK
<1>2. TransferInv'
  BY DEF TransferInv
<1>3. QueueInv'
  BY QueueKept DEF TypeOK, File
<1>4. FollowInv'
  BY DEF FollowInv, Following, Awaited
<1>5. ToldInv'
  BY DEF ToldInv
<1> QED BY <1>1, <1>2, <1>3, <1>4, <1>5

LEMMA ConcludeStep == ASSUME IInv, Conclude PROVE IInv'
<1> USE DEF Conclude, Conclusion, IInv, state
<1>1. TypeOK'
  BY FilesAssumption DEF TypeOK, File
<1>2. TransferInv'
  BY DEF TransferInv, TypeOK, File
<1>3. QueueInv'
  BY QueueKept DEF TypeOK, File
<1>4. FollowInv'
  BY DEF FollowInv, Following
<1>5. ToldInv'
  BY DEF ToldInv, FollowInv, Following, TypeOK, Ended
<1> QED BY <1>1, <1>2, <1>3, <1>4, <1>5

LEMMA CancelStep == ASSUME IInv, Cancel PROVE IInv'
<1> USE DEF Cancel, IInv, state
<1>1. TypeOK'
  BY DEF TypeOK, Statuses, Ended
<1>2. TransferInv'
  BY DEF TransferInv, TypeOK
<1>3. QueueInv'
  <2>1. \A f \in File : transfer'[f] = transfer[f] \/ transfer[f] \in {"queued", "active"}
    BY DEF TypeOK
  <2> QED BY <2>1, QueueKept DEF TypeOK, File
<1>4. FollowInv'
  BY DEF FollowInv, Following
<1>5. ToldInv'
  BY DEF ToldInv, FollowInv, TypeOK
<1> QED BY <1>1, <1>2, <1>3, <1>4, <1>5

LEMMA CloseStep == ASSUME IInv, Close PROVE IInv'
<1> USE DEF Close, IInv, state
<1>1. TypeOK'
  BY DEF TypeOK
<1>2. TransferInv'
  BY DEF TransferInv
<1>3. QueueInv'
  <2>1. \A f \in File : transfer'[f] = transfer[f] \/ transfer'[f] = "gone"
    OBVIOUS
  <2> QED BY <2>1, QueueKept DEF TypeOK, File
<1>4. FollowInv'
  BY DEF FollowInv, Following
<1>5. ToldInv'
  BY DEF ToldInv
<1> QED BY <1>1, <1>2, <1>3, <1>4, <1>5

LEMMA ObexDieStep == ASSUME IInv, ObexDie PROVE IInv'
<1> USE DEF ObexDie, IInv, state
<1>1. TypeOK'
  BY DEF TypeOK
<1>2. TransferInv'
  BY DEF TransferInv
<1>3. QueueInv'
  BY QueueKept DEF TypeOK, File
<1>4. FollowInv'
  BY DEF FollowInv, Following, Awaited
<1>5. ToldInv'
  BY DEF ToldInv
<1> QED BY <1>1, <1>2, <1>3, <1>4, <1>5

LEMMA StoreEditStep == ASSUME IInv, StoreEdit PROVE IInv'
<1> USE DEF StoreEdit, IInv, state
<1>1. TypeOK'
  BY DEF TypeOK
<1>2. TransferInv'
  BY DEF TransferInv
<1>3. QueueInv'
  BY QueueKept DEF TypeOK, File
<1>4. FollowInv'
  BY DEF FollowInv, Following, Awaited
<1>5. ToldInv'
  BY DEF ToldInv
<1> QED BY <1>1, <1>2, <1>3, <1>4, <1>5

LEMMA DispatchStep == ASSUME IInv, Dispatch PROVE IInv'
<1> DEFINE f == Head(queue)[1]
           says == Head(queue)[2]
<1>0. TypeOK /\ TransferInv /\ QueueInv /\ FollowInv /\ ToldInv
  BY DEF IInv
<1>1. /\ pc \in {"loop", "leaving"} /\ queue # <<>> /\ queue' = Tail(queue)
      /\ UNCHANGED <<cur, timedOut, told, transfer, palm, obexd, stored>>
      /\ \/ f # cur /\ UNCHANGED <<pc, props, terminal, removed, blind>>
         \/ /\ f = cur /\ says = "removed"
            /\ removed' = TRUE /\ pc' = "leaving" /\ UNCHANGED <<props, terminal, blind>>
         \/ /\ f = cur /\ says \notin Ended \cup {"removed"}
            /\ props' = says /\ UNCHANGED <<pc, terminal, removed, blind>>
         \/ /\ f = cur /\ says \in Ended
            /\ props' = says /\ terminal' = says /\ pc' = "leaving"
            /\ UNCHANGED <<removed, blind>>
         \/ /\ f = cur /\ says \in Ended
            /\ props' = says /\ blind' = TRUE /\ UNCHANGED <<pc, terminal, removed>>
  BY DEF Dispatch, Report, Terminal, Ended
<1>2. /\ Len(queue) \in Nat \ {0}
      /\ Tail(queue) \in Seq(File \X Says) /\ Len(queue') = Len(queue) - 1
      /\ Head(queue) = queue[1] /\ queue[1] = <<f, says>> /\ f \in File /\ says \in Says
      /\ \A i \in 1..Len(queue') : i + 1 \in 1..Len(queue) /\ queue'[i] = queue[i + 1]
  <2>1. Len(queue) \in Nat \ {0} /\ Head(queue) = queue[1]
    BY <1>0, <1>1, QueueType, EmptySeq
  <2>2. /\ Tail(queue) \in Seq(File \X Says) /\ Len(Tail(queue)) = Len(queue) - 1
        /\ \A i \in 1..Len(Tail(queue)) : Tail(queue)[i] = queue[i + 1]
    BY <1>0, <1>1, QueueType, HeadTailProperties
  <2>3. 1 \in 1..Len(queue)
    BY <2>1
  <2>4. queue[1] = <<queue[1][1], queue[1][2]>> /\ queue[1][1] \in File /\ queue[1][2] \in Says
    BY <1>0, <2>3, QueueType
  <2> QED BY <1>1, <2>1, <2>2, <2>4
<1>3. SignalInv(<<f, says>>)
  <2>1. 1 \in 1..Len(queue)
    BY <1>2
  <2> QED BY <1>0, <1>2, <2>1 DEF QueueInv
<1> HIDE DEF f, says
<1>4. TypeOK'
  <2>1. queue' \in Seq(File \X (Statuses \cup {"removed"}))
    BY <1>1, <1>2 DEF Says
  <2> QED BY <1>0, <1>1, <1>2, <2>1 DEF TypeOK, Statuses, Ended, Says
<1>5. TransferInv'
  BY <1>0, <1>1 DEF TransferInv
<1>6. QueueInv'
  <2> SUFFICES ASSUME NEW i \in 1..Len(queue') PROVE SignalInv(queue[i])'
    BY DEF QueueInv
  <2>1. queue'[i] = queue[i + 1] /\ SignalInv(queue[i + 1])
    BY <1>0, <1>2 DEF QueueInv
  <2> QED BY <1>1, <2>1 DEF SignalInv
<1>7. FollowInv'
  <2>1. ASSUME NEW k \in 0..Len(queue), k > 0, Awaited(k), terminal' # "complete", ~blind'
        PROVE  Awaited(k - 1)'
    <3>1. PICK i \in 1..k : queue[i] = <<cur, "complete">>
      BY <2>1 DEF Awaited
    <3>2. i # 1
      BY <1>1, <1>2, <2>1, <3>1 DEF Ended
    <3>3. i - 1 \in 1..(k - 1) /\ i - 1 \in 1..Len(queue')
      BY <1>2, <3>1, <3>2
    <3>4. queue'[i - 1] = queue[(i - 1) + 1] /\ (i - 1) + 1 = i
      BY <1>2, <3>3
    <3> QED BY <1>1, <3>1, <3>3, <3>4 DEF Awaited
  <2>2. ASSUME cur \in palm, terminal' # "complete", ~blind'
        PROVE  /\ Awaited(Len(queue))'
               /\ \A k \in 1..Len(queue') : queue'[k] = <<cur, "removed">> => Awaited(k - 1)'
               /\ ~removed'
    <3>1. terminal # "complete" /\ ~blind
      BY <1>0, <1>1, <1>3, <2>2 DEF SignalInv, Ended, FollowInv, Following
    <3>2. /\ Awaited(Len(queue)) /\ ~removed
          /\ \A k \in 1..Len(queue) : queue[k] = <<cur, "removed">> => Awaited(k - 1)
      BY <1>0, <1>1, <2>2, <3>1 DEF FollowInv, Following
    <3>3. Awaited(Len(queue))'
      BY <1>2, <2>1, <2>2, <3>2
    <3>4. ASSUME NEW k \in 1..Len(queue'), queue'[k] = <<cur, "removed">>
          PROVE  Awaited(k - 1)'
      <4>1. k + 1 \in 1..Len(queue) /\ queue[k + 1] = <<cur, "removed">>
        BY <1>2, <3>4
      <4>2. Awaited((k + 1) - 1) /\ (k + 1) - 1 = k /\ k \in 0..Len(queue) /\ k > 0
        BY <1>2, <3>2, <4>1
      <4>3. Awaited(k)
        BY <4>2
      <4> QED BY <2>1, <2>2, <4>2, <4>3
    <3>5. ~removed'
      <4>1. ~(f = cur /\ says = "removed")
        <5> SUFFICES ASSUME f = cur, says = "removed" PROVE FALSE
          OBVIOUS
        <5>1. 1 \in 1..Len(queue) /\ queue[1] = <<cur, "removed">>
          BY <1>2
        <5>2. Awaited(1 - 1)
          BY <3>2, <5>1
        <5> QED BY <5>2 DEF Awaited
      <4> QED BY <1>1, <3>2, <4>1
    <3> QED BY <3>3, <3>4, <3>5
  <2>3. /\ removed' => transfer[cur] = "gone"
        /\ terminal' = "complete" => cur \in palm
        /\ terminal' = "error" => cur \notin palm /\ transfer[cur] \in {"error", "gone"}
        /\ pc' \in {"loop", "leaving"}
        /\ pc' = "leaving" => terminal' # "none" \/ removed' \/ timedOut
    BY <1>0, <1>1, <1>3 DEF FollowInv, Following, SignalInv, Ended
  <2> QED BY <1>1, <2>2, <2>3 DEF FollowInv, Following
<1>8. ToldInv'
  BY <1>0, <1>1 DEF ToldInv
<1> QED BY <1>4, <1>5, <1>6, <1>7, <1>8 DEF IInv

(* What obexd may do to a transfer, and the signal each step emits.        *)
LEMMA ObexNextStep ==
  ASSUME IInv, NEW f \in File, ObexNext(f)
  PROVE  IInv'
<1>0. TypeOK /\ TransferInv /\ QueueInv /\ FollowInv /\ ToldInv
  BY DEF IInv
<1>1. PICK says \in Says, to \in {"active", "complete", "error", "gone"} :
        /\ transfer[f] \in Statuses /\ transfer' = [transfer EXCEPT ![f] = to]
        /\ Emit(f, says)
        /\ palm' = (IF says = "complete" THEN palm \cup {f} ELSE palm)
        /\ \/ says = "active" /\ to = "active" /\ transfer[f] = "queued"
           \/ says = "complete" /\ to = "complete" /\ transfer[f] = "active"
           \/ says = "error" /\ to = "error" /\ transfer[f] \in {"queued", "active"}
           \/ says = "removed" /\ to = "gone"
        /\ UNCHANGED <<cur, pc, props, terminal, removed, timedOut, told, obexd, stored, blind>>
  BY DEF ObexNext, Active, Complete, Error, Remove, Drop, Turn, Says, Statuses, Ended, state
<1>2. /\ f \in 1..cur /\ pc # "done" => ~(f = cur /\ pc = "send")
      /\ f \in Nat /\ cur \in Nat
  BY <1>0, <1>1 DEF TransferInv, TypeOK, File, Statuses, Ended
<1>3. \/ pc = "done" /\ queue' = queue
      \/ /\ pc # "done" /\ queue' \in Seq(File \X Says) /\ Len(queue') = Len(queue) + 1
         /\ \A i \in 1..Len(queue) : queue'[i] = queue[i]
         /\ queue'[Len(queue) + 1] = <<f, says>>
  <2>1. <<f, says>> \in File \X Says
    BY <1>1
  <2>2. queue' = IF pc # "done" THEN Append(queue, <<f, says>>) ELSE queue
    BY <1>1 DEF Emit, Listening
  <2> QED BY <1>0, <2>1, <2>2, QueueType, AppendProperties
<1>4. TypeOK'
  <2>1. queue' \in Seq(File \X (Statuses \cup {"removed"}))
    BY <1>0, <1>3, QueueType DEF Says
  <2>2. transfer' \in [File -> {"none", "gone"} \cup Statuses] /\ palm' \subseteq File
    BY <1>0, <1>1 DEF TypeOK, Statuses, Ended
  <2> QED BY <1>0, <1>1, <2>1, <2>2 DEF TypeOK
<1>5. TransferInv'
  <2>1. ASSUME NEW g \in File, g # f
        PROVE  transfer'[g] = transfer[g] /\ (g \in palm' <=> g \in palm)
    BY <1>0, <1>1, <2>1 DEF TypeOK
  <2>2. /\ transfer'[f] = to /\ transfer[f] # "none"
        /\ f \in palm' => to \in {"complete", "gone"}
        /\ to = "complete" => f \in palm'
    BY <1>0, <1>1 DEF TypeOK, TransferInv, Statuses, Ended
  <2> QED BY <1>0, <1>1, <2>1, <2>2 DEF TransferInv
<1>6. \A s \in File \X Says : SignalInv(s) => SignalInv(s)'
  BY <1>0, <1>1 DEF SignalInv, TypeOK, Statuses, Ended
<1>7. pc # "done" => SignalInv(<<f, says>>)'
  <2> SUFFICES ASSUME pc # "done" PROVE SignalInv(<<f, says>>)'
    OBVIOUS
  <2>1. transfer'[f] = to /\ (says \in {"active", "error"} => f \notin palm)
    BY <1>0, <1>1 DEF TypeOK, TransferInv
  <2>2. f <= cur /\ (pc = "send" => f # cur)
    BY <1>0, <1>1 DEF TransferInv, TypeOK, File, Statuses, Ended
  <2> QED BY <1>1, <2>1, <2>2 DEF SignalInv
<1>8. QueueInv'
  <2> SUFFICES ASSUME NEW i \in 1..Len(queue') PROVE SignalInv(queue[i])'
    BY DEF QueueInv
  <2>1. CASE i \in 1..Len(queue)
    <3>1. queue'[i] = queue[i] /\ queue[i] \in File \X Says /\ SignalInv(queue[i])
      BY <1>0, <1>3, <2>1, QueueType DEF QueueInv
    <3> QED BY <1>6, <3>1 DEF SignalInv
  <2>2. CASE i \notin 1..Len(queue)
    <3>1. pc # "done" /\ queue'[i] = <<f, says>>
      BY <1>0, <1>3, <2>2, QueueType
    <3> QED BY <1>7, <3>1 DEF SignalInv
  <2> QED BY <2>1, <2>2
<1>9. FollowInv'
  <2>1. ASSUME NEW k \in 0..Len(queue), Awaited(k), Following PROVE Awaited(k)'
    <3>1. PICK i \in 1..k : queue[i] = <<cur, "complete">>
      BY <2>1 DEF Awaited
    <3>2. i \in 1..Len(queue) /\ pc # "done"
      BY <1>0, <2>1, <3>1, QueueType DEF Following
    <3> QED BY <1>1, <1>3, <3>1, <3>2 DEF Awaited
  <2>2. ASSUME Following, ~blind, cur \in palm', terminal # "complete"
        PROVE  /\ Awaited(Len(queue))'
               /\ \A k \in 1..Len(queue') : queue'[k] = <<cur, "removed">> => Awaited(k - 1)'
               /\ ~removed
    <3>1. /\ pc # "done" /\ Len(queue) \in Nat /\ Len(queue') = Len(queue) + 1
          /\ \A i \in 1..Len(queue) : queue'[i] = queue[i]
          /\ queue'[Len(queue) + 1] = <<f, says>>
      BY <1>0, <1>3, <2>2, QueueType DEF Following
    <3>2. CASE cur \in palm
      <4>1. /\ Awaited(Len(queue)) /\ ~removed
            /\ \A k \in 1..Len(queue) : queue[k] = <<cur, "removed">> => Awaited(k - 1)
        BY <1>0, <2>2, <3>2 DEF FollowInv
      <4>2. \E i \in 1..Len(queue) : queue'[i] = <<cur, "complete">>
        BY <3>1, <4>1 DEF Awaited
      <4>3. Awaited(Len(queue))'
        BY <1>1, <3>1, <4>2 DEF Awaited
      <4>4. ASSUME NEW k \in 1..Len(queue'), queue'[k] = <<cur, "removed">>
            PROVE  Awaited(k - 1)'
        <5>1. CASE k \in 1..Len(queue)
          <6>1. Awaited(k - 1) /\ k - 1 \in 0..Len(queue)
            BY <3>1, <4>1, <4>4, <5>1
          <6> QED BY <2>1, <2>2, <6>1
        <5>2. CASE k = Len(queue) + 1
          <6>1. k - 1 = Len(queue)
            BY <3>1, <5>2
          <6> QED BY <1>1, <4>2, <6>1 DEF Awaited
        <5> QED BY <3>1, <5>1, <5>2
      <4> QED BY <4>1, <4>3, <4>4
    <3>3. CASE cur \notin palm
      <4>1. f = cur /\ says = "complete" /\ transfer[cur] = "active"
        BY <1>1, <2>2, <3>3
      <4>2. ~removed
        BY <1>0, <2>2, <4>1 DEF FollowInv
      <4>3. \E i \in 1..(Len(queue) + 1) : queue'[i] = <<cur, "complete">>
        BY <3>1, <4>1
      <4>4. \A k \in 1..Len(queue') : queue'[k] # <<cur, "removed">>
        <5> SUFFICES ASSUME NEW k \in 1..Len(queue'), queue'[k] = <<cur, "removed">>
                     PROVE  FALSE
          OBVIOUS
        <5>1. k \in 1..Len(queue)
          BY <3>1, <4>1
        <5>2. SignalInv(<<cur, "removed">>)
          BY <1>0, <3>1, <5>1 DEF QueueInv
        <5> QED BY <4>1, <5>2 DEF SignalInv
      <4> QED BY <1>1, <3>1, <4>2, <4>3, <4>4 DEF Awaited
    <3> QED BY <3>2, <3>3
  <2>3. /\ Following /\ removed => transfer'[cur] = "gone"
        /\ Following /\ terminal = "complete" => cur \in palm'
        /\ Following /\ terminal = "error" => cur \notin palm' /\ transfer'[cur] \in {"error", "gone"}
    BY <1>0, <1>1 DEF FollowInv, TypeOK, Statuses, Ended
  <2>4. /\ Following' <=> Following
        /\ pc = "getall" => props = "queued" /\ terminal = "none"
        /\ pc = "leaving" => terminal # "none" \/ removed \/ timedOut
        /\ pc = "ended" => terminal # "none"
        /\ pc = "cancel" => timedOut
    BY <1>0, <1>1 DEF FollowInv, Following
  <2> HIDE DEF Following
  <2> QED BY <1>1, <2>2, <2>3, <2>4 DEF FollowInv
<1>10. ToldInv'
  BY <1>0, <1>1 DEF ToldInv, TypeOK, Statuses, Ended
<1> QED BY <1>4, <1>5, <1>8, <1>9, <1>10 DEF IInv

LEMMA StepInv == IInv /\ [Next]_vars => IInv'
<1> SUFFICES ASSUME IInv, [Next]_vars PROVE IInv'
  OBVIOUS
<1>1. CASE Sender
  BY <1>1, SendFileStep, SendFileFailsStep, SendFileUnansweredStep, GetAllStep,
     DispatchStep, TimedOutStep, ConcludeStep, CancelStep, CloseStep DEF Sender
<1>2. CASE ObexDie
  BY <1>2, ObexDieStep
<1>3. ASSUME NEW f \in File, ObexNext(f) PROVE IInv'
  BY <1>3, ObexNextStep
<1>4. CASE StoreEdit
  BY <1>4, StoreEditStep
<1>5. CASE UNCHANGED vars
  <2>1. UNCHANGED vars
    BY <1>5
  <2>2. TypeOK'
    BY <2>1 DEF vars, state, IInv, TypeOK
  <2>3. TransferInv'
    BY <2>1 DEF vars, state, IInv, TransferInv
  <2>4. QueueInv'
    BY <2>1 DEF vars, state, IInv, QueueInv, SignalInv
  <2>5. FollowInv'
    BY <2>1 DEF vars, state, IInv, FollowInv, Following, Awaited
  <2>6. ToldInv'
    BY <2>1 DEF vars, state, IInv, ToldInv
  <2> QED BY <2>2, <2>3, <2>4, <2>5, <2>6 DEF IInv
<1> QED BY <1>1, <1>2, <1>3, <1>4, <1>5 DEF Next

(* The inductive invariant holds in every reachable state.                 *)
THEOREM Invariance == Spec => []IInv
BY InitInv, StepInv, PTL DEF Spec

(* Every variable keeps its type.                                          *)
THEOREM TypeCorrect == Spec => []TypeOK
<1>1. IInv => TypeOK
  BY DEF IInv
<1> QED BY <1>1, Invariance, PTL

(* For any number of files, and in whatever order the signals of several   *)
(* transfers are dispatched, "Installed/received" is said of what the Palm *)
(* has got, only.                                                          *)
THEOREM SuccessTold == Spec => []SuccessIsReal
<1>1. IInv => SuccessIsReal
  BY DEF IInv, ToldInv, SuccessIsReal
<1> QED BY <1>1, Invariance, PTL

(* For any number of files, and however deletions of the upload fall       *)
(* between the reports, a file that arrived is called failed only when the *)
(* timer had elapsed, SendFile got no answer or a report had no file.      *)
THEOREM OnlyBlindMissed == Spec => []MissedOnlyBlind
<1>1. IInv => MissedOnlyBlind
  BY DEF IInv, ToldInv, MissedOnlyBlind
<1> QED BY <1>1, Invariance, PTL
-----------------------------------------------------------------------------
(* palm-bluetooth-recover.                                                 *)

(* A recovery that has shown, or ended after its except clause, has        *)
(* started both services since the last of them went down.                 *)
RestoredInv == step \in {"show", "ok", "failed"} /\ ~refused => services = BothUp

(* The device is bound but between the two writes and after a bind that    *)
(* raised; what the stop leaves of the limit outlasts the two seconds of   *)
(* sleep before the bind.                                                  *)
BoundSteps == {"idle", "stop", "unbind", "start_bt", "poll", "power", "start_lap", "show", "ok"}
BareSteps  == {"except_bt", "except_lap", "failed", "abandoned", "killed"}

ReboundInv ==
  /\ step \in BoundSteps => bound
  /\ step \in BareSteps /\ ~bound => raised = "bind"
  /\ step \in {"validate", "stop", "unbind", "bind"} => raised = "none"
  /\ step \in {"validate", "stop"} => left = Budget
  /\ step \in {"unbind", "bind"} => left > 2

(* The order of the steps, as the proofs need it.                          *)
LEMMA Order ==
  /\ After("stop") = "unbind" /\ After("unbind") = "bind" /\ After("bind") = "start_bt"
  /\ After("start_bt") = "poll" /\ After("poll") = "power"
  /\ After("power") = "start_lap" /\ After("start_lap") = "show" /\ After("show") = "ok"
  /\ After("except_bt") = "except_lap" /\ After("except_lap") = "failed"
BY DEF After, Program

(* The services a job or a restart may leave.                              *)
LEMMA Pairs ==
  /\ BothUp \in BOOLEAN \X BOOLEAN /\ BothDown \in BOOLEAN \X BOOLEAN
  /\ <<TRUE, FALSE>> \in BOOLEAN \X BOOLEAN
  /\ services \in BOOLEAN \X BOOLEAN => <<TRUE, services[2]>> \in BOOLEAN \X BOOLEAN
  /\ services = BothUp => <<TRUE, services[2]>> = BothUp
<1>1. services \in BOOLEAN \X BOOLEAN => <<TRUE, services[2]>> \in BOOLEAN \X BOOLEAN
  OBVIOUS
<1>2. services = <<TRUE, TRUE>> => <<TRUE, services[2]>> = <<TRUE, TRUE>>
  OBVIOUS
<1>3. <<TRUE, TRUE>> \in BOOLEAN \X BOOLEAN /\ <<FALSE, FALSE>> \in BOOLEAN \X BOOLEAN
      /\ <<TRUE, FALSE>> \in BOOLEAN \X BOOLEAN
  OBVIOUS
<1> QED BY <1>1, <1>2, <1>3 DEF BothUp, BothDown

(* What a step may cost, what its job may be, and where it may lead.       *)
LEMMA StepFacts ==
  ASSUME RecoveryTypeOK, step \in Busy
  PROVE  /\ Sleep(step) \in Nat /\ Limit(step) \in Nat
         /\ step \in Commands => Limit(step) >= 1
         /\ Job(step) \in BOOLEAN \X BOOLEAN
         /\ Raise(step) \in {"except_bt", "abandoned"}
<1> USE SecondsAssumption DEF Busy, Commands
<1>1. Sleep(step) \in Nat /\ Limit(step) \in Nat /\ Raise(step) \in {"except_bt", "abandoned"}
  BY DEF Sleep, Limit, Raise
<1>2. step \in Commands => Limit(step) >= 1
  BY DEF Limit
<1>3. Job(step) \in BOOLEAN \X BOOLEAN
  <2>1. Job(step) \in {BothDown, BothUp, <<TRUE, services[2]>>, services}
    BY DEF Job
  <2> QED BY <2>1, Pairs DEF RecoveryTypeOK
<1> QED BY <1>1, <1>2, <1>3

(* A step that spends keeps a second at least.                             *)
LEMMA SpendLeaves ==
  ASSUME RecoveryTypeOK, step \in Busy, NEW t \in Nat, Spend(t)
  PROVE  left' \in 1..Budget /\ left' = left - Sleep(step) - t
BY StepFacts, SecondsAssumption DEF Spend, RecoveryTypeOK

LEMMA RecoveryTypeStep ==
  ASSUME RecoveryTypeOK, [RecoveryNext]_recoveryVars
  PROVE  RecoveryTypeOK'
<1> USE DEF RecoveryTypeOK
<1>1. CASE Schedule
  <2>1. step' \in Busy /\ left' \in 1..Budget
    BY <1>1, SecondsAssumption DEF Schedule, Busy
  <2>2. refused' \in BOOLEAN
    BY <1>1 DEF Schedule
  <2> QED BY <1>1, <2>1, <2>2 DEF Schedule
<1>2. CASE Validate
  BY <1>2 DEF Validate, Busy, Commands, Finished
<1>3. CASE CommandReturns \/ CommandExpires \/ Control \/ Poll
  <2>1. step \in Busy \ {"validate"}
    BY <1>3 DEF CommandReturns, CommandExpires, Control, Poll, Busy, Commands
  <2>2. left' \in 1..Budget
    <3>1. ASSUME NEW t \in {0, Limit(step) - 1, Limit(step)}, Spend(t),
                 t \in Nat
          PROVE  left' \in 1..Budget
      BY <2>1, <3>1, SpendLeaves
    <3>2. /\ step \in Commands => Limit(step) - 1 \in Nat
          /\ Limit(step) \in Nat
      BY <2>1, StepFacts
    <3> QED BY <1>3, <3>1, <3>2 DEF CommandReturns, CommandExpires, Control, Poll
  <2>3. step' \in Busy \cup Finished
    <3>1. Raise(step) \in Busy \cup Finished
      BY <2>1, StepFacts DEF Busy, Commands, Finished
    <3>2. step \in Busy \ {"validate"} => After(step) \in Busy \cup Finished
      BY Order DEF Busy, Commands, Finished
    <3> QED BY <1>3, <2>1, <3>1, <3>2
          DEF CommandReturns, CommandExpires, Control, Poll, Raises
  <2>4. raised' \in {"none"} \cup Busy
    BY <1>3, <2>1 DEF CommandReturns, CommandExpires, Control, Poll, Raises
  <2>5. services' \in BOOLEAN \X BOOLEAN
    BY <1>3, <2>1, StepFacts DEF CommandReturns, CommandExpires, Control, Poll
  <2>6. bound' \in BOOLEAN /\ refused' \in BOOLEAN /\ web' \in {"idle", "hints", "start"}
    BY <1>3 DEF CommandReturns, CommandExpires, Control, Poll
  <2> QED BY <2>2, <2>3, <2>4, <2>5, <2>6
<1>4. CASE Kill
  <2>1. Job(step) \in BOOLEAN \X BOOLEAN
    BY <1>4, StepFacts DEF Kill
  <2> QED BY <1>4, <2>1 DEF Kill, Finished
<1>5. CASE LapRestart \/ BluetoothRestart \/ RestoreLapHints \/ StartLap
  <2>1. services' \in BOOLEAN \X BOOLEAN
    BY <1>5, Pairs DEF LapRestart, BluetoothRestart, RestoreLapHints, StartLap
  <2>2. refused' \in BOOLEAN /\ web' \in {"idle", "hints", "start"}
    BY <1>5 DEF LapRestart, BluetoothRestart, RestoreLapHints, StartLap
  <2> QED BY <1>5, <2>1, <2>2
        DEF LapRestart, BluetoothRestart, RestoreLapHints, StartLap
<1>6. CASE UNCHANGED recoveryVars
  BY <1>6 DEF recoveryVars
<1> QED BY <1>1, <1>2, <1>3, <1>4, <1>5, <1>6 DEF RecoveryNext, Recovery

LEMMA RestoredStep ==
  ASSUME RecoveryTypeOK, RestoredInv, [RecoveryNext]_recoveryVars
  PROVE  RestoredInv'
<1> USE DEF RestoredInv
<1>1. CASE Schedule \/ Validate \/ Kill
  BY <1>1 DEF Schedule, Validate, Kill
<1>2. CASE CommandReturns
  <2>1. CASE services' = Job(step) /\ step' = After(step)
    <3>1. CASE step \in {"start_lap", "except_lap"}
      BY <2>1, <3>1 DEF Job
    <3>2. CASE step = "show"
      <4>1. services' = services /\ UNCHANGED refused
        BY <1>2, <2>1, <3>2, Order
           DEF CommandReturns, Job, Unchecked, Raises, Raise
      <4> QED BY <3>2, <4>1
    <3>3. CASE step \in {"stop", "start_bt", "power", "except_bt"}
      BY <2>1, <3>3, Order
    <3> QED BY <1>2, <3>1, <3>2, <3>3 DEF CommandReturns, Commands
  <2>2. CASE /\ UNCHANGED services
             /\ refused' = (refused \/ step \in Starts)
             /\ step' \in {After(step), Raise(step)}
             /\ step \notin Unchecked => step' = Raise(step)
    BY <1>2, <2>2, Order
       DEF CommandReturns, Commands, Raise, Starts, Unchecked, RecoveryTypeOK
  <2> QED BY <1>2, <2>1, <2>2 DEF CommandReturns, Raises
<1>3. CASE CommandExpires
  BY <1>3 DEF CommandExpires, Raises, Raise
<1>4. CASE Control \/ Poll
  BY <1>4, Order DEF Control, Poll, Raises, Raise
<1>5. CASE LapRestart \/ BluetoothRestart \/ RestoreLapHints \/ StartLap
  BY <1>5, Pairs DEF LapRestart, BluetoothRestart, RestoreLapHints, StartLap
<1>6. CASE UNCHANGED recoveryVars
  BY <1>6 DEF recoveryVars
<1> QED BY <1>1, <1>2, <1>3, <1>4, <1>5, <1>6 DEF RecoveryNext, Recovery

LEMMA ReboundStep ==
  ASSUME Budget > StopTimeout + 1,
         RecoveryTypeOK, ReboundInv, [RecoveryNext]_recoveryVars
  PROVE  ReboundInv'
<1> USE DEF ReboundInv, BoundSteps, BareSteps
<1>0. Sleep("bind") = 2 /\ Sleep("stop") = 0 /\ Sleep("unbind") = 0
      /\ Limit("stop") = StopTimeout /\ Budget \in Nat /\ StopTimeout \in Nat /\ left \in Nat
  BY SecondsAssumption DEF Sleep, Limit, RecoveryTypeOK
<1>1. CASE Schedule
  BY <1>1 DEF Schedule
<1>2. CASE Validate
  BY <1>2 DEF Validate
<1>3. CASE CommandReturns
  <2>1. CASE step = "stop"
    <3>1. step' = "unbind" \/ step' = "abandoned"
      BY <1>3, <2>1, Order DEF CommandReturns, Raises, Raise
    <3>2. left' > 2
      <4>1. PICK t \in {0, StopTimeout - 1} :
              left > Sleep(step) + t /\ left' = left - Sleep(step) - t
        BY <1>0, <1>3, <2>1 DEF CommandReturns, Spend
      <4>2. left = Budget /\ Sleep(step) = 0
        BY <1>0, <2>1
      <4> QED BY <1>0, <4>1, <4>2, SecondsAssumption
    <3>3. step' = "unbind" => UNCHANGED raised
      BY <1>3, <2>1 DEF CommandReturns, Raises, Raise, Unchecked
    <3> QED BY <1>0, <1>3, <2>1, <3>1, <3>2, <3>3 DEF CommandReturns
  <2>2. CASE step # "stop"
    BY <1>3, <2>2, Order DEF CommandReturns, Commands, Unchecked, Raises, Raise
  <2> QED BY <2>1, <2>2
<1>4. CASE CommandExpires
  BY <1>4 DEF CommandExpires, Commands, Raises, Raise
<1>5. CASE Control
  <2>1. CASE step = "unbind"
    <3>1. left' = left
      BY <1>0, <1>5, <2>1 DEF Control, Spend
    <3>2. \/ step' = "bind" /\ UNCHANGED raised
          \/ step' = "except_bt" /\ UNCHANGED bound
      BY <1>5, <2>1, Order DEF Control, Raises, Raise
    <3> QED BY <2>1, <3>1, <3>2
  <2>2. CASE step = "bind"
    BY <1>5, <2>2, Order DEF Control, Raises, Raise
  <2> QED BY <1>5, <2>1, <2>2 DEF Control
<1>6. CASE Poll
  BY <1>6, Order DEF Poll
<1>7. CASE Kill
  <2>1. step \notin {"validate", "bind"}
    BY <1>0, <1>7, SecondsAssumption DEF Kill, Sleep, Limit, Commands
  <2> QED BY <1>7, <2>1 DEF Kill, Busy, Commands
<1>8. CASE LapRestart \/ BluetoothRestart \/ RestoreLapHints \/ StartLap
  BY <1>8 DEF LapRestart, BluetoothRestart, RestoreLapHints, StartLap
<1>9. CASE UNCHANGED recoveryVars
  BY <1>9 DEF recoveryVars
<1> QED BY <1>1, <1>2, <1>3, <1>4, <1>5, <1>6, <1>7, <1>8, <1>9 DEF RecoveryNext, Recovery

LEMMA RecoveryStarts ==
  ASSUME RecoveryInit
  PROVE  RecoveryTypeOK /\ RestoredInv /\ ReboundInv
<1> USE DEF RecoveryInit
<1>1. RecoveryTypeOK
  <2>1. left \in 1..Budget
    BY SecondsAssumption
  <2>2. bound \in BOOLEAN /\ refused \in BOOLEAN
    OBVIOUS
  <2> QED BY <2>1, <2>2, Pairs DEF RecoveryTypeOK
<1>2. RestoredInv /\ ReboundInv
  BY DEF RestoredInv, ReboundInv, BareSteps
<1> QED BY <1>1, <1>2

(* Type correctness of the recovery and the restarts beside it; whatever   *)
(* the seconds, a recovery that runs has time left.                        *)
THEOREM RecoveryTyped == RecoverySpec => []RecoveryTypeOK
<1>1. RecoveryInit => RecoveryTypeOK
  BY RecoveryStarts
<1>2. RecoveryTypeOK /\ [RecoveryNext]_recoveryVars => RecoveryTypeOK'
  BY RecoveryTypeStep
<1> QED BY <1>1, <1>2, PTL DEF RecoverySpec

(* A recovery that ends by itself leaves both services up, wherever it     *)
(* failed and whatever restarts of the helper and of palm-lap-device met   *)
(* it, unless systemd could not start one; for any unit limit and any      *)
(* timeouts, so a change of them cannot break it.                          *)
THEOREM ServicesComeBack == RecoverySpec => []ServicesRestored
<1>1. RecoveryInit => RestoredInv
  BY RecoveryStarts
<1>2. RecoveryTypeOK /\ RestoredInv /\ [RecoveryNext]_recoveryVars => RestoredInv'
  BY RestoredStep
<1>3. RestoredInv => ServicesRestored
  BY DEF RestoredInv, ServicesRestored
<1> QED BY <1>1, <1>2, <1>3, RecoveryTyped, PTL DEF RecoverySpec

(* Only a bind that was refused leaves the controller without its driver,  *)
(* if the unit's limit exceeds the timeout of the stop by more than the    *)
(* second that is missing to the sleep before the bind: systemd then never *)
(* strikes between the two writes.  The other timeouts do not matter.      *)
THEOREM ControllerComesBack ==
  ASSUME Budget > StopTimeout + 1
  PROVE  RecoverySpec => []ControllerRebound
<1>1. RecoveryInit => ReboundInv
  BY RecoveryStarts
<1>2. RecoveryTypeOK /\ ReboundInv /\ [RecoveryNext]_recoveryVars => ReboundInv'
  BY ReboundStep
<1>3. RecoveryTypeOK /\ ReboundInv => ControllerRebound
  BY DEF ReboundInv, BareSteps, BoundSteps, ControllerRebound, Finished
<1> QED BY <1>1, <1>2, <1>3, RecoveryTyped, PTL DEF RecoverySpec
=============================================================================
