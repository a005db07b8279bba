-------------------------- MODULE UploadStoreProofs --------------------------
(* Proofs about UploadStore, for any number of requests, names and files,  *)
(* whatever overlaps, fails or dies.                                       *)
EXTENDS UploadStore, SequenceTheorems, TLAPS

Distinct(b, k) ==
  \A i, j \in 1..k : b[i].fit # "suffix" /\ (Fold[b[i].name] = Fold[b[j].name] => i = j)

(* How far a request has come with its batch.                              *)
Progress(r) ==
  /\ at[r] >= 1
  /\ pc[r] = "idle" => batch[r] = <<>> /\ at[r] = 1 /\ staged[r] = 0
  /\ pc[r] # "idle" => batch[r] \in Batches
  /\ pc[r] = "stage" => staged[r] = at[r] - 1 /\ Distinct(batch[r], at[r] - 1)
  /\ pc[r] = "validate" =>
       at[r] = 1 /\ staged[r] = Len(batch[r]) /\ Distinct(batch[r], Len(batch[r]))
  /\ pc[r] \in {"stage", "validate"} => Len(batch[r]) <= MaxFiles
  /\ pc[r] = "publish" => staged[r] = Len(batch[r]) /\ Accepted(batch[r])

(* Which of its files have been visible: none before the whole batch is    *)
(* validated, and in the order of the batch after that.                    *)
ShownUpTo(r, k) == \A i \in Nat : <<r, i>> \in shown <=> i \in 1..k

ShownInv(r) ==
  /\ \E k \in 0..Len(batch[r]) : ShownUpTo(r, k)
  /\ ShownUpTo(r, 0) \/ (Accepted(batch[r]) /\ staged[r] = Len(batch[r]))
  /\ pc[r] \in {"idle", "stage", "validate", "refuse", "rejected"} => ShownUpTo(r, 0)
  /\ pc[r] = "publish" => ShownUpTo(r, at[r] - 1)
  /\ pc[r] \in {"keep", "ok"} => ShownUpTo(r, Len(batch[r]))

(* Which of its temporaries exist, and that none goes before its time.     *)
TempsWithin(r, i, j) == \A k \in Nat : <<r, k>> \in temps => k \in i..j

TempsInv(r) ==
  /\ pc[r] \in {"idle", "ok", "rejected"} => TempsWithin(r, 1, 0)
  /\ pc[r] \in {"stage", "validate", "publish"} => TempsWithin(r, 1, staged[r])
  /\ pc[r] \in {"keep", "refuse"} => TempsWithin(r, at[r], staged[r])
  /\ pc[r] \in {"break", "error"} => TempsWithin(r, at[r], staged[r] + 1)
  /\ pc[r] \in {"stage", "validate", "publish", "keep"} =>
       \A i \in 1..staged[r] : <<r, i>> \in temps \/ <<r, i>> \in shown

RequestInv(r) == Progress(r) /\ ShownInv(r) /\ TempsInv(r)

(* A file that can be seen under a name has been published under it.       *)
Published(f, n) == f # None => f \in shown /\ batch[f[1]][f[2]].name = n

StoreInv ==
  /\ \A n \in Name : Published(store[n], n)
  /\ Published(job.read, job.name)
  /\ job.step # "none" => job.name \in Name

IInv == TypeOK /\ (\A r \in Request : RequestInv(r)) /\ StoreInv

-----------------------------------------------------------------------------
LEMMA BatchType ==
  ASSUME TypeOK, NEW r \in Request
  PROVE  /\ batch[r] \in Seq(Item) /\ Len(batch[r]) \in Nat
         /\ at[r] \in Nat /\ staged[r] \in Nat
         /\ \A i \in 1..Len(batch[r]) : batch[r][i] \in Item
<1>1. batch[r] \in Batches \cup {<<>>} /\ at[r] \in Nat /\ staged[r] \in Nat
  BY DEF TypeOK
<1> HIDE DEF Item
<1>2. batch[r] \in Seq(Item)
  BY <1>1, BatchesAssumption, EmptySeq
<1> QED BY <1>1, <1>2, LenProperties, ElementOfSeq

(* A request nobody has touched keeps its part of the invariant.           *)
LEMMA Untouched ==
  ASSUME NEW r \in Request, RequestInv(r),
         pc'[r] = pc[r], batch'[r] = batch[r], at'[r] = at[r], staged'[r] = staged[r],
         \A i \in Nat : <<r, i>> \in temps' <=> <<r, i>> \in temps,
         \A i \in Nat : <<r, i>> \in shown' <=> <<r, i>> \in shown,
         staged[r] \in Nat, Len(batch[r]) \in Nat, at[r] \in Nat
  PROVE  RequestInv(r)'
<1>1. Progress(r)'
  BY DEF RequestInv, Progress, Accepted, Distinct
<1>2. ShownInv(r)'
  BY DEF RequestInv, ShownInv, ShownUpTo, Accepted
<1>3. TempsInv(r)'
  BY DEF RequestInv, TempsInv, TempsWithin
<1> QED BY <1>1, <1>2, <1>3 DEF RequestInv

(* What has been published stays so, as long as the batches of the files   *)
(* that have been visible stay what they are.                              *)
LEMMA StoreKept ==
  ASSUME TypeOK, StoreInv, shown \subseteq shown', UNCHANGED <<store, job>>,
         \A f \in shown : batch'[f[1]] = batch[f[1]]
  PROVE  StoreInv'
BY DEF StoreInv, Published

LEMMA InitInv == Init => IInv
<1> SUFFICES ASSUME Init PROVE IInv
  OBVIOUS
<1> USE NoneAssumption DEF Init
<1>1. TypeOK
  BY DEF TypeOK, Busy, Cleaning, Ended
<1>2. ASSUME NEW r \in Request PROVE RequestInv(r)
  <2>1. pc[r] = "idle" /\ batch[r] = <<>> /\ at[r] = 1 /\ staged[r] = 0
    OBVIOUS
  <2>2. Progress(r)
    BY <2>1 DEF Progress
  <2>3. ShownInv(r) /\ TempsInv(r)
    BY <2>1 DEF ShownInv, ShownUpTo, TempsInv, TempsWithin
  <2> QED BY <2>2, <2>3 DEF RequestInv
<1>3. StoreInv
  BY DEF StoreInv, Published
<1> QED BY <1>1, <1>2, <1>3 DEF IInv

LEMMA UploadStep ==
  ASSUME IInv, NEW r \in Request, NEW b \in Batches, Upload(r, b)
  PROVE  IInv'
<1> USE DEF Upload, Goto
<1>0. TypeOK /\ RequestInv(r) /\ StoreInv
  BY DEF IInv
<1>1. b \in Seq(Item) /\ Len(b) \in Nat
  BY BatchesAssumption
<1>2. /\ pc[r] = "idle" /\ at[r] = 1 /\ staged[r] = 0
      /\ \A i \in Nat : <<r, i>> \notin shown /\ <<r, i>> \notin temps
  BY <1>0 DEF RequestInv, Progress, ShownInv, ShownUpTo, TempsInv, TempsWithin
<1>3. batch' = [batch EXCEPT ![r] = b]
      /\ pc' = [pc EXCEPT ![r] = IF Len(b) > MaxFiles THEN "rejected" ELSE "stage"]
      /\ UNCHANGED <<store, temps, at, staged, deleting, job, shown>>
  OBVIOUS
<1>4. TypeOK'
  BY <1>0, <1>1, <1>2, <1>3 DEF TypeOK, Busy, Ended
<1>5. RequestInv(r)'
  <2>1. /\ pc'[r] \in {"stage", "rejected"} /\ at'[r] = 1 /\ staged'[r] = 0
        /\ pc'[r] = "stage" => Len(b) <= MaxFiles
        /\ batch'[r] = b
    BY <1>0, <1>1, <1>2, <1>3, MaxAssumption DEF TypeOK
  <2>2. Progress(r)'
    BY <2>1, <1>1 DEF Progress, Distinct
  <2>3. ShownInv(r)' /\ TempsInv(r)'
    BY <2>1, <1>1, <1>2, <1>3 DEF ShownInv, ShownUpTo, TempsInv, TempsWithin
  <2> QED BY <2>2, <2>3 DEF RequestInv
<1>6. \A q \in Request \ {r} : RequestInv(q)'
  <2> TAKE q \in Request \ {r}
  <2>1. RequestInv(q)
    BY DEF IInv
  <2>2. pc'[q] = pc[q] /\ batch'[q] = batch[q]
    BY <1>0, <1>3 DEF TypeOK
  <2> QED BY <1>0, <1>3, <2>1, <2>2, BatchType, Untouched
<1>7. StoreInv'
  <2>1. \A f \in shown : batch'[f[1]] = batch[f[1]]
    BY <1>0, <1>2, <1>3 DEF TypeOK
  <2> QED BY <1>0, <1>3, <2>1, StoreKept
<1> QED BY <1>4, <1>5, <1>6, <1>7 DEF IInv

(* A step of one request changes nothing of another.                       *)
LEMMA Others ==
  ASSUME IInv, NEW r \in Request, RequestOnly(r),
         \A q \in Request \ {r} : pc'[q] = pc[q] /\ at'[q] = at[q] /\ staged'[q] = staged[q],
         \A q \in Request \ {r}, i \in Nat :
           /\ <<q, i>> \in temps' <=> <<q, i>> \in temps
           /\ <<q, i>> \in shown' <=> <<q, i>> \in shown
  PROVE  \A q \in Request \ {r} : RequestInv(q)'
<1> TAKE q \in Request \ {r}
<1>1. TypeOK /\ RequestInv(q)
  BY DEF IInv
<1>2. batch'[q] = batch[q]
  BY DEF RequestOnly
<1> QED BY <1>1, <1>2, BatchType, Untouched

(* A step that moves one request, and touches no file.                     *)
LEMMA Moves ==
  ASSUME IInv, NEW r \in Request, NEW here \in Busy \cup Ended, NEW k \in Nat,
         k - 1 <= Len(batch[r]),
         pc' = [pc EXCEPT ![r] = here], at' = [at EXCEPT ![r] = k],
         UNCHANGED <<store, temps, batch, staged, deleting, job, shown>>,
         pc'[r] = here /\ at'[r] = k => RequestInv(r)'
  PROVE  IInv'
<1>1. TypeOK /\ StoreInv
  BY DEF IInv
<1>2. pc'[r] = here /\ at'[r] = k
  BY <1>1 DEF TypeOK
<1>3. TypeOK'
  <2>1. pc' \in [Request -> {"idle"} \cup Busy \cup Ended]
    BY <1>1 DEF TypeOK
  <2>2. at' \in [Request -> Nat] /\ \A q \in Request : at'[q] - 1 <= Len(batch[q])
    BY <1>1 DEF TypeOK
  <2> QED BY <1>1, <2>1, <2>2 DEF TypeOK
<1>4. \A q \in Request \ {r} : RequestInv(q)'
  <2>1. \A q \in Request \ {r} : pc'[q] = pc[q] /\ at'[q] = at[q]
    BY <1>1 DEF TypeOK
  <2> QED BY <2>1, Others DEF RequestOnly
<1>5. StoreInv'
  BY <1>1, StoreKept
<1> QED BY <1>2, <1>3, <1>4, <1>5 DEF IInv

LEMMA RefuseFileStep ==
  ASSUME IInv, NEW r \in Request, RefuseFile(r)
  PROVE  IInv'
<1>1. TypeOK /\ RequestInv(r)
  BY DEF IInv
<1>2. /\ pc[r] = "stage" /\ pc' = [pc EXCEPT ![r] = "refuse"] /\ at' = [at EXCEPT ![r] = 1]
      /\ UNCHANGED <<store, temps, batch, staged, deleting, job, shown>>
  BY DEF RefuseFile, Goto, Reset, RequestOnly
<1>3. ASSUME pc'[r] = "refuse", at'[r] = 1 PROVE RequestInv(r)'
  <2>1. Progress(r)'
    BY <1>1, <1>2, <1>3 DEF RequestInv, Progress
  <2>2. ShownInv(r)'
    BY <1>1, <1>2, <1>3 DEF RequestInv, ShownInv, ShownUpTo, Accepted
  <2>3. TempsInv(r)'
    BY <1>1, <1>2, <1>3 DEF RequestInv, TempsInv, TempsWithin
  <2> QED BY <2>1, <2>2, <2>3 DEF RequestInv
<1>4. "refuse" \in Busy \cup Ended /\ 1 \in Nat /\ 1 - 1 <= Len(batch[r])
  BY <1>1, BatchType DEF Busy, Cleaning
<1> QED BY <1>2, <1>3, <1>4, Moves

LEMMA SaveStep ==
  ASSUME IInv, NEW r \in Request, Save(r)
  PROVE  IInv'
<1>1. TypeOK /\ RequestInv(r) /\ StoreInv
  BY DEF IInv
<1>2. /\ at[r] \in Nat /\ staged[r] \in Nat /\ Len(batch[r]) \in Nat
      /\ at[r] <= Len(batch[r]) /\ pc[r] = "stage" /\ staged[r] = at[r] - 1
      /\ batch' = batch /\ shown' = shown /\ temps' = temps \cup {<<r, at[r]>>}
  BY <1>1, BatchType DEF Save, AllDone, Goto, RequestInv, Progress, RequestOnly
<1>3. \/ /\ pc' = [pc EXCEPT ![r] = "stage"]
         /\ at' = [at EXCEPT ![r] = @ + 1] /\ staged' = [staged EXCEPT ![r] = at[r]]
      \/ /\ pc' = [pc EXCEPT ![r] = "break"]
         /\ at' = [at EXCEPT ![r] = 1] /\ UNCHANGED staged
  BY DEF Save, Goto, Advance, Reset
<1>4. TypeOK'
  <2>1. /\ UNCHANGED <<store, batch, shown, deleting, job>>
        /\ temps' \subseteq Request \X Nat
    BY <1>1, <1>2 DEF TypeOK, Save, RequestOnly
  <2>2. pc' \in [Request -> {"idle"} \cup Busy \cup Ended]
    BY <1>1, <1>3 DEF TypeOK, Busy, Cleaning
  <2>3. /\ at' \in [Request -> Nat] /\ staged' \in [Request -> Nat]
        /\ \A q \in Request : at'[q] - 1 <= Len(batch[q]) /\ staged'[q] <= Len(batch[q])
    <3>1. CASE at' = [at EXCEPT ![r] = 1] /\ UNCHANGED staged
      BY <1>1, <1>2, <3>1 DEF TypeOK
    <3>2. CASE at' = [at EXCEPT ![r] = @ + 1] /\ staged' = [staged EXCEPT ![r] = at[r]]
      <4>1. at \in [Request -> Nat] /\ staged \in [Request -> Nat]
            /\ \A q \in Request : at[q] - 1 <= Len(batch[q]) /\ staged[q] <= Len(batch[q])
        BY <1>1 DEF TypeOK
      <4> QED BY <1>2, <3>2, <4>1
    <3> QED BY <1>3, <3>1, <3>2
  <2> QED BY <1>1, <2>1, <2>2, <2>3 DEF TypeOK
<1>5. RequestInv(r)'
  <2>1. \/ pc'[r] = "stage" /\ at'[r] = at[r] + 1 /\ staged'[r] = at[r]
        \/ pc'[r] = "break" /\ at'[r] = 1 /\ staged'[r] = staged[r]
    BY <1>1, <1>3 DEF TypeOK
  <2>2. \A i \in Nat : <<r, i>> \in temps' <=> <<r, i>> \in temps \/ i = at[r]
    BY <1>2
  <2>3. Distinct(batch[r], at[r])
    <3>1. Distinct(batch[r], at[r] - 1)
      BY <1>1, <1>2 DEF RequestInv, Progress
    <3>2. batch[r][at[r]].fit # "suffix"
          /\ \A i \in 1..(at[r] - 1) : Fold[batch[r][i].name] # Fold[batch[r][at[r]].name]
      BY DEF Save, Admitted, Current
    <3>3. ASSUME NEW i \in 1..at[r], NEW j \in 1..at[r], Fold[batch[r][i].name] = Fold[batch[r][j].name]
          PROVE  i = j
      <4>1. i \in 1..(at[r] - 1) \/ i = at[r]
        BY <1>2
      <4>2. j \in 1..(at[r] - 1) \/ j = at[r]
        BY <1>2
      <4> QED BY <3>1, <3>2, <3>3, <4>1, <4>2 DEF Distinct
    <3>4. \A i \in 1..at[r] : i \in 1..(at[r] - 1) \/ i = at[r]
      BY <1>2
    <3> QED BY <3>1, <3>2, <3>3, <3>4 DEF Distinct
  <2>4. Progress(r)'
    BY <1>1, <1>2, <2>1, <2>3 DEF RequestInv, Progress
  <2>5. ShownInv(r)'
    <3>1. ShownUpTo(r, 0)'
      BY <1>1, <1>2 DEF RequestInv, ShownInv, ShownUpTo
    <3> QED BY <1>2, <2>1, <3>1 DEF ShownInv
  <2>6. TempsInv(r)'
    <3>1. /\ \A i \in Nat : <<r, i>> \in temps => i \in 1..staged[r]
          /\ \A i \in 1..staged[r] : <<r, i>> \in temps \/ <<r, i>> \in shown
      BY <1>1, <1>2 DEF RequestInv, TempsInv, TempsWithin
    <3> QED BY <1>2, <2>1, <2>2, <3>1 DEF TempsInv, TempsWithin
  <2> QED BY <2>4, <2>5, <2>6 DEF RequestInv
<1>6. \A q \in Request \ {r} : RequestInv(q)'
  <2>1. \A q \in Request \ {r} : pc'[q] = pc[q] /\ at'[q] = at[q] /\ staged'[q] = staged[q]
    BY <1>1, <1>3 DEF TypeOK
  <2> QED BY <1>2, <2>1, Others DEF Save
<1>7. StoreInv'
  BY <1>1, <1>2, StoreKept DEF Save, RequestOnly
<1> QED BY <1>4, <1>5, <1>6, <1>7 DEF IInv

LEMMA StagedStep ==
  ASSUME IInv, NEW r \in Request, Staged(r)
  PROVE  IInv'
<1>1. TypeOK /\ RequestInv(r) /\ StoreInv
  BY DEF IInv
<1>2. /\ at[r] \in Nat /\ staged[r] \in Nat /\ Len(batch[r]) \in Nat
      /\ at[r] = Len(batch[r]) + 1 /\ pc[r] = "stage" /\ staged[r] = Len(batch[r])
      /\ Distinct(batch[r], Len(batch[r]))
      /\ pc' = [pc EXCEPT ![r] = "validate"] /\ at' = [at EXCEPT ![r] = 1]
      /\ UNCHANGED <<batch, shown, temps, staged>>
  <2>1. /\ at[r] > Len(batch[r]) /\ pc[r] = "stage"
        /\ pc' = [pc EXCEPT ![r] = "validate"] /\ at' = [at EXCEPT ![r] = 1]
        /\ UNCHANGED <<batch, shown, temps, staged>>
    BY DEF Staged, AllDone, Goto, Reset, RequestOnly
  <2>2. staged[r] = at[r] - 1 /\ Distinct(batch[r], at[r] - 1)
    BY <1>1, <2>1 DEF RequestInv, Progress
  <2>3. at[r] - 1 <= Len(batch[r])
    BY <1>1 DEF TypeOK
  <2>4. at[r] - 1 = Len(batch[r])
    BY <1>1, <2>1, <2>3, BatchType
  <2> QED BY <1>1, <2>1, <2>2, <2>4, BatchType
<1>3. TypeOK'
  <2>1. pc' \in [Request -> {"idle"} \cup Busy \cup Ended]
    BY <1>1, <1>2 DEF TypeOK, Busy
  <2>2. at' \in [Request -> Nat] /\ \A q \in Request : at'[q] - 1 <= Len(batch[q])
    BY <1>1, <1>2 DEF TypeOK
  <2> QED BY <1>1, <1>2, <2>1, <2>2 DEF TypeOK, Staged, RequestOnly
<1>4. RequestInv(r)'
  <2>1. pc'[r] = "validate" /\ at'[r] = 1
    BY <1>1, <1>2 DEF TypeOK
  <2>2. Progress(r)'
    BY <1>1, <1>2, <2>1 DEF RequestInv, Progress
  <2>3. ShownInv(r)'
    BY <1>1, <1>2, <2>1 DEF RequestInv, ShownInv, ShownUpTo, Accepted
  <2>4. TempsInv(r)'
    BY <1>1, <1>2, <2>1 DEF RequestInv, TempsInv, TempsWithin
  <2> QED BY <2>2, <2>3, <2>4 DEF RequestInv
<1>5. \A q \in Request \ {r} : RequestInv(q)'
  <2>1. \A q \in Request \ {r} : pc'[q] = pc[q] /\ at'[q] = at[q]
    BY <1>1, <1>2 DEF TypeOK
  <2> QED BY <1>2, <2>1, Others DEF Staged
<1>6. StoreInv'
  BY <1>1, <1>2, StoreKept DEF Staged, RequestOnly
<1> QED BY <1>3, <1>4, <1>5, <1>6 DEF IInv

LEMMA ValidateStep ==
  ASSUME IInv, NEW r \in Request, Validate(r)
  PROVE  IInv'
<1>1. TypeOK /\ RequestInv(r) /\ StoreInv
  BY DEF IInv
<1>2. /\ pc[r] = "validate" /\ at[r] = 1 /\ staged[r] = Len(batch[r])
      /\ Len(batch[r]) <= MaxFiles /\ Distinct(batch[r], Len(batch[r]))
      /\ \/ pc' = [pc EXCEPT ![r] = IF Validated(r) THEN "publish" ELSE "refuse"]
         \/ pc' = [pc EXCEPT ![r] = "break"]
      /\ UNCHANGED <<batch, shown, temps, at, staged>>
  BY <1>1 DEF Validate, Goto, RequestInv, Progress, RequestOnly
<1>3. TypeOK'
  BY <1>1, <1>2 DEF TypeOK, Busy, Cleaning, Validate, RequestOnly
<1>4. RequestInv(r)'
  <2>1. pc'[r] = "break" \/ pc'[r] = (IF Validated(r) THEN "publish" ELSE "refuse")
    BY <1>1, <1>2 DEF TypeOK
  <2>2. Validated(r) => Accepted(batch[r])
    BY <1>2 DEF Validated, Accepted, Distinct
  <2>3. Progress(r)'
    BY <1>1, <1>2, <2>1, <2>2 DEF RequestInv, Progress, Accepted
  <2>4. ShownInv(r)'
    <3>1. ShownUpTo(r, 0)'
      BY <1>1, <1>2 DEF RequestInv, ShownInv, ShownUpTo
    <3> QED BY <1>1, <1>2, <2>1, <3>1, BatchType DEF ShownInv
  <2>5. TempsInv(r)'
    BY <1>1, <1>2, <2>1, BatchType DEF RequestInv, TempsInv, TempsWithin
  <2> QED BY <2>3, <2>4, <2>5 DEF RequestInv
<1>5. \A q \in Request \ {r} : RequestInv(q)'
  <2>1. \A q \in Request \ {r} : pc'[q] = pc[q]
    BY <1>1, <1>2 DEF TypeOK
  <2> QED BY <1>2, <2>1, Others DEF Validate
<1>6. StoreInv'
  BY <1>1, <1>2, StoreKept DEF Validate, RequestOnly
<1> QED BY <1>3, <1>4, <1>5, <1>6 DEF IInv

LEMMA ReplaceStep ==
  ASSUME IInv, NEW r \in Request, Replace(r)
  PROVE  IInv'
<1> DEFINE f == <<r, at[r]>>
<1>1. TypeOK /\ RequestInv(r) /\ StoreInv
  BY DEF IInv
<1>2. /\ at[r] \in Nat /\ staged[r] \in Nat /\ Len(batch[r]) \in Nat
      /\ at[r] \in 1..Len(batch[r]) /\ pc[r] = "publish" /\ staged[r] = Len(batch[r])
      /\ Accepted(batch[r])
      /\ pc' = pc /\ at' = [at EXCEPT ![r] = @ + 1]
      /\ temps' = temps \ {f} /\ shown' = shown \cup {f}
      /\ UNCHANGED <<batch, staged, deleting, job>>
  <2>1. /\ at[r] <= Len(batch[r]) /\ pc[r] = "publish"
        /\ pc' = [pc EXCEPT ![r] = "publish"]
        /\ at' = [at EXCEPT ![r] = @ + 1]
        /\ temps' = temps \ {f} /\ shown' = shown \cup {f}
        /\ UNCHANGED <<batch, staged, deleting, job>>
    BY <1>1, BatchType DEF Replace, AllDone, Goto, Advance, RequestOnly
  <2>2. at[r] >= 1 /\ staged[r] = Len(batch[r]) /\ Accepted(batch[r])
    BY <1>1, <2>1 DEF RequestInv, Progress
  <2>3. pc' = pc
    BY <1>1, <2>1 DEF TypeOK
  <2> QED BY <1>1, <2>1, <2>2, <2>3, BatchType
<1>3. /\ batch[r][at[r]].name \in Name
      /\ store' = [store EXCEPT ![batch[r][at[r]].name] = f]
  BY <1>1, <1>2, BatchType DEF Replace, Current, Item
<1>4. TypeOK'
  BY <1>1, <1>2, <1>3 DEF TypeOK
<1>5. RequestInv(r)'
  <2>1. at'[r] = at[r] + 1
    BY <1>1, <1>2 DEF TypeOK
  <2>2. Progress(r)'
    BY <1>1, <1>2, <2>1 DEF RequestInv, Progress, Accepted
  <2>3. ShownInv(r)'
    <3>1. \A i \in Nat : <<r, i>> \in shown' <=> <<r, i>> \in shown \/ i = at[r]
      BY <1>2
    <3>2. \A i \in Nat : <<r, i>> \in shown <=> i \in 1..(at[r] - 1)
      BY <1>1, <1>2 DEF RequestInv, ShownInv, ShownUpTo
    <3>3. \A i \in Nat : <<r, i>> \in shown' <=> i \in 1..at[r]
      BY <1>2, <3>1, <3>2
    <3>4. ShownUpTo(r, at[r] - 1)' /\ at'[r] - 1 \in 0..Len(batch[r])
      <4>1. at'[r] - 1 = at[r]
        BY <1>2, <2>1
      <4> QED BY <1>2, <3>3, <4>1 DEF ShownUpTo
    <3> QED BY <1>2, <3>4 DEF ShownInv, Accepted
  <2>4. TempsInv(r)'
    BY <1>1, <1>2 DEF RequestInv, TempsInv, TempsWithin
  <2> QED BY <2>2, <2>3, <2>4 DEF RequestInv
<1>6. \A q \in Request \ {r} : RequestInv(q)'
  <2>1. \A q \in Request \ {r} : at'[q] = at[q]
    BY <1>1, <1>2 DEF TypeOK
  <2> QED BY <1>2, <2>1, Others DEF RequestOnly
<1>7. StoreInv'
  <2>1. ASSUME NEW n \in Name PROVE Published(store[n], n)'
    <3>1. CASE n = batch[r][at[r]].name
      BY <1>1, <1>2, <1>3, <3>1 DEF Published, TypeOK
    <3>2. CASE n # batch[r][at[r]].name
      <4>1. store'[n] = store[n]
        BY <1>1, <1>3, <3>2 DEF TypeOK
      <4> QED BY <1>1, <1>2, <4>1 DEF StoreInv, Published
    <3> QED BY <3>1, <3>2
  <2>2. Published(job.read, job.name)' /\ (job'.step # "none" => job'.name \in Name)
    BY <1>1, <1>2 DEF StoreInv, Published
  <2> QED BY <2>1, <2>2 DEF StoreInv
<1> QED BY <1>4, <1>5, <1>6, <1>7 DEF IInv

LEMMA ReplaceFailsStep ==
  ASSUME IInv, NEW r \in Request, ReplaceFails(r)
  PROVE  IInv'
<1>1. TypeOK /\ RequestInv(r) /\ at[r] \in Nat /\ staged[r] \in Nat /\ Len(batch[r]) \in Nat
  BY BatchType DEF IInv
<1>2. /\ pc[r] = "publish" /\ pc' = [pc EXCEPT ![r] = "break"] /\ at' = [at EXCEPT ![r] = 1]
      /\ UNCHANGED <<store, temps, batch, staged, deleting, job, shown>>
  BY <1>1 DEF ReplaceFails, Goto, Reset, RequestOnly
<1>3. ASSUME pc'[r] = "break", at'[r] = 1 PROVE RequestInv(r)'
  <2>1. Progress(r)'
    BY <1>1, <1>2, <1>3 DEF RequestInv, Progress, Accepted
  <2>2. ShownInv(r)'
    BY <1>1, <1>2, <1>3 DEF RequestInv, Progress, ShownInv, ShownUpTo, Accepted
  <2>3. TempsInv(r)'
    BY <1>1, <1>2, <1>3 DEF RequestInv, Progress, TempsInv, TempsWithin
  <2> QED BY <2>1, <2>2, <2>3 DEF RequestInv
<1>4. "break" \in Busy \cup Ended /\ 1 \in Nat /\ 1 - 1 <= Len(batch[r])
  BY <1>1 DEF Busy, Cleaning
<1> QED BY <1>2, <1>3, <1>4, Moves

LEMMA PublishDoneStep ==
  ASSUME IInv, NEW r \in Request, PublishDone(r)
  PROVE  IInv'
<1>1. TypeOK /\ RequestInv(r) /\ at[r] \in Nat /\ staged[r] \in Nat /\ Len(batch[r]) \in Nat
  BY BatchType DEF IInv
<1>2. /\ pc[r] = "publish" /\ pc' = [pc EXCEPT ![r] = "keep"] /\ at' = [at EXCEPT ![r] = 1]
      /\ at[r] > Len(batch[r])
      /\ UNCHANGED <<store, temps, batch, staged, deleting, job, shown>>
  BY DEF PublishDone, AllDone, Goto, Reset, RequestOnly
<1>3. at[r] - 1 = Len(batch[r])
  BY <1>1, <1>2 DEF TypeOK
<1>4. ASSUME pc'[r] = "keep", at'[r] = 1 PROVE RequestInv(r)'
  <2>1. Progress(r)'
    BY <1>1, <1>2, <1>4 DEF RequestInv, Progress
  <2>2. ShownInv(r)'
    <3>1. ShownUpTo(r, Len(batch[r])) /\ Accepted(batch[r]) /\ staged[r] = Len(batch[r])
      BY <1>1, <1>2, <1>3 DEF RequestInv, Progress, ShownInv
    <3>2. ShownUpTo(r, Len(batch[r]))'
      BY <1>2, <3>1 DEF ShownUpTo
    <3> QED BY <1>1, <1>2, <1>4, <3>1, <3>2 DEF ShownInv, Accepted
  <2>3. TempsInv(r)'
    BY <1>1, <1>2, <1>4 DEF RequestInv, TempsInv, TempsWithin
  <2> QED BY <2>1, <2>2, <2>3 DEF RequestInv
<1>5. "keep" \in Busy \cup Ended /\ 1 \in Nat /\ 1 - 1 <= Len(batch[r])
  BY <1>1 DEF Busy, Cleaning
<1> QED BY <1>2, <1>4, <1>5, Moves

LEMMA CleanUpStep ==
  ASSUME IInv, NEW r \in Request, CleanUp(r)
  PROVE  IInv'
<1>1. /\ TypeOK /\ RequestInv(r) /\ StoreInv
      /\ at[r] \in Nat /\ staged[r] \in Nat /\ Len(batch[r]) \in Nat
  BY BatchType DEF IInv
<1>2. /\ pc[r] \in Cleaning /\ at[r] <= staged[r]
      /\ at' = [at EXCEPT ![r] = @ + 1] /\ temps' = temps \ {<<r, at[r]>>}
      /\ UNCHANGED <<store, pc, batch, staged, deleting, job, shown>>
  BY <1>1 DEF CleanUp, Cleaned, Advance, RequestOnly
<1>3. staged[r] <= Len(batch[r])
  BY <1>1 DEF TypeOK
<1>4. TypeOK'
  <2>1. at' \in [Request -> Nat] /\ \A q \in Request : at'[q] - 1 <= Len(batch[q])
    <3>1. at \in [Request -> Nat] /\ \A q \in Request : at[q] - 1 <= Len(batch[q])
      BY <1>1 DEF TypeOK
    <3> QED BY <1>1, <1>2, <1>3, <3>1
  <2> QED BY <1>1, <1>2, <2>1 DEF TypeOK
<1>5. RequestInv(r)'
  <2>1. at'[r] = at[r] + 1
    BY <1>1, <1>2 DEF TypeOK
  <2>2. \A i \in Nat : <<r, i>> \in temps' <=> <<r, i>> \in temps /\ i # at[r]
    BY <1>2
  <2>3. Progress(r)'
    BY <1>1, <1>2, <2>1 DEF RequestInv, Progress, Cleaning
  <2>4. ShownInv(r)'
    BY <1>1, <1>2, <2>1 DEF RequestInv, ShownInv, ShownUpTo, Accepted, Cleaning
  <2>5. TempsInv(r)'
    <3>1. pc[r] \in {"keep", "refuse"} => TempsWithin(r, at[r], staged[r])'
      BY <1>1, <1>2, <2>1, <2>2 DEF RequestInv, TempsInv, TempsWithin
    <3>2. pc[r] = "break" => TempsWithin(r, at[r], staged[r] + 1)'
      BY <1>1, <1>2, <2>1, <2>2 DEF RequestInv, TempsInv, TempsWithin
    <3>3. pc[r] = "keep" => \A i \in 1..staged[r] : <<r, i>> \in shown
      BY <1>1, <1>3 DEF RequestInv, ShownInv, ShownUpTo
    <3> QED BY <1>2, <3>1, <3>2, <3>3 DEF TempsInv, Cleaning
  <2> QED BY <2>3, <2>4, <2>5 DEF RequestInv
<1>6. \A q \in Request \ {r} : RequestInv(q)'
  <2>1. \A q \in Request \ {r} : at'[q] = at[q]
    BY <1>1, <1>2 DEF TypeOK
  <2> QED BY <1>2, <2>1, Others DEF RequestOnly
<1>7. StoreInv'
  BY <1>1, <1>2, StoreKept
<1> QED BY <1>4, <1>5, <1>6, <1>7 DEF IInv

LEMMA CleanUpFailsStep ==
  ASSUME IInv, NEW r \in Request, CleanUpFails(r)
  PROVE  IInv'
<1>1. TypeOK /\ RequestInv(r) /\ at[r] \in Nat /\ staged[r] \in Nat /\ Len(batch[r]) \in Nat
  BY BatchType DEF IInv
<1>2. /\ pc[r] \in Cleaning /\ pc' = [pc EXCEPT ![r] = "error"]
      /\ UNCHANGED <<store, temps, batch, at, staged, deleting, job, shown>>
  BY DEF CleanUpFails, Goto, RequestOnly
<1>3. at' = [at EXCEPT ![r] = at[r]] /\ at[r] - 1 <= Len(batch[r])
  BY <1>1, <1>2 DEF TypeOK
<1>4. ASSUME pc'[r] = "error", at'[r] = at[r] PROVE RequestInv(r)'
  <2>1. Progress(r)'
    BY <1>1, <1>2, <1>4 DEF RequestInv, Progress, Cleaning
  <2>2. ShownInv(r)'
    BY <1>1, <1>2, <1>4 DEF RequestInv, ShownInv, ShownUpTo, Accepted, Cleaning
  <2>3. TempsInv(r)'
    BY <1>1, <1>2, <1>4 DEF RequestInv, TempsInv, TempsWithin, Cleaning
  <2> QED BY <2>1, <2>2, <2>3 DEF RequestInv
<1> QED BY <1>1, <1>2, <1>3, <1>4, Moves DEF Ended

LEMMA RespondStep ==
  ASSUME IInv, NEW r \in Request, Respond(r)
  PROVE  IInv'
<1>1. TypeOK /\ RequestInv(r) /\ at[r] \in Nat /\ staged[r] \in Nat /\ Len(batch[r]) \in Nat
  BY BatchType DEF IInv
<1>2. PICK here \in {"ok", "rejected", "error"} :
        /\ pc' = [pc EXCEPT ![r] = here] /\ at[r] > staged[r]
        /\ \/ pc[r] = "keep" /\ here = "ok"
           \/ pc[r] = "refuse" /\ here = "rejected"
           \/ pc[r] = "break" /\ here = "error"
        /\ UNCHANGED <<store, temps, batch, at, staged, deleting, job, shown>>
  BY DEF Respond, Cleaned, Goto, RequestOnly
<1>3. at' = [at EXCEPT ![r] = at[r]] /\ at[r] - 1 <= Len(batch[r])
  BY <1>1, <1>2 DEF TypeOK
<1>4. ASSUME pc'[r] = here, at'[r] = at[r] PROVE RequestInv(r)'
  <2>1. Progress(r)'
    BY <1>1, <1>2, <1>4 DEF RequestInv, Progress
  <2>2. ShownInv(r)'
    BY <1>1, <1>2, <1>4 DEF RequestInv, ShownInv, ShownUpTo, Accepted
  <2>3. TempsInv(r)'
    BY <1>1, <1>2, <1>4 DEF RequestInv, TempsInv, TempsWithin
  <2> QED BY <2>1, <2>2, <2>3 DEF RequestInv
<1> QED BY <1>1, <1>2, <1>3, <1>4, Moves DEF Ended

LEMMA CrashStep ==
  ASSUME IInv, Crash
  PROVE  IInv'
<1> USE DEF Crash
<1>1. TypeOK /\ StoreInv
  BY DEF IInv
<1>2. TypeOK'
  BY <1>1 DEF TypeOK, Busy, Cleaning, Ended
<1>3. ASSUME NEW r \in Request PROVE RequestInv(r)'
  <2>1. RequestInv(r)
    BY DEF IInv
  <2>2. pc'[r] = IF pc[r] \in Busy THEN "lost" ELSE pc[r]
    OBVIOUS
  <2>3. CASE pc[r] \in Busy
    <3>1. pc'[r] = "lost"
      BY <2>2, <2>3
    <3>2. Progress(r)'
      BY <2>1, <2>3, <3>1 DEF RequestInv, Progress, Busy, Cleaning
    <3>3. ShownInv(r)'
      BY <2>1, <3>1 DEF RequestInv, ShownInv, ShownUpTo, Accepted
    <3>4. TempsInv(r)'
      BY <3>1 DEF TempsInv
    <3> QED BY <3>2, <3>3, <3>4 DEF RequestInv
  <2>4. CASE pc[r] \notin Busy
    BY <1>1, <2>1, <2>2, <2>4, BatchType, Untouched
  <2> QED BY <2>3, <2>4
<1>4. StoreInv'
  BY <1>1 DEF StoreInv, Published, TypeOK
<1> QED BY <1>2, <1>3, <1>4 DEF IInv

(* Deletions and the send look at the store, and may empty a name.         *)
LEMMA StoreStep ==
  ASSUME IInv, NEW n \in Name,
         Delete(n) \/ Unlink(n) \/ Send(n) \/ FileIsThere \/ ReadFile
  PROVE  IInv'
<1>1. TypeOK /\ StoreInv
  BY DEF IInv
<1>2. UNCHANGED <<temps, batch, pc, at, staged, shown>>
  BY DEF Delete, Unlink, Send, FileIsThere, ReadFile, SendStep
<1>3. \A r \in Request : RequestInv(r)'
  BY <1>1, <1>2, BatchType, Untouched DEF IInv
<1>4. CASE Delete(n)
  <2>1. TypeOK'
    BY <1>1, <1>4 DEF TypeOK, Delete
  <2>2. StoreInv'
    BY <1>1, <1>4, StoreKept DEF Delete
  <2> QED BY <1>3, <2>1, <2>2 DEF IInv
<1>5. CASE Unlink(n)
  <2>1. TypeOK'
    BY <1>1, <1>5 DEF TypeOK, Unlink
  <2>2. StoreInv'
    BY <1>1, <1>5 DEF StoreInv, Published, TypeOK, Unlink
  <2> QED BY <1>3, <2>1, <2>2 DEF IInv
<1>6. CASE Send(n)
  <2>1. job' = [step |-> "queued", name |-> n, read |-> None]
        /\ UNCHANGED <<store, deleting>>
    BY <1>6 DEF Send
  <2>2. TypeOK'
    BY <1>1, <1>2, <2>1 DEF TypeOK
  <2>3. StoreInv'
    BY <1>1, <1>2, <2>1 DEF StoreInv, Published
  <2> QED BY <1>3, <2>2, <2>3 DEF IInv
<1>7. CASE FileIsThere \/ ReadFile
  <2>1. PICK next \in {"none", "sending"}, read \in {None, store[job.name]} :
             job' = [job EXCEPT !.step = next, !.read = read]
    BY <1>7 DEF FileIsThere, ReadFile, SendStep
  <2>2. job.step # "none" /\ UNCHANGED <<store, deleting>>
    BY <1>7 DEF FileIsThere, ReadFile, SendStep
  <2>3. job.name \in Name /\ store[job.name] \in Request \X Nat \cup {None}
    BY <1>1, <2>2 DEF StoreInv, TypeOK
  <2>4. job'.name = job.name /\ job'.read = read /\ job'.step = next
    BY <1>1, <2>1 DEF TypeOK
  <2>5. TypeOK'
    BY <1>1, <1>2, <2>1, <2>2, <2>3 DEF TypeOK
  <2>6. StoreInv'
    BY <1>1, <1>2, <2>2, <2>3, <2>4 DEF StoreInv, Published
  <2> QED BY <1>3, <2>5, <2>6 DEF IInv
<1> QED BY <1>4, <1>5, <1>6, <1>7

LEMMA StepInv == IInv /\ [Next]_vars => IInv'
<1> SUFFICES ASSUME IInv, [Next]_vars PROVE IInv'
  OBVIOUS
<1>1. ASSUME NEW r \in Request, RequestNext(r) PROVE IInv'
  BY <1>1, UploadStep, RefuseFileStep, SaveStep, StagedStep, ValidateStep, ReplaceStep,
     ReplaceFailsStep, PublishDoneStep, CleanUpStep, CleanUpFailsStep, RespondStep DEF RequestNext
<1>2. ASSUME NEW n \in Name, Delete(n) \/ Unlink(n) \/ Send(n) PROVE IInv'
  BY <1>2, StoreStep
<1>3. CASE FileIsThere \/ ReadFile
  <2>1. job.name \in Name
    BY <1>3 DEF IInv, StoreInv, FileIsThere, ReadFile, SendStep
  <2> QED BY <1>3, <2>1, StoreStep
<1>4. CASE Crash
  BY <1>4, CrashStep
<1>5. CASE UNCHANGED vars
  <2>1. TypeOK' /\ StoreInv'
    BY <1>5 DEF vars, IInv, TypeOK, StoreInv, Published
  <2>2. \A r \in Request : RequestInv(r)'
    BY <1>5, BatchType, Untouched DEF vars, IInv
  <2> QED BY <2>1, <2>2 DEF IInv
<1> QED BY <1>1, <1>2, <1>3, <1>4, <1>5 DEF Next

(* The inductive invariant holds in every reachable state.                 *)
THEOREM Invariance == Spec => []IInv
BY InitInv, StepInv, PTL DEF Spec

(* Every variable keeps its type, and the loops stay within their batches. *)
THEOREM TypeCorrect == Spec => []TypeOK
<1>1. IInv => TypeOK
  BY DEF IInv
<1> QED BY <1>1, Invariance, PTL

(* However many requests, deletions and sends overlap and wherever the     *)
(* process dies, only files of faultless batches can be seen or sent, each *)
(* under the name it was uploaded by.                                      *)
THEOREM VisibleIsAccepted == Spec => []OnlyAccepted
<1>1. IInv => OnlyAccepted
  <2> SUFFICES ASSUME IInv PROVE OnlyAccepted
    OBVIOUS
  <2>1. ASSUME NEW f \in Request \X Nat \cup {None}, NEW n, Published(f, n), f # None
        PROVE  Accepted(batch[f[1]]) /\ f[2] \in 1..Len(batch[f[1]]) /\ batch[f[1]][f[2]].name = n
    <3>1. f \in shown /\ f = <<f[1], f[2]>> /\ f[1] \in Request /\ f[2] \in Nat
      BY <2>1 DEF Published
    <3>2. ShownInv(f[1]) /\ Len(batch[f[1]]) \in Nat
      BY <3>1, BatchType DEF IInv, RequestInv
    <3> QED BY <2>1, <3>1, <3>2 DEF Published, ShownInv, ShownUpTo
  <2> QED BY <2>1 DEF IInv, StoreInv, TypeOK, OnlyAccepted
<1> QED BY <1>1, Invariance, PTL

(* A batch is shown whole or not at all, but for a replace that failed and *)
(* a crash, which leave its beginning.                                     *)
THEOREM WholeBatch == Spec => []AllOrNone
<1>1. IInv => AllOrNone
  <2> SUFFICES ASSUME IInv, NEW r \in Request
               PROVE  LET mine == {i \in 1..Len(batch[r]) : <<r, i>> \in shown} IN
                      /\ pc[r] \in {"keep", "ok"} => mine = 1..Len(batch[r])
                      /\ pc[r] \in {"refuse", "rejected"} => mine = {}
                      /\ \E k \in 0..Len(batch[r]) : mine = 1..k
                      /\ mine # {} => staged[r] = Len(batch[r])
    BY DEF AllOrNone
  <2>1. ShownInv(r) /\ Len(batch[r]) \in Nat
    BY BatchType DEF IInv, RequestInv
  <2>2. ASSUME NEW k \in 0..Len(batch[r]), ShownUpTo(r, k)
        PROVE  {i \in 1..Len(batch[r]) : <<r, i>> \in shown} = 1..k
    BY <2>1, <2>2 DEF ShownUpTo
  <2>3. PICK k \in 0..Len(batch[r]) : ShownUpTo(r, k)
    BY <2>1 DEF ShownInv
  <2>4. 1..0 = {} /\ 0 \in 0..Len(batch[r]) /\ Len(batch[r]) \in 0..Len(batch[r])
    BY <2>1
  <2> QED BY <2>1, <2>2, <2>3, <2>4 DEF ShownInv
<1> QED BY <1>1, Invariance, PTL

(* A request that answered leaves no temporary; one that failed only those *)
(* its finally clause had not come to and the one of a failed save; and no *)
(* staged file goes before its batch is published or refused.              *)
THEOREM NothingLeftBehind == Spec => []TempsCleared
<1>1. IInv => TempsCleared
  <2> SUFFICES ASSUME IInv, NEW r \in Request
               PROVE  LET mine == {i \in 1..Len(batch[r]) : <<r, i>> \in temps} IN
                      /\ pc[r] \in {"ok", "rejected"} => mine = {}
                      /\ pc[r] = "error" => mine \subseteq at[r]..(staged[r] + 1)
                      /\ pc[r] \in {"stage", "validate", "publish", "keep"} =>
                           \A i \in 1..staged[r] : i \in mine \/ <<r, i>> \in shown
    BY DEF TempsCleared
  <2>1. /\ TempsInv(r) /\ Len(batch[r]) \in Nat
        /\ staged[r] \in Nat /\ staged[r] <= Len(batch[r])
    BY BatchType DEF IInv, RequestInv, TypeOK
  <2> QED BY <2>1 DEF TempsInv, TempsWithin
<1> QED BY <1>1, Invariance, PTL
=============================================================================
