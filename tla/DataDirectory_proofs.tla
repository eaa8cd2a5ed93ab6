------------------------ MODULE DataDirectory_proofs ------------------------
(***************************************************************************)
(* Proofs about DataDirectory, for any nodes, any files, any number of     *)
(* starts, writes and failures, and any number of snapshots kept.          *)
(***************************************************************************)
EXTENDS DataDirectory, SequenceTheorems, TLAPS

USE DataAssumption

allVars == <<vars, dataVars>>

LEMMA EmptyIsDirectory == EmptyDirectory \in Directory
BY DEF EmptyDirectory, Directory, Content

(* A file copied into the last snapshot leaves their number and the starts *)
(* that took them as they are.                                             *)
LEMMA CopiedKeepsStarts ==
  ASSUME NEW s \in Seq(Snapshot), s # <<>>, NEW f \in Files, NEW c \in Content
  PROVE  /\ Copied(s, f, c) \in Seq(Snapshot)
         /\ Len(Copied(s, f, c)) = Len(s)
         /\ \A i \in 1 .. Len(s) : Copied(s, f, c)[i].start = s[i].start
<1> DEFINE k == Len(s)
           d == [s[k].files EXCEPT ![f] = c]
           e == [start |-> s[k].start, files |-> d]
<1>1. k \in 1 .. Len(s)
  BY EmptySeq, LenProperties
<1>2. s[k] \in Snapshot
  BY <1>1, ElementOfSeq
<1>3. d \in Directory
  BY <1>2 DEF Snapshot, Directory
<1>4. e \in Snapshot /\ e.start = s[k].start
  BY <1>2, <1>3 DEF Snapshot
<1>5. Copied(s, f, c) = [s EXCEPT ![k] = e]
  BY DEF Copied
<1> HIDE DEF d, e
<1> QED BY <1>1, <1>4, <1>5, ExceptSeq

(* What is left after the pruning are the last snapshots.                  *)
LEMMA PrunedKeepsLast ==
  ASSUME NEW s \in Seq(Snapshot), NEW last \in Int,
         \A i \in 1 .. Len(s) : s[i].start = last - Len(s) + i
  PROVE  /\ Pruned(s) \in Seq(Snapshot)
         /\ Len(Pruned(s)) <= Keep
         /\ \A i \in 1 .. Len(Pruned(s)) : Pruned(s)[i].start = last - Len(Pruned(s)) + i
<1>1. Len(s) \in Nat
  BY LenProperties
<1>2. CASE Len(s) <= Keep
  <2>1. Pruned(s) = s
    BY <1>1, <1>2 DEF Pruned
  <2> QED BY <2>1, <1>2
<1>3. CASE Len(s) > Keep
  <2> DEFINE m == Len(s) - Keep + 1
  <2>1. m \in Int /\ Len(s) \in Int /\ 1 <= m /\ m <= Len(s)
    BY <1>1, <1>3
  <2>2. \A i \in m .. Len(s) : s[i] \in Snapshot
    BY <2>1, ElementOfSeq
  <2>3. Pruned(s) = SubSeq(s, m, Len(s))
    BY <1>3 DEF Pruned
  <2>4. /\ Pruned(s) \in Seq(Snapshot)
        /\ Len(Pruned(s)) = Len(s) - m + 1
        /\ \A i \in 1 .. Len(s) - m + 1 : Pruned(s)[i] = s[m + i - 1]
    BY <2>1, <2>2, <2>3, SubSeqProperties
  <2>5. Len(Pruned(s)) = Keep
    BY <2>4, <1>1
  <2>6. ASSUME NEW i \in 1 .. Keep
        PROVE  Pruned(s)[i].start = last - Keep + i
    <3>1. m + i - 1 \in 1 .. Len(s) /\ m + i - 1 = Len(s) - Keep + i
      BY <1>1, <1>3
    <3>2. Pruned(s)[i] = s[m + i - 1]
      BY <2>4, <1>1
    <3>3. s[m + i - 1].start = last - Len(s) + (m + i - 1)
      BY <3>1
    <3> QED BY <3>1, <3>2, <3>3, <1>1
  <2> QED BY <2>4, <2>5, <2>6
<1> QED BY <1>1, <1>2, <1>3

LEMMA PrunedIsTyped ==
  ASSUME NEW s \in Seq(Snapshot)
  PROVE  Pruned(s) \in Seq(Snapshot) /\ (s # <<>> => Pruned(s) # <<>>)
<1>1. Len(s) \in Nat
  BY LenProperties
<1>2. CASE Len(s) <= Keep
  BY <1>1, <1>2 DEF Pruned
<1>3. CASE Len(s) > Keep
  <2> DEFINE m == Len(s) - Keep + 1
  <2>1. m \in Int /\ Len(s) \in Int /\ 1 <= m /\ m <= Len(s)
    BY <1>1, <1>3
  <2>2. \A i \in m .. Len(s) : s[i] \in Snapshot
    BY <2>1, ElementOfSeq
  <2>3. SubSeq(s, m, Len(s)) \in Seq(Snapshot) /\ Len(SubSeq(s, m, Len(s))) = Keep
    BY <2>1, <2>2, <1>1, SubSeqProperties
  <2> QED BY <2>3, <1>3, EmptySeq DEF Pruned
<1> QED BY <1>1, <1>2, <1>3

LEMMA InitEstablishes == DataInit => DataIInv
<1> SUFFICES ASSUME DataInit PROVE DataIInv
  OBVIOUS
<1>1. DataTypeOK
  <2>1. TypeOK
    BY DEF DataInit, Init, TypeOK, Live
  <2>2. snaps \in [Nodes -> Seq(Snapshot)]
    BY EmptySeq DEF DataInit
  <2>3. data \in [Nodes -> Directory]
    BY EmptyIsDirectory DEF DataInit
  <2>4. writes \in 0 .. MaxWrites /\ missed \in 0 .. MaxMissed
    BY DEF DataInit
  <2>5. /\ copying \in [Nodes -> {"no", "whole", "torn"}]
        /\ left \in [Nodes -> SUBSET Files]
    BY DEF DataInit
  <2> QED BY <2>1, <2>2, <2>3, <2>4, <2>5 DEF DataInit, DataTypeOK
<1>2. ASSUME NEW n \in Nodes
      PROVE  snaps[n] = <<>> /\ Len(snaps[n]) = 0 /\ copying[n] = "no" /\ left[n] = {}
  BY EmptySeq DEF DataInit
<1>3. Latest
  <2> SUFFICES ASSUME NEW n \in Nodes
               PROVE  /\ copying[n] # "torn"
                      /\ Len(snaps[n]) <= Keep + (IF copying[n] = "no" THEN 0 ELSE 1)
                      /\ \A i \in 1 .. Len(snaps[n]) :
                           snaps[n][i].start = inst[n] - Len(snaps[n]) + i
    BY DEF Latest
  <2>1. 1 .. Len(snaps[n]) = {}
    BY <1>2
  <2> QED BY <1>2, <2>1
<1> QED BY <1>1, <1>2, <1>3 DEF DataInit, DataIInv, DownMeanwhile, Copies, NoFault

-----------------------------------------------------------------------------
(* A start: every snapshot that it begins is the last of its node.         *)

LEMMA StartsPreserve ==
  ASSUME DataIInv, NEW S \in SUBSET Nodes, Starts(S), fault' = NoFault
  PROVE  DataIInv'
<1> PICK B \in SUBSET S : BeginSnapshots(S, B)
  BY DEF Starts
<1>1. Unlocked /\ Begin(S) /\ UNCHANGED <<data, writes>>
  BY DEF Starts
<1> USE DEF DataIInv
<1>2. inst' \in [Nodes -> Nat] /\ live' \in [Nodes -> Live]
  BY <1>1 DEF DataTypeOK, TypeOK, Begin, Live
<1>3. missed' \in 0 .. MaxMissed /\ missed <= missed'
  BY DEF DataTypeOK, BeginSnapshots
<1>4. ASSUME NEW n \in Nodes
      PROVE  /\ snaps'[n] \in Seq(Snapshot)
             /\ copying'[n] # "no" => snaps'[n] # <<>>
             /\ left'[n] # {} => copying'[n] # "no"
             /\ missed' = 0 =>
                  /\ copying'[n] # "torn"
                  /\ Len(snaps'[n]) <= Keep + (IF copying'[n] = "no" THEN 0 ELSE 1)
                  /\ \A i \in 1 .. Len(snaps'[n]) :
                       snaps'[n][i].start = inst'[n] - Len(snaps'[n]) + i
  <2>1. snaps[n] \in Seq(Snapshot) /\ inst[n] \in Nat /\ copying[n] = "no" /\ left[n] = {}
    BY <1>1 DEF DataTypeOK, TypeOK, Unlocked
  <2>2. Len(snaps[n]) \in Nat
    BY <2>1, LenProperties
  <2>3. CASE n \in S \ B
    <3> DEFINE e == [start |-> inst'[n], files |-> EmptyDirectory]
    <3>1. inst'[n] = inst[n] + 1
      BY <2>3, <1>1 DEF Begin
    <3>2. e \in Snapshot
      BY <3>1, <2>1, EmptyIsDirectory DEF Snapshot
    <3>3. snaps'[n] = Append(snaps[n], e)
      BY <2>3 DEF BeginSnapshots
    <3>4. /\ snaps'[n] \in Seq(Snapshot)
          /\ Len(snaps'[n]) = Len(snaps[n]) + 1
          /\ \A i \in 1 .. Len(snaps[n]) : snaps'[n][i] = snaps[n][i]
          /\ snaps'[n][Len(snaps[n]) + 1] = e
      BY <3>2, <3>3, <2>1, AppendProperties
    <3>5. copying'[n] = "whole"
      BY <2>3 DEF BeginSnapshots
    <3>6. ASSUME missed' = 0
          PROVE  /\ Len(snaps'[n]) <= Keep + 1
                 /\ \A i \in 1 .. Len(snaps'[n]) :
                      snaps'[n][i].start = inst'[n] - Len(snaps'[n]) + i
      <4>1. missed = 0
        BY <3>6, <1>3 DEF DataTypeOK
      <4>2. /\ Len(snaps[n]) <= Keep
            /\ \A i \in 1 .. Len(snaps[n]) : snaps[n][i].start = inst[n] - Len(snaps[n]) + i
        BY <4>1, <2>1 DEF Latest
      <4>3. ASSUME NEW i \in 1 .. Len(snaps'[n])
            PROVE  snaps'[n][i].start = inst'[n] - Len(snaps'[n]) + i
        <5>1. CASE i = Len(snaps[n]) + 1
          BY <5>1, <3>1, <3>4, <2>1, <2>2
        <5>2. CASE i \in 1 .. Len(snaps[n])
          <6>1. snaps'[n][i] = snaps[n][i] /\ snaps[n][i].start = inst[n] - Len(snaps[n]) + i
            BY <5>2, <4>2, <3>4
          <6> QED BY <6>1, <3>1, <3>4, <2>1, <2>2
        <5> QED BY <5>1, <5>2, <3>4, <2>2
      <4> QED BY <4>2, <4>3, <3>4, <2>2
    <3>7. snaps'[n] # <<>>
      BY <3>4, <2>2, EmptySeq
    <3> QED BY <3>4, <3>5, <3>6, <3>7
  <2>4. CASE n \notin S \ B
    <3>1. snaps'[n] = snaps[n] /\ copying'[n] = copying[n] /\ left'[n] = left[n]
      BY <2>4 DEF BeginSnapshots
    <3>2. missed' = 0 => missed = 0 /\ inst'[n] = inst[n]
      BY <2>4, <1>1, <1>3 DEF DataTypeOK, BeginSnapshots, Begin
    <3> QED BY <3>1, <3>2, <2>1 DEF Latest
  <2> QED BY <2>3, <2>4
<1>5. /\ snaps' = [n \in Nodes |-> snaps'[n]]
      /\ copying' \in [Nodes -> {"no", "whole", "torn"}]
      /\ left' \in [Nodes -> SUBSET Files]
  BY DEF BeginSnapshots, DataTypeOK
<1>6. DataTypeOK'
  BY <1>1, <1>2, <1>3, <1>4, <1>5 DEF DataTypeOK, TypeOK
<1> QED BY <1>4, <1>6 DEF DownMeanwhile, Latest, Copies

-----------------------------------------------------------------------------
(* The steps of a copy.  While it goes on no fault is under way.           *)

LEMMA NoFaultDuringACopy ==
  ASSUME DataIInv, NEW n \in Nodes, copying[n] # "no"
  PROVE  fault = NoFault /\ snaps[n] # <<>>
BY DEF DataIInv, DownMeanwhile, Unlocked, Copies

LEMMA CopyFilePreserves ==
  ASSUME DataIInv, NEW n \in Nodes, NEW f \in Files, CopyFile(n, f)
  PROVE  DataIInv'
<1> DEFINE c == Copied(snaps[n], f, data[n][f])
<1> USE DEF DataIInv, DataTypeOK
<1>1. copying[n] # "no" /\ f \in left[n] /\ UNCHANGED <<copying, missed, inst, live, data, writes, fault>>
  BY DEF CopyFile, vars
<1>2. fault = NoFault /\ snaps[n] # <<>> /\ snaps[n] \in Seq(Snapshot) /\ data[n][f] \in Content
  BY <1>1, NoFaultDuringACopy DEF Directory
<1>3. /\ c \in Seq(Snapshot) /\ Len(c) = Len(snaps[n])
      /\ \A i \in 1 .. Len(snaps[n]) : c[i].start = snaps[n][i].start
  BY <1>2, CopiedKeepsStarts
<1>4. /\ snaps' \in [Nodes -> Seq(Snapshot)]
      /\ snaps'[n] = c /\ \A m \in Nodes : m # n => snaps'[m] = snaps[m]
  <2> HIDE DEF c
  <2>1. snaps' = [snaps EXCEPT ![n] = c]
    BY DEF CopyFile, c
  <2> QED BY <2>1, <1>3
<1> HIDE DEF c
<1>5. Latest'
  <2> SUFFICES ASSUME missed = 0, NEW m \in Nodes
               PROVE  /\ copying[m] # "torn"
                      /\ Len(snaps'[m]) <= Keep + (IF copying[m] = "no" THEN 0 ELSE 1)
                      /\ \A i \in 1 .. Len(snaps'[m]) :
                           snaps'[m][i].start = inst[m] - Len(snaps'[m]) + i
    BY <1>1 DEF Latest
  <2>1. CASE m = n
    BY <2>1, <1>3, <1>4 DEF Latest
  <2>2. CASE m # n
    BY <2>2, <1>4 DEF Latest
  <2> QED BY <2>1, <2>2
<1>6. Copies'
  <2>1. c # <<>>
    BY <1>2, <1>3, EmptySeq
  <2> QED BY <1>1, <1>4, <2>1 DEF Copies
<1>7. left' \in [Nodes -> SUBSET Files] /\ \A m \in Nodes : left'[m] # {} => copying'[m] # "no"
  BY <1>1 DEF CopyFile
<1>8. DownMeanwhile'
  BY <1>1, <1>2 DEF DownMeanwhile
<1> QED BY <1>1, <1>4, <1>5, <1>6, <1>7, <1>8 DEF TypeOK

(* From the first failed copy on Latest promises nothing.                  *)
LEMMA MissFilePreserves ==
  ASSUME DataIInv, NEW n \in Nodes, NEW f \in Files, MissFile(n, f)
  PROVE  DataIInv'
<1> USE DEF DataIInv, DataTypeOK
<1>1. /\ copying[n] # "no" /\ missed' = missed + 1 /\ missed' \in 0 .. MaxMissed
      /\ UNCHANGED <<snaps, inst, live, data, writes, fault>>
  BY DEF MissFile, vars
<1>2. fault' = NoFault /\ snaps[n] # <<>>
  BY <1>1, NoFaultDuringACopy
<1>3. missed' # 0
  BY <1>1
<1>4. /\ copying' \in [Nodes -> {"no", "whole", "torn"}]
      /\ left' \in [Nodes -> SUBSET Files]
      /\ \A m \in Nodes : left'[m] # {} => copying'[m] # "no"
  BY DEF MissFile
<1>5. Copies'
  BY <1>1, <1>2 DEF Copies, MissFile
<1> QED BY <1>1, <1>2, <1>3, <1>4, <1>5 DEF TypeOK, Latest, DownMeanwhile

LEMMA EndSnapshotPreserves ==
  ASSUME DataIInv, NEW n \in Nodes, EndSnapshot(n)
  PROVE  DataIInv'
<1> DEFINE kept == IF copying[n] = "whole" THEN Pruned(snaps[n]) ELSE snaps[n]
<1> USE DEF DataIInv, DataTypeOK
<1>1. /\ copying[n] # "no" /\ left[n] = {}
      /\ copying' = [copying EXCEPT ![n] = "no"]
      /\ UNCHANGED <<missed, inst, live, data, writes, left, fault>>
  BY DEF EndSnapshot, vars
<1>2. fault = NoFault /\ snaps[n] \in Seq(Snapshot)
  BY <1>1, NoFaultDuringACopy
<1>3. kept \in Seq(Snapshot)
  BY <1>2, PrunedIsTyped
<1>4. /\ snaps' \in [Nodes -> Seq(Snapshot)]
      /\ snaps'[n] = kept /\ \A m \in Nodes : m # n => snaps'[m] = snaps[m]
  <2> HIDE DEF kept
  <2>1. snaps' = [snaps EXCEPT ![n] = kept]
    BY DEF EndSnapshot, kept
  <2> QED BY <2>1, <1>3
<1>5. /\ copying' \in [Nodes -> {"no", "whole", "torn"}]
      /\ copying'[n] = "no" /\ \A m \in Nodes : m # n => copying'[m] = copying[m]
  BY <1>1
<1>6. Latest'
  <2> SUFFICES ASSUME missed = 0, NEW m \in Nodes
               PROVE  /\ copying'[m] # "torn"
                      /\ Len(snaps'[m]) <= Keep + (IF copying'[m] = "no" THEN 0 ELSE 1)
                      /\ \A i \in 1 .. Len(snaps'[m]) :
                           snaps'[m][i].start = inst[m] - Len(snaps'[m]) + i
    BY <1>1 DEF Latest
  <2>1. CASE m = n
    <3>1. copying[n] = "whole"
      BY <1>1 DEF Latest
    <3>2. inst[n] \in Int /\ \A i \in 1 .. Len(snaps[n]) : snaps[n][i].start = inst[n] - Len(snaps[n]) + i
      BY DEF Latest, TypeOK
    <3>3. /\ Len(kept) <= Keep
          /\ \A i \in 1 .. Len(kept) : kept[i].start = inst[n] - Len(kept) + i
      <4> DEFINE s == snaps[n]
                 last == inst[n]
      <4>1. s \in Seq(Snapshot) /\ last \in Int /\ kept = Pruned(s)
        BY <1>2, <3>1, <3>2
      <4>2. \A i \in 1 .. Len(s) : s[i].start = last - Len(s) + i
        BY <3>2
      <4> HIDE DEF s, last, kept
      <4>3. /\ Len(Pruned(s)) <= Keep
            /\ \A i \in 1 .. Len(Pruned(s)) : Pruned(s)[i].start = last - Len(Pruned(s)) + i
        BY <4>1, <4>2, PrunedKeepsLast
      <4> QED BY <4>1, <4>3 DEF last
    <3>4. snaps'[m] = kept /\ inst[m] = inst[n] /\ copying'[m] = "no"
      BY <2>1, <1>4, <1>5
    <3> HIDE DEF kept
    <3>5. Len(kept) \in Nat
      BY <1>3, LenProperties
    <3>6. Len(snaps'[m]) <= Keep + (IF copying'[m] = "no" THEN 0 ELSE 1)
      BY <3>3, <3>4, <3>5
    <3>7. \A i \in 1 .. Len(snaps'[m]) : snaps'[m][i].start = inst[m] - Len(snaps'[m]) + i
      BY <3>3, <3>4
    <3>8. copying'[m] # "torn"
      BY <3>4
    <3> QED BY <3>6, <3>7, <3>8
  <2>2. CASE m # n
    BY <2>2, <1>4, <1>5 DEF Latest
  <2> QED BY <2>1, <2>2
<1>7. ASSUME NEW m \in Nodes
      PROVE  /\ copying'[m] # "no" => snaps'[m] # <<>>
             /\ left'[m] # {} => copying'[m] # "no"
  <2>1. CASE m = n
    BY <2>1, <1>1, <1>5
  <2>2. CASE m # n
    BY <2>2, <1>1, <1>4, <1>5 DEF Copies
  <2> QED BY <2>1, <2>2
<1>8. DownMeanwhile'
  BY <1>1, <1>2 DEF DownMeanwhile
<1> HIDE DEF kept
<1> QED BY <1>1, <1>4, <1>5, <1>6, <1>7, <1>8 DEF TypeOK, Copies

-----------------------------------------------------------------------------
(* The steps that leave the snapshots alone.                               *)

FaultState ==
  {NoFault} \cup [kind : Persistence \cup {"restart_node"}, node : Nodes, step : {"asleep", "altered"}]

LEMMA SnapshotsUntouched ==
  ASSUME DataIInv, UNCHANGED <<inst, snaps, copying, left, missed>>,
         live' \in [Nodes -> Live], data' \in [Nodes -> Directory],
         writes' \in 0 .. MaxWrites, fault' \in FaultState, DownMeanwhile'
  PROVE  DataIInv'
<1> USE DEF DataIInv
<1>1. DataTypeOK'
  BY DEF DataTypeOK, TypeOK, FaultState
<1>2. Latest' /\ Copies'
  BY DEF Latest, Copies
<1> QED BY <1>1, <1>2

LEMMA FaultFields ==
  ASSUME DataIInv, fault # NoFault
  PROVE  /\ fault.node \in Nodes /\ fault.kind \in Persistence \cup {"restart_node"}
         /\ fault.step \in {"asleep", "altered"}
         /\ fault = [kind |-> fault.kind, node |-> fault.node, step |-> fault.step]
BY DEF DataIInv, DataTypeOK

LEMMA WritePreserves ==
  ASSUME DataIInv, NEW n \in Nodes, NEW f \in Files, Write(n, f)
  PROVE  DataIInv'
<1>1. /\ live[n] = "running" /\ writes' = writes + 1 /\ writes' \in 1 .. MaxWrites
      /\ UNCHANGED <<inst, live, snaps, copying, left, missed, fault>>
  BY DEF Write, vars, DataIInv, DataTypeOK
<1>2. PICK c \in {Absent, writes'} : data' = [data EXCEPT ![n][f] = c]
  BY DEF Write
<1>3. c \in Content
  BY <1>1 DEF Content
<1>4. /\ data' \in [Nodes -> Directory]
      /\ \A m \in Nodes : m # n => data'[m] = data[m]
  BY <1>2, <1>3 DEF DataIInv, DataTypeOK, Directory
<1>5. DownMeanwhile'
  <2> SUFFICES ASSUME fault # NoFault
               PROVE  fault.node \in Nodes /\ fault.node # n
    BY <1>1, <1>4 DEF DataIInv, DownMeanwhile, Unlocked
  <2> QED BY <1>1, FaultFields DEF DataIInv, DownMeanwhile
<1> QED BY <1>1, <1>4, <1>5, SnapshotsUntouched DEF DataIInv, DataTypeOK, TypeOK, FaultState

LEMMA OthersPreserve ==
  ASSUME DataIInv, Others
  PROVE  DataIInv'
<1>1. UNCHANGED <<data, writes, snaps, copying, left, missed, fault>> /\ UNCHANGED inst
  BY DEF Others, dataVars, Suspend, Continue, End
<1>2. /\ live' \in [Nodes -> Live]
      /\ \A n \in Nodes : live[n] = "none" => live'[n] = "none"
  <2>1. live \in [Nodes -> Live]
    BY DEF DataIInv, DataTypeOK, TypeOK
  <2>2. CASE \E n \in Nodes : Suspend(n) \/ Continue(n)
    BY <2>1, <2>2 DEF Suspend, Continue, Live
  <2>3. CASE \E S \in SUBSET Nodes : End(S)
    BY <2>1, <2>3 DEF End, Live
  <2> QED BY <2>2, <2>3 DEF Others
<1>3. DownMeanwhile'
  BY <1>1, <1>2, FaultFields DEF DataIInv, DownMeanwhile, Unlocked
<1> QED BY <1>1, <1>2, <1>3, SnapshotsUntouched DEF DataIInv, DataTypeOK, FaultState

LEMMA BeginFaultPreserves ==
  ASSUME DataIInv, NEW kind \in Persistence \cup {"restart_node"}, NEW n \in Nodes,
         BeginFault(kind, n)
  PROVE  DataIInv'
<1>1. /\ UNCHANGED <<data, writes, snaps, copying, left, missed, inst>>
      /\ Unlocked /\ fault' = [kind |-> kind, node |-> n, step |-> "asleep"]
  BY DEF BeginFault, End
<1>2. live' \in [Nodes -> Live] /\ live'[n] = "none"
  BY DEF BeginFault, End, DataIInv, DataTypeOK, TypeOK, Live
<1>3. fault' \in FaultState
  BY <1>1 DEF FaultState
<1>4. DownMeanwhile'
  BY <1>1, <1>2 DEF DownMeanwhile, Unlocked
<1> QED BY <1>1, <1>2, <1>3, <1>4, SnapshotsUntouched DEF DataIInv, DataTypeOK

(* Altering the directory of a node that is down; what goes on as a        *)
(* restored snapshot is one.                                               *)
LEMMA AltersPreserves ==
  ASSUME DataIInv, NEW kind, NEW d \in Directory, NEW done \in BOOLEAN,
         Alters(kind, d, done),
         kind = "stale_snapshot_restart" /\ done =>
           \E i \in 1 .. Len(snaps[fault.node]) : d = snaps[fault.node][i].files
  PROVE  DataIInv'
<1>1. /\ fault # NoFault /\ fault.kind = kind /\ data' = [data EXCEPT ![fault.node] = d]
      /\ UNCHANGED <<inst, live, writes, snaps, copying, left, missed>>
  BY DEF Alters, vars
<1>2. fault.node \in Nodes
  BY <1>1, FaultFields
<1>3. data' \in [Nodes -> Directory] /\ data'[fault.node] = d
  BY <1>1, <1>2 DEF DataIInv, DataTypeOK
<1>4. CASE ~done
  <2>1. fault' = NoFault
    BY <1>4 DEF Alters
  <2> QED BY <1>1, <1>3, <2>1, SnapshotsUntouched
          DEF DataIInv, DataTypeOK, TypeOK, FaultState, DownMeanwhile
<1>5. CASE done
  <2>1. fault' = [kind |-> fault.kind, node |-> fault.node, step |-> "altered"]
    BY <1>1, <1>5, FaultFields DEF Alters
  <2>2. fault' \in FaultState
    BY <2>1, <1>1, FaultFields DEF FaultState
  <2>3. DownMeanwhile'
    <3>1. live[fault.node] = "none" /\ Unlocked
      BY <1>1 DEF DataIInv, DownMeanwhile
    <3> QED BY <1>1, <1>3, <1>5, <2>1, <3>1 DEF DownMeanwhile, Unlocked
  <2> QED BY <1>1, <1>3, <2>2, <2>3, SnapshotsUntouched
          DEF DataIInv, DataTypeOK, TypeOK
<1> QED BY <1>4, <1>5

LEMMA DiskWriteLossPreserves ==
  ASSUME DataIInv, fault # NoFault, DiskWriteLoss
  PROVE  DataIInv'
<1> DEFINE d == data[fault.node]
<1>1. PICK recent \in SUBSET Files, cut \in SUBSET Files :
        Alters("disk_write_loss", [f \in Files |-> IF f \in cut THEN Empty ELSE d[f]],
               cut = recent /\ cut # {})
  BY DEF DiskWriteLoss
<1>2. d \in Directory
  BY FaultFields DEF DataIInv, DataTypeOK
<1>3. [f \in Files |-> IF f \in cut THEN Empty ELSE d[f]] \in Directory
  BY <1>2 DEF Directory, Content
<1> QED BY <1>1, <1>3, AltersPreserves

LEMMA PartialPersistencePreserves ==
  ASSUME DataIInv, fault # NoFault, PartialPersistence
  PROVE  DataIInv'
<1> DEFINE d == data[fault.node]
<1>1. d \in Directory
  BY FaultFields DEF DataIInv, DataTypeOK
<1>2. CASE Alters("partial_persistence", d, FALSE)
  BY <1>1, <1>2, AltersPreserves
<1>3. CASE \E f \in Files, c \in {Part, Empty} :
             Alters("partial_persistence", [d EXCEPT ![f] = c], TRUE)
  <2> PICK f \in Files, c \in {Part, Empty} :
             Alters("partial_persistence", [d EXCEPT ![f] = c], TRUE)
    BY <1>3
  <2>1. [d EXCEPT ![f] = c] \in Directory
    BY <1>1 DEF Directory, Content
  <2> QED BY <2>1, AltersPreserves
<1> QED BY <1>2, <1>3 DEF PartialPersistence

(* An index of the plan always names a snapshot once it is clamped.        *)
LEMMA ClampedIsAnIndex ==
  ASSUME NEW index \in Int, NEW length \in Nat \ {0}
  PROVE  Clamped(index, length) + 1 \in 1 .. length
BY DEF Clamped

LEMMA StaleSnapshotRestartPreserves ==
  ASSUME DataIInv, fault # NoFault, StaleSnapshotRestart
  PROVE  DataIInv'
<1> DEFINE n == fault.node
           d == data[n]
           s(index) == snaps[n][Clamped(index, Len(snaps[n])) + 1].files
           part(kept, from) == [f \in Files |-> IF f \in kept THEN from[f] ELSE Absent]
<1>1. n \in Nodes /\ d \in Directory /\ snaps[n] \in Seq(Snapshot)
  BY FaultFields DEF DataIInv, DataTypeOK
<1>2. CASE Alters("stale_snapshot_restart", d, FALSE)
  BY <1>1, <1>2, AltersPreserves
<1>3. ASSUME snaps[n] # <<>>, NEW index \in -1 .. Len(snaps[n])
      PROVE  /\ s(index) \in Directory
             /\ \E i \in 1 .. Len(snaps[n]) : s(index) = snaps[n][i].files
  <2>1. Len(snaps[n]) \in Nat \ {0}
    BY <1>1, <1>3, LenProperties, EmptySeq
  <2>2. index \in Int
    BY <2>1
  <2>3. Clamped(index, Len(snaps[n])) + 1 \in 1 .. Len(snaps[n])
    BY <2>1, <2>2, ClampedIsAnIndex
  <2>4. snaps[n][Clamped(index, Len(snaps[n])) + 1] \in Snapshot
    BY <1>1, <2>3, ElementOfSeq
  <2> QED BY <2>3, <2>4 DEF Snapshot
<1>4. ASSUME snaps[n] # <<>>, NEW index \in -1 .. Len(snaps[n]),
             Alters("stale_snapshot_restart", Restored(d, s(index)), TRUE)
      PROVE  DataIInv'
  BY <1>3, <1>4, AltersPreserves DEF Restored
<1>5. ASSUME snaps[n] # <<>>, NEW index \in -1 .. Len(snaps[n]),
             NEW kept \in SUBSET Files, NEW from \in {d, s(index)},
             Alters("stale_snapshot_restart", part(kept, from), FALSE)
      PROVE  DataIInv'
  <2>1. from \in Directory
    BY <1>1, <1>3, <1>5
  <2>2. part(kept, from) \in Directory
    BY <2>1 DEF Directory, Content
  <2> QED BY <1>5, <2>2, AltersPreserves
<1> QED BY <1>2, <1>4, <1>5 DEF StaleSnapshotRestart

-----------------------------------------------------------------------------

LEMMA InjectPreserves ==
  ASSUME DataIInv, Inject
  PROVE  DataIInv'
<1>1. CASE \E kind \in Persistence \cup {"restart_node"}, n \in Nodes : BeginFault(kind, n)
  BY <1>1, BeginFaultPreserves
<1>2. CASE fault # NoFault /\ (DiskWriteLoss \/ PartialPersistence \/ StaleSnapshotRestart)
  BY <1>2, DiskWriteLossPreserves, PartialPersistencePreserves, StaleSnapshotRestartPreserves
<1>3. CASE FaultStarts
  <2>1. fault.node \in Nodes
    BY <1>3, FaultFields DEF FaultStarts, ToBeStarted
  <2> QED BY <1>3, <2>1, StartsPreserve DEF FaultStarts
<1>4. CASE FaultStartFails
  BY <1>4, SnapshotsUntouched
  DEF FaultStartFails, vars, DataIInv, DataTypeOK, TypeOK, FaultState, DownMeanwhile
<1> QED BY <1>1, <1>2, <1>3, <1>4 DEF Inject

LEMMA StutterPreserves ==
  ASSUME DataIInv, UNCHANGED allVars
  PROVE  DataIInv'
BY DEF allVars, vars, dataVars, DataIInv, DataTypeOK, TypeOK, DownMeanwhile, Unlocked, Latest, Copies

LEMMA NextPreserves ==
  ASSUME DataIInv, [DataNext]_allVars
  PROVE  DataIInv'
<1>1. CASE \E S \in SUBSET Nodes : StartAll(S)
  BY <1>1, StartsPreserve DEF StartAll, Idle
<1>2. CASE \E n \in Nodes : EndSnapshot(n)
  BY <1>2, EndSnapshotPreserves
<1>3. CASE \E n \in Nodes, f \in Files : CopyFile(n, f) \/ MissFile(n, f) \/ Write(n, f)
  BY <1>3, CopyFilePreserves, MissFilePreserves, WritePreserves
<1>4. CASE Others
  BY <1>4, OthersPreserve
<1>5. CASE Inject
  BY <1>5, InjectPreserves
<1>6. CASE UNCHANGED allVars
  BY <1>6, StutterPreserves
<1> QED BY <1>1, <1>2, <1>3, <1>4, <1>5, <1>6 DEF DataNext

(* The snapshots and the faults always agree with DataIInv: while a fault  *)
(* is under way its node is down and nothing is copied, and the snapshots  *)
(* are those of the last starts.                                           *)
THEOREM Invariance == DataSpec => []DataIInv
<1>1. DataInit => DataIInv
  BY InitEstablishes
<1>2. DataIInv /\ [DataNext]_allVars => DataIInv'
  BY NextPreserves
<1> QED BY <1>1, <1>2, PTL DEF DataSpec, allVars

(* Every variable of the data directories always has its type.             *)
THEOREM DataTypeCorrect == DataSpec => []DataTypeOK
<1>1. DataIInv => DataTypeOK
  BY DEF DataIInv
<1> QED BY <1>1, Invariance, PTL

-----------------------------------------------------------------------------
(* Only a fault that goes on after its kill alters a directory by itself,  *)
(* and by DownMeanwhile its node is down.                                  *)

LEMMA OnlyFaultsAlter ==
  ASSUME DataIInv, DataNext, NEW n \in Nodes, data'[n] # data[n], writes' = writes
  PROVE  fault # NoFault /\ n = fault.node
<1>1. CASE fault # NoFault /\ (DiskWriteLoss \/ PartialPersistence \/ StaleSnapshotRestart)
  <2>1. PICK directory : data' = [data EXCEPT ![fault.node] = directory]
    BY <1>1 DEF DiskWriteLoss, PartialPersistence, StaleSnapshotRestart, Alters
  <2> QED BY <1>1, <2>1 DEF DataIInv, DataTypeOK
<1>2. CASE \E m \in Nodes, f \in Files : CopyFile(m, f) \/ MissFile(m, f) \/ Write(m, f)
  <2>1. writes \in Int
    BY DEF DataIInv, DataTypeOK
  <2> QED BY <1>2, <2>1 DEF CopyFile, MissFile, Write
<1>3. CASE Others \/ (\E S \in SUBSET Nodes : StartAll(S)) \/ (\E m \in Nodes : EndSnapshot(m))
  BY <1>3 DEF Others, dataVars, StartAll, Starts, EndSnapshot
<1>4. CASE FaultStarts \/ FaultStartFails
           \/ \E kind \in Persistence \cup {"restart_node"}, m \in Nodes : BeginFault(kind, m)
  BY <1>4 DEF FaultStarts, Starts, FaultStartFails, BeginFault
<1> QED BY <1>1, <1>2, <1>3, <1>4 DEF DataNext, Inject

(* The tool never alters the data directory of a node of which an instance *)
(* is live.                                                                *)
THEOREM NeverAltersUnderALiveNode == DataSpec => NeverUnderALiveNode
<1>1. ASSUME DataIInv, [DataNext]_allVars
      PROVE  [\A n \in Nodes :
                data'[n] # data[n] /\ writes' = writes => live[n] = "none"]_allVars
  <2>1. CASE DataNext
    BY <1>1, <2>1, OnlyFaultsAlter DEF DataIInv, DownMeanwhile
  <2>2. CASE UNCHANGED allVars
    BY <2>2
  <2> QED BY <1>1, <2>1, <2>2
<1> QED BY <1>1, Invariance, PTL DEF DataSpec, NeverUnderALiveNode, allVars

LEMMA OnlyFaultsStartMeanwhile ==
  ASSUME DataIInv, DataNext, fault # NoFault, inst'[fault.node] > inst[fault.node]
  PROVE  FaultStarts
<1>1. inst[fault.node] \in Int
  BY FaultFields DEF DataIInv, DataTypeOK, TypeOK
<1>2. inst' # inst
  BY <1>1
<1>3. CASE Inject
  <2>1. ~(DiskWriteLoss \/ PartialPersistence \/ StaleSnapshotRestart)
    BY <1>2 DEF DiskWriteLoss, PartialPersistence, StaleSnapshotRestart, Alters, vars
  <2>2. ~FaultStartFails
    BY <1>2 DEF FaultStartFails, vars
  <2> QED BY <1>3, <2>1, <2>2 DEF Inject, BeginFault, Idle
<1>4. ~Others
  BY <1>2 DEF Others, Suspend, Continue, End
<1>5. ~\E S \in SUBSET Nodes : StartAll(S)
  BY DEF StartAll, Idle
<1>6. /\ ~\E n \in Nodes : EndSnapshot(n)
      /\ ~\E n \in Nodes, f \in Files : CopyFile(n, f) \/ MissFile(n, f) \/ Write(n, f)
  BY <1>2 DEF EndSnapshot, CopyFile, MissFile, Write, vars
<1> QED BY <1>3, <1>4, <1>5, <1>6 DEF DataNext

(* A node that stale_snapshot_restart starts has exactly the files of one  *)
(* snapshot, of one of the last starts while no copy has failed.           *)
THEOREM StaleRestartsAreExact == DataSpec => StaleRestartIsExact
<1> DEFINE Exact ==
      fault # NoFault /\ fault.kind = "stale_snapshot_restart"
      /\ inst'[fault.node] > inst[fault.node]
        => \E i \in 1 .. Len(snaps[fault.node]) :
             LET s == snaps[fault.node][i]
             IN /\ data[fault.node] = s.files
                /\ missed = 0 => s.start + Keep > inst[fault.node]
<1>1. ASSUME DataIInv, [DataNext]_allVars
      PROVE  [Exact]_allVars
  <2> DEFINE n == fault.node
  <2> SUFFICES ASSUME DataNext, fault # NoFault, fault.kind = "stale_snapshot_restart",
                      inst'[n] > inst[n]
               PROVE  \E i \in 1 .. Len(snaps[n]) :
                        /\ data[n] = snaps[n][i].files
                        /\ missed = 0 => snaps[n][i].start + Keep > inst[n]
    BY <1>1
  <2>1. fault.step = "altered"
    BY <1>1, OnlyFaultsStartMeanwhile DEF FaultStarts, ToBeStarted
  <2>2. PICK i \in 1 .. Len(snaps[n]) : data[n] = snaps[n][i].files
    BY <1>1, <2>1 DEF DataIInv, DownMeanwhile
  <2>3. ASSUME missed = 0
        PROVE  snaps[n][i].start + Keep > inst[n]
    <3>1. n \in Nodes /\ inst[n] \in Nat /\ snaps[n] \in Seq(Snapshot) /\ copying[n] = "no"
      BY <1>1, FaultFields DEF DataIInv, DataTypeOK, TypeOK, DownMeanwhile, Unlocked
    <3>2. Len(snaps[n]) \in Nat
      BY <3>1, LenProperties
    <3>3. Len(snaps[n]) <= Keep /\ snaps[n][i].start = inst[n] - Len(snaps[n]) + i
      BY <1>1, <2>3, <3>1 DEF DataIInv, Latest
    <3> QED BY <3>1, <3>2, <3>3
  <2> QED BY <2>2, <2>3
<1> QED BY <1>1, Invariance, PTL DEF DataSpec, StaleRestartIsExact, allVars

=============================================================================
