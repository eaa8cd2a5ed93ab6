--------------------------- MODULE DataDirectory ---------------------------
(***************************************************************************)
(* The data directory of a node and its snapshots (internal/node/          *)
(* manager.go), with the faults that alter them: disk_write_loss,          *)
(* partial_persistence and stale_snapshot_restart (internal/faults).       *)
(*                                                                         *)
(* A snapshot is taken by every start, when the new process already runs:  *)
(* cp reads the files one after the other while the node writes them, and  *)
(* the manager's mutex is held meanwhile.  Snapshots are named by the      *)
(* local clock, which is taken to go forward, so that the order of their   *)
(* names is the order in which they were taken.                            *)
(*                                                                         *)
(* The faults are injected by one goroutine, the same that injects         *)
(* kill_node, restart_node and cpu_pause.                                  *)
(*                                                                         *)
(* Of the manager no more is used than what it implements, NodeLifecycle.  *)
(* There an instance that was sent SIGKILL is no longer live; the faults   *)
(* sleep 500 ms after the kill, which is taken to be enough for it to end, *)
(* and what it still writes meanwhile is written before the kill here.     *)
(***************************************************************************)
EXTENDS NodeLifecycle, Integers, Sequences

CONSTANTS
  Files,                \* the files of a data directory
  Absent, Empty, Part,  \* what a file may be besides whole
  Keep,                 \* how many snapshots are kept: 3 in the code
  MaxWrites,            \* bound: what the nodes write
  MaxStarts,            \* bound: how often one node is started
  MaxMissed             \* bound: files and directories that cp fails on

ASSUME DataAssumption ==
  /\ MaxStarts \in Nat
  /\ Keep \in Nat \ {0} /\ MaxWrites \in Nat /\ MaxMissed \in Nat
  /\ {Absent, Empty, Part} \cap (1 .. MaxWrites) = {}

(* A whole file is known by the number of the write that left it.          *)
Content == 1 .. MaxWrites \cup {Absent, Empty, Part}
Directory == [Files -> Content]
Snapshot == [start : Nat, files : Directory]  \* which start took it
Persistence == {"disk_write_loss", "partial_persistence", "stale_snapshot_restart"}

VARIABLES
  data,    \* the data directory of every node
  writes,  \* how many writes there were
  snaps,   \* the snapshots of every node in the order of their names
  copying, \* the snapshot being taken: "no", or "whole" or "torn" so far
  left,    \* the files it has yet to read
  missed,  \* how many times cp failed
  fault    \* the fault that sleeps or goes on after a kill, or NoFault

dataVars == <<data, writes, snaps, copying, left, missed, fault>>

NoFault == [kind |-> "none"]
EmptyDirectory == [f \in Files |-> Absent]

DataTypeOK ==
  /\ TypeOK
  /\ data \in [Nodes -> Directory] /\ writes \in 0 .. MaxWrites
  /\ snaps \in [Nodes -> Seq(Snapshot)]
  /\ copying \in [Nodes -> {"no", "whole", "torn"}]
  /\ left \in [Nodes -> SUBSET Files] /\ missed \in 0 .. MaxMissed
  /\ fault \in {NoFault}
       \cup [kind : Persistence \cup {"restart_node"}, node : Nodes, step : {"asleep", "altered"}]

DataInit ==
  /\ Init
  /\ data = [n \in Nodes |-> EmptyDirectory] /\ writes = 0
  /\ snaps = [n \in Nodes |-> <<>>] /\ missed = 0
  /\ copying = [n \in Nodes |-> "no"] /\ left = [n \in Nodes |-> {}]
  /\ fault = NoFault

(* The manager's mutex is free.                                            *)
Unlocked == \A n \in Nodes : copying[n] = "no"

(* The goroutine of the scheduler is not inside a fault that sleeps.       *)
Idle == fault = NoFault

-----------------------------------------------------------------------------
(* Snapshots.                                                              *)

(* takeSnapshotUnlocked up to cp, for the nodes of S that were started;    *)
(* the directories of those in B are not even created.  The error is       *)
(* ignored.                                                                *)
BeginSnapshots(S, B) ==
  /\ B \subseteq S /\ missed' = missed + (IF B = {} THEN 0 ELSE 1)
  /\ missed' <= MaxMissed
  /\ copying' = [n \in Nodes |-> IF n \in S \ B THEN "whole" ELSE copying[n]]
  /\ left' = [n \in Nodes |-> IF n \in S \ B THEN Files ELSE left[n]]
  /\ snaps' = [n \in Nodes |->
       IF n \in S \ B
       THEN Append(snaps[n], [start |-> inst'[n], files |-> EmptyDirectory])
       ELSE snaps[n]]

Copied(s, f, content) ==
  LET last == s[Len(s)]
  IN [s EXCEPT ![Len(s)] = [start |-> last.start,
                            files |-> [last.files EXCEPT ![f] = content]]]

CopyFile(n, f) ==
  /\ f \in left[n] /\ left' = [left EXCEPT ![n] = @ \ {f}]
  /\ snaps' = [snaps EXCEPT ![n] = Copied(@, f, data[n][f])]
  /\ UNCHANGED <<vars, data, writes, copying, missed, fault>>

(* A file that has gone since cp saw its name, or that cannot be copied.   *)
MissFile(n, f) ==
  /\ f \in left[n] /\ left' = [left EXCEPT ![n] = @ \ {f}]
  /\ missed < MaxMissed /\ missed' = missed + 1
  /\ copying' = [copying EXCEPT ![n] = "torn"]
  /\ UNCHANGED <<vars, data, writes, snaps, fault>>

(* Mutant of Pruned: it removes the newest.                                *)
PrunedAtTheEnd(s) == IF Len(s) > Keep THEN SubSeq(s, 1, Keep) ELSE s

Pruned(s) == IF Len(s) > Keep THEN SubSeq(s, Len(s) - Keep + 1, Len(s)) ELSE s

(* What a failed cp has left behind stays, is listed with the others, and  *)
(* nothing is pruned.                                                      *)
EndSnapshot(n) ==
  /\ copying[n] # "no" /\ left[n] = {}
  /\ copying' = [copying EXCEPT ![n] = "no"]
  /\ snaps' = [snaps EXCEPT ![n] = IF copying[n] = "whole" THEN Pruned(@) ELSE @]
  /\ UNCHANGED <<vars, data, writes, left, missed, fault>>

-----------------------------------------------------------------------------
(* The manager's methods with what they do to the directories.             *)

Write(n, f) ==
  /\ live[n] = "running" /\ writes < MaxWrites
  /\ writes' = writes + 1
  /\ \E c \in {Absent, writes'} : data' = [data EXCEPT ![n][f] = c]
  /\ UNCHANGED <<vars, snaps, copying, left, missed, fault>>

Starts(S) ==
  /\ Unlocked /\ \A n \in S : inst[n] < MaxStarts
  /\ Begin(S) /\ \E B \in SUBSET S : BeginSnapshots(S, B)
  /\ UNCHANGED <<data, writes>>

StartAll(S) == Idle /\ (\A n \in Nodes : inst[n] = 0) /\ Starts(S) /\ UNCHANGED fault

(* PauseNode; ResumeNode, in a goroutine of its own; KillNode and StopAll, *)
(* exits and the end of a context.                                         *)
Others ==
  /\ UNCHANGED dataVars
  /\ \/ \E n \in Nodes : Unlocked /\ ((Idle /\ Suspend(n)) \/ Continue(n))
     \/ \E S \in SUBSET Nodes : S # {} /\ End(S)

-----------------------------------------------------------------------------
(* The faults that kill a node and start it again.  A kill that fails is   *)
(* the end of a persistence fault; RestartNode ignores the error.          *)

(* Mutant of BeginFault: the persistence faults ignore it too.             *)
BeginFaultAnyway(kind, n) ==
  /\ Unlocked /\ Idle /\ inst[n] > 0
  /\ End({n}) \/ UNCHANGED vars
  /\ fault' = [kind |-> kind, node |-> n, step |-> "asleep"]
  /\ UNCHANGED <<data, writes, snaps, copying, left, missed>>

BeginFault(kind, n) ==
  /\ Unlocked /\ Idle /\ inst[n] > 0
  /\ End({n})
  /\ fault' = [kind |-> kind, node |-> n, step |-> "asleep"]
  /\ UNCHANGED <<data, writes, snaps, copying, left, missed>>

(* The fault alters the directory and goes on to start the node; or it has *)
(* failed, the node stays down and its directory is as it is.              *)
Alters(kind, directory, done) ==
  /\ fault # NoFault /\ fault.kind = kind /\ fault.step = "asleep"
  /\ data' = [data EXCEPT ![fault.node] = directory]
  /\ fault' = IF done THEN [fault EXCEPT !.step = "altered"] ELSE NoFault
  /\ UNCHANGED <<vars, writes, snaps, copying, left, missed>>

(* Truncates what was modified within the window, file by file, and gives  *)
(* up at the first file it cannot truncate.                                *)
DiskWriteLoss ==
  LET d == data[fault.node]
  IN \E recent \in SUBSET {f \in Files : d[f] \notin {Absent, Empty}} :
       \E cut \in SUBSET recent :
         Alters("disk_write_loss", [f \in Files |-> IF f \in cut THEN Empty ELSE d[f]],
                cut = recent /\ cut # {})

(* Cuts the newest file to between half and nine tenths of its length,     *)
(* which leaves nothing of a single byte.                                  *)
PartialPersistence ==
  LET d == data[fault.node]
  IN \/ Alters("partial_persistence", d, FALSE)
     \/ \E f \in Files, c \in {Part, Empty} :
          /\ d[f] \notin {Absent, Empty}
          /\ Alters("partial_persistence", [d EXCEPT ![f] = c], TRUE)

Clamped(index, length) ==
  IF index < 0 THEN 0 ELSE IF index >= length THEN length - 1 ELSE index

(* Mutant of Restored: the directory is not removed first, and cp makes    *)
(* the snapshot a subdirectory of it.                                      *)
RestoredInside(d, s) == d

(* RemoveAll, then cp -a.                                                  *)
Restored(d, s) == s

(* RestoreSnapshot, for a node that is not active: it succeeds, or it      *)
(* fails while removing or while copying.                                  *)
StaleSnapshotRestart ==
  LET n == fault.node  d == data[n]
  IN \/ Alters("stale_snapshot_restart", d, FALSE)
     \/ \E index \in -1 .. Len(snaps[n]) :
          LET s == snaps[n][Clamped(index, Len(snaps[n])) + 1].files
          IN /\ snaps[n] # <<>> /\ live[n] = "none" /\ Unlocked
             /\ \/ Alters("stale_snapshot_restart", Restored(d, s), TRUE)
                \/ \E kept \in SUBSET Files :
                     \E from \in {d, s} :
                       Alters("stale_snapshot_restart",
                         [f \in Files |-> IF f \in kept THEN from[f] ELSE Absent], FALSE)

(* StartNode, or RestartNode after its sleep.                              *)
ToBeStarted ==
  fault # NoFault /\ (fault.step = "altered" \/ fault.kind = "restart_node")

FaultStarts == ToBeStarted /\ Starts({fault.node}) /\ fault' = NoFault

FaultStartFails ==
  /\ ToBeStarted /\ Unlocked
  /\ fault' = NoFault
  /\ UNCHANGED <<vars, data, writes, snaps, copying, left, missed>>

-----------------------------------------------------------------------------

Inject ==
  \/ \E kind \in Persistence \cup {"restart_node"}, n \in Nodes : BeginFault(kind, n)
  \/ fault # NoFault /\ (DiskWriteLoss \/ PartialPersistence \/ StaleSnapshotRestart)
  \/ FaultStarts \/ FaultStartFails

DataNext ==
  \/ \E S \in SUBSET Nodes : StartAll(S)
  \/ \E n \in Nodes : EndSnapshot(n)
  \/ \E n \in Nodes, f \in Files : CopyFile(n, f) \/ MissFile(n, f) \/ Write(n, f)
  \/ Others \/ Inject

DataSpec == DataInit /\ [][DataNext]_<<vars, dataVars>>

-----------------------------------------------------------------------------

(* The tool never alters the data directory of a node while an instance    *)
(* of it is live, running or suspended.                                *)
NeverUnderALiveNode ==
  [][\A n \in Nodes :
       data'[n] # data[n] /\ writes' = writes
         => live[n] = "none"]_<<vars, dataVars>>

(* A node that stale_snapshot_restart starts has before it exactly the     *)
(* files of one snapshot, with nothing of the directory they replaced and  *)
(* nothing of another snapshot; and while no copy has failed it is a       *)
(* snapshot of one of the last starts, as many as are kept.                *)
StaleRestartIsExact ==
  [][fault # NoFault /\ fault.kind = "stale_snapshot_restart"
     /\ inst'[fault.node] > inst[fault.node]
       => \E i \in 1 .. Len(snaps[fault.node]) :
            LET s == snaps[fault.node][i]
            IN /\ data[fault.node] = s.files
               /\ missed = 0 => s.start + Keep > inst[fault.node]]_<<vars, dataVars>>

-----------------------------------------------------------------------------
(* The inductive invariant.                                                *)

(* While a fault is under way its node is down and no snapshot is taken;   *)
(* what stale_snapshot_restart has restored is one of the snapshots.       *)
DownMeanwhile ==
  fault # NoFault =>
    /\ live[fault.node] = "none" /\ Unlocked
    /\ fault.kind = "stale_snapshot_restart" /\ fault.step = "altered" =>
         \E i \in 1 .. Len(snaps[fault.node]) :
           data[fault.node] = snaps[fault.node][i].files

(* While no copy has failed the snapshots are those of the last starts, as *)
(* many as are kept and the one being taken.                               *)
Latest ==
  missed = 0 => \A n \in Nodes :
    /\ copying[n] # "torn"
    /\ Len(snaps[n]) <= Keep + (IF copying[n] = "no" THEN 0 ELSE 1)
    /\ \A i \in 1 .. Len(snaps[n]) : snaps[n][i].start = inst[n] - Len(snaps[n]) + i

Copies == \A n \in Nodes : copying[n] # "no" => snaps[n] # <<>>

DataIInv ==
  /\ DataTypeOK /\ DownMeanwhile /\ Latest /\ Copies
  /\ \A n \in Nodes : left[n] # {} => copying[n] # "no"

=============================================================================
