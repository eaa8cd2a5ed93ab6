------------------------- MODULE NodeManager_proofs -------------------------
(***************************************************************************)
(* Proofs about NodeManager, for any set of nodes and any bound on starts. *)
(***************************************************************************)
EXTENDS NodeManager, TLAPS

USE SpawnsAssumption

(* NewNodeManager's nodes, all DECLARED and without a process, satisfy it. *)
LEMMA InitEstablishes == Init => IInv
BY DEF Init, IInv, TypeOK, NoOrphan, StateMatchesProcess, Bookkeeping, Procs,
       Contexts, NodeState, Phase, Posted, Halting, Cmd, Alive, Doomed,
       Cancelled, Active

(* A node that is in a recoverable position for a start: it has no process *)
(* yet, or its process is dead or doomed.                                  *)
Down(n) == spawned[n] > 0 => ~Alive(Cmd(n)) \/ Doomed(Cmd(n))

(* A start keeps the invariant when every node of S is down, which is what *)
(* each of its callers establishes.                                        *)
LEMMA StartPreserves ==
  ASSUME IInv, NEW S \in SUBSET Nodes, NEW c \in Contexts,
         StartNodesUnlocked(S, c),
         restarting' \in SUBSET (restarting \ S), 
         UNCHANGED ctxDone, halting' \in Halting,
         \A n \in S : Down(n)
  PROVE  IInv'
<1> USE DEF IInv
<1>1. TypeOK'
  BY DEF TypeOK, Procs, NodeState, Phase, StartNodesUnlocked, CanStart
<1>2. /\ \A n \in S : spawned'[n] = spawned[n] + 1 /\ state'[n] = "RUNNING"
      /\ \A n \in Nodes \ S : spawned'[n] = spawned[n] /\ state'[n] = state[n]
      /\ \A n \in Nodes, k \in 1 .. MaxSpawns :
           IF n \in S /\ k = spawned[n] + 1
           THEN phase'[<<n, k>>] = "up" /\ parent'[<<n, k>>] = c
           ELSE phase'[<<n, k>>] = phase[<<n, k>>] /\ parent'[<<n, k>>] = parent[<<n, k>>]
      /\ posted' = posted
      /\ S # {} => c \notin ctxDone
      /\ \A n \in S : spawned[n] + 1 \in 1 .. MaxSpawns
  <2>1. /\ \A n \in S : spawned'[n] = spawned[n] + 1 /\ state'[n] = "RUNNING"
        /\ \A n \in Nodes \ S : spawned'[n] = spawned[n] /\ state'[n] = state[n]
        /\ posted' = posted
    BY DEF StartNodesUnlocked
  <2>2. \A n \in S : c \notin ctxDone /\ spawned[n] + 1 \in 1 .. MaxSpawns
    BY DEF TypeOK, StartNodesUnlocked, CanStart
  <2>3. ASSUME NEW n \in Nodes, NEW k \in 1 .. MaxSpawns
        PROVE  IF n \in S /\ k = spawned[n] + 1
               THEN phase'[<<n, k>>] = "up" /\ parent'[<<n, k>>] = c
               ELSE phase'[<<n, k>>] = phase[<<n, k>>] /\ parent'[<<n, k>>] = parent[<<n, k>>]
    <3>1. <<n, k>> \in Procs
      BY DEF Procs
    <3> QED BY <3>1 DEF StartNodesUnlocked
  <2> QED BY <2>1, <2>2, <2>3
<1>3. NoOrphan'
  <2> SUFFICES ASSUME NEW n \in Nodes, NEW k \in 1 .. MaxSpawns,
                      k < spawned'[n], Alive(<<n, k>>)'
               PROVE  Doomed(<<n, k>>)'
    BY DEF NoOrphan
  <2>1. phase'[<<n, k>>] = phase[<<n, k>>] /\ parent'[<<n, k>>] = parent[<<n, k>>]
    BY <1>2 DEF TypeOK
  <2>2. Doomed(<<n, k>>)
    BY <1>2, <2>1 DEF TypeOK, NoOrphan, Down, Alive, Cmd
  <2> QED BY <1>2, <2>1, <2>2 DEF Doomed, Cancelled
<1>4. StateMatchesProcess'
  BY <1>2 DEF TypeOK, StateMatchesProcess, Bookkeeping, Alive, Doomed, Cancelled, Cmd, Active, NodeState
<1>5. Bookkeeping'
  BY <1>2 DEF TypeOK, Bookkeeping, Alive, Doomed, Cancelled, Cmd
<1> QED BY <1>1, <1>3, <1>4, <1>5

(* The process of a node is a process once the node has been started.      *)
LEMMA CmdIsProc ==
  ASSUME TypeOK, NEW n \in Nodes, spawned[n] > 0
  PROVE  Cmd(n) \in Procs /\ spawned[n] \in 1 .. MaxSpawns
BY DEF TypeOK, Procs, Cmd

(* Killing a node keeps the invariant and leaves the node down.            *)
LEMMA KillPreserves ==
  ASSUME IInv, NEW n \in Nodes, KillSucceeds(n), KillEffect(n),
         restarting' \in {restarting, restarting \cup {n}},
         UNCHANGED <<spawned, phase, parent, ctxDone, halting>>
  PROVE  IInv'
<1> USE DEF IInv
<1>1. spawned[n] > 0
  BY DEF KillSucceeds, Active, StateMatchesProcess, TypeOK
<1>2. Cmd(n) \in Procs /\ spawned[n] \in 1 .. MaxSpawns
  BY <1>1, CmdIsProc
<1>3. TypeOK'
  BY <1>2 DEF TypeOK, KillEffect, NodeState, Posted
<1>4. /\ \A m \in Nodes : state'[m] = IF m = n THEN "KILLED" ELSE state[m]
      /\ \A p \in Procs : posted[p] \subseteq posted'[p]
      /\ \A p \in Procs : p # Cmd(n) => posted'[p] = posted[p]
      /\ "SIGKILL" \in posted'[Cmd(n)]
  BY <1>2 DEF TypeOK, KillEffect
<1>5. \A p \in Procs : Doomed(p) => Doomed(p)'
  BY <1>4 DEF Doomed, Cancelled
<1>6. \A m \in Nodes, k \in 1 .. MaxSpawns : <<m, k>> \in Procs
  BY DEF Procs
<1>7. NoOrphan'
  BY <1>5, <1>6 DEF NoOrphan, Alive
<1>8. StateMatchesProcess'
  <2> SUFFICES ASSUME NEW m \in Nodes
               PROVE  StateMatchesProcess!(m)'
    BY DEF StateMatchesProcess
  <2>1. CASE m = n
    BY <1>1, <1>4, <2>1 DEF StateMatchesProcess, Doomed, Cmd, Active
  <2>2. CASE m # n /\ spawned[m] = 0
    BY <1>4, <2>2 DEF StateMatchesProcess, Active
  <2>3. CASE m # n /\ spawned[m] > 0
    <3>1. Cmd(m) \in Procs /\ Cmd(m) # Cmd(n)
      BY <2>3, CmdIsProc DEF Cmd
    <3> QED BY <1>4, <1>5, <2>3, <3>1 DEF StateMatchesProcess, Active, Cmd, Alive
  <2> QED BY <2>1, <2>2, <2>3 DEF TypeOK
<1>9. Bookkeeping'
  <2>1. ASSUME NEW m \in Nodes, NEW k \in 1 .. MaxSpawns
        PROVE  /\ k > spawned[m] => phase[<<m, k>>] = "unborn" /\ posted'[<<m, k>>] = {}
               /\ k <= spawned[m] => phase[<<m, k>>] # "unborn"
    BY <1>2, <1>4, <1>6 DEF Bookkeeping, Cmd, TypeOK
  <2>2. ASSUME NEW m \in restarting'
        PROVE  spawned[m] > 0 /\ (~Alive(Cmd(m)) \/ Doomed(Cmd(m))')
    <3>1. CASE m = n
      BY <1>1, <1>4, <3>1 DEF Doomed, Cmd
    <3>2. CASE m # n
      <4>1. m \in restarting /\ m \in Nodes
        BY <3>2 DEF TypeOK
      <4>2. spawned[m] > 0 /\ (~Alive(Cmd(m)) \/ Doomed(Cmd(m)))
        BY <4>1 DEF Bookkeeping
      <4>3. Cmd(m) \in Procs /\ Cmd(m)' = Cmd(m)
        BY <4>1, <4>2, CmdIsProc DEF Cmd
      <4> QED BY <4>2, <4>3, <1>5 DEF Cmd
    <3> QED BY <3>1, <3>2
  <2> QED BY <2>1, <2>2 DEF Bookkeeping, Alive, Cmd
<1> QED BY <1>3, <1>7, <1>8, <1>9

(* A step that records no new state, kills no process by itself and only   *)
(* sends more to processes that are already being ended, or lets living    *)
(* processes die, keeps the invariant.                                     *)
LEMMA EndingPreserves ==
  ASSUME IInv, TypeOK',
         UNCHANGED <<state, spawned, parent, restarting>>,
         ctxDone \subseteq ctxDone',
         \A p \in Procs :
           /\ posted[p] \subseteq posted'[p]
           /\ posted'[p] # posted[p] =>
                (Alive(p) /\ Cancelled(p)) \/ "SIGTERM" \in posted[p]
           /\ \/ phase'[p] = phase[p]
              \/ Alive(p) /\ phase'[p] = "zombie"
              \/ phase[p] = "zombie" /\ phase'[p] = "exiting"
  PROVE  IInv'
<1> USE DEF IInv
<1>1. \A p \in Procs : (Doomed(p) => Doomed(p)') /\ (Alive(p)' => Alive(p))
  <2> SUFFICES ASSUME NEW p \in Procs
               PROVE  (Doomed(p) => Doomed(p)') /\ (Alive(p)' => Alive(p))
    OBVIOUS
  <2>1. /\ posted[p] \subseteq posted'[p]
        /\ phase'[p] \in {"up", "frozen"} => phase[p] \in {"up", "frozen"}
    BY DEF Alive
  <2> QED BY <2>1 DEF Doomed, Cancelled, Alive
<1>2. \A m \in Nodes, k \in 1 .. MaxSpawns : <<m, k>> \in Procs
  BY DEF Procs
<1>3. \A n \in Nodes : Cmd(n)' = Cmd(n)
  BY DEF Cmd
<1>4. NoOrphan'
  BY <1>1, <1>2 DEF NoOrphan
<1>5. StateMatchesProcess'
  <2> SUFFICES ASSUME NEW m \in Nodes
               PROVE  StateMatchesProcess!(m)'
    BY DEF StateMatchesProcess
  <2>1. CASE spawned[m] = 0
    BY <2>1 DEF StateMatchesProcess, Active
  <2>2. CASE spawned[m] > 0
    <3>1. Cmd(m) \in Procs
      BY <2>2, CmdIsProc
    <3>2. Active(m) /\ posted'[Cmd(m)] # {} => parent[Cmd(m)] \in ctxDone'
      BY <3>1 DEF StateMatchesProcess, Cancelled
    <3> QED BY <1>1, <1>3, <2>2, <3>1, <3>2
            DEF StateMatchesProcess, Active, Cmd, Alive, Doomed, Cancelled
  <2> QED BY <2>1, <2>2 DEF TypeOK
<1>6. Bookkeeping'
  <2>1. ASSUME NEW m \in Nodes, NEW k \in 1 .. MaxSpawns
        PROVE  /\ k > spawned[m] => phase'[<<m, k>>] = "unborn" /\ posted'[<<m, k>>] = {}
               /\ k <= spawned[m] => phase'[<<m, k>>] # "unborn"
    BY <1>2 DEF Bookkeeping, Alive
  <2>2. ASSUME NEW m \in restarting
        PROVE  spawned[m] > 0 /\ (~Alive(Cmd(m))' \/ Doomed(Cmd(m))')
    <3>1. spawned[m] > 0 /\ (~Alive(Cmd(m)) \/ Doomed(Cmd(m))) /\ m \in Nodes
      BY DEF Bookkeeping, TypeOK
    <3>2. Cmd(m) \in Procs /\ Cmd(m)' = Cmd(m)
      BY <3>1, <1>3, CmdIsProc
    <3> QED BY <3>1, <3>2, <1>1 DEF Cmd
  <2> QED BY <2>1, <2>2 DEF Bookkeeping, Cmd
<1> QED BY <1>4, <1>5, <1>6

(* Every method of the manager keeps the invariant.                        *)
LEMMA MethodPreserves == IInv /\ Method => IInv'
<1> SUFFICES ASSUME IInv, Method PROVE IInv'
  OBVIOUS
<1> USE DEF IInv
<1>1. ASSUME NEW S \in SUBSET Nodes, StartAll(S) PROVE IInv'
  <2>1. \A n \in S : Down(n)
    BY <1>1 DEF StartAll, StateMatchesProcess, Down
  <2>2. /\ StartNodesUnlocked(S, "run")
        /\ "run" \in Contexts /\ restarting' \in SUBSET (restarting \ S)
        /\ UNCHANGED ctxDone /\ halting' \in Halting
    <3>1. restarting = {}
      BY <1>1 DEF StartAll, Bookkeeping, StateMatchesProcess, TypeOK
    <3> QED BY <1>1, <3>1 DEF StartAll, TypeOK, Contexts
  <2> QED BY <2>1, <2>2, StartPreserves
<1>2. ASSUME NEW n \in Nodes, StartKilledNode(n) PROVE IInv'
  <2>1. Down(n)
    BY <1>2 DEF StartKilledNode, StartNode, StateMatchesProcess, Down
  <2>2. StartNodesUnlocked({n}, "sched") /\ {n} \in SUBSET Nodes
        /\ "sched" \in Contexts /\ restarting' \in SUBSET (restarting \ {n})
        /\ UNCHANGED ctxDone /\ halting' \in Halting
    BY <1>2 DEF StartKilledNode, StartNode, TypeOK, Contexts
  <2> QED BY <2>1, <2>2, StartPreserves
<1>3. ASSUME NEW n \in Nodes, KillNode(n) PROVE IInv'
  BY <1>3, KillPreserves DEF KillNode
<1>4. ASSUME NEW n \in Nodes, RestartNodeKills(n) PROVE IInv'
  <2>1. CASE KillSucceeds(n)
    BY <1>4, <2>1, KillPreserves DEF RestartNodeKills
  <2>2. CASE ~KillSucceeds(n)
    <3>1. UNCHANGED <<state, spawned, phase, posted, parent, ctxDone, halting>>
          /\ restarting' = restarting \cup {n}
      BY <1>4, <2>2 DEF RestartNodeKills
    <3>2. spawned[n] > 0 /\ Down(n)
      BY <1>4, <2>2 DEF RestartNodeKills, Operating, KillSucceeds, Active, Signalable,
                        StateMatchesProcess, TypeOK, Down, Alive, NodeState
    <3>3. TypeOK' /\ NoOrphan' /\ StateMatchesProcess'
      BY <3>1 DEF TypeOK, NoOrphan, StateMatchesProcess, Alive, Doomed, Cancelled,
                  Cmd, Active
    <3>4. Bookkeeping'
      BY <3>1, <3>2 DEF Bookkeeping, Down, Alive, Doomed, Cancelled, Cmd
    <3> QED BY <3>3, <3>4
  <2> QED BY <2>1, <2>2
<1>5. ASSUME NEW n \in Nodes, RestartNodeStarts(n) PROVE IInv'
  <2>1. Down(n)
    BY <1>5 DEF RestartNodeStarts, Bookkeeping, Down
  <2>2. StartNodesUnlocked({n}, "sched") /\ {n} \in SUBSET Nodes
        /\ "sched" \in Contexts /\ restarting' \in SUBSET (restarting \ {n})
        /\ UNCHANGED ctxDone /\ halting' \in Halting
    BY <1>5 DEF RestartNodeStarts, TypeOK, Contexts
  <2> QED BY <2>1, <2>2, StartPreserves
<1>6. ASSUME NEW n \in Nodes, RestartNodeFails(n) PROVE IInv'
  BY <1>6 DEF RestartNodeFails, TypeOK, NoOrphan, StateMatchesProcess, Bookkeeping,
              Alive, Doomed, Cancelled, Cmd, Active
<1>7. ASSUME NEW n \in Nodes, PauseNode(n) \/ ResumeNode(n) PROVE IInv'
  <2>1. spawned[n] > 0 /\ Cmd(n) \in Procs
    BY <1>7, CmdIsProc DEF PauseNode, ResumeNode, StateMatchesProcess, TypeOK
  <2>2. /\ UNCHANGED <<spawned, posted, parent, restarting, ctxDone, halting>>
        /\ Active(n) /\ state'[n] \in {"RUNNING", "PAUSED"}
        /\ \A m \in Nodes : m # n => state'[m] = state[m]
        /\ \A p \in Procs : p # Cmd(n) => phase'[p] = phase[p]
        /\ state'[n] = "RUNNING" => phase'[Cmd(n)] \in {"up", "zombie"}
        /\ state'[n] = "PAUSED" => phase'[Cmd(n)] \in {"frozen", "zombie"}
        /\ Alive(Cmd(n))' => Alive(Cmd(n))
    BY <1>7, <2>1 DEF PauseNode, ResumeNode, Active, Signalable, Alive, TypeOK, Cmd
  <2>3. TypeOK'
    BY <1>7, <2>1 DEF PauseNode, ResumeNode, TypeOK, NodeState, Phase
  <2>4. \A m \in Nodes, k \in 1 .. MaxSpawns : <<m, k>> \in Procs
    BY DEF Procs
  <2>5. \A p \in Procs : (Doomed(p)' <=> Doomed(p)) /\ (Alive(p)' => Alive(p))
    BY <2>1, <2>2 DEF Doomed, Cancelled, Alive, Cmd
  <2>6. NoOrphan'
    BY <2>2, <2>4, <2>5 DEF NoOrphan
  <2>7. StateMatchesProcess'
    <3> SUFFICES ASSUME NEW m \in Nodes
                 PROVE  StateMatchesProcess!(m)'
      BY DEF StateMatchesProcess
    <3>1. CASE m = n
      BY <2>1, <2>2, <3>1 DEF StateMatchesProcess, Active, Cmd
    <3>2. CASE m # n /\ spawned[m] = 0
      BY <2>2, <3>2 DEF StateMatchesProcess, Active
    <3>3. CASE m # n /\ spawned[m] > 0
      <4>1. Cmd(m) \in Procs /\ Cmd(m) # Cmd(n)
        BY <3>3, CmdIsProc DEF Cmd
      <4> QED BY <2>2, <2>5, <3>3, <4>1 DEF StateMatchesProcess, Active, Cmd, Alive
    <3> QED BY <3>1, <3>2, <3>3 DEF TypeOK
  <2>8. Bookkeeping'
    <3>1. ASSUME NEW m \in Nodes, NEW k \in 1 .. MaxSpawns
          PROVE  /\ k > spawned[m] => phase'[<<m, k>>] = "unborn" /\ posted[<<m, k>>] = {}
                 /\ k <= spawned[m] => phase'[<<m, k>>] # "unborn"
      BY <2>1, <2>2, <2>4 DEF Bookkeeping, Cmd, TypeOK
    <3>2. ASSUME NEW m \in restarting
          PROVE  spawned[m] > 0 /\ (~Alive(Cmd(m))' \/ Doomed(Cmd(m))')
      <4>1. spawned[m] > 0 /\ (~Alive(Cmd(m)) \/ Doomed(Cmd(m))) /\ m \in Nodes
        BY DEF Bookkeeping, TypeOK
      <4>2. Cmd(m) \in Procs /\ Cmd(m)' = Cmd(m)
        BY <4>1, <2>2, CmdIsProc DEF Cmd
      <4> QED BY <4>1, <4>2, <2>5 DEF Cmd
    <3> QED BY <2>2, <3>1, <3>2 DEF Bookkeeping, Cmd
  <2> QED BY <2>3, <2>6, <2>7, <2>8
<1>8. ASSUME StopAll PROVE IInv'
  <2>1. /\ UNCHANGED <<spawned, phase, parent, restarting, ctxDone>>
        /\ restarting = {}
        /\ \A n \in Nodes : state'[n] = IF Active(n) THEN "STOPPED" ELSE state[n]
        /\ \A p \in Procs : /\ posted[p] \subseteq posted'[p]
                            /\ ~Active(p[1]) => posted'[p] = posted[p]
                            /\ p[2] # spawned[p[1]] => posted'[p] = posted[p]
                            /\ Active(p[1]) /\ p[2] = spawned[p[1]] => "cancel" \in posted'[p]
    BY <1>8 DEF StopAll
  <2>2. TypeOK'
    BY <1>8 DEF StopAll, TypeOK, NodeState, Posted, Halting
  <2>3. \A m \in Nodes, k \in 1 .. MaxSpawns :
          <<m, k>> \in Procs /\ <<m, k>>[1] = m /\ <<m, k>>[2] = k
    BY DEF Procs
  <2>4. NoOrphan'
    BY <2>1, <2>3 DEF NoOrphan, Alive, Doomed, Cancelled
  <2>5. StateMatchesProcess'
    <3> SUFFICES ASSUME NEW m \in Nodes
                 PROVE  StateMatchesProcess!(m)'
      BY DEF StateMatchesProcess
    <3>1. CASE spawned[m] = 0
      BY <2>1, <3>1 DEF StateMatchesProcess, Active
    <3>2. CASE spawned[m] > 0
      <4>1. Cmd(m) \in Procs /\ Cmd(m)[1] = m /\ Cmd(m)[2] = spawned[m] /\ Cmd(m)' = Cmd(m)
        BY <3>2, <2>1, CmdIsProc DEF Cmd
      <4>2. ~Active(m)'
        BY <2>1 DEF Active
      <4>3. CASE Active(m)
        BY <2>1, <4>1, <4>2, <4>3, <3>2 DEF Doomed, Cancelled, Active, TypeOK
      <4>4. CASE ~Active(m)
        BY <2>1, <4>1, <4>2, <4>4, <3>2
           DEF StateMatchesProcess, Doomed, Cancelled, Alive, Active
      <4> QED BY <4>3, <4>4
    <3> QED BY <3>1, <3>2 DEF TypeOK
  <2>6. Bookkeeping'
    BY <2>1, <2>3 DEF Bookkeeping, Alive, Doomed, Cancelled, Cmd, TypeOK
  <2> QED BY <2>2, <2>4, <2>5, <2>6
<1>9. ASSUME StopAllReturns PROVE IInv'
  BY <1>9 DEF StopAllReturns, TypeOK, NoOrphan, StateMatchesProcess, Bookkeeping,
              Alive, Doomed, Cancelled, Cmd, Active, Halting
<1> QED BY <1>1, <1>2, <1>3, <1>4, <1>5, <1>6, <1>7, <1>8, <1>9 DEF Method

(* So does everything that happens to a process without the lock.          *)
LEMMA BackgroundPreserves ==
  ASSUME IInv, NEW p \in Procs, Background(p)
  PROVE  IInv'
<1> USE DEF IInv
<1>1. CASE ProcessExits(p)
  <2>1. TypeOK'
    BY <1>1 DEF ProcessExits, TypeOK, Phase
  <2> QED BY <1>1, <2>1, EndingPreserves DEF ProcessExits, TypeOK, Alive
<1>2. CASE ProcessDies(p)
  <2>1. TypeOK'
    BY <1>2 DEF ProcessDies, TypeOK, Phase
  <2> QED BY <1>2, <2>1, EndingPreserves DEF ProcessDies, TypeOK, Alive
<1>3. CASE WatchCtx(p)
  <2>1. TypeOK'
    BY <1>3 DEF WatchCtx, TypeOK, Posted
  <2> QED BY <1>3, <2>1, EndingPreserves DEF WatchCtx, TypeOK
<1>4. CASE GraceExpires(p)
  <2>1. TypeOK'
    BY <1>4 DEF GraceExpires, TypeOK, Posted
  <2> QED BY <1>4, <2>1, EndingPreserves DEF GraceExpires, TypeOK
<1>5. CASE MonitorReaps(p)
  <2>1. TypeOK'
    BY <1>5 DEF MonitorReaps, TypeOK, Phase
  <2> QED BY <1>5, <2>1, EndingPreserves DEF MonitorReaps, TypeOK
<1>6. CASE MonitorRecords(p[1], p[2])
  <2> DEFINE n == p[1]
             k == p[2]
  <2>1. n \in Nodes /\ k \in 1 .. MaxSpawns /\ p = <<n, k>>
    BY DEF Procs
  <2>2. /\ UNCHANGED <<spawned, posted, parent, restarting, ctxDone, halting>>
        /\ phase[p] = "exiting" /\ phase'[p] = "finished"
        /\ \A q \in Procs : q # p => phase'[q] = phase[q]
        /\ \A m \in Nodes : m # n => state'[m] = state[m]
        /\ state'[n] = IF k = spawned[n] /\ state[n] = "RUNNING"
                       THEN "CRASHED" ELSE state[n]
    BY <1>6, <2>1 DEF MonitorRecords, TypeOK
  <2> HIDE DEF n, k
  <2>3. TypeOK'
    BY <1>6, <2>1, <2>2 DEF MonitorRecords, TypeOK, NodeState, Phase, n, k
  <2>4. \A m \in Nodes, j \in 1 .. MaxSpawns : <<m, j>> \in Procs
    BY DEF Procs
  <2>5. \A q \in Procs : phase'[q] \in {"up", "frozen"} => phase[q] \in {"up", "frozen"}
    BY <2>2
  <2>6. NoOrphan'
    BY <2>2, <2>4, <2>5 DEF NoOrphan, Alive, Doomed, Cancelled
  <2>7. StateMatchesProcess'
    <3> SUFFICES ASSUME NEW m \in Nodes
                 PROVE  StateMatchesProcess!(m)'
      BY DEF StateMatchesProcess
    <3>1. CASE spawned[m] = 0
      BY <2>1, <2>2, <3>1 DEF StateMatchesProcess, Active, TypeOK
    <3>2. CASE spawned[m] > 0 /\ Cmd(m) # p
      <4>1. Cmd(m) \in Procs /\ state'[m] = state[m] /\ phase'[Cmd(m)] = phase[Cmd(m)]
        BY <3>2, <2>1, <2>2, CmdIsProc DEF Cmd
      <4> QED BY <2>2, <4>1, <3>2
              DEF StateMatchesProcess, Active, Cmd, Alive, Doomed, Cancelled
    <3>3. CASE spawned[m] > 0 /\ Cmd(m) = p
      <4>1. m = n /\ k = spawned[m]
        BY <3>3, <2>1 DEF Cmd
      <4> QED BY <2>1, <2>2, <4>1, <3>3
              DEF StateMatchesProcess, Active, Cmd, Alive, Doomed, Cancelled, TypeOK
    <3> QED BY <3>1, <3>2, <3>3 DEF TypeOK
  <2>8. Bookkeeping'
    <3>1. ASSUME NEW m \in Nodes, NEW j \in 1 .. MaxSpawns
          PROVE  /\ j > spawned[m] => phase'[<<m, j>>] = "unborn" /\ posted[<<m, j>>] = {}
                 /\ j <= spawned[m] => phase'[<<m, j>>] # "unborn"
      BY <2>2, <2>4 DEF Bookkeeping
    <3>2. ASSUME NEW m \in restarting
          PROVE  spawned[m] > 0 /\ (phase'[Cmd(m)] \notin {"up", "frozen"} \/ Doomed(Cmd(m)))
      <4>1. spawned[m] > 0 /\ (~Alive(Cmd(m)) \/ Doomed(Cmd(m))) /\ m \in Nodes
        BY DEF Bookkeeping, TypeOK
      <4>2. Cmd(m) \in Procs
        BY <4>1, CmdIsProc
      <4> QED BY <4>1, <4>2, <2>5 DEF Alive
    <3> QED BY <2>2, <3>1, <3>2 DEF Bookkeeping, Cmd, Alive, Doomed, Cancelled
  <2> QED BY <2>3, <2>6, <2>7, <2>8
<1> QED BY <1>1, <1>2, <1>3, <1>4, <1>5, <1>6 DEF Background

(* So does the cancellation of a context, which dooms the processes below. *)
LEMMA CancelPreserves ==
  ASSUME IInv, NEW C \in SUBSET Contexts, CancelContexts(C)
  PROVE  IInv'
<1>1. TypeOK'
  BY DEF IInv, CancelContexts, TypeOK
<1> QED BY <1>1, EndingPreserves DEF CancelContexts

(* The invariant is inductive.                                             *)
LEMMA NextPreserves == IInv /\ [Next]_vars => IInv'
<1> SUFFICES ASSUME IInv, [Next]_vars PROVE IInv'
  OBVIOUS
<1>1. CASE Next
  BY <1>1, MethodPreserves, BackgroundPreserves, CancelPreserves DEF Next
<1>2. CASE UNCHANGED vars
  BY <1>2 DEF vars, IInv, TypeOK, NoOrphan, StateMatchesProcess, Bookkeeping,
              Alive, Doomed, Cancelled, Cmd, Active
<1> QED BY <1>1, <1>2

(* The inductive invariant holds in every reachable state.                 *)
THEOREM Invariance == Spec => []IInv
BY InitEstablishes, NextPreserves, PTL DEF Spec

(* Every field of every node and process record keeps its type, and no     *)
(* node is started more often than the bound of the model allows.          *)
THEOREM TypeCorrect == Spec => []TypeOK
BY Invariance, PTL DEF IInv

(* No restart, kill, stop, crash or cancelled context ever leaves two      *)
(* processes of one node of which none is dead or about to be killed.      *)
THEOREM NoOrphanEver == Spec => []NoOrphan
BY Invariance, PTL DEF IInv

(* What the manager records of a node always agrees with its process.      *)
THEOREM StateAlwaysMatches == Spec => []StateMatchesProcess
BY Invariance, PTL DEF IInv

(* The manager never takes an exit it caused itself for a crash.           *)
THEOREM OwnStopNeverCrash == Spec => OwnStopIsNoCrash
<1>1. ASSUME IInv, [Next]_vars
      PROVE  [\A n \in Nodes : state'[n] = "CRASHED" /\ state[n] # "CRASHED"
                 => ~Doomed(Cmd(n)) \/ parent[Cmd(n)] \in ctxDone]_vars
  <2> SUFFICES ASSUME Next, NEW n \in Nodes,
                      state'[n] = "CRASHED", state[n] # "CRASHED"
               PROVE  ~Doomed(Cmd(n)) \/ parent[Cmd(n)] \in ctxDone
    BY <1>1 DEF vars
  <2>1. state[n] = "RUNNING"
    <3> USE DEF IInv, TypeOK
    <3>1. ASSUME Method PROVE FALSE
      <4>1. CASE \E S \in SUBSET Nodes : StartAll(S)
        BY <4>1 DEF StartAll, StartNodesUnlocked
      <4>2. ASSUME NEW m \in Nodes, StartKilledNode(m) \/ RestartNodeStarts(m) PROVE FALSE
        BY <4>2 DEF StartKilledNode, StartNode, RestartNodeStarts, StartNodesUnlocked
      <4>3. ASSUME NEW m \in Nodes, KillNode(m) \/ RestartNodeKills(m) PROVE FALSE
        BY <1>1, <4>3 DEF KillNode, RestartNodeKills, KillEffect
      <4>4. ASSUME NEW m \in Nodes, RestartNodeFails(m) \/ PauseNode(m) \/ ResumeNode(m)
            PROVE  FALSE
        BY <1>1, <4>4 DEF RestartNodeFails, PauseNode, ResumeNode
      <4>5. CASE StopAll \/ StopAllReturns
        BY <4>5 DEF StopAll, StopAllReturns
      <4> QED BY <3>1, <4>1, <4>2, <4>3, <4>4, <4>5 DEF Method
    <3>2. ASSUME NEW p \in Procs, Background(p) PROVE state[n] = "RUNNING"
      BY <1>1, <3>2 DEF Background, ProcessExits, ProcessDies, WatchCtx, GraceExpires,
           MonitorReaps, MonitorRecords, Procs
    <3>3. ASSUME NEW C \in SUBSET Contexts, CancelContexts(C) PROVE FALSE
      BY <3>3 DEF CancelContexts
    <3> QED BY <3>1, <3>2, <3>3 DEF Next
  <2> QED BY <2>1, <1>1 DEF IInv, StateMatchesProcess, Active, Doomed, Cancelled
<1> QED BY <1>1, Invariance, PTL DEF Spec, OwnStopIsNoCrash

----------------------------------------------------------------------------
(* The manager implements NodeLifecycle.                                   *)

(* A step in which instances only end is an End step.                      *)
LEMMA EndStep ==
  ASSUME UNCHANGED spawned,
         \A n \in Nodes : LiveOf(n)' = LiveOf(n) \/ LiveOf(n)' = "none"
  PROVE  Lifecycle!Next
<1> DEFINE S == {n \in Nodes : LiveOf(n)' = "none"}
<1>1. Lifecycle!End(S)
  BY DEF Lifecycle!End
<1> QED BY <1>1 DEF Lifecycle!Next

(* A start is a Begin step when the previous instances have ended.         *)
LEMMA BeginStep ==
  ASSUME IInv, NEW S \in SUBSET Nodes, NEW c \in Contexts,
         StartNodesUnlocked(S, c), UNCHANGED ctxDone,
         \A n \in S : Down(n)
  PROVE  Lifecycle!Next
<1> USE DEF IInv
<1>1. \A n \in Nodes : IF n \in S THEN spawned'[n] = spawned[n] + 1
                       ELSE spawned'[n] = spawned[n]
  BY DEF StartNodesUnlocked
<1>2. ASSUME NEW n \in S PROVE LiveOf(n) = "none" /\ LiveOf(n)' = "running"
  <2>1. LiveOf(n) = "none"
    BY DEF Down, LiveOf, TypeOK
  <2>2. spawned'[n] = spawned[n] + 1 /\ spawned'[n] \in 1 .. MaxSpawns
    BY <1>1 DEF StartNodesUnlocked, CanStart, TypeOK
  <2>3. <<n, spawned'[n]>> \in Procs
    BY <2>2 DEF Procs
  <2>4. phase'[<<n, spawned'[n]>>] = "up" /\ parent'[<<n, spawned'[n]>>] = c
    BY <2>2, <2>3 DEF StartNodesUnlocked
  <2>5. posted'[<<n, spawned'[n]>>] = {} /\ c \notin ctxDone'
    BY <2>2 DEF StartNodesUnlocked, CanStart, Bookkeeping, TypeOK
  <2> QED BY <2>1, <2>2, <2>4, <2>5 DEF LiveOf, Cmd, Alive, Doomed, Cancelled
<1>3. ASSUME NEW n \in Nodes \ S PROVE LiveOf(n)' = LiveOf(n)
  <2>1. CASE spawned[n] = 0
    BY <1>1, <2>1 DEF LiveOf
  <2>2. CASE spawned[n] > 0
    <3>1. Cmd(n) \in Procs /\ Cmd(n) = <<n, spawned[n]>>
      BY <2>2, CmdIsProc DEF Cmd
    <3>2. phase'[Cmd(n)] = phase[Cmd(n)] /\ parent'[Cmd(n)] = parent[Cmd(n)]
          /\ posted' = posted
      BY <3>1 DEF StartNodesUnlocked
    <3> QED BY <1>1, <3>1, <3>2 DEF LiveOf, Cmd, Alive, Doomed, Cancelled
  <2> QED BY <2>1, <2>2 DEF TypeOK
<1>4. Lifecycle!Begin(S)
  BY <1>2, <1>3 DEF Lifecycle!Begin, StartNodesUnlocked
<1> QED BY <1>4 DEF Lifecycle!Next

(* When processes only die and are only sent more, instances only end.     *)
LEMMA EndingIsEnd ==
  ASSUME IInv, UNCHANGED <<spawned, parent>>, ctxDone \subseteq ctxDone',
         \A p \in Procs : /\ posted[p] \subseteq posted'[p]
                          /\ phase'[p] = phase[p] \/ ~Alive(p)'
  PROVE  Lifecycle!Next
<1>1. ASSUME NEW n \in Nodes
      PROVE  LiveOf(n)' = LiveOf(n) \/ LiveOf(n)' = "none"
  <2>1. CASE spawned[n] = 0
    BY <2>1 DEF LiveOf
  <2>2. CASE spawned[n] > 0
    <3>1. Cmd(n) \in Procs /\ Cmd(n)' = Cmd(n)
      BY <2>2, CmdIsProc DEF Cmd, IInv
    <3>2. /\ posted[Cmd(n)] \subseteq posted'[Cmd(n)]
          /\ phase'[Cmd(n)] = phase[Cmd(n)] \/ phase'[Cmd(n)] \notin {"up", "frozen"}
      BY <3>1 DEF Alive
    <3> QED BY <3>1, <3>2 DEF LiveOf, Alive, Doomed, Cancelled
  <2> QED BY <2>1, <2>2 DEF TypeOK, IInv
<1> QED BY <1>1, EndStep

(* PauseNode and ResumeNode suspend and continue the instance, or find it  *)
(* ended and leave it alone.                                               *)
LEMMA PauseResumeStep ==
  ASSUME IInv, NEW n \in Nodes, PauseNode(n) \/ ResumeNode(n)
  PROVE  [Lifecycle!Next]_Lifecycle!vars
<1> USE DEF IInv
<1>1. spawned[n] > 0 /\ Cmd(n) \in Procs
  BY CmdIsProc DEF PauseNode, ResumeNode, StateMatchesProcess, TypeOK
<1>2. /\ UNCHANGED <<spawned, posted, parent, ctxDone>>
      /\ \A p \in Procs : p # Cmd(n) => phase'[p] = phase[p]
  BY <1>1 DEF PauseNode, ResumeNode, TypeOK
<1>3. \A m \in Nodes : m # n => LiveOf(m)' = LiveOf(m)
  <2> SUFFICES ASSUME NEW m \in Nodes, m # n PROVE LiveOf(m)' = LiveOf(m)
    OBVIOUS
  <2>1. CASE spawned[m] = 0
    BY <1>2, <2>1 DEF LiveOf
  <2>2. CASE spawned[m] > 0
    <3>1. Cmd(m) \in Procs /\ Cmd(m) # Cmd(n)
      BY <2>2, CmdIsProc DEF Cmd
    <3> QED BY <1>2, <3>1 DEF LiveOf, Cmd, Alive, Doomed, Cancelled
  <2> QED BY <2>1, <2>2 DEF TypeOK
<1>4. \/ LiveOf(n)' = LiveOf(n)
      \/ LiveOf(n) = "running" /\ LiveOf(n)' = "suspended"
      \/ LiveOf(n) = "suspended" /\ LiveOf(n)' = "running"
  <2>1. CASE PauseNode(n)
    BY <1>1, <1>2, <2>1 DEF PauseNode, LiveOf, Cmd, Alive, Doomed, Cancelled, TypeOK
  <2>2. CASE ResumeNode(n)
    BY <1>1, <1>2, <2>2 DEF ResumeNode, LiveOf, Cmd, Alive, Doomed, Cancelled, TypeOK
  <2> QED BY <2>1, <2>2
<1>5. CASE LiveOf(n)' = LiveOf(n)
  BY <1>2, <1>3, <1>5, EndStep
<1>6. CASE LiveOf(n) = "running" /\ LiveOf(n)' = "suspended"
  <2>1. Lifecycle!Suspend(n)
    BY <1>2, <1>3, <1>6 DEF Lifecycle!Suspend
  <2> QED BY <2>1 DEF Lifecycle!Next
<1>7. CASE LiveOf(n) = "suspended" /\ LiveOf(n)' = "running"
  <2>1. Lifecycle!Continue(n)
    BY <1>2, <1>3, <1>7 DEF Lifecycle!Continue
  <2> QED BY <2>1 DEF Lifecycle!Next
<1> QED BY <1>4, <1>5, <1>6, <1>7

(* Every step of the manager is a step of the lifecycle or a stutter.      *)
LEMMA NextRefines == IInv /\ [Next]_vars => [Lifecycle!Next]_Lifecycle!vars
<1> SUFFICES ASSUME IInv, [Next]_vars
             PROVE  [Lifecycle!Next]_Lifecycle!vars
  OBVIOUS
<1> USE DEF IInv
<1>1. ASSUME NEW S \in SUBSET Nodes, StartAll(S) PROVE Lifecycle!Next
  <2>1. \A n \in S : Down(n)
    BY <1>1 DEF StartAll, StateMatchesProcess, Down
  <2>2. StartNodesUnlocked(S, "run") /\ "run" \in Contexts /\ UNCHANGED ctxDone
    BY <1>1 DEF StartAll, Contexts
  <2> QED BY <2>1, <2>2, BeginStep
<1>2. ASSUME NEW n \in Nodes, StartKilledNode(n) \/ RestartNodeStarts(n) PROVE Lifecycle!Next
  <2>1. Down(n)
    BY <1>2 DEF StartKilledNode, StartNode, RestartNodeStarts, StateMatchesProcess, Bookkeeping, Down
  <2>2. /\ StartNodesUnlocked({n}, "sched") /\ "sched" \in Contexts
        /\ UNCHANGED ctxDone /\ {n} \in SUBSET Nodes
    BY <1>2 DEF StartKilledNode, StartNode, RestartNodeStarts, Contexts
  <2> QED BY <2>1, <2>2, BeginStep
<1>3. ASSUME NEW n \in Nodes, KillNode(n) \/ RestartNodeKills(n) \/ RestartNodeFails(n)
      PROVE  Lifecycle!Next
  <2>1. \A p \in Procs : posted[p] \subseteq posted'[p] /\ phase'[p] = phase[p]
    BY <1>3 DEF KillNode, RestartNodeKills, RestartNodeFails, KillEffect, TypeOK
  <2> QED BY <1>3, <2>1, EndingIsEnd DEF KillNode, RestartNodeKills, RestartNodeFails
<1>4. ASSUME StopAll \/ StopAllReturns PROVE Lifecycle!Next
  <2>1. \A p \in Procs : posted[p] \subseteq posted'[p] /\ phase'[p] = phase[p]
    BY <1>4 DEF StopAll, StopAllReturns
  <2> QED BY <1>4, <2>1, EndingIsEnd DEF StopAll, StopAllReturns
<1>5. ASSUME NEW p \in Procs, Background(p) PROVE Lifecycle!Next
  <2>1. p = <<p[1], p[2]>>
    BY DEF Procs
  <2>2. \A q \in Procs : /\ posted[q] \subseteq posted'[q]
                         /\ phase'[q] = phase[q] \/ phase'[q] \notin {"up", "frozen"}
    BY <1>5, <2>1 DEF Background, ProcessExits, ProcessDies, WatchCtx, GraceExpires,
         MonitorReaps, MonitorRecords, TypeOK
  <2>3. UNCHANGED <<spawned, parent, ctxDone>>
    BY <1>5 DEF Background, ProcessExits, ProcessDies, WatchCtx, GraceExpires,
         MonitorReaps, MonitorRecords
  <2> QED BY <2>2, <2>3, EndingIsEnd DEF Alive
<1>6. ASSUME NEW C \in SUBSET Contexts, CancelContexts(C) PROVE Lifecycle!Next
  BY <1>6, EndingIsEnd DEF CancelContexts
<1>7. CASE Next
  BY <1>1, <1>2, <1>3, <1>4, <1>5, <1>6, <1>7, PauseResumeStep DEF Next, Method
<1>8. CASE UNCHANGED vars
  <2>1. \A n \in Nodes : LiveOf(n)' = LiveOf(n)
    BY <1>8 DEF vars, LiveOf, Cmd, Alive, Doomed, Cancelled
  <2> QED BY <1>8, <2>1, EndStep DEF vars
<1> QED BY <1>7, <1>8

(* The detailed manager implements the abstract lifecycle: every node has  *)
(* at most one live instance, and a new one begins only after the end of   *)
(* the last.                                                               *)
THEOREM Refinement == Spec => ImplementsLifecycle
<1>1. Init => Lifecycle!Init
  BY DEF Init, Lifecycle!Init, LiveOf
<1> QED BY <1>1, NextRefines, Invariance, PTL DEF Spec, ImplementsLifecycle, Lifecycle!Spec
=============================================================================
