----------------------------- MODULE Supervisor -----------------------------
(***************************************************************************)
(* The supervision of one attempt (execute of                              *)
(* internal/hardening/supervisor.go): a command line is started as leader  *)
(* of a process group of its own, its descendants are looked for every     *)
(* 100 ms, and in the end whatever was found is killed.                    *)
(*                                                                         *)
(* The kernel's table of processes is external.  A PID is used again once  *)
(* its process and its process group are gone, and then belongs to another *)
(* process with another start time, here the number of its birth.  SIGKILL *)
(* is sent by one step and delivered by another; until then the process    *)
(* goes on.  A scan of /proc is one step, and so is the comparison of an   *)
(* identity with the sending of the signal that follows.                   *)
(***************************************************************************)
EXTENDS Naturals, FiniteSets, Deadline

CONSTANTS
  MaxPid,    \* bound: PIDs that are in use at a time; the command line has 1
  MaxBirths  \* bound: processes that are started

ASSUME SupervisorAssumption == MaxPid \in Nat \ {0} /\ MaxBirths \in Nat \ {0}

Pids == 1 .. MaxPid
Reaper == 0  \* the parent of orphans

VARIABLES
  procs,    \* what runs under each PID
  births,   \* how many processes have had it
  owned,    \* the identities that scans have found, one per PID
  everOwned,  \* auxiliary: all identities ever found that are still alive
  watch,    \* where execute is: "idle", "watch", "stop", "kill",
            \* "sweep" or "returned"
  code,     \* the exit of the command line: "none", "zero" or "other"
  why,      \* why it was stopped, or ""
  harmed    \* auxiliary: a process that is none of ours was killed

supervisorVars == <<procs, births, owned, everOwned, watch, code, why, harmed>>
tableVars == <<procs, births>>

(* kin: "cli", "own" for its descendants, "other" for everybody else;      *)
(* doomed: SIGKILL was sent to it.                                         *)
NoProcess == [kin |-> "none", parent |-> Reaper, group |-> 0, doomed |-> FALSE]
Process(kin, parent, group) ==
  [kin |-> kin, parent |-> parent, group |-> group, doomed |-> FALSE]

IdleTable == [p \in Pids |-> NoProcess]

SupervisorInit ==
  /\ procs = IdleTable /\ births = [p \in Pids |-> 0]
  /\ owned = {} /\ everOwned = {} /\ watch = "idle" /\ code = "none"
  /\ why = "" /\ harmed = FALSE

Identity(p) == [pid |-> p, birth |-> births[p]]
Cli == [pid |-> 1, birth |-> 1]

Alive(id) == procs[id.pid] # NoProcess /\ births[id.pid] = id.birth

-----------------------------------------------------------------------------
(* The kernel.                                                             *)

Started == {b \in Pids \X (1 .. MaxBirths) : b[2] <= births[b[1]]}

Free(p) ==
  /\ procs[p] = NoProcess /\ \A q \in Pids : procs[q].group # p
  /\ Cardinality(Started) < MaxBirths

Born(p, process) ==
  /\ Free(p)
  /\ procs' = [procs EXCEPT ![p] = process]
  /\ births' = [births EXCEPT ![p] = @ + 1]

(* The table without some of its processes, whose children are orphans.    *)
Without(dead) ==
  [p \in Pids |->
    IF p \in dead THEN NoProcess
    ELSE IF procs[p].parent \in dead THEN [procs[p] EXCEPT !.parent = Reaper]
    ELSE procs[p]]

StillAlive(ids, dead) == {id \in ids : Alive(id) /\ id.pid \notin dead}

(* A child stays in the group of its parent or, as the nodes do, leads a   *)
(* group of its own.                                                       *)
Fork ==
  \E p, c \in Pids :
    /\ procs[p].kin \in {"cli", "own"}
    /\ \E group \in {c, procs[p].group} : Born(c, Process("own", p, group))
    /\ UNCHANGED <<owned, everOwned, watch, code, why, harmed>>

(* A process of somebody else matters when it gets a PID that was ours.    *)
OtherStarts ==
  \E p \in Pids :
    /\ births[p] > 0 /\ Born(p, Process("other", Reaper, p))
    /\ UNCHANGED <<owned, everOwned, watch, code, why, harmed>>

Exit ==
  \E p \in Pids :
    /\ procs[p].kin \in {"own", "other"}
    /\ procs' = Without({p}) /\ everOwned' = StillAlive(everOwned, {p})
    /\ UNCHANGED <<births, owned, watch, code, why, harmed>>

(* By itself or for SIGTERM; the goroutine in cmd.Wait reaps it.           *)
CliExits ==
  /\ procs[1].kin = "cli"
  /\ procs' = Without({1}) /\ code' \in {"zero", "other"}
  /\ UNCHANGED <<births, owned, everOwned, watch, why, harmed>>

(* SIGKILL is delivered.                                                   *)
Dies(p) ==
  /\ procs[p].doomed
  /\ procs' = Without({p}) /\ everOwned' = StillAlive(everOwned, {p})
  /\ code' = IF procs[p].kin = "cli" THEN "other" ELSE code
  /\ UNCHANGED <<births, owned, watch, why, harmed>>

(* It goes on when execute has returned.                                   *)
Environment ==
  /\ watch # "idle"
  /\ Fork \/ OtherStarts \/ Exit \/ CliExits \/ \E p \in Pids : Dies(p)

-----------------------------------------------------------------------------
(* trackDescendants and signalOwned.                                       *)

(* The descendants of a set of PIDs that can be reached over living        *)
(* parents: the least set that is closed under the recursion.              *)
Descendants(roots) ==
  LET Closed(S) == roots \subseteq S /\ \A p \in Pids : procs[p].parent \in S => p \in S
      reached == {p \in Pids : \A S \in SUBSET Pids : Closed(S) => p \in S}
  IN  {p \in reached : procs[p].parent \in reached}

Found(ids) ==
  {Identity(p) : p \in Descendants({id.pid : id \in {i \in ids : Alive(i)}})}

(* Mutant: the map is made anew by every scan.                             *)
FoundNow(found) == found

(* A PID that is found again replaces what was owned under it.             *)
WithFound(found) == found \union {id \in owned : \A f \in found : f.pid # id.pid}

Track(ids) ==
  /\ owned' = WithFound(Found(ids))
  /\ everOwned' = StillAlive(everOwned, {}) \union Found(ids)

(* Mutant: the start time is not compared.                                 *)
SamePid(ids) ==
  LET leaders == {id.pid : id \in {i \in ids : procs[i.pid] # NoProcess}}
  IN  {p \in Pids : p \in leaders \/ procs[p].group \in leaders}

(* Whom SIGKILL is sent to: every process of "ids" that is still the same, *)
(* and its whole group if it leads one.                                    *)
Targets(ids) ==
  LET same == {id.pid : id \in {i \in ids : Alive(i)}}
  IN  {p \in Pids : p \in same \/ (procs[p].group \in same /\ procs[p] # NoProcess)}

SignalOwned(ids) ==
  /\ procs' = [p \in Pids |->
       IF p \in Targets(ids) THEN [procs[p] EXCEPT !.doomed = TRUE] ELSE procs[p]]
  /\ harmed' = (harmed \/ \E p \in Targets(ids) : procs[p].kin = "other")

-----------------------------------------------------------------------------
(* execute.                                                                *)

Starts ==
  /\ procs' = [IdleTable EXCEPT ![1] = Process("cli", Reaper, 1)]
  /\ births' = [p \in Pids |-> IF p = 1 THEN 1 ELSE 0]
  /\ owned' = {} /\ everOwned' = {} /\ watch' = "watch" /\ code' = "none"
  /\ why' = "" /\ UNCHANGED harmed

(* The process cannot be started, or not be identified.                    *)
StartFails ==
  /\ watch' = "returned" /\ code' = "other" /\ why' = "CRASHED"
  /\ UNCHANGED <<tableVars, owned, everOwned, harmed>>

Done == code # "none"

(* The ticker.                                                             *)
Scan ==
  /\ watch = "watch" /\ Track(owned \union {Cli})
  /\ UNCHANGED <<tableVars, watch, code, why, harmed>>

Finish ==
  /\ watch = "watch" /\ Done
  /\ watch' = "sweep"
  /\ UNCHANGED <<tableVars, owned, everOwned, code, why, harmed>>

(* One last look at the descendants of the command line, and SIGTERM.      *)
StopFor(r) ==
  /\ watch = "watch"
  /\ watch' = "stop" /\ why' = r /\ Track({Cli})
  /\ UNCHANGED <<tableVars, code, harmed>>

Interrupted == ContextDone /\ StopFor("INTERRUPTED")
TimesOut == StopFor("TIMED_OUT")
StorageFull == StopFor("STORAGE_LIMIT")

Stopped ==
  /\ watch = "stop" /\ Done
  /\ watch' = "sweep"
  /\ UNCHANGED <<tableVars, owned, everOwned, code, why, harmed>>

(* After three seconds.  Descendants that are only found now are left to   *)
(* the sweep.                                                              *)
KillOwned ==
  /\ watch = "stop"
  /\ watch' = "kill"
  /\ SignalOwned(owned)
  /\ owned' = WithFound(Found(owned))
  /\ everOwned' = StillAlive(everOwned, {}) \union Found(owned)
  /\ UNCHANGED <<births, code, why>>

(* Mutant: only the descendants are killed.                                *)
LeaveCli ==
  /\ watch = "kill"
  /\ watch' = "sweep"
  /\ UNCHANGED <<tableVars, owned, everOwned, code, why, harmed>>

KillCli ==
  /\ watch = "kill"
  /\ watch' = "sweep"
  /\ SignalOwned({Cli})
  /\ UNCHANGED <<births, owned, everOwned, code, why>>

(* Whatever is left of the owned processes is sent SIGKILL, which nobody   *)
(* waits for, and a last look at the sizes.                                *)
Sweep ==
  /\ watch = "sweep" /\ Done
  /\ watch' = "returned"
  /\ SignalOwned(owned)
  /\ why' \in IF why = "" THEN {"", "STORAGE_LIMIT"} ELSE {why}
  /\ UNCHANGED <<births, owned, everOwned, code>>

Stopping == Finish \/ Stopped \/ KillOwned \/ KillCli \/ Sweep

SupervisorNext ==
  \/ Environment
  \/ watch = "idle" /\ (Starts \/ StartFails)
  \/ Scan \/ Interrupted \/ TimesOut \/ StorageFull
  \/ Stopping

(* The context that ends the matrix may be done at any time.               *)
SupervisedNext ==
  \/ SupervisorNext /\ UNCHANGED <<cancelled, expired>>
  \/ Cancel /\ UNCHANGED <<supervisorVars, expired>>
  \/ Expire /\ UNCHANGED <<supervisorVars, cancelled>>

supervisedVars == <<supervisorVars, cancelled, expired>>

SupervisorSpec ==
  /\ SupervisorInit /\ cancelled = FALSE /\ expired = FALSE
  /\ [][SupervisedNext]_supervisedVars
-----------------------------------------------------------------------------
(* Only processes that descend from the attempt's command line are killed, *)
(* however PIDs are used again between a scan and the signal.              *)
OnlyOwnAreKilled == ~harmed

(* When execute has returned, every process that any of its scans has ever *)
(* found is dead or has been sent SIGKILL, orphans included.               *)
SeenAreKilled ==
  watch = "returned" => \A id \in everOwned : Alive(id) => procs[id.pid].doomed

(* The supervision of an attempt is an Execution: it returns whatever the  *)
(* command line and its descendants do, and reports an interrupt only      *)
(* after one.                                                              *)
Promise ==
  INSTANCE Execution WITH
    stage <- IF watch \in {"idle", "returned"} THEN watch ELSE "running",
    exit <- IF watch = "returned" THEN code ELSE "none",
    reason <- IF watch = "returned" THEN why ELSE ""
ImplementsExecution == Promise!ExecutionSpec
=============================================================================
