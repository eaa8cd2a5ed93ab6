------------------------------ MODULE Oracles ------------------------------
(***************************************************************************)
(* A run has one target: a cluster that elects leaders, which the monitor  *)
(* polls, a store of keys, which the clients read and write, or a lock     *)
(* service, of which they acquire a lease.  The configuration names the    *)
(* checkers that suit it (GetChecker of internal/checkers/registry.go);    *)
(* the clients of a store and of a lock service are the same workers.      *)
(***************************************************************************)
EXTENDS LeaderOracle

CONSTANTS
  Checkers,   \* the checkers that the configurations name
  Clients, MaxTime, MaxOps, Lifetimes, Services, MaxLate

CheckerNames == {"no_two_leaders", "read_after_acknowledged_write", "lock_exclusivity"}

ASSUME CheckersAssumption == Checkers \subseteq CheckerNames
ASSUME WorkloadAssumption ==
  /\ MaxTime \in Nat \ {0} /\ MaxOps \in Nat /\ MaxLate \in Nat
  /\ Lifetimes \subseteq Nat \ {0}
  /\ Services \subseteq [exclusive : BOOLEAN, lossy : BOOLEAN]

VARIABLES
  checker,  \* the checker of this run
  now, worker, ops, history, late,
  linearizable, value, applied, tied, concurrent, wrong,
  service, leases, tokens, lastEnd, certain, shared, silent

workloadVars == <<now, worker, ops, history, late>>
storeVars == <<linearizable, value, applied, tied, concurrent, wrong>>
lockVars == <<service, leases, tokens, lastEnd, certain, shared, silent>>

Reads == INSTANCE ReadOracle
Locks == INSTANCE LockOracle

(* The target that this run does not have stays as it is.                  *)
NoStore ==
  /\ linearizable = TRUE /\ value = Reads!None /\ applied = {}
  /\ tied = FALSE /\ concurrent = FALSE /\ wrong = FALSE

NoLocks ==
  /\ service = [exclusive |-> TRUE, lossy |-> FALSE]
  /\ leases = {} /\ tokens = 0 /\ lastEnd = 0
  /\ certain = [c \in Clients |-> 0] /\ shared = FALSE /\ silent = {}

OraclesInit ==
  /\ checker \in Checkers
  /\ Init
  /\ checker # "no_two_leaders" => cluster = CHOOSE c \in Clusters : TRUE
  /\ IF checker = "lock_exclusivity" THEN Locks!Init /\ NoStore ELSE Reads!Init /\ NoLocks
  /\ checker = "no_two_leaders" => linearizable

WatchLeaders ==
  /\ checker = "no_two_leaders" /\ Next
  /\ UNCHANGED <<checker, workloadVars, storeVars, lockVars>>

WatchReads ==
  /\ checker = "read_after_acknowledged_write" /\ Reads!Next
  /\ UNCHANGED <<checker, vars, lockVars>>

WatchLocks ==
  /\ checker = "lock_exclusivity" /\ Locks!Next
  /\ UNCHANGED <<checker, vars, storeVars>>

OraclesNext == WatchLeaders \/ WatchReads \/ WatchLocks

OraclesSpec ==
  OraclesInit /\ [][OraclesNext]_<<checker, vars, workloadVars, storeVars, lockVars>>
----------------------------------------------------------------------------
JudgesReads == checker = "read_after_acknowledged_write"
JudgesLocks == checker = "lock_exclusivity"

(* No linearizable store is reported by read_after_acknowledged_write,     *)
(* whatever fails or takes effect late, unless a put and a concurrent get  *)
(* share the millisecond in which one ends and the other begins.           *)
ReadsNoFalseReport == JudgesReads => Reads!NoFalseReport

(* When no operation failed or overlapped another, the checker reports the *)
(* run just when some get did not answer with the last value written.      *)
ReadsSequentialIsExact == JudgesReads => Reads!SequentialIsExact

(* No exclusive lock service is reported by lock_exclusivity as long as    *)
(* the history shows what the service did, whatever the delays, timeouts   *)
(* and duplicates.                                                         *)
LocksNoFalseReport == JudgesLocks => Locks!NoFalseReport

(* Two clients that could both be sure of owning the lease are reported,   *)
(* however their operations, failures and other grants go on.              *)
SharedLeaseIsReported == JudgesLocks => Locks!SharedLeaseIsReported

============================================================================
