----------------------------- MODULE LockOracle -----------------------------
(***************************************************************************)
(* The lock oracle: the client workers of internal/workload/generator.go   *)
(* that acquire and release leases of one key, the history they record,    *)
(* and internal/checkers/lock_exclusivity.go, which judges that history.   *)
(* What makes the oracle correct is stated about the two together with the *)
(* service under test: a service that grants the lease exclusively is not  *)
(* reported, and one that does not is.                                     *)
(*                                                                         *)
(* The service is external: a lease belongs to a session, lasts for a      *)
(* lifetime, is granted again to its session without being renewed, and is *)
(* released by its session only.  A client worker keeps one session for    *)
(* ever, so clients stand for sessions.  A reply may be lost, a request    *)
(* may be late, and the proxy may deliver it twice.                        *)
(***************************************************************************)
EXTENDS Naturals, FiniteSets, SequencesExt

CONSTANTS
  Clients,
  Lifetimes,   \* what a grant may last, positive milliseconds
  Services,    \* what the service and the network may be: records of
               \* exclusive: the lease is granted to one client at a time
               \* lossy: replies are lost, requests are late or duplicated
  MaxTime,     \* bound: the clock
  MaxOps,      \* bound: operations of all clients together
  MaxLate      \* bound: requests that are late at the same time

VARIABLES
  service,   \* which of Services is under test
  now,       \* milliseconds since the start of the run
  leases,    \* the service: the leases that are not released
  tokens,    \* the service: how many leases it has granted
  late,      \* requests that are still to reach the service
  worker,    \* of every client, the operation it is executing
  ops,       \* how many operations the clients have started
  history,   \* of every client, its successful operations in order
  lastEnd,   \* the largest EndMs of the history
  certain,   \* auxiliary: until when a client may believe it is the owner
  shared,    \* auxiliary: two clients could believe it at the same time
  silent     \* auxiliary: "grant" or "release" was done without an ok reply

vars == <<service, now, leases, tokens, late, worker, ops, history, lastEnd,
          certain, shared, silent>>

leaseVars == <<leases, tokens>>
auxVars == <<certain, shared, silent>>

Operations == {"LOCK", "UNLOCK"}
NoReply == [status |-> "none", token |-> 0, life |-> 0]
Refused == [status |-> "refused", token |-> 0, life |-> 0]
Granted(token, life) == [status |-> "ok", token |-> token, life |-> life]

Replies == [status : {"none", "refused", "ok"}, token : Nat, life : Nat]
Entries == [op : Operations, start : Nat, end : Nat, token : Nat, life : Nat]

TypeOK ==
  /\ service \in Services
  /\ now \in 0 .. MaxTime
  /\ leases \subseteq [owner : Clients, token : Nat, life : Lifetimes, expires : Nat]
  /\ tokens \in Nat
  /\ late \subseteq Clients \X Operations
  /\ worker \in [Clients -> [busy : BOOLEAN, op : Operations, at : Nat, reply : Replies]]
  /\ ops \in 0 .. MaxOps
  /\ history \in [Clients -> Seq(Entries)]
  /\ lastEnd \in 0 .. now
  /\ certain \in [Clients -> Nat]
  /\ shared \in BOOLEAN
  /\ silent \subseteq {"grant", "release"}

(* A worker between two operations, since time t.                          *)
Resting(t) == [busy |-> FALSE, op |-> "LOCK", at |-> t, reply |-> NoReply]

Init ==
  /\ service \in Services
  /\ now = 0
  /\ leases = {}
  /\ tokens = 0
  /\ late = {}
  /\ worker = [c \in Clients |-> Resting(0)]
  /\ ops = 0
  /\ history = [c \in Clients |-> <<>>]
  /\ lastEnd = 0
  /\ certain = [c \in Clients |-> 0]
  /\ shared = FALSE
  /\ silent = {}

----------------------------------------------------------------------------
(* The service                                                             *)

Live == {l \in leases : now < l.expires}

(* The service answers a request with reply.  A grant to the session that  *)
(* owns the lease repeats it, lifetime and all.                            *)
Acquires(c, reply) ==
  \/ \E l \in Live :
       /\ l.owner = c
       /\ reply = Granted(l.token, l.life)
       /\ UNCHANGED leaseVars
  \/ /\ \A l \in Live : l.owner # c
     /\ service.exclusive => Live = {}
     /\ \E life \in Lifetimes :
          /\ leases' = Live \cup {[owner |-> c, token |-> tokens + 1, life |-> life,
                                   expires |-> now + life]}
          /\ reply = Granted(tokens + 1, life)
     /\ tokens' = tokens + 1
  \/ /\ Live # {} /\ \A l \in Live : l.owner # c
     /\ reply = Refused
     /\ UNCHANGED leaseVars

Releases(c, reply) ==
  IF \E l \in Live : l.owner = c
  THEN /\ leases' = {l \in Live : l.owner # c}
       /\ reply = Granted(0, 0)
       /\ UNCHANGED tokens
  ELSE reply = Refused /\ UNCHANGED leaseVars

(* What the service may answer.                                           *)
Answers ==
  {Refused} \cup {Granted(t, life) : t \in 0 .. tokens + 1, life \in Lifetimes \cup {0}}

Handles(c, op, reply) ==
  IF op = "LOCK" THEN Acquires(c, reply) ELSE Releases(c, reply)

(* What a request changed at the service although no reply says so.        *)
Effects == (IF tokens' # tokens THEN {"grant"} ELSE {})
           \cup (IF \E l \in Live : l \notin leases' THEN {"release"} ELSE {})

----------------------------------------------------------------------------
(* A client worker: one operation at a time                                *)

Tick ==
  /\ now < MaxTime
  /\ now' = now + 1
  /\ shared' = (shared \/ \E c, d \in Clients :
                            c # d /\ now < certain[c] /\ now < certain[d])
  /\ UNCHANGED <<service, leases, tokens, late, worker, ops, history, lastEnd, certain, silent>>

(* The worker sleeps at least 50 ms between two operations.                *)
Invoke(c, op) ==
  /\ ~worker[c].busy /\ ops < MaxOps
  /\ worker[c].at < now
  /\ worker' = [worker EXCEPT ![c] = [busy |-> TRUE, op |-> op, at |-> now, reply |-> NoReply]]
  /\ ops' = ops + 1
  /\ certain' = [certain EXCEPT ![c] = IF op = "UNLOCK" THEN 0 ELSE @]
  /\ UNCHANGED <<service, now, leases, tokens, late, history, lastEnd, shared, silent>>

Serve(c) ==
  /\ worker[c].busy /\ worker[c].reply = NoReply
  /\ \E reply \in Answers :
       /\ Handles(c, worker[c].op, reply)
       /\ worker' = [worker EXCEPT ![c].reply = reply]
  /\ UNCHANGED <<service, now, late, ops, history, lastEnd, auxVars>>

(* A request that was not answered, or that the proxy duplicates, reaches  *)
(* the service later.                                                      *)
Leaves(c) ==
  \/ UNCHANGED late
  \/ service.lossy /\ Cardinality(late) < MaxLate /\ late' = late \cup {<<c, worker[c].op>>}

Rest(c) == worker' = [worker EXCEPT ![c] = Resting(now)]

(* The reply is recorded as "ok".                                          *)
CompleteOk(c) ==
  LET w == worker[c]
      known == \E h \in {history[c][i] : i \in DOMAIN history[c]} :
                 h.op = "LOCK" /\ h.token = w.reply.token
      until == w.at + w.reply.life
  IN /\ w.busy /\ w.reply.status = "ok"
     /\ history' = [history EXCEPT ![c] = Append(@,
          [op |-> w.op, start |-> w.at, end |-> now,
           token |-> w.reply.token, life |-> w.reply.life])]
     /\ lastEnd' = now
     /\ certain' = [certain EXCEPT ![c] = IF w.op = "LOCK" /\ ~known THEN until ELSE @]
     /\ Rest(c)
     /\ Leaves(c)
     /\ UNCHANGED <<service, now, leases, tokens, ops, shared, silent>>

(* Refused, or the reply is lost or too late: recorded as "fail", which    *)
(* for the checker only moves the end of the history.                      *)
CompleteFail(c) ==
  LET w == worker[c]
  IN /\ w.busy
     /\ w.reply = Refused \/ service.lossy
     /\ lastEnd' = now
     /\ silent' = silent \cup (IF w.reply.status # "ok" THEN {}
                               ELSE IF w.op = "LOCK" THEN {"grant"} ELSE {"release"})
     /\ Rest(c)
     /\ Leaves(c)
     /\ UNCHANGED <<service, now, leases, tokens, ops, history, certain, shared>>

ServeLate(c, op) ==
  /\ <<c, op>> \in late
  /\ late' = late \ {<<c, op>>}
  /\ \E reply \in Answers :
       Handles(c, op, reply)
  /\ silent' = silent \cup Effects
  /\ UNCHANGED <<service, now, worker, ops, history, lastEnd, certain, shared>>

Next ==
  \/ Tick
  \/ \E c \in Clients :
       \/ \E op \in Operations : Invoke(c, op) \/ ServeLate(c, op)
       \/ Serve(c) \/ CompleteOk(c) \/ CompleteFail(c)

Spec == Init /\ [][Next]_vars

----------------------------------------------------------------------------
(* LockExclusivityChecker.Check                                            *)

(* Mutant of Interval: the lifetime is counted from the reply.             *)
IntervalFromReply(h) ==
  LET deadline == h.end + h.life
  IN [start |-> h.end, token |-> h.token,
      end |-> IF deadline <= lastEnd THEN deadline ELSE lastEnd,
      reason |-> IF deadline <= lastEnd THEN "lease_expiry_bound" ELSE "history_end"]

(* The ownership that a grant proves: from its reply to the earliest       *)
(* moment at which it may have expired.                                    *)
Interval(h) ==
  LET deadline == h.start + h.life
  IN [start |-> h.end, token |-> h.token,
      end |-> IF deadline <= lastEnd THEN deadline ELSE lastEnd,
      reason |-> IF deadline <= lastEnd THEN "lease_expiry_bound" ELSE "history_end"]

(* Mutant of Lock: a repeated grant replaces the original one.             *)
LockReplaces(acc, h) ==
  IF acc.active # 0 /\ acc.intervals[acc.active].token = h.token
  THEN [acc EXCEPT !.intervals[acc.active] = Interval(h)]
  ELSE [active |-> Len(acc.intervals) + 1, intervals |-> Append(acc.intervals, Interval(h))]

(* active is the index of the interval that is not released, or 0.         *)
Lock(acc, h) ==
  IF acc.active # 0 /\ acc.intervals[acc.active].token = h.token
  THEN acc
  ELSE [active |-> Len(acc.intervals) + 1, intervals |-> Append(acc.intervals, Interval(h))]

Unlock(acc, h) ==
  LET i == acc.active
  IN IF i = 0 THEN acc
     ELSE [active |-> 0,
           intervals |-> IF h.start <= acc.intervals[i].end
                         THEN [acc.intervals EXCEPT ![i].end = h.start,
                                                    ![i].reason = "unlock_invoked"]
                         ELSE acc.intervals]

Round(acc, h) == IF h.op = "LOCK" THEN Lock(acc, h) ELSE Unlock(acc, h)

Intervals(c) ==
  LET round[i \in 0 .. Len(history[c])] ==
        IF i = 0 THEN [active |-> 0, intervals |-> <<>>]
        ELSE Round(round[i - 1], history[c][i])
  IN round[Len(history[c])].intervals

Overlap(i, j) ==
  LET from == IF i.start > j.start THEN i.start ELSE j.start
      to == IF i.end < j.end THEN i.end ELSE j.end
      endObserved(x) == to < x.end \/ x.reason = "history_end"
  IN from < to \/ (from = to /\ endObserved(i) /\ endObserved(j))

Reported ==
  \E c, d \in Clients :
    c # d /\ \E i \in ToSet(Intervals(c)), j \in ToSet(Intervals(d)) : Overlap(i, j)

----------------------------------------------------------------------------
(* Correctness                                                             *)

(* The history is complete, as it is when the checkers run.                *)
Ended == \A c \in Clients : ~worker[c].busy

(* The oracle has no false positive as long as the service does nothing    *)
(* that the history does not show: whatever the delays, timeouts and       *)
(* duplicates, an exclusive service is not reported.                       *)
NoFalseReport == service.exclusive /\ Ended /\ silent = {} => ~Reported

(* The oracle has no false negative where the history is conclusive: two   *)
(* clients that were both told that they own the lease, at a moment when   *)
(* neither had asked to release it and neither lease could have expired,   *)
(* are reported, unless the history cannot tell the moment from the next   *)
(* one: a clock tick must lie between.                                     *)
SharedLeaseIsReported == Ended /\ shared => Reported

============================================================================
