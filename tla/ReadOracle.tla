----------------------------- MODULE ReadOracle -----------------------------
(***************************************************************************)
(* The read-after-write oracle: the client workers of                      *)
(* internal/workload/generator.go that put and get one key, the history    *)
(* they record with timestamps in whole milliseconds, and                  *)
(* internal/checkers/read_after_write.go, which judges that history.       *)
(*                                                                         *)
(* The store under test is external: a register whose operations take      *)
(* effect at one moment between invocation and reply, or, if it is not     *)
(* linearizable, one whose gets may answer with anything it ever held.     *)
(* A put that fails at the client may have taken effect, or take effect    *)
(* later.  Every put writes a value of its own, "<op id>-<random>", so a   *)
(* value is the identity of its put.                                       *)
(***************************************************************************)
EXTENDS Naturals, FiniteSets

CONSTANTS
  Clients,
  MaxTime,       \* bound: the clock, in milliseconds, at least 1
  MaxOps         \* bound: operations of all clients together, a natural number

VARIABLES
  linearizable,  \* whether the store is correct
  now,         \* milliseconds since the start of the run
  value,       \* the store: the put it holds, or None
  applied,     \* the store: every value it has ever held
  late,        \* failed puts that may still take effect
  worker,      \* of every client, the operation it is executing
  ops,         \* how many operations were started
  history,     \* the recorded operations
  tied,        \* auxiliary: a put ended in the millisecond in which a
               \* get had begun, but after it
  concurrent,  \* auxiliary: two operations overlapped, or one failed
  wrong        \* auxiliary: a get did not answer with the held value

serviceVars == <<value, applied, late>>
auxVars == <<tied, concurrent, wrong>>
vars == <<linearizable, now, serviceVars, worker, ops, history, auxVars>>

None == 0
OpIds == 1 .. MaxOps
Values == OpIds \cup {None}

(* The value of a put is its own id; a get has the value that was read.    *)
Records == [id : OpIds, op : {"PUT", "GET"}, value : Values,
            start : Nat, end : Nat, status : {"ok", "fail"}]

Phases == {"idle", "sent", "replied"}

TypeOK ==
  /\ linearizable \in BOOLEAN
  /\ now \in 0 .. MaxTime
  /\ value \in Values
  /\ applied \subseteq OpIds
  /\ late \subseteq OpIds
  /\ worker \in [Clients -> [phase : Phases, id : Values, op : {"PUT", "GET"},
                             at : 0 .. MaxTime, value : Values]]
  /\ ops \in 0 .. MaxOps
  /\ history \subseteq Records
  /\ \A h \in history : h.start <= h.end /\ h.end <= now
  /\ <<tied, concurrent, wrong>> \in BOOLEAN \X BOOLEAN \X BOOLEAN

Resting(t) == [phase |-> "idle", id |-> None, op |-> "GET", at |-> t, value |-> None]

Init ==
  /\ linearizable \in BOOLEAN
  /\ now = 1
  /\ value = None
  /\ applied = {}
  /\ late = {}
  /\ worker = [c \in Clients |-> Resting(0)]
  /\ ops = 0
  /\ history = {}
  /\ tied = FALSE
  /\ concurrent = FALSE
  /\ wrong = FALSE

----------------------------------------------------------------------------
Busy(c) == worker[c].phase # "idle"

Tick ==
  /\ now < MaxTime
  /\ now' = now + 1
  /\ UNCHANGED <<linearizable, serviceVars, worker, ops, history, auxVars>>

(* The worker sleeps at least 50 ms between two operations.                *)
Invoke(c, op) ==
  /\ ~Busy(c) /\ ops < MaxOps /\ worker[c].at < now
  /\ ops' = ops + 1
  /\ worker' = [worker EXCEPT ![c] = [phase |-> "sent", id |-> ops', op |-> op, at |-> now,
                                      value |-> IF op = "PUT" THEN ops' ELSE None]]
  /\ concurrent' = (concurrent \/ \E d \in Clients : Busy(d) \/ worker[d].at = now)
  /\ UNCHANGED <<linearizable, now, serviceVars, history, tied, wrong>>

ServePut(c) ==
  /\ worker[c].phase = "sent" /\ worker[c].op = "PUT"
  /\ value' = worker[c].id
  /\ applied' = applied \cup {worker[c].id}
  /\ worker' = [worker EXCEPT ![c].phase = "replied"]
  /\ UNCHANGED <<linearizable, now, late, ops, history, auxVars>>

ServeGet(c) ==
  /\ worker[c].phase = "sent" /\ worker[c].op = "GET"
  /\ \E v \in IF linearizable THEN {value} ELSE applied \cup {None} :
       /\ worker' = [worker EXCEPT ![c].phase = "replied", ![c].value = v]
       /\ wrong' = (wrong \/ v # value)
  /\ UNCHANGED <<linearizable, now, serviceVars, ops, history, tied, concurrent>>

Recorded(c, status) ==
  LET w == worker[c]
  IN [id |-> w.id, op |-> w.op, value |-> w.value, start |-> w.at, end |-> now, status |-> status]

GetBeganNow ==
  \/ \E d \in Clients : Busy(d) /\ worker[d].op = "GET" /\ worker[d].at = now
  \/ \E h \in history : h.op = "GET" /\ h.start = now

CompleteOk(c) ==
  /\ worker[c].phase = "replied"
  /\ history' = history \cup {Recorded(c, "ok")}
  /\ tied' = (tied \/ (worker[c].op = "PUT" /\ GetBeganNow))
  /\ worker' = [worker EXCEPT ![c] = Resting(now)]
  /\ UNCHANGED <<linearizable, now, serviceVars, ops, concurrent, wrong>>

(* The request or the reply is lost, or the operation is blocked or times  *)
(* out; a put that was not served yet may be served later.                 *)
CompleteFail(c) ==
  /\ Busy(c)
  /\ history' = history \cup {Recorded(c, "fail")}
  /\ \/ UNCHANGED late
     \/ worker[c].op = "PUT" /\ worker[c].phase = "sent" /\ late' = late \cup {worker[c].id}
  /\ worker' = [worker EXCEPT ![c] = Resting(now)]
  /\ concurrent' = TRUE
  /\ UNCHANGED <<linearizable, now, value, applied, ops, tied, wrong>>

ServeLate(id) ==
  /\ id \in late
  /\ late' = late \ {id}
  /\ value' = id
  /\ applied' = applied \cup {id}
  /\ UNCHANGED <<linearizable, now, worker, ops, history, auxVars>>

Next ==
  \/ Tick
  \/ \E c \in Clients :
       \/ \E op \in {"PUT", "GET"} : Invoke(c, op)
       \/ ServePut(c) \/ ServeGet(c) \/ CompleteOk(c) \/ CompleteFail(c)
  \/ \E id \in OpIds : ServeLate(id)

Spec == Init /\ [][Next]_vars

----------------------------------------------------------------------------
(* ReadAfterWriteChecker.Check                                             *)

Puts == {h \in history : h.op = "PUT"}
Gets == {h \in history : h.op = "GET" /\ h.status = "ok"}

AcknowledgedBefore(get) == {p \in Puts : p.status = "ok" /\ p.end <= get.start}

(* Mutant of Candidates: a failed write is taken to have had no effect.    *)
CandidatesThatSucceeded(get) ==
  {p \in Puts : p.status = "ok" /\ p.start <= get.end /\ p.value = get.value}

Candidates(get) == {p \in Puts : p.start <= get.end /\ p.value = get.value}

(* Mutant of ValidCandidate: any attempt to write the value excuses the    *)
(* read, however old it is.                                                *)
AnyCandidateIsValid(p, get) == p.status \in {"ok", "fail"}

(* A failed write is indeterminate and therefore always a valid candidate. *)
ValidCandidate(p, get) ==
  p.status = "ok" => \A newer \in AcknowledgedBefore(get) : p.end >= newer.start

Violates(get) ==
  IF get.value = None THEN AcknowledgedBefore(get) # {}
  ELSE \A p \in Candidates(get) : ~ValidCandidate(p, get)

Reported == \E get \in Gets : Violates(get)

----------------------------------------------------------------------------
(* Correctness                                                             *)

(* The history is complete, as it is when the checkers run.                *)
Ended == \A c \in Clients : ~Busy(c)

(* No false positive: a linearizable store is not reported, whatever fails *)
(* or takes effect late, unless a put and a concurrent get share the       *)
(* millisecond in which one ends and the other begins.                     *)
NoFalseReport == linearizable /\ Ended /\ ~tied => ~Reported

(* Exact on sequential histories: when no operation failed or overlapped   *)
(* another, the checker reports the run just when some get did not answer  *)
(* with the last value written.                                            *)
SequentialIsExact == Ended /\ ~concurrent => (Reported <=> wrong)

============================================================================
