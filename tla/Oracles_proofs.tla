--------------------------- MODULE Oracles_proofs ---------------------------
(***************************************************************************)
(* Theorems about Oracles: what the checkers report, for any nodes,        *)
(* clients and numbers of sweeps, kills and operations, and any lock       *)
(* services and lifetimes.                                                 *)
(***************************************************************************)
EXTENDS Oracles, WellFoundedInduction, SequenceTheorems, TLAPS

-------------------------------------------------------------------------------
(* Loops over a sequence, which ReadOracle and LockOracle write as         *)
(* functions of the number of rounds made so far: induction over that      *)
(* number, for a set instead of a predicate, and that such a function is   *)
(* what its definition says.                                               *)

(* A set of numbers that has zero, and the successor of each of its        *)
(* members, has them all.                                                  *)
LEMMA SetInduction ==
  ASSUME NEW P \in SUBSET Nat, 0 \in P, \A n \in P : n + 1 \in P
  PROVE  P = Nat
<1> DEFINE R == OpToRel(<, Nat)
           T == Nat \ P
<1> SUFFICES ASSUME T # {} PROVE FALSE
  OBVIOUS
<1>1. IsWellFoundedOn(R, Nat)
  BY NatLessThanWellFounded
<1>2. \A x, y \in Nat : y < x => <<y, x>> \in R
  BY DEF OpToRel
<1> HIDE DEF R
<1>3. PICK x \in T : \A y \in T : <<y, x>> \notin R
  <2>1. T \subseteq Nat
    OBVIOUS
  <2> HIDE DEF T
  <2> QED BY <1>1, <2>1, WFMin
<1>4. x # 0 /\ x - 1 \in Nat /\ x - 1 < x
  OBVIOUS
<1>5. x - 1 \in P
  BY <1>2, <1>3, <1>4
<1>6. x - 1 + 1 \in P
  BY <1>5
<1> QED BY <1>3, <1>6

(* The steps of a loop of N rounds, and the values it goes through when it *)
(* begins with b.                                                          *)
Steps(N, S) == [1 .. N -> [S -> S]]
IsLoop(f, N, S, b, steps) ==
  /\ f \in [0 .. N -> S]
  /\ f[0] = b
  /\ \A i \in 1 .. N : f[i] = steps[i][f[i - 1]]

(* There is such a loop.                                                   *)
LEMMA LoopExists ==
  ASSUME NEW N \in Nat, NEW S, NEW b \in S, NEW steps \in Steps(N, S)
  PROVE  \E f : IsLoop(f, N, S, b, steps)
<1> USE DEF Steps
<1> DEFINE Loop(n, f) == f[0] = b /\ \A i \in 1 .. n : f[i] = steps[i][f[i - 1]]
           P == {n \in Nat : n <= N => \E f \in [0 .. n -> S] : Loop(n, f)}
<1>1. 0 \in P
  <2>1. Loop(0, [i \in 0 .. 0 |-> b])
    OBVIOUS
  <2> QED BY <2>1
<1>2. ASSUME NEW n \in P PROVE n + 1 \in P
  <2> SUFFICES ASSUME n + 1 <= N PROVE \E f \in [0 .. n + 1 -> S] : Loop(n + 1, f)
    OBVIOUS
  <2>1. PICK f \in [0 .. n -> S] : Loop(n, f)
    OBVIOUS
  <2>2. steps[n + 1] \in [S -> S] /\ f[n] \in S
    OBVIOUS
  <2> DEFINE g == [i \in 0 .. n + 1 |-> IF i = n + 1 THEN steps[n + 1][f[n]] ELSE f[i]]
  <2>3. g \in [0 .. n + 1 -> S]
    BY <2>2
  <2>4. Loop(n + 1, g)
    BY <2>1
  <2> QED BY <2>3, <2>4
<1>3. P = Nat
  <2>1. P \in SUBSET Nat
    OBVIOUS
  <2> HIDE DEF P
  <2> QED BY <1>1, <1>2, <2>1, SetInduction
<1>4. PICK f \in [0 .. N -> S] : Loop(N, f)
  BY <1>3
<1> QED BY <1>4 DEF IsLoop

-------------------------------------------------------------------------
(* The inductive invariant of the store and its clients                    *)

Puts == Reads!Puts
Gets == Reads!Gets
IsOk(h) == h.status = "ok"

Sent(c, op) == worker[c].phase = "sent" /\ worker[c].op = op
Answered(c, op) == worker[c].phase = "replied" /\ worker[c].op = op
Putting(c) == Reads!Busy(c) /\ worker[c].op = "PUT"

(* A put is recorded or under way under its own identity.                  *)
Written(v) == (\E p \in Puts : p.id = v) \/ (\E c \in Clients : Putting(c) /\ worker[c].id = v)

Identities ==
  /\ \A h \in history : h.id <= ops /\ (h.op = "PUT" => h.value = h.id)
  /\ \A h, k \in history : h.id = k.id => h = k
  /\ \A c \in Clients : worker[c].at <= now
  /\ \A c \in Clients : Reads!Busy(c) =>
       /\ worker[c].id \in 1 .. ops
       /\ Putting(c) => worker[c].value = worker[c].id
       /\ \A h \in history : h.id # worker[c].id
       /\ \A d \in Clients : Reads!Busy(d) /\ worker[d].id = worker[c].id => d = c
  /\ \A v \in late : \E p \in Puts : p.id = v /\ ~IsOk(p)
  /\ \A v \in applied : Written(v)
  /\ value \in applied \cup {None}

(* What was overwritten before it was acknowledged is not held again.      *)
Overwriting ==
  /\ \A c \in Clients : Answered(c, "PUT") => value # None
  /\ \A p \in Puts : IsOk(p) =>
       /\ value # None
       /\ \A q \in Puts : IsOk(q) /\ p.end < q.start => value # p.id
       /\ \A c \in Clients : Answered(c, "PUT") /\ p.end < worker[c].at => value # p.id

(* A get that began at a time may have read v.                             *)
Readable(v, time) ==
  /\ v = None => \A p \in Puts : IsOk(p) => time < p.end
  /\ \A p, q \in Puts : IsOk(p) /\ IsOk(q) /\ p.id = v /\ q.end <= time => q.start <= p.end

Freshness ==
  linearizable /\ ~tied =>
    /\ \A g \in Gets : Readable(g.value, g.start)
    /\ \A c \in Clients : Answered(c, "GET") => Readable(worker[c].value, worker[c].at)

(* What a get has read was written by a put that began before it ended.    *)
Sources ==
  /\ \A g \in Gets :
       \/ g.value = None
       \/ \E p \in Puts : p.id = g.value /\ p.start <= g.end
       \/ \E c \in Clients : Putting(c) /\ worker[c].id = g.value /\ worker[c].at <= g.end
  /\ \A c \in Clients : Answered(c, "GET") => worker[c].value = None \/ Written(worker[c].value)

(* As long as one operation follows the other.                             *)
Alone == \A c, d \in Clients : Reads!Busy(c) /\ Reads!Busy(d) => c = d

IsLast(v) ==
  \/ v = None /\ Puts = {}
  \/ \E p \in Puts : p.id = v /\ \A q \in Puts : q = p \/ q.end < p.start

Held ==
  IF \E c \in Clients : Answered(c, "PUT")
  THEN \E c \in Clients : Answered(c, "PUT") /\ value = worker[c].id
  ELSE IsLast(value)

Noticed ==
  \/ \E g \in Gets : Reads!Violates(g)
  \/ \E c \in Clients : Answered(c, "GET") /\ Reads!Violates(Reads!Recorded(c, "ok"))

Sequence ==
  ~concurrent =>
    /\ late = {} /\ \A h \in history : IsOk(h)
    /\ Alone
    /\ \A h \in history, c \in Clients : Reads!Busy(c) => h.end < worker[c].at
    /\ Held
    /\ wrong <=> Noticed

Traces == \A h \in history : \E c \in Clients : h.end <= worker[c].at

ReadsInv ==
  /\ Reads!TypeOK /\ Identities /\ Overwriting /\ Freshness /\ Sources
  /\ Sequence /\ Traces

----------------------------------------------------------------------------
(* Every action preserves it                                               *)

LEMMA ReadsInitially == Reads!Init /\ WorkloadAssumption => ReadsInv
<1> SUFFICES ASSUME Reads!Init, WorkloadAssumption PROVE ReadsInv
  OBVIOUS
<1> USE DEF Reads!Init, Reads!Resting, Reads!Busy, Reads!None, None, Puts, Gets,
            Reads!Puts, Reads!Gets, Sent, Answered, Putting
<1>1. Reads!TypeOK
  <2>1. now \in 0 .. MaxTime /\ ops \in 0 .. MaxOps
    BY DEF WorkloadAssumption
  <2>2. worker \in [Clients -> [phase : Reads!Phases, id : Reads!Values, op : {"PUT", "GET"},
                               at : 0 .. MaxTime, value : Reads!Values]]
    BY DEF WorkloadAssumption, Reads!Values, Reads!Phases
  <2>3. value \in Reads!Values
    BY DEF Reads!Values
  <2> QED BY <2>1, <2>2, <2>3 DEF Reads!TypeOK
<1>2. Identities
  BY DEF Identities
<1>3. Overwriting /\ Freshness /\ Sources /\ Traces
  BY DEF Overwriting, Freshness, Sources, Traces
<1>4. Sequence
  BY DEF Sequence, Alone, Held, IsLast, Noticed
<1> QED BY <1>1, <1>2, <1>3, <1>4 DEF ReadsInv

(* The numbers in the records, and what is under way.                      *)
LEMMA ReadNumbers ==
  ASSUME ReadsInv, WorkloadAssumption
  PROVE  /\ now \in Nat /\ ops \in Nat
         /\ \A h \in history :
              /\ h.start \in Nat /\ h.end \in Nat /\ h.start <= h.end /\ h.end <= now
              /\ h.id \in 1 .. ops /\ h.op \in {"PUT", "GET"} /\ h.status \in {"ok", "fail"}
         /\ \A c \in Clients :
              /\ worker[c].at \in Nat /\ worker[c].at <= now
              /\ worker[c].op \in {"PUT", "GET"}
              /\ worker[c].id \in Nat /\ worker[c].phase \in {"idle", "sent", "replied"}
<1>1. /\ MaxTime \in Nat /\ MaxOps \in Nat /\ now \in Nat /\ ops \in Nat
  BY WorkloadAssumption DEF WorkloadAssumption, ReadsInv, Reads!TypeOK
<1>2. \A h \in history : h \in Reads!Records /\ h.id <= ops /\ h.start <= h.end /\ h.end <= now
  BY DEF ReadsInv, Reads!TypeOK, Identities
<1>3. \A c \in Clients :
        /\ worker[c] \in [phase : Reads!Phases, id : Reads!Values, op : {"PUT", "GET"},
                          at : 0 .. MaxTime, value : Reads!Values]
        /\ worker[c].at <= now
  BY DEF ReadsInv, Reads!TypeOK, Identities
<1>4. \A h \in Reads!Records : /\ h.start \in Nat /\ h.end \in Nat /\ h.id \in 1 .. MaxOps
                              /\ h.op \in {"PUT", "GET"} /\ h.status \in {"ok", "fail"}
  BY DEF Reads!Records, Reads!OpIds
<1>5. \A c \in Clients :
        /\ worker[c].at \in Nat /\ worker[c].op \in {"PUT", "GET"}
        /\ worker[c].id \in Nat /\ worker[c].phase \in {"idle", "sent", "replied"}
  BY <1>1, <1>3 DEF Reads!Values, Reads!OpIds, Reads!None, Reads!Phases
<1> QED BY <1>1, <1>2, <1>3, <1>4, <1>5

LEMMA TickPreserves ==
  ASSUME ReadsInv, WorkloadAssumption, Reads!Tick
  PROVE  ReadsInv'
<1>1. /\ now < MaxTime /\ now' = now + 1 /\ now \in Nat
      /\ UNCHANGED <<linearizable, value, applied, late, worker, ops, history, tied,
                     concurrent, wrong>>
  BY DEF Reads!Tick, Reads!serviceVars, Reads!auxVars, ReadsInv, Reads!TypeOK
<1>2. /\ Puts' = Puts /\ Gets' = Gets
      /\ \A c \in Clients : /\ Reads!Busy(c)' = Reads!Busy(c) /\ Putting(c)' = Putting(c)
                            /\ Answered(c, "PUT")' = Answered(c, "PUT")
                            /\ Answered(c, "GET")' = Answered(c, "GET")
      /\ \A v : Written(v)' = Written(v)
  BY <1>1 DEF Puts, Gets, Reads!Puts, Reads!Gets, Reads!Busy, Putting, Answered, Written
<1>3. Reads!TypeOK'
  BY <1>1, WorkloadAssumption
  DEF ReadsInv, Reads!TypeOK, Reads!OpIds, Reads!Values, Reads!Phases, Reads!Records,
      WorkloadAssumption
<1>4. Identities'
  <2>1. \A c \in Clients : worker[c].at \in Nat /\ worker[c].at <= now
    BY DEF ReadsInv, Reads!TypeOK, Identities
  <2> QED BY <1>1, <1>2, <2>1 DEF ReadsInv, Identities
<1>5. Overwriting' /\ Freshness' /\ Sources' /\ Traces'
  BY <1>1, <1>2 DEF ReadsInv, Overwriting, Freshness, Readable, Sources, Traces
<1>6. Sequence'
  <2>1. Alone' = Alone /\ Held' = Held
    BY <1>1, <1>2 DEF Alone, Held, IsLast
  <2>2. \A g \in Gets : Reads!Violates(g)' = Reads!Violates(g)
    BY <1>1 DEF Reads!Violates, Reads!Candidates, Reads!AcknowledgedBefore,
       Reads!ValidCandidate, Reads!Puts
  <2>3. ASSUME NEW c \in Clients
        PROVE  Reads!Violates(Reads!Recorded(c, "ok"))' <=> Reads!Violates(Reads!Recorded(c, "ok"))
    <3>1. \A p \in Puts : p.start <= now /\ p.start <= now'
      BY <1>1 DEF ReadsInv, Reads!TypeOK, Reads!Records, Puts, Reads!Puts
    <3>2. Reads!Candidates(Reads!Recorded(c, "ok"))' = Reads!Candidates(Reads!Recorded(c, "ok"))
      BY <1>1, <1>2, <3>1 DEF Reads!Candidates, Reads!Recorded, Puts
    <3>3. Reads!AcknowledgedBefore(Reads!Recorded(c, "ok"))'
             = Reads!AcknowledgedBefore(Reads!Recorded(c, "ok"))
      BY <1>1, <1>2 DEF Reads!AcknowledgedBefore, Reads!Recorded, Puts
    <3> QED BY <1>1, <3>2, <3>3 DEF Reads!Violates, Reads!ValidCandidate, Reads!Recorded
  <2>4. Noticed' <=> Noticed
    BY <1>1, <1>2, <2>2, <2>3 DEF Noticed
  <2> QED BY <1>1, <1>2, <2>1, <2>4 DEF ReadsInv, Sequence
<1> QED BY <1>3, <1>4, <1>5, <1>6 DEF ReadsInv

LEMMA InvokePreserves ==
  ASSUME ReadsInv, WorkloadAssumption, NEW c \in Clients, NEW op \in {"PUT", "GET"},
         Reads!Invoke(c, op)
  PROVE  ReadsInv'
<1> DEFINE w == [phase |-> "sent", id |-> ops + 1, op |-> op, at |-> now,
                 value |-> IF op = "PUT" THEN ops + 1 ELSE None]
<1>1. /\ ~Reads!Busy(c) /\ ops < MaxOps /\ worker[c].at < now /\ ops' = ops + 1
      /\ worker' = [worker EXCEPT ![c] = w]
      /\ concurrent' = (concurrent \/ \E d \in Clients : Reads!Busy(d) \/ worker[d].at = now)
      /\ UNCHANGED <<linearizable, now, value, applied, late, history, tied, wrong>>
  BY DEF Reads!Invoke, Reads!serviceVars, None, Reads!None
<1>2. /\ worker \in [Clients -> [phase : Reads!Phases, id : Reads!Values, op : {"PUT", "GET"},
                                 at : 0 .. MaxTime, value : Reads!Values]]
      /\ now \in 0 .. MaxTime /\ MaxOps \in Nat /\ ops \in 0 .. MaxOps
  BY WorkloadAssumption DEF ReadsInv, Reads!TypeOK, WorkloadAssumption
<1>3. /\ worker'[c] = w
      /\ \A d \in Clients : d # c => worker'[d] = worker[d]
  BY <1>1, <1>2
<1>4. w \in [phase : Reads!Phases, id : Reads!Values, op : {"PUT", "GET"},
            at : 0 .. MaxTime, value : Reads!Values]
  BY <1>1, <1>2 DEF Reads!Phases, Reads!Values, Reads!OpIds, Reads!None, None
<1>5. Reads!TypeOK'
  <2>1. worker' \in [Clients -> [phase : Reads!Phases, id : Reads!Values, op : {"PUT", "GET"},
                                at : 0 .. MaxTime, value : Reads!Values]]
    BY <1>1, <1>2, <1>4
  <2>2. ops' \in 0 .. MaxOps
    BY <1>1, <1>2
  <2>3. concurrent' \in BOOLEAN
    BY <1>1
  <2> HIDE DEF w
  <2> QED BY <1>1, <2>1, <2>2, <2>3 DEF ReadsInv, Reads!TypeOK
<1>6. /\ w.phase = "sent" /\ w.id = ops + 1 /\ w.op = op /\ w.at = now
      /\ op = "PUT" => w.value = ops + 1
  OBVIOUS
<1> HIDE DEF w
<1>7. /\ Puts' = Puts /\ Gets' = Gets
      /\ Reads!Busy(c)' /\ (Putting(c)' <=> op = "PUT") /\ ~Putting(c)
      /\ ~Answered(c, "PUT")' /\ ~Answered(c, "GET")'
      /\ ~Answered(c, "PUT") /\ ~Answered(c, "GET")
  BY <1>1, <1>3, <1>6
  DEF Puts, Gets, Reads!Puts, Reads!Gets, Reads!Busy, Putting, Answered
<1>a. \A d \in Clients :
        d # c => /\ Reads!Busy(d)' = Reads!Busy(d)
                 /\ Putting(d)' = Putting(d)
                 /\ Answered(d, "PUT")' = Answered(d, "PUT")
                 /\ Answered(d, "GET")' = Answered(d, "GET")
  BY <1>3 DEF Reads!Busy, Putting, Answered
<1>8. \A v : Written(v) => Written(v)'
  BY <1>3, <1>7, <1>a DEF Written
<1>9. Identities'
  <2>1. \A h \in history : h.id < ops + 1
    BY ReadNumbers
  <2>2. \A d \in Clients : Reads!Busy(d) => worker[d].id < ops + 1
    BY ReadNumbers DEF ReadsInv, Identities
  <2>3. \A h \in history : h.id <= ops' /\ (h.op = "PUT" => h.value = h.id)
    BY <1>1, ReadNumbers DEF ReadsInv, Identities
  <2>4. \A d \in Clients : worker'[d].at <= now
    BY <1>1, <1>3, <1>6, ReadNumbers
  <2>5. ASSUME NEW d \in Clients, Reads!Busy(d)'
        PROVE  /\ worker'[d].id \in 1 .. ops'
               /\ Putting(d)' => worker'[d].value = worker'[d].id
               /\ \A h \in history : h.id # worker'[d].id
               /\ \A e \in Clients : Reads!Busy(e)' /\ worker'[e].id = worker'[d].id => e = d
    <3>1. CASE d = c
      BY <1>1, <1>2, <1>3, <1>6, <1>7, <1>a, <2>1, <2>2, <3>1, ReadNumbers
    <3>2. CASE d # c
      <4>1. worker'[d] = worker[d] /\ Reads!Busy(d) /\ (Putting(d)' <=> Putting(d))
        BY <1>3, <1>7, <1>a, <2>5, <3>2
      <4>2. /\ worker[d].id \in 1 .. ops
            /\ Putting(d) => worker[d].value = worker[d].id
            /\ \A h \in history : h.id # worker[d].id
            /\ \A e \in Clients : Reads!Busy(e) /\ worker[e].id = worker[d].id => e = d
        BY <4>1 DEF ReadsInv, Identities
      <4>3. worker'[c].id # worker'[d].id
        BY <1>3, <1>6, <2>2, <4>1, ReadNumbers
      <4> QED BY <1>1, <1>3, <1>7, <1>a, <4>1, <4>2, <4>3, ReadNumbers
    <3> QED BY <3>1, <3>2
  <2> QED BY <1>1, <1>7, <1>a, <1>8, <2>3, <2>4, <2>5 DEF ReadsInv, Identities
<1>10. Overwriting'
  BY <1>1, <1>3, <1>7, <1>a DEF ReadsInv, Overwriting
<1>11. Freshness'
  BY <1>1, <1>3, <1>7, <1>a DEF ReadsInv, Freshness, Readable
<1>12. Sources'
  BY <1>1, <1>3, <1>7, <1>a, <1>8 DEF ReadsInv, Sources
<1>13. Traces'
  <2>1. \A d \in Clients : worker[d].at <= worker'[d].at
    BY <1>1, <1>3, <1>6, ReadNumbers
  <2>2. \A d \in Clients : worker'[d].at \in Nat
    BY <1>3, <1>6, ReadNumbers
  <2> QED BY <1>1, <2>1, <2>2, ReadNumbers DEF ReadsInv, Traces
<1>14. Sequence'
  <2> SUFFICES ASSUME ~concurrent'
               PROVE  Sequence'
    BY DEF Sequence
  <2>1. /\ ~concurrent /\ \A d \in Clients : ~Reads!Busy(d) /\ worker[d].at < now
    <3>1. ~concurrent /\ \A d \in Clients : ~(Reads!Busy(d) \/ worker[d].at = now)
      BY <1>1
    <3>2. \A d \in Clients : worker[d].at \in Nat /\ worker[d].at <= now /\ now \in Nat
      BY ReadNumbers
    <3> QED BY <3>1, <3>2
  <2>2. Alone'
    BY <1>7, <1>a, <2>1 DEF Alone
  <2>3. \A h \in history, d \in Clients : Reads!Busy(d)' => h.end < worker'[d].at
    <3>1. \A h \in history : h.end < now
      BY <2>1, ReadNumbers DEF ReadsInv, Traces
    <3> QED BY <1>3, <1>6, <1>7, <1>a, <2>1, <3>1
  <2>4. Held' <=> Held
    BY <1>1, <1>3, <1>7, <1>a DEF Held, IsLast
  <2>5. Noticed' <=> Noticed
    <3>1. \A g \in Gets : Reads!Violates(g)' <=> Reads!Violates(g)
      BY <1>1 DEF Reads!Violates, Reads!Candidates, Reads!AcknowledgedBefore,
         Reads!ValidCandidate, Reads!Puts
    <3>2. \A d \in Clients : ~Answered(d, "GET") /\ ~Answered(d, "GET")'
      BY <1>7, <1>a, <2>1 DEF Answered, Reads!Busy
    <3> QED BY <1>7, <1>a, <3>1, <3>2 DEF Noticed
  <2> QED BY <1>1, <2>1, <2>2, <2>3, <2>4, <2>5 DEF ReadsInv, Sequence
<1> QED BY <1>5, <1>9, <1>10, <1>11, <1>12, <1>13, <1>14 DEF ReadsInv

LEMMA ServePutPreserves ==
  ASSUME ReadsInv, WorkloadAssumption, NEW c \in Clients, Reads!ServePut(c)
  PROVE  ReadsInv'
<1> DEFINE W == [phase : Reads!Phases, id : Reads!Values, op : {"PUT", "GET"},
                 at : 0 .. MaxTime, value : Reads!Values]
<1>1. /\ worker[c].phase = "sent" /\ worker[c].op = "PUT"
      /\ worker' = [worker EXCEPT ![c].phase = "replied"]
      /\ value' = worker[c].id /\ applied' = applied \cup {worker[c].id}
      /\ UNCHANGED <<linearizable, now, late, ops, history, tied, concurrent, wrong>>
  BY DEF Reads!ServePut, Reads!auxVars
<1>2. worker \in [Clients -> W]
  BY DEF ReadsInv, Reads!TypeOK
<1>3. /\ worker' \in [Clients -> W]
      /\ worker'[c] = [worker[c] EXCEPT !.phase = "replied"]
      /\ \A d \in Clients : d # c => worker'[d] = worker[d]
  BY <1>1, <1>2 DEF Reads!Phases
<1>4. worker[c] \in W /\ worker'[c] \in W
  BY <1>2, <1>3
<1>5. /\ worker'[c].phase = "replied"
      /\ \A d \in Clients : /\ worker'[d].op = worker[d].op /\ worker'[d].id = worker[d].id
                            /\ worker'[d].at = worker[d].at
                            /\ worker'[d].value = worker[d].value
  BY <1>3, <1>4
<1>6. /\ Puts' = Puts /\ Gets' = Gets
      /\ Reads!Busy(c) /\ Reads!Busy(c)' /\ Putting(c) /\ Putting(c)'
      /\ Answered(c, "PUT")' /\ ~Answered(c, "GET") /\ ~Answered(c, "GET")'
  BY <1>1, <1>5 DEF Puts, Gets, Reads!Puts, Reads!Gets, Reads!Busy, Putting, Answered
<1>7. \A d \in Clients :
        d # c => /\ Reads!Busy(d)' = Reads!Busy(d)
                 /\ Putting(d)' = Putting(d)
                 /\ Answered(d, "PUT")' = Answered(d, "PUT")
                 /\ Answered(d, "GET")' = Answered(d, "GET")
  BY <1>3 DEF Reads!Busy, Putting, Answered
<1>8. \A d \in Clients : /\ Reads!Busy(d)' = Reads!Busy(d) /\ Putting(d)' = Putting(d)
                         /\ Answered(d, "GET")' = Answered(d, "GET")
  BY <1>1, <1>3, <1>5 DEF Reads!Busy, Putting, Answered
<1>9. worker[c].id \in 1 .. ops /\ \A h \in history : h.id # worker[c].id
  BY <1>6 DEF ReadsInv, Identities
<1>10. /\ \A v : Written(v) => Written(v)'
       /\ Written(worker[c].id)'
  BY <1>5, <1>6, <1>8 DEF Written
<1>11. Reads!TypeOK'
  <2>1. worker[c].id \in Reads!OpIds
    BY <1>4, <1>9 DEF Reads!Values, Reads!None
  <2> QED BY <1>1, <1>3, <2>1 DEF ReadsInv, Reads!TypeOK, Reads!Values
<1>12. Identities'
  BY <1>1, <1>5, <1>6, <1>8, <1>10 DEF ReadsInv, Identities
<1>13. Overwriting'
  <2>1. \A p \in Puts : p.id # worker[c].id
    BY <1>9 DEF Puts, Reads!Puts
  <2>2. value' # None
    BY <1>1, <1>9 DEF None
  <2> QED BY <1>1, <1>6, <2>1, <2>2 DEF Overwriting
<1>14. Freshness'
  BY <1>1, <1>5, <1>6, <1>8 DEF ReadsInv, Freshness, Readable
<1>15. Sources'
  BY <1>1, <1>5, <1>6, <1>8, <1>10 DEF ReadsInv, Sources
<1>16. Traces'
  BY <1>1, <1>5 DEF ReadsInv, Traces
<1>17. Sequence'
  <2> SUFFICES ASSUME ~concurrent PROVE Sequence'
    BY <1>1 DEF Sequence
  <2>1. Held'
    BY <1>1, <1>5, <1>6 DEF Held
  <2>2. Alone'
    BY <1>8 DEF ReadsInv, Sequence, Alone
  <2>3. Noticed' <=> Noticed
    <3>1. \A g \in Gets : Reads!Violates(g)' <=> Reads!Violates(g)
      BY <1>1 DEF Reads!Violates, Reads!Candidates, Reads!AcknowledgedBefore,
         Reads!ValidCandidate, Reads!Puts
    <3>2. \A d \in Clients : ~Answered(d, "GET")
      BY <1>6 DEF ReadsInv, Sequence, Alone, Answered, Reads!Busy
    <3> QED BY <1>6, <1>8, <3>1, <3>2 DEF Noticed
  <2> QED BY <1>1, <1>5, <1>6, <1>8, <2>1, <2>2, <2>3 DEF ReadsInv, Sequence
<1> QED BY <1>11, <1>12, <1>13, <1>14, <1>15, <1>16, <1>17 DEF ReadsInv

LEMMA ServeGetPreserves ==
  ASSUME ReadsInv, WorkloadAssumption, NEW c \in Clients, Reads!ServeGet(c)
  PROVE  ReadsInv'
<1> DEFINE W == [phase : Reads!Phases, id : Reads!Values, op : {"PUT", "GET"},
                 at : 0 .. MaxTime, value : Reads!Values]
<1>1. /\ worker[c].phase = "sent" /\ worker[c].op = "GET"
      /\ UNCHANGED <<linearizable, now, value, applied, late, ops, history, tied, concurrent>>
  BY DEF Reads!ServeGet, Reads!serviceVars
<1>2. PICK v \in IF linearizable THEN {value} ELSE applied \cup {None} :
        /\ worker' = [worker EXCEPT ![c].phase = "replied", ![c].value = v]
        /\ wrong' = (wrong \/ v # value)
  BY DEF Reads!ServeGet, None, Reads!None
<1>3. worker \in [Clients -> W] /\ value \in Reads!Values /\ applied \subseteq Reads!OpIds
  BY DEF ReadsInv, Reads!TypeOK
<1>4. v \in Reads!Values /\ v \in applied \cup {None}
  BY <1>3 DEF ReadsInv, Identities, Reads!Values, Reads!None, None
<1>5. /\ worker' \in [Clients -> W]
      /\ worker'[c] = [worker[c] EXCEPT !.phase = "replied", !.value = v]
      /\ \A d \in Clients : d # c => worker'[d] = worker[d]
  BY <1>2, <1>3, <1>4 DEF Reads!Phases
<1>6. worker[c] \in W
  BY <1>3
<1>7. /\ worker'[c].phase = "replied" /\ worker'[c].value = v
      /\ \A d \in Clients : /\ worker'[d].op = worker[d].op /\ worker'[d].id = worker[d].id
                            /\ worker'[d].at = worker[d].at
  BY <1>5, <1>6
<1>8. /\ Puts' = Puts /\ Gets' = Gets
      /\ Reads!Busy(c) /\ Reads!Busy(c)' /\ ~Putting(c) /\ ~Putting(c)'
      /\ Answered(c, "GET")' /\ ~Answered(c, "GET")
      /\ ~Answered(c, "PUT") /\ ~Answered(c, "PUT")'
  BY <1>1, <1>7 DEF Puts, Gets, Reads!Puts, Reads!Gets, Reads!Busy, Putting, Answered
<1>9. \A d \in Clients :
        d # c => /\ Reads!Busy(d)' = Reads!Busy(d)
                 /\ Putting(d)' = Putting(d)
                 /\ Answered(d, "PUT")' = Answered(d, "PUT")
                 /\ Answered(d, "GET")' = Answered(d, "GET")
  BY <1>5 DEF Reads!Busy, Putting, Answered
<1>10. \A d \in Clients : /\ Reads!Busy(d)' = Reads!Busy(d) /\ Putting(d)' = Putting(d)
                          /\ Answered(d, "PUT")' = Answered(d, "PUT")
  BY <1>1, <1>5, <1>7 DEF Reads!Busy, Putting, Answered
<1>11. \A x : Written(x) => Written(x)'
  BY <1>7, <1>8, <1>10 DEF Written
<1>12. Reads!TypeOK'
  BY <1>1, <1>2, <1>5 DEF ReadsInv, Reads!TypeOK
<1>13. Identities'
  BY <1>1, <1>5, <1>7, <1>8, <1>10, <1>11 DEF ReadsInv, Identities
<1>14. Overwriting'
  BY <1>1, <1>7, <1>8, <1>10 DEF ReadsInv, Overwriting
<1>15. Freshness'
  <2> SUFFICES ASSUME linearizable, ~tied PROVE Freshness'
    BY <1>1 DEF Freshness
  <2>1. Readable(value, worker[c].at)
    <3>1. ASSUME value = None, NEW p \in Puts, IsOk(p) PROVE worker[c].at < p.end
      BY <3>1 DEF ReadsInv, Overwriting
    <3>2. ASSUME NEW p \in Puts, NEW q \in Puts, IsOk(p), IsOk(q), p.id = value
          PROVE  q.start <= p.end
      <4>1. ~(p.end < q.start)
        BY <3>2 DEF ReadsInv, Overwriting
      <4> QED BY <4>1, ReadNumbers DEF Puts, Reads!Puts
    <3> QED BY <3>1, <3>2 DEF Readable
  <2>2. v = value
    OBVIOUS
  <2>3. \A d \in Clients :
          Answered(d, "GET")' => Readable(worker'[d].value, worker'[d].at)
    <3>1. ASSUME NEW d \in Clients, d # c, Answered(d, "GET")'
          PROVE  Readable(worker'[d].value, worker'[d].at)
      <4>1. Answered(d, "GET") /\ worker'[d] = worker[d]
        BY <1>5, <1>9, <3>1
      <4>2. Readable(worker[d].value, worker[d].at)
        BY <4>1 DEF ReadsInv, Freshness
      <4> QED BY <4>1, <4>2
    <3>2. Readable(worker'[c].value, worker'[c].at)
      BY <1>7, <2>1, <2>2
    <3> QED BY <3>1, <3>2
  <2> QED BY <1>1, <1>8, <2>3 DEF ReadsInv, Freshness, Readable
<1>16. Sources'
  <2>1. v = None \/ Written(v)
    BY <1>4 DEF ReadsInv, Identities
  <2>2. ASSUME NEW d \in Clients, NEW x, x = worker'[d].value, Answered(d, "GET")'
        PROVE  x = None \/ Written(x)'
    <3>1. CASE d = c
      BY <1>7, <1>11, <2>1, <2>2, <3>1
    <3>2. CASE d # c
      <4>1. Answered(d, "GET") /\ x = worker[d].value
        BY <1>5, <1>9, <2>2, <3>2
      <4>2. x = None \/ Written(x)
        BY <4>1 DEF ReadsInv, Sources
      <4> QED BY <1>11, <4>2
    <3> QED BY <3>1, <3>2
  <2>3. \A d \in Clients :
          Answered(d, "GET")' => worker'[d].value = None \/ Written(worker[d].value)'
    BY <2>2 DEF Written
  <2> QED BY <1>1, <1>7, <1>8, <1>10, <2>3 DEF ReadsInv, Sources
<1>17. Traces'
  BY <1>1, <1>7 DEF ReadsInv, Traces
<1>18. Sequence'
  <2> SUFFICES ASSUME ~concurrent PROVE Sequence'
    BY <1>1 DEF Sequence
  <2>1. \A d \in Clients : Reads!Busy(d) => d = c
    BY <1>8 DEF ReadsInv, Sequence, Alone
  <2>2. Alone'
    BY <1>10 DEF ReadsInv, Sequence, Alone
  <2>3. \A d \in Clients : ~Answered(d, "PUT")
    BY <1>8, <2>1 DEF Answered, Reads!Busy
  <2>4. IsLast(value)
    BY <2>3 DEF ReadsInv, Sequence, Held
  <2>5. Held'
    BY <1>1, <1>8, <1>10, <2>3, <2>4 DEF Held, IsLast
  <2>6. v = None \/ \E p \in Puts : p.id = v
    <3>1. \A d \in Clients : ~Putting(d)
      BY <1>8, <2>1 DEF Putting
    <3> QED BY <1>4, <3>1 DEF ReadsInv, Identities, Written
  <2>7. \A p \in Puts : IsOk(p) /\ p.end < worker[c].at /\ p.value = p.id
    BY <1>8 DEF ReadsInv, Sequence, Puts, Reads!Puts, Identities
  <2> DEFINE r == Reads!Recorded(c, "ok")'
  <2>8. Reads!Violates(r) <=> v # value
    <3>1. r.value = v /\ r.start = worker[c].at /\ r.end = now
      BY <1>1, <1>7 DEF Reads!Recorded
    <3> HIDE DEF r
    <3>2. Reads!AcknowledgedBefore(r) = Puts
      <4>1. \A p \in Puts : p.status = "ok" /\ p.end <= r.start
        BY <2>7, <3>1, ReadNumbers DEF IsOk, Puts, Reads!Puts
      <4> QED BY <4>1 DEF Reads!AcknowledgedBefore, Puts
    <3>3. Reads!Candidates(r) = {p \in Puts : p.id = v}
      <4>1. \A p \in Puts : p.start <= r.end /\ p.value = p.id
        BY <2>7, <3>1, ReadNumbers DEF Puts, Reads!Puts
      <4> QED BY <3>1, <4>1 DEF Reads!Candidates, Puts
    <3>4. \A p \in Puts : /\ p.start \in Nat /\ p.end \in Nat /\ p.start <= p.end
                         /\ p.id \in Nat /\ p.id # None
      BY ReadNumbers DEF Puts, Reads!Puts, None
    <3>5. CASE v = None
      BY <2>4, <3>1, <3>2, <3>4, <3>5 DEF IsLast, Reads!Violates, None, Reads!None
    <3>6. CASE v # None
      <4>1. Reads!Violates(r) <=> \A p \in Puts : p.id = v => \E q \in Puts : p.end < q.start
        <5>1. \A p \in Puts : Reads!ValidCandidate(p, r) <=> \A q \in Puts : p.end >= q.start
          BY <2>7, <3>2 DEF Reads!ValidCandidate, IsOk
        <5>2. Reads!Violates(r) <=> \A p \in Puts : p.id = v => ~Reads!ValidCandidate(p, r)
          BY <3>1, <3>3, <3>6 DEF Reads!Violates, None, Reads!None
        <5> QED BY <3>4, <5>1, <5>2
      <4>2. PICK p \in Puts : p.id = v
        BY <2>6, <3>6
      <4>3. PICK l \in Puts : l.id = value /\ \A q \in Puts : q = l \/ q.end < l.start
        BY <2>4, <4>2 DEF IsLast
      <4>4. CASE v = value
        <5>1. \A q \in Puts : ~(l.end < q.start)
          BY <3>4, <4>3
        <5> QED BY <4>1, <4>3, <4>4, <5>1
      <4>5. CASE v # value
        BY <4>1, <4>3, <4>5
      <4> QED BY <4>4, <4>5
    <3> QED BY <3>5, <3>6
  <2>9. Noticed' <=> (Noticed \/ v # value)
    <3>1. \A g \in Gets : Reads!Violates(g)' <=> Reads!Violates(g)
      BY <1>1 DEF Reads!Violates, Reads!Candidates, Reads!AcknowledgedBefore,
         Reads!ValidCandidate, Reads!Puts
    <3>2. \A d \in Clients : ~Answered(d, "GET") /\ (d # c => ~Answered(d, "GET")')
      BY <1>8, <1>9, <2>1 DEF Answered, Reads!Busy
    <3>3. Reads!Violates(Reads!Recorded(c, "ok"))' <=> Reads!Violates(r)
      BY <1>1 DEF Reads!Violates, Reads!Candidates, Reads!AcknowledgedBefore,
         Reads!ValidCandidate, Reads!Puts
    <3> QED BY <1>8, <2>8, <3>1, <3>2, <3>3 DEF Noticed
  <2> QED BY <1>1, <1>2, <1>7, <1>10, <2>2, <2>5, <2>9 DEF ReadsInv, Sequence
<1> QED BY <1>12, <1>13, <1>14, <1>15, <1>16, <1>17, <1>18 DEF ReadsInv

(* What both ends of an operation have in common.                          *)
Completes(c, status) ==
  /\ Reads!Busy(c) /\ status \in {"ok", "fail"}
  /\ status = "ok" => worker[c].phase = "replied"
  /\ history' = history \cup {Reads!Recorded(c, status)}
  /\ worker' = [worker EXCEPT ![c] = Reads!Resting(now)]
  /\ \/ late' = late
     \/ status = "fail" /\ Putting(c) /\ late' = late \cup {worker[c].id}
  /\ UNCHANGED <<linearizable, now, value, applied, ops, wrong>>

LEMMA CompletionFacts ==
  ASSUME ReadsInv, WorkloadAssumption, NEW c \in Clients, NEW status, Completes(c, status),
         NEW r, r = Reads!Recorded(c, status)
  PROVE  /\ worker' \in [Clients -> [phase : Reads!Phases, id : Reads!Values,
                                    op : {"PUT", "GET"}, at : 0 .. MaxTime,
                                    value : Reads!Values]]
         /\ r \in Reads!Records /\ history' = history \cup {r}
         /\ r.id = worker[c].id /\ r.op = worker[c].op /\ r.value = worker[c].value
         /\ r.start = worker[c].at /\ r.end = now /\ r.status = status
         /\ r.id \in 1 .. ops /\ (r.op = "PUT" => r.value = r.id)
         /\ \A h \in history : h.id # r.id
         /\ worker'[c].at = now /\ ~Reads!Busy(c)'
         /\ \A d \in Clients : d # c => worker'[d] = worker[d]
<1> DEFINE W == [phase : Reads!Phases, id : Reads!Values, op : {"PUT", "GET"},
                 at : 0 .. MaxTime, value : Reads!Values]
<1>1. worker \in [Clients -> W] /\ now \in 0 .. MaxTime
  BY DEF ReadsInv, Reads!TypeOK
<1>2. Reads!Resting(now) \in W /\ Reads!Resting(now).at = now /\ Reads!Resting(now).phase = "idle"
  BY <1>1 DEF Reads!Resting, Reads!Phases, Reads!Values
<1>3. /\ worker' \in [Clients -> W]
      /\ worker'[c] = Reads!Resting(now)
      /\ \A d \in Clients : d # c => worker'[d] = worker[d]
  BY <1>1, <1>2 DEF Completes
<1>4. worker[c] \in W
  BY <1>1
<1>5. /\ worker[c].id \in 1 .. ops
      /\ Putting(c) => worker[c].value = worker[c].id
      /\ \A h \in history : h.id # worker[c].id
  BY DEF ReadsInv, Identities, Completes
<1>6. /\ r.id = worker[c].id /\ r.op = worker[c].op /\ r.value = worker[c].value
      /\ r.start = worker[c].at /\ r.end = now /\ r.status = status
  BY DEF Reads!Recorded
<1>7. r \in Reads!Records
  <2>1. worker[c].id \in Reads!OpIds
    BY <1>4, <1>5 DEF Reads!Values, Reads!None
  <2>2. now \in Nat /\ worker[c].at \in Nat
    BY ReadNumbers
  <2> QED BY <1>4, <2>1, <2>2 DEF Reads!Recorded, Reads!Records, Completes
<1>8. ~Reads!Busy(c)' /\ worker'[c].at = now
  BY <1>2, <1>3 DEF Reads!Busy
<1> QED BY <1>3, <1>5, <1>6, <1>7, <1>8 DEF Completes, Putting

LEMMA CompletionPreserves ==
  ASSUME ReadsInv, WorkloadAssumption, NEW c \in Clients, NEW status, Completes(c, status)
  PROVE  /\ <<tied, concurrent>>' \in BOOLEAN \X BOOLEAN => Reads!TypeOK'
         /\ Identities' /\ Sources' /\ Traces'
<1> DEFINE W == [phase : Reads!Phases, id : Reads!Values, op : {"PUT", "GET"},
                 at : 0 .. MaxTime, value : Reads!Values]
<1>1. PICK r : r = Reads!Recorded(c, status)
  OBVIOUS
<1>2. /\ worker' \in [Clients -> W] /\ r \in Reads!Records /\ history' = history \cup {r}
      /\ r.id = worker[c].id /\ r.op = worker[c].op /\ r.value = worker[c].value
      /\ r.start = worker[c].at /\ r.end = now /\ r.status = status
      /\ r.id \in 1 .. ops /\ (r.op = "PUT" => r.value = r.id)
      /\ \A h \in history : h.id # r.id
      /\ worker'[c].at = now /\ ~Reads!Busy(c)'
      /\ \A d \in Clients : d # c => worker'[d] = worker[d]
  BY <1>1, CompletionFacts
<1>3. /\ Puts' = IF r.op = "PUT" THEN Puts \cup {r} ELSE Puts
      /\ Gets' = IF r.op = "GET" /\ status = "ok" THEN Gets \cup {r} ELSE Gets
  BY <1>2 DEF Puts, Gets, Reads!Puts, Reads!Gets
<1>4. \A d \in Clients :
        d # c => /\ Reads!Busy(d)' = Reads!Busy(d)
                 /\ Putting(d)' = Putting(d)
                 /\ Answered(d, "GET")' = Answered(d, "GET")
  BY <1>2 DEF Reads!Busy, Putting, Answered
<1>5. /\ Reads!Busy(c) /\ ~Putting(c)' /\ ~Answered(c, "GET")' /\ ~Answered(c, "PUT")'
      /\ Putting(c) <=> r.op = "PUT"
  BY <1>2 DEF Completes, Reads!Busy, Putting, Answered
<1>6. UNCHANGED <<linearizable, now, value, applied, ops, wrong>>
  BY DEF Completes
<1>7. /\ r.start \in Nat /\ r.start <= now /\ now \in Nat
      /\ \A d \in Clients : worker[d].at \in Nat /\ worker[d].at <= now
      /\ \A h \in history : h.start \in Nat /\ h.end \in Nat /\ h.start <= h.end /\ h.end <= now
  BY <1>2, ReadNumbers
<1>8. \A v : Written(v) => Written(v)'
  BY <1>2, <1>3, <1>4, <1>5 DEF Written
<1>9. ASSUME <<tied, concurrent>>' \in BOOLEAN \X BOOLEAN
      PROVE  Reads!TypeOK'
  <2>1. history' \subseteq Reads!Records /\ \A h \in history' : h.start <= h.end /\ h.end <= now
    BY <1>2, <1>7 DEF ReadsInv, Reads!TypeOK
  <2>2. late' \subseteq Reads!OpIds
    BY <1>2 DEF ReadsInv, Reads!TypeOK, Completes, Reads!Records
  <2>3. <<tied, concurrent, wrong>>' \in BOOLEAN \X BOOLEAN \X BOOLEAN
    BY <1>6, <1>9 DEF ReadsInv, Reads!TypeOK
  <2> QED BY <1>2, <1>6, <2>1, <2>2, <2>3 DEF ReadsInv, Reads!TypeOK
<1>10. Identities'
  <2>1. \A h \in history' : h.id <= ops /\ (h.op = "PUT" => h.value = h.id)
    BY <1>2, ReadNumbers DEF ReadsInv, Identities
  <2>2. \A h, k \in history' : h.id = k.id => h = k
    BY <1>2 DEF ReadsInv, Identities
  <2>3. \A d \in Clients : worker'[d].at <= now
    BY <1>2, <1>7
  <2>4. ASSUME NEW d \in Clients, Reads!Busy(d)'
        PROVE  /\ worker'[d].id \in 1 .. ops
               /\ Putting(d)' => worker'[d].value = worker'[d].id
               /\ \A h \in history' : h.id # worker'[d].id
               /\ \A e \in Clients : Reads!Busy(e)' /\ worker'[e].id = worker'[d].id => e = d
    <3>1. d # c /\ worker'[d] = worker[d] /\ Reads!Busy(d)
      BY <1>2, <1>4, <2>4
    <3>2. /\ worker[d].id \in 1 .. ops
          /\ Putting(d) => worker[d].value = worker[d].id
          /\ \A h \in history : h.id # worker[d].id
          /\ \A e \in Clients : Reads!Busy(e) /\ worker[e].id = worker[d].id => e = d
      BY <3>1 DEF ReadsInv, Identities
    <3>3. worker[c].id # worker[d].id
      BY <1>5, <3>1, <3>2
    <3> QED BY <1>2, <1>4, <3>1, <3>2, <3>3
  <2>5. \A v \in late' : \E p \in Puts' : p.id = v /\ ~IsOk(p)
    <3>1. \A v \in late : \E p \in Puts' : p.id = v /\ ~IsOk(p)
      BY <1>3 DEF ReadsInv, Identities
    <3>2. CASE late' = late
      BY <3>1, <3>2
    <3>3. CASE status = "fail" /\ Putting(c) /\ late' = late \cup {worker[c].id}
      <4>1. r \in Puts' /\ r.id = worker[c].id /\ ~IsOk(r)
        BY <1>2, <1>3, <1>5, <3>3 DEF IsOk
      <4> QED BY <3>1, <3>3, <4>1
    <3> QED BY <3>2, <3>3 DEF Completes
  <2>6. (\A v \in applied : Written(v)') /\ value \in applied \cup {None}
    BY <1>8 DEF ReadsInv, Identities
  <2> QED BY <1>6, <2>1, <2>2, <2>3, <2>4, <2>5, <2>6 DEF Identities
<1>11. Sources'
  <2>1. ASSUME NEW v, NEW time,
               \/ \E p \in Puts : p.id = v /\ p.start <= time
               \/ \E d \in Clients : Putting(d) /\ worker[d].id = v /\ worker[d].at <= time
        PROVE  \/ \E p \in Puts' : p.id = v /\ p.start <= time
               \/ \E d \in Clients : Putting(d)' /\ worker'[d].id = v /\ worker'[d].at <= time
    <3>1. CASE \E p \in Puts : p.id = v /\ p.start <= time
      BY <1>3, <3>1
    <3>2. CASE \E d \in Clients : Putting(d) /\ worker[d].id = v /\ worker[d].at <= time
      <4>1. PICK d \in Clients : Putting(d) /\ worker[d].id = v /\ worker[d].at <= time
        BY <3>2
      <4>2. CASE d = c
        BY <1>2, <1>3, <1>5, <4>1, <4>2
      <4>3. CASE d # c
        BY <1>2, <1>4, <4>1, <4>3
      <4> QED BY <4>2, <4>3
    <3> QED BY <2>1, <3>1, <3>2
  <2>2. ASSUME NEW g \in Gets', g.value # None
        PROVE  \/ \E p \in Puts' : p.id = g.value /\ p.start <= g.end
               \/ \E d \in Clients :
                    Putting(d)' /\ worker'[d].id = g.value /\ worker'[d].at <= g.end
    <3>1. CASE g \in Gets
      BY <2>1, <2>2, <3>1 DEF ReadsInv, Sources
    <3>2. CASE g = r /\ r.op = "GET" /\ status = "ok"
      <4>1. Answered(c, "GET")
        BY <1>2, <3>2 DEF Completes, Answered
      <4>2. Written(worker[c].value)
        BY <1>2, <2>2, <3>2, <4>1 DEF ReadsInv, Sources
      <4>3. \A p \in Puts : p.start <= r.end
        BY <1>2, <1>7 DEF Puts, Reads!Puts
      <4>4. \A d \in Clients : worker[d].at <= r.end
        BY <1>2, <1>7
      <4>5. \/ \E p \in Puts : p.id = g.value /\ p.start <= g.end
            \/ \E d \in Clients :
                 Putting(d) /\ worker[d].id = g.value /\ worker[d].at <= g.end
        BY <1>2, <3>2, <4>2, <4>3, <4>4 DEF Written
      <4> QED BY <2>1, <4>5
    <3> QED BY <1>3, <2>2, <3>1, <3>2
  <2>3. ASSUME NEW d \in Clients, NEW x, x = worker'[d].value, Answered(d, "GET")'
        PROVE  x = None \/ Written(x)'
    <3>1. d # c
      BY <1>5, <2>3
    <3>2. Answered(d, "GET") /\ x = worker[d].value
      BY <1>2, <1>4, <2>3, <3>1
    <3> QED BY <1>8, <3>2 DEF ReadsInv, Sources
  <2>4. \A d \in Clients :
          Answered(d, "GET")' => worker'[d].value = None \/ Written(worker[d].value)'
    BY <2>3 DEF Written
  <2> QED BY <2>2, <2>4 DEF Sources
<1>12. Traces'
  BY <1>2, <1>7 DEF ReadsInv, Traces
<1> QED BY <1>9, <1>10, <1>11, <1>12

LEMMA CompleteFailPreserves ==
  ASSUME ReadsInv, WorkloadAssumption, NEW c \in Clients, Reads!CompleteFail(c)
  PROVE  ReadsInv'
<1>1. Completes(c, "fail") /\ concurrent' = TRUE /\ tied' = tied
  BY DEF Reads!CompleteFail, Completes, Putting, Reads!Busy
<1>2. PICK r : r = Reads!Recorded(c, "fail")
  OBVIOUS
<1>3. /\ history' = history \cup {r} /\ r.status = "fail"
      /\ ~Reads!Busy(c)'
      /\ \A d \in Clients : d # c => worker'[d] = worker[d]
  BY <1>1, <1>2, CompletionFacts
<1>4. /\ \A p \in Puts' : IsOk(p) => p \in Puts
      /\ Gets' = Gets /\ Puts \subseteq Puts'
  BY <1>3 DEF Puts, Gets, Reads!Puts, Reads!Gets, IsOk
<1>5. ~Answered(c, "GET")' /\ ~Answered(c, "PUT")'
  BY <1>3 DEF Reads!Busy, Answered
<1>6. \A d \in Clients : d # c => /\ Answered(d, "GET")' = Answered(d, "GET")
                                 /\ Answered(d, "PUT")' = Answered(d, "PUT")
  BY <1>3 DEF Answered
<1>7. UNCHANGED <<linearizable, now, value>>
  BY <1>1 DEF Completes
<1>8. Overwriting'
  BY <1>3, <1>4, <1>5, <1>6, <1>7 DEF ReadsInv, Overwriting
<1>9. Freshness'
  <2> SUFFICES ASSUME linearizable, ~tied PROVE Freshness'
    BY <1>1, <1>7 DEF Freshness
  <2>1. \A v, time : Readable(v, time) => Readable(v, time)'
    BY <1>4 DEF Readable
  <2>2. \A g \in Gets : Readable(g.value, g.start)'
    BY <2>1 DEF ReadsInv, Freshness
  <2>3. ASSUME NEW d \in Clients, Answered(d, "GET")', NEW v, NEW time,
               v = worker'[d].value, time = worker'[d].at
        PROVE  Readable(v, time)'
    <3>1. d # c
      BY <1>5, <2>3
    <3>2. Answered(d, "GET") /\ v = worker[d].value /\ time = worker[d].at
      BY <1>3, <1>6, <2>3, <3>1
    <3> QED BY <2>1, <3>2 DEF ReadsInv, Freshness
  <2>4. \A d \in Clients : Answered(d, "GET")' => Readable(worker[d].value, worker[d].at)'
    BY <2>3 DEF Readable
  <2> QED BY <1>4, <2>2, <2>4 DEF Freshness
<1>10. Sequence'
  BY <1>1 DEF Sequence
<1>11. <<tied, concurrent>>' \in BOOLEAN \X BOOLEAN
  BY <1>1 DEF ReadsInv, Reads!TypeOK
<1> QED BY <1>1, <1>8, <1>9, <1>10, <1>11, CompletionPreserves DEF ReadsInv

LEMMA CompleteOkPreserves ==
  ASSUME ReadsInv, WorkloadAssumption, NEW c \in Clients, Reads!CompleteOk(c)
  PROVE  ReadsInv'
<1>1. /\ Completes(c, "ok") /\ worker[c].phase = "replied" /\ late' = late
      /\ concurrent' = concurrent
      /\ tied' = (tied \/ (worker[c].op = "PUT" /\ Reads!GetBeganNow))
  BY DEF Reads!CompleteOk, Completes, Reads!Busy, Reads!serviceVars
<1>2. PICK r : r = Reads!Recorded(c, "ok")
  OBVIOUS
<1>3. /\ r \in Reads!Records /\ history' = history \cup {r} /\ r.status = "ok"
      /\ r.id = worker[c].id /\ r.op = worker[c].op /\ r.value = worker[c].value
      /\ r.start = worker[c].at /\ r.end = now /\ (r.op = "PUT" => r.value = r.id)
      /\ \A h \in history : h.id # r.id
      /\ ~Reads!Busy(c)'
      /\ \A d \in Clients : d # c => worker'[d] = worker[d]
  BY <1>1, <1>2, CompletionFacts
<1>4. /\ ~Answered(c, "GET")' /\ ~Answered(c, "PUT")' /\ Reads!Busy(c)
      /\ Answered(c, "PUT") <=> r.op = "PUT"
      /\ Answered(c, "GET") <=> r.op = "GET"
  BY <1>1, <1>3 DEF Reads!Busy, Answered
<1>5. \A d \in Clients : d # c => /\ Answered(d, "GET")' = Answered(d, "GET")
                                 /\ Answered(d, "PUT")' = Answered(d, "PUT")
                                 /\ Reads!Busy(d)' = Reads!Busy(d)
  BY <1>3 DEF Answered, Reads!Busy
<1>6. UNCHANGED <<linearizable, now, value, wrong>>
  BY <1>1 DEF Completes
<1>7. /\ Puts' = IF r.op = "PUT" THEN Puts \cup {r} ELSE Puts
      /\ Gets' = IF r.op = "GET" THEN Gets \cup {r} ELSE Gets
  BY <1>3 DEF Puts, Gets, Reads!Puts, Reads!Gets
<1>8. /\ r.op \in {"PUT", "GET"} /\ r.start \in Nat /\ r.start <= now /\ now \in Nat
      /\ \A d \in Clients : worker[d].at \in Nat /\ worker[d].at <= now
      /\ \A h \in history : h.start \in Nat /\ h.end \in Nat /\ h.start <= h.end /\ h.end <= now
  BY <1>3, ReadNumbers
<1>9. Overwriting'
  <2>1. \A d \in Clients : Answered(d, "PUT")' =>
          Answered(d, "PUT") /\ worker'[d] = worker[d] /\ value # None
    BY <1>3, <1>4, <1>5 DEF ReadsInv, Overwriting
  <2>2. ASSUME NEW p \in Puts', IsOk(p)
        PROVE  /\ value # None
               /\ \A q \in Puts' : IsOk(q) /\ p.end < q.start => value # p.id
               /\ \A d \in Clients : Answered(d, "PUT")' /\ p.end < worker'[d].at => value # p.id
    <3>1. CASE p \in Puts
      <4>1. /\ value # None
            /\ \A q \in Puts : IsOk(q) /\ p.end < q.start => value # p.id
            /\ \A d \in Clients : Answered(d, "PUT") /\ p.end < worker[d].at => value # p.id
        BY <2>2, <3>1 DEF ReadsInv, Overwriting
      <4>2. r \in Puts' /\ p.end < r.start => value # p.id
        <5>1. CASE r.op = "PUT"
          BY <1>3, <1>4, <4>1, <5>1
        <5>2. CASE r.op # "PUT"
          BY <5>2 DEF Puts, Reads!Puts
        <5> QED BY <5>1, <5>2
      <4> QED BY <1>7, <2>1, <4>1, <4>2
    <3>2. CASE p = r /\ r.op = "PUT"
      <4>1. value # None
        BY <1>4, <3>2 DEF ReadsInv, Overwriting
      <4>2. \A q \in Puts' : ~(r.end < q.start)
        BY <1>3, <1>7, <1>8 DEF Puts, Reads!Puts
      <4>3. \A d \in Clients : Answered(d, "PUT")' => ~(r.end < worker'[d].at)
        BY <1>3, <1>8, <2>1
      <4> QED BY <3>2, <4>1, <4>2, <4>3
    <3> QED BY <1>7, <2>2, <3>1, <3>2
  <2> QED BY <1>6, <2>1, <2>2 DEF Overwriting
<1>10. Freshness'
  <2> SUFFICES ASSUME linearizable, ~tied'
               PROVE  Freshness'
    BY <1>6 DEF Freshness
  <2>1. /\ ~tied
        /\ r.op = "PUT" => ~Reads!GetBeganNow
    BY <1>1, <1>3
  <2>2. ASSUME NEW v, NEW time \in Nat, Readable(v, time), r.op = "PUT" => time < now
        PROVE  Readable(v, time)'
    <3>1. CASE r.op = "GET"
      BY <1>7, <2>2, <3>1 DEF Readable
    <3>2. CASE r.op = "PUT"
      <4>1. \A p \in Puts' : p \in Puts \/ p = r
        BY <1>7
      <4>2. v = None => \A p \in Puts' : IsOk(p) => time < p.end
        BY <1>3, <2>2, <3>2, <4>1 DEF Readable
      <4>3. ASSUME NEW p \in Puts', NEW q \in Puts', IsOk(p), IsOk(q), p.id = v, q.end <= time
            PROVE  q.start <= p.end
        <5>1. q # r
          BY <1>3, <1>8, <2>2, <3>2, <4>3
        <5>2. q \in Puts /\ q.start <= now /\ q.start \in Nat
          <6>1. q \in Puts
            BY <4>1, <5>1
          <6>2. q.start \in Nat /\ q.end \in Nat /\ q.start <= q.end /\ q.end <= now
            BY <1>8, <6>1 DEF Puts, Reads!Puts
          <6> QED BY <1>8, <6>1, <6>2
        <5>3. CASE p = r
          BY <1>3, <5>2, <5>3
        <5>4. CASE p \in Puts
          BY <2>2, <4>3, <5>2, <5>4 DEF Readable
        <5> QED BY <4>1, <5>3, <5>4
      <4> QED BY <4>2, <4>3 DEF Readable
    <3> QED BY <1>8, <3>1, <3>2
  <2>3. ASSUME NEW g \in Gets' PROVE Readable(g.value, g.start)'
    <3>1. CASE g \in Gets
      <4>1. r.op = "PUT" => g.start # now
        BY <2>1, <3>1 DEF Reads!GetBeganNow, Gets, Reads!Gets
      <4>2. g.start \in Nat /\ g.start <= now
        BY <1>8, <3>1 DEF Gets, Reads!Gets
      <4>3. Readable(g.value, g.start)
        BY <2>1, <3>1 DEF ReadsInv, Freshness
      <4> QED BY <1>8, <2>2, <4>1, <4>2, <4>3
    <3>2. CASE g = r /\ r.op = "GET"
      <4>1. Readable(r.value, r.start)
        BY <1>3, <1>4, <2>1, <3>2 DEF ReadsInv, Freshness
      <4> QED BY <1>8, <2>2, <3>2, <4>1
    <3> QED BY <1>7, <2>3, <3>1, <3>2
  <2>4. ASSUME NEW d \in Clients, Answered(d, "GET")', NEW v, NEW time,
               v = worker'[d].value, time = worker'[d].at
        PROVE  Readable(v, time)'
    <3>1. d # c
      BY <1>4, <2>4
    <3>2. Answered(d, "GET") /\ v = worker[d].value /\ time = worker[d].at
      BY <1>3, <1>5, <2>4, <3>1
    <3>3. Readable(v, time)
      BY <2>1, <3>2 DEF ReadsInv, Freshness
    <3>4. time \in Nat /\ time <= now
      BY <1>8, <3>2
    <3>5. r.op = "PUT" => time # now
      BY <2>1, <3>2 DEF Reads!GetBeganNow, Answered, Reads!Busy
    <3> QED BY <1>8, <2>2, <3>3, <3>4, <3>5
  <2>5. \A d \in Clients : Answered(d, "GET")' => Readable(worker[d].value, worker[d].at)'
    BY <2>4 DEF Readable
  <2> QED BY <2>3, <2>5 DEF Freshness
<1>11. Sequence'
  <2> SUFFICES ASSUME ~concurrent PROVE Sequence'
    BY <1>1 DEF Sequence
  <2>1. /\ late = {} /\ \A h \in history : IsOk(h)
        /\ Alone
        /\ \A h \in history : h.end < worker[c].at
        /\ Held
        /\ wrong <=> Noticed
    BY <1>4 DEF ReadsInv, Sequence
  <2>2. \A d \in Clients : /\ ~Reads!Busy(d)' /\ ~Answered(d, "GET")' /\ ~Answered(d, "PUT")'
                          /\ (d # c => ~Answered(d, "GET") /\ ~Answered(d, "PUT"))
    <3>1. \A d \in Clients : d # c => ~Reads!Busy(d)
      BY <1>4, <2>1 DEF Alone
    <3>2. \A d \in Clients : d # c => ~Answered(d, "GET") /\ ~Answered(d, "PUT")
      BY <3>1 DEF Reads!Busy, Answered
    <3> QED BY <1>3, <1>4, <1>5, <3>1, <3>2
  <2>3. \A h \in history' : IsOk(h)
    BY <1>3, <2>1 DEF IsOk
  <2>4. IsLast(value)'
    <3>1. CASE r.op = "PUT"
      <4>1. value = worker[c].id
        BY <1>4, <2>1, <2>2, <3>1 DEF Held
      <4>2. \A q \in Puts' : q = r \/ q.end < r.start
        BY <1>3, <1>7, <2>1 DEF Puts, Reads!Puts
      <4>3. r \in Puts'
        BY <1>7, <3>1
      <4> QED BY <1>3, <1>6, <4>1, <4>2, <4>3 DEF IsLast
    <3>2. CASE r.op # "PUT"
      <4>1. IsLast(value)
        BY <1>4, <2>1, <2>2, <3>2 DEF Held
      <4> QED BY <1>6, <1>7, <3>2, <4>1 DEF IsLast
    <3> QED BY <3>1, <3>2
  <2>5. Held'
    BY <2>2, <2>4 DEF Held
  <2>6. Noticed' <=> Noticed
    <3>1. CASE r.op = "PUT"
      <4>1. \A g \in Gets : Reads!Violates(g)' <=> Reads!Violates(g)
        <5> SUFFICES ASSUME NEW g \in Gets PROVE Reads!Violates(g)' <=> Reads!Violates(g)
          OBVIOUS
        <5>1. r.end > g.start /\ r.start > g.end
          <6>1. /\ g.end < r.start /\ g.start <= g.end
                /\ g.start \in Nat /\ g.end \in Nat
            BY <1>3, <1>8, <2>1 DEF Gets, Reads!Gets
          <6> QED BY <1>3, <1>8, <6>1
        <5>2. g.start \in Nat /\ g.end \in Nat
          BY <1>8 DEF Gets, Reads!Gets
        <5>3. ~(r.end <= g.start) /\ ~(r.start <= g.end)
          BY <1>3, <1>8, <5>1, <5>2
        <5>4. Reads!Candidates(g)' = Reads!Candidates(g)
          BY <1>7, <3>1, <5>3 DEF Reads!Candidates, Puts
        <5>5. Reads!AcknowledgedBefore(g)' = Reads!AcknowledgedBefore(g)
          BY <1>7, <3>1, <5>3 DEF Reads!AcknowledgedBefore, Puts
        <5> QED BY <5>4, <5>5 DEF Reads!Violates, Reads!ValidCandidate
      <4>2. ~Answered(c, "GET") /\ Gets' = Gets
        BY <1>4, <1>7, <3>1
      <4> QED BY <2>2, <4>1, <4>2 DEF Noticed
    <3>2. CASE r.op # "PUT"
      <4>1. Puts' = Puts /\ Gets' = Gets \cup {r} /\ Answered(c, "GET")
        BY <1>4, <1>7, <1>8, <3>2
      <4>2. \A g : Reads!Violates(g)' <=> Reads!Violates(g)
        BY <4>1 DEF Reads!Violates, Reads!Candidates, Reads!AcknowledgedBefore,
           Reads!ValidCandidate, Puts
      <4>3. Reads!Violates(r) <=> Reads!Violates(Reads!Recorded(c, "ok"))
        BY <1>2
      <4> QED BY <2>2, <4>1, <4>2, <4>3 DEF Noticed
    <3> QED BY <3>1, <3>2
  <2> QED BY <1>1, <1>6, <2>1, <2>2, <2>3, <2>5, <2>6 DEF Sequence, Alone
<1>12. <<tied, concurrent>>' \in BOOLEAN \X BOOLEAN
  BY <1>1 DEF ReadsInv, Reads!TypeOK
<1> QED BY <1>1, <1>9, <1>10, <1>11, <1>12, CompletionPreserves DEF ReadsInv

LEMMA ServeLatePreserves ==
  ASSUME ReadsInv, WorkloadAssumption, NEW id \in Reads!OpIds, Reads!ServeLate(id)
  PROVE  ReadsInv'
<1>1. /\ id \in late /\ late' = late \ {id} /\ value' = id /\ applied' = applied \cup {id}
      /\ UNCHANGED <<linearizable, now, worker, ops, history, tied, concurrent, wrong>>
  BY DEF Reads!ServeLate, Reads!auxVars
<1>2. /\ Puts' = Puts /\ Gets' = Gets
      /\ \A c \in Clients : /\ Reads!Busy(c)' = Reads!Busy(c) /\ Putting(c)' = Putting(c)
                            /\ Answered(c, "PUT")' = Answered(c, "PUT")
                            /\ Answered(c, "GET")' = Answered(c, "GET")
      /\ \A v : Written(v)' = Written(v)
  BY <1>1 DEF Puts, Gets, Reads!Puts, Reads!Gets, Reads!Busy, Putting, Answered, Written
<1>3. PICK f \in Puts : f.id = id /\ ~IsOk(f)
  BY <1>1 DEF ReadsInv, Identities
<1>4. id # None /\ Written(id)
  BY <1>3, ReadNumbers DEF None, Written, Puts, Reads!Puts
<1>5. Reads!TypeOK'
  BY <1>1 DEF ReadsInv, Reads!TypeOK, Reads!Values
<1>6. Identities'
  BY <1>1, <1>2, <1>4 DEF ReadsInv, Identities
<1>7. Overwriting'
  <2>1. \A p \in Puts : IsOk(p) => p.id # id
    BY <1>3 DEF ReadsInv, Identities, Puts, Reads!Puts
  <2> QED BY <1>1, <1>2, <1>4, <2>1 DEF Overwriting
<1>8. Freshness' /\ Sources' /\ Traces'
  BY <1>1, <1>2 DEF ReadsInv, Freshness, Readable, Sources, Traces
<1>9. Sequence'
  BY <1>1 DEF ReadsInv, Sequence
<1> QED BY <1>5, <1>6, <1>7, <1>8, <1>9 DEF ReadsInv

LEMMA ReadsStep ==
  ASSUME ReadsInv, WorkloadAssumption, Reads!Next \/ UNCHANGED <<workloadVars, storeVars>>
  PROVE  ReadsInv'
<1>1. CASE UNCHANGED <<workloadVars, storeVars>>
  BY <1>1 DEF workloadVars, storeVars, ReadsInv, Reads!TypeOK, Identities, Overwriting, Freshness,
     Readable, Sources, Sequence, Traces, Alone, Held, IsLast, Noticed, Puts, Gets,
     Reads!Puts, Reads!Gets, Reads!Busy, Putting, Answered, Written, Reads!Violates,
     Reads!Candidates, Reads!AcknowledgedBefore, Reads!ValidCandidate, Reads!Recorded
<1>2. CASE Reads!Next
  BY <1>2, TickPreserves, InvokePreserves, ServePutPreserves, ServeGetPreserves,
     CompleteOkPreserves, CompleteFailPreserves, ServeLatePreserves DEF Reads!Next
<1> QED BY <1>1, <1>2

----------------------------------------------------------------------------
(* What follows from it when the history is complete                       *)

LEMMA FreshReadsPass ==
  ASSUME ReadsInv, WorkloadAssumption
  PROVE  Reads!NoFalseReport
<1> SUFFICES ASSUME linearizable, Reads!Ended, ~tied, NEW g \in Gets, Reads!Violates(g)
             PROVE  FALSE
  BY DEF Reads!NoFalseReport, Reads!Reported, Gets
<1>1. Readable(g.value, g.start)
  BY DEF ReadsInv, Freshness
<1>2. CASE g.value = None
  <2>1. PICK p \in Puts : IsOk(p) /\ p.end <= g.start
    BY <1>2 DEF Reads!Violates, Reads!AcknowledgedBefore, Puts, IsOk, None, Reads!None
  <2>2. g.start < p.end
    BY <1>1, <1>2, <2>1 DEF Readable
  <2> QED BY <2>1, <2>2, ReadNumbers DEF Puts, Gets, Reads!Puts, Reads!Gets
<1>3. CASE g.value # None
  <2>1. PICK p \in Puts : p.id = g.value /\ p.start <= g.end
    BY <1>3 DEF ReadsInv, Sources, Reads!Ended, Putting
  <2>2. p.value = g.value
    BY <2>1 DEF ReadsInv, Identities, Puts, Reads!Puts
  <2>3. p \in Reads!Candidates(g)
    BY <2>1, <2>2 DEF Reads!Candidates, Puts
  <2>4. ~Reads!ValidCandidate(p, g)
    BY <1>3, <2>3 DEF Reads!Violates, None, Reads!None
  <2>5. PICK q \in Puts : IsOk(p) /\ IsOk(q) /\ q.end <= g.start /\ ~(p.end >= q.start)
    BY <2>4 DEF Reads!ValidCandidate, Reads!AcknowledgedBefore, IsOk, Puts
  <2>6. q.start <= p.end
    BY <1>1, <2>1, <2>5 DEF Readable
  <2> QED BY <2>5, <2>6, ReadNumbers DEF Puts, Reads!Puts
<1> QED BY <1>2, <1>3

LEMMA SequencesAreJudged ==
  ASSUME ReadsInv
  PROVE  Reads!SequentialIsExact
<1> SUFFICES ASSUME Reads!Ended, ~concurrent PROVE Reads!Reported <=> wrong
  BY DEF Reads!SequentialIsExact
<1>1. \A c \in Clients : ~Answered(c, "GET")
  BY DEF Reads!Ended, Reads!Busy, Answered
<1> QED BY <1>1 DEF ReadsInv, Sequence, Noticed, Reads!Reported, Gets

LEMMA ReadsInvariance == OraclesSpec => [](JudgesReads => ReadsInv)
<1>1. OraclesInit => (JudgesReads => ReadsInv)
  BY ReadsInitially, WorkloadAssumption DEF OraclesInit, JudgesReads
<1>2. ASSUME JudgesReads => ReadsInv,
             [OraclesNext]_<<checker, vars, workloadVars, storeVars, lockVars>>
      PROVE  (JudgesReads => ReadsInv)'
  <2>1. checker' = checker
    BY <1>2 DEF OraclesNext, WatchLeaders, WatchReads, WatchLocks
  <2>2. JudgesReads => Reads!Next \/ UNCHANGED <<workloadVars, storeVars>>
    BY <1>2 DEF OraclesNext, WatchLeaders, WatchReads, WatchLocks, JudgesReads
  <2> QED BY <1>2, <2>1, <2>2, ReadsStep, WorkloadAssumption DEF JudgesReads
<1> QED BY <1>1, <1>2, PTL DEF OraclesSpec

(* No linearizable store is reported, whatever fails, is lost or takes     *)
(* effect late, unless a get and the end of a put share a millisecond.     *)
THEOREM FreshReadsAreNotReported == OraclesSpec => []ReadsNoFalseReport
<1>1. (JudgesReads => ReadsInv) => ReadsNoFalseReport
  BY FreshReadsPass, WorkloadAssumption DEF ReadsNoFalseReport
<1> QED BY <1>1, ReadsInvariance, PTL

(* The checker is exact when one operation follows the other.              *)
THEOREM SequentialReadsAreJudged == OraclesSpec => []ReadsSequentialIsExact
<1>1. (JudgesReads => ReadsInv) => ReadsSequentialIsExact
  BY SequencesAreJudged DEF ReadsSequentialIsExact
<1> QED BY <1>1, ReadsInvariance, PTL

----------------------------------------------------------------------------
(* The loop of LeaderUniquenessChecker.Check, over any sequence            *)

IsElection(e) == e.type = "LeaderElected"
IsDown(e, n) == e.type \in {"LeaderStepDown", "NodeKilled"} /\ e.node = n
Claim(e) == [node |-> e.node, term |-> e.term]
ClaimsOf(s) == {Claim(s[i]) : i \in {j \in DOMAIN s : IsElection(s[j])}}

Logs == {s \in Seq(Events) : \A i \in DOMAIN s : IsElection(s[i]) => s[i].term \in Terms}

(* Two elections of different nodes have an end of the first in between.   *)
Separated(s) ==
  \A a, b \in DOMAIN s :
    a < b /\ IsElection(s[a]) /\ IsElection(s[b]) /\ s[a].node # s[b].node =>
      \E k \in DOMAIN s : a < k /\ k < b /\ IsDown(s[k], s[a].node)

(* Everybody elected, except perhaps m, is down again.                     *)
OnlyActive(s, m) ==
  \A a \in DOMAIN s :
    IsElection(s[a]) /\ s[a].node # m => \E k \in DOMAIN s : a < k /\ IsDown(s[k], s[a].node)

Agree(claims) == \A a, b \in claims : a.term = b.term => a.node = b.node

Verdicts == [inTerm : [Terms -> 0 .. NodeCount], active : SUBSET Nodes,
             rivals : BOOLEAN, several : BOOLEAN]
NothingSeen == [inTerm |-> [t \in Terms |-> None], active |-> {},
                rivals |-> FALSE, several |-> FALSE]

Rounds(f, s) == [i \in 0 .. Len(s) |-> IF i = 0 THEN NothingSeen ELSE Judge(f[i - 1], s[i])]
Loop(s) == CHOOSE f : f = Rounds(f, s)

LEMMA JudgeTyped ==
  ASSUME NEW acc \in Verdicts, NEW e \in Events, IsElection(e) => e.term \in Terms
  PROVE  Judge(acc, e) \in Verdicts
<1>1. CASE IsElection(e)
  <2>1. e.node \in Nodes /\ e.node \in 0 .. NodeCount /\ e.term \in Terms
    BY <1>1, NumbersAssumption DEF Events, Nodes
  <2>2. [acc.inTerm EXCEPT ![e.term] = e.node] \in [Terms -> 0 .. NodeCount]
    BY <2>1 DEF Verdicts
  <2>3. acc.active \cup {e.node} \in SUBSET Nodes
    BY <2>1 DEF Verdicts
  <2> QED BY <1>1, <2>2, <2>3 DEF Judge, IsElection, Verdicts
<1>2. CASE ~IsElection(e)
  <2>1. e.type \in {"LeaderStepDown", "NodeKilled"} /\ e.type # "LeaderElected"
    BY <1>2 DEF Events, IsElection
  <2>2. Judge(acc, e) = [acc EXCEPT !.active = @ \ {e.node}]
    BY <2>1 DEF Judge
  <2> QED BY <2>2 DEF Verdicts
<1> QED BY <1>1, <1>2

LEMMA LoopIsExact ==
  ASSUME NEW s \in Logs
  PROVE  Loop(s) = Rounds(Loop(s), s)
<1> DEFINE N == Len(s)
           step(i) == [acc \in Verdicts |-> Judge(acc, s[i])]
           steps == [i \in 1 .. N |-> step(i)]
<1>1. N \in Nat /\ NothingSeen \in Verdicts
  BY LenProperties, NumbersAssumption DEF NothingSeen, Verdicts, None, Logs
<1>2. \A i \in 1 .. N : s[i] \in Events /\ (IsElection(s[i]) => s[i].term \in Terms)
  BY ElementOfSeq, LenProperties DEF Logs
<1>3. steps \in Steps(N, Verdicts)
  <2>1. \A i \in 1 .. N : step(i) \in [Verdicts -> Verdicts]
    BY <1>2, JudgeTyped
  <2> HIDE DEF N, step
  <2> QED BY <2>1 DEF Steps
<1>4. PICK f : IsLoop(f, N, Verdicts, NothingSeen, steps)
  <2> HIDE DEF steps, N
  <2> QED BY <1>1, <1>3, LoopExists
<1>5. f = Rounds(f, s)
  <2>1. \A i \in 1 .. N : f[i] = Judge(f[i - 1], s[i])
    <3>1. \A i \in 1 .. N : f[i - 1] \in Verdicts /\ f[i] = steps[i][f[i - 1]]
      <4> HIDE DEF steps, N
      <4> QED BY <1>1, <1>4 DEF IsLoop
    <3>2. \A i \in 1 .. N, acc \in Verdicts : steps[i][acc] = Judge(acc, s[i])
      BY Zenon
    <3> HIDE DEF steps, N
    <3> QED BY <3>1, <3>2
  <2>2. f = [i \in 0 .. N |-> f[i]] /\ f[0] = NothingSeen
    BY <1>4 DEF IsLoop
  <2>3. \A i \in 0 .. N : i = 0 \/ i \in 1 .. N
    BY <1>1
  <2>4. \A i \in 0 .. N : f[i] = IF i = 0 THEN NothingSeen ELSE Judge(f[i - 1], s[i])
    <3> HIDE DEF N, steps
    <3> QED BY <2>1, <2>2, <2>3
  <2> QED BY <2>2, <2>4, Zenon DEF Rounds
<1> QED BY <1>5 DEF Loop

LEMMA VerdictIsLoop == Verdict = Loop(events)[Len(events)]
BY DEF Verdict, Loop, Rounds, NothingSeen

(* What is true of the checker's variables after n rounds.                 *)
Round(s, acc, n) ==
  /\ acc \in Verdicts
  /\ \A t \in Terms : acc.inTerm[t] # None =>
       \E a \in 1 .. n : IsElection(s[a]) /\ s[a].term = t /\ s[a].node = acc.inTerm[t]
  /\ \A a \in 1 .. n : IsElection(s[a]) =>
       acc.inTerm[s[a].term] # None /\ (~acc.rivals => acc.inTerm[s[a].term] = s[a].node)
  /\ acc.rivals => \E a, b \in 1 .. n : /\ IsElection(s[a]) /\ IsElection(s[b])
                                       /\ s[a].term = s[b].term /\ s[a].node # s[b].node
  /\ \A m \in acc.active :
       \E a \in 1 .. n : /\ IsElection(s[a]) /\ s[a].node = m
                         /\ \A k \in a + 1 .. n : ~IsDown(s[k], m)
  /\ acc.several =>
       \E a, b \in 1 .. n : /\ a < b /\ IsElection(s[a]) /\ IsElection(s[b])
                            /\ s[a].node # s[b].node
                            /\ \A k \in a + 1 .. b - 1 : ~IsDown(s[k], s[a].node)

LEMMA ElectionJudged ==
  ASSUME NEW s \in Logs, NEW n \in Nat, n + 1 <= Len(s), IsElection(s[n + 1]),
         NEW acc, Round(s, acc, n)
  PROVE  Round(s, Judge(acc, s[n + 1]), n + 1)
<1> DEFINE e == s[n + 1]
           new == Judge(acc, e)
<1>1. /\ Len(s) \in Nat /\ \A i \in 1 .. Len(s) : i \in DOMAIN s /\ s[i] \in Events
      /\ \A i \in 1 .. Len(s) : IsElection(s[i]) => s[i].term \in Terms
      /\ n + 1 \in 1 .. Len(s)
  BY LenProperties, ElementOfSeq DEF Logs
<1>2. e \in Events /\ e.term \in Terms /\ e.node \in Nodes /\ e.node # None
  BY <1>1 DEF Events, Nodes, None
<1>3. /\ new.inTerm = [acc.inTerm EXCEPT ![e.term] = e.node]
      /\ new.active = acc.active \cup {e.node}
      /\ new.rivals = (acc.rivals \/ acc.inTerm[e.term] \notin {None, e.node})
      /\ new.several = (acc.several \/ acc.active \cup {e.node} # {e.node})
  BY DEF Judge, IsElection
<1>4. new \in Verdicts
  BY <1>2, JudgeTyped DEF Round
<1>5. acc.inTerm \in [Terms -> 0 .. NodeCount] /\ acc.rivals \in BOOLEAN /\ acc.several \in BOOLEAN
  BY DEF Round, Verdicts
<1> HIDE DEF new
<1>6. /\ new.inTerm[e.term] = e.node
      /\ \A t \in Terms : t # e.term => new.inTerm[t] = acc.inTerm[t]
  BY <1>2, <1>3, <1>5
<1>7. \A a \in 1 .. n : a \in 1 .. n + 1 /\ a \in 1 .. Len(s)
  BY <1>1
<1>8. \A a \in 1 .. n + 1 : a \in 1 .. n \/ a = n + 1
  OBVIOUS
<1>9. ASSUME NEW t \in Terms, new.inTerm[t] # None
      PROVE  \E a \in 1 .. n + 1 : IsElection(s[a]) /\ s[a].term = t /\ s[a].node = new.inTerm[t]
  <2>1. CASE t = e.term
    BY <1>6, <2>1
  <2>2. CASE t # e.term
    BY <1>6, <1>7, <1>9, <2>2 DEF Round
  <2> QED BY <2>1, <2>2
<1>10. ASSUME NEW a \in 1 .. n + 1, IsElection(s[a])
       PROVE  /\ new.inTerm[s[a].term] # None
              /\ ~new.rivals => new.inTerm[s[a].term] = s[a].node
  <2>1. CASE a = n + 1
    BY <1>2, <1>6, <2>1
  <2>2. CASE a \in 1 .. n /\ s[a].term # e.term
    <3>1. s[a].term \in Terms /\ new.inTerm[s[a].term] = acc.inTerm[s[a].term]
      BY <1>1, <1>6, <1>7, <1>10, <2>2
    <3>2. /\ acc.inTerm[s[a].term] # None
          /\ ~acc.rivals => acc.inTerm[s[a].term] = s[a].node
      BY <1>10, <2>2 DEF Round
    <3> QED BY <1>3, <3>1, <3>2
  <2>3. CASE a \in 1 .. n /\ s[a].term = e.term
    <3>1. acc.inTerm[e.term] # None /\ (~acc.rivals => acc.inTerm[e.term] = s[a].node)
      BY <1>10, <2>3 DEF Round
    <3> QED BY <1>2, <1>3, <1>6, <2>3, <3>1
  <2> QED BY <1>8, <2>1, <2>2, <2>3
<1>11. ASSUME new.rivals
       PROVE  \E a, b \in 1 .. n + 1 : /\ IsElection(s[a]) /\ IsElection(s[b])
                                       /\ s[a].term = s[b].term /\ s[a].node # s[b].node
  <2>1. CASE acc.rivals
    BY <1>7, <2>1 DEF Round
  <2>2. CASE acc.inTerm[e.term] \notin {None, e.node}
    <3>1. PICK a \in 1 .. n : /\ IsElection(s[a]) /\ s[a].term = e.term
                             /\ s[a].node = acc.inTerm[e.term]
      BY <1>2, <2>2 DEF Round
    <3> QED BY <1>7, <2>2, <3>1
  <2> QED BY <1>3, <1>11, <2>1, <2>2
<1>12. ASSUME NEW m \in new.active
       PROVE  \E a \in 1 .. n + 1 : /\ IsElection(s[a]) /\ s[a].node = m
                                    /\ \A k \in a + 1 .. n + 1 : ~IsDown(s[k], m)
  <2>1. CASE m = e.node
    BY <2>1
  <2>2. CASE m \in acc.active
    <3>1. PICK a \in 1 .. n : /\ IsElection(s[a]) /\ s[a].node = m
                             /\ \A k \in a + 1 .. n : ~IsDown(s[k], m)
      BY <2>2 DEF Round
    <3>2. ~IsDown(e, m)
      BY DEF IsElection, IsDown
    <3> QED BY <1>7, <1>8, <3>1, <3>2
  <2> QED BY <1>3, <1>12, <2>1, <2>2
<1>13. ASSUME new.several
       PROVE  \E a, b \in 1 .. n + 1 : /\ a < b /\ IsElection(s[a]) /\ IsElection(s[b])
                                       /\ s[a].node # s[b].node
                                       /\ \A k \in a + 1 .. b - 1 : ~IsDown(s[k], s[a].node)
  <2>1. CASE acc.several
    BY <1>7, <2>1 DEF Round
  <2>2. CASE acc.active \cup {e.node} # {e.node}
    <3>1. PICK m \in acc.active : m # e.node
      BY <2>2
    <3>2. PICK a \in 1 .. n : /\ IsElection(s[a]) /\ s[a].node = m
                             /\ \A k \in a + 1 .. n : ~IsDown(s[k], m)
      BY <3>1 DEF Round
    <3>3. a < n + 1 /\ (n + 1) - 1 = n /\ n + 1 \in 1 .. n + 1
      OBVIOUS
    <3> QED BY <1>7, <3>1, <3>2, <3>3
  <2> QED BY <1>3, <1>13, <2>1, <2>2
<1> QED BY <1>4, <1>9, <1>10, <1>11, <1>12, <1>13 DEF Round, new

LEMMA EndJudged ==
  ASSUME NEW s \in Logs, NEW n \in Nat, n + 1 <= Len(s), ~IsElection(s[n + 1]),
         NEW acc, Round(s, acc, n)
  PROVE  Round(s, Judge(acc, s[n + 1]), n + 1)
<1> DEFINE e == s[n + 1]
           new == Judge(acc, e)
<1>1. e \in Events
  BY LenProperties, ElementOfSeq DEF Logs
<1>2. e.type \in {"LeaderStepDown", "NodeKilled"} /\ e.type # "LeaderElected"
  BY <1>1 DEF Events, IsElection
<1>3. new = [acc EXCEPT !.active = @ \ {e.node}]
  BY <1>2 DEF Judge
<1>4. /\ new \in Verdicts /\ acc \in Verdicts
      /\ new.inTerm = acc.inTerm /\ new.rivals = acc.rivals /\ new.several = acc.several
      /\ new.active = acc.active \ {e.node}
  BY <1>3 DEF Round, Verdicts
<1>5. /\ \A a \in 1 .. n : a \in 1 .. n + 1
      /\ \A a \in 1 .. n + 1 : a \in 1 .. n \/ a = n + 1
  OBVIOUS
<1> HIDE DEF new
<1>6. ASSUME NEW m \in new.active
      PROVE  \E a \in 1 .. n + 1 : /\ IsElection(s[a]) /\ s[a].node = m
                                   /\ \A k \in a + 1 .. n + 1 : ~IsDown(s[k], m)
  <2>1. PICK a \in 1 .. n : /\ IsElection(s[a]) /\ s[a].node = m
                           /\ \A k \in a + 1 .. n : ~IsDown(s[k], m)
    BY <1>4 DEF Round
  <2>2. ~IsDown(e, m)
    BY <1>4 DEF IsDown
  <2> QED BY <1>5, <2>1, <2>2
<1> QED BY <1>4, <1>5, <1>6 DEF Round, new

(* What the checker reports is in the events.                              *)
LEMMA VerdictIsExact ==
  ASSUME events \in Logs
  PROVE  /\ Verdict.rivals <=> ~Agree(ClaimsOf(events))
         /\ Verdict.several => ~Separated(events)
<1> DEFINE s == events
           N == Len(s)
           f == Loop(s)
           P == {n \in Nat : n <= N => Round(s, f[n], n)}
<1>1. N \in Nat /\ DOMAIN s = 1 .. N
  BY LenProperties DEF Logs
<1>2. f = Rounds(f, s)
  BY LoopIsExact
<1> HIDE DEF f, s
<1>3. f[0] = NothingSeen /\ \A i \in 1 .. N : f[i] = Judge(f[i - 1], s[i])
  <2>1. \A i \in 0 .. N : f[i] = IF i = 0 THEN NothingSeen ELSE Judge(f[i - 1], s[i])
    BY <1>2, Zenon DEF Rounds
  <2>2. 0 \in 0 .. N /\ \A i \in 1 .. N : i \in 0 .. N /\ i # 0
    BY <1>1
  <2> HIDE DEF N
  <2> QED BY <2>1, <2>2
<1> HIDE DEF N
<1>4. 0 \in P
  <2>1. NothingSeen \in Verdicts
    BY NumbersAssumption DEF NothingSeen, Verdicts, None
  <2> QED BY <1>3, <2>1 DEF Round, NothingSeen, None
<1>5. ASSUME NEW n \in P PROVE n + 1 \in P
  <2> SUFFICES ASSUME n + 1 <= N PROVE Round(s, f[n + 1], n + 1)
    OBVIOUS
  <2>1. Round(s, f[n], n) /\ f[n + 1] = Judge(f[n], s[n + 1])
    <3>1. n + 1 \in 1 .. N /\ (n + 1) - 1 = n /\ n <= N
      BY <1>1
    <3> QED BY <1>3, <3>1
  <2> QED BY <2>1, ElectionJudged, EndJudged DEF s, N
<1>6. P = Nat
  <2>1. P \in SUBSET Nat
    OBVIOUS
  <2> HIDE DEF P
  <2> QED BY <1>4, <1>5, <2>1, SetInduction
<1>7. Round(s, Verdict, N)
  <2>1. Round(s, f[N], N)
    BY <1>1, <1>6
  <2> QED BY <2>1, VerdictIsLoop DEF f, s, N
<1>8. \A a \in 1 .. N : IsElection(s[a]) => Claim(s[a]) \in ClaimsOf(s)
  BY <1>1 DEF ClaimsOf
<1>9. \A c \in ClaimsOf(s) : \E a \in 1 .. N : IsElection(s[a]) /\ c = Claim(s[a])
  BY <1>1 DEF ClaimsOf
<1>10. Verdict.rivals => ~Agree(ClaimsOf(s))
  <2> SUFFICES ASSUME Verdict.rivals PROVE ~Agree(ClaimsOf(s))
    OBVIOUS
  <2>1. PICK a, b \in 1 .. N : /\ IsElection(s[a]) /\ IsElection(s[b])
                              /\ s[a].term = s[b].term /\ s[a].node # s[b].node
    BY <1>7 DEF Round
  <2>2. Claim(s[a]) \in ClaimsOf(s) /\ Claim(s[b]) \in ClaimsOf(s)
    BY <1>8, <2>1
  <2>3. Claim(s[a]).term = Claim(s[b]).term /\ Claim(s[a]).node # Claim(s[b]).node
    BY <2>1 DEF Claim
  <2> QED BY <2>2, <2>3 DEF Agree
<1>11. ~Verdict.rivals => Agree(ClaimsOf(s))
  <2> SUFFICES ASSUME ~Verdict.rivals, NEW c \in ClaimsOf(s), NEW d \in ClaimsOf(s),
                      c.term = d.term
               PROVE  c.node = d.node
    BY DEF Agree
  <2>1. PICK a \in 1 .. N : IsElection(s[a]) /\ c = Claim(s[a])
    BY <1>9
  <2>2. PICK b \in 1 .. N : IsElection(s[b]) /\ d = Claim(s[b])
    BY <1>9
  <2> QED BY <1>7, <2>1, <2>2 DEF Round, Claim
<1>12. Verdict.several => ~Separated(s)
  <2> SUFFICES ASSUME Verdict.several, Separated(s) PROVE FALSE
    OBVIOUS
  <2>1. PICK a, b \in 1 .. N : /\ a < b /\ IsElection(s[a]) /\ IsElection(s[b])
                              /\ s[a].node # s[b].node
                              /\ \A k \in a + 1 .. b - 1 : ~IsDown(s[k], s[a].node)
    BY <1>7 DEF Round
  <2>2. PICK k \in 1 .. N : a < k /\ k < b /\ IsDown(s[k], s[a].node)
    BY <1>1, <2>1 DEF Separated
  <2>3. k \in a + 1 .. b - 1
    BY <1>1, <2>2
  <2> QED BY <2>1, <2>2, <2>3
<1> QED BY <1>10, <1>11, <1>12 DEF s

----------------------------------------------------------------------------
(* The inductive invariant of the cluster and its monitor                  *)

(* What a sweep ended with was announced.                                  *)
Announced ==
  /\ outcomes \subseteq ClaimsOf(events)
  /\ \A t \in Terms :
       lastInTerm[t] # None => [node |-> lastInTerm[t], term |-> t] \in ClaimsOf(events)

(* Who leads, has answered so or was announced does so in a term of its    *)
(* own.                                                                    *)
Leading == {[node |-> n, term |-> leading[n]] : n \in Leaders}
AllClaims == Leading \cup ({current} \ {NoClaim}) \cup ClaimsOf(events)

OnePerTerm ==
  cluster # "broken" => Agree(AllClaims) /\ \A a \in AllClaims : a.term <= lastTerm

Apart == ~direct => Separated(events) /\ OnlyActive(events, lastActive)

LeadersInv == TypeOK /\ events \in Logs /\ Announced /\ OnePerTerm /\ Apart

(* r is s with e at position i.                                            *)
IsInsertion(r, s, i, e) ==
  /\ Len(r) = Len(s) + 1 /\ i \in 1 .. Len(s) + 1
  /\ r[i] = e
  /\ \A j \in 1 .. Len(s) : j < i => r[j] = s[j]
  /\ \A j \in 1 .. Len(s) : i <= j => r[j + 1] = s[j]

LEMMA InsertAtInserts ==
  ASSUME NEW s \in Seq(Events), NEW i \in 1 .. Len(s) + 1, NEW e \in Events
  PROVE  InsertAt(s, i, e) \in Seq(Events) /\ IsInsertion(InsertAt(s, i, e), s, i, e)
<1> DEFINE N == Len(s)
           before == SubSeq(s, 1, i - 1)
           after == SubSeq(s, i, N)
<1>1. N \in Nat /\ i \in Nat /\ 1 <= i /\ i <= N + 1
  BY LenProperties
<1>2. /\ before \in Seq(Events) /\ Len(before) = i - 1
      /\ \A j \in 1 .. i - 1 : before[j] = s[j]
  <2>1. \A j \in 1 .. i - 1 : s[j] \in Events
    BY <1>1, ElementOfSeq
  <2>2. /\ before \in Seq(Events)
        /\ Len(before) = IF 1 <= i - 1 THEN (i - 1) - 1 + 1 ELSE 0
        /\ \A j \in 1 .. (i - 1) - 1 + 1 : before[j] = s[1 + j - 1]
    BY <1>1, <2>1, SubSeqProperties
  <2> QED BY <1>1, <2>2
<1>3. /\ after \in Seq(Events) /\ Len(after) = N - i + 1
      /\ \A j \in 1 .. N - i + 1 : after[j] = s[i + j - 1]
  <2>1. \A j \in i .. N : s[j] \in Events
    BY <1>1, ElementOfSeq
  <2>2. /\ after \in Seq(Events)
        /\ Len(after) = IF i <= N THEN N - i + 1 ELSE 0
        /\ \A j \in 1 .. N - i + 1 : after[j] = s[i + j - 1]
    BY <1>1, <2>1, SubSeqProperties
  <2> QED BY <1>1, <2>2
<1> HIDE DEF before, after, N
<1> DEFINE r == before \o <<e>> \o after
<1> DEFINE head == before \o <<e>>
<1>4. /\ head \in Seq(Events) /\ Len(head) = i
      /\ head[i] = e /\ \A j \in 1 .. i - 1 : head[j] = s[j]
  <2>1. head = Append(before, e)
    BY <1>2, AppendIsConcat
  <2>2. /\ head \in Seq(Events) /\ Len(head) = (i - 1) + 1
        /\ \A j \in 1 .. i - 1 : head[j] = before[j]
        /\ head[(i - 1) + 1] = e
    BY <1>2, <2>1, AppendProperties
  <2> HIDE DEF head
  <2> QED BY <1>1, <1>2, <2>2
<1>5. /\ r \in Seq(Events) /\ Len(r) = N + 1 /\ r[i] = e
      /\ \A j \in 1 .. i - 1 : r[j] = s[j]
      /\ \A j \in 1 .. N - i + 1 : r[i + j] = s[i + j - 1]
  <2>1. r = head \o after
    OBVIOUS
  <2> HIDE DEF head, r
  <2>2. /\ r \in Seq(Events) /\ Len(r) = i + (N - i + 1)
        /\ \A j \in 1 .. i + (N - i + 1) : r[j] = IF j <= i THEN head[j] ELSE after[j - i]
    <3>1. /\ r \in Seq(Events) /\ Len(r) = Len(head) + Len(after)
          /\ \A j \in 1 .. Len(head) + Len(after) :
               r[j] = IF j <= Len(head) THEN head[j] ELSE after[j - Len(head)]
      BY <1>3, <1>4, <2>1, ConcatProperties
    <3> QED BY <1>3, <1>4, <3>1
  <2>3. ASSUME NEW j \in 1 .. N - i + 1 PROVE r[i + j] = s[i + j - 1]
    <3>1. i + j \in 1 .. i + (N - i + 1) /\ ~(i + j <= i) /\ (i + j) - i = j
      BY <1>1
    <3> QED BY <1>3, <2>2, <3>1
  <2>4. ASSUME NEW j \in 1 .. i PROVE r[j] = head[j]
    <3>1. j \in 1 .. i + (N - i + 1) /\ j <= i
      BY <1>1
    <3> QED BY <2>2, <3>1
  <2>5. \A j \in 1 .. i - 1 : j \in 1 .. i
    BY <1>1
  <2> QED BY <1>1, <1>4, <2>2, <2>3, <2>4, <2>5
<1>6. ASSUME NEW j \in 1 .. N, i <= j PROVE r[j + 1] = s[j]
  <2>1. j - i + 1 \in 1 .. N - i + 1 /\ i + (j - i + 1) = j + 1 /\ i + (j - i + 1) - 1 = j
    BY <1>1, <1>6
  <2> HIDE DEF r
  <2>2. r[i + (j - i + 1)] = s[i + (j - i + 1) - 1]
    BY <1>5, <2>1
  <2> QED BY <2>1, <2>2
<1>7. InsertAt(s, i, e) = r
  BY DEF InsertAt, before, after, N
<1> HIDE DEF r
<1> QED BY <1>1, <1>5, <1>6, <1>7 DEF IsInsertion, N

LEMMA AppendInserts ==
  ASSUME NEW s \in Seq(Events), NEW e \in Events
  PROVE  /\ Append(s, e) \in Seq(Events) /\ IsInsertion(Append(s, e), s, Len(s) + 1, e)
         /\ s \o <<e>> = Append(s, e)
BY AppendProperties, AppendIsConcat, LenProperties DEF IsInsertion

(* What inserting an event changes.                                        *)
LEMMA InsertedElements ==
  ASSUME NEW s \in Seq(Events), NEW r \in Seq(Events), NEW i, NEW e, IsInsertion(r, s, i, e)
  PROVE  /\ DOMAIN s = 1 .. Len(s) /\ DOMAIN r = 1 .. Len(s) + 1 /\ Len(s) \in Nat
         /\ i \in DOMAIN r /\ r[i] = e
         /\ \A j \in DOMAIN r : j # i => \E k \in DOMAIN s : /\ r[j] = s[k]
                                                         /\ k = IF j < i THEN j ELSE j - 1
         /\ \A j \in DOMAIN s : \E k \in DOMAIN r : /\ r[k] = s[j]
                                                  /\ k = IF j < i THEN j ELSE j + 1
<1>1. DOMAIN s = 1 .. Len(s) /\ DOMAIN r = 1 .. Len(s) + 1 /\ Len(s) \in Nat
  BY LenProperties DEF IsInsertion
<1>2. i \in DOMAIN r /\ r[i] = e /\ i \in Nat
  BY <1>1 DEF IsInsertion
<1>3. ASSUME NEW j \in DOMAIN r, j # i
      PROVE  \E k \in DOMAIN s : r[j] = s[k] /\ k = IF j < i THEN j ELSE j - 1
  <2>1. CASE j < i
    BY <1>1, <2>1 DEF IsInsertion
  <2>2. CASE ~(j < i)
    <3>1. j - 1 \in 1 .. Len(s) /\ i <= j - 1 /\ (j - 1) + 1 = j
      BY <1>1, <1>2, <1>3, <2>2
    <3>2. r[(j - 1) + 1] = s[j - 1]
      BY <3>1 DEF IsInsertion
    <3> QED BY <1>1, <2>2, <3>1, <3>2
  <2> QED BY <2>1, <2>2
<1>4. ASSUME NEW j \in DOMAIN s
      PROVE  \E k \in DOMAIN r : r[k] = s[j] /\ k = IF j < i THEN j ELSE j + 1
  <2>1. CASE j < i
    BY <1>1, <2>1 DEF IsInsertion
  <2>2. CASE ~(j < i)
    <3>1. i <= j /\ j + 1 \in 1 .. Len(s) + 1 /\ j \in 1 .. Len(s)
      BY <1>1, <1>2, <2>2
    <3>2. r[j + 1] = s[j]
      BY <3>1 DEF IsInsertion
    <3> QED BY <1>1, <2>2, <3>1, <3>2
  <2> QED BY <2>1, <2>2
<1> QED BY <1>1, <1>2, <1>3, <1>4

LEMMA InsertedClaims ==
  ASSUME NEW s \in Logs, NEW r \in Seq(Events), NEW i, NEW e, IsInsertion(r, s, i, e),
         IsElection(e) => e.term \in Terms
  PROVE  /\ r \in Logs
         /\ ClaimsOf(r) = ClaimsOf(s) \cup (IF IsElection(e) THEN {Claim(e)} ELSE {})
<1>1. /\ s \in Seq(Events)
      /\ \A j \in DOMAIN s : IsElection(s[j]) => s[j].term \in Terms
  BY DEF Logs
<1>2. /\ i \in DOMAIN r /\ r[i] = e
      /\ \A j \in DOMAIN r : j # i => \E k \in DOMAIN s : r[j] = s[k]
      /\ \A j \in DOMAIN s : \E k \in DOMAIN r : r[k] = s[j]
  BY <1>1, InsertedElements
<1>3. \A j \in DOMAIN r : IsElection(r[j]) => r[j].term \in Terms
  BY <1>1, <1>2
<1>4. \A c : c \in ClaimsOf(r) <=> \E j \in DOMAIN r : IsElection(r[j]) /\ c = Claim(r[j])
  BY DEF ClaimsOf
<1>5. \A c : c \in ClaimsOf(s) <=> \E j \in DOMAIN s : IsElection(s[j]) /\ c = Claim(s[j])
  BY DEF ClaimsOf
<1>6. \A c \in ClaimsOf(r) : c \in ClaimsOf(s) \/ (IsElection(e) /\ c = Claim(e))
  <2> SUFFICES ASSUME NEW c \in ClaimsOf(r)
               PROVE  c \in ClaimsOf(s) \/ (IsElection(e) /\ c = Claim(e))
    OBVIOUS
  <2>1. PICK j \in DOMAIN r : IsElection(r[j]) /\ c = Claim(r[j])
    BY <1>4
  <2>2. CASE j = i
    BY <1>2, <2>1, <2>2
  <2>3. CASE j # i
    <3>1. PICK k \in DOMAIN s : r[j] = s[k]
      BY <1>2, <2>3
    <3> QED BY <1>5, <2>1, <3>1
  <2> QED BY <2>2, <2>3
<1>7. \A c \in ClaimsOf(s) : c \in ClaimsOf(r)
  <2> SUFFICES ASSUME NEW c \in ClaimsOf(s) PROVE c \in ClaimsOf(r)
    OBVIOUS
  <2>1. PICK j \in DOMAIN s : IsElection(s[j]) /\ c = Claim(s[j])
    BY <1>5
  <2>2. PICK k \in DOMAIN r : r[k] = s[j]
    BY <1>2
  <2> QED BY <1>4, <2>1, <2>2
<1>8. IsElection(e) => Claim(e) \in ClaimsOf(r)
  BY <1>2, <1>4
<1>9. r \in Logs
  BY <1>3 DEF Logs
<1> QED BY <1>6, <1>7, <1>8, <1>9

(* The end of a node, wherever it is logged, separates no less.            *)
LEMMA EndInserted ==
  ASSUME NEW s \in Seq(Events), NEW r \in Seq(Events), NEW i, NEW e, IsInsertion(r, s, i, e),
         ~IsElection(e), NEW m
  PROVE  /\ Separated(s) => Separated(r)
         /\ OnlyActive(s, m) => OnlyActive(r, m)
<1>1. /\ DOMAIN s = 1 .. Len(s) /\ DOMAIN r = 1 .. Len(s) + 1 /\ Len(s) \in Nat
      /\ i \in DOMAIN r /\ r[i] = e
  BY InsertedElements
<1>2. \A j \in DOMAIN r : j # i => \E k \in DOMAIN s : r[j] = s[k] /\ k = IF j < i THEN j ELSE j - 1
  BY InsertedElements
<1>3. \A j \in DOMAIN s : \E k \in DOMAIN r : r[k] = s[j] /\ k = IF j < i THEN j ELSE j + 1
  BY InsertedElements
<1>4. \A j \in DOMAIN s : j \in Nat
  BY <1>1
<1>5. \A j \in DOMAIN r : j \in Nat
  BY <1>1
<1>6. ASSUME Separated(s) PROVE Separated(r)
  <2> SUFFICES ASSUME NEW a \in DOMAIN r, NEW b \in DOMAIN r, a < b,
                      IsElection(r[a]), IsElection(r[b]), r[a].node # r[b].node
               PROVE  \E k \in DOMAIN r : a < k /\ k < b /\ IsDown(r[k], r[a].node)
    BY DEF Separated
  <2>1. PICK c \in DOMAIN s : r[a] = s[c] /\ c = IF a < i THEN a ELSE a - 1
    BY <1>1, <1>2
  <2>2. PICK d \in DOMAIN s : r[b] = s[d] /\ d = IF b < i THEN b ELSE b - 1
    BY <1>1, <1>2
  <2>3. a # i /\ b # i /\ c < d
    BY <1>1, <1>4, <1>5, <2>1, <2>2
  <2>4. PICK j \in DOMAIN s : c < j /\ j < d /\ IsDown(s[j], s[c].node)
    BY <1>6, <2>1, <2>2, <2>3 DEF Separated
  <2>5. PICK k \in DOMAIN r : r[k] = s[j] /\ k = IF j < i THEN j ELSE j + 1
    BY <1>3
  <2>6. a < k /\ k < b
    BY <1>1, <1>4, <1>5, <2>1, <2>2, <2>3, <2>4, <2>5
  <2> QED BY <2>1, <2>4, <2>5, <2>6
<1>7. ASSUME OnlyActive(s, m) PROVE OnlyActive(r, m)
  <2> SUFFICES ASSUME NEW a \in DOMAIN r, IsElection(r[a]), r[a].node # m
               PROVE  \E k \in DOMAIN r : a < k /\ IsDown(r[k], r[a].node)
    BY DEF OnlyActive
  <2>1. PICK c \in DOMAIN s : r[a] = s[c] /\ c = IF a < i THEN a ELSE a - 1
    BY <1>1, <1>2
  <2>2. PICK j \in DOMAIN s : c < j /\ IsDown(s[j], s[c].node)
    BY <1>7, <2>1 DEF OnlyActive
  <2>3. PICK k \in DOMAIN r : r[k] = s[j] /\ k = IF j < i THEN j ELSE j + 1
    BY <1>3
  <2>4. a < k
    BY <1>1, <1>4, <1>5, <2>1, <2>2, <2>3
  <2> QED BY <2>1, <2>2, <2>3, <2>4
<1> QED BY <1>6, <1>7

(* When nobody else is active, an election at the end stays apart.         *)
LEMMA ElectionAppended ==
  ASSUME NEW s \in Seq(Events), NEW e \in Events, IsElection(e),
         Separated(s), OnlyActive(s, e.node)
  PROVE  Separated(Append(s, e)) /\ OnlyActive(Append(s, e), e.node)
<1> DEFINE N == Len(s)
           r == Append(s, e)
<1>1. /\ N \in Nat /\ DOMAIN s = 1 .. N /\ DOMAIN r = 1 .. N + 1
      /\ r[N + 1] = e /\ \A j \in 1 .. N : r[j] = s[j]
  BY AppendProperties, LenProperties
<1> HIDE DEF r, N
<1>2. ASSUME NEW a \in 1 .. N, IsElection(r[a]), r[a].node # e.node
      PROVE  \E k \in 1 .. N : a < k /\ IsDown(r[k], r[a].node)
  BY <1>1, <1>2 DEF OnlyActive
<1>3. OnlyActive(r, e.node)
  <2>1. \A a \in DOMAIN r : a = N + 1 \/ a \in 1 .. N
    BY <1>1
  <2>2. \A k \in 1 .. N : k \in DOMAIN r
    BY <1>1
  <2> QED BY <1>1, <1>2, <2>1, <2>2 DEF OnlyActive
<1>4. Separated(r)
  <2> SUFFICES ASSUME NEW a \in DOMAIN r, NEW b \in DOMAIN r, a < b,
                      IsElection(r[a]), IsElection(r[b]), r[a].node # r[b].node
               PROVE  \E k \in DOMAIN r : a < k /\ k < b /\ IsDown(r[k], r[a].node)
    BY DEF Separated
  <2>1. a \in 1 .. N /\ \A k \in 1 .. N : k \in DOMAIN r
    BY <1>1
  <2>2. CASE b = N + 1
    <3>1. PICK k \in 1 .. N : a < k /\ IsDown(r[k], r[a].node)
      BY <1>1, <1>2, <2>1, <2>2
    <3> QED BY <1>1, <2>1, <2>2, <3>1
  <2>3. CASE b \in 1 .. N
    <3>1. PICK k \in DOMAIN s : a < k /\ k < b /\ IsDown(s[k], s[a].node)
      BY <1>1, <2>1, <2>3 DEF Separated
    <3> QED BY <1>1, <2>1, <3>1
  <2> QED BY <1>1, <2>2, <2>3
<1> QED BY <1>3, <1>4 DEF r

(* When the one that was left steps down, nobody is active.                *)
LEMMA LastStepsDown ==
  ASSUME NEW s \in Seq(Events), NEW e \in Events, NEW m, IsDown(e, m), OnlyActive(s, m)
  PROVE  OnlyActive(Append(s, e), None)
<1> DEFINE N == Len(s)
           r == Append(s, e)
<1>1. /\ N \in Nat /\ DOMAIN s = 1 .. N /\ DOMAIN r = 1 .. N + 1
      /\ r[N + 1] = e /\ \A j \in 1 .. N : r[j] = s[j]
  BY AppendProperties, LenProperties
<1> HIDE DEF r, N
<1> SUFFICES ASSUME NEW a \in DOMAIN r, IsElection(r[a])
             PROVE  \E k \in DOMAIN r : a < k /\ IsDown(r[k], r[a].node)
  BY DEF OnlyActive, r
<1>2. a \in 1 .. N /\ r[a] = s[a]
  BY <1>1 DEF IsElection, IsDown
<1>3. CASE s[a].node = m
  BY <1>1, <1>2, <1>3
<1>4. CASE s[a].node # m
  BY <1>1, <1>2, <1>4 DEF OnlyActive
<1> QED BY <1>3, <1>4

----------------------------------------------------------------------------
(* Every action preserves it                                               *)

Numbers == NodeCount \in Nat /\ MaxTerm \in Nat /\ MaxSweeps \in Nat /\ MaxKills \in Nat

LEMMA NumbersAreNatural == Numbers
BY NumbersAssumption DEF Numbers

LEMMA LeadersInitially == Init => LeadersInv
<1> SUFFICES ASSUME Init PROVE LeadersInv
  OBVIOUS
<1>1. /\ events = <<>> /\ events \in Seq(Events) /\ DOMAIN events = {}
      /\ leading = [n \in Nodes |-> None] /\ lastInTerm = [t \in Terms |-> None]
      /\ current = NoClaim /\ outcomes = {} /\ lastTerm = 0
  BY EmptySeq DEF Init
<1>2. TypeOK
  <2>1. leading \in [Nodes -> 0 .. MaxTerm] /\ lastInTerm \in [Terms -> 0 .. NodeCount]
    BY <1>1, NumbersAreNatural DEF Numbers, None
  <2>2. /\ lastTerm \in 0 .. MaxTerm /\ kills \in 0 .. MaxKills /\ next \in 1 .. NodeCount + 1
        /\ lastActive \in 0 .. NodeCount /\ sweeps \in 0 .. MaxSweeps
    BY <1>1, NumbersAreNatural DEF Init, Numbers, None
  <2> QED BY <1>1, <2>1, <2>2 DEF Init, TypeOK
<1>3. ClaimsOf(events) = {} /\ Leading = {}
  BY <1>1 DEF ClaimsOf, Leading, Leaders
<1>4. events \in Logs
  BY <1>1 DEF Logs
<1>5. Announced
  BY <1>1 DEF Announced
<1>6. OnePerTerm
  BY <1>1, <1>3 DEF OnePerTerm, AllClaims, Agree
<1>7. Apart
  BY <1>1 DEF Apart, Separated, OnlyActive
<1> QED BY <1>2, <1>4, <1>5, <1>6, <1>7 DEF LeadersInv

(* What the variables are.                                                 *)
LEMMA LeaderTypes ==
  ASSUME LeadersInv
  PROVE  /\ Numbers /\ events \in Seq(Events)
         /\ leading \in [Nodes -> 0 .. MaxTerm] /\ lastInTerm \in [Terms -> 0 .. NodeCount]
         /\ lastTerm \in Nat /\ lastActive \in 0 .. NodeCount
         /\ current \in Claims \cup {NoClaim}
         /\ None = 0 /\ None \notin Nodes /\ None \notin Terms
BY NumbersAreNatural DEF LeadersInv, TypeOK, Numbers, None, Nodes, Terms

LEMMA FewerClaims ==
  ASSUME OnePerTerm, AllClaims' \subseteq AllClaims, UNCHANGED <<cluster, lastTerm>>
  PROVE  OnePerTerm'
BY DEF OnePerTerm, Agree

LEMMA ElectPreserves ==
  ASSUME LeadersInv, NEW n \in Nodes, NEW t \in Terms, Elect(n, t)
  PROVE  LeadersInv'
<1>1. /\ leading' = [leading EXCEPT ![n] = t] /\ lastTerm' = t /\ leading[n] = None
      /\ cluster # "broken" => t > lastTerm
      /\ UNCHANGED <<cluster, up, kills, next, current, lastInTerm, lastActive, sweeps,
                     events, outcomes, direct>>
  BY DEF Elect, monitorVars, auxVars
<1>2. /\ leading' \in [Nodes -> 0 .. MaxTerm] /\ t \in Nat /\ t \in 0 .. MaxTerm
      /\ leading'[n] = t
      /\ \A m \in Nodes : m # n => leading'[m] = leading[m]
  BY <1>1, LeaderTypes DEF Terms, Numbers
<1>3. TypeOK'
  BY <1>1, <1>2 DEF LeadersInv, TypeOK
<1>4. events' \in Logs /\ Announced' /\ Apart'
  BY <1>1 DEF LeadersInv, Announced, Apart
<1>5. OnePerTerm'
  <2> SUFFICES ASSUME cluster # "broken"
               PROVE  Agree(AllClaims)' /\ \A a \in AllClaims' : a.term <= lastTerm'
    BY <1>1 DEF OnePerTerm
  <2>1. AllClaims' \subseteq AllClaims \cup {[node |-> n, term |-> t]}
    <3>1. Leading' \subseteq Leading \cup {[node |-> n, term |-> t]}
      BY <1>2 DEF Leading, Leaders
    <3> QED BY <1>1, <3>1 DEF AllClaims
  <2>2. Agree(AllClaims) /\ \A a \in AllClaims : a.term <= lastTerm
    BY DEF LeadersInv, OnePerTerm
  <2>3. \A a \in AllClaims : a.term # t
    BY <1>1, <1>2, <2>2, LeaderTypes
  <2>4. Agree(AllClaims)'
    <3> SUFFICES ASSUME NEW a \in AllClaims', NEW b \in AllClaims', a.term = b.term
                 PROVE  a.node = b.node
      BY DEF Agree
    <3> QED BY <2>1, <2>2, <2>3 DEF Agree
  <2>5. ASSUME NEW a \in AllClaims' PROVE a.term <= lastTerm'
    <3>1. CASE a \in Leading'
      <4>1. PICK m \in Nodes : a = [node |-> m, term |-> leading'[m]] /\ leading'[m] # None
        BY <3>1 DEF Leading, Leaders
      <4>2. CASE m = n
        BY <1>1, <1>2, <4>1, <4>2
      <4>3. CASE m # n
        <5>1. a \in AllClaims /\ a.term \in Nat
          BY <1>2, <4>1, <4>3, LeaderTypes DEF AllClaims, Leading, Leaders, Numbers
        <5> QED BY <1>1, <1>2, <2>2, <5>1, LeaderTypes
      <4> QED BY <4>2, <4>3
    <3>2. CASE a \in {current} \ {NoClaim}
      <4>1. a \in AllClaims /\ a.term \in Nat
        BY <3>2, LeaderTypes DEF AllClaims, Claims, Terms
      <4> QED BY <1>1, <1>2, <2>2, <4>1, LeaderTypes
    <3>3. CASE a \in ClaimsOf(events)
      <4>1. a \in AllClaims /\ a.term \in Nat
        <5>1. PICK j \in DOMAIN events : IsElection(events[j]) /\ a = Claim(events[j])
          BY <3>3 DEF ClaimsOf
        <5>2. events[j].term \in Terms
          BY <5>1 DEF LeadersInv, Logs
        <5> QED BY <3>3, <5>1, <5>2 DEF AllClaims, Claim, Terms
      <4> QED BY <1>1, <1>2, <2>2, <4>1, LeaderTypes
    <3>4. ClaimsOf(events)' = ClaimsOf(events) /\ current' = current
      BY <1>1
    <3> QED BY <2>5, <3>1, <3>2, <3>3, <3>4 DEF AllClaims
  <2> QED BY <2>4, <2>5
<1> QED BY <1>3, <1>4, <1>5 DEF LeadersInv

LEMMA StepDownPreserves ==
  ASSUME LeadersInv, NEW n \in Nodes, StepDown(n)
  PROVE  LeadersInv'
<1>1. /\ leading' = [leading EXCEPT ![n] = None]
      /\ UNCHANGED <<cluster, lastTerm, up, kills, next, current, lastInTerm, lastActive,
                     sweeps, events, outcomes, direct>>
  BY DEF StepDown, monitorVars, auxVars
<1>2. /\ leading' \in [Nodes -> 0 .. MaxTerm] /\ leading'[n] = None
      /\ \A m \in Nodes : m # n => leading'[m] = leading[m]
  BY <1>1, LeaderTypes DEF Numbers
<1>3. TypeOK'
  BY <1>1, <1>2 DEF LeadersInv, TypeOK
<1>4. events' \in Logs /\ Announced' /\ Apart'
  BY <1>1 DEF LeadersInv, Announced, Apart
<1>5. AllClaims' \subseteq AllClaims
  <2>1. Leading' \subseteq Leading
    BY <1>2 DEF Leading, Leaders
  <2> QED BY <1>1, <2>1 DEF AllClaims
<1> QED BY <1>1, <1>3, <1>4, <1>5, FewerClaims DEF LeadersInv

LEMMA KillPreserves ==
  ASSUME LeadersInv, NEW n \in Nodes, Kill(n)
  PROVE  LeadersInv'
<1> DEFINE e == Event("NodeKilled", n, None)
<1>1. /\ n \in up /\ kills < MaxKills /\ up' = up \ {n} /\ kills' = kills + 1
      /\ leading' = [leading EXCEPT ![n] = None]
      /\ UNCHANGED <<cluster, lastTerm, next, current, lastInTerm, lastActive, sweeps,
                     outcomes, direct>>
  BY DEF Kill, monitorVars, auxVars
<1>2. PICK i \in 1 .. Len(events) + 1 : events' = InsertAt(events, i, e)
  BY DEF Kill
<1>3. e \in Events /\ ~IsElection(e)
  BY LeaderTypes DEF Event, Events, Numbers, None, IsElection
<1> HIDE DEF e
<1>4. events' \in Seq(Events) /\ IsInsertion(events', events, i, e)
  BY <1>2, <1>3, LeaderTypes, InsertAtInserts
<1>5. events' \in Logs /\ ClaimsOf(events') = ClaimsOf(events)
  BY <1>3, <1>4, InsertedClaims DEF LeadersInv
<1>6. /\ leading' \in [Nodes -> 0 .. MaxTerm] /\ leading'[n] = None
      /\ \A m \in Nodes : m # n => leading'[m] = leading[m]
  BY <1>1, LeaderTypes DEF Numbers
<1>7. TypeOK'
  <2>1. kills' \in 0 .. MaxKills
    BY <1>1, LeaderTypes DEF LeadersInv, TypeOK, Numbers
  <2> QED BY <1>1, <1>4, <1>6, <2>1 DEF LeadersInv, TypeOK
<1>8. ClaimsOf(events)' = ClaimsOf(events)
  BY <1>5 DEF ClaimsOf
<1>9. Announced'
  BY <1>1, <1>8 DEF LeadersInv, Announced
<1>10. AllClaims' \subseteq AllClaims
  <2>1. Leading' \subseteq Leading
    BY <1>6 DEF Leading, Leaders
  <2> QED BY <1>1, <1>8, <2>1 DEF AllClaims
<1>11. Apart'
  <2> SUFFICES ASSUME ~direct PROVE Apart'
    BY <1>1 DEF Apart
  <2>1. Separated(events') /\ OnlyActive(events', lastActive)
    BY <1>3, <1>4, LeaderTypes, EndInserted DEF LeadersInv, Apart
  <2> QED BY <1>1, <2>1 DEF Apart, Separated, OnlyActive
<1> QED BY <1>1, <1>5, <1>7, <1>9, <1>10, <1>11, FewerClaims DEF LeadersInv

LEMMA RestartPreserves ==
  ASSUME LeadersInv, NEW n \in Nodes, Restart(n)
  PROVE  LeadersInv'
<1>1. /\ up' = up \cup {n}
      /\ UNCHANGED <<cluster, leading, lastTerm, kills, next, current, lastInTerm,
                     lastActive, sweeps, events, outcomes, direct>>
  BY DEF Restart, monitorVars, auxVars
<1>2. TypeOK' /\ events' \in Logs /\ Announced' /\ Apart'
  BY <1>1 DEF LeadersInv, TypeOK, Announced, Apart
<1>3. AllClaims' = AllClaims
  BY <1>1 DEF AllClaims, Leading, Leaders
<1> QED BY <1>1, <1>2, <1>3, FewerClaims DEF LeadersInv

LEMMA PollPreserves ==
  ASSUME LeadersInv, PollLeader \/ PollOther
  PROVE  LeadersInv'
<1>1. /\ next <= NodeCount /\ next' = next + 1
      /\ \/ current' = current
         \/ leading[next] # None /\ current' = [node |-> next, term |-> leading[next]]
      /\ UNCHANGED <<cluster, leading, lastTerm, up, kills, lastInTerm, lastActive, sweeps,
                     events, outcomes, direct>>
  BY DEF PollLeader, PollOther, clusterVars, auxVars
<1>2. /\ next \in Nodes /\ next' \in 1 .. NodeCount + 1
  BY <1>1, LeaderTypes DEF LeadersInv, TypeOK, Nodes, Numbers
<1>3. current' \in Claims \cup {NoClaim}
  <2>1. CASE current' = current
    BY <2>1, LeaderTypes
  <2>2. CASE leading[next] # None /\ current' = [node |-> next, term |-> leading[next]]
    <3>1. leading[next] \in 0 .. MaxTerm /\ leading[next] # 0
      BY <1>2, <2>2, LeaderTypes
    <3>2. leading[next] \in Terms
      BY <3>1, LeaderTypes DEF Terms, Numbers
    <3> QED BY <1>2, <2>2, <3>2 DEF Claims
  <2> QED BY <1>1, <2>1, <2>2
<1>4. TypeOK'
  BY <1>1, <1>2, <1>3 DEF LeadersInv, TypeOK
<1>5. events' \in Logs /\ Announced' /\ Apart'
  BY <1>1 DEF LeadersInv, Announced, Apart
<1>6. AllClaims' \subseteq AllClaims
  <2>1. Leading' = Leading /\ ClaimsOf(events)' = ClaimsOf(events)
    BY <1>1 DEF Leading, Leaders, ClaimsOf
  <2>2. {current'} \ {NoClaim} \subseteq AllClaims
    BY <1>1, <1>2 DEF AllClaims, Leading, Leaders
  <2> QED BY <2>1, <2>2 DEF AllClaims
<1> QED BY <1>1, <1>4, <1>5, <1>6, FewerClaims DEF LeadersInv

LEMMA NoLeaderSeenPreserves ==
  ASSUME LeadersInv, NoLeaderSeen
  PROVE  LeadersInv'
<1> DEFINE e == SteppedDown
<1>1. /\ next' = 1 /\ current' = NoClaim /\ sweeps' = sweeps + 1 /\ sweeps < MaxSweeps
      /\ current = NoClaim
      /\ lastActive' = None
      /\ events' = IF lastActive = None THEN events ELSE Append(events, e)
      /\ UNCHANGED <<cluster, leading, lastTerm, up, kills, lastInTerm, outcomes, direct>>
  BY DEF NoLeaderSeen, SweepEnds, clusterVars
<1>2. /\ next' \in 1 .. NodeCount + 1 /\ sweeps' \in 0 .. MaxSweeps
      /\ current' \in Claims \cup {NoClaim} /\ lastActive' \in 0 .. NodeCount
  BY <1>1, LeaderTypes DEF LeadersInv, TypeOK, Numbers
<1>3. CASE lastActive = None
  <2>1. TypeOK' /\ events' \in Logs /\ Announced' /\ Apart'
    BY <1>1, <1>2, <1>3 DEF LeadersInv, TypeOK, Announced, Apart
  <2>2. AllClaims' = AllClaims
    BY <1>1, <1>3 DEF AllClaims, Leading, Leaders
  <2> QED BY <1>1, <2>1, <2>2, FewerClaims DEF LeadersInv
<1>4. CASE lastActive # None
  <2>1. e \in Events /\ ~IsElection(e) /\ IsDown(e, lastActive)
    BY <1>4, LeaderTypes
    DEF SteppedDown, Event, Events, Numbers, None, Nodes, IsElection, IsDown
  <2> HIDE DEF e
  <2>2. /\ events' = Append(events, e) /\ events' \in Seq(Events)
        /\ IsInsertion(events', events, Len(events) + 1, e)
    BY <1>1, <1>4, <2>1, LeaderTypes, AppendInserts
  <2>3. events' \in Logs /\ ClaimsOf(events') = ClaimsOf(events)
    BY <2>1, <2>2, InsertedClaims DEF LeadersInv
  <2>4. ClaimsOf(events)' = ClaimsOf(events)
    BY <2>3 DEF ClaimsOf
  <2>5. TypeOK' /\ Announced'
    BY <1>1, <1>2, <2>2, <2>4 DEF LeadersInv, TypeOK, Announced
  <2>6. AllClaims' = AllClaims
    BY <1>1, <2>4 DEF AllClaims, Leading, Leaders
  <2>7. Apart'
    <3> SUFFICES ASSUME ~direct PROVE Apart'
      BY <1>1 DEF Apart
    <3>1. Separated(events')
      BY <2>1, <2>2, LeaderTypes, EndInserted DEF LeadersInv, Apart
    <3>2. OnlyActive(events', None)
      BY <2>1, <2>2, LeaderTypes, LastStepsDown DEF LeadersInv, Apart
    <3> QED BY <1>1, <3>1, <3>2 DEF Apart, Separated, OnlyActive
  <2> QED BY <1>1, <2>3, <2>5, <2>6, <2>7, FewerClaims DEF LeadersInv
<1> QED BY <1>3, <1>4

LEMMA LeaderSeenPreserves ==
  ASSUME LeadersInv, LeaderSeen
  PROVE  LeadersInv'
<1> DEFINE e == Elected
           new == lastInTerm[current.term] # current.node
           alone == lastActive \in {None, current.node}
<1>1. /\ next' = 1 /\ current' = NoClaim /\ sweeps' = sweeps + 1 /\ sweeps < MaxSweeps
      /\ current # NoClaim
      /\ outcomes' = outcomes \cup {current}
      /\ direct' = (direct \/ ~alone)
      /\ new => /\ events' = events \o (IF alone THEN <<e>> ELSE <<e, SteppedDown>>)
                /\ lastInTerm' = [lastInTerm EXCEPT ![current.term] = current.node]
                /\ lastActive' = current.node
      /\ ~new => UNCHANGED <<events, lastInTerm, lastActive>>
      /\ UNCHANGED <<cluster, leading, lastTerm, up, kills>>
  BY DEF LeaderSeen, SweepEnds, clusterVars
<1>2. /\ current \in Claims /\ current.node \in Nodes /\ current.term \in Terms
      /\ current = [node |-> current.node, term |-> current.term]
      /\ current \in AllClaims
  BY <1>1, LeaderTypes DEF Claims, AllClaims
<1>3. /\ next' \in 1 .. NodeCount + 1 /\ sweeps' \in 0 .. MaxSweeps
      /\ current' \in Claims \cup {NoClaim} /\ outcomes' \subseteq Claims
      /\ direct' \in BOOLEAN
  <2>1. /\ sweeps \in 0 .. MaxSweeps /\ outcomes \subseteq Claims /\ direct \in BOOLEAN
    BY DEF LeadersInv, TypeOK
  <2>2. 1 \in 1 .. NodeCount + 1 /\ sweeps' \in 0 .. MaxSweeps
    BY <1>1, <2>1, LeaderTypes DEF Numbers
  <2> HIDE DEF new, alone
  <2> QED BY <1>1, <1>2, <2>1, <2>2
<1>4. CASE ~new
  <2>1. current \in ClaimsOf(events)
    <3>1. lastInTerm[current.term] # None
      BY <1>2, <1>4, LeaderTypes
    <3> QED BY <1>2, <1>4, <3>1 DEF LeadersInv, Announced
  <2>2. TypeOK'
    BY <1>1, <1>3, <1>4 DEF LeadersInv, TypeOK
  <2>3. events' \in Logs /\ Announced'
    BY <1>1, <1>4, <2>1 DEF LeadersInv, Announced
  <2>4. Apart'
    BY <1>1, <1>4 DEF LeadersInv, Apart
  <2>5. AllClaims' \subseteq AllClaims
    BY <1>1, <1>4 DEF AllClaims, Leading, Leaders
  <2> QED BY <1>1, <2>2, <2>3, <2>4, <2>5, FewerClaims DEF LeadersInv
<1>5. CASE new
  <2>1. e \in Events /\ IsElection(e) /\ e.term \in Terms /\ Claim(e) = current /\ e.node = current.node
    BY <1>2, LeaderTypes
    DEF Elected, Event, Events, Numbers, Terms, IsElection, Claim
  <2> DEFINE s == Append(events, e)
  <2> HIDE DEF e
  <2>2. /\ s = events \o <<e>> /\ s \in Seq(Events)
        /\ IsInsertion(s, events, Len(events) + 1, e)
    BY <2>1, LeaderTypes, AppendInserts
  <2>3. s \in Logs /\ ClaimsOf(s) = ClaimsOf(events) \cup {current}
    BY <2>1, <2>2, InsertedClaims DEF LeadersInv
  <2>4. events' \in Logs /\ ClaimsOf(events') = ClaimsOf(events) \cup {current}
    <3>1. CASE alone
      BY <1>1, <1>5, <2>2, <2>3, <3>1
    <3>2. CASE ~alone
      <4> DEFINE f == SteppedDown
      <4>1. f \in Events /\ ~IsElection(f)
        BY <3>2, LeaderTypes
        DEF SteppedDown, Event, Events, Numbers, None, Nodes, IsElection
      <4> HIDE DEF f, s
      <4>2. Append(s, f) \in Seq(Events) /\ IsInsertion(Append(s, f), s, Len(s) + 1, f)
        BY <2>2, <4>1, AppendInserts
      <4>3. Append(s, f) \in Logs /\ ClaimsOf(Append(s, f)) = ClaimsOf(s)
        <5>1. /\ Append(s, f) \in Logs
              /\ ClaimsOf(Append(s, f))
                   = ClaimsOf(s) \cup (IF IsElection(f) THEN {Claim(f)} ELSE {})
          BY <2>3, <4>1, <4>2, InsertedClaims
        <5> QED BY <4>1, <5>1
      <4>4. events' = Append(s, f)
        <5>1. events' = events \o <<e, f>>
          BY <1>1, <1>5, <3>2 DEF f
        <5>2. events \o <<e, f>> = Append(Append(events, e), f)
          BY <2>1, <4>1, LeaderTypes
        <5> QED BY <5>1, <5>2 DEF s
      <4> QED BY <2>3, <4>3, <4>4
    <3> QED BY <3>1, <3>2
  <2>5. ClaimsOf(events)' = ClaimsOf(events) \cup {current}
    BY <2>4 DEF ClaimsOf
  <2>6. /\ lastInTerm' \in [Terms -> 0 .. NodeCount] /\ lastActive' \in 0 .. NodeCount
        /\ lastInTerm'[current.term] = current.node
        /\ \A t \in Terms : t # current.term => lastInTerm'[t] = lastInTerm[t]
    <3>1. /\ lastInTerm' = [lastInTerm EXCEPT ![current.term] = current.node]
          /\ lastActive' = current.node
      BY <1>1, <1>5
    <3>2. current.node \in 0 .. NodeCount
      BY <1>2, LeaderTypes DEF Nodes, Numbers
    <3> QED BY <1>2, <3>1, <3>2, LeaderTypes
  <2>7. TypeOK'
    BY <1>1, <1>3, <2>4, <2>6 DEF LeadersInv, TypeOK, Logs
  <2>8. Announced'
    <3>1. outcomes' \subseteq ClaimsOf(events)'
      BY <1>1, <2>5 DEF LeadersInv, Announced
    <3>2. ASSUME NEW t \in Terms, lastInTerm'[t] # None
          PROVE  [node |-> lastInTerm'[t], term |-> t] \in ClaimsOf(events)'
      <4>1. CASE t = current.term
        BY <1>2, <2>5, <2>6, <4>1
      <4>2. CASE t # current.term
        BY <2>5, <2>6, <3>2, <4>2 DEF LeadersInv, Announced
      <4> QED BY <4>1, <4>2
    <3> QED BY <3>1, <3>2 DEF Announced
  <2>9. Apart'
    <3> SUFFICES ASSUME ~direct, alone PROVE Apart'
      BY <1>1 DEF Apart
    <3>1. events' = s
      BY <1>1, <1>5, <2>2
    <3>2. Separated(events) /\ OnlyActive(events, current.node)
      <4>1. Separated(events) /\ OnlyActive(events, lastActive)
        BY DEF LeadersInv, Apart
      <4>2. \A a \in DOMAIN events : events[a].node # None
        <5>1. \A a \in DOMAIN events : events[a] \in Events
          BY LeaderTypes, ElementOfSeq, LenProperties
        <5> QED BY <5>1, LeaderTypes DEF Events
      <4> QED BY <4>1, <4>2 DEF OnlyActive
    <3>3. Separated(s) /\ OnlyActive(s, current.node)
      BY <2>1, <3>2, LeaderTypes, ElectionAppended
    <3>4. lastActive' = current.node
      BY <1>1, <1>5
    <3> HIDE DEF s
    <3> QED BY <3>1, <3>3, <3>4 DEF Apart, Separated, OnlyActive
  <2>10. AllClaims' \subseteq AllClaims
    <3>1. Leading' = Leading
      BY <1>1 DEF Leading, Leaders
    <3> QED BY <1>1, <1>2, <2>5, <3>1 DEF AllClaims
  <2> QED BY <1>1, <2>4, <2>7, <2>8, <2>9, <2>10, FewerClaims DEF LeadersInv
<1> QED BY <1>4, <1>5

LEMMA LeadersStep ==
  ASSUME LeadersInv, Next \/ UNCHANGED vars
  PROVE  LeadersInv'
<1>1. CASE UNCHANGED vars
  <2>1. UNCHANGED <<cluster, leading, lastTerm, up, kills, next, current, lastInTerm,
                    lastActive, sweeps, events, outcomes, direct>>
    BY <1>1 DEF vars, clusterVars, monitorVars, auxVars
  <2> QED BY <2>1 DEF LeadersInv, TypeOK, Announced, OnePerTerm, Apart, AllClaims,
          Leading, Leaders
<1>2. CASE Next
  BY <1>2, ElectPreserves, StepDownPreserves, KillPreserves, RestartPreserves,
     PollPreserves, LeaderSeenPreserves, NoLeaderSeenPreserves DEF Next
<1> QED BY <1>1, <1>2

LEMMA LeadersInvariance == OraclesSpec => []LeadersInv
<1>1. OraclesInit => LeadersInv
  BY LeadersInitially DEF OraclesInit
<1>2. LeadersInv /\ [OraclesNext]_<<checker, vars, workloadVars, storeVars, lockVars>>
        => LeadersInv'
  BY LeadersStep DEF OraclesNext, WatchLeaders, WatchReads, WatchLocks
<1> QED BY <1>1, <1>2, PTL DEF OraclesSpec

(* A cluster with one leader per term is never reported to have two in     *)
(* one, however elections, kills and sweeps interleave.                    *)
THEOREM OneLeaderPerTermPasses == OraclesSpec => []OneLeaderPerTermIsNotReported
<1>1. LeadersInv => OneLeaderPerTermIsNotReported
  <2> SUFFICES ASSUME LeadersInv, cluster # "broken" PROVE ~RivalsReported
    BY DEF OneLeaderPerTermIsNotReported
  <2>1. Agree(ClaimsOf(events))
    BY DEF LeadersInv, OnePerTerm, Agree, AllClaims
  <2> QED BY <2>1, VerdictIsExact DEF LeadersInv, RivalsReported
<1> QED BY <1>1, LeadersInvariance, PTL

(* Two nodes that two sweeps found leading in the same term are reported,  *)
(* whatever else was seen before, in between and after.                    *)
THEOREM RivalsAreReported == OraclesSpec => []RivalsInOneTermAreReported
<1>1. LeadersInv => RivalsInOneTermAreReported
  <2> SUFFICES ASSUME LeadersInv, NEW a \in outcomes, NEW b \in outcomes,
                      a.term = b.term, a.node # b.node
               PROVE  RivalsReported
    BY DEF RivalsInOneTermAreReported
  <2>1. ~Agree(ClaimsOf(events))
    BY DEF LeadersInv, Announced, Agree
  <2> QED BY <2>1, VerdictIsExact DEF LeadersInv, RivalsReported
<1> QED BY <1>1, LeadersInvariance, PTL

(* Leaders with a sweep in between that finds none are not reported as     *)
(* simultaneous, wherever in the log the kills are placed.                 *)
THEOREM SeparateLeadersPass == OraclesSpec => []SeparateLeadersAreNotReported
<1>1. LeadersInv => SeparateLeadersAreNotReported
  BY VerdictIsExact
  DEF LeadersInv, Apart, SeparateLeadersAreNotReported, SeveralReported
<1> QED BY <1>1, LeadersInvariance, PTL

----------------------------------------------------------------------------
(* The inductive invariant of the lock service and its clients             *)

IsLock(h) == h.op = "LOCK"

(* The first grant of a lease in a history: the others repeat it.          *)
IsGrant(s, i) ==
  IsLock(s[i]) /\ \A j \in 1 .. i - 1 : IsLock(s[j]) => s[j].token # s[i].token

(* What client c has been told so far, the reply under way included.       *)
Reply(c) == [op |-> worker[c].op, start |-> worker[c].at, end |-> now,
             token |-> worker[c].reply.token, life |-> worker[c].reply.life]
Told(c) ==
  IF worker[c].busy /\ worker[c].reply.status = "ok" THEN Append(history[c], Reply(c))
  ELSE history[c]
told == [c \in Clients |-> Told(c)]

(* One operation after the other.                                          *)
Clocks ==
  \A c \in Clients :
    /\ worker[c].at <= now
    /\ \A i \in DOMAIN history[c] :
         /\ history[c][i].start <= history[c][i].end
         /\ history[c][i].end <= lastEnd
         /\ history[c][i].end <= worker[c].at
         /\ worker[c].busy => history[c][i].end < worker[c].at
    /\ \A i, j \in DOMAIN history[c] : i < j => history[c][i].end < history[c][j].start

(* The leases of a client, in the order in which they were granted.        *)
InOrder(s) ==
  \A i, j \in DOMAIN s : i < j /\ IsLock(s[i]) /\ IsLock(s[j]) =>
    /\ s[i].token <= s[j].token
    /\ \A k \in i + 1 .. j - 1 : ~IsLock(s[k]) => s[i].token < s[j].token

(* At a time, the lease of this grant may have expired or be released.     *)
Gone(s, i, time) ==
  \/ s[i].start + s[i].life <= time
  \/ \E k \in DOMAIN s : i < k /\ ~IsLock(s[k]) /\ s[k].start <= time

(* A lease was granted when all earlier ones were gone.                    *)
Successive(s, r) ==
  \A i \in DOMAIN s, j \in DOMAIN r :
    IsGrant(s, i) /\ IsLock(r[j]) /\ s[i].token < r[j].token => Gone(s, i, r[j].end)

(* What an exclusive service has granted by a time, to clients that were   *)
(* told of everything it did.                                              *)
Exclusive(K, time, L, T) ==
  /\ \A c \in Clients : InOrder(K[c])
  /\ \A c \in Clients : \A i \in DOMAIN K[c] : IsLock(K[c][i]) => K[c][i].token \in 1 .. T
  /\ \A c, d \in Clients : c # d =>
       \A i \in DOMAIN K[c], j \in DOMAIN K[d] :
         IsLock(K[c][i]) /\ IsLock(K[d][j]) => K[c][i].token # K[d][j].token
  /\ \A c, d \in Clients : Successive(K[c], K[d])
  /\ \A c \in Clients : \A i \in DOMAIN K[c] : IsGrant(K[c], i) =>
       \/ Gone(K[c], i, time)
       \/ \E l \in L : l.owner = c /\ K[c][i].start + K[c][i].life <= l.expires
  /\ \A l \in L :
       /\ l.owner \in Clients /\ l.token = T
       /\ \A m \in L : m = l
       /\ \E i \in DOMAIN K[l.owner] :
            /\ IsLock(K[l.owner][i]) /\ K[l.owner][i].token = T
            /\ \A k \in DOMAIN K[l.owner] : i < k => IsLock(K[l.owner][k])

(* A client that may be sure of its lease until a time was granted it, and *)
(* has not asked to release it.                                            *)
Certainty ==
  \A c \in Clients :
    \/ certain[c] = 0
    \/ \E i \in DOMAIN history[c] :
         /\ IsGrant(history[c], i)
         /\ certain[c] = history[c][i].start + history[c][i].life
         /\ \A k \in DOMAIN history[c] : i < k => IsLock(history[c][k])
         /\ ~(worker[c].busy /\ worker[c].op = "UNLOCK")

(* The history shows that client c owned the lease after a time.           *)
OwnedAfter(c, time) ==
  \E i \in DOMAIN history[c] :
    /\ IsGrant(history[c], i)
    /\ history[c][i].end <= time /\ time < history[c][i].start + history[c][i].life
    /\ \A k \in DOMAIN history[c] : i < k /\ ~IsLock(history[c][k]) => time < history[c][k].start
    /\ worker[c].busy /\ worker[c].op = "UNLOCK" => time < worker[c].at

Sharing ==
  shared => \E c, d \in Clients, time \in 0 .. now - 1 :
              c # d /\ OwnedAfter(c, time) /\ OwnedAfter(d, time)

LocksInv ==
  /\ Locks!TypeOK /\ Clocks /\ Certainty /\ Sharing
  /\ service.exclusive /\ silent = {} => Exclusive(told, now, leases, tokens)

----------------------------------------------------------------------------
(* Histories of leases                                                     *)

Histories == Seq(Locks!Entries)

LEMMA EntryFacts ==
  ASSUME NEW s \in Histories
  PROVE  /\ Len(s) \in Nat /\ DOMAIN s = 1 .. Len(s)
         /\ \A i \in DOMAIN s :
              /\ i \in Nat /\ s[i] \in Locks!Entries /\ s[i].op \in {"LOCK", "UNLOCK"}
              /\ s[i].start \in Nat /\ s[i].end \in Nat /\ s[i].token \in Nat /\ s[i].life \in Nat
<1>1. Len(s) \in Nat /\ DOMAIN s = 1 .. Len(s) /\ \A i \in 1 .. Len(s) : s[i] \in Locks!Entries
  BY LenProperties, ElementOfSeq DEF Histories
<1>2. \A e \in Locks!Entries : /\ e.op \in {"LOCK", "UNLOCK"} /\ e.start \in Nat /\ e.end \in Nat
                              /\ e.token \in Nat /\ e.life \in Nat
  BY DEF Locks!Entries, Locks!Operations
<1> QED BY <1>1, <1>2

LEMMA Extended ==
  ASSUME NEW s \in Histories, NEW e \in Locks!Entries
  PROVE  LET r == Append(s, e) n == Len(s) + 1
         IN /\ r \in Histories /\ Len(r) = n /\ DOMAIN r = 1 .. n
            /\ n \in Nat /\ DOMAIN s = 1 .. n - 1
            /\ r[n] = e
            /\ \A i \in DOMAIN s : r[i] = s[i] /\ IsGrant(r, i) = IsGrant(s, i)
            /\ \A i \in DOMAIN s, time \in Nat : Gone(s, i, time) => Gone(r, i, time)
<1> DEFINE r == Append(s, e)
           n == Len(s) + 1
<1>1. /\ r \in Histories /\ Len(r) = n /\ DOMAIN r = 1 .. n
      /\ n \in Nat /\ DOMAIN s = 1 .. n - 1
      /\ r[n] = e /\ \A i \in DOMAIN s : r[i] = s[i]
  BY AppendProperties, LenProperties DEF Histories
<1>2. ASSUME NEW i \in DOMAIN s PROVE IsGrant(r, i) = IsGrant(s, i)
  <2>1. r[i] = s[i] /\ \A j \in 1 .. i - 1 : r[j] = s[j]
    BY <1>1, <1>2
  <2> HIDE DEF r
  <2> QED BY <2>1 DEF IsGrant
<1>3. ASSUME NEW i \in DOMAIN s, NEW time \in Nat, Gone(s, i, time) PROVE Gone(r, i, time)
  <2> HIDE DEF r, n
  <2> QED BY <1>1, <1>3 DEF Gone
<1> QED BY <1>1, <1>2, <1>3

LEMMA GoneLater ==
  ASSUME NEW s \in Histories, NEW i \in DOMAIN s, NEW time \in Nat, NEW then \in Nat,
         time <= then, Gone(s, i, time)
  PROVE  Gone(s, i, then)
<1>1. s[i].start + s[i].life \in Nat /\ \A k \in DOMAIN s : s[k].start \in Nat
  BY EntryFacts
<1> QED BY <1>1 DEF Gone

LEMMA EndLater ==
  ASSUME NEW s \in Histories, NEW e \in Locks!Entries, NEW o \in Locks!Entries,
         o.op = e.op, o.start = e.start, o.token = e.token, o.life = e.life, e.end <= o.end
  PROVE  LET p == Append(s, e) r == Append(s, o)
         IN /\ r \in Histories /\ DOMAIN r = DOMAIN p
            /\ \A i \in DOMAIN p :
                 /\ r[i].op = p[i].op /\ r[i].start = p[i].start
                 /\ r[i].token = p[i].token /\ r[i].life = p[i].life
                 /\ p[i].end <= r[i].end
<1> DEFINE p == Append(s, e)
           r == Append(s, o)
           n == Len(s) + 1
<1>1. /\ DOMAIN s = 1 .. n - 1 /\ n \in Nat /\ DOMAIN p = 1 .. n /\ p[n] = e
      /\ \A i \in DOMAIN s : p[i] = s[i]
  BY Extended
<1>2. /\ r \in Histories /\ DOMAIN r = 1 .. n /\ r[n] = o
      /\ \A i \in DOMAIN s : r[i] = s[i]
  BY Extended
<1>3. \A i \in DOMAIN s : s[i].end <= s[i].end
  BY EntryFacts
<1> HIDE DEF p, r, n
<1>4. \A i \in DOMAIN p : i \in DOMAIN s \/ i = n
  BY <1>1
<1> QED BY <1>1, <1>2, <1>3, <1>4 DEF p, r

(* Time passes, at the service and in the replies under way.               *)
LEMMA ExclusiveLater ==
  ASSUME NEW K \in [Clients -> Histories], NEW R \in [Clients -> Histories],
         NEW time \in Nat, NEW then \in Nat, time <= then, NEW L, NEW T \in Nat,
         \A c \in Clients :
           /\ DOMAIN R[c] = DOMAIN K[c]
           /\ \A i \in DOMAIN K[c] :
                /\ R[c][i].op = K[c][i].op /\ R[c][i].start = K[c][i].start
                /\ R[c][i].token = K[c][i].token /\ R[c][i].life = K[c][i].life
                /\ K[c][i].end <= R[c][i].end,
         Exclusive(K, time, L, T)
  PROVE  Exclusive(R, then, L, T)
<1>1. ASSUME NEW c \in Clients PROVE R[c] \in Histories /\ K[c] \in Histories
  OBVIOUS
<1>2. \A c \in Clients : \A i \in DOMAIN K[c] : IsLock(R[c][i]) = IsLock(K[c][i])
  BY DEF IsLock
<1>3. ASSUME NEW c \in Clients, NEW i \in DOMAIN K[c]
      PROVE  /\ i \in DOMAIN R[c] /\ IsGrant(R[c], i) = IsGrant(K[c], i)
             /\ \A t \in Nat : Gone(R[c], i, t) = Gone(K[c], i, t)
  <2>1. \A j \in 1 .. i - 1 : j \in DOMAIN K[c]
    BY <1>1, EntryFacts
  <2>2. IsGrant(R[c], i) = IsGrant(K[c], i)
    BY <1>2, <2>1 DEF IsGrant
  <2>3. \A t \in Nat : Gone(R[c], i, t) = Gone(K[c], i, t)
    BY <1>2 DEF Gone
  <2> QED BY <2>2, <2>3
<1>4. \A c \in Clients : InOrder(R[c])
  <2> SUFFICES ASSUME NEW c \in Clients, NEW i \in DOMAIN K[c], NEW j \in DOMAIN K[c],
                      i < j, IsLock(K[c][i]), IsLock(K[c][j])
               PROVE  /\ R[c][i].token <= R[c][j].token
                      /\ \A k \in i + 1 .. j - 1 :
                           ~IsLock(R[c][k]) => R[c][i].token < R[c][j].token
    BY <1>2 DEF InOrder
  <2>1. /\ K[c][i].token <= K[c][j].token
        /\ \A k \in i + 1 .. j - 1 : ~IsLock(K[c][k]) => K[c][i].token < K[c][j].token
    BY DEF Exclusive, InOrder
  <2>2. \A k \in i + 1 .. j - 1 : k \in DOMAIN K[c]
    BY <1>1, EntryFacts
  <2> QED BY <1>2, <2>1, <2>2
<1>5. \A c, d \in Clients : Successive(R[c], R[d])
  <2> SUFFICES ASSUME NEW c \in Clients, NEW d \in Clients, NEW i \in DOMAIN K[c],
                      NEW j \in DOMAIN K[d], IsGrant(K[c], i), IsLock(K[d][j]),
                      K[c][i].token < K[d][j].token
               PROVE  Gone(R[c], i, R[d][j].end)
    BY <1>2, <1>3 DEF Successive
  <2>1. Gone(K[c], i, K[d][j].end)
    BY DEF Exclusive, Successive
  <2>2. K[d][j].end \in Nat /\ R[d][j].end \in Nat /\ K[d][j].end <= R[d][j].end
    <3>1. j \in DOMAIN R[d] /\ R[d] \in Histories /\ K[d] \in Histories
      OBVIOUS
    <3> QED BY <3>1, EntryFacts
  <2>3. Gone(K[c], i, R[d][j].end)
    BY <1>1, <2>1, <2>2, GoneLater
  <2> QED BY <1>3, <2>2, <2>3
<1>6. \A c \in Clients : \A i \in DOMAIN R[c] : IsGrant(R[c], i) =>
        \/ Gone(R[c], i, then)
        \/ \E l \in L : l.owner = c /\ R[c][i].start + R[c][i].life <= l.expires
  <2> SUFFICES ASSUME NEW c \in Clients, NEW i \in DOMAIN K[c], IsGrant(K[c], i)
               PROVE  \/ Gone(K[c], i, then)
                      \/ \E l \in L : l.owner = c /\ K[c][i].start + K[c][i].life <= l.expires
    BY <1>3
  <2> QED BY <1>1, GoneLater DEF Exclusive
<1>7. ASSUME NEW l \in L
      PROVE  \E i \in DOMAIN R[l.owner] :
               /\ IsLock(R[l.owner][i]) /\ R[l.owner][i].token = T
               /\ \A k \in DOMAIN R[l.owner] : i < k => IsLock(R[l.owner][k])
  BY <1>2 DEF Exclusive
<1> QED BY <1>2, <1>4, <1>5, <1>6, <1>7 DEF Exclusive

(* What one more operation of client c leaves as it is.                    *)
IsExtension(R, K, c, e, n) ==
  /\ R = [K EXCEPT ![c] = Append(K[c], e)]
  /\ n = Len(K[c]) + 1

LEMMA ExtensionFacts ==
  ASSUME NEW K \in [Clients -> Histories], NEW c \in Clients, NEW e \in Locks!Entries,
         NEW R, NEW n, IsExtension(R, K, c, e, n)
  PROVE  /\ R \in [Clients -> Histories]
         /\ n \in DOMAIN R[c] /\ R[c][n] = e /\ n \in Nat /\ DOMAIN K[c] = 1 .. n - 1
         /\ \A d \in Clients : \A i \in DOMAIN K[d] :
              /\ i \in DOMAIN R[d] /\ R[d][i] = K[d][i]
              /\ IsGrant(R[d], i) = IsGrant(K[d], i)
              /\ \A time \in Nat : Gone(K[d], i, time) => Gone(R[d], i, time)
         /\ \A d \in Clients : \A i \in DOMAIN R[d] : i \in DOMAIN K[d] \/ (d = c /\ i = n)
<1> DEFINE r == Append(K[c], e)
<1>1. /\ r \in Histories /\ DOMAIN r = 1 .. n /\ n \in Nat /\ DOMAIN K[c] = 1 .. n - 1
      /\ r[n] = e
      /\ \A i \in DOMAIN K[c] :
           /\ r[i] = K[c][i] /\ IsGrant(r, i) = IsGrant(K[c], i)
           /\ \A time \in Nat : Gone(K[c], i, time) => Gone(r, i, time)
  <2>1. K[c] \in Histories
    OBVIOUS
  <2> QED BY <2>1, Extended DEF IsExtension
<1> HIDE DEF r
<1>2. R[c] = r /\ \A d \in Clients : d # c => R[d] = K[d]
  BY DEF IsExtension, r
<1>3. R \in [Clients -> Histories]
  BY <1>1 DEF IsExtension, r
<1>4. n \in DOMAIN R[c] /\ R[c][n] = e
  <2>1. n \in 1 .. n
    BY EntryFacts DEF IsExtension
  <2> QED BY <1>1, <1>2, <2>1
<1>5. ASSUME NEW d \in Clients, NEW i \in DOMAIN K[d]
      PROVE  /\ i \in DOMAIN R[d] /\ R[d][i] = K[d][i]
             /\ IsGrant(R[d], i) = IsGrant(K[d], i)
             /\ \A time \in Nat : Gone(K[d], i, time) => Gone(R[d], i, time)
  <2>1. CASE d = c
    <3>1. i \in DOMAIN r
      BY <1>1, <2>1
    <3> QED BY <1>1, <1>2, <2>1, <3>1
  <2>2. CASE d # c
    BY <1>2, <2>2
  <2> QED BY <2>1, <2>2
<1>6. ASSUME NEW d \in Clients, NEW i \in DOMAIN R[d]
      PROVE  i \in DOMAIN K[d] \/ (d = c /\ i = n)
  BY <1>1, <1>2
<1> QED BY <1>1, <1>3, <1>4, <1>5, <1>6

(* The numbers in the histories of all clients.                            *)
LEMMA AllEntryFacts ==
  ASSUME NEW K \in [Clients -> Histories], NEW c \in Clients
  PROVE  /\ K[c] \in Histories
         /\ \A i \in DOMAIN K[c] :
              /\ i \in Nat /\ K[c][i].start \in Nat /\ K[c][i].end \in Nat
              /\ K[c][i].token \in Nat /\ K[c][i].life \in Nat
<1>1. K[c] \in Histories
  OBVIOUS
<1> QED BY <1>1, EntryFacts

(* The lease is granted again to its owner.                                *)
LEMMA ExclusiveRepeats ==
  ASSUME NEW K \in [Clients -> Histories], NEW c \in Clients, NEW e \in Locks!Entries,
         NEW R, NEW n, IsExtension(R, K, c, e, n),
         NEW time \in Nat, NEW T \in Nat, NEW L, NEW l \in L,
         l.owner = c, IsLock(e), e.token = l.token, e.end = time,
         \A i \in DOMAIN K[c] : K[c][i].end <= time,
         Exclusive(K, time, L, T)
  PROVE  Exclusive(R, time, L, T)
<1>1. PICK a \in DOMAIN K[c] : /\ IsLock(K[c][a]) /\ K[c][a].token = T
                              /\ \A k \in DOMAIN K[c] : a < k => IsLock(K[c][k])
  BY DEF Exclusive
<1>2. e.token = T
  BY DEF Exclusive
<1>3. \A d \in Clients : \A i \in DOMAIN K[d] : IsLock(K[d][i]) => K[d][i].token \in 1 .. T
  BY DEF Exclusive
<1>4. ~IsGrant(R[c], n)
  <2>1. a \in 1 .. n - 1 /\ R[c][a] = K[c][a] /\ R[c][n] = e
    BY <1>1, ExtensionFacts
  <2> QED BY <1>1, <1>2, <2>1 DEF IsGrant
<1>5. \A d \in Clients : InOrder(R[d])
  <2> SUFFICES ASSUME NEW d \in Clients, NEW i \in DOMAIN R[d], NEW j \in DOMAIN R[d],
                      i < j, IsLock(R[d][i]), IsLock(R[d][j])
               PROVE  /\ R[d][i].token <= R[d][j].token
                      /\ \A k \in i + 1 .. j - 1 :
                           ~IsLock(R[d][k]) => R[d][i].token < R[d][j].token
    BY DEF InOrder
  <2>1. R[d] \in Histories /\ K[d] \in Histories /\ K[c] \in Histories
    BY ExtensionFacts
  <2>2. CASE j \in DOMAIN K[d]
    <3>1. i \in DOMAIN K[d] /\ \A k \in i + 1 .. j - 1 : k \in DOMAIN K[d]
      BY <2>1, <2>2, EntryFacts
    <3>2. /\ K[d][i].token <= K[d][j].token
          /\ \A k \in i + 1 .. j - 1 : ~IsLock(K[d][k]) => K[d][i].token < K[d][j].token
      BY <2>2, <3>1, ExtensionFacts DEF Exclusive, InOrder
    <3> QED BY <2>2, <3>1, <3>2, ExtensionFacts
  <2>3. CASE d = c /\ j = n
    <3>1. /\ i \in DOMAIN K[c] /\ R[c][i] = K[c][i] /\ R[c][j] = e
          /\ \A k \in i + 1 .. j - 1 : k \in DOMAIN K[c] /\ R[c][k] = K[c][k]
      <4>1. DOMAIN K[c] = 1 .. n - 1 /\ n \in Nat /\ R[c][n] = e
        BY ExtensionFacts
      <4>2. i \in 1 .. n - 1 /\ \A k \in i + 1 .. j - 1 : k \in 1 .. n - 1
        BY <2>1, <2>3, <4>1, EntryFacts
      <4> QED BY <2>3, <4>1, <4>2, ExtensionFacts
    <3>2. K[c][i].token <= T
      BY <1>3, <2>3, <3>1
    <3>3. ASSUME NEW k \in i + 1 .. j - 1, ~IsLock(R[c][k]) PROVE K[c][i].token < T
      <4>1. ~(a < k) /\ a # k
        BY <1>1, <3>1, <3>3
      <4>2. i < k /\ k \in i + 1 .. a - 1 /\ i < a
        BY <2>1, <3>1, <4>1, EntryFacts
      <4> QED BY <1>1, <2>3, <3>1, <3>3, <4>2 DEF Exclusive, InOrder
    <3> QED BY <1>2, <2>3, <3>1, <3>2, <3>3
  <2> QED BY <2>2, <2>3, ExtensionFacts
<1>6. \A d \in Clients : \A i \in DOMAIN R[d] : IsLock(R[d][i]) => R[d][i].token \in 1 .. T
  BY <1>1, <1>2, <1>3, ExtensionFacts
<1>7. ASSUME NEW b \in Clients, NEW d \in Clients, b # d,
             NEW i \in DOMAIN R[b], NEW j \in DOMAIN R[d], IsLock(R[b][i]), IsLock(R[d][j])
      PROVE  R[b][i].token # R[d][j].token
  <2>1. \E k \in DOMAIN K[b] : IsLock(K[b][k]) /\ K[b][k].token = R[b][i].token
    BY <1>1, <1>2, <1>7, ExtensionFacts
  <2>2. \E k \in DOMAIN K[d] : IsLock(K[d][k]) /\ K[d][k].token = R[d][j].token
    BY <1>1, <1>2, <1>7, ExtensionFacts
  <2> QED BY <1>7, <2>1, <2>2 DEF Exclusive
<1>8. ASSUME NEW b \in Clients, NEW d \in Clients PROVE Successive(R[b], R[d])
  <2> SUFFICES ASSUME NEW i \in DOMAIN R[b], NEW j \in DOMAIN R[d],
                      IsGrant(R[b], i), IsLock(R[d][j]), R[b][i].token < R[d][j].token
               PROVE  Gone(R[b], i, R[d][j].end)
    BY DEF Successive
  <2>1. i \in DOMAIN K[b] /\ R[b][i] = K[b][i] /\ IsGrant(K[b], i)
    BY <1>4, ExtensionFacts
  <2>2. CASE j \in DOMAIN K[d]
    <3>1. R[d][j] = K[d][j] /\ K[d][j].end \in Nat
      BY <2>2, ExtensionFacts, AllEntryFacts
    <3>2. Gone(K[b], i, K[d][j].end)
      BY <2>1, <2>2, <3>1 DEF Exclusive, Successive
    <3> QED BY <2>1, <3>1, <3>2, ExtensionFacts
  <2>3. CASE d = c /\ j = n
    <3>1. R[d][j] = e
      BY <2>3, ExtensionFacts
    <3>2. Gone(K[b], i, K[c][a].end)
      BY <1>1, <1>2, <2>1, <3>1 DEF Exclusive, Successive
    <3>3. K[c][a].end \in Nat /\ K[c][a].end <= time /\ K[b] \in Histories
      BY <1>1, AllEntryFacts
    <3>4. Gone(K[b], i, time)
      BY <2>1, <3>2, <3>3, GoneLater
    <3> QED BY <2>1, <3>1, <3>4, ExtensionFacts
  <2> QED BY <2>2, <2>3, ExtensionFacts
<1>9. \A d \in Clients : \A i \in DOMAIN R[d] : IsGrant(R[d], i) =>
        \/ Gone(R[d], i, time)
        \/ \E m \in L : m.owner = d /\ R[d][i].start + R[d][i].life <= m.expires
  BY <1>4, ExtensionFacts DEF Exclusive
<1>10. ASSUME NEW m \in L
       PROVE  /\ m.owner \in Clients /\ m.token = T
              /\ \A o \in L : o = m
              /\ \E i \in DOMAIN R[m.owner] :
                   /\ IsLock(R[m.owner][i]) /\ R[m.owner][i].token = T
                   /\ \A k \in DOMAIN R[m.owner] : i < k => IsLock(R[m.owner][k])
  <2>1. m = l
    BY DEF Exclusive
  <2>2. \A k \in DOMAIN R[c] : a < k => IsLock(R[c][k])
    BY <1>1, ExtensionFacts
  <2>3. a \in DOMAIN R[c] /\ R[c][a] = K[c][a]
    BY <1>1, ExtensionFacts
  <2> QED BY <1>1, <2>1, <2>2, <2>3 DEF Exclusive
<1> QED BY <1>5, <1>6, <1>7, <1>8, <1>9, <1>10 DEF Exclusive

(* A new lease is granted, when all others have expired.                   *)
LEMMA ExclusiveGrants ==
  ASSUME NEW K \in [Clients -> Histories], NEW c \in Clients, NEW e \in Locks!Entries,
         NEW R, NEW n, IsExtension(R, K, c, e, n),
         NEW time \in Nat, NEW T \in Nat, NEW L, NEW m,
         \A l \in L : l.expires \in Nat /\ l.expires <= time,
         IsLock(e), e.token = T + 1, e.end = time,
         m.owner = c, m.token = T + 1, m.expires \in Nat, e.start + e.life <= m.expires,
         Exclusive(K, time, L, T)
  PROVE  Exclusive(R, time, {m}, T + 1)
<1>1. \A d \in Clients : \A i \in DOMAIN K[d] : IsLock(K[d][i]) => K[d][i].token \in 1 .. T
  BY DEF Exclusive
<1>2. \A d \in Clients : \A i \in DOMAIN K[d] : IsGrant(K[d], i) => Gone(K[d], i, time)
  <2> SUFFICES ASSUME NEW d \in Clients, NEW i \in DOMAIN K[d], IsGrant(K[d], i),
                      ~Gone(K[d], i, time)
               PROVE  FALSE
    OBVIOUS
  <2>1. PICK l \in L : K[d][i].start + K[d][i].life <= l.expires
    BY DEF Exclusive
  <2>2. K[d][i].start + K[d][i].life \in Nat /\ K[d][i].start + K[d][i].life <= time
    BY <2>1, AllEntryFacts
  <2> QED BY <2>2 DEF Gone
<1>3. \A d \in Clients : InOrder(R[d])
  <2> SUFFICES ASSUME NEW d \in Clients, NEW i \in DOMAIN R[d], NEW j \in DOMAIN R[d],
                      i < j, IsLock(R[d][i]), IsLock(R[d][j])
               PROVE  /\ R[d][i].token <= R[d][j].token
                      /\ \A k \in i + 1 .. j - 1 :
                           ~IsLock(R[d][k]) => R[d][i].token < R[d][j].token
    BY DEF InOrder
  <2>1. R[d] \in Histories /\ K[d] \in Histories /\ K[c] \in Histories
    BY ExtensionFacts
  <2>2. CASE j \in DOMAIN K[d]
    <3>1. i \in DOMAIN K[d] /\ \A k \in i + 1 .. j - 1 : k \in DOMAIN K[d]
      BY <2>1, <2>2, EntryFacts
    <3>2. /\ K[d][i].token <= K[d][j].token
          /\ \A k \in i + 1 .. j - 1 : ~IsLock(K[d][k]) => K[d][i].token < K[d][j].token
      BY <2>2, <3>1, ExtensionFacts DEF Exclusive, InOrder
    <3> QED BY <2>2, <3>1, <3>2, ExtensionFacts
  <2>3. CASE d = c /\ j = n
    <3>1. i \in DOMAIN K[c] /\ R[c][i] = K[c][i] /\ R[c][j] = e
      <4>1. DOMAIN K[c] = 1 .. n - 1 /\ n \in Nat /\ R[c][n] = e
        BY ExtensionFacts
      <4>2. i \in 1 .. n - 1
        BY <2>1, <2>3, <4>1, EntryFacts
      <4> QED BY <2>3, <4>1, <4>2, ExtensionFacts
    <3>2. K[c][i].token \in 1 .. T
      BY <1>1, <2>3, <3>1
    <3> QED BY <2>3, <3>1, <3>2
  <2> QED BY <2>2, <2>3, ExtensionFacts
<1>4. \A d \in Clients : \A i \in DOMAIN R[d] : IsLock(R[d][i]) => R[d][i].token \in 1 .. T + 1
  <2> SUFFICES ASSUME NEW d \in Clients, NEW i \in DOMAIN R[d], IsLock(R[d][i])
               PROVE  R[d][i].token \in 1 .. T + 1
    OBVIOUS
  <2>1. CASE i \in DOMAIN K[d]
    BY <1>1, <2>1, ExtensionFacts
  <2>2. CASE d = c /\ i = n
    BY <2>2, ExtensionFacts
  <2> QED BY <2>1, <2>2, ExtensionFacts
<1>5. ASSUME NEW b \in Clients, NEW d \in Clients, b # d,
             NEW i \in DOMAIN R[b], NEW j \in DOMAIN R[d], IsLock(R[b][i]), IsLock(R[d][j])
      PROVE  R[b][i].token # R[d][j].token
  <2>1. CASE i \in DOMAIN K[b] /\ j \in DOMAIN K[d]
    BY <1>5, <2>1, ExtensionFacts DEF Exclusive
  <2>2. CASE i \in DOMAIN K[b] /\ d = c /\ j = n
    <3>1. K[b][i].token \in 1 .. T /\ R[b][i] = K[b][i] /\ R[d][j] = e
      BY <1>1, <1>5, <2>2, ExtensionFacts
    <3> QED BY <3>1
  <2>3. CASE j \in DOMAIN K[d] /\ b = c /\ i = n
    <3>1. K[d][j].token \in 1 .. T /\ R[d][j] = K[d][j] /\ R[b][i] = e
      BY <1>1, <1>5, <2>3, ExtensionFacts
    <3> QED BY <3>1
  <2> QED BY <1>5, <2>1, <2>2, <2>3, ExtensionFacts
<1>6. ASSUME NEW b \in Clients, NEW d \in Clients PROVE Successive(R[b], R[d])
  <2> SUFFICES ASSUME NEW i \in DOMAIN R[b], NEW j \in DOMAIN R[d],
                      IsGrant(R[b], i), IsLock(R[d][j]), R[b][i].token < R[d][j].token
               PROVE  Gone(R[b], i, R[d][j].end)
    BY DEF Successive
  <2>1. i \in DOMAIN K[b] /\ R[b][i] = K[b][i] /\ IsGrant(K[b], i)
    <3>1. CASE b = c /\ i = n
      <4>1. R[b][i].token = T + 1 /\ R[d][j].token \in 1 .. T + 1
        BY <1>4, <3>1, ExtensionFacts
      <4> QED BY <4>1
    <3> QED BY <3>1, ExtensionFacts
  <2>2. CASE j \in DOMAIN K[d]
    <3>1. R[d][j] = K[d][j] /\ K[d][j].end \in Nat
      BY <2>2, ExtensionFacts, AllEntryFacts
    <3>2. Gone(K[b], i, K[d][j].end)
      BY <2>1, <2>2, <3>1 DEF Exclusive, Successive
    <3> QED BY <2>1, <3>1, <3>2, ExtensionFacts
  <2>3. CASE d = c /\ j = n
    <3>1. R[d][j].end = time /\ Gone(K[b], i, time)
      BY <1>2, <2>1, <2>3, ExtensionFacts
    <3> QED BY <2>1, <3>1, ExtensionFacts
  <2> QED BY <2>2, <2>3, ExtensionFacts
<1>7. ASSUME NEW d \in Clients, NEW i \in DOMAIN R[d], IsGrant(R[d], i)
      PROVE  \/ Gone(R[d], i, time)
             \/ \E l \in {m} : l.owner = d /\ R[d][i].start + R[d][i].life <= l.expires
  <2>1. CASE i \in DOMAIN K[d]
    BY <1>2, <1>7, <2>1, ExtensionFacts
  <2>2. CASE d = c /\ i = n
    BY <2>2, ExtensionFacts
  <2> QED BY <2>1, <2>2, ExtensionFacts
<1>8. /\ n \in DOMAIN R[c] /\ IsLock(R[c][n]) /\ R[c][n].token = T + 1
      /\ \A k \in DOMAIN R[c] : ~(n < k)
  <2>1. n \in Nat /\ n \in DOMAIN R[c] /\ R[c][n] = e /\ DOMAIN K[c] = 1 .. n - 1
    BY ExtensionFacts
  <2>2. \A k \in DOMAIN R[c] : k \in DOMAIN K[c] \/ k = n
    BY ExtensionFacts
  <2> QED BY <2>1, <2>2
<1> QED BY <1>3, <1>4, <1>5, <1>6, <1>7, <1>8 DEF Exclusive

(* The lease is released by its owner.                                     *)
LEMMA ExclusiveReleases ==
  ASSUME NEW K \in [Clients -> Histories], NEW c \in Clients, NEW e \in Locks!Entries,
         NEW R, NEW n, IsExtension(R, K, c, e, n),
         NEW time \in Nat, NEW T \in Nat, NEW L, NEW l \in L,
         l.owner = c, ~IsLock(e), e.start <= time,
         Exclusive(K, time, L, T)
  PROVE  Exclusive(R, time, {}, T)
<1>1. \A d \in Clients : \A i \in DOMAIN R[d] : IsLock(R[d][i]) =>
        i \in DOMAIN K[d] /\ R[d][i] = K[d][i] /\ IsGrant(R[d], i) = IsGrant(K[d], i)
  BY ExtensionFacts
<1>2. \A d \in Clients : InOrder(R[d])
  <2> SUFFICES ASSUME NEW d \in Clients, NEW i \in DOMAIN R[d], NEW j \in DOMAIN R[d],
                      i < j, IsLock(R[d][i]), IsLock(R[d][j])
               PROVE  /\ R[d][i].token <= R[d][j].token
                      /\ \A k \in i + 1 .. j - 1 :
                           ~IsLock(R[d][k]) => R[d][i].token < R[d][j].token
    BY DEF InOrder
  <2>1. i \in DOMAIN K[d] /\ j \in DOMAIN K[d] /\ K[d] \in Histories
    BY <1>1
  <2>2. \A k \in i + 1 .. j - 1 : k \in DOMAIN K[d]
    BY <2>1, EntryFacts
  <2>3. /\ K[d][i].token <= K[d][j].token
        /\ \A k \in i + 1 .. j - 1 : ~IsLock(K[d][k]) => K[d][i].token < K[d][j].token
    BY <1>1, <2>1 DEF Exclusive, InOrder
  <2> QED BY <1>1, <2>1, <2>2, <2>3, ExtensionFacts
<1>3. ASSUME NEW b \in Clients, NEW d \in Clients PROVE Successive(R[b], R[d])
  <2> SUFFICES ASSUME NEW i \in DOMAIN R[b], NEW j \in DOMAIN R[d],
                      IsGrant(R[b], i), IsLock(R[d][j]), R[b][i].token < R[d][j].token
               PROVE  Gone(R[b], i, R[d][j].end)
    BY DEF Successive
  <2>1. /\ i \in DOMAIN K[b] /\ R[b][i] = K[b][i] /\ IsGrant(K[b], i)
        /\ j \in DOMAIN K[d] /\ R[d][j] = K[d][j]
    BY <1>1 DEF IsGrant
  <2>2. Gone(K[b], i, K[d][j].end) /\ K[d][j].end \in Nat
    BY <2>1, AllEntryFacts DEF Exclusive, Successive
  <2> QED BY <2>1, <2>2, ExtensionFacts
<1>4. ASSUME NEW d \in Clients, NEW i \in DOMAIN R[d], IsGrant(R[d], i)
      PROVE  Gone(R[d], i, time)
  <2>1. i \in DOMAIN K[d] /\ IsGrant(K[d], i) /\ R[d][i] = K[d][i]
    BY <1>1, <1>4 DEF IsGrant
  <2>2. CASE Gone(K[d], i, time)
    BY <2>1, <2>2, ExtensionFacts
  <2>3. CASE ~Gone(K[d], i, time)
    <3>1. d = c
      BY <2>1, <2>3 DEF Exclusive
    <3>2. n \in DOMAIN R[c] /\ R[c][n] = e /\ i < n
      BY <2>1, <3>1, ExtensionFacts
    <3> QED BY <3>1, <3>2 DEF Gone
  <2> QED BY <2>2, <2>3
<1>5. \A d \in Clients : \A i \in DOMAIN R[d] : IsLock(R[d][i]) => R[d][i].token \in 1 .. T
  BY <1>1 DEF Exclusive
<1>6. ASSUME NEW b \in Clients, NEW d \in Clients, b # d,
             NEW i \in DOMAIN R[b], NEW j \in DOMAIN R[d], IsLock(R[b][i]), IsLock(R[d][j])
      PROVE  R[b][i].token # R[d][j].token
  BY <1>1, <1>6 DEF Exclusive
<1> QED BY <1>2, <1>3, <1>4, <1>5, <1>6 DEF Exclusive

----------------------------------------------------------------------------
(* Every action of the clients and the lock service preserves LocksInv     *)

LEMMA LockTypes ==
  ASSUME Locks!TypeOK, WorkloadAssumption
  PROVE  /\ now \in Nat /\ lastEnd \in Nat /\ lastEnd <= now /\ tokens \in Nat /\ ops \in Nat
         /\ MaxTime \in Nat /\ MaxOps \in Nat /\ service.exclusive \in BOOLEAN
         /\ \A c \in Clients :
              /\ history[c] \in Histories /\ certain[c] \in Nat
              /\ worker[c].at \in Nat /\ worker[c].op \in {"LOCK", "UNLOCK"}
              /\ worker[c].busy \in BOOLEAN /\ worker[c].reply \in Locks!Replies
              /\ worker[c].reply.status \in {"none", "refused", "ok"}
              /\ worker[c].reply.token \in Nat /\ worker[c].reply.life \in Nat
              /\ Reply(c) \in Locks!Entries
         /\ \A l \in leases : l.owner \in Clients /\ l.token \in Nat /\ l.expires \in Nat
         /\ told \in [Clients -> Histories]
<1>1. /\ now \in Nat /\ lastEnd \in Nat /\ lastEnd <= now /\ tokens \in Nat /\ ops \in Nat
      /\ MaxTime \in Nat /\ MaxOps \in Nat
      /\ \A c \in Clients : history[c] \in Histories /\ certain[c] \in Nat
  BY DEF Locks!TypeOK, WorkloadAssumption, Histories
<1>2. service.exclusive \in BOOLEAN
  BY DEF Locks!TypeOK, WorkloadAssumption
<1>3. ASSUME NEW c \in Clients
      PROVE  /\ worker[c].at \in Nat /\ worker[c].op \in Locks!Operations
             /\ worker[c].busy \in BOOLEAN /\ worker[c].reply \in Locks!Replies
  BY DEF Locks!TypeOK
<1>4. \A r \in Locks!Replies :
        r.status \in {"none", "refused", "ok"} /\ r.token \in Nat /\ r.life \in Nat
  BY DEF Locks!Replies
<1>5. ASSUME NEW c \in Clients PROVE Reply(c) \in Locks!Entries
  BY <1>1, <1>3, <1>4 DEF Reply, Locks!Entries
<1>6. \A l \in leases : l.owner \in Clients /\ l.token \in Nat /\ l.expires \in Nat
  BY DEF Locks!TypeOK
<1>7. ASSUME NEW c \in Clients PROVE Told(c) \in Histories
  <2>1. Append(history[c], Reply(c)) \in Histories
    BY <1>1, <1>5, Extended
  <2> QED BY <1>1, <2>1 DEF Told
<1>8. told \in [Clients -> Histories]
  BY <1>7 DEF told
<1> QED BY <1>1, <1>2, <1>3, <1>4, <1>5, <1>6, <1>8 DEF Locks!Operations

(* Nothing changes that the clients were told or the service holds.        *)
LEMMA ExclusiveStays ==
  ASSUME told' = told, now' = now, leases' = leases, tokens' = tokens,
         Exclusive(told, now, leases, tokens)
  PROVE  Exclusive(told, now, leases, tokens)'
BY DEF Exclusive

LEMMA LocksInitially == Locks!Init /\ WorkloadAssumption => LocksInv
<1> SUFFICES ASSUME Locks!Init, WorkloadAssumption PROVE LocksInv
  OBVIOUS
<1>1. Locks!TypeOK
  <2>1. worker \in [Clients -> [busy : BOOLEAN, op : Locks!Operations, at : Nat,
                                reply : Locks!Replies]]
    BY DEF Locks!Init, Locks!Resting, Locks!Operations, Locks!Replies, Locks!NoReply
  <2>2. history \in [Clients -> Seq(Locks!Entries)]
    BY DEF Locks!Init
  <2>3. now \in 0 .. MaxTime /\ ops \in 0 .. MaxOps /\ lastEnd \in 0 .. now
    BY DEF Locks!Init, WorkloadAssumption
  <2>4. certain \in [Clients -> Nat] /\ tokens \in Nat /\ late = {} /\ leases = {}
    BY DEF Locks!Init
  <2> QED BY <2>1, <2>2, <2>3, <2>4 DEF Locks!TypeOK, Locks!Init
<1>2. \A c \in Clients : history[c] = <<>> /\ DOMAIN history[c] = {} /\ ~worker[c].busy
  BY DEF Locks!Init, Locks!Resting
<1>3. Clocks
  BY <1>2 DEF Clocks, Locks!Init, Locks!Resting
<1>4. Certainty /\ Sharing
  BY DEF Certainty, Sharing, Locks!Init
<1>5. \A c \in Clients : DOMAIN told[c] = {}
  BY <1>2 DEF told, Told
<1>6. Exclusive(told, now, leases, tokens)
  BY <1>5 DEF Exclusive, InOrder, Successive, Locks!Init
<1> QED BY <1>1, <1>3, <1>4, <1>6 DEF LocksInv

LEMMA LocksTick ==
  ASSUME LocksInv, WorkloadAssumption, Locks!Tick
  PROVE  LocksInv'
<1>1. Locks!TypeOK'
  BY LockTypes DEF LocksInv, Locks!TypeOK, Locks!Tick, WorkloadAssumption
<1>2. Clocks'
  BY LockTypes DEF LocksInv, Clocks, Locks!Tick
<1>3. Certainty'
  BY DEF LocksInv, Certainty, Locks!Tick
<1>4. Sharing'
  <2> SUFFICES ASSUME shared' PROVE Sharing'
    BY DEF Sharing
  <2>1. \A c \in Clients, time \in Nat : OwnedAfter(c, time) => OwnedAfter(c, time)'
    BY DEF OwnedAfter, Locks!Tick
  <2>2. now \in Nat /\ now' = now + 1
    BY LockTypes DEF LocksInv, Locks!Tick
  <2>3. PICK c \in Clients, d \in Clients, time \in 0 .. now :
          c # d /\ OwnedAfter(c, time) /\ OwnedAfter(d, time)
    <3>1. CASE shared
      BY <2>2, <3>1 DEF LocksInv, Sharing
    <3>2. CASE ~shared
      <4>1. PICK c \in Clients, d \in Clients : c # d /\ now < certain[c] /\ now < certain[d]
        BY <3>2 DEF Locks!Tick
      <4>2. \A b \in Clients : now < certain[b] => OwnedAfter(b, now)
        <5> SUFFICES ASSUME NEW b \in Clients, now < certain[b] PROVE OwnedAfter(b, now)
          OBVIOUS
        <5>1. PICK i \in DOMAIN history[b] :
                /\ IsGrant(history[b], i)
                /\ certain[b] = history[b][i].start + history[b][i].life
                /\ \A k \in DOMAIN history[b] : i < k => IsLock(history[b][k])
                /\ ~(worker[b].busy /\ worker[b].op = "UNLOCK")
          BY <2>2 DEF LocksInv, Certainty
        <5>2. history[b][i].end <= now
          <6>1. history[b][i].end <= lastEnd /\ lastEnd <= now /\ lastEnd \in Nat
            BY LockTypes DEF LocksInv, Clocks
          <6>2. history[b][i].end \in Nat
            BY LockTypes, EntryFacts DEF LocksInv
          <6> QED BY <2>2, <6>1, <6>2
        <5> QED BY <5>1, <5>2 DEF OwnedAfter
      <4> QED BY <2>2, <4>1, <4>2
    <3> QED BY <3>1, <3>2
  <2>4. time \in 0 .. now' - 1 /\ time \in Nat
    BY <2>2
  <2> QED BY <2>1, <2>3, <2>4 DEF Sharing
<1>5. ASSUME service.exclusive, silent = {}
      PROVE  Exclusive(told, now, leases, tokens)'
  <2>1. told \in [Clients -> Histories] /\ now \in Nat /\ tokens \in Nat
    BY LockTypes DEF LocksInv
  <2>2. ASSUME NEW c \in Clients
        PROVE  /\ told'[c] \in Histories /\ DOMAIN told'[c] = DOMAIN told[c]
               /\ \A i \in DOMAIN told[c] :
                    /\ told'[c][i].op = told[c][i].op /\ told'[c][i].start = told[c][i].start
                    /\ told'[c][i].token = told[c][i].token /\ told'[c][i].life = told[c][i].life
                    /\ told[c][i].end <= told'[c][i].end
    <3> DEFINE r == [Reply(c) EXCEPT !.end = now + 1]
    <3>1. /\ history[c] \in Histories /\ Reply(c) \in Locks!Entries /\ r \in Locks!Entries
          /\ told[c] \in Histories
      BY <2>1, LockTypes DEF LocksInv, Locks!Entries
    <3>2. CASE worker[c].busy /\ worker[c].reply.status = "ok"
      <4>1. told[c] = Append(history[c], Reply(c)) /\ told'[c] = Append(history[c], r)
        BY <3>2 DEF told, Told, Reply, Locks!Tick
      <4>2. /\ r.op = Reply(c).op /\ r.start = Reply(c).start /\ r.token = Reply(c).token
            /\ r.life = Reply(c).life /\ Reply(c).end <= r.end
        BY <2>1 DEF Reply
      <4> HIDE DEF r
      <4> QED BY <3>1, <4>1, <4>2, EndLater
    <3>3. CASE ~(worker[c].busy /\ worker[c].reply.status = "ok")
      <4>1. told'[c] = told[c]
        BY <3>3 DEF told, Told, Locks!Tick
      <4>2. \A i \in DOMAIN told[c] : told[c][i].end \in Nat
        BY <3>1, EntryFacts
      <4> QED BY <3>1, <4>1, <4>2
    <3> QED BY <3>2, <3>3
  <2>3. told' \in [Clients -> Histories]
    BY <2>2 DEF told
  <2>4. Exclusive(told', now + 1, leases, tokens)
    <3> DEFINE then == now + 1
    <3>1. then \in Nat /\ now <= then /\ Exclusive(told, now, leases, tokens)
      BY <1>5, <2>1 DEF LocksInv
    <3>2. \E R : R = told'
      OBVIOUS
    <3>3. PICK R : R = told'
      BY <3>2
    <3> HIDE DEF then
    <3>4. Exclusive(R, then, leases, tokens)
      BY <2>1, <2>2, <2>3, <3>1, <3>3, ExclusiveLater
    <3> QED BY <3>3, <3>4 DEF then
  <2> QED BY <2>4 DEF Exclusive, Locks!Tick
<1> QED BY <1>1, <1>2, <1>3, <1>4, <1>5 DEF LocksInv, Locks!Tick

LEMMA LocksInvoke ==
  ASSUME LocksInv, WorkloadAssumption, NEW c \in Clients, NEW op \in Locks!Operations,
         Locks!Invoke(c, op)
  PROVE  LocksInv'
<1>1. /\ ~worker[c].busy /\ worker[c].at < now /\ history' = history
      /\ worker' = [worker EXCEPT ![c] = [busy |-> TRUE, op |-> op, at |-> now,
                                          reply |-> Locks!NoReply]]
      /\ certain' = [certain EXCEPT ![c] = IF op = "UNLOCK" THEN 0 ELSE @]
      /\ now' = now /\ lastEnd' = lastEnd /\ leases' = leases /\ tokens' = tokens
      /\ shared' = shared /\ silent' = silent /\ service' = service
  BY DEF Locks!Invoke
<1>2. /\ DOMAIN worker = Clients /\ DOMAIN certain = Clients /\ now \in Nat
      /\ \A d \in Clients : \A i \in DOMAIN history[d] :
           history[d][i].end \in Nat /\ worker[d].at \in Nat
  <2>1. DOMAIN worker = Clients /\ DOMAIN certain = Clients
    BY DEF LocksInv, Locks!TypeOK
  <2> QED BY <2>1, LockTypes, EntryFacts DEF LocksInv
<1>3. Locks!TypeOK'
  <2>1. Locks!NoReply \in Locks!Replies /\ now \in Nat
    BY <1>2 DEF Locks!NoReply, Locks!Replies
  <2>2. worker' \in [Clients -> [busy : BOOLEAN, op : Locks!Operations, at : Nat,
                                 reply : Locks!Replies]]
    BY <1>1, <2>1 DEF LocksInv, Locks!TypeOK
  <2>3. ops' \in 0 .. MaxOps
    BY DEF LocksInv, Locks!TypeOK, Locks!Invoke, WorkloadAssumption
  <2>4. certain' \in [Clients -> Nat]
    BY <1>1 DEF LocksInv, Locks!TypeOK
  <2> QED BY <1>1, <2>2, <2>3, <2>4 DEF LocksInv, Locks!TypeOK, Locks!Invoke
<1>4. worker'[c] = [busy |-> TRUE, op |-> op, at |-> now, reply |-> Locks!NoReply]
      /\ \A d \in Clients : d # c => worker'[d] = worker[d] /\ certain'[d] = certain[d]
  BY <1>1, <1>2
<1>5. Clocks'
  BY <1>1, <1>2, <1>4 DEF LocksInv, Clocks
<1>6. Certainty'
  <2> SUFFICES ASSUME NEW d \in Clients, certain'[d] # 0
               PROVE  \E i \in DOMAIN history[d] :
                        /\ IsGrant(history[d], i)
                        /\ certain'[d] = history[d][i].start + history[d][i].life
                        /\ \A k \in DOMAIN history[d] : i < k => IsLock(history[d][k])
                        /\ ~(worker'[d].busy /\ worker'[d].op = "UNLOCK")
    BY <1>1 DEF Certainty
  <2>1. certain'[d] = certain[d] /\ (d = c => op # "UNLOCK")
    BY <1>1, <1>2
  <2> QED BY <1>4, <2>1 DEF LocksInv, Certainty
<1>7. Sharing'
  <2>1. \A d \in Clients, time \in 0 .. now - 1 : OwnedAfter(d, time) => OwnedAfter(d, time)'
    BY <1>1, <1>2, <1>4 DEF OwnedAfter
  <2> QED BY <1>1, <2>1 DEF LocksInv, Sharing
<1>8. told' = told
  <2>1. \A d \in Clients : Told(d)' = Told(d)
    BY <1>1, <1>4 DEF Told, Reply, Locks!NoReply
  <2> QED BY <2>1 DEF told
<1>9. ASSUME service.exclusive, silent = {} PROVE Exclusive(told, now, leases, tokens)'
  BY <1>1, <1>8, <1>9, ExclusiveStays DEF LocksInv
<1> QED BY <1>1, <1>3, <1>5, <1>6, <1>7, <1>9 DEF LocksInv

(* The service answers, or acts on a request that is late.                 *)
LEMMA WorkersGoOn ==
  ASSUME LocksInv, history' = history, now' = now, lastEnd' = lastEnd, certain' = certain,
         shared' = shared,
         \A d \in Clients : /\ worker'[d].at = worker[d].at /\ worker'[d].op = worker[d].op
                            /\ worker'[d].busy = worker[d].busy
  PROVE  (Clocks /\ Certainty /\ Sharing)'
<1>1. Clocks'
  BY DEF LocksInv, Clocks
<1>2. Certainty'
  BY DEF LocksInv, Certainty
<1>3. Sharing'
  <2>1. \A d \in Clients, time \in 0 .. now - 1 : OwnedAfter(d, time) => OwnedAfter(d, time)'
    BY DEF OwnedAfter
  <2> QED BY <2>1 DEF LocksInv, Sharing
<1> QED BY <1>1, <1>2, <1>3

(* What the service makes of a request.                                    *)
LEMMA HandlesTyped ==
  ASSUME Locks!TypeOK, WorkloadAssumption, NEW c \in Clients, NEW op, NEW reply,
         Locks!Handles(c, op, reply)
  PROVE  /\ leases' \subseteq [owner : Clients, token : Nat, life : Lifetimes, expires : Nat]
         /\ tokens' \in Nat /\ reply \in Locks!Replies
<1>1. Locks!Live \subseteq [owner : Clients, token : Nat, life : Lifetimes, expires : Nat]
      /\ tokens \in Nat /\ now \in Nat
  BY LockTypes DEF Locks!TypeOK, Locks!Live
<1>2. /\ Lifetimes \subseteq Nat /\ Locks!Refused \in Locks!Replies
      /\ \A t, life \in Nat : Locks!Granted(t, life) \in Locks!Replies
  BY DEF WorkloadAssumption, Locks!Refused, Locks!Granted, Locks!Replies
<1>3. CASE Locks!Acquires(c, reply)
  <2>1. CASE /\ reply = Locks!Refused
             /\ UNCHANGED <<leases, tokens>>
    BY <1>1, <1>2, <2>1 DEF Locks!TypeOK
  <2>2. CASE \E l \in Locks!Live : /\ reply = Locks!Granted(l.token, l.life)
                                  /\ UNCHANGED <<leases, tokens>>
    <3>1. PICK l \in Locks!Live : reply = Locks!Granted(l.token, l.life)
      BY <2>2
    <3>2. l.token \in Nat /\ l.life \in Nat
      BY <1>1, <1>2
    <3> QED BY <1>2, <2>2, <3>1, <3>2 DEF Locks!TypeOK
  <2>3. CASE /\ tokens' = tokens + 1
             /\ \E life \in Lifetimes :
                  /\ leases' = Locks!Live \cup {[owner |-> c, token |-> tokens + 1,
                                                 life |-> life, expires |-> now + life]}
                  /\ reply = Locks!Granted(tokens + 1, life)
    <3>1. PICK life \in Lifetimes :
            /\ leases' = Locks!Live \cup {[owner |-> c, token |-> tokens + 1,
                                           life |-> life, expires |-> now + life]}
            /\ reply = Locks!Granted(tokens + 1, life)
      BY <2>3
    <3>2. life \in Nat /\ tokens + 1 \in Nat /\ now + life \in Nat
      BY <1>1, <1>2
    <3> QED BY <1>1, <1>2, <2>3, <3>1, <3>2
  <2> QED BY <1>3, <2>1, <2>2, <2>3 DEF Locks!Acquires, Locks!leaseVars
<1>4. CASE Locks!Releases(c, reply)
  BY <1>1, <1>2, <1>4 DEF Locks!Releases, Locks!leaseVars, Locks!TypeOK
<1> QED BY <1>3, <1>4 DEF Locks!Handles

LEMMA LocksServe ==
  ASSUME LocksInv, WorkloadAssumption, NEW c \in Clients, Locks!Serve(c)
  PROVE  LocksInv'
<1>1. PICK reply \in Locks!Answers : /\ Locks!Handles(c, worker[c].op, reply)
                                     /\ worker' = [worker EXCEPT ![c].reply = reply]
  BY DEF Locks!Serve, Locks!Handles, Locks!Acquires, Locks!Releases
<1>2. /\ worker[c].busy /\ worker[c].reply = Locks!NoReply
      /\ history' = history /\ now' = now /\ lastEnd' = lastEnd /\ certain' = certain
      /\ shared' = shared /\ silent' = silent /\ service' = service /\ late' = late /\ ops' = ops
  BY DEF Locks!Serve, Locks!auxVars
<1>3. DOMAIN worker = Clients /\ worker[c].at \in Nat /\ worker[c].op \in Locks!Operations
  BY DEF LocksInv, Locks!TypeOK
<1>4. /\ worker'[c].reply = reply
      /\ \A d \in Clients : /\ worker'[d].at = worker[d].at /\ worker'[d].op = worker[d].op
                            /\ worker'[d].busy = worker[d].busy
                            /\ d # c => worker'[d] = worker[d]
  <2>1. worker[c] \in [busy : BOOLEAN, op : Locks!Operations, at : Nat, reply : Locks!Replies]
    BY DEF LocksInv, Locks!TypeOK
  <2> QED BY <1>1, <1>3, <2>1
<1>5. Locks!TypeOK'
  <2>1. /\ leases' \subseteq [owner : Clients, token : Nat, life : Lifetimes, expires : Nat]
        /\ tokens' \in Nat /\ reply \in Locks!Replies
    BY <1>1, HandlesTyped DEF LocksInv
  <2>2. worker' \in [Clients -> [busy : BOOLEAN, op : Locks!Operations, at : Nat,
                                 reply : Locks!Replies]]
    BY <1>1, <2>1 DEF LocksInv, Locks!TypeOK
  <2> QED BY <1>2, <2>1, <2>2 DEF LocksInv, Locks!TypeOK
<1>6. (Clocks /\ Certainty /\ Sharing)'
  BY <1>2, <1>4, WorkersGoOn
<1>7. ASSUME service.exclusive, silent = {} PROVE Exclusive(told, now, leases, tokens)'
  <2>1. /\ Exclusive(told, now, leases, tokens)
        /\ now \in Nat /\ tokens \in Nat /\ told \in [Clients -> Histories]
        /\ \A l \in leases : l.expires \in Nat
    BY <1>7, LockTypes DEF LocksInv
  <2>2. told[c] = history[c] /\ history[c] \in Histories
    BY <1>2, LockTypes DEF told, Told, Locks!NoReply, LocksInv
  <2>3. CASE reply = Locks!Refused /\ leases' = leases /\ tokens' = tokens
    <3>1. \A d \in Clients : Told(d)' = Told(d)
      BY <1>2, <1>4, <2>3 DEF Told, Reply, Locks!NoReply, Locks!Refused
    <3>2. told' = told
      BY <3>1 DEF told
    <3> QED BY <1>2, <2>1, <2>3, <3>2, ExclusiveStays
  <2>4. CASE reply.status = "ok"
    <3> DEFINE e == [op |-> worker[c].op, start |-> worker[c].at, end |-> now,
                     token |-> reply.token, life |-> reply.life]
    <3>1. e \in Locks!Entries
      <4>1. reply \in Locks!Replies
        BY <1>1, HandlesTyped DEF LocksInv
      <4>2. reply.token \in Nat /\ reply.life \in Nat
        BY <4>1 DEF Locks!Replies
      <4> QED BY <1>3, <2>1, <4>2 DEF Locks!Entries
    <3>2. PICK R, n : R = told' /\ n = Len(told[c]) + 1
      OBVIOUS
    <3>3. IsExtension(R, told, c, e, n)
      <4>1. Told(c)' = Append(told[c], e)
        BY <1>2, <1>4, <2>2, <2>4 DEF Told, Reply
      <4>2. \A d \in Clients : d # c => Told(d)' = Told(d)
        BY <1>2, <1>4 DEF Told, Reply
      <4>3. told' = [told EXCEPT ![c] = Append(told[c], e)]
        BY <4>1, <4>2 DEF told
      <4> QED BY <3>2, <4>3 DEF IsExtension
    <3>4. \A i \in DOMAIN told[c] : told[c][i].end <= now
      <4>1. lastEnd \in Nat /\ lastEnd <= now
        BY LockTypes DEF LocksInv
      <4>2. \A i \in DOMAIN history[c] : history[c][i].end \in Nat /\ history[c][i].end <= lastEnd
        BY <2>2, EntryFacts DEF LocksInv, Clocks
      <4> QED BY <2>1, <2>2, <4>1, <4>2
    <3>5. e.op = worker[c].op /\ e.start = worker[c].at /\ e.end = now /\ e.token = reply.token
          /\ e.life = reply.life /\ e.start <= now
      BY DEF LocksInv, Clocks
    <3> HIDE DEF e
    <3>6. CASE \E l \in leases : /\ l.owner = c /\ IsLock(e) /\ e.token = l.token
                                 /\ leases' = leases /\ tokens' = tokens
      <4>1. Exclusive(R, now, leases, tokens)
        BY <2>1, <3>1, <3>3, <3>4, <3>5, <3>6, ExclusiveRepeats
      <4> QED BY <1>2, <3>2, <3>6, <4>1 DEF Exclusive
    <3>7. CASE \E m : /\ leases' = {m} /\ tokens' = tokens + 1 /\ m.owner = c
                      /\ IsLock(e) /\ e.token = tokens + 1 /\ m.token = tokens + 1
                      /\ m.expires \in Nat /\ e.start + e.life <= m.expires
                      /\ \A l \in leases : l.expires <= now
      <4>1. PICK m : /\ leases' = {m} /\ tokens' = tokens + 1 /\ m.owner = c
                     /\ IsLock(e) /\ e.token = tokens + 1 /\ m.token = tokens + 1
                     /\ m.expires \in Nat /\ e.start + e.life <= m.expires
                     /\ \A l \in leases : l.expires <= now
        BY <3>7
      <4>2. Exclusive(R, now, {m}, tokens + 1)
        BY <2>1, <3>1, <3>3, <3>5, <4>1, ExclusiveGrants
      <4> QED BY <1>2, <3>2, <4>1, <4>2 DEF Exclusive
    <3>8. CASE \E l \in leases : /\ l.owner = c /\ ~IsLock(e)
                                 /\ leases' = {} /\ tokens' = tokens
      <4>1. Exclusive(R, now, {}, tokens)
        BY <2>1, <3>1, <3>3, <3>5, <3>8, ExclusiveReleases
      <4> QED BY <1>2, <3>2, <3>8, <4>1 DEF Exclusive
    <3>9. CASE worker[c].op = "LOCK"
      <4>1. Locks!Acquires(c, reply) /\ IsLock(e)
        BY <1>1, <3>5, <3>9 DEF Locks!Handles, IsLock
      <4>2. CASE \E l \in Locks!Live : /\ l.owner = c /\ reply = Locks!Granted(l.token, l.life)
                                      /\ UNCHANGED <<leases, tokens>>
        BY <3>5, <3>6, <4>1, <4>2 DEF Locks!Live, Locks!Granted
      <4>3. CASE /\ Locks!Live = {} /\ tokens' = tokens + 1
                 /\ \E life \in Lifetimes :
                      /\ leases' = Locks!Live \cup {[owner |-> c, token |-> tokens + 1,
                                                     life |-> life, expires |-> now + life]}
                      /\ reply = Locks!Granted(tokens + 1, life)
        <5>1. PICK life \in Lifetimes :
                 /\ leases' = {[owner |-> c, token |-> tokens + 1,
                                life |-> life, expires |-> now + life]}
                 /\ reply = Locks!Granted(tokens + 1, life)
          BY <4>3
        <5>2. PICK m : m = [owner |-> c, token |-> tokens + 1,
                            life |-> life, expires |-> now + life]
          OBVIOUS
        <5>3. life \in Nat
          BY WorkloadAssumption DEF WorkloadAssumption
        <5>4. /\ m.owner = c /\ m.token = tokens + 1 /\ m.expires = now + life
              /\ m.expires \in Nat /\ leases' = {m}
          BY <2>1, <5>1, <5>2, <5>3
        <5>5. e.token = tokens + 1 /\ e.life = life
          BY <3>5, <5>1 DEF Locks!Granted
        <5>6. e.start + e.life <= m.expires
          BY <1>3, <2>1, <3>5, <5>3, <5>4, <5>5
        <5>7. \A l \in leases : l.expires <= now
          BY <2>1, <4>3 DEF Locks!Live
        <5> QED BY <3>7, <4>1, <4>3, <5>4, <5>5, <5>6, <5>7
      <4> QED BY <1>7, <2>4, <4>1, <4>2, <4>3
             DEF Locks!Acquires, Locks!Refused, Locks!leaseVars
    <3>10. CASE worker[c].op = "UNLOCK"
      <4>1. Locks!Releases(c, reply) /\ ~IsLock(e)
        BY <1>1, <3>5, <3>10 DEF Locks!Handles, IsLock
      <4>2. PICK l \in Locks!Live : l.owner = c
        BY <2>4, <4>1 DEF Locks!Releases, Locks!Refused
      <4>3. leases' = {m \in Locks!Live : m.owner # c} /\ tokens' = tokens
        BY <4>1, <4>2 DEF Locks!Releases
      <4>4. leases' = {}
        BY <2>1, <4>2, <4>3 DEF Exclusive, Locks!Live
      <4> QED BY <3>8, <4>1, <4>2, <4>3, <4>4 DEF Locks!Live
    <3> QED BY <1>3, <3>9, <3>10 DEF Locks!Operations
  <2>5. reply.status = "ok" \/ (reply = Locks!Refused /\ leases' = leases /\ tokens' = tokens)
    BY <1>1 DEF Locks!Handles, Locks!Acquires, Locks!Releases, Locks!Granted, Locks!leaseVars
  <2> QED BY <2>3, <2>4, <2>5
<1> QED BY <1>2, <1>5, <1>6, <1>7 DEF LocksInv

(* The end of an operation: its worker rests, its entry may be recorded.   *)
LEMMA LeavesTyped ==
  ASSUME Locks!TypeOK, NEW c \in Clients, Locks!Leaves(c)
  PROVE  late' \subseteq Clients \X Locks!Operations
<1>1. late \subseteq Clients \X Locks!Operations /\ worker[c].op \in Locks!Operations
  BY DEF Locks!TypeOK
<1>2. late' = late \/ late' = late \cup {<<c, worker[c].op>>}
  BY DEF Locks!Leaves
<1>3. <<c, worker[c].op>> \in Clients \X Locks!Operations
  BY <1>1
<1> QED BY <1>1, <1>2, <1>3

LEMMA RestTyped ==
  ASSUME LocksInv, WorkloadAssumption, NEW c \in Clients, Locks!Rest(c)
  PROVE  /\ worker' \in [Clients -> [busy : BOOLEAN, op : Locks!Operations, at : Nat,
                                     reply : Locks!Replies]]
         /\ ~worker'[c].busy /\ worker'[c].at = now
         /\ \A d \in Clients : d # c => worker'[d] = worker[d]
<1>1. worker' = [worker EXCEPT ![c] = Locks!Resting(now)]
  BY DEF Locks!Rest
<1>2. Locks!Resting(now) \in [busy : BOOLEAN, op : Locks!Operations, at : Nat,
                              reply : Locks!Replies]
  BY LockTypes DEF LocksInv, Locks!Resting, Locks!Operations, Locks!Replies, Locks!NoReply
<1>3. /\ worker \in [Clients -> [busy : BOOLEAN, op : Locks!Operations, at : Nat,
                                 reply : Locks!Replies]]
      /\ Locks!Resting(now).at = now /\ ~Locks!Resting(now).busy
  BY DEF LocksInv, Locks!TypeOK, Locks!Resting
<1> HIDE DEF Locks!Resting
<1> QED BY <1>1, <1>2, <1>3

LEMMA LocksCompleteFail ==
  ASSUME LocksInv, WorkloadAssumption, NEW c \in Clients, Locks!CompleteFail(c)
  PROVE  LocksInv'
<1>1. /\ worker[c].busy /\ lastEnd' = now /\ history' = history /\ now' = now
      /\ leases' = leases /\ tokens' = tokens /\ service' = service /\ shared' = shared
      /\ certain' = certain /\ ops' = ops
      /\ silent' = silent \cup (IF worker[c].reply.status # "ok" THEN {}
                                ELSE IF worker[c].op = "LOCK" THEN {"grant"} ELSE {"release"})
      /\ Locks!Rest(c) /\ Locks!Leaves(c)
  BY DEF Locks!CompleteFail
<1>2. /\ ~worker'[c].busy /\ worker'[c].at = now
      /\ \A d \in Clients : d # c => worker'[d] = worker[d]
      /\ worker' \in [Clients -> [busy : BOOLEAN, op : Locks!Operations, at : Nat,
                                  reply : Locks!Replies]]
  BY <1>1, RestTyped
<1>3. /\ now \in Nat /\ lastEnd \in Nat /\ lastEnd <= now
      /\ \A d \in Clients : \A i \in DOMAIN history[d] :
           history[d][i].end \in Nat /\ worker[d].at \in Nat
  BY LockTypes, EntryFacts DEF LocksInv
<1>4. Locks!TypeOK'
  <2>1. late' \subseteq Clients \X Locks!Operations
    BY <1>1, LeavesTyped DEF LocksInv
  <2>2. lastEnd' \in 0 .. now /\ silent' \subseteq {"grant", "release"}
    BY <1>1, <1>3 DEF LocksInv, Locks!TypeOK
  <2> QED BY <1>1, <1>2, <2>1, <2>2 DEF LocksInv, Locks!TypeOK
<1>5. Clocks'
  <2> SUFFICES ASSUME NEW d \in Clients
               PROVE  /\ worker'[d].at <= now
                      /\ \A i \in DOMAIN history[d] :
                           /\ history[d][i].start <= history[d][i].end
                           /\ history[d][i].end <= now
                           /\ history[d][i].end <= worker'[d].at
                           /\ worker'[d].busy => history[d][i].end < worker'[d].at
                      /\ \A i, j \in DOMAIN history[d] :
                           i < j => history[d][i].end < history[d][j].start
    BY <1>1 DEF Clocks
  <2> QED BY <1>2, <1>3 DEF LocksInv, Clocks
<1>6. Certainty'
  <2>1. \A d \in Clients : worker'[d].busy => worker'[d] = worker[d]
    BY <1>2
  <2> QED BY <1>1, <2>1 DEF LocksInv, Certainty
<1>7. Sharing'
  <2>1. \A d \in Clients, time \in 0 .. now - 1 : OwnedAfter(d, time) => OwnedAfter(d, time)'
    BY <1>1, <1>2 DEF OwnedAfter
  <2> QED BY <1>1, <2>1 DEF LocksInv, Sharing
<1>8. ASSUME service.exclusive, silent' = {} PROVE Exclusive(told, now, leases, tokens)'
  <2>1. silent = {} /\ worker[c].reply.status # "ok"
    BY <1>1, <1>8
  <2>2. \A d \in Clients : Told(d)' = Told(d)
    BY <1>1, <1>2, <2>1 DEF Told, Reply
  <2>3. told' = told
    BY <2>2 DEF told
  <2> QED BY <1>1, <1>8, <2>1, <2>3, ExclusiveStays DEF LocksInv
<1> QED BY <1>1, <1>4, <1>5, <1>6, <1>7, <1>8 DEF LocksInv

LEMMA LocksCompleteOk ==
  ASSUME LocksInv, WorkloadAssumption, NEW c \in Clients, Locks!CompleteOk(c)
  PROVE  LocksInv'
<1> DEFINE e == Reply(c)
           n == Len(history[c]) + 1
           known == \E i \in DOMAIN history[c] : IsLock(history[c][i]) /\ history[c][i].token = e.token
<1>1. /\ worker[c].busy /\ worker[c].reply.status = "ok"
      /\ history' = [history EXCEPT ![c] = Append(@, e)]
      /\ lastEnd' = now /\ now' = now
      /\ leases' = leases /\ tokens' = tokens /\ service' = service /\ shared' = shared
      /\ silent' = silent /\ ops' = ops
      /\ Locks!Rest(c) /\ Locks!Leaves(c)
  BY DEF Locks!CompleteOk, Reply
<1>2. certain' = [certain EXCEPT ![c] = IF IsLock(e) /\ ~known THEN e.start + e.life ELSE @]
  BY DEF Locks!CompleteOk, Reply, IsLock
<1>3. /\ ~worker'[c].busy /\ worker'[c].at = now
      /\ \A d \in Clients : d # c => worker'[d] = worker[d]
      /\ worker' \in [Clients -> [busy : BOOLEAN, op : Locks!Operations, at : Nat,
                                  reply : Locks!Replies]]
  BY <1>1, RestTyped
<1>4. /\ now \in Nat /\ lastEnd \in Nat /\ lastEnd <= now
      /\ \A d \in Clients : history[d] \in Histories /\ worker[d].at \in Nat /\ worker[d].at <= now
      /\ \A d \in Clients : \A i \in DOMAIN history[d] :
           history[d][i].end \in Nat /\ history[d][i].start \in Nat
      /\ e \in Locks!Entries
  <2>1. \A d \in Clients : worker[d].at <= now
    BY DEF LocksInv, Clocks
  <2> QED BY <2>1, LockTypes, EntryFacts DEF LocksInv
<1>5. /\ e.op = worker[c].op /\ e.start = worker[c].at /\ e.end = now
      /\ e.start + e.life \in Nat
  <2>1. worker[c].reply.life \in Nat
    BY LockTypes DEF LocksInv
  <2> QED BY <1>4, <2>1 DEF Reply
<1> HIDE DEF e
<1>6. /\ history'[c] \in Histories /\ DOMAIN history'[c] = 1 .. n /\ n \in 1 .. n /\ n \in Nat
      /\ DOMAIN history[c] = 1 .. n - 1 /\ history'[c][n] = e
      /\ \A i \in DOMAIN history[c] : /\ history'[c][i] = history[c][i]
                                      /\ IsGrant(history'[c], i) = IsGrant(history[c], i)
  <2>1. history'[c] = Append(history[c], e)
    BY <1>1 DEF LocksInv, Locks!TypeOK
  <2>2. n \in 1 .. n
    BY <1>4, EntryFacts
  <2> HIDE DEF n
  <2>3. history[c] \in Histories
    BY <1>4
  <2> QED BY <1>4, <2>1, <2>2, <2>3, Extended DEF n
<1>7. \A d \in Clients : d # c => history'[d] = history[d] /\ certain'[d] = certain[d]
  BY <1>1, <1>2 DEF LocksInv, Locks!TypeOK
<1>8. \A i \in DOMAIN history'[c] : i \in DOMAIN history[c] \/ i = n
  BY <1>6
<1> HIDE DEF n
<1>9. Locks!TypeOK'
  <2>1. late' \subseteq Clients \X Locks!Operations
    BY <1>1, LeavesTyped DEF LocksInv
  <2>2. lastEnd' \in 0 .. now
    BY <1>1, <1>4
  <2>3. certain' \in [Clients -> Nat]
    BY <1>2, <1>5 DEF LocksInv, Locks!TypeOK
  <2>4. history' \in [Clients -> Seq(Locks!Entries)]
    <3>1. Append(history[c], e) \in Seq(Locks!Entries)
      BY <1>4, AppendProperties DEF Histories
    <3> QED BY <1>1, <3>1 DEF LocksInv, Locks!TypeOK
  <2> QED BY <1>1, <1>3, <2>1, <2>2, <2>3, <2>4 DEF LocksInv, Locks!TypeOK
<1>10. Clocks'
  <2> SUFFICES ASSUME NEW d \in Clients
               PROVE  /\ worker'[d].at <= now
                      /\ \A i \in DOMAIN history'[d] :
                           /\ history'[d][i].start <= history'[d][i].end
                           /\ history'[d][i].end <= now
                           /\ history'[d][i].end <= worker'[d].at
                           /\ worker'[d].busy => history'[d][i].end < worker'[d].at
                      /\ \A i, j \in DOMAIN history'[d] :
                           i < j => history'[d][i].end < history'[d][j].start
    BY <1>1 DEF Clocks
  <2>1. CASE d # c
    BY <1>3, <1>4, <1>7, <2>1 DEF LocksInv, Clocks
  <2>2. CASE d = c
    <3>1. \A i \in DOMAIN history[c] :
            /\ history[c][i].start <= history[c][i].end /\ history[c][i].end <= now
            /\ history[c][i].end < e.start
      BY <1>1, <1>4, <1>5 DEF LocksInv, Clocks
    <3>2. \A i, j \in DOMAIN history[c] : i < j => history[c][i].end < history[c][j].start
      BY DEF LocksInv, Clocks
    <3>3. \A i, j \in DOMAIN history'[c] :
            i < j => i \in DOMAIN history[c]
      BY <1>6
    <3>4. e.start <= now /\ e.end = now
      BY <1>4, <1>5
    <3>5. \A i, j \in DOMAIN history'[c] :
            i < j => history'[c][i].end < history'[c][j].start
      BY <1>6, <1>8, <3>1, <3>2, <3>3
    <3>6. \A i \in DOMAIN history'[c] :
            history'[c][i].start <= history'[c][i].end /\ history'[c][i].end <= now
      BY <1>4, <1>6, <1>8, <3>1, <3>4
    <3> QED BY <1>3, <1>4, <2>2, <3>5, <3>6
  <2> QED BY <2>1, <2>2
<1>11. Certainty'
  <2> SUFFICES ASSUME NEW d \in Clients, certain'[d] # 0
               PROVE  \E i \in DOMAIN history'[d] :
                        /\ IsGrant(history'[d], i)
                        /\ certain'[d] = history'[d][i].start + history'[d][i].life
                        /\ \A k \in DOMAIN history'[d] : i < k => IsLock(history'[d][k])
                        /\ ~(worker'[d].busy /\ worker'[d].op = "UNLOCK")
    BY DEF Certainty
  <2>1. CASE d # c
    BY <1>3, <1>7, <2>1 DEF LocksInv, Certainty
  <2>2. CASE d = c /\ IsLock(e) /\ ~known
    <3>1. IsGrant(history'[c], n)
      <4>1. \A j \in 1 .. n - 1 : IsLock(history[c][j]) => history[c][j].token # e.token
        BY <1>6, <2>2
      <4>2. IsLock(history'[c][n])
        BY <1>6, <2>2
      <4> QED BY <1>6, <4>1, <4>2 DEF IsGrant
    <3>2. certain'[c] = e.start + e.life
      BY <1>2, <2>2 DEF LocksInv, Locks!TypeOK
    <3>3. n \in DOMAIN history'[c] /\ \A k \in DOMAIN history'[c] : ~(n < k)
      BY <1>6
    <3> QED BY <1>3, <1>6, <2>2, <3>1, <3>2, <3>3
  <2>3. CASE d = c /\ ~(IsLock(e) /\ ~known)
    <3>1. certain'[c] = certain[c] /\ certain[c] # 0
      BY <1>2, <2>3 DEF LocksInv, Locks!TypeOK
    <3>2. PICK i \in DOMAIN history[c] :
            /\ IsGrant(history[c], i)
            /\ certain[c] = history[c][i].start + history[c][i].life
            /\ \A k \in DOMAIN history[c] : i < k => IsLock(history[c][k])
            /\ ~(worker[c].busy /\ worker[c].op = "UNLOCK")
      BY <3>1 DEF LocksInv, Certainty
    <3>3. IsLock(e)
      BY <1>1, <1>5, <3>2, LockTypes DEF LocksInv, IsLock
    <3>4. \A k \in DOMAIN history'[c] : i < k => IsLock(history'[c][k])
      BY <1>6, <1>8, <3>2, <3>3
    <3>5. i \in DOMAIN history'[c]
      BY <1>6, <3>2
    <3> QED BY <1>3, <1>6, <2>3, <3>1, <3>2, <3>4, <3>5
  <2> QED BY <2>1, <2>2, <2>3
<1>12. Sharing'
  <2>1. ASSUME NEW d \in Clients, NEW time \in 0 .. now - 1, OwnedAfter(d, time)
        PROVE  OwnedAfter(d, time)'
    <3>1. CASE d # c
      BY <1>3, <1>7, <2>1, <3>1 DEF OwnedAfter
    <3>2. CASE d = c
      <4>1. PICK i \in DOMAIN history[c] :
              /\ IsGrant(history[c], i)
              /\ history[c][i].end <= time /\ time < history[c][i].start + history[c][i].life
              /\ \A k \in DOMAIN history[c] :
                   i < k /\ ~IsLock(history[c][k]) => time < history[c][k].start
              /\ worker[c].busy /\ worker[c].op = "UNLOCK" => time < worker[c].at
        BY <2>1, <3>2 DEF OwnedAfter
      <4>2. ~IsLock(e) => time < e.start
        BY <1>1, <1>5, <4>1, LockTypes DEF LocksInv, IsLock
      <4>3. \A k \in DOMAIN history'[c] :
              i < k /\ ~IsLock(history'[c][k]) => time < history'[c][k].start
        BY <1>6, <1>8, <4>1, <4>2
      <4>4. i \in DOMAIN history'[c]
        BY <1>6, <4>1
      <4> QED BY <1>3, <1>6, <3>2, <4>1, <4>3, <4>4 DEF OwnedAfter
    <3> QED BY <3>1, <3>2
  <2> QED BY <1>1, <2>1 DEF LocksInv, Sharing
<1>13. ASSUME service.exclusive, silent = {} PROVE Exclusive(told, now, leases, tokens)'
  <2>1. Told(c)' = Told(c)
    <3>1. history'[c] = Append(history[c], e)
      BY <1>1 DEF LocksInv, Locks!TypeOK
    <3> QED BY <1>1, <1>3, <3>1 DEF Told, e
  <2>2. \A d \in Clients : d # c => Told(d)' = Told(d)
    BY <1>1, <1>3, <1>7 DEF Told, Reply
  <2>3. told' = told
    BY <2>1, <2>2 DEF told
  <2> QED BY <1>1, <1>13, <2>3, ExclusiveStays DEF LocksInv
<1> QED BY <1>1, <1>9, <1>10, <1>11, <1>12, <1>13 DEF LocksInv

LEMMA LocksServeLate ==
  ASSUME LocksInv, WorkloadAssumption, NEW c \in Clients, NEW op \in Locks!Operations,
         Locks!ServeLate(c, op)
  PROVE  LocksInv'
<1>1. PICK reply \in Locks!Answers : Locks!Handles(c, op, reply)
  BY DEF Locks!ServeLate, Locks!Handles, Locks!Acquires, Locks!Releases
<1>2. /\ late' = late \ {<<c, op>>} /\ silent' = silent \cup Locks!Effects
      /\ service' = service /\ now' = now /\ worker' = worker /\ ops' = ops
      /\ history' = history /\ lastEnd' = lastEnd /\ certain' = certain /\ shared' = shared
  BY DEF Locks!ServeLate
<1>3. Locks!TypeOK'
  <2>1. /\ leases' \subseteq [owner : Clients, token : Nat, life : Lifetimes, expires : Nat]
        /\ tokens' \in Nat
    BY <1>1, HandlesTyped DEF LocksInv
  <2>2. silent' \subseteq {"grant", "release"}
    BY <1>2 DEF LocksInv, Locks!TypeOK, Locks!Effects
  <2> QED BY <1>2, <2>1, <2>2 DEF LocksInv, Locks!TypeOK
<1>4. (Clocks /\ Certainty /\ Sharing)'
  BY <1>2, WorkersGoOn
<1>5. ASSUME service.exclusive, silent' = {} PROVE Exclusive(told, now, leases, tokens)'
  <2>1. silent = {} /\ tokens' = tokens /\ \A l \in Locks!Live : l \in leases'
    BY <1>2, <1>5 DEF Locks!Effects
  <2>2. tokens \in Nat
    BY LockTypes DEF LocksInv
  <2>3. leases' = leases
    BY <1>1, <2>1, <2>2 DEF Locks!Handles, Locks!Acquires, Locks!Releases, Locks!leaseVars
  <2>4. \A d \in Clients : Told(d)' = Told(d)
    BY <1>2 DEF Told, Reply
  <2>5. told' = told
    BY <2>4 DEF told
  <2> QED BY <1>2, <1>5, <2>1, <2>3, <2>5, ExclusiveStays DEF LocksInv
<1> QED BY <1>2, <1>3, <1>4, <1>5 DEF LocksInv

LEMMA LocksStep ==
  ASSUME LocksInv, WorkloadAssumption, Locks!Next \/ UNCHANGED <<workloadVars, lockVars>>
  PROVE  LocksInv'
<1>1. CASE Locks!Next
  BY <1>1, LocksTick, LocksInvoke, LocksServe, LocksCompleteOk, LocksCompleteFail,
     LocksServeLate DEF Locks!Next
<1>2. CASE UNCHANGED <<workloadVars, lockVars>>
  <2>1. /\ now' = now /\ worker' = worker /\ ops' = ops /\ history' = history /\ late' = late
        /\ service' = service /\ leases' = leases /\ tokens' = tokens /\ lastEnd' = lastEnd
        /\ certain' = certain /\ shared' = shared /\ silent' = silent
    BY <1>2 DEF workloadVars, lockVars
  <2>2. Locks!TypeOK'
    BY <2>1 DEF LocksInv, Locks!TypeOK
  <2>3. (Clocks /\ Certainty /\ Sharing)'
    BY <2>1, WorkersGoOn
  <2>4. told' = told
    BY <2>1 DEF told, Told, Reply
  <2> QED BY <2>1, <2>2, <2>3, <2>4, ExclusiveStays DEF LocksInv
<1> QED BY <1>1, <1>2

----------------------------------------------------------------------------
(* The checker's loop over the history of a client                         *)

Reasons == {"lease_expiry_bound", "history_end", "unlock_invoked"}
Spans == [start : Nat, end : Nat, token : Nat, reason : Reasons]
Accs == {acc \in [active : Nat, intervals : Seq(Spans)] : acc.active <= Len(acc.intervals)}
NothingHeld == [active |-> 0, intervals |-> <<>>]

LEMMA IntervalFacts ==
  ASSUME NEW h \in Locks!Entries, lastEnd \in Nat
  PROVE  LET x == Locks!Interval(h)
             deadline == h.start + h.life
         IN /\ x \in Spans /\ x.start = h.end /\ x.token = h.token
            /\ x.end <= lastEnd /\ x.end <= deadline
            /\ x.reason = "history_end" => x.end = lastEnd /\ lastEnd < deadline
            /\ x.reason # "history_end" => x.end = deadline
<1>1. h.start \in Nat /\ h.end \in Nat /\ h.token \in Nat /\ h.life \in Nat
  BY DEF Locks!Entries
<1>2. CASE h.start + h.life <= lastEnd
  BY <1>1, <1>2 DEF Locks!Interval, Spans, Reasons
<1>3. CASE ~(h.start + h.life <= lastEnd)
  BY <1>1, <1>3 DEF Locks!Interval, Spans, Reasons
<1> QED BY <1>2, <1>3

(* What one round does: a repeated grant nothing, another one adds an      *)
(* interval, and a release ends the one that is active.                    *)
Adds(acc, new, h) ==
  LET q == acc.intervals
      r == new.intervals
  IN /\ IsLock(h)
     /\ acc.active # 0 => q[acc.active].token # h.token
     /\ new.active = Len(q) + 1
     /\ DOMAIN r = 1 .. Len(q) + 1
     /\ r[Len(q) + 1] = Locks!Interval(h)
     /\ \A m \in DOMAIN q : r[m] = q[m]

Ends(acc, new, h) ==
  LET q == acc.intervals
      r == new.intervals
      x == q[acc.active]
      y == r[acc.active]
  IN /\ ~IsLock(h) /\ acc.active \in DOMAIN q
     /\ new.active = 0
     /\ DOMAIN r = DOMAIN q
     /\ \A m \in DOMAIN q : m # acc.active => r[m] = q[m]
     /\ y.start = x.start /\ y.token = x.token
     /\ \/ h.start <= x.end /\ y.end = h.start /\ y.reason = "unlock_invoked"
        \/ x.end < h.start /\ y = x

Keeps(acc, new, h) ==
  /\ new = acc
  /\ IF IsLock(h)
     THEN acc.active \in DOMAIN acc.intervals /\ acc.intervals[acc.active].token = h.token
     ELSE acc.active = 0

LEMMA RoundFacts ==
  ASSUME NEW acc \in Accs, NEW h \in Locks!Entries, lastEnd \in Nat
  PROVE  LET new == Locks!Round(acc, h)
         IN /\ new \in Accs
            /\ Adds(acc, new, h) \/ Ends(acc, new, h) \/ Keeps(acc, new, h)
<1> DEFINE q == acc.intervals
           i == acc.active
           new == Locks!Round(acc, h)
<1>1. /\ i \in Nat /\ q \in Seq(Spans) /\ Len(q) \in Nat /\ DOMAIN q = 1 .. Len(q)
      /\ i <= Len(q) /\ h.start \in Nat /\ h.op \in {"LOCK", "UNLOCK"}
      /\ acc = [active |-> i, intervals |-> q]
      /\ i # 0 => i \in DOMAIN q /\ q[i] \in Spans
  <2>1. /\ acc \in [active : Nat, intervals : Seq(Spans)] /\ i \in Nat /\ q \in Seq(Spans)
        /\ i <= Len(q)
    BY DEF Accs
  <2>2. Len(q) \in Nat /\ DOMAIN q = 1 .. Len(q) /\ \A m \in 1 .. Len(q) : q[m] \in Spans
    BY <2>1, LenProperties, ElementOfSeq
  <2>3. h.start \in Nat /\ h.op \in {"LOCK", "UNLOCK"}
    BY DEF Locks!Entries, Locks!Operations
  <2> QED BY <2>1, <2>2, <2>3
<1>2. CASE IsLock(h) /\ i # 0 /\ q[i].token = h.token
  <2>1. new = acc
    BY <1>2 DEF Locks!Round, Locks!Lock, IsLock
  <2> QED BY <1>1, <1>2, <2>1 DEF Keeps
<1>3. CASE IsLock(h) /\ ~(i # 0 /\ q[i].token = h.token)
  <2> DEFINE x == Locks!Interval(h)
  <2>1. x \in Spans
    BY IntervalFacts
  <2>2. new = [active |-> Len(q) + 1, intervals |-> Append(q, x)]
    BY <1>3 DEF Locks!Round, Locks!Lock, IsLock
  <2> HIDE DEF x
  <2>3. /\ Append(q, x) \in Seq(Spans) /\ Len(Append(q, x)) = Len(q) + 1
        /\ DOMAIN Append(q, x) = 1 .. Len(q) + 1
        /\ Append(q, x)[Len(q) + 1] = x
        /\ \A m \in DOMAIN q : Append(q, x)[m] = q[m]
    BY <1>1, <2>1, AppendProperties, LenProperties
  <2>4. new \in Accs
    BY <1>1, <2>2, <2>3 DEF Accs
  <2>5. Adds(acc, new, h)
    BY <1>1, <1>3, <2>2, <2>3 DEF Adds, x
  <2> QED BY <2>4, <2>5
<1>4. CASE ~IsLock(h) /\ i = 0
  <2>1. new = acc
    BY <1>4 DEF Locks!Round, Locks!Unlock, IsLock
  <2> QED BY <1>4, <2>1 DEF Keeps
<1>5. CASE ~IsLock(h) /\ i # 0
  <2> DEFINE y == [q[i] EXCEPT !.end = h.start, !.reason = "unlock_invoked"]
             r == IF h.start <= q[i].end THEN [q EXCEPT ![i] = y] ELSE q
  <2>1. new = [active |-> 0, intervals |-> r]
    BY <1>1, <1>5 DEF Locks!Round, Locks!Unlock, IsLock
  <2>2. /\ y \in Spans /\ y.start = q[i].start /\ y.token = q[i].token
        /\ y.end = h.start /\ y.reason = "unlock_invoked" /\ q[i].end \in Nat
    BY <1>1, <1>5 DEF Spans, Reasons
  <2> HIDE DEF y
  <2>3. [q EXCEPT ![i] = y] \in Seq(Spans) /\ Len([q EXCEPT ![i] = y]) = Len(q)
    BY <1>1, <1>5, <2>2, ExceptSeq
  <2>4. new \in Accs
    BY <1>1, <2>1, <2>3 DEF Accs
  <2>5. /\ DOMAIN r = DOMAIN q /\ \A m \in DOMAIN q : m # i => r[m] = q[m]
        /\ \/ h.start <= q[i].end /\ r[i] = y
           \/ q[i].end < h.start /\ r[i] = q[i]
    BY <1>1, <1>5, <2>2
  <2> HIDE DEF r
  <2>6. Ends(acc, new, h)
    BY <1>1, <1>5, <2>1, <2>2, <2>5 DEF Ends
  <2> QED BY <2>4, <2>6
<1> QED BY <1>2, <1>3, <1>4, <1>5

(* The operations of one client, one after the other.                      *)
Orderly(s) ==
  /\ lastEnd \in Nat
  /\ \A i \in DOMAIN s : s[i].start <= s[i].end /\ s[i].end <= lastEnd
  /\ \A i, j \in DOMAIN s : i < j => s[i].end < s[j].start

(* What is true of the intervals after n rounds.  Each comes from a lease: *)
Sourced(s, acc, n) ==
  \A m \in DOMAIN acc.intervals :
    LET x == acc.intervals[m]
    IN /\ x.end <= lastEnd /\ (x.reason = "history_end" => x.end = lastEnd)
       /\ \E a \in 1 .. n : IsLock(s[a]) /\ s[a].token = x.token

(* Wherever a grant proves that the client owned the lease after a time,   *)
(* an interval says so:                                                    *)
Shows(x, h, time) ==
  /\ x.start = h.end
  /\ time < x.end \/ (x.reason = "history_end" /\ lastEnd <= time)

Shown(s, acc, n) ==
  \A a \in 1 .. n, time \in Nat :
    /\ IsGrant(s, a) /\ time < s[a].start + s[a].life
    /\ \A k \in a + 1 .. n : ~IsLock(s[k]) => time < s[k].start
    => \E m \in DOMAIN acc.intervals : Shows(acc.intervals[m], s[a], time)

(* And no interval goes on for longer than its grant proves, when the      *)
(* leases were granted one after the other.                                *)
Proven(s, n, x, a) ==
  /\ IsGrant(s, a)
  /\ x.token = s[a].token /\ x.start = s[a].end /\ x.end <= s[a].start + s[a].life
  /\ x.reason = "history_end" => lastEnd < s[a].start + s[a].life
  /\ \A k \in a + 1 .. n : ~IsLock(s[k]) => x.end <= s[k].start /\ x.reason # "history_end"

Over(s, n, x, a) == \E k \in a + 1 .. n : x.end <= s[k].end /\ x.reason # "history_end"

Sound(s, acc, n) ==
  /\ \A m \in DOMAIN acc.intervals :
       \E a \in 1 .. n :
         /\ Proven(s, n, acc.intervals[m], a)
         /\ m # acc.active => Over(s, n, acc.intervals[m], a)
  /\ \A a \in 1 .. n : IsLock(s[a]) /\ (\A k \in a + 1 .. n : IsLock(s[k])) =>
       /\ acc.active \in DOMAIN acc.intervals
       /\ s[a].token <= acc.intervals[acc.active].token

Judged(s, acc, n) ==
  /\ acc \in Accs /\ Sourced(s, acc, n) /\ Shown(s, acc, n)
  /\ InOrder(s) /\ Successive(s, s) => Sound(s, acc, n)

(* The numbers of a history and of the intervals.                          *)
LEMMA AccFacts ==
  ASSUME NEW acc \in Accs
  PROVE  LET q == acc.intervals
         IN /\ Len(q) \in Nat /\ DOMAIN q = 1 .. Len(q) /\ acc.active \in 0 .. Len(q)
            /\ \A m \in DOMAIN q : /\ q[m].start \in Nat /\ q[m].end \in Nat
                                  /\ q[m].token \in Nat /\ q[m].reason \in Reasons
<1>1. /\ acc.active \in Nat /\ acc.intervals \in Seq(Spans) /\ acc.active <= Len(acc.intervals)
  BY DEF Accs
<1>2. /\ Len(acc.intervals) \in Nat /\ DOMAIN acc.intervals = 1 .. Len(acc.intervals)
      /\ \A m \in 1 .. Len(acc.intervals) : acc.intervals[m] \in Spans
  BY <1>1, LenProperties, ElementOfSeq
<1> QED BY <1>1, <1>2 DEF Spans

LEMMA SourcedStep ==
  ASSUME NEW s \in Histories, NEW n \in Nat, n + 1 \in DOMAIN s, Orderly(s),
         NEW acc \in Accs, NEW new \in Accs, Sourced(s, acc, n),
         Adds(acc, new, s[n + 1]) \/ Ends(acc, new, s[n + 1]) \/ Keeps(acc, new, s[n + 1])
  PROVE  Sourced(s, new, n + 1)
<1> DEFINE h == s[n + 1]
           q == acc.intervals
           r == new.intervals
<1>1. h \in Locks!Entries /\ h.start \in Nat /\ h.end \in Nat /\ h.start <= h.end /\ h.end <= lastEnd
      /\ lastEnd \in Nat
  BY EntryFacts DEF Orderly
<1>2. \A m \in DOMAIN q : q[m].end \in Nat
  BY AccFacts
<1>3. \A m \in DOMAIN q :
        /\ q[m].end <= lastEnd /\ (q[m].reason = "history_end" => q[m].end = lastEnd)
        /\ \E a \in 1 .. n + 1 : IsLock(s[a]) /\ s[a].token = q[m].token
  BY DEF Sourced
<1>4. CASE Keeps(acc, new, h)
  BY <1>3, <1>4 DEF Keeps, Sourced
<1>5. CASE Ends(acc, new, h)
  <2>1. ASSUME NEW m \in DOMAIN r
        PROVE  /\ m \in DOMAIN q /\ r[m].token = q[m].token
               /\ r[m].end <= lastEnd /\ (r[m].reason = "history_end" => r[m].end = lastEnd)
    <3>1. CASE m # acc.active
      BY <1>3, <1>5, <3>1 DEF Ends
    <3>2. CASE m = acc.active
      BY <1>1, <1>2, <1>3, <1>5, <3>2 DEF Ends
    <3> QED BY <3>1, <3>2
  <2> QED BY <1>3, <2>1 DEF Sourced
<1>6. CASE Adds(acc, new, h)
  <2> DEFINE x == Locks!Interval(h)
  <2>1. x.end <= lastEnd /\ (x.reason = "history_end" => x.end = lastEnd) /\ x.token = h.token
    BY <1>1, IntervalFacts
  <2> HIDE DEF x
  <2>2. ASSUME NEW m \in DOMAIN r, m \notin DOMAIN q PROVE r[m] = x
    BY <1>6, <2>2, AccFacts DEF Adds, x
  <2>3. ASSUME NEW m \in DOMAIN q PROVE r[m] = q[m]
    BY <1>6 DEF Adds
  <2>4. n + 1 \in 1 .. n + 1 /\ IsLock(h)
    BY <1>6 DEF Adds
  <2> QED BY <1>3, <2>1, <2>2, <2>3, <2>4 DEF Sourced
<1> QED BY <1>4, <1>5, <1>6

LEMMA ShownStep ==
  ASSUME NEW s \in Histories, NEW n \in Nat, n + 1 \in DOMAIN s, Orderly(s),
         NEW acc \in Accs, NEW new \in Accs, Sourced(s, acc, n), Shown(s, acc, n),
         Adds(acc, new, s[n + 1]) \/ Ends(acc, new, s[n + 1]) \/ Keeps(acc, new, s[n + 1])
  PROVE  Shown(s, new, n + 1)
<1> DEFINE h == s[n + 1]
           q == acc.intervals
           r == new.intervals
<1> SUFFICES ASSUME NEW a \in 1 .. n + 1, NEW time \in Nat,
                    IsGrant(s, a), time < s[a].start + s[a].life,
                    \A k \in a + 1 .. n + 1 : ~IsLock(s[k]) => time < s[k].start
             PROVE  \E m \in DOMAIN r : Shows(r[m], s[a], time)
  BY DEF Shown
<1>1. /\ h \in Locks!Entries /\ h.start \in Nat /\ h.end \in Nat /\ h.start <= h.end
      /\ h.end <= lastEnd /\ lastEnd \in Nat
  BY EntryFacts DEF Orderly
<1>2. \A m \in DOMAIN q : q[m].end \in Nat
  BY AccFacts
<1>3. CASE a = n + 1
  <2> DEFINE x == Locks!Interval(h)
  <2>1. \A m \in DOMAIN q : q[m].token # h.token
    <3>1. \A j \in 1 .. n : IsLock(s[j]) => s[j].token # h.token
      BY <1>3 DEF IsGrant
    <3> QED BY <3>1 DEF Sourced
  <2>2. IsLock(h)
    BY <1>3 DEF IsGrant
  <2>3. Adds(acc, new, h)
    BY <2>1, <2>2 DEF Keeps, Ends
  <2>4. Len(q) + 1 \in DOMAIN r /\ r[Len(q) + 1] = x
    BY <2>3, AccFacts DEF Adds
  <2>5. Shows(x, h, time)
    <3>1. /\ x.start = h.end /\ time < h.start + h.life
          /\ x.reason = "history_end" => x.end = lastEnd
          /\ x.reason # "history_end" => x.end = h.start + h.life
      BY <1>1, <1>3, IntervalFacts
    <3> HIDE DEF x
    <3> QED BY <1>1, <3>1 DEF Shows
  <2> HIDE DEF x
  <2> QED BY <1>3, <2>4, <2>5
<1>4. CASE a # n + 1
  <2>1. PICK m \in DOMAIN q : Shows(q[m], s[a], time)
    <3>1. a \in 1 .. n /\ \A k \in a + 1 .. n : k \in a + 1 .. n + 1
      BY <1>4
    <3> QED BY <3>1 DEF Shown
  <2>2. ~IsLock(h) => time < h.start
    <3>1. n + 1 \in a + 1 .. n + 1
      BY <1>4
    <3> QED BY <3>1
  <2>3. CASE Keeps(acc, new, h)
    BY <2>1, <2>3 DEF Keeps
  <2>4. CASE Adds(acc, new, h)
    <3>1. m \in DOMAIN r /\ r[m] = q[m]
      BY <2>4, AccFacts DEF Adds
    <3> QED BY <2>1, <3>1
  <2>5. CASE Ends(acc, new, h)
    <3>1. m \in DOMAIN r /\ time < h.start
      BY <2>2, <2>5 DEF Ends
    <3>2. CASE r[m] = q[m]
      BY <2>1, <3>1, <3>2
    <3>3. CASE r[m] # q[m]
      <4>1. r[m].start = q[m].start /\ r[m].end = h.start
        BY <2>5, <3>3 DEF Ends
      <4> QED BY <2>1, <3>1, <4>1 DEF Shows
    <3> QED BY <3>2, <3>3
  <2> QED BY <2>3, <2>4, <2>5
<1> QED BY <1>3, <1>4

(* A lease that was granted after another one proves that one to be over.  *)
LEMMA OverWhenGranted ==
  ASSUME NEW s \in Histories, NEW n \in Nat, n + 1 \in DOMAIN s, Orderly(s),
         InOrder(s), Successive(s, s), NEW x \in Spans, NEW a \in 1 .. n,
         Proven(s, n, x, a), IsLock(s[n + 1]), x.token # s[n + 1].token
  PROVE  Over(s, n + 1, x, a)
<1> DEFINE h == s[n + 1]
           deadline == s[a].start + s[a].life
<1>1. /\ x.end \in Nat /\ h.end \in Nat /\ h.token \in Nat /\ h.end <= lastEnd /\ lastEnd \in Nat
      /\ a \in DOMAIN s /\ s[a].token \in Nat /\ deadline \in Nat
      /\ IsLock(s[a]) /\ s[a].token = x.token /\ x.end <= deadline
      /\ x.reason = "history_end" => lastEnd < deadline
  BY EntryFacts DEF Orderly, Spans, Proven, IsGrant
<1>2. s[a].token < h.token
  BY <1>1 DEF InOrder
<1>3. Gone(s, a, h.end)
  BY <1>1, <1>2 DEF Successive, Proven
<1>4. x.end <= h.end /\ x.reason # "history_end"
  <2>1. CASE deadline <= h.end
    <3> HIDE DEF deadline, h
    <3> QED BY <1>1, <2>1
  <2>2. CASE \E k \in DOMAIN s : a < k /\ ~IsLock(s[k]) /\ s[k].start <= h.end
    <3>1. PICK k \in DOMAIN s : a < k /\ ~IsLock(s[k]) /\ s[k].start <= h.end
      BY <2>2
    <3>2. k \in Nat /\ s[k].start \in Nat
      BY EntryFacts
    <3>3. ~(n + 1 < k)
      BY <1>1, <3>1, <3>2 DEF Orderly
    <3>4. k # n + 1
      BY <3>1
    <3>5. k \in a + 1 .. n
      BY <3>1, <3>2, <3>3, <3>4
    <3> QED BY <1>1, <3>1, <3>2, <3>5 DEF Proven
  <2> QED BY <1>3, <2>1, <2>2 DEF Gone
<1>5. n + 1 \in a + 1 .. n + 1
  OBVIOUS
<1> QED BY <1>4, <1>5 DEF Over

LEMMA SoundAdds ==
  ASSUME NEW s \in Histories, NEW n \in Nat, n + 1 \in DOMAIN s, Orderly(s),
         InOrder(s), Successive(s, s),
         NEW acc \in Accs, NEW new \in Accs, Sourced(s, acc, n), Sound(s, acc, n),
         Adds(acc, new, s[n + 1])
  PROVE  Sound(s, new, n + 1)
<1> DEFINE h == s[n + 1]
           q == acc.intervals
           r == new.intervals
           x == Locks!Interval(h)
<1>1. /\ h \in Locks!Entries /\ h.token \in Nat /\ IsLock(h) /\ lastEnd \in Nat
      /\ \A i \in 1 .. n : i \in DOMAIN s /\ s[i].token \in Nat
      /\ new.active = Len(q) + 1 /\ r[Len(q) + 1] = x /\ Len(q) + 1 \in DOMAIN r
      /\ \A m \in DOMAIN r : m = Len(q) + 1 \/ (m \in DOMAIN q /\ r[m] = q[m] /\ m # new.active)
      /\ \A m \in DOMAIN q : q[m] \in Spans /\ q[m].token \in Nat
  <2>1. /\ Len(q) \in Nat /\ DOMAIN q = 1 .. Len(q) /\ q \in Seq(Spans)
        /\ \A m \in DOMAIN q : q[m].token \in Nat
    BY AccFacts DEF Accs
  <2>2. \A m \in DOMAIN q : q[m] \in Spans
    BY <2>1, ElementOfSeq
  <2>3. DOMAIN s = 1 .. Len(s) /\ Len(s) \in Nat /\ \A i \in DOMAIN s : s[i].token \in Nat
    BY EntryFacts
  <2>4. h \in Locks!Entries
    BY EntryFacts
  <2>5. \A i \in 1 .. n : i \in DOMAIN s
    BY <2>3
  <2>6. \A m \in DOMAIN r : m = Len(q) + 1 \/ (m \in DOMAIN q /\ r[m] = q[m] /\ m # new.active)
    <3>1. \A m \in DOMAIN r : m = Len(q) + 1 \/ m \in DOMAIN q
      BY <2>1 DEF Adds
    <3>2. \A m \in DOMAIN q : m # Len(q) + 1
      BY <2>1
    <3> QED BY <3>1, <3>2 DEF Adds
  <2>7. Len(q) + 1 \in DOMAIN r
    BY <2>1 DEF Adds
  <2>8. h.token \in Nat
    BY <2>3
  <2> QED BY <2>1, <2>2, <2>3, <2>4, <2>5, <2>6, <2>7, <2>8 DEF Adds, Orderly
<1>2. \A j \in 1 .. n : IsLock(s[j]) => s[j].token <= h.token
  BY <1>1 DEF InOrder
<1>3. ASSUME NEW j \in 1 .. n, IsLock(s[j]), s[j].token = h.token PROVE FALSE
  <2>1. \A k \in j + 1 .. n : IsLock(s[k])
    <3>1. \A k \in j + 1 .. (n + 1) - 1 : ~IsLock(s[k]) => s[j].token < h.token
      BY <1>1, <1>3 DEF InOrder
    <3> QED BY <1>1, <1>3, <3>1
  <2>2. acc.active \in DOMAIN q /\ h.token <= q[acc.active].token
    BY <1>3, <2>1 DEF Sound
  <2>3. PICK b \in 1 .. n : IsLock(s[b]) /\ s[b].token = q[acc.active].token
    BY <2>2 DEF Sourced
  <2>4. q[acc.active].token = h.token
    BY <1>1, <1>2, <2>2, <2>3
  <2>5. acc.active # 0
    BY <2>2, AccFacts
  <2> QED BY <2>4, <2>5 DEF Adds
<1>4. Proven(s, n + 1, x, n + 1)
  <2>1. IsGrant(s, n + 1)
    BY <1>1, <1>3 DEF IsGrant
  <2>2. /\ x.token = h.token /\ x.start = h.end /\ x.end <= h.start + h.life
        /\ x.reason = "history_end" => lastEnd < h.start + h.life
    BY <1>1, IntervalFacts
  <2> HIDE DEF x
  <2> QED BY <2>1, <2>2 DEF Proven
<1> HIDE DEF x
<1>5. ASSUME NEW m \in DOMAIN q
      PROVE  \E a \in 1 .. n + 1 : Proven(s, n + 1, q[m], a) /\ Over(s, n + 1, q[m], a)
  <2>1. PICK a \in 1 .. n : Proven(s, n, q[m], a) /\ (m # acc.active => Over(s, n, q[m], a))
    BY DEF Sound
  <2>2. \A k \in a + 1 .. n + 1 : k \in a + 1 .. n \/ k = n + 1
    OBVIOUS
  <2>3. Proven(s, n + 1, q[m], a)
    BY <1>1, <2>1, <2>2 DEF Proven
  <2>4. Over(s, n + 1, q[m], a)
    <3>1. CASE m = acc.active
      <4>1. acc.active # 0
        BY <3>1, AccFacts
      <4>2. q[m].token # h.token
        BY <3>1, <4>1 DEF Adds
      <4> QED BY <1>1, <2>1, <4>2, OverWhenGranted
    <3>2. CASE m # acc.active
      <4>1. Over(s, n, q[m], a)
        BY <2>1, <3>2
      <4>2. \A k \in a + 1 .. n : k \in a + 1 .. n + 1
        OBVIOUS
      <4> QED BY <4>1, <4>2 DEF Over
    <3> QED BY <3>1, <3>2
  <2> QED BY <2>3, <2>4
<1>6. ASSUME NEW m \in DOMAIN r
      PROVE  \E a \in 1 .. n + 1 : Proven(s, n + 1, r[m], a)
                                   /\ (m # new.active => Over(s, n + 1, r[m], a))
  <2>1. CASE m = Len(q) + 1
    <3>1. n + 1 \in 1 .. n + 1 /\ r[m] = x /\ m = new.active
      BY <1>1, <2>1
    <3> QED BY <1>4, <3>1
  <2>2. CASE m # Len(q) + 1
    BY <1>1, <1>5, <2>2
  <2> QED BY <2>1, <2>2
<1>7. ASSUME NEW a \in 1 .. n + 1, IsLock(s[a])
      PROVE  new.active \in DOMAIN r /\ s[a].token <= r[new.active].token
  <2>1. x.token = h.token
    BY <1>1, IntervalFacts DEF x
  <2>2. s[a].token <= h.token
    BY <1>1, <1>2, <1>7
  <2> QED BY <1>1, <2>1, <2>2
<1> QED BY <1>6, <1>7 DEF Sound

LEMMA SoundEnds ==
  ASSUME NEW s \in Histories, NEW n \in Nat, n + 1 \in DOMAIN s, Orderly(s),
         NEW acc \in Accs, NEW new \in Accs, Sourced(s, acc, n), Sound(s, acc, n),
         Ends(acc, new, s[n + 1])
  PROVE  Sound(s, new, n + 1)
<1> DEFINE h == s[n + 1]
           q == acc.intervals
           r == new.intervals
<1>1. /\ h.start \in Nat /\ h.end \in Nat /\ h.start <= h.end /\ h.end <= lastEnd /\ lastEnd \in Nat
      /\ ~IsLock(h)
      /\ DOMAIN s = 1 .. Len(s) /\ Len(s) \in Nat
      /\ \A i \in 1 .. n : i \in DOMAIN s /\ s[i].end \in Nat /\ s[i].start \in Nat
                           /\ s[i].life \in Nat /\ s[i].end < h.start
  <2>1. DOMAIN s = 1 .. Len(s) /\ Len(s) \in Nat
    BY EntryFacts
  <2>2. \A i \in 1 .. n : i \in DOMAIN s /\ i < n + 1
    BY <2>1
  <2>3. \A i \in DOMAIN s : s[i].end \in Nat /\ s[i].start \in Nat /\ s[i].life \in Nat
    BY EntryFacts
  <2> QED BY <2>1, <2>2, <2>3 DEF Orderly, Ends
<1>2. ASSUME NEW m \in DOMAIN r
      PROVE  \E a \in 1 .. n + 1 : Proven(s, n + 1, r[m], a)
                                   /\ (m # new.active => Over(s, n + 1, r[m], a))
  <2>1. /\ m \in DOMAIN q /\ q[m].end \in Nat /\ q[m].end <= lastEnd
        /\ q[m].reason = "history_end" => q[m].end = lastEnd
    BY AccFacts DEF Ends, Sourced
  <2>2. PICK a \in 1 .. n : Proven(s, n, q[m], a) /\ (m # acc.active => Over(s, n, q[m], a))
    BY <2>1 DEF Sound
  <2>3. \A k \in a + 1 .. n + 1 : k = n + 1 \/ (k \in a + 1 .. n /\ k \in 1 .. n)
    OBVIOUS
  <2>4. a \in 1 .. n + 1 /\ n + 1 \in a + 1 .. n + 1 /\ \A k \in a + 1 .. n : k \in a + 1 .. n + 1
    OBVIOUS
  <2>5. CASE m # acc.active
    <3>1. r[m] = q[m]
      BY <2>1, <2>5 DEF Ends
    <3>2. PICK k \in a + 1 .. n : q[m].end <= s[k].end /\ q[m].reason # "history_end"
      BY <2>2, <2>5 DEF Over
    <3>3. q[m].end <= h.start /\ q[m].reason # "history_end"
      <4>1. k \in 1 .. n
        OBVIOUS
      <4> QED BY <1>1, <2>1, <3>2, <4>1
    <3>4. Proven(s, n + 1, q[m], a)
      BY <2>2, <2>3, <3>3 DEF Proven
    <3>5. Over(s, n + 1, q[m], a)
      BY <2>4, <3>2 DEF Over
    <3> QED BY <2>4, <3>1, <3>4, <3>5
  <2>6. CASE m = acc.active
    <3> DEFINE x == q[m]
               y == r[m]
    <3>1. /\ y.start = x.start /\ y.token = x.token
          /\ \/ h.start <= x.end /\ y.end = h.start /\ y.reason = "unlock_invoked"
             \/ x.end < h.start /\ y = x
      BY <2>6 DEF Ends
    <3> HIDE DEF x, y
    <3>2. x.end \in Nat /\ x.end <= lastEnd /\ (x.reason = "history_end" => x.end = lastEnd)
      BY <2>1 DEF x
    <3>3. y.end \in Nat /\ y.end <= x.end /\ y.end <= h.start /\ y.reason # "history_end"
      BY <1>1, <3>1, <3>2
    <3>4. Proven(s, n, x, a)
      BY <2>2 DEF x
    <3>5. Proven(s, n + 1, y, a)
      <4>1. y.end <= s[a].start + s[a].life
        BY <1>1, <3>2, <3>3, <3>4 DEF Proven
      <4>2. \A k \in a + 1 .. n : ~IsLock(s[k]) => y.end <= s[k].start
        BY <1>1, <2>3, <2>4, <3>2, <3>3, <3>4 DEF Proven
      <4> QED BY <2>3, <3>1, <3>3, <3>4, <4>1, <4>2 DEF Proven
    <3>6. Over(s, n + 1, y, a)
      <4>1. y.end <= h.end
        BY <1>1, <3>3
      <4> HIDE DEF h
      <4>2. n + 1 \in a + 1 .. n + 1 /\ y.end <= s[n + 1].end
        BY <2>4, <4>1 DEF h
      <4> QED BY <3>3, <4>2 DEF Over
    <3> QED BY <2>4, <3>5, <3>6 DEF y
  <2> QED BY <2>5, <2>6
<1>3. ASSUME NEW a \in 1 .. n + 1, IsLock(s[a]), \A k \in a + 1 .. n + 1 : IsLock(s[k])
      PROVE  FALSE
  <2>1. a # n + 1 /\ n + 1 \in a + 1 .. n + 1
    BY <1>1, <1>3
  <2> QED BY <1>1, <1>3, <2>1
<1> QED BY <1>2, <1>3 DEF Sound

LEMMA SoundKeeps ==
  ASSUME NEW s \in Histories, NEW n \in Nat, n + 1 \in DOMAIN s, Orderly(s), InOrder(s),
         NEW acc \in Accs, Sound(s, acc, n), Keeps(acc, acc, s[n + 1])
  PROVE  Sound(s, acc, n + 1)
<1> DEFINE h == s[n + 1]
           q == acc.intervals
<1>1. /\ DOMAIN s = 1 .. Len(s) /\ Len(s) \in Nat /\ h.start \in Nat
      /\ \A i \in 1 .. n : i \in DOMAIN s /\ s[i].token \in Nat /\ s[i].end \in Nat /\ s[i].end < h.start
  BY EntryFacts DEF Orderly
<1>2. ASSUME NEW m \in DOMAIN q
      PROVE  \E a \in 1 .. n + 1 : Proven(s, n + 1, q[m], a)
                                   /\ (m # acc.active => Over(s, n + 1, q[m], a))
  <2>1. PICK a \in 1 .. n : Proven(s, n, q[m], a) /\ (m # acc.active => Over(s, n, q[m], a))
    BY DEF Sound
  <2>2. /\ a \in 1 .. n + 1
        /\ \A k \in a + 1 .. n + 1 : k = n + 1 \/ k \in a + 1 .. n
        /\ \A k \in a + 1 .. n : k \in a + 1 .. n + 1 /\ k \in 1 .. n
    OBVIOUS
  <2>3. ASSUME ~IsLock(h) PROVE q[m].end <= h.start /\ q[m].reason # "history_end"
    <3>1. m # acc.active
      BY <2>3, AccFacts DEF Keeps
    <3>2. PICK k \in a + 1 .. n : q[m].end <= s[k].end /\ q[m].reason # "history_end"
      BY <2>1, <3>1 DEF Over
    <3> QED BY <1>1, <2>2, <3>2, AccFacts
  <2>4. Proven(s, n + 1, q[m], a)
    BY <2>1, <2>2, <2>3 DEF Proven
  <2>5. Over(s, n, q[m], a) => Over(s, n + 1, q[m], a)
    BY <2>2 DEF Over
  <2> QED BY <2>1, <2>2, <2>4, <2>5
<1>3. ASSUME NEW a \in 1 .. n + 1, IsLock(s[a]), \A k \in a + 1 .. n + 1 : IsLock(s[k])
      PROVE  acc.active \in DOMAIN q /\ s[a].token <= q[acc.active].token
  <2>1. IsLock(h)
    <3>1. a = n + 1 \/ n + 1 \in a + 1 .. n + 1
      OBVIOUS
    <3> QED BY <1>3, <3>1
  <2>2. acc.active \in DOMAIN q /\ q[acc.active].token = h.token
    BY <2>1 DEF Keeps
  <2>3. s[a].token <= h.token
    <3>1. a \in DOMAIN s
      BY <1>1
    <3>2. s[a].token \in Nat
      BY <3>1, EntryFacts
    <3>3. CASE a = n + 1
      BY <3>2, <3>3
    <3>4. CASE a # n + 1
      BY <1>3, <2>1, <3>1, <3>4 DEF InOrder
    <3> QED BY <3>3, <3>4
  <2> QED BY <2>2, <2>3
<1> QED BY <1>2, <1>3 DEF Sound

LEMMA JudgedStep ==
  ASSUME NEW s \in Histories, NEW n \in Nat, n + 1 \in DOMAIN s, Orderly(s),
         NEW acc, Judged(s, acc, n)
  PROVE  Judged(s, Locks!Round(acc, s[n + 1]), n + 1)
<1> DEFINE new == Locks!Round(acc, s[n + 1])
<1>1. acc \in Accs /\ s[n + 1] \in Locks!Entries /\ lastEnd \in Nat
  BY EntryFacts DEF Judged, Orderly
<1>2. /\ new \in Accs
      /\ Adds(acc, new, s[n + 1]) \/ Ends(acc, new, s[n + 1]) \/ Keeps(acc, new, s[n + 1])
  BY <1>1, RoundFacts
<1> HIDE DEF new
<1>3. Sourced(s, new, n + 1) /\ Shown(s, new, n + 1)
  BY <1>1, <1>2, SourcedStep, ShownStep DEF Judged
<1>4. ASSUME InOrder(s), Successive(s, s) PROVE Sound(s, new, n + 1)
  <2>1. CASE Adds(acc, new, s[n + 1])
    BY <1>1, <1>2, <1>4, <2>1, SoundAdds DEF Judged
  <2>2. CASE Ends(acc, new, s[n + 1])
    BY <1>1, <1>2, <1>4, <2>2, SoundEnds DEF Judged
  <2>3. CASE Keeps(acc, new, s[n + 1])
    <3>1. new = acc
      BY <2>3 DEF Keeps
    <3> QED BY <1>1, <1>4, <2>3, <3>1, SoundKeeps DEF Judged
  <2> QED BY <1>2, <2>1, <2>2, <2>3
<1> QED BY <1>2, <1>3, <1>4 DEF Judged, new

LEMMA JudgedInitially ==
  ASSUME NEW s
  PROVE  NothingHeld \in Accs /\ Judged(s, NothingHeld, 0)
<1>1. NothingHeld.active = 0 /\ NothingHeld.intervals = <<>>
  BY DEF NothingHeld
<1>2. NothingHeld \in Accs
  BY DEF NothingHeld, Accs
<1>3. DOMAIN <<>> = {} /\ 1 .. 0 = {}
  OBVIOUS
<1> QED BY <1>1, <1>2, <1>3 DEF Judged, Sourced, Shown, Sound

LeaseRounds(f, s) ==
  [i \in 0 .. Len(s) |-> IF i = 0 THEN NothingHeld ELSE Locks!Round(f[i - 1], s[i])]
LeaseLoop(s) == CHOOSE f : f = LeaseRounds(f, s)

LEMMA LeaseLoopIsExact ==
  ASSUME NEW s \in Histories, lastEnd \in Nat
  PROVE  LeaseLoop(s) = LeaseRounds(LeaseLoop(s), s)
<1> DEFINE N == Len(s)
           step(i) == [acc \in Accs |-> Locks!Round(acc, s[i])]
           steps == [i \in 1 .. N |-> step(i)]
<1>1. N \in Nat /\ NothingHeld \in Accs
  BY EntryFacts, JudgedInitially
<1>2. \A i \in 1 .. N : s[i] \in Locks!Entries
  BY EntryFacts
<1>3. steps \in Steps(N, Accs)
  <2>1. \A i \in 1 .. N : step(i) \in [Accs -> Accs]
    BY <1>2, RoundFacts
  <2> HIDE DEF N, step
  <2> QED BY <2>1 DEF Steps
<1>4. PICK f : IsLoop(f, N, Accs, NothingHeld, steps)
  <2> HIDE DEF steps, N
  <2> QED BY <1>1, <1>3, LoopExists
<1>5. f = LeaseRounds(f, s)
  <2>1. \A i \in 1 .. N : f[i] = Locks!Round(f[i - 1], s[i])
    <3>1. \A i \in 1 .. N : f[i - 1] \in Accs /\ f[i] = steps[i][f[i - 1]]
      <4> HIDE DEF steps, N
      <4> QED BY <1>1, <1>4 DEF IsLoop
    <3>2. \A i \in 1 .. N, acc \in Accs : steps[i][acc] = Locks!Round(acc, s[i])
      BY Zenon
    <3> HIDE DEF steps, N
    <3> QED BY <3>1, <3>2
  <2>2. f = [i \in 0 .. N |-> f[i]] /\ f[0] = NothingHeld
    BY <1>4 DEF IsLoop
  <2>3. \A i \in 0 .. N : i = 0 \/ i \in 1 .. N
    BY <1>1
  <2>4. \A i \in 0 .. N : f[i] = IF i = 0 THEN NothingHeld ELSE Locks!Round(f[i - 1], s[i])
    <3> HIDE DEF N, steps
    <3> QED BY <2>1, <2>2, <2>3
  <2> QED BY <2>2, <2>4, Zenon DEF LeaseRounds
<1> QED BY <1>5 DEF LeaseLoop

(* The intervals of a client are those of the last round.                  *)
LEMMA IntervalsAreJudged ==
  ASSUME NEW c \in Clients, history[c] \in Histories, Orderly(history[c])
  PROVE  \E acc : /\ Judged(history[c], acc, Len(history[c]))
                  /\ Locks!Intervals(c) = acc.intervals
<1> DEFINE s == history[c]
           N == Len(s)
           f == LeaseLoop(s)
           P == {n \in Nat : n <= N => Judged(s, f[n], n)}
<1>1. N \in Nat /\ DOMAIN s = 1 .. N /\ lastEnd \in Nat /\ s \in Histories /\ Orderly(s)
  BY EntryFacts DEF Orderly
<1>2. f = LeaseRounds(f, s)
  BY <1>1, LeaseLoopIsExact
<1>3. Locks!Intervals(c) = f[N].intervals
  BY DEF Locks!Intervals, LeaseLoop, LeaseRounds, NothingHeld
<1> HIDE DEF f, s
<1>4. f[0] = NothingHeld /\ \A i \in 1 .. N : f[i] = Locks!Round(f[i - 1], s[i])
  <2>1. \A i \in 0 .. N : f[i] = IF i = 0 THEN NothingHeld ELSE Locks!Round(f[i - 1], s[i])
    BY <1>2, Zenon DEF LeaseRounds
  <2>2. 0 \in 0 .. N /\ \A i \in 1 .. N : i \in 0 .. N /\ i # 0
    BY <1>1
  <2> HIDE DEF N
  <2> QED BY <2>1, <2>2
<1> HIDE DEF N
<1>5. 0 \in P
  BY <1>4, JudgedInitially
<1>6. ASSUME NEW n \in P PROVE n + 1 \in P
  <2> SUFFICES ASSUME n + 1 <= N PROVE Judged(s, f[n + 1], n + 1)
    OBVIOUS
  <2>1. Judged(s, f[n], n) /\ n + 1 \in DOMAIN s /\ f[n + 1] = Locks!Round(f[n], s[n + 1])
    <3>1. n + 1 \in 1 .. N /\ (n + 1) - 1 = n /\ n <= N
      BY <1>1
    <3> QED BY <1>1, <1>4, <3>1
  <2> QED BY <1>1, <2>1, JudgedStep
<1>7. P = Nat
  <2>1. P \in SUBSET Nat
    OBVIOUS
  <2> HIDE DEF P
  <2> QED BY <1>5, <1>6, <2>1, SetInduction
<1>8. Judged(s, f[N], N)
  BY <1>1, <1>7
<1> QED BY <1>3, <1>8 DEF s, N

(* The history that the checker sees.                                      *)
LEMMA HistoriesAreOrderly ==
  ASSUME LocksInv, WorkloadAssumption, NEW c \in Clients
  PROVE  history[c] \in Histories /\ Orderly(history[c])
BY LockTypes DEF LocksInv, Clocks, Orderly

(* What ends before another begins does not overlap with it.               *)
LEMMA Disjoint ==
  ASSUME NEW x \in Spans, NEW y \in Spans, x.end <= y.start, x.reason # "history_end"
  PROVE  ~Locks!Overlap(x, y) /\ ~Locks!Overlap(y, x)
<1>1. /\ x.start \in Nat /\ x.end \in Nat /\ y.start \in Nat /\ y.end \in Nat
  BY DEF Spans
<1> QED BY <1>1 DEF Locks!Overlap

LEMMA GrantsAreDisjoint ==
  ASSUME NEW s \in Histories, NEW r \in Histories, Orderly(s), Orderly(r), Successive(s, r),
         NEW x \in Spans, NEW y \in Spans,
         NEW a \in DOMAIN s, NEW b \in DOMAIN r,
         Proven(s, Len(s), x, a), Proven(r, Len(r), y, b), s[a].token < r[b].token
  PROVE  x.end <= y.start /\ x.reason # "history_end"
<1> DEFINE deadline == s[a].start + s[a].life
<1>1. /\ x.end \in Nat /\ deadline \in Nat /\ r[b].end \in Nat /\ lastEnd \in Nat
      /\ r[b].end <= lastEnd /\ a \in Nat
  <2>1. s[a].start \in Nat /\ s[a].life \in Nat /\ r[b].end \in Nat /\ a \in Nat
    BY EntryFacts
  <2>2. x.end \in Nat
    BY DEF Spans
  <2>3. lastEnd \in Nat /\ r[b].end <= lastEnd
    BY DEF Orderly
  <2> QED BY <2>1, <2>2, <2>3
<1>2. /\ x.end <= deadline /\ (x.reason = "history_end" => lastEnd < deadline)
      /\ y.start = r[b].end
  BY DEF Proven
<1>3. Gone(s, a, r[b].end)
  BY DEF Successive, Proven, IsGrant
<1>4. CASE deadline <= r[b].end
  <2> HIDE DEF deadline
  <2> QED BY <1>1, <1>2, <1>4
<1>5. CASE \E k \in DOMAIN s : a < k /\ ~IsLock(s[k]) /\ s[k].start <= r[b].end
  <2>1. PICK k \in DOMAIN s : a < k /\ ~IsLock(s[k]) /\ s[k].start <= r[b].end
    BY <1>5
  <2>2. k \in a + 1 .. Len(s) /\ s[k].start \in Nat
    BY <2>1, EntryFacts
  <2> QED BY <1>1, <1>2, <2>1, <2>2 DEF Proven
<1> QED BY <1>3, <1>4, <1>5 DEF Gone

(* An exclusive service is not reported.                                   *)
LEMMA ExclusiveLocksPass ==
  ASSUME LocksInv, WorkloadAssumption
  PROVE  Locks!NoFalseReport
<1> SUFFICES ASSUME service.exclusive, Locks!Ended, silent = {},
                    NEW c \in Clients, NEW d \in Clients, c # d,
                    NEW x \in Locks!ToSet(Locks!Intervals(c)),
                    NEW y \in Locks!ToSet(Locks!Intervals(d))
             PROVE  ~Locks!Overlap(x, y)
  BY DEF Locks!NoFalseReport, Locks!Reported
<1> DEFINE s == history[c]
           r == history[d]
<1>1. s \in Histories /\ Orderly(s) /\ r \in Histories /\ Orderly(r)
  BY HistoriesAreOrderly
<1>2. /\ InOrder(s) /\ Successive(s, s) /\ Successive(s, r)
      /\ InOrder(r) /\ Successive(r, r) /\ Successive(r, s)
      /\ \A i \in DOMAIN s, j \in DOMAIN r :
           IsLock(s[i]) /\ IsLock(r[j]) => s[i].token # r[j].token
  <2>1. Told(c) = s /\ Told(d) = r
    BY DEF Locks!Ended, Told
  <2>2. told[c] = s /\ told[d] = r
    BY <2>1 DEF told
  <2>3. Exclusive(told, now, leases, tokens)
    BY DEF LocksInv
  <2> HIDE DEF s, r
  <2> QED BY <2>2, <2>3 DEF Exclusive
<1>3. x \in Spans /\ \E a \in DOMAIN s : Proven(s, Len(s), x, a)
  <2>1. PICK acc : Judged(s, acc, Len(s)) /\ Locks!Intervals(c) = acc.intervals
    BY <1>1, IntervalsAreJudged
  <2>2. PICK m \in DOMAIN acc.intervals : x = acc.intervals[m]
    BY <2>1 DEF Locks!ToSet
  <2>3. acc \in Accs /\ Sound(s, acc, Len(s))
    BY <1>2, <2>1 DEF Judged
  <2>4. x \in Spans
    BY <2>2, <2>3, ElementOfSeq, LenProperties DEF Accs
  <2>5. DOMAIN s = 1 .. Len(s)
    BY <1>1, EntryFacts
  <2> HIDE DEF s
  <2> QED BY <2>2, <2>3, <2>4, <2>5 DEF Sound
<1>4. y \in Spans /\ \E b \in DOMAIN r : Proven(r, Len(r), y, b)
  <2>1. PICK acc : Judged(r, acc, Len(r)) /\ Locks!Intervals(d) = acc.intervals
    BY <1>1, IntervalsAreJudged
  <2>2. PICK m \in DOMAIN acc.intervals : y = acc.intervals[m]
    BY <2>1 DEF Locks!ToSet
  <2>3. acc \in Accs /\ Sound(r, acc, Len(r))
    BY <1>2, <2>1 DEF Judged
  <2>4. y \in Spans
    BY <2>2, <2>3, ElementOfSeq, LenProperties DEF Accs
  <2>5. DOMAIN r = 1 .. Len(r)
    BY <1>1, EntryFacts
  <2> HIDE DEF r
  <2> QED BY <2>2, <2>3, <2>4, <2>5 DEF Sound
<1> HIDE DEF s, r
<1>5. PICK a \in DOMAIN s : Proven(s, Len(s), x, a)
  BY <1>3
<1>6. PICK b \in DOMAIN r : Proven(r, Len(r), y, b)
  BY <1>4
<1>7. s[a].token < r[b].token \/ r[b].token < s[a].token
  <2>1. s[a].token \in Nat /\ r[b].token \in Nat
    BY <1>1, EntryFacts
  <2> QED BY <1>2, <1>5, <1>6, <2>1 DEF Proven, IsGrant
<1> QED BY <1>1, <1>2, <1>3, <1>4, <1>5, <1>6, <1>7, GrantsAreDisjoint, Disjoint

(* A client that the history shows to own the lease has an interval.       *)
LEMMA OwnersAreShown ==
  ASSUME LocksInv, WorkloadAssumption, NEW c \in Clients, NEW time \in Nat, OwnedAfter(c, time)
  PROVE  \E x \in Locks!ToSet(Locks!Intervals(c)) :
           /\ x \in Spans /\ x.start <= time /\ x.start <= lastEnd /\ x.end <= lastEnd
           /\ x.reason = "history_end" => x.end = lastEnd
           /\ time < x.end \/ (x.reason = "history_end" /\ lastEnd <= time)
<1> DEFINE s == history[c]
<1>1. s \in Histories /\ Orderly(s)
  BY HistoriesAreOrderly
<1>2. PICK a \in DOMAIN s :
        /\ IsGrant(s, a) /\ s[a].end <= time /\ time < s[a].start + s[a].life
        /\ \A k \in DOMAIN s : a < k /\ ~IsLock(s[k]) => time < s[k].start
  BY DEF OwnedAfter
<1>3. PICK acc : Judged(s, acc, Len(s)) /\ Locks!Intervals(c) = acc.intervals
  BY <1>1, IntervalsAreJudged
<1> HIDE DEF s
<1>4. PICK m \in DOMAIN acc.intervals : Shows(acc.intervals[m], s[a], time)
  <2>1. DOMAIN s = 1 .. Len(s) /\ Len(s) \in Nat
    BY <1>1, EntryFacts
  <2>2. a \in 1 .. Len(s) /\ \A k \in a + 1 .. Len(s) : k \in DOMAIN s /\ a < k
    BY <2>1
  <2> QED BY <1>2, <1>3, <2>2 DEF Judged, Shown
<1> DEFINE x == acc.intervals[m]
<1>5. x \in Locks!ToSet(Locks!Intervals(c))
  BY <1>3 DEF Locks!ToSet
<1>6. x \in Spans
  BY <1>3, ElementOfSeq, LenProperties DEF Judged, Accs
<1>7. x.end <= lastEnd /\ (x.reason = "history_end" => x.end = lastEnd)
  BY <1>3 DEF Judged, Sourced
<1>8. s[a].end <= lastEnd
  BY <1>1 DEF Orderly
<1> HIDE DEF x
<1>9. Shows(x, s[a], time)
  BY <1>4 DEF x
<1> QED BY <1>2, <1>5, <1>6, <1>7, <1>8, <1>9 DEF Shows

LEMMA SharingIsReported ==
  ASSUME LocksInv, WorkloadAssumption
  PROVE  Locks!SharedLeaseIsReported
<1> SUFFICES ASSUME shared PROVE Locks!Reported
  BY DEF Locks!SharedLeaseIsReported
<1>1. now \in Nat /\ lastEnd \in Nat
  BY LockTypes DEF LocksInv
<1>2. PICK c \in Clients, d \in Clients, time \in 0 .. now - 1 :
        c # d /\ OwnedAfter(c, time) /\ OwnedAfter(d, time)
  BY DEF LocksInv, Sharing
<1>3. time \in Nat
  BY <1>1
<1>4. PICK x \in Locks!ToSet(Locks!Intervals(c)) :
        /\ x \in Spans /\ x.start <= time /\ x.start <= lastEnd /\ x.end <= lastEnd
        /\ x.reason = "history_end" => x.end = lastEnd
        /\ time < x.end \/ (x.reason = "history_end" /\ lastEnd <= time)
  BY <1>2, <1>3, OwnersAreShown
<1>5. PICK y \in Locks!ToSet(Locks!Intervals(d)) :
        /\ y \in Spans /\ y.start <= time /\ y.start <= lastEnd /\ y.end <= lastEnd
        /\ y.reason = "history_end" => y.end = lastEnd
        /\ time < y.end \/ (y.reason = "history_end" /\ lastEnd <= time)
  BY <1>2, <1>3, OwnersAreShown
<1>6. Locks!Overlap(x, y)
  <2>1. /\ x.start \in Nat /\ x.end \in Nat /\ y.start \in Nat /\ y.end \in Nat
    BY <1>4, <1>5 DEF Spans
  <2>2. \/ time < x.end /\ time < y.end
        \/ /\ x.reason = "history_end" /\ y.reason = "history_end"
           /\ x.end = lastEnd /\ y.end = lastEnd
    BY <1>1, <1>3, <1>4, <1>5, <2>1
  <2> QED BY <1>1, <1>3, <1>4, <1>5, <2>1, <2>2 DEF Locks!Overlap
<1> QED BY <1>2, <1>4, <1>5, <1>6 DEF Locks!Reported

----------------------------------------------------------------------------
(* The lock checker is right, and the types of all targets                 *)

LEMMA LocksInvariance == OraclesSpec => [](JudgesLocks => LocksInv)
<1>1. OraclesInit => (JudgesLocks => LocksInv)
  BY LocksInitially, WorkloadAssumption DEF OraclesInit, JudgesLocks
<1>2. ASSUME JudgesLocks => LocksInv,
             [OraclesNext]_<<checker, vars, workloadVars, storeVars, lockVars>>
      PROVE  (JudgesLocks => LocksInv)'
  <2>1. checker' = checker
    BY <1>2 DEF OraclesNext, WatchLeaders, WatchReads, WatchLocks
  <2>2. JudgesLocks => Locks!Next \/ UNCHANGED <<workloadVars, lockVars>>
    BY <1>2 DEF OraclesNext, WatchLeaders, WatchReads, WatchLocks, JudgesLocks
  <2> QED BY <1>2, <2>1, <2>2, LocksStep, WorkloadAssumption DEF JudgesLocks
<1> QED BY <1>1, <1>2, PTL DEF OraclesSpec

(* An exclusive service that did nothing the history does not show is not  *)
(* reported, whatever is delayed, refused, repeated or expires.            *)
THEOREM ExclusiveLocksAreNotReported == OraclesSpec => []LocksNoFalseReport
<1>1. (JudgesLocks => LocksInv) => LocksNoFalseReport
  BY ExclusiveLocksPass, WorkloadAssumption DEF LocksNoFalseReport
<1> QED BY <1>1, LocksInvariance, PTL

(* Two clients that owned the lease at the same time for sure are          *)
(* reported, whatever the service, its replies and later operations.       *)
THEOREM SharedLeasesAreReported == OraclesSpec => []SharedLeaseIsReported
<1>1. (JudgesLocks => LocksInv) => SharedLeaseIsReported
  BY SharingIsReported, WorkloadAssumption DEF SharedLeaseIsReported
<1> QED BY <1>1, LocksInvariance, PTL

(* The variables of the cluster and the monitor, and those of the target   *)
(* that the run's checker judges, keep their types.                        *)
THEOREM OraclesTypeCorrect ==
  OraclesSpec =>
    []/\ TypeOK
      /\ JudgesReads => Reads!TypeOK
      /\ JudgesLocks => Locks!TypeOK
<1>1. LeadersInv /\ (JudgesReads => ReadsInv) /\ (JudgesLocks => LocksInv) =>
        /\ TypeOK
        /\ JudgesReads => Reads!TypeOK
        /\ JudgesLocks => Locks!TypeOK
  BY DEF LeadersInv, ReadsInv, LocksInv
<1> QED BY <1>1, LeadersInvariance, ReadsInvariance, LocksInvariance, PTL

=============================================================================
