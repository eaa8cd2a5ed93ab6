--------------------------- MODULE Commands_proofs --------------------------
(***************************************************************************)
(* What the run "commands" checks of small campaigns, minimizations and    *)
(* matrices, for those of every size: each command by itself, and in the   *)
(* end all of them as the one process that Commands describes.             *)
(***************************************************************************)
EXTENDS Commands, SequenceTheorems, FiniteSetTheorems, TLAPS

-----------------------------------------------------------------------------
(***************************************************************************)
(* Matrices of every size, wherever their processes die and however often  *)
(* they start again.                                                       *)
(***************************************************************************)
USE HalfAssumption

Reasons == {"", "CRASHED", "TIMED_OUT", "STORAGE_LIMIT", "INTERRUPTED"}
Statuses ==
  {"NOT_RUN", "RUNNING", "PASSED", "FAILED", "NO_COVERAGE", "PORTS_BUSY", "PROVENANCE_CHANGED",
   "CRASHED", "TIMED_OUT", "STORAGE_LIMIT", "INTERRUPTED"}

Filled(s, n) ==
  s \in [status : Statuses, ended : BOOLEAN, attempts : [1 .. n -> Statuses]]
Over(status) == status \notin {"NOT_RUN", "RUNNING"}

(* Where Run is, or goes when its checkpoint is done.                      *)
Place == IF at \in {"checkpoint", "rename"} THEN after ELSE at

Before == {"copy", "next", "verdict"}
During == {"prepare", "execute", "record", "judge"}
Ending == {"answer", "returned"}

Types ==
  /\ options \in Options
  /\ reason \in Reasons
  /\ onDisk = NoSummary \/ (Valid(options) /\ Filled(onDisk, Size(options)))
  /\ 0 \notin made => onDisk = NoSummary
  /\ onDisk = NoSummary => executed = {}
  /\ at = "start" => attempt = 0
  /\ at # "returned" => answer # "ok"

(* The summary in memory goes with the place where Run is.                 *)
Memory ==
  Running =>
    /\ 0 \in made /\ Valid(options) /\ Filled(summary, Size(options))
    /\ Place \in Before \union During \union Ending
    /\ attempt \in 0 .. Size(options)
    /\ Place = "copy" => attempt = 0
    /\ Place \in During => attempt > 0
    /\ Place \in {"prepare", "execute"} => summary.attempts[attempt] = "RUNNING"
    /\ Place \in Ending <=> summary.ended
    /\ ~summary.ended => summary.status = "RUNNING"
    /\ \A i \in 1 .. Size(options) : i > attempt => summary.attempts[i] = "NOT_RUN"

(* The summary on disk is that in memory, or an earlier one.               *)
Disk ==
  /\ at = "rename" => written = summary
  /\ at \in {"prepare", "execute", "answer"} => onDisk = summary
  /\ Running /\ onDisk.ended => at = "answer"
  /\ Running => \A i \in DOMAIN onDisk.attempts :
                  Over(onDisk.attempts[i]) => summary.attempts[i] = onDisk.attempts[i]
  /\ \A i \in executed :
       /\ i \in DOMAIN onDisk.attempts /\ onDisk.attempts[i] # "NOT_RUN"
       /\ Running => summary.attempts[i] # "NOT_RUN"

(* What is said to have passed has.                                        *)
Passes ==
  /\ Running => \A i \in 1 .. Size(options) :
                  summary.attempts[i] = "PASSED" =>
                    /\ i \in sound
                    /\ i \in sealed \/ summary.status = "CRASHED" \/ (at = "record" /\ i = attempt)
  /\ \A i \in DOMAIN onDisk.attempts :
       onDisk.attempts[i] = "PASSED" => i \in sound /\ (i \in sealed \/ onDisk.status = "CRASHED")
  /\ Running /\ summary.status = "PASSED" =>
       \A i \in 1 .. Size(options) : summary.attempts[i] = "PASSED"
  /\ onDisk.status = "PASSED" =>
       \A i \in 1 .. Size(options) : onDisk.attempts[i] = "PASSED"
  /\ Running /\ allPassed =>
       /\ Place \in {"copy", "next"} => \A i \in 1 .. attempt : summary.attempts[i] = "PASSED"
       /\ Place \in During => \A i \in 1 .. attempt - 1 : summary.attempts[i] = "PASSED"
       /\ Place # "verdict"
       /\ Place = "answer" => summary.status = "PASSED"
  /\ answer = "ok" => onDisk.status = "PASSED"

HardeningInv == Types /\ Memory /\ Disk /\ Passes

-----------------------------------------------------------------------------
(* The size of a matrix.                                                   *)

LEMMA Quotient ==
  ASSUME NEW a \in Nat, NEW b \in Nat \ {0}
  PROVE  a \div b \in Nat /\ b * (a \div b) <= a
OBVIOUS

LEMMA SmallRemainder ==
  ASSUME NEW m \in Nat \ {0}, NEW x \in 0 .. m - 1
  PROVE  x % m = x
<1>1. x = m * (x \div m) + (x % m) /\ x % m \in 0 .. m - 1 /\ x \div m \in Int
  OBVIOUS
<1> QED BY <1>1

LEMMA Monotone ==
  ASSUME NEW k \in Nat, NEW x \in Nat, NEW y \in Nat, x <= y
  PROVE  k * x <= k * y
OBVIOUS

(* The parameters of a valid matrix, and that it is not too large.         *)
LEMMA SizeIsBounded ==
  ASSUME NEW o \in Options, Valid(o)
  PROVE  /\ o.repetitions \in Nat \ {0} /\ Len(o.profiles) \in Nat \ {0}
         /\ o.from \in Int /\ o.to \in Int
         /\ SeedCount(o) \in Nat \ {0} /\ Size(o) \in Nat /\ Size(o) <= MaxRuns
<1> DEFINE R == o.repetitions
           P == Len(o.profiles)
           S == SeedCount(o)
           Q == MaxRuns \div R
<1>1. /\ R \in Nat \ {0} /\ MaxRuns \in Nat \ {0}
      /\ o.profiles \in Seq(STRING) /\ o.profiles # <<>>
      /\ o.from \in Seeds /\ o.to \in Seeds
  BY HardeningAssumption
<1>2. P \in Nat \ {0}
  BY <1>1
<1>3. o.from <= o.to /\ o.to - o.from \in 0 .. 2 * Half - 1 /\ 2 * Half \in Nat \ {0}
  BY <1>1 DEF Valid, Seeds
<1>4. Unsigned(o.to - o.from) = o.to - o.from
  BY <1>3, SmallRemainder DEF Unsigned
<1>5. S \in Nat \ {0} /\ S <= Q \div P
  <2>1. S = o.to - o.from + 1
    BY DEF SeedCount
  <2>2. Unsigned(o.to - o.from) + 1 <= Q \div P
    BY DEF Valid
  <2>3. S = Unsigned(o.to - o.from) + 1
    BY <1>4, <2>1
  <2> QED BY <1>3, <2>1, <2>2, <2>3
<1>6. Q \in Nat /\ R * Q <= MaxRuns
  BY <1>1, Quotient
<1>7. Q \div P \in Nat /\ P * (Q \div P) <= Q
  BY <1>2, <1>6, Quotient
<1>8. P * S <= P * (Q \div P)
  BY <1>2, <1>5, <1>7, Monotone
<1>9. P * S \in Nat /\ P * S <= Q
  <2>1. P * S \in Nat /\ P * (Q \div P) \in Nat
    BY <1>2, <1>5, <1>7
  <2> QED BY <1>6, <1>7, <1>8, <2>1
<1>10. R * (P * S) <= R * Q
  BY <1>1, <1>6, <1>9, Monotone
<1>11. R * (P * S) \in Nat /\ R * Q \in Nat /\ R * (P * S) = R * P * S
  BY <1>1, <1>2, <1>5, <1>6, <1>9
<1>12. R * (P * S) <= MaxRuns
  BY <1>1, <1>6, <1>10, <1>11
<1> QED BY <1>1, <1>2, <1>5, <1>11, <1>12 DEF Size, Seeds

(* Every cell is an attempt.                                               *)
LEMMA DivisionIsUnique ==
  ASSUME NEW m \in Nat \ {0}, NEW d \in Nat, NEW q \in Nat,
         NEW x \in 0 .. m - 1, NEW y \in 0 .. m - 1, m * d + x = m * q + y
  PROVE  d = q /\ x = y
<1>1. m * d \in Nat /\ m * q \in Nat
  OBVIOUS
<1>2. ASSUME NEW a \in Nat, NEW b \in Nat, a < b PROVE m * a + m <= m * b
  <2>1. m * (a + 1) <= m * b
    BY <1>2, Monotone
  <2>2. m * (a + 1) = m * a + m
    OBVIOUS
  <2> QED BY <2>1, <2>2
<1>3. ~(d < q) /\ ~(q < d)
  <2>1. d < q => m * d + m <= m * q
    BY <1>2
  <2>2. q < d => m * q + m <= m * d
    BY <1>2
  <2> QED BY <1>1, <2>1, <2>2
<1>4. d = q
  BY <1>3
<1> QED BY <1>1, <1>4

LEMMA Division ==
  ASSUME NEW m \in Nat \ {0}, NEW q \in Nat, NEW y \in 0 .. m - 1,
         NEW n \in Nat, n = m * q + y
  PROVE  n \div m = q /\ n % m = y
<1>1. n = m * (n \div m) + (n % m) /\ n % m \in 0 .. m - 1 /\ n \div m \in Nat
  OBVIOUS
<1> QED BY <1>1, DivisionIsUnique

LEMMA EveryCellIsAnAttempt ==
  ASSUME NEW o \in Options, Valid(o),
         NEW r \in 1 .. o.repetitions, NEW j \in DOMAIN o.profiles, NEW s \in o.from .. o.to
  PROVE  \E i \in 1 .. Size(o) :
           Cell(o, i) = [repetition |-> r, profile |-> o.profiles[j], seed |-> s]
<1>1. /\ o.repetitions \in Nat \ {0} /\ Len(o.profiles) \in Nat \ {0}
      /\ SeedCount(o) \in Nat \ {0} /\ Size(o) \in Nat
      /\ o.from \in Int /\ o.to \in Int
  BY SizeIsBounded
<1>2. o.profiles \in Seq(STRING)
  BY HardeningAssumption
<1>3. j \in 1 .. Len(o.profiles)
  BY <1>2
<1>4. /\ r - 1 \in 0 .. o.repetitions - 1 /\ j - 1 \in 0 .. Len(o.profiles) - 1
      /\ s - o.from \in 0 .. SeedCount(o) - 1
  <2>1. r - 1 \in 0 .. o.repetitions - 1
    BY <1>1
  <2>2. j - 1 \in 0 .. Len(o.profiles) - 1
    BY <1>1, <1>3
  <2>3. s - o.from \in 0 .. SeedCount(o) - 1
    BY <1>1 DEF SeedCount
  <2> QED BY <2>1, <2>2, <2>3
<1>5. PICK R \in Nat \ {0}, P \in Nat \ {0}, S \in Nat \ {0} :
        R = o.repetitions /\ P = Len(o.profiles) /\ S = SeedCount(o)
  BY <1>1
<1>6. PICK a \in 0 .. R - 1, b \in 0 .. P - 1, c \in 0 .. S - 1 :
        a + 1 = r /\ b + 1 = j /\ o.from + c = s
  <2>1. r - 1 \in 0 .. R - 1 /\ j - 1 \in 0 .. P - 1 /\ s - o.from \in 0 .. S - 1
    BY <1>4, <1>5
  <2>2. (r - 1) + 1 = r /\ (j - 1) + 1 = j /\ o.from + (s - o.from) = s
    BY <1>1, <1>3
  <2> QED BY <2>1, <2>2
<1>7. PICK block \in Nat \ {0} : block = P * S
  <2>1. P * S \in Nat \ {0}
    OBVIOUS
  <2> QED BY <2>1
<1>8. PICK y \in Nat : y = S * b + c
  OBVIOUS
<1>9. PICK row \in Nat : row = P * a + b
  OBVIOUS
<1>10. PICK n \in Nat : n = block * a + y
  OBVIOUS
<1>11. y \in 0 .. block - 1
  <2>1. S * b <= S * (P - 1) /\ S * (P - 1) = block - S /\ S * b \in Nat
    BY <1>7, Monotone
  <2> QED BY <1>8, <2>1
<1>12. n \in 0 .. R * P * S - 1
  <2>1. block * a <= block * (R - 1) /\ block * a \in Nat
    BY Monotone
  <2>2. block * (R - 1) = R * P * S - block
    BY <1>7
  <2> QED BY <1>7, <1>10, <1>11, <2>1, <2>2
<1>13. n \div block = a
  BY <1>10, <1>11, Division
<1>14. n = S * row + c
  <2>1. block * a = S * (P * a)
    BY <1>7
  <2>2. S * row = S * (P * a) + S * b
    BY <1>9
  <2> QED BY <1>8, <1>10, <2>1, <2>2
<1>15. n \div S = row /\ n % S = c
  BY <1>14, Division
<1>16. row % P = b
  BY <1>9, Division
<1>17. Size(o) = R * P * S /\ n + 1 \in 1 .. Size(o) /\ (n + 1) - 1 = n
  BY <1>1, <1>5, <1>12 DEF Size
<1>18. Cell(o, n + 1) = [repetition |-> (n \div block) + 1,
                        profile |-> o.profiles[((n \div S) % P) + 1],
                        seed |-> o.from + (n % S)]
  BY <1>5, <1>7, <1>17 DEF Cell
<1> QED BY <1>6, <1>13, <1>15, <1>16, <1>17, <1>18

-----------------------------------------------------------------------------
(* The two ways a summary in memory changes.                               *)

LEMMA Changed ==
  ASSUME NEW n \in Nat, NEW s, NEW i \in 1 .. n, NEW status \in Statuses, Filled(s, n)
  PROVE  LET t == [s EXCEPT !.attempts[i] = status] IN
         /\ Filled(t, n) /\ t.status = s.status /\ t.ended = s.ended
         /\ t.attempts[i] = status
         /\ \A k \in 1 .. n : k # i => t.attempts[k] = s.attempts[k]
BY DEF Filled

LEMMA Ended ==
  ASSUME NEW n \in Nat, NEW s, NEW status \in Statuses, Filled(s, n)
  PROVE  LET t == [s EXCEPT !.status = status, !.ended = TRUE] IN
         Filled(t, n) /\ t.status = status /\ t.ended = TRUE /\ t.attempts = s.attempts
BY DEF Filled

LEMMA Domains ==
  ASSUME NEW n \in Nat, NEW s, Filled(s, n)
  PROVE  DOMAIN s.attempts = 1 .. n
BY DEF Filled

LEMMA NothingYet == DOMAIN NoSummary.attempts = {}
<1>1. <<>> \in Seq(STRING) /\ Len(<<>>) = 0
  BY EmptySeq
<1>2. DOMAIN <<>> = {}
  BY <1>1
<1> QED BY <1>2 DEF NoSummary

LEMMA HardeningInitially == HardeningInit => HardeningInv
<1> SUFFICES ASSUME HardeningInit PROVE HardeningInv
  OBVIOUS
<1>1. /\ options \in Options /\ at = "start" /\ attempt = 0 /\ answer = "none" /\ reason = ""
      /\ onDisk = NoSummary /\ executed = {} /\ ~Running
  BY DEF HardeningInit, ExecutionInit, Running
<1>2. onDisk.status = "none" /\ onDisk.ended = FALSE /\ DOMAIN onDisk.attempts = {}
  BY <1>1, NothingYet DEF NoSummary
<1>3. Types
  BY <1>1 DEF Types, Reasons
<1> QED BY <1>1, <1>2, <1>3 DEF HardeningInv, Memory, Disk, Passes

(* Whatever Run was doing, if it was not over.                             *)
LEMMA FailPreserves ==
  ASSUME HardeningInv, Running, at # "answer", Fail,
         UNCHANGED <<options, onDisk, made, sealed, executed, sound, reason>>,
         \/ attempt' = attempt
         \/ attempt' = attempt + 1 /\ attempt < Size(options)
  PROVE  HardeningInv'
<1> USE DEF HardeningInv
<1>1. /\ 0 \in made /\ Valid(options) /\ options \in Options /\ Filled(summary, Size(options))
      /\ attempt \in 0 .. Size(options) /\ attempt' \in 0 .. Size(options) /\ Size(options) \in Nat
      /\ \A i \in 1 .. Size(options) : i > attempt' => summary.attempts[i] = "NOT_RUN"
  <2>1. options \in Options /\ Valid(options)
    BY DEF Types, Memory
  <2>2. Size(options) \in Nat
    BY <2>1, SizeIsBounded
  <2> QED BY <2>1, <2>2 DEF Memory
<1>2. Types'
  BY DEF Types, Fail
<1>3. CASE summary.ended
  <2>1. at' = "returned" /\ answer' = "error"
    BY <1>3 DEF Fail
  <2> QED BY <1>2, <2>1 DEF Memory, Disk, Passes, Running
<1>4. CASE ~summary.ended
  <2>1. /\ at' = "checkpoint" /\ after' = "returned" /\ answer' = "error"
        /\ Filled(summary', Size(options)) /\ summary'.status = "CRASHED" /\ summary'.ended
        /\ summary'.attempts = summary.attempts
    <3>1. /\ at' = "checkpoint" /\ after' = "returned" /\ answer' = "error"
          /\ summary' = [summary EXCEPT !.status = "CRASHED", !.ended = TRUE]
      BY <1>4 DEF Fail
    <3>2. "CRASHED" \in Statuses
      BY DEF Statuses
    <3>3. Filled([summary EXCEPT !.status = "CRASHED", !.ended = TRUE], Size(options))
      BY <1>1, <3>2, Ended
    <3> QED BY <1>1, <3>1, <3>2, <3>3 DEF Filled
  <2>2. Place' = "returned" /\ Running'
    BY <2>1 DEF Place, Running
  <2>3. Memory'
    BY <1>1, <2>1, <2>2 DEF Memory, Before, During, Ending
  <2>4. Disk'
    BY <2>1 DEF Disk
  <2>5. Passes'
    BY <2>1, <2>2 DEF Passes, During
  <2> QED BY <1>2, <2>3, <2>4, <2>5
<1> QED BY <1>3, <1>4

-----------------------------------------------------------------------------
(* One lemma for each step.                                                *)

LEMMA RunningFacts ==
  ASSUME HardeningInv, Running
  PROVE  /\ 0 \in made /\ options \in Options /\ Valid(options) /\ Size(options) \in Nat
         /\ Filled(summary, Size(options)) /\ attempt \in 0 .. Size(options)
         /\ onDisk = NoSummary \/ DOMAIN onDisk.attempts = 1 .. Size(options)
         /\ answer # "ok"
<1>1. options \in Options /\ Valid(options)
  BY DEF HardeningInv, Types, Memory
<1>2. Size(options) \in Nat
  BY <1>1, SizeIsBounded
<1>3. onDisk = NoSummary \/ DOMAIN onDisk.attempts = 1 .. Size(options)
  BY <1>2, Domains DEF HardeningInv, Types
<1> QED BY <1>1, <1>2, <1>3 DEF HardeningInv, Types, Memory, Running

LEMMA BeginPreserves ==
  ASSUME HardeningInv, Begin, UNCHANGED reason
  PROVE  HardeningInv'
<1> USE DEF HardeningInv
<1>1. /\ at = "start" /\ at' = "checkpoint" /\ after' = "copy" /\ 0 \notin made
      /\ made' = made \union {0} /\ Valid(options)
      /\ summary' = [status |-> "RUNNING", ended |-> FALSE,
                     attempts |-> [k \in 1 .. Size(options) |-> "NOT_RUN"]]
      /\ UNCHANGED <<options, answer, attempt, allPassed, onDisk, sealed, executed, sound>>
  BY DEF Begin, Checkpoint, auxVars
<1>2. /\ options \in Options /\ onDisk = NoSummary /\ executed = {} /\ attempt = 0
      /\ Size(options) \in Nat
  BY <1>1, SizeIsBounded DEF Types
<1>3. Types'
  BY <1>1, <1>2 DEF Types
<1>4. DOMAIN onDisk.attempts = {} /\ onDisk.ended = FALSE /\ onDisk.status = "none"
  BY <1>2, NothingYet DEF NoSummary
<1>5. Place' = "copy" /\ Running'
  BY <1>1 DEF Place, Running
<1>6. Filled(summary', Size(options))
  BY <1>1 DEF Filled, Statuses
<1>7. Memory'
  BY <1>1, <1>2, <1>5, <1>6 DEF Memory, Before, During, Ending
<1>8. Disk'
  BY <1>1, <1>2, <1>4 DEF Disk
<1>9. Passes'
  BY <1>1, <1>2, <1>4, <1>5 DEF Passes, Types, During
<1> QED BY <1>3, <1>7, <1>8, <1>9

LEMMA WriteNextPreserves ==
  ASSUME HardeningInv, WriteNext, UNCHANGED reason
  PROVE  HardeningInv'
<1>1. CASE Fail
  BY <1>1, FailPreserves DEF WriteNext, Running, auxVars
<1>2. CASE written' = summary /\ at' = "rename" /\ UNCHANGED <<after, answer, summary>>
  <2> USE DEF HardeningInv
  <2>1. /\ at = "checkpoint" /\ Place' = Place /\ Running /\ Running'
        /\ UNCHANGED <<options, attempt, allPassed, onDisk, made, sealed, executed, sound>>
    BY <1>2 DEF WriteNext, Place, Running, auxVars
  <2>2. Types'
    BY <1>2, <2>1 DEF Types
  <2>3. Memory'
    BY <1>2, <2>1 DEF Memory
  <2>4. Disk'
    BY <1>2, <2>1 DEF Disk
  <2>5. Passes'
    BY <1>2, <2>1 DEF Passes
  <2> QED BY <2>2, <2>3, <2>4, <2>5
<1> QED BY <1>1, <1>2 DEF WriteNext

(* The summary on disk is replaced by the one in memory.                   *)
LEMMA RenamePreserves ==
  ASSUME HardeningInv, Rename, UNCHANGED reason
  PROVE  HardeningInv'
<1>1. CASE UNCHANGED onDisk /\ Fail
  BY <1>1, FailPreserves DEF Rename, Running, auxVars
<1>2. CASE onDisk' = written /\ at' = after /\ UNCHANGED <<after, answer, summary>>
  <2> USE DEF HardeningInv
  <2>1. /\ at = "rename" /\ onDisk' = summary /\ summary' = summary /\ Running
        /\ Place = after /\ at' = Place /\ Place' = Place
        /\ UNCHANGED <<options, attempt, allPassed, made, sealed, executed, sound, answer>>
    <3>1. Place \notin {"checkpoint", "rename"}
      BY <1>2 DEF Rename, Memory, Running, Place, Before, During, Ending
    <3> QED BY <1>2, <3>1 DEF Rename, Disk, Running, Place, auxVars
  <2>2. /\ 0 \in made /\ Valid(options) /\ Filled(summary, Size(options))
        /\ DOMAIN summary.attempts = 1 .. Size(options)
        /\ answer # "ok" /\ ~(Place = "start")
    <3>1. Size(options) \in Nat /\ Filled(summary, Size(options))
      BY <2>1, RunningFacts
    <3>2. DOMAIN summary.attempts = 1 .. Size(options)
      BY <3>1, Domains
    <3> QED BY <2>1, <3>2, RunningFacts DEF Memory, Before, During, Ending
  <2>3. Types'
    <3>1. summary # NoSummary
      BY <2>2 DEF Filled, Statuses, NoSummary
    <3> QED BY <2>1, <2>2, <3>1 DEF Types
  <2>4. Memory'
    BY <2>1, <2>2 DEF Memory
  <2>5. Disk'
    <3>1. \A i \in executed : i \in 1 .. Size(options) /\ summary.attempts[i] # "NOT_RUN"
      BY <2>1, RunningFacts DEF Types, Disk
    <3>2. Running' /\ summary.ended => at' = "answer"
      BY <2>1 DEF Memory, Ending, Running
    <3>3. at' # "rename"
      BY <2>1 DEF Memory, Before, During, Ending
    <3> QED BY <2>1, <2>2, <3>1, <3>2, <3>3 DEF Disk
  <2>6. Passes'
    BY <2>1, <2>2 DEF Passes, Running
  <2> QED BY <2>3, <2>4, <2>5, <2>6
<1> QED BY <1>1, <1>2 DEF Rename

LEMMA CopyPreserves ==
  ASSUME HardeningInv, Copy, UNCHANGED reason
  PROVE  HardeningInv'
<1>1. CASE Fail
  BY <1>1, FailPreserves DEF Copy, Running, diskVars, auxVars
<1>2. CASE at' = "next" /\ UNCHANGED <<after, answer, summary>>
  <2> USE DEF HardeningInv
  <2>1. /\ at = "copy" /\ Place = "copy" /\ Place' = "next" /\ Running /\ Running'
        /\ UNCHANGED <<options, attempt, allPassed, onDisk, made, sealed, executed, sound, summary>>
    BY <1>2 DEF Copy, Place, Running, diskVars, auxVars
  <2>2. Types'
    BY <1>2, <2>1 DEF Types
  <2>3. Memory'
    BY <1>2, <2>1 DEF Memory, Before, During, Ending
  <2>4. Disk'
    BY <1>2, <2>1 DEF Disk
  <2>5. Passes'
    BY <1>2, <2>1 DEF Passes, During
  <2> QED BY <2>2, <2>3, <2>4, <2>5
<1> QED BY <1>1, <1>2 DEF Copy

LEMMA StopMatrixPreserves ==
  ASSUME HardeningInv, StopMatrix, UNCHANGED reason
  PROVE  HardeningInv'
<1> USE DEF HardeningInv
<1>1. /\ at = "next" /\ at' = "verdict" /\ Place = "next" /\ Place' = "verdict"
      /\ Running /\ Running' /\ allPassed' = FALSE
      /\ UNCHANGED <<options, attempt, onDisk, made, sealed, executed, sound, summary, answer>>
  BY DEF StopMatrix, Place, Running, diskVars, auxVars
<1>2. Types'
  BY <1>1 DEF Types
<1>3. Memory'
  BY <1>1 DEF Memory, Before, During, Ending
<1>4. Disk'
  BY <1>1 DEF Disk
<1>5. Passes'
  BY <1>1 DEF Passes
<1> QED BY <1>2, <1>3, <1>4, <1>5

LEMMA StartAttemptPreserves ==
  ASSUME HardeningInv, StartAttempt, UNCHANGED reason
  PROVE  HardeningInv'
<1>1. CASE Fail /\ UNCHANGED made
  BY <1>1, FailPreserves DEF StartAttempt, Running, auxVars
<1>2. CASE /\ attempt' \notin made /\ made' = made \union {attempt'}
           /\ summary' = [summary EXCEPT !.attempts[attempt'] = "RUNNING"]
           /\ Checkpoint("prepare") /\ UNCHANGED answer
  <2> USE DEF HardeningInv
  <2>1. /\ at = "next" /\ at' = "checkpoint" /\ after' = "prepare"
        /\ Place = "next" /\ Place' = "prepare" /\ Running /\ Running'
        /\ attempt < Size(options) /\ attempt' = attempt + 1 /\ 0 \in made'
        /\ UNCHANGED <<options, onDisk, allPassed, sealed, executed, sound, answer>>
    BY <1>2 DEF StartAttempt, Checkpoint, Place, Running, auxVars, Memory
  <2>2. /\ Size(options) \in Nat /\ Filled(summary, Size(options)) /\ attempt \in 0 .. Size(options)
        /\ Valid(options) /\ answer # "ok"
        /\ onDisk = NoSummary \/ DOMAIN onDisk.attempts = 1 .. Size(options)
    BY <2>1, RunningFacts
  <2>3. /\ attempt' \in 1 .. Size(options) /\ "RUNNING" \in Statuses
        /\ summary.attempts[attempt'] = "NOT_RUN"
    BY <2>1, <2>2 DEF Statuses, Memory
  <2>4. /\ Filled(summary', Size(options)) /\ summary'.status = summary.status
        /\ summary'.ended = summary.ended /\ summary'.attempts[attempt'] = "RUNNING"
        /\ \A k \in 1 .. Size(options) : k # attempt' => summary'.attempts[k] = summary.attempts[k]
    BY <1>2, <2>2, <2>3, Changed
  <2>5. summary.ended = FALSE /\ summary.status = "RUNNING"
    BY <2>1, <2>2 DEF Memory, Ending, Filled
  <2>6. Types'
    BY <2>1, <2>2 DEF Types
  <2>7. Memory'
    BY <2>1, <2>2, <2>3, <2>4, <2>5 DEF Memory, Before, During, Ending
  <2>8. Disk'
    <3>1. \A i \in executed : i \in 1 .. Size(options)
      BY <2>2 DEF Types, Disk
    <3>2. \A k \in DOMAIN onDisk.attempts :
            Over(onDisk.attempts[k]) => summary'.attempts[k] = onDisk.attempts[k]
      BY <2>1, <2>2, <2>3, <2>4, NothingYet DEF Disk, Over
    <3> QED BY <2>1, <2>2, <2>3, <2>4, <3>1, <3>2 DEF Disk
  <2>9. Passes'
    BY <2>1, <2>2, <2>3, <2>4, <2>5 DEF Passes, During
  <2> QED BY <2>6, <2>7, <2>8, <2>9
<1> QED BY <1>1, <1>2 DEF StartAttempt

(* An attempt under way is recorded as such, in memory and on disk, until  *)
(* its status is known.                                                    *)
LEMMA AttemptEnds ==
  ASSUME HardeningInv, at \in {"prepare", "execute"}, NEW status \in Statuses \ {"NOT_RUN"},
         summary' = WithStatus(status), at' = "record",
         status = "PASSED" => attempt \in sound',
         sound \subseteq sound', reason' \in Reasons,
         UNCHANGED <<options, attempt, onDisk, allPassed, made, sealed, executed, answer>>
  PROVE  HardeningInv'
<1> USE DEF HardeningInv
<1>1. Running /\ Running' /\ Place = at /\ Place' = "record"
  BY DEF Running, Place
<1>2. /\ Size(options) \in Nat /\ Filled(summary, Size(options)) /\ Valid(options)
      /\ 0 \in made /\ answer # "ok" /\ attempt \in 1 .. Size(options)
      /\ onDisk = NoSummary \/ DOMAIN onDisk.attempts = 1 .. Size(options)
  BY <1>1, RunningFacts DEF Memory, During
<1>3. /\ Filled(summary', Size(options)) /\ summary'.status = summary.status
      /\ summary'.ended = summary.ended /\ summary'.attempts[attempt] = status
      /\ \A k \in 1 .. Size(options) : k # attempt => summary'.attempts[k] = summary.attempts[k]
  BY <1>2, Changed DEF WithStatus
<1>4. summary.ended = FALSE /\ summary.status = "RUNNING" /\ onDisk = summary
  BY <1>1, <1>2 DEF Memory, Disk, Ending, Filled
<1>5. summary.attempts[attempt] = "RUNNING"
  BY <1>1 DEF Memory
<1>6. Types'
  BY <1>2 DEF Types
<1>7. Memory'
  BY <1>1, <1>2, <1>3, <1>4 DEF Memory, Before, During, Ending
<1>8. Disk'
  <2>1. \A i \in executed : i \in 1 .. Size(options)
    BY <1>2 DEF Types, Disk
  <2>2. \A k \in DOMAIN onDisk.attempts :
          Over(onDisk.attempts[k]) => summary'.attempts[k] = onDisk.attempts[k]
    BY <1>2, <1>3, <1>4, <1>5, NothingYet DEF Over
  <2> QED BY <1>1, <1>2, <1>3, <1>4, <2>1, <2>2 DEF Disk
<1>9. Passes'
  BY <1>1, <1>2, <1>3, <1>4 DEF Passes, During
<1> QED BY <1>6, <1>7, <1>8, <1>9

LEMMA PreparePreserves ==
  ASSUME HardeningInv, Prepare, UNCHANGED reason
  PROVE  HardeningInv'
<1> USE DEF HardeningInv
<1>1. /\ at = "prepare"
      /\ UNCHANGED <<options, answer, attempt, allPassed, onDisk, made, sealed, executed, sound>>
  BY DEF Prepare, diskVars, auxVars
<1>2. CASE at' = "execute" /\ UNCHANGED summary
  <2>1. Place = "prepare" /\ Place' = "execute" /\ Running /\ Running'
    BY <1>1, <1>2 DEF Place, Running
  <2>2. Types'
    BY <1>1, <1>2 DEF Types
  <2>3. Memory'
    BY <1>1, <1>2, <2>1 DEF Memory, Before, During, Ending
  <2>4. Disk'
    BY <1>1, <1>2, <2>1 DEF Disk
  <2>5. Passes'
    BY <1>1, <1>2, <2>1 DEF Passes, During
  <2> QED BY <2>2, <2>3, <2>4, <2>5
<1>3. CASE /\ at' = "record" /\ summary' \in {WithStatus("CRASHED"), WithStatus("PORTS_BUSY")}
  <2>1. PICK status \in Statuses \ {"NOT_RUN", "PASSED"} : summary' = WithStatus(status)
    BY <1>3 DEF Statuses
  <2>2. reason' \in Reasons
    BY DEF Types
  <2> QED BY <1>1, <1>3, <2>1, <2>2, AttemptEnds
<1> QED BY <1>2, <1>3 DEF Prepare

LEMMA ExecutePreserves ==
  ASSUME HardeningInv, Execute
  PROVE  HardeningInv'
<1> USE DEF HardeningInv
<1>1. /\ at = "execute" /\ executed' \subseteq executed \union {attempt}
      /\ UNCHANGED <<options, at, after, answer, attempt, summary, allPassed, onDisk, written,
                    made, sealed, sound>>
      /\ Running /\ Running' /\ Place' = Place
  BY DEF Execute, Launch, LaunchFails, memoryVars, diskVars, Running, Place
<1>2. reason' \in Reasons
  BY DEF Execute, Launch, LaunchFails, Return, Types, Reasons
<1>3. /\ Size(options) \in Nat /\ attempt \in 1 .. Size(options)
      /\ DOMAIN summary.attempts = 1 .. Size(options) /\ onDisk = summary
      /\ summary.attempts[attempt] = "RUNNING" /\ summary # NoSummary
  <2>1. /\ Size(options) \in Nat /\ Filled(summary, Size(options))
        /\ attempt \in 1 .. Size(options) /\ summary.attempts[attempt] = "RUNNING"
    BY <1>1, RunningFacts DEF Memory, During, Place
  <2> QED BY <1>1, <2>1, Domains DEF Disk, Filled, Statuses, NoSummary
<1>4. Types'
  BY <1>1, <1>2, <1>3 DEF Types
<1>5. Memory'
  BY <1>1 DEF Memory
<1>6. Disk'
  BY <1>1, <1>3 DEF Disk
<1>7. Passes'
  BY <1>1 DEF Passes
<1> QED BY <1>4, <1>5, <1>6, <1>7

(* What is judged to have passed has nothing against it.                   *)
LEMMA JudgedIsFair ==
  ASSUME reason \in Reasons, NEW sources \in Sources, NEW e \in Evidence
  PROVE  /\ Judged(sources, e) \in Statuses \ {"NOT_RUN"}
         /\ Judged(sources, e) = "PASSED" => IsSound(sources, e)
<1>1. Classify(e) \in {"CRASHED", "INTERRUPTED", "FAILED", "NO_COVERAGE", "PASSED"}
  BY DEF Classify
<1>2. Judged(sources, e) \in Statuses \ {"NOT_RUN"}
  BY <1>1 DEF Judged, Reasons, Statuses
<1>3. ASSUME Judged(sources, e) = "PASSED" PROVE IsSound(sources, e)
  <2>1. sources = "same" /\ reason = "" /\ Classify(e) = "PASSED"
    BY <1>3 DEF Judged, Reasons, Sources
  <2>2. /\ e.readable /\ e.ended /\ e.run = "PASSED" /\ ~e.faultFailed
        /\ e.violations = "none" /\ ~e.missing /\ exit = "zero"
    BY <2>1 DEF Classify, Evidence
  <2>3. e = [readable |-> e.readable, ended |-> e.ended, run |-> e.run, faultFailed |-> e.faultFailed,
             violations |-> e.violations, missing |-> e.missing]
    BY DEF Evidence
  <2>4. /\ e.readable = TRUE /\ e.ended = TRUE /\ e.faultFailed = FALSE /\ e.missing = FALSE
    BY <2>2 DEF Evidence
  <2> QED BY <2>1, <2>2, <2>3, <2>4 DEF IsSound
<1> QED BY <1>2, <1>3

LEMMA ReadEvidencePreserves ==
  ASSUME HardeningInv, ReadEvidence
  PROVE  HardeningInv'
<1>1. /\ at = "execute" /\ at' = "record" /\ reason' = "" /\ reason \in Reasons
      /\ UNCHANGED <<options, attempt, onDisk, allPassed, made, sealed, executed, answer>>
  BY DEF ReadEvidence, diskVars, HardeningInv, Types
<1>2. PICK sources \in Sources, e \in Evidence :
        /\ summary' = WithStatus(Judged(sources, e))
        /\ sound' = IF IsSound(sources, e) THEN sound \union {attempt} ELSE sound
  BY DEF ReadEvidence
<1>3. /\ Judged(sources, e) \in Statuses \ {"NOT_RUN"}
      /\ Judged(sources, e) = "PASSED" => attempt \in sound'
  BY <1>1, <1>2, JudgedIsFair
<1>4. sound \subseteq sound' /\ reason' \in Reasons
  BY <1>1, <1>2 DEF Reasons
<1> QED BY <1>1, <1>2, <1>3, <1>4, AttemptEnds

LEMMA SealPreserves ==
  ASSUME HardeningInv, Seal, UNCHANGED reason
  PROVE  HardeningInv'
<1>1. CASE Fail /\ UNCHANGED sealed
  BY <1>1, FailPreserves DEF Seal, Running, auxVars
<1>2. CASE /\ sealed' = sealed \union {attempt} /\ Checkpoint("judge")
           /\ UNCHANGED <<answer, summary>>
  <2> USE DEF HardeningInv
  <2>1. /\ at = "record" /\ at' = "checkpoint" /\ after' = "judge"
        /\ Place = "record" /\ Place' = "judge" /\ Running /\ Running'
        /\ UNCHANGED <<options, attempt, allPassed, onDisk, made, executed, sound, summary, answer>>
    BY <1>2 DEF Seal, Checkpoint, Place, Running, auxVars
  <2>2. Types'
    BY <2>1 DEF Types
  <2>3. Memory'
    BY <2>1 DEF Memory, Before, During, Ending
  <2>4. Disk'
    BY <2>1 DEF Disk
  <2>5. Passes'
    BY <1>2, <2>1 DEF Passes, During
  <2> QED BY <2>2, <2>3, <2>4, <2>5
<1> QED BY <1>1, <1>2 DEF Seal

LEMMA JudgePreserves ==
  ASSUME HardeningInv, Judge, UNCHANGED reason
  PROVE  HardeningInv'
<1> USE DEF HardeningInv
<1>1. /\ at = "judge" /\ at' \in {"verdict", "next"} /\ Place = "judge" /\ Place' = at'
      /\ Running /\ Running'
      /\ UNCHANGED <<options, attempt, onDisk, made, sealed, executed, sound, summary, answer>>
  BY DEF Judge, Place, Running, diskVars, auxVars
<1>2. /\ allPassed' => allPassed /\ summary.attempts[attempt] = "PASSED"
      /\ at' = "verdict" => ~allPassed'
  BY DEF Judge, Status
<1>3. attempt \in 1 .. Size(options) /\ Size(options) \in Nat
  BY <1>1, RunningFacts DEF Memory, During
<1>4. Types'
  BY <1>1 DEF Types
<1>5. Memory'
  BY <1>1 DEF Memory, Before, During, Ending
<1>6. Disk'
  BY <1>1 DEF Disk
<1>7. Passes'
  BY <1>1, <1>2, <1>3 DEF Passes, During
<1> QED BY <1>4, <1>5, <1>6, <1>7

LEMMA VerdictPreserves ==
  ASSUME HardeningInv, Verdict, UNCHANGED reason
  PROVE  HardeningInv'
<1> USE DEF HardeningInv
<1>1. /\ \/ at = "verdict"
         \/ at = "next" /\ attempt = Size(options)
      /\ at' = "checkpoint" /\ after' = "answer"
      /\ Place = at /\ Place' = "answer" /\ Running /\ Running'
      /\ summary' = [summary EXCEPT !.status = FinalStatus, !.ended = TRUE]
      /\ UNCHANGED <<options, attempt, allPassed, onDisk, made, sealed, executed, sound, answer>>
  BY DEF Verdict, Checkpoint, Place, Running, diskVars, auxVars
<1>2. FinalStatus \in Statuses
  BY DEF FinalStatus, Statuses
<1>2a. FinalStatus = "PASSED" => allPassed
  BY DEF FinalStatus
<1>2b. allPassed => FinalStatus = "PASSED"
  BY DEF FinalStatus
<1>3. /\ Size(options) \in Nat /\ Filled(summary, Size(options)) /\ attempt \in 0 .. Size(options)
      /\ answer # "ok"
  BY <1>1, RunningFacts
<1>4. PICK final \in Statuses : final = FinalStatus
  BY <1>2
<1>5. /\ Filled(summary', Size(options)) /\ summary'.ended /\ summary'.status = FinalStatus
      /\ summary'.attempts = summary.attempts
  <2>1. Filled([summary EXCEPT !.status = final, !.ended = TRUE], Size(options))
    BY <1>3, Ended
  <2> QED BY <1>1, <1>3, <1>4, <2>1 DEF Filled
<1>6. summary.ended = FALSE /\ summary.status = "RUNNING"
  BY <1>1, <1>3 DEF Memory, Ending, Filled
<1>7. allPassed => \A i \in 1 .. Size(options) : summary.attempts[i] = "PASSED"
  BY <1>1 DEF Passes
<1>8. Types'
  BY <1>1 DEF Types
<1>9. Memory'
  BY <1>1, <1>3, <1>5 DEF Memory, Before, During, Ending
<1>10. Disk'
  BY <1>1, <1>5 DEF Disk
<1>11. Passes'
  <2>1. \A i \in 1 .. Size(options) : summary.attempts[i] = "PASSED" => i \in sound /\ i \in sealed
    BY <1>1, <1>6 DEF Passes
  <2>2. /\ summary'.status = "PASSED" => allPassed
        /\ allPassed => summary'.status = "PASSED"
    BY <1>5, <1>2a, <1>2b, Zenon
  <2> HIDE DEF HardeningInv
  <2>3. /\ \A i \in DOMAIN onDisk.attempts :
             onDisk.attempts[i] = "PASSED" => i \in sound /\ (i \in sealed \/ onDisk.status = "CRASHED")
        /\ onDisk.status = "PASSED" => \A i \in 1 .. Size(options) : onDisk.attempts[i] = "PASSED"
    BY DEF HardeningInv, Passes
  <2> QED BY <1>1, <1>3, <1>5, <1>7, <2>1, <2>2, <2>3 DEF Passes, During
<1> QED BY <1>8, <1>9, <1>10, <1>11

LEMMA AnswerPreserves ==
  ASSUME HardeningInv, Answer, UNCHANGED reason
  PROVE  HardeningInv'
<1> USE DEF HardeningInv
<1>1. /\ at = "answer" /\ at' = "returned" /\ Place = "answer" /\ Running /\ ~Running'
      /\ UNCHANGED <<options, attempt, onDisk, made, sealed, executed, sound, summary>>
  BY DEF Answer, Place, Running, memoryVars, diskVars, auxVars
<1>2. answer' = "ok" => onDisk.status = "PASSED"
  BY <1>1 DEF Answer, Disk, Passes
<1>3. Types'
  BY <1>1 DEF Types
<1>4. Memory' /\ Disk'
  BY <1>1 DEF Memory, Disk
<1>5. Passes'
  BY <1>1, <1>2 DEF Passes
<1> QED BY <1>3, <1>4, <1>5

(* What neither runs nor stops the matrix, the death of its process and    *)
(* another start.                                                          *)
LEMMA HardeningRestPreserves ==
  ASSUME HardeningInv,
         \/ (Refuse \/ Die) /\ UNCHANGED executionVars
         \/ StartAgain \/ DeadlinePasses \/ HardeningCancel
         \/ UNCHANGED <<matrixVars, cancelled, expired>>
  PROVE  HardeningInv'
<1> USE DEF HardeningInv
<1>1. CASE Refuse /\ UNCHANGED executionVars
  <2>1. /\ at' = "returned" /\ answer' = "error" /\ ~Running'
        /\ UNCHANGED <<options, attempt, onDisk, made, sealed, executed, sound, reason>>
    BY <1>1 DEF Refuse, Running, memoryVars, diskVars, auxVars, executionVars
  <2> QED BY <2>1 DEF Types, Memory, Disk, Passes
<1>2. CASE Die /\ UNCHANGED executionVars
  <2>1. /\ at' = "dead" /\ Running /\ ~Running'
        /\ UNCHANGED <<options, attempt, onDisk, made, sealed, executed, sound, reason, answer>>
    BY <1>2 DEF Die, Running, memoryVars, diskVars, auxVars, executionVars
  <2> QED BY <2>1, RunningFacts DEF Types, Memory, Disk, Passes
<1>3. CASE StartAgain
  <2>1. /\ at' = "start" /\ attempt' = 0 /\ answer' = "none" /\ reason' = "" /\ ~Running'
        /\ UNCHANGED <<options, onDisk, made, sealed, executed, sound>>
    BY <1>3 DEF StartAgain, Running, diskVars, auxVars
  <2> QED BY <2>1 DEF Types, Memory, Disk, Passes, Reasons
<1>4. CASE DeadlinePasses \/ HardeningCancel \/ UNCHANGED <<matrixVars, cancelled, expired>>
  <2>1. /\ UNCHANGED <<options, at, after, answer, attempt, summary, allPassed, onDisk, written,
                      made, sealed, executed, sound, reason>>
        /\ Place' = Place /\ Running' = Running
    BY <1>4
    DEF DeadlinePasses, HardeningCancel, matrixVars, hardeningVars, executionVars,
        memoryVars, diskVars, auxVars, Place, Running
  <2> QED BY <2>1 DEF Types, Memory, Disk, Passes
<1> QED BY <1>1, <1>2, <1>3, <1>4

-----------------------------------------------------------------------------
LEMMA HardeningStepPreserves ==
  ASSUME HardeningInv, [HardeningNext]_<<matrixVars, cancelled, expired>>
  PROVE  HardeningInv'
<1>1. CASE Program /\ UNCHANGED <<executionVars, cancelled, expired>>
  <2>1. UNCHANGED reason
    BY <1>1 DEF executionVars
  <2> QED BY <1>1, <2>1, BeginPreserves, WriteNextPreserves, RenamePreserves,
             CopyPreserves, StopMatrixPreserves, StartAttemptPreserves,
             PreparePreserves, SealPreserves, JudgePreserves, VerdictPreserves,
             AnswerPreserves
          DEF Program
<1>2. CASE Execute \/ ReadEvidence
  BY <1>2, ExecutePreserves, ReadEvidencePreserves
<1>3. CASE \/ (Refuse \/ Die) /\ UNCHANGED <<executionVars, cancelled, expired>>
           \/ StartAgain \/ DeadlinePasses \/ HardeningCancel
           \/ UNCHANGED <<matrixVars, cancelled, expired>>
  BY <1>3, HardeningRestPreserves
<1> QED BY <1>1, <1>2, <1>3 DEF HardeningNext

LEMMA HardeningInvariance == HardeningSpec => []HardeningInv
BY HardeningInitially, HardeningStepPreserves, PTL DEF HardeningSpec

LEMMA PassesHold ==
  ASSUME HardeningInv
  PROVE  PassedIsEarned
<1>1. ASSUME onDisk.status = "PASSED",
             NEW r \in 1 .. options.repetitions, NEW j \in DOMAIN options.profiles,
             NEW s \in options.from .. options.to
      PROVE  \E i \in DOMAIN onDisk.attempts :
               /\ Cell(options, i) =
                    [repetition |-> r, profile |-> options.profiles[j], seed |-> s]
               /\ onDisk.attempts[i] = "PASSED"
  <2>1. options \in Options /\ Valid(options) /\ Filled(onDisk, Size(options))
    BY <1>1 DEF HardeningInv, Types, NoSummary
  <2>2. DOMAIN onDisk.attempts = 1 .. Size(options)
    BY <2>1, SizeIsBounded, Domains
  <2>3. PICK i \in 1 .. Size(options) :
          Cell(options, i) = [repetition |-> r, profile |-> options.profiles[j], seed |-> s]
    BY <2>1, EveryCellIsAnAttempt
  <2>4. onDisk.attempts[i] = "PASSED"
    BY <1>1 DEF HardeningInv, Passes
  <2> QED BY <2>2, <2>3, <2>4
<1> QED BY <1>1 DEF HardeningInv, Passes, PassedIsEarned

(* The summary on disk and the answer never claim a success that the       *)
(* attempts have not earned, wherever the process dies.                    *)
THEOREM PassesAreEarned == HardeningSpec => []PassedIsEarned
BY PassesHold, HardeningInvariance, PTL

LEMMA ExecutionsHold == HardeningInv => ExecutedIsRecorded
<1>1. ASSUME HardeningInv PROVE Cardinality(executed) <= MaxRuns
  <2>1. CASE executed = {}
    BY <2>1, FS_EmptySet, HardeningAssumption
  <2>2. CASE executed # {}
    <3>1. options \in Options /\ Valid(options) /\ Filled(onDisk, Size(options))
      BY <1>1, <2>2 DEF HardeningInv, Types
    <3>2. Size(options) \in Nat /\ Size(options) <= MaxRuns /\ DOMAIN onDisk.attempts = 1 .. Size(options)
      BY <3>1, SizeIsBounded, Domains
    <3>3. executed \in SUBSET (1 .. Size(options))
      BY <1>1, <3>2 DEF HardeningInv, Disk
    <3>4. IsFiniteSet(1 .. Size(options)) /\ Cardinality(1 .. Size(options)) = Size(options)
      BY <3>2, FS_Interval
    <3>5. Cardinality(executed) <= Size(options) /\ Cardinality(executed) \in Nat
      BY <3>3, <3>4, FS_Subset, FS_CardinalityType
    <3> QED BY <3>2, <3>5, HardeningAssumption
  <2> QED BY <2>1, <2>2
<1> QED BY <1>1 DEF HardeningInv, Disk, ExecutedIsRecorded

(* No matrix executes more than it was allowed to, and none executes what  *)
(* the summary on disk does not show.                                      *)
THEOREM ExecutionsAreRecorded == HardeningSpec => []ExecutedIsRecorded
BY ExecutionsHold, HardeningInvariance, PTL

(* A step of a matrix that only adds to what is recorded.                  *)
Appends ==
  /\ made \subseteq made' /\ sealed \subseteq sealed'
  /\ onDisk.ended => onDisk' = onDisk
  /\ \A i \in DOMAIN onDisk.attempts :
       onDisk.attempts[i] \notin {"NOT_RUN", "RUNNING"} =>
         onDisk'.attempts[i] = onDisk.attempts[i]

LEMMA EvidenceHolds ==
  ASSUME HardeningInv, [HardeningNext]_<<matrixVars, cancelled, expired>>
  PROVE  [Appends]_diskVars
<1> USE DEF Appends
<1>1. made \subseteq made' /\ sealed \subseteq sealed'
  BY DEF HardeningNext, Program, Begin, WriteNext, Rename, Copy, StopMatrix,
         StartAttempt, Prepare, Seal, Judge, Verdict, Answer, Refuse, Die, Execute,
         ReadEvidence, StartAgain, DeadlinePasses, HardeningCancel, matrixVars,
         hardeningVars, diskVars
<1>2. onDisk' = onDisk \/ (at = "rename" /\ onDisk' = written)
  BY DEF HardeningNext, Program, Begin, WriteNext, Rename, Copy, StopMatrix,
         StartAttempt, Prepare, Seal, Judge, Verdict, Answer, Refuse, Die, Execute,
         ReadEvidence, StartAgain, DeadlinePasses, HardeningCancel, matrixVars,
         hardeningVars, diskVars
<1>3. CASE onDisk' = onDisk
  BY <1>1, <1>3
<1>4. CASE at = "rename" /\ onDisk' = written
  <2>1. Running /\ onDisk' = summary /\ ~onDisk.ended
    BY <1>4 DEF HardeningInv, Disk, Running
  <2> QED BY <1>1, <2>1 DEF HardeningInv, Disk, Over
<1> QED BY <1>2, <1>3, <1>4

(* What has been recorded of an attempt or a matrix that is over stays.    *)
THEOREM EvidenceStays == HardeningSpec => EvidenceIsAppendOnly
BY EvidenceHolds, HardeningInvariance, PTL
DEF HardeningSpec, EvidenceIsAppendOnly, Appends

-----------------------------------------------------------------------------
(***************************************************************************)
(* The supervision of an attempt, for any number of PIDs and processes.    *)
(***************************************************************************)
USE SupervisorAssumption

Kinds == {"none", "cli", "own", "other"}
Table == [Pids -> [kin : Kinds, parent : Nat, group : Nat, doomed : BOOLEAN]]
Identities == [pid : Pids, birth : Nat]

SupervisorTypeOK ==
  /\ procs \in Table /\ births \in [Pids -> Nat]
  /\ owned \subseteq Identities /\ everOwned \subseteq Identities

(* Who has parents and groups, and which process is the command line.      *)
Kin ==
  \A p \in Pids :
    /\ procs[p].kin = "none" => procs[p] = NoProcess
    /\ procs[p].kin = "other" => procs[p].parent = Reaper /\ procs[p].group = p
    /\ p = 1 /\ births[p] = 1 => procs[p].kin \in {"none", "cli"}

(* An identity is never that of a later process, and is none of others.    *)
NotOthers(id) ==
  /\ id.birth <= births[id.pid]
  /\ Alive(id) => procs[id.pid].kin # "other"

(* Whatever was found and is alive is among those that will be killed.     *)
Held == \A id \in everOwned : Alive(id) => id \in owned

(* SIGKILL was sent to it, if it is still alive.                           *)
Sent(id) == Alive(id) => procs[id.pid].doomed

(* The command line is the first process with its PID, and ends once.      *)
OneCli ==
  /\ \A p \in Pids : procs[p].kin = "cli" => p = 1 /\ code = "none"
  /\ watch = "returned" => code # "none"

(* As long as no command line was started, nothing happens.                *)
Untouched == procs = IdleTable /\ births = [p \in Pids |-> 0]

SupervisorInv ==
  /\ SupervisorTypeOK /\ Kin /\ Held /\ OneCli
  /\ \A id \in owned \union everOwned : NotOthers(id)
  /\ watch = "idle" => owned = {} /\ everOwned = {}
  /\ Untouched \/ births[1] > 0
  /\ watch = "idle" => Untouched
  /\ watch \notin {"idle", "returned"} => births[1] > 0
  /\ watch = "returned" => \A id \in everOwned : Sent(id)
  /\ ~harmed

-----------------------------------------------------------------------------
(* Who is found.                                                           *)

LEMMA FoundAreOurs ==
  ASSUME SupervisorInv, NEW ids, NEW f \in Found(ids)
  PROVE  /\ f \in Identities /\ f = Identity(f.pid)
         /\ Alive(f) /\ NotOthers(f)
<1>1. PICK p \in Descendants({id.pid : id \in {i \in ids : Alive(i)}}) : f = Identity(p)
  BY DEF Found
<1>2. p \in Pids /\ procs[p].parent \in Pids
  BY DEF Descendants
<1>3. procs[p].parent # Reaper
  BY <1>2 DEF Pids, Reaper
<1>4. procs[p].kin # "other" /\ procs[p] # NoProcess
  BY <1>2, <1>3 DEF SupervisorInv, Kin, NoProcess
<1>5. births[p] \in Nat
  BY <1>2 DEF SupervisorInv, SupervisorTypeOK
<1> QED BY <1>1, <1>2, <1>4, <1>5 DEF Identity, Identities, Alive, NotOthers

(* A scan loses no owned process that is alive.                            *)
LEMMA ScansKeep ==
  ASSUME SupervisorInv, NEW ids
  PROVE  /\ WithFound(Found(ids)) \subseteq Identities
         /\ \A id \in WithFound(Found(ids)) : NotOthers(id)
         /\ \A id \in everOwned \union Found(ids) :
              Alive(id) => id \in WithFound(Found(ids))
<1>1. Found(ids) \subseteq Identities /\ \A id \in Found(ids) : NotOthers(id)
  BY FoundAreOurs
<1>2. ASSUME NEW id \in everOwned, Alive(id), id \notin Found(ids)
      PROVE  id \in WithFound(Found(ids))
  <2>1. id \in owned /\ id \in Identities
    BY <1>2 DEF SupervisorInv, Held, SupervisorTypeOK
  <2>2. ASSUME NEW f \in Found(ids), f.pid = id.pid
        PROVE  FALSE
    <3>1. f = Identity(id.pid)
      BY <2>2, FoundAreOurs
    <3>2. id = Identity(id.pid)
      BY <1>2, <2>1 DEF Alive, Identity, Identities
    <3> QED BY <3>1, <3>2, <1>2
  <2> QED BY <2>1, <2>2 DEF WithFound
<1> QED BY <1>1, <1>2 DEF WithFound, SupervisorInv, SupervisorTypeOK

(* Whom a signal is sent to.                                               *)
LEMMA TargetsAreOurs ==
  ASSUME SupervisorInv, NEW ids \in SUBSET Identities, \A id \in ids : NotOthers(id)
  PROVE  /\ Targets(ids) \subseteq Pids
         /\ \A p \in Targets(ids) : procs[p].kin # "other" /\ procs[p] # NoProcess
         /\ \A id \in ids : Alive(id) => id.pid \in Targets(ids)
<1> DEFINE same == {id.pid : id \in {i \in ids : Alive(i)}}
<1>1. \A p \in same : p \in Pids /\ procs[p].kin # "other" /\ procs[p] # NoProcess
  BY DEF NotOthers, Identities, Alive
<1>2. ASSUME NEW p \in Pids, procs[p].group \in same, procs[p].kin = "other"
      PROVE  FALSE
  <2>1. procs[p].group = p
    BY <1>2 DEF SupervisorInv, Kin
  <2> QED BY <1>1, <1>2, <2>1
<1> QED BY <1>1, <1>2 DEF Targets

LEMMA CliIsOurs ==
  ASSUME SupervisorInv
  PROVE  {Cli} \subseteq Identities /\ (Alive(Cli) => procs[1].kin # "other")
BY DEF SupervisorInv, Kin, Cli, Identities, Alive, Pids

-----------------------------------------------------------------------------
(* The end of processes disturbs nothing.                                  *)
LEMMA EndsDisturbNothing ==
  ASSUME SupervisorInv, NEW dead \in SUBSET Pids, procs' = Without(dead), births' = births
  PROVE  /\ procs' \in Table /\ Kin'
         /\ \A p \in Pids : /\ procs'[p].kin \in {procs[p].kin, "none"}
                            /\ p \in dead => procs'[p].kin = "none"
         /\ \A id \in Identities : /\ Alive(id)' => Alive(id) /\ id.pid \notin dead
                                   /\ NotOthers(id) => NotOthers(id)'
                                   /\ Sent(id) => Sent(id)'
<1>1. procs \in Table /\ 0 \notin Pids
  BY DEF SupervisorInv, SupervisorTypeOK, Pids
<1>2. ASSUME NEW p \in Pids
      PROVE  /\ procs'[p] \in [kin : Kinds, parent : Nat, group : Nat, doomed : BOOLEAN]
             /\ p \in dead => procs'[p] = NoProcess
             /\ p \notin dead => /\ procs'[p].kin = procs[p].kin
                                 /\ procs'[p].group = procs[p].group
                                 /\ procs'[p].doomed = procs[p].doomed
                                 /\ procs'[p].parent \in {procs[p].parent, Reaper}
                                 /\ procs[p] = NoProcess => procs'[p] = NoProcess
                                 /\ procs'[p] # NoProcess => procs[p] # NoProcess
  <2>1. CASE p \in dead
    BY <2>1 DEF Without, NoProcess, Reaper, Kinds
  <2>2. CASE p \notin dead /\ procs[p].parent \in dead
    BY <1>1, <2>2 DEF Without, NoProcess, Reaper, Table
  <2>3. CASE p \notin dead /\ procs[p].parent \notin dead
    BY <1>1, <2>3 DEF Without, Table
  <2> QED BY <2>1, <2>2, <2>3
<1>3. procs' \in Table
  BY <1>2 DEF Without, Table
<1>4. Kin'
  BY <1>2 DEF SupervisorInv, Kin, NoProcess, Reaper
<1>5. ASSUME NEW id \in Identities
      PROVE  /\ Alive(id)' => Alive(id) /\ id.pid \notin dead
             /\ NotOthers(id) => NotOthers(id)'
             /\ Sent(id) => Sent(id)'
  BY <1>2 DEF Alive, NotOthers, Sent, Identities, NoProcess
<1>6. \A p \in Pids : /\ procs'[p].kin \in {procs[p].kin, "none"}
                      /\ p \in dead => procs'[p].kin = "none"
  BY <1>2 DEF NoProcess
<1> QED BY <1>3, <1>4, <1>5, <1>6

(* A signal is sent to those it should be, and changes nothing else.       *)
LEMMA SignalsDisturbNothing ==
  ASSUME SupervisorInv, NEW ids \in SUBSET Identities, \A id \in ids : NotOthers(id),
         SignalOwned(ids), births' = births
  PROVE  /\ procs' \in Table /\ Kin' /\ ~harmed'
         /\ \A p \in Pids : procs'[p].kin = procs[p].kin
         /\ \A id \in Identities : /\ Alive(id)' => Alive(id)
                                   /\ NotOthers(id) => NotOthers(id)'
                                   /\ id \in ids => Sent(id)'
<1> DEFINE sent == Targets(ids)
<1>1. /\ procs' = [p \in Pids |->
            IF p \in sent THEN [procs[p] EXCEPT !.doomed = TRUE] ELSE procs[p]]
      /\ harmed' = (harmed \/ \E p \in sent : procs[p].kin = "other")
  BY DEF SignalOwned
<1>2. /\ sent \subseteq Pids
      /\ \A p \in sent : procs[p].kin # "other" /\ procs[p] # NoProcess
      /\ \A id \in ids : Alive(id) => id.pid \in sent
  BY TargetsAreOurs
<1>3. procs \in Table
  BY DEF SupervisorInv, SupervisorTypeOK
<1> HIDE DEF sent
<1>4. ASSUME NEW p \in Pids
      PROVE  /\ procs'[p] \in [kin : Kinds, parent : Nat, group : Nat, doomed : BOOLEAN]
             /\ procs'[p].kin = procs[p].kin /\ procs'[p].parent = procs[p].parent
             /\ procs'[p].group = procs[p].group
             /\ p \in sent => procs'[p].doomed /\ procs[p] # NoProcess
             /\ p \notin sent => procs'[p] = procs[p]
  BY <1>1, <1>2, <1>3 DEF Table
<1>5. procs' \in Table
  BY <1>1, <1>4 DEF Table
<1>6. Kin'
  BY <1>4 DEF SupervisorInv, Kin
<1>7. ~harmed'
  BY <1>1, <1>2, Zenon DEF SupervisorInv
<1>8. ASSUME NEW id \in Identities
      PROVE  /\ Alive(id)' => Alive(id)
             /\ NotOthers(id) => NotOthers(id)'
             /\ id \in ids => Sent(id)'
  BY <1>2, <1>4 DEF Alive, NotOthers, Sent, Identities
<1> QED BY <1>4, <1>5, <1>6, <1>7, <1>8

-----------------------------------------------------------------------------
(* The kernel.                                                             *)

LEMMA SupervisorInitially == SupervisorInit => SupervisorInv
<1> SUFFICES ASSUME SupervisorInit PROVE SupervisorInv
  OBVIOUS
<1>1. procs \in Table /\ \A p \in Pids : procs[p] = NoProcess
  BY DEF SupervisorInit, IdleTable, Table, NoProcess, Kinds, Reaper
<1>2. births \in [Pids -> Nat] /\ owned = {} /\ everOwned = {} /\ watch = "idle"
  BY DEF SupervisorInit
<1>3. ~harmed /\ Untouched
  BY DEF SupervisorInit, Untouched
<1>4. \A p \in Pids : procs[p].kin = "none"
  BY <1>1 DEF NoProcess
<1>5. SupervisorTypeOK /\ Kin /\ Held /\ OneCli
  BY <1>1, <1>2, <1>4 DEF SupervisorTypeOK, Kin, Held, OneCli
<1> QED BY <1>2, <1>3, <1>5 DEF SupervisorInv

(* A birth makes nobody's identity alive again.                            *)
LEMMA BirthsDisturbNothing ==
  ASSUME SupervisorInv, births[1] > 0, NEW p \in Pids, NEW process, Born(p, process),
         process \in [kin : {"own", "other"}, parent : Nat, group : Nat, doomed : BOOLEAN],
         process.kin = "other" => process.parent = Reaper /\ process.group = p
  PROVE  /\ procs' \in Table /\ births' \in [Pids -> Nat] /\ births'[1] > 0 /\ Kin'
         /\ \A q \in Pids : procs'[q].kin = "cli" => procs[q].kin = "cli"
         /\ \A id \in Identities :
              NotOthers(id) => /\ Alive(id)' => Alive(id)
                               /\ NotOthers(id)'
                               /\ Sent(id) => Sent(id)'
<1>1. /\ procs \in Table /\ births \in [Pids -> Nat] /\ 1 \in Pids
      /\ births[1] > 0 /\ Kin
  BY DEF SupervisorInv, SupervisorTypeOK, Pids
<1>2. /\ procs' = [procs EXCEPT ![p] = process]
      /\ births' = [births EXCEPT ![p] = @ + 1]
      /\ procs[p] = NoProcess
  BY DEF Born, Free
<1>3. procs' \in Table
  BY <1>1, <1>2 DEF Table, Kinds
<1>4. births' \in [Pids -> Nat] /\ births'[1] > 0
  BY <1>1, <1>2
<1>5. Kin'
  <2> SUFFICES ASSUME NEW q \in Pids
               PROVE  /\ procs'[q].kin = "none" => procs'[q] = NoProcess
                      /\ procs'[q].kin = "other" => procs'[q].parent = Reaper /\ procs'[q].group = q
                      /\ q = 1 /\ births'[q] = 1 => procs'[q].kin \in {"none", "cli"}
    BY DEF Kin
  <2>1. CASE q = p
    BY <1>1, <1>2, <2>1 DEF Table
  <2>2. CASE q # p
    BY <1>1, <1>2, <2>2 DEF Kin, Table
  <2> QED BY <2>1, <2>2
<1>6. ASSUME NEW id \in Identities, NotOthers(id)
      PROVE  (Alive(id)' => Alive(id)) /\ NotOthers(id)' /\ (Sent(id) => Sent(id)')
  <2>1. CASE id.pid = p
    <3>1. births'[p] = births[p] + 1 /\ id.birth <= births[p] /\ births[p] \in Nat /\ id.birth \in Nat
      BY <1>1, <1>2, <1>6, <2>1 DEF NotOthers, Identities
    <3> QED BY <2>1, <3>1 DEF Alive, NotOthers, Sent
  <2>2. CASE id.pid # p
    BY <1>1, <1>2, <1>6, <2>2 DEF Alive, NotOthers, Sent, Identities, Table
  <2> QED BY <2>1, <2>2
<1>7. \A q \in Pids : procs'[q].kin = "cli" => procs[q].kin = "cli"
  BY <1>1, <1>2 DEF Table
<1> QED BY <1>3, <1>4, <1>5, <1>6, <1>7

(* Nothing runs before the command line does.                              *)
LEMMA EnvironmentNeedsCli ==
  ASSUME SupervisorInv, Environment
  PROVE  births[1] > 0
<1>1. SUFFICES ASSUME Untouched PROVE FALSE
  BY DEF SupervisorInv
<1>2. \A p \in Pids : procs[p].kin = "none" /\ ~procs[p].doomed /\ births[p] = 0
  BY <1>1 DEF Untouched, IdleTable, NoProcess
<1>3. 1 \in Pids /\ ~(0 > 0)
  BY DEF Pids
<1>4. ~Fork /\ ~OtherStarts
  BY <1>2, <1>3 DEF Fork, OtherStarts
<1>5. ~Exit /\ ~CliExits /\ ~\E p \in Pids : Dies(p)
  BY <1>2, <1>3 DEF Exit, CliExits, Dies
<1> QED BY <1>4, <1>5 DEF Environment

LEMMA EnvironmentPreserves ==
  ASSUME SupervisorInv, Environment
  PROVE  SupervisorInv'
<1>1. watch # "idle" /\ births[1] > 0 /\ UNCHANGED <<owned, watch, harmed>>
  BY EnvironmentNeedsCli DEF Environment, Fork, OtherStarts, Exit, CliExits, Dies
<1>2. ASSUME NEW p \in Pids, NEW process, Born(p, process), UNCHANGED <<everOwned, code>>,
             process \in [kin : {"own", "other"}, parent : Nat, group : Nat, doomed : BOOLEAN],
             process.kin = "other" => process.parent = Reaper /\ process.group = p
      PROVE  SupervisorInv'
  <2>1. /\ procs' \in Table /\ births' \in [Pids -> Nat] /\ births'[1] > 0 /\ Kin'
        /\ \A q \in Pids : procs'[q].kin = "cli" => procs[q].kin = "cli"
        /\ \A id \in Identities : NotOthers(id) => /\ Alive(id)' => Alive(id)
                                                   /\ NotOthers(id)'
                                                   /\ Sent(id) => Sent(id)'
    BY <1>1, <1>2, BirthsDisturbNothing
  <2> QED BY <1>1, <1>2, <2>1 DEF SupervisorInv, SupervisorTypeOK, Held, OneCli
<1>3. CASE Fork
  <2>0. PICK p, c \in Pids : \E group \in {c, procs[p].group} : Born(c, Process("own", p, group))
    BY <1>3 DEF Fork
  <2>1. PICK group \in {c, procs[p].group} : Born(c, Process("own", p, group))
    BY <2>0
  <2>2. /\ Process("own", p, group)
             \in [kin : {"own", "other"}, parent : Nat, group : Nat, doomed : BOOLEAN]
        /\ Process("own", p, group).kin # "other"
    BY <2>1 DEF Process, SupervisorInv, SupervisorTypeOK, Table, Pids
  <2> QED BY <1>2, <1>3, <2>1, <2>2 DEF Fork
<1>4. CASE OtherStarts
  <2>1. PICK p \in Pids : Born(p, Process("other", Reaper, p))
    BY <1>4 DEF OtherStarts
  <2>2. /\ Process("other", Reaper, p)
             \in [kin : {"own", "other"}, parent : Nat, group : Nat, doomed : BOOLEAN]
        /\ Process("other", Reaper, p).parent = Reaper /\ Process("other", Reaper, p).group = p
    BY DEF Process, Reaper, Pids
  <2> QED BY <1>2, <1>4, <2>1, <2>2 DEF OtherStarts
<1>5. ASSUME NEW p \in Pids, procs' = Without({p}), UNCHANGED births, everOwned' \subseteq everOwned,
             procs[p].kin # "cli" => code' = code, code' = code \/ code' # "none"
      PROVE  SupervisorInv'
  <2>1. /\ procs' \in Table /\ Kin'
        /\ \A q \in Pids : procs'[q].kin \in {procs[q].kin, "none"}
        /\ procs'[p].kin = "none"
        /\ \A id \in Identities : /\ Alive(id)' => Alive(id)
                                  /\ NotOthers(id) => NotOthers(id)'
                                  /\ Sent(id) => Sent(id)'
    BY <1>5, EndsDisturbNothing
  <2>2. OneCli'
    BY <1>1, <1>5, <2>1 DEF SupervisorInv, OneCli
  <2> QED BY <1>1, <1>5, <2>1, <2>2 DEF SupervisorInv, SupervisorTypeOK, Held
<1>6. CASE Exit
  BY <1>5, <1>6 DEF Exit, StillAlive
<1>7. CASE CliExits
  <2>1. 1 \in Pids
    BY DEF Pids
  <2> QED BY <1>5, <1>7, <2>1 DEF CliExits
<1>8. CASE \E p \in Pids : Dies(p)
  BY <1>5, <1>8 DEF Dies, StillAlive
<1> QED BY <1>3, <1>4, <1>6, <1>7, <1>8 DEF Environment

-----------------------------------------------------------------------------
(* execute.                                                                *)

LEMMA StartsPreserves ==
  ASSUME SupervisorInv, (watch = "idle" /\ Starts) \/ (watch = "idle" /\ StartFails)
  PROVE  SupervisorInv'
<1>1. CASE Starts
  <2>1. procs' = [p \in Pids |-> IF p = 1 THEN Process("cli", Reaper, 1) ELSE NoProcess]
    BY <1>1 DEF Starts, IdleTable
  <2>2. procs' \in Table
    BY <2>1 DEF Table, Process, NoProcess, Kinds, Reaper
  <2>3. births' \in [Pids -> Nat] /\ births'[1] > 0
    <3>1. 1 \in Pids
      BY DEF Pids
    <3>2. births' = [p \in Pids |-> IF p = 1 THEN 1 ELSE 0]
      BY <1>1 DEF Starts
    <3> QED BY <3>1, <3>2
  <2>4. Kin' /\ OneCli'
    <3>1. watch' = "watch" /\ code' = "none"
      BY <1>1 DEF Starts
    <3>2. Kin'
      BY <2>1 DEF Kin, Process, NoProcess
    <3>3. \A p \in Pids : procs'[p].kin = "cli" => p = 1
      BY <2>1 DEF NoProcess
    <3> QED BY <3>1, <3>2, <3>3 DEF OneCli
  <2> QED BY <1>1, <2>2, <2>3, <2>4 DEF Starts, SupervisorInv, SupervisorTypeOK, Held
<1>2. CASE watch = "idle" /\ StartFails
  <2>1. OneCli'
    <3>1. code' = "other" /\ procs' = procs
      BY <1>2 DEF StartFails, tableVars
    <3>2. \A p \in Pids : procs[p].kin = "none"
      BY <1>2 DEF SupervisorInv, Untouched, IdleTable, NoProcess
    <3> QED BY <3>1, <3>2 DEF OneCli
  <2> QED BY <1>2, <2>1
  DEF StartFails, tableVars, SupervisorInv, SupervisorTypeOK, Kin, Held, NotOthers,
      Alive, Sent, Untouched
<1> QED BY <1>1, <1>2

LEMMA ScanPreserves ==
  ASSUME SupervisorInv, Scan \/ Interrupted \/ TimesOut \/ StorageFull
  PROVE  SupervisorInv'
<1>1. PICK ids : Track(ids)
  BY DEF Scan, Interrupted, TimesOut, StorageFull, StopFor
<1>2. /\ watch = "watch" /\ watch' \in {"watch", "stop"}
      /\ UNCHANGED <<procs, births, code, harmed>>
  BY DEF Scan, Interrupted, TimesOut, StorageFull, StopFor, tableVars
<1>3. owned' = WithFound(Found(ids)) /\ everOwned' \subseteq everOwned \union Found(ids)
  BY <1>1 DEF Track, StillAlive
<1>4. \A id : (Alive(id)' <=> Alive(id)) /\ (NotOthers(id)' <=> NotOthers(id))
  BY <1>2 DEF Alive, NotOthers
<1>5. Kin' /\ OneCli' /\ births'[1] > 0
  BY <1>2 DEF SupervisorInv, Kin, OneCli
<1>6. owned' \subseteq Identities /\ everOwned' \subseteq Identities
  BY <1>3, ScansKeep, FoundAreOurs DEF SupervisorInv, SupervisorTypeOK
<1>7. /\ \A id \in owned' \union everOwned' : NotOthers(id)
      /\ \A id \in everOwned' : Alive(id) => id \in owned'
  BY <1>3, ScansKeep, FoundAreOurs DEF SupervisorInv
<1> QED BY <1>2, <1>4, <1>5, <1>6, <1>7 DEF SupervisorInv, SupervisorTypeOK, Held

(* KillOwned looks once more who there is, before it kills.                *)
LEMMA KillOwnedPreserves ==
  ASSUME SupervisorInv, KillOwned
  PROVE  SupervisorInv'
<1>1. /\ watch = "stop" /\ watch' = "kill" /\ UNCHANGED <<births, code>>
      /\ SignalOwned(owned)
      /\ owned' = WithFound(Found(owned))
      /\ everOwned' \subseteq everOwned \union Found(owned)
  BY DEF KillOwned, StillAlive
<1>2. owned \subseteq Identities /\ everOwned \subseteq Identities /\ births[1] > 0
  BY <1>1 DEF SupervisorInv, SupervisorTypeOK
<1>3. /\ procs' \in Table /\ Kin' /\ ~harmed'
      /\ \A p \in Pids : procs'[p].kin = procs[p].kin
      /\ \A id \in Identities : (Alive(id)' => Alive(id)) /\ (NotOthers(id) => NotOthers(id)')
  BY <1>1, <1>2, SignalsDisturbNothing DEF SupervisorInv
<1>4. /\ owned' \subseteq Identities /\ \A id \in owned' : NotOthers(id)
      /\ \A id \in everOwned \union Found(owned) : Alive(id) => id \in owned'
      /\ Found(owned) \subseteq Identities /\ \A id \in Found(owned) : NotOthers(id)
  BY <1>1, ScansKeep, FoundAreOurs
<1>5. /\ \A id \in owned' \union everOwned' : NotOthers(id)'
      /\ Held' /\ OneCli'
  BY <1>1, <1>2, <1>3, <1>4 DEF SupervisorInv, Held, OneCli
<1> QED BY <1>1, <1>2, <1>3, <1>4, <1>5 DEF SupervisorInv, SupervisorTypeOK

(* KillCli and Sweep look no more, and Sweep is sure to miss nobody.       *)
LEMMA SignalPreserves ==
  ASSUME SupervisorInv, NEW ids \in SUBSET Identities, \A id \in ids : NotOthers(id),
         SignalOwned(ids), UNCHANGED <<births, owned, everOwned, code>>,
         watch \notin {"idle", "returned"}, watch' # "idle",
         watch' = "returned" => ids = owned /\ Done
  PROVE  SupervisorInv'
<1>1. births[1] > 0 /\ everOwned \subseteq Identities
  BY DEF SupervisorInv, SupervisorTypeOK
<1>2. /\ procs' \in Table /\ Kin' /\ ~harmed'
      /\ \A p \in Pids : procs'[p].kin = procs[p].kin
      /\ \A id \in Identities : /\ Alive(id)' => Alive(id)
                                /\ NotOthers(id) => NotOthers(id)'
                                /\ id \in ids => Sent(id)'
  BY SignalsDisturbNothing
<1>3. watch' = "returned" => \A id \in everOwned' : Sent(id)'
  <2> SUFFICES ASSUME watch' = "returned", NEW id \in everOwned PROVE Sent(id)'
    OBVIOUS
  <2>1. CASE Alive(id)'
    BY <1>1, <1>2, <2>1 DEF SupervisorInv, Held
  <2>2. CASE ~Alive(id)'
    BY <2>2 DEF Sent
  <2> QED BY <2>1, <2>2
<1>4. Held' /\ OneCli'
  BY <1>1, <1>2 DEF SupervisorInv, Held, OneCli, Done
<1> QED BY <1>1, <1>2, <1>3, <1>4 DEF SupervisorInv, SupervisorTypeOK

LEMMA StoppingPreserves ==
  ASSUME SupervisorInv, Stopping
  PROVE  SupervisorInv'
<1>1. CASE Finish \/ Stopped
  <2>1. /\ watch \notin {"idle", "returned"} /\ watch' = "sweep"
        /\ UNCHANGED <<procs, births, owned, everOwned, code, harmed>>
    BY <1>1 DEF Finish, Stopped, tableVars
  <2> QED BY <2>1 DEF SupervisorInv, SupervisorTypeOK, Kin, Held, OneCli, NotOthers, Alive
<1>2. CASE KillOwned
  BY <1>2, KillOwnedPreserves
<1>3. CASE KillCli
  <2>1. /\ watch = "kill" /\ watch' = "sweep" /\ SignalOwned({Cli})
        /\ UNCHANGED <<births, owned, everOwned, code>>
    BY <1>3 DEF KillCli
  <2>2. births[1] \in Nat /\ births[1] > 0
    BY <2>1 DEF SupervisorInv, SupervisorTypeOK, Pids
  <2>3. {Cli} \in SUBSET Identities /\ NotOthers(Cli)
    BY <2>2, CliIsOurs DEF NotOthers, Cli
  <2> QED BY <2>1, <2>3, SignalPreserves
<1>4. CASE Sweep
  <2>1. /\ watch = "sweep" /\ watch' = "returned" /\ Done /\ SignalOwned(owned)
        /\ UNCHANGED <<births, owned, everOwned, code>>
    BY <1>4 DEF Sweep
  <2>2. owned \in SUBSET Identities /\ \A id \in owned : NotOthers(id)
    BY DEF SupervisorInv, SupervisorTypeOK
  <2> QED BY <2>1, <2>2, SignalPreserves
<1> QED BY <1>1, <1>2, <1>3, <1>4 DEF Stopping

LEMMA SupervisedStepPreserves ==
  ASSUME SupervisorInv, [SupervisedNext]_supervisedVars
  PROVE  SupervisorInv'
<1>1. CASE UNCHANGED supervisorVars
  BY <1>1
  DEF supervisorVars, SupervisorInv, SupervisorTypeOK, Kin, Held, OneCli, NotOthers, Alive,
      Sent, Untouched
<1> QED
  BY <1>1, EnvironmentPreserves, StartsPreserves, ScanPreserves, StoppingPreserves
  DEF SupervisorNext, SupervisedNext, supervisedVars

LEMMA SupervisorInvariance == SupervisorSpec => []SupervisorInv
BY SupervisorInitially, SupervisedStepPreserves, PTL DEF SupervisorSpec

(* The supervision of an attempt kills no process that does not descend    *)
(* from its command line, however PIDs are used again.                     *)
THEOREM OthersAreSpared == SupervisorSpec => []OnlyOwnAreKilled
<1>1. SupervisorInv => OnlyOwnAreKilled
  BY DEF SupervisorInv, OnlyOwnAreKilled
<1> QED BY <1>1, SupervisorInvariance, PTL

(* When the supervision has returned, every process that any of its scans  *)
(* has found is dead or has been sent SIGKILL, however processes forked,   *)
(* were orphaned and ended meanwhile.                                      *)
THEOREM FoundAreKilled == SupervisorSpec => []SeenAreKilled
<1>1. SupervisorInv => SeenAreKilled
  BY DEF SupervisorInv, SeenAreKilled, Sent
<1> QED BY <1>1, SupervisorInvariance, PTL

-----------------------------------------------------------------------------
(* What the matrix sees of it.                                             *)

(* A reason is recorded when the command line is told to stop, and an      *)
(* interrupt only after one.                                               *)
WhyStopped ==
  /\ watch \in {"idle", "watch", "stop", "kill", "sweep", "returned"}
  /\ code \in {"none", "zero", "other"}
  /\ why \in {"", "TIMED_OUT", "STORAGE_LIMIT", "INTERRUPTED", "CRASHED"}
  /\ watch = "idle" => code = "none" /\ why = ""
  /\ watch = "watch" => why = ""
  /\ watch # "returned" => why # "CRASHED"
  /\ why = "INTERRUPTED" => ContextDone

LEMMA WhyInitially == SupervisorInit => WhyStopped
BY DEF SupervisorInit, WhyStopped

LEMMA WhyRemains ==
  ASSUME WhyStopped, [SupervisedNext]_supervisedVars
  PROVE  WhyStopped'
<1>1. ContextDone => ContextDone'
  BY Zenon DEF SupervisedNext, supervisedVars, ContextDone, Cancel, Expire
<1>2. CASE UNCHANGED supervisorVars
  BY <1>1, <1>2 DEF supervisorVars, WhyStopped
<1>3. CASE Environment
  BY <1>1, <1>3 DEF Environment, Fork, OtherStarts, Exit, CliExits, Dies, WhyStopped
<1>4. CASE watch = "idle" /\ (Starts \/ StartFails)
  BY <1>4 DEF Starts, StartFails, WhyStopped
<1>5. CASE Scan \/ Interrupted \/ TimesOut \/ StorageFull
  BY <1>1, <1>5 DEF Scan, Interrupted, TimesOut, StorageFull, StopFor, WhyStopped
<1>6. CASE Stopping
  BY <1>1, <1>6
  DEF Stopping, Finish, Stopped, KillOwned, KillCli, Sweep, SignalOwned, WhyStopped
<1> QED BY <1>2, <1>3, <1>4, <1>5, <1>6
        DEF SupervisedNext, SupervisorNext, supervisedVars

(* The exit of the command line is known before execute returns.           *)
LEMMA StepsAreExecutions ==
  ASSUME SupervisorInv, WhyStopped, [SupervisedNext]_supervisedVars
  PROVE  [Promise!ExecutionNext]_(Promise!executionVars)
<1>1. CASE UNCHANGED supervisorVars
  BY <1>1 DEF supervisorVars, Promise!executionVars
<1>2. CASE Environment
  <2>1. UNCHANGED <<watch, why>> /\ watch # "idle"
    BY <1>2 DEF Environment, Fork, OtherStarts, Exit, CliExits, Dies
  <2>2. watch = "returned" => code' = code
    <3>1. 1 \in Pids
      BY DEF Pids
    <3> QED BY <1>2, <3>1
            DEF SupervisorInv, OneCli, Environment, Fork, OtherStarts, Exit, CliExits, Dies
  <2> QED BY <2>1, <2>2 DEF Promise!executionVars
<1>3. CASE watch = "idle" /\ Starts
  BY <1>3 DEF Starts, Promise!ExecutionNext, Promise!Launch
<1>4. CASE watch = "idle" /\ StartFails
  BY <1>4 DEF StartFails, Promise!ExecutionNext, Promise!LaunchFails
<1>5. CASE Scan \/ Interrupted \/ TimesOut \/ StorageFull
  BY <1>5
  DEF Scan, Interrupted, TimesOut, StorageFull, StopFor, Promise!executionVars
<1>6. CASE Finish \/ Stopped \/ KillOwned \/ KillCli
  BY <1>6 DEF Finish, Stopped, KillOwned, KillCli, Promise!executionVars
<1>7. CASE Sweep
  <2>1. /\ watch = "sweep" /\ watch' = "returned" /\ code' \in {"zero", "other"}
        /\ why' \in {"", "TIMED_OUT", "STORAGE_LIMIT", "INTERRUPTED"}
        /\ why' = "INTERRUPTED" => ContextDone
    BY <1>7 DEF Sweep, SignalOwned, Done, WhyStopped
  <2> QED BY <2>1
          DEF Promise!ExecutionNext, Promise!Return, ContextDone, Promise!ContextDone
<1> QED BY <1>1, <1>2, <1>3, <1>4, <1>5, <1>6, <1>7
        DEF SupervisedNext, SupervisorNext, Stopping, supervisedVars

(* The supervision of an attempt behaves like the Execution that the       *)
(* matrix counts on: started or not, once, and returned once, with an exit *)
(* and a reason.                                                           *)
THEOREM BehavesLikeExecution ==
  SupervisorSpec => Promise!ExecutionInit /\ [][Promise!ExecutionNext]_(Promise!executionVars)
<1>1. SupervisorInit => Promise!ExecutionInit
  BY DEF SupervisorInit, Promise!ExecutionInit
<1>2. SupervisorInv /\ [SupervisedNext]_supervisedVars => SupervisorInv'
  BY SupervisedStepPreserves
<1> QED BY <1>1, <1>2, SupervisorInitially, WhyInitially, WhyRemains, StepsAreExecutions, PTL
        DEF SupervisorSpec

-----------------------------------------------------------------------------
(***************************************************************************)
(* A campaign with seeds of any width and any limit.                       *)
(***************************************************************************)
USE CampaignAssumption

SeedResult ==
  [seed : Seeds, status : Counters, violations : BOOLEAN, checkers : SUBSET Checkers,
   err : BOOLEAN]

Span == seedEnd - seedStart + 1

CampaignTypeOK ==
  /\ seedStart \in Seeds /\ seedEnd \in Seeds /\ index \in Int
  /\ results \in Seq(SeedResult)
  /\ count \in [Counters -> Nat]

(* The results of a campaign so far, up to an early stop.                  *)
Accounted ==
  /\ phase = "start" => results = <<>> /\ index = 0 /\ ~early
  /\ phase \in {"loop", "reported"} => ~TooLong
  /\ phase # "refused" /\ ~early => index = Len(results) /\ (phase # "start" => index <= Span)
  /\ phase = "reported" /\ ~early => index >= Span
  /\ \A i \in 1 .. Len(results) :
       /\ results[i].seed = seedStart + i - 1
       /\ results[i].status = "PASSED" => ~results[i].violations /\ ~results[i].err
       /\ count[results[i].status] > 0
  /\ early => index >= Span
  /\ phase = "loop" /\ index < Span => index = Len(results)

CampaignInv == CampaignTypeOK /\ Accounted

-----------------------------------------------------------------------------
(* Arithmetic that wraps around, where it does not.                        *)

LEMMA SignedIsExact ==
  ASSUME NEW x \in Seeds
  PROVE  Signed(x) = x
<1>1. x + Half \in 0 .. 2 * Half - 1 /\ 2 * Half \in Nat \ {0}
  BY DEF Seeds
<1>2. (x + Half) % (2 * Half) = x + Half
  BY <1>1, SmallRemainder
<1> QED BY <1>2 DEF Signed, Seeds

(* A range that is not refused has the length that is computed for it.     *)
LEMMA TotalIsExact ==
  ASSUME seedStart \in Seeds, seedEnd \in Seeds, ~TooLong
  PROVE  TotalSeeds = Span /\ Span \in 1 .. Limit
<1>1. seedStart <= seedEnd /\ Unsigned(seedEnd - seedStart) < Limit
  BY DEF TooLong, Seeds, Unsigned
<1>2. seedEnd - seedStart \in 0 .. 2 * Half - 1 /\ 2 * Half \in Nat \ {0}
  BY <1>1 DEF Seeds
<1>3. Unsigned(seedEnd - seedStart) = seedEnd - seedStart
  BY <1>2, SmallRemainder DEF Unsigned
<1>4. seedEnd - seedStart \in 0 .. Limit - 1
  BY <1>1, <1>2, <1>3
<1>5. seedEnd - seedStart \in Seeds /\ seedEnd - seedStart + 1 \in Seeds
  BY <1>4 DEF Seeds
<1> QED BY <1>4, <1>5, SignedIsExact DEF TotalSeeds, Span

-----------------------------------------------------------------------------

LEMMA CampaignInitially == CampaignInit => CampaignInv
<1> SUFFICES ASSUME CampaignInit PROVE CampaignInv
  OBVIOUS
<1>1. results = <<>> /\ results \in Seq(SeedResult) /\ Len(results) = 0
  BY EmptySeq DEF CampaignInit
<1>2. CampaignTypeOK
  BY <1>1 DEF CampaignInit, CampaignTypeOK
<1>3. Accounted
  BY <1>1 DEF CampaignInit, Accounted
<1> QED BY <1>2, <1>3 DEF CampaignInv

LEMMA RangePreserves ==
  ASSUME CampaignInv, Start
  PROVE  CampaignInv'
<1>1. /\ phase = "start" /\ phase' = (IF TooLong THEN "refused" ELSE "loop")
      /\ UNCHANGED <<seedStart, seedEnd, index, results, count, early>>
  BY DEF Start, range
<1>2. results = <<>> /\ Len(results) = 0 /\ index = 0 /\ ~early
  BY <1>1, EmptySeq DEF CampaignInv, Accounted
<1>3. CampaignTypeOK' /\ results' = <<>> /\ Len(results') = 0 /\ index' = 0
  BY <1>1, <1>2 DEF CampaignInv, CampaignTypeOK
<1>6. ~early'
  BY <1>1, <1>2, Zenon
<1>4. CASE TooLong
  BY <1>1, <1>3, <1>6, <1>4 DEF CampaignInv, Accounted
<1>5. CASE ~TooLong
  <2>1. Span \in 1 .. Limit /\ Span' = Span /\ TooLong' = TooLong
    BY <1>1, <1>5, TotalIsExact DEF CampaignInv, CampaignTypeOK, Span, TooLong
  <2> QED BY <1>1, <1>3, <1>6, <1>5, <2>1 DEF CampaignInv, Accounted
<1> QED BY <1>4, <1>5

(* A status that counts as passed has nothing against it.                  *)
LEMMA NormalIsHonest ==
  ASSUME NEW r \in Reports \union {NoResult}
  PROVE  /\ Normal(r) \in Counters
         /\ Normal(r) = "PASSED" => r.violations = {} /\ ~r.err
BY DEF Reports, NoResult, Normal, Counters

(* The result that a seed appends.                                         *)
LEMMA RunSeedAppends ==
  ASSUME CampaignInv, RunSeed
  PROVE  \E e \in SeedResult :
           /\ results' = Append(results, e)
           /\ count' = [count EXCEPT ![e.status] = @ + 1]
           /\ e.seed = seedStart + index
           /\ e.status = "PASSED" => ~e.violations /\ ~e.err
           /\ \/ early' = TRUE /\ index' = TotalSeeds
              \/ /\ early' = early /\ index' = index + 1
                 /\ stopOnFailure => e.status = "PASSED"
<1>1. PICK r \in Reports \union {NoResult} :
        \E named \in SUBSET Checkers : Count(r, named)
  BY DEF RunSeed, Reports, NoResult
<1>2. PICK named \in SUBSET Checkers : Count(r, named)
  BY <1>1
<1> DEFINE e == [seed |-> Signed(seedStart + index), status |-> Normal(r),
                 violations |-> r.violations # {}, checkers |-> named, err |-> r.err]
<1>3. /\ phase = "loop" /\ index < TotalSeeds
      /\ results' = Append(results, e)
      /\ count' = [count EXCEPT ![Normal(r)] = @ + 1]
  BY <1>2 DEF RunSeed, InLoop, Count
<1>4. \/ early' = TRUE /\ index' = TotalSeeds
      \/ early' = early /\ index' = index + 1 /\ (stopOnFailure => Normal(r) = "PASSED")
  BY <1>2 DEF Count
<1>5. TotalSeeds = Span /\ Span \in 1 .. Limit /\ seedStart \in Seeds /\ seedEnd \in Seeds
  BY <1>3, TotalIsExact DEF CampaignInv, CampaignTypeOK, Accounted
<1>6. index = Len(results) /\ index < Span /\ Len(results) \in Nat
  BY <1>3, <1>5, LenProperties DEF CampaignInv, CampaignTypeOK, Accounted
<1>7. Signed(seedStart + index) = seedStart + index /\ seedStart + index \in Seeds
  <2>1. seedStart + index \in Seeds
    BY <1>5, <1>6 DEF Seeds, Span
  <2> QED BY <2>1, SignedIsExact
<1>8. /\ Normal(r) \in Counters /\ r.err \in BOOLEAN
      /\ Normal(r) = "PASSED" => r.violations = {} /\ ~r.err
  <2>1. r.err \in BOOLEAN
    <3>1. CASE r \in Reports
      BY <3>1 DEF Reports
    <3>2. CASE r = NoResult
      BY <3>2 DEF NoResult
    <3> QED BY <3>1, <3>2
  <2> QED BY <2>1, NormalIsHonest
<1>9. /\ e \in SeedResult /\ e.seed = seedStart + index /\ e.status = Normal(r)
      /\ e.status = "PASSED" => ~e.violations /\ ~e.err
  BY <1>7, <1>8 DEF SeedResult
<1> HIDE DEF e
<1> QED BY <1>3, <1>4, <1>9

LEMMA RunSeedPreserves ==
  ASSUME CampaignInv, RunSeed
  PROVE  CampaignInv'
<1>1. PICK e \in SeedResult :
        /\ results' = Append(results, e)
        /\ count' = [count EXCEPT ![e.status] = @ + 1]
        /\ e.seed = seedStart + index
        /\ e.status = "PASSED" => ~e.violations /\ ~e.err
        /\ \/ early' = TRUE /\ index' = TotalSeeds
           \/ early' = early /\ index' = index + 1
  BY RunSeedAppends
<1>3. /\ phase = "loop" /\ index < TotalSeeds
      /\ UNCHANGED <<seedStart, seedEnd, phase>>
  BY DEF RunSeed, InLoop, range
<1>5. /\ seedStart \in Seeds /\ seedEnd \in Seeds /\ results \in Seq(SeedResult)
      /\ Len(results) \in Nat /\ count \in [Counters -> Nat] /\ ~TooLong
      /\ e.status \in Counters
  BY <1>3, LenProperties DEF CampaignInv, CampaignTypeOK, Accounted, SeedResult
<1>6. TotalSeeds = Span /\ Span \in 1 .. Limit /\ Span' = Span
  BY <1>3, <1>5, TotalIsExact DEF Span
<1>7. index = Len(results) /\ index < Span
  BY <1>3, <1>6 DEF CampaignInv, Accounted
<1>11. /\ results' \in Seq(SeedResult) /\ Len(results') = Len(results) + 1
       /\ \A i \in 1 .. Len(results) : results'[i] = results[i]
       /\ results'[Len(results) + 1] = e
  BY <1>1, <1>5, AppendProperties
<1>12. /\ count' \in [Counters -> Nat] /\ count'[e.status] > 0
       /\ \A c \in Counters : count'[c] >= count[c]
  BY <1>1, <1>5
<1>13. CampaignTypeOK'
  BY <1>1, <1>3, <1>5, <1>6, <1>7, <1>11, <1>12 DEF CampaignTypeOK
<1>14. ASSUME NEW i \in 1 .. Len(results')
       PROVE  /\ results'[i].seed = seedStart + i - 1
              /\ results'[i].status = "PASSED" => ~results'[i].violations /\ ~results'[i].err
              /\ count'[results'[i].status] > 0
  <2>1. CASE i = Len(results) + 1
    BY <1>5, <1>1, <1>7, <1>11, <1>12, <2>1 DEF Seeds
  <2>2. CASE i \in 1 .. Len(results)
    <3>1. results[i] \in SeedResult /\ results'[i] = results[i]
      BY <1>5, <1>11, <2>2, ElementOfSeq
    <3>2. /\ results[i].seed = seedStart + i - 1
          /\ results[i].status = "PASSED" => ~results[i].violations /\ ~results[i].err
          /\ count[results[i].status] > 0
      BY <2>2 DEF CampaignInv, Accounted
    <3>3. results[i].status \in Counters
      BY <3>1 DEF SeedResult
    <3>4. count'[results[i].status] >= count[results[i].status]
      BY <1>12, <3>3
    <3>5. count'[results[i].status] \in Nat /\ count[results[i].status] \in Nat
      BY <1>5, <1>12, <3>3
    <3> QED BY <3>1, <3>2, <3>4, <3>5
  <2> QED BY <1>5, <1>11, <2>1, <2>2
<1>15. TooLong' = TooLong
  BY <1>3 DEF TooLong
<1>16. CASE early' = TRUE /\ index' = TotalSeeds
  BY <1>3, <1>5, <1>6, <1>7, <1>11, <1>13, <1>14, <1>15, <1>16
  DEF CampaignInv, Accounted
<1>17. CASE early' = early /\ index' = index + 1
  <2>1. early => index >= Span
    BY DEF CampaignInv, Accounted
  <2>2. ~early
    BY <1>6, <1>7, <2>1 DEF Span, Seeds
  <2>3. ~early'
    BY <1>17, <2>2, Zenon
  <2>4. index' <= Span /\ index' = Len(results')
    BY <1>5, <1>6, <1>7, <1>11, <1>17
  <2> QED BY <1>3, <1>6, <1>13, <1>14, <1>15, <2>3, <2>4 DEF CampaignInv, Accounted
<1> QED BY <1>1, <1>16, <1>17

LEMMA InterruptPreserves ==
  ASSUME CampaignInv, Interrupt
  PROVE  CampaignInv'
<1>1. /\ phase = "loop" /\ early' = TRUE /\ index' = TotalSeeds
      /\ count' = [count EXCEPT !["ABORTED"] = @ + 1]
      /\ UNCHANGED <<seedStart, seedEnd, phase, results>>
  BY DEF Interrupt, InLoop, range
<1>2. TotalSeeds = Span /\ Span \in 1 .. Limit /\ Span' = Span /\ TooLong' = TooLong
  BY <1>1, TotalIsExact DEF CampaignInv, CampaignTypeOK, Accounted, Span, TooLong
<1>3. /\ count \in [Counters -> Nat] /\ count' \in [Counters -> Nat]
      /\ \A c \in Counters : count'[c] >= count[c]
  BY <1>1 DEF CampaignInv, CampaignTypeOK, Counters
<1>4. CampaignTypeOK'
  BY <1>1, <1>2, <1>3 DEF CampaignInv, CampaignTypeOK
<1>5. ASSUME NEW i \in 1 .. Len(results)
      PROVE  count'[results[i].status] > 0
  <2>1. results[i] \in SeedResult /\ count[results[i].status] > 0
    BY ElementOfSeq DEF CampaignInv, CampaignTypeOK, Accounted
  <2>2. results[i].status \in Counters
    BY <2>1 DEF SeedResult
  <2> QED BY <1>3, <2>1, <2>2
<1>6. Accounted'
  BY <1>1, <1>2, <1>5 DEF CampaignInv, Accounted
<1> QED BY <1>4, <1>6 DEF CampaignInv

LEMMA CampaignRestPreserves ==
  ASSUME CampaignInv, Report \/ CampaignCancel \/ UNCHANGED cvars
  PROVE  CampaignInv'
<1>1. /\ UNCHANGED <<seedStart, seedEnd, index, results, count, early>>
      /\ \/ UNCHANGED phase
         \/ phase = "loop" /\ phase' = "reported" /\ index >= TotalSeeds
  BY DEF Report, CampaignCancel, cvars, range
<1>2. CampaignTypeOK' /\ Span' = Span /\ TooLong' = TooLong
  BY <1>1 DEF CampaignInv, CampaignTypeOK, Span, TooLong
<1>3. phase = "loop" => TotalSeeds = Span /\ Span \in Int
  BY TotalIsExact DEF CampaignInv, CampaignTypeOK, Accounted
<1>4. Accounted'
  BY <1>1, <1>2, <1>3 DEF CampaignInv, Accounted
<1> QED BY <1>2, <1>4 DEF CampaignInv

LEMMA CampaignInvariance == CampaignSpec => []CampaignInv
<1>1. ASSUME CampaignInv, [CampaignNext]_cvars PROVE CampaignInv'
  BY <1>1, RangePreserves, RunSeedPreserves, InterruptPreserves, CampaignRestPreserves
  DEF CampaignNext
<1> QED BY <1>1, CampaignInitially, PTL DEF CampaignSpec

LEMMA GreenHolds == CampaignInv => GreenMeansAllPassed
<1>1. ASSUME CampaignInv, Green
      PROVE  /\ Len(results) = Span
             /\ \A i \in 1 .. Len(results) :
                  /\ results[i].seed = seedStart + i - 1
                  /\ results[i].status = "PASSED"
                  /\ ~results[i].violations /\ ~results[i].err
  <2>1. phase = "reported" /\ ~early
    BY <1>1 DEF Green
  <2>2. index = Len(results) /\ index <= Span /\ index >= Span /\ Span \in Int
    BY <1>1, <2>1, TotalIsExact DEF CampaignInv, CampaignTypeOK, Accounted
  <2>3. ASSUME NEW i \in 1 .. Len(results)
        PROVE  results[i].status = "PASSED"
    <3>0. results[i] \in SeedResult
      BY <1>1, ElementOfSeq DEF CampaignInv, CampaignTypeOK
    <3>1. results[i].status \in Counters
      BY <3>0 DEF SeedResult
    <3>2. count[results[i].status] > 0
      BY <1>1 DEF CampaignInv, Accounted
    <3> QED BY <1>1, <3>1, <3>2 DEF Green
  <2>4. Len(results) \in Nat
    BY <1>1, LenProperties DEF CampaignInv, CampaignTypeOK
  <2> QED BY <1>1, <2>2, <2>3, <2>4 DEF CampaignInv, Accounted
<1>2. ASSUME CampaignInv PROVE DOMAIN results = 1 .. Len(results)
  BY <1>2, LenProperties DEF CampaignInv, CampaignTypeOK
<1> QED BY <1>1, <1>2 DEF GreenMeansAllPassed, Span

(* A campaign that is called a success has run every seed of its range,    *)
(* once and in order, and every run has passed.                            *)
THEOREM GreenIsEarned == CampaignSpec => []GreenMeansAllPassed
BY GreenHolds, CampaignInvariance, PTL

-----------------------------------------------------------------------------
(* The counters, the groups, and where a campaign that stops on failure    *)
(* stops.                                                                  *)

Tally ==
  /\ \A s \in Counters \ {"ABORTED"} : count[s] = Occurrences(s)
  /\ count["ABORTED"] - Occurrences("ABORTED")
       \in IF cancelled /\ early THEN {0, 1} ELSE {0}

StopsAtFailure ==
  stopOnFailure =>
    /\ \A i \in 1 .. Len(results) - 1 : results[i].status = "PASSED"
    /\ ~early => \A i \in 1 .. Len(results) : results[i].status = "PASSED"

(* A set of seeds that have violations.                                    *)
OfViolations(seeds) ==
  \A seed \in seeds :
    \E i \in DOMAIN results : results[i].seed = seed /\ results[i].violations

AccountInv ==
  /\ Tally /\ StopsAtFailure
  /\ phase = "reported" => \A c \in Checkers : OfViolations(groups[c])

(* One more result, one more occurrence of its status.                     *)
LEMMA OneMoreOccurs ==
  ASSUME results \in Seq(SeedResult), NEW e \in SeedResult, results' = Append(results, e), NEW s
  PROVE  /\ Occurrences(s) \in Nat
         /\ Occurrences(s)' = Occurrences(s) + (IF e.status = s THEN 1 ELSE 0)
<1> DEFINE n == Len(results)
           I == {i \in 1 .. n : results[i].status = s}
           J == {i \in 1 .. n + 1 : results'[i].status = s}
<1>1. n \in Nat /\ DOMAIN results = 1 .. n
  BY LenProperties
<1>2. /\ DOMAIN results' = 1 .. n + 1 /\ results'[n + 1] = e
      /\ \A i \in 1 .. n : results'[i] = results[i]
  <2>1. Append(results, e) \in Seq(SeedResult) /\ Len(Append(results, e)) = n + 1
    BY AppendProperties
  <2> QED BY <2>1, AppendProperties, LenProperties
<1>3. IsFiniteSet(I) /\ Cardinality(I) \in Nat
  <2>1. IsFiniteSet(1 .. n) /\ I \in SUBSET (1 .. n)
    BY <1>1, FS_Interval
  <2> QED BY <2>1, FS_Subset, FS_CardinalityType
<1>4. Occurrences(s) = Cardinality(I) /\ Occurrences(s)' = Cardinality(J)
  BY <1>1, <1>2 DEF Occurrences
<1>5. CASE e.status = s
  <2>1. J = I \union {n + 1} /\ n + 1 \notin I
    BY <1>1, <1>2, <1>5
  <2>2. Cardinality(J) = Cardinality(I) + 1
    BY <1>3, <2>1, FS_AddElement
  <2> QED BY <1>3, <1>4, <1>5, <2>2
<1>6. CASE e.status # s
  <2>1. J = I
    BY <1>1, <1>2, <1>6
  <2> HIDE DEF I, J
  <2> QED BY <1>3, <1>4, <1>6, <2>1
<1> QED BY <1>5, <1>6

LEMMA AccountInitially == CampaignInit => AccountInv
<1> SUFFICES ASSUME CampaignInit PROVE AccountInv
  OBVIOUS
<1>1. /\ results = <<>> /\ Len(results) = 0 /\ DOMAIN results = {} /\ ~early
      /\ phase # "reported" /\ count = [c \in Counters |-> 0]
  BY DEF CampaignInit
<1>2. \A s : Occurrences(s) = 0
  <2>1. \A s : {i \in DOMAIN results : results[i].status = s} = {}
    BY <1>1
  <2> QED BY <2>1, FS_EmptySet DEF Occurrences
<1> QED BY <1>1, <1>2 DEF AccountInv, Tally, StopsAtFailure, Counters

LEMMA RunSeedAccounts ==
  ASSUME CampaignInv, AccountInv, RunSeed
  PROVE  AccountInv'
<1>1. PICK e \in SeedResult :
        /\ results' = Append(results, e)
        /\ count' = [count EXCEPT ![e.status] = @ + 1]
        /\ \/ early' = TRUE
           \/ early' = early /\ (stopOnFailure => e.status = "PASSED")
  BY RunSeedAppends
<1>2. /\ phase = "loop" /\ index < TotalSeeds /\ ~cancelled
      /\ UNCHANGED <<phase, stopOnFailure, cancelled>>
  BY DEF RunSeed, InLoop, range
<1>3. /\ results \in Seq(SeedResult) /\ Len(results) \in Nat
      /\ count \in [Counters -> Nat] /\ e.status \in Counters
  BY LenProperties DEF CampaignInv, CampaignTypeOK, SeedResult
<1>4. ~early
  <2>1. TotalSeeds = Span /\ Span \in Int /\ index \in Int
    BY <1>2, TotalIsExact DEF CampaignInv, CampaignTypeOK, Accounted
  <2> QED BY <1>2, <2>1 DEF CampaignInv, Accounted
<1>5. ASSUME NEW s \in Counters
      PROVE  /\ count'[s] - Occurrences(s)' = count[s] - Occurrences(s)
             /\ count'[s] \in Nat /\ count[s] \in Nat /\ Occurrences(s) \in Nat
             /\ Occurrences(s)' \in Nat
  <2>1. /\ Occurrences(s) \in Nat
        /\ Occurrences(s)' = Occurrences(s) + (IF e.status = s THEN 1 ELSE 0)
    BY <1>1, <1>3, OneMoreOccurs
  <2>2. count'[s] = count[s] + (IF e.status = s THEN 1 ELSE 0) /\ count[s] \in Nat
    BY <1>1, <1>3
  <2> QED BY <2>1, <2>2
<1>6. Tally'
  <2>1. \A s \in Counters \ {"ABORTED"} : count'[s] = Occurrences(s)'
    BY <1>5 DEF AccountInv, Tally
  <2>2. count'["ABORTED"] - Occurrences("ABORTED")' = 0
    BY <1>2, <1>5 DEF AccountInv, Tally, Counters
  <2> QED BY <2>1, <2>2 DEF Tally
<1>7. StopsAtFailure'
  <2> SUFFICES ASSUME stopOnFailure'
               PROVE  /\ \A i \in 1 .. Len(results') - 1 : results'[i].status = "PASSED"
                      /\ ~early' => \A i \in 1 .. Len(results') : results'[i].status = "PASSED"
    BY DEF StopsAtFailure
  <2>1. \A i \in 1 .. Len(results) : results[i].status = "PASSED"
    BY <1>2, <1>4 DEF AccountInv, StopsAtFailure
  <2>2. /\ Len(results') = Len(results) + 1 /\ results'[Len(results) + 1] = e
        /\ \A i \in 1 .. Len(results) : results'[i] = results[i]
    BY <1>1, <1>3, AppendProperties
  <2>3. ~early' => e.status = "PASSED"
    BY <1>1, <1>2
  <2> QED BY <1>3, <2>1, <2>2, <2>3
<1> QED BY <1>2, <1>6, <1>7 DEF AccountInv

LEMMA InterruptAccounts ==
  ASSUME CampaignInv, AccountInv, Interrupt
  PROVE  AccountInv'
<1>1. /\ phase = "loop" /\ index < TotalSeeds /\ cancelled /\ early' = TRUE
      /\ count' = [count EXCEPT !["ABORTED"] = @ + 1]
      /\ UNCHANGED <<phase, stopOnFailure, results, cancelled>>
  BY DEF Interrupt, InLoop, range
<1>2. ~early
  <2>1. TotalSeeds = Span /\ Span \in Int /\ index \in Int
    BY <1>1, TotalIsExact DEF CampaignInv, CampaignTypeOK, Accounted
  <2> QED BY <1>1, <2>1 DEF CampaignInv, Accounted
<1>3. count \in [Counters -> Nat] /\ "ABORTED" \in Counters
  BY DEF CampaignInv, CampaignTypeOK, Counters
<1>4. \A s : Occurrences(s)' = Occurrences(s)
  BY <1>1 DEF Occurrences
<1>5. Occurrences("ABORTED") \in Nat
  <2>1. results \in Seq(SeedResult)
    BY DEF CampaignInv, CampaignTypeOK
  <2> DEFINE I == {i \in DOMAIN results : results[i].status = "ABORTED"}
  <2>2. Len(results) \in Nat /\ DOMAIN results = 1 .. Len(results)
    BY <2>1, LenProperties
  <2>3. IsFiniteSet(I)
    <3>1. IsFiniteSet(1 .. Len(results)) /\ I \in SUBSET (1 .. Len(results))
      BY <2>2, FS_Interval
    <3> QED BY <3>1, FS_Subset
  <2>4. Occurrences("ABORTED") = Cardinality(I)
    BY DEF Occurrences
  <2> HIDE DEF I
  <2> QED BY <2>3, <2>4, FS_CardinalityType
<1>6. Tally'
  <2>1. \A s \in Counters \ {"ABORTED"} : count'[s] = Occurrences(s)'
    BY <1>1, <1>3, <1>4 DEF AccountInv, Tally
  <2>2. count["ABORTED"] - Occurrences("ABORTED") = 0
    BY <1>2 DEF AccountInv, Tally
  <2>3. count'["ABORTED"] - Occurrences("ABORTED")' = 1
    BY <1>1, <1>3, <1>4, <1>5, <2>2
  <2> QED BY <1>1, <2>1, <2>3 DEF Tally
<1>7. StopsAtFailure'
  BY <1>1 DEF AccountInv, StopsAtFailure
<1> QED BY <1>1, <1>6, <1>7 DEF AccountInv

(* The groups name only seeds with violations.                             *)
LEMMA GroupsAreFair ==
  ASSUME NEW c \in Checkers
  PROVE  OfViolations(GroupFailures[c])
BY DEF GroupFailures, OfViolations

LEMMA RestAccounts ==
  ASSUME CampaignInv, AccountInv, Start \/ Report \/ CampaignCancel \/ UNCHANGED cvars
  PROVE  AccountInv'
<1>1. /\ UNCHANGED <<stopOnFailure, results, count, early>>
      /\ cancelled => cancelled'
      /\ \/ UNCHANGED <<phase, groups>>
         \/ phase' = "reported" /\ groups' = GroupFailures
         \/ phase' # "reported"
  BY DEF Start, Report, CampaignCancel, cvars, range, Cancel
<1>2. \A s : Occurrences(s)' = Occurrences(s)
  BY <1>1 DEF Occurrences
<1>3. Tally'
  <2>1. \A s \in Counters \ {"ABORTED"} : count'[s] = Occurrences(s)'
    BY <1>1, <1>2 DEF AccountInv, Tally
  <2>2. count'["ABORTED"] - Occurrences("ABORTED")' = count["ABORTED"] - Occurrences("ABORTED")
    BY <1>1, <1>2
  <2>3. CASE cancelled /\ early
    BY <1>1, <2>1, <2>2, <2>3 DEF AccountInv, Tally
  <2>4. CASE ~(cancelled /\ early)
    BY <2>1, <2>2, <2>4 DEF AccountInv, Tally
  <2> QED BY <2>3, <2>4
<1>4. StopsAtFailure'
  BY <1>1 DEF AccountInv, StopsAtFailure
<1>5. ASSUME phase' = "reported", NEW c \in Checkers PROVE OfViolations(groups[c])'
  <2>1. CASE phase = "reported" /\ UNCHANGED groups
    BY <1>1, <2>1 DEF AccountInv, OfViolations
  <2>2. CASE groups' = GroupFailures
    <3>1. OfViolations(GroupFailures[c])
      BY GroupsAreFair DEF CampaignInv, CampaignTypeOK
    <3> QED BY <1>1, <2>2, <3>1 DEF OfViolations
  <2> QED BY <1>1, <1>5, <2>1, <2>2
<1> QED BY <1>3, <1>4, <1>5 DEF AccountInv

LEMMA AccountPreserved ==
  ASSUME CampaignInv, AccountInv, [CampaignNext]_cvars
  PROVE  AccountInv'
BY RunSeedAccounts, InterruptAccounts, RestAccounts DEF CampaignNext

LEMMA AccountsAreExact ==
  ASSUME CampaignInv, AccountInv
  PROVE  EverySeedIsAccountedFor
<1> SUFFICES ASSUME phase = "reported" PROVE EverySeedIsAccountedFor
  BY DEF EverySeedIsAccountedFor
<1>1. /\ results \in Seq(SeedResult) /\ DOMAIN results = 1 .. Len(results)
      /\ Len(results) \in Nat
  BY LenProperties DEF CampaignInv, CampaignTypeOK
<1>2. \A i \in DOMAIN results : results[i].status \in Counters
  <2>1. \A i \in 1 .. Len(results) : results[i] \in SeedResult
    BY <1>1, ElementOfSeq
  <2> QED BY <1>1, <2>1 DEF SeedResult
<1>3. ~early => Len(results) = TotalSeeds
  BY TotalIsExact DEF CampaignInv, CampaignTypeOK, Accounted
<1> QED BY <1>2, <1>3
        DEF EverySeedIsAccountedFor, AccountInv, Tally, StopsAtFailure, OfViolations

(* The counters and groups of a reported campaign account for each of its  *)
(* seeds, whatever fails, stops or interrupts it.                          *)
THEOREM SeedsAreAccountedFor == CampaignSpec => []EverySeedIsAccountedFor
<1>1. CampaignInit => AccountInv
  BY AccountInitially
<1> QED BY <1>1, AccountPreserved, AccountsAreExact, CampaignInvariance, PTL
        DEF CampaignSpec

-----------------------------------------------------------------------------
(***************************************************************************)
(* The minimizer, for every run it may be given.                           *)
(***************************************************************************)
USE MinimizerAssumption

Fault == Range(Faults)
Candidate == [faults : Seq(Fault), clients : Nat, duration : Nat \X Nat]

MinimizerTypeOK ==
  /\ base \in Candidate /\ best \in Candidate /\ next \in Nat \ {0}

(* What the loops accept has been seen to fail.                            *)
Accepted ==
  /\ step \notin {"baseline", "error"} => best \in failing
  /\ saved \subseteq failing

(* The loops change one field after the other.                             *)
Order ==
  /\ step = "baseline" => best = base /\ next = 1
  /\ step \in {"faults", "clients"} => best.duration = base.duration
  /\ step = "faults" => best.clients = base.clients

(* Each loop leaves behind what it tried in vain.                          *)
WithoutFault(c, i) == [base EXCEPT !.faults = RemoveAt(c.faults, i)]
OneClientLess(c) == [base EXCEPT !.faults = c.faults, !.clients = c.clients - 1]

FaultsTried(c, k) ==
  \A i \in 1 .. Len(c.faults) : i < k => WithoutFault(c, i) \in refused
ClientsTried(c) == c.clients > 1 => OneClientLess(c) \in refused
DurationTried(c) ==
  c.duration[1] > 1000 => [c EXCEPT !.duration = Shorter(c.duration)] \in refused

AllTried(c) == FaultsTried(c, Len(c.faults) + 1) /\ ClientsTried(c) /\ DurationTried(c)

Tried ==
  /\ step = "faults" => FaultsTried(best, next)
  /\ step \in {"clients", "duration", "save"} => FaultsTried(best, Len(best.faults) + 1)
  /\ step \in {"duration", "save"} => ClientsTried(best)
  /\ step = "save" => DurationTried(best)
  /\ \A c \in saved : c \in Candidate /\ AllTried(c)

MinimizerInv == MinimizerTypeOK /\ Accepted /\ Order /\ Tried

-----------------------------------------------------------------------------

LEMMA RemovedIsShorter ==
  ASSUME NEW s \in Seq(Fault), NEW i \in 1 .. Len(s)
  PROVE  RemoveAt(s, i) \in Seq(Fault)
<1>1. Len(s) \in Nat
  BY LenProperties
<1>2. SubSeq(s, 1, i - 1) \in Seq(Fault)
  <2>1. 1 \in Int /\ i - 1 \in Int /\ \A j \in 1 .. i - 1 : s[j] \in Fault
    BY <1>1, ElementOfSeq
  <2> QED BY <2>1, SubSeqProperties
<1>3. SubSeq(s, i + 1, Len(s)) \in Seq(Fault)
  <2>1. i + 1 \in Int /\ Len(s) \in Int /\ \A j \in i + 1 .. Len(s) : s[j] \in Fault
    BY <1>1, ElementOfSeq
  <2> QED BY <2>1, SubSeqProperties
<1> QED BY <1>2, <1>3, ConcatProperties DEF RemoveAt

LEMMA ShorterIsTyped ==
  ASSUME NEW d \in Nat \X Nat
  PROVE  Shorter(d) \in Nat \X Nat
BY DEF Shorter

LEMMA MinimizerInitially == MinimizerInit => MinimizerInv
<1> SUFFICES ASSUME MinimizerInit PROVE MinimizerInv
  OBVIOUS
<1>1. base \in Candidate
  <2>1. base \in Originals
    BY DEF MinimizerInit
  <2>2. <<>> \in Seq(Fault) /\ Faults \in Seq(Fault)
    BY EmptySeq DEF Fault
  <2> QED BY <2>1, <2>2 DEF Originals, Candidate
<1> QED BY <1>1 DEF MinimizerInit, MinimizerInv, MinimizerTypeOK, Accepted, Order, Tried

(* What has been tried remains so while more is tried.                     *)
LEMMA TriedRemains ==
  ASSUME refused \subseteq refused', base' = base, NEW c
  PROVE  /\ \A k : FaultsTried(c, k) => FaultsTried(c, k)'
         /\ ClientsTried(c) => ClientsTried(c)'
         /\ DurationTried(c) => DurationTried(c)'
         /\ AllTried(c) => AllTried(c)'
BY DEF FaultsTried, ClientsTried, DurationTried, AllTried, WithoutFault, OneClientLess

-----------------------------------------------------------------------------

(* A step of the loops that goes on with the same candidate.               *)
LEMMA SameBest ==
  ASSUME MinimizerInv, UNCHANGED <<base, best, saved>>, refused \subseteq refused',
         failing \subseteq failing', next' \in Nat \ {0}
  PROVE  MinimizerTypeOK' /\ saved' \subseteq failing'
         /\ \A c \in saved' : c \in Candidate /\ AllTried(c)'
         /\ (best \in failing => best' \in failing')
BY TriedRemains DEF MinimizerInv, MinimizerTypeOK, Accepted, Tried

LEMMA BaselinePreserves ==
  ASSUME MinimizerInv, Baseline
  PROVE  MinimizerInv'
<1>1. /\ step = "baseline" /\ UNCHANGED <<base, best, next, saved>>
      /\ refused \subseteq refused' /\ failing \subseteq failing'
      /\ step' = "faults" => base \in failing'
      /\ step' \in {"faults", "error"}
  BY DEF Baseline, Fails, DoesNot
<1>2. best = base /\ next = 1 /\ next' \in Nat \ {0}
  BY <1>1 DEF MinimizerInv, Order
<1>3. FaultsTried(best, next)'
  BY <1>1, <1>2 DEF FaultsTried
<1> QED BY <1>1, <1>2, <1>3, SameBest DEF MinimizerInv, Accepted, Order, Tried

(* A fault is left out: in vain, and the scan goes on, or with success.    *)
LEMMA TryFaultPreserves ==
  ASSUME MinimizerInv, TryFault
  PROVE  MinimizerInv'
<1> DEFINE c == [best EXCEPT !.faults = RemoveAt(@, next)]
<1>1. /\ step = "faults" /\ next <= Len(best.faults) /\ UNCHANGED <<step, base, saved>>
      /\ best \in Candidate /\ base \in Candidate /\ next \in Nat \ {0}
      /\ best.clients = base.clients /\ best.duration = base.duration
  BY DEF TryFault, MinimizerInv, MinimizerTypeOK, Order
<1>2. Len(best.faults) \in Nat /\ best.faults \in Seq(Fault)
  BY <1>1, LenProperties DEF Candidate
<1>3. RemoveAt(best.faults, next) \in Seq(Fault)
  BY <1>1, <1>2, RemovedIsShorter
<1>4. c \in Candidate /\ c.clients = best.clients /\ c.duration = best.duration
  BY <1>1, <1>3 DEF Candidate
<1>5. c = WithoutFault(best, next)
  BY <1>1 DEF Candidate, WithoutFault
<1> HIDE DEF c
<1>6. CASE Fails(c) /\ best' = c /\ next' = 1
  <2>1. failing' = failing \union {c} /\ refused' = refused
    BY <1>6 DEF Fails
  <2>2. MinimizerTypeOK' /\ Accepted' /\ Order'
    BY <1>1, <1>4, <1>6, <2>1 DEF MinimizerInv, MinimizerTypeOK, Accepted, Order
  <2>3. FaultsTried(best, next)'
    BY <1>6 DEF FaultsTried
  <2>4. \A s \in saved' : s \in Candidate /\ AllTried(s)'
    BY <1>1, <2>1, TriedRemains DEF MinimizerInv, Tried
  <2> QED BY <1>1, <2>2, <2>3, <2>4 DEF MinimizerInv, Tried
<1>7. CASE DoesNot(c) /\ next' = next + 1 /\ UNCHANGED best
  <2>1. failing' = failing /\ refused' = refused \union {c}
    BY <1>7 DEF DoesNot
  <2>2. FaultsTried(best, next)' 
    <3>1. FaultsTried(best, next)
      BY <1>1 DEF MinimizerInv, Tried
    <3>2. ASSUME NEW i \in 1 .. Len(best.faults), i < next + 1
          PROVE  WithoutFault(best, i) \in refused'
      BY <1>1, <1>5, <2>1, <3>1, <3>2 DEF FaultsTried
    <3> QED BY <1>1, <1>7, <3>2 DEF FaultsTried, WithoutFault
  <2>3. next' \in Nat \ {0}
    BY <1>1, <1>7
  <2> QED BY <1>1, <1>7, <2>1, <2>2, <2>3, SameBest
          DEF MinimizerInv, Accepted, Order, Tried
<1> QED BY <1>6, <1>7 DEF TryFault, c

LEMMA FaultsDonePreserves ==
  ASSUME MinimizerInv, FaultsDone
  PROVE  MinimizerInv'
<1>1. /\ step = "faults" /\ next > Len(best.faults) /\ step' = "clients"
      /\ UNCHANGED <<base, best, next, failing, refused, saved>>
  BY DEF FaultsDone, seen
<1>2. best.faults \in Seq(Fault) /\ Len(best.faults) \in Nat /\ next \in Nat \ {0}
  <2>1. best.faults \in Seq(Fault) /\ next \in Nat \ {0}
    BY DEF MinimizerInv, MinimizerTypeOK, Candidate
  <2> QED BY <2>1, LenProperties
<1>3. FaultsTried(best, Len(best.faults) + 1)
  BY <1>1, <1>2 DEF MinimizerInv, Tried, FaultsTried
<1>4. FaultsTried(best, Len(best.faults) + 1)'
  BY <1>1, <1>3 DEF FaultsTried, WithoutFault
<1> QED BY <1>1, <1>2, <1>4, SameBest DEF MinimizerInv, Accepted, Order, Tried

-----------------------------------------------------------------------------
(* The loops over clients and durations.                                   *)

LEMMA TryClientsPreserves ==
  ASSUME MinimizerInv, TryClients
  PROVE  MinimizerInv'
<1> DEFINE c == [best EXCEPT !.clients = @ - 1]
           k == Len(best.faults) + 1
<1>1. /\ step = "clients" /\ best.clients > 1 /\ UNCHANGED <<base, next, saved>>
      /\ best \in Candidate /\ base \in Candidate /\ next \in Nat \ {0}
      /\ best.duration = base.duration /\ FaultsTried(best, k)
  BY DEF TryClients, MinimizerInv, MinimizerTypeOK, Order, Tried
<1>2. c \in Candidate /\ c.faults = best.faults /\ c.duration = best.duration
  <2>1. best.clients - 1 \in Nat
    BY <1>1 DEF Candidate
  <2> QED BY <1>1, <2>1 DEF Candidate
<1>3. c = OneClientLess(best)
  BY <1>1 DEF Candidate, OneClientLess
<1>4. FaultsTried(c, k)
  BY <1>1, <1>2 DEF FaultsTried, WithoutFault
<1> HIDE DEF c
<1>5. CASE Fails(c) /\ best' = c /\ UNCHANGED step
  <2>1. failing' = failing \union {c} /\ refused' = refused
    BY <1>5 DEF Fails
  <2>2. MinimizerTypeOK' /\ Accepted' /\ Order'
    BY <1>1, <1>2, <1>5, <2>1 DEF MinimizerInv, MinimizerTypeOK, Accepted, Order
  <2>3. FaultsTried(best, Len(best.faults) + 1)'
    BY <1>1, <1>2, <1>4, <1>5, <2>1 DEF FaultsTried, WithoutFault
  <2>4. \A s \in saved' : s \in Candidate /\ AllTried(s)'
    BY <1>1, <2>1, TriedRemains DEF MinimizerInv, Tried
  <2> QED BY <1>1, <1>5, <2>2, <2>3, <2>4 DEF MinimizerInv, Tried
<1>6. CASE DoesNot(c) /\ step' = "duration" /\ UNCHANGED best
  <2>1. failing' = failing /\ refused' = refused \union {c}
    BY <1>6 DEF DoesNot
  <2>2. FaultsTried(best, Len(best.faults) + 1)'
    BY <1>1, <1>6, <2>1 DEF FaultsTried, WithoutFault
  <2>3. ClientsTried(best)'
    BY <1>1, <1>3, <1>6, <2>1 DEF ClientsTried, OneClientLess
  <2> QED BY <1>1, <1>6, <2>1, <2>2, <2>3, SameBest
          DEF MinimizerInv, Accepted, Order, Tried
<1> QED BY <1>5, <1>6 DEF TryClients, Shrink, c

LEMMA ClientsDonePreserves ==
  ASSUME MinimizerInv, ClientsDone
  PROVE  MinimizerInv'
<1>1. /\ step = "clients" /\ best.clients <= 1 /\ step' = "duration"
      /\ UNCHANGED <<base, best, next, failing, refused, saved>>
      /\ best.clients \in Nat /\ next \in Nat \ {0}
  BY DEF ClientsDone, seen, MinimizerInv, MinimizerTypeOK, Candidate
<1>2. ClientsTried(best)'
  BY <1>1 DEF ClientsTried
<1>3. FaultsTried(best, Len(best.faults) + 1)'
  BY <1>1 DEF MinimizerInv, Tried, FaultsTried, WithoutFault
<1> QED BY <1>1, <1>2, <1>3, SameBest DEF MinimizerInv, Accepted, Order, Tried

LEMMA TryDurationPreserves ==
  ASSUME MinimizerInv, TryDuration
  PROVE  MinimizerInv'
<1> DEFINE c == [best EXCEPT !.duration = Shorter(@)]
           k == Len(best.faults) + 1
<1>1. /\ step = "duration" /\ best.duration[1] > 1000 /\ UNCHANGED <<base, next, saved>>
      /\ best \in Candidate /\ base \in Candidate /\ next \in Nat \ {0}
      /\ FaultsTried(best, k) /\ ClientsTried(best)
  BY DEF TryDuration, MinimizerInv, MinimizerTypeOK, Tried
<1>2. Shorter(best.duration) \in Nat \X Nat
  BY <1>1, ShorterIsTyped DEF Candidate
<1>3. c \in Candidate /\ c.faults = best.faults /\ c.clients = best.clients
  BY <1>1, <1>2 DEF Candidate
<1>4. FaultsTried(c, k) /\ ClientsTried(c)
  BY <1>1, <1>3 DEF FaultsTried, WithoutFault, ClientsTried, OneClientLess
<1>5. CASE Fails(c) /\ best' = c /\ UNCHANGED step
  <2> HIDE DEF c
  <2>1. failing' = failing \union {c} /\ refused' = refused
    BY <1>5 DEF Fails
  <2>2. MinimizerTypeOK' /\ Accepted' /\ Order'
    BY <1>1, <1>3, <1>5, <2>1 DEF MinimizerInv, MinimizerTypeOK, Accepted, Order
  <2>3. FaultsTried(best, Len(best.faults) + 1)' /\ ClientsTried(best)'
    BY <1>1, <1>3, <1>4, <1>5, <2>1
    DEF FaultsTried, WithoutFault, ClientsTried, OneClientLess
  <2>4. \A s \in saved' : s \in Candidate /\ AllTried(s)'
    BY <1>1, <2>1, TriedRemains DEF MinimizerInv, Tried
  <2> QED BY <1>1, <1>5, <2>2, <2>3, <2>4 DEF MinimizerInv, Tried
<1>6. CASE DoesNot(c) /\ step' = "save" /\ UNCHANGED best
  <2>1. failing' = failing /\ refused' = refused \union {c}
    BY <1>6 DEF DoesNot
  <2>2. DurationTried(best)'
    BY <1>6, <2>1 DEF DurationTried
  <2> HIDE DEF c
  <2>3. FaultsTried(best, Len(best.faults) + 1)' /\ ClientsTried(best)'
    BY <1>1, <1>6, <2>1 DEF FaultsTried, WithoutFault, ClientsTried, OneClientLess
  <2> QED BY <1>1, <1>6, <2>1, <2>2, <2>3, SameBest
          DEF MinimizerInv, Accepted, Order, Tried
<1> QED BY <1>5, <1>6 DEF TryDuration, Shrink

LEMMA DurationDonePreserves ==
  ASSUME MinimizerInv, DurationDone
  PROVE  MinimizerInv'
<1>1. /\ step = "duration" /\ best.duration[1] <= 1000 /\ step' = "save"
      /\ UNCHANGED <<base, best, next, failing, refused, saved>>
      /\ best.duration \in Nat \X Nat /\ next \in Nat \ {0}
  BY DEF DurationDone, seen, MinimizerInv, MinimizerTypeOK, Candidate
<1>2. DurationTried(best)'
  BY <1>1 DEF DurationTried
<1>3. FaultsTried(best, Len(best.faults) + 1)' /\ ClientsTried(best)'
  BY <1>1
  DEF MinimizerInv, Tried, FaultsTried, WithoutFault, ClientsTried, OneClientLess
<1> QED BY <1>1, <1>2, <1>3, SameBest DEF MinimizerInv, Accepted, Order, Tried

-----------------------------------------------------------------------------
(* What the loops arrived at is saved.                                     *)

LEMMA SavePreserves ==
  ASSUME MinimizerInv, Save
  PROVE  MinimizerInv'
<1>1. /\ step = "save" /\ step' \in {"final", "error"} /\ saved' \subseteq {best}
      /\ UNCHANGED <<base, best, next, failing, refused>>
  BY DEF Save, seen
<1>2. best \in failing /\ best \in Candidate /\ AllTried(best)
  BY <1>1 DEF MinimizerInv, MinimizerTypeOK, Accepted, Tried, AllTried
<1>3. AllTried(best)'
  BY <1>1, <1>2
  DEF AllTried, FaultsTried, WithoutFault, ClientsTried, OneClientLess, DurationTried
<1>4. \A c \in saved' : c \in Candidate /\ AllTried(c)'
  <2> SUFFICES ASSUME NEW c \in saved'
               PROVE  c \in Candidate /\ AllTried(c)'
    OBVIOUS
  <2>1. c = best /\ AllTried(c)
    BY <1>1, <1>2
  <2>2. AllTried(c)'
    BY <1>1, <2>1, TriedRemains
  <2> QED BY <1>2, <2>1, <2>2
<1> QED BY <1>1, <1>2, <1>4 DEF MinimizerInv, MinimizerTypeOK, Accepted, Order, Tried

(* The last run, giving up and an interrupt.                               *)
LEMMA EndPreserves ==
  ASSUME MinimizerInv, FinalRun \/ GiveUp \/ MinimizerCancel
  PROVE  MinimizerInv'
<1>1. /\ UNCHANGED <<base, best, next, saved>>
      /\ refused \subseteq refused' /\ failing \subseteq failing'
      /\ \/ UNCHANGED <<step, seen>>
         \/ step' \in {"done", "error"} /\ step # "baseline"
  BY DEF FinalRun, GiveUp, MinimizerCancel, Fails, DoesNot, seen
<1>2. next' \in Nat \ {0}
  BY <1>1 DEF MinimizerInv, MinimizerTypeOK
<1>3. MinimizerTypeOK' /\ Accepted' /\ \A c \in saved' : c \in Candidate /\ AllTried(c)'
  <2>1. step' = "done" => best \in failing'
    BY DEF FinalRun, GiveUp, MinimizerCancel, Fails, DoesNot, seen, MinimizerInv,
           Accepted
  <2> QED BY <1>1, <1>2, <2>1, SameBest DEF MinimizerInv, Accepted
<1>4. CASE UNCHANGED step /\ UNCHANGED seen
  BY <1>1, <1>3, <1>4
  DEF MinimizerInv, Order, Tried, seen, FaultsTried, WithoutFault, ClientsTried,
      OneClientLess, DurationTried
<1>5. CASE step' \in {"done", "error"}
  BY <1>3, <1>5 DEF MinimizerInv, Order, Tried
<1> QED BY <1>1, <1>4, <1>5

LEMMA MinimizerStepPreserves ==
  ASSUME MinimizerInv, [MinimizerNext]_mvars
  PROVE  MinimizerInv'
<1>1. CASE UNCHANGED mvars
  <2>1. UNCHANGED <<step, base, best, next, failing, refused, saved>>
    BY <1>1 DEF mvars, seen
  <2>2. MinimizerTypeOK' /\ Accepted' /\ Order'
    BY <2>1 DEF MinimizerInv, MinimizerTypeOK, Accepted, Order
  <2>3. \A c \in saved' : c \in Candidate /\ AllTried(c)'
    BY <2>1, TriedRemains DEF MinimizerInv, Tried
  <2>4. /\ FaultsTried(best, next)' = FaultsTried(best, next)
        /\ FaultsTried(best, Len(best.faults) + 1)' = FaultsTried(best, Len(best.faults) + 1)
        /\ ClientsTried(best)' = ClientsTried(best)
        /\ DurationTried(best)' = DurationTried(best)
    BY <2>1 DEF FaultsTried, WithoutFault, ClientsTried, OneClientLess, DurationTried
  <2> QED BY <2>1, <2>2, <2>3, <2>4 DEF MinimizerInv, Tried
<1> QED
  BY <1>1, BaselinePreserves, TryFaultPreserves, FaultsDonePreserves,
     TryClientsPreserves, ClientsDonePreserves, TryDurationPreserves,
     DurationDonePreserves, SavePreserves, EndPreserves
  DEF MinimizerNext

LEMMA MinimizerInvariance == MinimizerSpec => []MinimizerInv
BY MinimizerInitially, MinimizerStepPreserves, PTL DEF MinimizerSpec

(* What a minimization saves has been seen to fail as a whole, however     *)
(* little its replays agree with one another.                              *)
THEOREM SavedRunsFail == MinimizerSpec => []SavedHasFailed
<1>1. MinimizerInv => SavedHasFailed
  BY DEF MinimizerInv, Accepted, SavedHasFailed
<1> QED BY <1>1, MinimizerInvariance, PTL

LEMMA NothingIsLeft ==
  ASSUME MinimizerInv
  PROVE  LocallyMinimal
<1> SUFFICES ASSUME NEW s \in saved
             PROVE  /\ \A i \in DOMAIN s.faults : WithoutFault(s, i) \in refused
                    /\ ClientsTried(s) /\ DurationTried(s)
  BY DEF LocallyMinimal, WithoutFault, ClientsTried, OneClientLess, DurationTried
<1>1. s \in Candidate /\ AllTried(s)
  BY DEF MinimizerInv, Tried
<1>2. Len(s.faults) \in Nat /\ DOMAIN s.faults = 1 .. Len(s.faults)
  BY <1>1, LenProperties DEF Candidate
<1> QED BY <1>1, <1>2 DEF AllTried, FaultsTried

(* No single reduction of what a minimization saves was left untried, for  *)
(* any number of faults, clients and any durations.                        *)
THEOREM NothingLeftToTry == MinimizerSpec => []LocallyMinimal
BY NothingIsLeft, MinimizerInvariance, PTL

-----------------------------------------------------------------------------
(***************************************************************************)
(* All of them as one process, which executes one command and has one      *)
(* context: what the others leave alone stays true.                        *)
(***************************************************************************)
CommandsInv ==
  /\ HardeningInv /\ SupervisorInv /\ WhyStopped
  /\ CampaignInv /\ AccountInv /\ MinimizerInv
  /\ command # "campaign" => phase = "start"
  /\ command # "attempt" => watch = "idle"

LEMMA CommandsInitially == Init => CommandsInv
<1> SUFFICES ASSUME Init PROVE CommandsInv
  OBVIOUS
<1>1. CampaignInit /\ MinimizerInit /\ HardeningInit /\ SupervisorInit
  BY DEF Init
<1>2. phase = "start" /\ watch = "idle"
  BY <1>1 DEF CampaignInit, SupervisorInit
<1> QED BY <1>1, <1>2, HardeningInitially, SupervisorInitially, WhyInitially,
           CampaignInitially, AccountInitially, MinimizerInitially DEF CommandsInv

(* What each command needs of the steps of the others.                     *)
LEMMA CampaignRests ==
  ASSUME CampaignInv, AccountInv, phase = "start", UNCHANGED campaignVars
  PROVE  CampaignInv' /\ AccountInv'
<1>1. UNCHANGED <<seedStart, seedEnd, stopOnFailure, phase, index, results, count, early, groups>>
  BY DEF campaignVars, range
<1>2. ~early
  BY DEF CampaignInv, Accounted
<1>3. CampaignInv'
  BY <1>1 DEF CampaignInv, CampaignTypeOK, Accounted, Span, TooLong
<1>4. \A s : Occurrences(s)' = Occurrences(s)
  BY <1>1 DEF Occurrences
<1>5. Tally'
  BY <1>1, <1>2, <1>4 DEF AccountInv, Tally
<1>6. StopsAtFailure'
  BY <1>1 DEF AccountInv, StopsAtFailure
<1> QED BY <1>1, <1>3, <1>5, <1>6 DEF AccountInv

LEMMA MinimizerRests ==
  ASSUME MinimizerInv, UNCHANGED minimizerVars
  PROVE  MinimizerInv'
<1>1. UNCHANGED <<step, base, best, next, failing, refused, saved>>
  BY DEF minimizerVars
<1>2. MinimizerTypeOK' /\ Accepted' /\ Order'
  BY <1>1 DEF MinimizerInv, MinimizerTypeOK, Accepted, Order
<1>3. \A c \in saved' : c \in Candidate /\ AllTried(c)'
  BY <1>1, TriedRemains DEF MinimizerInv, Tried
<1>4. /\ FaultsTried(best, next)' = FaultsTried(best, next)
      /\ FaultsTried(best, Len(best.faults) + 1)' = FaultsTried(best, Len(best.faults) + 1)
      /\ ClientsTried(best)' = ClientsTried(best)
      /\ DurationTried(best)' = DurationTried(best)
  BY <1>1 DEF FaultsTried, WithoutFault, ClientsTried, OneClientLess, DurationTried
<1> QED BY <1>1, <1>2, <1>3, <1>4 DEF MinimizerInv, Tried

LEMMA MatrixRests ==
  ASSUME HardeningInv, UNCHANGED matrixVars
  PROVE  HardeningInv'
<1>1. /\ UNCHANGED <<options, at, after, answer, attempt, summary, allPassed, onDisk, written,
                    made, sealed, executed, sound, reason>>
      /\ Place' = Place /\ Running' = Running
  BY DEF matrixVars, hardeningVars, executionVars, memoryVars, diskVars, auxVars, Place,
         Running
<1> QED BY <1>1 DEF HardeningInv, Types, Memory, Disk, Passes

LEMMA SupervisorRests ==
  ASSUME SupervisorInv, WhyStopped, UNCHANGED supervisorVars,
         watch = "idle" \/ (ContextDone => ContextDone')
  PROVE  SupervisorInv' /\ WhyStopped'
<1>1. UNCHANGED <<procs, births, owned, everOwned, watch, code, why, harmed>>
  BY DEF supervisorVars
<1>2. why' = "INTERRUPTED" => ContextDone'
  BY <1>1 DEF WhyStopped
<1>3. WhyStopped'
  BY <1>1, <1>2 DEF WhyStopped
<1> QED BY <1>1, <1>3
        DEF SupervisorInv, SupervisorTypeOK, Kin, Held, OneCli, NotOthers, Alive, Sent, Untouched

(* The steps of the one process are steps of its command.                  *)
LEMMA StepsOfCommands ==
  ASSUME CommandsInv, [Next]_vars
  PROVE  /\ CommandsInv'
         /\ [Appends]_diskVars
         /\ [Promise!ExecutionNext]_(Promise!executionVars)
<1> USE DEF CommandsInv
<1>1. CASE RunCampaign
  <2>1. /\ command = "campaign" /\ CampaignNext /\ UNCHANGED command
        /\ UNCHANGED minimizerVars /\ UNCHANGED matrixVars /\ UNCHANGED supervisorVars
    BY <1>1 DEF RunCampaign
  <2>2. CampaignInv'
    BY <2>1, RangePreserves, RunSeedPreserves, InterruptPreserves, CampaignRestPreserves
    DEF CampaignNext
  <2>3. AccountInv'
    BY <2>1, AccountPreserved
  <2>4. MinimizerInv' /\ HardeningInv' /\ SupervisorInv' /\ WhyStopped'
    BY <2>1, MinimizerRests, MatrixRests, SupervisorRests
  <2>5. UNCHANGED diskVars /\ UNCHANGED Promise!executionVars /\ watch' = watch
    BY <2>1 DEF matrixVars, hardeningVars, supervisorVars, Promise!executionVars
  <2> QED BY <2>1, <2>2, <2>3, <2>4, <2>5
<1>2. CASE Minimize
  <2>1. /\ command = "minimize" /\ MinimizerNext /\ UNCHANGED command
        /\ UNCHANGED campaignVars /\ UNCHANGED matrixVars /\ UNCHANGED supervisorVars
    BY <1>2 DEF Minimize
  <2>2. MinimizerInv'
    BY <2>1, MinimizerStepPreserves
  <2>3. CampaignInv' /\ AccountInv' /\ HardeningInv' /\ SupervisorInv' /\ WhyStopped'
    BY <2>1, CampaignRests, MatrixRests, SupervisorRests
  <2>4. UNCHANGED diskVars /\ UNCHANGED Promise!executionVars /\ watch' = watch /\ phase' = phase
    BY <2>1
    DEF matrixVars, hardeningVars, supervisorVars, campaignVars, Promise!executionVars
  <2> QED BY <2>1, <2>2, <2>3, <2>4
<1>3. CASE RunMatrix
  <2>1. /\ command = "hardening" /\ HardeningNext /\ UNCHANGED command
        /\ UNCHANGED campaignVars /\ UNCHANGED minimizerVars /\ UNCHANGED supervisorVars
    BY <1>3 DEF RunMatrix
  <2>2. HardeningInv' /\ [Appends]_diskVars
    BY <2>1, HardeningStepPreserves, EvidenceHolds
  <2>3. CampaignInv' /\ AccountInv' /\ MinimizerInv' /\ SupervisorInv' /\ WhyStopped'
    BY <2>1, CampaignRests, MinimizerRests, SupervisorRests
  <2>4. UNCHANGED Promise!executionVars /\ watch' = watch /\ phase' = phase
    BY <2>1 DEF supervisorVars, campaignVars, Promise!executionVars
  <2> QED BY <2>1, <2>2, <2>3, <2>4
<1>4. CASE SuperviseAttempt
  <2>1. /\ command = "attempt" /\ UNCHANGED command /\ [SupervisedNext]_supervisedVars
        /\ UNCHANGED campaignVars /\ UNCHANGED minimizerVars /\ UNCHANGED matrixVars
    BY <1>4 DEF SuperviseAttempt, SupervisedNext
  <2>2. SupervisorInv' /\ WhyStopped' /\ [Promise!ExecutionNext]_(Promise!executionVars)
    BY <2>1, SupervisedStepPreserves, WhyRemains, StepsAreExecutions
  <2>3. CampaignInv' /\ AccountInv' /\ MinimizerInv' /\ HardeningInv'
    BY <2>1, CampaignRests, MinimizerRests, MatrixRests
  <2>4. UNCHANGED diskVars /\ phase' = phase
    BY <2>1 DEF matrixVars, hardeningVars, campaignVars
  <2> QED BY <2>1, <2>2, <2>3, <2>4
<1>5. CASE UNCHANGED vars
  <2>1. /\ UNCHANGED command /\ UNCHANGED cvars /\ UNCHANGED mvars /\ UNCHANGED matrixVars
        /\ UNCHANGED supervisorVars /\ UNCHANGED expired
    BY <1>5 DEF vars
  <2>2. UNCHANGED cancelled /\ UNCHANGED minimizerVars /\ phase' = phase
    BY <2>1 DEF cvars, mvars, minimizerVars, seen
  <2>3. CampaignInv' /\ AccountInv'
    BY <2>1, CampaignRestPreserves, AccountPreserved
  <2>4. MinimizerInv' /\ HardeningInv'
    BY <2>1, <2>2, MinimizerRests, MatrixRests
  <2>5. SupervisorInv' /\ WhyStopped'
    BY <2>1, <2>2, SupervisorRests DEF ContextDone
  <2>6. UNCHANGED diskVars /\ UNCHANGED Promise!executionVars /\ watch' = watch
    BY <2>1 DEF matrixVars, hardeningVars, supervisorVars, Promise!executionVars
  <2> QED BY <2>1, <2>2, <2>3, <2>4, <2>5, <2>6
<1> QED BY <1>1, <1>2, <1>3, <1>4, <1>5 DEF Next

(* The process of the command line keeps what each of its commands         *)
(* promises, whichever it executes and whatever interrupts it.             *)
THEOREM CommandsKeepTheirPromises ==
  Spec => /\ [](GreenMeansAllPassed /\ EverySeedIsAccountedFor)
          /\ [](SavedHasFailed /\ LocallyMinimal)
          /\ [](PassedIsEarned /\ ExecutedIsRecorded) /\ EvidenceIsAppendOnly
          /\ [](OnlyOwnAreKilled /\ SeenAreKilled)
          /\ Promise!ExecutionInit /\ [][Promise!ExecutionNext]_(Promise!executionVars)
<1>1. Init => Promise!ExecutionInit
  BY DEF Init, SupervisorInit, Promise!ExecutionInit
<1>2. CommandsInv => GreenMeansAllPassed /\ EverySeedIsAccountedFor
  BY GreenHolds, AccountsAreExact DEF CommandsInv
<1>3. CommandsInv => SavedHasFailed /\ LocallyMinimal
  BY NothingIsLeft DEF CommandsInv, MinimizerInv, Accepted, SavedHasFailed
<1>4. CommandsInv => PassedIsEarned /\ ExecutedIsRecorded
  BY PassesHold, ExecutionsHold DEF CommandsInv
<1>5. CommandsInv => OnlyOwnAreKilled /\ SeenAreKilled
  BY DEF CommandsInv, SupervisorInv, OnlyOwnAreKilled, SeenAreKilled, Sent
<1> QED
  BY <1>1, <1>2, <1>3, <1>4, <1>5, CommandsInitially, StepsOfCommands, PTL
  DEF Spec, EvidenceIsAppendOnly, Appends

=============================================================================
