----------------------------- MODULE Hardening -----------------------------
(***************************************************************************)
(* A hardening matrix (internal/hardening): every profile with every seed, *)
(* several times over, each attempt a supervised run of the command line   *)
(* of its own, with a summary on disk that is replaced at checkpoints and  *)
(* evidence that is sealed.  The process may die at any moment, and may be *)
(* started again with the same output directory.                           *)
(*                                                                         *)
(* What an attempt leaves behind is whatever a run may: Runner says what   *)
(* the program's own runs do.                                              *)
(***************************************************************************)
EXTENDS SeedRange, Sequences, FiniteSets, Execution

CONSTANTS
  MaxRuns,  \* Options.MaxRuns
  Options   \* the options a matrix may be started with

ASSUME HardeningAssumption ==
  /\ MaxRuns \in Nat \ {0}
  /\ \A o \in Options :
       /\ {o.from, o.to} \subseteq Seeds
       /\ o.repetitions \in Nat \ {0} /\ o.keepGoing \in BOOLEAN
       /\ o.profiles \in Seq(STRING) /\ o.profiles # <<>>

VARIABLES
  options,
  at,        \* where Run is
  attempt,   \* the index of the attempt
  summary,   \* the Summary in memory
  onDisk,    \* summary.json
  written,   \* summary.next.json
  after,     \* where Run goes on after a checkpoint
  stopped,   \* StopReason: "", "context", "storage" or "attempt"
  allPassed,
  made,      \* the output directory, as 0, and those of attempts
  sealed,    \* the attempts whose evidence is sealed
  answer,    \* what Run returned: "none", "ok" or "error"
  executed,  \* auxiliary: the attempts whose command was started
  sound      \* auxiliary: the attempts that nothing can be held against

memoryVars == <<attempt, summary, stopped, allPassed>>
diskVars == <<onDisk, written, made, sealed>>
auxVars == <<executed, sound>>
hardeningVars == <<options, at, after, answer, memoryVars, diskVars, auxVars>>

NoSummary == [status |-> "none", ended |-> FALSE, attempts |-> <<>>]
Torn == [status |-> "torn", ended |-> FALSE, attempts |-> <<>>]

(* Validate: the span is a difference without a sign.                      *)
Valid(o) ==
  LET span == Unsigned(o.to - o.from) IN
  /\ o.from <= o.to
  /\ span < MaxRuns
  /\ Len(o.profiles) <= MaxRuns \div o.repetitions
  /\ span + 1 <= (MaxRuns \div o.repetitions) \div Len(o.profiles)
  /\ \A i, j \in DOMAIN o.profiles : o.profiles[i] = o.profiles[j] => i = j

(* The cell of the matrix that is the i-th attempt: all seeds of a         *)
(* profile, then the next profile, then the next repetition.               *)
SeedCount(o) == o.to - o.from + 1
Size(o) == o.repetitions * Len(o.profiles) * SeedCount(o)
Cell(o, i) ==
  LET n == i - 1
      profiles == Len(o.profiles)
  IN  [repetition |-> (n \div (profiles * SeedCount(o))) + 1,
       profile |-> o.profiles[((n \div SeedCount(o)) % profiles) + 1],
       seed |-> o.from + (n % SeedCount(o))]

HardeningInit ==
  /\ options \in Options /\ at = "start" /\ after = "" /\ answer = "none"
  /\ attempt = 0 /\ summary = NoSummary /\ stopped = "" /\ allPassed = TRUE
  /\ onDisk = NoSummary /\ written = NoSummary /\ made = {} /\ sealed = {}
  /\ executed = {} /\ sound = {}
  /\ ExecutionInit /\ cancelled = FALSE /\ expired = FALSE
-----------------------------------------------------------------------------
Status == summary.attempts[attempt]
WithStatus(s) == [summary EXCEPT !.attempts[attempt] = s]

(* Leave with an error; the deferred function writes a last checkpoint,    *)
(* unless the summary has already ended.                                   *)
Fail ==
  /\ answer' = "error"
  /\ IF summary.ended THEN at' = "returned" /\ UNCHANGED <<after, summary>>
     ELSE /\ at' = "checkpoint" /\ after' = "returned"
          /\ summary' = [summary EXCEPT !.status = "CRASHED", !.ended = TRUE]

Checkpoint(place) == at' = "checkpoint" /\ after' = place

(* Options that do not fit, profiles that do not load, and an output       *)
(* directory that exists: nothing is touched.                              *)
Refuse ==
  /\ at = "start"
  /\ at' = "returned" /\ answer' = "error"
  /\ UNCHANGED <<options, after, memoryVars, diskVars, auxVars>>

(* Mutant: an output directory that exists is used again.                  *)
BeginAnyway ==
  /\ at = "start" /\ Valid(options)
  /\ made' = made \union {0}
  /\ summary' = [status |-> "RUNNING", ended |-> FALSE,
                 attempts |-> [i \in 1 .. Size(options) |-> "NOT_RUN"]]
  /\ Checkpoint("copy")
  /\ UNCHANGED <<options, answer, attempt, stopped, allPassed, onDisk, written, sealed, auxVars>>

(* The directory is single-use; the matrix is fixed in advance.            *)
Begin ==
  /\ at = "start" /\ Valid(options) /\ 0 \notin made
  /\ made' = made \union {0}
  /\ summary' = [status |-> "RUNNING", ended |-> FALSE,
                 attempts |-> [i \in 1 .. Size(options) |-> "NOT_RUN"]]
  /\ Checkpoint("copy")
  /\ UNCHANGED <<options, answer, attempt, stopped, allPassed, onDisk, written, sealed, auxVars>>

(* writeJSON: the next summary must not exist, and may be left incomplete. *)
WriteNext ==
  /\ at = "checkpoint"
  /\ \/ /\ written = NoSummary
        /\ written' = summary /\ at' = "rename"
        /\ UNCHANGED <<after, answer, summary>>
     \/ written' \in (IF written = NoSummary THEN {NoSummary, Torn} ELSE {written}) /\ Fail
  /\ UNCHANGED <<options, attempt, stopped, allPassed, onDisk, made, sealed, auxVars>>

Rename ==
  /\ at = "rename"
  /\ \/ /\ onDisk' = written /\ written' = NoSummary /\ at' = after
        /\ UNCHANGED <<after, answer, summary>>
     \/ UNCHANGED <<onDisk, written>> /\ Fail
  /\ UNCHANGED <<options, attempt, stopped, allPassed, made, sealed, auxVars>>

(* The binary is copied and hashed.                                        *)
Copy ==
  /\ at = "copy"
  /\ \/ at' = "next" /\ UNCHANGED <<after, answer, summary>>
     \/ Fail
  /\ UNCHANGED <<options, attempt, stopped, allPassed, diskVars, auxVars>>

(* The matrix ends before the attempt that would be next: the context is   *)
(* done or the directory too large.                                        *)
StopMatrix ==
  /\ at = "next" /\ attempt < Size(options)
  /\ stopped' \in {"storage"} \union (IF ContextDone THEN {"context"} ELSE {})
  /\ ContextDone => stopped' = "context"
  /\ at' = "verdict" /\ allPassed' = FALSE
  /\ UNCHANGED <<options, after, answer, attempt, summary, diskVars, auxVars>>

(* Mutant: the attempt is recorded when it is over.                        *)
StartUnrecorded ==
  /\ at = "next" /\ attempt < Size(options) /\ ~ContextDone
  /\ attempt' = attempt + 1
  /\ summary' = [summary EXCEPT !.attempts[attempt'] = "RUNNING"]
  /\ made' = made \union {attempt'} /\ at' = "prepare"
  /\ UNCHANGED <<options, after, answer, stopped, allPassed, onDisk, written, sealed, auxVars>>

(* The attempt's directory must not exist either.                          *)
StartAttempt ==
  /\ at = "next" /\ attempt < Size(options) /\ ~ContextDone
  /\ attempt' = attempt + 1
  /\ \/ /\ attempt' \notin made /\ made' = made \union {attempt'}
        /\ summary' = [summary EXCEPT !.attempts[attempt'] = "RUNNING"]
        /\ Checkpoint("prepare") /\ UNCHANGED answer
     \/ Fail /\ UNCHANGED made
  /\ UNCHANGED <<options, stopped, allPassed, onDisk, written, sealed, auxVars>>

(* Provenance, configuration, command and ports; an attempt that fails     *)
(* here has started nothing.                                               *)
Prepare ==
  /\ at = "prepare"
  /\ \/ at' = "execute" /\ UNCHANGED summary
     \/ at' = "record" /\ summary' \in {WithStatus("CRASHED"), WithStatus("PORTS_BUSY")}
  /\ UNCHANGED <<options, after, answer, attempt, stopped, allPassed, diskVars, auxVars>>

Execute ==
  /\ at = "execute"
  /\ \/ stage = "idle" /\ (Launch \/ LaunchFails) /\ executed' = executed \union {attempt}
     \/ Return /\ UNCHANGED executed
  /\ UNCHANGED <<options, at, after, answer, memoryVars, diskVars, sound>>

(* What an attempt leaves: whether its database can be read and its run    *)
(* has ended, the status of that run, faults that failed, violations (only *)
(* of the coverage checkers, or of others too), and coverage that is       *)
(* missing.                                                                *)
Evidence ==
  [readable : BOOLEAN, ended : BOOLEAN,
   run : {"PASSED", "FAILED", "CRASHED", "ABORTED", "RUNNING"}, faultFailed : BOOLEAN,
   violations : {"none", "coverage", "other"}, missing : BOOLEAN]

Classify(e) ==
  IF ~e.readable THEN "CRASHED"
  ELSE IF ~e.ended \/ e.run \in {"ABORTED", "RUNNING"} THEN "INTERRUPTED"
  ELSE IF e.faultFailed \/ e.violations = "other" THEN "FAILED"
  ELSE IF e.missing THEN "NO_COVERAGE"
  ELSE IF e.run = "FAILED" THEN "FAILED"
  ELSE IF exit # "zero" \/ e.run # "PASSED" THEN "CRASHED"
  ELSE IF e.violations # "none" THEN "FAILED"
  ELSE "PASSED"

(* How the sources of the tool and the target compare with those           *)
(* fingerprinted before the attempt.                                       *)
Sources == {"same", "changed", "unreadable"}

(* Mutant: the evidence decides whenever the sources are unchanged.        *)
JudgedByEvidence(sources, e) ==
  IF sources # "same" THEN "PROVENANCE_CHANGED" ELSE Classify(e)

(* The status of an attempt: sources that cannot be read again end the     *)
(* matter, a stop by the supervisor overrides everything else.             *)
Judged(sources, e) ==
  IF sources = "unreadable" THEN "PROVENANCE_CHANGED"
  ELSE IF reason # "" THEN reason
  ELSE IF sources = "changed" THEN "PROVENANCE_CHANGED"
  ELSE Classify(e)

(* Nothing can be held against an attempt.                                 *)
IsSound(sources, e) ==
  /\ sources = "same" /\ exit = "zero" /\ reason = ""
  /\ e = [readable |-> TRUE, ended |-> TRUE, run |-> "PASSED", faultFailed |-> FALSE,
          violations |-> "none", missing |-> FALSE]

ReadEvidence ==
  /\ at = "execute" /\ stage = "returned"
  /\ \E sources \in Sources, e \in Evidence :
       /\ summary' = WithStatus(Judged(sources, e))
       /\ sound' = IF IsSound(sources, e) THEN sound \union {attempt} ELSE sound
  /\ at' = "record"
  /\ stage' = "idle" /\ exit' = "none" /\ reason' = ""
  /\ UNCHANGED <<options, after, answer, attempt, stopped, allPassed, diskVars, executed>>

(* attempt.json is written and the directory sealed.                       *)
Seal ==
  /\ at = "record"
  /\ \/ sealed' = sealed \union {attempt} /\ Checkpoint("judge") /\ UNCHANGED <<answer, summary>>
     \/ Fail /\ UNCHANGED sealed
  /\ UNCHANGED <<options, attempt, stopped, allPassed, onDisk, written, made, auxVars>>

(* Mutant: an attempt that did not pass is made again.                     *)
JudgeAndRetry ==
  /\ at = "judge" /\ at' = "next"
  /\ IF Status # "PASSED"
     THEN attempt' = attempt - 1 /\ made' = made \ {attempt} /\ allPassed' = FALSE
     ELSE UNCHANGED <<attempt, made, allPassed>>
  /\ UNCHANGED <<options, after, answer, summary, stopped, onDisk, written, sealed, auxVars>>

Judge ==
  /\ at = "judge"
  /\ allPassed' = (allPassed /\ Status = "PASSED")
  /\ IF Status # "PASSED" /\ ~options.keepGoing
     THEN at' = "verdict" /\ stopped' = "attempt"
     ELSE at' = "next" /\ UNCHANGED stopped
  /\ UNCHANGED <<options, after, answer, attempt, summary, diskVars, auxVars>>

FinalStatus ==
  IF allPassed THEN "PASSED"
  ELSE IF ContextDone THEN (IF expired THEN "TIMED_OUT" ELSE "INTERRUPTED")
  ELSE IF stopped = "storage" THEN "STORAGE_LIMIT"
  ELSE "FAILED"

Verdict ==
  /\ \/ at = "verdict"
     \/ at = "next" /\ attempt = Size(options)
  /\ summary' = [summary EXCEPT !.status = FinalStatus, !.ended = TRUE]
  /\ Checkpoint("answer")
  /\ UNCHANGED <<options, answer, attempt, stopped, allPassed, diskVars, auxVars>>

Answer ==
  /\ at = "answer"
  /\ at' = "returned"
  /\ answer' = IF allPassed THEN "ok" ELSE "error"
  /\ UNCHANGED <<options, after, memoryVars, diskVars, auxVars>>
-----------------------------------------------------------------------------
Running == at \notin {"start", "returned", "dead"}

(* The process dies; what it had in memory is lost.                        *)
Die ==
  /\ Running
  /\ at' = "dead"
  /\ UNCHANGED <<options, after, answer, memoryVars, diskVars, auxVars>>

(* The same command again.                                                 *)
StartAgain ==
  /\ at \in {"dead", "returned"}
  /\ at' = "start" /\ after' = "" /\ answer' = "none"
  /\ attempt' = 0 /\ summary' = NoSummary /\ stopped' = "" /\ allPassed' = TRUE
  /\ stage' = "idle" /\ exit' = "none" /\ reason' = ""
  /\ cancelled' = FALSE /\ expired' = FALSE
  /\ UNCHANGED <<options, diskVars, auxVars>>

Program ==
  \/ Begin \/ WriteNext \/ Rename \/ Copy \/ StopMatrix \/ StartAttempt \/ Prepare
  \/ Seal \/ Judge \/ Verdict \/ Answer

(* The deadline counts from the copy of the binary.                        *)
DeadlinePasses ==
  /\ at \in {"next", "prepare", "execute", "record", "judge", "verdict"} /\ Expire
  /\ UNCHANGED <<hardeningVars, executionVars, cancelled>>

HardeningCancel ==
  /\ at \notin {"returned", "dead"} /\ Cancel
  /\ UNCHANGED <<hardeningVars, executionVars, expired>>

HardeningNext ==
  \/ (Program \/ Refuse \/ Die) /\ UNCHANGED <<executionVars, cancelled, expired>>
  \/ (Execute \/ ReadEvidence) /\ UNCHANGED <<cancelled, expired>>
  \/ StartAgain \/ DeadlinePasses \/ HardeningCancel

matrixVars == <<hardeningVars, executionVars>>

HardeningSpec == HardeningInit /\ [][HardeningNext]_<<matrixVars, cancelled, expired>>
-----------------------------------------------------------------------------
(* A matrix that is called PASSED, by its answer or on disk, has an attempt *)
(* for every repetition of every profile with every seed.  An attempt that  *)
(* is called PASSED on disk has nothing against it: its run ended, passed   *)
(* and was judged, its command succeeded by itself and its sources did not  *)
(* change; and it is sealed, unless the matrix broke down right then.       *)
PassedIsEarned ==
  /\ answer = "ok" => onDisk.status = "PASSED"
  /\ onDisk.status = "PASSED" =>
       \A r \in 1 .. options.repetitions, j \in DOMAIN options.profiles,
          s \in options.from .. options.to :
         \E i \in DOMAIN onDisk.attempts :
           /\ Cell(options, i) =
                [repetition |-> r, profile |-> options.profiles[j], seed |-> s]
           /\ onDisk.attempts[i] = "PASSED"
  /\ \A i \in DOMAIN onDisk.attempts : onDisk.attempts[i] = "PASSED" =>
       i \in sound /\ (i \in sealed \/ onDisk.status = "CRASHED")

(* At most MaxRuns attempts are ever executed, and what the summary on disk *)
(* calls NOT_RUN was never executed, wherever the process died ("bounded",  *)
(* "records unstarted work", src/README.md).                                *)
ExecutedIsRecorded ==
  /\ Cardinality(executed) <= MaxRuns
  /\ \A i \in executed : i \in DOMAIN onDisk.attempts /\ onDisk.attempts[i] # "NOT_RUN"

(* No step, not even the start of another process with the same output     *)
(* directory, changes what the summary on disk says of an attempt that is  *)
(* over, or of a matrix that has ended, or takes a seal away ("not retries *)
(* that replace failures").                                                *)
EvidenceIsAppendOnly ==
  [][ /\ made \subseteq made' /\ sealed \subseteq sealed'
      /\ onDisk.ended => onDisk' = onDisk
      /\ \A i \in DOMAIN onDisk.attempts :
           onDisk.attempts[i] \notin {"NOT_RUN", "RUNNING"} =>
             onDisk'.attempts[i] = onDisk.attempts[i] ]_diskVars

(* A matrix comes to its end, or the process dies.                         *)
MatrixEnds == Running ~> ~Running
=============================================================================
