---------------------------- MODULE Runner_proofs ----------------------------
(***************************************************************************)
(* What the run "runner" checks under three configurations, for every set  *)
(* of configurations.                                                      *)
(***************************************************************************)
EXTENDS Runner, TLAPS

Early == {"create", "nodes", "warmup", "scheduler", "workload"}
Decided == {"update", "announce", "report", "done"}
Judging == {"judge", "verdict"} \union Decided

(* The row is RUNNING from its creation to its update, and what is said of *)
(* it afterwards is the verdict.                                           *)
Rows ==
  /\ stage = "create" => row = "none"
  /\ stage \notin {"create", "announce", "report", "done"} => row = "RUNNING"
  /\ row \notin {"none", "RUNNING"} => row = final
  /\ stage # "done" => report = NoReport
  /\ report # NoReport => report.status \in {"CRASHED", "UNKNOWN", row}

(* Nobody the runner waits for writes once the judges are called. *)
Quiet ==
  /\ stage = "create" => active = {}
  /\ "clients" \in active => stage \in {"workload", "drain"}
  /\ stage \in Judging => "scheduler" \notin active /\ "nodes" \notin active

(* How the context of the workload is done tells how Run was left. *)
Whole ==
  /\ over = "cancelled" => cancelled
  /\ over = "proxy" => stage \notin Early
  /\ stage = "workload" /\ "clients" \notin active => over # "no"
  /\ stage = "drain" => final # "PASSED"
  /\ stage \in {"cleanup", "judge", "verdict"} /\ final = "PASSED" =>
       over = "time" /\ ~failed
  /\ stage = "judge" => final = "PASSED"
  /\ stage \notin Decided => final # "FAILED"
  /\ found => over = "time" /\ ~failed
  /\ stage \in Decided /\ row # "none" /\ final \in {"PASSED", "FAILED"} =>
       over = "time" /\ ~failed

(* The history gives no reason to object, and never will: the leadership   *)
(* monitor may still write, so nothing is said of "leaders".               *)
Content(j) ==
  /\ j = "fault execution" => "failed fault" \notin history
  /\ j = "reads" => "wrong answer" \notin history
  /\ j = "misspelt" => FALSE
  /\ j = "workload coverage" => "success" \in history
  /\ j = "fault coverage" => "injection" \in history

(* Judges who found nothing were content. *)
Opinions ==
  /\ stage \notin Judging => judged = {} /\ ~found
  /\ violations # {} => found
  /\ \A j \in judged : found \/ historyErr \/ Content(j)
  /\ stage = "verdict" /\ final = "PASSED" => judged = Judges
  /\ stage \in Decided /\ row # "none" /\ final = "PASSED" =>
       ~found /\ \A j \in Judges : Content(j)

(* A lost write is remembered until the verdict, which it decides. *)
Losses ==
  /\ lost => historyErr
  /\ stage \in Decided /\ row # "none" /\ lost => final = "CRASHED"

(* TypeOK in two parts: the flags are left to one prover, the rest to the  *)
(* other.                                                                  *)
Flags ==
  /\ failed \in BOOLEAN /\ cancelled \in BOOLEAN /\ proxyDown \in BOOLEAN
  /\ found \in BOOLEAN /\ historyErr \in BOOLEAN /\ lost \in BOOLEAN

Values ==
  /\ config \in Configs /\ stage \in Stages
  /\ row \in Statuses \union {"none"} /\ final \in Statuses
  /\ active \subseteq Activities /\ told \subseteq Activities
  /\ over \in {"no", "time", "cancelled", "proxy"}
  /\ history \subseteq Evidence
  /\ judged \subseteq Judges /\ violations \subseteq judged
  /\ report \in RunResult \union {NoReport}

IInv == Flags /\ Values /\ Rows /\ Quiet /\ Whole /\ Opinions /\ Losses
(* Who writes what. *)
LEMMA Authors ==
  ASSUME NEW w \in Activities, NEW k \in Kinds(w)
  PROVE  /\ k \in Evidence
         /\ k = "failed fault" => w = "scheduler"
         /\ k = "wrong answer" => w = "clients"
  BY DEF Activities, Kinds, Evidence

(* Only the configuration decides who judges. *)
LEMMA SameJudges == config' = config => Judges' = Judges
  BY DEF Judges

(* Only the history decides who is content. *)
LEMMA SameContent ==
  history' = history => \A j : Content(j)' <=> Content(j)
  BY DEF Content

-----------------------------------------------------------------------------
THEOREM InitEstablishes == Init => IInv
<1> SUFFICES ASSUME Init PROVE IInv
  OBVIOUS
<1>1. Flags /\ Values
  BY DEF Init, Flags, Values, Stages, Statuses
<1>2. Rows /\ Quiet /\ Whole /\ Opinions /\ Losses
  BY DEF Init, Rows, Quiet, Whole, Opinions, Losses, Decided, Judging
<1> QED BY <1>1, <1>2 DEF IInv

LEMMA WriteKeeps ==
  ASSUME IInv, NEW w \in Activities, Write(w)
  PROVE  IInv'
<1> USE SameJudges, SameContent DEF Write, LoseWrite, outcome, verdict, losses
<1>1. history' \subseteq Evidence /\ history \subseteq history'
  BY Authors DEF IInv, Values
<1>2. Flags' /\ Values'
  <2>1. Flags'
    BY <1>1 DEF IInv, Flags
  <2>2. Values'
    BY <1>1 DEF IInv, Values
  <2> QED BY <2>1, <2>2
<1>3. Rows' /\ Quiet' /\ Whole'
  BY DEF IInv, Rows, Quiet, Whole
<1>4. stage \in Judging => w \notin Awaited
  BY DEF IInv, Quiet, Awaited, Judging, Decided
<1>5. ASSUME NEW j, stage \in Judging, Content(j)
      PROVE  Content(j)'
  BY <1>1, <1>4, <1>5, Authors DEF Content, Awaited
<1>6. Opinions'
  <2>1. judged = {} \/ stage \in Judging
    BY DEF IInv, Opinions
  <2>2. \A j \in judged' : (found \/ historyErr \/ Content(j))'
    BY <1>5, <2>1 DEF IInv, Opinions
  <2>3. Judges' = Judges
    BY SameJudges
  <2>4. stage' \in Decided /\ row' # "none" /\ final' = "PASSED" =>
          ~found' /\ \A j \in Judges' : Content(j)'
    BY <1>5, <2>3 DEF IInv, Opinions, Judging
  <2> QED BY <2>2, <2>3, <2>4 DEF IInv, Opinions
<1>7. Losses'
  BY <1>4 DEF IInv, Losses, Judging
<1> QED BY <1>2, <1>3, <1>6, <1>7 DEF IInv

LEMMA EnvironmentKeeps ==
  ASSUME IInv,
         (\E w \in Activities : End(w)) \/ Timeout \/ Cancel \/ ProxyFails
  PROVE  IInv'
<1> USE SameJudges, SameContent DEF End, Timeout, Cancel, ProxyFails, Over, outcome, verdict, losses
<1>1. Flags' /\ Values'
  <2>1. Flags'
    BY DEF IInv, Flags
  <2>2. Values'
    BY DEF IInv, Values
  <2> QED BY <2>1, <2>2
<1>2. Rows'
  BY DEF IInv, Rows
<1>3. Quiet'
  BY DEF IInv, Quiet
<1>4. Whole'
  BY DEF IInv, Values, Whole, MustEnd, Early
<1>5. Opinions' /\ Losses'
  BY DEF IInv, Opinions, Losses
<1> QED BY <1>1, <1>2, <1>3, <1>4, <1>5 DEF IInv

LEMMA RunKeeps ==
  ASSUME IInv,
         \/ CreateRun \/ StartNodes \/ Warmup \/ StartFaultsAndWorkload
         \/ WorkloadDone \/ BreakOff \/ Drained
  PROVE  IInv'
<1> USE SameJudges, SameContent DEF Leave, Proceed, Drain, Over, MayLose, LoseWrite, outcome, world,
            verdict, losses
<1>1. CASE CreateRun
  <2>1. Flags' /\ Values'
    <3>1. Flags'
      BY <1>1 DEF CreateRun, IInv, Flags
    <3>2. Values'
      BY <1>1 DEF CreateRun, IInv, Values, Stages, Statuses, Activities
    <3> QED BY <3>1, <3>2
  <2>2. Rows' /\ Quiet' /\ Losses'
    BY <1>1 DEF CreateRun, IInv, Rows, Quiet, Losses, Judging, Decided
  <2>3. Whole' /\ Opinions'
    BY <1>1 DEF CreateRun, IInv, Rows, Whole, Opinions, Judging, Decided, Early
  <2> QED BY <2>1, <2>2, <2>3 DEF IInv
<1>2. CASE StartNodes \/ Warmup \/ StartFaultsAndWorkload
  <2> USE DEF StartNodes, Warmup, StartFaultsAndWorkload
  <2>1. Flags' /\ Values'
    <3>1. Flags'
      BY <1>2 DEF IInv, Flags
    <3>2. Values'
      BY <1>2 DEF IInv, Values, Stages, Statuses, Activities
    <3> QED BY <3>1, <3>2
  <2>2. Rows' /\ Quiet' /\ Losses'
    BY <1>2 DEF IInv, Rows, Quiet, Losses, Judging, Decided
  <2>3. Whole' /\ Opinions'
    BY <1>2 DEF IInv, Whole, Opinions, Judging, Decided, Early
  <2> QED BY <2>1, <2>2, <2>3 DEF IInv
<1>3. CASE WorkloadDone
  <2>1. Flags' /\ Values'
    <3>1. Flags'
      BY <1>3 DEF WorkloadDone, IInv, Flags
    <3>2. Values'
      BY <1>3 DEF WorkloadDone, IInv, Values, Stages, Statuses
    <3> QED BY <3>1, <3>2
  <2>2. Rows' /\ Quiet' /\ Losses'
    BY <1>3 DEF WorkloadDone, IInv, Rows, Quiet, Losses, Judging, Decided
  <2>3. ~cancelled => over = "time"
    BY <1>3 DEF WorkloadDone, IInv, Values, Whole, Early
  <2>4. Whole' /\ Opinions'
    BY <1>3, <2>3 DEF WorkloadDone, IInv, Whole, Opinions, Judging, Decided,
                      Early
  <2> QED BY <2>1, <2>2, <2>4 DEF IInv
<1>4. CASE BreakOff \/ Drained
  <2> USE DEF BreakOff, Drained
  <2>1. Flags' /\ Values'
    <3>1. Flags'
      BY <1>4 DEF IInv, Flags
    <3>2. Values'
      BY <1>4 DEF IInv, Values, Stages, Statuses
    <3> QED BY <3>1, <3>2
  <2>2. Rows' /\ Quiet' /\ Losses'
    BY <1>4 DEF IInv, Rows, Quiet, Losses, Judging, Decided
  <2>3. Whole' /\ Opinions'
    BY <1>4 DEF IInv, Whole, Opinions, Judging, Decided, Early
  <2> QED BY <2>1, <2>2, <2>3 DEF IInv
<1> QED BY <1>1, <1>2, <1>3, <1>4

LEMMA StoppingKeeps ==
  ASSUME IInv, (\E i \in DOMAIN StopOrder : Stop(i)) \/ AllStopped
  PROVE  IInv'
<1>1. CASE \E i \in DOMAIN StopOrder : Stop(i)
  <2> USE SameJudges, SameContent DEF Stop, outcome, verdict, losses
  <2>1. \A i \in DOMAIN StopOrder : StopOrder[i] \in Activities
    BY DEF StopOrder, Activities
  <2>2. Flags' /\ Values'
    <3>1. Flags'
      BY <1>1, <2>1 DEF IInv, Flags
    <3>2. Values'
      BY <1>1, <2>1 DEF IInv, Values
    <3> QED BY <3>1, <3>2
  <2>3. Rows' /\ Quiet' /\ Whole' /\ Losses'
    BY <1>1 DEF IInv, Rows, Quiet, Whole, Losses
  <2>4. Opinions'
    BY <1>1 DEF IInv, Opinions
  <2> QED BY <2>2, <2>3, <2>4 DEF IInv
<1>2. CASE AllStopped
  <2> USE SameJudges, SameContent DEF AllStopped, outcome, world, verdict, losses
  <2>1. Flags' /\ Values'
    <3>1. Flags'
      BY <1>2 DEF IInv, Flags
    <3>2. Values'
      BY <1>2 DEF IInv, Values, Stages
    <3> QED BY <3>1, <3>2
  <2>2. "scheduler" \notin active /\ "nodes" \notin active
    <3>1. /\ 1 \in DOMAIN StopOrder /\ StopOrder[1] = "scheduler"
          /\ 2 \in DOMAIN StopOrder /\ StopOrder[2] = "nodes"
      BY DEF StopOrder
    <3> QED BY <1>2, <3>1 DEF Stopped, Awaited
  <2>3. Rows' /\ Quiet' /\ Losses'
    BY <1>2, <2>2 DEF IInv, Rows, Quiet, Losses, Judging, Decided
  <2>4. Whole' /\ Opinions'
    BY <1>2 DEF IInv, Whole, Opinions, Judging, Decided, Early
  <2> QED BY <2>1, <2>3, <2>4 DEF IInv
<1> QED BY <1>1, <1>2

(* No judge takes an objection or a loss back. *)
LEMMA NothingIsTakenBack ==
  ASSUME NEW j, lost => historyErr,
         \/ NoOpinion(j) \/ Object(j)
         \/ UNCHANGED <<found, violations, losses>>
  PROVE  /\ found => found'
         /\ historyErr => historyErr'
         /\ lost' => historyErr'
<1>1. CASE NoOpinion(j)
  <2>1. CASE UNCHANGED found /\ historyErr' = TRUE
    BY <2>1
  <2>2. CASE found' = TRUE /\ UNCHANGED <<historyErr, lost>>
    BY <2>2
  <2> QED BY <1>1, <2>1, <2>2 DEF NoOpinion
<1>2. CASE Object(j)
  BY <1>2 DEF Object, MayLose, LoseWrite, losses
<1>3. CASE UNCHANGED <<found, violations, losses>>
  BY <1>3 DEF losses
<1> QED BY <1>1, <1>2, <1>3

LEMMA JudgeKeeps ==
  ASSUME IInv, NEW j \in Judges, Judge(j)
  PROVE  IInv'
<1>1. /\ found => found'
      /\ historyErr => historyErr'
      /\ lost' => historyErr'
  BY NothingIsTakenBack DEF IInv, Losses, Judge
<1> USE SameJudges, SameContent DEF Judge, NoOpinion, Object, MayLose,
                                    LoseWrite, outcome, world, losses
<1>2. stage = "judge" /\ stage' = "judge" /\ Judges' = Judges
  OBVIOUS
<1>3. Flags' /\ Values'
  <2>1. Flags'
    BY <1>2 DEF IInv, Flags
  <2>2. Values'
    BY <1>2 DEF IInv, Values
  <2> QED BY <2>1, <2>2
<1>4. Rows' /\ Quiet'
  BY <1>2 DEF IInv, Rows, Quiet
<1>5. Losses'
  <2>1. lost' => historyErr'
    BY <1>1
  <2> QED BY <1>2, <2>1 DEF Losses, Decided
<1>6. Whole'
  BY <1>2 DEF IInv, Whole, Decided
<1>7. (found \/ historyErr \/ Content(j))'
  BY DEF Content, Objects, Checkers
<1>8. Opinions'
  <2>1. (found => found') /\ (historyErr => historyErr')
    BY <1>1
  <2>2. \A k \in judged : (found \/ historyErr \/ Content(k))'
    BY <2>1 DEF IInv, Opinions
  <2>3. violations' # {} => found'
    BY <2>1 DEF IInv, Opinions
  <2> QED BY <1>2, <1>7, <2>2, <2>3 DEF Opinions, Decided, Judging
<1> QED BY <1>3, <1>4, <1>6, <1>8, <1>5 DEF IInv

LEMMA VerdictKeeps ==
  ASSUME IInv, AllJudged \/ Decide \/ UpdateRun \/ Announce \/ Report
  PROVE  IInv'
<1> USE SameJudges, SameContent DEF MayLose, LoseWrite, outcome, world, verdict, losses, Judging, Decided
<1>1. CASE AllJudged
  <2> USE DEF AllJudged
  <2>1. Flags' /\ Values'
    <3>1. Flags'
      BY <1>1 DEF IInv, Flags
    <3>2. Values'
      BY <1>1 DEF IInv, Values, Stages
    <3> QED BY <3>1, <3>2
  <2>2. Rows' /\ Quiet' /\ Whole' /\ Losses'
    BY <1>1 DEF IInv, Rows, Quiet, Whole, Losses, Early
  <2>3. Opinions'
    BY <1>1 DEF IInv, Opinions
  <2> QED BY <2>1, <2>2, <2>3 DEF IInv
<1>2. CASE Decide
  <2> USE DEF Decide, FinalStatus
  <2>1. Flags' /\ Values'
    <3>1. Flags'
      BY <1>2 DEF IInv, Flags
    <3>2. Values'
      BY <1>2 DEF IInv, Values, Stages, Statuses
    <3> QED BY <3>1, <3>2
  <2>2. Rows' /\ Quiet' /\ Losses'
    BY <1>2 DEF IInv, Rows, Quiet, Losses
  <2>3. Whole'
    <3>1. final' \in {"PASSED", "FAILED"} => found \/ final = "PASSED"
      BY <1>2 DEF IInv, Whole
    <3>2. final' \in {"PASSED", "FAILED"} => over = "time" /\ ~failed
      BY <3>1, <1>2 DEF IInv, Whole
    <3> QED BY <1>2, <3>2 DEF IInv, Whole, Early
  <2>4. final' = "PASSED" => ~found /\ \A j \in Judges : Content(j)
    BY <1>2 DEF IInv, Opinions
  <2>5. Opinions'
    BY <1>2, <2>4 DEF IInv, Opinions
  <2> QED BY <2>1, <2>2, <2>5, <2>3 DEF IInv
<1>3. CASE UpdateRun
  <2> USE DEF UpdateRun
  <2>1. Flags' /\ Values'
    <3>1. Flags'
      BY <1>3 DEF IInv, Flags
    <3>2. Values'
      BY <1>3 DEF IInv, Values, Stages
    <3> QED BY <3>1, <3>2
  <2>2. Rows' /\ Quiet' /\ Whole' /\ Losses'
    BY <1>3 DEF IInv, Rows, Quiet, Whole, Losses, Early
  <2>3. Opinions'
    BY <1>3 DEF IInv, Rows, Opinions, Content
  <2> QED BY <2>1, <2>2, <2>3 DEF IInv
<1>4. CASE Announce
  <2> USE DEF Announce
  <2>1. Flags' /\ Values'
    <3>1. Flags'
      BY <1>4 DEF IInv, Flags
    <3>2. Values'
      BY <1>4 DEF IInv, Values, Stages
    <3> QED BY <3>1, <3>2
  <2>2. Rows' /\ Quiet' /\ Whole' /\ Losses'
    BY <1>4 DEF IInv, Rows, Quiet, Whole, Losses, Early
  <2>3. Opinions'
    BY <1>4 DEF IInv, Opinions
  <2> QED BY <2>1, <2>2, <2>3 DEF IInv
<1>5. CASE Report
  <2> USE DEF Report
  <2>1. Flags' /\ Values'
    <3>1. Flags'
      BY <1>5 DEF IInv, Flags
    <3>2. Values'
      <4>1. ReadStatus \subseteq Statuses \union {"UNKNOWN"}
        BY DEF IInv, Values, ReadStatus
      <4>2. "CRASHED" \in Statuses
        BY DEF Statuses
      <4>3. \A v \in {FALSE, violations # {}} : v \in BOOLEAN
        OBVIOUS
      <4>4. failed \in BOOLEAN
        BY DEF IInv, Flags
      <4>5. ASSUME NEW s \in Statuses \union {"UNKNOWN"}, NEW v \in BOOLEAN,
                   NEW e \in BOOLEAN
            PROVE  [status |-> s, violations |-> v, err |-> e] \in RunResult
        BY DEF RunResult
      <4>6. report' \in RunResult
        <5>1. CASE report' = [status |-> "CRASHED", violations |-> FALSE,
                              err |-> TRUE]
          BY <5>1, <4>2, <4>5
        <5>2. CASE \E s \in ReadStatus, v \in {FALSE, violations # {}} :
                     report' = [status |-> s, violations |-> v, err |-> failed]
          <6>1. PICK s \in ReadStatus, v \in {FALSE, violations # {}} :
                  report' = [status |-> s, violations |-> v, err |-> failed]
            BY <5>2
          <6>2. s \in Statuses \union {"UNKNOWN"} /\ v \in BOOLEAN
            BY <4>1, <4>3
          <6> QED BY <6>1, <6>2, <4>4, <4>5
        <5> QED BY <1>5, <5>1, <5>2
      <4> QED BY <1>5, <4>6 DEF IInv, Values, Stages
    <3> QED BY <3>1, <3>2
  <2>2. Rows'
    BY <1>5 DEF IInv, Rows, ReadStatus
  <2>3. Quiet' /\ Whole' /\ Losses'
    BY <1>5 DEF IInv, Quiet, Whole, Losses, Early
  <2>4. Opinions'
    BY <1>5 DEF IInv, Opinions
  <2> QED BY <2>1, <2>2, <2>3, <2>4 DEF IInv
<1> QED BY <1>1, <1>2, <1>3, <1>4, <1>5

(* One part of the life of a run after the other keeps the invariant. *)
THEOREM StepPreserves == IInv /\ [Next]_vars => IInv'
<1>1. ASSUME IInv, Lifecycle PROVE IInv'
  BY <1>1, RunKeeps, StoppingKeeps, JudgeKeeps, VerdictKeeps DEF Lifecycle
<1>2. ASSUME IInv, Environment PROVE IInv'
  BY <1>2, WriteKeeps, EnvironmentKeeps DEF Environment
<1>3. ASSUME IInv, UNCHANGED vars PROVE IInv'
  BY <1>3, SameJudges, SameContent DEF vars, IInv, Flags, Values, Rows, Quiet, Whole, Opinions,
                          Losses
<1> QED BY <1>1, <1>2, <1>3 DEF Next

THEOREM Invariance == Spec => []IInv
  BY InitEstablishes, StepPreserves, PTL DEF Spec

-----------------------------------------------------------------------------
(* Every variable has a value of its type, and a report has a status. *)
THEOREM TypeCorrect == Spec => []TypeOK
<1>1. IInv => TypeOK
  BY DEF IInv, Flags, Values, TypeOK
<1> QED BY <1>1, Invariance, PTL

(* What is said of a run, other than that it crashed or cannot be read, is *)
(* its verdict, and said after the verdict.                                *)
LEMMA SaidIsFinal ==
  ASSUME IInv, NEW s \in {"PASSED", "FAILED", "ABORTED"}, Says(s)
  PROVE  row = s /\ final = s /\ stage \in Decided
  BY DEF IInv, Rows, Says, NoReport, Decided

(* A run that is called PASSED was judged on all that it waited for        *)
(* (cleanup), and no judge had a reason to object.                         *)
THEOREM PassedRunsAreJudged == Spec => []PassedIsJudged
<1>1. IInv => PassedIsJudged
  <2> SUFFICES ASSUME IInv, Says("PASSED") PROVE PassedIsJudged
    BY DEF PassedIsJudged
  <2>1. row = "PASSED" /\ final = "PASSED" /\ stage \in Decided
    BY SaidIsFinal
  <2>2. ~found /\ ~failed /\ \A j \in Judges : Content(j)
    BY <2>1 DEF IInv, Opinions, Whole
  <2>3. violations = {}
    BY <2>2 DEF IInv, Opinions
  <2>4. /\ "fault execution" \in Judges /\ config.checkers \subseteq Judges
        /\ config.successes => "workload coverage" \in Judges
        /\ config.operations /\ config.checkers # {} =>
             "workload coverage" \in Judges
        /\ config.injections => "fault coverage" \in Judges
    BY DEF Judges
  <2> QED BY <2>2, <2>3, <2>4 DEF PassedIsJudged, Content
<1> QED BY <1>1, Invariance, PTL

(* A lost write of one the runner waits for is not hidden by a verdict     *)
(* (recordHistoryError, cleanup).                                          *)
THEOREM LossesShow == Spec => []LostWriteIsNotHidden
<1>1. IInv => LostWriteIsNotHidden
  <2> SUFFICES ASSUME IInv, lost, NEW s \in {"PASSED", "FAILED", "ABORTED"},
                      Says(s)
               PROVE  FALSE
    BY DEF LostWriteIsNotHidden
  <2>1. row = s /\ final = s /\ stage \in Decided
    BY SaidIsFinal
  <2> QED BY <2>1 DEF IInv, Losses
<1> QED BY <1>1, Invariance, PTL

(* PASSED and FAILED are verdicts on a run whose workload took its whole   *)
(* duration (Run).                                                         *)
THEOREM VerdictsAreOfFullRuns == Spec => []VerdictIsOfFullRun
<1>1. IInv => VerdictIsOfFullRun
  <2> SUFFICES ASSUME IInv, NEW s \in {"PASSED", "FAILED"}, Says(s)
               PROVE  over = "time"
    BY DEF VerdictIsOfFullRun
  <2>1. row = s /\ final = s /\ stage \in Decided
    BY SaidIsFinal
  <2> QED BY <2>1 DEF IInv, Whole
<1> QED BY <1>1, Invariance, PTL
=============================================================================
