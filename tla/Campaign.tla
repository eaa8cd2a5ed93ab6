------------------------------ MODULE Campaign ------------------------------
(***************************************************************************)
(* A campaign: one run per seed of a range, one after the other            *)
(* (RunCampaign of internal/campaign/campaign.go), up to what the command  *)
(* line makes of its counters.                                             *)
(*                                                                         *)
(* A run is whatever RunAndReport may answer: Runner shows that the        *)
(* program's own runner answers less than is admitted here; the interface  *)
(* campaignRunner promises no more.                                        *)
(***************************************************************************)
EXTENDS SeedRange, Sequences, FiniteSets, SequencesExt, Interruption

CONSTANTS
  Limit,    \* the range must be shorter than this
  Checkers  \* the names of checkers that runs report

(* A million seeds in 64 bits. *)
ASSUME CampaignAssumption == Limit \in 1 .. Half - 1

Counters == {"PASSED", "FAILED", "CRASHED", "ABORTED"}

(* What a run may report: a status, the checkers of its violations and an  *)
(* error; or no result at all.                                             *)
Reports == [status : Counters \union {"RUNNING", "UNKNOWN"},
            violations : SUBSET Checkers, err : BOOLEAN]
NoResult == [status |-> "none", violations |-> {}, err |-> TRUE]

VARIABLES
  seedStart, seedEnd,  \* the range
  stopOnFailure,
  phase,      \* "start", "loop", "refused" or "reported"
  index,      \* the loop counter
  results,    \* SeedResults
  count,      \* Passed, Failed, Crashed and Aborted
  early,      \* StoppedEarly
  groups      \* FailureGroups

cvars == <<seedStart, seedEnd, stopOnFailure, phase, index, results, count,
           early, groups, cancelled>>
range == <<seedStart, seedEnd, stopOnFailure>>

CampaignInit ==
  /\ seedStart \in Seeds /\ seedEnd \in Seeds /\ stopOnFailure \in BOOLEAN
  /\ phase = "start" /\ index = 0
  /\ results = <<>> /\ count = [c \in Counters |-> 0] /\ early = FALSE
  /\ groups = [c \in Checkers |-> {}]
  /\ cancelled = FALSE

TotalSeeds == Signed(Signed(seedEnd - seedStart) + 1)

(* Mutant: the length of the range is compared as a signed number. *)
TooLongSigned == seedStart > seedEnd \/ Signed(seedEnd - seedStart) >= Limit

(* Backward, or too long: compared without a sign. *)
TooLong == seedStart > seedEnd \/ Unsigned(seedEnd - seedStart) >= Limit

Start ==
  /\ phase = "start"
  /\ phase' = IF TooLong THEN "refused" ELSE "loop"
  /\ UNCHANGED <<range, index, results, count, early, groups, cancelled>>

CampaignCancel ==
  /\ phase = "loop" /\ Cancel
  /\ UNCHANGED <<range, phase, index, results, count, early, groups>>

(* The status a seed is counted under. *)
Normal(r) ==
  IF r.status \notin Counters \/ (r.err /\ r.status = "PASSED") THEN "CRASHED"
  ELSE IF r.status = "PASSED" /\ r.violations # {} THEN "FAILED"
  ELSE r.status

(* The result of a seed is appended and counted, and the loop goes on or   *)
(* stops at a failure.  "named" are the checkers that could be read back.  *)
Count(r, named) ==
  LET status == Normal(r) IN
  /\ results' = Append(results,
       [seed |-> Signed(seedStart + index), status |-> status,
        violations |-> r.violations # {}, checkers |-> named, err |-> r.err])
  /\ count' = [count EXCEPT ![status] = @ + 1]
  /\ IF stopOnFailure /\ status # "PASSED"
     THEN early' = TRUE /\ index' = TotalSeeds
     ELSE index' = index + 1 /\ UNCHANGED early

InLoop == phase = "loop" /\ index < TotalSeeds

(* A runner that cannot be made is counted like one without a result. *)
RunSeed ==
  /\ InLoop /\ ~cancelled
  /\ \E r \in Reports \union {NoResult}, named \in SUBSET Checkers :
       /\ named \in {{}, r.violations}
       /\ Count(r, named)
  /\ UNCHANGED <<range, phase, groups, cancelled>>

(* Mutant: the break leaves the select, not the loop. *)
InterruptSelect ==
  /\ InLoop /\ cancelled
  /\ early' = TRUE /\ index' = index + 1
  /\ count' = [count EXCEPT !["ABORTED"] = @ + 1]
  /\ UNCHANGED <<range, phase, results, groups, cancelled>>

(* Between two seeds the cancelled one is counted, without a result. *)
Interrupt ==
  /\ InLoop /\ cancelled
  /\ early' = TRUE /\ index' = TotalSeeds
  /\ count' = [count EXCEPT !["ABORTED"] = @ + 1]
  /\ UNCHANGED <<range, phase, results, groups, cancelled>>

(* GroupFailures: the seeds with a violation, by checker.  The code lists  *)
(* them in the order in which they ran.                                    *)
GroupFailures ==
  [c \in Checkers |-> {results[i].seed : i \in {j \in DOMAIN results :
                         results[j].violations /\ c \in results[j].checkers}}]

Report ==
  /\ phase = "loop" /\ index >= TotalSeeds
  /\ phase' = "reported" /\ groups' = GroupFailures
  /\ UNCHANGED <<range, index, results, count, early, cancelled>>

CampaignNext == Start \/ CampaignCancel \/ RunSeed \/ Interrupt \/ Report

CampaignSpec == CampaignInit /\ [][CampaignNext]_cvars
-----------------------------------------------------------------------------
(* The command line calls the campaign a success. *)
Green ==
  /\ phase = "reported" /\ ~early
  /\ count["PASSED"] = TotalSeeds
  /\ \A c \in Counters \ {"PASSED"} : count[c] = 0

(* A campaign that the command line calls a success has run every seed of  *)
(* the range that was asked for, once and in order, and every one of these *)
(* runs passed without violation and without error.                        *)
GreenMeansAllPassed ==
  Green =>
    /\ Len(results) = seedEnd - seedStart + 1
    /\ \A i \in DOMAIN results :
         /\ results[i].seed = seedStart + i - 1
         /\ results[i].status = "PASSED"
         /\ ~results[i].violations /\ ~results[i].err

Occurrences(s) == Cardinality({i \in DOMAIN results : results[i].status = s})

(* Every result of a reported campaign has one of the counted statuses,    *)
(* and the counters are those of the results, but for one seed that is     *)
(* counted as aborted because the campaign was cancelled before it; the    *)
(* groups name no seed whose result has no violation.  A campaign that was *)
(* not stopped has a result for every seed, and one that stops on failure  *)
(* has at most one failure, its last result.                               *)
EverySeedIsAccountedFor ==
  phase = "reported" =>
    /\ \A i \in DOMAIN results : results[i].status \in Counters
    /\ \A c \in Counters \ {"ABORTED"} : count[c] = Occurrences(c)
    /\ count["ABORTED"] - Occurrences("ABORTED")
         \in IF cancelled /\ early THEN {0, 1} ELSE {0}
    /\ \A c \in Checkers : \A seed \in groups[c] :
         \E i \in DOMAIN results :
           results[i].seed = seed /\ results[i].violations
    /\ ~early => Len(results) = TotalSeeds
    /\ stopOnFailure => \A i \in 1 .. Len(results) - 1 :
                          results[i].status = "PASSED"
=============================================================================
