# Verification of FailForge in TLA+

FailForge (`src/`) starts a cluster of real processes, drives an HTTP workload
against it, injects faults from a seeded schedule, records a history and lets
checkers judge the history.  A tool of that kind is only worth something if two
things are true of it: it does to the cluster what it says it does (no process
left over, no node left frozen, no crash recorded that the tool caused itself),
and its oracles neither accuse a correct system nor excuse a wrong one.  This
directory models both halves, checks them with TLC on small instances and proves
the core with TLAPS.

Paths in this text are relative to `src/internal/` unless they start with `src/`.

## 1. The system

    cli -> campaign / hardening -> runner -+-> node.NodeManager --- processes
                                           |        ^
                                           +-> faults.Scheduler --> proxy rules
                                           +-> proxy.Proxy <------- workload
                                           +-> workload.Generator + monitor
                                           +-> checkers <--- store (SQLite)
                                           +-> replay, minimizer, timelines

| component | state | operations | what is hard | what makes it correct |
|---|---|---|---|---|
| node manager (`node/manager.go`) | per node: process, state, generation of the context, PID, restarts | StartAll, StopAll, Start/Kill/Stop/Suspend/ResumeNode, RestartNode; one monitor goroutine per process; os/exec's context watcher; grace timer | a mutex that RestartNode gives up while it sleeps, three independent sources of signals, exits at any time | one live process per node at most, recorded state agrees with the process, an exit it caused is no crash, StopAll returns |
| node snapshots (`node/manager.go`) | copies of data directories, at most three | take, restore, list, prune | a copy of a directory that is being written | a restore returns exactly one of the latest snapshots, and nothing is altered under a live node |
| fault scheduler (`faults/scheduler.go`) | schedule, remaining faults, context, recoveries in flight, event trail | Start, Stop, runLoop, injectFault | due faults in batches, recoveries that overlap, a shutdown at any point | every fault is accounted for, no node stays frozen, shutdown ends |
| process and persistence faults (`faults/fault_*.go`) | recovery goroutines | inject, recover | a failure half way | never resumes or damages what it did not stop |
| schedule planner (`faults/scheduler.go:235-579`) | picture of busy and stopped nodes | generateRandomSchedule, assignGeneratedProcessTargets | the plan is made before the run, against an ideal clock | executing the plan on time never fails |
| network proxy and network faults (`proxy/proxy.go`, `faults/fault_*`) | partition, drop, asymmetry, delay, duplicate and corruption rules | setters, Clear*, ServeHTTP | the handler looks at the rules in separate locked sections while a heal clears them in three | what was forwarded could be forwarded, what was blocked was blocked by a rule |
| workload generator (`workload/generator.go`) | client sessions, last known values | one loop per client, execute and record | timeouts, lost replies, duplicates | the history is what the client saw |
| leadership monitor (`workload/generator.go:644-818`) | last known leader | a sweep over the nodes, events | the cluster moves during a sweep | the events describe the cluster |
| checkers (`checkers/*.go`) | none | CheckHistory | real-time order of whole milliseconds, operations of unknown outcome | no false report, no missed one where the history is complete |
| runner (`runner/runner.go`) | run record, node states in the store, history error | Run, cleanup, handleNodeEvent, logEvent | several goroutines feed the history while it shuts down | a PASSED run was really checked |
| replay, minimizer (`runner/replay.go`, `runner/minimize.go`) | schedule | remove, halve, test again | the failure is not deterministic | the minimized schedule was seen to fail |
| campaign (`campaign/`) | counters, results, groups | one run per seed | cancellation between runs, ranges whose length overflows | no seed is lost, and success is success |
| hardening (`hardening/`) | summary in memory, on disk and about to be renamed; evidence; processes of an attempt | plan, checkpoint, prepare, execute, judge, seal, stop | the process dies between any two steps and is started again; PIDs are used again; timeouts race with exits | evidence is only added to, PASSED is earned, no process is left behind and nobody else's is killed |
| store, config, model, timelines, cli | rows, records, text | SQL, parsing, rendering | none of their own | data |

The runner creates the node manager, the proxy, the workload and the scheduler,
starts the nodes, then scheduler and workload, waits for the end of the run,
an interruption or an aborting event, and cleans up in a fixed order: workload,
scheduler, nodes, proxy, checkers (`runner/runner.go:134-364`).
The node manager and the scheduler report events by callback
(`handleNodeEvent`, `logEvent`); faults call the node manager's methods directly
and set rules in the proxy; the workload goes through the proxy; the checkers
read what was stored, and nothing else.

`PROJECT.json` has the complete list of components, of those not modelled too,
and of the hazards of this code, each with its line and the properties that
would catch it going wrong.

## 2. The plan

The order is that of importance: first what the tool does to a cluster, then
what it concludes, then what is built around a run.

| step | modules | composes | state |
|---|---|---|---|
| 1 | `NodeManager`, abstract `NodeLifecycle`, `NodeManager_proofs` | | modelled, checked, proved |
| 2 | `FaultScheduler`, `FaultScheduler_proofs` | an instance of `NodeManager`, and of its proofs | modelled, checked, proved |
| 3 | `LockOracle`, `LeaderOracle`, `ReadOracle`, `Oracles`, `Oracles_proofs` | generator or monitor, service under test, checker | modelled, checked, proved |
| 4 | `PlannedRun`, `PlannedRun_proofs` | planner and the scheduler's clock | modelled, checked, proved |
| 5 | `Proxy`, `Proxy_proofs` | proxy, network faults | modelled, checked, proved |
| 6 | `Runner`, `Runner_proofs` | everything that writes a history | modelled, checked, proved |
| 7 | `SeedRange`, `Campaign`, `Minimizer` | one `Interruption` | modelled, checked, proved |
| 8 | `DataDirectory`, `DataDirectory_proofs` | `NodeLifecycle`, persistence faults | modelled, checked, proved |
| 9 | `Hardening`, abstract `Execution`, `Supervisor` | `SeedRange`, `Deadline` | modelled, checked, proved |
| 10 | `Commands`, `Commands_proofs` | 7 and 9 in one process | modelled, checked, proved |

Abstract specifications: `NodeLifecycle` says what the node manager promises.
`NodeManager` is shown to implement it, and `DataDirectory` relies on nothing
else; `NodeManager!Spec` in turn is what `FaultScheduler` is shown to implement,
so what is proved of the manager holds under the scheduler.  `Execution` says
what the supervision of an attempt promises; `Supervisor` is shown to implement
it, and `Hardening` uses nothing else.  Correct services (an exclusive lock, a
linearizable register, a cluster with one leader per term) are the abstract side
of the oracles.

Every safety property that a passing run checks is also a theorem; liveness is
left to TLC (section 6).

## 3. The modules and the code

Definitions carry the names of the source where TLA+ allows it.  The lines each
of them stands for are in `PROJECT.json` under `map`.

**`NodeManager`** (`node/manager.go`).  One process of the operating system is
`<<n, k>>`, the k-th process of node n; `np.Cmd` is the last.  A method that
holds the mutex throughout is one action (`StartAll`, `StartNode`, `KillNode`,
`PauseNode`, `ResumeNode`, `StopAll`, `StartKilledNode`); `RestartNode`, which
gives the mutex up while it sleeps, is `RestartNodeKills` followed by
`RestartNodeStarts` or `RestartNodeFails`.  What happens without the mutex is
`Background`: a process exits, a posted signal takes effect, the watcher of
os/exec kills the process of a cancelled context, the grace timer expires, the
monitor reaps (`cmd.Wait` returns, `Done` is closed) and later records the exit
under the mutex, unless its generation has been replaced.  A signal is posted by
one step and delivered by another; a zombie can still be signalled, a reaped
process cannot.

**`NodeLifecycle`** has one variable, the number of live instances of each node
with their fate; `NodeManager!LiveOf` maps to it.

**`FaultScheduler`** (`faults/scheduler.go`, `faults/fault_*.go`,
`runner/runner.go:189-310`).  The variables of the manager are taken over and
its actions called through `Manager!`.  `loop` is where `runLoop` is, `recovery`
where the recovery goroutine of each fault is, `audit` the events of each fault.
One action per step between two blocking points: `Tick` finds faults due,
`InjectKill`, `InjectRestart`, `InjectPause`, `InjectOther` inject the first of
them, `Awake` and `Confirm` end the sleeps within an injection;
`CpuPauseEnds` and `SlowDisk...` are the recoveries.

**`PlannedRun`** (`faults/scheduler.go:235-579`).  First the planner:
`AssignProcessTarget` is one round of assignGeneratedProcessTargets, which takes
an eligible target and updates the picture of killed and busy nodes (`Foresee`),
`LeaveAlone` one for a fault without a process target.  A round looks at no later
sample, so that each sample is drawn when its turn comes.  Then the run executes
the plan against a clock.  The heal that may be appended to a generated schedule
touches no node and is left out.  `late` says that a fault was injected after
its time, `Tight` that a fault is planned for the moment at which a pause of its
target is to end.

**`DataDirectory`** (`node/manager.go:126-189, 300-321, 408-490`,
`faults/fault_disk_write_loss.go`, `fault_partial_persistence.go`,
`fault_stale_snapshot_restart.go`).  It extends `NodeLifecycle`: a start is a
`Begin`, a kill an `End`.  A file is `Absent`, `Empty`, cut to a `Part`, or the
number of the write that left it.  `BeginSnapshots` starts the copy with a start,
`CopyFile` and `MissFile` are what cp does to one file while the node goes on to
`Write`, `EndSnapshot` prunes and gives up the mutex.  A persistence fault is
`BeginFault`, then one of `DiskWriteLoss`, `PartialPersistence` and
`StaleSnapshotRestart`, each of which may fail half way, then `FaultStarts`.

**`LockOracle`, `ReadOracle`** (`workload/generator.go`,
`checkers/lock_exclusivity.go`, `checkers/read_after_write.go`).  A worker
invokes, the service handles the request or loses it or handles it late, the
worker records what it saw with timestamps in whole milliseconds and then moves
on; the checker is the operator `Reported` over the finished history.
`LockOracle!Round` is the body of the lock checker's loop, and `Intervals` the
loop: a function of the number of rounds made so far.
`silent`, `shared`, `tied`, `concurrent` and `wrong` are auxiliary: they
remember what really happened.  The services are external.

**`LeaderOracle`** (`workload/generator.go:644-818`,
`checkers/leader_uniqueness.go`).  A sweep is one step per node (`PollLeader`,
`PollOther`) and an end (`LeaderSeen`, `NoLeaderSeen`) that emits events;
`Judge` is the checker's loop body, `Verdict` its loop over the events, written
as a function like `Intervals`.

**`Oracles`** has a cluster watched by this monitor, a store of keys judged by
`ReadOracle`, or a lock service judged by `LockOracle`, as the configuration of a
run has one target and names the checkers that suit it.  The workers, their
clock and their history (`workloadVars`) are the same variables for the store and
the lock service; the target a run does not have stays as it is.

**`Proxy`** (`proxy/proxy.go`, `faults/fault_*`).  `rules` is the proxy's set of
rules per kind; a fault sets one, a heal clears partitions, drops and
asymmetries in three steps.  A request is an *original*, and the copy that a
duplicate rule makes the proxy send to itself a *duplicate*; the place `at` of a
message is the handler's next look at a rule, each look a step.  `seen` is
auxiliary: all that blocked the link at any time since the check began.

**`Runner`** (`runner/runner.go`).  `stage` is the place in `Run`, `cleanup` and
`RunAndReport`.  Five activities write to the history (`Write`), any write may
be lost (`LoseWrite`), the caller may cancel, the proxy may die.  `Judge` calls
the judges in the order of the code: fault execution, the configured checkers,
workload coverage, fault coverage.

**`Campaign`, `Minimizer`** (`campaign/campaign.go`, `runner/minimize.go`).  A
campaign's run and a minimizer's replay are whatever `RunAndReport` may answer.
A group of failures is the set of its seeds; their order in the report is left out.
Seeds are the integers of **`SeedRange`**, between `-Half` and `Half - 1`, and
their differences wrap around; `Half` is 2^63 in the code.  The minimizer keeps
`failing` and `refused`, the candidates whose replay failed or did not, which are
auxiliary.

**`Hardening`** (`hardening/hardening.go`, `evidence.go`, `provenance.go`).  `at`
is the place in `Run` and `runAttempt`; `summary`, `written` and `onDisk` are the
summary in memory, `summary.next.json` and `summary.json`.  A checkpoint is
`WriteNext` and `Rename`, after which Run goes on at `after`; `Fail` is an early
return with its deferred checkpoint.  `Prepare`, `Execute`, `ReadEvidence`,
`Seal` and `Judge` are an attempt; `Classify` and `Judged` are the judgement with
its precedences.  `Die` and `StartAgain` are the end of the process at any point
and the same command once more.  `executed` and `sound` are auxiliary.

**`Supervisor`** (`hardening/supervisor.go`).  The table of processes is the
kernel's: processes fork, exit, are reparented, and a PID is free for somebody
else when its process and its group are gone.  `Scan`, `Interrupted`, `TimesOut`
and `StorageFull` are the cases of execute's select, `KillOwned` and `KillCli` the
escalation, `Sweep` the end.  SIGKILL is posted by a step of execute
(`SignalOwned` marks a process `doomed`) and delivered by one of the kernel
(`Dies`); until then the process goes on, and execute returns without waiting
for anyone but its command line.  `everOwned` and `harmed` are auxiliary.
**`Execution`** has what Hardening sees of this: launched, running, returned with
an exit and a reason.

**`Deadline`** is the context of a matrix, done by an interrupt or by its own
timeout; **`Interruption`** the context of every command.

**`Commands`** (`cli/`) is one process with one of the commands campaign,
minimize or hardening, or the supervision of one attempt.

Type invariants are stated in the modules, as `TypeOK`, or, for `Campaign`,
`Minimizer`, `Supervisor` and `Hardening`, in `Commands_proofs` as part of the
inductive invariants, and all are proved.

## 4. What is checked

Every run uses the specification of its module; the two of `Oracles` differ in
the checkers they have.  `CHECK_DEADLOCK FALSE` is
stated everywhere, because everything here comes to a stop: a run ends, a
history is finished, all processes are gone.  Liveness properties say instead
where it must not stop.

| run | instance | shows |
|---|---|---|
| `manager` | 1 node, 3 processes | `NoOrphan`, `StateMatchesProcess`, `OwnStopIsNoCrash`, the refinement of `NodeLifecycle`, and that `StopAll` returns, an exit is noticed and a killed process dies |
| `scheduler` | 1 node; all pairs of process faults, and all triples of a pause, a restart or network fault, and a pause; 1 stall per slow disk that fits its duration | `PauseHasRecovery`, `AuditComplete`, `UsesManager`, `ShutdownCompletes` |
| `planned` | 2 nodes, every plan of 3 faults, segments of 3, durations 2 and 4, loop in time or 2 late | `PunctualPlanSucceeds`, `PictureComesTrue` |
| `data` | 1 node, 2 files, 2 snapshots kept, 4 starts, 3 writes, 1 failure of cp | `NeverUnderALiveNode`, `StaleRestartIsExact` |
| `lock_oracle` | 2 clients, lease of 2, clock to 5, 4 operations, 1 late request; a lossy exclusive service and a shared one | `LocksNoFalseReport`, `SharedLeaseIsReported` |
| `oracles` | 3 nodes, 2 terms, 3 sweeps, one leader per term and several; 2 clients, clock to 4, 4 operations, a linearizable store and an arbitrary one | `OneLeaderPerTermIsNotReported`, `RivalsInOneTermAreReported`, `SeparateLeadersAreNotReported`; `ReadsNoFalseReport`, `ReadsSequentialIsExact` |
| `proxy` | 1 client, 1 node, a request and its duplicate, 5 faults | `PassedWhenOpen`, `ReasonIsTrue`, `OneEcho`, `RecordIsTrue` |
| `runner` | 3 configurations that call all judges | `PassedIsJudged`, `LostWriteIsNotHidden`, `VerdictIsOfFullRun`, `RunEnds` |
| `commands` | campaigns: seeds of 3 bits, ranges up to 3; minimizer: 3 faults, 1 or 3 clients, 2 durations; matrices: 7 sets of options, at most 2 attempts; supervision: 3 PIDs, 4 processes | `GreenMeansAllPassed`, `EverySeedIsAccountedFor`; `SavedHasFailed`, `LocallyMinimal`; `PassedIsEarned`, `ExecutedIsRecorded`, `EvidenceIsAppendOnly`, `MatrixEnds`; `OnlyOwnAreKilled`, `SeenAreKilled`, the refinement of `Execution` |
| `scheduler_crash`, `leader_handover` | small | the findings of section 7 |

Why the bounds are enough:

- *manager*: nodes share nothing but the mutex and `StopAll`, which treats them
  alike; the interesting cases involve a process, its replacement, and a
  replacement of that while the first one's monitor has not run, which is three
  processes.  `MaxSpawns` guards the starts only.
- *scheduler*: recoveries interact only through the node they share, and two
  overlapping recoveries with a restart between them are in the triples.  A
  second stall repeats the first.
- *lock oracle*: a false report takes an expired or released lease of one client
  and a grant to another, two operations each; a late request and a lost reply
  are one more each.  Clients are symmetric; no property distinguishes them.
- *oracles*, reads: a violation takes two puts and a get; the fourth operation is
  concurrent with any of them.
- *oracles*, leaders: two claims in one sweep, a third node that is polled last,
  and a sweep in between that finds nothing.
- *planned*: three faults are a kill or a pause, a fault that must avoid its
  target, and a third that must not be given a node that does not exist any
  more for the planner; a duration of 4 outlasts a segment, one of 2 does not.
- *proxy*: handlers of different requests share nothing but the rules, which the
  faults change in any way; five faults are two rules, a heal, and two more.
- *runner*: the activities write whatever they may in any order, so a longer run
  writes nothing new.
- *data*: two files make a copy of two moments and a loss of one file only; the
  third snapshot is the first to be pruned, and the fourth start follows a
  restore; one failed copy stays in the list, and a second adds nothing to it.
  Nodes share nothing but the mutex.
- *commands*: three bits let a range cross zero, end at the largest seed or be
  all of the seeds, where the length overflows; three faults are enough for the
  minimizer's scan to remove one and go on at the right place.  Two attempts are
  one that is over and one under way; two seeds, two repetitions and two profiles
  exercise each index of a cell.  Three PIDs are the command line, a node and its
  child, and the fourth birth uses one of them again.

Each property of a passing run has a mutant in `PROJECT.json`: a change of one
mapped definition, like a bug someone might write, under which TLC finds the
property violated.

## 5. Fairness

Fairness is assumed only of what the kernel and the Go runtime owe the program.

- `NodeManager`: SIGKILL is delivered, the watcher of a cancelled context runs,
  a monitor goroutine runs when its process is gone, and `StopAll` returns when
  all monitors have closed their channels.  Nobody has to call a method, exit or
  cancel, and the grace timer need not fire: `StopAll` calls the node's
  `CancelFunc` itself, and the watcher then sends SIGKILL (section 8).
- `FaultScheduler`: timers fire, the loop and the recoveries are scheduled, and
  the cleanup goes on once begun.  That a fault becomes due, that a start
  succeeds or that the run ends by itself is not assumed.
- `Runner`: the runner's own goroutine makes progress, the timeout of the
  workload fires, and the three activities the runner waits for end once asked
  to, as `ShutdownCompletes` shows for two of them.  Nothing is assumed of
  the handlers of the proxy and of the leadership monitor.

- `Commands`: a matrix makes progress unless its process dies; execute returns,
  which is what the supervision is shown to do; there, the timeout of an attempt
  fires, its steps are taken once enabled, and SIGKILL ends whoever it was sent to.
  Nobody has to interrupt, no deadline has to pass and no process to exit by
  itself.  Nothing is assumed of campaigns and minimizations.

All of it is weak fairness: each of these steps stays enabled until it is taken
or another one has done its work (a cancelled run needs no timeout).  The other
modules state safety only.

## 6. What is proved

All theorems hold for every value of the constants that satisfies the named
assumptions of the module: bounds are natural numbers, `Configs` is a set of
configurations, `Options` a set of options, `Limit` is less than `Half`, the
clock of the oracles goes to 1 at least, and so on.  Nothing is assumed of `Nodes`, `Files`, `Endpoints` and `Requests`, not even
that they are finite.

**`NodeManager_proofs`.**  `Invariance` proves `[]IInv` with
`IInv == TypeOK /\ NoOrphan /\ StateMatchesProcess /\ Bookkeeping`.
The first three are not inductive alone.  `Bookkeeping` adds that processes are
born in order, so that the process a start creates has been sent nothing, and
that a node inside `RestartNode` has a process that is dead or doomed, although
the mutex was given up in between: without this the second half of a restart
could replace a living process.  `TypeCorrect`, `NoOrphanEver` and
`StateAlwaysMatches` follow.  `OwnStopNeverCrash` proves the action property from
`StateMatchesProcess`: a node recorded RUNNING or PAUSED has been sent nothing by
a method.  `Refinement` maps every action to a step of `NodeLifecycle` or a
stutter; a start maps to `Begin`, whose guard, that no live instance exists, is
what `NoOrphan` and `Bookkeeping` supply.

**`Proxy_proofs`.**  The four properties are proved together with `HealOrder`
(what a heal has cleared stays cleared while it goes on, because faults come one
after another), `Watched` (a message whose link has been blocked ever since its
check began is blocked by a rule the handler has still to look at), `Trail` (how
a message's record and arrival go with its place) and `Paired` (the duplicate
exists only when the original is done).  `HealOrder` is the crux: a heal clears
partitions, then drops, then asymmetries, and the handler looks in the same
order; in the opposite order a message could slip between two rules that
between them block its link all the time.  `NothingSlipsThrough`,
`ReasonsAreTrue`, `EchoEnds` and `RecordsAreTrue` are the results.

**`Runner_proofs`.**  `IInv == Flags /\ Values /\ Rows /\ Quiet /\ Whole /\
Opinions /\ Losses`.  `Flags` and `Values` are the types.  `Quiet` says
that nobody whom the runner waits for writes once the judges are called, so that
what a judge found content stays so; `Opinions` says that it does, `Whole` that
a run still on its way to PASSED was ended by its duration, and `Losses` that a
lost write is remembered until the verdict, which it decides.  `Rows` ties the
row in the database to the verdict and the report to the row.
`PassedRunsAreJudged`, `LossesShow` and `VerdictsAreOfFullRuns` follow from
`Rows` with one of the others each.

**`DataDirectory_proofs`.**  `DataIInv` adds to the types `DownMeanwhile`, that
the node of a fault under way is down and no copy is being made, and that the
directory stale_snapshot_restart has restored is one of the snapshots;
`Latest`, which start took which snapshot as long as no copy failed; and
`Copies`.  The manager is any implementation of `NodeLifecycle`.
`NeverAltersUnderALiveNode` and `StaleRestartsAreExact` follow.

**`FaultScheduler_proofs`.**  The scheduler shares the manager's variables, and
each of its steps is one of `NodeManager` or leaves those alone
(`SchedulerUsesManager`).  So the manager's theorems hold under the scheduler
without a second proof: the module takes an instance of `NodeManager_proofs`, and
`ManagerKeepsItsPromises` draws the conclusion.  The invariant of the scheduler
itself is `Own`: `Progress` ties the loop and the cleanup to one another,
`Sleeping` says who may be inside `RestartNode`, `PauseHasRecovery` is inductive
given these, and `Audited` says of each fault, by the place of the loop and of
its recovery, which events it has; a fault that is behind the loop and whose
recovery is over has all of them.  `PausesAreRecovered` and `AuditsAreComplete`
follow.

**`Oracles_proofs`.**  Each target has its inductive invariant.

- *Leaders*, `LeadersInv`: `Announced` (what a sweep ended with is in the log, and
  stays there although kills are inserted before the end), `OnePerTerm` (of a
  correct cluster, all that leads, that the sweep under way has seen and that is
  in the log agrees on the leader of each term) and `Apart`.  `VerdictIsExact` is
  about the checker alone: by induction over the rounds of its loop, for every
  log, it reports rivals just when the log has two nodes in one term, and
  several leaders only when no step down or kill lies between two elections.
- *Reads*, `ReadsInv`: `Identities` of puts, `Overwriting` (a value overwritten
  before it was acknowledged is never held again, late puts included),
  `Freshness` of what gets answer, and for operations that follow one another
  `Sequence`, which ties `wrong` to what the checker will notice.
- *Locks*, `LocksInv`: `Exclusive` is what an exclusive service has granted to
  clients that were told of everything, the reply under way included: a client's
  tokens go up, no two clients have one token, and a lease was granted only when
  all earlier ones were `Gone`, expired since their invocation or asked to be
  released.  `Certainty` and `Sharing` say where in the history the proof lies
  that a client owned the lease.  `Judged` is the invariant of the checker's
  loop: whatever the service, each ownership that the history proves is in an
  interval (`Shown`), and, if leases were granted one after the other, no
  interval outlasts its grant or goes on after a later one (`Sound`).
  `ExclusiveLocksAreNotReported` combines `Exclusive` and `Sound`,
  `SharedLeasesAreReported` `Sharing` and `Shown`.

The checkers' loops are reasoned about with two lemmas at the head of the module:
`SetInduction` is induction over a set of numbers, from the well-foundedness of
Nat, and `LoopExists` says that a loop has a function.  The library's own
theorems take an operator, which the provers cannot instantiate; a set they can.

**`PlannedRun_proofs`.**  `Invariance` proves `[]Inv` with
`Inv == TypeOK /\ PlanInv /\ ClockInv /\ PunctualInv`, for any number of nodes and
faults and any lengths of segments, pauses and sleeps.  `PunctualPlanSucceeds` is
far from inductive: that a fault finds its node as it should depends on all that
the planner assumed of earlier ones.

- `PlanInv` is about the planner: each fault was given a sound target (`Sound`:
  none that is paused, and only to a restart one that is down), `killed` is the
  set of nodes that are down by the plan (`DownAt`), and `busyUntil` covers every
  pause.  Its first part is a result of its own, `PlansAreSound`.
- `ClockInv` says that what is waited for lies ahead, in every run.
- `PunctualInv` says that in a punctual run each pause ends when the planner
  expects it to, and that the state of each node is the one it foresaw: KILLED
  just when it is down by the plan or the loop sleeps inside a fault of it, and
  PAUSED only in a stall.

The crux are `NoneActive` and `OneActive`: no two faults have still to do with one
node.  The later one is planned for `BusyUntil` of the earlier one or after, and
the clock, which does not pass a moment at which something is due, is there only
when the earlier one is over; only a cpu_pause that ends at that very moment may
be late, and that is `Tight`.  `PunctualPlansSucceed` and `PicturesComeTrue`
follow.

**`Commands_proofs`** has a part for each command.

- *Matrices*, `HardeningInv == Types /\ Memory /\ Disk /\ Passes`.  `Memory`
  ties the summary to the place where Run is or goes after its checkpoint
  (`Place`), `Disk` that on disk to that in memory: they agree from the
  checkpoint of an attempt until its end is known, and what is over on disk is
  the same in memory.  `Passes` follows PASSED from an attempt's evidence to the
  final status.  `EvidenceStays`, `ExecutionsAreRecorded` and `PassesAreEarned`
  follow; `SizeIsBounded` shows that the product of a valid matrix is at most
  `MaxRuns` although it is validated by divisions, and `EveryCellIsAnAttempt`
  that the numbering of attempts misses no repetition, profile or seed.
- *Supervision*, `SupervisorInv`.  The crux is how PIDs and groups of living
  processes are related: a PID is not used again while a group of its number
  exists, so a group whose leader is alive and ours has no foreign member.  With
  it `OthersAreSpared`; `FoundAreKilled` needs that what is alive of everything
  ever found is owned under its present identity when the sweep begins, so that
  the sweep sends it SIGKILL, and that nobody is found afterwards.
  `BehavesLikeExecution` is the safety part of the refinement: every step is one
  of `Execution` or a stutter.  Processes go on after execute has returned, and
  it uses that the command line is not one of them: its exit is final.
- *Campaigns*, `CampaignInv` and `AccountInv`.  A range that is not refused is at
  most `Limit` long and the signed arithmetic that counts it is exact
  (`TotalIsExact`); with that, `Accounted` numbers the results while the loop
  runs, and a counter that is zero excludes its status from them:
  `GreenIsEarned`.  `Tally` says that each counter is the number of results with
  its status, but for one ABORTED that a cancelled loop may count without a
  result; `SeedsAreAccountedFor` follows.
- *Minimizations*, `MinimizerInv`: of every step, what has been tried and refused
  with the faults, clients and duration kept so far: `SavedRunsFail`,
  `NothingLeftToTry`.
- `CommandsKeepTheirPromises`: in the one process that executes any of them each
  keeps its promises, although all share the interruption.

What is only model-checked: the liveness properties `StopAllCompletes`,
`EndsAreNoticed`, `ShutdownCompletes`, `RunEnds` and `MatrixEnds`, and the
liveness half of `ImplementsExecution`, which need fairness and ENABLED, out of
this prover's reach.  No module uses RECURSIVE.

## 7. Findings

Two runs end in a violation that the code does have:

- `scheduler_crash` (`faults/scheduler.go:132`): `Scheduler.Stop` cancels the
  context under which faults restarted nodes, before `StopAll` has marked them
  STOPPED.  The normal end of a run with one restart can therefore record a
  CRASHED node and a NodeCrashed event that the tool caused itself.
- `leader_handover` (`workload/generator.go:794`): the new leader is announced
  before the old one steps down, and a cluster that never had two leaders is
  reported to have several.

## 8. Known limits of the code

What follows came up while modelling.  It is part of the models, and is why some
properties have a precondition; no document of the repository says otherwise, so
no run contradicts it.

- `StopAll` cancels the node's context right after SIGTERM, so a node has no
  grace period (`node/manager.go:243`).
- A lock whose grant was lost, and which is granted again to its client later,
  is judged from the second grant on (`lock_exclusivity.go:158`):
  `LocksNoFalseReport` asks for `silent = {}`.
- An UNLOCK that released the lease but whose reply was lost is dropped from the
  history, and the next owner of an exclusive lock is reported
  (`lock_exclusivity.go:97`).  A test wants it so: "failed unlock does not end
  ownership" (`lock_exclusivity_regression_test.go:175-179`).  `silent = {}`
  excludes this too, so no property covers it.
- A restart that is asleep in `RestartNode` when the run ends cannot start its
  node any more (`node/manager.go:318-323`); the trail then has a
  FaultInjectionFailed, for which fault_execution fails the run
  (`checkers/coverage.go:103`).
- A put and a get that share a millisecond may be reported although they
  overlapped (`read_after_write.go:68`): `~tied`.
- Of two leaders in the same sweep only the one polled last becomes an event, so
  a lasting split brain goes unseen until a sweep ends with the other
  (`generator.go:715`):
  `RivalsInOneTermAreReported` speaks of outcomes.
- The planner's picture is right on time only: the loop sleeps inside a restart
  and may start late, and a fault planned for the very end of a pause may come
  before the recovery (`scheduler.go:528`): `Punctual`.
- Clients call themselves `client-N` in faults' rules and `client` in requests
  without a session (`generator.go:162`, `scheduler.go:408-446`).
- A duplicate is sent without the query and without corruption
  (`proxy.go:559-584`).  A message recorded as unreachable may have reached its
  node, and the reason "partition" may be recorded without one if the last rule
  was healed meanwhile (`proxy.go:391`).  Failures to store a message row are
  ignored (`proxy.go:404`, `proxy.go:485`).
- The leadership monitor and the handlers are not waited for, so what they write
  while the judges are at work may be missed (`runner.go:289`): `PassedIsJudged`
  speaks of what the runner waits for.
- If the proxy dies at the moment the workload ends, the runner may take either
  branch (`runner.go:238`).  If the last update fails, the row stays RUNNING.
  A restarted node's row stays KILLED (`runner.go:406`).
- A configuration that lists checkers but no operations runs the default ones
  without the default minimum of successes (`runner.go:309`, `coverage.go:12`).
- The minimizer's last run, which fills the directory, is not looked at, and any
  one of several target checkers counts as the failure: `SavedHasFailed` speaks
  of an earlier replay of the same candidate.
- A snapshot is copied while its node writes, so it may be of no one moment, and
  what a failed copy left is listed and restored like any other
  (`node/manager.go:429`): `StaleRestartIsExact` promises one snapshot, not a
  consistent one.  A restore that fails may have removed files already, and a
  later restart_node uses what is left (`node/manager.go:468`).
- An attempt of a matrix whose attempt.json or seal cannot be written stays
  PASSED, unsealed, in a summary that says CRASHED (`hardening/hardening.go:311`);
  an error in closing its log does not change its status either.
- A `summary.next.json` that was left behind blocks every later checkpoint, and
  the summary stays as it was, RUNNING perhaps (`hardening/hardening.go:116`).
- The sources are fingerprinted at both ends of an attempt, not in between, and
  the copied binary is not hashed again (`hardening/provenance.go`).
- A process that is forked after the last scan, or orphaned before the first one
  that could have seen it, survives execute (`hardening/supervisor.go:46`).  What
  was found is sent SIGKILL, and execute returns without waiting for it to die
  (`hardening/supervisor.go:197-210`; the test polls for a second,
  `hardening_test.go:282-289`).  If either keeps a port, the next attempt is
  PORTS_BUSY.  `SeenAreKilled` speaks of what was found, and of the signal.  A
  matrix that dies leaves its attempt running.
- The readers of the store do not look at `rows.Err()` (`store/db.go:231`).
- Events carry the times of two clocks, the run's and the writer's
  (`store/db.go:227`).

## 9. What is not modelled

- The rows of the nodes in the store, which only the reports show.
- The cairn checker and the workload operations it needs: it repeats what the
  program under test says of itself, without state of its own.
- Timelines, reports, configuration, SQL, flags: data and text.  That a write to
  the store may fail is part of `Runner`.
- Weights and random numbers of the schedule: a sample is any sample.
- Corruption, latency distributions and clock offsets: data of a message.
- Generic locks without a lease and malformed metadata in the lock checker.
- Which files make up the sources, the profiles and the inventory of a matrix.
- Two snapshots within a millisecond, and a clock that is set back.
- In `Supervisor` a scan of /proc is one step, and so is the comparison of an
  identity with the sending of the signal after it; the code has no way to make
  them one, and a PID would have to be used again within microseconds.  A loop
  that signals all that is owned is one step too: the signals are all posted
  before the first is delivered.
- Torn or reordered writes of the disk when the machine fails: the code flushes
  nothing but its JSON files, and what dies in `Hardening` is the process.

## 10. Running it

    tlc -workers 2 -config MCNodeManager.cfg MCNodeManager
    tlapm NodeManager_proofs.tla

and so for the other `MC*.cfg`, each of which names its module before the first
underscore, and the other `*_proofs.tla`.  The longest run takes a few minutes.
