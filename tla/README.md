# TaintForge-IoT: TLA+ specifications of environment synthesis

TaintForge-IoT runs a sample in a minimal root file system, observes what it
misses, repairs the environment and runs it again.  The part of the repository
that carries this idea is the *environment-synthesis session*: a directory of
JSON files, snapshots and run directories that several command-line processes
work on, with file locks, an exclusive claim per attempt and append-only stores.
This directory specifies it, and the parts of the repository that keep state
around it (network backend, C2 record broker, replay and snapshot stores, repair
applier, Phase 2 orchestrator, static pipeline, and the rounds of extraction,
planning and repair), model-checks them with TLC and proves with TLAPS, for every
value of the constants, every safety property the runs check and both refinements.

## 1. Inventory

| Component | State it keeps | Operations | Talks to |
|---|---|---|---|
| Iteration controller (`iteration_controller.py`) | `session.json`, `iterations/NNNN/{iteration,observation}.json`, `artifacts/`, `execution/rootfs`, `.session.lock` | `initialize`, `prepare_next`, `complete_iteration`, `verify` | all stores, progress oracle, repair applier |
| Prebuilt runner (`prebuilt_runner.py`) | `execution_attempt.json` (the claim), `run/` | `validate`, `run_and_complete`, `reset_safe_failure` | controller, sandbox script, network backend |
| Sandbox script (generated by the runner) | `malware_started`, `guest_exit_code`, mounts in the rootfs | set-up, marker, guest, exit status, trap | the guest |
| Synthesis loop (`synthesis_loop.py`) | `synthesis_loop.json`, `.synthesis_loop.lock`, event log, reports | `run`, `verify_session` | controller, runner |
| Attempt store (`attempt.py`) | `attempts/<id>/{contract,result}.json`, append-only | `save_contract`, `save_result`, `verify_attempt` | controller |
| Manifest store (`environment_manifest*.py`) | `manifests/environment_manifest_vNNNN.json`, immutable | `save`, `verify_chain`, derive from a repair | controller |
| Snapshot store (`environment_snapshot.py`) | content-addressed directories | `capture`, `clone`, `verify` | controller, runner |
| Progress oracle, repair applier | none | `observe`, `compare`; `apply_file` with rollback | controller |
| Requirement extractor, repair planner, target-state oracle, trace parsers | none | turn logs into requirements, plans, a goal verdict | runner (`_postprocess`) |
| Controlled network backend | namespace, veth pair, firewall, service processes | `setup`, `guest_command`, `cleanup` | runner |
| C2 record broker, replay store, egress policy, transparent logger | captures, index and blobs, event logs | `_handle_session`, `add`/`lookup`, decision function | network tools |
| Phase 2 orchestrator, static pipeline | run directory, host network state, a sysctl | one run from start to end | everything older than sessions |
| QEMU plugin (`unpacker/`), rebuilder | page table of the guest, taint, traces | callbacks of QEMU | phase 1 only |

What is hard about it:

* **Interleaving.**  Commands are separate processes.  The session lock is held
  only inside the controller's operations and is taken with `LOCK_NB`; the runner
  validates, claims and runs the guest without it, and the loop reads
  `session.json` without it.
* **Crashes.**  Each operation writes four to six files in a fixed order, and a
  process may die between any two.  The sandbox script survives the runner that
  started it.
* **Partial failure.**  Any step of a run may raise; the exception handler
  decides from a marker file and a digest whether the attempt may be retried in
  the same rootfs.
* **Host state.**  The network backend, the orchestrator and the static pipeline
  change namespaces, interfaces, firewall rules and kernel settings and have to
  put them back on every path out.
* **Concurrency without locks.**  Two pumps and a monitor share a relay session;
  the replay store and the snapshot store are written by several processes.
* **Stopping.**  Goal, timeout, crash, fixed point, cycle, empty plan and budget
  are tested by two functions whose order matters.

What makes it correct: a guest runs at most once in an execution rootfs, and only
in exactly the environment its contract names; nothing the guest wrote reaches a
snapshot; results have evidence and are never replaced; claims exclude; a reset
frees only attempts that never ran; a session stops when and only when it should;
the loop always comes to an end.  Around it: nothing the guest sends leaves the
host and what is logged of it is true; a run leaves no process, interface,
namespace or kernel setting behind; an accepted capture is a complete answer; an
index never names a missing blob, a snapshot is what its name says, a failed repair
is undone, and repairs help.  The hazards behind these statements are listed,
each at its line, in `PROJECT.json`.

## 2. Modules

| Module | What it is |
|---|---|
| `SynthesisSession` | The session on disk, the controller, the runner, the sandbox script, crashes and I/O faults; the properties of all of them |
| `AttemptLedger` | Abstract specification: attempts open in order, run at most once, get one outcome, and nothing is added after the session closed |
| `SessionLedger` | `SynthesisSession` with the refinement mapping to `AttemptLedger` (`ImplementsLedger`) |
| `SynthesisLoop` | `EnvironmentSynthesisLoop.run` composed with `SynthesisSession`: one driver process, other processes as operators; fairness and liveness |
| `SynthesisSessionProofs` | The inductive invariant of `SynthesisSession`, the theorems about it, the refinement of `AttemptLedger`, and the session under the loop |
| `NetworkPlan` | Operators: the plan `_build_plan` makes of a policy, the ports it allocates, where the firewall rules send a packet, what a responder logs |
| `NetworkBackend` | Life of a `ControlledNetworkBackend`: setup, self test, guest, both ways to cleanup, over the plans of `NetworkPlan` |
| `RecordBroker` | Relay sessions of the C2 record broker, the policies it admits and the validator of its captures |
| `ReplayStore` | `add` and `lookup` over index and blobs, without a lock, with crashes |
| `ReplayMap` | Abstract specification: what a reader of a replay store may rely on; `ReplayStore!ImplementsMap` is the refinement |
| `SnapshotStore` | `capture` and `clone` entry by entry, by several processes, next to writers |
| `StoreProofs` | The inductive invariants of `ReplayStore` and of `SnapshotStore`, their theorems and the refinement of `ReplayMap` |
| `RepairApplier` | `apply_file`: preflight, application, rollback, reports |
| `RequirementExtractor`, `RepairPlanner` | Operators: from the artifacts of a run to requirements, from requirements to decisions |
| `RepairCycle` | A deterministic guest, extractor, planner, progress oracle, controller decision and applier, round after round |
| `RepairCycleProofs` | What the folds of extractor, planner and path walk compute, the invariants of the rounds and their theorems |
| `Orchestrator` | `Phase2Orchestrator.run` with the generated sandbox script, in every network mode |
| `StaticPipeline` | `main` of the static pipeline: dependencies, network mode, the privileged-port workaround |
| `NetworkBackendProofs`, `RecordBrokerProofs`, `RepairApplierProofs`, `OrchestratorProofs`, `StaticPipelineProofs` | The inductive invariant of each of these modules and the theorems that follow from it |
| `MC*` | Instances for TLC (`*.cfg`) |

Next to some actions stands a second definition with the same parameters, named for a
plausible mistake (`SkipResponse`, `MonitorWaitsForPumps`, `HandlerSkipsTopology`).
No specification uses them; `PROJECT.json` lists under `mutants` which property
each of them breaks when it takes the place of the action.

### The session

Attempt `k` is iteration index `k - 1`.  A root file system is the set of entries
by which it differs from the seed: directories made by repairs, a file left by the
guest, the mount point `/__taintforge` of the QEMU wrapper.  The digest of a tree
and the content-addressed snapshot id are the set itself (no hash collisions).  A
manifest is the snapshot it names.  An artifact bundle is what
`ProgressOracle.observe` keeps of it: the automatic repairs of its plan and the
digest of its normalised events, plus the goal and timeout flags the caller
passes.  Whether a bundle contains a fatal signal is a property of its behaviour
(`FatalBehaviours`).

Every write that reaches the disk is an action of its own, in the order of the
code:

* `prepare_next`: `PrepareNext` (lock and guards) → `BuildRepairedSnapshot` /
  `RepairRefused` → `SaveManifest` / `ManifestImmutable` → `SaveContract` →
  `PublishIteration` / `PublishRefused` → `CommitPrepared`.
* `complete_iteration`: `CompleteIteration` or `RunnerCompletes` (lock and guards)
  → `InstallArtifacts` / `BundleRejected` → `SaveObservation` → `SaveResult` →
  `CompleteIterJson` → `CommitCompleted`.
* `verify`: `BeginVerify`, `EndVerify` hold the lock; `VerifyOK` is its verdict.
* `run_and_complete`: `StartRun` → `CheckRootfs` → `CheckClaim` → `CreateClaim` /
  `ClaimLost` → `WriteClaim` → `MarkValidated` → `PrepareRunDirectory` →
  `MarkPrepared` → `SetUpHost` → `MarkExecuting` → `LaunchScript` →
  `ScriptReturned` → `MarkPostprocessing` → `Postprocess` → `MarkCompleting` →
  `RunnerCompletes` … → `MarkCompleted`; `RunnerRaises` and `RecordFailure` are the
  exception handler.
* the script: `ScriptMounts`, `ScriptAborts`, `WriteMarker`, `GuestCommand`
  (`RunGuest`, or `NativeSyntaxError` on the native backend), `RecordExit`.
* `reset_safe_failure`: `ResetSafeFailure` → `ResetRunDir` → `ResetClaim`.
* faults: `Crash`, `IOFault`, `ClaimUpdateFails`, `ScriptKilled`, at most
  `MaxFaults` of them.

Commands that fail at their first guard, or find the lock taken, change nothing
and are not actions.  `StartRun` takes the verdict of the verification it begins
with in one step; that a verification occupies the lock for a while is what
`BeginVerify` and `EndVerify` are for.  Exceptions that the environment can cause
at any time (a rejected bundle, a missing tool, a failing self test) are not
counted as faults; an operating-system error inside a locked section is.

In `SynthesisLoop` the driver takes the actions of `SynthesisSession` for its own
process; `OperatorStep` lets the other processes do the same.  Adopting a session,
refusing an unbound one and `--initialize-only` are choices of the operator.

### The network

`NetworkPlan` is pure: `Usable`, `HostItems` and `LoopbackItems` are the filters of
`_build_plan` (they give places in the policy's list of items), `Allocate` is `SocketPortAllocator` with the ports that are busy on
the host, `NatOutput` and `Filter` are the rules in the order `_configure_firewall`
appends them, and `Deliver` says where a new connection ends (nat before filter,
first match wins; that part is the kernel's).  `Logged` is the destination a
responder writes into its log.

`NetworkBackend` keeps the host (`net`: namespace, veth pair, state of the firewall;
`procs`: live services and services nobody stops any more), the object (`obj`:
whether it has a plan, whether it is ready or cleaned) and the files of the run.
Setup is `ValidateInputs` → `PreClean` → `AddNamespace` → `AddVeth` →
`ConfigureLinks` → `BuildPlan` → `WritePolicies` → `DropByDefault` → `AddRules` →
`PrepareLogs` → `StartService`, `ServicesStarted`, `WaitForServices` → `Probe` →
`Recheck` → `StopAfterSelfTest` → `ArchiveSelfTest` → services again → `WriteReady`.
Every step may fail (`SetupFails`) and then `HandlerStops`, `HandlerDeletesTopology`
and `HandlerWritesManifest` follow, each of which may fail too.  A second `cleanup` (`RunnerHandler`) follows a first that raised.  `RunAgain`
is a later run in the same iteration, on whatever the first one left.

### The record broker

Payload is counted in units.  `PumpReads` reads, counts, records and writes to the
transport; `PumpDrained`, `PumpEof`, `PumpFails`, `RecordFails` are its other ends.
`MonitorFires` covers the session and the idle timeout.  When the session task wakes,
any of the three tasks may have finished, in any order; `PumpFinished`, `ClientEof`
and `MonitorFinished` are its branches, and `CloseUpstream`, `CloseClient` and
`WriteSummary` the `finally` clause.  Peers send, half-close, read and vanish as
they like.  `CancelSession` is the cancellation of the task when the server stops, at
whichever `await` the task is: while connecting or relaying it leads to the `finally`
clause, and inside that clause, where only `OSError` is caught, it ends the task without
a summary (`abandoned`), as a disk error does (`SummaryFails`).  After a cancellation no
connection is accepted any more (`stopped`).
`Accepts` is `validate_c2_record_capture.py`.

### Stores and the applier

A blob and its digest are one value.  `add` is `BeginAdd` → `CheckIndex` →
`InitializeIndex` → `LoadEntries` → `WriteRequest` → `WriteResponse` → `WriteIndex`; `lookup` is `BeginLookup` → `FindEntry` →
`ReadBlob`.  `SnapshotStore` scans and copies one entry at a time (`ScanEntry`,
`CopyEntry`, `CloneEntry`), compares, and makes the result visible in one step
(`Publish`, `PlaceClone`); `WriteSource` and `WriteSnapshot` are other processes.
`RepairApplier` has one step per decision of the preflight, one per `mkdir`, `chmod`
and `rmdir` (the directories a decision makes are a set, taken parents first), and `ForeignCreate` for another process in the same tree.
`SynthesisSession!BuildRepairedSnapshot` is the sequence clone, apply, capture in one
step; that is justified by `CloneIsExact`, `CompletedIsSatisfied` and
`SnapshotMatchesName`.

### Repair rounds

`RepairCycle` runs a guest, which is a sequence of system calls with an end, in a
copy of the environment: `StartGuest`, `Syscall`, `EndGuest`, `Postprocess`
(extract, plan), `Decide` (observe, compare, stop reason), `ApplyPlan` or
`PlanRefused`.  `SynthesisSession` has the same rounds with arbitrary bundles, and so
covers guests that behave differently every time; `RepairCycle` has the bundles a
deterministic guest produces, and so can say that repairs help.  The guest, the
kernel's path walk and its error numbers are external.

### Orchestrator and pipeline

`Orchestrator` follows `run` through its stages; `Command` is a step that may fail,
`Raise` goes to the `finally` clause, whose steps (`StopProcesses`,
`CleanupNamespace`, `RestoreForward`, `FixOwnership`) run in order until one raises.
`StaticPipeline` computes the endpoints, the effective network mode and the services
from a set of Phase 1 events, lowers `ip_unprivileged_port_start`, runs Phase 2 and
restores it.  Its steps are `Resolve` → `RemoveOutput` → `MakeOutput` → `RunPhase1` →
`Bridge` → `ReadThreshold` → `LowerThreshold` → `EnterTry` → `RunPhase2` →
`RestoreThreshold` → `LeaveTry` → `Report`, each of which may fail where it calls the
operating system.  `Interrupt` is a `KeyboardInterrupt` at any of them, the `finally`
clauses included; it marks with `gap` that a lowered threshold stays behind.

## 3. Runs

| Run | Instance | States | What it shows |
|---|---|---|---|
| `session_concurrent` | 2 processes, 2 attempts, 2 faults, QEMU, symmetry | 657 111 | safety of every interleaving of two commands with crashes; refinement of `AttemptLedger` |
| `loop_decisions` | 1 process, 5 attempts, every bundle over one repair and three behaviours, native, 1 fault, 2 steps per invocation | 1 062 362 | the stop decisions; every failure is in its claim |
| `loop_contended` | 2 processes, 2 attempts, 2 steps, one bundle, QEMU | 710 613 | a loop with an operator beside it; termination |
| `network_backend` | 2 runs with self test, 64 pairs of policy and host | 295 632 | containment, true endpoints, own evidence, clean host |
| `record_broker` | 2 connections, 2 units in each direction, 5 policies | 1 362 606 | limits, complete captures, sessions end unless a peer never reads |
| `replay_store` | 2 writers, 1 reader, 2 requests, 2 responses, 4 operations | 706 737 | no missing blob; refinement of `ReplayMap` |
| `snapshot_store` | 2 processes, 2 entries with 2 contents, 2 foreign writes | 518 408 | snapshots and clones are exact |
| `repair_applier` | every plan of 2 decisions over every small tree, 2 failing calls, 1 foreign entry | 762 426 | completed means there; rollback is exact |
| `orchestrator` | 1 run, all 6 modes, 2 faults | 12 840 | containment; the host is left as it was |
| `static_pipeline` | 1 pipeline, every set of at most 3 of 10 events, 2 faults, 2 interrupts | 1 038 852 | the threshold is low enough and is restored, or no success is reported |
| `repair_rounds` | every program of at most 3 of 18 calls, 4 seeds, 3 ends, 5 attempts | 776 620 | repairs are needed, help and end |
| `native_exit_status` | native, no faults; violation | | the wrapper script of the native backend lacks a closing quote |

Bounds.  In the session, two processes are enough for every race between a check and
the write it guards, because a lost race needs one loser; two attempts contain a
baseline and a repaired environment; two faults contain a crash and a second crash
(or an I/O fault) during what follows it.  In `loop_decisions` the budget is never
exhausted: with one repair and two behaviours that are not fatal the fourth attempt
at the latest repeats a state, at distance one (`fixed_point`) or two
(`cycle_detected`), and the fifth attempt is there so that a cycle the code missed
would show as a session that stays active.  Two steps let an invocation pause with
budget left.  In `loop_contended` the budget of two attempts is what stops the
session.

`network_backend`: the policies contain equal, skipped and unusable endpoints,
endpoints at the gateway and on loopback and on the logger's own ports; the hosts
have all ports free, the preferred one taken, the last one preferred and none free.
The second run starts on what a failed first one left.  `record_broker`: limits at
and below what a peer sends, one and two connections.  `replay_store`: two adds that
overlap and a third that starts in between are enough for a lost update and for a
stale index to be written back; the fourth operation is the lookup.
`snapshot_store`: two entries let a writer change the tree between the copies of
both.  `repair_applier`: two decisions that share a parent, an obstacle, a denied
path; one failure in the application and one in the rollback.  `orchestrator` and
`static_pipeline`: one fault, or one interrupt, in the work and one in the clean-up.  `repair_rounds`:
three calls contain a call that fails, one that repairs or removes what it needs and
one that depends on both; the budget is two attempts more than there are calls.

Deadlock is checked in the session, loop and snapshot runs, where something is always
possible.  The others describe work that ends, and say `CHECK_DEADLOCK FALSE`.

Fairness.  `LoopFairSpec`: weak fairness of the driver's steps and of every sandbox
script.  The driver never blocks on a lock (`LOCK_NB` everywhere) and is an ordinary
process; the script runs the guest under `timeout --kill-after`, so it ends.  Nothing
is assumed of the operators or of the faults.  `RecordBroker!FairSpec`: weak fairness
of the broker's own steps and of the monitor's clock, which is what the event loop
gives every task that is ready.  Nothing is assumed of the peers, nor that `drain()`
ever returns, so `SessionEnds` has to name what a peer can do: the code awaits
`wait_closed` without a timeout, and a peer that keeps its connection and never reads
holds a session there for ever (`WaitsForReader`).  Everywhere else the timeouts end it.

Properties that need a second look:

* `VerifiesUnlessFaulty` and `NoOrphanClaim` are stated for `faults = 0`.  After a
  crash between two writes `verify` does refuse the session, for ever: a manifest
  saved by an interrupted `prepare_next` is never written again with the same digest,
  and an installed `artifacts/` blocks the next `complete_iteration`.  A killed
  runner leaves a claim that only a human can judge.  The code stops rather than
  guesses.
* An operator may complete an attempt between the runner's `validate` and its claim,
  and the guest of a completed attempt is then started.  `AttemptLedger.Run` allows
  it.
* `FailedMeansTimeoutOrCrash` also shows that the branch
  `execution_exited_without_goal` of `_resolve_attempt_session_transition` is dead:
  a guest that exits with nothing to repair ends the session as `completed`.
* `EndpointPreserved` leaves out the gateway's own address and policies for which two
  services were given one port: the allocator closes its probing socket before the
  service binds.
* `CleanedAfterReady` is about runs that became ready.  A `cleanup` without a plan,
  or a second one after an error, writes `cleaned` as well.
* `FailedLeavesAtMostOne`: `chmod` follows `mkdir` before the path is entered in the
  list the rollback uses, so the directory in hand may stay.
* `EndsAsItBegan` is about runs that may signal their services (a run as an ordinary
  user cannot signal those started with sudo), whose cleaning commands succeed, and
  that were not asked to keep the namespace.
* `ThresholdRestored`: three things do leave the setting lowered, although the
  repository's `README.md:410` has it restored on failure paths too: a restoring write
  that fails, an interrupt between the first write and the `try` clause, and an
  interrupt in the `finally` clause before or during the restoring write.  The property
  says that there is no fourth, and that a pipeline that leaves it lowered (`gap`)
  neither exits with 0 nor writes a report that says `completed`.
* `SessionEnds` says that a session ends, not that it leaves a summary: a cancellation
  or a disk error in the `finally` clause ends it without `session.json`, and the
  validator then has nothing to accept.
* `RepairHeals` and `RepairIsNoRegression` leave out guests that remove directories.
  `RepairIsNoRegression` also leaves out guests that reach a missing interpreter or
  library at their end.  The proof showed why: such a guest may die before the repair
  and reach its end after it with no guest event that the attempt before did not have
  (the emulator's own calls are not among the events compared).  The new requirement,
  which is likely to block, then stands against the repaired one, which may have fallen
  out of the window `_blocking_after` looks at.  This takes far more calls than the
  run's bound allows, so TLC does not show it: it was found on paper.
  A third exception are guests that open one path both with `O_CREAT` and without
  (`OpensOneWay`): `_normalize_guest_events` drops the flags, so that a creating call
  that fails for the first time may look like the plain one that failed before, and its
  requirement is new while no event is.
* `ImplementsMap` does not promise that every add survives: an add may be lost to one
  that overlaps it.  `held` is the set of maps that adds under way have read.

## 4. Findings

**Native backend** (`prebuilt_runner.py:855-858`): the literal that should end in
`"$GUEST_BINARY"` loses its closing quote to the end of the Python string, so bash
stops with a syntax error after the marker was written.  The claim then says that
malware started, and the attempt can be neither completed nor reset
(`native_exit_status`).

Met while modelling, and not pursued with a run: `verify` never reads the execution
claim, although the repository's `README.md:594-596` lists it; the claim stage
`completing` lets anyone complete the attempt, not only its runner; two pipelines or
two orchestrators on one host share the setting and the namespace and undo each
other's changes; a path with two leading slashes passes the planner's test for pseudo
file systems; a pipeline that refuses an existing output directory still overwrites
the report in it; a dry run reports a directory as already satisfied when an earlier
decision of the same plan would make it.

## 5. Proofs

| Module | Theorem | Property |
|---|---|---|
| `SynthesisSessionProofs` | `TypeCorrect` | `TypeOK` |
| | `SnapshotsAreClean` | `NoGuestWritesInSnapshots` |
| | `GuestRunsOnce` | `GuestRunsAtMostOnce` |
| | `ClaimsExclude` | `OneOwnerPerClaim` |
| | `RunDirsAreClaimed` | `RunDirHasClaim` |
| | `LineageIsKept` | `EnvironmentLineage` |
| | `SessionsVerify` | `VerifiesUnlessFaulty` |
| | `ActiveSessionsGoOn` | `ActiveSessionCanContinue` |
| | `FailuresAreTimeoutsOrCrashes` | `FailedMeansTimeoutOrCrash` |
| | `ClaimsAreNotOrphaned` | `NoOrphanClaim` |
| | `StoresAreAppendOnly` | `AppendOnlyStores` (action property) |
| | `GuestsStartFromSnapshots` | `GuestStartsFromSnapshot` (action property) |
| | `ResetsAreSafe` | `ResetIsSafe` (action property) |
| | `SessionImplementsLedger` | `ImplementsLedger` (refinement) |
| | `CompletedOutcomesAreTrue` | `CompletedOutcomeIsTrue` of `SynthesisLoop` |
| | `Inductive`, `SessionInductive`, `LoopInductive` | the invariants behind them |
| `StoreProofs` | `StoreIsBacked` | `IndexIsBacked` |
| | `LookupsSucceed` | `LookupNeverBroken` |
| | `StoreImplementsMap` | `ImplementsMap` (refinement) |
| | `SnapshotsMatchTheirNames` | `SnapshotMatchesName` |
| | `ClonesAreExact` | `CloneIsExact` |
| `RecordBrokerProofs` | `RelayIsBounded` | `RelayedIsRecordedAndBounded` |
| | `AcceptedCapturesAreComplete` | `AcceptedCaptureIsComplete` |
| `RepairApplierProofs` | `CompletedPlansAreSatisfied` | `CompletedIsSatisfied` |
| | `FailureLeavesAtMostOne` | `FailedLeavesAtMostOne` |
| | `OnlyOwnDirectoriesGo` | `OnlyOwnIsRemoved` (action property) |
| `NetworkBackendProofs` | `NothingLeavesTheHost` | `NoEgress` |
| | `EndpointsArePreserved` | `EndpointPreserved` |
| | `ProbesAreNoEvidence` | `EvidenceIsTheGuests` |
| | `CleanedIsTrue` | `CleanedAfterReady` |
| | `FailedSetupIsUndone` | `FailedSetupLeavesNothing` |
| `OrchestratorProofs` | `GuestsAreContained` | `GuestIsContained` |
| | `RunsEndAsTheyBegan` | `EndsAsItBegan` |
| `StaticPipelineProofs` | `ThresholdIsRestored` | `ThresholdRestored` |
| | `ServicePortsAreAdmitted` | `ServicesAreAdmitted` |
| `RepairCycleProofs` | `EnvironmentGrows` | `EnvironmentGrowsByNeed` |
| | `RepairsHeal` | `RepairHeals` |
| | `BudgetIsEnough` | `BudgetSuffices` |
| | `NoRepairRegresses` | `RepairIsNoRegression` |

Every proof has the same shape: an invariant that is a conjunction of named parts,
one lemma per group of actions and part with one step per action, and theorems that
follow from the invariant.  The bounds that keep TLC's instances finite (faults,
sends, operations, events) are arbitrary natural numbers in the proofs.

**The session**, for every number of processes, attempts and faults, every set of
repairs and bundles and both backends.  The only assumption is `ConstantsAssumption`
(sizes are natural numbers, the special values differ from the ordinary ones, bundles
are evidence).

`ControlInv`: only runners take the steps of a runner, and a process in a locked
section holds the lock, so that two locked sections never overlap.  `TypeInv` adds to
`TypeOK` what makes it inductive: a process that completes an attempt has a bundle
(`BundleInv`); what `prepare_next` reads of the parent is on disk (`ParentInv`); a
rootfs exists wherever a step uses one (`RootfsInv`); and manifests, like snapshots,
consist of repairs (`RepairsOnly`), which is why no guest write reaches a snapshot.
`ClaimInv`: a claim has at most one owner, and the claim of a live runner is on disk
and not failed, its guest has not run before the launch, and its script runs only
while the runner waits for it (`OwnerInv`); the guest has run at most once, never
without the marker, and not at all while the claim is absent, failed without
`malware_started`, or the script has not reached the guest (`GuestInv`); and a process
inside `reset_safe_failure` works on a failed claim whose guest has not run, and
deletes the claim only after the run directory (`ResetInv`).  A reset can therefore
only free an attempt whose guest has not run, and the next runner starts it for the
first time.

`HistoryInv` is about the files.  `session.json` lists attempts `1 .. n`, all but the
last completed, and its state and stop reason follow from the last result
(`SessionInv`); observation, artifacts, result and `iteration.json` of one attempt
belong together (`RecordInv`); manifest, contract and iteration directory come in this
order and at most one attempt ahead of `session.json` (`VersionInv`); a process inside
`prepare_next` or `complete_iteration` works on the attempt its guards saw, and what
it has written so far is there (`HolderInv`); and without a fault a file ahead of
`session.json` has a process at work on it (`TidyInv`).  `EnvironmentLineage` needs all of
it: a manifest left by a crash must be the one a later `prepare_next` would write.
`FreshInv` says that the rootfs of an attempt equals its snapshot while there is no
claim, while its runner has not launched the script and while a failed claim is being
reset, and differs by the mount point only until the guest starts; from it follow `GuestStartsFromSnapshot` and `ResetIsSafe`.  For the refinement every step
is shown to be a step of `AttemptLedger` or to leave its variables alone: a commit of
`session.json` opens an attempt or gives it an outcome, the guest command is its run.

Under the loop, every step of `SynthesisLoop` is, to the session, a step of a command,
a stuttering step, or the death of the driver between two commands, so that the
invariant carries over.  `CompletedOutcomeIsTrue` then needs that a completed session
stays completed: the loop reads `session.json` without its lock, and time passes until
it writes.

**The replay store**, for every number of writers, readers, requests, responses and
operations, assuming that writers and readers are different processes and that
`None` is no response (`Disjoint`, `MaxOpsAssumption`).  `IndexIsBacked` alone is not
inductive, because a writer puts back a whole index that it read earlier.  The
invariant adds that whatever a writer still holds is backed (`SeenIsBacked`), which
stays true because blobs are never removed; that the blobs of a writer's own entry
are in place before it reaches the index (`BlobsFirst`); and that the response a
reader has found is there when it opens it (`FoundIsBacked`).  In the refinement the
index maps to the map, and what writers have read to `held`.

**The snapshot store**, for every set of paths, contents and processes: the digest of
a capture is a whole tree once its scan is over (`DigestIsWhole`), and what is about
to become visible has been compared with it (`ComparedBeforePublish`).

**The record broker** (`PoliciesAssumption`: limits are positive, as
`c2_record_policy` demands): what a pump has counted, recorded, relayed and flushed is
ordered at each of its steps, nothing it read is left out of the file
(`NothingSkipped`), and an end of stream or the reason `upstream_closed` is real
(`EofIsReal`, `ReasonIsReal`).

**The repair applier**, for plans of any length over any set of paths that contains
the parents of its members (`PathsAssumption`).  `Ownership`: a directory this
application made is in the rollback's list or in hand, and nothing of others is in it.
`Progress`: a decision already passed has its directory, in the tree or, during the
preflight, in the set of those to be made.

**The network backend**, for every policy, every set of ports and every state of the
host.  The rules stand from `AddRules` until the topology is gone and the guest runs
only in between (`RulesStand`); probes are archived before the manifest says ready
(`ProbesAreArchived`); what the object believes of the host is true (`ObjectIsTrue`);
whatever was left behind goes back to a recorded failure (`StraysAreFaults`,
`RestIsFault`).  `NoEgress` and `EndpointPreserved` also need facts about
`NetworkPlan`: the last rule for every protocol redirects or drops, and the first
rule that matches an endpoint of the policy leads to the service of that endpoint.

**Orchestrator and pipeline.**  Namespace, forwarding and port threshold belong to the
host, and two runs at once do undo each other's changes (section 4).  The theorems
therefore have the hypothesis that there is one run (`OneRun`, `OnePipeline`), in any
mode and configuration and with any number of failures.  `HostInv`: while a run
remembers no setting it has changed none, forwarding is off from its verification to
the guest's end, only a run with a clean-up script makes a namespace, and the
namespace is ruled from the validation of its rules on.  `ThresholdInv`: what is
applied is remembered, and the threshold is lowered for some service, to the least
port; that a least port exists is the well-foundedness of the natural numbers.
`GapInv`: only a pipeline that has applied something leaves a gap, none that has left
one gets as far as the end of its `try` clause, where the status becomes `completed`,
and neither exit code nor report says `completed` before the status does.

**The repair rounds**, for programs of any length over any set of calls, any seed that
is a file tree (finitely many entries, each in a directory that is there) and any
budget.  The assumptions say what the constants are: calls are records over strings
and paths, and the kernel reports `ENOENT` only for what is not there
(`SyscallsAssumption`); seeds are trees (`SeedsAssumption`); links point to a path
(`LinkAssumption`).

These properties are about what folds compute, and the library's induction theorems
cannot be applied, because they take an operator as a parameter.  `SetInduction` has a
set in its place and follows from the well-foundedness of the natural numbers; with it
a fold over a sequence is shown to have intermediate results, each one step from the
one before (`ExtractFold`, `SelectFold`, `WalkFold`, and `FlattenElements` for the
concatenation of claims).  On these rest the facts about operators that everything
else uses.  `ExtractFacts`: a report has finitely many requirements; one for a missing
directory goes back to a creating call of the guest that failed with `ENOENT`; which
keys are unmet depends on the set of the guest's events only, not on their order nor
on how the guest ended (`ClaimsOfFacts`).  `AutomaticFacts`: what the plan makes
without review is the valid parent of such a path.  `CreateArrives`: a walk along
directories arrives, so a creating call below them does not miss one.

* `NeedInv`: an event stands where the program has its call, and the plan is made from
  the artifacts of this attempt.  `EnvironmentGrowsByNeed` is then inductive.
* `HealthInv`: what a repair added to the environment are whole paths of directories,
  without `..` (`GrownInv`); while the guest has removed nothing, its tree has every
  directory of the environment, and no link the environment has not (`TreeInv`).
  Hence a creating call whose directory was added finds it (`HealsInv`).
* `RunInv`: the artifacts of an attempt are a function of the program and the
  environment (`RunOf`, `BundleOf`), for the attempt under way and the last one
  recorded.  An attempt in an unchanged environment therefore repeats the last
  observation and stops the session as a fixed point or a crash.
* `CountInv`: an attempt in a changed environment has at least as many settled calls
  (creating calls whose directory a repair made) as there were attempts.  With the
  point before, the number of attempts is at most one more than the number of creating
  calls until the session stops by itself, whatever budget it has.
* `RepairIsNoRegression`: if the guest did nothing new by the oracle's normalised events,
  it made no claim that the attempt before did not make, because both attempts make calls
  of the same program (`AsProgrammed`) and no two of its calls differ in their flags
  alone.  Its unmet requirements are then among those of before (`UnmetShrinks`), and
  the repaired one is not among them (`RepairedIsMet`), so there are fewer and the
  comparison has a positive reason.

The strengthened invariants of the session, the backend, the applier and the
orchestrator were checked with TLC on the instances of their runs before they were
proved.

Only model-checked:

* liveness (`LoopTerminates`, `SessionEnds`): fairness is beyond the prover;
* `StartedGuestRecordsExit`, which is violated (section 4).

## 6. Not modelled, and plan

* Target-state oracle: evaluates rules over the text of a bundle; its verdict is the
  goal flag of a bundle.
* `evaluate` of the egress policy: one pass over a list, without state.
* Trace parsers, ELF and library preparation, report generator, runtime observer:
  text and binary formats, files read or written once.
* Connection handlers, payload files and DNS messages of the network stubs and the
  transparent logger; a broker process that is killed.
* The QEMU plugin and the rebuilder: Phase 1, inside QEMU.  Its page and OEP tracking
  is the one part a module could be written for; the lifter is out of reach.

Theorems that could follow: statements about the other outcomes `run` reports, an
abstract specification of the network backend (contained or down) with its
refinement, and `RepairCycle` as a refinement of the rounds of `SynthesisSession`.
