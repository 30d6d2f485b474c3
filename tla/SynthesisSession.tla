-------------------------- MODULE SynthesisSession --------------------------
(***************************************************************************)
(* One environment-synthesis session on disk, and the processes that work  *)
(* on it: taintforge_env/iteration_controller.py (prepare, complete,       *)
(* verify) and taintforge_env/prebuilt_runner.py (claim, run, reset), over *)
(* the append-only stores of attempt.py, environment_manifest.py and       *)
(* environment_snapshot.py.                                                *)
(*                                                                         *)
(* Attempt k of the model is iteration index k - 1 of the code.  A root    *)
(* file system is the set of entries by which it differs from the seed;    *)
(* its digest, and the content-addressed snapshot id made from it, are the *)
(* set itself.  A manifest version is saved once and never replaced, so    *)
(* its id, and the attempt id computed from it, are the attempt number.    *)
(* Every write that reaches the disk is a step of its own, so that other   *)
(* processes and crashes come between any two of them.                     *)
(***************************************************************************)
EXTENDS Integers, FiniteSets

CONSTANTS
  Procs,          \* operating-system processes started by operators
  NoProc,         \* nobody holds the session lock
  None,           \* an absent file
  MaxIterations,  \* session.max_iterations
  Repairs,        \* directories a repair plan may create
  Behaviours,     \* normalised guest and network events, up to their digest
  FatalBehaviours,\* the behaviours with a fatal signal among their events
  Bundles,        \* artifact bundles a run or an operator can come up with
  GuestWrite,     \* a file the guest leaves in its execution rootfs
  QemuMount,      \* the mount point /__taintforge the wrapper script makes
  Backend,        \* execution_plan.backend: "native" or "qemu"
  MaxFaults       \* bound on crashes and I/O faults

Attempts == 1 .. MaxIterations
Entries  == Repairs \cup {GuestWrite, QemuMount}
Seed     == {}

\* What ProgressOracle.observe keeps of an artifact bundle, with the two flags
\* the caller of complete_iteration passes along.
Evidence == [plan : SUBSET Repairs, behaviour : Behaviours,
             goal : BOOLEAN, timeout : BOOLEAN]

Outcomes     == {"goal_reached", "timed_out", "crashed", "repair_required",
                 "exited"}
Results      == [outcome : Outcomes, observation : Evidence]
SessionStates == {"active", "completed", "failed"}
StopReasons  == {"none", "goal_reached", "fixed_point", "cycle_detected",
                 "no_automatic_repairs", "budget_exhausted",
                 "execution_timed_out", "execution_crashed",
                 "execution_exited_without_goal"}
IterationStates == {"absent", "prepared", "completed"}
Sessions     == [state : SessionStates, stop : StopReasons,
                 n : 0 .. MaxIterations,
                 iter : [Attempts -> IterationStates]]

\* "empty" is the claim file between O_CREAT|O_EXCL and the write of its JSON.
ClaimStages == {"empty", "claimed", "validated", "prepared", "executing",
                "postprocessing", "completing", "completed", "failed"}
Claims      == [stage : ClaimStages, started : BOOLEAN, retrySafe : BOOLEAN]

ScriptStates == {"off", "setup", "mounted", "marked", "guest", "ended"}

ASSUME ConstantsAssumption ==
  /\ MaxIterations \in Nat \ {0}
  /\ MaxFaults \in Nat
  /\ NoProc \notin Procs
  /\ GuestWrite \notin Repairs
  /\ QemuMount \notin Repairs
  /\ GuestWrite # QemuMount
  /\ FatalBehaviours \subseteq Behaviours
  /\ Bundles \subseteq Evidence
  /\ Backend \in {"native", "qemu"}
  /\ \A s \in SUBSET Entries : s # None
  /\ \A e \in Evidence : e # None
  /\ \A r \in Results : r # None
  /\ \A c \in Claims : c # None

VARIABLES
  session,      \* session.json
  manifest,     \* manifests/environment_manifest_vNNNN.json: its rootfs snapshot
  snapshots,    \* the content-addressed snapshot store
  contract,     \* attempts with a contract.json
  result,       \* attempts/<id>/result.json
  iterJson,     \* iterations/NNNN/iteration.json: its state
  artifacts,    \* attempts whose iterations/NNNN/artifacts exists
  observation,  \* iterations/NNNN/observation.json
  rootfs,       \* iterations/NNNN/execution/rootfs
  claim,        \* iterations/NNNN/execution_attempt.json
  runDir,       \* attempts whose iterations/NNNN/run exists
  marker,       \* attempts whose run/logs/malware_started exists
  exitStatus,   \* run/logs/guest_exit_code
  script,       \* progress of run_prebuilt_sandbox.sh
  executed,     \* how often the guest was started in this execution rootfs
  lock,         \* holder of the flock on .session.lock
  pc, att, ev, runners, \* per process: step, attempt, bundle, inside a run?
  faults        \* crashes and I/O faults so far

store  == <<session, manifest, snapshots, contract, result, iterJson,
            artifacts, observation>>
run    == <<rootfs, claim, runDir, marker, exitStatus, script, executed>>
procs  == <<lock, pc, att, ev, runners>>
vars   == <<store, run, procs, faults>>

-----------------------------------------------------------------------------
(* Pure decisions of the controller                                        *)

\* _build_attempt_result: goal before timeout before crash before repair.
OutcomeOf(e) ==
  IF e.goal THEN "goal_reached"
  ELSE IF e.timeout THEN "timed_out"
  ELSE IF e.behaviour \in FatalBehaviours THEN "crashed"
  ELSE IF e.plan # {} THEN "repair_required"
  ELSE "exited"

\* ProgressOracle.observe digests the snapshot id, requirements and repairs,
\* and the behaviour; goal and timeout are not part of it.
StateFingerprint(k, e) == <<manifest[k], e.plan, e.behaviour>>

SeenBefore(k, e, S) ==
  \E i \in S : /\ observation[i] # None
               /\ StateFingerprint(i, observation[i]) = StateFingerprint(k, e)

\* Mutant: only the previous observation is compared.
DecideStopReasonShortSighted(k, e) ==
  IF e.goal THEN "goal_reached"
  ELSE IF SeenBefore(k, e, {k - 1} \cap Attempts) THEN "fixed_point"
  ELSE IF e.plan = {} THEN "no_automatic_repairs"
  ELSE IF k >= MaxIterations THEN "budget_exhausted"
  ELSE "none"

\* Mutant: an empty repair plan does not stop the session.
DecideStopReasonIgnoresPlan(k, e) ==
  IF e.goal THEN "goal_reached"
  ELSE IF SeenBefore(k, e, {k - 1} \cap Attempts) THEN "fixed_point"
  ELSE IF SeenBefore(k, e, 1 .. k - 2) THEN "cycle_detected"
  ELSE IF k >= MaxIterations THEN "budget_exhausted"
  ELSE "none"

\* _decide_stop_reason
DecideStopReason(k, e) ==
  IF e.goal THEN "goal_reached"
  ELSE IF SeenBefore(k, e, {k - 1} \cap Attempts) THEN "fixed_point"
  ELSE IF SeenBefore(k, e, 1 .. k - 2) THEN "cycle_detected"
  ELSE IF e.plan = {} THEN "no_automatic_repairs"
  ELSE IF k >= MaxIterations THEN "budget_exhausted"
  ELSE "none"

\* _resolve_attempt_session_transition
ResolveTransition(outcome, stop) ==
  IF outcome = "goal_reached" THEN <<"completed", "goal_reached">>
  ELSE IF outcome = "timed_out" THEN <<"failed", "execution_timed_out">>
  ELSE IF outcome = "crashed" THEN <<"failed", "execution_crashed">>
  ELSE IF stop # "none" THEN <<"completed", stop>>
  ELSE IF outcome = "repair_required" THEN <<"active", "none">>
  ELSE <<"failed", "execution_exited_without_goal">>

\* Mutant: the repairs are applied to the execution rootfs of the last run.
RepairedExecutionRootfs(k) == rootfs[k] \cup observation[k].plan

\* _build_repaired_snapshot: a clone of the parent snapshot plus the directories
\* of the automatic decisions.
RepairedSnapshot(k) == manifest[k] \cup observation[k].plan

Tail == IF session.n = 0 THEN "absent" ELSE session.iter[session.n]

VerifyTerminalState ==
  <<session.state, session.stop>> =
     IF Tail = "completed"
     THEN ResolveTransition(result[session.n].outcome,
                            DecideStopReason(session.n, observation[session.n]))
     ELSE <<"active", "none">>

\* IterationController.verify: true when it returns, false when it raises.
VerifyOK ==
  /\ \A k \in Attempts :
       manifest[k] # None <=> k = 1 \/ k <= session.n
  /\ contract = 1 .. session.n
  /\ \A k \in 1 .. session.n :
       /\ manifest[k] \in snapshots
       /\ iterJson[k] = session.iter[k]
       /\ session.iter[k] = "completed" <=> result[k] # None
       /\ session.iter[k] = "completed" =>
            /\ k \in artifacts
            /\ observation[k] = result[k].observation
  /\ VerifyTerminalState

-----------------------------------------------------------------------------
Init ==
  /\ session = [state |-> "active", stop |-> "none", n |-> 0,
                iter |-> [k \in Attempts |-> "absent"]]
  /\ manifest = [k \in Attempts |-> IF k = 1 THEN Seed ELSE None]
  /\ snapshots = {Seed}
  /\ contract = {}
  /\ result = [k \in Attempts |-> None]
  /\ iterJson = [k \in Attempts |-> "absent"]
  /\ artifacts = {}
  /\ observation = [k \in Attempts |-> None]
  /\ rootfs = [k \in Attempts |-> None]
  /\ claim = [k \in Attempts |-> None]
  /\ runDir = {}
  /\ marker = {}
  /\ exitStatus = [k \in Attempts |-> "none"]
  /\ script = [k \in Attempts |-> "off"]
  /\ executed = [k \in Attempts |-> 0]
  /\ lock = NoProc
  /\ pc = [p \in Procs |-> "idle"]
  /\ att = [p \in Procs |-> 1]
  /\ ev = [p \in Procs |-> None]
  /\ runners = {}
  /\ faults = 0

\* Control moves of one process.
Goto(p, label) == pc' = [pc EXCEPT ![p] = label]
At(p, label)   == pc[p] = label

\* A command ends: the process is gone.
Exit(p) == /\ Goto(p, "idle")
           /\ runners' = runners \ {p}
           /\ ev' = [ev EXCEPT ![p] = None]
           /\ att' = [att EXCEPT ![p] = 1]

-----------------------------------------------------------------------------
(* prepare_next                                                            *)

\* Mutant: any completed attempt may be followed by another one.
CanPrepareAfterAny ==
  /\ Tail # "prepared"
  /\ session.n < MaxIterations
  /\ session.n > 0 => /\ session.n \in artifacts
                      /\ observation[session.n] # None
                      /\ result[session.n] # None

CanPrepare ==
  /\ session.state = "active"
  /\ Tail # "prepared"
  /\ session.n < MaxIterations
  /\ session.n > 0 => /\ session.n \in artifacts
                      /\ observation[session.n] # None
                      /\ result[session.n] # None
                      /\ result[session.n].outcome = "repair_required"

\* Attempt 1 runs in the seed snapshot of manifest version 0; every later one
\* needs a repaired snapshot first.
PrepareNext(p) ==
  /\ At(p, "idle")
  /\ lock = NoProc
  /\ CanPrepare
  /\ lock' = p
  /\ att' = [att EXCEPT ![p] = session.n + 1]
  /\ Goto(p, IF session.n = 0 THEN "save_contract" ELSE "repair")
  /\ UNCHANGED <<store, run, ev, runners, faults>>

\* The repairs are applied to a clone of the parent snapshot, and the clone is
\* captured; capturing known content returns the existing snapshot.
BuildRepairedSnapshot(p) ==
  /\ At(p, "repair")
  /\ snapshots' = snapshots \cup {RepairedSnapshot(att[p] - 1)}
  /\ Goto(p, "save_manifest")
  /\ UNCHANGED <<session, manifest, contract, result, iterJson, artifacts,
                 observation, run, lock, att, ev, runners, faults>>

\* RepairApplier rejects the plan (a path that crosses a symbolic link, ...).
RepairRefused(p) ==
  /\ At(p, "repair")
  /\ lock' = NoProc
  /\ Exit(p)
  /\ UNCHANGED <<store, run, faults>>

\* EnvironmentManifestStore.save.  A version left behind by an interrupted
\* prepare_next is never the same manifest: its entries cite the digest of a
\* repair report that carries a time stamp and a temporary path.
SaveManifest(p) ==
  /\ At(p, "save_manifest")
  /\ manifest[att[p]] = None
  /\ manifest' = [manifest EXCEPT ![att[p]] = RepairedSnapshot(att[p] - 1)]
  /\ Goto(p, "save_contract")
  /\ UNCHANGED <<session, snapshots, contract, result, iterJson, artifacts,
                 observation, run, lock, att, ev, runners, faults>>

ManifestImmutable(p) ==
  /\ At(p, "save_manifest")
  /\ manifest[att[p]] # None
  /\ lock' = NoProc
  /\ Exit(p)
  /\ UNCHANGED <<store, run, faults>>

\* AttemptStore.save_contract: the same contract may be saved again.
SaveContract(p) ==
  /\ At(p, "save_contract")
  /\ contract' = contract \cup {att[p]}
  /\ Goto(p, "publish")
  /\ UNCHANGED <<session, manifest, snapshots, result, iterJson, artifacts,
                 observation, run, lock, att, ev, runners, faults>>

\* The iteration directory, with its clone of the snapshot and iteration.json,
\* is built under a temporary name and renamed.
PublishIteration(p) ==
  LET k == att[p] IN
  /\ At(p, "publish")
  /\ iterJson[k] = "absent"
  /\ manifest[k] \in snapshots
  /\ rootfs' = [rootfs EXCEPT ![k] = manifest[k]]
  /\ iterJson' = [iterJson EXCEPT ![k] = "prepared"]
  /\ Goto(p, "commit_prepared")
  /\ UNCHANGED <<session, manifest, snapshots, contract, result, artifacts,
                 observation, claim, runDir, marker, exitStatus, script,
                 executed, lock, att, ev, runners, faults>>

\* os.replace refuses a directory an interrupted prepare_next left behind.
PublishRefused(p) ==
  /\ At(p, "publish")
  /\ iterJson[att[p]] # "absent"
  /\ lock' = NoProc
  /\ Exit(p)
  /\ UNCHANGED <<store, run, faults>>

CommitPrepared(p) ==
  LET k == att[p] IN
  /\ At(p, "commit_prepared")
  /\ session' = [session EXCEPT !.n = k, !.stop = "none",
                                !.iter = [@ EXCEPT ![k] = "prepared"]]
  /\ lock' = NoProc
  /\ Exit(p)
  /\ UNCHANGED <<manifest, snapshots, contract, result, iterJson, artifacts,
                 observation, run, faults>>

-----------------------------------------------------------------------------
(* complete_iteration                                                      *)

\* _validate_execution_claim_for_completion: no claim at all, or one that has
\* reached "completing".
ClaimAllowsCompletion(k) ==
  claim[k] # None => claim[k].stage = "completing"

\* Mutant: artifacts that already exist are replaced.
CanCompleteAgain(k) ==
  /\ session.state = "active"
  /\ k = session.n
  /\ session.iter[k] = "prepared"
  /\ k \in contract
  /\ ClaimAllowsCompletion(k)

CanComplete(k) ==
  /\ session.state = "active"
  /\ k = session.n
  /\ session.iter[k] = "prepared"
  /\ k \in contract
  /\ ClaimAllowsCompletion(k)
  /\ k \notin artifacts

\* manage_iterations.py complete: an operator hands in a bundle.
CompleteIteration(p, e) ==
  /\ At(p, "idle")
  /\ lock = NoProc
  /\ session.n > 0
  /\ CanComplete(session.n)
  /\ lock' = p
  /\ att' = [att EXCEPT ![p] = session.n]
  /\ ev' = [ev EXCEPT ![p] = e]
  /\ Goto(p, "install_artifacts")
  /\ UNCHANGED <<store, run, runners, faults>>

\* An error inside complete_iteration: an operator's command ends, a runner
\* goes to its exception handler.
CompletionFails(p) ==
  /\ lock' = NoProc
  /\ IF p \in runners
     THEN Goto(p, "failing") /\ UNCHANGED <<att, ev, runners>>
     ELSE Exit(p)
  /\ UNCHANGED <<store, run>>

\* ProgressOracle, RepairPlan or _copy_artifacts rejects the bundle.
BundleRejected(p) ==
  /\ At(p, "install_artifacts")
  /\ CompletionFails(p)
  /\ UNCHANGED faults

InstallArtifacts(p) ==
  /\ At(p, "install_artifacts")
  /\ artifacts' = artifacts \cup {att[p]}
  /\ Goto(p, "save_observation")
  /\ UNCHANGED <<session, manifest, snapshots, contract, result, iterJson,
                 observation, run, lock, att, ev, runners, faults>>

SaveObservation(p) ==
  /\ At(p, "save_observation")
  /\ observation' = [observation EXCEPT ![att[p]] = ev[p]]
  /\ Goto(p, "save_result")
  /\ UNCHANGED <<session, manifest, snapshots, contract, result, iterJson,
                 artifacts, run, lock, att, ev, runners, faults>>

\* AttemptStore.save_result: append-only.
SaveResult(p) ==
  /\ At(p, "save_result")
  /\ result[att[p]] = None
  /\ result' = [result EXCEPT ![att[p]] =
                  [outcome |-> OutcomeOf(ev[p]), observation |-> ev[p]]]
  /\ Goto(p, "complete_iter_json")
  /\ UNCHANGED <<session, manifest, snapshots, contract, iterJson, artifacts,
                 observation, run, lock, att, ev, runners, faults>>

\* Mutant: iteration.json keeps saying "prepared".
CompleteWithoutIterJson(p) ==
  /\ At(p, "complete_iter_json")
  /\ Goto(p, "commit_completed")
  /\ UNCHANGED <<store, run, lock, att, ev, runners, faults>>

CompleteIterJson(p) ==
  /\ At(p, "complete_iter_json")
  /\ iterJson' = [iterJson EXCEPT ![att[p]] = "completed"]
  /\ Goto(p, "commit_completed")
  /\ UNCHANGED <<session, manifest, snapshots, contract, result, artifacts,
                 observation, run, lock, att, ev, runners, faults>>

CommitCompleted(p) ==
  LET k == att[p]
      next == ResolveTransition(OutcomeOf(ev[p]), DecideStopReason(k, ev[p]))
  IN
  /\ At(p, "commit_completed")
  /\ session' = [session EXCEPT !.state = next[1], !.stop = next[2],
                                !.iter = [@ EXCEPT ![k] = "completed"]]
  /\ lock' = NoProc
  /\ IF p \in runners
     THEN Goto(p, "done") /\ UNCHANGED <<att, ev, runners>>
     ELSE Exit(p)
  /\ UNCHANGED <<manifest, snapshots, contract, result, iterJson, artifacts,
                 observation, run, faults>>

-----------------------------------------------------------------------------
(* verify: reads everything under the lock                                 *)

BeginVerify(p) ==
  /\ At(p, "idle")
  /\ lock = NoProc
  /\ lock' = p
  /\ Goto(p, "verifying")
  /\ UNCHANGED <<store, run, att, ev, runners, faults>>

EndVerify(p) ==
  /\ At(p, "verifying")
  /\ lock' = NoProc
  /\ Exit(p)
  /\ UNCHANGED <<store, run, faults>>

-----------------------------------------------------------------------------
(* PrebuiltRootfsRunner.validate                                        *)

\* Mutant: validate accepts a session without a prepared attempt.
StartRunUnprepared(p) ==
  /\ At(p, "idle")
  /\ lock = NoProc
  /\ VerifyOK
  /\ session.state = "active"
  /\ att' = [att EXCEPT ![p] = session.n]
  /\ runners' = runners \cup {p}
  /\ Goto(p, "check_rootfs")
  /\ UNCHANGED <<store, run, lock, ev, faults>>

\* controller.verify() and the checks on the session it returned.  (The lock is
\* free again when verify returns; that verify holds it meanwhile is what
\* BeginVerify and EndVerify model.)
StartRun(p) ==
  /\ At(p, "idle")
  /\ lock = NoProc
  /\ VerifyOK
  /\ session.state = "active"
  /\ Tail = "prepared"
  /\ att' = [att EXCEPT ![p] = session.n]
  /\ runners' = runners \cup {p}
  /\ Goto(p, "check_rootfs")
  /\ UNCHANGED <<store, run, lock, ev, faults>>

\* Mutant: the digest comparison always succeeds.
RootfsNotCompared(k) == k \in Attempts

\* validate goes on without the lock: first the digest of the rootfs, ...
RootfsMatches(k) == rootfs[k] = manifest[k]

CheckRootfs(p) ==
  /\ At(p, "check_rootfs")
  /\ IF RootfsMatches(att[p])
     THEN Goto(p, "check_claim") /\ UNCHANGED <<att, ev, runners>>
     ELSE Exit(p)
  /\ UNCHANGED <<store, run, lock, faults>>

\* ... then "prepared rootfs must never be executed twice".
CheckClaim(p) ==
  /\ At(p, "check_claim")
  /\ IF att[p] \notin runDir /\ claim[att[p]] = None
     THEN Goto(p, "create_claim") /\ UNCHANGED <<att, ev, runners>>
     ELSE Exit(p)
  /\ UNCHANGED <<store, run, lock, faults>>

-----------------------------------------------------------------------------
(* PrebuiltRootfsRunner.run_and_complete                                *)

\* Mutant: the claim is opened without O_EXCL.
CreateClaimNotExclusive(p) ==
  LET k == att[p] IN
  /\ At(p, "create_claim")
  /\ claim' = [claim EXCEPT ![k] = [stage |-> "empty", started |-> FALSE,
                                    retrySafe |-> FALSE]]
  /\ Goto(p, "write_claim")
  /\ UNCHANGED <<store, rootfs, runDir, marker, exitStatus, script, executed,
                 lock, att, ev, runners, faults>>

\* The claim is created with O_EXCL, and then written.
CreateClaim(p) ==
  LET k == att[p] IN
  /\ At(p, "create_claim")
  /\ claim[k] = None
  /\ claim' = [claim EXCEPT ![k] = [stage |-> "empty", started |-> FALSE,
                                    retrySafe |-> FALSE]]
  /\ Goto(p, "write_claim")
  /\ UNCHANGED <<store, rootfs, runDir, marker, exitStatus, script, executed,
                 lock, att, ev, runners, faults>>

ClaimLost(p) ==
  /\ At(p, "create_claim")
  /\ claim[att[p]] # None
  /\ Exit(p)
  /\ UNCHANGED <<store, run, lock, faults>>

\* Rewriting the claim takes no look at what is there.
UpdateClaim(p, from, stage, to) ==
  /\ At(p, from)
  /\ claim' = [claim EXCEPT ![att[p]] =
                 [stage |-> stage,
                  started |-> stage \in {"postprocessing", "completing",
                                         "completed"},
                  retrySafe |-> FALSE]]
  /\ Goto(p, to)
  /\ UNCHANGED <<store, rootfs, runDir, marker, exitStatus, script, executed,
                 lock, att, ev, runners, faults>>

WriteClaim(p)         == UpdateClaim(p, "write_claim", "claimed", "claimed")
MarkValidated(p)      == UpdateClaim(p, "claimed", "validated", "validated")
MarkPrepared(p)       == UpdateClaim(p, "run_dir_made", "prepared", "prepared")
MarkExecuting(p)      == UpdateClaim(p, "host_ready", "executing", "launch")
MarkPostprocessing(p) == UpdateClaim(p, "guest_done", "postprocessing",
                                     "postprocess")
MarkCompleting(p)     == UpdateClaim(p, "processed", "completing", "complete")

\* _prepare_run_directory builds run/ under a temporary name and renames it.
PrepareRunDirectory(p) ==
  /\ At(p, "validated")
  /\ att[p] \notin runDir
  /\ runDir' = runDir \cup {att[p]}
  /\ Goto(p, "run_dir_made")
  /\ UNCHANGED <<store, rootfs, claim, marker, exitStatus, script, executed,
                 lock, att, ev, runners, faults>>

\* Host tools, network backend and the "before" observation.
SetUpHost(p) ==
  /\ At(p, "prepared")
  /\ Goto(p, "host_ready")
  /\ UNCHANGED <<store, run, lock, att, ev, runners, faults>>

\* _execute_guest: sudo unshare ... bash run_prebuilt_sandbox.sh
LaunchScript(p) ==
  /\ At(p, "launch")
  /\ script' = [script EXCEPT ![att[p]] = "setup"]
  /\ Goto(p, "wait")
  /\ UNCHANGED <<store, rootfs, claim, runDir, marker, exitStatus, executed,
                 lock, att, ev, runners, faults>>

\* The script has returned; the network backend is cleaned up either way.
ScriptReturned(p) ==
  /\ At(p, "wait")
  /\ script[att[p]] = "ended"
  /\ Goto(p, IF exitStatus[att[p]] = "none" THEN "failing" ELSE "guest_done")
  /\ UNCHANGED <<store, run, lock, att, ev, runners, faults>>

\* Parsing, repair planning, reports and the target-state oracle produce the
\* bundle; exit code 124 is a timeout.
Postprocess(p, e) ==
  /\ At(p, "postprocess")
  /\ e.timeout = (exitStatus[att[p]] = "timeout")
  /\ ev' = [ev EXCEPT ![p] = e]
  /\ Goto(p, "processed")
  /\ UNCHANGED <<store, run, lock, att, runners, faults>>

\* complete_iteration called by the runner: it raises when the lock is taken
\* (LOCK_NB) or a guard does not hold.
RunnerCompletes(p) ==
  /\ At(p, "complete")
  /\ IF lock = NoProc /\ CanComplete(att[p])
     THEN Goto(p, "install_artifacts") /\ lock' = p
     ELSE Goto(p, "failing") /\ UNCHANGED lock
  /\ UNCHANGED <<store, run, att, ev, runners, faults>>

MarkCompleted(p) ==
  /\ At(p, "done")
  /\ claim' = [claim EXCEPT ![att[p]] =
                 [stage |-> "completed", started |-> TRUE,
                  retrySafe |-> FALSE]]
  /\ Exit(p)
  /\ UNCHANGED <<store, rootfs, runDir, marker, exitStatus, script, executed,
                 lock, faults>>

\* Any step between the claim and complete_iteration may raise an exception.
RunnerRaises(p) ==
  /\ pc[p] \in {"claimed", "validated", "run_dir_made", "prepared",
                "host_ready", "launch", "guest_done", "postprocess",
                "processed", "complete"}
  /\ Goto(p, "failing")
  /\ UNCHANGED <<store, run, lock, att, ev, runners, faults>>

\* Mutant: the handler does not look at the marker.
RecordFailureBlindly(p) ==
  LET k == att[p] IN
  /\ At(p, "failing")
  /\ claim' = [claim EXCEPT ![k] =
                 [stage |-> "failed", started |-> FALSE,
                  retrySafe |-> RootfsMatches(k)]]
  /\ Exit(p)
  /\ UNCHANGED <<store, rootfs, runDir, marker, exitStatus, script, executed,
                 lock, faults>>

\* Mutant: the handler only re-raises.
ForgetFailure(p) ==
  /\ At(p, "failing")
  /\ Exit(p)
  /\ UNCHANGED <<store, run, lock, faults>>

\* The exception handler decides from the marker and the rootfs digest whether
\* the attempt may be reset.
RecordFailure(p) ==
  LET k == att[p] IN
  /\ At(p, "failing")
  /\ claim' = [claim EXCEPT ![k] =
                 [stage |-> "failed", started |-> k \in marker,
                  retrySafe |-> k \notin marker /\ RootfsMatches(k)]]
  /\ Exit(p)
  /\ UNCHANGED <<store, rootfs, runDir, marker, exitStatus, script, executed,
                 lock, faults>>

-----------------------------------------------------------------------------
(* run_prebuilt_sandbox.sh for attempt k: a process of its own, which goes *)
(* on when the runner that started it is killed                            *)

ScriptStep(k, from, to) ==
  /\ script[k] = from
  /\ script' = [script EXCEPT ![k] = to]

\* qemu_setup, before the cleanup trap is installed
ScriptMounts(k) ==
  /\ ScriptStep(k, "setup", "mounted")
  /\ rootfs' = [rootfs EXCEPT ![k] =
                  @ \cup IF Backend = "qemu" THEN {QemuMount} ELSE {}]
  /\ UNCHANGED <<store, claim, runDir, marker, exitStatus, executed, procs,
                 faults>>

\* unshare, mount or hostname fails; set -e ends the script, without cleanup.
ScriptAborts(k) ==
  /\ \E from \in {"setup", "mounted"} : ScriptStep(k, from, "ended")
  /\ UNCHANGED <<store, rootfs, claim, runDir, marker, exitStatus, executed,
                 procs, faults>>

WriteMarker(k) ==
  /\ ScriptStep(k, "mounted", "marked")
  /\ marker' = marker \cup {k}
  /\ UNCHANGED <<store, rootfs, claim, runDir, exitStatus, executed, procs,
                 faults>>

\* The guest runs under timeout(1) and may write to its rootfs.
RunGuest(k) ==
  /\ ScriptStep(k, "marked", "guest")
  /\ executed' = [executed EXCEPT ![k] = @ + 1]
  /\ \E writes \in SUBSET {GuestWrite} :
       rootfs' = [rootfs EXCEPT ![k] = @ \cup writes]
  /\ UNCHANGED <<store, claim, runDir, marker, exitStatus, procs, faults>>

\* The command line of the native backend lacks its closing quote: bash meets
\* the end of the file, and neither runs the guest nor writes its exit status.
NativeSyntaxError(k) ==
  /\ ScriptStep(k, "marked", "ended")
  /\ UNCHANGED <<store, rootfs, claim, runDir, marker, exitStatus, executed,
                 procs, faults>>

\* The line after the marker.
GuestCommand(k) ==
  IF Backend = "native" THEN NativeSyntaxError(k) ELSE RunGuest(k)

\* The exit status is written, and the trap removes the QEMU mount point.
RecordExit(k) ==
  /\ ScriptStep(k, "guest", "ended")
  /\ \E status \in {"exited", "timeout"} :
       exitStatus' = [exitStatus EXCEPT ![k] = status]
  /\ rootfs' = [rootfs EXCEPT ![k] = @ \ {QemuMount}]
  /\ UNCHANGED <<store, claim, runDir, marker, executed, procs, faults>>

-----------------------------------------------------------------------------
(* reset_safe_failure                                                      *)

\* Mutant: any failed claim over an unchanged rootfs may be reset.
CanResetAnyFailure ==
  LET k == session.n IN
  /\ session.state = "active"
  /\ Tail = "prepared"
  /\ claim[k] # None
  /\ claim[k].stage = "failed"
  /\ RootfsMatches(k)

CanReset ==
  LET k == session.n IN
  /\ session.state = "active"
  /\ Tail = "prepared"
  /\ claim[k] # None
  /\ claim[k].stage = "failed"
  /\ ~claim[k].started
  /\ claim[k].retrySafe
  /\ RootfsMatches(k)

ResetSafeFailure(p) ==
  /\ At(p, "idle")
  /\ lock = NoProc
  /\ CanReset
  /\ lock' = p
  /\ att' = [att EXCEPT ![p] = session.n]
  /\ Goto(p, "reset_run_dir")
  /\ UNCHANGED <<store, run, ev, runners, faults>>

\* Mutant: the claim is unlinked before the run directory is removed.
ResetClaimFirst(p) ==
  /\ At(p, "reset_run_dir")
  /\ claim' = [claim EXCEPT ![att[p]] = None]
  /\ Goto(p, "reset_claim")
  /\ UNCHANGED <<store, rootfs, runDir, marker, exitStatus, script, executed,
                 lock, att, ev, runners, faults>>

\* shutil.rmtree(run_dir) takes the logs with it, ...
ResetRunDir(p) ==
  LET k == att[p] IN
  /\ At(p, "reset_run_dir")
  /\ runDir' = runDir \ {k}
  /\ marker' = marker \ {k}
  /\ exitStatus' = [exitStatus EXCEPT ![k] = "none"]
  /\ Goto(p, "reset_claim")
  /\ UNCHANGED <<store, rootfs, claim, script, executed, lock, att, ev,
                 runners, faults>>

\* ... and the claim goes last.
ResetClaim(p) ==
  /\ At(p, "reset_claim")
  /\ claim' = [claim EXCEPT ![att[p]] = None]
  /\ lock' = NoProc
  /\ Exit(p)
  /\ UNCHANGED <<store, rootfs, runDir, marker, exitStatus, script, executed,
                 faults>>

-----------------------------------------------------------------------------
(* Faults                                                                  *)

LockedSteps == {"repair", "save_manifest", "save_contract", "publish",
                "commit_prepared", "install_artifacts", "save_observation",
                "save_result", "complete_iter_json", "commit_completed",
                "verifying", "reset_run_dir", "reset_claim"}

\* A process is killed anywhere; the kernel drops its flock.
Crash(p) ==
  /\ faults < MaxFaults
  /\ faults' = faults + 1
  /\ pc[p] # "idle"
  /\ Exit(p)
  /\ lock' = IF lock = p THEN NoProc ELSE lock
  /\ UNCHANGED <<store, run>>

\* An OSError inside a locked section: Python unwinds instead of dying.
IOFault(p) ==
  /\ faults < MaxFaults
  /\ faults' = faults + 1
  /\ pc[p] \in LockedSteps
  /\ CompletionFails(p)

\* Rewriting the claim fails: after complete_iteration this leads to the exception
\* handler; in the handler it is ignored.
ClaimUpdateFails(p) ==
  /\ faults < MaxFaults
  /\ faults' = faults + 1
  /\ \/ At(p, "done") /\ Goto(p, "failing") /\ UNCHANGED <<att, ev, runners>>
     \/ At(p, "failing") /\ Exit(p)
  /\ UNCHANGED <<store, run, lock>>

\* The sandbox is killed after the marker was written.
ScriptKilled(k) ==
  /\ faults < MaxFaults
  /\ faults' = faults + 1
  /\ \E from \in {"marked", "guest"} : ScriptStep(k, from, "ended")
  /\ UNCHANGED <<store, rootfs, claim, runDir, marker, exitStatus, executed,
                 procs>>

-----------------------------------------------------------------------------
\* The commands an operator can start.
Start(p) ==
  \/ PrepareNext(p)
  \/ \E e \in Bundles : CompleteIteration(p, e)
  \/ BeginVerify(p)
  \/ StartRun(p)
  \/ ResetSafeFailure(p)

\* One more step of a command under way.
Step(p) ==
  \/ BuildRepairedSnapshot(p) \/ RepairRefused(p)
  \/ SaveManifest(p) \/ ManifestImmutable(p)
  \/ SaveContract(p) \/ PublishIteration(p) \/ PublishRefused(p)
  \/ CommitPrepared(p)
  \/ BundleRejected(p) \/ InstallArtifacts(p) \/ SaveObservation(p)
  \/ SaveResult(p) \/ CompleteIterJson(p) \/ CommitCompleted(p)
  \/ EndVerify(p)
  \/ CheckRootfs(p) \/ CheckClaim(p) \/ CreateClaim(p) \/ ClaimLost(p)
  \/ WriteClaim(p) \/ MarkValidated(p) \/ PrepareRunDirectory(p)
  \/ MarkPrepared(p) \/ SetUpHost(p) \/ MarkExecuting(p) \/ LaunchScript(p)
  \/ ScriptReturned(p) \/ MarkPostprocessing(p)
  \/ \E e \in Bundles : Postprocess(p, e)
  \/ MarkCompleting(p) \/ RunnerCompletes(p) \/ MarkCompleted(p)
  \/ RunnerRaises(p) \/ RecordFailure(p)
  \/ ResetRunDir(p) \/ ResetClaim(p)

Script(k) ==
  \/ ScriptMounts(k) \/ ScriptAborts(k) \/ WriteMarker(k)
  \/ GuestCommand(k) \/ RecordExit(k)

Fault == (\E p \in Procs : Crash(p) \/ IOFault(p) \/ ClaimUpdateFails(p))
         \/ \E k \in Attempts : ScriptKilled(k)

Next == \/ \E p \in Procs : Start(p) \/ Step(p)
        \/ \E k \in Attempts : Script(k)
        \/ Fault

Spec == Init /\ [][Next]_vars

-----------------------------------------------------------------------------
(* Properties                                                              *)

ValidationSteps == {"check_rootfs", "check_claim", "create_claim"}
CompletionSteps == {"install_artifacts", "save_observation", "save_result",
                    "complete_iter_json", "commit_completed"}
\* The steps of a runner whose claim is on disk, before and after the script
\* was launched.
BeforeLaunch == {"write_claim", "claimed", "validated", "run_dir_made",
                 "prepared", "host_ready", "launch"}
AfterLaunch  == {"guest_done", "postprocess", "processed", "complete", "done"}
                \cup CompletionSteps
PcLabels     == {"idle", "wait", "failing"} \cup LockedSteps
                \cup ValidationSteps \cup BeforeLaunch \cup AfterLaunch

\* Process p is a live runner that holds the execution claim of attempt k.
Owns(p, k) == /\ p \in runners
              /\ att[p] = k
              /\ pc[p] \in BeforeLaunch \cup AfterLaunch \cup {"wait", "failing"}

\* Every variable stays in its domain.
TypeOK ==
  /\ session \in Sessions
  /\ manifest \in [Attempts -> {None} \cup SUBSET Entries]
  /\ snapshots \subseteq SUBSET Entries
  /\ contract \subseteq Attempts
  /\ result \in [Attempts -> {None} \cup Results]
  /\ iterJson \in [Attempts -> IterationStates]
  /\ artifacts \subseteq Attempts
  /\ observation \in [Attempts -> {None} \cup Evidence]
  /\ rootfs \in [Attempts -> {None} \cup SUBSET Entries]
  /\ claim \in [Attempts -> {None} \cup Claims]
  /\ runDir \subseteq Attempts
  /\ marker \subseteq Attempts
  /\ exitStatus \in [Attempts -> {"none", "exited", "timeout"}]
  /\ script \in [Attempts -> ScriptStates]
  /\ executed \in [Attempts -> Nat]
  /\ lock \in Procs \cup {NoProc}
  /\ pc \in [Procs -> PcLabels]
  /\ att \in [Procs -> Attempts]
  /\ ev \in [Procs -> {None} \cup Evidence]
  /\ runners \subseteq Procs
  /\ faults \in 0 .. MaxFaults

\* "prepared rootfs must never be executed twice" (prebuilt_runner.validate):
\* whatever runners, resets and crashes do, the guest starts at most once in
\* an execution rootfs.
GuestRunsAtMostOnce == \A k \in Attempts : executed[k] <= 1

\* README: malware writes are never promoted into a snapshot.  Every snapshot
\* consists of repaired directories only: no guest file, no QEMU mount point.
NoGuestWritesInSnapshots == \A s \in snapshots : s \subseteq Repairs

\* The sandbox script, and in it the guest, starts in exactly the environment
\* the manifest names, even after failed runs in the same rootfs
\* (_execute_guest; the mount point the script adds is the only difference).
GuestStartsFromSnapshot ==
  [][\A k \in Attempts :
       /\ script'[k] = "setup" => rootfs[k] = manifest[k]
       /\ executed'[k] # executed[k] =>
            rootfs[k] = manifest[k] \cup {QemuMount}]_vars

\* Without a crash or an I/O fault, IterationController.verify accepts the
\* session whenever it gets the lock, whatever commands ran or failed before.
VerifiesUnlessFaulty == lock = NoProc /\ faults = 0 => VerifyOK

\* run/ never outlives its claim: otherwise validate would refuse the attempt
\* for its run directory and reset_safe_failure for its missing claim.
RunDirHasClaim == \A k \in runDir : claim[k] # None

\* Manifests, contracts, results and snapshots are append-only.
AppendOnlyStores ==
  [][/\ snapshots \subseteq snapshots'
     /\ contract \subseteq contract'
     /\ \A k \in Attempts :
          /\ manifest[k] # None => manifest'[k] = manifest[k]
          /\ result[k] # None => result'[k] = result[k]
          /\ result[k] # None => observation'[k] = observation[k]]_vars

\* _decide_stop_reason and _resolve_attempt_session_transition never leave an
\* active session at a dead end: after a completed attempt there is budget left,
\* something to repair, and no environment state was seen twice.
ActiveSessionCanContinue ==
  session.state = "active" /\ Tail = "completed" =>
    /\ session.n < MaxIterations
    /\ observation[session.n].plan # {}
    /\ \A i \in 1 .. session.n - 1 :
         StateFingerprint(i, observation[i])
           # StateFingerprint(session.n, observation[session.n])

\* README: timeout and crash results terminate the session as "failed".  They
\* are the only ones that do: a guest that exits with nothing left to repair
\* leaves a "completed" session, so the last branch of
\* _resolve_attempt_session_transition (execution_exited_without_goal) is dead.
FailedMeansTimeoutOrCrash ==
  session.state = "failed" =>
    /\ Tail = "completed"
    /\ result[session.n].outcome \in {"timed_out", "crashed"}

\* Each environment version is its parent plus the automatic repairs of the
\* parent's accepted observation, and only a repair_required attempt has a
\* successor (prepare_next, derive_environment_manifest_from_repair).
EnvironmentLineage ==
  \A k \in Attempts \ {1} : manifest[k] # None =>
    /\ result[k - 1] # None
    /\ result[k - 1].outcome = "repair_required"
    /\ manifest[k] = manifest[k - 1] \cup observation[k - 1].plan

\* The claim excludes: no two live runners work on one attempt.
OneOwnerPerClaim ==
  \A p, q \in Procs, k \in Attempts : Owns(p, k) /\ Owns(q, k) => p = q

\* reset_safe_failure frees only an attempt whose guest never ran, whose script
\* is not running, and whose rootfs is untouched.
ResetIsSafe ==
  [][\A k \in Attempts : claim[k] # None /\ claim'[k] = None =>
        /\ executed[k] = 0
        /\ script[k] \in {"off", "ended"}
        /\ RootfsMatches(k)]_vars

\* A claim that has not come to an end has a live owner, unless something
\* crashed: every exception after _create_claim is recorded in the claim.
NoOrphanClaim ==
  faults = 0 => \A k \in Attempts :
    claim[k] # None /\ claim[k].stage \notin {"completed", "failed"} =>
      \E p \in Procs : Owns(p, k)

\* A sandbox script that has written the malware_started marker also records
\* the guest's exit status, unless it is killed (_build_sandbox_script).
StartedGuestRecordsExit ==
  faults = 0 => \A k \in Attempts :
    script[k] = "ended" /\ k \in marker => exitStatus[k] # "none"
=============================================================================
