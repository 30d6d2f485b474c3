----------------------- MODULE SynthesisSessionProofs -----------------------
(***************************************************************************)
(* Theorems about SynthesisSession for every number of processes, attempts *)
(* and faults, every set of repairs and bundles, and both backends.  In    *)
(* order: who is where (ControlInv), types (TypeInv), who owns a claim and *)
(* may start a guest (ClaimInv); then what a session leaves on disk: which *)
(* files of an attempt exist and agree after any sequence of commands,     *)
(* refusals and faults (HistoryInv), that the files implement the ledger   *)
(* of attempts, and that all this also holds when the synthesis loop       *)
(* drives the session.                                                     *)
(***************************************************************************)
EXTENDS SynthesisSession, SessionLedger, SynthesisLoop, TLAPS

-----------------------------------------------------------------------------
(* Control: who is where                                                   *)

\* The steps of run_and_complete outside the controller's locked sections.
RunnerSteps == ValidationSteps \cup BeforeLaunch
               \cup {"wait", "failing", "guest_done", "postprocess",
                     "processed", "complete", "done"}

\* Only runners take the steps of a runner, and a process inside a locked
\* section of the controller holds the session lock.
ControlInv ==
  /\ pc \in [Procs -> PcLabels]
  /\ runners \subseteq Procs
  /\ \A p \in Procs : pc[p] \in RunnerSteps => p \in runners
  /\ \A p \in runners : pc[p] \in RunnerSteps \cup CompletionSteps
  /\ \A p \in Procs : pc[p] \in LockedSteps => lock = p

\* Nobody is called NoProc.
LEMMA NoProcAssumption == NoProc \notin Procs
  BY ConstantsAssumption

\* The initial state satisfies the control invariant.
LEMMA InitControl == Init => ControlInv
  BY DEF Init, ControlInv, PcLabels, RunnerSteps, ValidationSteps, BeforeLaunch,
     LockedSteps

\* prepare_next preserves the control invariant.
LEMMA PrepareControl ==
  ASSUME ControlInv, NEW p \in Procs,
         \/ PrepareNext(p) \/ BuildRepairedSnapshot(p) \/ RepairRefused(p)
         \/ SaveManifest(p) \/ ManifestImmutable(p) \/ SaveContract(p)
         \/ PublishIteration(p) \/ PublishRefused(p) \/ CommitPrepared(p)
  PROVE  ControlInv'
<1> USE NoProcAssumption
<1>1. CASE PrepareNext(p)
  BY <1>1 DEF ControlInv, At, Goto, PcLabels, LockedSteps, ValidationSteps,
     BeforeLaunch, AfterLaunch, CompletionSteps, RunnerSteps, PrepareNext,
     store, run
<1>2. CASE BuildRepairedSnapshot(p)
  BY <1>2 DEF ControlInv, At, Goto, PcLabels, LockedSteps, ValidationSteps,
     BeforeLaunch, AfterLaunch, CompletionSteps, RunnerSteps,
     BuildRepairedSnapshot, run
<1>3. CASE RepairRefused(p)
  BY <1>3 DEF ControlInv, At, Goto, PcLabels, LockedSteps, ValidationSteps,
     BeforeLaunch, AfterLaunch, CompletionSteps, RunnerSteps,
     RepairRefused, Exit, store, run
<1>4. CASE SaveManifest(p)
  BY <1>4 DEF ControlInv, At, Goto, PcLabels, LockedSteps, ValidationSteps,
     BeforeLaunch, AfterLaunch, CompletionSteps, RunnerSteps, SaveManifest,
     run
<1>5. CASE ManifestImmutable(p)
  BY <1>5 DEF ControlInv, At, Goto, PcLabels, LockedSteps, ValidationSteps,
     BeforeLaunch, AfterLaunch, CompletionSteps, RunnerSteps,
     ManifestImmutable, Exit, store, run
<1>6. CASE SaveContract(p)
  BY <1>6 DEF ControlInv, At, Goto, PcLabels, LockedSteps, ValidationSteps,
     BeforeLaunch, AfterLaunch, CompletionSteps, RunnerSteps, SaveContract,
     run
<1>7. CASE PublishIteration(p)
  BY <1>7 DEF ControlInv, At, Goto, PcLabels, LockedSteps, ValidationSteps,
     BeforeLaunch, AfterLaunch, CompletionSteps, RunnerSteps,
     PublishIteration
<1>8. CASE PublishRefused(p)
  BY <1>8 DEF ControlInv, At, Goto, PcLabels, LockedSteps, ValidationSteps,
     BeforeLaunch, AfterLaunch, CompletionSteps, RunnerSteps,
     PublishRefused, Exit, store, run
<1>9. CASE CommitPrepared(p)
  BY <1>9 DEF ControlInv, At, Goto, PcLabels, LockedSteps, ValidationSteps,
     BeforeLaunch, AfterLaunch, CompletionSteps, RunnerSteps,
     CommitPrepared, Exit, run
<1> QED
  BY <1>1, <1>2, <1>3, <1>4, <1>5, <1>6, <1>7, <1>8, <1>9

\* complete_iteration and verify preserve the control invariant.
LEMMA CompleteControl ==
  ASSUME ControlInv, NEW p \in Procs,
         \/ (\E e \in Bundles : CompleteIteration(p, e))
         \/ BundleRejected(p) \/ InstallArtifacts(p) \/ SaveObservation(p)
         \/ SaveResult(p) \/ CompleteIterJson(p) \/ CommitCompleted(p)
         \/ BeginVerify(p) \/ EndVerify(p)
  PROVE  ControlInv'
<1> USE NoProcAssumption
<1>1. CASE \E e \in Bundles : CompleteIteration(p, e)
  <2>e. PICK e \in Bundles : CompleteIteration(p, e)
    BY <1>1
  <2> QED
    BY <2>e DEF ControlInv, At, Goto, PcLabels, LockedSteps,
       ValidationSteps, BeforeLaunch, AfterLaunch, CompletionSteps,
       RunnerSteps, CompleteIteration, store, run
<1>2. CASE BundleRejected(p)
  BY <1>2 DEF ControlInv, At, Goto, PcLabels, LockedSteps, ValidationSteps,
     BeforeLaunch, AfterLaunch, CompletionSteps, RunnerSteps,
     BundleRejected, CompletionFails, Exit, store, run
<1>3. CASE InstallArtifacts(p)
  BY <1>3 DEF ControlInv, At, Goto, PcLabels, LockedSteps, ValidationSteps,
     BeforeLaunch, AfterLaunch, CompletionSteps, RunnerSteps,
     InstallArtifacts, run
<1>4. CASE SaveObservation(p)
  BY <1>4 DEF ControlInv, At, Goto, PcLabels, LockedSteps, ValidationSteps,
     BeforeLaunch, AfterLaunch, CompletionSteps, RunnerSteps,
     SaveObservation, run
<1>5. CASE SaveResult(p)
  BY <1>5 DEF ControlInv, At, Goto, PcLabels, LockedSteps, ValidationSteps,
     BeforeLaunch, AfterLaunch, CompletionSteps, RunnerSteps, SaveResult,
     run
<1>6. CASE CompleteIterJson(p)
  BY <1>6 DEF ControlInv, At, Goto, PcLabels, LockedSteps, ValidationSteps,
     BeforeLaunch, AfterLaunch, CompletionSteps, RunnerSteps,
     CompleteIterJson, run
<1>7. CASE CommitCompleted(p)
  BY <1>7 DEF ControlInv, At, Goto, PcLabels, LockedSteps, ValidationSteps,
     BeforeLaunch, AfterLaunch, CompletionSteps, RunnerSteps,
     CommitCompleted, Exit, run
<1>8. CASE BeginVerify(p)
  BY <1>8 DEF ControlInv, At, Goto, PcLabels, LockedSteps, ValidationSteps,
     BeforeLaunch, AfterLaunch, CompletionSteps, RunnerSteps, BeginVerify,
     store, run
<1>9. CASE EndVerify(p)
  BY <1>9 DEF ControlInv, At, Goto, PcLabels, LockedSteps, ValidationSteps,
     BeforeLaunch, AfterLaunch, CompletionSteps, RunnerSteps, EndVerify,
     Exit, store, run
<1> QED
  BY <1>1, <1>2, <1>3, <1>4, <1>5, <1>6, <1>7, <1>8, <1>9

\* validate, and the steps of a runner that only touch its claim, preserve the
\* control invariant.
LEMMA ClaimControl ==
  ASSUME ControlInv, NEW p \in Procs,
         \/ StartRun(p) \/ CheckRootfs(p) \/ CheckClaim(p)
         \/ CreateClaim(p) \/ ClaimLost(p) \/ WriteClaim(p)
         \/ MarkValidated(p) \/ MarkPrepared(p) \/ MarkExecuting(p)
         \/ MarkPostprocessing(p) \/ MarkCompleting(p) \/ MarkCompleted(p)
         \/ RecordFailure(p)
  PROVE  ControlInv'
<1> USE NoProcAssumption
<1>1. CASE StartRun(p)
  BY <1>1 DEF ControlInv, At, Goto, PcLabels, LockedSteps, ValidationSteps,
     BeforeLaunch, AfterLaunch, CompletionSteps, RunnerSteps, StartRun,
     store, run
<1>2. CASE CheckRootfs(p)
  BY <1>2 DEF ControlInv, At, Goto, PcLabels, LockedSteps, ValidationSteps,
     BeforeLaunch, AfterLaunch, CompletionSteps, RunnerSteps, CheckRootfs,
     Exit, store, run
<1>3. CASE CheckClaim(p)
  BY <1>3 DEF ControlInv, At, Goto, PcLabels, LockedSteps, ValidationSteps,
     BeforeLaunch, AfterLaunch, CompletionSteps, RunnerSteps, CheckClaim,
     Exit, store, run
<1>4. CASE CreateClaim(p)
  BY <1>4 DEF ControlInv, At, Goto, PcLabels, LockedSteps, ValidationSteps,
     BeforeLaunch, AfterLaunch, CompletionSteps, RunnerSteps, CreateClaim,
     store
<1>5. CASE ClaimLost(p)
  BY <1>5 DEF ControlInv, At, Goto, PcLabels, LockedSteps, ValidationSteps,
     BeforeLaunch, AfterLaunch, CompletionSteps, RunnerSteps, ClaimLost,
     Exit, store, run
<1>6. CASE WriteClaim(p)
  BY <1>6 DEF ControlInv, At, Goto, PcLabels, LockedSteps, ValidationSteps,
     BeforeLaunch, AfterLaunch, CompletionSteps, RunnerSteps, WriteClaim,
     UpdateClaim, store
<1>7. CASE MarkValidated(p)
  BY <1>7 DEF ControlInv, At, Goto, PcLabels, LockedSteps, ValidationSteps,
     BeforeLaunch, AfterLaunch, CompletionSteps, RunnerSteps,
     MarkValidated, UpdateClaim, store
<1>8. CASE MarkPrepared(p)
  BY <1>8 DEF ControlInv, At, Goto, PcLabels, LockedSteps, ValidationSteps,
     BeforeLaunch, AfterLaunch, CompletionSteps, RunnerSteps, MarkPrepared,
     UpdateClaim, store
<1>9. CASE MarkExecuting(p)
  BY <1>9 DEF ControlInv, At, Goto, PcLabels, LockedSteps, ValidationSteps,
     BeforeLaunch, AfterLaunch, CompletionSteps, RunnerSteps,
     MarkExecuting, UpdateClaim, store
<1>10. CASE MarkPostprocessing(p)
  BY <1>10 DEF ControlInv, At, Goto, PcLabels, LockedSteps,
     ValidationSteps, BeforeLaunch, AfterLaunch, CompletionSteps,
     RunnerSteps, MarkPostprocessing, UpdateClaim, store
<1>11. CASE MarkCompleting(p)
  BY <1>11 DEF ControlInv, At, Goto, PcLabels, LockedSteps,
     ValidationSteps, BeforeLaunch, AfterLaunch, CompletionSteps,
     RunnerSteps, MarkCompleting, UpdateClaim, store
<1>12. CASE MarkCompleted(p)
  BY <1>12 DEF ControlInv, At, Goto, PcLabels, LockedSteps,
     ValidationSteps, BeforeLaunch, AfterLaunch, CompletionSteps,
     RunnerSteps, MarkCompleted, Exit, store
<1>13. CASE RecordFailure(p)
  BY <1>13 DEF ControlInv, At, Goto, PcLabels, LockedSteps,
     ValidationSteps, BeforeLaunch, AfterLaunch, CompletionSteps,
     RunnerSteps, RecordFailure, Exit, store
<1> QED
  BY <1>1, <1>2, <1>3, <1>4, <1>5, <1>6, <1>7, <1>8, <1>9, <1>10, <1>11,
     <1>12, <1>13

\* The other steps of a runner preserve the control invariant.
LEMMA RunnerControl ==
  ASSUME ControlInv, NEW p \in Procs,
         \/ PrepareRunDirectory(p) \/ SetUpHost(p) \/ LaunchScript(p)
         \/ ScriptReturned(p) \/ (\E e \in Bundles : Postprocess(p, e))
         \/ RunnerCompletes(p) \/ RunnerRaises(p)
  PROVE  ControlInv'
<1> USE NoProcAssumption
<1>1. CASE PrepareRunDirectory(p)
  BY <1>1 DEF ControlInv, At, Goto, PcLabels, LockedSteps, ValidationSteps,
     BeforeLaunch, AfterLaunch, CompletionSteps, RunnerSteps,
     PrepareRunDirectory, store
<1>2. CASE SetUpHost(p)
  BY <1>2 DEF ControlInv, At, Goto, PcLabels, LockedSteps, ValidationSteps,
     BeforeLaunch, AfterLaunch, CompletionSteps, RunnerSteps, SetUpHost,
     store, run
<1>3. CASE LaunchScript(p)
  BY <1>3 DEF ControlInv, At, Goto, PcLabels, LockedSteps, ValidationSteps,
     BeforeLaunch, AfterLaunch, CompletionSteps, RunnerSteps, LaunchScript,
     store
<1>4. CASE ScriptReturned(p)
  BY <1>4 DEF ControlInv, At, Goto, PcLabels, LockedSteps, ValidationSteps,
     BeforeLaunch, AfterLaunch, CompletionSteps, RunnerSteps,
     ScriptReturned, store, run
<1>5. CASE \E e \in Bundles : Postprocess(p, e)
  <2>e. PICK e \in Bundles : Postprocess(p, e)
    BY <1>5
  <2> QED
    BY <2>e DEF ControlInv, At, Goto, PcLabels, LockedSteps,
       ValidationSteps, BeforeLaunch, AfterLaunch, CompletionSteps,
       RunnerSteps, Postprocess, store, run
<1>6. CASE RunnerCompletes(p)
  BY <1>6 DEF ControlInv, At, Goto, PcLabels, LockedSteps, ValidationSteps,
     BeforeLaunch, AfterLaunch, CompletionSteps, RunnerSteps,
     RunnerCompletes, store, run
<1>7. CASE RunnerRaises(p)
  BY <1>7 DEF ControlInv, At, Goto, PcLabels, LockedSteps, ValidationSteps,
     BeforeLaunch, AfterLaunch, CompletionSteps, RunnerSteps, RunnerRaises,
     store, run
<1> QED
  BY <1>1, <1>2, <1>3, <1>4, <1>5, <1>6, <1>7

\* reset_safe_failure and the faults of a process preserve the control
\* invariant.
LEMMA ResetControl ==
  ASSUME ControlInv, NEW p \in Procs,
         \/ ResetSafeFailure(p) \/ ResetRunDir(p) \/ ResetClaim(p)
         \/ Crash(p) \/ IOFault(p) \/ ClaimUpdateFails(p)
  PROVE  ControlInv'
<1> USE NoProcAssumption
<1>1. CASE ResetSafeFailure(p)
  BY <1>1 DEF ControlInv, At, Goto, PcLabels, LockedSteps, ValidationSteps,
     BeforeLaunch, AfterLaunch, CompletionSteps, RunnerSteps,
     ResetSafeFailure, store, run
<1>2. CASE ResetRunDir(p)
  BY <1>2 DEF ControlInv, At, Goto, PcLabels, LockedSteps, ValidationSteps,
     BeforeLaunch, AfterLaunch, CompletionSteps, RunnerSteps, ResetRunDir,
     store
<1>3. CASE ResetClaim(p)
  BY <1>3 DEF ControlInv, At, Goto, PcLabels, LockedSteps, ValidationSteps,
     BeforeLaunch, AfterLaunch, CompletionSteps, RunnerSteps, ResetClaim,
     Exit, store
<1>4. CASE Crash(p)
  BY <1>4 DEF ControlInv, At, Goto, PcLabels, LockedSteps, ValidationSteps,
     BeforeLaunch, AfterLaunch, CompletionSteps, RunnerSteps, Crash, Exit,
     store, run
<1>5. CASE IOFault(p)
  BY <1>5 DEF ControlInv, At, Goto, PcLabels, LockedSteps, ValidationSteps,
     BeforeLaunch, AfterLaunch, CompletionSteps, RunnerSteps, IOFault,
     CompletionFails, Exit, store, run
<1>6. CASE ClaimUpdateFails(p)
  BY <1>6 DEF ControlInv, At, Goto, PcLabels, LockedSteps, ValidationSteps,
     BeforeLaunch, AfterLaunch, CompletionSteps, RunnerSteps,
     ClaimUpdateFails, Exit, store, run
<1> QED
  BY <1>1, <1>2, <1>3, <1>4, <1>5, <1>6

\* The sandbox script does not touch the processes.
LEMMA ScriptControl ==
  ASSUME ControlInv, NEW k \in Attempts,
         \/ ScriptMounts(k) \/ ScriptAborts(k) \/ WriteMarker(k)
         \/ RunGuest(k) \/ NativeSyntaxError(k) \/ RecordExit(k)
         \/ ScriptKilled(k)
  PROVE  ControlInv'
<1>1. CASE ScriptMounts(k)
  BY <1>1 DEF ControlInv, ScriptMounts, ScriptStep, store, procs
<1>2. CASE ScriptAborts(k)
  BY <1>2 DEF ControlInv, ScriptAborts, ScriptStep, store, procs
<1>3. CASE WriteMarker(k)
  BY <1>3 DEF ControlInv, WriteMarker, ScriptStep, store, procs
<1>4. CASE RunGuest(k)
  BY <1>4 DEF ControlInv, RunGuest, ScriptStep, store, procs
<1>5. CASE NativeSyntaxError(k)
  BY <1>5 DEF ControlInv, NativeSyntaxError, ScriptStep, store, procs
<1>6. CASE RecordExit(k)
  BY <1>6 DEF ControlInv, RecordExit, ScriptStep, store, procs
<1>7. CASE ScriptKilled(k)
  BY <1>7 DEF ControlInv, ScriptKilled, ScriptStep, store, procs
<1> QED
  BY <1>1, <1>2, <1>3, <1>4, <1>5, <1>6, <1>7

-----------------------------------------------------------------------------
(* Types                                                                   *)

\* A process that completes an attempt has its bundle at hand.
BundleInv ==
  \A p \in Procs : pc[p] \in {"processed", "complete"} \cup CompletionSteps =>
    ev[p] # None

\* What prepare_next reads of the parent attempt is on disk, and the environment
\* of every listed attempt is too.
ParentInv ==
  /\ manifest[1] # None
  /\ \A k \in 1 .. session.n : manifest[k] # None
  /\ \A p \in Procs :
       /\ pc[p] \in {"repair", "save_manifest"} =>
            /\ att[p] > 1
            /\ \A k \in 1 .. att[p] - 1 : manifest[k] # None
            /\ observation[att[p] - 1] # None
       /\ pc[p] \in {"save_contract", "publish", "commit_prepared"} =>
            \A k \in 1 .. att[p] : manifest[k] # None

\* Every listed attempt, every attempt someone works on and every attempt with a
\* script has its execution rootfs.
RootfsInv ==
  /\ \A k \in 1 .. session.n : rootfs[k] # None
  /\ \A k \in Attempts : script[k] # "off" => rootfs[k] # None
  /\ \A p \in Procs :
       /\ pc[p] \in RunnerSteps \cup CompletionSteps => rootfs[att[p]] # None
       /\ pc[p] \in {"repair", "save_manifest", "save_contract", "publish"} =>
            \A k \in 1 .. att[p] - 1 : rootfs[k] # None
       /\ pc[p] = "commit_prepared" => \A k \in 1 .. att[p] : rootfs[k] # None

\* Environments are made of repairs only.
RepairsOnly ==
  /\ \A s \in snapshots : s \subseteq Repairs
  /\ \A k \in Attempts : manifest[k] # None => manifest[k] \subseteq Repairs

TypeInv == TypeOK /\ BundleInv /\ ParentInv /\ RootfsInv /\ RepairsOnly

\* Initially every variable is in its domain.
LEMMA InitTypes == Init => TypeInv
  BY ConstantsAssumption
  DEF Init, TypeInv, TypeOK, BundleInv, ParentInv, RootfsInv, RepairsOnly,
      Attempts, Entries, Seed, Sessions, SessionStates, StopReasons,
      IterationStates, ScriptStates, PcLabels, CompletionSteps, RunnerSteps,
      ValidationSteps, BeforeLaunch, Claims, Results

\* The repaired snapshot of a prepared attempt is a set of repairs.
LEMMA RepairedType ==
  ASSUME TypeInv, NEW p \in Procs, pc[p] \in {"repair", "save_manifest"}
  PROVE  RepairedSnapshot(att[p] - 1) \subseteq Repairs
<1> DEFINE k == att[p] - 1
<1>1. att[p] \in 2 .. MaxIterations
  BY ConstantsAssumption DEF TypeInv, TypeOK, ParentInv, Attempts
<1>2. k \in Attempts /\ k \in 1 .. att[p] - 1
  BY <1>1, ConstantsAssumption DEF Attempts
<1>3. manifest[k] # None /\ observation[k] # None
  BY <1>2 DEF TypeInv, ParentInv
<1>4. manifest[k] \subseteq Repairs
  BY <1>2, <1>3 DEF TypeInv, RepairsOnly
<1>5. observation[k].plan \subseteq Repairs
  BY <1>2, <1>3 DEF TypeInv, TypeOK, Evidence
<1> QED
  BY <1>4, <1>5 DEF RepairedSnapshot

\* The part of the type invariant that relates the place of a process to the
\* files it needs.
PlaceInv == /\ pc \in [Procs -> PcLabels]
            /\ att \in [Procs -> Attempts]
            /\ ev \in [Procs -> {None} \cup Evidence]
            /\ runners \subseteq Procs
            /\ BundleInv /\ ParentInv /\ RootfsInv /\ RepairsOnly

\* A process goes on in run_and_complete or complete_iteration.
LEMMA MovePlace ==
  ASSUME TypeInv, NEW p \in Procs,
         pc[p] \in RunnerSteps \cup CompletionSteps,
         NEW to \in RunnerSteps \cup CompletionSteps, Goto(p, to),
         to \in {"processed", "complete"} \cup CompletionSteps => ev'[p] # None,
         ev' \in [Procs -> {None} \cup Evidence],
         \A q \in Procs \ {p} : ev'[q] = ev[q],
         UNCHANGED <<session, manifest, snapshots, observation, rootfs, script,
                     att, runners>>
  PROVE  PlaceInv'
<1> USE DEF Goto, TypeInv, TypeOK, PlaceInv, RunnerSteps, ValidationSteps,
            BeforeLaunch, CompletionSteps
<1>1. pc' \in [Procs -> PcLabels]
  BY DEF PcLabels, LockedSteps, AfterLaunch
<1>2. BundleInv'
  BY DEF BundleInv
<1>3. ParentInv'
  BY DEF ParentInv
<1>4. RootfsInv'
  BY DEF RootfsInv
<1> QED
  BY <1>1, <1>2, <1>3, <1>4 DEF RepairsOnly

\* A command ends.
LEMMA EndPlace ==
  ASSUME TypeInv, NEW p \in Procs, Exit(p),
         UNCHANGED <<session, manifest, snapshots, observation, rootfs, script>>
  PROVE  PlaceInv'
<1> USE ConstantsAssumption
    DEF Exit, Goto, TypeInv, TypeOK, PlaceInv, RunnerSteps, ValidationSteps,
        BeforeLaunch, CompletionSteps, Attempts
<1>1. pc' \in [Procs -> PcLabels]
  BY DEF PcLabels
<1>2. BundleInv'
  BY DEF BundleInv
<1>3. ParentInv'
  BY DEF ParentInv
<1>4. RootfsInv'
  BY DEF RootfsInv
<1> QED
  BY <1>1, <1>2, <1>3, <1>4 DEF RepairsOnly

\* prepare_next keeps every variable in its domain.
LEMMA PrepareTypes ==
  ASSUME ControlInv, TypeInv, NEW p \in Procs,
         \/ PrepareNext(p) \/ BuildRepairedSnapshot(p) \/ RepairRefused(p)
         \/ SaveManifest(p) \/ ManifestImmutable(p) \/ SaveContract(p)
         \/ PublishIteration(p) \/ PublishRefused(p) \/ CommitPrepared(p)
  PROVE  TypeInv'
<1> USE ConstantsAssumption DEF Attempts
<1>1. CASE PrepareNext(p)
  <2> USE <1>1 DEF PrepareNext, At, Goto, store, run, CanPrepare
  <2>0. session.n \in 0 .. MaxIterations - 1
    BY DEF TypeInv, TypeOK, Sessions
  <2>1. TypeOK'
    BY <2>0 DEF TypeInv, TypeOK, PcLabels, LockedSteps, ValidationSteps,
       BeforeLaunch, AfterLaunch, CompletionSteps
  <2>2. BundleInv'
    BY DEF TypeInv, TypeOK, BundleInv, CompletionSteps
  <2>3. ParentInv'
    BY <2>0 DEF TypeInv, TypeOK, ParentInv
  <2>4. RootfsInv'
    BY <2>0 DEF TypeInv, TypeOK, RootfsInv, RunnerSteps, ValidationSteps,
       BeforeLaunch, CompletionSteps
  <2>5. RepairsOnly'
    BY DEF TypeInv, RepairsOnly
  <2> QED
    BY <2>1, <2>2, <2>3, <2>4, <2>5 DEF TypeInv
<1>2. CASE BuildRepairedSnapshot(p)
  <2> USE <1>2 DEF BuildRepairedSnapshot, At, Goto, run
  <2>0. RepairedSnapshot(att[p] - 1) \subseteq Repairs
    BY RepairedType
  <2>1. TypeOK'
    BY <2>0 DEF TypeInv, TypeOK, PcLabels, LockedSteps, ValidationSteps,
       BeforeLaunch, AfterLaunch, CompletionSteps, Entries
  <2>2. BundleInv'
    BY DEF TypeInv, TypeOK, BundleInv, CompletionSteps
  <2>3. ParentInv'
    BY DEF TypeInv, TypeOK, ParentInv
  <2>4. RootfsInv'
    BY DEF TypeInv, TypeOK, RootfsInv, RunnerSteps, ValidationSteps,
       BeforeLaunch, CompletionSteps
  <2>5. RepairsOnly'
    BY <2>0 DEF TypeInv, RepairsOnly
  <2> QED
    BY <2>1, <2>2, <2>3, <2>4, <2>5 DEF TypeInv
<1>3. CASE RepairRefused(p)
  <2> USE <1>3 DEF RepairRefused, At, Exit, store, run
  <2>1. PlaceInv'
    BY EndPlace
  <2> QED
    BY <2>1 DEF PlaceInv, TypeInv, TypeOK
<1>4. CASE SaveManifest(p)
  <2> USE <1>4 DEF SaveManifest, At, Goto, run
  <2>1. RepairedSnapshot(att[p] - 1) \subseteq Repairs
    BY RepairedType
  <2>2. /\ att[p] \in Attempts
        /\ RepairedSnapshot(att[p] - 1) \in SUBSET Entries
        /\ RepairedSnapshot(att[p] - 1) # None
    BY <2>1 DEF TypeInv, TypeOK, Entries
  <2>3. TypeOK'
    BY <2>2 DEF TypeInv, TypeOK, PcLabels, LockedSteps
  <2>4. BundleInv'
    BY DEF TypeInv, TypeOK, BundleInv, CompletionSteps
  <2>5. \A k \in Attempts : manifest[k] # None => manifest'[k] # None
    BY <2>2 DEF TypeInv, TypeOK
  <2>6. \A k \in 1 .. att[p] : manifest'[k] # None
    BY <2>2, <2>5 DEF TypeInv, TypeOK, ParentInv
  <2>7. ParentInv'
    BY <2>2, <2>5, <2>6 DEF TypeInv, TypeOK, ParentInv, Sessions
  <2>8. RootfsInv'
    BY DEF TypeInv, TypeOK, RootfsInv, RunnerSteps, ValidationSteps,
       BeforeLaunch, CompletionSteps
  <2>9. RepairsOnly'
    BY <2>1, <2>2 DEF TypeInv, TypeOK, RepairsOnly
  <2> QED
    BY <2>3, <2>4, <2>7, <2>8, <2>9 DEF TypeInv
<1>5. CASE ManifestImmutable(p)
  <2> USE <1>5 DEF ManifestImmutable, At, Exit, store, run
  <2>1. PlaceInv'
    BY EndPlace
  <2> QED
    BY <2>1 DEF PlaceInv, TypeInv, TypeOK
<1>6. CASE SaveContract(p)
  <2> USE <1>6 DEF SaveContract, At, Goto, run
  <2>1. TypeOK'
    BY DEF TypeInv, TypeOK, PcLabels, LockedSteps, ValidationSteps,
       BeforeLaunch, AfterLaunch, CompletionSteps
  <2>2. BundleInv'
    BY DEF TypeInv, TypeOK, BundleInv, CompletionSteps
  <2>3. ParentInv'
    BY DEF TypeInv, TypeOK, ParentInv
  <2>4. RootfsInv'
    BY DEF TypeInv, TypeOK, RootfsInv, RunnerSteps, ValidationSteps,
       BeforeLaunch, CompletionSteps
  <2>5. RepairsOnly'
    BY DEF TypeInv, RepairsOnly
  <2> QED
    BY <2>1, <2>2, <2>3, <2>4, <2>5 DEF TypeInv
<1>7. CASE PublishIteration(p)
  <2> USE <1>7 DEF PublishIteration, At, Goto
  <2>0. att[p] \in Attempts /\ manifest[att[p]] # None
    BY DEF TypeInv, TypeOK, ParentInv
  <2>1. TypeOK'
    BY <2>0 DEF TypeInv, TypeOK, PcLabels, LockedSteps, ValidationSteps,
       BeforeLaunch, AfterLaunch, CompletionSteps, IterationStates
  <2>2. BundleInv'
    BY DEF TypeInv, TypeOK, BundleInv, CompletionSteps
  <2>3. ParentInv'
    BY DEF TypeInv, TypeOK, ParentInv
  <2>4. RootfsInv'
    BY <2>0 DEF TypeInv, TypeOK, RootfsInv, RunnerSteps, ValidationSteps,
       BeforeLaunch, CompletionSteps
  <2>5. RepairsOnly'
    BY DEF TypeInv, RepairsOnly
  <2> QED
    BY <2>1, <2>2, <2>3, <2>4, <2>5 DEF TypeInv
<1>8. CASE PublishRefused(p)
  <2> USE <1>8 DEF PublishRefused, At, Exit, store, run
  <2>1. PlaceInv'
    BY EndPlace
  <2> QED
    BY <2>1 DEF PlaceInv, TypeInv, TypeOK
<1>9. CASE CommitPrepared(p)
  <2> USE <1>9 DEF CommitPrepared, At, Goto, Exit, run
  <2>6. /\ session \in Sessions
        /\ att[p] \in Attempts /\ att[p] \in 0 .. MaxIterations
    BY DEF TypeInv, TypeOK
  <2>7. session' = [session EXCEPT !.n = att[p], !.stop = "none",
                     !.iter = [session.iter EXCEPT ![att[p]] = "prepared"]]
    OBVIOUS
  <2>0. session'.n = att[p] /\ session' \in Sessions
    BY ONLY <2>6, <2>7 DEF Sessions, IterationStates, StopReasons
  <2>1. TypeOK'
    BY <2>0 DEF TypeInv, TypeOK, PcLabels, LockedSteps, ValidationSteps,
       BeforeLaunch, AfterLaunch, CompletionSteps
  <2>2. BundleInv'
    BY DEF TypeInv, TypeOK, BundleInv, CompletionSteps
  <2>3. ParentInv'
    BY <2>0 DEF TypeInv, TypeOK, ParentInv
  <2>4. RootfsInv'
    BY <2>0 DEF TypeInv, TypeOK, RootfsInv, RunnerSteps, ValidationSteps,
       BeforeLaunch, CompletionSteps
  <2>5. RepairsOnly'
    BY DEF TypeInv, RepairsOnly
  <2> QED
    BY <2>1, <2>2, <2>3, <2>4, <2>5 DEF TypeInv
<1> QED
  BY <1>1, <1>2, <1>3, <1>4, <1>5, <1>6, <1>7, <1>8, <1>9

\* complete_iteration and verify keep every variable in its domain.
LEMMA CompleteTypes ==
  ASSUME ControlInv, TypeInv, NEW p \in Procs,
         \/ (\E e \in Bundles : CompleteIteration(p, e))
         \/ BundleRejected(p) \/ InstallArtifacts(p) \/ SaveObservation(p)
         \/ SaveResult(p) \/ CompleteIterJson(p) \/ CommitCompleted(p)
         \/ BeginVerify(p) \/ EndVerify(p)
  PROVE  TypeInv'
<1> USE ConstantsAssumption DEF Attempts
<1>1. CASE \E e \in Bundles : CompleteIteration(p, e)
  <2>e. PICK e \in Bundles : CompleteIteration(p, e)
    BY <1>1
  <2> USE <2>e DEF CompleteIteration, At, Goto, store, run, CanComplete
  <2>0. /\ session.n \in Attempts /\ session.n \in 1 .. session.n
        /\ e \in Evidence /\ e # None
    BY DEF TypeInv, TypeOK, Sessions
  <2>1. TypeOK'
    BY <2>0 DEF TypeInv, TypeOK, PcLabels, LockedSteps, ValidationSteps,
       BeforeLaunch, AfterLaunch, CompletionSteps
  <2>2. BundleInv'
    BY <2>0 DEF TypeInv, TypeOK, BundleInv, CompletionSteps
  <2>3. ParentInv'
    BY DEF TypeInv, TypeOK, ParentInv
  <2>4. RootfsInv'
    BY <2>0 DEF TypeInv, TypeOK, RootfsInv, RunnerSteps, ValidationSteps,
       BeforeLaunch, CompletionSteps
  <2>5. RepairsOnly'
    BY DEF TypeInv, RepairsOnly
  <2> QED
    BY <2>1, <2>2, <2>3, <2>4, <2>5 DEF TypeInv
<1>2. CASE BundleRejected(p)
  <2> USE <1>2 DEF BundleRejected, At, CompletionFails, Exit, store, run
  <2>1. PlaceInv'
    <3>1. CASE p \in runners
      BY <3>1, MovePlace DEF TypeInv, TypeOK, BundleInv, RunnerSteps,
         ValidationSteps, BeforeLaunch, CompletionSteps
    <3>2. CASE ~(p \in runners)
      BY <3>2, EndPlace
    <3> QED
      BY <3>1, <3>2
  <2> QED
    BY <2>1 DEF PlaceInv, TypeInv, TypeOK
<1>3. CASE InstallArtifacts(p)
  <2> USE <1>3 DEF InstallArtifacts, At, run
  <2>1. PlaceInv'
    BY MovePlace DEF TypeInv, TypeOK, BundleInv, RunnerSteps,
       ValidationSteps, BeforeLaunch, CompletionSteps
  <2>2. artifacts' \subseteq Attempts
    BY DEF TypeInv, TypeOK
  <2> QED
    BY <2>1, <2>2 DEF PlaceInv, TypeInv, TypeOK
<1>4. CASE SaveObservation(p)
  BY <1>4 DEF TypeInv, TypeOK, BundleInv, ParentInv, RootfsInv,
     RepairsOnly, At, Goto, PcLabels, LockedSteps, ValidationSteps,
     BeforeLaunch, AfterLaunch, CompletionSteps, RunnerSteps,
     SaveObservation, run
<1>5. CASE SaveResult(p)
  <2> USE <1>5 DEF SaveResult, At, run
  <2>1. PlaceInv'
    BY MovePlace DEF TypeInv, TypeOK, BundleInv, RunnerSteps,
       ValidationSteps, BeforeLaunch, CompletionSteps
  <2> QED
    BY <2>1 DEF PlaceInv, TypeInv, TypeOK, BundleInv, CompletionSteps,
       OutcomeOf, Results, Outcomes
<1>6. CASE CompleteIterJson(p)
  <2> USE <1>6 DEF CompleteIterJson, At, run
  <2>1. PlaceInv'
    BY MovePlace DEF TypeInv, TypeOK, BundleInv, RunnerSteps,
       ValidationSteps, BeforeLaunch, CompletionSteps
  <2> QED
    BY <2>1 DEF PlaceInv, TypeInv, TypeOK, IterationStates
<1>7. CASE CommitCompleted(p)
  <2> USE <1>7 DEF CommitCompleted, Exit, At, Goto, run
  <2> DEFINE next == ResolveTransition(OutcomeOf(ev[p]),
                                       DecideStopReason(att[p], ev[p]))
  <2>1. next[1] \in SessionStates /\ next[2] \in StopReasons
    BY DEF ResolveTransition, DecideStopReason, SessionStates, StopReasons
  <2>2. session \in Sessions /\ att[p] \in Attempts
    BY DEF TypeInv, TypeOK
  <2>3. session' = [session EXCEPT !.state = next[1], !.stop = next[2],
                     !.iter = [session.iter EXCEPT ![att[p]] = "completed"]]
    OBVIOUS
  <2>4. session'.n = session.n /\ session' \in Sessions
    <3> HIDE DEF next
    <3> QED
      BY ONLY <2>1, <2>2, <2>3 DEF Sessions, IterationStates
  <2>9. pc' \in [Procs -> PcLabels] /\ att' \in [Procs -> Attempts]
    <3>1. "done" \in PcLabels /\ "idle" \in PcLabels /\ 1 \in Attempts
      BY DEF PcLabels, AfterLaunch
    <3>2. pc \in [Procs -> PcLabels] /\ att \in [Procs -> Attempts]
      BY DEF TypeInv, TypeOK
    <3>3. CASE p \in runners
      BY <3>1, <3>2, <3>3
    <3>4. CASE p \notin runners
      BY <3>1, <3>2, <3>4
    <3> QED
      BY <3>3, <3>4
  <2>5. TypeOK'
    BY <2>4, <2>9 DEF TypeInv, TypeOK
  <2>6. BundleInv'
    BY DEF TypeInv, TypeOK, BundleInv, CompletionSteps
  <2>7. ParentInv'
    BY <2>4 DEF TypeInv, TypeOK, ParentInv
  <2>8. RootfsInv'
    <3>1. /\ \A k \in 1 .. session'.n : rootfs'[k] # None
          /\ \A k \in Attempts : script'[k] # "off" => rootfs'[k] # None
      BY <2>4 DEF TypeInv, RootfsInv
    <3>2. rootfs[att[p]] # None
      BY DEF TypeInv, RootfsInv, CompletionSteps
    <3>3. \A q \in Procs \ {p} : pc'[q] = pc[q] /\ att'[q] = att[q]
      BY DEF TypeInv, TypeOK
    <3>4. (pc'[p] = "done" /\ att'[p] = att[p]) \/ pc'[p] = "idle"
      BY DEF TypeInv, TypeOK
    <3> QED
      BY <3>1, <3>2, <3>3, <3>4 DEF TypeInv, RootfsInv, RunnerSteps,
         ValidationSteps, BeforeLaunch, CompletionSteps
  <2> QED
    BY <2>5, <2>6, <2>7, <2>8 DEF TypeInv, RepairsOnly
<1>8. CASE BeginVerify(p)
  <2> USE <1>8 DEF BeginVerify, At, Goto, store, run
  <2>1. TypeOK'
    BY DEF TypeInv, TypeOK, PcLabels, LockedSteps, ValidationSteps,
       BeforeLaunch, AfterLaunch, CompletionSteps
  <2>2. BundleInv'
    BY DEF TypeInv, TypeOK, BundleInv, CompletionSteps
  <2>3. ParentInv'
    BY DEF TypeInv, TypeOK, ParentInv
  <2>4. RootfsInv'
    BY DEF TypeInv, TypeOK, RootfsInv, RunnerSteps, ValidationSteps,
       BeforeLaunch, CompletionSteps
  <2>5. RepairsOnly'
    BY DEF TypeInv, RepairsOnly
  <2> QED
    BY <2>1, <2>2, <2>3, <2>4, <2>5 DEF TypeInv
<1>9. CASE EndVerify(p)
  <2> USE <1>9 DEF EndVerify, At, Exit, store, run
  <2>1. PlaceInv'
    BY EndPlace
  <2> QED
    BY <2>1 DEF PlaceInv, TypeInv, TypeOK
<1> QED
  BY <1>1, <1>2, <1>3, <1>4, <1>5, <1>6, <1>7, <1>8, <1>9

\* validate, and the steps of a runner that only touch its claim, keep every
\* variable in its domain.
LEMMA ClaimTypes ==
  ASSUME ControlInv, TypeInv, NEW p \in Procs,
         \/ StartRun(p) \/ CheckRootfs(p) \/ CheckClaim(p)
         \/ CreateClaim(p) \/ ClaimLost(p) \/ WriteClaim(p)
         \/ MarkValidated(p) \/ MarkPrepared(p) \/ MarkExecuting(p)
         \/ MarkPostprocessing(p) \/ MarkCompleting(p) \/ MarkCompleted(p)
         \/ RecordFailure(p)
  PROVE  TypeInv'
<1> USE ConstantsAssumption DEF Attempts
<1>1. CASE StartRun(p)
  <2> USE <1>1 DEF StartRun, At, Goto, store, run
  <2>0. session.n \in Attempts /\ session.n \in 1 .. session.n
    BY DEF TypeInv, TypeOK, Sessions, Tail
  <2>1. TypeOK'
    BY <2>0 DEF TypeInv, TypeOK, PcLabels, LockedSteps, ValidationSteps,
       BeforeLaunch, AfterLaunch, CompletionSteps
  <2>2. BundleInv'
    BY DEF TypeInv, TypeOK, BundleInv, CompletionSteps
  <2>3. ParentInv'
    BY DEF TypeInv, TypeOK, ParentInv
  <2>4. RootfsInv'
    BY <2>0 DEF TypeInv, TypeOK, RootfsInv, RunnerSteps, ValidationSteps,
       BeforeLaunch, CompletionSteps
  <2>5. RepairsOnly'
    BY DEF TypeInv, RepairsOnly
  <2> QED
    BY <2>1, <2>2, <2>3, <2>4, <2>5 DEF TypeInv
<1>2. CASE CheckRootfs(p)
  <2> USE <1>2 DEF CheckRootfs, At, Exit, store, run
  <2>1. PlaceInv'
    <3>1. CASE RootfsMatches(att[p])
      BY <3>1, MovePlace DEF TypeInv, TypeOK, BundleInv, RunnerSteps,
         ValidationSteps, BeforeLaunch, CompletionSteps
    <3>2. CASE ~(RootfsMatches(att[p]))
      BY <3>2, EndPlace
    <3> QED
      BY <3>1, <3>2
  <2> QED
    BY <2>1 DEF PlaceInv, TypeInv, TypeOK
<1>3. CASE CheckClaim(p)
  <2> USE <1>3 DEF CheckClaim, At, Exit, store, run
  <2>1. PlaceInv'
    <3>1. CASE att[p] \notin runDir /\ claim[att[p]] = None
      BY <3>1, MovePlace DEF TypeInv, TypeOK, BundleInv, RunnerSteps,
         ValidationSteps, BeforeLaunch, CompletionSteps
    <3>2. CASE ~(att[p] \notin runDir /\ claim[att[p]] = None)
      BY <3>2, EndPlace
    <3> QED
      BY <3>1, <3>2
  <2> QED
    BY <2>1 DEF PlaceInv, TypeInv, TypeOK
<1>4. CASE CreateClaim(p)
  <2> USE <1>4 DEF CreateClaim, At, store
  <2>1. PlaceInv'
    BY MovePlace DEF TypeInv, TypeOK, BundleInv, RunnerSteps,
       ValidationSteps, BeforeLaunch, CompletionSteps
  <2>2. claim' \in [Attempts -> {None} \cup Claims]
    BY DEF TypeInv, TypeOK, Claims, ClaimStages
  <2> QED
    BY <2>1, <2>2 DEF PlaceInv, TypeInv, TypeOK
<1>5. CASE ClaimLost(p)
  <2> USE <1>5 DEF ClaimLost, At, Exit, store, run
  <2>1. PlaceInv'
    BY EndPlace
  <2> QED
    BY <2>1 DEF PlaceInv, TypeInv, TypeOK
<1>6. CASE WriteClaim(p)
  <2> USE <1>6 DEF WriteClaim, At, UpdateClaim, store
  <2>1. PlaceInv'
    BY MovePlace DEF TypeInv, TypeOK, BundleInv, RunnerSteps,
       ValidationSteps, BeforeLaunch, CompletionSteps
  <2>2. claim' \in [Attempts -> {None} \cup Claims]
    BY DEF TypeInv, TypeOK, Claims, ClaimStages
  <2> QED
    BY <2>1, <2>2 DEF PlaceInv, TypeInv, TypeOK
<1>7. CASE MarkValidated(p)
  <2> USE <1>7 DEF MarkValidated, At, UpdateClaim, store
  <2>1. PlaceInv'
    BY MovePlace DEF TypeInv, TypeOK, BundleInv, RunnerSteps,
       ValidationSteps, BeforeLaunch, CompletionSteps
  <2>2. claim' \in [Attempts -> {None} \cup Claims]
    BY DEF TypeInv, TypeOK, Claims, ClaimStages
  <2> QED
    BY <2>1, <2>2 DEF PlaceInv, TypeInv, TypeOK
<1>8. CASE MarkPrepared(p)
  <2> USE <1>8 DEF MarkPrepared, At, UpdateClaim, store
  <2>1. PlaceInv'
    BY MovePlace DEF TypeInv, TypeOK, BundleInv, RunnerSteps,
       ValidationSteps, BeforeLaunch, CompletionSteps
  <2>2. claim' \in [Attempts -> {None} \cup Claims]
    BY DEF TypeInv, TypeOK, Claims, ClaimStages
  <2> QED
    BY <2>1, <2>2 DEF PlaceInv, TypeInv, TypeOK
<1>9. CASE MarkExecuting(p)
  <2> USE <1>9 DEF MarkExecuting, At, UpdateClaim, store
  <2>1. PlaceInv'
    BY MovePlace DEF TypeInv, TypeOK, BundleInv, RunnerSteps,
       ValidationSteps, BeforeLaunch, CompletionSteps
  <2>2. claim' \in [Attempts -> {None} \cup Claims]
    BY DEF TypeInv, TypeOK, Claims, ClaimStages
  <2> QED
    BY <2>1, <2>2 DEF PlaceInv, TypeInv, TypeOK
<1>10. CASE MarkPostprocessing(p)
  <2> USE <1>10 DEF MarkPostprocessing, At, UpdateClaim, store
  <2>1. PlaceInv'
    BY MovePlace DEF TypeInv, TypeOK, BundleInv, RunnerSteps,
       ValidationSteps, BeforeLaunch, CompletionSteps
  <2>2. claim' \in [Attempts -> {None} \cup Claims]
    BY DEF TypeInv, TypeOK, Claims, ClaimStages
  <2> QED
    BY <2>1, <2>2 DEF PlaceInv, TypeInv, TypeOK
<1>11. CASE MarkCompleting(p)
  <2> USE <1>11 DEF MarkCompleting, At, UpdateClaim, store
  <2>1. PlaceInv'
    BY MovePlace DEF TypeInv, TypeOK, BundleInv, RunnerSteps,
       ValidationSteps, BeforeLaunch, CompletionSteps
  <2>2. claim' \in [Attempts -> {None} \cup Claims]
    BY DEF TypeInv, TypeOK, Claims, ClaimStages
  <2> QED
    BY <2>1, <2>2 DEF PlaceInv, TypeInv, TypeOK
<1>12. CASE MarkCompleted(p)
  <2> USE <1>12 DEF MarkCompleted, At, Exit, store
  <2>1. PlaceInv'
    BY EndPlace
  <2>2. claim' \in [Attempts -> {None} \cup Claims]
    BY DEF TypeInv, TypeOK, Claims, ClaimStages
  <2> QED
    BY <2>1, <2>2 DEF PlaceInv, TypeInv, TypeOK
<1>13. CASE RecordFailure(p)
  <2> USE <1>13 DEF RecordFailure, At, Exit, store
  <2>1. PlaceInv'
    BY EndPlace
  <2>2. claim' \in [Attempts -> {None} \cup Claims]
    BY DEF TypeInv, TypeOK, Claims, ClaimStages
  <2> QED
    BY <2>1, <2>2 DEF PlaceInv, TypeInv, TypeOK
<1> QED
  BY <1>1, <1>2, <1>3, <1>4, <1>5, <1>6, <1>7, <1>8, <1>9, <1>10, <1>11,
     <1>12, <1>13

\* The other steps of a runner keep every variable in its domain.
LEMMA RunnerTypes ==
  ASSUME ControlInv, TypeInv, NEW p \in Procs,
         \/ PrepareRunDirectory(p) \/ SetUpHost(p) \/ LaunchScript(p)
         \/ ScriptReturned(p) \/ (\E e \in Bundles : Postprocess(p, e))
         \/ RunnerCompletes(p) \/ RunnerRaises(p)
  PROVE  TypeInv'
<1> USE ConstantsAssumption DEF Attempts
<1>1. CASE PrepareRunDirectory(p)
  <2> USE <1>1 DEF PrepareRunDirectory, At, store
  <2>1. PlaceInv'
    BY MovePlace DEF TypeInv, TypeOK, BundleInv, RunnerSteps,
       ValidationSteps, BeforeLaunch, CompletionSteps
  <2>2. runDir' \subseteq Attempts
    BY DEF TypeInv, TypeOK
  <2> QED
    BY <2>1, <2>2 DEF PlaceInv, TypeInv, TypeOK
<1>2. CASE SetUpHost(p)
  <2> USE <1>2 DEF SetUpHost, At, store, run
  <2>1. PlaceInv'
    BY MovePlace DEF TypeInv, TypeOK, BundleInv, RunnerSteps,
       ValidationSteps, BeforeLaunch, CompletionSteps
  <2> QED
    BY <2>1 DEF PlaceInv, TypeInv, TypeOK
<1>3. CASE LaunchScript(p)
  BY <1>3 DEF TypeInv, TypeOK, BundleInv, ParentInv, RootfsInv,
     RepairsOnly, At, Goto, PcLabels, LockedSteps, ValidationSteps,
     BeforeLaunch, AfterLaunch, CompletionSteps, RunnerSteps, LaunchScript,
     store, ScriptStates
<1>4. CASE ScriptReturned(p)
  <2> USE <1>4 DEF ScriptReturned, At, store, run
  <2>1. PlaceInv'
    BY MovePlace DEF TypeInv, TypeOK, BundleInv, RunnerSteps,
       ValidationSteps, BeforeLaunch, CompletionSteps
  <2> QED
    BY <2>1 DEF PlaceInv, TypeInv, TypeOK
<1>5. CASE \E e \in Bundles : Postprocess(p, e)
  <2>e. PICK e \in Bundles : Postprocess(p, e)
    BY <1>5
  <2> USE <2>e DEF Postprocess, At, store, run
  <2>1. PlaceInv'
    BY MovePlace DEF TypeInv, TypeOK, BundleInv, RunnerSteps,
       ValidationSteps, BeforeLaunch, CompletionSteps
  <2> QED
    BY <2>1 DEF PlaceInv, TypeInv, TypeOK
<1>6. CASE RunnerCompletes(p)
  <2> USE <1>6 DEF RunnerCompletes, At, store, run
  <2>1. PlaceInv'
    BY MovePlace DEF TypeInv, TypeOK, BundleInv, RunnerSteps,
       ValidationSteps, BeforeLaunch, CompletionSteps
  <2> QED
    BY <2>1 DEF PlaceInv, TypeInv, TypeOK
<1>7. CASE RunnerRaises(p)
  <2> USE <1>7 DEF RunnerRaises, At, store, run
  <2>1. PlaceInv'
    BY MovePlace DEF TypeInv, TypeOK, BundleInv, RunnerSteps,
       ValidationSteps, BeforeLaunch, CompletionSteps
  <2> QED
    BY <2>1 DEF PlaceInv, TypeInv, TypeOK
<1> QED
  BY <1>1, <1>2, <1>3, <1>4, <1>5, <1>6, <1>7

\* reset_safe_failure and the faults of a process keep every variable in its
\* domain.
LEMMA ResetTypes ==
  ASSUME ControlInv, TypeInv, NEW p \in Procs,
         \/ ResetSafeFailure(p) \/ ResetRunDir(p) \/ ResetClaim(p)
         \/ Crash(p) \/ IOFault(p) \/ ClaimUpdateFails(p)
  PROVE  TypeInv'
<1> USE ConstantsAssumption DEF Attempts
<1>1. CASE ResetSafeFailure(p)
  <2> USE <1>1 DEF ResetSafeFailure, At, Goto, store, run, CanReset, Tail
  <2>1. TypeOK'
    BY DEF TypeInv, TypeOK, PcLabels, LockedSteps, ValidationSteps,
       BeforeLaunch, AfterLaunch, CompletionSteps, Sessions
  <2>2. BundleInv'
    BY DEF TypeInv, TypeOK, BundleInv, CompletionSteps
  <2>3. ParentInv'
    BY DEF TypeInv, TypeOK, ParentInv
  <2>4. RootfsInv'
    BY DEF TypeInv, TypeOK, RootfsInv, RunnerSteps, ValidationSteps,
       BeforeLaunch, CompletionSteps
  <2>5. RepairsOnly'
    BY DEF TypeInv, RepairsOnly
  <2> QED
    BY <2>1, <2>2, <2>3, <2>4, <2>5 DEF TypeInv
<1>2. CASE ResetRunDir(p)
  <2> USE <1>2 DEF ResetRunDir, At, Goto, store
  <2>1. TypeOK'
    BY DEF TypeInv, TypeOK, PcLabels, LockedSteps, ValidationSteps,
       BeforeLaunch, AfterLaunch, CompletionSteps
  <2>2. BundleInv'
    BY DEF TypeInv, TypeOK, BundleInv, CompletionSteps
  <2>3. ParentInv'
    BY DEF TypeInv, TypeOK, ParentInv
  <2>4. RootfsInv'
    BY DEF TypeInv, TypeOK, RootfsInv, RunnerSteps, ValidationSteps,
       BeforeLaunch, CompletionSteps
  <2>5. RepairsOnly'
    BY DEF TypeInv, RepairsOnly
  <2> QED
    BY <2>1, <2>2, <2>3, <2>4, <2>5 DEF TypeInv
<1>3. CASE ResetClaim(p)
  <2> USE <1>3 DEF ResetClaim, At, Exit, store
  <2>1. PlaceInv'
    BY EndPlace
  <2> QED
    BY <2>1 DEF PlaceInv, TypeInv, TypeOK
<1>4. CASE Crash(p)
  <2> USE <1>4 DEF Crash, At, Exit, store, run
  <2>1. PlaceInv'
    BY EndPlace
  <2> QED
    BY <2>1 DEF PlaceInv, TypeInv, TypeOK
<1>5. CASE IOFault(p)
  <2> USE <1>5 DEF IOFault, At, CompletionFails, Exit, store, run
  <2>1. PlaceInv'
    <3>1. CASE p \in runners
      BY <3>1, MovePlace DEF TypeInv, TypeOK, BundleInv, RunnerSteps,
         ValidationSteps, BeforeLaunch, CompletionSteps, ControlInv
    <3>2. CASE ~(p \in runners)
      BY <3>2, EndPlace
    <3> QED
      BY <3>1, <3>2
  <2> QED
    BY <2>1 DEF PlaceInv, TypeInv, TypeOK
<1>6. CASE ClaimUpdateFails(p)
  <2> USE <1>6 DEF ClaimUpdateFails, At, Exit, store, run
  <2>1. PlaceInv'
    <3>1. CASE At(p, "done")
      BY <3>1, MovePlace DEF TypeInv, TypeOK, BundleInv, RunnerSteps,
         ValidationSteps, BeforeLaunch, CompletionSteps
    <3>2. CASE ~(At(p, "done"))
      BY <3>2, EndPlace
    <3> QED
      BY <3>1, <3>2
  <2> QED
    BY <2>1 DEF PlaceInv, TypeInv, TypeOK
<1> QED
  BY <1>1, <1>2, <1>3, <1>4, <1>5, <1>6

\* The sandbox script keeps every variable in its domain.
LEMMA ScriptTypes ==
  ASSUME ControlInv, TypeInv, NEW k \in Attempts,
         \/ ScriptMounts(k) \/ ScriptAborts(k) \/ WriteMarker(k)
         \/ RunGuest(k) \/ NativeSyntaxError(k) \/ RecordExit(k)
         \/ ScriptKilled(k)
  PROVE  TypeInv'
<1> USE ConstantsAssumption
<1>1. CASE ScriptMounts(k)
  BY <1>1 DEF TypeInv, TypeOK, BundleInv, ParentInv, RootfsInv,
     RepairsOnly, ScriptStates, ScriptMounts, ScriptStep, store, procs,
     Entries
<1>2. CASE ScriptAborts(k)
  BY <1>2 DEF TypeInv, TypeOK, BundleInv, ParentInv, RootfsInv,
     RepairsOnly, ScriptStates, ScriptAborts, ScriptStep, store, procs
<1>3. CASE WriteMarker(k)
  BY <1>3 DEF TypeInv, TypeOK, BundleInv, ParentInv, RootfsInv,
     RepairsOnly, ScriptStates, WriteMarker, ScriptStep, store, procs
<1>4. CASE RunGuest(k)
  BY <1>4 DEF TypeInv, TypeOK, BundleInv, ParentInv, RootfsInv,
     RepairsOnly, ScriptStates, RunGuest, ScriptStep, store, procs, Entries
<1>5. CASE NativeSyntaxError(k)
  BY <1>5 DEF TypeInv, TypeOK, BundleInv, ParentInv, RootfsInv,
     RepairsOnly, ScriptStates, NativeSyntaxError, ScriptStep, store, procs
<1>6. CASE RecordExit(k)
  BY <1>6 DEF TypeInv, TypeOK, BundleInv, ParentInv, RootfsInv,
     RepairsOnly, ScriptStates, RecordExit, ScriptStep, store, procs
<1>7. CASE ScriptKilled(k)
  BY <1>7 DEF TypeInv, TypeOK, BundleInv, ParentInv, RootfsInv,
     RepairsOnly, ScriptStates, ScriptKilled, ScriptStep, store, procs
<1> QED
  BY <1>1, <1>2, <1>3, <1>4, <1>5, <1>6, <1>7

\* Every step preserves the control invariant.
LEMMA StepControl ==
  ASSUME ControlInv, [Next]_vars
  PROVE  ControlInv'
<1>1. CASE \E p \in Procs : Start(p) \/ Step(p) \/ Crash(p) \/ IOFault(p)
                          \/ ClaimUpdateFails(p)
  <2>1. PICK p \in Procs : Start(p) \/ Step(p) \/ Crash(p) \/ IOFault(p)
                            \/ ClaimUpdateFails(p)
    BY <1>1
  <2> QED
    BY <2>1, PrepareControl, CompleteControl, ClaimControl, RunnerControl, ResetControl
    DEF Start, Step
<1>2. CASE \E k \in Attempts : Script(k) \/ ScriptKilled(k)
  BY <1>2, ScriptControl DEF Script, GuestCommand
<1>3. CASE UNCHANGED vars
  BY <1>3 DEF ControlInv, vars, procs
<1> QED
  BY <1>1, <1>2, <1>3 DEF Next, Fault

\* Every step keeps every variable in its domain.
LEMMA StepTypes ==
  ASSUME ControlInv, TypeInv, [Next]_vars
  PROVE  TypeInv'
<1>1. CASE \E p \in Procs : Start(p) \/ Step(p) \/ Crash(p) \/ IOFault(p)
                          \/ ClaimUpdateFails(p)
  <2>1. PICK p \in Procs : Start(p) \/ Step(p) \/ Crash(p) \/ IOFault(p)
                            \/ ClaimUpdateFails(p)
    BY <1>1
  <2> QED
    BY <2>1, PrepareTypes, CompleteTypes, ClaimTypes, RunnerTypes, ResetTypes
    DEF Start, Step
<1>2. CASE \E k \in Attempts : Script(k) \/ ScriptKilled(k)
  BY <1>2, ScriptTypes DEF Script, GuestCommand
<1>3. CASE UNCHANGED vars
  BY <1>3 DEF TypeInv, TypeOK, BundleInv, ParentInv, RootfsInv,
     RepairsOnly, vars, store, run, procs
<1> QED
  BY <1>1, <1>2, <1>3 DEF Next, Fault

\* Every variable stays in its domain: whatever commands, scripts and faults
\* happen, no attempt gets a result without a bundle, an environment that is not
\* a set of entries, or an index outside the budget.
THEOREM TypeCorrect == Spec => []TypeOK
<1>1. Init => ControlInv /\ TypeInv
  BY InitControl, InitTypes
<1>2. ControlInv /\ TypeInv /\ [Next]_vars => (ControlInv /\ TypeInv)'
  BY StepControl, StepTypes
<1>3. TypeInv => TypeOK
  BY DEF TypeInv
<1> QED
  BY <1>1, <1>2, <1>3, PTL DEF Spec

\* README: malware writes are never promoted into a snapshot.  The invariant
\* behind it is that manifests and plans name repairs only, and that the
\* repaired snapshot is built from the parent's manifest, not from the rootfs
\* the guest ran in.
THEOREM SnapshotsAreClean == Spec => []NoGuestWritesInSnapshots
<1>1. Init => ControlInv /\ TypeInv
  BY InitControl, InitTypes
<1>2. ControlInv /\ TypeInv /\ [Next]_vars => (ControlInv /\ TypeInv)'
  BY StepControl, StepTypes
<1>3. TypeInv => NoGuestWritesInSnapshots
  BY DEF TypeInv, RepairsOnly, NoGuestWritesInSnapshots
<1> QED
  BY <1>1, <1>2, <1>3, PTL DEF Spec

-----------------------------------------------------------------------------
(* Claims: the guest of an attempt runs at most once                       *)

\* The sandbox script of attempt k is not running.
Quiet(k) == script[k] \in {"off", "ended"}

Failed(k) == claim[k] # None /\ claim[k].stage = "failed"

\* A live runner's claim exists and is not failed, so neither reset_safe_failure
\* nor another runner touches it; before the launch its attempt is fresh.
OwnerInv ==
  /\ OneOwnerPerClaim
  /\ \A p \in Procs, k \in Attempts : Owns(p, k) =>
       /\ claim[k] # None
       /\ claim[k].stage # "failed"
       /\ pc[p] \in BeforeLaunch => executed[k] = 0
       /\ pc[p] # "wait" => Quiet(k)

\* What the claim, the marker and the script say about the guest.
GuestInv ==
  \A k \in Attempts :
    /\ claim[k] = None => executed[k] = 0 /\ Quiet(k) /\ k \notin runDir
    /\ Failed(k) => Quiet(k)
    /\ Failed(k) /\ ~claim[k].started => executed[k] = 0
    /\ script[k] \in {"setup", "mounted", "marked"} => executed[k] = 0
    /\ script[k] \in {"marked", "guest"} => k \in marker
    /\ executed[k] > 0 => k \in marker
    /\ executed[k] <= 1

\* A reset under way deals with a failed claim whose guest never ran.
ResetInv ==
  \A p \in Procs :
    /\ pc[p] \in {"reset_run_dir", "reset_claim"} =>
         Failed(att[p]) /\ executed[att[p]] = 0
    /\ pc[p] = "reset_claim" => att[p] \notin runDir

ClaimInv == OwnerInv /\ GuestInv /\ ResetInv

\* The initial state satisfies the claim invariant.
LEMMA InitClaims == Init => ClaimInv
  BY DEF Init, ClaimInv, OwnerInv, OneOwnerPerClaim, GuestInv, ResetInv, Owns,
     Quiet, Failed, BeforeLaunch, AfterLaunch, CompletionSteps

\* The other processes stay where they are.
Others(p) == \A q \in Procs \ {p} : /\ pc'[q] = pc[q]
                                    /\ att'[q] = att[q]
                                    /\ q \in runners' <=> q \in runners

\* A step of a process that touches neither claims, run directories nor scripts,
\* and does not make the process the owner of an attempt, go back before the
\* launch, or leave a running script behind.
LEMMA OutsideClaims ==
  ASSUME ClaimInv, NEW p \in Procs, Others(p),
         UNCHANGED <<claim, runDir, marker, script, executed>>,
         pc'[p] \notin {"reset_run_dir", "reset_claim"},
         \A k \in Attempts : Owns(p, k)' =>
            /\ Owns(p, k)
            /\ pc'[p] \in BeforeLaunch => pc[p] \in BeforeLaunch
            /\ pc'[p] # "wait" => pc[p] # "wait" \/ Quiet(k)
  PROVE  ClaimInv'
<1>1. \A q \in Procs, k \in Attempts : Owns(q, k)' => Owns(q, k)
  BY DEF Others, Owns
<1>2. OwnerInv'
  <2>1. OneOwnerPerClaim'
    BY <1>1 DEF ClaimInv, OwnerInv, OneOwnerPerClaim
  <2>2. ASSUME NEW q \in Procs, NEW k \in Attempts, Owns(q, k)'
        PROVE  /\ claim'[k] # None
               /\ claim'[k].stage # "failed"
               /\ pc'[q] \in BeforeLaunch => executed'[k] = 0
               /\ pc'[q] # "wait" => Quiet(k)'
    BY <1>1, <2>2 DEF ClaimInv, OwnerInv, Others, Quiet
  <2> QED
    BY <2>1, <2>2 DEF OwnerInv
<1>3. GuestInv'
  BY DEF ClaimInv, GuestInv, Quiet, Failed
<1>4. ResetInv'
  BY DEF ClaimInv, ResetInv, Failed, Others
<1> QED
  BY <1>2, <1>3, <1>4 DEF ClaimInv

\* A runner rewrites its own claim, not to "failed".
LEMMA RewriteClaim ==
  ASSUME TypeInv, ClaimInv, NEW p \in Procs, Others(p), Owns(p, att[p]),
         NEW c \in Claims, c.stage # "failed",
         claim' = [claim EXCEPT ![att[p]] = c],
         UNCHANGED <<runDir, marker, script, executed>>,
         pc'[p] \notin {"reset_run_dir", "reset_claim"},
         \A k \in Attempts : Owns(p, k)' =>
            /\ Owns(p, k)
            /\ pc'[p] \in BeforeLaunch => pc[p] \in BeforeLaunch
            /\ pc'[p] # "wait" => pc[p] # "wait"
  PROVE  ClaimInv'
<1>1. /\ att[p] \in Attempts /\ c # None
      /\ claim'[att[p]] = c
      /\ \A k \in Attempts \ {att[p]} : claim'[k] = claim[k]
  BY ConstantsAssumption DEF TypeInv, TypeOK
<1>2. \A q \in Procs, k \in Attempts : Owns(q, k)' => Owns(q, k)
  BY DEF Others, Owns
<1>3. OwnerInv'
  <2>1. OneOwnerPerClaim'
    BY <1>2 DEF ClaimInv, OwnerInv, OneOwnerPerClaim
  <2>2. ASSUME NEW q \in Procs, NEW k \in Attempts, Owns(q, k)'
        PROVE  /\ claim'[k] # None
               /\ claim'[k].stage # "failed"
               /\ pc'[q] \in BeforeLaunch => executed'[k] = 0
               /\ pc'[q] # "wait" => Quiet(k)'
    BY <1>1, <1>2, <2>2 DEF ClaimInv, OwnerInv, Others, Quiet
  <2> QED
    BY <2>1, <2>2 DEF OwnerInv
<1>4. GuestInv'
  BY <1>1 DEF ClaimInv, OwnerInv, GuestInv, Quiet, Failed
<1>5. ResetInv'
  <2>1. \A q \in Procs : pc[q] \in {"reset_run_dir", "reset_claim"} =>
           att[q] # att[p]
    BY <1>1 DEF ClaimInv, OwnerInv, ResetInv, Failed
  <2> QED
    BY <1>1, <2>1 DEF ClaimInv, ResetInv, Failed, Others, TypeInv, TypeOK
<1> QED
  BY <1>3, <1>4, <1>5 DEF ClaimInv

\* _update_claim, on the way to the launch or after it.
LEMMA RewriteStep ==
  ASSUME ControlInv, TypeInv, ClaimInv, NEW p \in Procs,
         NEW from \in BeforeLaunch \cup AfterLaunch, from \in RunnerSteps,
         NEW to \in BeforeLaunch \cup AfterLaunch,
         to \in BeforeLaunch => from \in BeforeLaunch,
         NEW stage \in ClaimStages \ {"failed"}, UpdateClaim(p, from, stage, to)
  PROVE  ClaimInv'
<1> USE DEF UpdateClaim, At, Goto
<1> DEFINE c == [stage |-> stage,
                 started |-> stage \in {"postprocessing", "completing",
                                        "completed"},
                 retrySafe |-> FALSE]
<1>1. c \in Claims /\ c.stage # "failed"
  BY DEF Claims
<1>2. claim' = [claim EXCEPT ![att[p]] = c]
  OBVIOUS
<1>3. /\ Others(p) /\ Owns(p, att[p]) /\ pc'[p] = to
      /\ \A k \in Attempts : Owns(p, k)' => Owns(p, k)
      /\ to \notin {"wait", "reset_run_dir", "reset_claim"} /\ from # "wait"
  BY DEF Others, Owns, ControlInv, TypeInv, TypeOK, BeforeLaunch, AfterLaunch,
     CompletionSteps
<1> HIDE DEF c
<1> QED
  BY <1>1, <1>2, <1>3, RewriteClaim

\* prepare_next preserves the claim invariant.
LEMMA PrepareClaims ==
  ASSUME ControlInv, TypeInv, ClaimInv, NEW p \in Procs,
         \/ PrepareNext(p) \/ BuildRepairedSnapshot(p) \/ RepairRefused(p)
         \/ SaveManifest(p) \/ ManifestImmutable(p) \/ SaveContract(p)
         \/ PublishIteration(p) \/ PublishRefused(p) \/ CommitPrepared(p)
  PROVE  ClaimInv'
<1>1. CASE PrepareNext(p)
  BY <1>1, OutsideClaims DEF ControlInv, TypeInv, TypeOK, Others, Owns,
     PrepareNext, At, Goto, store, run, RunnerSteps, ValidationSteps,
     BeforeLaunch, AfterLaunch, CompletionSteps
<1>2. CASE BuildRepairedSnapshot(p)
  BY <1>2, OutsideClaims DEF ControlInv, TypeInv, TypeOK, Others, Owns,
     BuildRepairedSnapshot, At, Goto, run, RunnerSteps, ValidationSteps,
     BeforeLaunch, AfterLaunch, CompletionSteps
<1>3. CASE RepairRefused(p)
  BY <1>3, OutsideClaims DEF ControlInv, TypeInv, TypeOK, Others, Owns,
     RepairRefused, At, Goto, Exit, store, run, RunnerSteps,
     ValidationSteps, BeforeLaunch, AfterLaunch, CompletionSteps
<1>4. CASE SaveManifest(p)
  BY <1>4, OutsideClaims DEF ControlInv, TypeInv, TypeOK, Others, Owns,
     SaveManifest, At, Goto, run, RunnerSteps, ValidationSteps,
     BeforeLaunch, AfterLaunch, CompletionSteps
<1>5. CASE ManifestImmutable(p)
  BY <1>5, OutsideClaims DEF ControlInv, TypeInv, TypeOK, Others, Owns,
     ManifestImmutable, At, Goto, Exit, store, run, RunnerSteps,
     ValidationSteps, BeforeLaunch, AfterLaunch, CompletionSteps
<1>6. CASE SaveContract(p)
  BY <1>6, OutsideClaims DEF ControlInv, TypeInv, TypeOK, Others, Owns,
     SaveContract, At, Goto, run, RunnerSteps, ValidationSteps,
     BeforeLaunch, AfterLaunch, CompletionSteps
<1>7. CASE PublishIteration(p)
  BY <1>7, OutsideClaims DEF ControlInv, TypeInv, TypeOK, Others, Owns,
     PublishIteration, At, Goto, RunnerSteps, ValidationSteps,
     BeforeLaunch, AfterLaunch, CompletionSteps
<1>8. CASE PublishRefused(p)
  BY <1>8, OutsideClaims DEF ControlInv, TypeInv, TypeOK, Others, Owns,
     PublishRefused, At, Goto, Exit, store, run, RunnerSteps,
     ValidationSteps, BeforeLaunch, AfterLaunch, CompletionSteps
<1>9. CASE CommitPrepared(p)
  BY <1>9, OutsideClaims DEF ControlInv, TypeInv, TypeOK, Others, Owns,
     CommitPrepared, At, Goto, Exit, run, RunnerSteps, ValidationSteps,
     BeforeLaunch, AfterLaunch, CompletionSteps
<1> QED
  BY <1>1, <1>2, <1>3, <1>4, <1>5, <1>6, <1>7, <1>8, <1>9

\* complete_iteration and verify preserve the claim invariant.
LEMMA CompleteClaims ==
  ASSUME ControlInv, TypeInv, ClaimInv, NEW p \in Procs,
         \/ (\E e \in Bundles : CompleteIteration(p, e))
         \/ BundleRejected(p) \/ InstallArtifacts(p) \/ SaveObservation(p)
         \/ SaveResult(p) \/ CompleteIterJson(p) \/ CommitCompleted(p)
         \/ BeginVerify(p) \/ EndVerify(p)
  PROVE  ClaimInv'
<1>1. CASE \E e \in Bundles : CompleteIteration(p, e)
  <2>e. PICK e \in Bundles : CompleteIteration(p, e)
    BY <1>1
  <2> QED
    BY <2>e, OutsideClaims DEF ControlInv, TypeInv, TypeOK, Others, Owns,
       CompleteIteration, At, Goto, store, run, RunnerSteps, ValidationSteps,
       BeforeLaunch, AfterLaunch, CompletionSteps
<1>2. CASE BundleRejected(p)
  BY <1>2, OutsideClaims DEF ControlInv, TypeInv, TypeOK, Others, Owns,
     BundleRejected, At, Goto, CompletionFails, Exit, store, run,
     RunnerSteps, ValidationSteps, BeforeLaunch, AfterLaunch,
     CompletionSteps
<1>3. CASE InstallArtifacts(p)
  BY <1>3, OutsideClaims DEF ControlInv, TypeInv, TypeOK, Others, Owns,
     InstallArtifacts, At, Goto, run, RunnerSteps, ValidationSteps,
     BeforeLaunch, AfterLaunch, CompletionSteps
<1>4. CASE SaveObservation(p)
  BY <1>4, OutsideClaims DEF ControlInv, TypeInv, TypeOK, Others, Owns,
     SaveObservation, At, Goto, run, RunnerSteps, ValidationSteps,
     BeforeLaunch, AfterLaunch, CompletionSteps
<1>5. CASE SaveResult(p)
  BY <1>5, OutsideClaims DEF ControlInv, TypeInv, TypeOK, Others, Owns,
     SaveResult, At, Goto, run, RunnerSteps, ValidationSteps, BeforeLaunch,
     AfterLaunch, CompletionSteps
<1>6. CASE CompleteIterJson(p)
  BY <1>6, OutsideClaims DEF ControlInv, TypeInv, TypeOK, Others, Owns,
     CompleteIterJson, At, Goto, run, RunnerSteps, ValidationSteps,
     BeforeLaunch, AfterLaunch, CompletionSteps
<1>7. CASE CommitCompleted(p)
  BY <1>7, OutsideClaims DEF ControlInv, TypeInv, TypeOK, Others, Owns,
     CommitCompleted, At, Goto, Exit, run, RunnerSteps, ValidationSteps,
     BeforeLaunch, AfterLaunch, CompletionSteps
<1>8. CASE BeginVerify(p)
  BY <1>8, OutsideClaims DEF ControlInv, TypeInv, TypeOK, Others, Owns,
     BeginVerify, At, Goto, store, run, RunnerSteps, ValidationSteps,
     BeforeLaunch, AfterLaunch, CompletionSteps
<1>9. CASE EndVerify(p)
  BY <1>9, OutsideClaims DEF ControlInv, TypeInv, TypeOK, Others, Owns,
     EndVerify, At, Goto, Exit, store, run, RunnerSteps, ValidationSteps,
     BeforeLaunch, AfterLaunch, CompletionSteps
<1> QED
  BY <1>1, <1>2, <1>3, <1>4, <1>5, <1>6, <1>7, <1>8, <1>9

\* validate, and the steps of a runner that only touch its claim, preserve the
\* claim invariant.
LEMMA ClaimClaims ==
  ASSUME ControlInv, TypeInv, ClaimInv, NEW p \in Procs,
         \/ StartRun(p) \/ CheckRootfs(p) \/ CheckClaim(p)
         \/ CreateClaim(p) \/ ClaimLost(p) \/ WriteClaim(p)
         \/ MarkValidated(p) \/ MarkPrepared(p) \/ MarkExecuting(p)
         \/ MarkPostprocessing(p) \/ MarkCompleting(p) \/ MarkCompleted(p)
         \/ RecordFailure(p)
  PROVE  ClaimInv'
<1>1. CASE StartRun(p)
  BY <1>1, OutsideClaims DEF ControlInv, TypeInv, TypeOK, Others, Owns,
     StartRun, At, Goto, store, run, RunnerSteps, ValidationSteps,
     BeforeLaunch, AfterLaunch, CompletionSteps
<1>2. CASE CheckRootfs(p)
  BY <1>2, OutsideClaims DEF ControlInv, TypeInv, TypeOK, Others, Owns,
     CheckRootfs, At, Goto, Exit, store, run, RunnerSteps, ValidationSteps,
     BeforeLaunch, AfterLaunch, CompletionSteps
<1>3. CASE CheckClaim(p)
  BY <1>3, OutsideClaims DEF ControlInv, TypeInv, TypeOK, Others, Owns,
     CheckClaim, At, Goto, Exit, store, run, RunnerSteps, ValidationSteps,
     BeforeLaunch, AfterLaunch, CompletionSteps
<1>4. CASE CreateClaim(p)
  <2> USE <1>4 DEF CreateClaim, At, Goto, store
  <2>1. /\ att[p] \in Attempts /\ Others(p) /\ pc'[p] = "write_claim"
        /\ att'[p] = att[p]
    BY DEF Others, TypeInv, TypeOK
  <2>2. /\ claim'[att[p]].stage = "empty"
        /\ claim'[att[p]] # None
        /\ \A k \in Attempts \ {att[p]} : claim'[k] = claim[k]
    BY <2>1, ConstantsAssumption DEF TypeInv, TypeOK, Claims, ClaimStages
  <2>3. \A q \in Procs, k \in Attempts : Owns(q, k)' =>
           (q = p /\ k = att[p]) \/ (Owns(q, k) /\ q # p /\ k # att[p])
    BY <2>1 DEF Others, Owns, ClaimInv, OwnerInv
  <2>4. executed[att[p]] = 0 /\ Quiet(att[p])
    BY <2>1 DEF ClaimInv, GuestInv
  <2>5. OneOwnerPerClaim'
    BY <2>3 DEF ClaimInv, OwnerInv, OneOwnerPerClaim
  <2>6. OwnerInv'
    BY <2>1, <2>2, <2>3, <2>4, <2>5 DEF ClaimInv, OwnerInv, Others, Quiet
  <2>7. GuestInv'
    BY <2>1, <2>2, <2>4 DEF ClaimInv, GuestInv, Quiet, Failed
  <2>8. ResetInv'
    BY <2>1, <2>2 DEF ClaimInv, ResetInv, Failed, Others, TypeInv, TypeOK
  <2> QED
    BY <2>6, <2>7, <2>8 DEF ClaimInv
<1>5. CASE ClaimLost(p)
  BY <1>5, OutsideClaims DEF ControlInv, TypeInv, TypeOK, Others, Owns,
     ClaimLost, At, Goto, Exit, store, run, RunnerSteps, ValidationSteps,
     BeforeLaunch, AfterLaunch, CompletionSteps
<1>6. CASE WriteClaim(p)
  BY <1>6, RewriteStep DEF WriteClaim, BeforeLaunch, AfterLaunch, ClaimStages,
     RunnerSteps
<1>7. CASE MarkValidated(p)
  BY <1>7, RewriteStep DEF MarkValidated, BeforeLaunch, AfterLaunch,
     ClaimStages, RunnerSteps
<1>8. CASE MarkPrepared(p)
  BY <1>8, RewriteStep DEF MarkPrepared, BeforeLaunch, AfterLaunch,
     ClaimStages, RunnerSteps
<1>9. CASE MarkExecuting(p)
  BY <1>9, RewriteStep DEF MarkExecuting, BeforeLaunch, AfterLaunch,
     ClaimStages, RunnerSteps
<1>10. CASE MarkPostprocessing(p)
  BY <1>10, RewriteStep DEF MarkPostprocessing, BeforeLaunch, AfterLaunch,
     ClaimStages, RunnerSteps
<1>11. CASE MarkCompleting(p)
  BY <1>11, RewriteStep DEF MarkCompleting, BeforeLaunch, AfterLaunch,
     ClaimStages, RunnerSteps
<1>12. CASE MarkCompleted(p)
  <2> DEFINE c == [stage |-> "completed", started |-> TRUE, retrySafe |-> FALSE]
  <2> USE <1>12 DEF MarkCompleted, Exit, At, Goto, store
  <2>1. c \in Claims /\ c.stage # "failed"
    BY DEF Claims, ClaimStages
  <2>2. /\ Others(p) /\ Owns(p, att[p]) /\ p \notin runners'
        /\ pc'[p] = "idle" /\ claim' = [claim EXCEPT ![att[p]] = c]
    BY DEF Others, Owns, ControlInv, TypeInv, TypeOK, RunnerSteps, AfterLaunch
  <2> HIDE DEF c
  <2> QED
    BY <2>1, <2>2, RewriteClaim DEF Owns
<1>13. CASE RecordFailure(p)
  <2> USE <1>13 DEF RecordFailure, Exit, At, Goto, store
  <2>1. /\ att[p] \in Attempts /\ Owns(p, att[p]) /\ Others(p)
        /\ pc'[p] = "idle" /\ p \notin runners'
    BY DEF Others, Owns, ControlInv, TypeInv, TypeOK, RunnerSteps
  <2> DEFINE c == [stage |-> "failed", started |-> att[p] \in marker,
                   retrySafe |-> att[p] \notin marker /\ RootfsMatches(att[p])]
  <2>7. c \in Claims /\ c.stage = "failed" /\ c.started = (att[p] \in marker)
    BY DEF Claims, ClaimStages, RootfsMatches
  <2>2. /\ claim'[att[p]].stage = "failed"
        /\ claim'[att[p]].started = (att[p] \in marker)
        /\ claim'[att[p]] # None
        /\ \A k \in Attempts \ {att[p]} : claim'[k] = claim[k]
    <3>1. claim' = [claim EXCEPT ![att[p]] = c]
      OBVIOUS
    <3> HIDE DEF c
    <3> QED
      BY <2>1, <2>7, <3>1, ConstantsAssumption DEF TypeInv, TypeOK
  <2>3. \A q \in Procs, k \in Attempts : Owns(q, k)' =>
           Owns(q, k) /\ q # p /\ k # att[p]
    BY <2>1 DEF Others, Owns, ClaimInv, OwnerInv, OneOwnerPerClaim
  <2>4. OwnerInv'
    BY <2>2, <2>3, <2>1 DEF ClaimInv, OwnerInv, OneOwnerPerClaim, Others, Quiet
  <2>8. ~claim'[att[p]].started => att[p] \notin marker
    BY <2>2
  <2>9. /\ Quiet(att[p])
        /\ ~claim'[att[p]].started => executed[att[p]] = 0
    BY <2>1, <2>8 DEF ClaimInv, OwnerInv, GuestInv, TypeInv, TypeOK
  <2>5. GuestInv'
    <3> SUFFICES ASSUME NEW k \in Attempts
                 PROVE  GuestInv!(k)'
      BY DEF GuestInv
    <3>1. CASE k = att[p]
      BY <2>2, <2>9, <3>1 DEF ClaimInv, GuestInv, Quiet, Failed
    <3>2. CASE k # att[p]
      BY <2>2, <3>2 DEF ClaimInv, GuestInv, Quiet, Failed
    <3> QED
      BY <3>1, <3>2
  <2>6. ResetInv'
    BY <2>1, <2>2 DEF ClaimInv, OwnerInv, ResetInv, Failed, Others, TypeInv,
       TypeOK
  <2> QED
    BY <2>4, <2>5, <2>6 DEF ClaimInv
<1> QED
  BY <1>1, <1>2, <1>3, <1>4, <1>5, <1>6, <1>7, <1>8, <1>9, <1>10, <1>11,
     <1>12, <1>13

\* The other steps of a runner preserve the claim invariant.
LEMMA RunnerClaims ==
  ASSUME ControlInv, TypeInv, ClaimInv, NEW p \in Procs,
         \/ PrepareRunDirectory(p) \/ SetUpHost(p) \/ LaunchScript(p)
         \/ ScriptReturned(p) \/ (\E e \in Bundles : Postprocess(p, e))
         \/ RunnerCompletes(p) \/ RunnerRaises(p)
  PROVE  ClaimInv'
<1>1. CASE PrepareRunDirectory(p)
  BY <1>1 DEF ControlInv, TypeInv, TypeOK, At, Goto, ClaimInv, OwnerInv,
     OneOwnerPerClaim, GuestInv, ResetInv, Owns, Quiet, Failed,
     LockedSteps, RunnerSteps, ValidationSteps, BeforeLaunch, AfterLaunch,
     CompletionSteps, PrepareRunDirectory, store
<1>2. CASE SetUpHost(p)
  BY <1>2, OutsideClaims DEF ControlInv, TypeInv, TypeOK, Others, Owns,
     SetUpHost, At, Goto, store, run, RunnerSteps, ValidationSteps,
     BeforeLaunch, AfterLaunch, CompletionSteps
<1>3. CASE LaunchScript(p)
  BY <1>3 DEF ControlInv, TypeInv, TypeOK, At, Goto, ClaimInv, OwnerInv,
     OneOwnerPerClaim, GuestInv, ResetInv, Owns, Quiet, Failed,
     LockedSteps, RunnerSteps, ValidationSteps, BeforeLaunch, AfterLaunch,
     CompletionSteps, LaunchScript, store
<1>4. CASE ScriptReturned(p)
  BY <1>4, OutsideClaims DEF ControlInv, TypeInv, TypeOK, Others, Owns,
     ScriptReturned, At, Goto, store, run, RunnerSteps, ValidationSteps,
     BeforeLaunch, AfterLaunch, CompletionSteps, Quiet
<1>5. CASE \E e \in Bundles : Postprocess(p, e)
  <2>e. PICK e \in Bundles : Postprocess(p, e)
    BY <1>5
  <2> QED
    BY <2>e, OutsideClaims DEF ControlInv, TypeInv, TypeOK, Others, Owns,
       Postprocess, At, Goto, store, run, RunnerSteps, ValidationSteps,
       BeforeLaunch, AfterLaunch, CompletionSteps
<1>6. CASE RunnerCompletes(p)
  BY <1>6, OutsideClaims DEF ControlInv, TypeInv, TypeOK, Others, Owns,
     RunnerCompletes, At, Goto, store, run, RunnerSteps, ValidationSteps,
     BeforeLaunch, AfterLaunch, CompletionSteps
<1>7. CASE RunnerRaises(p)
  BY <1>7, OutsideClaims DEF ControlInv, TypeInv, TypeOK, Others, Owns,
     RunnerRaises, At, Goto, store, run, RunnerSteps, ValidationSteps,
     BeforeLaunch, AfterLaunch, CompletionSteps
<1> QED
  BY <1>1, <1>2, <1>3, <1>4, <1>5, <1>6, <1>7

\* reset_safe_failure and the faults of a process preserve the claim
\* invariant.
LEMMA ResetClaims ==
  ASSUME ControlInv, TypeInv, ClaimInv, NEW p \in Procs,
         \/ ResetSafeFailure(p) \/ ResetRunDir(p) \/ ResetClaim(p)
         \/ Crash(p) \/ IOFault(p) \/ ClaimUpdateFails(p)
  PROVE  ClaimInv'
<1>1. CASE ResetSafeFailure(p)
  <2> USE <1>1 DEF ResetSafeFailure, CanReset, At, Goto, store, run
  <2>1. /\ session.n \in Attempts /\ Others(p) /\ p \notin runners'
        /\ pc'[p] = "reset_run_dir" /\ att'[p] = session.n
    <3>1. session.n \in Attempts
      BY ConstantsAssumption DEF TypeInv, TypeOK, Sessions, Tail, Attempts
    <3> QED
      BY <3>1 DEF Others, ControlInv, TypeInv, TypeOK, RunnerSteps,
         ValidationSteps, BeforeLaunch, CompletionSteps
  <2>2. Failed(session.n) /\ executed[session.n] = 0
    BY <2>1 DEF ClaimInv, GuestInv, Failed
  <2>3. \A q \in Procs, k \in Attempts : Owns(q, k)' => Owns(q, k) /\ q # p
    BY <2>1 DEF Others, Owns
  <2>4. OwnerInv'
    BY <2>1, <2>3 DEF ClaimInv, OwnerInv, OneOwnerPerClaim, Others, Quiet
  <2>5. GuestInv'
    BY DEF ClaimInv, GuestInv, Quiet, Failed
  <2>6. ResetInv'
    BY <2>1, <2>2 DEF ClaimInv, ResetInv, Failed, Others
  <2> QED
    BY <2>4, <2>5, <2>6 DEF ClaimInv
<1>2. CASE ResetRunDir(p)
  BY <1>2 DEF ControlInv, TypeInv, TypeOK, At, Goto, ClaimInv, OwnerInv,
     OneOwnerPerClaim, GuestInv, ResetInv, Owns, Quiet, Failed,
     LockedSteps, RunnerSteps, ValidationSteps, BeforeLaunch, AfterLaunch,
     CompletionSteps, ResetRunDir, store
<1>3. CASE ResetClaim(p)
  BY <1>3 DEF ControlInv, TypeInv, TypeOK, At, Goto, ClaimInv, OwnerInv,
     OneOwnerPerClaim, GuestInv, ResetInv, Owns, Quiet, Failed,
     LockedSteps, RunnerSteps, ValidationSteps, BeforeLaunch, AfterLaunch,
     CompletionSteps, ResetClaim, Exit, store
<1>4. CASE Crash(p)
  BY <1>4, OutsideClaims DEF ControlInv, TypeInv, TypeOK, Others, Owns, Crash,
     At, Goto, Exit, store, run, RunnerSteps, ValidationSteps,
     BeforeLaunch, AfterLaunch, CompletionSteps
<1>5. CASE IOFault(p)
  BY <1>5, OutsideClaims DEF ControlInv, TypeInv, TypeOK, Others, Owns,
     IOFault, At, Goto, CompletionFails, Exit, store, run, RunnerSteps,
     ValidationSteps, BeforeLaunch, AfterLaunch, CompletionSteps, LockedSteps
<1>6. CASE ClaimUpdateFails(p)
  BY <1>6, OutsideClaims DEF ControlInv, TypeInv, TypeOK, Others, Owns,
     ClaimUpdateFails, At, Goto, Exit, store, run, RunnerSteps,
     ValidationSteps, BeforeLaunch, AfterLaunch, CompletionSteps
<1> QED
  BY <1>1, <1>2, <1>3, <1>4, <1>5, <1>6

\* The sandbox script preserves the claim invariant.
LEMMA ScriptClaims ==
  ASSUME ControlInv, TypeInv, ClaimInv, NEW k \in Attempts,
         \/ ScriptMounts(k) \/ ScriptAborts(k) \/ WriteMarker(k)
         \/ RunGuest(k) \/ NativeSyntaxError(k) \/ RecordExit(k)
         \/ ScriptKilled(k)
  PROVE  ClaimInv'
<1>1. CASE ScriptMounts(k)
  BY <1>1 DEF TypeInv, TypeOK, ClaimInv, OwnerInv, OneOwnerPerClaim,
     GuestInv, ResetInv, Owns, Quiet, Failed, RunnerSteps, ValidationSteps,
     BeforeLaunch, AfterLaunch, CompletionSteps, ScriptMounts, ScriptStep,
     store, procs
<1>2. CASE ScriptAborts(k)
  BY <1>2 DEF TypeInv, TypeOK, ClaimInv, OwnerInv, OneOwnerPerClaim,
     GuestInv, ResetInv, Owns, Quiet, Failed, RunnerSteps, ValidationSteps,
     BeforeLaunch, AfterLaunch, CompletionSteps, ScriptAborts, ScriptStep,
     store, procs
<1>3. CASE WriteMarker(k)
  BY <1>3 DEF TypeInv, TypeOK, ClaimInv, OwnerInv, OneOwnerPerClaim,
     GuestInv, ResetInv, Owns, Quiet, Failed, RunnerSteps, ValidationSteps,
     BeforeLaunch, AfterLaunch, CompletionSteps, WriteMarker, ScriptStep,
     store, procs
<1>4. CASE RunGuest(k)
  BY <1>4 DEF TypeInv, TypeOK, ClaimInv, OwnerInv, OneOwnerPerClaim,
     GuestInv, ResetInv, Owns, Quiet, Failed, RunnerSteps, ValidationSteps,
     BeforeLaunch, AfterLaunch, CompletionSteps, RunGuest, ScriptStep,
     store, procs
<1>5. CASE NativeSyntaxError(k)
  BY <1>5 DEF TypeInv, TypeOK, ClaimInv, OwnerInv, OneOwnerPerClaim,
     GuestInv, ResetInv, Owns, Quiet, Failed, RunnerSteps, ValidationSteps,
     BeforeLaunch, AfterLaunch, CompletionSteps, NativeSyntaxError,
     ScriptStep, store, procs
<1>6. CASE RecordExit(k)
  BY <1>6 DEF TypeInv, TypeOK, ClaimInv, OwnerInv, OneOwnerPerClaim,
     GuestInv, ResetInv, Owns, Quiet, Failed, RunnerSteps, ValidationSteps,
     BeforeLaunch, AfterLaunch, CompletionSteps, RecordExit, ScriptStep,
     store, procs
<1>7. CASE ScriptKilled(k)
  BY <1>7 DEF TypeInv, TypeOK, ClaimInv, OwnerInv, OneOwnerPerClaim,
     GuestInv, ResetInv, Owns, Quiet, Failed, RunnerSteps, ValidationSteps,
     BeforeLaunch, AfterLaunch, CompletionSteps, ScriptKilled, ScriptStep,
     store, procs
<1> QED
  BY <1>1, <1>2, <1>3, <1>4, <1>5, <1>6, <1>7

\* Every step preserves the claim invariant.
LEMMA StepClaims ==
  ASSUME ControlInv, TypeInv, ClaimInv, [Next]_vars
  PROVE  ClaimInv'
<1>1. CASE \E p \in Procs : Start(p) \/ Step(p) \/ Crash(p) \/ IOFault(p)
                          \/ ClaimUpdateFails(p)
  <2>1. PICK p \in Procs : Start(p) \/ Step(p) \/ Crash(p) \/ IOFault(p)
                            \/ ClaimUpdateFails(p)
    BY <1>1
  <2> QED
    BY <2>1, PrepareClaims, CompleteClaims, ClaimClaims, RunnerClaims, ResetClaims
    DEF Start, Step
<1>2. CASE \E k \in Attempts : Script(k) \/ ScriptKilled(k)
  BY <1>2, ScriptClaims DEF Script, GuestCommand
<1>3. CASE UNCHANGED vars
  BY <1>3 DEF ClaimInv, OwnerInv, OneOwnerPerClaim, GuestInv, ResetInv,
     Owns, Quiet, Failed, vars, run, procs
<1> QED
  BY <1>1, <1>2, <1>3 DEF Next, Fault

\* The conjunction of the three invariants is inductive.
THEOREM Inductive == Spec => [](ControlInv /\ TypeInv /\ ClaimInv)
<1>1. Init => ControlInv /\ TypeInv /\ ClaimInv
  BY InitControl, InitTypes, InitClaims
<1>2. /\ ControlInv /\ TypeInv /\ ClaimInv /\ [Next]_vars
      => (ControlInv /\ TypeInv /\ ClaimInv)'
  BY StepControl, StepTypes, StepClaims
<1> QED
  BY <1>1, <1>2, PTL DEF Spec

\* "prepared rootfs must never be executed twice": whatever runners, resets,
\* crashes and orphaned scripts do, the guest of an attempt starts at most once.
THEOREM GuestRunsOnce == Spec => []GuestRunsAtMostOnce
<1>1. ClaimInv => GuestRunsAtMostOnce
  BY DEF ClaimInv, GuestInv, GuestRunsAtMostOnce
<1> QED
  BY <1>1, Inductive, PTL

\* _create_claim excludes: no two live runners ever work on one attempt.
THEOREM ClaimsExclude == Spec => []OneOwnerPerClaim
<1>1. ClaimInv => OneOwnerPerClaim
  BY DEF ClaimInv, OwnerInv
<1> QED
  BY <1>1, Inductive, PTL

\* reset_safe_failure removes run/ before the claim, so that a crash between the
\* two leaves an attempt that can be reset again: run/ never outlives its claim.
THEOREM RunDirsAreClaimed == Spec => []RunDirHasClaim
<1>1. TypeInv /\ ClaimInv => RunDirHasClaim
  BY DEF TypeInv, TypeOK, ClaimInv, GuestInv, RunDirHasClaim
<1> QED
  BY <1>1, Inductive, PTL

-----------------------------------------------------------------------------
(* The files of a session: the invariant                                   *)

\* The steps of prepare_next under the lock.
PrepareSteps == {"repair", "save_manifest", "save_contract", "publish",
                 "commit_prepared"}

\* Some process is at one of these steps.
Busy(labels) == \E p \in Procs : pc[p] \in labels

\* session.json lists the attempts 1 .. n, all but the last one completed, and
\* its state and stop reason follow from the last result.
SessionInv ==
  /\ \A k \in Attempts :
       /\ k > session.n <=> session.iter[k] = "absent"
       /\ k < session.n => session.iter[k] = "completed"
  /\ VerifyTerminalState

\* What is on record about one attempt belongs together.
RecordInv ==
  \A k \in Attempts :
    /\ k \in artifacts => k <= session.n
    /\ observation[k] # None => k \in artifacts
    /\ result[k] # None =>
         /\ k \in artifacts
         /\ observation[k] = result[k].observation
         /\ result[k].outcome = OutcomeOf(observation[k])
    /\ iterJson[k] = "completed" => result[k] # None
    /\ session.iter[k] = "completed" => iterJson[k] = "completed"
    /\ k < session.n => result[k].outcome = "repair_required"

\* Environment, contract and iteration directory come in this order, at most one
\* attempt ahead of session.json, and only after a completed attempt.
VersionInv ==
  \A k \in Attempts :
    /\ manifest[k] # None => manifest[k] \in snapshots
    /\ manifest[k] # None /\ k > 1 /\ k > session.n =>
         k = session.n + 1 /\ session.iter[session.n] = "completed"
    /\ k \in contract => manifest[k] # None /\ k <= session.n + 1
    /\ iterJson[k] # "absent" => k \in contract
    /\ k <= session.n => iterJson[k] # "absent"

\* A process inside prepare_next or complete_iteration works on the attempt its
\* guards saw, and what it has written so far is there.
HolderInv ==
  \A p \in Procs :
    /\ pc[p] \in PrepareSteps => att[p] = session.n + 1 /\ CanPrepare
    /\ pc[p] = "save_manifest" => RepairedSnapshot(att[p] - 1) \in snapshots
    /\ pc[p] \in {"publish", "commit_prepared"} => att[p] \in contract
    /\ pc[p] = "commit_prepared" => iterJson[att[p]] = "prepared"
    /\ pc[p] \in CompletionSteps => /\ att[p] = session.n
                                    /\ session.state = "active"
                                    /\ session.iter[att[p]] = "prepared"
    /\ pc[p] = "install_artifacts" => att[p] \notin artifacts
    /\ pc[p] \in {"save_observation", "save_result"} =>
         att[p] \in artifacts /\ result[att[p]] = None
    /\ pc[p] \in {"save_result", "complete_iter_json", "commit_completed"} =>
         observation[att[p]] = ev[p]
    /\ pc[p] \in {"complete_iter_json", "commit_completed"} =>
         result[att[p]] = [outcome |-> OutcomeOf(ev[p]), observation |-> ev[p]]
    /\ pc[p] = "commit_completed" => iterJson[att[p]] = "completed"

\* Without a fault, files ahead of session.json have a process at work on them.
TidyInv ==
  faults = 0 => \A k \in Attempts :
    /\ manifest[k] # None /\ k > 1 /\ k > session.n =>
         Busy({"save_contract", "publish", "commit_prepared"})
    /\ k \in contract /\ k > session.n => Busy({"publish", "commit_prepared"})
    /\ iterJson[k] # session.iter[k] =>
         Busy({"commit_prepared", "commit_completed"})
    /\ result[k] # None /\ session.iter[k] # "completed" =>
         Busy({"complete_iter_json", "commit_completed"})

HistoryInv == /\ SessionInv /\ RecordInv /\ VersionInv /\ EnvironmentLineage
              /\ HolderInv /\ TidyInv

\* The rootfs an attempt runs in is the manifest's until its script touches it,
\* and an attempt without a claim has an untouched rootfs.
FreshInv ==
  /\ \A k \in Attempts :
       /\ iterJson[k] = "absent" <=> rootfs[k] = None
       /\ claim[k] # None => rootfs[k] # None
       /\ claim[k] = None /\ rootfs[k] # None => RootfsMatches(k)
       /\ script[k] = "setup" => RootfsMatches(k)
       /\ script[k] \in {"mounted", "marked"} =>
            rootfs[k] = manifest[k] \cup
                          IF Backend = "qemu" THEN {QemuMount} ELSE {}
  /\ \A p \in Procs :
       /\ p \in runners /\ pc[p] \in BeforeLaunch => RootfsMatches(att[p])
       /\ pc[p] \in {"reset_run_dir", "reset_claim"} => RootfsMatches(att[p])

\* Initially there is a session without attempts, over the seed.
LEMMA InitHistory == Init => HistoryInv /\ FreshInv /\ NoOrphanClaim
<1> SUFFICES ASSUME Init
             PROVE  HistoryInv /\ FreshInv /\ NoOrphanClaim
  OBVIOUS
<1> USE ConstantsAssumption DEF Init, Attempts
<1>1. SessionInv
  BY DEF SessionInv, VerifyTerminalState, Tail
<1>2. RecordInv
  BY DEF RecordInv
<1>3. VersionInv
  BY DEF VersionInv, Seed
<1>4. EnvironmentLineage
  BY DEF EnvironmentLineage
<1>5. HolderInv
  BY DEF HolderInv, PrepareSteps, CompletionSteps
<1>6. TidyInv
  BY DEF TidyInv
<1>7. FreshInv
  BY DEF FreshInv, BeforeLaunch
<1>8. NoOrphanClaim
  BY DEF NoOrphanClaim
<1> QED
  BY <1>1, <1>2, <1>3, <1>4, <1>5, <1>6, <1>7, <1>8 DEF HistoryInv

-----------------------------------------------------------------------------
(* Steps that leave the files of the session alone                         *)

\* The fields of session.json, and the attempts in hand.
LEMMA Fields ==
  ASSUME TypeInv
  PROVE  /\ session.n \in Nat /\ MaxIterations \in Nat
         /\ session.n <= MaxIterations
         /\ session = [state |-> session.state, stop |-> session.stop,
                       n |-> session.n, iter |-> session.iter]
         /\ session.iter \in [Attempts -> IterationStates]
         /\ \A p \in Procs : att[p] \in Nat /\ att[p] \in Attempts
         /\ \A k \in Attempts : k \in Nat /\ k > 0 /\ k <= MaxIterations
         /\ \A k \in Nat : k > 0 /\ k <= MaxIterations => k \in Attempts
<1>1. session \in Sessions /\ att \in [Procs -> Attempts]
  BY DEF TypeInv, TypeOK
<1>2. MaxIterations \in Nat
  BY ConstantsAssumption
<1>3. /\ session.n \in 0 .. MaxIterations
      /\ session.iter \in [Attempts -> IterationStates]
      /\ session = [state |-> session.state, stop |-> session.stop,
                    n |-> session.n, iter |-> session.iter]
  BY <1>1 DEF Sessions
<1> QED
  BY <1>1, <1>2, <1>3 DEF Attempts

\* The lock admits one process to the locked sections.
LEMMA AloneInside ==
  ASSUME ControlInv, NEW p \in Procs, pc[p] \in LockedSteps
  PROVE  \A q \in Procs : pc[q] \in LockedSteps => q = p
  BY DEF ControlInv

\* While the lock is free nobody is in a locked section.
LEMMA NobodyInside ==
  ASSUME ControlInv, lock = NoProc
  PROVE  \A q \in Procs : pc[q] \notin LockedSteps
  BY NoProcAssumption DEF ControlInv

\* The steps whose files session.json does not know of yet.
Unsettled == {"save_contract", "publish", "commit_prepared",
              "complete_iter_json", "commit_completed"}

\* Nothing on record changes, nobody enters a locked section or moves in it, and
\* nobody leaves unsettled files behind but by a fault.
LEMMA RecordsUntouched ==
  ASSUME HistoryInv, UNCHANGED store,
         \A q \in Procs : pc'[q] \in PrepareSteps \cup CompletionSteps =>
            pc'[q] = pc[q] /\ att'[q] = att[q] /\ ev'[q] = ev[q],
         faults' = 0 => faults = 0,
         faults' = 0 => \A q \in Procs : pc[q] \in Unsettled => pc'[q] = pc[q]
  PROVE  HistoryInv'
<1> USE DEF store
<1>1. SessionInv'
  BY DEF HistoryInv, SessionInv, VerifyTerminalState, Tail, DecideStopReason,
     SeenBefore, StateFingerprint
<1>2. RecordInv'
  BY DEF HistoryInv, RecordInv
<1>3. VersionInv'
  BY DEF HistoryInv, VersionInv
<1>4. EnvironmentLineage'
  BY DEF HistoryInv, EnvironmentLineage
<1>5. HolderInv'
  <2>1. CanPrepare' = CanPrepare
    BY DEF CanPrepare, Tail
  <2> QED
    BY <2>1 DEF HistoryInv, HolderInv, RepairedSnapshot, PrepareSteps,
       CompletionSteps
<1>6. TidyInv'
  BY DEF HistoryInv, TidyInv, Busy, Unsettled
<1> QED
  BY <1>1, <1>2, <1>3, <1>4, <1>5, <1>6 DEF HistoryInv

\* Refusals, verify and rejected bundles leave the session as it is.
LEMMA RefuseHistory ==
  ASSUME ControlInv, TypeInv, HistoryInv, NEW p \in Procs,
         \/ RepairRefused(p) \/ BundleRejected(p) \/ BeginVerify(p)
         \/ EndVerify(p)
  PROVE  HistoryInv'
<1> USE ConstantsAssumption
    DEF ControlInv, TypeInv, TypeOK, PrepareSteps, CompletionSteps, LockedSteps,
        RunnerSteps, ValidationSteps, BeforeLaunch, Unsettled, At, Goto
<1>1. CASE RepairRefused(p)
  BY <1>1, RecordsUntouched DEF RepairRefused, Exit, run
<1>2. CASE BundleRejected(p)
  BY <1>2, RecordsUntouched DEF BundleRejected, CompletionFails, Exit, run
<1>3. CASE BeginVerify(p)
  BY <1>3, RecordsUntouched DEF BeginVerify, run
<1>4. CASE EndVerify(p)
  BY <1>4, RecordsUntouched DEF EndVerify, Exit, run
<1> QED
  BY <1>1, <1>2, <1>3, <1>4

\* validate and run_and_complete touch nothing of the session until they call
\* complete_iteration.
LEMMA RunHistory ==
  ASSUME ControlInv, TypeInv, HistoryInv, NEW p \in Procs,
         \/ StartRun(p) \/ CheckRootfs(p) \/ CheckClaim(p) \/ CreateClaim(p)
         \/ ClaimLost(p) \/ WriteClaim(p) \/ MarkValidated(p)
         \/ PrepareRunDirectory(p) \/ MarkPrepared(p) \/ SetUpHost(p)
         \/ MarkExecuting(p) \/ LaunchScript(p) \/ ScriptReturned(p)
         \/ MarkPostprocessing(p) \/ MarkCompleting(p) \/ MarkCompleted(p)
         \/ RunnerRaises(p) \/ RecordFailure(p)
         \/ \E e \in Bundles : Postprocess(p, e)
  PROVE  HistoryInv'
<1> USE ConstantsAssumption
    DEF ControlInv, TypeInv, TypeOK, PrepareSteps, CompletionSteps, LockedSteps,
        RunnerSteps, ValidationSteps, BeforeLaunch, Unsettled, At, Goto
<1>1. CASE StartRun(p)
  BY <1>1, RecordsUntouched DEF StartRun, run
<1>2. CASE CheckRootfs(p)
  BY <1>2, RecordsUntouched DEF CheckRootfs, Exit, run
<1>3. CASE CheckClaim(p)
  BY <1>3, RecordsUntouched DEF CheckClaim, Exit, run
<1>4. CASE CreateClaim(p)
  BY <1>4, RecordsUntouched DEF CreateClaim
<1>5. CASE ClaimLost(p)
  BY <1>5, RecordsUntouched DEF ClaimLost, Exit, run
<1>6. CASE WriteClaim(p)
  BY <1>6, RecordsUntouched DEF WriteClaim, UpdateClaim
<1>7. CASE MarkValidated(p)
  BY <1>7, RecordsUntouched DEF MarkValidated, UpdateClaim
<1>8. CASE PrepareRunDirectory(p)
  BY <1>8, RecordsUntouched DEF PrepareRunDirectory
<1>9. CASE MarkPrepared(p)
  BY <1>9, RecordsUntouched DEF MarkPrepared, UpdateClaim
<1>10. CASE SetUpHost(p)
  BY <1>10, RecordsUntouched DEF SetUpHost, run
<1>11. CASE MarkExecuting(p)
  BY <1>11, RecordsUntouched DEF MarkExecuting, UpdateClaim
<1>12. CASE LaunchScript(p)
  BY <1>12, RecordsUntouched DEF LaunchScript
<1>13. CASE ScriptReturned(p)
  BY <1>13, RecordsUntouched DEF ScriptReturned, run
<1>14. CASE MarkPostprocessing(p)
  BY <1>14, RecordsUntouched DEF MarkPostprocessing, UpdateClaim
<1>15. CASE MarkCompleting(p)
  BY <1>15, RecordsUntouched DEF MarkCompleting, UpdateClaim
<1>16. CASE MarkCompleted(p)
  BY <1>16, RecordsUntouched DEF MarkCompleted, Exit
<1>17. CASE RunnerRaises(p)
  BY <1>17, RecordsUntouched DEF RunnerRaises, run
<1>18. CASE RecordFailure(p)
  BY <1>18, RecordsUntouched DEF RecordFailure, Exit
<1>19. CASE \E e \in Bundles : Postprocess(p, e)
  BY <1>19, RecordsUntouched DEF Postprocess, run
<1> QED
  BY <1>1, <1>2, <1>3, <1>4, <1>5, <1>6, <1>7, <1>8, <1>9, <1>10, <1>11,
     <1>12, <1>13, <1>14, <1>15, <1>16, <1>17, <1>18, <1>19

\* reset_safe_failure and faults leave the session as it is.
LEMMA ResetHistory ==
  ASSUME ControlInv, TypeInv, HistoryInv, NEW p \in Procs,
         \/ ResetSafeFailure(p) \/ ResetRunDir(p) \/ ResetClaim(p)
         \/ Crash(p) \/ IOFault(p) \/ ClaimUpdateFails(p)
  PROVE  HistoryInv'
<1> USE ConstantsAssumption
    DEF ControlInv, TypeInv, TypeOK, PrepareSteps, CompletionSteps, LockedSteps,
        RunnerSteps, ValidationSteps, BeforeLaunch, Unsettled, At, Goto
<1>1. CASE ResetSafeFailure(p)
  BY <1>1, RecordsUntouched DEF ResetSafeFailure, run
<1>2. CASE ResetRunDir(p)
  BY <1>2, RecordsUntouched DEF ResetRunDir
<1>3. CASE ResetClaim(p)
  BY <1>3, RecordsUntouched DEF ResetClaim, Exit
<1>4. CASE Crash(p)
  BY <1>4, RecordsUntouched DEF Crash, Exit, run
<1>5. CASE IOFault(p)
  BY <1>5, RecordsUntouched DEF IOFault, CompletionFails, Exit, run
<1>6. CASE ClaimUpdateFails(p)
  BY <1>6, RecordsUntouched DEF ClaimUpdateFails, Exit, run
<1> QED
  BY <1>1, <1>2, <1>3, <1>4, <1>5, <1>6

\* A second version of an environment or iteration directory is refused; that
\* happens only after a fault.
LEMMA ConflictHistory ==
  ASSUME ControlInv, TypeInv, HistoryInv, NEW p \in Procs,
         ManifestImmutable(p) \/ PublishRefused(p)
  PROVE  HistoryInv'
<1> USE ConstantsAssumption
    DEF ControlInv, TypeInv, TypeOK, PrepareSteps, CompletionSteps, LockedSteps,
        RunnerSteps, ValidationSteps, BeforeLaunch, Unsettled, At, Goto
<1>1. CASE ManifestImmutable(p)
  BY <1>1, RecordsUntouched DEF ManifestImmutable, Exit, run
<1>2. CASE PublishRefused(p)
  <2>1. att[p] \in Attempts /\ att[p] = session.n + 1 /\ session.n \in Nat
    BY <1>2, Fields DEF PublishRefused, HistoryInv, HolderInv
  <2>2. session.iter[att[p]] = "absent"
    BY <2>1 DEF HistoryInv, SessionInv
  <2>3. ~Busy({"commit_prepared", "commit_completed"})
    BY <1>2 DEF PublishRefused, Busy
  <2>4. faults # 0
    BY <1>2, <2>1, <2>2, <2>3 DEF PublishRefused, HistoryInv, TidyInv
  <2> QED
    BY <1>2, <2>4, RecordsUntouched DEF PublishRefused, Exit, run
<1> QED
  BY <1>1, <1>2

\* The sandbox script touches nothing of the session.
LEMMA ScriptHistory ==
  ASSUME TypeInv, HistoryInv, NEW k \in Attempts, Script(k) \/ ScriptKilled(k)
  PROVE  HistoryInv'
<1>1. UNCHANGED <<store, procs>> /\ (faults' = 0 => faults = 0)
  <2>1. CASE ScriptKilled(k)
    BY <2>1, ConstantsAssumption DEF ScriptKilled, TypeInv, TypeOK
  <2>2. CASE Script(k)
    BY <2>2 DEF Script, ScriptMounts, ScriptAborts, WriteMarker, GuestCommand,
       NativeSyntaxError, RunGuest, RecordExit
  <2> QED
    BY <2>1, <2>2
<1> QED
  BY <1>1, RecordsUntouched DEF procs

-----------------------------------------------------------------------------
(* prepare_next                                                            *)

\* The state and stop reason that follow from the records of the listed attempts
\* stay the same as long as those records do.
LEMMA SameVerdict ==
  ASSUME TypeInv, HistoryInv, session' = session,
         \A k \in Attempts : k <= session.n => manifest'[k] = manifest[k],
         Tail = "completed" =>
           \A k \in Attempts : k <= session.n =>
              observation'[k] = observation[k] /\ result'[k] = result[k]
  PROVE  SessionInv'
<1>1. VerifyTerminalState'
  <2>1. Tail' = Tail
    BY DEF Tail
  <2>2. CASE Tail # "completed"
    BY <2>1, <2>2 DEF HistoryInv, SessionInv, VerifyTerminalState
  <2>3. CASE Tail = "completed"
    <3> DEFINE n == session.n
               e == observation[n]
    <3>1. n \in Attempts /\ n \in Nat
      BY <2>3, Fields DEF Tail
    <3>2. observation'[n] = e /\ result'[n] = result[n]
      BY <2>3, <3>1
    <3>3. /\ n' = n /\ manifest'[n] = manifest[n] /\ e' = e
          /\ \A i \in Attempts : i <= n => /\ manifest'[i] = manifest[i]
                                           /\ observation'[i] = observation[i]
      BY <2>3, <3>1, <3>2
    <3>4. \A i \in {n - 1} \cap Attempts : i \in Attempts /\ i <= n
      BY <3>1, Fields
    <3>5. \A i \in 1 .. n - 2 : i \in Attempts /\ i <= n
      BY <3>1, Fields
    <3>6. /\ SeenBefore(n, e, {n - 1} \cap Attempts)'
               <=> SeenBefore(n, e, {n - 1} \cap Attempts)
          /\ SeenBefore(n, e, 1 .. n - 2)' <=> SeenBefore(n, e, 1 .. n - 2)
      <4> HIDE DEF n, e
      <4> QED
        BY <3>3, <3>4, <3>5 DEF SeenBefore, StateFingerprint
    <3>7. DecideStopReason(n, e)' = DecideStopReason(n, e)
      BY <3>2, <3>6 DEF DecideStopReason
    <3> QED
      BY <2>1, <2>3, <3>2, <3>7
      DEF HistoryInv, SessionInv, VerifyTerminalState, ResolveTransition
  <2> QED
    BY <2>2, <2>3
<1> QED
  BY <1>1 DEF HistoryInv, SessionInv

\* prepare_next starts: its guards have seen the last attempt completed.
LEMMA PrepareNextHistory ==
  ASSUME ControlInv, TypeInv, HistoryInv, NEW p \in Procs, PrepareNext(p)
  PROVE  HistoryInv'
<1> USE DEF PrepareNext, At, Goto, store, run
<1>1. \A q \in Procs : pc[q] \notin LockedSteps
  BY NobodyInside
<1>2. /\ pc'[p] \in {"save_contract", "repair"} /\ att'[p] = session.n + 1
      /\ \A q \in Procs \ {p} : pc'[q] = pc[q] /\ att'[q] = att[q]
  BY DEF TypeInv, TypeOK
<1>3. SessionInv'
  BY SameVerdict
<1>4. RecordInv' /\ VersionInv' /\ EnvironmentLineage'
  BY DEF HistoryInv, RecordInv, VersionInv, EnvironmentLineage
<1>5. HolderInv'
  <2>1. CanPrepare'
    BY DEF CanPrepare, Tail
  <2> QED
    BY <1>1, <1>2, <2>1 DEF HolderInv, PrepareSteps, CompletionSteps, LockedSteps
<1>6. TidyInv'
  BY <1>1 DEF HistoryInv, TidyInv, Busy, LockedSteps
<1> QED
  BY <1>3, <1>4, <1>5, <1>6 DEF HistoryInv

\* The repaired snapshot is captured.
LEMMA RepairHistory ==
  ASSUME ControlInv, TypeInv, HistoryInv, NEW p \in Procs,
         BuildRepairedSnapshot(p)
  PROVE  HistoryInv'
<1> USE DEF BuildRepairedSnapshot, At, Goto, run
<1>1. \A q \in Procs \ {p} : pc[q] \notin LockedSteps
  BY AloneInside DEF LockedSteps
<1>2. /\ pc[p] = "repair" /\ pc'[p] = "save_manifest"
      /\ \A q \in Procs \ {p} : pc'[q] = pc[q]
  BY DEF TypeInv, TypeOK
<1>3. SessionInv'
  BY SameVerdict
<1>4. RecordInv' /\ VersionInv' /\ EnvironmentLineage'
  BY DEF HistoryInv, RecordInv, VersionInv, EnvironmentLineage
<1>5. HolderInv'
  <2>1. CanPrepare' /\ att[p] = session.n + 1
    BY <1>2 DEF HistoryInv, HolderInv, PrepareSteps, CanPrepare, Tail
  <2>2. RepairedSnapshot(att[p] - 1)' \in snapshots'
    BY DEF RepairedSnapshot
  <2> QED
    BY <1>1, <1>2, <2>1, <2>2 DEF HolderInv, PrepareSteps, CompletionSteps,
       LockedSteps
<1>6. TidyInv'
  BY <1>1, <1>2 DEF HistoryInv, TidyInv, Busy, LockedSteps
<1> QED
  BY <1>3, <1>4, <1>5, <1>6 DEF HistoryInv

\* The environment of the next attempt is saved: its parent's plus its repairs.
LEMMA ManifestHistory ==
  ASSUME ControlInv, TypeInv, HistoryInv, NEW p \in Procs, SaveManifest(p)
  PROVE  HistoryInv'
<1> USE DEF SaveManifest, At, Goto, run
<1> DEFINE k == att[p]
<1>1. \A q \in Procs \ {p} : pc[q] \notin LockedSteps
  BY AloneInside DEF LockedSteps
<1>2. /\ pc[p] = "save_manifest" /\ pc'[p] = "save_contract"
      /\ \A q \in Procs \ {p} : pc'[q] = pc[q]
  BY DEF TypeInv, TypeOK
<1>3. /\ k \in Attempts /\ k = session.n + 1 /\ k > 1 /\ session.n \in Nat
      /\ session.n \in Attempts /\ k - 1 = session.n
  <2>1. k = session.n + 1
    BY <1>2 DEF HistoryInv, HolderInv, PrepareSteps
  <2>2. k > 1
    BY <1>2 DEF TypeInv, ParentInv
  <2> QED
    BY <2>1, <2>2, Fields
<1>4. CanPrepare /\ RepairedSnapshot(k - 1) \in snapshots
  BY <1>2 DEF HistoryInv, HolderInv, PrepareSteps
<1>5. session.iter[session.n] = "completed"
  BY <1>3, <1>4, Fields
  DEF CanPrepare, Tail, HistoryInv, SessionInv, IterationStates
<1>6. /\ manifest'[k] = RepairedSnapshot(k - 1)
      /\ \A j \in Attempts \ {k} : manifest'[j] = manifest[j]
  BY <1>3 DEF TypeInv, TypeOK
<1>7. SessionInv'
  BY <1>3, <1>6, SameVerdict
<1>8. RecordInv'
  BY DEF HistoryInv, RecordInv
<1>9. VersionInv'
  BY <1>3, <1>4, <1>5, <1>6 DEF HistoryInv, VersionInv
<1>10. EnvironmentLineage'
  <2>1. /\ result[k - 1] # None /\ result[k - 1].outcome = "repair_required"
        /\ manifest'[k] = manifest[k - 1] \cup observation[k - 1].plan
    BY <1>3, <1>4, <1>6 DEF CanPrepare, RepairedSnapshot
  <2>2. manifest[k + 1] = None \/ k + 1 \notin Attempts
    BY <1>3, Fields DEF HistoryInv, VersionInv
  <2>3. ASSUME NEW j \in Attempts \ {1}, manifest'[j] # None
        PROVE  /\ result'[j - 1] # None
               /\ result'[j - 1].outcome = "repair_required"
               /\ manifest'[j] = manifest'[j - 1] \cup observation'[j - 1].plan
    <3>1. CASE j = k
      BY <2>1, <3>1, <1>3, <1>6
    <3>2. CASE j # k
      <4>1. manifest[j] # None /\ manifest'[j] = manifest[j] /\ j # k + 1
        BY <2>2, <2>3, <3>2, <1>6
      <4>2. j - 1 \in Attempts \ {k}
        BY <4>1, <1>3, Fields
      <4> QED
        BY <4>1, <4>2, <1>6 DEF HistoryInv, EnvironmentLineage
    <3> QED
      BY <3>1, <3>2
  <2> QED
    BY <2>3 DEF EnvironmentLineage
<1>11. HolderInv'
  <2>1. CanPrepare'
    BY <1>4 DEF CanPrepare, Tail
  <2> QED
    BY <1>1, <1>2, <1>3, <2>1 DEF HolderInv, PrepareSteps, CompletionSteps,
       LockedSteps
<1>12. TidyInv'
  BY <1>1, <1>2, <1>6 DEF HistoryInv, TidyInv, Busy, LockedSteps
<1> QED
  BY <1>7, <1>8, <1>9, <1>10, <1>11, <1>12 DEF HistoryInv

\* The contract of the next attempt is saved.
LEMMA ContractHistory ==
  ASSUME ControlInv, TypeInv, HistoryInv, NEW p \in Procs, SaveContract(p)
  PROVE  HistoryInv'
<1> USE DEF SaveContract, At, Goto, run
<1> DEFINE k == att[p]
<1>1. \A q \in Procs \ {p} : pc[q] \notin LockedSteps
  BY AloneInside DEF LockedSteps
<1>2. /\ pc[p] = "save_contract" /\ pc'[p] = "publish"
      /\ \A q \in Procs \ {p} : pc'[q] = pc[q]
  BY DEF TypeInv, TypeOK
<1>3. k = session.n + 1 /\ CanPrepare
  BY <1>2 DEF HistoryInv, HolderInv, PrepareSteps
<1>4. manifest[k] # None
  <2>1. k \in 1 .. k
    BY Fields
  <2> QED
    BY <1>2, <2>1 DEF TypeInv, ParentInv
<1>5. SessionInv'
  BY SameVerdict
<1>6. RecordInv' /\ EnvironmentLineage'
  BY DEF HistoryInv, RecordInv, EnvironmentLineage
<1>7. VersionInv'
  BY <1>3, <1>4, Fields DEF HistoryInv, VersionInv
<1>8. HolderInv'
  <2>1. CanPrepare'
    BY <1>3 DEF CanPrepare, Tail
  <2> QED
    BY <1>1, <1>2, <1>3, <2>1 DEF HolderInv, PrepareSteps, CompletionSteps,
       LockedSteps
<1>9. TidyInv'
  BY <1>1, <1>2 DEF HistoryInv, TidyInv, Busy, LockedSteps
<1> QED
  BY <1>5, <1>6, <1>7, <1>8, <1>9 DEF HistoryInv

\* The iteration directory appears.
LEMMA PublishHistory ==
  ASSUME ControlInv, TypeInv, HistoryInv, NEW p \in Procs, PublishIteration(p)
  PROVE  HistoryInv'
<1> USE DEF PublishIteration, At, Goto
<1> DEFINE k == att[p]
<1>1. \A q \in Procs \ {p} : pc[q] \notin LockedSteps
  BY AloneInside DEF LockedSteps
<1>2. /\ pc[p] = "publish" /\ pc'[p] = "commit_prepared"
      /\ \A q \in Procs \ {p} : pc'[q] = pc[q]
  BY DEF TypeInv, TypeOK
<1>3. k = session.n + 1 /\ CanPrepare /\ k \in contract
  BY <1>2 DEF HistoryInv, HolderInv, PrepareSteps
<1>4. /\ iterJson[k] = "absent" /\ iterJson'[k] = "prepared"
      /\ \A j \in Attempts \ {k} : iterJson'[j] = iterJson[j]
  BY DEF TypeInv, TypeOK
<1>5. SessionInv'
  BY SameVerdict
<1>6. EnvironmentLineage'
  BY DEF HistoryInv, EnvironmentLineage
<1>7. RecordInv'
  BY <1>4 DEF HistoryInv, RecordInv
<1>8. VersionInv'
  BY <1>3, <1>4 DEF HistoryInv, VersionInv
<1>9. HolderInv'
  <2>1. CanPrepare'
    BY <1>3 DEF CanPrepare, Tail
  <2> QED
    BY <1>1, <1>2, <1>3, <1>4, <2>1 DEF HolderInv, PrepareSteps,
       CompletionSteps, LockedSteps
<1>10. TidyInv'
  BY <1>1, <1>2, <1>4 DEF HistoryInv, TidyInv, Busy, LockedSteps
<1> QED
  BY <1>5, <1>6, <1>7, <1>8, <1>9, <1>10 DEF HistoryInv

\* session.json lists the new attempt.
LEMMA CommitPreparedHistory ==
  ASSUME ControlInv, TypeInv, HistoryInv, NEW p \in Procs, CommitPrepared(p)
  PROVE  HistoryInv'
<1> USE DEF CommitPrepared, At, Goto, Exit, run
<1> DEFINE k == att[p]
<1>1. \A q \in Procs \ {p} : pc[q] \notin LockedSteps
  BY AloneInside DEF LockedSteps
<1>2. /\ pc[p] = "commit_prepared" /\ pc'[p] = "idle"
      /\ \A q \in Procs \ {p} : pc'[q] = pc[q]
  BY DEF TypeInv, TypeOK
<1>3. /\ k = session.n + 1 /\ CanPrepare /\ k \in contract
      /\ iterJson[k] = "prepared"
  BY <1>2 DEF HistoryInv, HolderInv, PrepareSteps
<1>4. k \in Attempts /\ session.n \in Nat
  BY Fields
<1>5. /\ session'.state = "active" /\ session'.stop = "none" /\ session'.n = k
      /\ session'.iter[k] = "prepared"
      /\ \A j \in Attempts \ {k} : session'.iter[j] = session.iter[j]
  BY <1>3, <1>4, Fields DEF CanPrepare
<1>6. \A j \in Attempts : j < k => session.iter[j] = "completed"
  BY <1>3, <1>4, Fields
  DEF CanPrepare, Tail, HistoryInv, SessionInv, IterationStates
<1>7. SessionInv'
  <2>1. VerifyTerminalState'
    BY <1>3, <1>4, <1>5 DEF VerifyTerminalState, Tail
  <2>2. \A j \in Attempts : /\ j > k <=> session'.iter[j] = "absent"
                            /\ j < k => session'.iter[j] = "completed"
    BY <1>3, <1>4, <1>5, <1>6, Fields DEF HistoryInv, SessionInv
  <2> QED
    BY <1>5, <2>1, <2>2 DEF SessionInv
<1>8. EnvironmentLineage'
  BY DEF HistoryInv, EnvironmentLineage
<1>9. RecordInv'
  <2>1. \A j \in Attempts : j < k => result[j].outcome = "repair_required"
    BY <1>3, <1>4, Fields DEF HistoryInv, RecordInv, CanPrepare
  <2> QED
    BY <1>3, <1>4, <1>5, <2>1, Fields DEF HistoryInv, RecordInv
<1>10. VersionInv'
  BY <1>3, <1>4, <1>5, Fields DEF HistoryInv, VersionInv
<1>11. HolderInv'
  BY <1>1, <1>2 DEF HolderInv, PrepareSteps, CompletionSteps, LockedSteps
<1>12. TidyInv'
  <2>1. ASSUME NEW j \in Attempts
        PROVE  /\ j > k => manifest[j] = None /\ j \notin contract
               /\ iterJson[j] = session'.iter[j]
               /\ result[j] # None => session'.iter[j] = "completed"
    <3>1. /\ j > k => manifest[j] = None /\ j \notin contract
          /\ j > k => iterJson[j] = "absent" /\ session.iter[j] = "absent"
      BY <1>3, <1>4, Fields DEF HistoryInv, VersionInv, SessionInv
    <3>2. j < k => iterJson[j] = "completed"
      BY <1>6 DEF HistoryInv, RecordInv
    <3>3. result[j] # None => j < k
      BY <1>3, <1>4, Fields DEF HistoryInv, RecordInv
    <3>4. j < k \/ j = k \/ j > k
      BY <1>4, Fields
    <3> QED
      BY <1>3, <1>4, <1>5, <1>6, <3>1, <3>2, <3>3, <3>4, Fields
  <2> QED
    BY <1>5, <2>1 DEF TidyInv
<1> QED
  BY <1>7, <1>8, <1>9, <1>10, <1>11, <1>12 DEF HistoryInv

-----------------------------------------------------------------------------
(* complete_iteration                                                      *)

\* complete_iteration starts, for an operator or for a runner: the attempt is the
\* prepared one and has no artifacts yet.
LEMMA CompleteHistory ==
  ASSUME ControlInv, TypeInv, HistoryInv, NEW p \in Procs,
         (\E e \in Bundles : CompleteIteration(p, e)) \/ RunnerCompletes(p)
  PROVE  HistoryInv'
<1> USE DEF At, Goto, run
<1>1. CASE RunnerCompletes(p) /\ ~(lock = NoProc /\ CanComplete(att[p]))
  BY <1>1, RecordsUntouched DEF RunnerCompletes, TypeInv, TypeOK, Unsettled,
     PrepareSteps, CompletionSteps
<1>2. CASE \/ RunnerCompletes(p) /\ lock = NoProc /\ CanComplete(att[p])
           \/ \E e \in Bundles : CompleteIteration(p, e)
  <2> USE DEF store
  <2>1. /\ UNCHANGED <<store, faults>> /\ lock = NoProc
        /\ CanComplete(att'[p])
        /\ pc'[p] = "install_artifacts" /\ pc[p] \in {"complete", "idle"}
        /\ \A q \in Procs \ {p} : pc'[q] = pc[q]
    <3>1. CASE RunnerCompletes(p) /\ lock = NoProc /\ CanComplete(att[p])
      BY <3>1 DEF RunnerCompletes, TypeInv, TypeOK
    <3>2. CASE \E e \in Bundles : CompleteIteration(p, e)
      <4>1. PICK e \in Bundles : CompleteIteration(p, e)
        BY <3>2
      <4>2. att'[p] = session.n
        BY <4>1 DEF CompleteIteration, TypeInv, TypeOK
      <4> QED
        BY <4>1, <4>2 DEF CompleteIteration, TypeInv, TypeOK
    <3> QED
      BY <1>2, <3>1, <3>2
  <2>2. \A q \in Procs : pc[q] \notin LockedSteps
    BY <2>1, NobodyInside
  <2>3. SessionInv'
    BY <2>1, SameVerdict
  <2>4. RecordInv' /\ VersionInv' /\ EnvironmentLineage'
    BY <2>1 DEF HistoryInv, RecordInv, VersionInv, EnvironmentLineage
  <2>5. HolderInv'
    BY <2>1, <2>2 DEF HolderInv, CanComplete, PrepareSteps, CompletionSteps,
       LockedSteps
  <2>6. TidyInv'
    BY <2>1, <2>2 DEF HistoryInv, TidyInv, Busy, LockedSteps
  <2> QED
    BY <2>3, <2>4, <2>5, <2>6 DEF HistoryInv
<1> QED
  BY <1>1, <1>2

\* The process that completes attempt k is alone in the locked sections.
LEMMA Completing ==
  ASSUME ControlInv, TypeInv, HistoryInv, NEW p \in Procs,
         pc[p] \in CompletionSteps
  PROVE  /\ \A q \in Procs \ {p} : pc[q] \notin LockedSteps
         /\ att[p] \in Attempts /\ att[p] = session.n /\ session.n \in Nat
         /\ session.state = "active" /\ session.iter[session.n] = "prepared"
         /\ Tail = "prepared"
         /\ ev[p] \in Evidence /\ ev[p] # None
<1>1. \A q \in Procs \ {p} : pc[q] \notin LockedSteps
  BY AloneInside DEF LockedSteps, CompletionSteps
<1>2. /\ att[p] = session.n /\ session.state = "active"
      /\ session.iter[session.n] = "prepared"
  BY DEF HistoryInv, HolderInv
<1>3. att[p] \in Attempts /\ session.n \in Nat /\ session.n > 0
  BY <1>2, Fields
<1>4. ev[p] \in Evidence /\ ev[p] # None
  BY DEF TypeInv, TypeOK, BundleInv
<1> QED
  BY <1>1, <1>2, <1>3, <1>4 DEF Tail

\* The artifacts are installed.
LEMMA ArtifactsHistory ==
  ASSUME ControlInv, TypeInv, HistoryInv, NEW p \in Procs, InstallArtifacts(p)
  PROVE  HistoryInv'
<1> USE DEF InstallArtifacts, At, Goto, run
<1> DEFINE k == att[p]
<1>1. /\ pc[p] = "install_artifacts" /\ pc'[p] = "save_observation"
      /\ \A q \in Procs \ {p} : pc'[q] = pc[q]
  BY DEF TypeInv, TypeOK
<1>2. /\ \A q \in Procs \ {p} : pc[q] \notin LockedSteps
      /\ k \in Attempts /\ k = session.n /\ session.n \in Nat
      /\ session.state = "active" /\ session.iter[session.n] = "prepared"
      /\ Tail = "prepared"
  BY <1>1, Completing DEF CompletionSteps
<1>3. k \notin artifacts /\ result[k] = None
  BY <1>1, <1>2 DEF HistoryInv, HolderInv, RecordInv
<1>4. SessionInv'
  BY SameVerdict
<1>5. VersionInv' /\ EnvironmentLineage'
  BY DEF HistoryInv, VersionInv, EnvironmentLineage
<1>6. RecordInv'
  BY <1>2 DEF HistoryInv, RecordInv
<1>7. HolderInv'
  BY <1>1, <1>2, <1>3 DEF HolderInv, PrepareSteps, CompletionSteps, LockedSteps
<1>8. TidyInv'
  BY <1>1, <1>2 DEF HistoryInv, TidyInv, Busy, LockedSteps
<1> QED
  BY <1>4, <1>5, <1>6, <1>7, <1>8 DEF HistoryInv

\* observation.json is written.
LEMMA ObservationHistory ==
  ASSUME ControlInv, TypeInv, HistoryInv, NEW p \in Procs, SaveObservation(p)
  PROVE  HistoryInv'
<1> USE DEF SaveObservation, At, Goto, run
<1> DEFINE k == att[p]
<1>1. /\ pc[p] = "save_observation" /\ pc'[p] = "save_result"
      /\ \A q \in Procs \ {p} : pc'[q] = pc[q]
  BY DEF TypeInv, TypeOK
<1>2. /\ \A q \in Procs \ {p} : pc[q] \notin LockedSteps
      /\ k \in Attempts /\ k = session.n /\ session.n \in Nat
      /\ session.state = "active" /\ session.iter[session.n] = "prepared"
      /\ Tail = "prepared"
  BY <1>1, Completing DEF CompletionSteps
<1>3. k \in artifacts /\ result[k] = None
  BY <1>1 DEF HistoryInv, HolderInv
<1>4. /\ observation'[k] = ev[p]
      /\ \A j \in Attempts \ {k} : observation'[j] = observation[j]
  BY <1>2 DEF TypeInv, TypeOK
<1>5. SessionInv'
  BY <1>2, SameVerdict
<1>6. VersionInv'
  BY DEF HistoryInv, VersionInv
<1>7. EnvironmentLineage'
  <2>1. \A j \in Attempts \ {1} : manifest[j] # None => j - 1 \in Attempts \ {k}
    BY <1>2, <1>3, Fields DEF HistoryInv, EnvironmentLineage
  <2> QED
    BY <1>4, <2>1 DEF HistoryInv, EnvironmentLineage
<1>8. RecordInv'
  BY <1>3, <1>4 DEF HistoryInv, RecordInv
<1>9. HolderInv'
  BY <1>1, <1>2, <1>3, <1>4 DEF HolderInv, PrepareSteps, CompletionSteps,
     LockedSteps
<1>10. TidyInv'
  BY <1>1, <1>2 DEF HistoryInv, TidyInv, Busy, LockedSteps
<1> QED
  BY <1>5, <1>6, <1>7, <1>8, <1>9, <1>10 DEF HistoryInv

\* result.json is written.
LEMMA ResultHistory ==
  ASSUME ControlInv, TypeInv, HistoryInv, NEW p \in Procs, SaveResult(p)
  PROVE  HistoryInv'
<1> USE DEF SaveResult, At, Goto, run
<1> DEFINE k == att[p]
           r == [outcome |-> OutcomeOf(ev[p]), observation |-> ev[p]]
<1>1. /\ pc[p] = "save_result" /\ pc'[p] = "complete_iter_json"
      /\ \A q \in Procs \ {p} : pc'[q] = pc[q]
  BY DEF TypeInv, TypeOK
<1>2. /\ \A q \in Procs \ {p} : pc[q] \notin LockedSteps
      /\ k \in Attempts /\ k = session.n /\ session.n \in Nat
      /\ session.state = "active" /\ session.iter[session.n] = "prepared"
      /\ Tail = "prepared"
  BY <1>1, Completing DEF CompletionSteps
<1>3. k \in artifacts /\ result[k] = None /\ observation[k] = ev[p]
  BY <1>1 DEF HistoryInv, HolderInv
<1>4. result'[k] = r /\ \A j \in Attempts \ {k} : result'[j] = result[j]
  BY <1>2 DEF TypeInv, TypeOK
<1>5. SessionInv'
  BY <1>2, SameVerdict
<1>6. VersionInv'
  BY DEF HistoryInv, VersionInv
<1>7. EnvironmentLineage'
  <2>1. \A j \in Attempts \ {1} : manifest[j] # None => j - 1 \in Attempts \ {k}
    BY <1>2, <1>3, Fields DEF HistoryInv, EnvironmentLineage
  <2> QED
    BY <1>4, <2>1 DEF HistoryInv, EnvironmentLineage
<1>8. RecordInv'
  BY <1>2, <1>3, <1>4 DEF HistoryInv, RecordInv
<1>9. HolderInv'
  BY <1>1, <1>2, <1>3, <1>4 DEF HolderInv, PrepareSteps, CompletionSteps,
     LockedSteps
<1>10. TidyInv'
  BY <1>1, <1>2 DEF HistoryInv, TidyInv, Busy, LockedSteps
<1> QED
  BY <1>5, <1>6, <1>7, <1>8, <1>9, <1>10 DEF HistoryInv

\* iteration.json says completed.
LEMMA IterJsonHistory ==
  ASSUME ControlInv, TypeInv, HistoryInv, NEW p \in Procs, CompleteIterJson(p)
  PROVE  HistoryInv'
<1> USE DEF CompleteIterJson, At, Goto, run
<1> DEFINE k == att[p]
<1>1. /\ pc[p] = "complete_iter_json" /\ pc'[p] = "commit_completed"
      /\ \A q \in Procs \ {p} : pc'[q] = pc[q]
  BY DEF TypeInv, TypeOK
<1>2. /\ \A q \in Procs \ {p} : pc[q] \notin LockedSteps
      /\ k \in Attempts /\ k = session.n /\ session.n \in Nat
      /\ session.state = "active" /\ session.iter[session.n] = "prepared"
      /\ ev[p] \in Evidence
  BY <1>1, Completing DEF CompletionSteps
<1>3. /\ observation[k] = ev[p]
      /\ result[k] = [outcome |-> OutcomeOf(ev[p]), observation |-> ev[p]]
  BY <1>1 DEF HistoryInv, HolderInv
<1>4. result[k] # None
  BY <1>2, <1>3, ConstantsAssumption DEF Results, Outcomes, OutcomeOf
<1>5. /\ iterJson'[k] = "completed"
      /\ \A j \in Attempts \ {k} : iterJson'[j] = iterJson[j]
  BY <1>2 DEF TypeInv, TypeOK
<1>6. SessionInv'
  BY SameVerdict
<1>7. VersionInv'
  BY <1>2, <1>5 DEF HistoryInv, VersionInv
<1>8. EnvironmentLineage'
  BY DEF HistoryInv, EnvironmentLineage
<1>9. RecordInv'
  BY <1>4, <1>5 DEF HistoryInv, RecordInv
<1>10. HolderInv'
  BY <1>1, <1>2, <1>3, <1>5 DEF HolderInv, PrepareSteps, CompletionSteps,
     LockedSteps
<1>11. TidyInv'
  BY <1>1, <1>2, <1>5 DEF HistoryInv, TidyInv, Busy, LockedSteps
<1> QED
  BY <1>6, <1>7, <1>8, <1>9, <1>10, <1>11 DEF HistoryInv

\* session.json says what follows from the attempt just completed.
LEMMA CommitCompletedHistory ==
  ASSUME ControlInv, TypeInv, HistoryInv, NEW p \in Procs, CommitCompleted(p)
  PROVE  HistoryInv'
<1> DEFINE k == att[p]
           next == ResolveTransition(OutcomeOf(ev[p]),
                                     DecideStopReason(k, ev[p]))
<1>1. /\ pc[p] = "commit_completed" /\ pc'[p] \in {"idle", "done"}
      /\ \A q \in Procs \ {p} : pc'[q] = pc[q]
  BY DEF CommitCompleted, At, Goto, Exit, TypeInv, TypeOK
<1>2. /\ \A q \in Procs \ {p} : pc[q] \notin LockedSteps
      /\ k \in Attempts /\ k = session.n /\ session.n \in Nat
      /\ session.state = "active" /\ session.iter[session.n] = "prepared"
      /\ ev[p] \in Evidence
  BY <1>1, Completing DEF CompletionSteps
<1>3. /\ observation[k] = ev[p] /\ iterJson[k] = "completed"
      /\ result[k] = [outcome |-> OutcomeOf(ev[p]), observation |-> ev[p]]
  BY <1>1 DEF HistoryInv, HolderInv
<1>4. UNCHANGED <<manifest, snapshots, contract, result, iterJson, artifacts,
                  observation, faults>>
  BY DEF CommitCompleted
<1>5. /\ session'.state = next[1] /\ session'.stop = next[2]
      /\ session'.n = session.n /\ session'.iter[k] = "completed"
      /\ \A j \in Attempts \ {k} : session'.iter[j] = session.iter[j]
  BY <1>2, Fields DEF CommitCompleted
<1>6. SessionInv'
  <2>1. VerifyTerminalState'
    <3>1. Tail' = "completed" /\ session'.n = k
      BY <1>2, <1>5, Fields DEF Tail
    <3>2. DecideStopReason(session.n, observation[session.n])'
            = DecideStopReason(k, ev[p])
      BY <1>2, <1>3, <1>4, <1>5
      DEF DecideStopReason, SeenBefore, StateFingerprint
    <3>3. result'[session'.n].outcome = OutcomeOf(ev[p])
      BY <1>3, <1>4, <3>1
    <3>4. next = <<next[1], next[2]>>
      BY DEF ResolveTransition
    <3> QED
      BY <1>5, <3>1, <3>2, <3>3, <3>4 DEF VerifyTerminalState
  <2>2. \A j \in Attempts : /\ j > k <=> session'.iter[j] = "absent"
                            /\ j < k => session'.iter[j] = "completed"
    BY <1>2, <1>5, Fields DEF HistoryInv, SessionInv
  <2> QED
    BY <1>2, <1>5, <2>1, <2>2 DEF SessionInv
<1> HIDE DEF next
<1>7. EnvironmentLineage'
  BY <1>4 DEF HistoryInv, EnvironmentLineage
<1>8. RecordInv'
  BY <1>2, <1>3, <1>4, <1>5 DEF HistoryInv, RecordInv
<1>9. VersionInv'
  BY <1>2, <1>4, <1>5 DEF HistoryInv, VersionInv
<1>10. HolderInv'
  BY <1>1, <1>2 DEF HolderInv, PrepareSteps, CompletionSteps, LockedSteps
<1>11. TidyInv'
  <2>1. /\ ~Busy({"save_contract", "publish", "commit_prepared"})
        /\ ~Busy({"publish", "commit_prepared"})
    BY <1>1, <1>2 DEF Busy, LockedSteps
  <2>2. ASSUME NEW j \in Attempts, faults = 0
        PROVE  /\ j > k => j \notin contract
               /\ j > k /\ j > 1 => manifest[j] = None
               /\ iterJson[j] = session'.iter[j]
               /\ result[j] # None => session'.iter[j] = "completed"
    <3>1. j > k => j \notin contract /\ (j > 1 => manifest[j] = None)
      BY <1>2, <2>1, <2>2 DEF HistoryInv, TidyInv
    <3>2. j > k => iterJson[j] = "absent" /\ session.iter[j] = "absent"
      BY <1>2, <3>1 DEF HistoryInv, VersionInv, SessionInv
    <3>3. j < k => iterJson[j] = "completed" /\ session.iter[j] = "completed"
      BY <1>2 DEF HistoryInv, RecordInv, SessionInv
    <3>4. result[j] # None => j <= k
      BY <1>2 DEF HistoryInv, RecordInv
    <3>5. j < k \/ j = k \/ j > k
      BY <1>2, Fields
    <3> QED
      BY <1>2, <1>3, <1>5, <3>1, <3>2, <3>3, <3>4, <3>5, Fields
  <2> QED
    BY <1>2, <1>4, <1>5, <2>2 DEF TidyInv
<1> QED
  BY <1>6, <1>7, <1>8, <1>9, <1>10, <1>11 DEF HistoryInv

\* Every step preserves the history invariant.
LEMMA StepHistory ==
  ASSUME ControlInv, TypeInv, HistoryInv, [Next]_vars
  PROVE  HistoryInv'
<1>1. CASE \E p \in Procs : Start(p) \/ Step(p) \/ Crash(p) \/ IOFault(p)
                          \/ ClaimUpdateFails(p)
  <2>1. PICK p \in Procs : Start(p) \/ Step(p) \/ Crash(p) \/ IOFault(p)
                            \/ ClaimUpdateFails(p)
    BY <1>1
  <2> QED
    BY <2>1, RefuseHistory, RunHistory, ResetHistory, ConflictHistory,
       PrepareNextHistory, RepairHistory, ManifestHistory, ContractHistory,
       PublishHistory, CommitPreparedHistory, CompleteHistory, ArtifactsHistory,
       ObservationHistory, ResultHistory, IterJsonHistory,
       CommitCompletedHistory
    DEF Start, Step
<1>2. CASE \E k \in Attempts : Script(k) \/ ScriptKilled(k)
  BY <1>2, ScriptHistory
<1>3. CASE UNCHANGED vars
  BY <1>3, RecordsUntouched DEF vars, procs
<1> QED
  BY <1>1, <1>2, <1>3 DEF Next, Fault

-----------------------------------------------------------------------------
(* The execution rootfs and the claim                                      *)

ResetSteps == {"reset_run_dir", "reset_claim"}

\* The claim of attempt k does not name work under way.
Ended(k) == claim[k] = None \/ claim[k].stage \in {"completed", "failed"}

\* A step of process p that touches no rootfs and no script, neither creates nor
\* removes a claim, and does not bring p to the launch or to a reset.
LEMMA StaysFresh ==
  ASSUME TypeInv, ClaimInv, HistoryInv, FreshInv, NEW p \in Procs, Others(p),
         UNCHANGED <<rootfs, script>>,
         \A k \in Attempts :
           /\ iterJson'[k] = "absent" <=> iterJson[k] = "absent"
           /\ claim'[k] = None <=> claim[k] = None
           /\ manifest[k] # None => manifest'[k] = manifest[k],
         p \in runners' /\ pc'[p] \in BeforeLaunch =>
           p \in runners /\ pc[p] \in BeforeLaunch /\ att'[p] = att[p],
         pc'[p] \in ResetSteps => pc[p] \in ResetSteps /\ att'[p] = att[p]
  PROVE  FreshInv'
<1>1. \A k \in Attempts : rootfs[k] # None => manifest'[k] = manifest[k]
  BY DEF FreshInv, HistoryInv, VersionInv
<1>2. \A q \in Procs :
        /\ pc[q] \in BeforeLaunch \cup ResetSteps => rootfs[att[q]] # None
        /\ att[q] \in Attempts
  <2>1. \A q \in Procs : pc[q] \in BeforeLaunch => rootfs[att[q]] # None
    BY DEF TypeInv, RootfsInv, RunnerSteps
  <2>2. \A q \in Procs : att[q] \in Attempts
    BY DEF TypeInv, TypeOK
  <2>3. \A q \in Procs : pc[q] \in ResetSteps => rootfs[att[q]] # None
    BY <2>2 DEF ClaimInv, ResetInv, ResetSteps, Failed, FreshInv
  <2> QED
    BY <2>1, <2>2, <2>3
<1>3. \A k \in Attempts : rootfs[k] # None => RootfsMatches(k)' = RootfsMatches(k)
  BY <1>1 DEF RootfsMatches
<1>4. ASSUME NEW k \in Attempts
      PROVE  /\ iterJson'[k] = "absent" <=> rootfs'[k] = None
             /\ claim'[k] # None => rootfs'[k] # None
             /\ claim'[k] = None /\ rootfs'[k] # None => RootfsMatches(k)'
             /\ script'[k] = "setup" => RootfsMatches(k)'
             /\ script'[k] \in {"mounted", "marked"} =>
                  rootfs'[k] = manifest'[k] \cup
                                 IF Backend = "qemu" THEN {QemuMount} ELSE {}
  <2>1. script[k] # "off" => rootfs[k] # None
    BY DEF TypeInv, RootfsInv
  <2> QED
    BY <1>1, <1>3, <2>1 DEF FreshInv
<1>5. ASSUME NEW q \in Procs
      PROVE  /\ q \in runners' /\ pc'[q] \in BeforeLaunch =>
                  RootfsMatches(att[q])'
             /\ pc'[q] \in ResetSteps => RootfsMatches(att[q])'
  <2>1. /\ q \in runners' /\ pc'[q] \in BeforeLaunch =>
             q \in runners /\ pc[q] \in BeforeLaunch /\ att'[q] = att[q]
        /\ pc'[q] \in ResetSteps => pc[q] \in ResetSteps /\ att'[q] = att[q]
    BY DEF Others
  <2> QED
    BY <1>1, <1>2, <2>1 DEF FreshInv, RootfsMatches, ResetSteps
<1> QED
  BY <1>4, <1>5 DEF FreshInv, ResetSteps

\* A step of process p keeps every open claim owned.
LEMMA StaysOwned ==
  ASSUME NoOrphanClaim, NEW p \in Procs, Others(p),
         faults' = 0 =>
           /\ faults = 0
           /\ \A k \in Attempts :
                Ended(k)' \/ Owns(p, k)' \/ (~Ended(k) /\ ~Owns(p, k))
  PROVE  NoOrphanClaim'
<1> SUFFICES ASSUME faults' = 0, NEW k \in Attempts, ~Ended(k)'
             PROVE  \E q \in Procs : Owns(q, k)'
  BY DEF NoOrphanClaim, Ended
<1>1. CASE Owns(p, k)'
  BY <1>1
<1>2. CASE ~Ended(k) /\ ~Owns(p, k)
  <2>1. PICK q \in Procs : Owns(q, k)
    BY <1>2 DEF NoOrphanClaim, Ended
  <2>2. q # p
    BY <1>2, <2>1
  <2> QED
    BY <2>1, <2>2 DEF Others, Owns
<1> QED
  BY <1>1, <1>2

\* The same for a step that leaves the claims alone and keeps what p owns.
LEMMA ClaimsUntouched ==
  ASSUME TypeInv, ClaimInv, HistoryInv, FreshInv, NoOrphanClaim,
         NEW p \in Procs, Others(p), UNCHANGED <<rootfs, script, claim>>,
         \A k \in Attempts :
           /\ iterJson'[k] = "absent" <=> iterJson[k] = "absent"
           /\ manifest[k] # None => manifest'[k] = manifest[k],
         p \in runners' /\ pc'[p] \in BeforeLaunch =>
           p \in runners /\ pc[p] \in BeforeLaunch /\ att'[p] = att[p],
         pc'[p] \in ResetSteps => pc[p] \in ResetSteps /\ att'[p] = att[p],
         faults' = 0 =>
           faults = 0 /\ \A k \in Attempts : Owns(p, k) => Owns(p, k)'
  PROVE  FreshInv' /\ NoOrphanClaim'
  BY StaysFresh, StaysOwned DEF Ended

\* prepare_next and verify leave rootfs and claims alone, up to the publication
\* of the iteration directory.
LEMMA PrepareFresh ==
  ASSUME ControlInv, TypeInv, ClaimInv, HistoryInv, FreshInv, NoOrphanClaim,
         NEW p \in Procs,
         \/ PrepareNext(p) \/ BuildRepairedSnapshot(p) \/ RepairRefused(p)
         \/ SaveManifest(p) \/ ManifestImmutable(p) \/ SaveContract(p)
         \/ PublishRefused(p) \/ CommitPrepared(p) \/ BeginVerify(p)
         \/ EndVerify(p)
  PROVE  FreshInv' /\ NoOrphanClaim'
<1>t. /\ att \in [Procs -> Attempts] /\ pc \in [Procs -> PcLabels]
      /\ faults \in Nat
  BY ConstantsAssumption DEF TypeInv, TypeOK
<1> USE DEF ControlInv, At, Goto, Others, Owns, ResetSteps, LockedSteps,
            RunnerSteps, ValidationSteps, BeforeLaunch, AfterLaunch,
            CompletionSteps
<1>1. CASE PrepareNext(p)
  BY <1>1, <1>t, ClaimsUntouched DEF PrepareNext, store, run
<1>2. CASE BuildRepairedSnapshot(p)
  BY <1>2, <1>t, ClaimsUntouched DEF BuildRepairedSnapshot, run
<1>3. CASE RepairRefused(p)
  BY <1>3, <1>t, ClaimsUntouched DEF RepairRefused, Exit, store, run
<1>4. CASE SaveManifest(p)
  <2>1. \A k \in Attempts : manifest[k] # None => manifest'[k] = manifest[k]
    BY <1>4 DEF SaveManifest, TypeInv, TypeOK
  <2> QED
    BY <2>1, <1>4, <1>t, ClaimsUntouched DEF SaveManifest, run
<1>5. CASE ManifestImmutable(p)
  BY <1>5, <1>t, ClaimsUntouched DEF ManifestImmutable, Exit, store, run
<1>6. CASE SaveContract(p)
  BY <1>6, <1>t, ClaimsUntouched DEF SaveContract, run
<1>7. CASE PublishRefused(p)
  BY <1>7, <1>t, ClaimsUntouched DEF PublishRefused, Exit, store, run
<1>8. CASE CommitPrepared(p)
  BY <1>8, <1>t, ClaimsUntouched DEF CommitPrepared, Exit, run
<1>9. CASE BeginVerify(p)
  BY <1>9, <1>t, ClaimsUntouched DEF BeginVerify, store, run
<1>10. CASE EndVerify(p)
  BY <1>10, <1>t, ClaimsUntouched DEF EndVerify, Exit, store, run
<1> QED
  BY <1>1, <1>2, <1>3, <1>4, <1>5, <1>6, <1>7, <1>8, <1>9, <1>10

\* complete_iteration leaves rootfs and claims alone; a runner inside it remains
\* the owner of its claim.
LEMMA CompleteFresh ==
  ASSUME ControlInv, TypeInv, ClaimInv, HistoryInv, FreshInv, NoOrphanClaim,
         NEW p \in Procs,
         \/ (\E e \in Bundles : CompleteIteration(p, e))
         \/ RunnerCompletes(p) \/ BundleRejected(p) \/ InstallArtifacts(p)
         \/ SaveObservation(p) \/ SaveResult(p) \/ CompleteIterJson(p)
         \/ CommitCompleted(p)
  PROVE  FreshInv' /\ NoOrphanClaim'
<1>t. /\ att \in [Procs -> Attempts] /\ pc \in [Procs -> PcLabels]
      /\ faults \in Nat
  BY ConstantsAssumption DEF TypeInv, TypeOK
<1> USE DEF ControlInv, At, Goto, Others, Owns, ResetSteps, LockedSteps,
            RunnerSteps, ValidationSteps, BeforeLaunch, AfterLaunch,
            CompletionSteps
<1>1. CASE \E e \in Bundles : CompleteIteration(p, e)
  <2>1. PICK e \in Bundles : CompleteIteration(p, e)
    BY <1>1
  <2> QED
    BY <2>1, <1>t, ClaimsUntouched DEF CompleteIteration, store, run
<1>2. CASE RunnerCompletes(p)
  BY <1>2, <1>t, ClaimsUntouched DEF RunnerCompletes, store, run
<1>3. CASE BundleRejected(p)
  BY <1>3, <1>t, ClaimsUntouched DEF BundleRejected, CompletionFails, Exit,
     store, run
<1>4. CASE InstallArtifacts(p)
  BY <1>4, <1>t, ClaimsUntouched DEF InstallArtifacts, run
<1>5. CASE SaveObservation(p)
  BY <1>5, <1>t, ClaimsUntouched DEF SaveObservation, run
<1>6. CASE SaveResult(p)
  BY <1>6, <1>t, ClaimsUntouched DEF SaveResult, run
<1>7. CASE CompleteIterJson(p)
  <2>1. iterJson[att[p]] # "absent"
    <3>1. att[p] \in Attempts /\ att[p] = session.n /\ session.n \in Nat
      BY <1>7, Completing DEF CompleteIterJson
    <3> QED
      BY <3>1 DEF HistoryInv, VersionInv
  <2>2. \A k \in Attempts : iterJson'[k] = "absent" <=> iterJson[k] = "absent"
    BY <1>7, <2>1 DEF CompleteIterJson, TypeInv, TypeOK
  <2> QED
    BY <2>2, <1>7, <1>t, ClaimsUntouched DEF CompleteIterJson, run
<1>8. CASE CommitCompleted(p)
  BY <1>8, <1>t, ClaimsUntouched DEF CommitCompleted, Exit, run
<1> QED
  BY <1>1, <1>2, <1>3, <1>4, <1>5, <1>6, <1>7, <1>8

\* validate, and the steps of a run that leave its claim alone.
LEMMA RunFresh ==
  ASSUME ControlInv, TypeInv, ClaimInv, HistoryInv, FreshInv, NoOrphanClaim,
         NEW p \in Procs,
         \/ StartRun(p) \/ CheckRootfs(p) \/ CheckClaim(p) \/ ClaimLost(p)
         \/ PrepareRunDirectory(p) \/ SetUpHost(p) \/ ScriptReturned(p)
         \/ (\E e \in Bundles : Postprocess(p, e)) \/ RunnerRaises(p)
  PROVE  FreshInv' /\ NoOrphanClaim'
<1>t. /\ att \in [Procs -> Attempts] /\ pc \in [Procs -> PcLabels]
      /\ faults \in Nat
  BY ConstantsAssumption DEF TypeInv, TypeOK
<1> USE DEF ControlInv, At, Goto, Others, Owns, ResetSteps, LockedSteps,
            RunnerSteps, ValidationSteps, BeforeLaunch, AfterLaunch,
            CompletionSteps
<1>1. CASE StartRun(p)
  BY <1>1, <1>t, ClaimsUntouched DEF StartRun, store, run
<1>2. CASE CheckRootfs(p)
  BY <1>2, <1>t, ClaimsUntouched DEF CheckRootfs, Exit, store, run
<1>3. CASE CheckClaim(p)
  BY <1>3, <1>t, ClaimsUntouched DEF CheckClaim, Exit, store, run
<1>4. CASE ClaimLost(p)
  BY <1>4, <1>t, ClaimsUntouched DEF ClaimLost, Exit, store, run
<1>5. CASE PrepareRunDirectory(p)
  BY <1>5, <1>t, ClaimsUntouched DEF PrepareRunDirectory, store
<1>6. CASE SetUpHost(p)
  BY <1>6, <1>t, ClaimsUntouched DEF SetUpHost, store, run
<1>7. CASE ScriptReturned(p)
  BY <1>7, <1>t, ClaimsUntouched DEF ScriptReturned, store, run
<1>8. CASE \E e \in Bundles : Postprocess(p, e)
  <2>1. PICK e \in Bundles : Postprocess(p, e)
    BY <1>8
  <2> QED
    BY <2>1, <1>t, ClaimsUntouched DEF Postprocess, store, run
<1>9. CASE RunnerRaises(p)
  BY <1>9, <1>t, ClaimsUntouched DEF RunnerRaises, store, run
<1> QED
  BY <1>1, <1>2, <1>3, <1>4, <1>5, <1>6, <1>7, <1>8, <1>9

\* A reset that removes the run directory, and faults.
LEMMA FaultFresh ==
  ASSUME ControlInv, TypeInv, ClaimInv, HistoryInv, FreshInv, NoOrphanClaim,
         NEW p \in Procs,
         \/ ResetRunDir(p) \/ Crash(p) \/ IOFault(p) \/ ClaimUpdateFails(p)
  PROVE  FreshInv' /\ NoOrphanClaim'
<1>t. /\ att \in [Procs -> Attempts] /\ pc \in [Procs -> PcLabels]
      /\ faults \in Nat
  BY ConstantsAssumption DEF TypeInv, TypeOK
<1> USE DEF ControlInv, At, Goto, Others, Owns, ResetSteps, LockedSteps,
            RunnerSteps, ValidationSteps, BeforeLaunch, AfterLaunch,
            CompletionSteps
<1>1. CASE ResetRunDir(p)
  BY <1>1, <1>t, ClaimsUntouched DEF ResetRunDir, store
<1>2. CASE Crash(p)
  BY <1>2, <1>t, ClaimsUntouched DEF Crash, Exit, store, run
<1>3. CASE IOFault(p)
  BY <1>3, <1>t, ClaimsUntouched DEF IOFault, CompletionFails, Exit, store,
     run
<1>4. CASE ClaimUpdateFails(p)
  BY <1>4, <1>t, ClaimsUntouched DEF ClaimUpdateFails, Exit, store, run
<1> QED
  BY <1>1, <1>2, <1>3, <1>4

\* The iteration directory appears with a clone of its snapshot.
LEMMA PublishFresh ==
  ASSUME ControlInv, TypeInv, ClaimInv, HistoryInv, FreshInv, NoOrphanClaim,
         NEW p \in Procs, PublishIteration(p)
  PROVE  FreshInv' /\ NoOrphanClaim'
<1> DEFINE k == att[p]
<1>1. /\ k \in Attempts /\ pc[p] = "publish" /\ pc'[p] = "commit_prepared"
      /\ \A q \in Procs \ {p} : pc'[q] = pc[q]
      /\ UNCHANGED <<manifest, claim, script, att, runners, faults>>
  BY DEF PublishIteration, At, Goto, TypeInv, TypeOK
<1>2. /\ iterJson[k] = "absent" /\ iterJson'[k] = "prepared"
      /\ rootfs'[k] = manifest[k]
      /\ \A j \in Attempts \ {k} : rootfs'[j] = rootfs[j] /\ iterJson'[j] = iterJson[j]
  BY <1>1 DEF PublishIteration, TypeInv, TypeOK
<1>3. rootfs[k] = None /\ claim[k] = None /\ script[k] = "off"
  BY <1>1, <1>2 DEF FreshInv, TypeInv, RootfsInv
<1>4. manifest[k] # None
  BY <1>1 DEF HistoryInv, HolderInv, VersionInv
<1>5. \A q \in Procs : pc[q] \in BeforeLaunch \cup ResetSteps => att[q] # k
  BY <1>3 DEF TypeInv, RootfsInv, RunnerSteps, ClaimInv, ResetInv, Failed,
     ResetSteps
<1>6. \A q \in Procs : att[q] \in Attempts
  BY DEF TypeInv, TypeOK
<1>7. FreshInv'
  <2>1. ASSUME NEW j \in Attempts
        PROVE  /\ iterJson'[j] = "absent" <=> rootfs'[j] = None
               /\ claim'[j] # None => rootfs'[j] # None
               /\ claim'[j] = None /\ rootfs'[j] # None => RootfsMatches(j)'
               /\ script'[j] = "setup" => RootfsMatches(j)'
               /\ script'[j] \in {"mounted", "marked"} =>
                    rootfs'[j] = manifest'[j] \cup
                                   IF Backend = "qemu" THEN {QemuMount} ELSE {}
    <3>1. CASE j = k
      BY <3>1, <1>1, <1>2, <1>3, <1>4 DEF RootfsMatches
    <3>2. CASE j # k
      BY <3>2, <1>1, <1>2 DEF RootfsMatches, FreshInv
    <3> QED
      BY <3>1, <3>2
  <2>2. ASSUME NEW q \in Procs
        PROVE  /\ q \in runners' /\ pc'[q] \in BeforeLaunch =>
                    RootfsMatches(att[q])'
               /\ pc'[q] \in ResetSteps => RootfsMatches(att[q])'
    BY <1>1, <1>2, <1>5, <1>6
    DEF FreshInv, RootfsMatches, BeforeLaunch, ResetSteps
  <2> QED
    BY <2>1, <2>2 DEF FreshInv, ResetSteps
<1>8. NoOrphanClaim'
  BY <1>1, StaysOwned DEF Others, Owns, Ended, BeforeLaunch, AfterLaunch,
     CompletionSteps
<1> QED
  BY <1>7, <1>8

\* A runner owns the claim it rewrites.
LEMMA OwnClaim ==
  ASSUME ControlInv, TypeInv, ClaimInv, NEW p \in Procs,
         pc[p] \in RunnerSteps \ ValidationSteps
  PROVE  p \in runners /\ Owns(p, att[p]) /\ claim[att[p]] # None
<1>1. p \in runners /\ att[p] \in Attempts
  BY DEF ControlInv, TypeInv, TypeOK
<1>2. Owns(p, att[p])
  BY <1>1 DEF Owns, RunnerSteps, ValidationSteps, AfterLaunch, BeforeLaunch
<1> QED
  BY <1>1, <1>2 DEF ClaimInv, OwnerInv

\* A runner rewrites its claim and goes on.
LEMMA UpdateFresh ==
  ASSUME ControlInv, TypeInv, ClaimInv, HistoryInv, FreshInv, NoOrphanClaim,
         NEW p \in Procs,
         NEW from \in RunnerSteps \ ValidationSteps, NEW stage \in ClaimStages,
         NEW to \in BeforeLaunch \cup AfterLaunch,
         to \in BeforeLaunch => from \in BeforeLaunch,
         UpdateClaim(p, from, stage, to)
  PROVE  FreshInv' /\ NoOrphanClaim'
<1> DEFINE c == [stage |-> stage,
                 started |-> stage \in {"postprocessing", "completing",
                                        "completed"},
                 retrySafe |-> FALSE]
<1>1. /\ pc[p] = from /\ pc'[p] = to
      /\ \A q \in Procs \ {p} : pc'[q] = pc[q]
      /\ UNCHANGED <<manifest, iterJson, rootfs, script, att, runners, faults>>
  BY DEF UpdateClaim, At, Goto, store, TypeInv, TypeOK
<1>2. p \in runners /\ Owns(p, att[p]) /\ claim[att[p]] # None
  BY <1>1, OwnClaim
<1>3. /\ claim' = [claim EXCEPT ![att[p]] = c] /\ c \in Claims
      /\ claim \in [Attempts -> {None} \cup Claims] /\ att[p] \in Attempts
  BY DEF UpdateClaim, Claims, TypeInv, TypeOK
<1>4. c # None
  BY <1>3, ConstantsAssumption
<1> HIDE DEF c
<1>5. \A k \in Attempts : /\ claim'[k] = None <=> claim[k] = None
                          /\ k # att[p] => claim'[k] = claim[k]
  BY <1>2, <1>3, <1>4
<1>6. Others(p) /\ Owns(p, att[p])'
  BY <1>1, <1>2 DEF Others, Owns
<1>7. to \notin ResetSteps
  BY DEF ResetSteps, BeforeLaunch, AfterLaunch, CompletionSteps
<1>8. FreshInv'
  BY <1>1, <1>2, <1>5, <1>6, <1>7, StaysFresh
<1>9. NoOrphanClaim'
  <2>1. \A k \in Attempts :
           Ended(k)' \/ Owns(p, k)' \/ (~Ended(k) /\ ~Owns(p, k))
    <3>1. \A k \in Attempts \ {att[p]} : ~Owns(p, k) /\ claim'[k] = claim[k]
      BY <1>5 DEF Owns
    <3>2. Owns(p, att[p])' /\ att' = att
      BY <1>1, <1>6
    <3> QED
      BY <3>1, <3>2 DEF Ended, Owns
  <2> QED
    BY <1>1, <1>6, <2>1, StaysOwned
<1> QED
  BY <1>8, <1>9

\* The last rewriting of a claim: the run has completed or failed.
LEMMA EndFresh ==
  ASSUME ControlInv, TypeInv, ClaimInv, HistoryInv, FreshInv, NoOrphanClaim,
         NEW p \in Procs, MarkCompleted(p) \/ RecordFailure(p)
  PROVE  FreshInv' /\ NoOrphanClaim'
<1>1. /\ pc[p] \in {"done", "failing"} /\ pc'[p] = "idle"
      /\ Others(p)
      /\ UNCHANGED <<manifest, iterJson, rootfs, script, faults>>
  BY DEF MarkCompleted, RecordFailure, At, Goto, Exit, store, Others,
     TypeInv, TypeOK
<1>2. claim[att[p]] # None /\ att[p] \in Attempts
  BY <1>1, OwnClaim DEF RunnerSteps, ValidationSteps, TypeInv, TypeOK
<1>3. PICK c \in Claims : /\ c.stage \in {"completed", "failed"}
                          /\ claim' = [claim EXCEPT ![att[p]] = c]
  <2>1. CASE MarkCompleted(p)
    BY <2>1 DEF MarkCompleted, Claims, ClaimStages
  <2>2. CASE RecordFailure(p)
    <3> DEFINE d == [stage |-> "failed", started |-> att[p] \in marker,
                     retrySafe |-> att[p] \notin marker /\ RootfsMatches(att[p])]
    <3>1. claim' = [claim EXCEPT ![att[p]] = d]
      BY <2>2 DEF RecordFailure
    <3>2. d \in Claims
      BY DEF Claims, ClaimStages, RootfsMatches
    <3> QED
      BY <3>1, <3>2
  <2> QED
    BY <2>1, <2>2
<1>4. \A k \in Attempts : /\ claim'[k] = None <=> claim[k] = None
                          /\ k # att[p] => claim'[k] = claim[k]
  BY <1>2, <1>3, ConstantsAssumption DEF TypeInv, TypeOK
<1>5. FreshInv'
  BY <1>1, <1>4, StaysFresh DEF BeforeLaunch, ResetSteps
<1>6. NoOrphanClaim'
  <2>1. claim'[att[p]].stage \in {"completed", "failed"}
    BY <1>2, <1>3 DEF TypeInv, TypeOK
  <2>2. \A k \in Attempts : Ended(k)' \/ (~Ended(k) /\ ~Owns(p, k))
    BY <1>4, <2>1 DEF Ended, Owns
  <2> QED
    BY <1>1, <2>2, StaysOwned
<1> QED
  BY <1>5, <1>6

\* The conjuncts of FreshInv for one attempt and for one process.
FreshAttempt(k) ==
  /\ iterJson[k] = "absent" <=> rootfs[k] = None
  /\ claim[k] # None => rootfs[k] # None
  /\ claim[k] = None /\ rootfs[k] # None => RootfsMatches(k)
  /\ script[k] = "setup" => RootfsMatches(k)
  /\ script[k] \in {"mounted", "marked"} =>
       rootfs[k] = manifest[k] \cup IF Backend = "qemu" THEN {QemuMount} ELSE {}

FreshProcess(q) ==
  /\ q \in runners /\ pc[q] \in BeforeLaunch => RootfsMatches(att[q])
  /\ pc[q] \in ResetSteps => RootfsMatches(att[q])

\* They make up FreshInv, in this state ...
LEMMA FreshParts ==
  FreshInv <=> /\ \A k \in Attempts : FreshAttempt(k)
               /\ \A q \in Procs : FreshProcess(q)
  BY DEF FreshInv, FreshAttempt, FreshProcess, ResetSteps

\* ... and in the next.
LEMMA FreshPartsNext ==
  FreshInv' <=> /\ \A k \in Attempts : FreshAttempt(k)'
                /\ \A q \in Procs : FreshProcess(q)'
  BY DEF FreshInv, FreshAttempt, FreshProcess, ResetSteps

\* A runner takes the claim: without one, the rootfs is untouched, whatever was
\* checked before.
LEMMA CreateFresh ==
  ASSUME ControlInv, TypeInv, ClaimInv, HistoryInv, FreshInv, NoOrphanClaim,
         NEW p \in Procs, CreateClaim(p)
  PROVE  FreshInv' /\ NoOrphanClaim'
<1> DEFINE k == att[p]
<1>1. /\ k \in Attempts /\ pc[p] = "create_claim" /\ pc'[p] = "write_claim"
      /\ Others(p)
      /\ UNCHANGED <<manifest, iterJson, rootfs, script, att, runners, faults>>
  BY DEF CreateClaim, At, Goto, store, Others, TypeInv, TypeOK
<1>2. p \in runners /\ rootfs[k] # None
  BY <1>1 DEF ControlInv, RunnerSteps, ValidationSteps, TypeInv, RootfsInv
<1>3. /\ claim[k] = None
      /\ \A j \in Attempts \ {k} : claim'[j] = claim[j]
  BY <1>1 DEF CreateClaim, TypeInv, TypeOK
<1>4. RootfsMatches(k)
  BY <1>1, <1>2, <1>3 DEF FreshInv
<1>5. FreshInv'
  <2>1. ASSUME NEW j \in Attempts PROVE FreshAttempt(j)'
    <3>1. FreshAttempt(j)
      BY FreshParts
    <3> QED
      BY <3>1, <1>1, <1>2, <1>3, <1>4 DEF FreshAttempt, RootfsMatches
  <2>2. ASSUME NEW q \in Procs PROVE FreshProcess(q)'
    <3>1. FreshProcess(q)
      BY FreshParts
    <3> QED
      BY <3>1, <1>1, <1>4 DEF FreshProcess, RootfsMatches, ResetSteps, Others
  <2> QED
    BY <2>1, <2>2, FreshPartsNext
<1>6. NoOrphanClaim'
  <2>1. att' = att /\ Owns(p, k)'
    BY <1>1, <1>2 DEF Owns, BeforeLaunch
  <2>2. \A j \in Attempts \ {k} : ~Owns(p, j) /\ claim'[j] = claim[j]
    BY <1>3 DEF Owns
  <2>3. \A j \in Attempts :
           Ended(j)' \/ Owns(p, j)' \/ (~Ended(j) /\ ~Owns(p, j))
    BY <2>1, <2>2 DEF Ended, Owns
  <2> QED
    BY <1>1, <2>3, StaysOwned
<1> QED
  BY <1>5, <1>6

\* The script starts in the rootfs of the manifest.
LEMMA LaunchFresh ==
  ASSUME ControlInv, TypeInv, ClaimInv, HistoryInv, FreshInv, NoOrphanClaim,
         NEW p \in Procs, LaunchScript(p)
  PROVE  FreshInv' /\ NoOrphanClaim' /\ RootfsMatches(att[p])
<1> DEFINE k == att[p]
<1>1. /\ k \in Attempts /\ pc[p] = "launch" /\ pc'[p] = "wait" /\ Others(p)
      /\ UNCHANGED <<manifest, iterJson, rootfs, claim, att, runners, faults>>
  BY DEF LaunchScript, At, Goto, store, Others, TypeInv, TypeOK
<1>2. p \in runners /\ Owns(p, k) /\ claim[k] # None
  BY <1>1, OwnClaim DEF RunnerSteps, BeforeLaunch, ValidationSteps
<1>3. RootfsMatches(k)
  BY <1>1, <1>2 DEF FreshInv, BeforeLaunch
<1>4. /\ script'[k] = "setup"
      /\ \A j \in Attempts \ {k} : script'[j] = script[j]
  BY <1>1 DEF LaunchScript, TypeInv, TypeOK
<1>5. FreshInv'
  <2>1. ASSUME NEW j \in Attempts PROVE FreshAttempt(j)'
    <3>1. FreshAttempt(j)
      BY FreshParts
    <3> QED
      BY <3>1, <1>1, <1>3, <1>4 DEF FreshAttempt, RootfsMatches
  <2>2. ASSUME NEW q \in Procs PROVE FreshProcess(q)'
    <3>1. FreshProcess(q)
      BY FreshParts
    <3> QED
      BY <3>1, <1>1 DEF FreshProcess, RootfsMatches, ResetSteps, Others,
         BeforeLaunch
  <2> QED
    BY <2>1, <2>2, FreshPartsNext
<1>6. NoOrphanClaim'
  <2>1. \A j \in Attempts : Owns(p, j) => Owns(p, j)'
    BY <1>1 DEF Owns
  <2> QED
    BY <1>1, <2>1, StaysOwned DEF Ended
<1> QED
  BY <1>3, <1>5, <1>6

\* A reset starts over an untouched rootfs and frees the attempt at the end.
LEMMA ResetFresh ==
  ASSUME ControlInv, TypeInv, ClaimInv, HistoryInv, FreshInv, NoOrphanClaim,
         NEW p \in Procs, ResetSafeFailure(p) \/ ResetClaim(p)
  PROVE  FreshInv' /\ NoOrphanClaim'
<1>1. CASE ResetSafeFailure(p)
  <2>1. /\ pc[p] = "idle" /\ pc'[p] = "reset_run_dir" /\ Others(p)
        /\ att'[p] = session.n /\ RootfsMatches(session.n)
        /\ UNCHANGED <<manifest, iterJson, rootfs, script, claim, runners,
                       faults>>
    BY <1>1 DEF ResetSafeFailure, CanReset, At, Goto, store, run, Others,
       TypeInv, TypeOK
  <2>2. FreshInv'
    <3>1. ASSUME NEW j \in Attempts PROVE FreshAttempt(j)'
      BY <2>1, FreshParts DEF FreshAttempt, RootfsMatches
    <3>2. ASSUME NEW q \in Procs PROVE FreshProcess(q)'
      <4>1. FreshProcess(q)
        BY FreshParts
      <4> QED
        BY <4>1, <2>1 DEF FreshProcess, RootfsMatches, ResetSteps, Others,
           BeforeLaunch
    <3> QED
      BY <3>1, <3>2, FreshPartsNext
  <2>3. NoOrphanClaim'
    <3>1. \A j \in Attempts : ~Owns(p, j)
      BY <2>1 DEF Owns, BeforeLaunch, AfterLaunch, CompletionSteps
    <3> QED
      BY <2>1, <3>1, StaysOwned DEF Ended
  <2> QED
    BY <2>2, <2>3
<1>2. CASE ResetClaim(p)
  <2> DEFINE k == att[p]
  <2>1. /\ k \in Attempts /\ pc[p] = "reset_claim" /\ pc'[p] = "idle"
        /\ Others(p) /\ runners' = runners \ {p}
        /\ UNCHANGED <<manifest, iterJson, rootfs, script, faults>>
    BY <1>2 DEF ResetClaim, At, Goto, Exit, store, Others, TypeInv, TypeOK
  <2>2. claim'[k] = None /\ \A j \in Attempts \ {k} : claim'[j] = claim[j]
    BY <1>2, <2>1 DEF ResetClaim, TypeInv, TypeOK
  <2>3. RootfsMatches(k)
    BY <2>1 DEF FreshInv
  <2>4. FreshInv'
    <3>1. ASSUME NEW j \in Attempts PROVE FreshAttempt(j)'
      <4>1. FreshAttempt(j)
        BY FreshParts
      <4> QED
        BY <4>1, <2>1, <2>2, <2>3 DEF FreshAttempt, RootfsMatches
    <3>2. ASSUME NEW q \in Procs PROVE FreshProcess(q)'
      <4>1. FreshProcess(q)
        BY FreshParts
      <4> QED
        BY <4>1, <2>1 DEF FreshProcess, RootfsMatches, ResetSteps, Others,
           BeforeLaunch
    <3> QED
      BY <3>1, <3>2, FreshPartsNext
  <2>5. NoOrphanClaim'
    <3>1. \A j \in Attempts : ~Owns(p, j)
      BY <2>1 DEF Owns, BeforeLaunch, AfterLaunch, CompletionSteps
    <3>2. \A j \in Attempts : Ended(j)' \/ ~Ended(j)
      BY <2>2 DEF Ended
    <3> QED
      BY <2>1, <3>1, <3>2, StaysOwned
  <2> QED
    BY <2>4, <2>5
<1> QED
  BY <1>1, <1>2

\* The script of attempt k works on a claimed rootfs that nobody is about to
\* launch or reset; up to the guest it adds the mount point at most.
LEMMA ScriptFresh ==
  ASSUME TypeInv, TypeInv', ClaimInv, HistoryInv, FreshInv, NoOrphanClaim,
         NEW k \in Attempts, Script(k) \/ ScriptKilled(k)
  PROVE  FreshInv' /\ NoOrphanClaim'
<1>1. /\ UNCHANGED <<manifest, iterJson, claim, pc, att, runners>>
      /\ faults' = 0 => faults = 0
      /\ \A j \in Attempts \ {k} : rootfs'[j] = rootfs[j] /\ script'[j] = script[j]
      /\ script[k] \in {"setup", "mounted", "marked", "guest"}
      /\ script'[k] # "setup"
      /\ script'[k] \in {"mounted", "marked"} =>
           rootfs'[k] = manifest[k] \cup
                          IF Backend = "qemu" THEN {QemuMount} ELSE {}
  <2>0. FreshAttempt(k)
    BY FreshParts
  <2> USE DEF ScriptStep, TypeInv, TypeOK, store, procs
  <2>1. CASE ScriptMounts(k)
    BY <2>0, <2>1 DEF ScriptMounts, FreshAttempt, RootfsMatches
  <2>2. CASE ScriptAborts(k)
    BY <2>2 DEF ScriptAborts
  <2>3. CASE WriteMarker(k)
    BY <2>0, <2>3 DEF WriteMarker, FreshAttempt
  <2>4. CASE RunGuest(k)
    BY <2>4 DEF RunGuest
  <2>5. CASE NativeSyntaxError(k)
    BY <2>5 DEF NativeSyntaxError
  <2>6. CASE RecordExit(k)
    BY <2>6 DEF RecordExit
  <2>7. CASE ScriptKilled(k)
    BY <2>7, ConstantsAssumption DEF ScriptKilled
  <2> QED
    BY <2>1, <2>2, <2>3, <2>4, <2>5, <2>6, <2>7 DEF Script, GuestCommand
<1>2. ~Quiet(k)
  BY <1>1 DEF Quiet
<1>3. claim[k] # None
  BY <1>2 DEF ClaimInv, GuestInv
<1>4. \A q \in Procs : /\ q \in runners /\ pc[q] \in BeforeLaunch => att[q] # k
                       /\ pc[q] \in ResetSteps => att[q] # k
                       /\ att[q] \in Attempts
  <2>1. \A q \in Procs : q \in runners /\ pc[q] \in BeforeLaunch => att[q] # k
    BY <1>2 DEF ClaimInv, OwnerInv, Owns, BeforeLaunch
  <2>2. \A q \in Procs : pc[q] \in ResetSteps => att[q] # k
    BY <1>2 DEF ClaimInv, ResetInv, GuestInv, ResetSteps
  <2> QED
    BY <2>1, <2>2 DEF TypeInv, TypeOK
<1>5. rootfs[k] # None
  BY <1>1 DEF TypeInv, RootfsInv
<1>6. rootfs'[k] # None
  <2>1. script'[k] # "off"
    BY DEF Script, GuestCommand, ScriptKilled, ScriptMounts, ScriptAborts,
       WriteMarker, RunGuest, NativeSyntaxError, RecordExit, ScriptStep,
       TypeInv, TypeOK
  <2> QED
    BY <2>1 DEF TypeInv, RootfsInv
<1>7. FreshInv'
  <2>1. ASSUME NEW j \in Attempts PROVE FreshAttempt(j)'
    <3>1. FreshAttempt(j)
      BY FreshParts
    <3>2. CASE j = k
      BY <3>1, <3>2, <1>1, <1>3, <1>5, <1>6 DEF FreshAttempt
    <3>3. CASE j # k
      BY <3>1, <3>3, <1>1 DEF FreshAttempt, RootfsMatches
    <3> QED
      BY <3>2, <3>3
  <2>2. ASSUME NEW q \in Procs PROVE FreshProcess(q)'
    <3>1. FreshProcess(q)
      BY FreshParts
    <3> QED
      BY <3>1, <1>1, <1>4 DEF FreshProcess, RootfsMatches
  <2> QED
    BY <2>1, <2>2, FreshPartsNext
<1>8. NoOrphanClaim'
  BY <1>1 DEF NoOrphanClaim, Owns
<1> QED
  BY <1>7, <1>8

\* Every step preserves the rootfs invariant and keeps open claims owned.
LEMMA StepFresh ==
  ASSUME ControlInv, TypeInv, ClaimInv, HistoryInv, FreshInv, NoOrphanClaim,
         [Next]_vars
  PROVE  FreshInv' /\ NoOrphanClaim'
<1>1. CASE \E p \in Procs : Start(p) \/ Step(p) \/ Crash(p) \/ IOFault(p)
                          \/ ClaimUpdateFails(p)
  <2>1. PICK p \in Procs : Start(p) \/ Step(p) \/ Crash(p) \/ IOFault(p)
                            \/ ClaimUpdateFails(p)
    BY <1>1
  <2>2. CASE \/ WriteClaim(p) \/ MarkValidated(p) \/ MarkPrepared(p)
             \/ MarkExecuting(p) \/ MarkPostprocessing(p) \/ MarkCompleting(p)
    <3> USE DEF RunnerSteps, ValidationSteps, BeforeLaunch, AfterLaunch,
                CompletionSteps, ClaimStages
    <3>1. CASE WriteClaim(p)
      BY <3>1, UpdateFresh DEF WriteClaim
    <3>2. CASE MarkValidated(p)
      BY <3>2, UpdateFresh DEF MarkValidated
    <3>3. CASE MarkPrepared(p)
      BY <3>3, UpdateFresh DEF MarkPrepared
    <3>4. CASE MarkExecuting(p)
      BY <3>4, UpdateFresh DEF MarkExecuting
    <3>5. CASE MarkPostprocessing(p)
      BY <3>5, UpdateFresh DEF MarkPostprocessing
    <3>6. CASE MarkCompleting(p)
      BY <3>6, UpdateFresh DEF MarkCompleting
    <3> QED
      BY <2>2, <3>1, <3>2, <3>3, <3>4, <3>5, <3>6
  <2> QED
    BY <2>1, <2>2, PrepareFresh, CompleteFresh, RunFresh, FaultFresh,
       PublishFresh, EndFresh, CreateFresh, LaunchFresh, ResetFresh
    DEF Start, Step
<1>2. CASE \E k \in Attempts : Script(k) \/ ScriptKilled(k)
  BY <1>2, StepTypes, ScriptFresh
<1>3. CASE UNCHANGED vars
  BY <1>3 DEF FreshInv, RootfsMatches, NoOrphanClaim, Owns, vars, store, run,
     procs
<1> QED
  BY <1>1, <1>2, <1>3 DEF Next, Fault

-----------------------------------------------------------------------------
(* Theorems                                                                *)

SessionInvariant ==
  /\ ControlInv /\ TypeInv /\ ClaimInv
  /\ HistoryInv /\ FreshInv /\ NoOrphanClaim

\* The control, type and claim invariants together with those of this module are
\* an inductive invariant of the session.
THEOREM SessionInductive == Spec => []SessionInvariant
<1>1. Init => SessionInvariant
  BY InitControl, InitTypes, InitClaims, InitHistory DEF SessionInvariant
<1>2. SessionInvariant /\ [Next]_vars => SessionInvariant'
  BY StepControl, StepTypes, StepClaims, StepHistory, StepFresh
  DEF SessionInvariant
<1> QED
  BY <1>1, <1>2, PTL DEF Spec

\* prepare_next and derive_environment_manifest_from_repair: each environment is
\* its parent plus the automatic repairs of the parent's accepted observation,
\* for any number of interrupted and repeated prepare_next.
THEOREM LineageIsKept == Spec => []EnvironmentLineage
<1>1. SessionInvariant => EnvironmentLineage
  BY DEF SessionInvariant, HistoryInv
<1> QED
  BY <1>1, SessionInductive, PTL

\* Every exception after _create_claim ends up in the claim: without a crash, a
\* claim that has not come to an end has a live owner.
THEOREM ClaimsAreNotOrphaned == Spec => []NoOrphanClaim
<1>1. SessionInvariant => NoOrphanClaim
  BY DEF SessionInvariant
<1> QED
  BY <1>1, SessionInductive, PTL

\* IterationController.verify accepts the session whenever it gets the lock, as
\* long as nothing crashed and no write failed: refused repairs, rejected bundles,
\* lost claims and failed runs never break it.
THEOREM SessionsVerify == Spec => []VerifiesUnlessFaulty
<1>1. SessionInvariant => VerifiesUnlessFaulty
  <2> SUFFICES ASSUME SessionInvariant, lock = NoProc, faults = 0
               PROVE  VerifyOK
    BY DEF VerifiesUnlessFaulty
  <2>1. \A S \in SUBSET LockedSteps : ~Busy(S)
    BY NobodyInside DEF SessionInvariant, Busy
  <2>2. \A k \in Attempts :
          /\ ~(manifest[k] # None /\ k > 1 /\ k > session.n)
          /\ ~(k \in contract /\ k > session.n)
          /\ iterJson[k] = session.iter[k]
          /\ ~(result[k] # None /\ session.iter[k] # "completed")
    BY <2>1 DEF SessionInvariant, HistoryInv, TidyInv, LockedSteps
  <2>3. TypeInv /\ contract \subseteq Attempts
    BY DEF SessionInvariant, TypeInv, TypeOK
  <2>4. \A k \in Attempts : manifest[k] # None <=> k = 1 \/ k <= session.n
    <3>1. \A k \in Attempts : k = 1 \/ k <= session.n => manifest[k] # None
      <4>1. \A k \in Attempts : k <= session.n => k \in 1 .. session.n
        BY <2>3, Fields
      <4> QED
        BY <2>3, <4>1 DEF TypeInv, ParentInv
    <3>2. \A k \in Attempts : k = 1 \/ k > 1
      BY <2>3, Fields
    <3>3. \A k \in Attempts : k > session.n \/ k <= session.n
      BY <2>3, Fields
    <3> QED
      BY <2>2, <3>1, <3>2, <3>3
  <2>5. contract = 1 .. session.n
    <3>1. \A k \in Attempts : k <= session.n => k \in contract
      BY DEF SessionInvariant, HistoryInv, VersionInv
    <3>2. \A k \in 1 .. session.n : k \in Attempts /\ k <= session.n
      BY <2>3, Fields
    <3>3. \A k \in contract : k \in 1 .. session.n
      BY <2>2, <2>3, Fields
    <3> QED
      BY <3>1, <3>2, <3>3
  <2>6. ASSUME NEW k \in 1 .. session.n
        PROVE  /\ manifest[k] \in snapshots
               /\ iterJson[k] = session.iter[k]
               /\ session.iter[k] = "completed" <=> result[k] # None
               /\ session.iter[k] = "completed" =>
                    /\ k \in artifacts
                    /\ observation[k] = result[k].observation
    <3>1. k \in Attempts /\ k <= session.n
      BY <2>3, Fields
    <3>2. manifest[k] \in snapshots
      BY <2>4, <3>1 DEF SessionInvariant, HistoryInv, VersionInv
    <3> QED
      BY <2>2, <3>1, <3>2 DEF SessionInvariant, HistoryInv, RecordInv
  <2> QED
    BY <2>4, <2>5, <2>6 DEF VerifyOK, SessionInvariant, HistoryInv, SessionInv
<1> QED
  BY <1>1, SessionInductive, PTL

\* _decide_stop_reason and _resolve_attempt_session_transition never leave an
\* active session at a dead end: there is budget and something to repair, and no
\* environment state was seen before.
THEOREM ActiveSessionsGoOn == Spec => []ActiveSessionCanContinue
<1>1. SessionInvariant => ActiveSessionCanContinue
  <2> SUFFICES ASSUME SessionInvariant, session.state = "active",
                      Tail = "completed"
               PROVE  /\ session.n < MaxIterations
                      /\ observation[session.n].plan # {}
                      /\ \A i \in 1 .. session.n - 1 :
                           StateFingerprint(i, observation[i]) #
                           StateFingerprint(session.n, observation[session.n])
    BY DEF ActiveSessionCanContinue
  <2> DEFINE n == session.n
             e == observation[n]
  <2>1. TypeInv /\ HistoryInv
    BY DEF SessionInvariant
  <2>2. n \in Attempts /\ n \in Nat /\ n <= MaxIterations /\ MaxIterations \in Nat
    BY <2>1, Fields DEF Tail
  <2>3. <<session.state, session.stop>>
          = ResolveTransition(result[n].outcome, DecideStopReason(n, e))
    BY <2>1 DEF HistoryInv, SessionInv, VerifyTerminalState
  <2>4. DecideStopReason(n, e) = "none"
    BY <2>3 DEF ResolveTransition
  <2>5. /\ ~SeenBefore(n, e, {n - 1} \cap Attempts)
        /\ ~SeenBefore(n, e, 1 .. n - 2)
        /\ e.plan # {} /\ ~(n >= MaxIterations)
    BY <2>4 DEF DecideStopReason
  <2>6. ASSUME NEW i \in 1 .. n - 1
        PROVE  StateFingerprint(i, observation[i]) # StateFingerprint(n, e)
    <3>1. i \in Attempts /\ i < n /\ i \in Nat
      BY <2>1, <2>2, Fields
    <3>2. observation[i] # None
      <4>1. result[i] # None
        BY <2>1, <3>1 DEF HistoryInv, SessionInv, RecordInv
      <4>2. result[i].observation \in Evidence
        BY <2>1, <3>1, <4>1 DEF TypeInv, TypeOK, Results
      <4> QED
        BY <2>1, <3>1, <4>1, <4>2, ConstantsAssumption DEF HistoryInv, RecordInv
    <3>3. i \in {n - 1} \cap Attempts \/ i \in 1 .. n - 2
      BY <2>2, <3>1
    <3> HIDE DEF n, e
    <3> QED
      BY <2>5, <3>2, <3>3 DEF SeenBefore
  <2> QED
    BY <2>2, <2>5, <2>6
<1> QED
  BY <1>1, SessionInductive, PTL

\* README: timeout and crash results terminate the session as "failed".  They are
\* the only ones: execution_exited_without_goal is never reached.
THEOREM FailuresAreTimeoutsOrCrashes == Spec => []FailedMeansTimeoutOrCrash
<1>1. SessionInvariant => FailedMeansTimeoutOrCrash
  <2> SUFFICES ASSUME SessionInvariant, session.state = "failed"
               PROVE  /\ Tail = "completed"
                      /\ result[session.n].outcome \in {"timed_out", "crashed"}
    BY DEF FailedMeansTimeoutOrCrash
  <2> DEFINE n == session.n
             e == observation[n]
  <2>1. TypeInv /\ HistoryInv
    BY DEF SessionInvariant
  <2>2. Tail = "completed"
    BY <2>1 DEF HistoryInv, SessionInv, VerifyTerminalState
  <2>3. n \in Attempts
    BY <2>1, <2>2, Fields DEF Tail
  <2>4. <<session.state, session.stop>>
          = ResolveTransition(result[n].outcome, DecideStopReason(n, e))
    BY <2>1, <2>2 DEF HistoryInv, SessionInv, VerifyTerminalState
  <2>5. result[n].outcome = OutcomeOf(e)
    <3>1. session.iter[n] = "completed"
      BY <2>2 DEF Tail
    <3> QED
      BY <2>1, <2>3, <3>1 DEF HistoryInv, RecordInv
  <2>6. \/ OutcomeOf(e) \in {"timed_out", "crashed"}
        \/ /\ DecideStopReason(n, e) = "none"
           /\ OutcomeOf(e) \notin {"goal_reached", "repair_required"}
    BY <2>4, <2>5 DEF ResolveTransition
  <2>7. DecideStopReason(n, e) = "none" => e.plan # {} /\ ~e.goal
    BY DEF DecideStopReason
  <2> HIDE DEF e, n
  <2>8. OutcomeOf(e) \in {"timed_out", "crashed"}
    BY <2>6, <2>7 DEF OutcomeOf
  <2> QED
    BY <2>2, <2>5, <2>8 DEF n
<1> QED
  BY <1>1, SessionInductive, PTL

-----------------------------------------------------------------------------
(* What a step may do                                                      *)

\* The steps that write a file of the session.
StoreStep(p) ==
  \/ BuildRepairedSnapshot(p) \/ SaveManifest(p) \/ SaveContract(p)
  \/ PublishIteration(p) \/ CommitPrepared(p) \/ InstallArtifacts(p)
  \/ SaveObservation(p) \/ SaveResult(p) \/ CompleteIterJson(p)
  \/ CommitCompleted(p)

\* No other step writes one, and those steps leave claims and scripts alone.
LEMMA StoreSteps ==
  ASSUME [Next]_vars
  PROVE  \/ UNCHANGED store
         \/ \E p \in Procs : StoreStep(p) /\ UNCHANGED <<claim, script, executed>>
<1>1. CASE \E p \in Procs : Start(p)
  BY <1>1 DEF Start, PrepareNext, CompleteIteration, BeginVerify, StartRun,
     ResetSafeFailure
<1>2. CASE \E p \in Procs : Step(p)
  <2>1. PICK p \in Procs : Step(p)
    BY <1>2
  <2>2. CASE StoreStep(p)
    BY <2>2 DEF StoreStep, BuildRepairedSnapshot, SaveManifest, SaveContract,
       PublishIteration, CommitPrepared, InstallArtifacts, SaveObservation,
       SaveResult, CompleteIterJson, CommitCompleted, run
  <2>3. CASE ~StoreStep(p)
    BY <2>1, <2>3 DEF StoreStep, Step, RepairRefused, ManifestImmutable,
       PublishRefused, BundleRejected, CompletionFails, EndVerify, CheckRootfs,
       CheckClaim, CreateClaim, ClaimLost, UpdateClaim, WriteClaim,
       MarkValidated, PrepareRunDirectory, MarkPrepared, SetUpHost,
       MarkExecuting, LaunchScript, ScriptReturned, MarkPostprocessing,
       Postprocess, MarkCompleting, RunnerCompletes, MarkCompleted,
       RunnerRaises, RecordFailure, ResetRunDir, ResetClaim
  <2> QED
    BY <2>2, <2>3
<1>3. CASE Fault
  BY <1>3 DEF Fault, Crash, IOFault, CompletionFails, ClaimUpdateFails,
     ScriptKilled
<1>4. CASE \E k \in Attempts : Script(k)
  BY <1>4 DEF Script, ScriptMounts, ScriptAborts, WriteMarker, GuestCommand,
     RunGuest, NativeSyntaxError, RecordExit
<1>5. CASE UNCHANGED vars
  BY <1>5 DEF vars
<1> QED
  BY <1>1, <1>2, <1>3, <1>4, <1>5 DEF Next

\* Only the launch and the script itself change its state, only the script starts
\* the guest, and only a reset removes a claim.
LEMMA RunSteps ==
  ASSUME TypeInv, [Next]_vars
  PROVE  /\ \/ UNCHANGED <<script, executed>>
            \/ \E p \in Procs : LaunchScript(p) /\ UNCHANGED executed
            \/ \E k \in Attempts : Script(k) \/ ScriptKilled(k)
         /\ \/ \A k \in Attempts : claim[k] # None => claim'[k] # None
            \/ \E p \in Procs : ResetClaim(p)
<1>1. CASE \E p \in Procs : Start(p)
  BY <1>1 DEF Start, PrepareNext, CompleteIteration, BeginVerify, StartRun,
     ResetSafeFailure, run
<1>2. CASE \E p \in Procs : Step(p)
  <2>1. PICK p \in Procs : Step(p)
    BY <1>2
  <2>2. CASE ResetClaim(p)
    BY <2>2 DEF ResetClaim
  <2>3. CASE UNCHANGED <<claim, script, executed>>
    BY <2>3
  <2>4. CASE LaunchScript(p)
    BY <2>4 DEF LaunchScript
  <2>5. CASE \E c \in Claims : /\ claim' = [claim EXCEPT ![att[p]] = c]
                               /\ UNCHANGED <<script, executed>>
    BY <2>5, ConstantsAssumption DEF TypeInv, TypeOK
  <2>6. CASE CreateClaim(p) \/ MarkCompleted(p)
    BY <2>5, <2>6 DEF CreateClaim, MarkCompleted, Claims, ClaimStages
  <2>7. CASE RecordFailure(p)
    <3> DEFINE c == [stage |-> "failed", started |-> att[p] \in marker,
                     retrySafe |-> att[p] \notin marker /\ RootfsMatches(att[p])]
    <3>1. c \in Claims
      BY DEF Claims, ClaimStages, RootfsMatches
    <3>2. claim' = [claim EXCEPT ![att[p]] = c] /\ UNCHANGED <<script, executed>>
      BY <2>7 DEF RecordFailure
    <3> HIDE DEF c
    <3> QED
      BY <2>5, <3>1, <3>2
  <2>8. ASSUME NEW from, NEW stage \in ClaimStages, NEW to,
               UpdateClaim(p, from, stage, to)
        PROVE  \E c \in Claims : /\ claim' = [claim EXCEPT ![att[p]] = c]
                                 /\ UNCHANGED <<script, executed>>
    <3> DEFINE c == [stage |-> stage,
                     started |-> stage \in {"postprocessing", "completing",
                                            "completed"},
                     retrySafe |-> FALSE]
    <3>1. c \in Claims
      BY DEF Claims
    <3>2. claim' = [claim EXCEPT ![att[p]] = c] /\ UNCHANGED <<script, executed>>
      BY <2>8 DEF UpdateClaim
    <3> HIDE DEF c
    <3> QED
      BY <3>1, <3>2
  <2>9. CASE \/ WriteClaim(p) \/ MarkValidated(p) \/ MarkPrepared(p)
             \/ MarkExecuting(p) \/ MarkPostprocessing(p) \/ MarkCompleting(p)
    <3>1. \E c \in Claims : /\ claim' = [claim EXCEPT ![att[p]] = c]
                            /\ UNCHANGED <<script, executed>>
      BY <2>8, <2>9 DEF WriteClaim, MarkValidated, MarkPrepared, MarkExecuting,
         MarkPostprocessing, MarkCompleting, ClaimStages
    <3> QED
      BY <2>5, <3>1
  <2> QED
    BY <2>1, <2>2, <2>3, <2>4, <2>6, <2>7, <2>9
    DEF Step, BuildRepairedSnapshot, SaveManifest, SaveContract,
       PublishIteration, CommitPrepared, InstallArtifacts, SaveObservation,
       SaveResult, CompleteIterJson, CommitCompleted, run, RepairRefused,
       ManifestImmutable, PublishRefused, BundleRejected, CompletionFails,
       EndVerify, CheckRootfs, CheckClaim, ClaimLost, PrepareRunDirectory,
       SetUpHost, ScriptReturned, Postprocess, RunnerCompletes, RunnerRaises,
       ResetRunDir
<1>3. CASE \E p \in Procs : Crash(p) \/ IOFault(p) \/ ClaimUpdateFails(p)
  BY <1>3 DEF Crash, IOFault, CompletionFails, ClaimUpdateFails, run
<1>4. CASE \E k \in Attempts : Script(k) \/ ScriptKilled(k)
  <2>1. UNCHANGED claim
    BY <1>4 DEF Script, ScriptMounts, ScriptAborts, WriteMarker, GuestCommand,
       RunGuest, NativeSyntaxError, RecordExit, ScriptKilled
  <2> QED
    BY <1>4, <2>1
<1>5. CASE UNCHANGED vars
  BY <1>5 DEF vars, run
<1> QED
  BY <1>1, <1>2, <1>3, <1>4, <1>5 DEF Next, Fault

\* EnvironmentManifestStore.save, AttemptStore.save_result and the snapshot store
\* are append-only: no step changes or removes a version, a result, the
\* observation it was computed from, a contract or a snapshot.
THEOREM StoresAreAppendOnly == Spec => AppendOnlyStores
<1> DEFINE Kept ==
      /\ snapshots \subseteq snapshots'
      /\ contract \subseteq contract'
      /\ \A k \in Attempts :
           /\ manifest[k] # None => manifest'[k] = manifest[k]
           /\ result[k] # None => result'[k] = result[k]
           /\ result[k] # None => observation'[k] = observation[k]
<1>1. SessionInvariant /\ [Next]_vars => Kept
  <2> SUFFICES ASSUME SessionInvariant, [Next]_vars
               PROVE  Kept
    OBVIOUS
  <2>1. CASE UNCHANGED store
    BY <2>1 DEF store
  <2>2. CASE \E p \in Procs : StoreStep(p)
    <3>1. PICK p \in Procs : StoreStep(p)
      BY <2>2
    <3>2. CASE SaveManifest(p)
      BY <3>2 DEF SaveManifest, SessionInvariant, TypeInv, TypeOK
    <3>3. CASE SaveObservation(p)
      <4>1. result[att[p]] = None
        BY <3>3 DEF SaveObservation, At, SessionInvariant, HistoryInv, HolderInv
      <4> QED
        BY <3>3, <4>1 DEF SaveObservation, SessionInvariant, TypeInv, TypeOK
    <3>4. CASE SaveResult(p)
      BY <3>4 DEF SaveResult, SessionInvariant, TypeInv, TypeOK
    <3> QED
      BY <3>1, <3>2, <3>3, <3>4 DEF StoreStep, BuildRepairedSnapshot,
         SaveContract, PublishIteration, CommitPrepared, InstallArtifacts,
         CompleteIterJson, CommitCompleted
  <2> QED
    BY <2>1, <2>2, StoreSteps
<1> QED
  BY <1>1, SessionInductive, PTL DEF Spec, AppendOnlyStores

\* _execute_guest: the script, and in it the guest, starts in exactly the
\* environment the manifest names, although validate compares digests without
\* the lock and long before the launch.
THEOREM GuestsStartFromSnapshots == Spec => GuestStartsFromSnapshot
<1> DEFINE Starts ==
      \A k \in Attempts :
        /\ script'[k] = "setup" => rootfs[k] = manifest[k]
        /\ executed'[k] # executed[k] => rootfs[k] = manifest[k] \cup {QemuMount}
<1>1. SessionInvariant /\ [Next]_vars => Starts
  <2> SUFFICES ASSUME SessionInvariant, [Next]_vars, NEW k \in Attempts
               PROVE  /\ script'[k] = "setup" => rootfs[k] = manifest[k]
                      /\ executed'[k] # executed[k] =>
                           rootfs[k] = manifest[k] \cup {QemuMount}
    OBVIOUS
  <2>0. /\ script[k] = "setup" => rootfs[k] = manifest[k]
        /\ script[k] = "marked" =>
             rootfs[k] = manifest[k] \cup
                           IF Backend = "qemu" THEN {QemuMount} ELSE {}
    BY DEF SessionInvariant, FreshInv, RootfsMatches
  <2>t. script \in [Attempts -> ScriptStates] /\ executed \in [Attempts -> Nat]
    BY DEF SessionInvariant, TypeInv, TypeOK
  <2>1. CASE UNCHANGED <<script, executed>>
    BY <2>0, <2>1
  <2>2. CASE \E p \in Procs : LaunchScript(p) /\ UNCHANGED executed
    <3>1. PICK p \in Procs : LaunchScript(p) /\ UNCHANGED executed
      BY <2>2
    <3>2. RootfsMatches(att[p])
      BY <3>1, LaunchFresh DEF SessionInvariant
    <3> QED
      BY <2>0, <2>t, <3>1, <3>2 DEF LaunchScript, RootfsMatches
  <2>3. CASE \E j \in Attempts : Script(j) \/ ScriptKilled(j)
    <3>1. PICK j \in Attempts : Script(j) \/ ScriptKilled(j)
      BY <2>3
    <3>2. CASE RunGuest(j) /\ Backend # "native"
      BY <2>0, <2>t, <3>2, ConstantsAssumption DEF RunGuest, ScriptStep
    <3>3. CASE ~(RunGuest(j) /\ Backend # "native")
      <4>1. UNCHANGED executed
        BY <3>1, <3>3 DEF Script, ScriptMounts, ScriptAborts, WriteMarker,
           GuestCommand, NativeSyntaxError, RecordExit, ScriptKilled
      <4>2. script'[k] # "setup" \/ script'[k] = script[k]
        BY <3>1, <2>t DEF Script, ScriptMounts, ScriptAborts, WriteMarker,
           GuestCommand, NativeSyntaxError, RunGuest, RecordExit, ScriptKilled,
           ScriptStep
      <4> QED
        BY <2>0, <4>1, <4>2
    <3> QED
      BY <3>2, <3>3
  <2> QED
    BY <2>1, <2>2, <2>3, RunSteps DEF SessionInvariant
<1> QED
  BY <1>1, SessionInductive, PTL DEF Spec, GuestStartsFromSnapshot

\* reset_safe_failure frees only an attempt whose guest never ran, whose script
\* is not running and whose rootfs is untouched, for any number of runners,
\* orphaned scripts and crashes before it.
THEOREM ResetsAreSafe == Spec => ResetIsSafe
<1> DEFINE Safe ==
      \A k \in Attempts : claim[k] # None /\ claim'[k] = None =>
        /\ executed[k] = 0
        /\ script[k] \in {"off", "ended"}
        /\ RootfsMatches(k)
<1>1. SessionInvariant /\ [Next]_vars => Safe
  <2> SUFFICES ASSUME SessionInvariant, [Next]_vars, NEW k \in Attempts,
                      claim[k] # None, claim'[k] = None
               PROVE  /\ executed[k] = 0
                      /\ script[k] \in {"off", "ended"}
                      /\ RootfsMatches(k)
    OBVIOUS
  <2>1. PICK p \in Procs : ResetClaim(p)
    BY RunSteps DEF SessionInvariant
  <2>2. att[p] = k /\ pc[p] = "reset_claim"
    BY <2>1 DEF ResetClaim, At, SessionInvariant, TypeInv, TypeOK
  <2>3. Failed(k) /\ executed[k] = 0
    BY <2>2 DEF SessionInvariant, ClaimInv, ResetInv
  <2>4. Quiet(k)
    BY <2>3 DEF SessionInvariant, ClaimInv, GuestInv
  <2>5. RootfsMatches(k)
    BY <2>2 DEF SessionInvariant, FreshInv
  <2> QED
    BY <2>3, <2>4, <2>5 DEF Quiet
<1> QED
  BY <1>1, SessionInductive, PTL DEF Spec, ResetIsSafe

-----------------------------------------------------------------------------
(* The refinement                                                          *)

\* The initial files are those of an empty ledger.
LEMMA LedgerInit == Init => Ledger!LInit
<1> SUFFICES ASSUME Init
             PROVE  Ledger!LInit
  OBVIOUS
<1>1. {k \in Attempts : executed[k] > 0} = {}
  BY DEF Init
<1>2. [k \in Attempts |-> IF result[k] = None THEN "none" ELSE result[k].outcome]
        = [k \in Ledger!Ids |-> "none"]
  BY DEF Init, Ledger!Ids, Attempts
<1> QED
  BY <1>1, <1>2 DEF Init, Ledger!LInit

\* The ledger changes only when a contract or a result is saved, the session is
\* committed, or a guest starts.
LEMMA LedgerStutters ==
  ASSUME UNCHANGED <<contract, executed, result>>, session'.state = session.state
  PROVE  UNCHANGED Ledger!lvars
  BY DEF Ledger!lvars

\* Saving a contract opens the attempt, unless an interrupted prepare_next had
\* already opened it.
LEMMA LedgerOpens ==
  ASSUME SessionInvariant, NEW p \in Procs, SaveContract(p), UNCHANGED executed
  PROVE  [Ledger!LNext]_(Ledger!lvars)
<1> DEFINE k == att[p]
<1>1. UNCHANGED <<executed, result, session>> /\ contract' = contract \cup {k}
  BY DEF SaveContract
<1>2. CASE k \in contract
  BY <1>1, <1>2, LedgerStutters
<1>3. CASE k \notin contract
  <2>1. TypeInv /\ HistoryInv /\ k = session.n + 1 /\ CanPrepare
    BY DEF SessionInvariant, HistoryInv, HolderInv, SaveContract, At,
       PrepareSteps
  <2>2. k \in Attempts /\ session.n \in Nat
    BY <2>1, Fields
  <2>3. ASSUME NEW j \in 1 .. k - 1
        PROVE  /\ j \in contract /\ j \in Attempts /\ result[j] # None
               /\ result[j].outcome = "repair_required"
    <3>1. j \in Attempts /\ j <= session.n /\ j \in Nat
      BY <2>1, <2>2, Fields
    <3>2. j \in contract
      BY <2>1, <3>1 DEF HistoryInv, VersionInv
    <3>3. CASE j < session.n
      <4>1. result[j] # None
        BY <2>1, <3>1, <3>3 DEF HistoryInv, SessionInv, RecordInv
      <4> QED
        BY <2>1, <3>1, <3>2, <3>3, <4>1 DEF HistoryInv, RecordInv
    <3>4. CASE j = session.n
      BY <2>1, <2>2, <3>1, <3>2, <3>4, Fields DEF CanPrepare
    <3> QED
      BY <2>2, <3>1, <3>3, <3>4
  <2>4. session.state = "active"
    BY <2>1 DEF CanPrepare
  <2>5. Ledger!Open(k)
    BY <1>1, <1>3, <2>3, <2>4 DEF Ledger!Open
  <2> QED
    BY <2>2, <2>5 DEF Ledger!LNext, Ledger!Ids, Attempts
<1> QED
  BY <1>2, <1>3

\* Saving a result records the outcome of the last attempt.
LEMMA LedgerRecords ==
  ASSUME SessionInvariant, NEW p \in Procs, SaveResult(p), UNCHANGED executed
  PROVE  [Ledger!LNext]_(Ledger!lvars)
<1>0. PICK k \in Attempts : k = att[p]
  BY Fields DEF SessionInvariant
<1> DEFINE r == [outcome |-> OutcomeOf(ev[p]), observation |-> ev[p]]
<1>1. UNCHANGED <<executed, contract, session>> /\ result[k] = None
  BY <1>0 DEF SaveResult
<1>2. /\ k \in Attempts /\ k = session.n /\ session.n \in Nat
      /\ session.state = "active" /\ session.iter[session.n] = "prepared"
      /\ ev[p] \in Evidence
  BY <1>0, Completing DEF SessionInvariant, SaveResult, At, CompletionSteps
<1>3. r # None
  BY <1>2, ConstantsAssumption DEF Results, Outcomes, OutcomeOf
<1>4. result'[k] = r /\ \A j \in Attempts \ {k} : result'[j] = result[j]
  BY <1>0, <1>2 DEF SaveResult, SessionInvariant, TypeInv, TypeOK
<1>5. k \in contract /\ k + 1 \notin contract
  <2>1. k \in contract
    BY <1>2 DEF SessionInvariant, HistoryInv, VersionInv
  <2>2. ASSUME k + 1 \in contract
        PROVE  FALSE
    <3>1. k + 1 \in Attempts /\ k + 1 > 1 /\ k + 1 > session.n
      BY <1>2, <2>2 DEF SessionInvariant, TypeInv, TypeOK, Attempts
    <3> QED
      BY <1>2, <2>2, <3>1 DEF SessionInvariant, HistoryInv, VersionInv
  <2> QED
    BY <2>1, <2>2
<1> DEFINE out  == [j \in Attempts |->
                     IF result[j] = None THEN "none" ELSE result[j].outcome]
           outp == [j \in Attempts |->
                     IF result'[j] = None THEN "none" ELSE result'[j].outcome]
<1>6. outp = [out EXCEPT ![k] = OutcomeOf(ev[p])]
  <2>1. r.outcome = OutcomeOf(ev[p])
    OBVIOUS
  <2> HIDE DEF r
  <2>2. \A j \in Attempts :
          outp[j] = IF j = k THEN OutcomeOf(ev[p]) ELSE out[j]
    BY <2>1, <1>3, <1>4
  <2> QED
    BY <2>2
<1>7. out[k] = "none" /\ OutcomeOf(ev[p]) \in Outcomes
  BY <1>1, <1>2 DEF OutcomeOf, Outcomes
<1>8. Ledger!Record(k)
  BY <1>1, <1>2, <1>5, <1>6, <1>7 DEF Ledger!Record
<1> QED
  BY <1>2, <1>8 DEF Ledger!LNext, Ledger!Ids, Attempts

\* Committing a completed attempt closes the ledger, or leaves it as it is.
LEMMA LedgerCloses ==
  ASSUME SessionInvariant, NEW p \in Procs, CommitCompleted(p),
         UNCHANGED executed
  PROVE  [Ledger!LNext]_(Ledger!lvars)
<1> DEFINE k == att[p]
<1>1. UNCHANGED <<executed, contract, result>>
  BY DEF CommitCompleted
<1>2. /\ k \in Attempts /\ k = session.n /\ session.n \in Nat
      /\ session.state = "active" /\ session.iter[session.n] = "prepared"
      /\ ev[p] \in Evidence
  BY Completing DEF SessionInvariant, CommitCompleted, At, CompletionSteps
<1>3. result[k] = [outcome |-> OutcomeOf(ev[p]), observation |-> ev[p]]
  BY DEF SessionInvariant, HistoryInv, HolderInv, CommitCompleted, At
<1>4. result[k] # None /\ result[k].outcome # "none"
  BY <1>2, <1>3, ConstantsAssumption DEF Results, Outcomes, OutcomeOf
<1>5. k \in contract /\ k + 1 \notin contract
  <2>1. k \in contract
    BY <1>2 DEF SessionInvariant, HistoryInv, VersionInv
  <2>2. ASSUME k + 1 \in contract
        PROVE  FALSE
    <3>1. k + 1 \in Attempts /\ k + 1 > 1 /\ k + 1 > session.n
      BY <1>2, <2>2 DEF SessionInvariant, TypeInv, TypeOK, Attempts
    <3> QED
      BY <1>2, <2>2, <3>1 DEF SessionInvariant, HistoryInv, VersionInv
  <2> QED
    BY <2>1, <2>2
<1>6. CASE session'.state = "active"
  BY <1>1, <1>2, <1>6, LedgerStutters
<1>7. CASE session'.state # "active"
  <2>1. Ledger!Close(k)
    BY <1>1, <1>2, <1>4, <1>5, <1>7 DEF Ledger!Close
  <2> QED
    BY <1>2, <2>1 DEF Ledger!LNext, Ledger!Ids, Attempts
<1> QED
  BY <1>6, <1>7

\* A guest that starts runs its attempt for the first time.
LEMMA LedgerRuns ==
  ASSUME SessionInvariant, NEW k \in Attempts, RunGuest(k)
  PROVE  [Ledger!LNext]_(Ledger!lvars)
<1>1. UNCHANGED <<contract, result, session>> /\ script[k] = "marked"
  BY DEF RunGuest, ScriptStep, store
<1>2. executed[k] = 0
  BY <1>1 DEF SessionInvariant, ClaimInv, GuestInv
<1>3. executed'[k] = 1 /\ \A j \in Attempts \ {k} : executed'[j] = executed[j]
  BY <1>2 DEF RunGuest, SessionInvariant, TypeInv, TypeOK
<1>4. k \in contract
  <2>1. rootfs[k] # None
    BY <1>1 DEF SessionInvariant, TypeInv, RootfsInv
  <2> QED
    BY <2>1 DEF SessionInvariant, FreshInv, HistoryInv, VersionInv
<1>5. {j \in Attempts : executed'[j] > 0}
        = {j \in Attempts : executed[j] > 0} \cup {k}
  BY <1>3
<1>6. k \notin {j \in Attempts : executed[j] > 0}
  BY <1>2
<1>7. Ledger!Run(k)
  BY <1>1, <1>4, <1>5, <1>6 DEF Ledger!Run
<1> QED
  BY <1>7 DEF Ledger!LNext, Ledger!Ids, Attempts

\* Every step of the session is a step of the ledger or leaves it as it is.
LEMMA LedgerSteps ==
  ASSUME SessionInvariant, [Next]_vars
  PROVE  [Ledger!LNext]_(Ledger!lvars)
<1>1. CASE \E p \in Procs : StoreStep(p) /\ UNCHANGED <<claim, script, executed>>
  <2>1. PICK p \in Procs : StoreStep(p) /\ UNCHANGED <<claim, script, executed>>
    BY <1>1
  <2>2. CASE CommitPrepared(p)
    <3>1. session'.state = session.state
      BY <2>2, Fields DEF CommitPrepared, SessionInvariant
    <3> QED
      BY <2>1, <2>2, <3>1, LedgerStutters DEF CommitPrepared
  <2>3. CASE \/ BuildRepairedSnapshot(p) \/ SaveManifest(p)
             \/ PublishIteration(p) \/ InstallArtifacts(p)
             \/ SaveObservation(p) \/ CompleteIterJson(p)
    BY <2>1, <2>3, LedgerStutters DEF BuildRepairedSnapshot, SaveManifest,
       PublishIteration, InstallArtifacts, SaveObservation, CompleteIterJson
  <2> QED
    BY <2>1, <2>2, <2>3, LedgerOpens, LedgerRecords, LedgerCloses DEF StoreStep
<1>2. CASE UNCHANGED store
  <2>1. UNCHANGED <<contract, result>> /\ session'.state = session.state
    BY <1>2 DEF store
  <2>2. CASE UNCHANGED executed
    BY <2>1, <2>2, LedgerStutters
  <2>3. CASE executed' # executed
    <3>1. PICK k \in Attempts : Script(k) \/ ScriptKilled(k)
      BY <2>3, RunSteps DEF SessionInvariant
    <3>2. RunGuest(k)
      BY <2>3, <3>1 DEF Script, ScriptMounts, ScriptAborts, WriteMarker,
         GuestCommand, NativeSyntaxError, RecordExit, ScriptKilled
    <3> QED
      BY <3>2, LedgerRuns
  <2> QED
    BY <2>2, <2>3
<1> QED
  BY <1>1, <1>2, StoreSteps

\* The files of a session implement the ledger: attempts open in order after a
\* repair_required result, run at most once and get one result, and nothing is
\* opened or recorded after the session has stopped, whatever processes, faults
\* and scripts do.
THEOREM SessionImplementsLedger == Spec => ImplementsLedger
<1>1. Init => Ledger!LInit
  BY LedgerInit
<1>2. SessionInvariant /\ [Next]_vars => [Ledger!LNext]_(Ledger!lvars)
  BY LedgerSteps
<1> QED
  BY <1>1, <1>2, SessionInductive, PTL DEF Spec, ImplementsLedger, Ledger!LSpec

-----------------------------------------------------------------------------
(* The synthesis loop                                                      *)

\* run() is under way exactly while a process holds the loop lock.
DriverInv ==
  /\ driver \in Procs \cup {NoProc}
  /\ driver = NoProc <=> lpc = "off"

\* What run() is about to write, and has written, about a completed session.
VerdictInv ==
  lpc = "finalize_completed" \/ outcome = "completed" =>
    session.state = "completed"

\* The death of a driver between two commands: only the count of faults changes.
DriverDies == /\ faults < MaxFaults
              /\ faults' = faults + 1
              /\ UNCHANGED <<store, run, procs>>

\* To the session a step of the loop is a step of some command, or none.
LEMMA LoopStepsSession ==
  ASSUME DriverInv, [LoopNext]_lvars
  PROVE  [Next]_vars \/ DriverDies
<1>1. CASE DriverStep
  <2>1. CASE VerifyFirst \/ VerifyPrepared \/ VerifyCompleted
    <3>1. lpc # "off"
      BY <2>1 DEF VerifyFirst, VerifyPrepared, VerifyCompleted, LoopVerify,
         LoopGoto
    <3>2. driver \in Procs
      BY <3>1 DEF DriverInv
    <3>3. PICK from, to : LoopVerify(from, to)
      BY <2>1 DEF VerifyFirst, VerifyPrepared, VerifyCompleted
    <3> QED
      BY <3>2, <3>3 DEF LoopVerify, Next, Start, Step
  <2>2. CASE LoopPrepare \/ LoopRun \/ DriverWorks
    <3>1. driver \in Procs
      BY <2>2 DEF LoopPrepare, LoopRun, DriverWorks, LoopGoto, DriverInv
    <3> QED
      BY <2>2, <3>1 DEF LoopPrepare, LoopRun, DriverWorks, Next, Start
  <2> QED
    BY <1>1, <2>1, <2>2 DEF DriverStep, OpenNew, OpenBound, OpenAdopt,
       OpenRefused, WriteBinding, LoadSession, LoadInto, LoopCheckClaim,
       LoopFinalize, Finalize
<1>2. CASE DriverCrash
  BY <1>2 DEF DriverCrash, DriverDies, DriverInv, Next, Fault
<1>3. CASE DriverIOFault
  BY <1>3 DEF DriverIOFault, DriverInv, Next, Fault
<1>4. CASE OperatorStep
  BY <1>4 DEF OperatorStep, Next, Fault
<1>5. CASE (\E k \in Attempts : ScriptRuns(k)) \/ ScriptFault
  BY <1>5 DEF ScriptRuns, ScriptFault, Next, Fault
<1>6. CASE (\E p \in Procs : StartLoop(p)) \/ InitializeSession
  BY <1>6 DEF StartLoop, InitializeSession
<1>7. CASE UNCHANGED lvars
  BY <1>7 DEF lvars
<1> QED
  BY <1>1, <1>2, <1>3, <1>4, <1>5, <1>6, <1>7 DEF LoopNext

\* Every step of the loop preserves the invariant of the session.
LEMMA LoopKeepsSession ==
  ASSUME SessionInvariant, DriverInv, [LoopNext]_lvars
  PROVE  SessionInvariant'
<1>1. CASE [Next]_vars
  BY <1>1, StepControl, StepTypes, StepClaims, StepHistory, StepFresh
  DEF SessionInvariant
<1>2. CASE DriverDies
  <2> USE DEF SessionInvariant, DriverDies, store, run, procs
  <2>1. faults' # 0 /\ faults' \in 0 .. MaxFaults
    BY <1>2, ConstantsAssumption DEF TypeInv, TypeOK
  <2>2. ControlInv'
    BY <1>2 DEF ControlInv
  <2>3. TypeInv'
    BY <1>2, <2>1 DEF TypeInv, TypeOK, BundleInv, ParentInv, RootfsInv,
       RepairsOnly
  <2>4. ClaimInv'
    BY <1>2 DEF ClaimInv, OwnerInv, OneOwnerPerClaim, GuestInv, ResetInv, Owns,
       Quiet, Failed
  <2>5. HistoryInv'
    BY <1>2, <2>1, RecordsUntouched
  <2>6. FreshInv'
    BY <1>2 DEF FreshInv, RootfsMatches
  <2>7. NoOrphanClaim'
    BY <2>1 DEF NoOrphanClaim
  <2> QED
    BY <2>2, <2>3, <2>4, <2>5, <2>6, <2>7
<1> QED
  BY <1>1, <1>2, LoopStepsSession

\* A completed session stays completed.
LEMMA CompletedForGood ==
  ASSUME SessionInvariant, DriverInv, [LoopNext]_lvars,
         session.state = "completed"
  PROVE  session'.state = "completed"
<1>1. CASE UNCHANGED store
  BY <1>1 DEF store
<1>2. CASE \E p \in Procs : StoreStep(p)
  <2>1. PICK p \in Procs : StoreStep(p)
    BY <1>2
  <2>2. CASE CommitPrepared(p)
    BY <2>2 DEF CommitPrepared, At, SessionInvariant, HistoryInv, HolderInv,
       PrepareSteps, CanPrepare
  <2>3. CASE CommitCompleted(p)
    BY <2>3 DEF CommitCompleted, At, SessionInvariant, HistoryInv, HolderInv,
       CompletionSteps
  <2> QED
    BY <2>1, <2>2, <2>3 DEF StoreStep, BuildRepairedSnapshot, SaveManifest,
       SaveContract, PublishIteration, InstallArtifacts, SaveObservation,
       SaveResult, CompleteIterJson
<1> QED
  BY <1>1, <1>2, LoopStepsSession, StoreSteps DEF DriverDies

\* Every step of the loop preserves what it knows of the driver and its verdict.
LEMMA LoopSteps ==
  ASSUME SessionInvariant, DriverInv, VerdictInv, [LoopNext]_lvars
  PROVE  DriverInv' /\ VerdictInv'
<1>1. DriverInv'
  BY NoProcAssumption
  DEF DriverInv, LoopNext, lvars, loopVars, StartLoop, InitializeSession,
      DriverStep, OpenNew, OpenBound, OpenAdopt, OpenRefused, WriteBinding,
      VerifyFirst, VerifyPrepared, VerifyCompleted, LoopVerify, LoadSession,
      LoadInto, LoopPrepare, LoopCheckClaim, LoopRun, DriverWorks, LoopFinalize,
      Finalize, LoopGoto, LoopEnds, DriverCrash, DriverIOFault, OperatorStep,
      ScriptRuns, ScriptFault
<1>2. VerdictInv'
  <2>1. session.state = "completed" => session'.state = "completed"
    BY CompletedForGood
  <2>2. CASE LoadSession
    BY <2>1, <2>2 DEF LoadSession, LoadInto, VerdictInv, vars, store
  <2>3. CASE ~LoadSession
    <3>1. \/ lpc' # "finalize_completed" /\ outcome' # "completed"
          \/ lpc = "finalize_completed" \/ outcome = "completed"
      BY <2>3
      DEF LoopNext, lvars, loopVars, StartLoop, InitializeSession, DriverStep,
          OpenNew, OpenBound, OpenAdopt, OpenRefused, WriteBinding,
          VerifyFirst, VerifyPrepared, VerifyCompleted, LoopVerify,
          LoopPrepare, LoopCheckClaim, LoopRun, DriverWorks, LoopFinalize,
          Finalize, LoopGoto, LoopEnds, DriverCrash, DriverIOFault,
          OperatorStep, ScriptRuns, ScriptFault
    <3> QED
      BY <2>1, <3>1 DEF VerdictInv
  <2> QED
    BY <2>2, <2>3
<1> QED
  BY <1>1, <1>2

\* The session keeps its invariant when the loop drives it, so that the theorems
\* above hold for a session under EnvironmentSynthesisLoop.run as well.
THEOREM LoopInductive == LoopSpec => [](SessionInvariant /\ DriverInv /\ VerdictInv)
<1>1. LoopInit => SessionInvariant /\ DriverInv /\ VerdictInv
  BY InitControl, InitTypes, InitClaims, InitHistory
  DEF LoopInit, SessionInvariant, DriverInv, VerdictInv
<1>2. SessionInvariant /\ DriverInv /\ VerdictInv /\ [LoopNext]_lvars
        => (SessionInvariant /\ DriverInv /\ VerdictInv)'
  BY LoopKeepsSession, LoopSteps
<1> QED
  BY <1>1, <1>2, PTL DEF LoopSpec

\* synthesis_loop.json says "completed" only of a session that has completed,
\* although run() reads session.json without its lock, other operators work on
\* the session, and time passes before _finalize writes.
THEOREM CompletedOutcomesAreTrue == LoopSpec => []CompletedOutcomeIsTrue
<1>1. VerdictInv => CompletedOutcomeIsTrue
  BY DEF VerdictInv, CompletedOutcomeIsTrue
<1> QED
  BY <1>1, LoopInductive, PTL
=============================================================================
