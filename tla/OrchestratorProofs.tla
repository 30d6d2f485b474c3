------------------------- MODULE OrchestratorProofs -------------------------
(***************************************************************************)
(* What Phase2Orchestrator.run guarantees to the host, whichever commands  *)
(* fail and whichever mode and configuration it is given.  The namespace   *)
(* name and the host setting belong to the host and not to a run, so the   *)
(* guarantees are those of a run that has the host to itself: OneRun.      *)
(***************************************************************************)
EXTENDS Orchestrator, TLAPS

\* One run of the orchestrator at a time.
OneRun == \E r : Runs = {r}

Values == {"0", "1"}
Services == {"logger", "broker", "emulator"}

\* Before the host is touched, up to the command that first changes it.
EarlySteps == {"validate", "build", "dispatch", "sudo", "read_forward"}
DirectSteps == {"direct_sudo", "mount", "direct"}
\* Between the reading of the host setting and the namespace.
HostSteps == {"write_forward", "verify_forward"}
\* With forwarding off, until the namespace has its rules ...
SetupSteps == {"cleanup_first", "setup", "rules", "validate_rules"}
\* ... and with the rules applied and confirmed.
RuledSteps == {"start", "wait", "self_test", "clear", "observe", "guest", "running"}
ResultSteps == {"readable", "report"}
FinallySteps == {"stop_processes", "cleanup", "restore", "own", "done"}

Pcs == EarlySteps \cup DirectSteps \cup HostSteps \cup SetupSteps \cup RuledSteps
         \cup ResultSteps \cup FinallySteps

RunRecords ==
  [config : Configs, pc : Pcs, original : Values \cup {"unset"},
   services : SUBSET Services, dead : SUBSET Services, script : BOOLEAN,
   proc : BOOLEAN, guest : BOOLEAN, events : SUBSET {"self_test", "guest"},
   unclean : BOOLEAN,
   outcome : {"none", "error", "built", "reported", "crashed"}]

TypeOK ==
  /\ forward \in Values /\ before \in Values
  /\ ns \in {"absent", "bare", "ruled"}
  /\ run \in [Runs -> RunRecords]
  /\ faults \in 0 .. MaxFaults

\* The host setting: what a run remembers is what it found, and while it
\* remembers nothing it has changed nothing.
SettingInv(r) ==
  /\ run[r].original \in {"unset", before}
  /\ run[r].original = "unset" => forward = before \/ run[r].unclean
  /\ run[r].pc \in EarlySteps => run[r].original = "unset" /\ ~run[r].unclean
  /\ run[r].pc \in HostSteps => run[r].original = before
  /\ run[r].pc \in SetupSteps \cup RuledSteps => forward = "0"
  /\ run[r].pc \in {"own", "done"} /\ run[r].config.signals => run[r].original = "unset"

\* The namespace: only a run with a script to take it down makes one, and the
\* guest finds it ruled.
NamespaceInv(r) ==
  /\ ns # "absent" => run[r].script
  /\ run[r].pc \in EarlySteps => ns = "absent"
  /\ run[r].pc = "dispatch" => run[r].script = (Mode(r) \in Networked)
  /\ run[r].pc \in {"sudo", "read_forward"} \cup HostSteps \cup SetupSteps \cup RuledSteps
       => run[r].script
  /\ run[r].pc \in RuledSteps => ns = "ruled"
  /\ run[r].pc \in {"restore", "own", "done"} /\ run[r].config.signals
       => ns = "absent" \/ run[r].config.keepNamespace

\* The guest, /proc and the services.
ProcessInv(r) ==
  /\ run[r].guest => run[r].pc = "running"
  /\ run[r].proc => run[r].pc = "direct" \/ run[r].unclean
  /\ run[r].pc \in {"cleanup", "restore", "own", "done"} /\ run[r].config.signals
       => run[r].services = {}

RunInv(r) == SettingInv(r) /\ NamespaceInv(r) /\ ProcessInv(r)

HostInv == TypeOK /\ \A r \in Runs : RunInv(r)

-----------------------------------------------------------------------------
(* Facts about one step                                                    *)

LEMMA InitHost == Init => HostInv
<1> SUFFICES ASSUME Init PROVE HostInv
  OBVIOUS
<1>1. PICK c \in [Runs -> Configs] : run = [r \in Runs |-> Fresh(c[r])]
  BY DEF Init
<1>2. ASSUME NEW r \in Runs
      PROVE  Fresh(c[r]) \in RunRecords
  BY <1>2 DEF Fresh, RunRecords, Pcs, EarlySteps
<1>3. TypeOK
  BY <1>1, <1>2, MaxFaultsAssumption DEF Init, TypeOK, Values
<1>4. ASSUME NEW r \in Runs
      PROVE  RunInv(r)
  BY <1>1, <1>4
  DEF Init, RunInv, SettingInv, NamespaceInv, ProcessInv, Fresh, SetupSteps, HostSteps,
      RuledSteps, EarlySteps
<1> QED
  BY <1>3, <1>4 DEF HostInv

\* The fields of the record of a run.
LEMMA Fields ==
  ASSUME TypeOK, NEW r \in Runs
  PROVE  /\ run[r] \in RunRecords
         /\ run[r].config \in Configs
         /\ run[r].pc \in Pcs
         /\ run[r].original \in Values \cup {"unset"}
         /\ run[r].services \in SUBSET Services
         /\ run[r].dead \in SUBSET Services
         /\ run[r].events \in SUBSET {"self_test", "guest"}
BY DEF TypeOK, RunRecords

LEMMA Places ==
  /\ "dispatch" \in Pcs /\ "sudo" \in Pcs /\ "direct_sudo" \in Pcs /\ "direct" \in Pcs
  /\ "write_forward" \in Pcs /\ "verify_forward" \in Pcs
  /\ "wait" \in Pcs /\ "self_test" \in Pcs /\ "clear" \in Pcs /\ "observe" \in Pcs
  /\ "running" \in Pcs /\ "readable" \in Pcs
  /\ "stop_processes" \in Pcs /\ "cleanup" \in Pcs /\ "own" \in Pcs /\ "done" \in Pcs
BY DEF Pcs, EarlySteps, DirectSteps, HostSteps, RuledSteps, ResultSteps, FinallySteps

\* A command that fails is counted.
LEMMA FaultIsCounted == TypeOK /\ Fault => faults' \in 0 .. MaxFaults
BY MaxFaultsAssumption DEF TypeOK, Fault

\* What an assignment to the record of a run leaves behind.
LEMMA SetRun ==
  ASSUME TypeOK, NEW r \in Runs, NEW new \in RunRecords, Set(r, new)
  PROVE  run' \in [Runs -> RunRecords] /\ run'[r] = new
BY DEF TypeOK, Set

\* The fields that a step forward and an exception leave alone.
KeepsFields(r) ==
  /\ run'[r].config = run[r].config /\ run'[r].original = run[r].original
  /\ run'[r].services = run[r].services /\ run'[r].script = run[r].script
  /\ run'[r].proc = run[r].proc /\ run'[r].guest = run[r].guest
  /\ run'[r].unclean = run[r].unclean

LEMMA GotoRun ==
  ASSUME TypeOK, NEW r \in Runs, NEW pc \in Pcs, Goto(r, pc)
  PROVE  run' \in [Runs -> RunRecords] /\ run'[r].pc = pc /\ KeepsFields(r)
<1> DEFINE new == [run[r] EXCEPT !.pc = pc]
<1>1. new \in RunRecords
  BY Fields DEF RunRecords
<1>2. run' \in [Runs -> RunRecords] /\ run'[r] = new
  BY <1>1, SetRun DEF Goto
<1> QED
  BY <1>2, Fields DEF KeepsFields, RunRecords

LEMMA RaiseRun ==
  ASSUME TypeOK, NEW r \in Runs, Raise(r)
  PROVE  run' \in [Runs -> RunRecords] /\ run'[r].pc = "stop_processes" /\ KeepsFields(r)
<1> DEFINE new == [run[r] EXCEPT !.pc = "stop_processes", !.outcome = "error"]
<1>1. new \in RunRecords
  BY Fields DEF RunRecords, Pcs, FinallySteps
<1>2. run' \in [Runs -> RunRecords] /\ run'[r] = new
  BY <1>1, SetRun DEF Raise
<1> QED
  BY <1>2, Fields DEF KeepsFields, RunRecords

\* An exception outside the guest's steps, in a step that has at most taken the
\* namespace away, is always safe: the finally clause has everything to do.
LEMMA RaiseKeeps ==
  ASSUME TypeOK, NEW r \in Runs, RunInv(r), Raise(r), UNCHANGED <<forward, before>>,
         ns' \in {ns, "absent"}, run[r].pc \notin {"running", "direct"}
  PROVE  RunInv(r)'
<1>1. run'[r].pc = "stop_processes" /\ KeepsFields(r)
  BY RaiseRun
<1> QED
  BY <1>1
  DEF KeepsFields, RunInv, SettingInv, NamespaceInv, ProcessInv, EarlySteps, HostSteps,
      SetupSteps, RuledSteps, Mode

-----------------------------------------------------------------------------
(* One lemma per kind of step                                              *)

\* What a step that only moves on asks of the place it moves to.
Admits(r, pc) ==
  /\ pc \in EarlySteps => run[r].original = "unset" /\ ~run[r].unclean
  /\ pc \in HostSteps => run[r].original = before
  /\ pc \in SetupSteps \cup RuledSteps => forward' = "0"
  /\ pc \in {"own", "done"} /\ run[r].config.signals => run[r].original = "unset"
  /\ pc \in EarlySteps => ns' = "absent"
  /\ pc = "dispatch" => run[r].script = (Mode(r) \in Networked)
  /\ pc \in {"sudo", "read_forward"} \cup HostSteps \cup SetupSteps \cup RuledSteps
       => run[r].script
  /\ pc \in RuledSteps => ns' = "ruled"
  /\ pc \in {"restore", "own", "done"} /\ run[r].config.signals
       => ns' = "absent" \/ run[r].config.keepNamespace
  /\ run[r].guest => pc = "running"
  /\ run[r].proc => pc = "direct" \/ run[r].unclean
  /\ pc \in {"cleanup", "restore", "own", "done"} /\ run[r].config.signals
       => run[r].services = {}

\* A step that moves on, with the effects on the host that the run answers for.
LEMMA GotoKeeps ==
  ASSUME TypeOK, NEW r \in Runs, RunInv(r), NEW pc \in Pcs, Goto(r, pc), Admits(r, pc),
         before' = before,
         forward' = forward \/ run[r].original # "unset",
         ns' \in {ns, "absent"} \/ run[r].script
  PROVE  RunInv(r)'
<1>1. run'[r].pc = pc /\ KeepsFields(r)
  BY GotoRun
<1> QED
  BY <1>1 DEF Admits, KeepsFields, RunInv, SettingInv, NamespaceInv, ProcessInv, Mode

\* The commands that do nothing to the host: they succeed or raise.
LEMMA CommandKeeps ==
  ASSUME TypeOK, NEW r \in Runs, RunInv(r),
         NEW pc \in Pcs \ {"running", "direct"}, NEW next \in Pcs, Command(r, pc, next),
         UNCHANGED <<forward, ns, before>> /\ At(r, pc) => Admits(r, next)
  PROVE  TypeOK' /\ RunInv(r)'
<1>1. CASE Goto(r, next) /\ UNCHANGED faults
  <2>1. TypeOK'
    BY <1>1, GotoRun DEF Command, TypeOK
  <2>2. RunInv(r)'
    BY <1>1, GotoKeeps DEF Command
  <2> QED
    BY <2>1, <2>2
<1>2. CASE Fault /\ Raise(r)
  <2>1. TypeOK'
    BY <1>2, RaiseRun, FaultIsCounted DEF Command, TypeOK
  <2>2. RunInv(r)'
    BY <1>2, RaiseKeeps DEF Command, At
  <2> QED
    BY <2>1, <2>2
<1> QED
  BY <1>1, <1>2 DEF Command

\* The steps that are such a command.
LEMMA PlainCommands ==
  ASSUME TypeOK, NEW r \in Runs, RunInv(r),
         EnsureSudo(r) \/ ObserveBefore(r) \/ MakeReadable(r) \/ DirectSudo(r)
  PROVE  TypeOK' /\ RunInv(r)'
<1> USE DEF Pcs, EarlySteps, DirectSteps, HostSteps, SetupSteps, RuledSteps, ResultSteps,
        FinallySteps
<1>1. CASE EnsureSudo(r)
  <2>1. UNCHANGED <<forward, ns, before>> /\ At(r, "sudo") => Admits(r, "read_forward")
    BY DEF At, Admits, RunInv, SettingInv, NamespaceInv, ProcessInv
  <2> QED
    BY <1>1, <2>1, CommandKeeps DEF EnsureSudo
<1>2. CASE ObserveBefore(r)
  <2>1. UNCHANGED <<forward, ns, before>> /\ At(r, "observe") => Admits(r, "guest")
    BY DEF At, Admits, RunInv, SettingInv, NamespaceInv, ProcessInv
  <2> QED
    BY <1>2, <2>1, CommandKeeps DEF ObserveBefore
<1>3. CASE MakeReadable(r)
  <2>1. UNCHANGED <<forward, ns, before>> /\ At(r, "readable") => Admits(r, "report")
    BY DEF At, Admits, RunInv, SettingInv, NamespaceInv, ProcessInv
  <2> QED
    BY <1>3, <2>1, CommandKeeps DEF MakeReadable
<1>4. CASE DirectSudo(r)
  <2>1. UNCHANGED <<forward, ns, before>> /\ At(r, "direct_sudo") => Admits(r, "mount")
    BY DEF At, Admits, RunInv, SettingInv, NamespaceInv, ProcessInv
  <2> QED
    BY <1>4, <2>1, CommandKeeps DEF DirectSudo
<1> QED
  BY <1>1, <1>2, <1>3, <1>4

\* Checks that read and decide: they move on, or raise, and change nothing else.
LEMMA CheckKeeps ==
  ASSUME TypeOK, NEW r \in Runs, RunInv(r), UNCHANGED <<forward, ns, before, faults>>,
         \/ Raise(r) /\ run[r].pc \notin {"running", "direct"}
         \/ \E pc \in Pcs : Goto(r, pc) /\ Admits(r, pc)
  PROVE  TypeOK' /\ RunInv(r)'
<1>1. CASE Raise(r) /\ run[r].pc \notin {"running", "direct"}
  BY <1>1, RaiseKeeps, RaiseRun DEF TypeOK
<1>2. CASE \E pc \in Pcs : Goto(r, pc) /\ Admits(r, pc)
  BY <1>2, GotoKeeps, GotoRun DEF TypeOK
<1> QED
  BY <1>1, <1>2

LEMMA PlainChecks ==
  ASSUME TypeOK, NEW r \in Runs, RunInv(r),
         \/ Validate(r) \/ VerifyForward(r) \/ ValidateRules(r) \/ FixOwnership(r)
  PROVE  TypeOK' /\ RunInv(r)'
<1> USE DEF Pcs, EarlySteps, DirectSteps, HostSteps, SetupSteps, RuledSteps, ResultSteps,
        FinallySteps, At
<1>1. CASE Validate(r)
  <2>1. Admits(r, "build")
    BY <1>1 DEF Validate, Admits, RunInv, SettingInv, NamespaceInv, ProcessInv
  <2> QED
    BY <1>1, <2>1, CheckKeeps DEF Validate
<1>2. CASE VerifyForward(r)
  <2>1. forward = "0" => Admits(r, "cleanup_first")
    BY <1>2 DEF VerifyForward, Admits, RunInv, SettingInv, NamespaceInv, ProcessInv
  <2> QED
    BY <1>2, <2>1, CheckKeeps DEF VerifyForward
<1>3. CASE ValidateRules(r)
  <2>1. ns = "ruled" => Admits(r, "start")
    BY <1>3 DEF ValidateRules, Admits, RunInv, SettingInv, NamespaceInv, ProcessInv
  <2> QED
    BY <1>3, <2>1, CheckKeeps DEF ValidateRules
<1>4. CASE FixOwnership(r)
  <2>1. Admits(r, "done")
    BY <1>4 DEF FixOwnership, Admits, RunInv, SettingInv, NamespaceInv, ProcessInv
  <2> QED
    BY <1>4, <2>1, CheckKeeps DEF FixOwnership
<1> QED
  BY <1>1, <1>2, <1>3, <1>4

\* The steps that change the host: the setting and the namespace.
LEMMA HostChanges ==
  ASSUME TypeOK, NEW r \in Runs, RunInv(r),
         \/ WriteForward(r) \/ CleanupFirst(r) \/ AddNamespace(r) \/ ApplyRules(r)
         \/ CleanupNamespace(r)
  PROVE  TypeOK' /\ RunInv(r)'
<1> USE DEF Pcs, EarlySteps, DirectSteps, HostSteps, SetupSteps, RuledSteps, ResultSteps,
        FinallySteps, At, Values
<1>1. CASE WriteForward(r)
  <2>1. CASE forward' = "0" /\ Goto(r, "verify_forward") /\ UNCHANGED faults
    <3>1. Admits(r, "verify_forward")
      BY <1>1, <2>1
      DEF WriteForward, Admits, RunInv, SettingInv, NamespaceInv, ProcessInv
    <3>2. forward' = forward \/ run[r].original # "unset"
      BY <1>1 DEF WriteForward, RunInv, SettingInv, TypeOK
    <3> QED
      BY <1>1, <2>1, <3>1, <3>2, GotoKeeps, GotoRun DEF WriteForward, TypeOK
  <2>2. CASE Fault /\ Raise(r) /\ UNCHANGED forward
    BY <1>1, <2>2, RaiseKeeps, RaiseRun, FaultIsCounted DEF WriteForward, TypeOK
  <2> QED
    BY <1>1, <2>1, <2>2 DEF WriteForward
<1>2. CASE CleanupFirst(r)
  <2>1. Admits(r, "setup")
    BY <1>2 DEF CleanupFirst, Admits, RunInv, SettingInv, NamespaceInv, ProcessInv
  <2> QED
    BY <1>2, <2>1, GotoKeeps, GotoRun DEF CleanupFirst, TypeOK
<1>3. CASE AddNamespace(r)
  <2>1. CASE ns' = "bare" /\ Goto(r, "rules") /\ UNCHANGED faults
    <3>1. Admits(r, "rules") /\ run[r].script
      BY <1>3, <2>1
      DEF AddNamespace, Admits, RunInv, SettingInv, NamespaceInv, ProcessInv
    <3> QED
      BY <1>3, <2>1, <3>1, GotoKeeps, GotoRun DEF AddNamespace, TypeOK
  <2>2. CASE Fault /\ Raise(r) /\ ns' = "absent"
    BY <1>3, <2>2, RaiseKeeps, RaiseRun, FaultIsCounted DEF AddNamespace, TypeOK
  <2> QED
    BY <1>3, <2>1, <2>2 DEF AddNamespace
<1>4. CASE ApplyRules(r)
  <2>1. CASE ns' = "ruled" /\ Goto(r, "validate_rules") /\ UNCHANGED faults
    <3>1. Admits(r, "validate_rules") /\ run[r].script
      BY <1>4, <2>1 DEF ApplyRules, Admits, RunInv, SettingInv, NamespaceInv, ProcessInv
    <3> QED
      BY <1>4, <2>1, <3>1, GotoKeeps, GotoRun DEF ApplyRules, TypeOK
  <2>2. CASE Raise(r) /\ ns' = ns /\ (Fault \/ UNCHANGED faults)
    BY <1>4, <2>2, RaiseKeeps, RaiseRun, FaultIsCounted DEF ApplyRules, TypeOK
  <2> QED
    BY <1>4, <2>1, <2>2 DEF ApplyRules
<1>5. CASE CleanupNamespace(r)
  <2>1. ns' \in {ns, "absent"}
    BY <1>5 DEF CleanupNamespace
  <2>2. Admits(r, "restore")
    BY <1>5 DEF CleanupNamespace, Admits, RunInv, SettingInv, NamespaceInv, ProcessInv
  <2> QED
    BY <1>5, <2>1, <2>2, GotoKeeps, GotoRun DEF CleanupNamespace, TypeOK
<1> QED
  BY <1>1, <1>2, <1>3, <1>4, <1>5

\* An assignment to the record of a run that keeps its part of the invariant.
LEMMA SetKeeps ==
  ASSUME TypeOK, NEW r \in Runs, NEW new \in RunRecords, Set(r, new),
         before' = before, forward' \in Values, ns' \in {"absent", "bare", "ruled"},
         faults' = faults \/ Fault
  PROVE  TypeOK' /\ run'[r] = new
<1>1. faults' \in 0 .. MaxFaults
  BY FaultIsCounted DEF TypeOK
<1> QED
  BY <1>1, SetRun DEF TypeOK

\* prepare_workdir to the generated script, and the choice of the mode.
LEMMA ChoiceKeeps ==
  ASSUME TypeOK, NEW r \in Runs, RunInv(r), Build(r) \/ Dispatch(r)
  PROVE  TypeOK' /\ RunInv(r)'
<1> DEFINE networked == Mode(r) \in Networked
           made == [run[r] EXCEPT !.pc = "dispatch", !.script = networked]
           built == [run[r] EXCEPT !.pc = "stop_processes", !.outcome = "built"]
<1>a. made \in RunRecords /\ built \in RunRecords
  <2>1. networked \in BOOLEAN
    OBVIOUS
  <2> HIDE DEF networked
  <2> QED
    BY <2>1, Fields, Places DEF RunRecords
<1> USE DEF EarlySteps, DirectSteps, HostSteps, SetupSteps, RuledSteps, ResultSteps,
        FinallySteps, At, Mode
<1>1. CASE Build(r)
  <2>2. CASE Set(r, made) /\ UNCHANGED faults
    <3>1. TypeOK' /\ run'[r] = made
      BY <1>1, <1>a, <2>2, SetKeeps DEF Build, TypeOK
    <3>2. ns = "absent"
      BY <1>1 DEF Build, RunInv, NamespaceInv
    <3> QED
      BY <1>1, <3>1, <3>2, Fields
      DEF Build, RunInv, SettingInv, NamespaceInv, ProcessInv, RunRecords
  <2>3. CASE Fault /\ Raise(r)
    BY <1>1, <2>3, RaiseKeeps, RaiseRun, FaultIsCounted DEF Build, TypeOK
  <2> QED
    BY <1>1, <2>2, <2>3 DEF Build
<1>2. CASE Dispatch(r)
  <2>1. CASE Set(r, built)
    <3>2. TypeOK' /\ run'[r] = built
      BY <1>2, <1>a, <2>1, SetKeeps DEF Dispatch, TypeOK
    <3> QED
      BY <1>2, <3>2, Fields
      DEF Dispatch, RunInv, SettingInv, NamespaceInv, ProcessInv, RunRecords
  <2>2. CASE Mode(r) = "none" /\ Goto(r, "direct_sudo")
    <3>1. Admits(r, "direct_sudo")
      BY <1>2 DEF Dispatch, Admits, RunInv, SettingInv, NamespaceInv, ProcessInv
    <3> QED
      BY <1>2, <2>2, <3>1, CheckKeeps, Places DEF Dispatch
  <2>3. CASE Mode(r) \in Networked /\ Goto(r, "sudo")
    <3>1. Admits(r, "sudo")
      BY <1>2, <2>3 DEF Dispatch, Admits, RunInv, SettingInv, NamespaceInv, ProcessInv
    <3> QED
      BY <1>2, <2>3, <3>1, CheckKeeps, Places DEF Dispatch
  <2>4. CASE Raise(r)
    BY <1>2, <2>4, CheckKeeps DEF Dispatch
  <2> QED
    BY <1>2, <2>1, <2>2, <2>3, <2>4 DEF Dispatch
<1> QED
  BY <1>1, <1>2

\* The host setting is remembered before it is changed, and put back.
LEMMA SettingKeeps ==
  ASSUME TypeOK, NEW r \in Runs, RunInv(r), ReadForward(r) \/ RestoreForward(r)
  PROVE  TypeOK' /\ RunInv(r)'
<1> DEFINE place == IF forward = "0" THEN "verify_forward" ELSE "write_forward"
           kept == [run[r] EXCEPT !.original = forward, !.pc = place]
           back == [run[r] EXCEPT !.pc = "own", !.original = "unset"]
           left == [run[r] EXCEPT !.pc = "own", !.original = "unset", !.unclean = TRUE]
<1>a. kept \in RunRecords /\ back \in RunRecords /\ left \in RunRecords
  <2>1. place \in Pcs /\ forward \in Values
    BY Places DEF TypeOK
  <2> HIDE DEF place
  <2> QED
    BY <2>1, Fields, Places DEF RunRecords
<1> USE DEF EarlySteps, DirectSteps, HostSteps, SetupSteps, RuledSteps, ResultSteps,
        FinallySteps, At, Values, Mode
<1>1. CASE ReadForward(r)
  <2>2. TypeOK' /\ run'[r] = kept
    BY <1>1, <1>a, SetKeeps DEF ReadForward, TypeOK
  <2>3. forward = before
    BY <1>1 DEF ReadForward, RunInv, SettingInv
  <2> QED
    BY <1>1, <2>2, <2>3, Fields
    DEF ReadForward, RunInv, SettingInv, NamespaceInv, ProcessInv, RunRecords
<1>2. CASE RestoreForward(r)
  <2>2. CASE /\ Set(r, back) /\ UNCHANGED faults
             /\ forward' = IF run[r].original = "unset" THEN forward ELSE run[r].original
    <3>1. forward' \in Values
      BY <2>2, Fields DEF TypeOK
    <3>2. TypeOK' /\ run'[r] = back
      BY <1>2, <1>a, <2>2, <3>1, SetKeeps DEF RestoreForward, TypeOK
    <3> QED
      BY <1>2, <2>2, <3>2, Fields
      DEF RestoreForward, RunInv, SettingInv, NamespaceInv, ProcessInv, RunRecords
  <2>3. CASE Set(r, left) /\ Fault /\ UNCHANGED forward
    <3>1. TypeOK' /\ run'[r] = left
      BY <1>2, <1>a, <2>3, SetKeeps DEF RestoreForward, TypeOK
    <3> QED
      BY <1>2, <2>3, <3>1, Fields
      DEF RestoreForward, RunInv, SettingInv, NamespaceInv, ProcessInv, RunRecords
  <2> QED
    BY <1>2, <2>2, <2>3 DEF RestoreForward
<1> QED
  BY <1>1, <1>2

\* Services come up, are waited for and tested, and may die at any time.
LEMMA ServiceKeeps ==
  ASSUME TypeOK, NEW r \in Runs, RunInv(r),
         StartService(r) \/ ServiceDies(r) \/ WaitForServices(r) \/ SelfTest(r)
           \/ ClearSelfTest(r)
  PROVE  TypeOK' /\ RunInv(r)'
<1> DEFINE up(s) == [run[r] EXCEPT !.services = @ \cup {s}]
           down(s) == [run[r] EXCEPT !.dead = @ \cup {s}]
           tested == [run[r] EXCEPT !.pc = "clear", !.events = @ \cup {"self_test"}]
           cleared == [run[r] EXCEPT !.pc = "observe", !.events = {}]
<1>a. /\ \A s \in Services : up(s) \in RunRecords /\ down(s) \in RunRecords
      /\ tested \in RunRecords /\ cleared \in RunRecords
  BY Fields, Places DEF RunRecords
<1> USE DEF EarlySteps, DirectSteps, HostSteps, SetupSteps, RuledSteps, ResultSteps,
        FinallySteps, At, Mode
<1>1. CASE StartService(r)
  <2>1. ASSUME NEW s \in Wanted(r), Set(r, up(s))
        PROVE  TypeOK' /\ RunInv(r)'
    <3>1. s \in Services
      BY <2>1 DEF Wanted, Services
    <3>2. TypeOK' /\ run'[r] = up(s)
      BY <1>1, <1>a, <2>1, <3>1, SetKeeps DEF StartService, TypeOK
    <3> QED
      BY <1>1, <3>2, Fields
      DEF StartService, RunInv, SettingInv, NamespaceInv, ProcessInv, RunRecords
  <2>2. CASE Goto(r, "wait")
    <3>1. Admits(r, "wait")
      BY <1>1 DEF StartService, Admits, RunInv, SettingInv, NamespaceInv, ProcessInv
    <3> QED
      BY <1>1, <2>2, <3>1, CheckKeeps, Places DEF StartService
  <2> QED
    BY <1>1, <2>1, <2>2 DEF StartService
<1>2. CASE ServiceDies(r)
  <2>1. PICK s \in run[r].services : Set(r, down(s))
    BY <1>2 DEF ServiceDies
  <2>2. s \in Services
    BY <2>1, Fields
  <2>3. TypeOK' /\ run'[r] = down(s)
    BY <1>2, <1>a, <2>1, <2>2, SetKeeps DEF ServiceDies, TypeOK
  <2> QED
    BY <1>2, <2>3, Fields
    DEF ServiceDies, RunInv, SettingInv, NamespaceInv, ProcessInv, RunRecords
<1>3. CASE WaitForServices(r)
  <2>1. CASE Raise(r) /\ (Fault \/ UNCHANGED faults)
    BY <1>3, <2>1, RaiseKeeps, RaiseRun, FaultIsCounted DEF WaitForServices, TypeOK
  <2>2. CASE /\ UNCHANGED faults
             /\ Goto(r, IF run[r].config.selfTest THEN "self_test" ELSE "observe")
    <3>1. Admits(r, "self_test") /\ Admits(r, "observe")
      BY <1>3 DEF WaitForServices, Admits, RunInv, SettingInv, NamespaceInv, ProcessInv
    <3> QED
      BY <1>3, <2>2, <3>1, CheckKeeps, Places DEF WaitForServices
  <2> QED
    BY <1>3, <2>1, <2>2 DEF WaitForServices
<1>4. CASE SelfTest(r)
  <2>1. CASE Raise(r) /\ (Fault \/ UNCHANGED faults)
    BY <1>4, <2>1, RaiseKeeps, RaiseRun, FaultIsCounted DEF SelfTest, TypeOK
  <2>2. CASE Set(r, tested) /\ UNCHANGED faults
    <3>1. TypeOK' /\ run'[r] = tested
      BY <1>4, <1>a, <2>2, SetKeeps DEF SelfTest, TypeOK
    <3> QED
      BY <1>4, <3>1, Fields
      DEF SelfTest, RunInv, SettingInv, NamespaceInv, ProcessInv, RunRecords
  <2> QED
    BY <1>4, <2>1, <2>2 DEF SelfTest
<1>5. CASE ClearSelfTest(r)
  <2>1. TypeOK' /\ run'[r] = cleared
    BY <1>5, <1>a, SetKeeps DEF ClearSelfTest, TypeOK
  <2> QED
    BY <1>5, <2>1, Fields
    DEF ClearSelfTest, RunInv, SettingInv, NamespaceInv, ProcessInv, RunRecords
<1> QED
  BY <1>1, <1>2, <1>3, <1>4, <1>5

\* The guest runs only between the start of run_sample and its return.
LEMMA GuestKeeps ==
  ASSUME TypeOK, NEW r \in Runs, RunInv(r),
         StartGuest(r) \/ GuestTraffic(r) \/ GuestExits(r) \/ GuestTimesOut(r) \/ Report(r)
  PROVE  TypeOK' /\ RunInv(r)'
<1> DEFINE started == [run[r] EXCEPT !.pc = "running", !.guest = TRUE]
           seen == [run[r] EXCEPT !.events = @ \cup {"guest"}]
           ended == [run[r] EXCEPT !.pc = "readable", !.guest = FALSE]
           told == [run[r] EXCEPT !.pc = "stop_processes", !.outcome = "reported"]
<1>a. /\ started \in RunRecords /\ seen \in RunRecords
      /\ ended \in RunRecords /\ told \in RunRecords
  BY Fields, Places DEF RunRecords
<1> USE DEF EarlySteps, DirectSteps, HostSteps, SetupSteps, RuledSteps, ResultSteps,
        FinallySteps, At, Mode
<1>1. CASE StartGuest(r)
  <2>1. ns # "absent"
    BY <1>1 DEF StartGuest, RunInv, NamespaceInv
  <2>2. TypeOK' /\ run'[r] = started
    BY <1>1, <1>a, <2>1, SetKeeps DEF StartGuest, TypeOK
  <2> QED
    BY <1>1, <2>2, Fields
    DEF StartGuest, RunInv, SettingInv, NamespaceInv, ProcessInv, RunRecords
<1>2. CASE GuestTraffic(r)
  <2>1. TypeOK' /\ run'[r] = seen
    BY <1>2, <1>a, SetKeeps DEF GuestTraffic, TypeOK
  <2> QED
    BY <1>2, <2>1, Fields
    DEF GuestTraffic, RunInv, SettingInv, NamespaceInv, ProcessInv, RunRecords
<1>3. CASE GuestExits(r) \/ GuestTimesOut(r)
  <2>1. TypeOK' /\ run'[r] = ended
    BY <1>3, <1>a, SetKeeps DEF GuestExits, GuestTimesOut, TypeOK
  <2> QED
    BY <1>3, <2>1, Fields
    DEF GuestExits, GuestTimesOut, RunInv, SettingInv, NamespaceInv, ProcessInv,
        RunRecords
<1>4. CASE Report(r)
  <2>1. CASE Fault /\ Raise(r)
    BY <1>4, <2>1, RaiseKeeps, RaiseRun, FaultIsCounted DEF Report, TypeOK
  <2>2. CASE Set(r, told) /\ UNCHANGED faults
    <3>1. TypeOK' /\ run'[r] = told
      BY <1>4, <1>a, <2>2, SetKeeps DEF Report, TypeOK
    <3> QED
      BY <1>4, <3>1, Fields
      DEF Report, RunInv, SettingInv, NamespaceInv, ProcessInv, RunRecords
  <2> QED
    BY <1>4, <2>1, <2>2 DEF Report
<1> QED
  BY <1>1, <1>2, <1>3, <1>4

\* Mode none, whose guest has /proc mounted, and the end of the services.
LEMMA MountAndStopKeep ==
  ASSUME TypeOK, NEW r \in Runs, RunInv(r),
         MountProc(r) \/ DirectGuest(r) \/ StopProcesses(r)
  PROVE  TypeOK' /\ RunInv(r)'
<1> DEFINE mounted == [run[r] EXCEPT !.pc = "direct", !.proc = TRUE]
           freed == [run[r] EXCEPT !.pc = "readable", !.proc = FALSE]
           busy == [run[r] EXCEPT !.pc = "readable", !.unclean = TRUE]
           crashed == [run[r] EXCEPT !.pc = "done", !.outcome = "crashed"]
           stopped == [run[r] EXCEPT !.pc = "cleanup", !.services = {}, !.dead = {}]
<1>a. /\ mounted \in RunRecords /\ freed \in RunRecords /\ busy \in RunRecords
      /\ crashed \in RunRecords /\ stopped \in RunRecords
  BY Fields, Places DEF RunRecords
<1> USE DEF EarlySteps, DirectSteps, HostSteps, SetupSteps, RuledSteps, ResultSteps,
        FinallySteps, At, Mode
<1>1. CASE MountProc(r)
  <2>1. CASE Fault /\ Raise(r)
    BY <1>1, <2>1, RaiseKeeps, RaiseRun, FaultIsCounted DEF MountProc, TypeOK
  <2>2. CASE Set(r, mounted) /\ UNCHANGED faults
    <3>1. TypeOK' /\ run'[r] = mounted
      BY <1>1, <1>a, <2>2, SetKeeps DEF MountProc, TypeOK
    <3> QED
      BY <1>1, <3>1, Fields
      DEF MountProc, RunInv, SettingInv, NamespaceInv, ProcessInv, RunRecords
  <2> QED
    BY <1>1, <2>1, <2>2 DEF MountProc
<1>2. CASE DirectGuest(r)
  <2>1. CASE Set(r, freed) /\ UNCHANGED faults
    <3>1. TypeOK' /\ run'[r] = freed
      BY <1>2, <1>a, <2>1, SetKeeps DEF DirectGuest, TypeOK
    <3> QED
      BY <1>2, <3>1, Fields
      DEF DirectGuest, RunInv, SettingInv, NamespaceInv, ProcessInv, RunRecords
  <2>2. CASE Set(r, busy) /\ Fault
    <3>1. TypeOK' /\ run'[r] = busy
      BY <1>2, <1>a, <2>2, SetKeeps DEF DirectGuest, TypeOK
    <3> QED
      BY <1>2, <3>1, Fields
      DEF DirectGuest, RunInv, SettingInv, NamespaceInv, ProcessInv, RunRecords
  <2> QED
    BY <1>2, <2>1, <2>2 DEF DirectGuest
<1>3. CASE StopProcesses(r)
  <2>1. CASE Refused(r)
    <3>1. TypeOK' /\ run'[r] = crashed
      BY <1>3, <1>a, <2>1, SetKeeps DEF StopProcesses, TypeOK
    <3> QED
      BY <1>3, <2>1, <3>1, Fields
      DEF StopProcesses, Refused, RunInv, SettingInv, NamespaceInv, ProcessInv,
          RunRecords
  <2>2. CASE ~Refused(r)
    <3>1. TypeOK' /\ run'[r] = stopped
      BY <1>3, <1>a, <2>2, SetKeeps DEF StopProcesses, TypeOK
    <3> QED
      BY <1>3, <3>1, Fields
      DEF StopProcesses, RunInv, SettingInv, NamespaceInv, ProcessInv, RunRecords
  <2> QED
    BY <2>1, <2>2
<1> QED
  BY <1>1, <1>2, <1>3

-----------------------------------------------------------------------------
(* The theorems                                                            *)

LEMMA StepHost ==
  ASSUME OneRun, HostInv, [Next]_vars
  PROVE  HostInv'
<1>1. PICK r : Runs = {r}
  BY DEF OneRun
<1>2. CASE UNCHANGED vars
  BY <1>2
  DEF HostInv, vars, TypeOK, RunInv, SettingInv, NamespaceInv, ProcessInv, Mode
<1>3. CASE Step(r) \/ Surroundings(r)
  <2>1. TypeOK' /\ RunInv(r)'
    BY <1>1, <1>3, PlainCommands, PlainChecks, HostChanges, ChoiceKeeps, SettingKeeps,
       ServiceKeeps, GuestKeeps, MountAndStopKeep
    DEF HostInv, Step, Surroundings
  <2> QED
    BY <1>1, <2>1 DEF HostInv
<1> QED
  BY <1>1, <1>2, <1>3 DEF Next

\* What a run keeps about the host setting, the namespace, the guest, /proc and
\* the services, at every step of Phase2Orchestrator.run and of its finally clause.
THEOREM HostInductive ==
  ASSUME OneRun
  PROVE  Spec => []HostInv
<1>1. Init => HostInv
  BY InitHost
<1>2. HostInv /\ [Next]_vars => HostInv'
  BY StepHost
<1> QED
  BY <1>1, <1>2, PTL DEF Spec

\* No guest runs in a namespace without its redirect rules, or while the host
\* forwards packets, however many commands fail before run_sample.
THEOREM GuestsAreContained ==
  ASSUME OneRun
  PROVE  Spec => []GuestIsContained
<1>1. HostInv => GuestIsContained
  BY DEF HostInv, RunInv, SettingInv, NamespaceInv, ProcessInv, GuestIsContained,
     RuledSteps, SetupSteps
<1> QED
  BY <1>1, HostInductive, PTL

\* A run that may signal its services ends with the host setting it found, no
\* service, no mounted /proc and no namespace but one it was to keep, however many
\* commands fail, unless the failing command is the restoring or unmounting one.
THEOREM RunsEndAsTheyBegan ==
  ASSUME OneRun
  PROVE  Spec => []EndsAsItBegan
<1>1. HostInv => EndsAsItBegan
  BY DEF HostInv, RunInv, SettingInv, NamespaceInv, ProcessInv, EndsAsItBegan, At
<1> QED
  BY <1>1, HostInductive, PTL
=============================================================================
