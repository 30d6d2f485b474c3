---------------------------- MODULE Orchestrator ----------------------------
(***************************************************************************)
(* taintforge_env/orchestrator.py: Phase2Orchestrator.run, with the script *)
(* that network_sandbox_runner.py generates for it.  Every run uses the    *)
(* same namespace name and the same host setting, so runs on one host      *)
(* share them.  Any command may fail; the finally clause then takes down   *)
(* what was set up, in order, until one of its own steps raises.           *)
(***************************************************************************)
EXTENDS Naturals, FiniteSets

CONSTANTS
  Runs,       \* runs of the orchestrator on one host
  Modes,      \* the network modes that runs are asked for
  MaxFaults   \* bound: commands that fail and services that die

AllModes == {"none", "emulated", "brokered_record", "replay", "brokered_fetch", "brokered_relay"}
ASSUME ModesAssumption == Modes \subseteq AllModes
ASSUME MaxFaultsAssumption == MaxFaults \in Nat

VARIABLES
  forward,   \* /proc/sys/net/ipv4/ip_forward of the host
  ns,        \* the namespace: absent, bare (no rules yet) or ruled
  run,       \* per run: its configuration and its state
  before,    \* history: the host setting at first
  faults

vars == <<forward, ns, run, before, faults>>

Reserved == {"replay", "brokered_fetch", "brokered_relay"}
Networked == {"emulated", "brokered_record"}

\* `signals': the services run under sudo, and a process that is not root may
\* not signal them.  `known': the policy names known TCP services.
Configs == [mode : Modes, valid : BOOLEAN, buildOnly : BOOLEAN, keepNamespace : BOOLEAN,
            selfTest : BOOLEAN, known : BOOLEAN, signals : BOOLEAN]

Fresh(c) ==
  [config |-> c, pc |-> "validate", original |-> "unset", services |-> {}, dead |-> {},
   script |-> FALSE, proc |-> FALSE, guest |-> FALSE, events |-> {}, unclean |-> FALSE, outcome |-> "none"]

Init ==
  /\ forward \in {"0", "1"} /\ before = forward
  /\ ns = "absent"
  /\ \E c \in [Runs -> Configs] : run = [r \in Runs |-> Fresh(c[r])]
  /\ faults = 0

At(r, pc) == run[r].pc = pc
Mode(r) == run[r].config.mode
Set(r, new) == run' = [run EXCEPT ![r] = new]
Goto(r, pc) == Set(r, [run[r] EXCEPT !.pc = pc])
\* raise OrchestratorError: the finally clause
Raise(r) == Set(r, [run[r] EXCEPT !.pc = "stop_processes", !.outcome = "error"])
Fault == faults < MaxFaults /\ faults' = faults + 1

\* A step that is one command: it succeeds and goes on, or fails and raises.
Command(r, pc, next) ==
  /\ At(r, pc)
  /\ \/ Goto(r, next) /\ UNCHANGED faults
     \/ Fault /\ Raise(r)
  /\ UNCHANGED <<forward, ns, before>>

-----------------------------------------------------------------------------
(* Configuration, build and choice of the mode                             *)

\* validate_network_configuration
Validate(r) ==
  /\ At(r, "validate")
  /\ IF /\ run[r].config.valid
        /\ ~(Mode(r) = "brokered_record" /\ run[r].config.selfTest)
     THEN Goto(r, "build") ELSE Raise(r)
  /\ UNCHANGED <<forward, ns, before, faults>>

\* prepare_workdir, write_run_manifest and build_environment, whose last step
\* generates the runner script for a networked mode
Build(r) ==
  /\ At(r, "build")
  /\ \/ /\ Set(r, [run[r] EXCEPT !.pc = "dispatch", !.script = Mode(r) \in Networked])
        /\ UNCHANGED faults
     \/ Fault /\ Raise(r)
  /\ UNCHANGED <<forward, ns, before>>

Dispatch(r) ==
  /\ At(r, "dispatch")
  /\ \/ /\ run[r].config.buildOnly
        /\ Set(r, [run[r] EXCEPT !.pc = "stop_processes", !.outcome = "built"])
     \/ ~run[r].config.buildOnly /\ Mode(r) = "none" /\ Goto(r, "direct_sudo")
     \/ ~run[r].config.buildOnly /\ Mode(r) \in Networked /\ Goto(r, "sudo")
     \/ ~run[r].config.buildOnly /\ Mode(r) \in Reserved /\ Raise(r)
  /\ UNCHANGED <<forward, ns, before, faults>>

-----------------------------------------------------------------------------
(* The host setting                                                        *)

EnsureSudo(r) == Command(r, "sudo", "read_forward")

\* disable_host_ip_forwarding: the value is remembered before it is changed.
ReadForward(r) ==
  /\ At(r, "read_forward")
  /\ Set(r, [run[r] EXCEPT !.original = forward,
                           !.pc = IF forward = "0" THEN "verify_forward" ELSE "write_forward"])
  /\ UNCHANGED <<forward, ns, before, faults>>

WriteForward(r) ==
  /\ At(r, "write_forward")
  /\ \/ forward' = "0" /\ Goto(r, "verify_forward") /\ UNCHANGED faults
     \/ Fault /\ Raise(r) /\ UNCHANGED forward
  /\ UNCHANGED <<ns, before>>

VerifyForward(r) ==
  /\ At(r, "verify_forward")
  /\ IF forward = "0" THEN Goto(r, "cleanup_first") ELSE Raise(r)
  /\ UNCHANGED <<forward, ns, before, faults>>

-----------------------------------------------------------------------------
(* The namespace                                                           *)

\* The script's cleanup ignores errors; it runs once here and again in setup.
CleanupFirst(r) ==
  /\ At(r, "cleanup_first")
  /\ ns' = "absent"
  /\ Goto(r, "setup")
  /\ UNCHANGED <<forward, before, faults>>

\* setup_netns deletes a namespace of that name once more and adds its own.
AddNamespace(r) ==
  /\ At(r, "setup")
  /\ \/ ns' = "bare" /\ Goto(r, "rules") /\ UNCHANGED faults
     \/ Fault /\ Raise(r) /\ ns' = "absent"
  /\ UNCHANGED <<forward, before>>

SkipRules(r) ==
  /\ At(r, "rules")
  /\ Goto(r, "start")
  /\ UNCHANGED <<forward, ns, before, faults>>

\* The address, route and iptables commands, under set -e.
ApplyRules(r) ==
  /\ At(r, "rules")
  /\ \/ ns # "absent" /\ ns' = "ruled" /\ Goto(r, "validate_rules") /\ UNCHANGED faults
     \/ ns = "absent" /\ Raise(r) /\ UNCHANGED <<ns, faults>>
     \/ Fault /\ Raise(r) /\ UNCHANGED ns
  /\ UNCHANGED <<forward, before>>

\* validate_namespace_rules looks for the two catch-all redirects.
ValidateRules(r) ==
  /\ At(r, "validate_rules")
  /\ IF ns = "ruled" THEN Goto(r, "start") ELSE Raise(r)
  /\ UNCHANGED <<forward, ns, before, faults>>

-----------------------------------------------------------------------------
(* Services                                                                *)

\* The logger is started under sudo inside the namespace, the emulator or the
\* recording broker on the host as the invoking user.
Wanted(r) ==
  {"logger"} \cup (IF Mode(r) = "brokered_record" THEN {"broker"}
                   ELSE IF run[r].config.known THEN {"emulator"} ELSE {})

StartService(r) ==
  /\ At(r, "start")
  /\ \/ \E s \in Wanted(r) \ run[r].services :
          /\ s # "logger" => "logger" \in run[r].services
          /\ Set(r, [run[r] EXCEPT !.services = @ \cup {s}])
     \/ Wanted(r) \subseteq run[r].services /\ Goto(r, "wait")
  /\ UNCHANGED <<forward, ns, before, faults>>

ServiceDies(r) ==
  /\ Fault
  /\ \E s \in run[r].services \ run[r].dead :
       Set(r, [run[r] EXCEPT !.dead = @ \cup {s}])
  /\ UNCHANGED <<forward, ns, before>>

\* wait_for_..._port: check_processes_alive in every round, five seconds each.
WaitForServices(r) ==
  /\ At(r, "wait")
  /\ \/ /\ run[r].dead = {} /\ UNCHANGED faults
        /\ Goto(r, IF run[r].config.selfTest THEN "self_test" ELSE "observe")
     \/ run[r].dead # {} /\ Raise(r) /\ UNCHANGED faults
     \/ Fault /\ Raise(r)
  /\ UNCHANGED <<forward, ns, before>>

\* run_network_self_test needs an event of every wanted service, and
\* clear_network_self_test_artifacts then archives the event log.
SelfTest(r) ==
  /\ At(r, "self_test")
  /\ \/ run[r].dead = {} /\ ns = "ruled" /\ UNCHANGED faults
        /\ Set(r, [run[r] EXCEPT !.pc = "clear", !.events = @ \cup {"self_test"}])
     \/ (run[r].dead # {} \/ ns # "ruled") /\ Raise(r) /\ UNCHANGED faults
     \/ Fault /\ Raise(r)
  /\ UNCHANGED <<forward, ns, before>>

ClearSelfTest(r) ==
  /\ At(r, "clear")
  /\ Set(r, [run[r] EXCEPT !.pc = "observe", !.events = {}])
  /\ UNCHANGED <<forward, ns, before, faults>>

-----------------------------------------------------------------------------
(* The guest and what follows                                              *)

ObserveBefore(r) == Command(r, "observe", "guest")

\* run_sample: without the namespace ip netns exec fails and no guest starts,
\* which is printed and not an error.
StartGuest(r) ==
  /\ At(r, "guest")
  /\ IF ns = "absent" THEN Goto(r, "readable")
     ELSE Set(r, [run[r] EXCEPT !.pc = "running", !.guest = TRUE])
  /\ UNCHANGED <<forward, ns, before, faults>>

GuestTraffic(r) ==
  /\ At(r, "running") /\ run[r].guest
  /\ "logger" \notin run[r].dead
  /\ "guest" \notin run[r].events
  /\ Set(r, [run[r] EXCEPT !.events = @ \cup {"guest"}])
  /\ UNCHANGED <<forward, ns, before, faults>>

GuestExits(r) ==
  /\ At(r, "running")
  /\ Set(r, [run[r] EXCEPT !.pc = "readable", !.guest = FALSE])
  /\ UNCHANGED <<forward, ns, before, faults>>

\* timeout --kill-after ends the sudo process only if it may signal it.
GuestTimesOut(r) ==
  /\ At(r, "running") /\ run[r].guest /\ run[r].config.signals
  /\ Set(r, [run[r] EXCEPT !.pc = "readable", !.guest = FALSE])
  /\ UNCHANGED <<forward, ns, before, faults>>

\* make_runtime_artifacts_readable, then parse_strace_logs, the second
\* observation, the repair planner and the report.
MakeReadable(r) == Command(r, "readable", "report")

Report(r) ==
  /\ At(r, "report")
  /\ \/ Set(r, [run[r] EXCEPT !.pc = "stop_processes", !.outcome = "reported"]) /\ UNCHANGED faults
     \/ Fault /\ Raise(r)
  /\ UNCHANGED <<forward, ns, before>>

-----------------------------------------------------------------------------
(* Mode none: the guest runs in a chroot with /proc mounted                *)

DirectSudo(r) == Command(r, "direct_sudo", "mount")

MountProc(r) ==
  /\ At(r, "mount")
  /\ \/ Set(r, [run[r] EXCEPT !.pc = "direct", !.proc = TRUE]) /\ UNCHANGED faults
     \/ Fault /\ Raise(r)
  /\ UNCHANGED <<forward, ns, before>>

\* run_sample_direct's own finally clause unmounts, and ignores a failure.
DirectGuest(r) ==
  /\ At(r, "direct")
  /\ \/ Set(r, [run[r] EXCEPT !.pc = "readable", !.proc = FALSE]) /\ UNCHANGED faults
     \/ Set(r, [run[r] EXCEPT !.pc = "readable", !.unclean = TRUE]) /\ Fault
  /\ UNCHANGED <<forward, ns, before>>

-----------------------------------------------------------------------------
(* The finally clause of run                                               *)

\* terminate, then kill after three seconds.  A signal that is refused raises
\* PermissionError, which leaves the finally clause and the program.
Refused(r) == ~run[r].config.signals /\ "logger" \in run[r].services \ run[r].dead

StopProcesses(r) ==
  /\ At(r, "stop_processes")
  /\ IF Refused(r)
     THEN Set(r, [run[r] EXCEPT !.pc = "done", !.outcome = "crashed"])
     ELSE Set(r, [run[r] EXCEPT !.pc = "cleanup", !.services = {}, !.dead = {}])
  /\ UNCHANGED <<forward, ns, before, faults>>

\* The runner script's cleanup, whether or not this run made the namespace.
CleanupNamespace(r) ==
  /\ At(r, "cleanup")
  /\ IF run[r].config.keepNamespace \/ ~run[r].script
     THEN UNCHANGED ns ELSE ns' = "absent"
  /\ Goto(r, "restore")
  /\ UNCHANGED <<forward, before, faults>>

RestoreOnSuccess(r) ==
  /\ At(r, "restore")
  /\ forward' = IF run[r].original = "unset" \/ run[r].outcome = "error"
                THEN forward ELSE run[r].original
  /\ Set(r, [run[r] EXCEPT !.pc = "own", !.original = "unset"])
  /\ UNCHANGED <<ns, before, faults>>

\* check=False: a failing sysctl goes unnoticed.
RestoreForward(r) ==
  /\ At(r, "restore")
  /\ \/ /\ forward' = IF run[r].original = "unset" THEN forward ELSE run[r].original
        /\ Set(r, [run[r] EXCEPT !.pc = "own", !.original = "unset"])
        /\ UNCHANGED faults
     \/ /\ run[r].original \notin {"unset", forward}
        /\ Fault
        /\ Set(r, [run[r] EXCEPT !.pc = "own", !.original = "unset", !.unclean = TRUE])
        /\ UNCHANGED forward
  /\ UNCHANGED <<ns, before>>

FixOwnership(r) ==
  /\ At(r, "own")
  /\ Goto(r, "done")
  /\ UNCHANGED <<forward, ns, before, faults>>

-----------------------------------------------------------------------------

Step(r) ==
  \/ Validate(r) \/ Build(r) \/ Dispatch(r)
  \/ EnsureSudo(r) \/ ReadForward(r) \/ WriteForward(r) \/ VerifyForward(r)
  \/ CleanupFirst(r) \/ AddNamespace(r) \/ ApplyRules(r) \/ ValidateRules(r)
  \/ StartService(r) \/ WaitForServices(r) \/ SelfTest(r) \/ ClearSelfTest(r)
  \/ ObserveBefore(r) \/ StartGuest(r) \/ GuestTimesOut(r) \/ MakeReadable(r) \/ Report(r)
  \/ DirectSudo(r) \/ MountProc(r) \/ DirectGuest(r)
  \/ StopProcesses(r) \/ CleanupNamespace(r) \/ RestoreForward(r) \/ FixOwnership(r)

Surroundings(r) == ServiceDies(r) \/ GuestTraffic(r) \/ GuestExits(r)

Next == \E r \in Runs : Step(r) \/ Surroundings(r)

Spec == Init /\ [][Next]_vars

-----------------------------------------------------------------------------
(* Properties                                                              *)

\* A guest in the namespace always has the rules around it and forwarding off on
\* the host, whichever command failed before.
GuestIsContained ==
  \A r \in Runs : run[r].guest => ns = "ruled" /\ forward = "0"

\* A run that may signal its services leaves the host as it found it, whatever
\* command failed on the way: the setting, the namespace (unless it is to be
\* kept), the services and /proc, unless one of the cleaning commands failed.
EndsAsItBegan ==
  \A r \in Runs :
    At(r, "done") /\ run[r].config.signals /\ ~run[r].unclean =>
      /\ forward = before
      /\ run[r].services = {} /\ ~run[r].proc
      /\ ns = "absent" \/ run[r].config.keepNamespace
=============================================================================
