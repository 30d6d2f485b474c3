--------------------------- MODULE NetworkBackend ---------------------------
(***************************************************************************)
(* taintforge_env/controlled_network_backend.py: the life of one           *)
(* ControlledNetworkBackend inside PrebuiltRootfsRunner.run_and_complete.  *)
(* setup builds a network namespace, a firewall and up to three background *)
(* services, optionally tests them and restarts them; the guest then runs; *)
(* cleanup takes everything down.  Every command may fail, every service   *)
(* may die, and what a failed command left behind stays on the host.       *)
(***************************************************************************)
EXTENDS NetworkPlan

CONSTANTS
  Requests,    \* network policies, and the state of the host's ports (NetworkPlan)
  SelfTest,    \* --network-self-test
  MaxRuns      \* bound: runs of one iteration (a safe failure may be reset)

ASSUME SelfTestAssumption == SelfTest \in BOOLEAN
ASSUME MaxRunsAssumption == MaxRuns \in Nat \ {0}

VARIABLES
  request, \* the policy of the iteration
  pc,      \* where setup, the guest's run or cleanup is
  net,     \* the host: the namespace's name, the veth pair, the firewall inside
  procs,   \* tracked: self.processes; alive: those that run; stray: processes
           \* still running that no backend object refers to
  files,   \* manifest state, service logs, the archive and the merged events
  obj,     \* the object's plan and _cleaned, cleanup's argument and its errors
  guest,   \* the guest
  run,     \* number of the run
  fault    \* a process or a host resource of this run could not be removed, or
           \* one of an earlier run is still there

vars == <<request, pc, net, procs, files, obj, guest, run, fault>>

AllServices == {"host", "loopback", "transparent"}
Services == Wanted(request)

SetupSteps == {"netns_add", "link_add", "links", "plan", "policies",
               "fw_policy", "fw_rules", "logdirs", "start", "wait", "probe",
               "recheck", "stop", "archive", "manifest"}

FreshFiles == [manifest |-> "none", log |-> [s \in AllServices |-> {}],
               archived |-> FALSE, events |-> {}]
FreshObject == [plan |-> FALSE, cleaned |-> FALSE, final |-> FALSE,
                errs |-> FALSE, ready |-> FALSE]

Init ==
  /\ request \in Requests
  /\ pc = "idle"
  /\ net = [ns |-> FALSE, veth |-> FALSE, fw |-> "open"]
  /\ procs = [tracked |-> {}, alive |-> {}, stray |-> {}]
  /\ files = FreshFiles
  /\ obj = FreshObject
  /\ guest = "none"
  /\ run = 1
  /\ fault = FALSE

Goto(from, to) == pc = from /\ pc' = to

-----------------------------------------------------------------------------
(* What setup and cleanup share                                            *)

\* _stop_services: SIGTERM, two seconds, SIGKILL, two seconds.  A process that
\* outlives this is reported, and forgotten like the others.
StopServices(ok, failed) ==
  \E survivors \in SUBSET procs.alive, err \in BOOLEAN :
    /\ survivors # {} => err
    /\ procs.tracked = {} => ~err
    /\ procs' = [tracked |-> {}, alive |-> {},
                 stray |-> procs.stray \cup ({run} \X survivors)]
    /\ fault' = (fault \/ err)
    /\ pc' = IF err THEN failed ELSE ok
    /\ obj' = [obj EXCEPT !.errs = @ \/ (err /\ pc = "c_stop")]

\* _cleanup_topology deletes the veth pair, then the namespace, which takes a
\* veth end inside it along once nothing uses the namespace any more.  An
\* absent resource is no failure.
DeleteTopology(delVeth, delNs) ==
  /\ net' \in {[net EXCEPT !.ns = @ /\ ~delNs, !.veth = v] :
                 v \in IF net.veth /\ ~delVeth
                       THEN {TRUE} \cup (IF delNs /\ net.ns THEN {FALSE} ELSE {})
                       ELSE {FALSE}}

DeletionIgnored(delVeth, delNs) == FALSE

DeletionFails(delVeth, delNs) == (net.veth /\ ~delVeth) \/ (net.ns /\ ~delNs)

\* _write_manifest through a temporary file and os.replace
WriteManifest(state) == files' = [files EXCEPT !.manifest = state]

-----------------------------------------------------------------------------
(* setup                                                                   *)

\* Inputs, tools and sudo are checked, the requested policy is saved and the
\* names of the topology are derived.  A failure here is outside setup's try.
ValidateInputs ==
  /\ pc = "idle"
  /\ pc' \in {"preclean", "raised"}
  /\ UNCHANGED <<net, procs, files, obj, guest, run, fault>>

PreClean ==
  /\ Goto("preclean", "netns_add")
  /\ \E delVeth, delNs \in BOOLEAN :
       /\ DeleteTopology(delVeth, delNs)
       /\ fault' = DeletionFails(delVeth, delNs)
  /\ UNCHANGED <<procs, files, obj, guest, run>>

\* _create_topology, command by command where the host changes
AddNamespace ==
  /\ Goto("netns_add", "link_add")
  /\ ~net.ns
  /\ net' = [net EXCEPT !.ns = TRUE, !.fw = "open"]
  /\ UNCHANGED <<procs, files, obj, guest, run, fault>>

AddVeth ==
  /\ Goto("link_add", "links")
  /\ ~net.veth
  /\ net' = [net EXCEPT !.veth = TRUE]
  /\ UNCHANGED <<procs, files, obj, guest, run, fault>>

ConfigureLinks ==
  /\ Goto("links", "plan")
  /\ UNCHANGED <<net, procs, files, obj, guest, run, fault>>

\* _build_plan, whose arithmetic is in NetworkPlan
BuildPlan ==
  /\ Goto("plan", "policies")
  /\ Planned(request)
  /\ obj' = [obj EXCEPT !.plan = TRUE]
  /\ UNCHANGED <<net, procs, files, guest, run, fault>>

WritePolicies ==
  /\ Goto("policies", "fw_policy")
  /\ UNCHANGED <<net, procs, files, obj, guest, run, fault>>

\* _configure_firewall: first the policies drop everything, then the rules
\* that let loopback, the responders and the catch-all through are added.
DropByDefault ==
  /\ Goto("fw_policy", "fw_rules")
  /\ net' = [net EXCEPT !.fw = "closed"]
  /\ UNCHANGED <<procs, files, obj, guest, run, fault>>

AddRules ==
  /\ Goto("fw_rules", "logdirs")
  /\ net' = [net EXCEPT !.fw = IF @ = "closed" THEN "full" ELSE @]
  /\ UNCHANGED <<procs, files, obj, guest, run, fault>>

\* _configure_namespace_service_privileges, _prepare_service_log_directories
PrepareLogs ==
  /\ Goto("logdirs", "start")
  /\ UNCHANGED <<net, procs, files, obj, guest, run, fault>>

\* _start_services, one Popen at a time in the order host, loopback, transparent
Before(s) == {x \in Services : \/ s = "transparent" /\ x # s
                               \/ s = "loopback" /\ x = "host"}
StartService(s) ==
  /\ pc = "start"
  /\ s \notin procs.tracked
  /\ Before(s) \subseteq procs.tracked
  /\ procs' = [procs EXCEPT !.tracked = @ \cup {s}, !.alive = @ \cup {s}]
  /\ UNCHANGED <<pc, net, files, obj, guest, run, fault>>

ServicesStarted ==
  /\ Goto("start", "wait")
  /\ procs.tracked = Services
  /\ UNCHANGED <<net, procs, files, obj, guest, run, fault>>

\* _wait_for_services: after the grace period every process still runs
WaitForServices ==
  /\ pc = "wait"
  /\ procs.alive = procs.tracked
  /\ pc' = IF SelfTest /\ ~files.archived THEN "probe" ELSE "manifest"
  /\ UNCHANGED <<net, procs, files, obj, guest, run, fault>>

\* _self_test_code: a TCP probe is retried for five seconds and then fails; the
\* UDP probe has nobody to answer it and always succeeds.
ProbesSucceed == procs.alive = Services

\* _run_self_test connects to every kind of service and leaves its traces in
\* their logs; the services are checked again afterwards.
Probe ==
  /\ Goto("probe", "recheck")
  /\ ProbesSucceed
  /\ files' = [files EXCEPT !.log = [s \in AllServices |-> IF s \in Services THEN @[s] \cup {"probe"} ELSE @[s]]]
  /\ UNCHANGED <<net, procs, obj, guest, run, fault>>

Recheck ==
  /\ Goto("recheck", "stop")
  /\ procs.alive = procs.tracked
  /\ UNCHANGED <<net, procs, files, obj, guest, run, fault>>

\* _archive_self_test_and_restart: stop, move the logs away, start again
StopAfterSelfTest ==
  /\ pc = "stop"
  /\ StopServices("archive", "h_stop")
  /\ UNCHANGED <<net, files, guest, run>>

ArchiveKeepsLogs ==
  /\ Goto("archive", "start")
  /\ files' = [files EXCEPT !.archived = TRUE]
  /\ UNCHANGED <<net, procs, obj, guest, run, fault>>

ArchiveSelfTest ==
  /\ Goto("archive", "start")
  /\ files' = [files EXCEPT !.archived = TRUE, !.log = [s \in AllServices |-> {}]]
  /\ UNCHANGED <<net, procs, obj, guest, run, fault>>

WriteReady ==
  /\ Goto("manifest", "ready")
  /\ WriteManifest("ready")
  /\ obj' = [obj EXCEPT !.ready = TRUE]
  /\ UNCHANGED <<net, procs, guest, run, fault>>

\* Any command, file operation or check of setup's try block raises.
SetupFails ==
  /\ pc \in SetupSteps
  /\ pc' = "h_stop"
  /\ UNCHANGED <<net, procs, files, obj, guest, run, fault>>

\* setup's handler.  Its three calls share one try: when one raises, the rest
\* is skipped, and setup raises its own error in any case.
HandlerStops ==
  /\ pc = "h_stop"
  /\ StopServices("h_topology", "raised")
  /\ UNCHANGED <<net, files, guest, run>>

HandlerSkipsTopology ==
  /\ Goto("h_topology", "h_manifest")
  /\ UNCHANGED <<net, procs, files, obj, guest, run, fault>>

HandlerDeletesTopology ==
  /\ Goto("h_topology", "h_manifest")
  /\ \E delVeth, delNs \in BOOLEAN :
       /\ DeleteTopology(delVeth, delNs)
       /\ fault' = (fault \/ DeletionFails(delVeth, delNs))
  /\ UNCHANGED <<procs, files, obj, guest, run>>

HandlerWritesManifest ==
  /\ Goto("h_manifest", "raised")
  /\ \/ WriteManifest("failed")
     \/ UNCHANGED files
  /\ UNCHANGED <<net, procs, obj, guest, run, fault>>

-----------------------------------------------------------------------------
(* The guest, and cleanup                                                  *)

StartGuest ==
  /\ Goto("ready", "running")
  /\ guest' = "running"
  /\ UNCHANGED <<net, procs, files, obj, run, fault>>

\* A living service, tracked or not, logs what the guest sends, possibly after the guest's end.
LogTraffic(s) ==
  /\ guest # "none"
  /\ s \in procs.alive \/ <<run, s>> \in procs.stray
  /\ "guest" \notin files.log[s]
  /\ files' = [files EXCEPT !.log[s] = @ \cup {"guest"}]
  /\ UNCHANGED <<pc, net, procs, obj, guest, run, fault>>

ServiceDies(s) ==
  /\ s \in procs.alive
  /\ procs' = [procs EXCEPT !.alive = @ \ {s}]
  /\ UNCHANGED <<pc, net, files, obj, guest, run, fault>>

\* cleanup returns at once when it was called before.
Cleanup(final) ==
  /\ obj' = [obj EXCEPT !.cleaned = TRUE, !.final = final]
  /\ pc' = IF obj.cleaned THEN "ended" ELSE "c_stop"

\* The runner's finally clause: cleanup(finalize_logs=True) after the guest, or
\* after a failure between setup and the guest.  When it raises, the handler
\* of the runner calls cleanup again, which returns at once.
GuestEnds ==
  /\ pc \in {"ready", "running"}
  /\ guest' = IF pc = "running" THEN "ended" ELSE guest
  /\ Cleanup(TRUE)
  /\ UNCHANGED <<net, procs, files, run, fault>>

\* The runner's handler after setup raised: cleanup(finalize_logs=False)
RunnerHandler ==
  /\ pc = "raised"
  /\ Cleanup(FALSE)
  /\ UNCHANGED <<net, procs, files, guest, run, fault>>

AfterStop == IF obj.final THEN "c_events" ELSE "c_topology"

CleanupStops ==
  /\ pc = "c_stop"
  /\ StopServices(AfterStop, AfterStop)
  /\ UNCHANGED <<net, files, guest, run>>

\* _aggregate_network_events merges the logs; an unreadable line makes it raise.
AggregateEvents ==
  /\ Goto("c_events", "c_topology")
  /\ \/ /\ files' = [files EXCEPT !.events = UNION {files.log[s] : s \in Services}]
        /\ UNCHANGED obj
     \/ /\ obj' = [obj EXCEPT !.errs = TRUE]
        /\ UNCHANGED files
  /\ UNCHANGED <<net, procs, guest, run, fault>>

CleanupDeletesTopology ==
  /\ Goto("c_topology", "c_manifest")
  /\ obj.plan
  /\ \E delVeth, delNs \in BOOLEAN :
       /\ DeleteTopology(delVeth, delNs)
       /\ fault' = (fault \/ DeletionFails(delVeth, delNs))
       /\ obj' = [obj EXCEPT !.errs = @ \/ DeletionFails(delVeth, delNs)]
  /\ UNCHANGED <<procs, files, guest, run>>

CleanupWithoutPlan ==
  /\ Goto("c_topology", "c_manifest")
  /\ ~obj.plan
  /\ UNCHANGED <<net, procs, files, obj, guest, run, fault>>

CleanupWritesManifest ==
  /\ Goto("c_manifest", "ended")
  /\ \/ /\ WriteManifest(IF obj.errs THEN "cleanup_failed" ELSE "cleaned")
        /\ UNCHANGED obj
     \/ /\ obj' = [obj EXCEPT !.errs = TRUE]
        /\ UNCHANGED files
  /\ UNCHANGED <<net, procs, guest, run, fault>>

\* reset_safe_failure and a new run: a new object and a new run directory on
\* the same host, for the same session and iteration and so the same names.
RunAgain ==
  /\ pc = "ended"
  /\ guest = "none"
  /\ run < MaxRuns
  /\ pc' = "idle"
  /\ run' = run + 1
  /\ files' = FreshFiles
  /\ obj' = FreshObject
  /\ fault' = (net.ns \/ net.veth)
  /\ UNCHANGED <<net, procs, guest>>

-----------------------------------------------------------------------------
BackendStep ==
  \/ ValidateInputs \/ PreClean \/ AddNamespace \/ AddVeth \/ ConfigureLinks
  \/ BuildPlan \/ WritePolicies \/ DropByDefault \/ AddRules \/ PrepareLogs
  \/ \E s \in Services : StartService(s)
  \/ ServicesStarted \/ WaitForServices \/ Probe \/ Recheck
  \/ StopAfterSelfTest \/ ArchiveSelfTest \/ WriteReady \/ SetupFails
  \/ HandlerStops \/ HandlerDeletesTopology \/ HandlerWritesManifest
  \/ StartGuest \/ GuestEnds \/ RunnerHandler
  \/ CleanupStops \/ AggregateEvents \/ CleanupDeletesTopology
  \/ CleanupWithoutPlan \/ CleanupWritesManifest

Next ==
  /\ \/ BackendStep
     \/ \E s \in Services : LogTraffic(s) \/ ServiceDies(s)
     \/ RunAgain
  /\ UNCHANGED request

Spec == Init /\ [][Next]_vars

-----------------------------------------------------------------------------
(* Properties                                                              *)

\* Where a packet of the guest ends, with as much of the firewall as there is.
Reaches(p) ==
  CASE net.fw = "open"   -> [ip |-> p.ip, port |-> p.port]
    [] net.fw = "closed" -> Dropped
    [] net.fw = "full"   -> Deliver(request, p)

\* No packet leaves the host while the guest runs: whatever the policy asks for,
\* however setup went and whatever earlier runs left behind, it ends on
\* loopback, at the gateway address or nowhere.
NoEgress ==
  guest = "running" =>
    /\ net.ns
    /\ \A p \in Packets : Reaches(p).ip \in {Loopback, Namespace, Gateway, "dropped"}

\* The destination logged for a TCP connection is the one the guest dialled,
\* unless it dialled a responder's own port at the gateway, or two responders
\* were given one port, of which only one can be bound.
EndpointPreserved ==
  guest = "running" /\ ~SharedPort(request) =>
    \A p \in Packets :
      p.proto = "tcp" /\ p.ip # Gateway /\ Deliver(request, p) # Dropped =>
        Logged(request, p) = <<p.ip, p.port>>

\* The self test's own traffic is never reported as the guest's.
EvidenceIsTheGuests == "probe" \notin files.events

\* After a successful setup, a manifest that says "cleaned" means that the
\* namespace, the veth pair and every service of the run are gone.
CleanedAfterReady ==
  files.manifest = "cleaned" /\ obj.ready =>
    /\ ~net.ns /\ ~net.veth
    /\ procs.alive = {}
    /\ ~ \E s \in Services : <<run, s>> \in procs.stray

\* The same for a setup that failed at any of its steps, as long as every
\* process died when told to and every resource could be deleted.
FailedSetupLeavesNothing ==
  pc = "ended" /\ ~fault =>
    /\ ~net.ns /\ ~net.veth
    /\ procs.alive = {}
    /\ ~ \E s \in Services : <<run, s>> \in procs.stray
=============================================================================
