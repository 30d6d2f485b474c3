--------------------------- MODULE StaticPipeline ---------------------------
(***************************************************************************)
(* scripts/run_static_pipeline.py: main, with the parts of network_policy  *)
(* and network_stub that decide whether Phase 2's listeners can be bound.  *)
(* Pipelines on one host share the port threshold that the privileged bind *)
(* workaround lowers and puts back.                                        *)
(***************************************************************************)
EXTENDS Naturals, FiniteSets, FiniteSetsExt

CONSTANTS
  Pipelines,
  Events,       \* Phase 1 network events: [op, host, port, type]
  MaxEvents,    \* bound: network events of a sample
  Threshold,    \* net.ipv4.ip_unprivileged_port_start at first
  Loopback,     \* hosts in 127.0.0.0/8
  MaxFaults,    \* bound: failing steps
  MaxInterrupts \* bound: KeyboardInterrupts

MaxPort == 65535
Ports == 1 .. MaxPort

ASSUME BoundsAssumption ==
  /\ MaxEvents \in Nat /\ MaxFaults \in Nat /\ MaxInterrupts \in Nat
  /\ Threshold \in Ports

VARIABLES
  portStart,   \* the threshold now
  pipe,        \* per pipeline: configuration, progress and report
  disk,        \* per pipeline: the pipeline_report.json in its output directory
  faults, interrupts

vars == <<portStart, pipe, disk, faults, interrupts>>

-----------------------------------------------------------------------------
(* The bridge                                                              *)

\* classify_network_type
NetworkType(e) ==
  CASE e.port = 53 -> "dns"
    [] e.port = 123 -> "ntp"
    [] e.port \notin {53, 123} /\ e.op = "sendto" -> "udp"
    [] OTHER -> IF e.type \in {"tcp", "udp"} THEN e.type ELSE "tcp"

HasEndpoint(e) == e.op \in {"connect", "sendto"} /\ e.host # "invalid" /\ e.port \in Ports
Endpoint(e) == [host |-> e.host, port |-> e.port, type |-> NetworkType(e)]
Endpoints(raw) == {Endpoint(e) : e \in {e \in raw : HasEndpoint(e)}}

\* normalize_network_dependencies: what Phase 2 is given, and what the audit
\* keeps as unsupported.
Emulatable(raw) == {x \in Endpoints(raw) : x.host \notin Loopback}

\* NetworkDependency.transport and build_service_policy: one listener per TCP
\* endpoint, on the endpoint's own port.
KnownServices(raw) == {x \in Emulatable(raw) : x.type \notin {"udp", "dns", "ntp"}}
\* tcp_dependency_ports
TcpDependencyPorts(raw) == {x.port : x \in KnownServices(raw)}

ChooseEffective(c, raw) ==
  IF c.network = "auto" /\ Emulatable(raw) = {}
  THEN [network |-> "none", selfTest |-> FALSE]
  ELSE [network |-> c.network, selfTest |-> c.selfTest]

-----------------------------------------------------------------------------
(* State                                                                   *)

\* parse_args refuses a self test without a network.
Configs ==
  {c \in [network : {"auto", "none", "emulated"}, selfTest : BOOLEAN, force : BOOLEAN,
          workaround : BOOLEAN, root : BOOLEAN] : ~(c.network = "none" /\ c.selfTest)}
NotChosen == [network |-> "auto", selfTest |-> FALSE]
Unset == 0

Fresh(c, raw, exists) ==
  [config |-> c, raw |-> raw, exists |-> exists, rooted |-> FALSE,
   pc |-> "resolve", status |-> "initializing", phase1 |-> FALSE, phase2 |-> FALSE,
   effective |-> NotChosen, original |-> Unset, applied |-> FALSE,
   failed |-> FALSE, gap |-> FALSE, interrupted |-> FALSE, exit |-> "running"]

Init ==
  /\ portStart = Threshold
  /\ \E c \in [Pipelines -> Configs], x \in [Pipelines -> BOOLEAN],
        raw \in [Pipelines -> {s \in SUBSET Events : Cardinality(s) <= MaxEvents}] :
       /\ pipe = [p \in Pipelines |-> Fresh(c[p], raw[p], x[p])]
       /\ disk = [p \in Pipelines |-> IF x[p] THEN "previous" ELSE "none"]
  /\ faults = 0 /\ interrupts = 0

At(p, pc) == pipe[p].pc = pc
Set(p, new) == pipe' = [pipe EXCEPT ![p] = new]
Goto(p, pc) == Set(p, [pipe[p] EXCEPT !.pc = pc])
Fault == faults < MaxFaults /\ faults' = faults + 1
\* raise PipelineError or OSError: main's handler, then its finally clause
Raise(p) == Set(p, [pipe[p] EXCEPT !.pc = "report", !.status = "failed"])
OrFault(p, next) ==
  \/ Set(p, next) /\ UNCHANGED faults
  \/ Fault /\ Raise(p)

-----------------------------------------------------------------------------
(* main                                                                    *)

\* Project root, sample, ELF header, plugin and qemu; then output_root is set.
Resolve(p) ==
  /\ At(p, "resolve")
  /\ OrFault(p, [pipe[p] EXCEPT !.pc = "prepare", !.rooted = TRUE])
  /\ UNCHANGED <<portStart, disk, interrupts>>

\* prepare_output_directory: the check, and rmtree, which may stop half-way.
RemoveOutput(p) ==
  /\ At(p, "prepare")
  /\ \/ /\ pipe[p].exists /\ ~pipe[p].config.force
        /\ Raise(p)
        /\ UNCHANGED <<disk, faults>>
     \/ /\ ~pipe[p].exists \/ pipe[p].config.force
        /\ Set(p, [pipe[p] EXCEPT !.pc = "make", !.exists = FALSE])
        /\ disk' = [disk EXCEPT ![p] = "none"]
        /\ UNCHANGED faults
     \/ /\ pipe[p].exists /\ pipe[p].config.force
        /\ Fault /\ Raise(p)
        /\ \E left \in {disk[p], "none"} : disk' = [disk EXCEPT ![p] = left]
  /\ UNCHANGED <<portStart, interrupts>>

\* The two calls of mkdir; one that fails may leave the directory behind.
MakeOutput(p) ==
  /\ At(p, "make")
  /\ \/ /\ Set(p, [pipe[p] EXCEPT !.pc = "phase1", !.exists = TRUE])
        /\ UNCHANGED faults
     \/ /\ Fault
        /\ \E made \in BOOLEAN :
             Set(p, [pipe[p] EXCEPT !.pc = "report", !.status = "failed", !.exists = made])
  /\ UNCHANGED <<portStart, disk, interrupts>>

\* Phase 1 may exit with an error as long as both artifacts are there.
RunPhase1(p) ==
  /\ At(p, "phase1")
  /\ OrFault(p, [pipe[p] EXCEPT !.pc = "bridge", !.phase1 = TRUE])
  /\ UNCHANGED <<portStart, disk, interrupts>>

Bridge(p) ==
  /\ At(p, "bridge")
  /\ OrFault(p, [pipe[p] EXCEPT !.pc = "read_threshold",
                   !.effective = ChooseEffective(pipe[p].config, pipe[p].raw)])
  /\ UNCHANGED <<portStart, disk, interrupts>>

\* enable_privileged_bind_workaround
NeedsWorkaround(p) ==
  /\ pipe[p].config.workaround /\ ~pipe[p].config.root
  /\ pipe[p].effective.network # "none"
  /\ TcpDependencyPorts(pipe[p].raw) # {}

ReadThreshold(p) ==
  /\ At(p, "read_threshold")
  /\ IF ~NeedsWorkaround(p) THEN Goto(p, "phase2") /\ UNCHANGED faults
     ELSE OrFault(p, [pipe[p] EXCEPT !.original = portStart,
            !.pc = IF Min(TcpDependencyPorts(pipe[p].raw)) >= portStart
                   THEN "phase2" ELSE "lower"])
  /\ UNCHANGED <<portStart, disk, interrupts>>

LowerToHighest(p) ==
  /\ At(p, "lower")
  /\ portStart' = Max(TcpDependencyPorts(pipe[p].raw))
  /\ Set(p, [pipe[p] EXCEPT !.pc = "lowered", !.applied = TRUE])
  /\ UNCHANGED <<disk, faults, interrupts>>

LowerThreshold(p) ==
  /\ At(p, "lower")
  /\ \/ /\ portStart' = Min(TcpDependencyPorts(pipe[p].raw))
        /\ Set(p, [pipe[p] EXCEPT !.pc = "lowered", !.applied = TRUE])
        /\ UNCHANGED faults
     \/ Fault /\ Raise(p) /\ UNCHANGED portStart
  /\ UNCHANGED <<disk, interrupts>>

\* The try clause begins only after the workaround has returned.
EnterTry(p) ==
  /\ At(p, "lowered")
  /\ Goto(p, "phase2")
  /\ UNCHANGED <<portStart, disk, faults, interrupts>>

\* The emulator binds one listener per known service, as the invoking user; one
\* that cannot be bound, or two on the same port, end it, and Phase 2 fails.
Bindable(p) ==
  LET services == KnownServices(pipe[p].raw)
  IN  /\ \A x \in services : pipe[p].config.root \/ x.port >= portStart
      /\ \A x, y \in services : x.port = y.port => x = y

RunPhase2(p) ==
  /\ At(p, "phase2")
  /\ \/ /\ pipe[p].effective.network = "none" \/ Bindable(p)
        /\ Set(p, [pipe[p] EXCEPT !.pc = "restore", !.phase2 = TRUE])
        /\ UNCHANGED faults
     \/ /\ pipe[p].effective.network # "none" /\ ~Bindable(p)
        /\ Set(p, [pipe[p] EXCEPT !.pc = "restore", !.failed = TRUE])
        /\ UNCHANGED faults
     \/ Fault /\ Set(p, [pipe[p] EXCEPT !.pc = "restore", !.failed = TRUE])
  /\ UNCHANGED <<portStart, disk, interrupts>>

RestoreUnlessFailed(p) ==
  /\ At(p, "restore")
  /\ portStart' = IF pipe[p].applied /\ ~pipe[p].failed THEN pipe[p].original ELSE portStart
  /\ Goto(p, "restored")
  /\ UNCHANGED <<disk, faults, interrupts>>

\* restore_privileged_bind_workaround, in the finally clause.  What it raises takes
\* the place of the exception that was under way, and main's handler catches it.
RestoreThreshold(p) ==
  /\ At(p, "restore")
  /\ \/ /\ portStart' = IF pipe[p].applied THEN pipe[p].original ELSE portStart
        /\ Goto(p, "restored")
        /\ UNCHANGED faults
     \/ /\ pipe[p].applied
        /\ Fault /\ Set(p, [pipe[p] EXCEPT !.pc = "report", !.status = "failed",
                               !.interrupted = FALSE, !.gap = TRUE])
        /\ UNCHANGED portStart
  /\ UNCHANGED <<disk, interrupts>>

\* What Phase 2 raised goes on behind the finally clause; else the run has succeeded.
LeaveTry(p) ==
  /\ At(p, "restored")
  /\ Set(p, [pipe[p] EXCEPT !.pc = "report",
       !.status = CASE pipe[p].interrupted -> @
                    [] pipe[p].failed /\ ~pipe[p].interrupted -> "failed"
                    [] OTHER -> "completed"])
  /\ UNCHANGED <<portStart, disk, faults, interrupts>>

\* The finally clause of main writes the report wherever output_root exists.
Report(p) ==
  /\ At(p, "report")
  /\ \/ /\ disk' = [disk EXCEPT ![p] =
             IF pipe[p].rooted /\ pipe[p].exists THEN pipe[p].status ELSE disk[p]]
        /\ Set(p, [pipe[p] EXCEPT !.pc = "done",
             !.exit = CASE pipe[p].interrupted -> "traceback"
                        [] pipe[p].status = "completed" /\ ~pipe[p].interrupted -> "0"
                        [] OTHER -> "1"])
        /\ UNCHANGED faults
     \/ /\ pipe[p].rooted /\ pipe[p].exists
        /\ Fault /\ Set(p, [pipe[p] EXCEPT !.pc = "done", !.exit = "traceback"])
        /\ UNCHANGED disk
  /\ UNCHANGED <<portStart, interrupts>>

\* KeyboardInterrupt, or an exception that main does not catch, at any step.  Only
\* Phase 2 is inside the try clause.  An interrupt that finds the threshold lowered
\* before the clause begins, or in its finally clause before the restoring write,
\* leaves it so.  One at the end comes before, or in the place of, the report.
Interrupt(p) ==
  /\ interrupts < MaxInterrupts /\ interrupts' = interrupts + 1
  /\ \/ /\ pipe[p].pc \notin {"report", "done"}
        /\ Set(p, [pipe[p] EXCEPT !.interrupted = TRUE,
                     !.pc = IF At(p, "phase2") THEN "restore" ELSE "report",
                     !.gap = @ \/ At(p, "lowered") \/ (At(p, "restore") /\ pipe[p].applied)])
     \/ /\ At(p, "report")
        /\ \/ Set(p, [pipe[p] EXCEPT !.interrupted = TRUE])
           \/ Set(p, [pipe[p] EXCEPT !.interrupted = TRUE, !.pc = "done", !.exit = "traceback"])
  /\ UNCHANGED <<portStart, disk, faults>>

Next ==
  \E p \in Pipelines :
    \/ Resolve(p) \/ RemoveOutput(p) \/ MakeOutput(p) \/ RunPhase1(p) \/ Bridge(p)
    \/ ReadThreshold(p) \/ LowerThreshold(p) \/ EnterTry(p) \/ RunPhase2(p)
    \/ RestoreThreshold(p) \/ LeaveTry(p) \/ Report(p) \/ Interrupt(p)

Spec == Init /\ [][Next]_vars

-----------------------------------------------------------------------------
(* Properties                                                              *)

\* Once every pipeline has ended the threshold is back at its value, whatever failed
\* or was interrupted on the way.  The restoring write may itself fail, and the
\* finally clause is not protected: an interrupt may come after the lowering and
\* before the try clause, or in the finally clause before the write.  Then the
\* threshold stays lowered, and the pipeline that lowered it says so: it has neither
\* exited with 0 nor written a report of a completed run.
ThresholdRestored ==
  (\A p \in Pipelines : At(p, "done")) =>
    \/ portStart = Threshold
    \/ \E p \in Pipelines : /\ pipe[p].gap /\ pipe[p].applied
                            /\ pipe[p].exit # "0" /\ disk[p] # "completed"

\* When Phase 2 is to emulate as an ordinary user with the workaround on, the
\* threshold admits every known service and not only some.
ServicesAreAdmitted ==
  \A p \in Pipelines :
    At(p, "phase2") /\ NeedsWorkaround(p) =>
      \A x \in KnownServices(pipe[p].raw) : x.port >= portStart
=============================================================================
