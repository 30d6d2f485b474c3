------------------------ MODULE NetworkBackendProofs ------------------------
(***************************************************************************)
(* Proofs about NetworkBackend and NetworkPlan, for every policy, every    *)
(* set of busy ports and any number of runs.  The rules are argued about   *)
(* packet by packet; setup, the guest's run and cleanup by what every pc   *)
(* still implies about the host, the services, the logs and the manifest.  *)
(***************************************************************************)
EXTENDS NetworkBackend, WellFoundedInduction, TLAPS

-----------------------------------------------------------------------------
(* The plan and the firewall                                               *)

\* A nonempty set of places has a first one.
LEMMA FirstExists ==
  ASSUME NEW S \in SUBSET Nat, S # {}
  PROVE  FirstOf(S) \in S /\ \A j \in S : FirstOf(S) <= j
<1> DEFINE R == OpToRel(<, Nat)
<1>1. PICK x \in S : \A y \in S : ~(<<y, x>> \in R)
  <2>1. IsWellFoundedOn(R, Nat)
    BY NatLessThanWellFounded
  <2> HIDE DEF R
  <2> QED BY <2>1, WFMin
<1>2. \A y \in S : <<y, x>> \in R <=> y < x
  BY DEF OpToRel
<1> HIDE DEF R
<1>3. \A y \in S : x <= y
  <2> TAKE y \in S
  <2>1. ~(y < x)
    BY <1>1, <1>2, Zenon
  <2>2. x \in Nat /\ y \in Nat
    OBVIOUS
  <2> QED BY <2>1, <2>2
<1> QED BY <1>3 DEF FirstOf

\* Host services are listed by their places in the policy.
LEMMA Places ==
  ASSUME NEW q, NEW p
  PROVE  /\ DOMAIN HostServices(q) = HostItems(q)
         /\ HostItems(q) \in SUBSET Nat
         /\ Matching(q, p) \in SUBSET HostItems(q)
BY DEF HostServices, HostItems, Matching

\* With all its rules the firewall lets a new flow end on the host only.
LEMMA DeliveredOnHost ==
  ASSUME NEW q \in Requests, NEW p \in Packets
  PROVE  Deliver(q, p).ip \in {Loopback, Namespace, Gateway, "dropped"}
<1> DEFINE d == NatOutput(q, p)
<1>1. CASE ~Filter(q, p, d)
  BY <1>1 DEF Deliver, Dropped
<1>2. CASE Filter(q, p, d) /\ d.ip \in {Loopback, Namespace, Gateway}
  BY <1>2 DEF Deliver
<1>3. CASE Filter(q, p, d) /\ d.ip \notin {Loopback, Namespace, Gateway}
  <2>1. q.catchAll /\ p.proto # "icmp"
    BY <1>3 DEF Filter
  <2>2. Matching(q, p) = {}
    BY <1>3 DEF NatOutput
  <2>3. p.ip \in {Gateway, Loopback}
    BY <1>3, <2>1, <2>2 DEF NatOutput, CatchAll
  <2>4. d.ip = p.ip
    BY <2>2, <2>3 DEF NatOutput
  <2> QED BY <1>3, <2>3, <2>4
<1> QED BY <1>1, <1>2, <1>3

\* A connection that is answered at the gateway was dialled to a known endpoint,
\* and the responder behind the port is the one for that endpoint.
LEMMA ResponderIsTheDialled ==
  ASSUME NEW q \in Requests, ~SharedPort(q), NEW p \in Packets,
         p.proto = "tcp", p.ip # Gateway, Deliver(q, p) # Dropped
  PROVE  Logged(q, p) = <<p.ip, p.port>>
<1> DEFINE d == Deliver(q, p)
           H == HostServices(q)
           here == {i \in DOMAIN H : H[i].bind = d.port}
           first == FirstOf(Matching(q, p))
<1>1. CASE d.ip # Gateway
  BY <1>1 DEF Logged
<1>2. CASE d.ip = Gateway
  <2>1. d = NatOutput(q, p)
    BY DEF Deliver
  <2>2. Matching(q, p) # {}
    <3>1. ASSUME Matching(q, p) = {} PROVE FALSE
      BY <1>2, <2>1, <3>1 DEF NatOutput, CatchAll, Gateway, Loopback
    <3> QED BY <3>1
  <2>3. first \in Matching(q, p)
    BY <2>2, Places, FirstExists
  <2>4. first \in DOMAIN H /\ H[first].ip = p.ip /\ H[first].port = p.port
    BY <2>3 DEF Matching
  <2>5. d.port = H[first].bind
    BY <2>1, <2>2 DEF NatOutput
  <2>6. here = {first}
    BY <2>4, <2>5 DEF SharedPort
  <2>7. FirstOf(here) = first
    BY <2>6, <2>4, Places, FirstExists
  <2>8. Logged(q, p) = <<H[first].ip, H[first].port>>
    BY <1>2, <2>7 DEF Logged
  <2> QED BY <2>4, <2>8
<1> QED BY <1>1, <1>2

-----------------------------------------------------------------------------
(* The inductive invariant                                                 *)

Handling == {"h_stop", "h_topology", "h_manifest", "raised"}
Cleaning == {"c_stop", "c_events", "c_topology", "c_manifest"}
PcLabels == {"idle", "preclean", "ready", "running", "ended"}
              \cup SetupSteps \cup Handling \cup Cleaning
Forward == {"idle", "preclean", "ready", "running"} \cup SetupSteps
Ruled == {"logdirs", "start", "wait", "probe", "recheck", "stop", "archive", "manifest",
          "ready", "running"}
Sources == {"probe", "guest"}

\* Type correctness.
TypeOK ==
  /\ request \in Requests /\ pc \in PcLabels
  /\ net \in [ns : BOOLEAN, veth : BOOLEAN, fw : {"open", "closed", "full"}]
  /\ procs \in [tracked : SUBSET AllServices, alive : SUBSET AllServices,
                stray : SUBSET (Nat \X AllServices)]
  /\ files \in [manifest : {"none", "ready", "failed", "cleaned", "cleanup_failed"},
                log : [AllServices -> SUBSET Sources], archived : BOOLEAN,
                events : SUBSET Sources]
  /\ obj \in [plan : BOOLEAN, cleaned : BOOLEAN, final : BOOLEAN,
                  errs : BOOLEAN, ready : BOOLEAN]
  /\ guest \in {"none", "running", "ended"}
  /\ run \in Nat /\ fault \in BOOLEAN

HostClean == ~net.ns /\ ~net.veth
NoStray == \A s \in AllServices : <<run, s>> \notin procs.stray
LogsUnprobed == \A s \in AllServices : "probe" \notin files.log[s]

\* The namespace stands from its creation on, and the rules from theirs.
RulesStand ==
  /\ pc \in {"link_add", "links", "plan", "policies", "fw_policy", "fw_rules"} \cup Ruled
       => net.ns
  /\ pc = "fw_rules" => net.fw = "closed"
  /\ pc \in Ruled => net.fw = "full"
  /\ guest = "running" => pc = "running"

\* The traces of the self test are in the logs only between the probes and the
\* archive, or when setup has failed and no events will be merged.
ProbesAreArchived ==
  /\ \/ pc \in (Forward \ {"recheck", "stop", "archive"}) \cup {"c_events"}
     \/ pc = "c_stop" /\ obj.final
     => LogsUnprobed
  /\ EvidenceIsTheGuests

\* What the object knows.
ObjectIsTrue ==
  /\ pc \in Forward \cup Handling => ~obj.cleaned /\ ~obj.errs
  /\ pc \in {"policies", "fw_policy", "fw_rules"} \cup Ruled => obj.plan
  /\ obj.ready => obj.plan
  /\ obj.ready => pc \in {"ready", "running", "ended"} \cup Cleaning
  /\ files.manifest = "cleaned" => pc = "ended"

\* Services that outlived a signal are known to be a fault.
StraysAreFaults ==
  /\ \A n \in Nat, s \in AllServices : <<n, s>> \in procs.stray => n <= run
  /\ ~fault => NoStray
  /\ pc \in Forward => NoStray
  /\ obj.ready /\ ~obj.errs => NoStray
  /\ pc \in {"h_topology", "c_events", "c_topology", "c_manifest", "ended", "idle"}
       => procs.alive = {}

\* What is left of the namespace and the veth pair is known to be a fault, or
\* is still to be deleted.
RestIsFault ==
  /\ pc \in {"idle", "h_manifest", "raised", "c_manifest", "ended"} /\ ~fault => HostClean
  /\ pc \in {"c_stop", "c_events", "c_topology"} /\ ~fault => obj.plan \/ HostClean
  /\ pc = "c_manifest" /\ obj.ready /\ ~obj.errs => HostClean
  /\ files.manifest = "cleaned" /\ obj.ready => HostClean /\ NoStray

Inv == /\ TypeOK /\ RulesStand /\ ProbesAreArchived /\ ObjectIsTrue
       /\ StraysAreFaults /\ RestIsFault

-----------------------------------------------------------------------------
(* The steps                                                               *)

\* The topology is deleted, or its deletion fails.
LEMMA Deleted ==
  ASSUME TypeOK, NEW delVeth \in BOOLEAN, NEW delNs \in BOOLEAN, DeleteTopology(delVeth, delNs)
  PROVE  /\ net' \in [ns : BOOLEAN, veth : BOOLEAN, fw : {"open", "closed", "full"}]
         /\ ~DeletionFails(delVeth, delNs) => HostClean'
         /\ DeletionFails(delVeth, delNs) \in BOOLEAN
<1>1. PICK v \in BOOLEAN :
        /\ net' = [net EXCEPT !.ns = @ /\ ~delNs, !.veth = v]
        /\ v => net.veth /\ ~delVeth
  BY DEF DeleteTopology, TypeOK
<1>2. net' \in [ns : BOOLEAN, veth : BOOLEAN, fw : {"open", "closed", "full"}]
  BY <1>1 DEF TypeOK
<1>3. net'.ns = (net.ns /\ ~delNs) /\ net'.veth = v
  BY <1>1 DEF TypeOK
<1>4. ~DeletionFails(delVeth, delNs) => HostClean'
  BY <1>1, <1>3 DEF DeletionFails, HostClean
<1>5. DeletionFails(delVeth, delNs) \in BOOLEAN
  BY DEF DeletionFails
<1> QED BY <1>2, <1>4, <1>5

\* Steps that change nothing but the place.
LEMMA MovesOnStep ==
  ASSUME Inv, request' = request,
         \/ ValidateInputs \/ ConfigureLinks \/ WritePolicies \/ PrepareLogs
         \/ ServicesStarted \/ WaitForServices \/ Recheck \/ SetupFails
         \/ CleanupWithoutPlan
  PROVE  Inv'
<1>1. TypeOK'
  BY DEF Inv, TypeOK, PcLabels, SetupSteps, Handling, Cleaning, Sources, AllServices,
     ValidateInputs, ConfigureLinks, WritePolicies, PrepareLogs, ServicesStarted,
     WaitForServices, Recheck, SetupFails, CleanupWithoutPlan, Goto
<1>2. RulesStand'
  BY DEF Inv, TypeOK, RulesStand, Ruled, SetupSteps, ValidateInputs, ConfigureLinks,
     WritePolicies, PrepareLogs, ServicesStarted, WaitForServices, Recheck, SetupFails,
     CleanupWithoutPlan, Goto
<1>3. ProbesAreArchived'
  BY DEF Inv, TypeOK, ProbesAreArchived, LogsUnprobed, EvidenceIsTheGuests, Forward,
     SetupSteps, ValidateInputs, ConfigureLinks, WritePolicies, PrepareLogs, ServicesStarted,
     WaitForServices, Recheck, SetupFails, CleanupWithoutPlan, Goto
<1>4. ObjectIsTrue'
  BY DEF Inv, TypeOK, ObjectIsTrue, Ruled, Forward, SetupSteps, Handling, Cleaning,
     ValidateInputs, ConfigureLinks, WritePolicies, PrepareLogs, ServicesStarted,
     WaitForServices, Recheck, SetupFails, CleanupWithoutPlan, Goto
<1>5. StraysAreFaults'
  BY
  DEF Inv, TypeOK, StraysAreFaults, ObjectIsTrue, NoStray, Forward, SetupSteps,
      Handling,
     Cleaning, ValidateInputs, ConfigureLinks, WritePolicies, PrepareLogs, ServicesStarted,
     WaitForServices, Recheck, SetupFails, CleanupWithoutPlan, Goto
<1>6. RestIsFault'
  BY
  DEF Inv, TypeOK, RestIsFault, StraysAreFaults, ObjectIsTrue, HostClean, NoStray,
      Ruled,
     Forward, SetupSteps, Handling, Cleaning, ValidateInputs, ConfigureLinks, WritePolicies,
     PrepareLogs, ServicesStarted, WaitForServices, Recheck, SetupFails, CleanupWithoutPlan,
     Goto
<1> QED BY <1>1, <1>2, <1>3, <1>4, <1>5, <1>6 DEF Inv

\* The namespace, the veth pair and the firewall are built.
LEMMA BuildsStep ==
  ASSUME Inv, request' = request,
         AddNamespace \/ AddVeth \/ DropByDefault \/ AddRules
  PROVE  Inv'
<1>1. TypeOK'
  BY DEF Inv, TypeOK, PcLabels, SetupSteps, Handling, Cleaning, Sources, AllServices,
     AddNamespace, AddVeth, DropByDefault, AddRules, Goto
<1>2. RulesStand'
  BY
  DEF Inv, TypeOK, RulesStand, Ruled, SetupSteps, AddNamespace, AddVeth, DropByDefault,
     AddRules, Goto
<1>3. ProbesAreArchived'
  BY DEF Inv, TypeOK, ProbesAreArchived, LogsUnprobed, EvidenceIsTheGuests, Forward,
     SetupSteps, AddNamespace, AddVeth, DropByDefault, AddRules, Goto
<1>4. ObjectIsTrue'
  BY DEF Inv, TypeOK, ObjectIsTrue, Ruled, Forward, SetupSteps, Handling, Cleaning,
     AddNamespace, AddVeth, DropByDefault, AddRules, Goto
<1>5. StraysAreFaults'
  BY
  DEF Inv, TypeOK, StraysAreFaults, ObjectIsTrue, NoStray, Forward, SetupSteps,
      Handling,
     Cleaning, AddNamespace, AddVeth, DropByDefault, AddRules, Goto
<1>6. RestIsFault'
  BY
  DEF Inv, TypeOK, RestIsFault, StraysAreFaults, ObjectIsTrue, HostClean, NoStray,
      Ruled,
     Forward, SetupSteps, Handling, Cleaning, AddNamespace, AddVeth, DropByDefault, AddRules,
     Goto
<1> QED BY <1>1, <1>2, <1>3, <1>4, <1>5, <1>6 DEF Inv

\* The plan is made; setup is complete.
LEMMA PlansStep ==
  ASSUME Inv, request' = request,
         BuildPlan \/ WriteReady
  PROVE  Inv'
<1>1. TypeOK'
  BY DEF Inv, TypeOK, PcLabels, SetupSteps, Handling, Cleaning, Sources, AllServices,
     BuildPlan, WriteReady, Goto, WriteManifest
<1>2. RulesStand'
  BY
  DEF Inv, TypeOK, RulesStand, Ruled, SetupSteps, BuildPlan, WriteReady, Goto,
      WriteManifest
<1>3. ProbesAreArchived'
  BY DEF Inv, TypeOK, ProbesAreArchived, LogsUnprobed, EvidenceIsTheGuests, Forward,
     SetupSteps, BuildPlan, WriteReady, Goto, WriteManifest
<1>4. ObjectIsTrue'
  BY
  DEF Inv, TypeOK, ObjectIsTrue, Ruled, Forward, SetupSteps, Handling, Cleaning,
      BuildPlan,
     WriteReady, Goto, WriteManifest
<1>5. StraysAreFaults'
  BY
  DEF Inv, TypeOK, StraysAreFaults, ObjectIsTrue, NoStray, Forward, SetupSteps,
      Handling,
     Cleaning, BuildPlan, WriteReady, Goto, WriteManifest
<1>6. RestIsFault'
  BY
  DEF Inv, TypeOK, RestIsFault, StraysAreFaults, ObjectIsTrue, HostClean, NoStray,
      Ruled,
     Forward, SetupSteps, Handling, Cleaning, BuildPlan, WriteReady, Goto, WriteManifest
<1> QED BY <1>1, <1>2, <1>3, <1>4, <1>5, <1>6 DEF Inv

\* A service starts or dies.
LEMMA ServicesStep ==
  ASSUME Inv, request' = request,
         NEW s \in AllServices, StartService(s) \/ ServiceDies(s)
  PROVE  Inv'
<1>7. UNCHANGED <<pc, net, files, obj, guest, run, fault>>
  BY DEF StartService, ServiceDies
<1>8. /\ procs' \in [tracked : SUBSET AllServices, alive : SUBSET AllServices,
                     stray : SUBSET (Nat \X AllServices)]
      /\ procs'.stray = procs.stray
      /\ pc = "start" \/ procs'.alive \subseteq procs.alive
  <2>1. CASE StartService(s)
    BY <2>1 DEF StartService, Inv, TypeOK
  <2>2. CASE ServiceDies(s)
    BY <2>2 DEF ServiceDies, Inv, TypeOK
  <2> QED BY <2>1, <2>2
<1>1. TypeOK'
  BY <1>7, <1>8
  DEF Inv, TypeOK, PcLabels, SetupSteps, Handling, Cleaning, Sources, AllServices
<1>2. RulesStand'
  BY <1>7, <1>8 DEF Inv, TypeOK, RulesStand, Ruled, SetupSteps
<1>3. ProbesAreArchived'
  BY <1>7, <1>8
  DEF Inv, TypeOK, ProbesAreArchived, LogsUnprobed, EvidenceIsTheGuests, Forward,
      SetupSteps
<1>4. ObjectIsTrue'
  BY <1>7, <1>8
  DEF Inv, TypeOK, ObjectIsTrue, Ruled, Forward, SetupSteps, Handling, Cleaning
<1>5. StraysAreFaults'
  BY <1>7, <1>8
  DEF Inv, TypeOK, StraysAreFaults, ObjectIsTrue, NoStray, Forward, SetupSteps,
      Handling, Cleaning
<1>6. RestIsFault'
  BY <1>7, <1>8
  DEF Inv, TypeOK, RestIsFault, StraysAreFaults, ObjectIsTrue, HostClean, NoStray,
      Ruled, Forward,
     SetupSteps, Handling, Cleaning
<1> QED BY <1>1, <1>2, <1>3, <1>4, <1>5, <1>6 DEF Inv

\* The probes leave their traces; the archive takes them away.
LEMMA LogsStep ==
  ASSUME Inv, request' = request,
         Probe \/ ArchiveSelfTest
  PROVE  Inv'
<1>7. /\ UNCHANGED <<net, procs, obj, guest, run, fault>>
      /\ \/ pc = "probe" /\ pc' = "recheck"
         \/ pc = "archive" /\ pc' = "start" /\ files'.log = [s \in AllServices |-> {}]
  BY DEF Probe, ArchiveSelfTest, Goto, Inv, TypeOK
<1>8. /\ files' \in [manifest : {"none", "ready", "failed", "cleaned", "cleanup_failed"},
                     log : [AllServices -> SUBSET Sources], archived : BOOLEAN,
                     events : SUBSET Sources]
      /\ files'.manifest = files.manifest /\ files'.events = files.events
  <2>1. CASE Probe
    <3> DEFINE l == [s \in AllServices |->
                      IF s \in Services THEN files.log[s] \cup {"probe"}
                      ELSE files.log[s]]
    <3>1. files' = [files EXCEPT !.log = l]
      BY <2>1 DEF Probe, Inv, TypeOK
    <3>2. l \in [AllServices -> SUBSET Sources]
      BY DEF Inv, TypeOK, Sources
    <3> HIDE DEF l
    <3> QED BY <3>1, <3>2 DEF Inv, TypeOK
  <2>2. CASE ArchiveSelfTest
    <3> DEFINE l == [s \in AllServices |-> {}]
    <3>1. files' = [files EXCEPT !.archived = TRUE, !.log = l]
      BY <2>2 DEF ArchiveSelfTest
    <3>2. l \in [AllServices -> SUBSET Sources]
      OBVIOUS
    <3> HIDE DEF l
    <3> QED BY <3>1, <3>2 DEF Inv, TypeOK
  <2> QED BY <2>1, <2>2
<1>1. TypeOK'
  BY <1>7, <1>8
  DEF Inv, TypeOK, PcLabels, SetupSteps, Handling, Cleaning, Sources, AllServices
<1>2. RulesStand'
  BY <1>7, <1>8 DEF Inv, TypeOK, RulesStand, Ruled, SetupSteps
<1>3. ProbesAreArchived'
  BY <1>7, <1>8
  DEF Inv, TypeOK, ProbesAreArchived, LogsUnprobed, EvidenceIsTheGuests, Forward,
      SetupSteps
<1>4. ObjectIsTrue'
  BY <1>7, <1>8
  DEF Inv, TypeOK, ObjectIsTrue, Ruled, Forward, SetupSteps, Handling, Cleaning
<1>5. StraysAreFaults'
  BY <1>7, <1>8
  DEF Inv, TypeOK, StraysAreFaults, ObjectIsTrue, NoStray, Forward, SetupSteps,
      Handling, Cleaning
<1>6. RestIsFault'
  BY <1>7, <1>8
  DEF Inv, TypeOK, RestIsFault, StraysAreFaults, ObjectIsTrue, HostClean, NoStray,
      Ruled, Forward,
     SetupSteps, Handling, Cleaning
<1> QED BY <1>1, <1>2, <1>3, <1>4, <1>5, <1>6 DEF Inv

\* A service logs what the guest sends.
LEMMA TrafficStep ==
  ASSUME Inv, request' = request,
         NEW s \in AllServices, LogTraffic(s)
  PROVE  Inv'
<1>1. TypeOK'
  BY DEF Inv, TypeOK, PcLabels, SetupSteps, Handling, Cleaning, Sources, AllServices,
     LogTraffic
<1>2. RulesStand'
  BY DEF Inv, TypeOK, RulesStand, Ruled, SetupSteps, LogTraffic
<1>3. ProbesAreArchived'
  BY DEF Inv, TypeOK, ProbesAreArchived, LogsUnprobed, EvidenceIsTheGuests, Forward,
     SetupSteps, LogTraffic
<1>4. ObjectIsTrue'
  BY
  DEF Inv, TypeOK, ObjectIsTrue, Ruled, Forward, SetupSteps, Handling, Cleaning,
      LogTraffic
<1>5. StraysAreFaults'
  BY
  DEF Inv, TypeOK, StraysAreFaults, ObjectIsTrue, NoStray, Forward, SetupSteps,
      Handling,
     Cleaning, LogTraffic
<1>6. RestIsFault'
  BY
  DEF Inv, TypeOK, RestIsFault, StraysAreFaults, ObjectIsTrue, HostClean, NoStray,
      Ruled,
     Forward, SetupSteps, Handling, Cleaning, LogTraffic
<1> QED BY <1>1, <1>2, <1>3, <1>4, <1>5, <1>6 DEF Inv

\* The manifest of a failed setup or of cleanup.
LEMMA ManifestStep ==
  ASSUME Inv, request' = request,
         HandlerWritesManifest \/ CleanupWritesManifest
  PROVE  Inv'
<1>1. TypeOK'
  BY DEF Inv, TypeOK, PcLabels, SetupSteps, Handling, Cleaning, Sources, AllServices,
     HandlerWritesManifest, CleanupWritesManifest, Goto, WriteManifest
<1>2. RulesStand'
  BY DEF Inv, TypeOK, RulesStand, Ruled, SetupSteps, HandlerWritesManifest,
     CleanupWritesManifest, Goto, WriteManifest
<1>3. ProbesAreArchived'
  BY DEF Inv, TypeOK, ProbesAreArchived, LogsUnprobed, EvidenceIsTheGuests, Forward,
     SetupSteps, HandlerWritesManifest, CleanupWritesManifest, Goto, WriteManifest
<1>4. ObjectIsTrue'
  BY DEF Inv, TypeOK, ObjectIsTrue, Ruled, Forward, SetupSteps, Handling, Cleaning,
     HandlerWritesManifest, CleanupWritesManifest, Goto, WriteManifest
<1>5. StraysAreFaults'
  BY
  DEF Inv, TypeOK, StraysAreFaults, ObjectIsTrue, NoStray, Forward, SetupSteps,
      Handling,
     Cleaning, HandlerWritesManifest, CleanupWritesManifest, Goto, WriteManifest
<1>6. RestIsFault'
  BY
  DEF Inv, TypeOK, RestIsFault, StraysAreFaults, ObjectIsTrue, HostClean, NoStray,
      Ruled,
     Forward, SetupSteps, Handling, Cleaning, HandlerWritesManifest, CleanupWritesManifest,
     Goto, WriteManifest
<1> QED BY <1>1, <1>2, <1>3, <1>4, <1>5, <1>6 DEF Inv

\* The guest starts and ends; cleanup is called.
LEMMA GuestStep ==
  ASSUME Inv, request' = request,
         StartGuest \/ GuestEnds \/ RunnerHandler
  PROVE  Inv'
<1>7. UNCHANGED <<net, procs, files, run, fault>>
  BY DEF StartGuest, GuestEnds, RunnerHandler
<1>8. ~obj.cleaned /\ ~obj.errs /\ pc \in {"ready", "running", "raised"}
  BY
  DEF StartGuest, GuestEnds, RunnerHandler, Goto, Inv, ObjectIsTrue, Forward, Handling
<1>9. \/ pc = "ready" /\ pc' = "running" /\ guest' = "running" /\ obj' = obj
      \/ /\ pc \in {"ready", "running"} /\ pc' = "c_stop" /\ guest' \in {"none", "ended"}
         /\ obj' = [obj EXCEPT !.cleaned = TRUE, !.final = TRUE]
      \/ /\ pc = "raised" /\ pc' = "c_stop" /\ guest' = guest
         /\ obj' = [obj EXCEPT !.cleaned = TRUE, !.final = FALSE]
  BY <1>8
  DEF StartGuest, GuestEnds, RunnerHandler, Goto, Cleanup, Inv, TypeOK, RulesStand
<1>10. obj' \in [plan : BOOLEAN, cleaned : BOOLEAN, final : BOOLEAN,
                  errs : BOOLEAN, ready : BOOLEAN]
  BY <1>9 DEF Inv, TypeOK
<1>11. guest' \in {"none", "running", "ended"}
  BY <1>9 DEF Inv, TypeOK
<1>1. TypeOK'
  BY <1>7, <1>9, <1>10, <1>11 DEF Inv, TypeOK, PcLabels, SetupSteps, Handling, Cleaning
<1>2. RulesStand'
  BY <1>7, <1>8, <1>9 DEF Inv, TypeOK, RulesStand, Ruled, SetupSteps
<1>3. ProbesAreArchived'
  BY <1>7, <1>8, <1>9
  DEF Inv, TypeOK, ProbesAreArchived, LogsUnprobed, EvidenceIsTheGuests, Forward,
      SetupSteps
<1>4. ObjectIsTrue'
  BY <1>7, <1>8, <1>9
  DEF Inv, TypeOK, ObjectIsTrue, Ruled, Forward, SetupSteps, Handling, Cleaning
<1>5. StraysAreFaults'
  BY <1>7, <1>8, <1>9
  DEF Inv, TypeOK, StraysAreFaults, ObjectIsTrue, NoStray, Forward, SetupSteps,
      Handling, Cleaning
<1>6. RestIsFault'
  BY <1>7, <1>8, <1>9
  DEF Inv, TypeOK, RestIsFault, StraysAreFaults, ObjectIsTrue, HostClean, NoStray,
      Ruled, Forward,
     SetupSteps, Handling, Cleaning
<1> QED BY <1>1, <1>2, <1>3, <1>4, <1>5, <1>6 DEF Inv

\* A new run.
LEMMA AgainStep ==
  ASSUME Inv, request' = request,
         RunAgain
  PROVE  Inv'
<1>1. TypeOK'
  BY
  DEF Inv, TypeOK, PcLabels, SetupSteps, Handling, Cleaning, Sources, AllServices,
      RunAgain,
     FreshFiles, FreshObject
<1>2. RulesStand'
  BY DEF Inv, TypeOK, RulesStand, Ruled, SetupSteps, RunAgain, FreshFiles, FreshObject
<1>3. ProbesAreArchived'
  BY DEF Inv, TypeOK, ProbesAreArchived, LogsUnprobed, EvidenceIsTheGuests, Forward,
     SetupSteps, RunAgain, FreshFiles, FreshObject
<1>4. ObjectIsTrue'
  BY
  DEF Inv, TypeOK, ObjectIsTrue, Ruled, Forward, SetupSteps, Handling, Cleaning,
      RunAgain,
     FreshFiles, FreshObject
<1>5. StraysAreFaults'
  BY
  DEF Inv, TypeOK, StraysAreFaults, ObjectIsTrue, NoStray, Forward, SetupSteps,
      Handling,
     Cleaning, RunAgain, FreshFiles, FreshObject
<1>6. RestIsFault'
  BY
  DEF Inv, TypeOK, RestIsFault, StraysAreFaults, ObjectIsTrue, HostClean, NoStray,
      Ruled,
     Forward, SetupSteps, Handling, Cleaning, RunAgain, FreshFiles, FreshObject
<1> QED BY <1>1, <1>2, <1>3, <1>4, <1>5, <1>6 DEF Inv

\* The topology is taken down before setup, by setup's handler or by cleanup.
LEMMA DeletesStep ==
  ASSUME Inv, request' = request,
         PreClean \/ HandlerDeletesTopology \/ CleanupDeletesTopology
  PROVE  Inv'
<1>7. /\ UNCHANGED <<procs, files, guest, run>>
      /\ obj' = obj \/ pc = "c_topology"
      /\ \/ pc = "preclean" /\ pc' = "netns_add"
         \/ pc = "h_topology" /\ pc' = "h_manifest"
         \/ pc = "c_topology" /\ pc' = "c_manifest"
  BY DEF PreClean, HandlerDeletesTopology, CleanupDeletesTopology, Goto
<1>8. PICK failed \in BOOLEAN :
        /\ net' \in [ns : BOOLEAN, veth : BOOLEAN, fw : {"open", "closed", "full"}]
        /\ ~failed => HostClean'
        /\ fault' = (failed \/ (fault /\ pc # "preclean"))
        /\ pc = "c_topology" => obj' = [obj EXCEPT !.errs = @ \/ failed]
  <2>1. PICK delVeth \in BOOLEAN, delNs \in BOOLEAN :
          /\ DeleteTopology(delVeth, delNs)
          /\ fault' = (DeletionFails(delVeth, delNs) \/ (fault /\ pc # "preclean"))
          /\ pc = "c_topology" => obj' = [obj EXCEPT !.errs = @ \/ DeletionFails(delVeth, delNs)]
    <3>1. CASE PreClean
      <4>1. PICK delVeth \in BOOLEAN, delNs \in BOOLEAN :
              DeleteTopology(delVeth, delNs) /\ fault' = DeletionFails(delVeth, delNs)
        BY <3>1 DEF PreClean
      <4>2. DeletionFails(delVeth, delNs) \in BOOLEAN
        BY <4>1, Deleted DEF Inv
      <4> QED BY <3>1, <4>1, <4>2 DEF PreClean, Goto
    <3>2. CASE HandlerDeletesTopology
      BY <3>2 DEF HandlerDeletesTopology, Goto, Inv, TypeOK
    <3>3. CASE CleanupDeletesTopology
      BY <3>3 DEF CleanupDeletesTopology, Goto, Inv, TypeOK
    <3> QED BY <3>1, <3>2, <3>3
  <2>2. /\ net' \in [ns : BOOLEAN, veth : BOOLEAN, fw : {"open", "closed", "full"}]
        /\ ~DeletionFails(delVeth, delNs) => HostClean'
        /\ DeletionFails(delVeth, delNs) \in BOOLEAN
    BY <2>1, Deleted DEF Inv
  <2> QED BY <2>1, <2>2
<1>1. TypeOK'
  BY <1>7, <1>8
  DEF Inv, TypeOK, PcLabels, SetupSteps, Handling, Cleaning, Sources, AllServices
<1>2. RulesStand'
  BY <1>7, <1>8 DEF Inv, TypeOK, RulesStand, Ruled, SetupSteps
<1>3. ProbesAreArchived'
  BY <1>7, <1>8
  DEF Inv, TypeOK, ProbesAreArchived, LogsUnprobed, EvidenceIsTheGuests, Forward,
      SetupSteps
<1>4. ObjectIsTrue'
  BY <1>7, <1>8
  DEF Inv, TypeOK, ObjectIsTrue, Ruled, Forward, SetupSteps, Handling, Cleaning
<1>5. StraysAreFaults'
  BY <1>7, <1>8
  DEF Inv, TypeOK, StraysAreFaults, ObjectIsTrue, NoStray, Forward, SetupSteps,
      Handling, Cleaning
<1>6. RestIsFault'
  BY <1>7, <1>8
  DEF Inv, TypeOK, RestIsFault, StraysAreFaults, ObjectIsTrue, HostClean, NoStray,
      Ruled, Forward,
     SetupSteps, Handling, Cleaning
<1> QED BY <1>1, <1>2, <1>3, <1>4, <1>5, <1>6 DEF Inv

\* _stop_services forgets every process; those that outlive it are strays.
LEMMA Stopped ==
  ASSUME Inv, NEW ok, NEW failed, StopServices(ok, failed)
  PROVE  \E err \in BOOLEAN :
           /\ procs' \in [tracked : SUBSET AllServices, alive : SUBSET AllServices,
                          stray : SUBSET (Nat \X AllServices)]
           /\ procs'.alive = {}
           /\ \A n \in Nat, s \in AllServices :
                <<n, s>> \in procs'.stray => <<n, s>> \in procs.stray \/ (n = run /\ err)
           /\ fault' = (fault \/ err)
           /\ pc' = IF err THEN failed ELSE ok
           /\ obj' = [obj EXCEPT !.errs = @ \/ (err /\ pc = "c_stop")]
<1>1. PICK survivors \in SUBSET procs.alive, err \in BOOLEAN :
        /\ survivors # {} => err
        /\ procs' = [tracked |-> {}, alive |-> {}, stray |-> procs.stray \cup ({run} \X survivors)]
        /\ fault' = (fault \/ err)
        /\ pc' = IF err THEN failed ELSE ok
        /\ obj' = [obj EXCEPT !.errs = @ \/ (err /\ pc = "c_stop")]
  BY DEF StopServices
<1>2. {run} \X survivors \subseteq Nat \X AllServices
  BY <1>1 DEF Inv, TypeOK
<1>3. procs' \in [tracked : SUBSET AllServices, alive : SUBSET AllServices,
                 stray : SUBSET (Nat \X AllServices)]
  BY <1>1, <1>2 DEF Inv, TypeOK
<1>4. procs'.alive = {} /\ procs'.stray = procs.stray \cup ({run} \X survivors)
  BY <1>1
<1>5. \A n \in Nat, s \in AllServices :
        <<n, s>> \in procs'.stray => <<n, s>> \in procs.stray \/ (n = run /\ err)
  BY <1>1, <1>4
<1> QED BY <1>1, <1>3, <1>4, <1>5

\* The services are stopped after the self test, by setup's handler or by cleanup.
LEMMA StopsStep ==
  ASSUME Inv, request' = request,
         StopAfterSelfTest \/ HandlerStops \/ CleanupStops
  PROVE  Inv'
<1>7. UNCHANGED <<net, files, guest, run>>
  BY DEF StopAfterSelfTest, HandlerStops, CleanupStops
<1>8. PICK err \in BOOLEAN :
        /\ procs' \in [tracked : SUBSET AllServices, alive : SUBSET AllServices,
                       stray : SUBSET (Nat \X AllServices)]
        /\ procs'.alive = {}
        /\ \A n \in Nat, s \in AllServices :
             <<n, s>> \in procs'.stray => <<n, s>> \in procs.stray \/ (n = run /\ err)
        /\ fault' = (fault \/ err)
        /\ obj' = [obj EXCEPT !.errs = @ \/ (err /\ pc = "c_stop")]
        /\ \/ pc = "stop" /\ pc' = IF err THEN "h_stop" ELSE "archive"
           \/ pc = "h_stop" /\ pc' = IF err THEN "raised" ELSE "h_topology"
           \/ pc = "c_stop" /\ pc' = IF obj.final THEN "c_events" ELSE "c_topology"
  <2>1. CASE StopAfterSelfTest
    <3>1. pc = "stop" /\ StopServices("archive", "h_stop")
      BY <2>1 DEF StopAfterSelfTest
    <3> QED BY <3>1, Stopped
  <2>2. CASE HandlerStops
    <3>1. pc = "h_stop" /\ StopServices("h_topology", "raised")
      BY <2>2 DEF HandlerStops
    <3> QED BY <3>1, Stopped
  <2>3. CASE CleanupStops
    <3>1. pc = "c_stop" /\ StopServices(AfterStop, AfterStop)
      BY <2>3 DEF CleanupStops
    <3>2. AfterStop = IF obj.final THEN "c_events" ELSE "c_topology"
      BY DEF AfterStop
    <3> QED BY <3>1, <3>2, Stopped
  <2> QED BY <2>1, <2>2, <2>3
<1>1. TypeOK'
  BY <1>7, <1>8
  DEF Inv, TypeOK, PcLabels, SetupSteps, Handling, Cleaning, Sources, AllServices
<1>2. RulesStand'
  BY <1>7, <1>8 DEF Inv, TypeOK, RulesStand, Ruled, SetupSteps
<1>3. ProbesAreArchived'
  BY <1>7, <1>8
  DEF Inv, TypeOK, ProbesAreArchived, LogsUnprobed, EvidenceIsTheGuests, Forward,
      SetupSteps
<1>4. ObjectIsTrue'
  BY <1>7, <1>8
  DEF Inv, TypeOK, ObjectIsTrue, Ruled, Forward, SetupSteps, Handling, Cleaning
<1>5. StraysAreFaults'
  BY <1>7, <1>8
  DEF Inv, TypeOK, StraysAreFaults, ObjectIsTrue, NoStray, Forward, SetupSteps,
      Handling, Cleaning
<1>6. RestIsFault'
  BY <1>7, <1>8
  DEF Inv, TypeOK, RestIsFault, StraysAreFaults, ObjectIsTrue, HostClean, NoStray,
      Ruled, Forward,
     SetupSteps, Handling, Cleaning
<1> QED BY <1>1, <1>2, <1>3, <1>4, <1>5, <1>6 DEF Inv

\* The logs are merged, or cannot be read.
LEMMA EventsStep ==
  ASSUME Inv, request' = request,
         AggregateEvents
  PROVE  Inv'
<1>7. /\ UNCHANGED <<net, procs, guest, run, fault>>
      /\ pc = "c_events" /\ pc' = "c_topology"
  BY DEF AggregateEvents, Goto
<1>8. \/ /\ files' = [files EXCEPT !.events = UNION {files.log[s] : s \in Services}]
         /\ obj' = obj
      \/ obj' = [obj EXCEPT !.errs = TRUE] /\ files' = files
  BY DEF AggregateEvents
<1>9. Services \subseteq AllServices
  BY DEF Services, Wanted, AllServices
<1>10. LET merged == UNION {files.log[s] : s \in Services}
       IN  merged \subseteq Sources /\ "probe" \notin merged
  BY <1>7, <1>9 DEF Inv, TypeOK, ProbesAreArchived, LogsUnprobed
<1>11. /\ files' \in [manifest : {"none", "ready", "failed", "cleaned", "cleanup_failed"},
                      log : [AllServices -> SUBSET Sources], archived : BOOLEAN,
                      events : SUBSET Sources]
       /\ files'.manifest = files.manifest /\ files'.log = files.log
       /\ "probe" \notin files'.events
  BY <1>8, <1>10 DEF Inv, TypeOK, ProbesAreArchived, EvidenceIsTheGuests
<1>12. obj' = obj \/ obj' = [obj EXCEPT !.errs = TRUE]
  BY <1>8
<1>1. TypeOK'
  BY <1>7, <1>11, <1>12
  DEF Inv, TypeOK, PcLabels, SetupSteps, Handling, Cleaning, Sources, AllServices
<1>2. RulesStand'
  BY <1>7, <1>11, <1>12 DEF Inv, TypeOK, RulesStand, Ruled, SetupSteps
<1>3. ProbesAreArchived'
  BY <1>7, <1>11, <1>12
  DEF Inv, TypeOK, ProbesAreArchived, LogsUnprobed, EvidenceIsTheGuests, Forward,
      SetupSteps
<1>4. ObjectIsTrue'
  BY <1>7, <1>11, <1>12
  DEF Inv, TypeOK, ObjectIsTrue, Ruled, Forward, SetupSteps, Handling, Cleaning
<1>5. StraysAreFaults'
  BY <1>7, <1>11, <1>12
  DEF Inv, TypeOK, StraysAreFaults, ObjectIsTrue, NoStray, Forward, SetupSteps,
      Handling, Cleaning
<1>6. RestIsFault'
  BY <1>7, <1>11, <1>12
  DEF Inv, TypeOK, RestIsFault, StraysAreFaults, ObjectIsTrue, HostClean, NoStray,
      Ruled, Forward,
     SetupSteps, Handling, Cleaning
<1> QED BY <1>1, <1>2, <1>3, <1>4, <1>5, <1>6 DEF Inv
-----------------------------------------------------------------------------
(* Theorems                                                                *)

\* The inductive invariant holds in the first state ...
LEMMA InitInv == Init => Inv
<1> SUFFICES ASSUME Init PROVE Inv
  OBVIOUS
<1>1. TypeOK
  BY DEF Init, TypeOK, PcLabels, FreshFiles, FreshObject, AllServices
<1>2. RulesStand /\ ObjectIsTrue /\ ProbesAreArchived
  BY
  DEF Init, RulesStand, ObjectIsTrue, ProbesAreArchived, LogsUnprobed,
      EvidenceIsTheGuests,
     FreshFiles, FreshObject, AllServices, Ruled
<1>3. StraysAreFaults /\ RestIsFault
  BY DEF Init, StraysAreFaults, RestIsFault, NoStray, HostClean, FreshFiles, FreshObject
<1> QED BY <1>1, <1>2, <1>3 DEF Inv

\* ... and in every later one.
LEMMA InvHolds == Spec => []Inv
<1>1. ASSUME Inv, Next PROVE Inv'
  <2>0. request' = request /\ Services \subseteq AllServices
    BY <1>1 DEF Next, Services, Wanted, AllServices
  <2>1. CASE \/ ValidateInputs \/ ConfigureLinks \/ WritePolicies \/ PrepareLogs \/ ServicesStarted
             \/ WaitForServices \/ Recheck \/ SetupFails \/ CleanupWithoutPlan
    BY <1>1, <2>0, <2>1, MovesOnStep
  <2>2. CASE AddNamespace \/ AddVeth \/ DropByDefault \/ AddRules
    BY <1>1, <2>0, <2>2, BuildsStep
  <2>3. CASE BuildPlan \/ WriteReady
    BY <1>1, <2>0, <2>3, PlansStep
  <2>4. CASE \E s \in Services : StartService(s) \/ ServiceDies(s)
    BY <1>1, <2>0, <2>4, ServicesStep
  <2>5. CASE Probe \/ ArchiveSelfTest
    BY <1>1, <2>0, <2>5, LogsStep
  <2>6. CASE \E s \in Services : LogTraffic(s)
    BY <1>1, <2>0, <2>6, TrafficStep
  <2>7. CASE HandlerWritesManifest \/ CleanupWritesManifest
    BY <1>1, <2>0, <2>7, ManifestStep
  <2>8. CASE StartGuest \/ GuestEnds \/ RunnerHandler
    BY <1>1, <2>0, <2>8, GuestStep
  <2>9. CASE PreClean \/ HandlerDeletesTopology \/ CleanupDeletesTopology
    BY <1>1, <2>0, <2>9, DeletesStep
  <2>10. CASE StopAfterSelfTest \/ HandlerStops \/ CleanupStops
    BY <1>1, <2>0, <2>10, StopsStep
  <2>11. CASE AggregateEvents
    BY <1>1, <2>0, <2>11, EventsStep
  <2>12. CASE RunAgain
    BY <1>1, <2>0, <2>12, AgainStep
  <2> QED
    BY <1>1, <2>1, <2>2, <2>3, <2>4, <2>5, <2>6, <2>7, <2>8, <2>9, <2>10, <2>11, <2>12
    DEF Next, BackendStep
<1>2. ASSUME Inv, UNCHANGED vars PROVE Inv'
  BY <1>2
  DEF vars, Inv, TypeOK, RulesStand, ProbesAreArchived, LogsUnprobed,
      EvidenceIsTheGuests,
     ObjectIsTrue, StraysAreFaults, NoStray, RestIsFault, HostClean
<1> QED BY <1>1, <1>2, InitInv, PTL DEF Spec

\* While the guest runs _configure_firewall has come to its end, and with all its
\* rules no packet leaves the host, whatever the policy.
THEOREM NothingLeavesTheHost == Spec => []NoEgress
<1>1. ASSUME Inv, guest = "running", NEW p \in Packets
      PROVE  Reaches(p).ip \in {Loopback, Namespace, Gateway, "dropped"}
  <2>1. net.fw = "full" /\ request \in Requests
    BY <1>1 DEF Inv, RulesStand, Ruled, TypeOK
  <2>2. Reaches(p) = Deliver(request, p)
    BY <2>1 DEF Reaches
  <2> QED BY <2>1, <2>2, DeliveredOnHost
<1>2. Inv => NoEgress
  BY <1>1 DEF Inv, RulesStand, Ruled, NoEgress
<1> QED BY <1>2, InvHolds, PTL

\* The endpoint a responder logs is the one the guest dialled, unless two
\* responders were given one port.
THEOREM EndpointsArePreserved == Spec => []EndpointPreserved
<1>1. Inv => EndpointPreserved
  BY ResponderIsTheDialled DEF Inv, TypeOK, EndpointPreserved
<1> QED BY <1>1, InvHolds, PTL

\* _aggregate_network_events never merges what the self test left in the logs.
THEOREM ProbesAreNoEvidence == Spec => []EvidenceIsTheGuests
<1>1. Inv => EvidenceIsTheGuests
  BY DEF Inv, ProbesAreArchived
<1> QED BY <1>1, InvHolds, PTL

\* After a complete setup the state "cleaned" in the manifest is the truth.
THEOREM CleanedIsTrue == Spec => []CleanedAfterReady
<1>1. Inv => CleanedAfterReady
  <2> SUFFICES ASSUME Inv, files.manifest = "cleaned", obj.ready
               PROVE  /\ ~net.ns /\ ~net.veth /\ procs.alive = {}
                      /\ ~ \E s \in Services : <<run, s>> \in procs.stray
    BY DEF CleanedAfterReady
  <2>1. HostClean /\ NoStray /\ pc = "ended" /\ Services \subseteq AllServices
    BY DEF Inv, RestIsFault, ObjectIsTrue, Services, Wanted, AllServices
  <2> QED BY <2>1 DEF Inv, StraysAreFaults, HostClean, NoStray
<1> QED BY <1>1, InvHolds, PTL

\* A setup that fails at any step leaves nothing behind, unless a process or a
\* resource resisted its removal.
THEOREM FailedSetupIsUndone == Spec => []FailedSetupLeavesNothing
<1>1. Inv => FailedSetupLeavesNothing
  <2> SUFFICES ASSUME Inv, pc = "ended", ~fault
               PROVE  /\ ~net.ns /\ ~net.veth /\ procs.alive = {}
                      /\ ~ \E s \in Services : <<run, s>> \in procs.stray
    BY DEF FailedSetupLeavesNothing
  <2>1. HostClean /\ NoStray /\ Services \subseteq AllServices
    BY DEF Inv, RestIsFault, StraysAreFaults, Services, Wanted, AllServices
  <2> QED BY <2>1 DEF Inv, StraysAreFaults, HostClean, NoStray
<1> QED BY <1>1, InvHolds, PTL
=============================================================================
