------------------------ MODULE StaticPipelineProofs ------------------------
(***************************************************************************)
(* What the privileged bind workaround of run_static_pipeline.py does to   *)
(* the host's port threshold, for every sample, every configuration and    *)
(* any number of failing steps and interrupts.  The threshold is the       *)
(* host's, so this is said of a pipeline that has the host to itself.      *)
(***************************************************************************)
EXTENDS StaticPipeline, TLAPS, WellFoundedInduction

\* One pipeline at a time.
OnePipeline == \E p : Pipelines = {p}

\* The steps before the threshold is lowered.
BeforeLowering == {"resolve", "prepare", "make", "phase1", "bridge", "read_threshold", "lower"}
Pcs == BeforeLowering \cup {"lowered", "phase2", "restore", "restored", "report", "done"}
Networks == {"auto", "none", "emulated"}

PipeRecords ==
  [config : Configs, raw : SUBSET Events, exists : BOOLEAN, rooted : BOOLEAN,
   pc : Pcs, status : {"initializing", "failed", "completed"},
   phase1 : BOOLEAN, phase2 : BOOLEAN,
   effective : [network : Networks, selfTest : BOOLEAN], original : Nat,
   applied : BOOLEAN, failed : BOOLEAN, gap : BOOLEAN, interrupted : BOOLEAN,
   exit : {"running", "traceback", "0", "1"}]

Reports == {"none", "previous", "initializing", "failed", "completed"}

TypeOK ==
  /\ portStart \in Nat
  /\ pipe \in [Pipelines -> PipeRecords]
  /\ disk \in [Pipelines -> Reports]

\* What a pipeline has applied it knows how to take back, and until it has applied
\* anything the threshold is what it was.
RestoreInv(p) ==
  /\ pipe[p].pc \in BeforeLowering => ~pipe[p].applied
  /\ pipe[p].pc = "lowered" => pipe[p].applied
  /\ ~pipe[p].applied => portStart = Threshold
  /\ pipe[p].applied \/ pipe[p].pc = "lower" => pipe[p].original = Threshold
  /\ pipe[p].pc \in {"restored", "report", "done"} /\ ~pipe[p].gap => portStart = Threshold

\* A pipeline that has left the threshold lowered had applied it, has not come as far
\* as the end of its try clause, and does not say it has succeeded.
GapInv(p) ==
  /\ pipe[p].exit = "0" \/ disk[p] = "completed" => pipe[p].status = "completed"
  /\ pipe[p].status = "completed" => pipe[p].pc \in {"report", "done"}
  /\ pipe[p].gap => /\ pipe[p].applied /\ pipe[p].status # "completed"
                    /\ pipe[p].pc \in {"report", "done"}

\* The threshold is lowered for some service, and to one that admits them all.
Admitted(p) == \A x \in TcpDependencyPorts(pipe[p].raw) : x >= portStart
AdmissionInv(p) ==
  /\ pipe[p].pc = "lower" => TcpDependencyPorts(pipe[p].raw) # {}
  /\ pipe[p].pc = "lowered" => Admitted(p)
  /\ pipe[p].pc = "phase2" /\ NeedsWorkaround(p) => Admitted(p)

PipeInv(p) == RestoreInv(p) /\ AdmissionInv(p) /\ GapInv(p)
ThresholdInv == TypeOK /\ \A p \in Pipelines : PipeInv(p)

-----------------------------------------------------------------------------
(* Facts about the operators                                               *)

\* The least of a set of natural numbers.
LEMMA LeastPort ==
  ASSUME NEW S, S \subseteq Nat, S # {}
  PROVE  Min(S) \in S /\ \A y \in S : Min(S) <= y
<1> DEFINE Less == {ss \in Nat \X Nat : ss[1] < ss[2]}
<1>1. IsWellFoundedOn(Less, Nat)
  BY NatLessThanWellFounded DEF OpToRel
<1>2. \A x, y \in Nat : x < y => <<x, y>> \in Less
  OBVIOUS
<1> HIDE DEF Less
<1>3. PICK x \in S : \A y \in S : <<y, x>> \notin Less
  BY <1>1, WFMin
<1>4. ASSUME NEW y \in S
      PROVE  x <= y
  <2>1. ~(y < x)
    BY <1>2, <1>3
  <2> QED
    BY <2>1
<1> QED
  BY <1>4 DEF Min

LEMMA PortsAreNatural == Ports \subseteq Nat
<1>1. MaxPort \in Nat
  BY DEF MaxPort
<1> QED
  BY <1>1 DEF Ports

\* Services have real ports, whatever the Phase 1 events hold.
LEMMA ServicePorts ==
  ASSUME NEW raw
  PROVE  TcpDependencyPorts(raw) \subseteq Ports
<1> SUFFICES ASSUME NEW x \in KnownServices(raw)
             PROVE  x.port \in Ports
  BY DEF TcpDependencyPorts
<1>1. PICK e \in raw : HasEndpoint(e) /\ x = Endpoint(e)
  BY DEF KnownServices, Emulatable, Endpoints
<1> QED
  BY <1>1 DEF HasEndpoint, Endpoint

-----------------------------------------------------------------------------
(* Steps                                                                   *)

LEMMA InitThreshold == Init => ThresholdInv
<1> SUFFICES ASSUME Init PROVE ThresholdInv
  OBVIOUS
<1>1. PICK c \in [Pipelines -> Configs], x \in [Pipelines -> BOOLEAN],
           raw \in [Pipelines -> SUBSET Events] :
        /\ pipe = [p \in Pipelines |-> Fresh(c[p], raw[p], x[p])]
        /\ disk = [p \in Pipelines |-> IF x[p] THEN "previous" ELSE "none"]
  BY DEF Init
<1>2. ASSUME NEW p \in Pipelines
      PROVE  Fresh(c[p], raw[p], x[p]) \in PipeRecords
  BY <1>2 DEF Fresh, PipeRecords, Pcs, BeforeLowering, NotChosen, Networks, Unset
<1>3. TypeOK
  BY <1>1, <1>2, BoundsAssumption, PortsAreNatural DEF Init, TypeOK, Reports
<1>4. ASSUME NEW p \in Pipelines
      PROVE  PipeInv(p)
  BY <1>1, <1>4 DEF Init, PipeInv, RestoreInv, AdmissionInv, GapInv, Fresh, BeforeLowering
<1> QED
  BY <1>3, <1>4 DEF ThresholdInv

\* The fields of the record of a pipeline.
LEMMA Fields ==
  ASSUME TypeOK, NEW p \in Pipelines
  PROVE  /\ pipe[p] \in PipeRecords
         /\ pipe[p].config \in Configs
         /\ pipe[p].effective \in [network : Networks, selfTest : BOOLEAN]
         /\ pipe[p].original \in Nat
         /\ pipe[p].applied \in BOOLEAN /\ pipe[p].gap \in BOOLEAN
         /\ pipe[p].interrupted \in BOOLEAN
         /\ pipe[p].status \in {"initializing", "failed", "completed"}
BY DEF TypeOK, PipeRecords

LEMMA Places ==
  /\ "prepare" \in Pcs /\ "make" \in Pcs /\ "phase1" \in Pcs /\ "bridge" \in Pcs /\ "read_threshold" \in Pcs
  /\ "lower" \in Pcs /\ "lowered" \in Pcs /\ "phase2" \in Pcs /\ "restore" \in Pcs
  /\ "restored" \in Pcs /\ "report" \in Pcs /\ "done" \in Pcs
BY DEF Pcs, BeforeLowering

\* What an assignment to the record of a pipeline leaves behind.
LEMMA SetPipe ==
  ASSUME TypeOK, NEW p \in Pipelines, NEW new \in PipeRecords, Set(p, new),
         portStart' \in Nat, disk' \in [Pipelines -> Reports]
  PROVE  TypeOK' /\ pipe'[p] = new
BY DEF TypeOK, Set

\* The fields on which the workaround depends.
KeepsFields(p) ==
  /\ pipe'[p].config = pipe[p].config /\ pipe'[p].raw = pipe[p].raw
  /\ pipe'[p].effective = pipe[p].effective /\ pipe'[p].original = pipe[p].original
  /\ pipe'[p].applied = pipe[p].applied /\ pipe'[p].gap = pipe[p].gap

\* A step before the report that finds no gap and opens none.
Quiet(p) ==
  /\ pipe'[p].gap = pipe[p].gap /\ pipe'[p].exit = pipe[p].exit
  /\ pipe'[p].status \in {pipe[p].status, "failed"}
  /\ disk'[p] \in {disk[p], "none"}

LEMMA QuietKeeps ==
  ASSUME NEW p \in Pipelines, GapInv(p), pipe[p].pc \notin {"report", "done"}, Quiet(p)
  PROVE  GapInv(p)'
BY DEF GapInv, Quiet

\* Before the threshold is lowered a pipeline may move on, raise or be interrupted:
\* the threshold is not its own yet.
LEMMA EarlyKeeps ==
  ASSUME TypeOK, NEW p \in Pipelines, PipeInv(p),
         pipe[p].pc \in BeforeLowering, UNCHANGED portStart,
         pipe'[p].applied = pipe[p].applied, Quiet(p),
         pipe'[p].pc \in {"prepare", "make", "phase1", "bridge", "read_threshold", "report"}
  PROVE  PipeInv(p)'
<1>1. RestoreInv(p)' /\ AdmissionInv(p)'
  BY DEF PipeInv, RestoreInv, AdmissionInv, BeforeLowering
<1>2. GapInv(p)'
  BY QuietKeeps DEF PipeInv, BeforeLowering
<1> QED
  BY <1>1, <1>2 DEF PipeInv

\* raise: main's handler.
LEMMA RaiseKeeps ==
  ASSUME TypeOK, NEW p \in Pipelines, PipeInv(p),
         pipe[p].pc \in BeforeLowering, UNCHANGED portStart, Raise(p),
         disk' \in [Pipelines -> Reports], disk'[p] \in {disk[p], "none"}
  PROVE  TypeOK' /\ PipeInv(p)'
<1> DEFINE new == [pipe[p] EXCEPT !.pc = "report", !.status = "failed"]
<1>1. new \in PipeRecords
  BY Fields, Places DEF PipeRecords
<1>2. TypeOK' /\ pipe'[p] = new
  BY <1>1, SetPipe DEF Raise, TypeOK
<1>3. pipe'[p].pc = "report" /\ pipe'[p].applied = pipe[p].applied /\ Quiet(p)
  BY <1>2, Fields DEF PipeRecords, Quiet
<1> QED
  BY <1>2, <1>3, EarlyKeeps

\* Phase 1 and the bridge.
LEMMA Phase1Keeps ==
  ASSUME TypeOK, NEW p \in Pipelines, PipeInv(p),
         \/ Resolve(p) \/ RemoveOutput(p) \/ MakeOutput(p)
         \/ RunPhase1(p) \/ Bridge(p)
  PROVE  TypeOK' /\ PipeInv(p)'
<1> DEFINE chosen == ChooseEffective(pipe[p].config, pipe[p].raw)
           resolved == [pipe[p] EXCEPT !.pc = "prepare", !.rooted = TRUE]
           removed == [pipe[p] EXCEPT !.pc = "make", !.exists = FALSE]
           made == [pipe[p] EXCEPT !.pc = "phase1", !.exists = TRUE]
           unmade(x) == [pipe[p] EXCEPT !.pc = "report", !.status = "failed", !.exists = x]
           ran == [pipe[p] EXCEPT !.pc = "bridge", !.phase1 = TRUE]
           bridged == [pipe[p] EXCEPT !.pc = "read_threshold", !.effective = chosen]
           news == {resolved, removed, made, unmade(TRUE), unmade(FALSE), ran, bridged}
<1>1. chosen \in [network : Networks, selfTest : BOOLEAN]
  BY Fields DEF ChooseEffective, Configs, Networks
<1> HIDE DEF chosen
<1>2. \A new \in news : new \in PipeRecords
  <2>1. /\ resolved \in PipeRecords /\ removed \in PipeRecords /\ made \in PipeRecords
        /\ ran \in PipeRecords
    BY Fields, Places DEF PipeRecords
  <2>2. unmade(TRUE) \in PipeRecords /\ unmade(FALSE) \in PipeRecords
    BY Fields, Places DEF PipeRecords
  <2>3. bridged \in PipeRecords
    BY <1>1, Fields, Places DEF PipeRecords
  <2> QED
    BY <2>1, <2>2, <2>3
<1>3. pipe[p].pc \in BeforeLowering /\ UNCHANGED portStart
  BY DEF Resolve, RemoveOutput, MakeOutput, RunPhase1, Bridge, At, BeforeLowering
<1>4. disk' \in [Pipelines -> Reports] /\ disk'[p] \in {disk[p], "none"}
  <2>1. \/ UNCHANGED disk
        \/ \E left \in {disk[p], "none"} : disk' = [disk EXCEPT ![p] = left]
    BY DEF Resolve, RemoveOutput, MakeOutput, RunPhase1, Bridge
  <2> QED
    BY <2>1 DEF TypeOK, Reports
<1>5. CASE Raise(p)
  BY <1>3, <1>4, <1>5, RaiseKeeps
<1>6. CASE \E new \in news : Set(p, new)
  <2>1. PICK new \in news : Set(p, new)
    BY <1>6
  <2>2. TypeOK' /\ pipe'[p] = new
    BY <1>2, <1>3, <1>4, <2>1, SetPipe DEF TypeOK
  <2>3. /\ new.applied = pipe[p].applied /\ new.gap = pipe[p].gap /\ new.exit = pipe[p].exit
        /\ new.status \in {pipe[p].status, "failed"}
        /\ new.pc \in {"prepare", "make", "phase1", "bridge", "read_threshold", "report"}
    BY <2>1, Fields DEF PipeRecords
  <2>4. Quiet(p)
    BY <1>4, <2>2, <2>3 DEF Quiet
  <2> QED
    BY <1>3, <2>2, <2>3, <2>4, EarlyKeeps
<1>7. \/ OrFault(p, resolved) \/ Raise(p) \/ Set(p, removed) \/ Set(p, made)
      \/ \E x \in BOOLEAN : Set(p, unmade(x))
      \/ OrFault(p, ran) \/ OrFault(p, bridged)
  BY Zenon DEF Resolve, RemoveOutput, MakeOutput, RunPhase1, Bridge, chosen
<1>8. Raise(p) \/ \E new \in news : Set(p, new)
  <2>1. ASSUME NEW x \in BOOLEAN PROVE unmade(x) \in news
    <3>1. x = TRUE \/ x = FALSE
      OBVIOUS
    <3> QED
      BY <3>1
  <2> QED
    BY <1>7, <2>1, Zenon DEF OrFault
<1> QED
  BY <1>5, <1>6, <1>8

\* The threshold is read, and lowered to the least port that is needed.
LEMMA WorkaroundKeeps ==
  ASSUME TypeOK, NEW p \in Pipelines, PipeInv(p),
         ReadThreshold(p) \/ LowerThreshold(p) \/ EnterTry(p)
  PROVE  TypeOK' /\ PipeInv(p)'
<1> DEFINE ports == TcpDependencyPorts(pipe[p].raw)
           place == IF Min(ports) >= portStart THEN "phase2" ELSE "lower"
           unneeded == [pipe[p] EXCEPT !.pc = "phase2"]
           read == [pipe[p] EXCEPT !.original = portStart, !.pc = place]
           lowered == [pipe[p] EXCEPT !.pc = "lowered", !.applied = TRUE]
<1>0. disk' \in [Pipelines -> Reports] /\ UNCHANGED disk
  BY DEF ReadThreshold, LowerThreshold, EnterTry, TypeOK
<1>1. ports \subseteq Nat
  BY ServicePorts, PortsAreNatural
<1>2. ports # {} => Min(ports) \in Nat /\ \A x \in ports : Min(ports) <= x
  <2> HIDE DEF ports
  <2> QED
    BY <1>1, LeastPort
<1>3. place \in {"phase2", "lower"}
  OBVIOUS
<1>4. /\ unneeded \in PipeRecords /\ read \in PipeRecords
      /\ lowered \in PipeRecords
  <2>1. place \in Pcs
    BY <1>3, Places
  <2> HIDE DEF place
  <2> QED
    BY <2>1, Fields, Places DEF PipeRecords, TypeOK
<1>5. CASE ReadThreshold(p)
  <2>1. pipe[p].pc = "read_threshold" /\ UNCHANGED portStart
    BY <1>5 DEF ReadThreshold, At
  <2>2. CASE Raise(p)
    BY <2>1, <2>2, <1>0, RaiseKeeps DEF BeforeLowering
  <2>3. CASE ~NeedsWorkaround(p) /\ Goto(p, "phase2")
    <3>1. TypeOK' /\ pipe'[p] = unneeded
      BY <1>4, <2>1, <2>3, <1>0, SetPipe DEF Goto, TypeOK
    <3>2. pipe'[p].pc = "phase2" /\ KeepsFields(p) /\ Quiet(p)
      BY <1>0, <3>1, Fields DEF KeepsFields, Quiet, PipeRecords
    <3>3. RestoreInv(p)' /\ AdmissionInv(p)'
      BY <2>1, <2>3, <3>2
      DEF PipeInv, KeepsFields, RestoreInv, AdmissionInv, NeedsWorkaround, BeforeLowering
    <3> QED
      BY <2>1, <3>1, <3>2, <3>3, QuietKeeps DEF PipeInv
  <2>4. CASE NeedsWorkaround(p) /\ Set(p, read)
    <3>1. TypeOK' /\ pipe'[p] = read
      BY <1>4, <2>1, <2>4, <1>0, SetPipe DEF TypeOK
    <3>2. /\ pipe'[p].pc = place /\ pipe'[p].raw = pipe[p].raw
          /\ pipe'[p].original = portStart /\ pipe'[p].applied = pipe[p].applied
          /\ Quiet(p)
      BY <1>0, <3>1, Fields DEF PipeRecords, Quiet
    <3>3. ports # {}
      BY <2>4 DEF NeedsWorkaround
    <3>4. RestoreInv(p)'
      BY <1>3, <2>1, <3>2 DEF PipeInv, RestoreInv, BeforeLowering
    <3>5. place = "phase2" => \A x \in ports : x >= portStart
      BY <1>1, <1>2, <3>3 DEF TypeOK
    <3>6. AdmissionInv(p)'
      BY <1>3, <2>1, <3>2, <3>3, <3>5 DEF AdmissionInv, Admitted
    <3> QED
      BY <2>1, <3>1, <3>2, <3>4, <3>6, QuietKeeps DEF PipeInv
  <2>5. IF NeedsWorkaround(p) THEN OrFault(p, read) ELSE Goto(p, "phase2")
    BY <1>5, Zenon DEF ReadThreshold
  <2> QED
    BY <2>2, <2>3, <2>4, <2>5, Zenon DEF OrFault
<1>6. CASE LowerThreshold(p)
  <2>1. pipe[p].pc = "lower"
    BY <1>6 DEF LowerThreshold, At
  <2>2. CASE Raise(p) /\ UNCHANGED portStart
    BY <2>1, <2>2, <1>0, RaiseKeeps DEF BeforeLowering
  <2>3. CASE portStart' = Min(ports) /\ Set(p, lowered)
    <3>1. ports # {}
      BY <2>1 DEF PipeInv, AdmissionInv
    <3>2. TypeOK' /\ pipe'[p] = lowered
      BY <1>2, <1>4, <2>3, <3>1, <1>0, SetPipe DEF TypeOK
    <3>3. /\ pipe'[p].pc = "lowered" /\ pipe'[p].raw = pipe[p].raw
          /\ pipe'[p].original = pipe[p].original /\ pipe'[p].applied
          /\ Quiet(p)
      BY <1>0, <3>2, Fields DEF PipeRecords, Quiet
    <3>4. RestoreInv(p)'
      BY <2>1, <3>3 DEF PipeInv, RestoreInv, BeforeLowering
    <3>5. \A x \in ports : x >= portStart'
      BY <1>1, <1>2, <2>3, <3>1
    <3>6. AdmissionInv(p)'
      BY <3>3, <3>5 DEF AdmissionInv, Admitted
    <3> QED
      BY <2>1, <3>2, <3>3, <3>4, <3>6, QuietKeeps DEF PipeInv
  <2> QED
    BY <1>6, <2>2, <2>3 DEF LowerThreshold
<1>7. CASE EnterTry(p)
  <2>1. TypeOK' /\ pipe'[p] = unneeded
    BY <1>4, <1>7, <1>0, SetPipe DEF EnterTry, Goto, TypeOK
  <2>2. pipe'[p].pc = "phase2" /\ KeepsFields(p) /\ Quiet(p) /\ pipe[p].pc = "lowered"
    BY <1>0, <1>7, <2>1, Fields DEF KeepsFields, Quiet, PipeRecords, EnterTry, At
  <2>3. RestoreInv(p)' /\ AdmissionInv(p)'
    BY <1>7, <2>2
    DEF EnterTry, PipeInv, KeepsFields, RestoreInv, AdmissionInv, Admitted, BeforeLowering
  <2> QED
    BY <2>1, <2>2, <2>3, QuietKeeps DEF PipeInv
<1> QED
  BY <1>5, <1>6, <1>7

\* Phase 2, and the finally clause behind it.
LEMMA TryKeeps ==
  ASSUME TypeOK, NEW p \in Pipelines, PipeInv(p),
         RunPhase2(p) \/ RestoreThreshold(p) \/ LeaveTry(p)
  PROVE  TypeOK' /\ PipeInv(p)'
<1> DEFINE passed == [pipe[p] EXCEPT !.pc = "restore", !.phase2 = TRUE]
           failed == [pipe[p] EXCEPT !.pc = "restore", !.failed = TRUE]
           restored == [pipe[p] EXCEPT !.pc = "restored"]
           left == [pipe[p] EXCEPT !.pc = "report", !.status = "failed",
                                   !.interrupted = FALSE, !.gap = TRUE]
           status == CASE pipe[p].interrupted -> pipe[p].status
                       [] pipe[p].failed /\ ~pipe[p].interrupted -> "failed"
                       [] OTHER -> "completed"
           ended == [pipe[p] EXCEPT !.pc = "report", !.status = status]
<1>0. disk' \in [Pipelines -> Reports] /\ UNCHANGED disk
  BY DEF RunPhase2, RestoreThreshold, LeaveTry, TypeOK
<1>1. status \in {"initializing", "failed", "completed"}
  BY Fields
<1>2. /\ passed \in PipeRecords /\ failed \in PipeRecords /\ restored \in PipeRecords
      /\ left \in PipeRecords /\ ended \in PipeRecords
  <2> HIDE DEF status
  <2> QED
    BY <1>1, Fields, Places DEF PipeRecords
<1>3. CASE RunPhase2(p)
  <2>1. pipe[p].pc = "phase2" /\ UNCHANGED portStart
    BY <1>3 DEF RunPhase2, At
  <2>2. PICK new \in {passed, failed} : Set(p, new)
    BY <1>3 DEF RunPhase2
  <2>3. TypeOK' /\ pipe'[p] = new
    BY <1>0, <1>2, <2>1, <2>2, SetPipe DEF TypeOK
  <2>4. pipe'[p].pc = "restore" /\ KeepsFields(p) /\ Quiet(p)
    BY <1>0, <2>2, <2>3, Fields DEF KeepsFields, Quiet, PipeRecords
  <2>5. RestoreInv(p)' /\ AdmissionInv(p)'
    BY <2>1, <2>4 DEF PipeInv, KeepsFields, RestoreInv, AdmissionInv, BeforeLowering
  <2> QED
    BY <2>1, <2>3, <2>4, <2>5, QuietKeeps DEF PipeInv
<1>4. CASE RestoreThreshold(p)
  <2>1. pipe[p].pc = "restore"
    BY <1>4 DEF RestoreThreshold, At
  <2>2. CASE /\ portStart' = IF pipe[p].applied THEN pipe[p].original ELSE portStart
             /\ Set(p, restored)
    <3>1. portStart' = Threshold /\ portStart' \in Nat
      BY <2>2, Fields DEF PipeInv, RestoreInv, TypeOK
    <3>2. TypeOK' /\ pipe'[p] = restored
      BY <1>0, <1>2, <2>2, <3>1, SetPipe
    <3>3. pipe'[p].pc = "restored" /\ KeepsFields(p) /\ Quiet(p)
      BY <1>0, <3>2, Fields DEF KeepsFields, Quiet, PipeRecords
    <3>4. RestoreInv(p)' /\ AdmissionInv(p)'
      BY <2>1, <3>1, <3>3 DEF PipeInv, KeepsFields, RestoreInv, AdmissionInv, BeforeLowering
    <3> QED
      BY <2>1, <3>2, <3>3, <3>4, QuietKeeps DEF PipeInv
  <2>3. CASE pipe[p].applied /\ Set(p, left) /\ UNCHANGED portStart
    <3>1. TypeOK' /\ pipe'[p] = left
      BY <1>0, <1>2, <2>3, SetPipe DEF TypeOK
    <3>2. /\ pipe'[p].pc = "report" /\ pipe'[p].gap /\ pipe'[p].status = "failed"
          /\ pipe'[p].applied = pipe[p].applied /\ pipe'[p].original = pipe[p].original
          /\ pipe'[p].exit = pipe[p].exit
      BY <3>1, Fields DEF PipeRecords
    <3>3. RestoreInv(p)' /\ AdmissionInv(p)'
      BY <2>3, <3>2 DEF PipeInv, RestoreInv, AdmissionInv, BeforeLowering
    <3>4. GapInv(p)'
      BY <1>0, <2>1, <2>3, <3>2 DEF PipeInv, GapInv
    <3> QED
      BY <3>1, <3>3, <3>4 DEF PipeInv
  <2> QED
    BY <1>4, <2>2, <2>3, Zenon DEF RestoreThreshold, Goto
<1>5. CASE LeaveTry(p)
  <2>1. pipe[p].pc = "restored" /\ UNCHANGED portStart
    BY <1>5 DEF LeaveTry, At
  <2>2. Set(p, ended)
    BY <1>5, Zenon DEF LeaveTry
  <2>3. TypeOK' /\ pipe'[p] = ended
    BY <1>0, <1>2, <2>1, <2>2, SetPipe DEF TypeOK
  <2>4. /\ pipe'[p].pc = "report" /\ KeepsFields(p) /\ pipe'[p].exit = pipe[p].exit
    BY <2>3, Fields DEF KeepsFields, PipeRecords
  <2>5. RestoreInv(p)' /\ AdmissionInv(p)'
    BY <2>1, <2>4 DEF PipeInv, KeepsFields, RestoreInv, AdmissionInv, BeforeLowering
  <2>6. GapInv(p)'
    BY <1>0, <2>1, <2>4 DEF PipeInv, KeepsFields, GapInv
  <2> QED
    BY <2>3, <2>5, <2>6 DEF PipeInv
<1> QED
  BY <1>3, <1>4, <1>5

\* A pipeline that ends with any exit code is a pipeline.
LEMMA DoneRecord ==
  ASSUME TypeOK, NEW p \in Pipelines, NEW x \in {"running", "traceback", "0", "1"}
  PROVE  [pipe[p] EXCEPT !.pc = "done", !.exit = x] \in PipeRecords
BY Fields, Places DEF PipeRecords

\* The finally clause of main.
LEMMA ReportKeeps ==
  ASSUME TypeOK, NEW p \in Pipelines, PipeInv(p), Report(p)
  PROVE  TypeOK' /\ PipeInv(p)'
<1> DEFINE code == CASE pipe[p].interrupted -> "traceback"
                     [] pipe[p].status = "completed" /\ ~pipe[p].interrupted -> "0"
                     [] OTHER -> "1"
           written == IF pipe[p].rooted /\ pipe[p].exists THEN pipe[p].status ELSE disk[p]
           ended == [pipe[p] EXCEPT !.pc = "done", !.exit = code]
           broken == [pipe[p] EXCEPT !.pc = "done", !.exit = "traceback"]
<1>1. pipe[p].pc = "report" /\ UNCHANGED portStart
  BY DEF Report, At
<1>2. code \in {"running", "traceback", "0", "1"} /\ (code = "0" => pipe[p].status = "completed")
  OBVIOUS
<1>3. written \in Reports /\ written \in {pipe[p].status, disk[p]}
  BY Fields DEF TypeOK, Reports
<1>4. PICK new \in {ended, broken} :
        Set(p, new) /\ (UNCHANGED disk \/ disk' = [disk EXCEPT ![p] = written])
  BY Zenon DEF Report
<1>5. ended \in PipeRecords /\ broken \in PipeRecords
  <2> HIDE DEF code
  <2>2. ended \in PipeRecords
    BY <1>2, DoneRecord
  <2>3. broken \in PipeRecords
    BY DoneRecord
  <2> QED
    BY <2>2, <2>3
<1>6. disk' \in [Pipelines -> Reports] /\ disk'[p] \in {pipe[p].status, disk[p]}
  <2> HIDE DEF written
  <2> QED
    BY <1>3, <1>4 DEF TypeOK
<1>7. TypeOK' /\ pipe'[p] = new
  BY <1>1, <1>4, <1>5, <1>6, SetPipe DEF TypeOK
<1>8. /\ pipe'[p].pc = "done" /\ KeepsFields(p) /\ pipe'[p].status = pipe[p].status
      /\ pipe'[p].exit = "0" => pipe[p].status = "completed"
  <2> HIDE DEF code
  <2> QED
    BY <1>2, <1>4, <1>7, Fields DEF KeepsFields, PipeRecords
<1>9. RestoreInv(p)' /\ AdmissionInv(p)'
  BY <1>1, <1>8 DEF PipeInv, KeepsFields, RestoreInv, AdmissionInv, BeforeLowering
<1>10. GapInv(p)'
  BY <1>1, <1>6, <1>8 DEF PipeInv, KeepsFields, GapInv
<1> QED
  BY <1>7, <1>9, <1>10 DEF PipeInv

\* An interrupt inside the try clause still restores.  One that finds the threshold
\* lowered outside of it, or before the write of its finally clause, leaves a gap.
LEMMA InterruptKeeps ==
  ASSUME TypeOK, NEW p \in Pipelines, PipeInv(p), Interrupt(p)
  PROVE  TypeOK' /\ PipeInv(p)'
<1> DEFINE place == IF At(p, "phase2") THEN "restore" ELSE "report"
           gap == \/ pipe[p].gap \/ At(p, "lowered")
                  \/ (At(p, "restore") /\ pipe[p].applied)
           new == [pipe[p] EXCEPT !.interrupted = TRUE, !.pc = place, !.gap = gap]
           late == [pipe[p] EXCEPT !.interrupted = TRUE]
           broken == [pipe[p] EXCEPT !.interrupted = TRUE, !.pc = "done", !.exit = "traceback"]
<1>0. disk' \in [Pipelines -> Reports] /\ UNCHANGED <<disk, portStart>> /\ portStart' \in Nat
  BY DEF Interrupt, TypeOK
<1>1. place \in Pcs /\ gap \in BOOLEAN
  BY Places
<1>2. new \in PipeRecords /\ late \in PipeRecords /\ broken \in PipeRecords
  <2> HIDE DEF place, gap
  <2> QED
    BY <1>1, Fields, Places DEF PipeRecords
<1>3. CASE pipe[p].pc \notin {"report", "done"} /\ Set(p, new)
  <2>1. TypeOK' /\ pipe'[p] = new
    BY <1>0, <1>2, <1>3, SetPipe
  <2>2. /\ pipe'[p].pc = place /\ pipe'[p].gap = gap
        /\ pipe'[p].applied = pipe[p].applied /\ pipe'[p].original = pipe[p].original
        /\ pipe'[p].exit = pipe[p].exit /\ pipe'[p].status = pipe[p].status
    BY <2>1, Fields DEF PipeRecords
  <2>3. pipe[p].pc \in BeforeLowering \cup {"lowered", "phase2", "restore", "restored"}
    BY <1>3 DEF TypeOK, PipeRecords, Pcs
  <2>4. RestoreInv(p)' /\ AdmissionInv(p)'
    BY <1>0, <2>2, <2>3 DEF PipeInv, RestoreInv, AdmissionInv, BeforeLowering, At
  <2>5. GapInv(p)'
    BY <1>0, <1>3, <2>2, <2>3 DEF PipeInv, RestoreInv, GapInv, BeforeLowering, At
  <2> QED
    BY <2>1, <2>4, <2>5 DEF PipeInv
<1>4. CASE pipe[p].pc = "report" /\ \E x \in {late, broken} : Set(p, x)
  <2>1. PICK x \in {late, broken} : Set(p, x)
    BY <1>4
  <2>2. TypeOK' /\ pipe'[p] = x
    BY <1>0, <1>2, <2>1, SetPipe
  <2>3. /\ pipe'[p].pc \in {"report", "done"} /\ KeepsFields(p)
        /\ pipe'[p].exit \in {pipe[p].exit, "traceback"} /\ pipe'[p].status = pipe[p].status
    <3>1. CASE x = late
      BY <1>4, <2>2, <3>1, Fields DEF KeepsFields, PipeRecords
    <3>2. CASE x = broken
      BY <2>2, <3>2, Fields DEF KeepsFields, PipeRecords
    <3> QED
      BY <2>1, <3>1, <3>2
  <2>4. RestoreInv(p)' /\ AdmissionInv(p)'
    BY <1>0, <1>4, <2>3 DEF PipeInv, KeepsFields, RestoreInv, AdmissionInv, BeforeLowering
  <2>5. GapInv(p)'
    BY <1>0, <1>4, <2>3 DEF PipeInv, KeepsFields, GapInv
  <2> QED
    BY <2>2, <2>4, <2>5 DEF PipeInv
<1> QED
  BY <1>3, <1>4, Zenon DEF Interrupt, At

LEMMA StepThreshold ==
  ASSUME OnePipeline, ThresholdInv, [Next]_vars
  PROVE  ThresholdInv'
<1>1. PICK p : Pipelines = {p}
  BY DEF OnePipeline
<1>2. CASE UNCHANGED vars
  BY <1>2
  DEF ThresholdInv, vars, TypeOK, PipeInv, RestoreInv, AdmissionInv, GapInv, Admitted,
      NeedsWorkaround
<1>3. CASE Next
  <2>1. TypeOK' /\ PipeInv(p)'
    BY <1>1, <1>3, Phase1Keeps, WorkaroundKeeps, TryKeeps, ReportKeeps, InterruptKeeps
    DEF ThresholdInv, Next
  <2> QED
    BY <1>1, <2>1 DEF ThresholdInv
<1> QED
  BY <1>2, <1>3

-----------------------------------------------------------------------------
(* The theorems                                                            *)

\* What holds of the threshold at every step of main.
THEOREM ThresholdInductive ==
  ASSUME OnePipeline
  PROVE  Spec => []ThresholdInv
<1>1. Init => ThresholdInv
  BY InitThreshold
<1>2. ThresholdInv /\ [Next]_vars => ThresholdInv'
  BY StepThreshold
<1> QED
  BY <1>1, <1>2, PTL DEF Spec

\* restore_privileged_bind_workaround: a pipeline that has ended has put the
\* threshold back, whichever steps failed or were interrupted; or its restoring write
\* failed, or was forestalled by an interrupt outside the try clause or in its finally
\* clause, and it has not said that it has succeeded.
THEOREM ThresholdIsRestored ==
  ASSUME OnePipeline
  PROVE  Spec => []ThresholdRestored
<1>1. ThresholdInv => ThresholdRestored
  BY DEF OnePipeline, ThresholdInv, PipeInv, RestoreInv, GapInv, ThresholdRestored, At
<1> QED
  BY <1>1, ThresholdInductive, PTL

\* enable_privileged_bind_workaround lowers the threshold far enough: whenever
\* Phase 2 starts as an ordinary user every listener's port may be bound.
THEOREM ServicePortsAreAdmitted ==
  ASSUME OnePipeline
  PROVE  Spec => []ServicesAreAdmitted
<1>1. ThresholdInv => ServicesAreAdmitted
  BY
  DEF ThresholdInv, PipeInv, AdmissionInv, Admitted, ServicesAreAdmitted, At, TcpDependencyPorts
<1> QED
  BY <1>1, ThresholdInductive, PTL
=============================================================================
