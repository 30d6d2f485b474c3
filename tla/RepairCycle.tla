----------------------------- MODULE RepairCycle -----------------------------
(***************************************************************************)
(* What the iterations of a session do to an environment: the guest runs   *)
(* in a copy of it, the artifacts of the run become requirements           *)
(* (RequirementExtractor) and a plan (RepairPlanner), the progress oracle  *)
(* and the controller decide whether to go on, and the applier adds the    *)
(* planned directories.  SynthesisSession has the same rounds with         *)
(* arbitrary bundles; here a bundle is what a deterministic guest really   *)
(* produces.  The guest and the kernel are external.                       *)
(***************************************************************************)
EXTENDS RepairPlanner, FiniteSets

CONSTANTS
  Syscalls,       \* what a guest may call
  Ends,           \* how a guest ends when nothing stops it
  Seeds,          \* the trees a session may start from
  LinkTarget,     \* where symbolic links point to
  MaxCalls,       \* bound: calls of a program
  MaxIterations   \* the budget of the session

ASSUME BudgetAssumption == MaxCalls \in Nat /\ MaxIterations \in Nat \ {0}

\* A call of a guest: what it calls, on which path or endpoint, the error with
\* which the kernel refuses it outright (whether a path exists is for the tree to
\* say), whether the network answers, whether the guest depends on it, and
\* whether the guest or the emulator makes it.
GuestPaths == [root : STRING, tidy : BOOLEAN, parts : Seq(STRING)]
Calls == [call : STRING, path : GuestPaths, errno : STRING \ {"ENOENT"},
          answered : BOOLEAN, fatal : BOOLEAN, context : STRING]
ASSUME SyscallsAssumption == Syscalls \subseteq Calls

\* A file tree: finitely many entries, each in a directory that is there.
IsTree(t) ==
  /\ IsFiniteSet(DOMAIN t) /\ t \in [DOMAIN t -> {"dir", "file", "link"}]
  /\ \A p \in DOMAIN t : p \in Seq(STRING) /\ p # <<>> /\ (Len(p) > 1 => Front(p) \in DOMAIN t)
ASSUME SeedsAssumption == \A t \in Seeds : IsTree(t)
ASSUME LinkAssumption == LinkTarget \in Seq(STRING) /\ LinkTarget # <<>>

VARIABLES
  seed, program, end,  \* the input
  env,        \* the snapshot of the current attempt: the entries of its tree
  pc,
  tree,       \* the execution rootfs
  written,    \* files of it the guest wrote to
  events, net, stderr,   \* the artifacts of the run
  reqs, plan,
  history,    \* the observations of the attempts so far
  progress,   \* the classification of the last attempt
  outcome     \* why the session ended

input == <<seed, program, end>>
run == <<tree, written, events, net, stderr>>
vars == <<input, env, pc, run, reqs, plan, history, progress, outcome>>

-----------------------------------------------------------------------------
(* The kernel's view of a tree                                             *)

Kind(t, p) == IF p = <<>> THEN "dir" ELSE IF p \in DOMAIN t THEN t[p] ELSE "absent"
Follow(t, p) == IF Kind(t, p) = "link" THEN LinkTarget ELSE p
Up(p) == IF p = <<>> THEN <<>> ELSE Front(p)

\* One component of a path walk.
WalkInto(t, at, name) ==
  LET here == Follow(t, at.node)
  IN  IF at.errno # "" THEN at
      ELSE CASE Kind(t, here) = "absent" -> [at EXCEPT !.errno = "ENOENT"]
             [] Kind(t, here) \in {"file", "link"} -> [at EXCEPT !.errno = "ENOTDIR"]
             [] Kind(t, here) = "dir" ->
                  [at EXCEPT !.node = IF name = ".." THEN Up(here) ELSE Append(here, name)]

Walk(t, p) ==
  FoldLeft(LAMBDA at, name : WalkInto(t, at, name), [errno |-> "", node |-> <<>>], p.parts)

\* The error of a call on a node whose directory was reached.
NodeErrno(t, call, node) ==
  CASE call = "mkdir" -> IF Kind(t, node) = "absent" THEN "" ELSE "EEXIST"
    [] call = "creat" ->
         (IF Kind(t, Follow(t, node)) = "dir" THEN "EISDIR"
          ELSE IF Kind(t, Follow(t, node)) = "file" THEN ""
          ELSE IF Kind(t, Up(Follow(t, node))) = "dir" THEN "" ELSE "ENOENT")
    [] call = "rmdir" ->
         (IF Kind(t, node) = "absent" THEN "ENOENT"
          ELSE IF Kind(t, node) # "dir" THEN "ENOTDIR"
          ELSE IF node = <<>> \/ \E q \in DOMAIN t : Len(q) > 1 /\ Front(q) = node THEN "ENOTEMPTY"
          ELSE "")
    [] OTHER -> IF Kind(t, Follow(t, node)) = "absent" THEN "ENOENT" ELSE ""

\* A call fails as the tree says unless the kernel refuses it outright.
Errno(t, c) ==
  IF c.errno # "" \/ c.call \in NetworkSyscalls THEN c.errno
  ELSE LET w == Walk(t, c.path)
       IN  IF w.errno # "" THEN w.errno ELSE NodeErrno(t, c.call, w.node)

Put(t, p, kind) == [q \in DOMAIN t \cup {p} |-> IF q = p THEN kind ELSE t[q]]

Effect(t, c) ==
  LET node == Walk(t, c.path).node
  IN  CASE c.call = "mkdir" -> Put(t, node, "dir")
        [] c.call = "creat" -> Put(t, Follow(t, node), "file")
        [] c.call = "rmdir" -> [q \in DOMAIN t \ {node} |-> t[q]]
        [] OTHER -> t

-----------------------------------------------------------------------------
Init ==
  /\ seed \in Seeds
  /\ program \in UNION {[1 .. n -> Syscalls] : n \in 1 .. MaxCalls}
  /\ end \in Ends
  /\ env = seed /\ pc = "start"
  /\ tree = seed /\ written = {} /\ events = <<>> /\ net = <<>> /\ stderr = <<>>
  /\ reqs = [k \in {} |-> {}] /\ plan = {} /\ history = <<>>
  /\ progress = "none" /\ outcome = "none"

\* The attempt starts in a clone of its snapshot.
StartGuest ==
  /\ pc = "start"
  /\ pc' = "guest"
  /\ tree' = env /\ written' = {} /\ events' = <<>> /\ net' = <<>> /\ stderr' = <<>>
  /\ UNCHANGED <<input, env, reqs, plan, history, progress, outcome>>

Event(kind, call, path, errno, context, code) ==
  [event |-> kind, syscall |-> call, path |-> path, errno |-> errno,
   context |-> context, code |-> code]
Exit(code) == Event("process_exit", "", RootPath, "", "guest", code)

\* One call of the guest, or of the emulator it runs in.  A guest that depends
\* on the call exits when it fails.
Syscall ==
  /\ pc = "guest" /\ Len(events) < Len(program)
  /\ LET c == program[Len(events) + 1]
         errno == Errno(tree, c)
         event == Event("syscall", c.call, c.path, errno, c.context, 0)
         dies == c.fatal /\ errno # ""
     IN  /\ events' = Append(events, event) \o (IF dies THEN <<Exit(1)>> ELSE <<>>)
         /\ pc' = IF dies THEN "observe" ELSE "guest"
         /\ tree' = IF errno = "" THEN Effect(tree, c) ELSE tree
         /\ written' = IF errno = "" /\ c.call = "creat"
                         THEN written \cup {Follow(tree, Walk(tree, c.path).node)} ELSE written
         /\ net' = IF errno = "" /\ c.call \in NetworkSyscalls
                     THEN Append(net, [operation |-> IF c.call = "connect" THEN "connect" ELSE "datagram_exchange",
                                       endpoint |-> c.path, answered |-> c.answered])
                     ELSE net
  /\ UNCHANGED <<input, env, stderr, reqs, plan, history, progress, outcome>>

\* The guest ends: by itself, by a signal, because its interpreter
\* or a library is missing, or without a trace of it.
EndGuest ==
  /\ pc = "guest" /\ Len(events) = Len(program)
  /\ pc' = "observe"
  /\ events' = CASE end = "exit" -> Append(events, Exit(0))
                 [] end = "signal" -> Append(events, Event("signal", "", RootPath, "", "guest", 0))
                 [] OTHER -> events
  /\ stderr' = IF end \in {"ld.so", "lib.so"} THEN <<end>> ELSE stderr
  /\ UNCHANGED <<input, env, tree, written, net, reqs, plan, history, progress, outcome>>

\* rootfs_diff: created and modified entries.
RootfsDiff ==
  {p \in DOMAIN tree : p \notin DOMAIN env \/ tree[p] # env[p] \/ p \in written}

Bundle == [events |-> events, net |-> net, stderr |-> stderr, diff |-> RootfsDiff]

\* _postprocess: the requirements of the run, and the plan made from them.
Postprocess ==
  /\ pc = "observe"
  /\ pc' = "decide"
  /\ reqs' = Extract(Bundle)
  /\ plan' = Plan(Extract(Bundle))
  /\ UNCHANGED <<input, env, run, history, progress, outcome>>

-----------------------------------------------------------------------------
(* ProgressOracle                                                          *)

Automatic(p) == {d.key.resource : d \in {e \in p : e.automatic}}
Unmet(r) == {k \in DOMAIN r : r[k].status = "unmet"}
LikelyUnmet(r) == {k \in Unmet(r) : r[k].blocking = "likely"}

\* _normalize_guest_events: the calls by name, so that open is one call whatever its
\* flags are, and the guest's events only.
Normalized(e) ==
  [event |-> e.event, syscall |-> SyscallName(e.syscall), path |-> e.path,
   errno |-> e.errno, code |-> e.code]
NormalizeGuestEvents(es) ==
  LET guest == SelectSyscallEvents(es)
  IN  [n \in 1 .. Len(guest) |-> Normalized(guest[n])]

\* observe: the state fingerprint, and what the metrics and compare need.
Observation ==
  [env |-> env, reqs |-> reqs, plan |-> plan,
   guest |-> NormalizeGuestEvents(events), net |-> net]

FatalSignals(o) == Len(SelectSeq(o.guest, LAMBDA e : e.event = "signal"))
Targets(o) == {o.net[n].endpoint : n \in 1 .. Len(o.net)}

\* compare: positive and negative reasons.
Positive(old, new) ==
  \/ ToSet(new.guest) \ ToSet(old.guest) # {}
  \/ Targets(new) \ Targets(old) # {}
  \/ Cardinality(LikelyUnmet(new.reqs)) < Cardinality(LikelyUnmet(old.reqs))
  \/ Cardinality(Unmet(new.reqs)) < Cardinality(Unmet(old.reqs))
Negative(old, new) ==
  \/ FatalSignals(new) > FatalSignals(old)
  \/ Cardinality(LikelyUnmet(new.reqs)) > Cardinality(LikelyUnmet(old.reqs))
  \/ ToSet(old.guest) \ ToSet(new.guest) # {} /\ ToSet(new.guest) \ ToSet(old.guest) = {}

\* Mutant: whatever disappears counts against the attempt.
CompareStrict(old, new) ==
  CASE ToSet(old.guest) \ ToSet(new.guest) # {} -> "regression"
    [] Positive(old, new) /\ ~Negative(old, new) -> "progress"
    [] OTHER -> "no_progress"

Compare(old, new) ==
  CASE Positive(old, new) /\ ~Negative(old, new) -> "progress"
    [] Negative(old, new) /\ ~Positive(old, new) -> "regression"
    [] OTHER -> "no_progress"

-----------------------------------------------------------------------------
(* The controller's decision                                               *)

\* Mutant: a repeated state is not noticed.
StopReasonForgetful(o) ==
  IF FatalSignals(o) > 0 THEN "execution_crashed"
  ELSE IF Automatic(plan) = {} THEN "no_automatic_repairs"
  ELSE IF Len(history) + 1 >= MaxIterations THEN "budget_exhausted"
  ELSE "none"

\* _decide_stop_reason and _resolve_attempt_session_transition, for a guest
\* that reaches no goal and does not run into its timeout.
StopReason(o) ==
  IF FatalSignals(o) > 0 THEN "execution_crashed"
  ELSE IF history # <<>> /\ Last(history) = o THEN "fixed_point"
  ELSE IF history # <<>> /\ o \in ToSet(Front(history)) THEN "cycle_detected"
  ELSE IF Automatic(plan) = {} THEN "no_automatic_repairs"
  ELSE IF Len(history) + 1 >= MaxIterations THEN "budget_exhausted"
  ELSE "none"

Decide ==
  /\ pc = "decide"
  /\ history' = Append(history, Observation)
  /\ progress' = IF history = <<>> THEN "baseline" ELSE Compare(Last(history), Observation)
  /\ outcome' = StopReason(Observation)
  /\ pc' = IF StopReason(Observation) = "none" THEN "repair" ELSE "done"
  /\ UNCHANGED <<input, env, run, reqs, plan>>

-----------------------------------------------------------------------------
(* RepairApplier, as one step: RepairApplier.tla has its parts             *)

Along(p) == {SubSeq(p.parts, 1, n) : n \in 1 .. Len(p.parts)}
Obstructed(p) == \E q \in Along(p) : Kind(env, q) \in {"file", "link"}
\* RepairApplier._validate_guest_path has the planner's rules and its own list
\* of pseudo file systems.
Appliable(p) == ValidGuestPath(p) /\ p # RootPath /\ ~IsPseudoPath(p)
Refused == \E p \in Automatic(plan) : ~Appliable(p) \/ Obstructed(p)

\* Mutant: the parents of a planned directory are not made.
AddedLeavesOnly == {p.parts : p \in Automatic(plan)} \ DOMAIN env

\* Directories to be made, parents included.
Added == (UNION {Along(p) : p \in Automatic(plan)}) \ DOMAIN env

\* _build_repaired_snapshot
ApplyPlan ==
  /\ pc = "repair" /\ ~Refused
  /\ env' = [p \in DOMAIN env \cup Added |-> IF p \in DOMAIN env THEN env[p] ELSE "dir"]
  /\ pc' = "start"
  /\ UNCHANGED <<input, run, reqs, plan, history, progress, outcome>>

PlanRefused ==
  /\ pc = "repair" /\ Refused
  /\ pc' = "done" /\ outcome' = "refused"
  /\ UNCHANGED <<input, env, run, reqs, plan, history, progress>>

Next == StartGuest \/ Syscall \/ EndGuest \/ Postprocess \/ Decide \/ ApplyPlan \/ PlanRefused
Spec == Init /\ [][Next]_vars

-----------------------------------------------------------------------------
(* Properties                                                              *)

\* The creating calls of the guest itself.
GuestCreates ==
  {n \in 1 .. Len(program) : program[n].context = "guest" /\ program[n].call \in {"mkdir", "creat"}}

\* Over all rounds, the environment keeps every entry of the seed as it was and
\* gains directories only, each above a path that the guest itself tried to
\* create: nothing of what the guest or the emulator left in the rootfs, and
\* no file, is ever added by the requirements, the plan and the applier together.
EnvironmentGrowsByNeed ==
  /\ DOMAIN seed \subseteq DOMAIN env
  /\ \A p \in DOMAIN env :
       IF p \in DOMAIN seed THEN env[p] = seed[p]
       ELSE /\ env[p] = "dir"
            /\ \E n \in GuestCreates :
                 Len(p) < Len(program[n].path.parts) /\ IsPrefix(p, program[n].path.parts)

\* The calls of the last attempt that failed for want of a directory which the
\* repair then made.
Repaired ==
  {n \in GuestCreates :
     /\ history # <<>> /\ n <= Len(Last(history).guest)
     /\ Last(history).guest[n].errno = "ENOENT"
     /\ LET p == ParentDirectory(program[n].path).parts
        IN  p \notin DOMAIN Last(history).env /\ p \in DOMAIN env}
AllGuest == \A n \in 1 .. Len(program) : program[n].context = "guest"

\* A repair helps: a call that failed because its directory was missing, and for
\* which the directory was then made, does not fail that way again, unless the
\* guest has removed a directory in the meantime.
RepairHeals ==
  AllGuest /\ pc \in {"guest", "observe"} =>
    \A n \in Repaired :
      n <= Len(events) /\ events[n].errno = "ENOENT" =>
        \E m \in 1 .. n - 1 : program[m].call = "rmdir" /\ events[m].errno = ""

\* The rounds come to an end by themselves: every repair either makes a directory,
\* and a call is repaired at most once, or the next attempt is a fixed point.  A
\* budget of two attempts more than there are creating calls is never exhausted.
BudgetSuffices ==
  outcome = "budget_exhausted" => MaxIterations < Cardinality(GuestCreates) + 2

\* No path is opened both with O_CREAT and without.
OpensOneWay ==
  \A m, n \in 1 .. Len(program) :
    program[m].call = "open" /\ program[n].call = "creat" => program[m].path # program[n].path

\* An attempt whose environment was really repaired is never called a regression,
\* although a repair changes and may hide events of the attempt before.  A guest
\* that removes directories is left out, and so is one that gets as far as a
\* missing library: that new requirement can outweigh the one that was repaired.
\* So is a guest that opens a path both with O_CREAT and without: the oracle takes
\* the two calls for one, and a new requirement of the one may hide behind an old
\* event of the other.
RepairIsNoRegression ==
  /\ end \notin {"ld.so", "lib.so"} /\ OpensOneWay
  /\ \A n \in 1 .. Len(program) : program[n].call # "rmdir"
  => (Len(history) > 1 /\ Last(history).env # history[Len(history) - 1].env =>
       progress # "regression")
=============================================================================
