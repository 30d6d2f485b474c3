---------------------------- MODULE RepairApplier ----------------------------
(***************************************************************************)
(* taintforge_env/repair_applier.py: RepairApplier.apply_file.  The whole  *)
(* plan is checked against the root file system, then the missing          *)
(* directories are made one by one, and an error removes them again.  A    *)
(* guest path is the sequence of its components; other processes may       *)
(* create entries in the same tree at any moment.                          *)
(***************************************************************************)
EXTENDS Naturals, FiniteSets, SequencesExt

CONSTANTS
  Paths,        \* guest paths: nonempty sequences, closed under prefixes
  Denied,       \* paths of pseudo file systems (denied_prefixes)
  MaxPlan,      \* bound: decisions of a plan
  MaxFaults,    \* bound: system calls that fail
  MaxForeign    \* bound: entries other processes create

ASSUME PathsAssumption ==
  \A p \in Paths : /\ p \in Seq(STRING) /\ Len(p) > 0
                   /\ \A n \in 1 .. Len(p) : SubSeq(p, 1, n) \in Paths
ASSUME DeniedAssumption == Denied \subseteq Paths
ASSUME BoundsAssumption == MaxPlan \in Nat /\ MaxFaults \in Nat /\ MaxForeign \in Nat

Kinds == {"absent", "dir", "file", "symlink"}
Parent(p) == SubSeq(p, 1, Len(p) - 1)
\* A decision of the plan: `valid' stands for the disposition, the
\* action, the mode and the parents flag all being what the applier accepts.
Decisions == [auto : BOOLEAN, valid : BOOLEAN, path : Paths]

VARIABLES
  fs,        \* the kind of every path
  plan, dryRun,
  pc,
  at,        \* the decision in hand
  todo,      \* its create_paths not yet made, a set
  results,   \* one record per decision looked at
  applied,   \* by_decision: the results while directories are made
  created,   \* created_paths, in order
  left,      \* created_paths not yet rolled back
  errors,    \* whether rollback_errors is nonempty
  report,    \* the report on disk
  outcome,   \* what apply_file returned or raised
  original, foreign, made,  \* history: the first fs, others' and own creations
  faults

input == <<plan, dryRun, original>>
vars == <<fs, plan, dryRun, pc, at, todo, results, applied, created, left, errors,
          report, outcome, original, foreign, made, faults>>

Present(p) == fs[p] # "absent"
\* An entry exists only inside a directory; the root is one.
InDirectory(f, p) == IF Len(p) = 1 THEN TRUE ELSE f[Parent(p)] = "dir"
FileSystems ==
  {f \in [Paths -> Kinds] : \A p \in Paths : f[p] # "absent" => InDirectory(f, p)}
NoReport == [state |-> "none", results |-> <<>>]

Init ==
  /\ fs \in FileSystems
  /\ plan \in UNION {[1 .. n -> Decisions] : n \in 0 .. MaxPlan}
  /\ dryRun \in BOOLEAN
  /\ pc = "read" /\ at = 1 /\ todo = {} /\ results = <<>> /\ applied = <<>>
  /\ created = <<>> /\ left = <<>> /\ errors = FALSE
  /\ report = NoReport /\ outcome = "none"
  /\ original = fs /\ foreign = {} /\ made = {} /\ faults = 0

Fault == faults < MaxFaults /\ faults' = faults + 1
Raise(paths) == pc' = "rollback" /\ left' = Reverse(paths)

-----------------------------------------------------------------------------
(* Before the transaction                                                  *)

\* An unreadable plan, requirements other than the planner's or a root file
\* system that is missing or a link: nothing was touched and no report is made.
ReadInputs ==
  /\ pc = "read"
  /\ \/ pc' = "preflight" /\ UNCHANGED outcome
     \/ pc' = "done" /\ outcome' = "refused"
  /\ UNCHANGED <<fs, at, todo, results, applied, created, left, errors, report, foreign, made, faults, input>>

-----------------------------------------------------------------------------
(* Preflight                                                               *)

AlongPath(p) == {SubSeq(p, 1, n) : n \in 1 .. Len(p)}
IsDenied(p) == \E q \in AlongPath(p) : q \in Denied
\* Directories that earlier decisions of the same plan will make.
VirtuallyCreated == UNION {results[k].paths : k \in 1 .. Len(results)}
Blocked(p) == \E q \in AlongPath(p) \ VirtuallyCreated : fs[q] \in {"file", "symlink"}
\* _prepare_directory's create_paths; their order is that of their lengths.
CreatePaths(p) == {q \in AlongPath(p) \ VirtuallyCreated : ~Present(q)}

Result(status, paths) == [status |-> status, paths |-> paths]

NotSelected ==
  /\ ~plan[at].auto
  /\ results' = Append(results, Result("not_selected", {}))
  /\ at' = at + 1
  /\ UNCHANGED <<pc, left>>

AcceptedUnlessDenied(d) == d.valid /\ ~IsDenied(d.path)
Accepted(d) == d.valid /\ ~IsDenied(d.path) /\ ~Blocked(d.path)

Prepared ==
  /\ plan[at].auto /\ Accepted(plan[at])
  /\ LET paths == CreatePaths(plan[at].path)
     IN  results' = Append(results,
           Result(IF paths = {} THEN "already_satisfied" ELSE "planned", paths))
  /\ at' = at + 1
  /\ UNCHANGED <<pc, left>>

\* _preflight raises and its results are lost: the caller's list is still empty.
Rejected ==
  /\ plan[at].auto /\ ~Accepted(plan[at])
  /\ results' = <<>>
  /\ Raise(<<>>)
  /\ UNCHANGED at

PreflightDecision ==
  /\ pc = "preflight" /\ at <= Len(plan)
  /\ NotSelected \/ Prepared \/ Rejected
  /\ UNCHANGED <<fs, todo, applied, created, errors, report, outcome, foreign, made, faults, input>>

PreflightDone ==
  /\ pc = "preflight" /\ at > Len(plan)
  /\ IF dryRun THEN pc' = "save" /\ UNCHANGED at ELSE pc' = "apply" /\ at' = 1
  /\ applied' = results
  /\ UNCHANGED <<fs, todo, results, created, left, errors, report, outcome, foreign, made, faults, input>>

-----------------------------------------------------------------------------
(* Application: mkdir and chmod of one path after the other                *)

Applying == pc = "apply" /\ at <= Len(results)
Planned(k) == results[k].status = "planned"

SkipDecision ==
  /\ Applying /\ ~Planned(at)
  /\ at' = at + 1
  /\ UNCHANGED <<fs, pc, todo, results, applied, created, left, errors, report, outcome, foreign, made, faults, input>>

StartDecision ==
  /\ Applying /\ Planned(at)
  /\ pc' = "make" /\ todo' = results[at].paths
  /\ UNCHANGED <<fs, at, results, applied, created, left, errors, report, outcome, foreign, made, faults, input>>

InHand(p) == p \in todo /\ \A q \in todo : Len(p) <= Len(q)
Making(p) == pc = "make" /\ InHand(p)
Mkdir(p) == fs' = [fs EXCEPT ![p] = "dir"] /\ made' = made \cup {p}

MakeDirectory ==
  /\ \E p \in todo :
       /\ Making(p) /\ ~Present(p) /\ InDirectory(fs, p)
       /\ Mkdir(p)
       /\ created' = Append(created, p) /\ todo' = todo \ {p}
  /\ UNCHANGED <<pc, at, results, applied, left, errors, report, outcome, foreign, faults, input>>

\* FileExistsError: somebody else was faster.
MakeCountsExisting ==
  /\ \E p \in todo :
       /\ Making(p) /\ fs[p] = "dir"
       /\ created' = Append(created, p) /\ todo' = todo \ {p}
  /\ UNCHANGED <<fs, pc, at, results, applied, left, errors, report, outcome, foreign, made, faults, input>>

MakeExists ==
  /\ \E p \in todo : Making(p) /\ fs[p] = "dir" /\ todo' = todo \ {p}
  /\ UNCHANGED <<fs, pc, at, results, applied, created, left, errors, report, outcome, foreign, made, faults, input>>

MakeObstructed ==
  /\ \E p \in todo : Making(p) /\ (fs[p] \in {"file", "symlink"} \/ ~InDirectory(fs, p))
  /\ Raise(created)
  /\ UNCHANGED <<fs, at, todo, results, applied, created, errors, report, outcome, foreign, made, faults, input>>

MakeFails ==
  /\ \E p \in todo : Making(p) /\ ~Present(p)
  /\ Fault /\ Raise(created)
  /\ UNCHANGED <<fs, at, todo, results, applied, created, errors, report, outcome, foreign, made, input>>

\* mkdir succeeds and the chmod after it raises: the path is not yet listed.
ChmodFails ==
  /\ \E p \in todo : Making(p) /\ ~Present(p) /\ InDirectory(fs, p) /\ Mkdir(p)
  /\ Fault /\ Raise(created)
  /\ UNCHANGED <<at, todo, results, applied, created, errors, report, outcome, foreign, input>>

FinishDecision ==
  /\ pc = "make" /\ todo = {}
  /\ LET paths == results[at].paths \cap Range(created)
     IN  applied' = [applied EXCEPT ![at] =
           Result(IF paths = {} THEN "already_satisfied" ELSE "applied", paths)]
  /\ pc' = "apply" /\ at' = at + 1
  /\ UNCHANGED <<fs, todo, results, created, left, errors, report, outcome, foreign, made, faults, input>>

ApplicationDone ==
  /\ pc = "apply" /\ at > Len(results)
  /\ pc' = "save" /\ results' = applied
  /\ UNCHANGED <<fs, at, todo, applied, created, left, errors, report, outcome, foreign, made, faults, input>>

-----------------------------------------------------------------------------
(* Reports                                                                 *)

FinalState == IF dryRun THEN "dry_run" ELSE "completed"

SaveReport ==
  /\ pc = "save"
  /\ report' = [state |-> FinalState, results |-> results]
  /\ pc' = "done" /\ outcome' = "returned"
  /\ UNCHANGED <<fs, at, todo, results, applied, created, left, errors, foreign, made, faults, input>>

\* A report that cannot be saved is the caller's problem only.
SaveFailsUnhandled ==
  /\ pc = "save"
  /\ pc' = "save_failed"
  /\ Fault
  /\ UNCHANGED <<fs, at, todo, results, applied, created, left, errors, report, outcome, foreign, made, input>>

\* The temporary file is replaced into place before its chmod; either may fail.
SaveFails ==
  /\ pc = "save"
  /\ \/ UNCHANGED report
     \/ report' = [state |-> FinalState, results |-> results]
  /\ Fault /\ Raise(created)
  /\ UNCHANGED <<fs, at, todo, results, applied, created, errors, outcome, foreign, made, input>>

MarkRolledBack ==
  [k \in 1 .. Len(results) |->
     IF results[k].paths \cap Range(created) # {}
     THEN [results[k] EXCEPT !.status = "rolled_back"] ELSE results[k]]

SaveFailedReport ==
  /\ pc = "save_failed"
  /\ report' = [state |-> "failed", results |-> MarkRolledBack]
  /\ pc' = "done" /\ outcome' = "raised"
  /\ UNCHANGED <<fs, at, todo, results, applied, created, left, errors, foreign, made, faults, input>>

SaveFailedReportFails ==
  /\ pc = "save_failed"
  /\ Fault
  /\ pc' = "done" /\ outcome' = "raised_unreported"
  /\ UNCHANGED <<fs, at, todo, results, applied, created, left, errors, report, foreign, made, input>>

-----------------------------------------------------------------------------
(* Rollback: rmdir in reverse order                                        *)

RollingBack == pc = "rollback" /\ left # <<>>
Empty(p) == \A q \in Paths : Len(q) > 1 /\ Parent(q) = p => ~Present(q)

RemoveDirectory ==
  /\ RollingBack /\ Empty(Head(left))
  /\ fs' = [fs EXCEPT ![Head(left)] = "absent"]
  /\ left' = Tail(left)
  /\ UNCHANGED <<pc, at, todo, results, applied, created, errors, report, outcome, foreign, made, faults, input>>

RemoveFails ==
  /\ RollingBack
  /\ errors' = TRUE
  /\ left' = Tail(left)
  /\ \/ ~Empty(Head(left)) /\ UNCHANGED faults
     \/ Fault
  /\ UNCHANGED <<fs, pc, at, todo, results, applied, created, report, outcome, foreign, made, input>>

RollbackDone ==
  /\ pc = "rollback" /\ left = <<>>
  /\ pc' = "save_failed"
  /\ UNCHANGED <<fs, at, todo, results, applied, created, left, errors, report, outcome, foreign, made, faults, input>>

\* Another process creates an entry in the same tree.
ForeignCreate ==
  /\ pc # "done" /\ Cardinality(foreign) < MaxForeign
  /\ \E p \in Paths, kind \in Kinds \ {"absent"} :
       /\ ~Present(p) /\ InDirectory(fs, p)
       /\ fs' = [fs EXCEPT ![p] = kind]
       /\ foreign' = foreign \cup {p}
  /\ UNCHANGED <<pc, at, todo, results, applied, created, left, errors, report, outcome, made, faults, input>>

Next ==
  \/ ReadInputs \/ PreflightDecision \/ PreflightDone
  \/ SkipDecision \/ StartDecision \/ MakeDirectory \/ MakeExists \/ MakeObstructed
  \/ MakeFails \/ ChmodFails \/ FinishDecision \/ ApplicationDone
  \/ SaveReport \/ SaveFails \/ SaveFailedReport \/ SaveFailedReportFails
  \/ RemoveDirectory \/ RemoveFails \/ RollbackDone \/ ForeignCreate

Spec == Init /\ [][Next]_vars

-----------------------------------------------------------------------------
(* Properties                                                              *)

Failed == outcome \in {"raised", "raised_unreported"}

\* When apply_file returns a completed report, every directory the plan wanted
\* made is there, whatever other processes created meanwhile.
CompletedIsSatisfied ==
  outcome = "returned" /\ ~dryRun =>
    \A k \in 1 .. Len(plan) : plan[k].auto => fs[plan[k].path] = "dir"

\* After a failure without rollback errors the tree is the one before, but for
\* what others created and the one directory that was in hand.
FailedLeavesAtMostOne ==
  Failed /\ ~errors =>
    \A p \in Paths :
      fs[p] = original[p] \/ p \in foreign \/ InHand(p)

\* Nothing is removed that was there before or that another process made, even
\* when it appeared while the plan was being applied.
OnlyOwnIsRemoved ==
  [][\A p \in Paths : Present(p) /\ fs'[p] = "absent" => p \in made /\ p \notin foreign]_vars
=============================================================================
