------------------------ MODULE RepairApplierProofs ------------------------
(***************************************************************************)
(* Proofs about RepairApplier, for every tree of paths, every plan, any    *)
(* number of failing system calls and any number of entries that other     *)
(* processes create.  Two arguments run side by side: created_paths lists  *)
(* each of the applier's own directories once and nothing else, so that    *)
(* the rollback takes away exactly those; and every directory an accepted  *)
(* plan wants is either there or among the paths still to be made.         *)
(***************************************************************************)
EXTENDS RepairApplier, SequenceTheorems, TLAPS

Statuses == {"not_selected", "already_satisfied", "planned", "applied"}
Results == [status : Statuses, paths : SUBSET Paths]
BeforeRollback == {"read", "preflight", "apply", "make", "save"}
PcLabels == BeforeRollback \cup {"rollback", "save_failed", "done"}

\* Type correctness, and that apply_file has no outcome before it ends.
TypeOK ==
  /\ fs \in [Paths -> Kinds] /\ original \in [Paths -> Kinds]
  /\ plan \in Seq(Decisions) /\ dryRun \in BOOLEAN
  /\ pc \in PcLabels /\ at \in Nat \ {0}
  /\ todo \in SUBSET Paths
  /\ results \in Seq(Results) /\ applied \in Seq(Results)
  /\ created \in Seq(Paths) /\ left \in Seq(Paths)
  /\ errors \in BOOLEAN
  /\ foreign \in SUBSET Paths /\ made \in SUBSET Paths
  /\ pc # "done" => outcome = "none"
  /\ outcome = "returned" => pc = "done"

Listed(s, p) == \E i \in 1 .. Len(s) : s[i] = p
Kept(p) == fs[p] = original[p] \/ p \in foreign

\* A list of directories that the applier made itself, each listed once.
OwnList(s) ==
  /\ \A i \in 1 .. Len(s) :
       /\ s[i] \in made /\ s[i] \notin foreign
       /\ fs[s[i]] = "dir" /\ original[s[i]] = "absent"
  /\ \A i, j \in 1 .. Len(s) : s[i] = s[j] => i = j

\* What another process made stays.
ForeignStays == \A p \in foreign : Present(p)

\* Until the rollback begins the tree differs from the first one in what
\* others made and in what created_paths lists.
OwnIsListed ==
  pc \in BeforeRollback =>
    /\ OwnList(created)
    /\ \A p \in Paths : Kept(p) \/ Listed(created, p)

\* In the rollback it differs in what is left to remove and in the directory
\* that was in hand.
RollbackIsExact ==
  pc = "rollback" =>
    /\ OwnList(left)
    /\ ~errors => \A p \in Paths : Kept(p) \/ InHand(p) \/ Listed(left, p)

\* After it, in the directory that was in hand.
RolledBack ==
  (pc = "save_failed" \/ Failed) /\ ~errors => \A p \in Paths : Kept(p) \/ InHand(p)

\* The preflight makes nothing.
NothingYet == pc \in {"read", "preflight"} => created = <<>>

Ownership == ForeignStays /\ NothingYet /\ OwnIsListed /\ RollbackIsExact /\ RolledBack

\* The directory of decision k is there or among the paths to be made.
Covered(k) ==
  plan[k].auto =>
    \/ fs[plan[k].path] = "dir"
    \/ \E j \in 1 .. Len(results) : plan[k].path \in results[j].paths
\* All the paths of result j have been made.
IsMade(j) == \A q \in results[j].paths : fs[q] = "dir"
PlanIsSatisfied == \A k \in 1 .. Len(plan) : plan[k].auto => fs[plan[k].path] = "dir"

Progress ==
  /\ pc \in {"read", "preflight", "apply", "make"} =>
       \A j \in 1 .. Len(results) : results[j].paths # {} => results[j].status = "planned"
  /\ pc = "read" => at = 1 /\ results = <<>>
  /\ pc = "preflight" => at <= Len(plan) + 1 /\ \A k \in 1 .. at - 1 : Covered(k)
  /\ pc \in {"apply", "make"} =>
       /\ ~dryRun
       /\ \A k \in 1 .. Len(plan) : Covered(k)
       /\ at <= Len(results) + 1
       /\ \A j \in 1 .. at - 1 : IsMade(j)
  /\ pc = "make" =>
       at <= Len(results) /\ \A q \in results[at].paths : fs[q] = "dir" \/ q \in todo
  /\ pc = "save" /\ ~dryRun => PlanIsSatisfied
  /\ outcome = "returned" /\ ~dryRun => PlanIsSatisfied

Inv == TypeOK /\ Ownership /\ Progress

-----------------------------------------------------------------------------
(* Sequences                                                               *)

\* Reversing a list of paths.
LEMMA ReverseFacts ==
  ASSUME NEW s \in Seq(Paths)
  PROVE  /\ Reverse(s) \in Seq(Paths) /\ Len(Reverse(s)) = Len(s)
         /\ \A i \in 1 .. Len(s) : Reverse(s)[i] = s[(Len(s) - i) + 1]
<1>1. Len(s) \in Nat /\ \A i \in 1 .. Len(s) : s[i] \in Paths
  BY LenProperties, ElementOfSeq
<1>2. Reverse(s) \in [1 .. Len(s) -> Paths]
  BY <1>1 DEF Reverse
<1>3. Reverse(s) \in Seq(Paths)
  BY <1>1, <1>2, SeqDef
<1> QED BY <1>1, <1>2, <1>3, LenProperties DEF Reverse

\* What is listed is listed in the reverse list too.
LEMMA ReverseLists ==
  ASSUME NEW s \in Seq(Paths), NEW p
  PROVE  Listed(Reverse(s), p) <=> Listed(s, p)
<1>1. Len(s) \in Nat
  BY LenProperties
<1>2. \A i \in 1 .. Len(s) : (Len(s) - i) + 1 \in 1 .. Len(s) /\ (Len(s) - ((Len(s) - i) + 1)) + 1 = i
  BY <1>1
<1>3. Len(Reverse(s)) = Len(s) /\ \A i \in 1 .. Len(s) : Reverse(s)[i] = s[(Len(s) - i) + 1]
  BY ReverseFacts
<1>4. ASSUME Listed(Reverse(s), p) PROVE Listed(s, p)
  BY <1>2, <1>3, <1>4 DEF Listed
<1>5. ASSUME NEW i \in 1 .. Len(s), s[i] = p PROVE Listed(Reverse(s), p)
  <2> DEFINE j == (Len(s) - i) + 1
  <2>1. j \in 1 .. Len(s) /\ (Len(s) - j) + 1 = i
    BY <1>2
  <2> QED BY <2>1, <1>3, <1>5 DEF Listed
<1> QED BY <1>4, <1>5 DEF Listed

\* The reverse of a list of own directories is one.
LEMMA ReverseOwns ==
  ASSUME NEW s \in Seq(Paths), OwnList(s)
  PROVE  OwnList(Reverse(s))
<1>1. Len(s) \in Nat
  BY LenProperties
<1>2. \A i \in 1 .. Len(s) : (Len(s) - i) + 1 \in 1 .. Len(s)
  BY <1>1
<1>3. \A i, j \in 1 .. Len(s) : (Len(s) - i) + 1 = (Len(s) - j) + 1 => i = j
  BY <1>1
<1>4. Len(Reverse(s)) = Len(s) /\ \A i \in 1 .. Len(s) : Reverse(s)[i] = s[(Len(s) - i) + 1]
  BY ReverseFacts
<1>5. ASSUME NEW i \in 1 .. Len(s), NEW j \in 1 .. Len(s), Reverse(s)[i] = Reverse(s)[j]
      PROVE  i = j
  <2> DEFINE a == (Len(s) - i) + 1
             b == (Len(s) - j) + 1
  <2>1. a \in 1 .. Len(s) /\ b \in 1 .. Len(s) /\ s[a] = s[b]
    BY <1>2, <1>4, <1>5
  <2>2. a = b
    <3> HIDE DEF a, b
    <3> QED BY <2>1, Zenon DEF OwnList
  <2> QED BY <2>2, <1>3
<1>6. ASSUME NEW i \in 1 .. Len(s)
      PROVE  /\ Reverse(s)[i] \in made /\ Reverse(s)[i] \notin foreign
             /\ fs[Reverse(s)[i]] = "dir" /\ original[Reverse(s)[i]] = "absent"
  <2> DEFINE a == (Len(s) - i) + 1
  <2>1. a \in 1 .. Len(s) /\ Reverse(s)[i] = s[a]
    BY <1>2, <1>4
  <2> HIDE DEF a
  <2> QED BY <2>1, Zenon DEF OwnList
<1> QED BY <1>4, <1>5, <1>6 DEF OwnList

\* The path itself is on the way to it.
LEMMA OnItsWay ==
  ASSUME NEW p \in Paths
  PROVE  p \in AlongPath(p) /\ AlongPath(p) \subseteq Paths
<1>1. p \in Seq(STRING) /\ Len(p) > 0 /\ \A n \in 1 .. Len(p) : SubSeq(p, 1, n) \in Paths
  BY PathsAssumption
<1>2. SubSeq(p, 1, Len(p)) = p /\ Len(p) \in Nat
  BY <1>1, SubSeqFull, LenProperties
<1>3. Len(p) \in 1 .. Len(p)
  BY <1>1, <1>2
<1>4. p \in AlongPath(p)
  BY <1>2, <1>3, Zenon DEF AlongPath
<1>5. AlongPath(p) \subseteq Paths
  BY <1>1, Zenon DEF AlongPath
<1> QED BY <1>4, <1>5

-----------------------------------------------------------------------------
(* Types                                                                   *)

\* The plan is a sequence of decisions and the lists are empty at first.
LEMMA InitType == Init => TypeOK
<1> SUFFICES ASSUME Init PROVE TypeOK
  OBVIOUS
<1>1. fs \in [Paths -> Kinds]
  BY DEF Init, FileSystems
<1>2. PICK n \in 0 .. MaxPlan : plan \in [1 .. n -> Decisions]
  BY DEF Init
<1>3. n \in Nat
  BY <1>2, BoundsAssumption
<1>4. Seq(Decisions) = UNION {[1 .. m -> Decisions] : m \in Nat}
  BY SeqDef
<1>5. plan \in Seq(Decisions)
  BY <1>2, <1>3, <1>4
<1>6. <<>> \in Seq(Results) /\ <<>> \in Seq(Paths)
  BY EmptySeq
<1>7. /\ dryRun \in BOOLEAN /\ pc = "read" /\ at = 1 /\ todo = {} /\ results = <<>>
      /\ applied = <<>> /\ created = <<>> /\ left = <<>> /\ errors = FALSE
      /\ outcome = "none" /\ original = fs /\ foreign = {} /\ made = {}
  BY Zenon DEF Init
<1>8. /\ results \in Seq(Results) /\ applied \in Seq(Results)
      /\ created \in Seq(Paths) /\ left \in Seq(Paths)
  BY <1>6, <1>7, Zenon
<1>9. at \in Nat \ {0}
  BY <1>7, SMT
<1>10. pc \in PcLabels
  BY <1>7, Zenon DEF PcLabels, BeforeRollback
<1> QED BY <1>1, <1>5, <1>7, <1>8, <1>9, <1>10, Zenon DEF TypeOK

\* A result of the preflight.
LEMMA ResultType ==
  ASSUME TypeOK
  PROVE  /\ VirtuallyCreated \subseteq Paths
         /\ \A st \in Statuses, ps \in SUBSET Paths : Result(st, ps) \in Results
         /\ \A p \in Paths : CreatePaths(p) \subseteq Paths
         /\ \A k \in 1 .. Len(results) : results[k].paths \subseteq Paths
<1>1. \A k \in 1 .. Len(results) : results[k].paths \subseteq Paths
  <2>1. \A k \in 1 .. Len(results) : results[k] \in Results
    BY ElementOfSeq DEF TypeOK
  <2> QED BY <2>1 DEF Results
<1>2. \A p \in Paths : AlongPath(p) \subseteq Paths
  BY OnItsWay
<1> QED BY <1>1, <1>2 DEF VirtuallyCreated, Result, Results, CreatePaths

\* Every action keeps the types.
LEMMA TypeNext ==
  ASSUME TypeOK, [Next]_vars, Progress
  PROVE  TypeOK'
<1> USE DEF TypeOK
<1>1. CASE ReadInputs
  BY <1>1 DEF ReadInputs, PcLabels, BeforeRollback, input
<1>2. CASE PreflightDecision
  <2>0. at \in 1 .. Len(plan) /\ plan[at] \in Decisions
    BY <1>2, ElementOfSeq, LenProperties DEF PreflightDecision
  <2>1. plan[at].path \in Paths
    BY <2>0 DEF Decisions
  <2>2. CASE NotSelected \/ Prepared
    <3>1. PICK r \in Results : results' = Append(results, r)
      <4>1. CASE NotSelected
        <5>1. Result("not_selected", {}) \in Results
          BY ResultType DEF Statuses
        <5> QED BY <4>1, <5>1 DEF NotSelected
      <4>2. CASE Prepared
        <5> DEFINE ps == CreatePaths(plan[at].path)
                   r == Result(IF ps = {} THEN "already_satisfied" ELSE "planned", ps)
        <5>1. ps \in SUBSET Paths
          BY <2>1, ResultType
        <5>2. r \in Results
          BY <5>1, ResultType DEF Statuses
        <5> QED BY <4>2, <5>2, Zenon DEF Prepared
      <4> QED BY <2>2, <4>1, <4>2
    <3>2. results' \in Seq(Results)
      BY <3>1, AppendProperties
    <3> QED BY <1>2, <2>2, <3>2 DEF PreflightDecision, NotSelected, Prepared, input
  <2>3. CASE Rejected
    <3>1. Reverse(<<>>) \in Seq(Paths)
      BY ReverseFacts, EmptySeq
    <3> QED BY <1>2, <2>3, <3>1, EmptySeq DEF PreflightDecision, Rejected, Raise, PcLabels, input
  <2> QED BY <1>2, <2>2, <2>3 DEF PreflightDecision
<1>3. CASE PreflightDone
  BY <1>3 DEF PreflightDone, PcLabels, BeforeRollback, input
<1>4. CASE SkipDecision
  BY <1>4 DEF SkipDecision, Applying, input
<1>5. CASE StartDecision
  <2>1. results[at].paths \in SUBSET Paths
    BY <1>5, ResultType, LenProperties DEF StartDecision, Applying
  <2> QED BY <1>5, <2>1 DEF StartDecision, Applying, PcLabels, BeforeRollback, input
<1>6. CASE MakeDirectory
  <2>1. PICK p \in todo : Making(p) /\ Mkdir(p) /\ created' = Append(created, p) /\ todo' = todo \ {p}
    BY <1>6 DEF MakeDirectory
  <2>2. created' \in Seq(Paths)
    BY <2>1, AppendProperties
  <2>3. fs' \in [Paths -> Kinds] /\ made' \in SUBSET Paths
    BY <2>1 DEF Mkdir, Kinds
  <2> QED BY <1>6, <2>1, <2>2, <2>3 DEF MakeDirectory, input
<1>7. CASE MakeExists
  BY <1>7 DEF MakeExists, input
<1>8. CASE MakeObstructed \/ MakeFails \/ SaveFails
  <2>1. left' \in Seq(Paths) /\ pc' = "rollback"
    BY <1>8, ReverseFacts DEF MakeObstructed, MakeFails, SaveFails, Raise
  <2>2. outcome' = outcome /\ pc # "done"
    BY <1>8 DEF MakeObstructed, MakeFails, SaveFails, Making
  <2>3. UNCHANGED <<fs, original, plan, dryRun, at, todo, results, applied, created, errors, foreign, made>>
    BY <1>8 DEF MakeObstructed, MakeFails, SaveFails, input
  <2> QED BY <2>1, <2>2, <2>3 DEF PcLabels
<1>9. CASE ChmodFails
  <2>1. left' \in Seq(Paths) /\ pc' = "rollback"
    BY <1>9, ReverseFacts DEF ChmodFails, Raise
  <2>2. PICK p \in todo : Making(p) /\ Mkdir(p)
    BY <1>9 DEF ChmodFails
  <2>3. fs' \in [Paths -> Kinds] /\ made' \in SUBSET Paths
    BY <2>2 DEF Mkdir, Kinds
  <2> QED BY <1>9, <2>1, <2>2, <2>3 DEF ChmodFails, Making, PcLabels, input
<1>10. CASE FinishDecision
  <2> DEFINE ps == results[at].paths \cap Range(created)
             r == Result(IF ps = {} THEN "already_satisfied" ELSE "applied", ps)
  <2>1. at \in 1 .. Len(results)
    BY <1>10, LenProperties DEF FinishDecision, Progress
  <2>2. results[at].paths \in SUBSET Paths
    BY <2>1, ResultType
  <2>3. r \in Results
    BY <2>2, ResultType DEF Statuses
  <2>4. applied' = [applied EXCEPT ![at] = r]
    BY <1>10 DEF FinishDecision
  <2>5. applied' \in Seq(Results)
    <3> HIDE DEF r
    <3>1. CASE at \in 1 .. Len(applied)
      BY <2>3, <2>4, <3>1, ExceptSeq
    <3>2. CASE at \notin 1 .. Len(applied)
      <4>1. applied \in [1 .. Len(applied) -> Results]
        BY LenProperties
      <4>2. applied' = applied
        BY <2>4, <3>2, <4>1
      <4> QED BY <4>2
    <3> QED BY <3>1, <3>2
  <2> QED BY <1>10, <2>5 DEF FinishDecision, PcLabels, BeforeRollback, input
<1>11. CASE ApplicationDone
  BY <1>11 DEF ApplicationDone, PcLabels, BeforeRollback, input
<1>12. CASE SaveReport \/ SaveFailedReport \/ SaveFailedReportFails
  BY <1>12 DEF SaveReport, SaveFailedReport, SaveFailedReportFails, PcLabels, input
<1>13. CASE RemoveDirectory \/ RemoveFails
  <2>1. left # <<>> /\ left' = Tail(left) /\ pc' = pc /\ outcome' = outcome
    BY <1>13 DEF RemoveDirectory, RemoveFails, RollingBack
  <2>2. left' \in Seq(Paths)
    BY <2>1, HeadTailProperties
  <2>3. fs' \in [Paths -> Kinds]
    BY <1>13 DEF RemoveDirectory, RemoveFails, Kinds
  <2>4. errors' \in BOOLEAN
    BY <1>13 DEF RemoveDirectory, RemoveFails
  <2>5. UNCHANGED <<original, plan, dryRun, at, todo, results, applied, created, foreign, made>>
    BY <1>13 DEF RemoveDirectory, RemoveFails, input
  <2> QED BY <2>1, <2>2, <2>3, <2>4, <2>5
<1>14. CASE RollbackDone
  BY <1>14 DEF RollbackDone, PcLabels, input
<1>15. CASE ForeignCreate
  <2>1. PICK p \in Paths, kind \in Kinds \ {"absent"} :
          fs' = [fs EXCEPT ![p] = kind] /\ foreign' = foreign \cup {p}
    BY <1>15 DEF ForeignCreate
  <2> QED BY <1>15, <2>1 DEF ForeignCreate, input
<1>16. CASE UNCHANGED vars
  BY <1>16 DEF vars
<1> QED
  BY <1>1, <1>2, <1>3, <1>4, <1>5, <1>6, <1>7, <1>8, <1>9, <1>10, <1>11, <1>12, <1>13,
     <1>14, <1>15, <1>16
  DEF Next

-----------------------------------------------------------------------------
(* Ownership                                                               *)

\* A path that is free before the rollback was free at first; nobody made it.
LEMMA FreePath ==
  ASSUME TypeOK, Ownership, pc \in BeforeRollback, NEW p \in Paths, ~Present(p)
  PROVE  original[p] = "absent" /\ p \notin foreign /\ ~Listed(created, p)
<1>1. p \notin foreign
  BY DEF Ownership, ForeignStays
<1>2. ~Listed(created, p)
  BY DEF Ownership, OwnIsListed, OwnList, Listed, Present
<1>3. Kept(p)
  BY <1>2 DEF Ownership, OwnIsListed
<1> QED BY <1>1, <1>2, <1>3 DEF Kept, Present

\* A step before the rollback that touches neither the tree nor the list.
LEMMA QuietStep ==
  ASSUME Ownership, pc \in BeforeRollback, pc' \in BeforeRollback, ~Failed',
         pc' \in {"read", "preflight"} => pc \in {"read", "preflight"},
         UNCHANGED <<fs, original, foreign, made, created>>
  PROVE  Ownership'
<1>1. ForeignStays' /\ NothingYet'
  BY DEF Ownership, ForeignStays, NothingYet, Present
<1>2. OwnIsListed'
  BY DEF Ownership, OwnIsListed, OwnList, Listed, Kept
<1>3. RollbackIsExact' /\ RolledBack'
  BY DEF RollbackIsExact, RolledBack, BeforeRollback
<1> QED BY <1>1, <1>2, <1>3 DEF Ownership

\* An error begins the rollback of what was made.
LEMMA RaiseStep ==
  ASSUME TypeOK, Ownership, pc \in BeforeRollback, ~Failed',
         Raise(created),
         UNCHANGED <<fs, original, foreign, made, todo>>
  PROVE  Ownership'
<1>1. ForeignStays' /\ NothingYet' /\ OwnIsListed' /\ RolledBack'
  BY
  DEF Ownership, ForeignStays, Present, NothingYet, OwnIsListed, RolledBack, Raise,
      BeforeRollback
<1>2. created \in Seq(Paths) /\ OwnList(created) /\ left' = Reverse(created)
  BY DEF TypeOK, Ownership, OwnIsListed, Raise
<1>3. OwnList(left)'
  <2>1. OwnList(Reverse(created))
    BY <1>2, ReverseOwns
  <2> QED BY <1>2, <2>1, Zenon DEF OwnList
<1>4. \A p \in Paths : (Kept(p) \/ Listed(left, p))'
  <2> TAKE p \in Paths
  <2>1. Kept(p) \/ Listed(created, p)
    BY DEF Ownership, OwnIsListed
  <2>2. Kept(p) => Kept(p)'
    BY DEF Kept
  <2>3. Listed(created, p) => Listed(Reverse(created), p)
    BY <1>2, ReverseLists
  <2>4. Listed(Reverse(created), p) => Listed(left, p)'
    BY <1>2, Zenon DEF Listed
  <2> QED BY <2>1, <2>2, <2>3, <2>4
<1>5. RollbackIsExact'
  BY <1>3, <1>4 DEF RollbackIsExact
<1> QED BY <1>1, <1>5 DEF Ownership

\* mkdir and the append to created_paths.
LEMMA MakeDirectoryStep ==
  ASSUME TypeOK, Ownership, MakeDirectory
  PROVE  Ownership'
<1>1. PICK p \in todo :
        /\ Making(p) /\ ~Present(p)
        /\ Mkdir(p) /\ created' = Append(created, p)
  BY DEF MakeDirectory
<1>2. p \in Paths /\ pc = "make" /\ pc' = pc /\ UNCHANGED <<original, foreign, outcome>>
  BY <1>1 DEF MakeDirectory, Making, TypeOK, input
<1>3. original[p] = "absent" /\ p \notin foreign /\ ~Listed(created, p)
  BY <1>1, <1>2, FreePath DEF BeforeRollback
<1>4. /\ Len(created') = Len(created) + 1 /\ Len(created) \in Nat
      /\ \A i \in 1 .. Len(created) : created'[i] = created[i]
      /\ created'[Len(created) + 1] = p
  BY <1>1, <1>2, AppendProperties, LenProperties DEF TypeOK
<1>5. \A i \in 1 .. Len(created) : created[i] \in Paths /\ created[i] # p
  BY <1>3, ElementOfSeq DEF TypeOK, Listed
<1>6. \A q \in Paths : q # p => fs'[q] = fs[q]
  BY <1>1 DEF Mkdir, TypeOK
<1>7. fs'[p] = "dir" /\ made' = made \cup {p}
  BY <1>1, <1>2 DEF Mkdir, TypeOK
<1>8. OwnList(created)
  BY <1>2 DEF Ownership, OwnIsListed, BeforeRollback
<1>9. OwnList(created)'
  <2>1. ASSUME NEW i \in 1 .. Len(created')
        PROVE  /\ created'[i] \in made' /\ created'[i] \notin foreign'
               /\ fs'[created'[i]] = "dir" /\ original'[created'[i]] = "absent"
    <3>1. CASE i \in 1 .. Len(created)
      BY <3>1, <1>2, <1>4, <1>5, <1>6, <1>7, <1>8 DEF OwnList
    <3>2. CASE i = Len(created) + 1
      BY <3>2, <1>2, <1>3, <1>4, <1>7
    <3> QED BY <1>4, <3>1, <3>2
  <2>2. ASSUME NEW i \in 1 .. Len(created'), NEW j \in 1 .. Len(created'), created'[i] = created'[j]
        PROVE  i = j
    <3>1. CASE i \in 1 .. Len(created) /\ j \in 1 .. Len(created)
      BY <2>2, <3>1, <1>4, <1>8 DEF OwnList
    <3>2. CASE i = Len(created) + 1 \/ j = Len(created) + 1
      BY <2>2, <3>2, <1>4, <1>5
    <3> QED BY <1>4, <3>1, <3>2
  <2> QED BY <2>1, <2>2 DEF OwnList
<1>10. \A q \in Paths : (Kept(q) \/ Listed(created, q))'
  <2> TAKE q \in Paths
  <2>1. CASE q = p
    BY <2>1, <1>4 DEF Listed
  <2>2. CASE q # p /\ Kept(q)
    BY <2>2, <1>2, <1>6 DEF Kept
  <2>3. CASE q # p /\ Listed(created, q)
    BY <2>3, <1>4 DEF Listed
  <2> QED BY <1>2, <2>1, <2>2, <2>3 DEF Ownership, OwnIsListed, BeforeRollback
<1>11. ForeignStays'
  BY <1>2, <1>3, <1>6 DEF Ownership, ForeignStays, Present, TypeOK
<1>12. NothingYet' /\ RollbackIsExact' /\ RolledBack'
  BY <1>2 DEF NothingYet, RollbackIsExact, RolledBack, Failed, TypeOK
<1> QED BY <1>9, <1>10, <1>11, <1>12 DEF Ownership, OwnIsListed

\* The chmod after the mkdir fails: the new directory is the one in hand.
LEMMA ChmodFailsStep ==
  ASSUME TypeOK, Ownership, ChmodFails
  PROVE  Ownership'
<1>1. PICK p \in todo : Making(p) /\ ~Present(p) /\ Mkdir(p)
  BY DEF ChmodFails
<1>2. /\ p \in Paths /\ pc = "make" /\ pc' = "rollback" /\ left' = Reverse(created)
      /\ UNCHANGED <<original, foreign, outcome, todo>> /\ outcome = "none"
  BY <1>1 DEF ChmodFails, Making, TypeOK, Raise, input
<1>3. original[p] = "absent" /\ p \notin foreign /\ ~Listed(created, p)
  BY <1>1, <1>2, FreePath DEF BeforeRollback
<1>4. \A q \in Paths : q # p => fs'[q] = fs[q]
  BY <1>1 DEF Mkdir, TypeOK
<1>5. made' = made \cup {p}
  BY <1>1 DEF Mkdir
<1>6. created \in Seq(Paths) /\ OwnList(created) /\ OwnList(Reverse(created))
  BY <1>2, ReverseOwns DEF TypeOK, Ownership, OwnIsListed, BeforeRollback
<1>7. \A i \in 1 .. Len(left') : left'[i] \in Paths /\ left'[i] # p
  <2>1. ~Listed(Reverse(created), p)
    BY <1>3, <1>6, ReverseLists
  <2>2. left' \in Seq(Paths)
    BY <1>2, <1>6, ReverseFacts
  <2>3. \A i \in 1 .. Len(left') : left'[i] \in Paths
    BY <2>2, ElementOfSeq
  <2>4. \A i \in 1 .. Len(left') : left'[i] # p
    BY <1>2, <2>1, Zenon DEF Listed
  <2> QED BY <2>3, <2>4
<1>8. OwnList(left)'
  <2>1. /\ \A i \in 1 .. Len(left') :
             /\ left'[i] \in made /\ left'[i] \notin foreign
             /\ fs[left'[i]] = "dir" /\ original[left'[i]] = "absent"
        /\ \A i, j \in 1 .. Len(left') : left'[i] = left'[j] => i = j
    BY <1>2, <1>6, Zenon DEF OwnList
  <2> QED BY <2>1, <1>2, <1>4, <1>5, <1>7 DEF OwnList
<1>9. \A q \in Paths : (Kept(q) \/ InHand(q) \/ Listed(left, q))'
  <2> TAKE q \in Paths
  <2>1. CASE q = p
    <3>1. InHand(p)'
      BY <1>1, <1>2 DEF Making, InHand
    <3> QED BY <2>1, <3>1
  <2>2. CASE q # p /\ Kept(q)
    BY <2>2, <1>2, <1>4 DEF Kept
  <2>3. CASE Listed(created, q)
    <3>1. Listed(Reverse(created), q)
      BY <2>3, <1>6, ReverseLists
    <3>2. Listed(left, q)'
      BY <1>2, <3>1, Zenon DEF Listed
    <3> QED BY <3>2
  <2> QED BY <1>2, <2>1, <2>2, <2>3 DEF Ownership, OwnIsListed, BeforeRollback
<1>10. ForeignStays'
  BY <1>2, <1>3, <1>4 DEF Ownership, ForeignStays, Present, TypeOK
<1>11. NothingYet' /\ OwnIsListed' /\ RolledBack'
  BY <1>2 DEF NothingYet, OwnIsListed, RolledBack, Failed, BeforeRollback
<1>12. RollbackIsExact'
  BY <1>8, <1>9 DEF RollbackIsExact
<1> QED BY <1>10, <1>11, <1>12 DEF Ownership

\* rmdir takes away the last own directory, or leaves it with an error.
LEMMA RemoveStep ==
  ASSUME TypeOK, Ownership, RemoveDirectory \/ RemoveFails
  PROVE  Ownership'
<1>1. /\ pc = "rollback" /\ pc' = pc /\ left # <<>> /\ left' = Tail(left)
      /\ UNCHANGED <<original, foreign, made, todo, outcome>> /\ outcome = "none"
  BY DEF RemoveDirectory, RemoveFails, RollingBack, TypeOK, input
<1>2. left \in Seq(Paths) /\ OwnList(left)
  BY <1>1 DEF TypeOK, Ownership, RollbackIsExact
<1>3. /\ Len(left) \in Nat /\ Len(left) > 0 /\ Len(left') = Len(left) - 1
      /\ \A i \in 1 .. Len(left') : left'[i] = left[i + 1]
      /\ Head(left) = left[1]
  BY <1>1, <1>2, HeadTailProperties, LenProperties, EmptySeq
<1>4. \A i \in 1 .. Len(left') : i + 1 \in 1 .. Len(left) /\ i + 1 # 1
  BY <1>3
<1>5. \A i \in 1 .. Len(left) : left[i] \in Paths
  BY <1>2, ElementOfSeq
<1>6. \A i \in 1 .. Len(left') : left'[i] \in Paths /\ left'[i] # Head(left)
  <2> TAKE i \in 1 .. Len(left')
  <2>1. i + 1 \in 1 .. Len(left) /\ i + 1 # 1 /\ 1 \in 1 .. Len(left)
    BY <1>3, <1>4
  <2>2. left[i + 1] # left[1]
    BY <1>2, <2>1, Zenon DEF OwnList
  <2> QED BY <1>3, <1>5, <2>1, <2>2
<1>7. \A q \in Paths : q # Head(left) => fs'[q] = fs[q]
  BY DEF RemoveDirectory, RemoveFails, TypeOK
<1>8. OwnList(left)'
  <2>1. ASSUME NEW i \in 1 .. Len(left')
        PROVE  /\ left'[i] \in made /\ left'[i] \notin foreign
               /\ fs[left'[i]] = "dir" /\ original[left'[i]] = "absent"
    <3>1. i + 1 \in 1 .. Len(left) /\ left'[i] = left[i + 1]
      BY <1>3, <1>4
    <3> QED BY <1>2, <3>1, Zenon DEF OwnList
  <2>2. ASSUME NEW i \in 1 .. Len(left'), NEW j \in 1 .. Len(left'), left'[i] = left'[j]
        PROVE  i = j
    <3>1. /\ i + 1 \in 1 .. Len(left) /\ j + 1 \in 1 .. Len(left)
          /\ left[i + 1] = left[j + 1]
      BY <1>3, <1>4, <2>2
    <3>2. i + 1 = j + 1
      BY <1>2, <3>1, Zenon DEF OwnList
    <3> QED BY <3>2, <1>3
  <2> QED BY <2>1, <2>2, <1>1, <1>6, <1>7 DEF OwnList
<1>9. Head(left) \in Paths /\ Head(left) \notin foreign /\ original[Head(left)] = "absent"
  <2>1. 1 \in 1 .. Len(left)
    BY <1>3
  <2>2. left[1] \notin foreign /\ original[left[1]] = "absent"
    BY <1>2, <2>1, Zenon DEF OwnList
  <2> QED BY <1>3, <1>5, <2>1, <2>2
<1>10. ForeignStays'
  BY <1>1, <1>7, <1>9 DEF Ownership, ForeignStays, Present, TypeOK
<1>11. ASSUME ~errors', NEW q \in Paths PROVE (Kept(q) \/ InHand(q) \/ Listed(left, q))'
  <2>1. RemoveDirectory /\ ~errors
    BY <1>11 DEF RemoveDirectory, RemoveFails
  <2>2. CASE q = Head(left)
    <3>1. fs'[q] = "absent"
      BY <2>1, <2>2, <1>9 DEF RemoveDirectory, TypeOK
    <3> QED BY <3>1, <2>2, <1>1, <1>9 DEF Kept
  <2>3. CASE q # Head(left) /\ (Kept(q) \/ InHand(q))
    BY <2>3, <1>1, <1>7 DEF Kept, InHand
  <2>4. CASE q # Head(left) /\ Listed(left, q)
    <3>1. PICK i \in 1 .. Len(left) : left[i] = q
      BY <2>4 DEF Listed
    <3>2. i - 1 \in 1 .. Len(left') /\ (i - 1) + 1 = i
      BY <3>1, <2>4, <1>3
    <3>3. left'[i - 1] = q
      BY <1>3, <3>1, <3>2
    <3> QED BY <3>2, <3>3 DEF Listed
  <2> QED BY <1>1, <2>1, <2>2, <2>3, <2>4 DEF Ownership, RollbackIsExact
<1>12. NothingYet' /\ OwnIsListed' /\ RolledBack'
  BY <1>1 DEF NothingYet, OwnIsListed, RolledBack, Failed, BeforeRollback
<1>13. RollbackIsExact'
  BY <1>8, <1>11 DEF RollbackIsExact
<1> QED BY <1>10, <1>12, <1>13 DEF Ownership

\* Another process makes an entry where there was none.
LEMMA ForeignStep ==
  ASSUME TypeOK, Ownership, ForeignCreate
  PROVE  Ownership'
<1>1. PICK p \in Paths, kind \in Kinds \ {"absent"} :
        ~Present(p) /\ fs' = [fs EXCEPT ![p] = kind] /\ foreign' = foreign \cup {p}
  BY DEF ForeignCreate
<1>2. UNCHANGED <<pc, original, made, created, left, todo, errors, outcome>>
  BY DEF ForeignCreate, input
<1>3. fs'[p] # "absent" /\ \A q \in Paths : q # p => fs'[q] = fs[q]
  BY <1>1 DEF TypeOK
<1>4. \A q \in Paths : Kept(q) => Kept(q)'
  BY <1>1, <1>2, <1>3 DEF Kept
<1>5. ASSUME OwnList(created) PROVE OwnList(created)'
  <2>1. \A i \in 1 .. Len(created) : created[i] \in Paths /\ created[i] # p
    BY <1>1, <1>5, ElementOfSeq DEF TypeOK, OwnList, Present
  <2> QED BY <1>1, <1>2, <1>3, <1>5, <2>1 DEF OwnList
<1>6. ASSUME OwnList(left) PROVE OwnList(left)'
  <2>1. \A i \in 1 .. Len(left) : left[i] \in Paths /\ left[i] # p
    BY <1>1, <1>6, ElementOfSeq DEF TypeOK, OwnList, Present
  <2> QED BY <1>1, <1>2, <1>3, <1>6, <2>1 DEF OwnList
<1>7. \A q : /\ Listed(created, q) => Listed(created, q)'
             /\ Listed(left, q) => Listed(left, q)'
             /\ InHand(q) => InHand(q)'
  BY <1>2 DEF Listed, InHand
<1>8. ForeignStays' /\ NothingYet'
  BY <1>1, <1>2, <1>3 DEF Ownership, ForeignStays, NothingYet, Present, TypeOK
<1>9. OwnIsListed'
  BY <1>2, <1>4, <1>5, <1>7 DEF Ownership, OwnIsListed
<1>10. RollbackIsExact' /\ RolledBack'
  BY <1>2, <1>4, <1>6, <1>7 DEF Ownership, RollbackIsExact, RolledBack, Failed
<1> QED BY <1>8, <1>9, <1>10 DEF Ownership

\* Every action keeps the account of who made what.
LEMMA OwnershipNext ==
  ASSUME TypeOK, Ownership, [Next]_vars
  PROVE  Ownership'
<1>1. CASE ReadInputs
  <2>1. CASE pc' = "preflight"
    BY <1>1, <2>1, QuietStep DEF ReadInputs, BeforeRollback, Failed, TypeOK, input
  <2>2. CASE pc' = "done" /\ outcome' = "refused"
    BY <1>1, <2>2
    DEF ReadInputs, BeforeRollback, Failed, input, Ownership, ForeignStays, Present,
       NothingYet, OwnIsListed, RollbackIsExact, RolledBack
  <2> QED BY <1>1, <2>1, <2>2 DEF ReadInputs
<1>2. CASE PreflightDecision
  <2>1. CASE Rejected
    <3>1. created = <<>> /\ Raise(created)
      BY <1>2, <2>1 DEF PreflightDecision, Rejected, Ownership, NothingYet
    <3> QED BY <1>2, <3>1, RaiseStep DEF PreflightDecision, BeforeRollback, Failed, TypeOK, input
  <2>2. CASE NotSelected \/ Prepared
    <3>1. pc' = pc
      BY <2>2 DEF NotSelected, Prepared
    <3> QED BY <1>2, <3>1, QuietStep DEF PreflightDecision, BeforeRollback, Failed, TypeOK, input
  <2> QED BY <1>2, <2>1, <2>2 DEF PreflightDecision
<1>3. CASE PreflightDone
  BY <1>3, QuietStep DEF PreflightDone, BeforeRollback, Failed, TypeOK, input
<1>4. CASE SkipDecision \/ StartDecision
  BY <1>4, QuietStep
  DEF SkipDecision, StartDecision, Applying, BeforeRollback, Failed, TypeOK, input
<1>5. CASE MakeExists \/ FinishDecision \/ ApplicationDone
  <2>1. pc \in {"make", "apply"} /\ pc' \in {"make", "apply", "save"}
    BY <1>5 DEF MakeExists, Making, FinishDecision, ApplicationDone
  <2>2. UNCHANGED <<fs, original, foreign, made, created, outcome>>
    BY <1>5 DEF MakeExists, FinishDecision, ApplicationDone, input
  <2> QED BY <2>1, <2>2, QuietStep DEF BeforeRollback, Failed, TypeOK
<1>6. CASE MakeDirectory
  BY <1>6, MakeDirectoryStep
<1>7. CASE MakeObstructed \/ MakeFails \/ SaveFails
  <2>1. pc \in {"make", "save"} /\ Raise(created)
    BY <1>7 DEF MakeObstructed, MakeFails, SaveFails, Making
  <2>2. UNCHANGED <<fs, original, foreign, made, todo, outcome>>
    BY <1>7 DEF MakeObstructed, MakeFails, SaveFails, input
  <2> QED BY <2>1, <2>2, RaiseStep DEF BeforeRollback, Failed, TypeOK
<1>8. CASE ChmodFails
  BY <1>8, ChmodFailsStep
<1>9. CASE SaveReport
  BY <1>9
  DEF SaveReport, BeforeRollback, Failed, input, Ownership, ForeignStays, Present,
     NothingYet, OwnIsListed, RollbackIsExact, RolledBack
<1>10. CASE SaveFailedReport \/ SaveFailedReportFails \/ RollbackDone
  <2>1. /\ UNCHANGED <<fs, original, foreign, made, todo, errors>>
        /\ pc' \in {"done", "save_failed"}
    BY <1>10 DEF SaveFailedReport, SaveFailedReportFails, RollbackDone, input
  <2>2. ~errors => \A p \in Paths : Kept(p) \/ InHand(p)
    <3>1. CASE pc = "save_failed"
      BY <3>1 DEF Ownership, RolledBack
    <3>2. CASE pc = "rollback" /\ left = <<>>
      <4>1. \A p : ~Listed(left, p)
        BY <3>2 DEF Listed
      <4> QED BY <3>2, <4>1 DEF Ownership, RollbackIsExact
    <3> QED BY <1>10, <3>1, <3>2 DEF SaveFailedReport, SaveFailedReportFails, RollbackDone
  <2>3. RolledBack'
    BY <2>1, <2>2 DEF RolledBack, Kept, InHand
  <2>4. ForeignStays' /\ NothingYet' /\ OwnIsListed' /\ RollbackIsExact'
    BY <2>1
    DEF Ownership, ForeignStays, Present, NothingYet, OwnIsListed, RollbackIsExact,
        BeforeRollback
  <2> QED BY <2>3, <2>4 DEF Ownership
<1>11. CASE RemoveDirectory \/ RemoveFails
  BY <1>11, RemoveStep
<1>12. CASE ForeignCreate
  BY <1>12, ForeignStep
<1>13. CASE UNCHANGED vars
  BY <1>13
  DEF vars, Ownership, ForeignStays, Present, NothingYet, OwnIsListed, OwnList, Listed,
      Kept,
     RollbackIsExact, RolledBack, InHand, Failed
<1> QED
  BY <1>1, <1>2, <1>3, <1>4, <1>5, <1>6, <1>7, <1>8, <1>9, <1>10, <1>11, <1>12, <1>13
  DEF Next

-----------------------------------------------------------------------------
(* Progress                                                                *)

\* Only the rollback takes a directory away.
LEMMA DirectoryStays ==
  ASSUME TypeOK, [Next]_vars, pc # "rollback", NEW q \in Paths, fs[q] = "dir"
  PROVE  fs'[q] = "dir"
<1>1. CASE UNCHANGED fs
  BY <1>1
<1>2. CASE MakeDirectory \/ ChmodFails
  <2>1. PICK p \in todo : Mkdir(p)
    BY <1>2 DEF MakeDirectory, ChmodFails
  <2> QED BY <2>1 DEF Mkdir, TypeOK
<1>3. CASE ForeignCreate
  <2>1. PICK p \in Paths, kind \in Kinds \ {"absent"} : ~Present(p) /\ fs' = [fs EXCEPT ![p] = kind]
    BY <1>3 DEF ForeignCreate
  <2> QED BY <2>1 DEF Present, TypeOK
<1> QED
  BY <1>1, <1>2, <1>3
  DEF Next, vars, ReadInputs, PreflightDecision, PreflightDone, SkipDecision,
     StartDecision, MakeExists, MakeObstructed, MakeFails, FinishDecision, ApplicationDone, SaveReport,
     SaveFails, SaveFailedReport, SaveFailedReportFails, RemoveDirectory, RemoveFails, RollingBack,
     RollbackDone

\* The paths that the plan and the results speak of.
LEMMA PathTypes ==
  ASSUME TypeOK
  PROVE  /\ \A k \in 1 .. Len(plan) : plan[k].path \in Paths
         /\ \A j \in 1 .. Len(results) : results[j].paths \subseteq Paths
         /\ Len(plan) \in Nat /\ Len(results) \in Nat /\ Len(applied) \in Nat
<1>1. \A k \in 1 .. Len(plan) : plan[k] \in Decisions
  BY ElementOfSeq DEF TypeOK
<1> QED BY <1>1, ResultType, LenProperties DEF TypeOK, Decisions

\* While the results stay, what they promise stays.
LEMMA PromisesStay ==
  ASSUME TypeOK, [Next]_vars, pc # "rollback", UNCHANGED <<plan, results>>
  PROVE  /\ \A k \in 1 .. Len(plan) : Covered(k) => Covered(k)'
         /\ \A j \in 1 .. Len(results) : IsMade(j) => IsMade(j)'
         /\ PlanIsSatisfied => PlanIsSatisfied'
<1>1. \A q \in Paths : fs[q] = "dir" => fs'[q] = "dir"
  BY DirectoryStays
<1> QED BY <1>1, PathTypes DEF Covered, IsMade, PlanIsSatisfied

\* A decision is accepted only when its directory is there or can be made.
LEMMA PreparedCovers ==
  ASSUME TypeOK, NEW p \in Paths, ~Blocked(p)
  PROVE  fs[p] = "dir" \/ p \in VirtuallyCreated \/ p \in CreatePaths(p)
<1>1. p \in AlongPath(p)
  BY OnItsWay
<1> QED BY <1>1 DEF Blocked, CreatePaths, Present, TypeOK, Kinds

\* The preflight of one decision.
LEMMA PreflightStep ==
  ASSUME TypeOK, Progress, TypeOK', PreflightDecision, NotSelected \/ Prepared
  PROVE  Progress'
<1>1. /\ pc = "preflight" /\ pc' = pc /\ at \in 1 .. Len(plan) /\ at' = at + 1
      /\ UNCHANGED <<fs, plan, dryRun, outcome>> /\ outcome = "none"
  BY PathTypes DEF PreflightDecision, NotSelected, Prepared, TypeOK, input
<1>2. PICK r \in Results :
        /\ results' = Append(results, r)
        /\ r.paths # {} => r.status = "planned"
        /\ plan[at].auto => \/ fs[plan[at].path] = "dir"
                           \/ plan[at].path \in VirtuallyCreated
                           \/ plan[at].path \in r.paths
  <2>1. CASE NotSelected
    <3> DEFINE r == Result("not_selected", {})
    <3>1. r \in Results /\ r.paths = {}
      BY ResultType DEF Statuses, Result
    <3>2. results' = Append(results, r) /\ ~plan[at].auto
      BY <2>1 DEF NotSelected
    <3> HIDE DEF r
    <3> QED BY <3>1, <3>2
  <2>2. CASE Prepared
    <3> DEFINE ps == CreatePaths(plan[at].path)
               r == Result(IF ps = {} THEN "already_satisfied" ELSE "planned", ps)
    <3>0. plan[at].path \in Paths
      BY <1>1, PathTypes
    <3>1. ps \in SUBSET Paths
      BY <3>0, ResultType
    <3>2. r \in Results /\ r.paths = ps /\ (ps # {} => r.status = "planned")
      BY <3>1, ResultType DEF Statuses, Result
    <3>3. results' = Append(results, r) /\ ~Blocked(plan[at].path)
      BY <2>2 DEF Prepared, Accepted
    <3>4. fs[plan[at].path] = "dir" \/ plan[at].path \in VirtuallyCreated \/ plan[at].path \in ps
      BY <3>0, <3>3, PreparedCovers
    <3> HIDE DEF r, ps
    <3> QED BY <3>2, <3>3, <3>4
  <2> QED BY <2>1, <2>2
<1>3. /\ Len(results') = Len(results) + 1 /\ Len(results) \in Nat
      /\ \A j \in 1 .. Len(results) : results'[j] = results[j]
      /\ results'[Len(results) + 1] = r
  BY <1>2, AppendProperties, LenProperties DEF TypeOK
<1>4. \A j \in 1 .. Len(results') : results'[j].paths # {} => results'[j].status = "planned"
  BY <1>1, <1>2, <1>3 DEF Progress
<1>5. \A k \in 1 .. at : Covered(k)'
  <2> TAKE k \in 1 .. at
  <2>1. CASE k \in 1 .. at - 1
    <3>1. Covered(k)
      BY <1>1, <2>1 DEF Progress
    <3> QED BY <1>1, <1>3, <3>1 DEF Covered
  <2>2. CASE k = at /\ plan[at].path \in VirtuallyCreated
    <3>1. PICK j \in 1 .. Len(results) : plan[at].path \in results[j].paths
      BY <2>2 DEF VirtuallyCreated
    <3>2. j \in 1 .. Len(results') /\ plan'[k].path \in results'[j].paths
      BY <1>1, <1>3, <2>2, <3>1
    <3> QED BY <3>2 DEF Covered
  <2>3. CASE k = at /\ (plan[at].auto => fs[plan[at].path] = "dir" \/ plan[at].path \in r.paths)
    <3>1. Len(results) + 1 \in 1 .. Len(results')
      BY <1>3
    <3> QED BY <1>1, <1>3, <2>3, <3>1 DEF Covered
  <2> QED BY <1>1, <1>2, <2>1, <2>2, <2>3
<1> QED BY <1>1, <1>4, <1>5, PathTypes DEF Progress, TypeOK

\* Every action keeps the plan on its way.
LEMMA ProgressNext ==
  ASSUME TypeOK, TypeOK', Progress, [Next]_vars
  PROVE  Progress'
<1> USE PathTypes
<1>1. CASE ReadInputs
  BY <1>1 DEF ReadInputs, Progress, TypeOK, input
<1>2. CASE PreflightDecision
  <2>1. CASE NotSelected \/ Prepared
    BY <1>2, <2>1, PreflightStep
  <2>2. CASE Rejected
    BY <1>2, <2>2 DEF PreflightDecision, Rejected, Raise, Progress, TypeOK
  <2> QED BY <1>2, <2>1, <2>2 DEF PreflightDecision
<1>3. CASE PreflightDone
  <2>1. /\ pc = "preflight" /\ at > Len(plan) /\ UNCHANGED <<fs, plan, dryRun, results, outcome>>
        /\ IF dryRun THEN pc' = "save" ELSE pc' = "apply" /\ at' = 1
    BY <1>3 DEF PreflightDone, input
  <2>2. \A k \in 1 .. Len(plan) : Covered(k)'
    <3>1. \A k \in 1 .. Len(plan) : k \in 1 .. at - 1
      BY <2>1 DEF TypeOK
    <3>2. \A k \in 1 .. Len(plan) : Covered(k)
      BY <2>1, <3>1 DEF Progress
    <3> QED BY <2>1, <3>2 DEF Covered
  <2>3. \A j \in 1 .. Len(results') : results'[j].paths # {} => results'[j].status = "planned"
    BY <2>1 DEF Progress
  <2>4. outcome' = "none" /\ plan' = plan /\ Len(results') \in Nat
    BY <2>1 DEF TypeOK
  <2>5. CASE dryRun
    BY <2>1, <2>3, <2>4, <2>5 DEF Progress
  <2>6. CASE ~dryRun
    BY <2>1, <2>2, <2>3, <2>4, <2>6 DEF Progress
  <2> QED BY <2>5, <2>6
<1>4. CASE SkipDecision
  <2>1. /\ pc = "apply" /\ pc' = pc /\ at \in 1 .. Len(results) /\ at' = at + 1
        /\ UNCHANGED <<fs, plan, dryRun, results, outcome>> /\ results[at].status # "planned"
    BY <1>4 DEF SkipDecision, Applying, Planned, TypeOK, input
  <2>2. \A j \in 1 .. at : IsMade(j)
    BY <2>1 DEF Progress, IsMade
  <2>3. /\ \A k \in 1 .. Len(plan) : Covered(k)'
        /\ \A j \in 1 .. at : IsMade(j)'
    BY <2>1, <2>2 DEF Progress, IsMade, Covered
  <2> QED BY <2>1, <2>3 DEF Progress, TypeOK
<1>5. CASE StartDecision
  <2>1. /\ pc = "apply" /\ pc' = "make" /\ at \in 1 .. Len(results) /\ todo' = results[at].paths
        /\ UNCHANGED <<fs, plan, dryRun, results, outcome, at>>
    BY <1>5 DEF StartDecision, Applying, TypeOK, input
  <2>2. /\ \A k \in 1 .. Len(plan) : Covered(k)'
        /\ \A j \in 1 .. at - 1 : IsMade(j)'
    BY <2>1 DEF Progress, IsMade, Covered
  <2> QED BY <2>1, <2>2 DEF Progress, TypeOK
<1>6. CASE MakeDirectory \/ MakeExists
  <2>1. PICK p \in todo : fs'[p] = "dir" /\ todo' = todo \ {p}
    BY <1>6 DEF MakeDirectory, MakeExists, Mkdir, TypeOK
  <2>2. pc = "make" /\ UNCHANGED <<pc, plan, dryRun, results, outcome, at>>
    BY <1>6 DEF MakeDirectory, MakeExists, Making, input
  <2>3. at \in 1 .. Len(results)
    BY <2>2 DEF Progress, TypeOK
  <2>4. /\ \A k \in 1 .. Len(plan) : Covered(k)'
        /\ \A j \in 1 .. at - 1 : IsMade(j)'
    BY <2>2, <2>3, PromisesStay DEF Progress
  <2>5. \A q \in results[at].paths : fs'[q] = "dir" \/ q \in todo'
    <3>1. \A q \in results[at].paths : q \in Paths /\ (fs[q] = "dir" \/ q \in todo)
      BY <2>2, <2>3 DEF Progress
    <3>2. \A q \in Paths : fs[q] = "dir" => fs'[q] = "dir"
      BY <2>2, DirectoryStays
    <3> QED BY <2>1, <3>1, <3>2
  <2>6. \A j \in 1 .. Len(results') : results'[j].paths # {} => results'[j].status = "planned"
    BY <2>2 DEF Progress
  <2>7. ~dryRun' /\ outcome' = "none"
    BY <2>2 DEF Progress, TypeOK
  <2> QED BY <2>2, <2>3, <2>4, <2>5, <2>6, <2>7 DEF Progress
<1>7. CASE MakeObstructed \/ MakeFails \/ SaveFails \/ ChmodFails
  <2>1. pc' = "rollback"
    BY <1>7 DEF MakeObstructed, MakeFails, SaveFails, ChmodFails, Raise
  <2> QED BY <2>1 DEF Progress, TypeOK
<1>8. CASE FinishDecision
  <2>1. /\ pc = "make" /\ pc' = "apply" /\ todo = {} /\ at' = at + 1
        /\ UNCHANGED <<fs, plan, dryRun, results, outcome>>
    BY <1>8 DEF FinishDecision, input
  <2>2. at \in 1 .. Len(results) /\ \A j \in 1 .. at : IsMade(j)
    BY <2>1 DEF Progress, IsMade, TypeOK
  <2>3. /\ \A k \in 1 .. Len(plan) : Covered(k)'
        /\ \A j \in 1 .. at : IsMade(j)'
    BY <2>1, <2>2 DEF Progress, IsMade, Covered
  <2> QED BY <2>1, <2>2, <2>3 DEF Progress, TypeOK
<1>9. CASE ApplicationDone
  <2>1. /\ pc = "apply" /\ pc' = "save" /\ at > Len(results)
        /\ UNCHANGED <<fs, plan, dryRun, outcome>>
    BY <1>9 DEF ApplicationDone, input
  <2>2. \A j \in 1 .. Len(results) : IsMade(j)
    BY <2>1 DEF Progress, TypeOK
  <2>3. PlanIsSatisfied
    BY <2>1, <2>2 DEF Progress, PlanIsSatisfied, Covered, IsMade
  <2>4. PlanIsSatisfied'
    BY <2>1, <2>3 DEF PlanIsSatisfied
  <2> QED BY <2>1, <2>4 DEF Progress, TypeOK
<1>10. CASE SaveReport
  BY <1>10 DEF SaveReport, Progress, PlanIsSatisfied, input
<1>11. CASE SaveFailedReport \/ SaveFailedReportFails \/ RemoveDirectory \/ RemoveFails \/ RollbackDone
  <2>1. pc' \in {"done", "save_failed", "rollback"} /\ outcome' # "returned"
    BY <1>11
    DEF SaveFailedReport, SaveFailedReportFails, RemoveDirectory, RemoveFails,
        RollingBack,
       RollbackDone, TypeOK
  <2> QED BY <2>1 DEF Progress
<1>12. CASE ForeignCreate
  <2>1. pc # "done" /\ UNCHANGED <<pc, plan, dryRun, results, outcome, at, todo>>
    BY <1>12 DEF ForeignCreate, input
  <2>2. CASE pc = "rollback"
    BY <2>1, <2>2 DEF Progress, TypeOK
  <2>3. CASE pc # "rollback"
    <3>1. /\ \A k \in 1 .. Len(plan) : Covered(k) => Covered(k)'
          /\ \A j \in 1 .. Len(results) : IsMade(j) => IsMade(j)'
          /\ PlanIsSatisfied => PlanIsSatisfied'
      BY <2>1, <2>3, PromisesStay
    <3>2. pc = "make" => \A q \in results[at].paths : fs'[q] = "dir" \/ q \in todo
      BY <2>3, DirectoryStays DEF Progress, TypeOK
    <3> QED BY <2>1, <3>1, <3>2 DEF Progress, TypeOK
  <2> QED BY <2>2, <2>3
<1>13. CASE UNCHANGED vars
  BY <1>13 DEF vars, Progress, Covered, IsMade, PlanIsSatisfied
<1> QED
  BY <1>1, <1>2, <1>3, <1>4, <1>5, <1>6, <1>7, <1>8, <1>9, <1>10, <1>11, <1>12, <1>13
  DEF Next

-----------------------------------------------------------------------------
(* Theorems                                                                *)

\* The inductive invariant holds in the first state ...
LEMMA InitInv == Init => Inv
<1> SUFFICES ASSUME Init PROVE Inv
  OBVIOUS
<1>1. TypeOK
  BY InitType
<1>2. /\ pc = "read" /\ at = 1 /\ results = <<>> /\ created = <<>> /\ original = fs
      /\ foreign = {} /\ outcome = "none"
  BY Zenon DEF Init
<1>3. Ownership
  BY <1>2
  DEF Ownership, ForeignStays, NothingYet, OwnIsListed, OwnList, Kept, RollbackIsExact,
     RolledBack, Failed
<1>4. Progress
  BY <1>2 DEF Progress
<1> QED BY <1>1, <1>3, <1>4 DEF Inv

\* ... and in every later one.
LEMMA InvHolds == Spec => []Inv
<1>1. Inv /\ [Next]_vars => Inv'
  BY TypeNext, OwnershipNext, ProgressNext DEF Inv
<1> QED BY <1>1, InitInv, PTL DEF Spec

\* A completed report means that every directory an automatic decision asked
\* for is there: what _prepare_directory left out of create_paths was there or
\* was to be made by an earlier decision, and _apply_prepared leaves no path out.
THEOREM CompletedPlansAreSatisfied == Spec => []CompletedIsSatisfied
<1>1. Inv => CompletedIsSatisfied
  BY DEF Inv, Progress, PlanIsSatisfied, CompletedIsSatisfied
<1> QED BY <1>1, InvHolds, PTL

\* A failed application whose _rollback met no error leaves at most the path in
\* hand behind: the directory that was made and whose chmod failed.
THEOREM FailureLeavesAtMostOne == Spec => []FailedLeavesAtMostOne
<1>1. Inv => FailedLeavesAtMostOne
  BY DEF Inv, Ownership, RolledBack, Kept, FailedLeavesAtMostOne
<1> QED BY <1>1, InvHolds, PTL

\* _rollback removes only what mkdir of the same run made, and never what
\* another process made, because FileExistsError keeps that off created_paths.
THEOREM OnlyOwnDirectoriesGo == Spec => OnlyOwnIsRemoved
<1>1. ASSUME Inv, [Next]_vars, NEW p \in Paths, Present(p), fs'[p] = "absent"
      PROVE  p \in made /\ p \notin foreign
  <2>1. CASE RemoveDirectory
    <3>1. left \in Seq(Paths) /\ left # <<>> /\ OwnList(left)
      BY <1>1, <2>1
      DEF Inv, TypeOK, Ownership, RollbackIsExact, RemoveDirectory, RollingBack
    <3>2. 1 \in 1 .. Len(left) /\ Head(left) = left[1]
      <4>1. Len(left) \in Nat \ {0}
        BY <3>1, EmptySeq
      <4> QED BY <3>1, <4>1
    <3>3. left[1] \in made /\ left[1] \notin foreign
      BY <3>1, <3>2, Zenon DEF OwnList
    <3>4. p = Head(left)
      BY <1>1, <2>1 DEF RemoveDirectory, Inv, TypeOK, Present
    <3> QED BY <3>2, <3>3, <3>4
  <2>2. CASE MakeDirectory \/ ChmodFails
    <3>1. PICK q \in todo : Mkdir(q)
      BY <2>2 DEF MakeDirectory, ChmodFails
    <3> QED BY <1>1, <3>1 DEF Mkdir, Inv, TypeOK, Present
  <2>3. CASE ForeignCreate
    <3>1. PICK q \in Paths, kind \in Kinds \ {"absent"} : fs' = [fs EXCEPT ![q] = kind]
      BY <2>3 DEF ForeignCreate
    <3> QED BY <1>1, <3>1 DEF Inv, TypeOK, Present
  <2>4. CASE UNCHANGED fs
    BY <1>1, <2>4 DEF Present
  <2> QED
    BY <1>1, <2>1, <2>2, <2>3, <2>4
    DEF Next, vars, ReadInputs, PreflightDecision, PreflightDone,
       SkipDecision, StartDecision, MakeExists, MakeObstructed, MakeFails, FinishDecision,
       ApplicationDone, SaveReport, SaveFails, SaveFailedReport, SaveFailedReportFails, RemoveFails,
       RollbackDone
<1>2. Inv /\ [Next]_vars =>
        [\A p \in Paths : Present(p) /\ fs'[p] = "absent" => p \in made /\ p \notin foreign]_vars
  BY <1>1
<1> QED BY <1>2, InvHolds, PTL DEF Spec, OnlyOwnIsRemoved
=============================================================================
