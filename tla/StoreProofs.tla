----------------------------- MODULE StoreProofs -----------------------------
(***************************************************************************)
(* Proofs about the two stores that processes share without a lock.        *)
(*                                                                         *)
(* ReplayStore, for any number of writers, readers, requests and           *)
(* responses: blobs are never removed, so what an index once named stays   *)
(* readable; a writer puts its blobs in place before the index that names  *)
(* them, and everything else it writes back it has read from an index that *)
(* was backed already.                                                     *)
(*                                                                         *)
(* SnapshotStore, for any number of processes, entries, contents and       *)
(* foreign writes: what is made visible, and what is put in place as a     *)
(* clone, was compared with the digest it is known by after the copying    *)
(* had ended, and is private to its process until then.                    *)
(***************************************************************************)
EXTENDS ReplayStore, SnapshotStore, TLAPS

-----------------------------------------------------------------------------
(* The replay store                                                        *)

Results == {"none", "added", "exists", "hit", "miss", "no_index", "broken"}
Operations ==
  [pc : {"idle", "check", "init", "load", "request", "response", "index", "find", "read"},
   key : Keys \cup {None}, val : Values \cup {None}, replace : BOOLEAN,
   seen : [Keys -> Values \cup {None}],
   result : Results]

\* Type correctness.
TypeOK ==
  /\ exists \in BOOLEAN
  /\ index \in [Keys -> Values \cup {None}]
  /\ requests \subseteq Keys /\ responses \subseteq Values
  /\ op \in [Writers \cup Readers -> Operations]
  /\ ops \in 0 .. MaxOps

AddSteps == {"check", "init", "load", "request", "response", "index"}

\* The part of the type invariant that depends on where a process is: writers
\* only add and readers only look up, and the arguments of a call are in place
\* while it is under way.
ArgumentsInv ==
  /\ \A p \in Writers : op[p].pc \in AddSteps \cup {"idle"}
  /\ \A p \in Readers : op[p].pc \in {"idle", "find", "read"}
  /\ \A p \in Writers : op[p].pc # "idle" => op[p].key \in Keys /\ op[p].val \in Values
  /\ \A p \in Readers : op[p].pc # "idle" => op[p].key \in Keys

\* What a process still holds in memory to write back is backed as well: the
\* part of the argument that makes IndexIsBacked inductive.
SeenIsBacked ==
  \A p \in Writers : \A k \in Keys :
    op[p].pc \in {"request", "response", "index"} /\ op[p].seen[k] # None =>
      op[p].seen[k] \in responses /\ k \in requests

\* The blobs of the entry a writer is about to name are in place.
BlobsFirst ==
  \A p \in Writers :
    /\ op[p].pc \in {"response", "index"} => op[p].key \in requests
    /\ op[p].pc = "index" => op[p].val \in responses

\* The response a reader is about to open is there.
FoundIsBacked == \A p \in Readers : op[p].pc = "read" => op[p].val \in responses

Inv ==
  /\ TypeOK /\ ArgumentsInv
  /\ IndexIsBacked /\ SeenIsBacked /\ BlobsFirst /\ FoundIsBacked
  /\ LookupNeverBroken

\* An idle process holds nothing.
LEMMA IdleType == Empty \in [Keys -> Values \cup {None}] /\ Idle \in Operations
  BY DEF Empty, Idle, Operations, Results

\* An operation that ends keeps its arguments.
LEMMA FinishType ==
  ASSUME TypeOK, NEW p \in Writers \cup Readers, NEW r \in Results, Finish(p, r)
  PROVE  op' \in [Writers \cup Readers -> Operations]
<1>1. op' = [op EXCEPT ![p] = [op[p] EXCEPT !.pc = "idle", !.result = r]]
  BY DEF Finish, TypeOK
<1>2. op[p] \in Operations
  BY DEF TypeOK
<1>3. [op[p] EXCEPT !.pc = "idle", !.result = r] \in Operations
  BY <1>2 DEF Operations
<1> QED BY <1>1, <1>3 DEF TypeOK

\* The store is empty and every process idle at first.
LEMMA InitInv == Init => Inv
<1> SUFFICES ASSUME Init PROVE Inv
  OBVIOUS
<1>1. TypeOK
    <2>1. exists \in BOOLEAN
      BY IdleType, MaxOpsAssumption DEF Init, TypeOK
    <2>2. index \in [Keys -> Values \cup {None}]
      BY IdleType, MaxOpsAssumption DEF Init, TypeOK
    <2>3. requests \subseteq Keys /\ responses \subseteq Values
      BY IdleType, MaxOpsAssumption DEF Init, TypeOK
    <2>4. op \in [Writers \cup Readers -> Operations]
      BY IdleType, MaxOpsAssumption DEF Init, TypeOK
    <2>5. ops \in 0 .. MaxOps
      BY IdleType, MaxOpsAssumption DEF Init, TypeOK
    <2> QED BY <2>1, <2>2, <2>3, <2>4, <2>5 DEF TypeOK
<1>2. ArgumentsInv
  BY MaxOpsAssumption DEF Init, Idle, Empty, ArgumentsInv, AddSteps
<1>3. IndexIsBacked
  BY MaxOpsAssumption DEF Init, Idle, Empty, IndexIsBacked
<1>4. SeenIsBacked
  BY MaxOpsAssumption DEF Init, Idle, Empty, SeenIsBacked
<1>5. BlobsFirst
  BY MaxOpsAssumption DEF Init, Idle, Empty, BlobsFirst
<1>6. FoundIsBacked
  BY MaxOpsAssumption DEF Init, Idle, Empty, FoundIsBacked
<1>7. LookupNeverBroken
  BY MaxOpsAssumption DEF Init, Idle, Empty, LookupNeverBroken
<1> QED BY <1>1, <1>2, <1>3, <1>4, <1>5, <1>6, <1>7 DEF Inv

\* A writer's step keeps the invariant: add puts both blobs in place before it
\* replaces the index.
LEMMA AddInv == ASSUME Inv, NEW p \in Writers, Add(p) PROVE Inv'
<1>0. p \in Writers \cup Readers /\ p \notin Readers
  BY Disjoint
<1>1. CASE BeginAdd(p)
  <2>1. TypeOK'
      <3>1. exists' \in BOOLEAN
        BY <1>0, <1>1, IdleType, MaxOpsAssumption
        DEF BeginAdd, Inv, TypeOK, Operations, Results, At
      <3>2. index' \in [Keys -> Values \cup {None}]
        BY <1>0, <1>1, IdleType, MaxOpsAssumption
        DEF BeginAdd, Inv, TypeOK, Operations, Results, At
      <3>3. requests' \subseteq Keys /\ responses' \subseteq Values
        BY <1>0, <1>1, IdleType, MaxOpsAssumption
        DEF BeginAdd, Inv, TypeOK, Operations, Results, At
      <3>4. op' \in [Writers \cup Readers -> Operations]
        <4>1. PICK k \in Keys, v \in Values, r \in BOOLEAN :
                op' = [op EXCEPT ![p] = [Idle EXCEPT !.pc = "check", !.key = k, !.val = v,
                                                     !.replace = r]]
          BY <1>1 DEF BeginAdd
        <4>2. [Idle EXCEPT !.pc = "check", !.key = k, !.val = v, !.replace = r] \in Operations
          BY IdleType DEF Operations, Results
        <4> QED BY <1>0, <4>1, <4>2 DEF Inv, TypeOK
      <3>5. ops' \in 0 .. MaxOps
        BY <1>0, <1>1, IdleType, MaxOpsAssumption
        DEF BeginAdd, Inv, TypeOK, Operations, Results, At
      <3> QED BY <3>1, <3>2, <3>3, <3>4, <3>5 DEF TypeOK
  <2>2. ArgumentsInv'
    BY <1>0, <1>1, MaxOpsAssumption
    DEF BeginAdd, Inv, TypeOK, Operations, Results, ArgumentsInv, AddSteps, Idle,
        Empty, At
  <2>3. IndexIsBacked'
    BY <1>0, <1>1, MaxOpsAssumption
    DEF BeginAdd, Inv, TypeOK, Operations, Results, IndexIsBacked, SeenIsBacked,
        BlobsFirst, ArgumentsInv, Idle, Empty, At
  <2>4. SeenIsBacked'
    BY <1>0, <1>1, MaxOpsAssumption
    DEF BeginAdd, Inv, TypeOK, Operations, Results, IndexIsBacked, SeenIsBacked, Idle,
        Empty, At
  <2>5. BlobsFirst'
    BY <1>0, <1>1, MaxOpsAssumption
    DEF BeginAdd, Inv, TypeOK, Operations, Results, BlobsFirst, Idle, Empty, At
  <2>6. FoundIsBacked'
    BY <1>0, <1>1, MaxOpsAssumption
    DEF BeginAdd, Inv, TypeOK, Operations, Results, FoundIsBacked, IndexIsBacked, Idle,
        Empty, At
  <2>7. LookupNeverBroken'
    BY <1>0, <1>1, MaxOpsAssumption
    DEF BeginAdd, Inv, TypeOK, Operations, Results, LookupNeverBroken, FoundIsBacked,
        Idle, Empty, At
  <2> QED BY <2>1, <2>2, <2>3, <2>4, <2>5, <2>6, <2>7 DEF Inv
<1>2. CASE CheckIndex(p)
  BY <1>0, <1>2
  DEF CheckIndex, Inv, TypeOK, Operations, Results, ArgumentsInv, IndexIsBacked,
      SeenIsBacked, BlobsFirst,
      FoundIsBacked, LookupNeverBroken, AddSteps, At, Goto
<1>3. CASE InitializeIndex(p)
  BY <1>0, <1>3
  DEF InitializeIndex, Inv, TypeOK, Operations, Results, ArgumentsInv, IndexIsBacked,
      SeenIsBacked, BlobsFirst,
      FoundIsBacked, LookupNeverBroken, Empty, AddSteps, At, Goto
<1>4. CASE LoadEntries(p)
  BY <1>0, <1>4
  DEF LoadEntries, Inv, TypeOK, Operations, Results, ArgumentsInv, IndexIsBacked,
      SeenIsBacked, BlobsFirst,
      FoundIsBacked, LookupNeverBroken, AddSteps, At, Finish
<1>5. CASE WriteRequest(p)
  BY <1>0, <1>5
  DEF WriteRequest, Inv, TypeOK, Operations, Results, ArgumentsInv, IndexIsBacked,
      SeenIsBacked, BlobsFirst,
      FoundIsBacked, LookupNeverBroken, AddSteps, At, Goto
<1>6. CASE WriteResponse(p)
  BY <1>0, <1>6
  DEF WriteResponse, Inv, TypeOK, Operations, Results, ArgumentsInv, IndexIsBacked,
      SeenIsBacked, BlobsFirst,
      FoundIsBacked, LookupNeverBroken, AddSteps, At, Goto
<1>7. CASE WriteIndex(p)
  <2>1. TypeOK'
      <3>1. exists' \in BOOLEAN
        BY <1>0, <1>7
        DEF WriteIndex, Inv, TypeOK, ArgumentsInv, Operations, Results, At, Finish
      <3>2. index' \in [Keys -> Values \cup {None}]
        BY <1>0, <1>7
        DEF WriteIndex, Inv, TypeOK, ArgumentsInv, Operations, Results, At, Finish
      <3>3. requests' \subseteq Keys /\ responses' \subseteq Values
        BY <1>0, <1>7
        DEF WriteIndex, Inv, TypeOK, ArgumentsInv, Operations, Results, At, Finish
      <3>4. op' \in [Writers \cup Readers -> Operations]
        BY <1>0, <1>7, FinishType DEF WriteIndex, Inv, Results
      <3>5. ops' \in 0 .. MaxOps
        BY <1>0, <1>7
        DEF WriteIndex, Inv, TypeOK, ArgumentsInv, Operations, Results, At, Finish
      <3> QED BY <3>1, <3>2, <3>3, <3>4, <3>5 DEF TypeOK
  <2>2. ArgumentsInv'
    BY <1>0, <1>7
    DEF WriteIndex, Inv, TypeOK, Operations, Results, ArgumentsInv, AddSteps, At, Finish
  <2>3. IndexIsBacked'
    BY <1>0, <1>7
    DEF WriteIndex, Inv, TypeOK, Operations, Results, IndexIsBacked, SeenIsBacked,
        BlobsFirst, ArgumentsInv, At, Finish
  <2>4. SeenIsBacked'
    BY <1>0, <1>7
    DEF WriteIndex, Inv, TypeOK, Operations, Results, IndexIsBacked, SeenIsBacked, At,
        Finish
  <2>5. BlobsFirst'
    BY <1>0, <1>7
    DEF WriteIndex, Inv, TypeOK, Operations, Results, BlobsFirst, At, Finish
  <2>6. FoundIsBacked'
    BY <1>0, <1>7
    DEF WriteIndex, Inv, TypeOK, Operations, Results, FoundIsBacked, IndexIsBacked, At,
        Finish
  <2>7. LookupNeverBroken'
    BY <1>0, <1>7
    DEF WriteIndex, Inv, TypeOK, Operations, Results, LookupNeverBroken, FoundIsBacked,
        At, Finish
  <2> QED BY <2>1, <2>2, <2>3, <2>4, <2>5, <2>6, <2>7 DEF Inv
<1> QED BY <1>1, <1>2, <1>3, <1>4, <1>5, <1>6, <1>7 DEF Add

\* A reader's step keeps the invariant: no blob is ever removed between the
\* entry it reads and the blob it opens.
LEMMA LookupInv == ASSUME Inv, NEW p \in Readers, Lookup(p) PROVE Inv'
<1>0. p \in Writers \cup Readers /\ p \notin Writers
  BY Disjoint
<1>1. CASE BeginLookup(p)
  <2>1. TypeOK'
      <3>1. exists' \in BOOLEAN
        BY <1>0, <1>1, IdleType, MaxOpsAssumption
        DEF BeginLookup, Inv, TypeOK, Operations, Results, At
      <3>2. index' \in [Keys -> Values \cup {None}]
        BY <1>0, <1>1, IdleType, MaxOpsAssumption
        DEF BeginLookup, Inv, TypeOK, Operations, Results, At
      <3>3. requests' \subseteq Keys /\ responses' \subseteq Values
        BY <1>0, <1>1, IdleType, MaxOpsAssumption
        DEF BeginLookup, Inv, TypeOK, Operations, Results, At
      <3>4. op' \in [Writers \cup Readers -> Operations]
        <4>1. PICK k \in Keys :
                op' = [op EXCEPT ![p] = [Idle EXCEPT !.pc = "find", !.key = k]]
          BY <1>1 DEF BeginLookup
        <4>2. [Idle EXCEPT !.pc = "find", !.key = k] \in Operations
          BY IdleType DEF Operations, Results
        <4> QED BY <1>0, <4>1, <4>2 DEF Inv, TypeOK
      <3>5. ops' \in 0 .. MaxOps
        BY <1>0, <1>1, IdleType, MaxOpsAssumption
        DEF BeginLookup, Inv, TypeOK, Operations, Results, At
      <3> QED BY <3>1, <3>2, <3>3, <3>4, <3>5 DEF TypeOK
  <2>2. ArgumentsInv'
    BY <1>0, <1>1, MaxOpsAssumption
    DEF BeginLookup, Inv, TypeOK, Operations, Results, ArgumentsInv, AddSteps, Idle,
        Empty, At
  <2>3. IndexIsBacked'
    BY <1>0, <1>1, MaxOpsAssumption
    DEF BeginLookup, Inv, TypeOK, Operations, Results, IndexIsBacked, SeenIsBacked,
        BlobsFirst, ArgumentsInv, Idle, Empty, At
  <2>4. SeenIsBacked'
    BY <1>0, <1>1, MaxOpsAssumption
    DEF BeginLookup, Inv, TypeOK, Operations, Results, IndexIsBacked, SeenIsBacked,
        Idle, Empty, At
  <2>5. BlobsFirst'
    BY <1>0, <1>1, MaxOpsAssumption
    DEF BeginLookup, Inv, TypeOK, Operations, Results, BlobsFirst, Idle, Empty, At
  <2>6. FoundIsBacked'
    BY <1>0, <1>1, MaxOpsAssumption
    DEF BeginLookup, Inv, TypeOK, Operations, Results, FoundIsBacked, IndexIsBacked,
        Idle, Empty, At
  <2>7. LookupNeverBroken'
    BY <1>0, <1>1, MaxOpsAssumption
    DEF BeginLookup, Inv, TypeOK, Operations, Results, LookupNeverBroken,
        FoundIsBacked, Idle, Empty, At
  <2> QED BY <2>1, <2>2, <2>3, <2>4, <2>5, <2>6, <2>7 DEF Inv
<1>2. CASE FindEntry(p)
  <2>1. TypeOK'
    BY <1>0, <1>2 DEF FindEntry, Inv, TypeOK, Operations, Results, At, Finish
  <2>2. ArgumentsInv'
    BY <1>0, <1>2
    DEF FindEntry, Inv, TypeOK, Operations, Results, ArgumentsInv, AddSteps, At, Finish
  <2>3. IndexIsBacked'
    BY <1>0, <1>2
    DEF FindEntry, Inv, TypeOK, Operations, Results, IndexIsBacked, SeenIsBacked,
        BlobsFirst, ArgumentsInv, At, Finish
  <2>4. SeenIsBacked'
    BY <1>0, <1>2
    DEF FindEntry, Inv, TypeOK, Operations, Results, IndexIsBacked, SeenIsBacked, At,
        Finish
  <2>5. BlobsFirst'
    BY <1>0, <1>2
    DEF FindEntry, Inv, TypeOK, Operations, Results, BlobsFirst, At, Finish
  <2>6. FoundIsBacked'
    BY <1>0, <1>2
    DEF FindEntry, Inv, TypeOK, Operations, Results, ArgumentsInv, FoundIsBacked,
        IndexIsBacked, At, Finish
  <2>7. LookupNeverBroken'
    BY <1>0, <1>2
    DEF FindEntry, Inv, TypeOK, Operations, Results, LookupNeverBroken, FoundIsBacked,
        At, Finish
  <2> QED BY <2>1, <2>2, <2>3, <2>4, <2>5, <2>6, <2>7 DEF Inv
<1>3. CASE ReadBlob(p)
  <2>1. TypeOK'
      <3>1. exists' \in BOOLEAN
        BY <1>0, <1>3 DEF ReadBlob, Inv, TypeOK, Operations, Results, At, Finish
      <3>2. index' \in [Keys -> Values \cup {None}]
        BY <1>0, <1>3 DEF ReadBlob, Inv, TypeOK, Operations, Results, At, Finish
      <3>3. requests' \subseteq Keys /\ responses' \subseteq Values
        BY <1>0, <1>3 DEF ReadBlob, Inv, TypeOK, Operations, Results, At, Finish
      <3>4. op' \in [Writers \cup Readers -> Operations]
        BY <1>0, <1>3, FinishType DEF ReadBlob, Inv, Results
      <3>5. ops' \in 0 .. MaxOps
        BY <1>0, <1>3 DEF ReadBlob, Inv, TypeOK, Operations, Results, At, Finish
      <3> QED BY <3>1, <3>2, <3>3, <3>4, <3>5 DEF TypeOK
  <2>2. ArgumentsInv'
    BY <1>0, <1>3
    DEF ReadBlob, Inv, TypeOK, Operations, Results, ArgumentsInv, AddSteps, At, Finish
  <2>3. IndexIsBacked'
    BY <1>0, <1>3
    DEF ReadBlob, Inv, TypeOK, Operations, Results, IndexIsBacked, SeenIsBacked,
        BlobsFirst, ArgumentsInv, At, Finish
  <2>4. SeenIsBacked'
    BY <1>0, <1>3
    DEF ReadBlob, Inv, TypeOK, Operations, Results, IndexIsBacked, SeenIsBacked, At,
        Finish
  <2>5. BlobsFirst'
    BY <1>0, <1>3 DEF ReadBlob, Inv, TypeOK, Operations, Results, BlobsFirst, At, Finish
  <2>6. FoundIsBacked'
    BY <1>0, <1>3
    DEF ReadBlob, Inv, TypeOK, Operations, Results, FoundIsBacked, IndexIsBacked, At,
        Finish
  <2>7. LookupNeverBroken'
    BY <1>0, <1>3
    DEF ReadBlob, Inv, TypeOK, Operations, Results, LookupNeverBroken, FoundIsBacked,
        At, Finish
  <2> QED BY <2>1, <2>2, <2>3, <2>4, <2>5, <2>6, <2>7 DEF Inv
<1> QED BY <1>1, <1>2, <1>3 DEF Lookup

\* A process that dies leaves the files as they are.
LEMMA CrashInv == ASSUME Inv, NEW p \in Writers \cup Readers, Crash(p) PROVE Inv'
  BY
  DEF Crash, Inv, TypeOK, Operations, Results, ArgumentsInv, IndexIsBacked,
      SeenIsBacked, BlobsFirst,
         FoundIsBacked, LookupNeverBroken, Idle, Empty, AddSteps

\* The invariant is inductive.
LEMMA NextInv == Inv /\ [Next]_vars => Inv'
<1> SUFFICES ASSUME Inv, [Next]_vars PROVE Inv'
  OBVIOUS
<1>1. CASE Next
  BY <1>1, AddInv, LookupInv, CrashInv DEF Next
<1>2. CASE UNCHANGED vars
  BY <1>2
  DEF vars, Inv, TypeOK, Operations, Results, ArgumentsInv, IndexIsBacked,
      SeenIsBacked, BlobsFirst,
      FoundIsBacked, LookupNeverBroken
<1> QED BY <1>1, <1>2

\* validate() never fails, however many writers add at once without a lock and
\* wherever they die.
THEOREM StoreIsBacked == Spec => []IndexIsBacked
<1>1. Inv => IndexIsBacked
  BY DEF Inv
<1> QED BY <1>1, InitInv, NextInv, PTL DEF Spec

\* lookup never opens a response that is missing, although it reads the index
\* and the blob at different times and replacing writers come in between.
THEOREM LookupsSucceed == Spec => []LookupNeverBroken
<1>1. Inv => LookupNeverBroken
  BY DEF Inv
<1> QED BY <1>1, InitInv, NextInv, PTL DEF Spec

-----------------------------------------------------------------------------
(* ReplayStore implements ReplayMap                                        *)

\* Without an index file there are no entries.
AbsentIsEmpty == ~exists => index = Empty

LEMMA AbsentIsEmptyInv == Inv /\ AbsentIsEmpty /\ [Next]_vars => AbsentIsEmpty'
  BY DEF AbsentIsEmpty, Next, vars, Add, Lookup, BeginAdd, CheckIndex, InitializeIndex,
         LoadEntries, WriteRequest, WriteResponse, WriteIndex, BeginLookup, FindEntry,
         ReadBlob, Crash

\* A map that is held is what a writer has read, or the empty one that a writer
\* is about to put in place.
LEMMA HeldBy ==
  ASSUME NEW m
  PROVE  m \in Held <=> \E w \in Writers :
           \/ op[w].pc \in {"request", "response", "index"} /\ m = op[w].seen
           \/ op[w].pc = "init" /\ m = Empty
  BY DEF Held

LEMMA HeldByNext ==
  ASSUME NEW m
  PROVE  m \in Held' <=> \E w \in Writers :
           \/ op'[w].pc \in {"request", "response", "index"} /\ m = op'[w].seen
           \/ op'[w].pc = "init" /\ m = Empty
  BY DEF Held

\* An operation of one process that leaves the index alone and reads at most the
\* index is a step in which the abstract map is read or given up.
LEMMA HoldStep ==
  ASSUME NEW p \in Writers \cup Readers,
         \A w \in Writers : w # p => op'[w] = op[w],
         p \in Writers =>
           /\ op'[p].pc \in {"request", "response", "index"} =>
                \/ op'[p].seen = index
                \/ op[p].pc \in {"request", "response", "index"} /\ op'[p].seen = op[p].seen
           /\ op'[p].pc = "init" => index = Empty \/ op[p].pc = "init",
         index' = index
  PROVE  Promise!MapHold
<1>1. ASSUME NEW m \in Held' PROVE m \in Held \cup {index}
  <2>1. PICK w \in Writers :
           \/ op'[w].pc \in {"request", "response", "index"} /\ m = op'[w].seen
           \/ op'[w].pc = "init" /\ m = Empty
    BY <1>1, HeldByNext
  <2>2. CASE w = p
    BY <2>1, <2>2, HeldBy
  <2>3. CASE w # p
    BY <2>1, <2>3, HeldBy
  <2> QED BY <2>2, <2>3
<1> QED BY <1>1 DEF Promise!MapHold

\* A writer that replaces the index puts back a map it holds, with at most one
\* entry of its own, and holds nothing new.
LEMMA PublishStep ==
  ASSUME NEW p \in Writers, NEW old \in Held,
         \A w \in Writers : w # p => op'[w] = op[w],
         op'[p].pc \in {"idle", "load"},
         index' = old \/ \E k \in Keys, v \in Values : index' = [old EXCEPT ![k] = v]
  PROVE  Promise!MapPublish
<1>1. ASSUME NEW m \in Held' PROVE m \in Held
  <2>1. PICK w \in Writers :
           \/ op'[w].pc \in {"request", "response", "index"} /\ m = op'[w].seen
           \/ op'[w].pc = "init" /\ m = Empty
    BY <1>1, HeldByNext
  <2>2. w # p
    BY <2>1
  <2> QED BY <2>1, <2>2, HeldBy
<1> QED BY <1>1 DEF Promise!MapPublish

\* Every step of the store is a step of the map.
LEMMA StepRefines ==
  Inv /\ AbsentIsEmpty /\ [Next]_vars
    => [Promise!MapHold \/ Promise!MapPublish]_<<index, Held>>
<1> SUFFICES ASSUME Inv, AbsentIsEmpty, [Next]_vars
             PROVE  Promise!MapHold \/ Promise!MapPublish \/ UNCHANGED <<index, Held>>
  OBVIOUS
<1>0. op \in [Writers \cup Readers -> Operations]
  BY DEF Inv, TypeOK
<1>1. ASSUME NEW p \in Writers, Add(p) PROVE Promise!MapHold \/ Promise!MapPublish
  <2>0. op[p] \in Operations
    BY <1>0
  <2>1. CASE BeginAdd(p)
    <3>1. PICK k \in Keys, v \in Values, r \in BOOLEAN :
            op' = [op EXCEPT ![p] = [Idle EXCEPT !.pc = "check", !.key = k, !.val = v,
                                                 !.replace = r]]
      BY <2>1 DEF BeginAdd
    <3>2. op'[p].pc = "check" /\ index' = index
      BY <1>0, <2>1, <3>1 DEF BeginAdd, Idle
    <3>3. \A w \in Writers : w # p => op'[w] = op[w]
      BY <1>0, <3>1
    <3> QED BY <3>2, <3>3, HoldStep
  <2>2. CASE CheckIndex(p)
    BY <1>0, <2>0, <2>2, HoldStep DEF CheckIndex, Goto, AbsentIsEmpty, Operations
  <2>3. CASE InitializeIndex(p)
    <3>1. Empty \in Held
      BY <2>3, HeldBy DEF InitializeIndex, At
    <3> QED BY <1>0, <2>0, <2>3, <3>1, PublishStep DEF InitializeIndex, Goto, Operations
  <2>4. CASE LoadEntries(p)
    BY <1>0, <2>0, <2>4, HoldStep DEF LoadEntries, Finish, Operations
  <2>5. CASE WriteRequest(p)
    BY <1>0, <2>0, <2>5, HoldStep DEF WriteRequest, Goto, At, Operations
  <2>6. CASE WriteResponse(p)
    BY <1>0, <2>0, <2>6, HoldStep DEF WriteResponse, Goto, At, Operations
  <2>7. CASE WriteIndex(p)
    <3>1. op[p].seen \in Held
      BY <2>7, HeldBy DEF WriteIndex, At
    <3>2. op[p].key \in Keys /\ op[p].val \in Values
      BY <2>7 DEF WriteIndex, At, Inv, ArgumentsInv
    <3>3. op'[p].pc = "idle" /\ \A w \in Writers : w # p => op'[w] = op[w]
      BY <1>0, <2>0, <2>7 DEF WriteIndex, Finish, Operations
    <3> QED BY <2>7, <3>1, <3>2, <3>3, PublishStep DEF WriteIndex
  <2> QED BY <1>1, <2>1, <2>2, <2>3, <2>4, <2>5, <2>6, <2>7 DEF Add
<1>2. ASSUME NEW p \in Readers, Lookup(p) PROVE Promise!MapHold
  <2>1. p \notin Writers /\ index' = index
    BY <1>2, Disjoint DEF Lookup, BeginLookup, FindEntry, ReadBlob
  <2>2. \A w \in Writers : op'[w] = op[w]
    BY <1>0, <1>2, <2>1 DEF Lookup, BeginLookup, FindEntry, ReadBlob, Finish
  <2> QED BY <2>1, <2>2, HoldStep
<1>3. ASSUME NEW p \in Writers \cup Readers, Crash(p) PROVE Promise!MapHold
  <2>1. \A w \in Writers : w # p => op'[w] = op[w]
    BY <1>0, <1>3 DEF Crash
  <2>2. op'[p].pc = "idle" /\ index' = index
    BY <1>0, <1>3 DEF Crash, Idle
  <2> QED BY <2>1, <2>2, HoldStep
<1>4. CASE UNCHANGED vars
  BY <1>4 DEF vars, Held
<1> QED BY <1>1, <1>2, <1>3, <1>4 DEF Next

\* The index only ever becomes a map that an add under way has read, with at most
\* that add's entry changed: an update is lost to an overlapping add or not at all.
THEOREM StoreImplementsMap == Spec => ImplementsMap
<1>1. Init => Inv /\ AbsentIsEmpty /\ Promise!MapInit
  <2>1. Init => Held = {}
    BY DEF Init, Held, Idle
  <2> QED BY <2>1, InitInv DEF Init, AbsentIsEmpty, Promise!MapInit, Empty
<1>2. Spec => [](Inv /\ AbsentIsEmpty)
  BY <1>1, NextInv, AbsentIsEmptyInv, PTL DEF Spec
<1> QED
  BY <1>1, <1>2, StepRefines, PTL DEF Spec, ImplementsMap, Promise!MapSpec

-----------------------------------------------------------------------------
(* The snapshot store                                                      *)

PartialTrees == [Paths -> Contents \cup {Absent}]
SnapshotResults == {"none", "reused", "corrupt", "error", "changed", "captured", "lost_race", "cloned"}
Jobs == [pc : {"idle", "scan", "copy", "publish", "clone"},
         id : PartialTrees, temp : PartialTrees, result : SnapshotResults]

\* Type correctness; a visible snapshot is a whole tree.
SnapshotTypeOK ==
  /\ source \in Trees
  /\ store \in [Trees -> PartialTrees]
  /\ \A t \in Trees : Visible(t) => store[t] \in Trees
  /\ dirty \subseteq Trees
  /\ dest \in [Procs -> PartialTrees]
  /\ job \in [Procs -> Jobs]
  /\ writes \in Nat

\* Once a capture has scanned its source, or a clone has begun, the digest it
\* works under is that of a whole tree.
DigestIsWhole ==
  \A p \in Procs : job[p].pc \in {"copy", "publish", "clone"} => job[p].id \in Trees

\* A temporary directory is renamed into place only after it was compared.
ComparedBeforePublish ==
  \A p \in Procs : job[p].pc = "publish" => job[p].temp = job[p].id

\* The result is that of the last call, and a new call clears it.
NoResultWhileBusy ==
  \A p \in Procs : job[p].pc # "idle" => job[p].result = "none"

SnapshotInv ==
  /\ SnapshotTypeOK
  /\ DigestIsWhole /\ ComparedBeforePublish /\ NoResultWhileBusy
  /\ SnapshotMatchesName /\ CloneIsExact

\* Whole trees and the empty place are partial trees.
LEMMA TreeTypes ==
  /\ Trees \subseteq PartialTrees
  /\ NoTree \in PartialTrees
  /\ IdleJob \in Jobs
  BY DEF Trees, PartialTrees, NoTree, IdleJob, Jobs, SnapshotResults

\* A tree without an empty place is whole.
LEMMA FullTree ==
  ASSUME NEW t \in PartialTrees, \A x \in Paths : t[x] # Absent
  PROVE  t \in Trees
  BY DEF PartialTrees, Trees

\* Nothing is visible, and every process is idle, at first.
LEMMA SnapshotInitInv == SnapshotInit => SnapshotInv
<1> SUFFICES ASSUME SnapshotInit PROVE SnapshotInv
  OBVIOUS
<1>1. SnapshotTypeOK
  BY TreeTypes DEF SnapshotInit, SnapshotTypeOK, Visible
<1>2. DigestIsWhole /\ ComparedBeforePublish /\ NoResultWhileBusy
  BY DEF SnapshotInit, IdleJob, DigestIsWhole, ComparedBeforePublish, NoResultWhileBusy
<1>3. SnapshotMatchesName
  BY DEF SnapshotInit, SnapshotMatchesName, Visible
<1>4. CloneIsExact
  BY DEF SnapshotInit, IdleJob, CloneIsExact
<1> QED BY <1>1, <1>2, <1>3, <1>4 DEF SnapshotInv

\* What a step of one process does to its own job decides the invariant, as long
\* as the stores and the clones stay as they are.
LEMMA JobStep ==
  ASSUME SnapshotInv, NEW p \in Procs, NEW j \in Jobs,
         job' = [job EXCEPT ![p] = j],
         UNCHANGED <<source, store, dirty, dest, writes>>,
         j.pc \in {"copy", "publish", "clone"} => j.id \in Trees,
         j.pc = "publish" => j.temp = j.id,
         j.pc # "idle" => j.result = "none",
         j.result = "cloned" => dest[p] = j.id
  PROVE  SnapshotInv'
<1>1. SnapshotTypeOK'
  BY DEF SnapshotInv, SnapshotTypeOK, Visible
<1>2. DigestIsWhole' /\ ComparedBeforePublish' /\ NoResultWhileBusy'
  BY DEF SnapshotInv, SnapshotTypeOK, DigestIsWhole, ComparedBeforePublish, NoResultWhileBusy
<1>3. SnapshotMatchesName'
  BY DEF SnapshotInv, SnapshotMatchesName, Visible
<1>4. CloneIsExact'
  BY DEF SnapshotInv, SnapshotTypeOK, CloneIsExact
<1> QED BY <1>1, <1>2, <1>3, <1>4 DEF SnapshotInv

\* A call that ends keeps its digest and gives up its temporary directory.
LEMMA FinishedJob ==
  ASSUME SnapshotInv, NEW p \in Procs, NEW r \in SnapshotResults, FinishJob(p, r)
  PROVE  LET j == [job[p] EXCEPT !.pc = "idle", !.temp = NoTree, !.result = r]
         IN  /\ j \in Jobs /\ job' = [job EXCEPT ![p] = j]
             /\ j.pc = "idle" /\ j.id = job[p].id /\ j.result = r
<1>1. job[p] \in Jobs
  BY DEF SnapshotInv, SnapshotTypeOK
<1> QED BY <1>1, TreeTypes DEF FinishJob, Jobs, SnapshotInv, SnapshotTypeOK

\* Going on to another step changes nothing else of a job.
LEMMA GotoJob ==
  ASSUME SnapshotInv, NEW p \in Procs, NEW l \in {"copy", "publish"}, JobGoesTo(p, l)
  PROVE  LET j == [job[p] EXCEPT !.pc = l]
         IN  /\ j \in Jobs /\ job' = [job EXCEPT ![p] = j]
             /\ j.pc = l /\ j.id = job[p].id /\ j.temp = job[p].temp
             /\ j.result = job[p].result
<1>1. job[p] \in Jobs
  BY DEF SnapshotInv, SnapshotTypeOK
<1> QED BY <1>1 DEF JobGoesTo, Jobs, SnapshotInv, SnapshotTypeOK

\* A call may end at any time with any result that promises no clone.
LEMMA FinishInv ==
  ASSUME SnapshotInv, NEW p \in Procs, NEW r \in SnapshotResults \ {"cloned"}, FinishJob(p, r),
         UNCHANGED <<source, store, dirty, dest, writes>>
  PROVE  SnapshotInv'
<1> DEFINE j == [job[p] EXCEPT !.pc = "idle", !.temp = NoTree, !.result = r]
<1>1. /\ j \in Jobs /\ job' = [job EXCEPT ![p] = j]
      /\ j.pc = "idle" /\ j.result = r
  BY FinishedJob
<1> HIDE DEF j
<1> QED BY <1>1, JobStep

\* A call may go on to copy or to publish under the digest of a whole tree, and
\* to publish with an equal copy only.
LEMMA GotoInv ==
  ASSUME SnapshotInv, NEW p \in Procs, NEW l \in {"copy", "publish"}, JobGoesTo(p, l),
         job[p].id \in Trees, job[p].result = "none",
         l = "publish" => job[p].temp = job[p].id,
         UNCHANGED <<source, store, dirty, dest, writes>>
  PROVE  SnapshotInv'
<1> DEFINE j == [job[p] EXCEPT !.pc = l]
<1>1. /\ j \in Jobs /\ job' = [job EXCEPT ![p] = j]
      /\ j.pc = l /\ j.id = job[p].id /\ j.temp = job[p].temp
      /\ j.result = job[p].result
  BY GotoJob
<1> HIDE DEF j
<1> QED BY <1>1, JobStep

\* The scan and the copies of capture: every error gives up the temporary
\* directory, and only an equal copy goes on to be published.
LEMMA CaptureInv ==
  ASSUME SnapshotInv, NEW p \in Procs,
         \/ BeginCapture(p) \/ ScanEntry(p) \/ LookForSnapshot(p)
         \/ CopyEntry(p) \/ CopyFails(p) \/ CompareCopy(p)
  PROVE  SnapshotInv'
<1>0. job[p] \in Jobs /\ source \in Trees
  BY DEF SnapshotInv, SnapshotTypeOK
<1>1. CASE BeginCapture(p)
  <2> DEFINE j == [IdleJob EXCEPT !.pc = "scan"]
  <2>1. j \in Jobs /\ j.pc = "scan" /\ j.result = "none"
    BY TreeTypes DEF Jobs, IdleJob
  <2> QED BY <1>1, <2>1, JobStep DEF BeginCapture
<1>2. CASE ScanEntry(p)
  <2>1. PICK x \in Paths : job' = [job EXCEPT ![p].id[x] = source[x]]
    BY <1>2 DEF ScanEntry
  <2> DEFINE j == [job[p] EXCEPT !.id = [job[p].id EXCEPT ![x] = source[x]]]
  <2>2. job' = [job EXCEPT ![p] = j]
    BY <1>0, <2>1 DEF SnapshotInv, SnapshotTypeOK, Jobs
  <2>3. j \in Jobs /\ j.pc = "scan" /\ j.result = "none"
    BY <1>0, <1>2 DEF Jobs, PartialTrees, Trees, ScanEntry, JobAt, SnapshotInv, NoResultWhileBusy
  <2> QED BY <1>2, <2>2, <2>3, JobStep DEF ScanEntry
<1>3. CASE LookForSnapshot(p)
  <2>1. job[p].id \in Trees /\ job[p].pc = "scan" /\ job[p].result = "none"
    BY <1>0, <1>3, FullTree DEF LookForSnapshot, JobAt, Jobs, SnapshotInv, NoResultWhileBusy
  <2>2. CASE JobGoesTo(p, "copy")
    BY <1>3, <2>1, <2>2, GotoInv DEF LookForSnapshot
  <2>3. CASE \E r \in {"reused", "corrupt"} : FinishJob(p, r)
    BY <1>3, <2>3, FinishInv DEF LookForSnapshot, SnapshotResults
  <2> QED BY <1>3, <2>2, <2>3 DEF LookForSnapshot
<1>4. CASE CopyEntry(p)
  <2>1. PICK x \in Paths : job' = [job EXCEPT ![p].temp[x] = source[x]]
    BY <1>4 DEF CopyEntry
  <2> DEFINE j == [job[p] EXCEPT !.temp = [job[p].temp EXCEPT ![x] = source[x]]]
  <2>2. job' = [job EXCEPT ![p] = j]
    BY <1>0, <2>1 DEF SnapshotInv, SnapshotTypeOK, Jobs
  <2>3. j \in Jobs /\ j.pc = "copy" /\ j.result = "none" /\ j.id \in Trees
    BY <1>0, <1>4 DEF Jobs, PartialTrees, Trees, CopyEntry, JobAt, SnapshotInv, NoResultWhileBusy,
                      DigestIsWhole
  <2> QED BY <1>4, <2>2, <2>3, JobStep DEF CopyEntry
<1>5. CASE CopyFails(p)
  BY <1>5, FinishInv DEF CopyFails, SnapshotResults
<1>6. CASE CompareCopy(p)
  <2>1. job[p].id \in Trees /\ job[p].result = "none"
    BY <1>6 DEF CompareCopy, JobAt, SnapshotInv, NoResultWhileBusy, DigestIsWhole
  <2>2. CASE job[p].temp = job[p].id /\ JobGoesTo(p, "publish")
    BY <1>6, <2>1, <2>2, GotoInv DEF CompareCopy
  <2>3. CASE FinishJob(p, "changed")
    BY <1>6, <2>3, FinishInv DEF CompareCopy, SnapshotResults
  <2> QED BY <1>6, <2>2, <2>3 DEF CompareCopy
<1> QED BY <1>1, <1>2, <1>3, <1>4, <1>5, <1>6

\* The rename: what becomes visible is what was compared, and a name that is
\* taken is left alone.
LEMMA PublishInv ==
  ASSUME SnapshotInv, NEW p \in Procs, Publish(p)
  PROVE  SnapshotInv'
<1>0. job[p] \in Jobs /\ job[p].id \in Trees /\ job[p].temp = job[p].id
  BY DEF Publish, JobAt, SnapshotInv, SnapshotTypeOK, DigestIsWhole, ComparedBeforePublish
<1>1. CASE Visible(job[p].id)
  BY <1>1, FinishInv DEF Publish, SnapshotResults
<1>2. CASE ~Visible(job[p].id)
  <2> DEFINE j == [job[p] EXCEPT !.pc = "idle", !.temp = NoTree, !.result = "captured"]
  <2>1. /\ j \in Jobs /\ job' = [job EXCEPT ![p] = j]
        /\ j.pc = "idle" /\ j.result = "captured"
    BY <1>2, FinishedJob DEF Publish, SnapshotResults
  <2>2. /\ store' = [store EXCEPT ![job[p].id] = job[p].id]
        /\ UNCHANGED <<source, dirty, dest, writes>>
    BY <1>0, <1>2 DEF Publish
  <2> HIDE DEF j
  <2>3. SnapshotTypeOK'
    BY <1>0, <2>1, <2>2, TreeTypes DEF SnapshotInv, SnapshotTypeOK, Visible
  <2>4. DigestIsWhole' /\ ComparedBeforePublish' /\ NoResultWhileBusy'
    BY <2>1 DEF SnapshotInv, SnapshotTypeOK, DigestIsWhole, ComparedBeforePublish, NoResultWhileBusy
  <2>5. SnapshotMatchesName'
    BY <1>0, <2>2 DEF SnapshotInv, SnapshotTypeOK, SnapshotMatchesName, Visible
  <2>6. CloneIsExact'
    BY <2>1, <2>2 DEF SnapshotInv, SnapshotTypeOK, CloneIsExact
  <2> QED BY <2>3, <2>4, <2>5, <2>6 DEF SnapshotInv
<1> QED BY <1>1, <1>2

\* The clone is compared with the digest asked for after its last entry was
\* copied, so damage done to the snapshot meanwhile is noticed.
LEMMA CloneInv ==
  ASSUME SnapshotInv, NEW p \in Procs, BeginClone(p) \/ CloneEntry(p) \/ PlaceClone(p)
  PROVE  SnapshotInv'
<1>0. job[p] \in Jobs
  BY DEF SnapshotInv, SnapshotTypeOK
<1>1. CASE BeginClone(p)
  <2>1. PICK t \in Trees :
          job' = [job EXCEPT ![p] =
                    IF store[t] = t THEN [IdleJob EXCEPT !.pc = "clone", !.id = t]
                    ELSE [IdleJob EXCEPT !.id = t, !.result = "corrupt"]]
    BY <1>1 DEF BeginClone
  <2> DEFINE i == [IdleJob EXCEPT !.pc = "clone", !.id = t]
             k == [IdleJob EXCEPT !.id = t, !.result = "corrupt"]
  <2>2. i \in Jobs /\ i.pc = "clone" /\ i.id = t /\ i.result = "none"
    BY TreeTypes DEF Jobs, IdleJob
  <2>3. k \in Jobs /\ k.pc = "idle" /\ k.result = "corrupt"
    BY TreeTypes DEF Jobs, IdleJob, SnapshotResults
  <2>4. job' = [job EXCEPT ![p] = i] \/ job' = [job EXCEPT ![p] = k]
    BY <2>1
  <2> HIDE DEF i, k
  <2> QED BY <1>1, <2>2, <2>3, <2>4, JobStep DEF BeginClone
<1>2. CASE CloneEntry(p)
  <2>1. PICK x \in Paths : job' = [job EXCEPT ![p].temp[x] = store[job[p].id][x]]
    BY <1>2 DEF CloneEntry
  <2> DEFINE j == [job[p] EXCEPT !.temp = [job[p].temp EXCEPT ![x] = store[job[p].id][x]]]
  <2>2. job' = [job EXCEPT ![p] = j]
    BY <1>0, <2>1 DEF SnapshotInv, SnapshotTypeOK, Jobs
  <2>3. job[p].id \in Trees /\ job[p].pc = "clone" /\ job[p].result = "none"
    BY <1>2 DEF CloneEntry, JobAt, SnapshotInv, DigestIsWhole, NoResultWhileBusy
  <2>4. store[job[p].id][x] \in Contents \cup {Absent}
    BY <2>3 DEF SnapshotInv, SnapshotTypeOK, PartialTrees
  <2>5. j \in Jobs /\ j.pc = "clone" /\ j.result = "none" /\ j.id \in Trees
    BY <1>0, <2>3, <2>4 DEF Jobs, PartialTrees
  <2> QED BY <1>2, <2>2, <2>5, JobStep DEF CloneEntry
<1>3. CASE PlaceClone(p)
  <2>1. CASE job[p].temp # job[p].id
    BY <1>3, <2>1, FinishInv DEF PlaceClone, SnapshotResults
  <2>2. CASE job[p].temp = job[p].id
    <3> DEFINE j == [job[p] EXCEPT !.pc = "idle", !.temp = NoTree, !.result = "cloned"]
    <3>1. /\ j \in Jobs /\ job' = [job EXCEPT ![p] = j]
          /\ j.pc = "idle" /\ j.result = "cloned" /\ j.id = job[p].id
      BY <1>3, <2>2, FinishedJob DEF PlaceClone, SnapshotResults
    <3>2. /\ dest' = [dest EXCEPT ![p] = job[p].id]
          /\ UNCHANGED <<source, store, dirty, writes>>
      BY <1>3, <2>2 DEF PlaceClone
    <3> HIDE DEF j
    <3>3. SnapshotTypeOK'
      BY <1>0, <3>1, <3>2 DEF SnapshotInv, SnapshotTypeOK, Visible, Jobs
    <3>4. DigestIsWhole' /\ ComparedBeforePublish' /\ NoResultWhileBusy'
      BY <3>1 DEF SnapshotInv, SnapshotTypeOK, DigestIsWhole, ComparedBeforePublish, NoResultWhileBusy
    <3>5. SnapshotMatchesName'
      BY <3>2 DEF SnapshotInv, SnapshotMatchesName, Visible
    <3>6. CloneIsExact'
      BY <3>1, <3>2 DEF SnapshotInv, SnapshotTypeOK, CloneIsExact
    <3> QED BY <3>3, <3>4, <3>5, <3>6 DEF SnapshotInv
  <2> QED BY <2>1, <2>2
<1> QED BY <1>1, <1>2, <1>3

\* Writers of the source and of snapshots, and processes that die.
LEMMA SurroundingsInv ==
  ASSUME SnapshotInv, WriteSource \/ WriteSnapshot \/ \E p \in Procs : CrashJob(p)
  PROVE  SnapshotInv'
<1>1. CASE WriteSource
  <2>1. SnapshotTypeOK'
    BY <1>1 DEF WriteSource, SnapshotInv, SnapshotTypeOK, Visible, Trees
  <2> QED BY <1>1, <2>1 DEF WriteSource, SnapshotInv, DigestIsWhole, ComparedBeforePublish,
             NoResultWhileBusy, SnapshotMatchesName, CloneIsExact, Visible
<1>2. CASE WriteSnapshot
  <2>1. PICK t \in Trees, x \in Paths, c \in Contents :
          /\ Visible(t)
          /\ store' = [store EXCEPT ![t][x] = c]
          /\ dirty' = dirty \cup {t}
    BY <1>2 DEF WriteSnapshot
  <2>2. store[t] \in Trees /\ [store[t] EXCEPT ![x] = c] \in Trees
    BY <2>1 DEF SnapshotInv, SnapshotTypeOK, Trees
  <2>3. store' = [store EXCEPT ![t] = [store[t] EXCEPT ![x] = c]]
    BY <2>1 DEF SnapshotInv, SnapshotTypeOK
  <2>4. \A u \in Trees : u # t => store'[u] = store[u]
    BY <2>3 DEF SnapshotInv, SnapshotTypeOK
  <2>5. store'[t] \in Trees
    BY <2>2, <2>3 DEF SnapshotInv, SnapshotTypeOK
  <2>6. store' \in [Trees -> PartialTrees]
    BY <2>2, <2>3, TreeTypes DEF SnapshotInv, SnapshotTypeOK
  <2>7. SnapshotTypeOK'
    <3>1. writes' = writes + 1 /\ UNCHANGED <<source, dest, job>>
      BY <1>2 DEF WriteSnapshot
    <3>2. \A u \in Trees : Visible(u)' => store'[u] \in Trees
      BY <2>4, <2>5 DEF SnapshotInv, SnapshotTypeOK, Visible
    <3>3. /\ source' \in Trees /\ dirty' \subseteq Trees
          /\ dest' \in [Procs -> PartialTrees] /\ job' \in [Procs -> Jobs]
          /\ writes' \in Nat
      BY <2>1, <3>1 DEF SnapshotInv, SnapshotTypeOK
    <3> QED BY <2>6, <3>2, <3>3 DEF SnapshotTypeOK
  <2>8. SnapshotMatchesName'
    BY <2>1, <2>4 DEF SnapshotInv, SnapshotTypeOK, SnapshotMatchesName, Visible
  <2> QED BY <1>2, <2>7, <2>8 DEF WriteSnapshot, SnapshotInv, DigestIsWhole,
             ComparedBeforePublish, NoResultWhileBusy, CloneIsExact
<1>3. CASE \E p \in Procs : CrashJob(p)
  <2>1. IdleJob.pc = "idle" /\ IdleJob.result = "none"
    BY DEF IdleJob
  <2> QED BY <1>3, <2>1, TreeTypes, JobStep DEF CrashJob
<1> QED BY <1>1, <1>2, <1>3

\* The invariant is inductive.
LEMMA SnapshotNextInv == SnapshotInv /\ [SnapshotNext]_snapshotVars => SnapshotInv'
<1> SUFFICES ASSUME SnapshotInv, [SnapshotNext]_snapshotVars PROVE SnapshotInv'
  OBVIOUS
<1>1. CASE SnapshotNext
  BY <1>1, CaptureInv, PublishInv, CloneInv, SurroundingsInv DEF SnapshotNext
<1>2. CASE UNCHANGED snapshotVars
  BY <1>2 DEF snapshotVars, SnapshotInv, SnapshotTypeOK, DigestIsWhole, ComparedBeforePublish,
     NoResultWhileBusy, SnapshotMatchesName, CloneIsExact, Visible
<1> QED BY <1>1, <1>2

\* A snapshot that became visible under a digest has that digest until somebody
\* writes into it, whoever captures, wherever the source changes and wherever a
\* capture dies.
THEOREM SnapshotsMatchTheirNames == SnapshotSpec => []SnapshotMatchesName
<1>1. SnapshotInv => SnapshotMatchesName
  BY DEF SnapshotInv
<1> QED BY <1>1, SnapshotInitInv, SnapshotNextInv, PTL DEF SnapshotSpec

\* A clone that is put in place is the snapshot asked for, although snapshots may
\* be damaged between their verification and the copy.
THEOREM ClonesAreExact == SnapshotSpec => []CloneIsExact
<1>1. SnapshotInv => CloneIsExact
  BY DEF SnapshotInv
<1> QED BY <1>1, SnapshotInitInv, SnapshotNextInv, PTL DEF SnapshotSpec
=============================================================================
