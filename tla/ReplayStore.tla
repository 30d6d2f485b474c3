----------------------------- MODULE ReplayStore -----------------------------
(***************************************************************************)
(* taintforge_env/replay_store.py: an index file over content-addressed    *)
(* response blobs.  add reads the index, writes the two blobs and replaces *)
(* the index; there is no lock.  A blob is named after the digest of its   *)
(* content, so a response and its blob are one value here.                 *)
(***************************************************************************)
EXTENDS Naturals, FiniteSets

CONSTANTS
  Writers,   \* processes that add
  Readers,   \* processes that look up
  Keys,      \* request fingerprints
  Values,    \* responses
  None,
  MaxOps     \* bound: operations started

ASSUME Disjoint == Writers \cap Readers = {} /\ None \notin Values
ASSUME MaxOpsAssumption == MaxOps \in Nat

VARIABLES
  exists,    \* index.json exists
  index,     \* its entries
  requests,  \* request blobs, by fingerprint
  responses, \* response blobs
  op,        \* per process: where it is in its operation, and its arguments
  ops        \* operations started so far

vars == <<exists, index, requests, responses, op, ops>>

Empty == [k \in Keys |-> None]
Idle == [pc |-> "idle", key |-> None, val |-> None, replace |-> FALSE,
         seen |-> Empty, result |-> "none"]

Init ==
  /\ exists = FALSE
  /\ index = Empty
  /\ requests = {}
  /\ responses = {}
  /\ op = [p \in Writers \cup Readers |-> Idle]
  /\ ops = 0

At(p, pc) == op[p].pc = pc
Goto(p, pc) == op' = [op EXCEPT ![p].pc = pc]
Finish(p, result) == op' = [op EXCEPT ![p].pc = "idle", ![p].result = result]

-----------------------------------------------------------------------------
(* add                                                                     *)

\* The call; the limits on sizes are checked before anything of the entry is
\* written.
BeginAdd(p) ==
  /\ At(p, "idle") /\ ops < MaxOps
  /\ ops' = ops + 1
  /\ \E k \in Keys, v \in Values, r \in BOOLEAN :
       op' = [op EXCEPT ![p] = [Idle EXCEPT !.pc = "check", !.key = k, !.val = v,
                                            !.replace = r]]
  /\ UNCHANGED <<exists, index, requests, responses>>

\* initialize: an absent index is replaced by an empty one.
CheckIndex(p) ==
  /\ At(p, "check")
  /\ Goto(p, IF exists THEN "load" ELSE "init")
  /\ UNCHANGED <<exists, index, requests, responses, ops>>

InitializeIndex(p) ==
  /\ At(p, "init")
  /\ exists' = TRUE
  /\ index' = Empty
  /\ Goto(p, "load")
  /\ UNCHANGED <<requests, responses, ops>>

LoadNothing(p) ==
  /\ At(p, "load")
  /\ op' = [op EXCEPT ![p].pc = "request", ![p].seen = Empty]
  /\ UNCHANGED <<exists, index, requests, responses, ops>>

\* load_entries, and ReplayEntryExistsError without --replace
LoadEntries(p) ==
  /\ At(p, "load")
  /\ \/ /\ index[op[p].key] = None \/ op[p].replace
        /\ op' = [op EXCEPT ![p].pc = "request", ![p].seen = index]
     \/ /\ index[op[p].key] # None /\ ~op[p].replace
        /\ Finish(p, "exists")
  /\ UNCHANGED <<exists, index, requests, responses, ops>>

\* _write_blob: an existing blob is compared, a new one renamed into place.
WriteRequest(p) ==
  /\ At(p, "request")
  /\ requests' = requests \cup {op[p].key}
  /\ Goto(p, "response")
  /\ UNCHANGED <<exists, index, responses, ops>>

SkipResponse(p) ==
  /\ At(p, "response")
  /\ responses' = IF index[op[p].key] = None THEN responses \cup {op[p].val}
                  ELSE responses
  /\ Goto(p, "index")
  /\ UNCHANGED <<exists, index, requests, ops>>

WriteResponse(p) ==
  /\ At(p, "response")
  /\ responses' = responses \cup {op[p].val}
  /\ Goto(p, "index")
  /\ UNCHANGED <<exists, index, requests, ops>>

\* _atomic_write_index with the entries read before
WriteIndex(p) ==
  /\ At(p, "index")
  /\ exists' = TRUE
  /\ index' = [op[p].seen EXCEPT ![op[p].key] = op[p].val]
  /\ Finish(p, "added")
  /\ UNCHANGED <<requests, responses, ops>>

-----------------------------------------------------------------------------
(* lookup                                                                  *)

BeginLookup(p) ==
  /\ At(p, "idle") /\ ops < MaxOps
  /\ ops' = ops + 1
  /\ \E k \in Keys : op' = [op EXCEPT ![p] = [Idle EXCEPT !.pc = "find", !.key = k]]
  /\ UNCHANGED <<exists, index, requests, responses>>

\* load_entries: without an index, or without the entry, there is no hit.
FindEntry(p) ==
  /\ At(p, "find")
  /\ \/ exists /\ index[op[p].key] # None
        /\ op' = [op EXCEPT ![p].pc = "read", ![p].val = index[op[p].key]]
     \/ exists /\ index[op[p].key] = None /\ Finish(p, "miss")
     \/ ~exists /\ Finish(p, "no_index")
  /\ UNCHANGED <<exists, index, requests, responses, ops>>

\* The blob is read and compared with the entry's size and digest.
ReadBlob(p) ==
  /\ At(p, "read")
  /\ Finish(p, IF op[p].val \in responses THEN "hit" ELSE "broken")
  /\ UNCHANGED <<exists, index, requests, responses, ops>>

\* A process dies; temporary files it leaves are never read.
Crash(p) ==
  /\ ~At(p, "idle")
  /\ op' = [op EXCEPT ![p] = Idle]
  /\ UNCHANGED <<exists, index, requests, responses, ops>>

Add(p) == BeginAdd(p) \/ CheckIndex(p) \/ InitializeIndex(p) \/ LoadEntries(p)
          \/ WriteRequest(p) \/ WriteResponse(p) \/ WriteIndex(p)
Lookup(p) == BeginLookup(p) \/ FindEntry(p) \/ ReadBlob(p)

Next ==
  \/ \E p \in Writers : Add(p)
  \/ \E p \in Readers : Lookup(p)
  \/ \E p \in Writers \cup Readers : Crash(p)

Spec == Init /\ [][Next]_vars

-----------------------------------------------------------------------------
(* Properties                                                              *)

\* validate() never fails, with any number of writers and crashes between any
\* two of their writes: every entry's blobs are there.
IndexIsBacked ==
  \A k \in Keys : index[k] # None => index[k] \in responses /\ k \in requests

\* A lookup never meets an entry whose response is missing, though the index and
\* the blob are read at different times.
LookupNeverBroken == \A p \in Readers : op[p].result # "broken"

\* However adds overlap and crash, the index only ever becomes a map that one of
\* the adds under way has read, with at most that add's own entry changed: an
\* update can be lost to an add that overlaps it, and to nothing else.
Held == {op[p].seen : p \in {w \in Writers : op[w].pc \in {"request", "response", "index"}}}
        \cup {Empty : p \in {w \in Writers : op[w].pc = "init"}}
Promise == INSTANCE ReplayMap WITH map <- index, held <- Held
ImplementsMap == Promise!MapSpec
=============================================================================
