---------------------------- MODULE SnapshotStore ----------------------------
(***************************************************************************)
(* taintforge_env/environment_snapshot.py: EnvironmentSnapshotStore.  A    *)
(* root file system is scanned and copied path by path while somebody may  *)
(* still write to it; a snapshot becomes visible in one rename under the   *)
(* digest of its content.  A digest is the content it stands for.          *)
(***************************************************************************)
EXTENDS Naturals

CONSTANTS
  Procs,       \* processes that capture or clone
  Paths,       \* entries of a root file system
  Contents,    \* what an entry may hold, its mode included
  Absent,
  MaxWrites    \* bound: writes to the source and to visible snapshots

ASSUME AbsentAssumption == Absent \notin Contents
ASSUME MaxWritesAssumption == MaxWrites \in Nat

Trees == [Paths -> Contents]
VARIABLES
  source,   \* the root file system that captures read
  store,    \* visible snapshots: digest -> content, or Absent
  dirty,    \* snapshots that were written to after they became visible
  dest,     \* per process: the clone's destination, or Absent
  job,      \* per process: where it is, what it has read and copied
  writes

snapshotVars == <<source, store, dirty, dest, job, writes>>

NoTree == [x \in Paths |-> Absent]
IdleJob == [pc |-> "idle", id |-> NoTree, temp |-> NoTree, result |-> "none"]

SnapshotInit ==
  /\ source \in Trees
  /\ store = [t \in Trees |-> NoTree]
  /\ dirty = {}
  /\ dest = [p \in Procs |-> NoTree]
  /\ job = [p \in Procs |-> IdleJob]
  /\ writes = 0

JobAt(p, pc) == job[p].pc = pc
JobGoesTo(p, pc) == job' = [job EXCEPT ![p].pc = pc]
\* finally: the temporary directory goes, whatever happened
FinishJob(p, result) ==
  job' = [job EXCEPT ![p].pc = "idle", ![p].temp = NoTree, ![p].result = result]
Visible(t) == store[t] # NoTree

-----------------------------------------------------------------------------
(* capture                                                                 *)

BeginCapture(p) ==
  /\ JobAt(p, "idle")
  /\ job' = [job EXCEPT ![p] = [IdleJob EXCEPT !.pc = "scan"]]
  /\ UNCHANGED <<source, store, dirty, dest, writes>>

\* scan_environment reads the entries one after the other.
ScanEntry(p) ==
  /\ JobAt(p, "scan")
  /\ \E x \in Paths :
       /\ job[p].id[x] = Absent
       /\ job' = [job EXCEPT ![p].id[x] = source[x]]
  /\ UNCHANGED <<source, store, dirty, dest, writes>>

\* An existing snapshot is verified and used; otherwise a temporary directory
\* is made next to it.
LookForSnapshot(p) ==
  /\ JobAt(p, "scan")
  /\ \A x \in Paths : job[p].id[x] # Absent
  /\ \/ ~Visible(job[p].id) /\ JobGoesTo(p, "copy")
     \/ /\ Visible(job[p].id)
        /\ FinishJob(p, IF store[job[p].id] = job[p].id THEN "reused" ELSE "corrupt")
  /\ UNCHANGED <<source, store, dirty, dest, writes>>

\* clone_environment
CopyEntry(p) ==
  /\ JobAt(p, "copy")
  /\ \E x \in Paths :
       /\ job[p].temp[x] = Absent
       /\ job' = [job EXCEPT ![p].temp[x] = source[x]]
  /\ UNCHANGED <<source, store, dirty, dest, writes>>

\* Its first step scans the source again and may raise: an entry has gone.
CopyFails(p) ==
  /\ JobAt(p, "copy")
  /\ FinishJob(p, "error")
  /\ UNCHANGED <<source, store, dirty, dest, writes>>

\* The copy is scanned and compared with the digest of the first scan.
CompareNothing(p) ==
  /\ JobAt(p, "copy")
  /\ \A x \in Paths : job[p].temp[x] # Absent
  /\ JobGoesTo(p, "publish")
  /\ UNCHANGED <<source, store, dirty, dest, writes>>

CompareCopy(p) ==
  /\ JobAt(p, "copy")
  /\ \A x \in Paths : job[p].temp[x] # Absent
  /\ \/ job[p].temp = job[p].id /\ JobGoesTo(p, "publish")
     \/ job[p].temp # job[p].id /\ FinishJob(p, "changed")
  /\ UNCHANGED <<source, store, dirty, dest, writes>>

Publish(p) ==
  /\ JobAt(p, "publish")
  /\ \/ /\ ~Visible(job[p].id)
        /\ store' = [store EXCEPT ![job[p].id] = job[p].temp]
        /\ FinishJob(p, "captured")
     \/ /\ Visible(job[p].id)
        /\ FinishJob(p, "lost_race")
        /\ UNCHANGED store
  /\ UNCHANGED <<source, dirty, dest, writes>>

-----------------------------------------------------------------------------
(* verify and clone                                                        *)

BeginClone(p) ==
  /\ JobAt(p, "idle")
  /\ dest[p] = NoTree
  /\ \E t \in Trees :
       /\ Visible(t)
       /\ job' = [job EXCEPT ![p] =
            IF store[t] = t THEN [IdleJob EXCEPT !.pc = "clone", !.id = t]
            ELSE [IdleJob EXCEPT !.id = t, !.result = "corrupt"]]
  /\ UNCHANGED <<source, store, dirty, dest, writes>>

CloneEntry(p) ==
  /\ JobAt(p, "clone")
  /\ \E x \in Paths :
       /\ job[p].temp[x] = Absent
       /\ job' = [job EXCEPT ![p].temp[x] = store[job[p].id][x]]
  /\ UNCHANGED <<source, store, dirty, dest, writes>>

\* The clone trusts the verification that came before the copy.
PlaceUnchecked(p) ==
  /\ JobAt(p, "clone")
  /\ \A x \in Paths : job[p].temp[x] # Absent
  /\ dest' = [dest EXCEPT ![p] = job[p].temp]
  /\ FinishJob(p, "cloned")
  /\ UNCHANGED <<source, store, dirty, writes>>

PlaceClone(p) ==
  /\ JobAt(p, "clone")
  /\ \A x \in Paths : job[p].temp[x] # Absent
  /\ \/ /\ job[p].temp = job[p].id
        /\ dest' = [dest EXCEPT ![p] = job[p].temp]
        /\ FinishJob(p, "cloned")
     \/ /\ job[p].temp # job[p].id
        /\ FinishJob(p, "changed")
        /\ UNCHANGED dest
  /\ UNCHANGED <<source, store, dirty, writes>>

-----------------------------------------------------------------------------
(* The surroundings                                                        *)

\* The source is written to while it is captured.
WriteSource ==
  /\ writes < MaxWrites
  /\ writes' = writes + 1
  /\ \E x \in Paths, c \in Contents : source' = [source EXCEPT ![x] = c]
  /\ UNCHANGED <<store, dirty, dest, job>>

\* Somebody writes into a visible snapshot.
WriteSnapshot ==
  /\ writes < MaxWrites
  /\ writes' = writes + 1
  /\ \E t \in Trees, x \in Paths, c \in Contents :
       /\ Visible(t) /\ store[t][x] # c
       /\ store' = [store EXCEPT ![t][x] = c]
       /\ dirty' = dirty \cup {t}
  /\ UNCHANGED <<source, dest, job>>

\* A process dies; its temporary directory has a name nothing looks for.
CrashJob(p) ==
  /\ ~JobAt(p, "idle")
  /\ job' = [job EXCEPT ![p] = IdleJob]
  /\ UNCHANGED <<source, store, dirty, dest, writes>>

SnapshotNext ==
  \/ \E p \in Procs :
       \/ BeginCapture(p) \/ ScanEntry(p) \/ LookForSnapshot(p) \/ CopyEntry(p)
       \/ CopyFails(p) \/ CompareCopy(p) \/ Publish(p)
       \/ BeginClone(p) \/ CloneEntry(p) \/ PlaceClone(p) \/ CrashJob(p)
  \/ WriteSource \/ WriteSnapshot

SnapshotSpec == SnapshotInit /\ [][SnapshotNext]_snapshotVars

-----------------------------------------------------------------------------
(* Properties                                                              *)

\* A visible snapshot is complete and has the content its name stands for,
\* however the source changed between the scan and the copy, until somebody
\* writes into it.
SnapshotMatchesName ==
  \A t \in Trees : Visible(t) /\ t \notin dirty => store[t] = t

\* A clone that is put in place has exactly the content asked for, even when the
\* snapshot changes between its verification and the copy.
CloneIsExact ==
  \A p \in Procs : job[p].result = "cloned" => dest[p] = job[p].id
=============================================================================
