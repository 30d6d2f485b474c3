---------------------------- MODULE AttemptLedger ----------------------------
(***************************************************************************)
(* What a synthesis session promises about its attempts, without files,    *)
(* locks, claims or processes: attempts are opened one after the other,    *)
(* each only when its predecessor asked for a repair; the guest of an      *)
(* attempt runs at most once; an attempt gets at most one outcome; and     *)
(* once the session is closed no attempt is opened and none gets an        *)
(* outcome.  SynthesisSession implements this specification.               *)
(***************************************************************************)
EXTENDS Integers

CONSTANTS MaxIterations, Outcomes

VARIABLES
  opened,    \* attempts with a contract
  ran,       \* attempts whose guest was started
  outcome,   \* outcome on record, or "none"
  closed     \* the session has stopped

lvars == <<opened, ran, outcome, closed>>

Ids == 1 .. MaxIterations

LInit == /\ opened = {}
         /\ ran = {}
         /\ outcome = [k \in Ids |-> "none"]
         /\ closed = FALSE

Open(k) ==
  /\ ~closed
  /\ k \notin opened
  /\ \A j \in 1 .. k - 1 : j \in opened /\ outcome[j] = "repair_required"
  /\ opened' = opened \cup {k}
  /\ UNCHANGED <<ran, outcome, closed>>

\* A guest may still start after its attempt got an outcome from elsewhere,
\* even in a closed session; it never starts twice.
Run(k) ==
  /\ k \in opened
  /\ k \notin ran
  /\ ran' = ran \cup {k}
  /\ UNCHANGED <<opened, outcome, closed>>

Record(k) ==
  /\ ~closed
  /\ k \in opened
  /\ k + 1 \notin opened
  /\ outcome[k] = "none"
  /\ \E o \in Outcomes : outcome' = [outcome EXCEPT ![k] = o]
  /\ UNCHANGED <<opened, ran, closed>>

\* The session closes on the outcome of its last attempt.
Close(k) ==
  /\ ~closed
  /\ k \in opened
  /\ k + 1 \notin opened
  /\ outcome[k] # "none"
  /\ closed' = TRUE
  /\ UNCHANGED <<opened, ran, outcome>>

LNext == \E k \in Ids : Open(k) \/ Run(k) \/ Record(k) \/ Close(k)

LSpec == LInit /\ [][LNext]_lvars
=============================================================================
