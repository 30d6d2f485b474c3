---------------------------- MODULE SessionLedger ----------------------------
(***************************************************************************)
(* SynthesisSession implements AttemptLedger: the ledger is read off       *)
(* contract.json, the starts of the guest, result.json and session.json.   *)
(***************************************************************************)
EXTENDS SynthesisSession

Ledger == INSTANCE AttemptLedger WITH
  opened  <- contract,
  ran     <- {k \in Attempts : executed[k] > 0},
  outcome <- [k \in Attempts |->
                IF result[k] = None THEN "none" ELSE result[k].outcome],
  closed  <- session.state # "active"

\* The files of a session, whatever processes, faults and scripts do to them,
\* behave like the ledger: attempts open in order after a repair_required
\* result, run at most once, get one result, and nothing after the session
\* has stopped (prepare_next, run_and_complete, complete_iteration).
ImplementsLedger == Ledger!LSpec
=============================================================================
