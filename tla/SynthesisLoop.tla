---------------------------- MODULE SynthesisLoop ----------------------------
(***************************************************************************)
(* taintforge_env/synthesis_loop.py: EnvironmentSynthesisLoop.run drives   *)
(* one session.  It holds a lock of its own for a whole invocation, but    *)
(* takes the session lock only inside the controller's operations, so      *)
(* operators may work on the session between any two of its steps.         *)
(***************************************************************************)
EXTENDS SynthesisSession

CONSTANT MaxSteps   \* --max-steps: executions per invocation

ASSUME MaxStepsAssumption == MaxSteps \in Nat \ {0}

VARIABLES
  created,   \* the session directory exists
  bound,     \* synthesis_loop.json exists
  driver,    \* holder of the loop lock, the process inside run()
  lpc,       \* where the driver is in run()
  latest,    \* the attempt the driver is about to execute
  steps,     \* executions in this invocation
  outcome    \* outcome in synthesis_loop.json

loopVars == <<created, bound, driver, lpc, latest, steps, outcome>>
lvars    == <<vars, loopVars>>

LoopInit ==
  /\ Init
  /\ created = FALSE
  /\ bound = FALSE
  /\ driver = NoProc
  /\ lpc = "off"
  /\ latest = 0
  /\ steps = 0
  /\ outcome = "not_started"

\* The driver moves on in run() and touches nothing else of the loop.
LoopGoto(from, to) ==
  /\ lpc = from
  /\ lpc' = to
  /\ UNCHANGED <<created, bound, driver, latest, steps, outcome>>

\* run() ends and the loop lock is dropped.
LoopEnds ==
  /\ driver' = NoProc
  /\ lpc' = "off"
  /\ latest' = 0
  /\ steps' = 0

-----------------------------------------------------------------------------
(* Opening the session                                                     *)

\* The loop lock is taken with LOCK_NB: a second driver gives up at once.
StartLoop(p) ==
  /\ driver = NoProc
  /\ At(p, "idle")
  /\ driver' = p
  /\ lpc' = "open"
  /\ UNCHANGED <<vars, created, bound, latest, steps, outcome>>

\* manage_iterations.py init
InitializeSession ==
  /\ ~created
  /\ created' = TRUE
  /\ UNCHANGED <<vars, bound, driver, lpc, latest, steps, outcome>>

\* _open_or_initialize: IterationController.initialize renames a complete
\* directory into place; the binding is written afterwards.
OpenNew ==
  /\ lpc = "open"
  /\ ~created
  /\ created' = TRUE
  /\ lpc' = "bind"
  /\ UNCHANGED <<vars, bound, driver, latest, steps, outcome>>

OpenBound ==
  /\ created /\ bound
  /\ LoopGoto("open", "verify")
  /\ UNCHANGED vars

\* --adopt-existing-session
OpenAdopt ==
  /\ created /\ ~bound
  /\ LoopGoto("open", "bind")
  /\ UNCHANGED vars

\* Without it an unbound session is refused before anything is written.
OpenRefused ==
  /\ lpc = "open"
  /\ created /\ ~bound
  /\ LoopEnds
  /\ UNCHANGED <<vars, created, bound, outcome>>

WriteBinding ==
  /\ lpc = "bind"
  /\ bound' = TRUE
  /\ outcome' = "not_started"
  /\ lpc' = "verify"
  /\ UNCHANGED <<vars, created, driver, latest, steps>>

-----------------------------------------------------------------------------
(* The loop                                                                *)

\* controller.verify() under the session lock; it raises on a taken lock as well
\* as on a broken session.
LoopVerify(from, to) ==
  \/ /\ LoopGoto(from, from)
     /\ BeginVerify(driver)
  \/ /\ LoopGoto(from, IF VerifyOK THEN to ELSE "intervene")
     /\ EndVerify(driver)
  \/ /\ LoopGoto(from, "intervene")
     /\ At(driver, "idle")
     /\ lock # NoProc
     /\ UNCHANGED vars

VerifyFirst ==
  \E to \in {"load", "finalize_initialized"} : LoopVerify("verify", to)
VerifyPrepared  == LoopVerify("verify_prepared", "claim")
VerifyCompleted == LoopVerify("verify_completed", "load")

\* session = controller.load(), without the session lock
LoadInto(branch) ==
  /\ lpc = "load"
  /\ lpc' = branch
  /\ latest' = session.n
  /\ UNCHANGED <<vars, created, bound, driver, steps, outcome>>

\* Mutant: a completed attempt counts as a completed session.
LoadSessionTailCompleted ==
  LoadInto(IF Tail = "completed" THEN "finalize_completed"
           ELSE IF session.state = "failed" THEN "finalize_failed"
           ELSE IF steps >= MaxSteps THEN "finalize_paused"
           ELSE IF Tail = "prepared" THEN "claim"
           ELSE "prepare")

LoadSession ==
  LoadInto(IF session.state = "completed" THEN "finalize_completed"
           ELSE IF session.state = "failed" THEN "finalize_failed"
           ELSE IF steps >= MaxSteps THEN "finalize_paused"
           ELSE IF Tail = "prepared" THEN "claim"
           ELSE "prepare")

\* Mutant: the session lock is waited for.
LoopPrepareWaits ==
  /\ LoopGoto("prepare", "preparing")
  /\ PrepareNext(driver)

LoopPrepare ==
  \/ /\ LoopGoto("prepare", "preparing")
     /\ PrepareNext(driver)
  \/ /\ ~(lock = NoProc /\ CanPrepare)
     /\ LoopGoto("prepare", "intervene")
     /\ UNCHANGED vars

\* _load_existing_claim: any claim needs an operator.
LoopCheckClaim ==
  /\ LoopGoto("claim", IF claim[latest] = None THEN "run" ELSE "intervene")
  /\ UNCHANGED vars

CanStartRun == /\ lock = NoProc
               /\ VerifyOK
               /\ session.state = "active"
               /\ Tail = "prepared"
               /\ session.n = latest

LoopRun ==
  \/ /\ session.n = latest
     /\ LoopGoto("run", "running")
     /\ StartRun(driver)
  \/ /\ ~CanStartRun
     /\ LoopGoto("run", "intervene")
     /\ UNCHANGED vars

\* prepare_next and run_and_complete, step by step; when the call is over it has
\* succeeded or raised.
DriverWorks ==
  /\ lpc \in {"preparing", "running"}
  /\ Step(driver)
  /\ lpc' = IF pc'[driver] # "idle" THEN lpc
            ELSE IF pc[driver] = "commit_prepared" THEN "verify_prepared"
            ELSE IF pc[driver] = "done" THEN "verify_completed"
            ELSE "intervene"
  /\ latest' = IF pc[driver] = "commit_prepared" THEN session'.n ELSE latest
  /\ steps' = IF pc[driver] = "done" THEN steps + 1 ELSE steps
  /\ UNCHANGED <<created, bound, driver, outcome>>

\* _finalize writes the outcome into synthesis_loop.json and the reports.
Finalize(from, verdict) ==
  /\ lpc = from
  /\ outcome' = verdict
  /\ LoopEnds
  /\ UNCHANGED <<vars, created, bound>>

LoopFinalize ==
  \/ Finalize("finalize_completed", "completed")
  \/ Finalize("finalize_failed", "intervention_required")
  \/ Finalize("intervene", "intervention_required")
  \/ Finalize("finalize_paused", "paused")
  \/ Finalize("finalize_initialized", "initialized")

-----------------------------------------------------------------------------
\* A killed driver drops both locks; what it wrote stays.
DriverCrash ==
  /\ driver # NoProc
  /\ faults < MaxFaults
  /\ \/ Crash(driver)
     \/ /\ pc[driver] = "idle"
        /\ faults' = faults + 1
        /\ UNCHANGED <<store, run, procs>>
  /\ LoopEnds
  /\ UNCHANGED <<created, bound, outcome>>

\* An OSError surfaces in run() at once, or through the runner's exception
\* handler.
DriverIOFault ==
  /\ driver # NoProc
  /\ IOFault(driver) \/ ClaimUpdateFails(driver)
  /\ lpc' = IF pc'[driver] = "idle" THEN "intervene" ELSE lpc
  /\ UNCHANGED <<created, bound, driver, latest, steps, outcome>>

\* Operators use the other commands on the same session.
OperatorStep ==
  /\ created
  /\ \E p \in Procs \ {driver} :
       Start(p) \/ Step(p) \/ Crash(p) \/ IOFault(p) \/ ClaimUpdateFails(p)
  /\ UNCHANGED loopVars

ScriptRuns(k) == Script(k) /\ UNCHANGED loopVars

ScriptFault ==
  /\ \E k \in Attempts : ScriptKilled(k)
  /\ UNCHANGED loopVars

DriverStep ==
  \/ OpenNew \/ OpenBound \/ OpenAdopt \/ OpenRefused \/ WriteBinding
  \/ VerifyFirst \/ VerifyPrepared \/ VerifyCompleted
  \/ LoadSession \/ LoopPrepare \/ LoopCheckClaim \/ LoopRun
  \/ DriverWorks \/ LoopFinalize

LoopNext ==
  \/ \E p \in Procs : StartLoop(p)
  \/ InitializeSession
  \/ DriverStep
  \/ DriverCrash \/ DriverIOFault
  \/ OperatorStep
  \/ \E k \in Attempts : ScriptRuns(k)
  \/ ScriptFault

\* The driver, when it is not waiting, gets the CPU, and so does every sandbox
\* script: timeout(1) ends the guest.
Fairness == /\ WF_lvars(DriverStep)
            /\ \A k \in Attempts : WF_lvars(ScriptRuns(k))

LoopSpec == LoopInit /\ [][LoopNext]_lvars

LoopFairSpec == LoopSpec /\ Fairness

-----------------------------------------------------------------------------
(* Properties                                                              *)

\* run() never hangs: an invocation ends although operators take the session
\* lock, scripts fail and sessions are broken (LOCK_NB everywhere, timeout(1)
\* around the guest).
LoopTerminates == driver # NoProc ~> driver = NoProc

\* The outcome "completed" in synthesis_loop.json is only written for a session
\* that has completed, although run() reads session.json without its lock.
CompletedOutcomeIsTrue == outcome = "completed" => session.state = "completed"
=============================================================================
