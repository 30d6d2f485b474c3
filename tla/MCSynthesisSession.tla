------------------------- MODULE MCSynthesisSession -------------------------
(* Small instances of SynthesisSession for TLC.                            *)
EXTENDS SessionLedger, TLC

CONSTANTS r1, calm, other, signal

Bundle(plan, behaviour, goal, timeout) ==
  [plan |-> plan, behaviour |-> behaviour, goal |-> goal, timeout |-> timeout]

\* One bundle that asks for a repair, one that ends the session.
TwoBundles == {Bundle({r1}, calm, FALSE, FALSE), Bundle({}, calm, FALSE, TRUE)}

\* Every bundle over the small sets.
AllBundles == Evidence

ProcSymmetry == Permutations(Procs)
=============================================================================
