--------------------------- MODULE MCSynthesisLoop ---------------------------
(* Small instances of SynthesisLoop for TLC.                               *)
EXTENDS SynthesisLoop

CONSTANTS r1, calm, other, signal

Bundle(plan, goal, timeout) ==
  [plan |-> plan, behaviour |-> calm, goal |-> goal, timeout |-> timeout]

\* Every bundle over the small sets.
AllBundles == Evidence

\* One bundle, for the contended run.
RepairOnly == {Bundle({r1}, FALSE, FALSE)}
=============================================================================
