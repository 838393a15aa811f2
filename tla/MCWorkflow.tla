----------------------------- MODULE MCWorkflow -----------------------------
(***************************************************************************)
(* Small instances of Workflow. SYMMETRY of the workers is sound: no       *)
(* definition tells them apart.                                            *)
(***************************************************************************)
EXTENDS Workflow, TLC

\* An awakeable is allocated and awaited after a step; a sleep after a step.
AwaitBody == <<"step", "alloc", "await">>
SleepBody == <<"step", "sleep">>

WorkerSymmetry == Permutations(Workers)
=============================================================================
