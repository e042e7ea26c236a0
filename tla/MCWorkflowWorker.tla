--------------------------- MODULE MCWorkflowWorker ---------------------------
(***************************************************************************)
(* A job, a second one that is submitted from it or reruns it, and a       *)
(* worker that is killed.                                                  *)
(***************************************************************************)
EXTENDS WorkflowWorker, TLC

CONSTANTS build, validate, c1, c2

\* A job that builds, and one that continues a manifest it is given.
Plan == {<<build, validate>>, <<validate>>}

\* Only the configuration of validate changes.
TwoSpecs == {[n \in StageNames |-> c1],
             [n \in StageNames |-> IF n = validate THEN c2 ELSE c1]}

OneSpec == {[n \in StageNames |-> c1]}

Symmetry == Permutations(Runs) \cup Permutations(Publishers)
===============================================================================
