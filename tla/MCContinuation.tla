---------------------------- MODULE MCContinuation ----------------------------
(***************************************************************************)
(* Two processes start, continue and fork two runs.  Runs, processes and          *)
(* configurations are interchangeable: Load and ChainOf, the uses of CHOOSE,  *)
(* choose among one candidate.                                             *)
(***************************************************************************)
EXTENDS Continuation, TLC

Symmetry ==
    Permutations(Runs) \cup Permutations(Publishers) \cup Permutations(Configs)
=============================================================================
