--------------------------- MODULE MCJobLifecycle ---------------------------
(***************************************************************************)
(* The processes around one job, on small instances.  The processes of one *)
(* kind are interchangeable.                                               *)
(***************************************************************************)
EXTENDS JobLifecycle, TLC

Symmetry == Permutations(Launchers) \cup Permutations(Workers)

\* Bound: one launch of the job ends before another begins.
OneAtATime ==
    \A k, l \in Launchers :
        /\ launch[k].pc \notin {"none", "refused", "returned", "raised"}
        /\ launch[l].pc \notin {"none", "refused", "returned", "raised"}
        => k = l
=============================================================================
