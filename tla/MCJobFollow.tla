---------------------------- MODULE MCJobFollow -----------------------------
(***************************************************************************)
(* One launch of a job, a client that cancels it and a watch, on a small   *)
(* instance.                                                               *)
(***************************************************************************)
EXTENDS JobFollow
=============================================================================
