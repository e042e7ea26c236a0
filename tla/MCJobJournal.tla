---------------------------- MODULE MCJobJournal ----------------------------
(***************************************************************************)
(* The journal under its most general client: a worker, its heartbeat      *)
(* helper and another client call any method in any order.                 *)
(***************************************************************************)
EXTENDS JobJournal
=============================================================================
