----------------------------- MODULE RunChains -----------------------------
(***************************************************************************)
(* What the manifest store promises, without files, digests and races:     *)
(* every run is a history of stages that only grows at its end, one stage  *)
(* at a time, and a new run starts empty or with a copy of what some run   *)
(* had recorded at some time.                                              *)
(***************************************************************************)
EXTENDS Naturals, SequencesExt

CONSTANTS Runs, Absent

VARIABLE chain

Init == chain = [r \in Runs |-> Absent]

Start(r) ==
    /\ chain[r] = Absent
    /\ chain' = [chain EXCEPT ![r] = <<>>]

Fork(r, src, n) ==
    /\ chain[r] = Absent
    /\ chain[src] # Absent
    /\ chain' = [chain EXCEPT ![r] = SubSeq(chain[src], 1, n)]

\* Whatever stage it is, it comes last.
Extend(r) ==
    /\ chain[r] # Absent
    /\ chain'[r] # <<>>
    /\ chain' = [chain EXCEPT ![r] = Append(@, Last(chain'[r]))]

\* Steps that leave every run as it is are stutters, and are told apart first.
Next ==
    \E r \in Runs :
       /\ chain'[r] # chain[r]
       /\ \/ Start(r)
          \/ \E src \in Runs :
                /\ chain[src] # Absent
                /\ \E n \in 0..Len(chain[src]) : Fork(r, src, n)
          \/ Extend(r)

Spec == Init /\ [][Next]_chain
=============================================================================
