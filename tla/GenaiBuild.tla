----------------------------- MODULE GenaiBuild -----------------------------
(***************************************************************************)
(* The GenAI Builder lane of a build: build_genai_container and            *)
(* build_qwen35_omni_components of src/qairt_agent/qairt_adapter/          *)
(* adapter.py.  The SDK transforms, converts and compiles by itself and    *)
(* saves one container; the adapter then describes the saved slices, so    *)
(* that later stages can run them graph by graph.                          *)
(***************************************************************************)
EXTENDS LowLevelBuild

CONSTANTS
    Destination,  \* the container's directory
    SavedSlices,  \* slices a saved container may hold: sets of GraphList
    NoSlices

VARIABLES
    saved,        \* the slices of the saved container, or NoSlices
    raw           \* what the adapter has found out about them

genaiVars == <<saved, raw>>

\* The graphs of one saved slice in the order of the file.  `ars` are the ARs
\* a graph was really compiled for, `columns` what one dimension of a tensor is
\* in each of the graphs, `names` whether all graphs name their tensors alike.
GraphList == [ars : Seq(SUBSET Nat), columns : SUBSET Seq(Nat),
              asset : BOOLEAN, names : BOOLEAN]

ASSUME SavedAssumption ==
    \A slices \in SavedSlices :
        /\ slices \in Seq(GraphList) /\ Len(slices) <= Len(Slices)
        /\ \A g \in Elements(slices) : \A c \in g.columns : Len(c) = Len(g.ars)

\* "The shapes can: some dimension carries the AR", _ar_graph_order_error: if the
\* graphs can be told apart by dimensions that take the ARs as their values, then
\* one of these tells what the graphs were compiled for.
ASSUME ColumnsAssumption ==
    \A slices \in SavedSlices : \A g \in Elements(slices) :
        LET permuted == {c \in g.columns :
                IsInjective(c) /\ Range(c) = UNION Range(g.ars)}
        IN  permuted # {} =>
                \E c \in permuted : \A i \in DOMAIN c : c[i] \in g.ars[i]

GenaiInit == saved = NoSlices /\ raw = NoSlices

-----------------------------------------------------------------------------
\* The arguments that the container's builders are refused for.
Attached(ars) == \A ar \in ars : ar \in spec.attached

Buildable ==
    /\ spec.shared => AllArs = {1, 128}
    /\ ~spec.shared => Len(spec.ars) = 1
    /\ spec.native => \A i \in DOMAIN spec.cls : spec.cls[i] % 256 = 0
    /\ (spec.vision # "none") <=> spec.family = "qwen3_vl"
    /\ spec.attached \subseteq AllArs
    /\ Qwen35 => Attached(AllArs)

\* Those of build_qwen35_omni_components: a model of its own for every AR.
IsOmni == spec.family = "qwen3_5_omni"

OmniBuildable ==
    /\ spec.shared => AllArs = {1, 128}
    /\ ~spec.shared => Len(spec.ars) = 1
    /\ spec.native => \A i \in DOMAIN spec.cls : spec.cls[i] % 256 = 0
    /\ spec.attached = AllArs

\* The container's directory must not be there, unless exist_ok is given.
Free == Art("container", 0, Destination, AllArs) \notin made \/ spec.exist_ok

CheckContainer ==
    /\ pc = "genai"
    /\ IF Free /\ (IF IsOmni THEN OmniBuildable ELSE Buildable)
       THEN /\ pc' = IF IsOmni THEN "omni_build" ELSE "genai_build"
            /\ UNCHANGED <<spec, at, made, live, evidence, reports, progress,
                           fault>>
       ELSE Refuses
    /\ UNCHANGED <<minted, genaiVars>>

\* The builder is made, its class and target are verified and it builds; the
\* container is then saved, by a call that may fail half way.
BuildContainer ==
    /\ pc = "genai_build"
    /\ \/ Fails /\ UNCHANGED genaiVars
       \/ /\ made' = made \cup {Art("container", 0, Destination, AllArs)}
          /\ fault' = TRUE /\ pc' = "failed" /\ live' = {}
          /\ UNCHANGED <<spec, at, evidence, progress, reports, genaiVars>>
       \/ /\ \E slices \in SavedSlices :
               /\ \A g \in Elements(slices) : UNION Range(g.ars) = AllArs
               /\ saved' = slices
          /\ Makes({Art("container", 0, Destination, AllArs)})
          /\ pc' = "genai_raw"
          /\ UNCHANGED <<at, raw>>
    /\ UNCHANGED minted

\* The audio and the text component are built and saved as one container, from
\* which one of them may be missing.  Nothing is said about its slices.
BuildOmni ==
    /\ pc = "omni_build"
    /\ \/ Fails /\ UNCHANGED genaiVars
       \/ /\ made' = made \cup {Art("container", 0, Destination, AllArs)}
          /\ fault' = TRUE /\ pc' = "failed" /\ live' = {}
          /\ UNCHANGED <<spec, at, evidence, progress, reports, genaiVars>>
       \/ /\ Makes({Art("container", 0, Destination, AllArs)})
          /\ pc' = "done" /\ raw' = << >>
          /\ UNCHANGED <<at, saved>>
    /\ UNCHANGED minted

-----------------------------------------------------------------------------
\* Fault: one dimension in the right order is enough.
OrderSeen(g) ==
    Len(spec.ars) < 2 \/ spec.ars \in g.columns

\* _ar_graph_order_error: the graphs are bound to ARs by their position, and a
\* dimension that takes the ARs as its values must prove that position.
OrderProven(g) ==
    LET observed == {c \in g.columns : IsInjective(c) /\ Range(c) = AllArs}
    IN  Len(spec.ars) < 2 \/ (observed # {} /\ \A c \in observed : c = spec.ars)

\* The graph of each AR; one graph serves all of them.
Bound(g) == [ar \in AllArs |->
    IF Len(g.ars) = 1 THEN 1
    ELSE CHOOSE i \in DOMAIN spec.ars : spec.ars[i] = ar]

Describable(g) ==
    /\ g.asset /\ g.names
    /\ \/ Len(g.ars) = Len(spec.ars) /\ OrderProven(g)
       \/ Len(g.ars) = 1 /\ Len(spec.ars) # 1

\* The executor of the SDK runs neither images nor audio.
RuntimeSupported == spec.family \notin {"qwen3_vl", "qwen3_5_omni"}

\* _saved_genai_raw_slices: all slices are described, or none.
DescribeSlices ==
    /\ pc = "genai_raw"
    /\ raw' = IF /\ RuntimeSupported /\ saved # << >>
                 /\ \A g \in Elements(saved) : Describable(g)
              THEN [i \in DOMAIN saved |-> Bound(saved[i])]
              ELSE << >>
    /\ pc' = "done"
    /\ UNCHANGED <<spec, at, made, live, minted, evidence, reports, progress,
                   fault, saved>>

GenaiNext == CheckContainer \/ BuildContainer \/ BuildOmni \/ DescribeSlices
-----------------------------------------------------------------------------
\* An AR that is bound to a graph of a saved slice is bound to one that was
\* compiled for it: _ar_graph_order_error, "Prove the AR->graph binding instead
\* of trusting list order".
RawSlicesTrue ==
    raw # NoSlices =>
        \A i \in DOMAIN raw : \A ar \in AllArs : ar \in saved[i].ars[raw[i][ar]]
=============================================================================
