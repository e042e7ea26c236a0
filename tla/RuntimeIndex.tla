--------------------------- MODULE RuntimeIndex ---------------------------
(***************************************************************************)
(* What a build publishes for the stages after it, and how they read it:   *)
(* the slice routes (pipeline_stages/planning.py), the runtime index       *)
(* (runtime/index.py) and the selection of one binding from it.  All of    *)
(* these are functions of the build's result, so the module has operators  *)
(* only.                                                                   *)
(*                                                                         *)
(* A graph is named by the AR it was made for.  A context is a record      *)
(*   [slice, cl, ars]                                                      *)
(* whose cl is 0 when it is independent of the context length; a           *)
(* diagnostic context also says whether its graphs were compiled with      *)
(* intermediate outputs ("tapped").                                        *)
(***************************************************************************)
EXTENDS Naturals, SequencesExt

CONSTANTS
    Slices,   \* slice names of the split plan, in its order
    Inputs,   \* for each slice, the tensors it takes
    Outputs,  \* and the tensors it produces
    VisionSlice,  \* "vision_projector"
    NotSelectable \* select_runtime_binding raises

\* A tensor of a KV cache or of a recurrent state is an input under one name
\* and an output under another.
Tensor == [stem : STRING, state : BOOLEAN, side : {"in", "out", "none"}]

ASSUME TensorAssumption ==
    \A s \in Range(Slices) : Inputs[s] \cup Outputs[s] \subseteq Tensor

\* _state_slot: both names of a state tensor are rewritten to one slot.
StateSlot(t) == t.stem

Elements(seq) == {seq[i] : i \in DOMAIN seq}

\* Slices of one ONNX model in their order: a tensor has one producer, which
\* comes before the slices that take it; a state belongs to one slice, which
\* returns every state that it takes; and every slice computes something.
Wired(names) ==
    \A i, j \in DOMAIN names :
        LET s == names[i]
            r == names[j]
        IN  /\ \E t \in Outputs[s] : ~t.state
            /\ \A t \in Inputs[s] : t.state =>
                 \E u \in Outputs[s] : u.state /\ StateSlot(u) = StateSlot(t)
            /\ \A t \in Outputs[s] \cap Inputs[r] : t.state \/ i < j
            /\ i # j =>
                 /\ \A t \in Outputs[s] \cap Outputs[r] : t.state
                 /\ \A t \in Inputs[s] \cup Outputs[s], u \in Inputs[r] \cup Outputs[r] :
                      t.state /\ u.state => StateSlot(t) # StateSlot(u)

\* split_llm cuts between decoder layers: what no slice takes comes from the last.
ASSUME WiringAssumption ==
    /\ Wired(Slices)
    /\ \A i \in DOMAIN Slices : i # Len(Slices) =>
         \A t \in Outputs[Slices[i]] :
            t.state \/ \E s \in Range(Slices) : t \in Inputs[s]

\* sorted(): a set in the order in which <<a, b>> says that a comes before b.
Ranked(S, before) ==
    [i \in 1 .. Cardinality(S) |->
        CHOOSE a \in S : Cardinality({b \in S : <<b, a>> \in before}) = i - 1]

-----------------------------------------------------------------------------
\* Routes.

\* contexts_by_slice of one context length: a later context of the same slice
\* replaces an earlier one.
ContextsBySlice(contexts, cl) ==
    LET of(s) == {i \in DOMAIN contexts : contexts[i].cl = cl /\ contexts[i].slice = s}
    IN  [s \in {contexts[i].slice : i \in {j \in DOMAIN contexts : contexts[j].cl = cl}}
           |-> contexts[Max(of(s))]]

\* One route: its context, the ARs it has a graph for, and where every input
\* comes from.  `earlier` are the outputs of the slices before it.
Route(s, context, earlier) ==
    LET previous == {t \in Inputs[s] : t \in earlier /\ ~t.state}
    IN  [slice |-> s,
         ars |-> context.ars,
         inputs |-> Inputs[s],
         outputs |-> Outputs[s],
         from_previous |-> previous,
         unresolved |-> {t \in Inputs[s] : t \notin previous /\ ~t.state}]

\* Routes that belong together.
Chained(routes) ==
    /\ Wired([i \in DOMAIN routes |-> routes[i].slice])
    /\ \A i \in DOMAIN routes :
         routes[i] = Route(routes[i].slice, routes[i],
                           UNION {Outputs[routes[j].slice] : j \in 1 .. i - 1})

\* _publish_slice_routes for one context length: the slices that have a
\* context and a transformed model, in the order of the split plan.
SliceRoutes(contexts, cl) ==
    LET by == ContextsBySlice(contexts, cl)
        places == DOMAIN Slices
        indices == Ranked({i \in places : Slices[i] \in DOMAIN by},
                          {p \in places \X places : p[1] < p[2]})
        name(i) == Slices[indices[i]]
    IN  [i \in DOMAIN indices |->
           Route(name(i), by[name(i)], UNION {Outputs[name(j)] : j \in 1 .. i - 1})]

-----------------------------------------------------------------------------
\* make_runtime_index.  A build result is a record [lane, family, contexts,
\* diagnostics, slice_models, variants, vision_model, raw, supported]; `vectors`
\* has the exact vector manifest of each AR that has one, `base` the manifest
\* of the others.
Component(family, slice) ==
    CASE family = "qwen3_vl" -> IF slice = VisionSlice THEN "vision" ELSE "text"
      [] family = "vit" -> "vision"
      [] OTHER -> "model"

IndexedCl(cl, default) == IF cl = 0 THEN default ELSE cl

MakeIndex(result, default, vectors, base) ==
    LET indexed(seq) ==
            [i \in DOMAIN seq |-> [seq[i] EXCEPT !.cl = IndexedCl(@, default.cl)]]
        cls == {c.cl : c \in Elements(result.contexts)} \ {0}
    IN  [lane |-> result.lane,
         family |-> result.family,
         end_to_end |-> ~ (result.lane = "low_level" /\ result.family = "qwen3_vl"),
         default |-> default,
         contexts |-> [cl \in {c.cl : c \in Elements(indexed(result.contexts))}
                         |-> ContextsBySlice(indexed(result.contexts), cl)],
         routes |-> IF result.slice_models # {}
                    THEN [cl \in cls |-> SliceRoutes(result.contexts, cl)]
                    ELSE << >>,
         variants |-> result.variants,
         slice_models |-> result.slice_models,
         diagnostics |-> {[c EXCEPT !.cl = IndexedCl(@, default.cl)] :
                            c \in result.diagnostics},
         vision_model |-> result.vision_model,
         vectors |-> vectors,
         base |-> base,
         raw |-> result.raw,
         supported |-> result.supported]

-----------------------------------------------------------------------------
\* select_runtime_binding: one graph or one chain for an AR and a context
\* length, or an error.  `component` is "none" when the caller names none.

\* A route, and a binding of one graph, of a chain or of a container.
RouteOf == [slice : STRING, ars : SUBSET Nat, inputs : SUBSET Tensor,
            outputs : SUBSET Tensor, from_previous : SUBSET Tensor,
            unresolved : SUBSET Tensor]
BindingOf == [scope : {"graph", "chain", "container"}, routes : Seq(RouteOf),
              ar : Nat, cl : Nat, component : {"none", "text", "vision", "model"}]

ASSUME BindingAssumption == NotSelectable \notin BindingOf

ScopeOf(routes) == IF Len(routes) > 1 THEN "chain" ELSE "graph"

Chain(routes, cl, ar, component) ==
    IF Len(routes) > 0 /\ \A i \in DOMAIN routes : ar \in routes[i].ars
    THEN [scope |-> ScopeOf(routes), routes |-> routes, ar |-> ar, cl |-> cl,
          component |-> component]
    ELSE NotSelectable

\* The vision encoder is a graph of its own.
ASSUME VisionAssumption == Wired(<<VisionSlice>>)

Graph(slice, cl, ar, component) ==
    [scope |-> "graph", routes |-> <<Route(slice, [ars |-> {ar}], {})>>,
     ar |-> ar, cl |-> cl, component |-> component]

SelectVision(index, cl) ==
    LET at == IF cl \in DOMAIN index.contexts THEN index.contexts[cl] ELSE << >>
        candidates == {s \in DOMAIN at : Component(index.family, s) = "vision"}
    IN  IF index.vision_model /\ \E s \in candidates : candidates = {s}
        THEN Graph(VisionSlice, cl, 1, "vision")
        ELSE NotSelectable

\* Without a route, the one context that has a graph for the AR.
SelectGraph(index, cl, ar, component) ==
    LET at == IF cl \in DOMAIN index.contexts THEN index.contexts[cl] ELSE << >>
        candidates == {s \in DOMAIN at : ar \in at[s].ars}
    IN  IF \E s \in candidates : candidates = {s}
        THEN Graph(CHOOSE s \in candidates : TRUE, cl, ar, component)
        ELSE NotSelectable

SelectBinding(index, ar, cl, component) ==
    LET split == index.lane = "low_level" /\ index.family = "qwen3_vl"
    IN  IF split /\ (component \notin {"text", "vision"} \/ index.end_to_end)
        THEN NotSelectable
        ELSE IF index.lane = "genai_builder"
        THEN IF index.raw = << >>
             THEN [scope |-> "container", routes |-> << >>, ar |-> ar, cl |-> cl,
                   component |-> component]
             ELSE Chain(index.raw, cl, ar, component)
        ELSE IF component = "vision" THEN SelectVision(index, cl)
        ELSE IF cl \in DOMAIN index.routes
        THEN Chain(index.routes[cl], cl, ar, component)
        ELSE SelectGraph(index, cl, ar, component)

=============================================================================
