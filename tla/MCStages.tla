------------------------------ MODULE MCStages ------------------------------
(***************************************************************************)
(* A model of an embedding and two slices of decoder layers, built by each *)
(* lane and for each family with the configurations that branch: one or    *)
(* two context lengths, one AR or two, shared or not, diagnostic contexts  *)
(* or none, vectors that fit, that must be reshaped or that are missing.   *)
(***************************************************************************)
EXTENDS DiagnoseStage

T(stem) == [stem |-> stem, state |-> FALSE, side |-> "none"]
In(stem) == [stem |-> stem, state |-> TRUE, side |-> "in"]
Out(stem) == [stem |-> stem, state |-> TRUE, side |-> "out"]

MCSlices == <<"embedding", "layers0", "layers1">>
MCDecoders == {"layers0", "layers1"}
MCInputs == [embedding |-> {T("ids")},
             layers0 |-> {T("hidden0"), T("mask"), In("kv0")},
             layers1 |-> {T("hidden1"), T("mask"), In("kv1")},
             vit |-> {T("pixels")}, vision_projector |-> {T("pixels")}]
MCOutputs == [embedding |-> {T("hidden0")},
              layers0 |-> {T("hidden1"), Out("kv0")},
              layers1 |-> {T("logits"), Out("kv1")},
              vit |-> {T("image")}, vision_projector |-> {T("image")}]

Fits(ars) == [exact |-> ars, reshapes |-> {}, goldens |-> "logits"]

Plain ==
    [lane |-> "low_level", family |-> "qwen3", cls |-> <<512>>, ars |-> <<1>>,
     sources |-> TRUE, ready |-> TRUE, auto |-> TRUE, validator |-> TRUE,
     shared |-> FALSE, native |-> TRUE, boundary |-> FALSE, diagnostic |-> TRUE,
     vision |-> "none", cases |-> {1, 128}, attached |-> {}, exist_ok |-> FALSE,
     base |-> Fits({1}), by_ar |-> << >>]

Shared == [Plain EXCEPT !.ars = <<1, 128>>, !.shared = TRUE, !.boundary = TRUE,
                        !.base = NoManifest]
Hybrid == [Shared EXCEPT !.family = "qwen3_5",
                         !.base = [Fits({1}) EXCEPT !.reshapes = {128}]]
Multimodal == [Plain EXCEPT !.family = "qwen3_vl", !.vision = "fits"]
Vit == [Plain EXCEPT !.lane = "vit", !.family = "vit"]
Genai == [Shared EXCEPT !.lane = "genai_builder"]
GenaiHybrid == [Genai EXCEPT !.family = "qwen3_5", !.attached = {1, 128},
                    !.by_ar = (1 :> Fits({1})) @@ (128 :> Fits({128}))]

MCSpecs ==
    {Plain, Shared, Hybrid, Multimodal, Vit, Genai, GenaiHybrid,
     [Plain EXCEPT !.cls = <<300>>, !.native = FALSE],
     [Plain EXCEPT !.base = [@ EXCEPT !.goldens = "none"]],
     [Plain EXCEPT !.ars = <<1, 128>>, !.diagnostic = FALSE,
                   !.base = NoManifest,
                   !.by_ar = (1 :> Fits({1})) @@ (128 :> Fits({128}))],
     [Shared EXCEPT !.by_ar = (1 :> Fits({1}))],
     [Shared EXCEPT !.boundary = FALSE,
                    !.by_ar = (1 :> Fits({1})) @@ (128 :> Fits({128}))],
     [Hybrid EXCEPT !.boundary = FALSE, !.base = NoManifest,
                    !.by_ar = (1 :> Fits({1})) @@ (128 :> Fits({128}))],
     [Shared EXCEPT !.cls = <<512, 1024>>, !.diagnostic = FALSE],
     [Shared EXCEPT !.cls = <<512, 1024>>, !.boundary = FALSE,
                    !.base = Fits({1, 128})],
     [Hybrid EXCEPT !.cls = <<512, 1024>>, !.boundary = FALSE],
     [Hybrid EXCEPT !.validator = FALSE],
     [Hybrid EXCEPT !.cases = {1}],
     [Hybrid EXCEPT !.auto = FALSE],
     [Multimodal EXCEPT !.vision = "symbolic"],
     [Multimodal EXCEPT !.vision = "unfit"],
     [Genai EXCEPT !.ars = <<1>>, !.shared = FALSE],
     [Genai EXCEPT !.ars = <<1>>, !.shared = FALSE, !.family = "qwen3_vl",
                   !.vision = "fits"],
     [Genai EXCEPT !.base = Fits({1})],
     [GenaiHybrid EXCEPT !.attached = {1}],
     [GenaiHybrid EXCEPT !.family = "qwen3_5_omni"]}

Slice2(ars, columns) ==
    [ars |-> ars, columns |-> columns, asset |-> TRUE, names |-> TRUE]

\* What the SDK may have saved: graphs in the order of the ARs or not, with the
\* AR visible in a dimension or not, and one graph that serves both ARs.
MCSavedSlices ==
    LET both == <<{1}, {128}>>
        swapped == <<{128}, {1}>>
        good == Slice2(both, {<<1, 128>>})
    IN  {<< >>, <<good, good, good>>,
         <<Slice2(<<{1, 128}>>, {}), good, good>>,
         <<good, Slice2(both, {<<512, 512>>}), good>>,
         <<good, Slice2(swapped, {<<128, 1>>}), good>>,
         <<good, Slice2(swapped, {<<128, 1>>, <<1, 128>>}), good>>,
         <<[good EXCEPT !.names = FALSE], good, good>>,
         <<Slice2(<<{1}>>, {}), Slice2(<<{1}>>, {}), Slice2(<<{1}>>, {})>>}

-----------------------------------------------------------------------------
\* The calls.
Anything == [form |-> "automatic", ar |-> 0, cl |-> 0, component |-> "none",
             binding |-> NotSelectable, vector |-> NoManifest]

Validation == Anything @@
    [stage |-> "validate", modes |-> Modes, goldens |-> "none", float |-> "none",
     float_ar |-> 0, dump |-> FALSE, outputs |-> NoTree]
Benchmark == Anything @@
    [stage |-> "benchmark", steps |-> << >>, optrace |-> TRUE, runs |-> 2,
     prompt |-> FALSE]
Diagnosis == Anything @@ [stage |-> "diagnose", kind |-> "both"]

\* Chains that the caller names: the whole model, and its decoder layers.
ChainOf(names) ==
    LET contexts == [i \in DOMAIN names |->
            [slice |-> names[i], cl |-> 512, ars |-> {1, 128}, tapped |-> FALSE]]
    IN  [scope |-> "chain", routes |-> SliceRoutes(contexts, 512), ar |-> 1,
         cl |-> 512, component |-> "none"]

\* A step that fills the cache and one that uses it.
GivenSteps ==
    LET Fed(k) == Given({T("hidden0"), T("mask")}, k)
    IN  <<[ar |-> 128, inputs |-> Fed(1), goldens |-> << >>],
          [ar |-> 1, inputs |-> Fed(2), goldens |-> << >>]>>

Own == Vector(1, "logits")

MCValidations ==
    {Validation,
     [Validation EXCEPT !.modes = {"full_reference"}, !.dump = TRUE],
     [Validation EXCEPT !.component = "text"],
     [Validation EXCEPT !.modes = {"chain"}, !.ar = 1, !.dump = TRUE],
     [Validation EXCEPT !.modes = {"chain"}, !.float = "slice_boundary",
                        !.float_ar = 1, !.ar = 1],
     [Validation EXCEPT !.modes = {"chain"}, !.float = "layer", !.float_ar = 1,
                        !.ar = 1],
     [Validation EXCEPT !.form = "given", !.binding = ChainOf(MCSlices),
                        !.vector = Own, !.goldens = "all"],
     [Validation EXCEPT !.form = "outputs", !.vector = Own, !.modes = {},
                        !.outputs = "model" :> [t \in {T("logits")} |->
                                        Value("model", 1, {"layers1"})]]}

MCBenchmarks ==
    {Benchmark,
     [Benchmark EXCEPT !.optrace = FALSE, !.prompt = TRUE],
     [Benchmark EXCEPT !.form = "given", !.vector = Own,
                       !.binding = ChainOf(Tail(MCSlices)), !.steps = GivenSteps]}

MCDiagnoses ==
    {[Diagnosis EXCEPT !.kind = k] : k \in {"both", "quality", "latency"}}
    \cup {[Diagnosis EXCEPT !.kind = "quality", !.form = "given"]}

\* Each tool with an input and without one; models compiled together and alone;
\* a chain in each mode, one that goes on from a state and one of two steps.
SingleTool == Anything @@
    [stage |-> "tool", tool |-> "convert", given |-> TRUE, slice |-> "layers0",
     ars |-> {1, 128}, derived |-> TRUE, shared |-> TRUE, native |-> TRUE,
     mode |-> "device_chain", steps |-> << >>, forced |-> << >>, state |-> << >>]
Compilation == [SingleTool EXCEPT !.tool = "compile_context", !.cl = 512]
OfChain == [SingleTool EXCEPT !.tool = "run_chain", !.binding = ChainOf(MCSlices)]

MCTools ==
    {[SingleTool EXCEPT !.tool = t] : t \in ToolNames}
    \cup {[SingleTool EXCEPT !.tool = "quantize", !.given = FALSE],
          Compilation, [Compilation EXCEPT !.derived = FALSE],
          [Compilation EXCEPT !.shared = FALSE, !.ars = {1}],
          [Compilation EXCEPT !.shared = FALSE], [Compilation EXCEPT !.cl = 300],
          [SingleTool EXCEPT !.tool = "run_graph", !.vector = Own,
             !.binding = [ChainOf(<<"embedding">>) EXCEPT !.scope = "graph"]],
          [OfChain EXCEPT !.vector = Own,
             !.state = [x \in {"kv0", "kv1"} |-> Value("vector", 1, {})]],
          [OfChain EXCEPT !.vector = Own, !.mode = "teacher_forced",
             !.forced = [s \in Range(MCSlices) |-> Given(MCInputs[s], 1)]],
          [OfChain EXCEPT !.binding = ChainOf(Tail(MCSlices)),
             !.steps = GivenSteps,
             !.state = [x \in {"kv0", "kv1"} |-> Value("vector", 1, {})]]}

MCCalls == MCValidations \cup MCBenchmarks \cup MCDiagnoses \cup MCTools

MCNoisySets == {{}, {"layers0"}, {"layers1"}}

-----------------------------------------------------------------------------
\* Bounds.  No call reads what build has written about its progress, so calls
\* are made where no line was lost.  Only a call that has published something is
\* followed by another: a validation by a diagnosis, a benchmark by a diagnosis,
\* by a second benchmark, or by a validation that inherits its artifacts.  The
\* tools are called where a chain of slices was built.
Unlost ==
    \A a \in made : a.kind = "context" /\ a.cl # 0 =>
        \E p \in progress : p.cl = a.cl /\ p.slice = a.slice

Follows(previous, next) ==
    /\ previous.stage \notin {"diagnose", "tool"}
    /\ previous.stage = "validate" => next.stage = "diagnose"
    /\ next.stage = "validate" => next.form = "outputs"

Worthwhile ==
    called > 0 =>
        /\ Unlost
        /\ ended.how \in {"none", "done"}
        /\ call # NoCall /\ ended.call # NoCall => Follows(ended.call, call)
        /\ call # NoCall /\ call.form = "given" => spec.lane = "low_level"
        /\ call # NoCall /\ call.stage = "tool" => called = 1 /\ spec.lane = "low_level"

Ended == /\ \/ pc = "failed"
            \/ pc = "succeeded" /\ call = NoCall /\ called = MaxCalls
         /\ UNCHANGED stagesVars

Spec == StagesInit /\ [][StagesNext \/ Ended]_stagesVars
=============================================================================
