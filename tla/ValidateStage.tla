--------------------------- MODULE ValidateStage ---------------------------
(***************************************************************************)
(* validate, src/qairt_agent/pipeline_stages/validate.py with              *)
(* vectors_for_quality.py and float_reference.py: for every AR, the        *)
(* contexts are executed on the device and compared with references, and   *)
(* a report says which slices deviate by themselves (teacher-forced), in   *)
(* the chain, and at the end of the model (full reference).                *)
(***************************************************************************)
EXTENDS StageCall

\* No tensors: the mode was not executed.
NoTree == << >>

Modes == {"full_reference", "teacher_forced", "chain"}

\* The fields of a call that validate reads.
ASSUME ValidateAssumption ==
    \A c \in {d \in Calls : d.stage = "validate"} :
        /\ c.modes \subseteq Modes
        /\ c.float \in {"none", "slice_boundary", "layer"}
        /\ c.goldens \in {"none", "some", "all"}
        /\ c.dump \in BOOLEAN

Requested(mode) == mode \in call.modes

\* automatic_mode_execution.
RunsModes == call.form # "outputs" /\ call.modes # {}

PerSlice == RunsModes /\ (Requested("teacher_forced") \/ Requested("chain"))

BeginValidate == Starts("validate", "bind")

\* The graph or chain that is executed.  Of a container, only saved slices that
\* could be described can be.
IsChain(b) ==
    b.scope = "chain" \/ (Automatic /\ index.lane = "genai_builder")

Executable(b) ==
    /\ b # NotSelectable
    /\ Automatic /\ index.lane = "genai_builder" =>
         index.supported /\ b.scope # "container"
    /\ InScope(b)

BindValidate ==
    /\ phase = "bind"
    /\ IF call.form = "outputs"
       THEN Proceed("reference", [binding |-> [scope |-> "none", routes |-> << >>,
                                               ar |-> call.ar, cl |-> call.cl]])
       ELSE IF Executable(Binding)
       THEN Proceed("reference", [binding |-> Binding])
       ELSE RefuseCall

-----------------------------------------------------------------------------
\* References.

\* The goldens of the model: those of the vector or, if it has none, all outputs
\* of the AR's model, computed by ONNX Runtime.
ModelGoldens(vector) ==
    CASE vector.goldens = "logits" -> {t \in ModelOutputs : ~t.state}
      [] OTHER -> ModelOutputs

\* _prepare_slice_quality_vectors: goldens of every slice from the caller, or
\* the transformed models of this AR executed one after the other.
ReferenceRun(b) == RunRoutes(b, "device_chain", {}, << >>)

HasSliceModels(b) ==
    b.cl # 0 /\ \A r \in Elements(b.routes) :
        <<b.cl, b.ar, r.slice>> \in index.slice_models

MakesGoldens(b) ==
    IF call.goldens # "none" THEN call.goldens = "all"
    ELSE HasSliceModels(b) /\ ~ReferenceRun(b).failed

\* The golden inputs of each slice, from the manifests or that execution.
GoldenInputs(b) ==
    LET executions == ReferenceRun(b).executions
    IN  IF call.goldens = "all"
        THEN [s \in {r.slice : r \in Elements(b.routes)} |->
                Given((CHOOSE r \in Elements(b.routes) : r.slice = s).inputs, 1)]
        ELSE [s \in {e.slice : e \in Elements(executions)} |->
            (CHOOSE e \in Elements(executions) : e.slice = s).inputs]

SliceGoldens(b) == [s \in {r.slice : r \in Elements(b.routes)} |->
    (CHOOSE r \in Elements(b.routes) : r.slice = s).outputs]

\* Model goldens are captured before the slices' are; both may fail.
PrepareReferences ==
    /\ phase = "reference"
    /\ LET b == work.binding
           vector == IF call.form = "outputs" THEN call.vector ELSE VectorFor(b)
           split == PerSlice /\ IsChain(b)
           model == Whole(ModelGoldens(vector))
       IN  IF vector = NoManifest \/ (split /\ ~MakesGoldens(b))
           THEN RefuseCall
           ELSE \/ FailCall
                \/ Proceed(IF call.form = "outputs" THEN "report" ELSE "execute",
                     [binding |-> b, vector |-> vector, model |-> model,
                      slices |-> IF split THEN SliceGoldens(b) ELSE model,
                      forced |-> IF split /\ Requested("teacher_forced")
                                 THEN GoldenInputs(b) ELSE << >>,
                      noisy |-> {}, device |-> call.outputs,
                      chain |-> call.outputs, teacher |-> NoTree,
                      tapped |-> {}])

-----------------------------------------------------------------------------
\* Execution on the device.

\* _diagnostic_device_outputs: every diagnostic context of the context length
\* must have a graph for the AR, and every slice of the chain a context.
Entries(b) == {d \in index.diagnostics : d.cl = b.cl}

\* Fault: a context will do that has no graph for the AR.
LayeredAnyAr(b) ==
    LET slices == {d.slice : d \in Entries(b)}
    IN  /\ Entries(b) # {}
        /\ IF IsChain(b)
           THEN \A r \in Elements(b.routes) : r.slice \in slices
           ELSE Cardinality(slices) = 1

Layered(b) ==
    LET slices == {d.slice : d \in Entries(b)}
    IN  /\ Entries(b) # {}
        /\ \A d \in Entries(b) : b.ar \in d.ars
        /\ IF IsChain(b)
           THEN \A r \in Elements(b.routes) : r.slice \in slices
           ELSE Cardinality(slices) = 1

\* What the device has done: the run that feeds each slice with what the device
\* has made of the one before, and the one that feeds it with goldens.
ExecuteModes ==
    /\ phase = "execute"
    /\ \/ FailCall
       \/ \E noisy \in NoisySets :
            LET b == work.binding
                chained == RunRoutes(b, "device_chain", noisy, << >>)
                taught == RunRoutes(b, "teacher_forced", noisy, work.forced)
                needs == IF IsChain(b)
                         THEN ~RunsModes \/ Requested("full_reference")
                              \/ Requested("chain")
                         ELSE TRUE
                teaches == RunsModes /\ Requested("teacher_forced")
            IN  IF \/ work.vector.ar # ExecutedAr(b)
                   \/ needs /\ chained.failed
                   \/ teaches /\ IsChain(b) /\ taught.failed
                   \/ call.float = "layer" /\ ~Layered(b)
                THEN RefuseCall
                ELSE Proceed("report",
                  [work EXCEPT
                     !.noisy = noisy,
                     !.device = IF needs THEN FinalOutputs(chained) ELSE NoTree,
                     !.chain =
                        IF RunsModes /\ ~Requested("chain") THEN NoTree
                        ELSE IF IsChain(b) /\ RunsModes
                        THEN OutputsBySlice(chained)
                        ELSE FinalOutputs(chained),
                     !.teacher =
                        IF ~teaches THEN NoTree
                        ELSE IF IsChain(b) THEN OutputsBySlice(taught)
                        ELSE FinalOutputs(chained),
                     !.tapped = IF call.float = "layer" THEN Entries(b) ELSE {}])

-----------------------------------------------------------------------------
\* Comparison: diagnose_slices raises when an output of a reference is missing.
Comparable(references, outputs) ==
    outputs # NoTree =>
        \A x \in DOMAIN references :
            references[x] # {} =>
                x \in DOMAIN outputs /\ references[x] \subseteq DOMAIN outputs[x]

Diverged(references, outputs) ==
    IF outputs = NoTree THEN {}
    ELSE {x \in DOMAIN references :
             \E t \in references[x] : outputs[x][t].noise # {}}

\* What each requested mode is compared with what.
Compared(mode) ==
    CASE mode = "full_reference" ->
            [references |-> work.model, outputs |-> work.device]
      [] mode = "teacher_forced" ->
            [references |-> work.slices, outputs |-> work.teacher]
      [] OTHER -> [references |-> work.slices, outputs |-> work.chain]

Reportable ==
    /\ Comparable(work.slices, work.teacher)
    /\ Comparable(work.slices, work.chain)
    /\ \A m \in call.modes :
         /\ Compared(m).outputs # NoTree
         /\ Comparable(Compared(m).references, Compared(m).outputs)

Errors == [m \in call.modes |-> Diverged(Compared(m).references, Compared(m).outputs)]

Top == [teacher |-> Diverged(work.slices, work.teacher),
        chain |-> Diverged(work.slices, work.chain)]

Divergence ==
    IF call.modes = {} THEN Top.teacher \cup Top.chain # {}
    ELSE \E m \in call.modes : Errors[m] # {}

\* _float_reference_report, which compares the chain's tensors with those of the
\* unquantised model, for the AR that is executed.
FloatComparable ==
    /\ call.float = "layer" => work.tapped # {}
    /\ call.float_ar # 0
    /\ work.binding.ar \in {0, call.float_ar}
    /\ work.chain # NoTree

\* _diagnostic_context_evidence, with an explicit binding that has no context
\* length to look them up for.
Triggered == RunsModes /\ call.dump /\ Divergence

DumpEvidence ==
    IF ~Triggered THEN "not_triggered"
    ELSE IF Entries(work.binding) # {} THEN "op_intermediate_contexts"
    ELSE "slice_tensor_only"

Report ==
    [ar |-> work.binding.ar, binding |-> work.binding, vector |-> work.vector, noisy |-> work.noisy,
     executed |-> call.form # "outputs", modes |-> call.modes, top |-> Top,
     errors |-> Errors, diverged |-> Divergence, evidence |-> DumpEvidence,
     float |-> IF call.float = "none" THEN "none"
               ELSE IF work.tapped # {} THEN "op_level" ELSE "slice_boundary",
     tapped |-> work.tapped]

\* The logical name of a slice's reference does not tell its AR.
References ==
    IF PerSlice /\ IsChain(work.binding) /\ call.goldens = "none"
    THEN [n \in {<<"slice_reference", s>> : s \in DOMAIN work.slices} |->
            [ar |-> work.binding.ar]]
    ELSE << >>

Reports ==
    Over(Artifact(Name("sqnr_report"), [kind |-> "one", results |-> <<Report>>]),
         Over(References,
              IF call.float = "none" THEN << >>
              ELSE Artifact(Name("float_reference_report"),
                            [ar |-> work.binding.ar])))

PublishReport ==
    /\ phase = "report"
    /\ IF /\ Reportable
          /\ call.float # "none" => FloatComparable
          /\ Triggered => work.binding.cl # 0
       THEN \/ FailCall
            \/ NextAr(Reports, "bind", "aggregate")
       ELSE RefuseCall

\* The report on all ARs; its divergence is read from the top level of theirs.
PublishAggregate ==
    /\ phase = "aggregate" /\ call.stage = "validate"
    /\ LET one == [i \in DOMAIN spec.ars |->
                     drafts[<<"sqnr_report", spec.ars[i]>>].results[1]]
           all == [kind |-> "all", results |-> one,
                   ars |-> AllArs, cls |-> Range(spec.cls),
                   diverged |-> \E i \in DOMAIN one :
                      one[i].top.teacher \cup one[i].top.chain # {}]
       IN  EndCall(Over(Artifact(<<"sqnr_report", 0>>, all), drafts))

ValidateNext ==
    \/ BeginValidate \/ BindValidate \/ PrepareReferences \/ ExecuteModes
    \/ PublishReport \/ PublishAggregate
-----------------------------------------------------------------------------
QualityReports ==
    UNION {Elements(shelf[n].results) :
             n \in {m \in DOMAIN shelf : m[1] = "sqnr_report"}}

\* The slices that a deviation in `from` reaches in the undivided model.
Reached(from, slices) ==
    LET feeds(m, n) == \E t \in Outputs[m] : ~t.state /\ t \in Inputs[n]
        closed == {S \in SUBSET slices :
                     /\ from \cap slices \subseteq S
                     /\ \A m \in S, n \in slices : feeds(m, n) => n \in S}
    IN  {n \in slices : \A S \in closed : n \in S}

\* docs/first-run.md: teacher-forced errors are a slice's own, chained ones are
\* its own and those it has inherited.  A report blames exactly the slices that
\* deviate, and the chain and the whole model exactly when one reaches them.
DeviationsAttributed ==
    \A r \in QualityReports :
        r.executed /\ Len(r.binding.routes) > 1 =>
            LET slices == {q.slice : q \in Elements(r.binding.routes)}
                last == Last(r.binding.routes).slice
            IN  /\ "teacher_forced" \in r.modes =>
                     r.errors["teacher_forced"] = r.noisy \cap slices
                /\ "chain" \in r.modes =>
                     r.errors["chain"] = Reached(r.noisy, slices)
                /\ "full_reference" \in r.modes =>
                     (r.errors["full_reference"] # {}
                        <=> last \in Reached(r.noisy, slices))

\* A layer-level comparison is about intermediate tensors that the device has
\* computed, from graphs of this AR with intermediate outputs, for every slice of
\* the chain.
LayersTapped ==
    \A r \in QualityReports :
        r.float = "op_level" =>
            /\ \A d \in r.tapped : d.tapped /\ r.ar \in d.ars
            /\ {q.slice : q \in Elements(r.binding.routes)}
                 \subseteq {d.slice : d \in r.tapped}

\* What a report attributes to slices and to layers has been measured there: its
\* deviations are those of the slices it blames, and layers it compares were tapped.
AttributionTrue == DeviationsAttributed /\ LayersTapped

\* A build whose vectors were accepted: every AR has its graphs and its vector,
\* and every slice a context.
Validatable ==
    /\ spec.lane = "low_level" /\ ~spec.boundary
    /\ spec.shared \/ Len(spec.ars) = 1
    /\ DOMAIN vectors = AllArs

\* The last call was a validation that named nothing but modes.
PlainValidation ==
    /\ ended.call # NoCall /\ ended.call.stage = "validate"
    /\ ended.call.form = "automatic" /\ ended.call.component = Text
    /\ ended.call.ar \in AllArs \cup {0} /\ ended.call.cl = 0
    /\ ended.call.vector = NoManifest /\ ended.call.goldens = "none"
    /\ ended.call.float = "none"

\* What a build publishes can be validated without naming a graph or a vector:
\* no validation with the vectors' own goldens is refused.
PublishedIsValidatable ==
    Validatable /\ (\A ar \in AllArs : vectors[ar].goldens = "logits")
        /\ PlainValidation => ended.how # "refused"

\* README.md: "When a selected validation manifest contains raw inputs but no
\* goldens, validation automatically captures ONNX Runtime outputs and records
\* the fallback provenance".  Such a validation is not refused either.
FallbackUsable ==
    Validatable /\ (\A ar \in AllArs : vectors[ar].goldens = "none")
        /\ PlainValidation => ended.how # "refused"
=============================================================================
