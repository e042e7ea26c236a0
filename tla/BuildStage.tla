----------------------------- MODULE BuildStage -----------------------------
(***************************************************************************)
(* The stages build and build_genai_container,                             *)
(* src/qairt_agent/pipeline_stages/build.py and planning.py: the           *)
(* configuration is resolved, one of three lanes of the adapter builds,    *)
(* validation vectors are bound to the models of each AR, and the slice    *)
(* routes and the runtime index are published for the stages that follow.  *)
(***************************************************************************)
EXTENDS GenaiBuild

CONSTANTS
    NoManifest,   \* no vector manifest is given
    VitSlice,     \* the one slice of a standalone vision transformer
    NoIndex

VARIABLES
    vectors,      \* the vector manifest that is bound to each AR
    index         \* the runtime index, once it is published

stageVars == <<buildVars, genaiVars, vectors, index>>

\* A vector manifest: the ARs whose model it fits exactly, those to which it
\* can be reshaped, and the outputs it has goldens of.
Manifest == [exact : SUBSET Nat, reshapes : SUBSET Nat,
             goldens : {"none", "logits", "all"}]

ASSUME ManifestAssumption == NoManifest \notin Manifest

ASSUME StageAssumption ==
    \A s \in Specs :
        /\ s.lane \in {"low_level", "vit", "genai_builder"}
        /\ s.sources \in BOOLEAN /\ s.exist_ok \in BOOLEAN
        /\ s.base \in Manifest \cup {NoManifest}
        /\ \A ar \in DOMAIN s.by_ar : ar \in Nat /\ s.by_ar[ar] \in Manifest

ASSUME VitAssumption == Wired(<<VitSlice>>)

Default == [ar |-> spec.ars[1], cl |-> spec.cls[1]]

Init ==
    /\ BuildInit("prepare")
    /\ GenaiInit
    /\ vectors = << >> /\ index = NoIndex

\* _load_model_config, _cross_check_declared_family, _generate_family_config,
\* _validate_vision_boundary and _source_artifacts: the declared family agrees
\* with the model's own configuration, the longest step fits every context
\* length, the vision model is as wide as the text model if the file tells its
\* width, and every file that is named is there.
Prepared ==
    /\ spec.sources /\ spec.ready
    /\ \A ar \in AllArs, i \in DOMAIN spec.cls : ar <= spec.cls[i]
    /\ spec.vision # "unfit"

Prepare ==
    /\ pc = "prepare"
    /\ IF Prepared
       THEN /\ pc' = CASE spec.lane = "low_level" -> "start"
                       [] spec.lane = "vit" -> "vit"
                       [] OTHER -> "bind_genai"
            /\ UNCHANGED <<spec, at, made, live, evidence, reports, progress,
                           fault>>
       ELSE Refuses
    /\ UNCHANGED <<minted, genaiVars, vectors, index>>

\* adapter.build_standalone_vit: one model, one context for every context
\* length, and one with intermediate outputs if it is asked for.
BuildVit ==
    /\ pc = "vit"
    /\ Call(/\ Makes({Art(k, 0, VitSlice, {1}) : k \in {"converted", "context"}
                          \cup (IF spec.diagnostic THEN {"diagnostic"} ELSE {})})
            /\ pc' = "done" /\ UNCHANGED at)
    /\ UNCHANGED <<minted, genaiVars, vectors, index>>
-----------------------------------------------------------------------------
\* What a build that has returned is made of.
Before(a, b) ==
    LET place(x) == CHOOSE i \in 0 .. Len(spec.cls) :
                      IF x.cl = 0 THEN i = 0 ELSE i > 0 /\ spec.cls[i] = x.cl
        slot(x) == CHOOSE i \in 0 .. Len(Slices) :
                      IF x.slice \in Range(Slices)
                      THEN i > 0 /\ Slices[i] = x.slice ELSE i = 0
        ar(x) == CHOOSE n \in x.ars : \A m \in x.ars : n <= m
    IN  \/ place(a) < place(b)
        \/ place(a) = place(b) /\ slot(a) < slot(b)
        \/ place(a) = place(b) /\ slot(a) = slot(b) /\ ar(a) < ar(b)

OnDisk(kinds) ==
    {[slice |-> a.slice, cl |-> a.cl, ars |-> a.ars,
      tapped |-> a.kind = "diagnostic"] : a \in {b \in made : b.kind \in kinds}}

InOrder(S) == Ranked(S, {p \in S \X S : Before(p[1], p[2])})

RawRoutes ==
    IF raw \in {NoSlices, << >>} THEN << >>
    ELSE [i \in DOMAIN raw |-> Route(Slices[i], [ars |-> AllArs],
              UNION {Outputs[Slices[j]] : j \in 1 .. i - 1})]

Result ==
    [lane |-> IF spec.lane = "vit" THEN "low_level" ELSE spec.lane,
     family |-> spec.family,
     contexts |-> InOrder(OnDisk({"context"})),
     diagnostics |-> OnDisk({"diagnostic", "standalone", "joint"}),
     slice_models |-> {<<a.cl, ar, a.slice>> :
                          a \in {b \in made : b.kind = "transformed"}, ar \in AllArs},
     variants |-> {<<a.cl, ar>> : a \in {b \in made : b.kind = "variant"},
                                  ar \in AllArs},
     vision_model |-> FALSE,
     raw |-> RawRoutes,
     supported |-> spec.lane # "genai_builder" \/ RuntimeSupported]
-----------------------------------------------------------------------------
\* The vector for one AR.
Vector(ar, goldens) == [ar |-> ar, goldens |-> goldens]

\* validate_provided_ar_manifest: a manifest for this AR fits its model.
Provided(ar, manifest) ==
    IF ar \in manifest.exact THEN Vector(ar, manifest.goldens) ELSE NoManifest

\* retarget_vector_manifest: the common manifest as it is, or reshaped for the
\* AR, with goldens captured anew from every output of the AR's model.
Retargeted(ar, manifest) ==
    IF ar \in manifest.exact THEN Vector(ar, manifest.goldens)
    ELSE IF ar \in manifest.reshapes THEN Vector(ar, "all")
    ELSE NoManifest

VectorOf(ar) ==
    IF ar \in DOMAIN spec.by_ar THEN Provided(ar, spec.by_ar[ar])
    ELSE IF spec.base # NoManifest THEN Retargeted(ar, spec.base)
    ELSE NoManifest

VectorsGiven == spec.base # NoManifest \/ spec.by_ar # << >>

BoundVectors == [ar \in AllArs |-> VectorOf(ar)]

\* Those of a container, whose missing goldens are captured at once.
GenaiVectors == [ar \in AllArs |->
    IF VectorOf(ar).goldens = "none" THEN Vector(ar, "all") ELSE VectorOf(ar)]

\* Fault: the vectors of one context length are taken for all of them.
BindVectorsAnyCl ==
    /\ pc = "done" /\ spec.lane # "genai_builder"
    /\ IF ~VectorsGiven
       THEN pc' = "publish_index"
            /\ UNCHANGED <<spec, at, made, live, evidence, reports, progress,
                           fault, vectors>>
       ELSE IF \A ar \in AllArs : VectorOf(ar) # NoManifest
       THEN pc' = "publish_index" /\ vectors' = BoundVectors
            /\ UNCHANGED <<spec, at, made, live, evidence, reports, progress,
                           fault>>
       ELSE Refuses /\ UNCHANGED vectors
    /\ UNCHANGED <<minted, genaiVars, index>>

\* Vectors are bound when everything has been built: a manifest that fits no
\* model, or a second context length, is refused only now.
BindVectors ==
    /\ pc = "done" /\ spec.lane # "genai_builder"
    /\ IF ~VectorsGiven
       THEN pc' = "publish_index"
            /\ UNCHANGED <<spec, at, made, live, evidence, reports, progress,
                           fault, vectors>>
       ELSE IF Len(spec.cls) = 1 /\ \A ar \in AllArs : VectorOf(ar) # NoManifest
       THEN pc' = "publish_index" /\ vectors' = BoundVectors
            /\ UNCHANGED <<spec, at, made, live, evidence, reports, progress,
                           fault>>
       ELSE Refuses /\ UNCHANGED vectors
    /\ UNCHANGED <<minted, genaiVars, index>>

\* _prepare_genai_validation_vectors, before the container is built: one
\* manifest for each AR, and the attached model it belongs to.
BindGenaiVectors ==
    /\ pc = "bind_genai"
    /\ IF ~VectorsGiven
       THEN pc' = "genai"
            /\ UNCHANGED <<spec, at, made, live, evidence, reports, progress,
                           fault, vectors>>
       ELSE IF /\ AllArs \subseteq DOMAIN spec.by_ar
               /\ Len(spec.cls) = 1 /\ Attached(AllArs)
               /\ \A ar \in AllArs : ar \in spec.by_ar[ar].exact
       THEN pc' = "genai" /\ vectors' = GenaiVectors
            /\ UNCHANGED <<spec, at, made, live, evidence, reports, progress,
                           fault>>
       ELSE Refuses /\ UNCHANGED vectors
    /\ UNCHANGED <<minted, genaiVars, index>>

Publishable ==
    \/ pc = "publish_index"
    \/ pc = "done" /\ spec.lane = "genai_builder"

\* Fault: what is published before the last slice of a context length is all
\* that the routes know of.
PublishIndexEarly ==
    /\ Publishable
    /\ index' = MakeIndex([Result EXCEPT
                    !.contexts = SubSeq(@, 1, Len(@) - 1)],
                    Default, vectors, spec.base)
    /\ pc' = "succeeded"
    /\ UNCHANGED <<spec, at, made, live, minted, evidence, reports, progress,
                   fault, genaiVars, vectors>>

\* _publish_slice_routes and _publish_runtime_index.
PublishIndex ==
    /\ Publishable
    /\ index' = MakeIndex(Result, Default, vectors, spec.base)
    /\ pc' = "succeeded"
    /\ UNCHANGED <<spec, at, made, live, minted, evidence, reports, progress,
                   fault, genaiVars, vectors>>

BuildStep ==
    \/ Prepare \/ BuildVit \/ BindVectors \/ BindGenaiVectors \/ PublishIndex
    \/ GenaiNext /\ UNCHANGED <<vectors, index>>
    \/ BuildNext /\ UNCHANGED <<genaiVars, vectors, index>>
-----------------------------------------------------------------------------
\* plan: the contexts it announces, by which users judge what a build will
\* yield.
Plan == {[slice |-> s, cl |-> spec.cls[i], ars |-> AllArs] :
            s \in {x \in Range(Slices) : ~(x = Embedding /\ spec.boundary)},
            i \in DOMAIN spec.cls}

\* What the plan announces is what a low-level build that succeeds has made,
\* and every context that holds part of it is announced.
PlanIsBuilt ==
    index # NoIndex /\ spec.lane = "low_level" =>
        LET built == {a \in made : a.kind = "context" /\ a.cl # 0}
        IN  /\ \A p \in Plan :
                 p.ars = UNION {a.ars : a \in {b \in built :
                                    b.slice = p.slice /\ b.cl = p.cl}}
            /\ \A a \in built : \E p \in Plan :
                 p.slice = a.slice /\ p.cl = a.cl /\ a.ars \subseteq p.ars

\* runtime/index.py: later stages never have to guess.  For every AR and
\* context length of a build whose ARs share their contexts, or that has one
\* AR, the index selects the whole chain, from contexts that are on disk, with
\* the vectors that fit that AR.
Text == IF spec.family = "qwen3_vl" THEN "text" ELSE "none"

IndexUsable ==
    index # NoIndex /\ spec.lane = "low_level"
        /\ (spec.shared \/ Len(spec.ars) = 1) =>
        \A i \in DOMAIN spec.cls, ar \in AllArs :
            LET cl == spec.cls[i]
                b == SelectBinding(index, ar, cl, Text)
            IN  /\ b # NotSelectable
                /\ {r.slice : r \in Elements(b.routes)}
                     = {p.slice : p \in Plan}
                /\ \A r \in Elements(b.routes) :
                     Art("context", cl, r.slice, AllArs) \in made
                /\ VectorsGiven => index.vectors[ar] # NoManifest
=============================================================================
