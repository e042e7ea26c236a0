--------------------------- MODULE LowLevelBuild ---------------------------
(***************************************************************************)
(* QairtSdkAdapter.build, src/qairt_agent/qairt_adapter/adapter.py: for    *)
(* every context length, the source model is rewritten for each AR and     *)
(* split into slices; every slice is converted and compiled, its ARs       *)
(* together when weights are shared, and recorded as published.            *)
(*                                                                         *)
(* Decoder slices of the Qwen3.5 family with several ARs are only compiled *)
(* together after a validation: the slice is compiled alone for each AR,   *)
(* then jointly under a provisional authorisation, and both are run on a   *)
(* device and compared.  Any call into the SDK may fail, and any failure   *)
(* ends the build; the files it has written stay.                          *)
(***************************************************************************)
EXTENDS RuntimeIndex

CONSTANTS
    Specs,     \* effective build configurations, see SpecAssumption
    Decoders,  \* those that hold decoder layers
    Embedding, \* the embedding slice
    NoEvidence

VARIABLES
    spec,      \* the configuration being built
    pc,        \* the statement of the build that is executed next
    at,        \* the context length, slice and AR of the loops
    made,      \* artifacts written, also by a build that fails later
    live,      \* who still refers to an artifact together with its SDK object
    minted,    \* _validated_qwen35_evidence_ids
    evidence,  \* qwen35_evidence of the current slice
    reports,   \* runtime validation reports on file
    progress,  \* lines of stages/build/progress.jsonl
    fault      \* history: a call to the SDK, the device or the disk has failed,
               \* or a model was found unfit

buildVars == <<spec, pc, at, made, live, minted, evidence, reports, progress,
               fault>>

\* build_split_plan: at least one slice holds decoder layers.
ASSUME SliceAssumption ==
    /\ Slices \in Seq(STRING) /\ Slices # << >> /\ IsInjective(Slices)
    /\ Range(Slices) # {Embedding}
    /\ Decoders \subseteq Range(Slices)
    /\ Embedding \notin Decoders

\* What the configuration decides, and what contracts.py demands of it.
\* `ready` stands for a preflight that passes, a quantization mode with its
\* inputs and compiler options without output fields; `vision` for whether the
\* vision model of a Qwen3-VL is as wide as its text model; `cases` are the ARs
\* for which there is a case, with goldens, to validate a Qwen3.5 with.
ASSUME SpecAssumption ==
    \A s \in Specs :
        /\ s.cls \in Seq(Nat \ {0}) /\ s.cls # << >> /\ IsInjective(s.cls)
        /\ s.ars \in Seq(Nat \ {0}) /\ s.ars # << >> /\ IsInjective(s.ars)
        /\ \A cl \in Range(s.cls) :
             /\ \A ar \in Range(s.ars) : ar <= cl
             /\ s.native => cl % 256 = 0
        /\ s.family \in {"qwen3", "qwen3_5", "qwen3_5_omni", "qwen3_vl", "vit"}
        /\ s.vision \in {"none", "fits", "unfit", "symbolic"}
        /\ {s.ready, s.auto, s.validator, s.shared, s.native, s.boundary,
            s.diagnostic} \subseteq BOOLEAN
        /\ s.shared => Range(s.ars) = {1, 128}
        /\ s.family \in {"qwen3_5", "qwen3_5_omni"} /\ Len(s.ars) > 1 => s.shared
        /\ s.vision # "none" <=> s.family = "qwen3_vl"
        /\ s.cases \subseteq Nat

Qwen35 == spec.family = "qwen3_5"

Art(kind, cl, slice, ars) ==
    [kind |-> kind, cl |-> cl, slice |-> slice, ars |-> ars]

Cl == spec.cls[at.cl]
Ar == spec.ars[at.ar]
Slice == Slices[at.slice]
AllArs == Range(spec.ars)

BuildInit(first) ==
    /\ spec \in Specs
    /\ pc = first
    /\ at = [cl |-> 1, slice |-> 1, ar |-> 1]
    /\ made = {} /\ live = {} /\ minted = {} /\ reports = {}
    /\ progress = {}
    /\ evidence = NoEvidence
    /\ fault = FALSE

\* An exception leaves the build; nothing it has accumulated is returned.
Raise ==
    /\ pc' = "failed"
    /\ live' = {}
    /\ UNCHANGED <<spec, at, made, evidence, progress>>

Fails == fault' = TRUE /\ Raise /\ UNCHANGED reports
Refuses == fault' = fault /\ Raise /\ UNCHANGED reports

\* A call into the SDK, and what follows when it returns.
Call(returned) == Fails \/ returned

\* An artifact with its SDK object is in an accumulator, of which the result is
\* made ("result"; a validation's own list of contexts is taken for the one it
\* is appended to), and in lists local to the loops.  Variables of a loop are
\* left out: they refer to a last element of these lists, and the one that walks
\* contexts compiled apart keeps one converted model until the next is compiled.
Locals == {"variants_for_cl", "slices_by_name", "ordered_slices",
           "converted_for_slice"}

Holding(holders, arts) == [by : holders, to : arts]

\* The list that the loop over the ARs fills, and that is empty when it begins.
ArList ==
    {holder \in Locals :
        \/ pc = "ar_convert" /\ holder = "variants_for_cl"
        \/ pc = "transform" /\ holder = "slices_by_name"
        \/ pc = "convert" /\ holder = "converted_for_slice"}

\* With the first artifact the list of an earlier round is gone; with the last
\* one, the vision encoder's, the build returns.
Rebound ==
    {holder \in Locals : pc = "vision" \/ (at.ar = 1 /\ holder \in ArList)}

\* The SDK wrote artifacts, and the build appends them with their live objects.
Makes(arts) ==
    /\ made' = made \cup arts
    /\ live' = {r \in live : r.by \notin Rebound}
                   \cup Holding({"result"} \cup ArList, arts)
    /\ UNCHANGED <<spec, evidence, reports, progress, fault>>

\* The same statement for the next AR, or `next` after the last one.
ForEachAr(next) ==
    IF at.ar < Len(spec.ars)
    THEN at' = [at EXCEPT !.ar = @ + 1] /\ UNCHANGED pc
    ELSE at' = [at EXCEPT !.ar = 1] /\ pc' = next

\* The checks before anything is built, and the policy file.
Start ==
    /\ pc = "start"
    /\ IF spec.ready /\ (Qwen35 /\ Len(spec.ars) > 1 => spec.validator)
       THEN /\ pc' = "ar_convert"
            /\ UNCHANGED <<spec, at, made, live, evidence, reports, progress,
                           fault>>
       ELSE Refuses
    /\ UNCHANGED minted

\* ar_convert: the source rewritten for one AR and context length.
ArConvert ==
    /\ pc = "ar_convert"
    /\ IF Qwen35 /\ ~spec.auto
       THEN Refuses
       ELSE Call(Makes({Art("variant", Cl, "", {Ar})}) /\ ForEachAr("transform"))
    /\ UNCHANGED minted

\* transform: one variant split and rewritten.  The SDK that returns another
\* number of splits than planned counts as a failed call.
Transform ==
    /\ pc = "transform"
    /\ Call(/\ Makes({Art("transformed", Cl, s, {Ar}) : s \in Range(Slices)})
            /\ ForEachAr("slice"))
    /\ UNCHANGED minted

\* After the last slice, the next context length and then the vision encoder.
NextSlice ==
    IF at.slice < Len(Slices)
    THEN /\ at' = [at EXCEPT !.slice = @ + 1]
         /\ pc' = "slice"
    ELSE IF at.cl < Len(spec.cls)
    THEN /\ at' = [cl |-> at.cl + 1, slice |-> 1, ar |-> 1]
         /\ pc' = "ar_convert"
    ELSE /\ pc' = IF spec.vision = "none" THEN "done" ELSE "vision"
         /\ UNCHANGED at

\* _release_published: stripped copies replace artifacts in the accumulators; the
\* local lists keep the originals until the build returns.
Released(references, arts) ==
    live' = {r \in references :
                IF r.by = "result" THEN r.to \notin arts ELSE pc' # "done"}

OfSlice(kinds) == {a \in made : a.kind \in kinds /\ a.cl = Cl /\ a.slice = Slice}

\* A context length that ends releases its variants.
EndedVariants ==
    {a \in made : a.kind = "variant" /\ a.cl = Cl /\ at.slice = Len(Slices)}

\* ordered_slices: the transformed models of the slice that begins.
Ordered ==
    {r \in live : r.by # "ordered_slices"}
        \cup Holding({"ordered_slices"}, OfSlice({"transformed"}))

\* A slice begins.  An embedding that stays outside the contexts only gets a
\* boundary file, and its models are not released.
BeginSlice ==
    /\ pc = "slice"
    /\ IF Slice = Embedding /\ spec.boundary
       THEN /\ made' = made \cup {Art("boundary", Cl, Slice, AllArs)}
            /\ NextSlice
            /\ Released(Ordered, EndedVariants)
       ELSE pc' = "convert" /\ live' = Ordered /\ UNCHANGED <<at, made>>
    /\ evidence' = NoEvidence
    /\ UNCHANGED <<spec, minted, reports, progress, fault>>

IsDerivedDecoder == Qwen35 /\ Slice \in Decoders

Convert ==
    /\ pc = "convert"
    /\ Call(/\ Makes({Art("converted", Cl, Slice, {Ar})})
            /\ ForEachAr(IF IsDerivedDecoder /\ Len(spec.ars) > 1
                         THEN "structure" ELSE "compile"))
    /\ UNCHANGED minted

-----------------------------------------------------------------------------
\* What an authorisation covers: _context_key without the graph names, which
\* the ARs determine.
Key == <<Slice, Cl, AllArs>>

Evidence(final) == [key |-> Key, final |-> final]

\* _validate_qwen35: evidence this adapter minted, for this set of graphs.
Covers(e) == e # NoEvidence /\ e \in minted /\ e.key = Key

\* The checks of compile_context.  That QAIRT resolves the target that was
\* named counts as a call that may fail.
MayCompile(ars, shared, e) ==
    /\ shared <=> Cardinality(ars) > 1
    /\ shared /\ IsDerivedDecoder => Covers(e)
    /\ spec.native /\ Slice \in Decoders => Cl % 256 = 0

\* compile_context of the current slice, and what follows when it succeeds.
CompileContext(kind, ars, shared, e, next) ==
    IF ~MayCompile(ars, shared, e)
    THEN Refuses
    ELSE Call(Makes({Art(kind, Cl, Slice, ars)}) /\ next)

\* _validate_qwen35_structure: state tensors, weights and heads of the ARs
\* agree, or the build ends.
Structure ==
    /\ pc = "structure"
    /\ \/ Fails
       \/ /\ pc' = "standalone"
          /\ UNCHANGED <<spec, at, made, live, evidence, reports, progress,
                         fault>>
    /\ UNCHANGED minted

Standalone ==
    /\ pc = "standalone"
    /\ CompileContext("standalone", {Ar}, FALSE, NoEvidence,
                      ForEachAr("authorise"))
    /\ UNCHANGED minted

Authorise ==
    /\ pc = "authorise"
    /\ minted' = minted \cup {Evidence(FALSE)}
    /\ pc' = "joint"
    /\ UNCHANGED <<spec, at, made, live, evidence, reports, progress, fault>>

\* The provisional authorisation is withdrawn whether or not this succeeds.
Joint ==
    /\ pc = "joint"
    /\ CompileContext("joint", AllArs, TRUE, Evidence(FALSE),
                      pc' = "runtime" /\ UNCHANGED at)
    /\ minted' = minted \ {Evidence(FALSE)}

\* A report of the runtime validator: for each AR, whether its graph agrees with
\* the goldens, compiled alone and jointly, and the two agree with each other.
RuntimeReport(agrees) == [slice |-> Slice, cl |-> Cl, agrees |-> agrees]

\* Fault: the report is published and its gates are not looked at.
RuntimeReports ==
    /\ pc = "runtime"
    /\ \A r \in reports : r.slice # Slice
    /\ \E agrees \in [AllArs -> BOOLEAN] :
         reports' = reports \cup {RuntimeReport(agrees)}
    /\ minted' = minted \cup {Evidence(TRUE)}
    /\ evidence' = Evidence(TRUE)
    /\ pc' = "compile"
    /\ UNCHANGED <<spec, at, made, live, progress, fault>>

\* case_for: a case that is missing is missed when the contexts are compiled.
HasCases == AllArs \subseteq spec.cases

\* The runtime validator executes the graphs of all ARs on the device and
\* publishes its report before the gates are looked at.  The report's path names
\* the slice only, and a published report is never replaced by another one.
Runtime ==
    /\ pc = "runtime"
    /\ \/ Fails /\ UNCHANGED minted
       \/ /\ ~HasCases \/ \E r \in reports : r.slice = Slice
          /\ Refuses /\ UNCHANGED minted
       \/ /\ HasCases /\ \A r \in reports : r.slice # Slice
          /\ \E agrees \in [AllArs -> BOOLEAN] :
               /\ reports' = reports \cup {RuntimeReport(agrees)}
               /\ IF \A ar \in AllArs : agrees[ar]
                  THEN /\ minted' = minted \cup {Evidence(TRUE)}
                       /\ evidence' = Evidence(TRUE)
                       /\ pc' = "compile"
                       /\ UNCHANGED <<spec, at, made, live, progress, fault>>
                  ELSE fault' = TRUE /\ Raise /\ UNCHANGED minted

-----------------------------------------------------------------------------
\* Fault: without sharing, the smallest AR is compiled only.
CompileFirst(kind, next) ==
    CompileContext(kind, IF spec.shared THEN AllArs ELSE {Ar}, spec.shared,
                   evidence, pc' = next /\ UNCHANGED at)

\* One context of all ARs when weights are shared, else one for each AR.
CompileSlice(kind, next) ==
    IF spec.shared
    THEN CompileContext(kind, AllArs, TRUE, evidence, pc' = next /\ UNCHANGED at)
    ELSE CompileContext(kind, {Ar}, FALSE, NoEvidence, ForEachAr(next))

Compile ==
    /\ pc = "compile"
    /\ CompileSlice("context", IF spec.diagnostic THEN "diagnose" ELSE "publish")
    /\ UNCHANGED minted

Diagnose ==
    /\ pc = "diagnose"
    /\ CompileSlice("diagnostic", "publish")
    /\ UNCHANGED minted

\* Fault: the slice is recorded before its contexts are compiled.
PublishEarly ==
    /\ pc = "publish"
    /\ progress' = progress \cup {[cl |-> Cl, slice |-> s,
                                   contexts |-> OfSlice({"context"})]
                                   : s \in Range(Slices)}
    /\ NextSlice
    /\ Released(live, OfSlice({"converted", "transformed"}) \cup EndedVariants)
    /\ UNCHANGED <<spec, made, minted, evidence, reports, fault>>

\* Fault: the accumulator keeps the transformed models.
PublishKeeps ==
    /\ pc = "publish"
    /\ progress' = progress
    /\ NextSlice
    /\ Released(live, OfSlice({"converted"}) \cup EndedVariants)
    /\ UNCHANGED <<spec, made, minted, evidence, reports, fault>>

\* The slice is recorded, which may fail unnoticed, and its converted and
\* transformed models are released; its contexts are not.
Publish ==
    /\ pc = "publish"
    /\ \E written \in BOOLEAN :
          progress' = IF written
                      THEN progress \cup {[cl |-> Cl, slice |-> Slice,
                                           contexts |-> OfSlice({"context"})]}
                      ELSE progress
    /\ NextSlice
    /\ Released(live, OfSlice({"converted", "transformed"}) \cup EndedVariants)
    /\ UNCHANGED <<spec, made, minted, evidence, reports, fault>>

\* Qwen3-VL: the vision encoder with its projector becomes a context of its
\* own.  Its output must be as wide as the text model; a width that is symbolic
\* in the ONNX file is only refused here.
Vision ==
    /\ pc = "vision"
    /\ IF spec.vision # "fits"
       THEN Refuses
       ELSE Call(/\ Makes({Art(k, 0, VisionSlice, {1}) :
                           k \in {"converted", "context"} \cup
                             (IF spec.diagnostic THEN {"diagnostic"} ELSE {})})
                 /\ pc' = "done" /\ UNCHANGED at)
    /\ UNCHANGED minted

BuildNext ==
    \/ Start \/ ArConvert \/ Transform \/ BeginSlice \/ Convert
    \/ Structure \/ Standalone \/ Authorise \/ Joint \/ Runtime
    \/ Compile \/ Diagnose \/ Publish \/ Vision
-----------------------------------------------------------------------------
\* A Qwen3.5 decoder context in which derived ARs share weights is only written,
\* by the build or by a later compile_context, when every AR has passed a
\* runtime validation of that slice at that context length; one that was
\* compiled to be validated is not taken for it, and its provisional
\* authorisation ends with the compilation it is for, also when that fails: the
\* adapter instance outlives the build.
SharedContextsValidated ==
    /\ \A a \in made :
         /\ Qwen35 /\ a.slice \in Decoders
         /\ a.kind \in {"context", "diagnostic", "recompiled"}
         /\ Cardinality(a.ars) > 1
         => \E r \in reports :
              /\ r.slice = a.slice /\ r.cl = a.cl
              /\ \A ar \in a.ars : ar \in DOMAIN r.agrees /\ r.agrees[ar]
    /\ \A e \in minted : e.final \/ pc = "joint"

\* What the progress file says has been published is on disk and complete,
\* whenever the build dies: the contexts of the record hold every AR.
ProgressTruthful ==
    \A p \in progress :
        /\ \A a \in p.contexts :
             a \in made /\ a.cl = p.cl /\ a.slice = p.slice
        /\ UNION {a.ars : a \in p.contexts} = AllArs

\* The statements of the loops over context lengths and slices.
Looping == {"ar_convert", "transform", "slice", "convert", "structure",
            "standalone", "authorise", "joint", "runtime", "compile", "diagnose",
            "publish"}

\* An artifact of the current context length that is not on record yet; its
\* variants are done with when its last slice is.
NotYetPublished(a) ==
    /\ pc \in Looping
    /\ a.cl = Cl
    /\ \/ a.kind = "variant"
       \/ \E i \in DOMAIN Slices : i >= at.slice /\ Slices[i] = a.slice

\* The model of the text, without an embedding that is never published.
IsPublishable(a) == a.cl # 0 /\ ~(spec.boundary /\ a.slice = Embedding)

IsModel(a) == IsPublishable(a) /\ a.kind \in {"variant", "transformed", "converted"}

\* _release_published and the lists of the loops: what of a model can still be
\* reached with its SDK object, apart from a boundary embedding's and a vision
\* encoder's.  The accumulators keep models that are not published yet, and
\* nothing of an earlier context length.  The local lists keep a model's
\* originals longer, but never beyond the next context length, and neither when a
\* slice of that is published: then the only converted models are that slice's.
\* A compilation finds the converted models of every AR.
ModelsReleasedInTime ==
    /\ \A r \in live : IsModel(r.to) =>
         /\ pc \in Looping \cup {"vision"}
         /\ r.by = "result" => NotYetPublished(r.to)
         /\ \/ r.to.cl = Cl
            \/ at.cl > 1 /\ r.to.cl = spec.cls[at.cl - 1] /\ pc # "publish"
         /\ pc = "publish" /\ r.to.kind = "converted" => r.to.slice = Slice
    /\ pc \in {"standalone", "joint", "compile", "diagnose"} =>
         Holding({"converted_for_slice"},
                    {Art("converted", Cl, Slice, {ar}) : ar \in AllArs}) \subseteq live

=============================================================================
