----------------------------- MODULE StageCall -----------------------------
(***************************************************************************)
(* The calls of validate, benchmark, diagnose and of the tools on what a   *)
(* build has published: how a call is bound to graphs and vectors of the   *)
(* runtime index, how it fans out over the ARs, and what becomes of the    *)
(* artifacts it publishes (_continuation_operation, _merge_artifacts).     *)
(*                                                                         *)
(* A call has a form: "automatic" ones are bound by the runtime index,     *)
(* "given" ones name contexts and vector themselves, "outputs" ones bring  *)
(* tensors and execute nothing, and "container" ones name a container.     *)
(***************************************************************************)
EXTENDS BuildStage, SliceChain

CONSTANTS
    Calls,       \* calls that are made, records
    MaxCalls,    \* bound: calls on one manifest
    NoisySets,   \* sets of slices in which a device may deviate
    NoCall

VARIABLES
    call,    \* the call being executed, or NoCall
    phase,   \* the part of it that is executed next
    turn,    \* the ARs to execute, the current one first; 0 for the default
    work,    \* intermediate results for the current AR
    drafts,  \* artifacts this call has published
    shelf,   \* artifacts of the manifest by logical name
    past,    \* those of its ancestors, the parent last
    ended,   \* history: the last call, and whether it was refused
    called   \* calls made

callVars == <<call, phase, turn, work, drafts, shelf, past, ended, called>>

ASSUME NoCallAssumption == NoCall \notin Calls

ASSUME CallAssumption ==
    \A c \in Calls :
        /\ c.stage \in {"validate", "benchmark", "diagnose", "tool"}
        /\ c.form \in {"automatic", "given", "outputs", "container"}
        /\ c.ar \in Nat

\* Bindings and steps that a call names itself: graphs of one model, and inputs
\* for each step.
Named(b) ==
    /\ b \in BindingOf /\ Chained(b.routes)
    /\ b.routes # << >> /\ b.scope # "container"
    /\ b.scope = "graph" => Len(b.routes) = 1

ASSUME NamedAssumption ==
    \A c \in {d \in Calls : d.stage \in {"validate", "benchmark"}} :
        /\ c.stage = "validate" => c.form # "container"
        /\ c.stage = "benchmark" => c.form # "outputs"
        /\ c.form = "given" => Named(c.binding)

CallInit ==
    /\ call = NoCall /\ phase = "idle" /\ turn = << >> /\ work = << >>
    /\ drafts = << >> /\ shelf = << >> /\ past = << >> /\ called = 0
    /\ ended = [call |-> NoCall, how |-> "none"]

End(how) ==
    /\ ended' = [call |-> call, how |-> how]
    /\ call' = NoCall /\ phase' = "idle" /\ turn' = << >> /\ work' = << >>
    /\ drafts' = << >>
    /\ UNCHANGED called

\* A stage that raises publishes a revision that says so and has the artifacts of
\* its parent: _failure_revision.
RefuseCall == End("refused") /\ past' = Append(past, shelf) /\ UNCHANGED shelf
FailCall == End("failed") /\ past' = Append(past, shelf) /\ UNCHANGED shelf

\* What a stage publishes: artifacts by logical name; a later one of a name is kept
\* over an earlier one.
Artifact(name, content) == [n \in {name} |-> content]

\* A revision: an artifact replaces the one of the same logical name, and the
\* manifest that had it becomes the parent.
EndCall(artifacts) ==
    End("done") /\ shelf' = Over(artifacts, shelf) /\ past' = Append(past, shelf)

Proceed(next, results) ==
    /\ phase' = next /\ work' = results
    /\ UNCHANGED <<call, turn, drafts, shelf, past, ended, called>>

-----------------------------------------------------------------------------
Automatic == call.form = "automatic"

\* A benchmark of a container or of given steps is one run for all ARs.
RunsOnce ==
    call.stage = "benchmark"
    /\ (index.lane = "genai_builder" \/ call.steps # << >>)

FansOut == Automatic /\ call.ar = 0 /\ Len(spec.ars) > 1 /\ ~RunsOnce

\* One AR of a call that fans out is published under names of its own.
Suffix == IF FansOut THEN Head(turn) ELSE 0
Name(kind) == <<kind, Suffix>>

\* The first thing a stage does: which ARs it will execute.  An automatic call
\* for several ARs needs the exact vector of each of them.
Starts(stage, first) ==
    /\ phase = "called" /\ call.stage = stage
    /\ IF FansOut /\ \E ar \in AllArs : ar \notin DOMAIN index.vectors
       THEN RefuseCall
       ELSE /\ turn' = IF FansOut THEN spec.ars ELSE <<call.ar>>
            /\ phase' = first
            /\ UNCHANGED <<call, work, drafts, shelf, past, ended, called>>

\* What follows the current AR: the next one, or the report on all of them, or
\* the end of the call.
NextAr(artifacts, first, aggregate) ==
    IF ~FansOut
    THEN EndCall(artifacts)
    ELSE /\ drafts' = Over(artifacts, drafts) /\ work' = << >>
         /\ IF Len(turn) > 1
            THEN turn' = Tail(turn) /\ phase' = first
            ELSE phase' = aggregate /\ UNCHANGED turn
         /\ UNCHANGED <<call, shelf, past, ended, called>>

-----------------------------------------------------------------------------
\* _automatic_runtime_binding: an AR or a context length that the call does not
\* name is the default of the index.
Binding ==
    IF Automatic
    THEN SelectBinding(index, IF Head(turn) = 0 THEN index.default.ar ELSE Head(turn),
                       IF call.cl = 0 THEN index.default.cl ELSE call.cl,
                       call.component)
    ELSE call.binding

\* _enforce_qwen3_vl_runtime_scope.
InScope(binding) ==
    spec.family = "qwen3_vl" =>
        /\ call.component \in {"text", "vision"}
        /\ call.component = "vision" => binding.scope = "graph"

\* The vector of a binding: the caller's, the exact one, or the common one.
VectorFor(binding) ==
    IF call.vector # NoManifest THEN call.vector
    ELSE IF ~Automatic \/ binding.component = "vision" THEN NoManifest
    ELSE IF binding.ar \in DOMAIN index.vectors THEN index.vectors[binding.ar]
    ELSE IF index.base = NoManifest THEN NoManifest
    ELSE Vector(CHOOSE ar \in index.base.exact : TRUE, index.base.goldens)

\* What a vector holds: the inputs of the undivided model.
ModelSlices == IF spec.lane = "vit" THEN {VitSlice} ELSE Range(Slices)

ModelInputs ==
    LET all == UNION {Inputs[s] : s \in ModelSlices}
    IN  {t \in all : t.state \/ \A s \in ModelSlices : t \notin Outputs[s]}

ModelOutputs ==
    LET all == UNION {Outputs[s] : s \in ModelSlices}
    IN  {t \in all : t.state \/ \A s \in ModelSlices : t \notin Inputs[s]}

VectorInputs == Given(ModelInputs, 1)

\* The AR that is executed when a given binding names none.
ExecutedAr(binding) == IF binding.ar = 0 THEN spec.ars[1] ELSE binding.ar

\* Execution of a binding's routes, for one step with the vector's inputs.
OneStep(binding, goldens) ==
    <<[ar |-> ExecutedAr(binding), inputs |-> VectorInputs, goldens |-> goldens]>>

RunRoutes(binding, mode, noisy, goldens) ==
    RunSequence([routes |-> binding.routes, mode |-> mode, noisy |-> noisy],
                OneStep(binding, goldens),
                StateFromVector(binding.routes, VectorInputs))

-----------------------------------------------------------------------------
\* A user calls a stage on the manifest of a build that succeeded.
CallStage ==
    /\ pc = "succeeded" /\ call = NoCall /\ called < MaxCalls
    /\ \E c \in Calls : call' = c
    /\ phase' = "called" /\ called' = called + 1
    /\ UNCHANGED <<turn, work, drafts, shelf, past, ended>>
=============================================================================
