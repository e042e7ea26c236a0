----------------------------- MODULE StageTools -----------------------------
(***************************************************************************)
(* The single steps of a build and of an execution, as calls of their own: *)
(* src/qairt_agent/pipeline_stages/stage_tools.py and execution.py.  Each  *)
(* calls the adapter once, with inputs that the caller names, and          *)
(* publishes what it returns under names that no other stage reads.        *)
(***************************************************************************)
EXTENDS StageCall

ToolNames ==
    {"prepare_vectors", "ar_convert", "split", "mha2sha", "convert", "quantize",
     "compile_context", "run_graph", "run_chain", "profile"}

\* The fields of a call that the tools read: whether it names their input, and,
\* for a context, the slice, ARs, context length and source of its models and
\* whether they share weights in native KV layout; for a chain, the mode, the
\* goldens to force upon slices and the state to begin with.
ASSUME ToolAssumption ==
    \A c \in {d \in Calls : d.stage = "tool"} :
        /\ c.tool \in ToolNames
        /\ c.slice \in Range(Slices) /\ c.ars \subseteq Nat
        /\ {c.given, c.derived, c.shared, c.native} \subseteq BOOLEAN
        /\ c.mode \in {"device_chain", "teacher_forced"}

Uses(tools) == phase = "called" /\ call.stage = "tool" /\ call.tool \in tools

\* What a tool publishes is kept under the tool's name.
Tool(accepted, artifact) ==
    IF ~accepted THEN RefuseCall
    ELSE FailCall \/ EndCall(Artifact(<<call.tool, 0>>, artifact))

PrepareVectors ==
    /\ Uses({"prepare_vectors"})
    /\ Tool(call.given, [goldens |-> ModelOutputs])
    /\ UNCHANGED made

ConvertAr ==
    /\ Uses({"ar_convert"})
    /\ Tool(Qwen35 => spec.auto, [ars |-> call.ars])
    /\ UNCHANGED made

\* split, and split with the rewriting of attention heads.
TransformModel ==
    /\ Uses({"split", "mha2sha"})
    /\ Tool(TRUE, [slices |-> Range(Slices)])
    /\ UNCHANGED made

\* Only quantize needs an input that the build specification cannot provide.
ConvertModel ==
    /\ Uses({"convert", "quantize"})
    /\ Tool(call.tool = "quantize" => call.given, [slice |-> call.slice])
    /\ UNCHANGED made

\* Fault: evidence that the caller writes down is believed.
CompileModelsBelieved ==
    /\ Uses({"compile_context"})
    /\ IF call.given /\ (call.shared <=> Cardinality(call.ars) > 1)
       THEN /\ EndCall(Artifact(<<call.tool, 0>>, [slice |-> call.slice]))
            /\ made' = made \cup
                 {Art("recompiled", call.cl, call.slice, call.ars)}
       ELSE RefuseCall /\ UNCHANGED made

\* compile_context has an adapter of its own, which has minted no evidence, and
\* evidence cannot be given as text: derived ARs of a Qwen3.5 decoder are only
\* compiled together by a build.
CompileModels ==
    /\ Uses({"compile_context"})
    /\ IF /\ call.given
          /\ call.shared <=> Cardinality(call.ars) > 1
          /\ call.shared => ~(Qwen35 /\ call.derived /\ call.slice \in Decoders)
          /\ call.native => call.cl % 256 = 0
       THEN \/ FailCall /\ UNCHANGED made
            \/ /\ EndCall(Artifact(<<call.tool, 0>>, [slice |-> call.slice]))
               /\ made' = made \cup
                    {Art(IF call.derived THEN "recompiled" ELSE "given",
                         call.cl, call.slice, call.ars)}
       ELSE RefuseCall /\ UNCHANGED made

\* run_graph, and profile, which executes one graph under the profiler.
RunGraph ==
    /\ Uses({"run_graph", "profile"})
    /\ LET run == RunRoutes(call.binding, "device_chain", {}, << >>)
       IN  Tool(/\ call.binding # NotSelectable /\ call.vector # NoManifest
                /\ call.vector.ar = ExecutedAr(call.binding) /\ ~run.failed,
                IF call.tool = "profile" THEN [profiled |-> run.executions]
                ELSE [outputs |-> FinalOutputs(run)])
    /\ UNCHANGED made

\* run_chain: the state to begin with is the caller's, not the vector's; the
\* outputs of the last step are published.
RunChain ==
    /\ Uses({"run_chain"})
    /\ LET steps == IF call.steps # << >> THEN call.steps
                    ELSE OneStep(call.binding, call.forced)
           run == RunSequence([routes |-> call.binding.routes,
                               mode |-> call.mode, noisy |-> {}],
                              steps, call.state)
           last == SelectSeq(run.executions, LAMBDA e : e.step = run.step)
       IN  Tool(/\ call.binding # NotSelectable
                /\ call.steps # << >> \/ call.vector # NoManifest
                /\ ~run.failed,
                [outputs |-> OutputsBySlice([run EXCEPT !.executions = last])])
    /\ UNCHANGED made

ToolStep ==
    \/ PrepareVectors \/ ConvertAr \/ TransformModel \/ ConvertModel
    \/ CompileModels \/ RunGraph \/ RunChain

\* No tool changes what the build has left, but for the files of compile_context.
ToolNext ==
    /\ ToolStep
    /\ UNCHANGED <<spec, pc, at, live, minted, evidence, reports, progress,
                   fault, genaiVars, vectors, index>>
=============================================================================
