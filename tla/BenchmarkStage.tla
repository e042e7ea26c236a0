--------------------------- MODULE BenchmarkStage ---------------------------
(***************************************************************************)
(* benchmark, src/qairt_agent/pipeline_stages/benchmark.py with            *)
(* benchmark_one.py and execution.py: a graph, a chain of slices or a      *)
(* container is executed repeatedly on the device; what is reported as     *)
(* latency is device time, which only a profiled execution tells.          *)
(***************************************************************************)
EXTENDS StageCall

VARIABLE held   \* the benchmarks that have an executor or an execution context
                \* open on the device

\* The fields of a call that benchmark reads: the steps of a sequence, the
\* number of times it is executed (warmup, measured and A/A calibration),
\* whether an operator trace is wanted, and whether a prompt is given.
ASSUME BenchmarkAssumption ==
    \A c \in {d \in Calls : d.stage = "benchmark"} :
        /\ c.runs \in Nat \ {0}
        /\ {c.optrace, c.prompt} \subseteq BOOLEAN
        /\ Len(c.steps) \in Nat /\ DOMAIN c.steps = 1 .. Len(c.steps)
        /\ \A k \in DOMAIN c.steps :
             c.steps[k].inputs = Given(DOMAIN c.steps[k].inputs, k)

BenchmarkInit == held = {}

\* What a benchmark and its files are recognised by: the call, and the AR of an
\* automatic one.
Stamp == <<called, Suffix>>

OfContainer(b) ==
    call.form = "container" \/ (Automatic /\ index.lane = "genai_builder")

IsSequence(b) == ~OfContainer(b) /\ b.scope = "chain"

\* A container has no operator trace per AR.
TracesContainers ==
    Automatic /\ call.ar = 0 /\ Len(spec.ars) > 1
    /\ index.lane = "genai_builder" /\ call.optrace

BeginBenchmark ==
    /\ phase = "called" /\ call.stage = "benchmark"
    /\ IF TracesContainers THEN RefuseCall ELSE Starts("benchmark", "select")
    /\ UNCHANGED held

-----------------------------------------------------------------------------
\* What a chain executes: given steps, or one step with the vector's inputs.
Steps(b) == IF call.steps # << >> THEN call.steps ELSE OneStep(b, << >>)

\* The binding and the checks before the device is asked for.
ContainerRunnable(b) ==
    /\ call.steps = << >>
    /\ index.supported /\ call.prompt
    /\ call.optrace => b.routes # << >> /\ VectorFor(b) # NoManifest

Measurable(b) ==
    /\ b # NotSelectable /\ InScope(b)
    /\ IF OfContainer(b) THEN ContainerRunnable(b)
       ELSE VectorFor(b) # NoManifest \/ (IsSequence(b) /\ call.steps # << >>)

SelectBenchmark ==
    /\ phase = "select"
    /\ IF Measurable(Binding)
       THEN Proceed("open", [binding |-> Binding, vector |-> VectorFor(Binding),
                             recorded |-> << >>, measured |-> << >>,
                             metered |-> FALSE])
       ELSE RefuseCall
    /\ UNCHANGED held

\* One call of the runner: a sequence, or one graph.
Executions ==
    LET b == work.binding
    IN  RunSequence([routes |-> b.routes, mode |-> "device_chain", noisy |-> {}],
                    IF b.scope = "chain" THEN Steps(b) ELSE OneStep(b, << >>),
                    IF work.vector = NoManifest THEN << >>
                    ELSE StateFromVector(b.routes, VectorInputs))

\* A vector of another AR does not fit the graph.
Runs == ~Executions.failed
        /\ (work.vector # NoManifest /\ (~IsSequence(work.binding)
                                         \/ call.steps = << >>)
              => work.vector.ar = ExecutedAr(work.binding))

\* A container gets an executor, which is prepared on the device.
OpenContainer ==
    /\ phase = "open" /\ OfContainer(work.binding)
    /\ \/ FailCall /\ UNCHANGED held
       \/ Proceed("measure", work) /\ held' = held \cup {Stamp}

OpenChain ==
    /\ phase = "open" /\ IsSequence(work.binding)
    /\ FailCall \/ Proceed("measure", work)
    /\ UNCHANGED held

\* _device_execution_block: what was profiled, or that nothing was; a profile
\* that fails does not end the benchmark.
Metered(available, executions) ==
    [work EXCEPT !.metered = available,
                 !.measured = IF available THEN executions ELSE << >>]

\* capture_device_execution, before an execution context is opened, because that
\* context has profiling disabled.
Capturable == Runs /\ Stamp \notin held

\* One graph is profiled and then gets its execution context.
OpenGraph ==
    /\ phase = "open"
    /\ ~OfContainer(work.binding) /\ ~IsSequence(work.binding)
    /\ \/ FailCall /\ UNCHANGED held
       \/ /\ \E available \in BOOLEAN :
               /\ available => Capturable
               /\ Proceed("measure", Metered(available, Executions.executions))
          /\ held' = held \cup {Stamp}

\* Fault: it keeps the last invocation of each slice.
RecordedLast ==
    LET n == Len(work.binding.routes)
    IN  SubSeq(Executions.executions, Len(Executions.executions) - n + 1,
               Len(Executions.executions))

\* _recording_chain_executors keeps the inputs of every invocation.
Recorded ==
    LET once == Executions.executions
    IN  [i \in 1 .. call.runs * Len(once) |-> once[((i - 1) % Len(once)) + 1]]

\* clean_genai_executor or release_execution, when it returns.
Closes == held' = held \ {Stamp}

\* The timed calls.  What is open is closed whatever happens to them, but that
\* may fail as well: then it stays open, and the benchmark fails.
Measure ==
    /\ phase = "measure"
    /\ \/ FailCall /\ (Closes \/ UNCHANGED held)
       \/ /\ ~OfContainer(work.binding) /\ ~Runs
          /\ RefuseCall /\ Closes
       \/ /\ OfContainer(work.binding) \/ Runs
          /\ Proceed("meter",
               IF IsSequence(work.binding)
               THEN [work EXCEPT !.recorded = Recorded] ELSE work)
          /\ Closes

\* _chain_device_execution: every recorded invocation of every slice is
\* profiled with the inputs it had, and there is a total if all of them succeed.
Meter ==
    /\ phase = "meter"
    /\ IF IsSequence(work.binding)
       THEN \E available \in BOOLEAN :
              Proceed("trace", Metered(available, work.recorded))
       ELSE Proceed("trace", work)
    /\ UNCHANGED held

-----------------------------------------------------------------------------
\* A second, profiled execution for the operator trace, if one is wanted.
Traceable == ~Executions.failed

Latency ==
    [stamp |-> Stamp, ar |-> work.binding.ar, binding |-> work.binding,
     vector |-> work.vector, measured |-> work.measured,
     metric |-> IF work.metered THEN "device_execution" ELSE "unavailable",
     steps |-> Steps(work.binding),
     optrace |-> IF call.optrace THEN Stamp ELSE << >>]

Trace == [stamp |-> Stamp, ars |-> {work.binding.ar},
          profiled |-> <<[binding |-> work.binding, steps |-> Steps(work.binding)]>>]

\* The report, and the trace that was made with it.
LatencyArtifacts ==
    Over(Artifact(Name("latency_report"),
                  [kind |-> "one", results |-> <<Latency>>,
                   metric |-> Latency.metric, optrace |-> Latency.optrace]),
         IF call.optrace THEN Artifact(Name("optrace_evidence"), Trace) ELSE << >>)

PublishLatency ==
    /\ phase = "trace"
    /\ \/ FailCall
       \/ /\ call.optrace /\ ~Traceable
          /\ RefuseCall
       \/ /\ call.optrace => Traceable
          /\ NextAr(LatencyArtifacts, "select", "aggregate")
    /\ UNCHANGED held

\* The latency of all ARs; it is device time if it is that of each of them.  The
\* operators of all traces have names of their own, or the call ends.
PublishLatencies ==
    /\ phase = "aggregate" /\ call.stage = "benchmark"
    /\ LET one == [i \in DOMAIN spec.ars |->
                     drafts[<<"latency_report", spec.ars[i]>>].results[1]]
           stamp == <<called, 0>>
           latency == [kind |-> "all", results |-> one, ars |-> AllArs,
                       cls |-> Range(spec.cls),
                       metric |-> IF \A i \in DOMAIN one :
                                       one[i].metric = "device_execution"
                                  THEN "device_execution" ELSE "partial",
                       optrace |-> IF call.optrace THEN stamp ELSE << >>]
           trace == [stamp |-> stamp, ars |-> AllArs,
                     profiled |-> [i \in DOMAIN one |->
                        [binding |-> one[i].binding, steps |-> one[i].steps]]]
       IN  \/ EndCall(Over(Artifact(<<"latency_report", 0>>, latency),
                       Over(IF call.optrace
                            THEN Artifact(<<"optrace_evidence", 0>>, trace) ELSE << >>,
                            drafts)))
           \/ call.optrace /\ FailCall
    /\ UNCHANGED held

BenchmarkNext ==
    \/ BeginBenchmark \/ SelectBenchmark
    \/ OpenContainer \/ OpenChain \/ OpenGraph \/ Measure \/ Meter
    \/ PublishLatency \/ PublishLatencies
-----------------------------------------------------------------------------
LatencyReports ==
    {shelf[n] : n \in {m \in DOMAIN shelf : m[1] = "latency_report"}}

\* The steps and slices of a chain that were measured, with the right inputs: a
\* tensor comes from where the undivided model has it from, in this step, and a
\* state from the step before.
TrulyFed(r, e) ==
    \A t \in DOMAIN e.inputs :
        LET v == e.inputs[t]
        IN  /\ v.by \in TrueSource(r.binding.routes, t, e.step)
            /\ v.step = IF t.state /\ e.step > 1 THEN e.step - 1 ELSE e.step

\* docs/native-workflow.md: "the timed pass records what each slice was actually
\* fed, and every slice is then profiled with those exact inputs", and latency is
\* device time "only when every AR published an available block".  A report that
\* says so has measured every slice in every step, fed as in the whole model.
LatencyMetricTrue ==
    \A report \in LatencyReports :
        report.metric = "device_execution" =>
            \A r \in Elements(report.results) :
                LET slices == {q.slice : q \in Elements(r.binding.routes)}
                    steps == IF r.binding.scope = "chain"
                             THEN DOMAIN r.steps ELSE {1}
                IN  /\ slices \X steps =
                         {<<e.slice, e.step>> : e \in Elements(r.measured)}
                    /\ \A e \in Elements(r.measured) :
                         TrulyFed(r, e) /\ (r.binding.scope = "chain" =>
                                              e.ar = r.steps[e.step].ar)

\* docs/native-workflow.md: "`by_slice` carries one block per slice and `totals` is
\* an explicitly labelled sum of per-slice means", for a sequence one block per
\* slice and step.  So the total of a chain counts every slice of every step once,
\* however often the chain was executed to be measured.
ChainTotalsTrue ==
    \A report \in LatencyReports : \A r \in Elements(report.results) :
        r.metric = "device_execution" /\ r.binding.scope = "chain" =>
            Len(r.measured) = Len(r.steps) * Len(r.binding.routes)

=============================================================================
