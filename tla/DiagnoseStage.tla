--------------------------- MODULE DiagnoseStage ---------------------------
(***************************************************************************)
(* diagnose, src/qairt_agent/pipeline_stages/diagnose.py: an automatic     *)
(* diagnosis reads what validate and benchmark have published on the       *)
(* manifest and its ancestors, and attributes what it finds there.         *)
(***************************************************************************)
EXTENDS ValidateStage, BenchmarkStage, StageTools

CONSTANT NoTrace

stagesVars == <<stageVars, callVars, held>>

\* The fields of a call that diagnose reads.
ASSUME DiagnoseAssumption ==
    \A c \in {d \in Calls : d.stage = "diagnose"} :
        c.kind \in {"both", "quality", "latency"}

Looks(path) == call.kind \in {"both", path}

Published(kind) == <<kind, 0>> \in DOMAIN shelf

-----------------------------------------------------------------------------
\* Fault: only what a report says at its top level is read.
BlocksOfTop(report) ==
    {<<report.ar, "default", s>> : s \in report.top.teacher \cup report.top.chain}

\* Quality: the observations with noise, of every block of a report.
BlocksOf(report) ==
    {<<report.ar, "default", s>> : s \in report.top.teacher \cup report.top.chain}
    \cup UNION {{<<report.ar, m, s>> : s \in report.errors[m]} : m \in report.modes}

\* _quality_divergence_attributions: of all ARs if the report is on all of them.
Attributions ==
    IF ~Published("sqnr_report") THEN {}
    ELSE UNION {BlocksOf(r) : r \in Elements(shelf[<<"sqnr_report", 0>>].results)}

QualityFound == Looks("quality") /\ Attributions # {}

-----------------------------------------------------------------------------
\* Latency: the operator trace, and the report that it was made with.
TraceOf(artifacts) ==
    IF <<"optrace_evidence", 0>> \in DOMAIN artifacts
    THEN artifacts[<<"optrace_evidence", 0>>] ELSE NoTrace

LatencyFound == Looks("latency") /\ TraceOf(shelf) # NoTrace

\* A later benchmark without a trace has replaced the report, not the trace.
TraceCurrent ==
    /\ Published("latency_report")
    /\ shelf[<<"latency_report", 0>>].optrace = TraceOf(shelf).stamp

\* _optrace_compatibility_mismatches: the same graphs in the same steps, so
\* also the same number of operators.
Compatible(old, new) == old.ars = new.ars /\ old.profiled = new.profiled

\* Fault: the candidate's own artifact, inherited by its children, is not
\* excluded.
BaselineOwn ==
    LET of(i) == TraceOf(past[i])
        usable == {i \in DOMAIN past :
                     of(i) # NoTrace /\ Compatible(of(i), TraceOf(shelf))}
    IN  IF usable = {} THEN NoTrace ELSE of(Max(usable))

\* _optrace_baseline_from_history: the nearest ancestor with another trace of
\* the same graphs.
Baseline ==
    LET new == TraceOf(shelf)
        of(i) == TraceOf(past[i])
        usable == {i \in DOMAIN past :
                     of(i) # NoTrace /\ of(i) # new /\ Compatible(of(i), new)}
    IN  IF usable = {} THEN NoTrace ELSE of(Max(usable))

-----------------------------------------------------------------------------
BeginDiagnose ==
    /\ phase = "called" /\ call.stage = "diagnose"
    /\ Proceed(IF Automatic THEN "diagnose" ELSE "compare", << >>)
    /\ UNCHANGED held

\* A comparison with a baseline manifest, which may not be comparable, precedes
\* the diagnosis; traces that are given are compared as they are, by one of the
\* two paths.
CompareTraces ==
    /\ phase = "compare"
    /\ \/ FailCall
       \/ EndCall(Artifact(<<IF Looks("quality") THEN "quality_diagnosis"
                             ELSE "latency_diagnosis", 0>>, [given |-> TRUE]))
    /\ UNCHANGED held

Quality ==
    Artifact(<<"quality_diagnosis", 0>>,
             [given |-> FALSE, attributions |-> Attributions])

LatencyDiagnosis ==
    Artifact(<<"latency_diagnosis", 0>>,
             [given |-> FALSE, trace |-> TraceOf(shelf),
              report |-> shelf[<<"latency_report", 0>>], baseline |-> Baseline,
              mode |-> IF Baseline = NoTrace THEN "candidate_hotspot_only"
                       ELSE "parent_profile_delta"])

Attribute ==
    /\ phase = "diagnose"
    /\ IF \/ ~(QualityFound \/ LatencyFound)
          \/ LatencyFound /\ ~TraceCurrent
       THEN RefuseCall
       ELSE \/ FailCall
            \/ EndCall(Over(IF QualityFound THEN Quality ELSE << >>,
                        Over(IF LatencyFound THEN LatencyDiagnosis ELSE << >>,
                             IF QualityFound /\ LatencyFound
                             THEN Artifact(<<"automatic_diagnosis", 0>>,
                                           [given |-> FALSE])
                             ELSE << >>)))
    /\ UNCHANGED held

DiagnoseNext == BeginDiagnose \/ CompareTraces \/ Attribute
-----------------------------------------------------------------------------
StagesInit == Init /\ CallInit /\ BenchmarkInit

\* The stages of one manifest, which calls execute one after the other.
StagesNext ==
    \/ BuildStep /\ UNCHANGED <<callVars, held>>
    \/ ToolNext /\ UNCHANGED held
    \/ /\ UNCHANGED stageVars
       /\ \/ CallStage /\ UNCHANGED held
          \/ ValidateNext /\ UNCHANGED held
          \/ BenchmarkNext
          \/ DiagnoseNext

StagesSpec == StagesInit /\ [][StagesNext]_stagesVars
-----------------------------------------------------------------------------
\* What an execution whose slices deviate must show to somebody who compares
\* every slice, or the end of the model.
Visible(r) ==
    LET slices == {q.slice : q \in Elements(r.binding.routes)}
    IN  IF r.modes \cap {"teacher_forced", "chain"} # {}
        THEN r.noisy \cap slices # {}
        ELSE Last(r.binding.routes).slice \in Reached(r.noisy, slices)

QualityCall ==
    /\ ended.call # NoCall /\ ended.call.stage = "diagnose"
    /\ ended.call.form = "automatic" /\ ended.call.kind = "quality"

\* A quality diagnosis is refused only if no AR's execution deviated where it
\* was compared, and blames every AR that did; nothing that validate has
\* measured is lost in the aggregate that diagnose reads.
DivergenceReachesDiagnosis ==
    QualityCall =>
        LET results == IF Published("sqnr_report")
                       THEN Elements(shelf[<<"sqnr_report", 0>>].results) ELSE {}
            deviate == {r.ar : r \in {q \in results : q.executed /\ Visible(q)}}
        IN  \A ar \in deviate :
                /\ ended.how # "refused"
                /\ ended.how = "done" =>
                     \E a \in shelf[<<"quality_diagnosis", 0>>].attributions :
                        a[1] = ar

LatencyDiagnoses ==
    {d \in {shelf[n] : n \in {m \in DOMAIN shelf : m[1] = "latency_diagnosis"}} :
        ~d.given}

\* A latency diagnosis is about one benchmark, the trace it attributes and the
\* latency it quotes are of the same one; and it claims a regression only against
\* an earlier benchmark that executed the same graphs, not against the
\* candidate's own trace found again in an ancestor.
LatencyDiagnosisTrue ==
    \A d \in LatencyDiagnoses :
        /\ d.trace.stamp = d.report.optrace
        /\ d.mode = "parent_profile_delta" =>
             /\ d.baseline.stamp[1] < d.trace.stamp[1]
             /\ d.baseline.profiled = d.trace.profiled

\* A report on all ARs claims a set of ARs and context lengths: each of them was
\* executed, with a vector of its own.
ClaimsExecuted ==
    \A n \in DOMAIN shelf :
        n[1] \in {"sqnr_report", "latency_report"} /\ shelf[n].kind = "all" =>
            \A ar \in shelf[n].ars, cl \in shelf[n].cls :
                \E r \in Elements(shelf[n].results) :
                    r.binding.ar = ar /\ r.binding.cl = cl /\ r.vector.ar = ar
=============================================================================
