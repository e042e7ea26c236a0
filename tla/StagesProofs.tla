---------------------------- MODULE StagesProofs ----------------------------
(***************************************************************************)
(* Proofs about the stages of one manifest, for every split plan, every    *)
(* set of configurations and of calls, and any number of calls.            *)
(***************************************************************************)
EXTENDS DiagnoseStage, FiniteSetTheorems, SequenceTheorems, WellFoundedInduction,
        TLAPS

-----------------------------------------------------------------------------
(* Authorisations and the contexts that were compiled under them.          *)

\* A report on file says that all ARs of a slice at a context length agree.
Cleared(key) ==
    \E r \in reports :
        /\ r.slice = key[1] /\ r.cl = key[2]
        /\ \A ar \in key[3] : ar \in DOMAIN r.agrees /\ r.agrees[ar]

\* A context that needs such a report.
NeedsClearance(a) ==
    /\ Qwen35 /\ a.slice \in Decoders
    /\ a.kind \in {"context", "diagnostic", "recompiled"}
    /\ Cardinality(a.ars) > 1

ContextsCleared ==
    \A a \in made : NeedsClearance(a) => Cleared(<<a.slice, a.cl, a.ars>>)

\* Evidence is final and cleared, or the provisional one of the slice that is
\* being compiled jointly.
EvidenceCleared ==
    \A e \in minted :
        IF e.final THEN Cleared(e.key)
        ELSE pc = "joint" /\ e = Evidence(FALSE)

AuthorityInv == ContextsCleared /\ EvidenceCleared

LEMMA AuthoritySuffices == AuthorityInv => SharedContextsValidated
<1> SUFFICES ASSUME AuthorityInv
             PROVE  SharedContextsValidated
  OBVIOUS
<1>1. ASSUME NEW a \in made, NeedsClearance(a)
      PROVE  \E r \in reports :
                /\ r.slice = a.slice /\ r.cl = a.cl
                /\ \A ar \in a.ars : ar \in DOMAIN r.agrees /\ r.agrees[ar]
  <2>1. Cleared(<<a.slice, a.cl, a.ars>>)
    BY <1>1 DEF AuthorityInv, ContextsCleared
  <2> QED
    BY <2>1 DEF Cleared
<1>2. \A e \in minted : e.final \/ pc = "joint"
  BY DEF AuthorityInv, EvidenceCleared
<1> QED
  BY <1>1, <1>2 DEF NeedsClearance, SharedContextsValidated

LEMMA AuthorityInit == StagesInit => AuthorityInv
  BY DEF StagesInit, Init, BuildInit, AuthorityInv, ContextsCleared, EvidenceCleared

\* What a step may do with reports, contexts and evidence.
LEMMA AuthorityStep ==
    ASSUME AuthorityInv, spec' = spec,
           reports \subseteq reports',
           \A a \in made' : a \in made \/ ~NeedsClearance(a)
                            \/ Cleared(<<a.slice, a.cl, a.ars>>),
           \A e \in minted' :
               \/ e \in minted /\ e.final
               \/ e \in minted /\ pc' = "joint" /\ Evidence(FALSE)' = Evidence(FALSE)
               \/ e = Evidence(FALSE)' /\ pc' = "joint"
               \/ e.final /\ Cleared(e.key)'
    PROVE  AuthorityInv'
<1>1. ASSUME NEW key, Cleared(key)
      PROVE  Cleared(key)'
  BY <1>1 DEF Cleared
<1>2. ContextsCleared'
  <2> SUFFICES ASSUME NEW a \in made', NeedsClearance(a)
               PROVE  Cleared(<<a.slice, a.cl, a.ars>>)'
    BY DEF ContextsCleared, NeedsClearance, Qwen35
  <2>1. Cleared(<<a.slice, a.cl, a.ars>>)
    BY DEF AuthorityInv, ContextsCleared
  <2> QED
    BY <1>1, <2>1
<1>3. EvidenceCleared'
  <2> SUFFICES ASSUME NEW e \in minted'
               PROVE  IF e.final THEN Cleared(e.key)'
                      ELSE pc' = "joint" /\ e = Evidence(FALSE)'
    BY DEF EvidenceCleared
  <2>1. CASE e \in minted /\ e.final
    BY <1>1, <2>1 DEF AuthorityInv, EvidenceCleared
  <2>2. CASE e \in minted /\ pc' = "joint" /\ Evidence(FALSE)' = Evidence(FALSE)
    BY <1>1, <2>2 DEF AuthorityInv, EvidenceCleared
  <2>3. CASE e = Evidence(FALSE)' /\ pc' = "joint"
    BY <2>3 DEF Evidence
  <2>4. CASE e.final /\ Cleared(e.key)'
    BY <2>4
  <2> QED
    BY <2>1, <2>2, <2>3, <2>4
<1> QED
  BY <1>2, <1>3 DEF AuthorityInv

\* A step that neither mints evidence nor makes a context that needs it.
LEMMA AuthorityQuiet ==
    ASSUME AuthorityInv, spec' = spec, minted' = minted,
           reports \subseteq reports',
           pc # "joint" \/ (pc' = pc /\ at' = at),
           \A a \in made' : a \in made \/ ~NeedsClearance(a)
                            \/ Cleared(<<a.slice, a.cl, a.ars>>)
    PROVE  AuthorityInv'
<1>1. \A e \in minted' :
         e \in minted /\ (e.final \/ (pc' = "joint" /\ Evidence(FALSE)' = Evidence(FALSE)))
  <2> SUFFICES ASSUME NEW e \in minted, ~e.final
               PROVE  pc' = "joint" /\ Evidence(FALSE)' = Evidence(FALSE)
    OBVIOUS
  <2>1. pc' = "joint" /\ at' = at
    BY DEF AuthorityInv, EvidenceCleared
  <2> QED
    BY <2>1 DEF Evidence, Key, Slice, Cl, AllArs
<1> QED
  BY <1>1, AuthorityStep

\* A graph of one AR shares nothing.
LEMMA OneAr ==
    ASSUME NEW kind, NEW cl, NEW slice, NEW ar
    PROVE  ~NeedsClearance(Art(kind, cl, slice, {ar}))
<1>1. Cardinality({ar}) = 1
  BY FS_Singleton
<1> QED
  BY <1>1 DEF NeedsClearance, Art

\* What is neither a context nor a diagnostic context needs no clearance.
LEMMA OtherKind ==
    ASSUME NEW kind, NEW cl, NEW slice, NEW ars,
           kind \notin {"context", "diagnostic", "recompiled"}
    PROVE  ~NeedsClearance(Art(kind, cl, slice, ars))
  BY DEF NeedsClearance, Art

\* The checks of compile_context let all ARs be compiled together only with
\* final evidence, unless it is the joint compilation.
LEMMA MayCompileCleared ==
    ASSUME AuthorityInv, pc # "joint", NEW kind,
           MayCompile(AllArs, TRUE, evidence),
           NeedsClearance(Art(kind, Cl, Slice, AllArs))
    PROVE  Cleared(<<Slice, Cl, AllArs>>)
<1>1. IsDerivedDecoder
  BY DEF NeedsClearance, Art, IsDerivedDecoder
<1>2. evidence \in minted /\ evidence.key = <<Slice, Cl, AllArs>>
  BY <1>1 DEF MayCompile, Covers, Key
<1>3. evidence.final
  BY <1>2 DEF AuthorityInv, EvidenceCleared
<1> QED
  BY <1>2, <1>3 DEF AuthorityInv, EvidenceCleared

LEMMA AuthorityCompile ==
    ASSUME AuthorityInv, Compile \/ Diagnose
    PROVE  AuthorityInv'
<1> DEFINE Kind == IF pc = "compile" THEN "context" ELSE "diagnostic"
<1>1. /\ pc # "joint" /\ minted' = minted /\ spec' = spec /\ reports' = reports
  BY DEF Compile, Diagnose, CompileSlice, CompileContext, Call, Makes, Fails, Refuses, Raise
<1>2. CASE spec.shared
  <2>1. \/ made' = made
        \/ /\ MayCompile(AllArs, TRUE, evidence)
           /\ made' = made \cup {Art(Kind, Cl, Slice, AllArs)}
    BY <1>2 DEF Compile, Diagnose, CompileSlice, CompileContext, Call, Makes,
                Fails, Refuses, Raise
  <2>2. Art(Kind, Cl, Slice, AllArs).slice = Slice
        /\ Art(Kind, Cl, Slice, AllArs).cl = Cl
        /\ Art(Kind, Cl, Slice, AllArs).ars = AllArs
    BY DEF Art
  <2> QED
    BY <1>1, <2>1, <2>2, MayCompileCleared, AuthorityQuiet
<1>3. CASE ~spec.shared
  <2>1. made' = made \/ made' = made \cup {Art(Kind, Cl, Slice, {Ar})}
    BY <1>3 DEF Compile, Diagnose, CompileSlice, CompileContext, Call, Makes,
                Fails, Refuses, Raise
  <2> QED
    BY <1>1, <2>1, OneAr, AuthorityQuiet
<1> QED
  BY <1>2, <1>3

LEMMA AuthorityQwen ==
    ASSUME AuthorityInv, Structure \/ Standalone \/ Authorise \/ Joint \/ Runtime
    PROVE  AuthorityInv'
<1>1. CASE Structure
  BY <1>1, AuthorityQuiet DEF Structure, Fails, Raise
<1>2. CASE Standalone
  <2>1. /\ pc # "joint" /\ minted' = minted /\ spec' = spec /\ reports' = reports
        /\ \/ made' = made
           \/ made' = made \cup {Art("standalone", Cl, Slice, {Ar})}
    BY <1>2 DEF Standalone, CompileContext, Call, Makes, Fails, Refuses, Raise
  <2> QED
    BY <2>1, OneAr, AuthorityQuiet
<1>3. CASE Authorise
  <2>1. /\ spec' = spec /\ reports' = reports /\ made' = made /\ pc' = "joint"
        /\ minted' = minted \cup {Evidence(FALSE)} /\ Evidence(FALSE)' = Evidence(FALSE)
    BY <1>3 DEF Authorise, Evidence, Key, Slice, Cl, AllArs
  <2>2. \A e \in minted : e.final
    BY <1>3 DEF Authorise, AuthorityInv, EvidenceCleared
  <2> QED
    BY <2>1, <2>2, AuthorityStep
<1>4. CASE Joint
  <2>1. /\ spec' = spec /\ reports' = reports /\ minted' = minted \ {Evidence(FALSE)}
        /\ \/ made' = made
           \/ made' = made \cup {Art("joint", Cl, Slice, AllArs)}
    BY <1>4 DEF Joint, CompileContext, Call, Makes, Fails, Refuses, Raise
  <2>2. \A e \in minted' : e \in minted /\ e.final
    BY <2>1 DEF AuthorityInv, EvidenceCleared
  <2> QED
    BY <2>1, <2>2, OtherKind, AuthorityStep
<1>5. CASE Runtime
  <2>1. /\ spec' = spec /\ made' = made /\ reports \subseteq reports'
        /\ \A e \in minted : e.final
        /\ \/ minted' = minted
           \/ /\ minted' = minted \cup {Evidence(TRUE)}
              /\ \E agrees \in [AllArs -> BOOLEAN] :
                   /\ \A ar \in AllArs : agrees[ar]
                   /\ RuntimeReport(agrees) \in reports'
    BY <1>5 DEF Runtime, Fails, Refuses, Raise, AuthorityInv, EvidenceCleared
  <2>2. CASE minted' = minted
    BY <2>1, <2>2, AuthorityStep
  <2>3. ASSUME NEW agrees \in [AllArs -> BOOLEAN],
               \A ar \in AllArs : agrees[ar],
               RuntimeReport(agrees) \in reports',
               minted' = minted \cup {Evidence(TRUE)}
        PROVE  AuthorityInv'
    <3>1. ASSUME NEW key, key = Key
          PROVE  Cleared(key)'
      <4> DEFINE r == RuntimeReport(agrees)
      <4>1. r.slice = key[1] /\ r.cl = key[2] /\ r.agrees = agrees /\ key[3] = AllArs
        BY <3>1 DEF RuntimeReport, Key
      <4> QED
        BY <2>3, <4>1 DEF Cleared
    <3>2. Evidence(TRUE).final /\ Evidence(TRUE).key = Key
      BY DEF Evidence
    <3> QED
      BY <2>1, <2>3, <3>1, <3>2, AuthorityStep
  <2> QED
    BY <2>1, <2>2, <2>3
<1> QED
  BY <1>1, <1>2, <1>3, <1>4, <1>5

\* What is made for one AR or is no context.
LEMMA AuthorityOther ==
    ASSUME AuthorityInv,
           \/ Start \/ ArConvert \/ Transform \/ BeginSlice \/ Convert \/ Publish
           \/ Vision \/ BuildVit \/ Prepare \/ BindVectors \/ BindGenaiVectors
           \/ PublishIndex \/ GenaiNext
    PROVE  AuthorityInv'
<1>1. CASE Start
  BY <1>1, AuthorityQuiet DEF Start, Refuses, Raise
<1>2. CASE ArConvert \/ Convert \/ Transform
  <2>1. /\ pc # "joint" /\ minted' = minted /\ spec' = spec /\ reports' = reports
        /\ \/ made' = made
           \/ made' = made \cup {Art("variant", Cl, "", {Ar})}
           \/ made' = made \cup {Art("converted", Cl, Slice, {Ar})}
           \/ made' = made \cup {Art("transformed", Cl, s, {Ar}) : s \in Range(Slices)}
    BY <1>2 DEF ArConvert, Convert, Transform, Call, Makes, Fails, Refuses, Raise
  <2>2. ASSUME NEW a \in made', a \notin made
        PROVE  ~NeedsClearance(a)
    <3>1. CASE made' = made \cup {Art("transformed", Cl, s, {Ar}) : s \in Range(Slices)}
      <4>1. PICK s \in Range(Slices) : a = Art("transformed", Cl, s, {Ar})
        BY <2>2, <3>1
      <4> QED
        BY <4>1, OneAr
    <3> QED
      BY <2>1, <2>2, <3>1, OneAr
  <2> QED
    BY <2>1, <2>2, AuthorityQuiet
<1>3. CASE BeginSlice \/ Publish
  <2>1. /\ pc # "joint" /\ minted' = minted /\ spec' = spec /\ reports' = reports
        /\ \/ made' = made
           \/ made' = made \cup {Art("boundary", Cl, Slice, AllArs)}
    BY <1>3 DEF BeginSlice, Publish
  <2> QED
    BY <2>1, OtherKind, AuthorityQuiet
<1>4. CASE Vision \/ BuildVit
  <2> DEFINE Kinds == {"converted", "context"}
                        \cup (IF spec.diagnostic THEN {"diagnostic"} ELSE {})
  <2>1. pc # "joint" /\ minted' = minted /\ spec' = spec /\ reports' = reports
    BY <1>4 DEF Vision, BuildVit, Call, Makes, Fails, Refuses, Raise
  <2>2. \/ made' = made
        \/ made' = made \cup {Art(k, 0, VisionSlice, {1}) : k \in Kinds}
        \/ made' = made \cup {Art(k, 0, VitSlice, {1}) : k \in Kinds}
    BY <1>4 DEF Vision, BuildVit, Call, Makes, Fails, Refuses, Raise
  <2> QED
    BY <2>1, <2>2, OneAr, AuthorityQuiet
<1>5. CASE Prepare \/ BindVectors \/ BindGenaiVectors \/ PublishIndex
  <2>1. /\ pc # "joint" /\ minted' = minted /\ spec' = spec /\ reports' = reports
        /\ made' = made
    BY <1>5 DEF Prepare, BindVectors, BindGenaiVectors, PublishIndex, Publishable,
                Refuses, Raise
  <2> QED
    BY <2>1, AuthorityQuiet
<1>6. CASE GenaiNext
  <2>1. CASE CheckContainer \/ DescribeSlices
    BY <2>1, AuthorityQuiet DEF CheckContainer, DescribeSlices, Refuses, Raise
  <2>2. CASE BuildContainer \/ BuildOmni
    <3>1. /\ pc # "joint" /\ minted' = minted /\ spec' = spec /\ reports' = reports
      BY <2>2 DEF BuildContainer, BuildOmni, Makes, Fails, Raise
    <3>2. \/ made' = made
          \/ made' = made \cup {Art("container", 0, Destination, AllArs)}
      BY <2>2 DEF BuildContainer, BuildOmni, Makes, Fails, Raise
    <3> QED
      BY <3>1, <3>2, OtherKind, AuthorityQuiet
  <2> QED
    BY <1>6, <2>1, <2>2 DEF GenaiNext
<1> QED
  BY <1>1, <1>2, <1>3, <1>4, <1>5, <1>6

\* compile_context as a tool mints nothing, and refuses what would need it.
LEMMA AuthorityTools ==
    ASSUME AuthorityInv, ToolNext
    PROVE  AuthorityInv'
<1>1. minted' = minted /\ spec' = spec /\ reports' = reports /\ pc' = pc /\ at' = at
  BY DEF ToolNext
<1>2. \A a \in made' : a \in made \/ ~NeedsClearance(a)
  <2>1. CASE CompileModels
    <3>1. \/ made' = made
          \/ /\ call.shared => ~(Qwen35 /\ call.derived /\ call.slice \in Decoders)
             /\ call.shared <=> Cardinality(call.ars) > 1
             /\ made' = made \cup {Art(IF call.derived THEN "recompiled" ELSE "given",
                                       call.cl, call.slice, call.ars)}
      BY <2>1 DEF CompileModels
    <3> QED
      BY <3>1 DEF NeedsClearance, Art
  <2>2. CASE ~CompileModels
    BY <2>2 DEF ToolNext, ToolStep, PrepareVectors, ConvertAr, TransformModel,
                ConvertModel, RunGraph, RunChain
  <2> QED
    BY <2>1, <2>2
<1> QED
  BY <1>1, <1>2, AuthorityQuiet

\* Calls and stuttering leave the build as it is.
LEMMA AuthorityIdle ==
    ASSUME AuthorityInv, UNCHANGED stageVars
    PROVE  AuthorityInv'
  BY AuthorityQuiet DEF stageVars, buildVars

\* README.md and docs/architecture.md: derived graphs that share weights need an
\* authorisation.  Whatever configuration is built, at whatever call it fails, and
\* whatever tools are called on it afterwards, a shared decoder context of a
\* Qwen3.5 has a report by which all its ARs agree, and no provisional
\* authorisation survives the compilation it was for.
THEOREM AuthorityHolds == StagesSpec => []SharedContextsValidated
<1>1. StagesInit => AuthorityInv
  BY AuthorityInit
<1>2. AuthorityInv /\ [StagesNext]_stagesVars => AuthorityInv'
  <2> SUFFICES ASSUME AuthorityInv, [StagesNext]_stagesVars
               PROVE  AuthorityInv'
    OBVIOUS
  <2>1. CASE BuildStep
    BY <2>1, AuthorityCompile, AuthorityQwen, AuthorityOther DEF BuildStep, BuildNext
  <2>2. CASE ToolNext
    BY <2>2, AuthorityTools
  <2>3. CASE UNCHANGED stageVars
    BY <2>3, AuthorityIdle
  <2> QED
    BY <2>1, <2>2, <2>3 DEF StagesNext, stagesVars
<1> QED
  BY <1>1, <1>2, AuthoritySuffices, PTL DEF StagesSpec

-----------------------------------------------------------------------------
(* The course of a call.                                                   *)

\* A call is at some phase.
IdleInv == call = NoCall => phase = "idle"

LEMMA IdleInit == StagesInit => IdleInv
  BY DEF StagesInit, CallInit, IdleInv

\* A step of a call goes on with it or ends it.
Stays == call' = call
Ends == call' = NoCall /\ phase' = "idle"

LEMMA EndsCall ==
    /\ RefuseCall \/ FailCall => Ends
    /\ \A artifacts : EndCall(artifacts) => Ends
  BY DEF RefuseCall, FailCall, EndCall, End, Ends

LEMMA IdleStep ==
    ASSUME IdleInv, phase # "idle", Stays \/ Ends
    PROVE  IdleInv'
  BY DEF IdleInv, Stays, Ends

\* The next AR of a call that fans out, or its end.
LEMMA NextArStep ==
    ASSUME NEW artifacts, NEW first, NEW aggregate, NextAr(artifacts, first, aggregate)
    PROVE  Stays \/ Ends
  BY EndsCall DEF NextAr, Stays

LEMMA StartsStep ==
    ASSUME NEW stage, NEW first, Starts(stage, first)
    PROVE  phase = "called" /\ (Stays \/ Ends)
  BY EndsCall DEF Starts, Stays

LEMMA ProceedStep ==
    ASSUME NEW next, NEW results, Proceed(next, results)
    PROVE  Stays /\ phase' = next
  BY DEF Proceed, Stays

LEMMA IdleTools ==
    ASSUME IdleInv, ToolNext
    PROVE  IdleInv'
<1>1. phase = "called"
  BY DEF ToolNext, ToolStep, PrepareVectors, ConvertAr, TransformModel, ConvertModel,
         CompileModels, RunGraph, RunChain, Uses
<1>2. ASSUME NEW accepted, NEW artifact, Tool(accepted, artifact)
      PROVE  Ends
  BY <1>2, EndsCall DEF Tool
<1>3. Ends
  <2>1. CASE CompileModels
    BY <2>1, EndsCall DEF CompileModels
  <2>2. CASE PrepareVectors \/ ConvertAr \/ TransformModel \/ ConvertModel
    BY <2>2, <1>2 DEF PrepareVectors, ConvertAr, TransformModel, ConvertModel
  <2>3. CASE RunGraph
    BY <2>3, <1>2 DEF RunGraph
  <2>4. CASE RunChain
    BY <2>4, <1>2 DEF RunChain
  <2> QED
    BY <2>1, <2>2, <2>3, <2>4 DEF ToolNext, ToolStep
<1> QED
  BY <1>1, <1>3, IdleStep

LEMMA IdleValidate ==
    ASSUME IdleInv, ValidateNext
    PROVE  IdleInv'
<1>1. phase # "idle" /\ (Stays \/ Ends)
  <2>1. CASE BeginValidate
    BY <2>1, StartsStep DEF BeginValidate
  <2>2. CASE BindValidate
    BY <2>2, EndsCall, ProceedStep DEF BindValidate
  <2>3. CASE PrepareReferences
    BY <2>3, EndsCall, ProceedStep DEF PrepareReferences
  <2>4. CASE ExecuteModes
    BY <2>4, EndsCall, ProceedStep DEF ExecuteModes
  <2>5. CASE PublishReport
    BY <2>5, EndsCall, NextArStep DEF PublishReport
  <2>6. CASE PublishAggregate
    BY <2>6, EndsCall DEF PublishAggregate
  <2> QED
    BY <2>1, <2>2, <2>3, <2>4, <2>5, <2>6 DEF ValidateNext
<1> QED
  BY <1>1, IdleStep

LEMMA IdleDiagnose ==
    ASSUME IdleInv, DiagnoseNext
    PROVE  IdleInv'
<1>1. phase # "idle" /\ (Stays \/ Ends)
  <2>1. CASE BeginDiagnose
    BY <2>1, ProceedStep DEF BeginDiagnose
  <2>2. CASE CompareTraces
    BY <2>2, EndsCall DEF CompareTraces
  <2>3. CASE Attribute
    BY <2>3, EndsCall DEF Attribute
  <2> QED
    BY <2>1, <2>2, <2>3 DEF DiagnoseNext
<1> QED
  BY <1>1, IdleStep

LEMMA IdleBenchmark ==
    ASSUME IdleInv, BenchmarkNext
    PROVE  IdleInv'
<1>1. CASE BeginBenchmark
  BY <1>1, EndsCall, StartsStep, IdleStep DEF BeginBenchmark
<1>2. CASE SelectBenchmark
  BY <1>2, EndsCall, ProceedStep, IdleStep DEF SelectBenchmark
<1>3. CASE OpenContainer
  BY <1>3, EndsCall, ProceedStep, IdleStep DEF OpenContainer
<1>4. CASE OpenChain
  BY <1>4, EndsCall, ProceedStep, IdleStep DEF OpenChain
<1>5. CASE OpenGraph
  BY <1>5, EndsCall, ProceedStep, IdleStep DEF OpenGraph
<1>6. CASE Measure
  BY <1>6, EndsCall, ProceedStep, IdleStep DEF Measure
<1>7. CASE Meter
  BY <1>7, ProceedStep, IdleStep DEF Meter
<1>8. CASE PublishLatency
  BY <1>8, EndsCall, NextArStep, IdleStep DEF PublishLatency
<1>9. CASE PublishLatencies
  BY <1>9, EndsCall, IdleStep DEF PublishLatencies
<1> QED
  BY <1>1, <1>2, <1>3, <1>4, <1>5, <1>6, <1>7, <1>8, <1>9 DEF BenchmarkNext

-----------------------------------------------------------------------------
(* What the progress file says.                                            *)

\* The loops stay inside the configuration.
InLoops ==
    /\ spec \in Specs
    /\ at \in [cl : Nat, slice : Nat, ar : Nat]
    /\ at.cl \in 1 .. Len(spec.cls) /\ at.ar \in 1 .. Len(spec.ars)

\* Contexts of a context length hold ARs of the configuration only.
OwnArs == \A a \in made : a.kind = "context" => a.cl = 0 \/ a.ars \subseteq AllArs

\* The statements of a slice that is validated before it is compiled, which is
\* only done when weights are shared.
Validating == {"structure", "standalone", "authorise", "joint", "runtime"}

\* The contexts of the current slice: those of the ARs before the current one
\* while they are compiled one at a time, and those of all ARs afterwards.
SliceCompiled ==
    /\ pc \in Validating => spec.shared
    /\ pc = "compile" /\ ~spec.shared =>
         \A i \in 1 .. at.ar - 1 : Art("context", Cl, Slice, {spec.ars[i]}) \in made
    /\ pc \in {"diagnose", "publish"} =>
         \A ar \in AllArs : \E a \in made :
            /\ a.kind = "context" /\ a.cl = Cl /\ a.slice = Slice
            /\ ar \in a.ars

ProgressInv == InLoops /\ OwnArs /\ SliceCompiled /\ ProgressTruthful

\* What contracts.py demands of the configuration being built.
LEMMA Configured ==
    ASSUME InLoops
    PROVE  /\ spec.cls \in Seq(Nat \ {0}) /\ spec.ars \in Seq(Nat \ {0})
           /\ Cl \in Nat \ {0}
           /\ Ar \in AllArs
           /\ AllArs = {spec.ars[i] : i \in 1 .. Len(spec.ars)}
           /\ Qwen35 /\ Len(spec.ars) > 1 => spec.shared
<1>1. spec.cls \in Seq(Nat \ {0}) /\ spec.ars \in Seq(Nat \ {0})
  BY SpecAssumption DEF InLoops
<1>2. Qwen35 /\ Len(spec.ars) > 1 => spec.shared
  BY SpecAssumption DEF InLoops, Qwen35
<1>3. Cl \in Nat \ {0}
  BY <1>1 DEF InLoops, Cl
<1>4. AllArs = {spec.ars[i] : i \in 1 .. Len(spec.ars)}
  BY <1>1 DEF AllArs, Range
<1>5. Ar \in AllArs
  BY <1>4 DEF InLoops, Ar
<1> QED
  BY <1>1, <1>2, <1>3, <1>4, <1>5

LEMMA ProgressInit == StagesInit => ProgressInv
<1> SUFFICES ASSUME StagesInit
             PROVE  ProgressInv
  OBVIOUS
<1>1. /\ spec \in Specs /\ at = [cl |-> 1, slice |-> 1, ar |-> 1]
      /\ made = {} /\ progress = {} /\ pc = "prepare"
  BY DEF StagesInit, Init, BuildInit
<1>2. /\ spec.cls \in Seq(Nat \ {0}) /\ spec.cls # << >>
      /\ spec.ars \in Seq(Nat \ {0}) /\ spec.ars # << >>
  BY <1>1, SpecAssumption
<1>3. Len(spec.cls) \in Nat \ {0} /\ Len(spec.ars) \in Nat \ {0}
  BY <1>2
<1> QED
  BY <1>1, <1>3 DEF ProgressInv, InLoops, OwnArs, SliceCompiled, Validating,
                    ProgressTruthful

\* A step that records nothing and does not enter the compilation of a slice.
LEMMA ProgressKept ==
    ASSUME ProgressInv, InLoops', spec' = spec, progress' = progress,
           made \subseteq made',
           \A a \in made' : \/ a \in made \/ a.kind # "context" \/ a.cl = 0
                            \/ a.ars \subseteq AllArs,
           \/ pc' \notin {"compile", "diagnose", "publish"} \cup Validating
           \/ pc' = pc /\ at' = at
    PROVE  ProgressInv'
<1>1. AllArs' = AllArs
  BY DEF AllArs
<1>2. OwnArs'
  BY <1>1 DEF ProgressInv, OwnArs
<1>3. SliceCompiled'
  <2>1. CASE pc' \notin {"compile", "diagnose", "publish"} \cup Validating
    BY <2>1 DEF SliceCompiled
  <2>2. CASE pc' = pc /\ at' = at
    <3>1. Cl' = Cl /\ Slice' = Slice
      BY <2>2 DEF Cl, Slice
    <3> QED
      BY <1>1, <2>2, <3>1 DEF ProgressInv, SliceCompiled
  <2> QED
    BY <2>1, <2>2
<1>4. ProgressTruthful'
  BY <1>1 DEF ProgressInv, ProgressTruthful
<1> QED
  BY <1>2, <1>3, <1>4 DEF ProgressInv

\* An exception.
LEMMA ProgressRaise ==
    ASSUME ProgressInv, Fails \/ Refuses \/ (fault' = TRUE /\ Raise)
    PROVE  ProgressInv'
<1>1. /\ spec' = spec /\ at' = at /\ made' = made /\ progress' = progress
      /\ pc' = "failed"
  BY DEF Fails, Refuses, Raise
<1>2. InLoops'
  BY <1>1 DEF ProgressInv, InLoops
<1> QED
  BY <1>1, <1>2, ProgressKept DEF Validating

\* The loop over the ARs.
LEMMA ForEachArStep ==
    ASSUME InLoops, spec' = spec, NEW next, ForEachAr(next)
    PROVE  /\ InLoops'
           /\ at'.cl = at.cl /\ at'.slice = at.slice
           /\ \/ at.ar < Len(spec.ars) /\ at'.ar = at.ar + 1 /\ pc' = pc
              \/ at.ar = Len(spec.ars) /\ at'.ar = 1 /\ pc' = next
<1>1. Len(spec.ars) \in Nat
  BY Configured
<1>2. CASE at.ar < Len(spec.ars)
  BY <1>1, <1>2 DEF ForEachAr, InLoops
<1>3. CASE ~(at.ar < Len(spec.ars))
  BY <1>1, <1>3 DEF ForEachAr, InLoops
<1> QED
  BY <1>2, <1>3

\* After the last slice come the next context length and the vision encoder.
LEMMA NextSliceStep ==
    ASSUME InLoops, spec' = spec, NextSlice
    PROVE  InLoops' /\ pc' \in {"slice", "ar_convert", "done", "vision"}
<1>1. Len(spec.cls) \in Nat /\ Len(spec.ars) \in Nat /\ Len(Slices) \in Nat
      /\ Len(spec.ars) >= 1
  <2>1. spec.cls \in Seq(Nat \ {0}) /\ spec.ars \in Seq(Nat \ {0})
    BY Configured
  <2>2. Len(spec.cls) \in Nat /\ Len(spec.ars) \in Nat
    BY <2>1
  <2>3. Len(Slices) \in Nat
    BY SliceAssumption
  <2>4. Len(spec.ars) >= 1
    BY <2>2 DEF InLoops
  <2> QED
    BY <2>2, <2>3, <2>4
<1>2. CASE at.slice < Len(Slices)
  BY <1>1, <1>2 DEF NextSlice, InLoops
<1>3. CASE ~(at.slice < Len(Slices)) /\ at.cl < Len(spec.cls)
  BY <1>1, <1>3 DEF NextSlice, InLoops
<1>4. CASE ~(at.slice < Len(Slices)) /\ ~(at.cl < Len(spec.cls))
  BY <1>4 DEF NextSlice, InLoops
<1> QED
  BY <1>2, <1>3, <1>4

\* What makes the models of a context length or begins a slice.
LEMMA ProgressLoops ==
    ASSUME ProgressInv, ArConvert \/ Transform \/ BeginSlice
    PROVE  ProgressInv'
<1>0. InLoops
  BY DEF ProgressInv
<1>1. CASE ArConvert
  <2>1. \/ Refuses \/ Fails
        \/ Makes({Art("variant", Cl, "", {Ar})}) /\ ForEachAr("transform")
           /\ pc = "ar_convert"
    BY <1>1 DEF ArConvert, Call
  <2>2. ASSUME Makes({Art("variant", Cl, "", {Ar})}), ForEachAr("transform"),
               pc = "ar_convert"
        PROVE  ProgressInv'
    <3>1. /\ spec' = spec /\ progress' = progress
          /\ made' = made \cup {Art("variant", Cl, "", {Ar})}
      BY <2>2 DEF Makes
    <3>2. InLoops' /\ pc' \in {"ar_convert", "transform"}
      BY <1>0, <2>2, <3>1, ForEachArStep
    <3>3. Art("variant", Cl, "", {Ar}).kind # "context"
      BY DEF Art
    <3> QED
      BY <3>1, <3>2, <3>3, ProgressKept DEF Validating
  <2> QED
    BY <2>1, <2>2, ProgressRaise
<1>2. CASE Transform
  <2> DEFINE Arts == {Art("transformed", Cl, s, {Ar}) : s \in Range(Slices)}
  <2>1. Fails \/ (Makes(Arts) /\ ForEachAr("slice") /\ pc = "transform")
    BY <1>2 DEF Transform, Call
  <2>2. ASSUME Makes(Arts), ForEachAr("slice"), pc = "transform"
        PROVE  ProgressInv'
    <3>1. spec' = spec /\ progress' = progress /\ made' = made \cup Arts
      BY <2>2 DEF Makes
    <3>2. InLoops' /\ pc' \in {"transform", "slice"}
      BY <1>0, <2>2, <3>1, ForEachArStep
    <3>3. \A a \in Arts : a.kind # "context"
      BY DEF Art
    <3> HIDE DEF Arts
    <3> QED
      BY <3>1, <3>2, <3>3, ProgressKept DEF Validating
  <2> QED
    BY <2>1, <2>2, ProgressRaise
<1>3. CASE BeginSlice
  <2>1. /\ spec' = spec /\ progress' = progress
        /\ \/ made' = made
           \/ made' = made \cup {Art("boundary", Cl, Slice, AllArs)}
        /\ NextSlice \/ (pc' = "convert" /\ at' = at)
    BY <1>3 DEF BeginSlice
  <2>2. InLoops' /\ pc' \in {"slice", "ar_convert", "done", "vision", "convert"}
    <3>1. CASE NextSlice
      BY <1>0, <2>1, <3>1, NextSliceStep
    <3>2. CASE pc' = "convert" /\ at' = at
      BY <1>0, <2>1, <3>2 DEF InLoops
    <3> QED
      BY <2>1, <3>1, <3>2
  <2>3. Art("boundary", Cl, Slice, AllArs).kind # "context"
    BY DEF Art
  <2> QED
    BY <2>1, <2>2, <2>3, ProgressKept DEF Validating
<1> QED
  BY <1>1, <1>2, <1>3

\* What comes before and after the slices: nothing is recorded there, and what is
\* made for all context lengths is no context of a slice.
LEMMA ProgressAround ==
    ASSUME ProgressInv,
           \/ Start \/ Vision \/ BuildVit \/ Prepare \/ BindVectors
           \/ BindGenaiVectors \/ PublishIndex \/ GenaiNext
    PROVE  ProgressInv'
<1>0. InLoops
  BY DEF ProgressInv
<1> DEFINE Around == {"ar_convert", "done", "start", "vit", "bind_genai", "genai",
                      "publish_index", "succeeded", "genai_build", "omni_build",
                      "genai_raw", "failed"}
<1>1. /\ spec' = spec /\ progress' = progress /\ at' = at /\ pc' \in Around
      /\ made \subseteq made'
      /\ \A a \in made' : a \in made \/ a.cl = 0
  <2>1. CASE Start
    BY <2>1 DEF Start, Refuses, Raise
  <2>2. CASE Vision
    BY <2>2 DEF Vision, Call, Makes, Fails, Refuses, Raise, Art
  <2>3. CASE BuildVit
    BY <2>3 DEF BuildVit, Call, Makes, Fails, Raise, Art
  <2>4. CASE Prepare
    BY <2>4 DEF Prepare, Refuses, Raise
  <2>5. CASE BindVectors
    BY <2>5 DEF BindVectors, Refuses, Raise
  <2>6. CASE BindGenaiVectors
    BY <2>6 DEF BindGenaiVectors, Refuses, Raise
  <2>7. CASE PublishIndex
    BY <2>7 DEF PublishIndex
  <2>8. CASE CheckContainer \/ DescribeSlices
    BY <2>8 DEF CheckContainer, DescribeSlices, Refuses, Raise
  <2>9. CASE BuildContainer
    BY <2>9 DEF BuildContainer, Makes, Fails, Raise, Art
  <2>10. CASE BuildOmni
    BY <2>10 DEF BuildOmni, Makes, Fails, Raise, Art
  <2> QED
    BY <2>1, <2>2, <2>3, <2>4, <2>5, <2>6, <2>7, <2>8, <2>9, <2>10 DEF GenaiNext
<1>2. InLoops'
  BY <1>0, <1>1 DEF InLoops
<1> QED
  BY <1>1, <1>2, ProgressKept DEF Validating

\* A step by which nothing is recorded and the ARs of the current slice stay
\* complete.
LEMMA ProgressSlice ==
    ASSUME ProgressInv, InLoops', spec' = spec, progress' = progress,
           made \subseteq made',
           \A a \in made' : a \in made \/ a.kind # "context" \/ a.ars \subseteq AllArs,
           SliceCompiled'
    PROVE  ProgressInv'
<1>1. AllArs' = AllArs
  BY DEF AllArs
<1>2. OwnArs'
  BY <1>1 DEF ProgressInv, OwnArs
<1>3. ProgressTruthful'
  BY <1>1 DEF ProgressInv, ProgressTruthful
<1> QED
  BY <1>2, <1>3 DEF ProgressInv

\* What is converted, and the validation of a slice before it is compiled.
LEMMA ProgressConvert ==
    ASSUME ProgressInv, Convert
    PROVE  ProgressInv'
<1> DEFINE next == IF IsDerivedDecoder /\ Len(spec.ars) > 1
                   THEN "structure" ELSE "compile"
<1>0. InLoops
  BY DEF ProgressInv
<1>1. Fails \/ (Makes({Art("converted", Cl, Slice, {Ar})}) /\ ForEachAr(next)
                /\ pc = "convert")
  BY DEF Convert, Call
<1>2. ASSUME Makes({Art("converted", Cl, Slice, {Ar})}), ForEachAr(next),
             pc = "convert"
      PROVE  ProgressInv'
  <2>1. /\ spec' = spec /\ progress' = progress
        /\ made' = made \cup {Art("converted", Cl, Slice, {Ar})}
    BY <1>2 DEF Makes
  <2>2. /\ InLoops'
        /\ pc' = "convert" \/ (pc' = next /\ at'.ar = 1)
    BY <1>0, <1>2, <2>1, ForEachArStep
  <2>3. Art("converted", Cl, Slice, {Ar}).kind # "context"
    BY DEF Art
  <2>4. SliceCompiled'
    <3>1. next = "structure" => spec.shared
      BY <1>0, Configured DEF IsDerivedDecoder
    <3>2. CASE pc' = "convert"
      BY <3>2 DEF SliceCompiled, Validating
    <3>3. CASE pc' = "structure" /\ next = "structure"
      BY <2>1, <3>1, <3>3 DEF SliceCompiled
    <3>4. CASE pc' = "compile" /\ at'.ar = 1
      BY <3>4 DEF SliceCompiled, Validating
    <3> QED
      BY <2>2, <3>2, <3>3, <3>4
  <2> QED
    BY <2>1, <2>2, <2>3, <2>4, ProgressSlice
<1> QED
  BY <1>1, <1>2, ProgressRaise

LEMMA ProgressQwen ==
    ASSUME ProgressInv, Structure \/ Standalone \/ Authorise \/ Joint \/ Runtime
    PROVE  ProgressInv'
<1>0. InLoops /\ pc \in Validating /\ spec.shared
  BY DEF ProgressInv, SliceCompiled, Validating, Structure, Standalone, Authorise,
         Joint, Runtime
<1>1. CASE \/ Fails \/ Refuses \/ (fault' = TRUE /\ Raise)
  BY <1>1, ProgressRaise
<1>2. ASSUME spec' = spec, progress' = progress, InLoops',
             pc' \in Validating \cup {"compile"},
             \/ made' = made
             \/ made' = made \cup {Art("standalone", Cl, Slice, {Ar})}
             \/ made' = made \cup {Art("joint", Cl, Slice, AllArs)}
      PROVE  ProgressInv'
  <2>1. \A a \in made' : a \in made \/ a.kind # "context"
    BY <1>2 DEF Art
  <2>2. SliceCompiled'
    BY <1>0, <1>2 DEF SliceCompiled, Validating
  <2> QED
    BY <1>2, <2>1, <2>2, ProgressSlice
<1>3. CASE Structure
  BY <1>0, <1>1, <1>2, <1>3 DEF Structure, InLoops, Validating
<1>4. CASE Standalone
  <2>1. \/ Refuses \/ Fails
        \/ /\ Makes({Art("standalone", Cl, Slice, {Ar})})
           /\ ForEachAr("authorise") /\ pc = "standalone"
    BY <1>4 DEF Standalone, CompileContext, Call
  <2>2. ASSUME Makes({Art("standalone", Cl, Slice, {Ar})}), ForEachAr("authorise"),
               pc = "standalone"
        PROVE  ProgressInv'
    <3>1. /\ spec' = spec /\ progress' = progress
          /\ made' = made \cup {Art("standalone", Cl, Slice, {Ar})}
      BY <2>2 DEF Makes
    <3>2. InLoops' /\ pc' \in {"standalone", "authorise"}
      BY <1>0, <2>2, <3>1, ForEachArStep
    <3> QED
      BY <1>2, <3>1, <3>2 DEF Validating
  <2> QED
    BY <1>1, <2>1, <2>2
<1>5. CASE Authorise
  BY <1>0, <1>2, <1>5 DEF Authorise, InLoops, Validating
<1>6. CASE Joint
  <2>1. \/ Refuses \/ Fails
        \/ /\ Makes({Art("joint", Cl, Slice, AllArs)})
           /\ pc' = "runtime" /\ UNCHANGED at
    BY <1>6 DEF Joint, CompileContext, Call
  <2>2. ASSUME Makes({Art("joint", Cl, Slice, AllArs)}), pc' = "runtime",
               UNCHANGED at
        PROVE  ProgressInv'
    BY <1>0, <1>2, <2>2 DEF Makes, InLoops, Validating
  <2> QED
    BY <1>1, <2>1, <2>2
<1>7. CASE Runtime
  <2>1. \/ Refuses \/ Fails \/ (fault' = TRUE /\ Raise)
        \/ /\ spec' = spec /\ progress' = progress /\ made' = made /\ at' = at
           /\ pc' = "compile"
    BY <1>7 DEF Runtime
  <2> QED
    BY <1>0, <1>1, <1>2, <2>1 DEF InLoops
<1> QED
  BY <1>3, <1>4, <1>5, <1>6, <1>7

\* The contexts of a slice are complete when the loop over its ARs has ended.
LEMMA ProgressCompile ==
    ASSUME ProgressInv, Compile
    PROVE  ProgressInv'
<1> DEFINE next == IF spec.diagnostic THEN "diagnose" ELSE "publish"
           arts == {Art("context", Cl, Slice, IF spec.shared THEN AllArs ELSE {Ar})}
<1>0. InLoops /\ pc = "compile"
  BY DEF ProgressInv, Compile
<1>1. \/ Refuses \/ Fails
      \/ /\ Makes(arts)
         /\ IF spec.shared THEN pc' = next /\ UNCHANGED at ELSE ForEachAr(next)
  BY DEF Compile, CompileSlice, CompileContext, Call
<1>2. ASSUME Makes(arts),
             IF spec.shared THEN pc' = next /\ UNCHANGED at ELSE ForEachAr(next)
      PROVE  ProgressInv'
  <2>1. /\ spec' = spec /\ progress' = progress /\ made' = made \cup arts
        /\ AllArs' = AllArs
    BY <1>2 DEF Makes, AllArs
  <2>2. \A a \in made' : a \in made \/ a.kind # "context" \/ a.ars \subseteq AllArs
    BY <1>0, <2>1, Configured DEF Art
  <2>3. next \notin Validating /\ next # "compile"
    BY DEF Validating
  <2>4. CASE spec.shared
    <3>1. at' = at /\ pc' = next /\ InLoops'
      BY <1>0, <1>2, <2>1, <2>4 DEF InLoops
    <3>2. Cl' = Cl /\ Slice' = Slice
      BY <2>1, <3>1 DEF Cl, Slice
    <3>3. \A ar \in AllArs : \E a \in made' :
             a.kind = "context" /\ a.cl = Cl /\ a.slice = Slice /\ ar \in a.ars
      <4>1. Art("context", Cl, Slice, AllArs) \in made'
        BY <2>1, <2>4
      <4>2. /\ Art("context", Cl, Slice, AllArs).kind = "context"
            /\ Art("context", Cl, Slice, AllArs).cl = Cl
            /\ Art("context", Cl, Slice, AllArs).slice = Slice
            /\ Art("context", Cl, Slice, AllArs).ars = AllArs
        BY DEF Art
      <4> QED
        BY <4>1, <4>2
    <3>4. SliceCompiled'
      BY <2>1, <2>3, <3>1, <3>2, <3>3 DEF SliceCompiled
    <3> QED
      BY <2>1, <2>2, <3>1, <3>4, ProgressSlice
  <2>5. CASE ~spec.shared
    <3>1. /\ InLoops' /\ at'.cl = at.cl /\ at'.slice = at.slice
          /\ \/ at.ar < Len(spec.ars) /\ at'.ar = at.ar + 1 /\ pc' = pc
             \/ at.ar = Len(spec.ars) /\ at'.ar = 1 /\ pc' = next
      BY <1>0, <1>2, <2>1, <2>5, ForEachArStep
    <3>2. Cl' = Cl /\ Slice' = Slice
      BY <2>1, <3>1 DEF Cl, Slice
    <3>3. \A i \in 1 .. at.ar : Art("context", Cl, Slice, {spec.ars[i]}) \in made'
      <4>1. \A i \in 1 .. at.ar - 1 : Art("context", Cl, Slice, {spec.ars[i]}) \in made
        BY <1>0, <2>5 DEF ProgressInv, SliceCompiled
      <4>2. Art("context", Cl, Slice, {spec.ars[at.ar]}) \in made'
        BY <2>1, <2>5 DEF Ar
      <4>3. made \subseteq made'
        BY <2>1
      <4>4. \A i \in 1 .. at.ar : i \in 1 .. at.ar - 1 \/ i = at.ar
        BY <1>0 DEF InLoops
      <4> QED
        BY <4>1, <4>2, <4>3, <4>4
    <3>4. CASE at.ar < Len(spec.ars) /\ at'.ar = at.ar + 1 /\ pc' = pc
      <4>1. at.ar \in Nat /\ at'.ar - 1 = at.ar
        BY <1>0, <3>4 DEF InLoops
      <4>2. SliceCompiled'
        BY <1>0, <2>1, <3>2, <3>3, <3>4, <4>1 DEF SliceCompiled, Validating
      <4> QED
        BY <2>1, <2>2, <3>1, <4>2, ProgressSlice
    <3>5. CASE at.ar = Len(spec.ars) /\ pc' = next
      <4>1. ASSUME NEW ar \in AllArs
            PROVE  \E a \in made' : a.kind = "context" /\ a.cl = Cl
                                    /\ a.slice = Slice /\ ar \in a.ars
        <5>1. PICK i \in 1 .. Len(spec.ars) : ar = spec.ars[i]
          BY <1>0, Configured
        <5>2. Art("context", Cl, Slice, {ar}) \in made'
          BY <3>3, <3>5, <5>1
        <5> QED
          BY <5>2 DEF Art
      <4>2. SliceCompiled'
        BY <2>1, <2>3, <3>2, <3>5, <4>1 DEF SliceCompiled
      <4> QED
        BY <2>1, <2>2, <3>1, <4>2, ProgressSlice
    <3> QED
      BY <3>1, <3>4, <3>5
  <2> QED
    BY <2>4, <2>5
<1> QED
  BY <1>1, <1>2, ProgressRaise

LEMMA ProgressDiagnose ==
    ASSUME ProgressInv, Diagnose
    PROVE  ProgressInv'
<1> DEFINE arts == {Art("diagnostic", Cl, Slice, IF spec.shared THEN AllArs ELSE {Ar})}
<1>0. InLoops /\ pc = "diagnose"
  BY DEF ProgressInv, Diagnose
<1>1. \/ Refuses \/ Fails
      \/ /\ Makes(arts)
         /\ IF spec.shared THEN pc' = "publish" /\ UNCHANGED at ELSE ForEachAr("publish")
  BY DEF Diagnose, CompileSlice, CompileContext, Call
<1>2. ASSUME Makes(arts),
             IF spec.shared THEN pc' = "publish" /\ UNCHANGED at ELSE ForEachAr("publish")
      PROVE  ProgressInv'
  <2>1. /\ spec' = spec /\ progress' = progress /\ made' = made \cup arts
        /\ AllArs' = AllArs
    BY <1>2 DEF Makes, AllArs
  <2>2. \A a \in made' : a \in made \/ a.kind # "context"
    BY <2>1 DEF Art
  <2>3. /\ InLoops' /\ at'.cl = at.cl /\ at'.slice = at.slice
        /\ pc' \in {"diagnose", "publish"}
    <3>1. CASE spec.shared
      BY <1>0, <1>2, <2>1, <3>1 DEF InLoops
    <3>2. CASE ~spec.shared
      BY <1>0, <1>2, <2>1, <3>2, ForEachArStep
    <3> QED
      BY <3>1, <3>2
  <2>4. Cl' = Cl /\ Slice' = Slice
    BY <2>1, <2>3 DEF Cl, Slice
  <2>5. SliceCompiled'
    BY <1>0, <2>1, <2>3, <2>4 DEF ProgressInv, SliceCompiled, Validating
  <2> QED
    BY <2>1, <2>2, <2>3, <2>5, ProgressSlice
<1> QED
  BY <1>1, <1>2, ProgressRaise

\* What is recorded of a slice is every context of it, and those hold every AR.
LEMMA ProgressPublish ==
    ASSUME ProgressInv, Publish
    PROVE  ProgressInv'
<1> DEFINE record == [cl |-> Cl, slice |-> Slice, contexts |-> OfSlice({"context"})]
<1>0. InLoops /\ pc = "publish"
  BY DEF ProgressInv, Publish
<1>1. /\ spec' = spec /\ made' = made /\ NextSlice
      /\ \A p \in progress' : p \in progress \/ p = record
  BY DEF Publish
<1>2. AllArs' = AllArs
  BY <1>1 DEF AllArs
<1>3. InLoops' /\ pc' \notin Validating \cup {"compile", "diagnose", "publish"}
  BY <1>0, <1>1, NextSliceStep DEF Validating
<1>4. \A a \in record.contexts : a \in made /\ a.kind = "context" /\ a.cl = Cl
                                 /\ a.slice = Slice
  BY DEF OfSlice
<1>5. UNION {a.ars : a \in record.contexts} = AllArs
  <2>1. \A a \in record.contexts : a.ars \subseteq AllArs
    BY <1>0, <1>4, Configured DEF ProgressInv, OwnArs
  <2>2. \A ar \in AllArs : \E a \in record.contexts : ar \in a.ars
    BY <1>0 DEF ProgressInv, SliceCompiled, OfSlice
  <2> QED
    BY <2>1, <2>2
<1>6. ProgressTruthful'
  <2> SUFFICES ASSUME NEW p \in progress'
               PROVE  /\ \A a \in p.contexts :
                           a \in made' /\ a.cl = p.cl /\ a.slice = p.slice
                      /\ (UNION {a.ars : a \in p.contexts}) = AllArs'
    BY DEF ProgressTruthful
  <2>1. CASE p \in progress
    BY <1>1, <1>2, <2>1 DEF ProgressInv, ProgressTruthful
  <2>2. CASE p = record
    <3> HIDE DEF record
    <3>1. record.cl = Cl /\ record.slice = Slice
      BY DEF record
    <3> QED
      BY <1>1, <1>2, <1>4, <1>5, <2>2, <3>1
  <2> QED
    BY <1>1, <2>1, <2>2
<1>7. OwnArs'
  BY <1>1, <1>2 DEF ProgressInv, OwnArs
<1>8. SliceCompiled'
  BY <1>3 DEF SliceCompiled
<1> QED
  BY <1>3, <1>6, <1>7, <1>8 DEF ProgressInv

\* Tools write no context of the build, and calls write nothing.
LEMMA ProgressTools ==
    ASSUME ProgressInv, ToolNext
    PROVE  ProgressInv'
<1>1. spec' = spec /\ progress' = progress /\ pc' = pc /\ at' = at
  BY DEF ToolNext
<1>2. InLoops'
  BY <1>1 DEF ProgressInv, InLoops
<1>3. made \subseteq made' /\ \A a \in made' : a \in made \/ a.kind # "context"
  <2>1. CASE CompileModels
    BY <2>1 DEF CompileModels, Art
  <2>2. CASE ~CompileModels
    BY <2>2 DEF ToolNext, ToolStep, PrepareVectors, ConvertAr, TransformModel,
                ConvertModel, RunGraph, RunChain
  <2> QED
    BY <2>1, <2>2
<1> QED
  BY <1>1, <1>2, <1>3, ProgressKept

LEMMA ProgressIdle ==
    ASSUME ProgressInv, UNCHANGED stageVars
    PROVE  ProgressInv'
<1>1. /\ spec' = spec /\ progress' = progress /\ pc' = pc /\ at' = at
      /\ made' = made
  BY DEF stageVars, buildVars
<1>2. InLoops'
  BY <1>1 DEF ProgressInv, InLoops
<1> QED
  BY <1>1, <1>2, ProgressKept

LEMMA ProgressStep == ProgressInv /\ [StagesNext]_stagesVars => ProgressInv'
<1> SUFFICES ASSUME ProgressInv, [StagesNext]_stagesVars
             PROVE  ProgressInv'
  OBVIOUS
<1>1. CASE BuildStep
  BY <1>1, ProgressLoops, ProgressAround, ProgressConvert, ProgressQwen,
     ProgressCompile, ProgressDiagnose, ProgressPublish DEF BuildStep, BuildNext
<1>2. CASE ToolNext
  BY <1>2, ProgressTools
<1>3. CASE UNCHANGED stageVars
  BY <1>3, ProgressIdle
<1> QED
  BY <1>1, <1>2, <1>3 DEF StagesNext, stagesVars

\* progress.jsonl, which a user reads to see what a build that died has left:
\* whenever that is, and whatever was built with however many ARs and context
\* lengths, a slice it lists has all its contexts on disk, and they hold every AR.
THEOREM ProgressHolds == StagesSpec => []ProgressTruthful
<1>1. StagesInit => ProgressInv
  BY ProgressInit
<1>2. ProgressInv => ProgressTruthful
  BY DEF ProgressInv
<1> QED
  BY <1>1, <1>2, ProgressStep, PTL DEF StagesSpec

-----------------------------------------------------------------------------
(* What still refers to models.                                            *)

\* The statements that read the converted models of the current slice.
Reading == {"structure", "standalone", "authorise", "joint", "runtime", "compile",
            "diagnose"}

Beginning == {"prepare", "start", "ar_convert", "transform"}

\* The statements that are executed for one slice.
Within == Reading \cup {"slice", "convert", "publish"}

\* No loop over the ARs is being executed.
OutsideArs ==
    \/ pc \in {"slice", "structure", "authorise", "joint", "runtime", "publish"}
    \/ pc \in {"compile", "diagnose"} /\ spec.shared

\* converted_for_slice is that of the current slice.
Converting ==
    pc \in Reading \cup {"publish"} \/ (pc = "convert" /\ at.ar > 1)

\* Local lists that have been filled since the context length began;
\* converted_for_slice has been when a slice other than the embedding was passed.
Fresh(holder) ==
    \/ holder = "variants_for_cl" /\ (pc = "ar_convert" => at.ar > 1)
    \/ /\ holder = "slices_by_name"
       /\ pc # "ar_convert" /\ (pc = "transform" => at.ar > 1)
    \/ /\ holder = "ordered_slices"
       /\ pc \notin {"ar_convert", "transform"} /\ (pc = "slice" => at.slice > 1)
    \/ /\ holder = "converted_for_slice"
       /\ \/ Converting
          \/ /\ pc \in {"slice", "convert"}
             /\ \E i \in 1 .. at.slice - 1 : Slices[i] # Embedding

\* A reference to a model: where it may come from, and when.
Tracked(r) ==
    /\ pc \in Looping \cup {"vision"}
    /\ r.by \in Locals \cup {"result"}
    /\ r.by = "result" => NotYetPublished(r.to)
    /\ Fresh(r.by) => r.to.cl = Cl
    /\ r.to.cl = Cl \/ (at.cl > 1 /\ r.to.cl = spec.cls[at.cl - 1])
    /\ r.to.kind = "converted" =>
         /\ r.by \in {"result", "converted_for_slice"}
         /\ r.by = "result" => Converting
         /\ Converting => r.to.slice = Slice

ToConverted(ar) ==
    [by |-> "converted_for_slice", to |-> Art("converted", Cl, Slice, {ar})]

\* The loop over the slices begins with the first one, and the models of the ARs
\* before the current one are kept while the others are converted.
LiveInv ==
    /\ at.slice \in 1 .. Len(Slices)
    /\ pc \in Beginning => at.slice = 1
    /\ OutsideArs => at.ar = 1
    /\ \A r \in live : r.to \in made /\ (IsModel(r.to) => Tracked(r))
    /\ pc = "convert" => \A i \in 1 .. at.ar - 1 : ToConverted(spec.ars[i]) \in live
    /\ pc \in Reading => \A ar \in AllArs : ToConverted(ar) \in live

LEMMA LiveSuffices == LiveInv => ModelsReleasedInTime
<1> SUFFICES ASSUME LiveInv
             PROVE  ModelsReleasedInTime
  OBVIOUS
<1>1. ASSUME NEW r \in live, IsModel(r.to)
      PROVE  /\ pc \in Looping \cup {"vision"}
             /\ r.by = "result" => NotYetPublished(r.to)
             /\ \/ r.to.cl = Cl
                \/ at.cl > 1 /\ r.to.cl = spec.cls[at.cl - 1] /\ pc # "publish"
             /\ pc = "publish" /\ r.to.kind = "converted" => r.to.slice = Slice
  <2>1. Tracked(r)
    BY <1>1 DEF LiveInv
  <2>2. pc = "publish" => Converting /\ (r.by \in Locals => Fresh(r.by))
    BY DEF Converting, Fresh, Locals
  <2>3. r.by = "result" => r.to.cl = Cl
    BY <2>1 DEF Tracked, NotYetPublished
  <2> QED
    BY <2>1, <2>2, <2>3 DEF Tracked
<1>2. ASSUME pc \in {"standalone", "joint", "compile", "diagnose"}
      PROVE  Holding({"converted_for_slice"},
                     {Art("converted", Cl, Slice, {ar}) : ar \in AllArs}) \subseteq live
  <2>1. \A ar \in AllArs : ToConverted(ar) \in live
    BY <1>2 DEF LiveInv, Reading
  <2>2. ASSUME NEW r \in Holding({"converted_for_slice"},
                                 {Art("converted", Cl, Slice, {ar}) : ar \in AllArs})
        PROVE  \E ar \in AllArs : r = ToConverted(ar)
    BY <2>2 DEF Holding, ToConverted
  <2> QED
    BY <2>1, <2>2
<1> QED
  BY <1>1, <1>2 DEF ModelsReleasedInTime

LEMMA SlicesSeq ==
    /\ Len(Slices) \in Nat \ {0} /\ DOMAIN Slices = 1 .. Len(Slices)
    /\ Range(Slices) = {Slices[i] : i \in 1 .. Len(Slices)}
<1>1. Slices \in Seq(STRING) /\ Slices # << >>
  BY SliceAssumption
<1>2. Len(Slices) \in Nat \ {0} /\ DOMAIN Slices = 1 .. Len(Slices)
  BY <1>1
<1> QED
  BY <1>2 DEF Range

\* A slice after the embedding, or one before it, is another one.
LEMMA OtherSlice ==
    /\ \A i, j \in 1 .. Len(Slices) : Slices[i] = Slices[j] => i = j
    /\ Slices[Len(Slices)] = Embedding =>
         \E i \in 1 .. Len(Slices) - 1 : Slices[i] # Embedding
<1>1. \A i, j \in 1 .. Len(Slices) : Slices[i] = Slices[j] => i = j
  BY SlicesSeq, SliceAssumption DEF IsInjective
<1>2. ASSUME Slices[Len(Slices)] = Embedding
      PROVE  1 \in 1 .. Len(Slices) - 1 /\ Slices[1] # Embedding
  <2>1. Len(Slices) # 1
    <3>1. Len(Slices) = 1 => Range(Slices) = {Embedding}
      BY <1>2, SlicesSeq
    <3> QED
      BY <3>1, SliceAssumption
  <2> QED
    BY <1>1, <1>2, <2>1, SlicesSeq
<1> QED
  BY <1>1, <1>2

LEMMA LiveInit == StagesInit => LiveInv
<1> SUFFICES ASSUME StagesInit
             PROVE  LiveInv
  OBVIOUS
<1>1. at = [cl |-> 1, slice |-> 1, ar |-> 1] /\ live = {} /\ pc = "prepare"
  BY DEF StagesInit, Init, BuildInit
<1> QED
  BY <1>1, SlicesSeq DEF LiveInv, Reading, OutsideArs

\* A reference that a step within the slice keeps.
LEMMA TrackedKept ==
    ASSUME NEW r, Tracked(r), spec' = spec, at'.cl = at.cl, at'.slice = at.slice,
           pc \in Looping, pc' \in Looping, Fresh(r.by)' => Fresh(r.by),
           r.to.kind = "converted" => (Converting' <=> Converting)
    PROVE  Tracked(r)'
<1>1. Cl' = Cl /\ Slice' = Slice
  BY DEF Cl, Slice
<1>2. NotYetPublished(r.to)' <=> NotYetPublished(r.to)
  BY <1>1 DEF NotYetPublished
<1> QED
  BY <1>1, <1>2 DEF Tracked

\* A step that stays with the slice.
LEMMA LiveKept ==
    ASSUME LiveInv, spec' = spec, at'.cl = at.cl, at'.slice = at.slice,
           pc' \in Beginning => pc \in Beginning, OutsideArs' => at'.ar = 1,
           \A r \in live' : r.to \in made' /\ (IsModel(r.to) => Tracked(r)'),
           pc' = "convert" =>
             \A i \in 1 .. at'.ar - 1 : ToConverted(spec.ars[i]) \in live',
           pc' \in Reading => \/ pc \in Reading /\ live \subseteq live'
                              \/ \A ar \in AllArs : ToConverted(ar) \in live'
    PROVE  LiveInv'
<1>1. Cl' = Cl /\ Slice' = Slice /\ AllArs' = AllArs
  BY DEF Cl, Slice, AllArs
<1>2. \A a : IsModel(a)' <=> IsModel(a)
  BY DEF IsModel, IsPublishable
<1>3. \A ar : ToConverted(ar)' = ToConverted(ar)
  BY <1>1 DEF ToConverted
<1> QED
  BY <1>1, <1>2, <1>3 DEF LiveInv

\* A step that leaves the models alone.
LEMMA LiveUntouched ==
    ASSUME LiveInv, spec' = spec, pc' = pc, at' = at, live' = live, made \subseteq made'
    PROVE  LiveInv'
<1>1. \A r : Tracked(r)' <=> Tracked(r)
  BY DEF Tracked, Fresh, Converting, NotYetPublished, Cl, Slice
<1>2. \A r \in live' : r.to \in made' /\ (IsModel(r.to) => Tracked(r)')
  BY <1>1 DEF LiveInv
<1>3. (OutsideArs' => at'.ar = 1) /\ (pc' \in Beginning => pc \in Beginning)
  BY DEF LiveInv, OutsideArs
<1>4. pc' = "convert" => \A i \in 1 .. at'.ar - 1 : ToConverted(spec.ars[i]) \in live'
  BY DEF LiveInv
<1> QED
  BY <1>2, <1>3, <1>4, LiveKept

\* An exception drops what has been accumulated.
LEMMA LiveRaise ==
    ASSUME LiveInv, \/ Fails \/ Refuses \/ Raise
                    \/ spec' = spec /\ at' = at /\ pc' = "failed" /\ live' = {}
    PROVE  LiveInv'
<1>1. at' = at /\ pc' = "failed" /\ live' = {}
  BY DEF Fails, Refuses, Raise
<1> QED
  BY <1>1 DEF LiveInv, Beginning, Reading, OutsideArs

\* A reference to a model when its slice, which is published or has no contexts,
\* is over.
Left(r) ==
    /\ r.by \in Locals \cup {"result"}
    /\ r.by = "result" =>
         /\ r.to.cl = Cl /\ r.to.kind # "converted" /\ at.slice < Len(Slices)
         /\ \/ r.to.kind = "variant"
            \/ \E i \in DOMAIN Slices : i > at.slice /\ Slices[i] = r.to.slice
    /\ r.to.kind = "converted" => r.by \in {"result", "converted_for_slice"}
    /\ \/ r.to.cl = Cl
       \/ /\ at.cl > 1 /\ r.to.cl = spec.cls[at.cl - 1]
          /\ r.by = "converted_for_slice"
          /\ \A i \in 1 .. at.slice : Slices[i] = Embedding

\* When the loop goes on, only what the local lists refer to is left of the slice.
LEMMA LiveNextSlice ==
    ASSUME InLoops, LiveInv, at.ar = 1, spec' = spec, NextSlice,
           \A r \in live' : r.to \in made' /\ (IsModel(r.to) => Left(r)),
           pc' = "done" => \A r \in live' : r.by = "result"
    PROVE  LiveInv'
<1>1. /\ Len(spec.cls) \in Nat /\ DOMAIN spec.cls = 1 .. Len(spec.cls)
      /\ at.cl \in 1 .. Len(spec.cls) /\ at.slice \in 1 .. Len(Slices)
  BY Configured DEF InLoops, LiveInv
<1>2. \A a : IsModel(a)' <=> IsModel(a)
  BY DEF IsModel, IsPublishable
<1>3. CASE at.slice < Len(Slices)
  <2>1. /\ at'.cl = at.cl /\ at'.slice = at.slice + 1 /\ at'.ar = 1
        /\ pc' = "slice"
    BY <1>3 DEF NextSlice, InLoops
  <2>2. Cl' = Cl /\ ~Converting'
    BY <2>1 DEF Cl, Converting, Reading
  <2>3. \A i \in DOMAIN Slices : i > at.slice => i >= at'.slice
    BY <1>1, <2>1, SlicesSeq
  <2>4. ASSUME NEW r \in live', IsModel(r.to)
        PROVE  Tracked(r)'
    <3>1. Left(r)
      BY <2>4
    <3>2. r.by = "result" => NotYetPublished(r.to)'
      BY <2>1, <2>2, <2>3, <3>1 DEF Left, NotYetPublished, Looping
    <3>3. Fresh(r.by)' => r.to.cl = Cl
      <4>1. ASSUME r.by = "converted_for_slice", Fresh(r.by)'
            PROVE  \E i \in 1 .. at.slice : Slices[i] # Embedding
        <5>1. at'.slice - 1 = at.slice
          BY <1>1, <2>1, SlicesSeq
        <5> QED
          BY <2>2, <4>1, <5>1 DEF Fresh
      <4> QED
        BY <3>1, <4>1 DEF Left
    <3> QED
      BY <2>1, <2>2, <3>1, <3>2, <3>3 DEF Left, Tracked, Looping
  <2> QED
    BY <1>1, <1>2, <1>3, <2>1, <2>4, SlicesSeq DEF LiveInv, Beginning, Reading
<1>4. CASE at.slice = Len(Slices)
  <2>1. ASSUME NEW r \in live', IsModel(r.to)
        PROVE  /\ r.by \in Locals /\ r.to.cl = Cl
               /\ r.to.kind = "converted" => r.by = "converted_for_slice"
    <3>1. Left(r)
      BY <2>1
    <3>2. \E i \in 1 .. at.slice : Slices[i] # Embedding
      BY <1>4, SlicesSeq, OtherSlice
    <3> QED
      BY <1>1, <1>4, <3>1, <3>2, SlicesSeq DEF Left
  <2>2. CASE at.cl < Len(spec.cls)
    <3>1. /\ at'.cl = at.cl + 1 /\ at'.slice = 1 /\ at'.ar = 1 /\ pc' = "ar_convert"
      BY <1>1, <1>4, <2>2, SlicesSeq DEF NextSlice
    <3>2. at'.cl > 1 /\ spec.cls[at'.cl - 1] = Cl
      BY <1>1, <3>1 DEF Cl
    <3>3. ~Converting' /\ \A holder \in Locals : ~Fresh(holder)'
      BY <3>1 DEF Converting, Fresh, Reading
    <3>4. ASSUME NEW r \in live', IsModel(r.to)
          PROVE  Tracked(r)'
      BY <2>1, <3>1, <3>2, <3>3, <3>4 DEF Tracked, Looping, Locals
    <3> QED
      BY <1>1, <1>2, <3>1, <3>4, SlicesSeq DEF LiveInv, Reading, OutsideArs
  <2>3. CASE ~(at.cl < Len(spec.cls))
    <3>1. at' = at /\ pc' \in {"done", "vision"}
      BY <1>1, <1>4, <2>3, SlicesSeq DEF NextSlice
    <3>2. Cl' = Cl /\ ~Converting'
      BY <3>1 DEF Cl, Converting, Reading
    <3>3. ASSUME NEW r \in live', IsModel(r.to)
          PROVE  Tracked(r)'
      <4>1. pc' = "vision"
        BY <2>1, <3>1, <3>3 DEF Locals
      <4> QED
        BY <2>1, <3>2, <3>3, <4>1 DEF Tracked, Locals
    <3> QED
      BY <1>1, <1>2, <3>1, <3>3, SlicesSeq DEF LiveInv, Beginning, Reading, OutsideArs
  <2> QED
    BY <2>2, <2>3
<1> QED
  BY <1>1, <1>3, <1>4, SlicesSeq

\* Other artifacts are no models of the text.
LEMMA NoModel ==
    ASSUME NEW kind, NEW cl, NEW slice, NEW ars,
           kind \notin {"variant", "transformed", "converted"} \/ cl = 0
    PROVE  ~IsModel(Art(kind, cl, slice, ars))
  BY DEF IsModel, IsPublishable, Art

\* Outside the loops nothing refers to a model but the lists, until the build
\* returns.
LEMMA LiveAround ==
    ASSUME LiveInv,
           \/ Start \/ Vision \/ BuildVit \/ Prepare \/ BindVectors
           \/ BindGenaiVectors \/ PublishIndex \/ GenaiNext
    PROVE  LiveInv'
<1> DEFINE Shape ==
      /\ spec' = spec /\ at' = at
      /\ pc' \in Beginning => pc \in Beginning
      /\ pc' \notin Within
      /\ \A r \in live' : r.to \in made' /\ ~IsModel(r.to)
<1>1. ASSUME Shape
      PROVE  LiveInv'
  BY <1>1, LiveKept DEF Within, Reading, OutsideArs
<1>2. ASSUME spec' = spec, at' = at, live' = live, made' = made,
             pc \notin Looping \cup {"vision"},
             pc' \in Beginning => pc \in Beginning,
             pc' \notin Within
      PROVE  Shape
  BY <1>2 DEF LiveInv, Tracked
<1>3. ASSUME spec' = spec, at' = at, pc \notin Looping, pc' \notin Within \cup Beginning,
             NEW arts, Makes(arts), \A a \in arts : ~IsModel(a)
      PROVE  Shape
  <2>1. ASSUME NEW r \in live'
        PROVE  r.to \in made' /\ ~IsModel(r.to)
    <3>1. CASE r \in live /\ r.by \notin Rebound
      <4>1. r.to \in made' /\ (IsModel(r.to) => Tracked(r))
        BY <1>3, <3>1 DEF Makes, LiveInv
      <4>2. ~Tracked(r)
        BY <1>3, <3>1 DEF Tracked, NotYetPublished, Rebound
      <4> QED
        BY <4>1, <4>2
    <3>2. CASE r \in Holding({"result"} \cup ArList, arts)
      BY <1>3, <3>2 DEF Makes, Holding
    <3> QED
      BY <1>3, <2>1, <3>1, <3>2 DEF Makes
  <2> QED
    BY <1>3, <2>1
<1> DEFINE Raises == \/ Fails \/ Refuses
                     \/ spec' = spec /\ at' = at /\ pc' = "failed" /\ live' = {}
<1>4. ASSUME Raises
      PROVE  LiveInv'
  BY <1>4, LiveRaise
<1>5. Raises \/ Shape
  <2>1. CASE Start
    BY <1>2, <2>1 DEF Start, Beginning, Within, Reading, Looping
  <2>2. CASE Prepare
    BY <1>2, <2>2 DEF Prepare, Beginning, Within, Reading, Looping
  <2>3. CASE BindVectors
    BY <1>2, <2>3 DEF BindVectors, Beginning, Within, Reading, Looping
  <2>4. CASE BindGenaiVectors
    BY <1>2, <2>4 DEF BindGenaiVectors, Beginning, Within, Reading, Looping
  <2>5. CASE PublishIndex
    BY <1>2, <2>5 DEF PublishIndex, Publishable, Beginning, Within, Reading, Looping
  <2>6. CASE CheckContainer \/ DescribeSlices
    BY <1>2, <2>6 DEF CheckContainer, DescribeSlices, Beginning, Within, Reading, Looping
  <2>7. CASE Vision
    <3> DEFINE arts == {Art(k, 0, VisionSlice, {1}) :
                          k \in {"converted", "context"} \cup
                            (IF spec.diagnostic THEN {"diagnostic"} ELSE {})}
    <3>1. \/ Refuses \/ Fails
          \/ Makes(arts) /\ pc = "vision" /\ pc' = "done" /\ at' = at
      BY <2>7 DEF Vision, Call
    <3>2. \A a \in arts : ~IsModel(a)
      BY NoModel
    <3> HIDE DEF arts
    <3> QED
      BY <1>3, <3>1, <3>2 DEF Makes, Beginning, Within, Reading, Looping
  <2>8. CASE BuildVit
    <3> DEFINE arts == {Art(k, 0, VitSlice, {1}) :
                          k \in {"converted", "context"} \cup
                            (IF spec.diagnostic THEN {"diagnostic"} ELSE {})}
    <3>1. Fails \/ (Makes(arts) /\ pc = "vit" /\ pc' = "done" /\ at' = at)
      BY <2>8 DEF BuildVit, Call
    <3>2. \A a \in arts : ~IsModel(a)
      BY NoModel
    <3> HIDE DEF arts
    <3> QED
      BY <1>3, <3>1, <3>2 DEF Makes, Beginning, Within, Reading, Looping
  <2>9. CASE BuildContainer \/ BuildOmni
    <3> DEFINE arts == {Art("container", 0, Destination, AllArs)}
    <3>1. \/ Raises
          \/ Makes(arts) /\ pc \notin Looping /\ pc' \in {"genai_raw", "done"} /\ at' = at
      BY <2>9 DEF BuildContainer, BuildOmni, Looping
    <3>2. \A a \in arts : ~IsModel(a)
      BY NoModel
    <3> HIDE DEF arts
    <3> QED
      BY <1>3, <3>1, <3>2 DEF Makes, Beginning, Within, Reading
  <2> QED
    BY <2>1, <2>2, <2>3, <2>4, <2>5, <2>6, <2>7, <2>8, <2>9 DEF GenaiNext
<1> HIDE DEF Shape, Raises
<1> QED
  BY <1>1, <1>4, <1>5

\* What is made of the current slice, or of those after it, and what remains.
LEMMA LiveMakes ==
    ASSUME LiveInv, NEW arts, Makes(arts),
           at'.cl = at.cl, at'.slice = at.slice, pc \in Looping, pc' \in Looping,
           \A holder \in Locals : Fresh(holder)' => Fresh(holder) \/ holder \in Rebound,
           (Converting' <=> Converting) \/ (pc = "convert" /\ at.ar = 1),
           \A a \in arts : IsModel(a) =>
              /\ NotYetPublished(a)
              /\ a.kind = "converted" =>
                   pc = "convert" /\ Converting' /\ a.slice = Slice
    PROVE  \A r \in live' : r.to \in made' /\ (IsModel(r.to) => Tracked(r)')
<1> SUFFICES ASSUME NEW r \in live'
             PROVE  r.to \in made' /\ (IsModel(r.to) => Tracked(r)')
  OBVIOUS
<1>1. CASE r \in live /\ r.by \notin Rebound
  <2>1. r.to \in made' /\ (IsModel(r.to) => Tracked(r))
    BY <1>1 DEF Makes, LiveInv
  <2>2. ASSUME IsModel(r.to)
        PROVE  Tracked(r)'
    <3>1. Fresh(r.by)' => Fresh(r.by)
      BY <1>1, <2>1, <2>2 DEF Tracked, Fresh
    <3>2. r.to.kind = "converted" => (Converting' <=> Converting)
      BY <1>1, <2>1, <2>2 DEF Tracked, Converting, Rebound, ArList, Reading, Locals
    <3> QED
      BY <2>1, <2>2, <3>1, <3>2, TrackedKept DEF Makes
  <2> QED
    BY <2>1, <2>2
<1>2. CASE r \in Holding({"result"} \cup ArList, arts)
  <2>1. r.by \in {"result"} \cup ArList /\ r.to \in arts /\ r.to \in made' /\ spec' = spec
    BY <1>2 DEF Holding, Makes
  <2>2. ASSUME IsModel(r.to)
        PROVE  Tracked(r)'
    <3>1. Cl' = Cl /\ Slice' = Slice
      BY <2>1 DEF Cl, Slice
    <3>2. NotYetPublished(r.to)' /\ r.to.cl = Cl
      BY <2>1, <2>2, <3>1 DEF NotYetPublished
    <3>3. pc = "convert" => ArList \subseteq {"converted_for_slice"}
      BY DEF ArList
    <3>4. r.by \in Locals \cup {"result"}
      BY <2>1 DEF ArList
    <3> QED
      BY <2>1, <2>2, <3>1, <3>2, <3>3, <3>4 DEF Tracked
  <2> QED
    BY <2>1, <2>2
<1> QED
  BY <1>1, <1>2 DEF Makes

\* The models of a context length are made before its first slice begins.
LEMMA LiveLoops ==
    ASSUME ProgressInv, LiveInv, ArConvert \/ Transform
    PROVE  LiveInv'
<1>0. InLoops
  BY DEF ProgressInv
<1>1. ASSUME NEW arts, NEW next, Makes(arts), ForEachAr(next),
             \/ pc = "ar_convert" /\ next = "transform"
             \/ pc = "transform" /\ next = "slice",
             \A a \in arts : NotYetPublished(a) /\ a.kind # "converted"
      PROVE  LiveInv'
  <2>1. spec' = spec /\ at.slice = 1 /\ at.ar \in Nat \ {0}
    BY <1>0, <1>1 DEF Makes, LiveInv, Beginning, InLoops
  <2>2. /\ at'.cl = at.cl /\ at'.slice = at.slice
        /\ (pc' = pc /\ at'.ar > 1) \/ (pc' = next /\ at'.ar = 1)
    BY <1>0, <1>1, <2>1, ForEachArStep
  <2>3. /\ ~Converting /\ ~Converting' /\ (Converting' <=> Converting)
        /\ pc \in Looping /\ pc' \in Looping
    BY <1>1, <2>2 DEF Converting, Looping, Reading
  <2>4. ASSUME NEW holder \in Locals, Fresh(holder)'
        PROVE  Fresh(holder) \/ holder \in Rebound
    <3>1. CASE pc = "ar_convert"
      <4>1. holder = "variants_for_cl"
        BY <1>1, <2>2, <2>3, <2>4, <3>1 DEF Fresh
      <4> QED
        BY <2>1, <3>1, <4>1 DEF Fresh, Rebound, ArList
    <3>2. CASE pc = "transform"
      <4>1. holder \in {"variants_for_cl", "slices_by_name"}
        <5>1. 1 .. at'.slice - 1 = {}
          BY <2>1, <2>2
        <5> QED
          BY <1>1, <2>1, <2>2, <2>3, <2>4, <3>2, <5>1 DEF Fresh, Locals
      <4> QED
        BY <2>1, <3>2, <4>1 DEF Fresh, Rebound, ArList
    <3> QED
      BY <1>1, <3>1, <3>2
  <2>5. \A r \in live' : r.to \in made' /\ (IsModel(r.to) => Tracked(r)')
    BY <1>1, <2>2, <2>3, <2>4, LiveMakes
  <2>6. /\ pc' \notin Reading /\ pc' # "convert"
        /\ OutsideArs' => at'.ar = 1
        /\ pc' \in Beginning => pc \in Beginning
    BY <1>1, <2>2 DEF Beginning, Reading, OutsideArs
  <2> QED
    BY <2>1, <2>2, <2>5, <2>6, LiveKept
<1>2. CASE ArConvert
  <2> DEFINE art == Art("variant", Cl, "", {Ar})
  <2>1. art.kind = "variant" /\ art.cl = Cl
    <3>1. \A slice : LET a == Art("variant", Cl, slice, {Ar})
                     IN  a.kind = "variant" /\ a.cl = Cl
      BY DEF Art
    <3> QED
      BY <3>1, Zenon
  <2>2. \/ Refuses \/ Fails
        \/ Makes({art}) /\ ForEachAr("transform") /\ pc = "ar_convert"
    BY <1>2 DEF ArConvert, Call
  <2> HIDE DEF art
  <2>3. pc = "ar_convert" => NotYetPublished(art) /\ art.kind # "converted"
    BY <2>1 DEF NotYetPublished, Looping
  <2> QED
    BY <1>1, <2>2, <2>3, LiveRaise
<1>3. CASE Transform
  <2> DEFINE arts == {Art("transformed", Cl, s, {Ar}) : s \in Range(Slices)}
  <2>1. \/ Fails
        \/ Makes(arts) /\ ForEachAr("slice") /\ pc = "transform"
    BY <1>3 DEF Transform, Call
  <2>2. ASSUME NEW s \in Range(Slices), pc = "transform"
        PROVE  NotYetPublished(Art("transformed", Cl, s, {Ar}))
    <3>1. at.slice = 1
      BY <2>2 DEF LiveInv, Beginning
    <3>2. \E i \in DOMAIN Slices : i >= 1 /\ Slices[i] = s
      BY SlicesSeq
    <3> QED
      BY <2>2, <3>1, <3>2 DEF NotYetPublished, Art, Looping
  <2>3. pc = "transform" =>
           \A a \in arts : NotYetPublished(a) /\ a.kind # "converted"
    BY <2>2 DEF Art
  <2> HIDE DEF arts
  <2> QED
    BY <1>1, <2>1, <2>3, LiveRaise
<1> QED
  BY <1>2, <1>3

\* ordered_slices is rebound; a slice that only has a boundary file has no models
\* to be released.
LEMMA LiveBegin ==
    ASSUME ProgressInv, LiveInv, BeginSlice
    PROVE  LiveInv'
<1>0. InLoops /\ pc = "slice" /\ at.ar = 1 /\ spec' = spec /\ made \subseteq made'
  BY DEF ProgressInv, BeginSlice, LiveInv, OutsideArs
<1>1. ASSUME NEW r \in Ordered
      PROVE  \/ r \in live /\ r.by # "ordered_slices"
             \/ r.by = "ordered_slices" /\ r.to \in OfSlice({"transformed"})
  BY <1>1 DEF Ordered, Holding
<1>2. ASSUME NEW r \in Ordered
      PROVE  r.to \in made'
  BY <1>0, <1>1 DEF LiveInv, OfSlice
<1>3. CASE Slice = Embedding /\ spec.boundary
  <2>1. NextSlice /\ Released(Ordered, EndedVariants)
    BY <1>3 DEF BeginSlice
  <2>2. ASSUME NEW r \in live', IsModel(r.to)
        PROVE  Left(r)
    <3>1. r \in Ordered /\ (r.by = "result" => r.to \notin EndedVariants)
      BY <2>1, <2>2 DEF Released
    <3>2. r \in live /\ r.by # "ordered_slices" /\ Tracked(r) /\ r.to.slice # Slice
      BY <1>1, <1>3, <2>2, <3>1 DEF LiveInv, OfSlice, IsModel, IsPublishable
    <3>3. ~Converting
      BY <1>0 DEF Converting, Reading
    <3>4. ASSUME r.by = "result"
          PROVE  /\ r.to.cl = Cl /\ r.to.kind # "converted" /\ at.slice < Len(Slices)
                 /\ \/ r.to.kind = "variant"
                    \/ \E i \in DOMAIN Slices : i > at.slice /\ Slices[i] = r.to.slice
      <4>1. NotYetPublished(r.to) /\ r.to.kind # "converted"
        BY <3>2, <3>3, <3>4 DEF Tracked
      <4>2. CASE r.to.kind = "variant"
        <5>1. at.slice # Len(Slices)
          BY <3>1, <3>2, <3>4, <4>1, <4>2 DEF EndedVariants, LiveInv, NotYetPublished
        <5> QED
          BY <4>1, <4>2, <5>1, SlicesSeq DEF NotYetPublished, LiveInv
      <4>3. CASE r.to.kind # "variant"
        <5>1. PICK i \in DOMAIN Slices : i >= at.slice /\ Slices[i] = r.to.slice
          BY <4>1, <4>3 DEF NotYetPublished
        <5>2. i > at.slice
          BY <3>2, <5>1, SlicesSeq DEF Slice, LiveInv
        <5> QED
          BY <4>1, <5>1, <5>2, SlicesSeq DEF NotYetPublished, LiveInv
      <4> QED
        BY <4>2, <4>3
    <3>5. ASSUME r.by # "result", r.to.cl # Cl
          PROVE  /\ r.by = "converted_for_slice"
                 /\ \A i \in 1 .. at.slice : Slices[i] = Embedding
      <4>1. r.by \in Locals /\ ~Fresh(r.by)
        BY <3>2, <3>5 DEF Tracked
      <4>2. r.by = "converted_for_slice"
        BY <1>0, <3>2, <4>1 DEF Fresh, Locals
      <4>3. \A i \in 1 .. at.slice - 1 : Slices[i] = Embedding
        BY <1>0, <4>1, <4>2 DEF Fresh
      <4>4. \A i \in 1 .. at.slice : i \in 1 .. at.slice - 1 \/ i = at.slice
        BY SlicesSeq DEF LiveInv
      <4> QED
        BY <1>3, <4>2, <4>3, <4>4 DEF Slice
    <3> QED
      BY <3>2, <3>4, <3>5 DEF Left, Tracked
  <2>3. \A r \in live' : r.to \in made'
    BY <1>2, <2>1 DEF Released
  <2>4. pc' = "done" => \A r \in live' : r.by = "result"
    BY <2>1 DEF Released
  <2> QED
    BY <1>0, <2>1, <2>2, <2>3, <2>4, LiveNextSlice
<1>4. CASE ~(Slice = Embedding /\ spec.boundary)
  <2>1. at' = at /\ pc' = "convert" /\ live' = Ordered
    BY <1>4 DEF BeginSlice
  <2>2. /\ ~Converting /\ ~Converting' /\ pc \in Looping /\ pc' \in Looping
        /\ Cl' = Cl
    BY <1>0, <2>1 DEF Converting, Looping, Reading, Cl
  <2>3. ASSUME NEW r \in live', IsModel(r.to)
        PROVE  Tracked(r)'
    <3>1. CASE r \in live /\ r.by # "ordered_slices"
      <4>1. Tracked(r)
        BY <2>3, <3>1 DEF LiveInv
      <4>2. Fresh(r.by)' => Fresh(r.by)
        BY <1>0, <2>1, <2>2, <3>1 DEF Fresh
      <4> QED
        BY <1>0, <2>1, <2>2, <4>1, <4>2, TrackedKept
    <3>2. CASE r.by = "ordered_slices" /\ r.to \in OfSlice({"transformed"})
      BY <2>2, <3>2 DEF Tracked, OfSlice, Locals
    <3> QED
      BY <1>1, <2>1, <3>1, <3>2
  <2>4. \A r \in live' : r.to \in made'
    BY <1>2, <2>1
  <2>5. 1 .. at'.ar - 1 = {}
    BY <1>0, <2>1
  <2> QED
    BY <1>0, <2>1, <2>3, <2>4, <2>5, LiveKept DEF Beginning, Reading, OutsideArs
<1> QED
  BY <1>3, <1>4

\* The models of all ARs are kept when the loop that converts them has ended.
LEMMA LiveConvert ==
    ASSUME ProgressInv, LiveInv, Convert
    PROVE  LiveInv'
<1> DEFINE next == IF IsDerivedDecoder /\ Len(spec.ars) > 1
                   THEN "structure" ELSE "compile"
           new == Art("converted", Cl, Slice, {Ar})
<1>0. InLoops /\ pc = "convert" /\ at.ar \in Nat \ {0} /\ next \in Reading
  BY DEF ProgressInv, InLoops, Convert, Reading
<1>1. Fails \/ (Makes({new}) /\ ForEachAr(next))
  BY DEF Convert, Call
<1> HIDE DEF next
<1>2. ASSUME Makes({new}), ForEachAr(next)
      PROVE  LiveInv'
  <2>1. spec' = spec
    BY <1>2 DEF Makes
  <2>2. /\ at'.cl = at.cl /\ at'.slice = at.slice
        /\ \/ at.ar < Len(spec.ars) /\ at'.ar = at.ar + 1 /\ pc' = pc
           \/ at.ar = Len(spec.ars) /\ at'.ar = 1 /\ pc' = next
    BY <1>0, <1>2, <2>1, ForEachArStep
  <2>3. Converting' /\ (at.ar = 1 \/ Converting) /\ pc \in Looping /\ pc' \in Looping
    BY <1>0, <2>2 DEF Converting, Looping, Reading
  <2>4. ASSUME NEW holder \in Locals
        PROVE  Fresh(holder) \/ holder \in Rebound
    BY <1>0, <2>3 DEF Fresh, Rebound, ArList, Locals
  <2>5. NotYetPublished(new) /\ new.slice = Slice
    <3>1. at.slice \in Nat /\ at.slice \in DOMAIN Slices /\ Slices[at.slice] = Slice
      BY SlicesSeq DEF LiveInv, Slice
    <3> QED
      BY <2>3, <3>1 DEF NotYetPublished, Art
  <2>6. \A r \in live' : r.to \in made' /\ (IsModel(r.to) => Tracked(r)')
    <3>1. \A a \in {new} : a = new
      OBVIOUS
    <3>2. (Converting' <=> Converting) \/ (pc = "convert" /\ at.ar = 1)
      BY <1>0, <2>3 DEF Converting
    <3> HIDE DEF new
    <3> QED
      BY <1>0, <1>2, <2>2, <2>3, <2>4, <2>5, <3>1, <3>2, LiveMakes
  <2>7. \A i \in 1 .. at.ar : ToConverted(spec.ars[i]) \in live'
    <3>1. \A i \in 1 .. at.ar - 1 : ToConverted(spec.ars[i]) \in live
      BY <1>0 DEF LiveInv
    <3>2. ToConverted(Ar) \in live'
      BY <1>0, <1>2 DEF Makes, Holding, ToConverted, ArList, Locals
    <3>3. \A i \in 1 .. at.ar - 1 : ToConverted(spec.ars[i]) \in live'
      <4>1. at.ar = 1 => 1 .. at.ar - 1 = {}
        OBVIOUS
      <4>2. at.ar # 1 => Rebound = {}
        BY <1>0 DEF Rebound
      <4> QED
        BY <1>2, <3>1, <4>1, <4>2 DEF Makes
    <3>4. \A i \in 1 .. at.ar : i \in 1 .. at.ar - 1 \/ i = at.ar
      BY <1>0
    <3> QED
      BY <3>2, <3>3, <3>4 DEF Ar
  <2>8. CASE at.ar < Len(spec.ars) /\ at'.ar = at.ar + 1 /\ pc' = pc
    <3>1. at'.ar - 1 = at.ar
      BY <1>0, <2>8
    <3> QED
      BY <1>0, <2>1, <2>2, <2>6, <2>7, <2>8, <3>1, LiveKept
         DEF Beginning, Reading, OutsideArs
  <2>9. CASE at.ar = Len(spec.ars) /\ at'.ar = 1 /\ pc' = next
    <3>1. \A ar \in AllArs : ToConverted(ar) \in live'
      <4>1. AllArs = {spec.ars[i] : i \in 1 .. Len(spec.ars)}
        BY <1>0, Configured
      <4> QED
        BY <2>7, <2>9, <4>1
    <3>2. pc' # "convert" /\ pc' \notin Beginning
      BY <1>0, <2>9 DEF Beginning, Reading
    <3> QED
      BY <2>1, <2>2, <2>6, <2>9, <3>1, <3>2, LiveKept
  <2> QED
    BY <2>2, <2>8, <2>9
<1> QED
  BY <1>1, <1>2, LiveRaise

\* The contexts of a slice, however they are compiled, leave its models alone.
LEMMA LiveCompile ==
    ASSUME ProgressInv, LiveInv,
           \/ Structure \/ Standalone \/ Authorise \/ Joint \/ Runtime
           \/ Compile \/ Diagnose
    PROVE  LiveInv'
<1>0. InLoops /\ pc \in Reading /\ (OutsideArs => at.ar = 1)
  BY DEF ProgressInv, LiveInv, Structure, Standalone, Authorise, Joint, Runtime,
         Compile, Diagnose, Reading
<1> DEFINE Shape ==
      /\ spec' = spec /\ at'.cl = at.cl /\ at'.slice = at.slice
      /\ pc' \in Reading \cup {"publish"}
      /\ OutsideArs' => at'.ar = 1
      /\ \/ live' = live /\ made' = made
         \/ \E kind, ars : /\ kind \notin {"variant", "transformed", "converted"}
                           /\ Makes({Art(kind, Cl, Slice, ars)})
<1>1. ASSUME Shape
      PROVE  LiveInv'
  <2>1. /\ Converting /\ Converting' /\ pc \in Looping /\ pc' \in Looping
        /\ \A holder \in Locals : Fresh(holder)
    BY <1>0, <1>1 DEF Converting, Looping, Reading, Fresh, Locals
  <2>2. \A r \in live' : r.to \in made' /\ (IsModel(r.to) => Tracked(r)')
    <3>1. CASE live' = live /\ made' = made
      <4>1. ASSUME NEW r \in live, IsModel(r.to)
            PROVE  Tracked(r)'
        <5>1. Tracked(r) /\ (Fresh(r.by)' => Fresh(r.by))
          BY <2>1, <4>1 DEF LiveInv, Tracked, Fresh
        <5>2. (Converting' <=> Converting)
          BY <2>1 DEF Converting
        <5> QED
          BY <1>1, <2>1, <5>1, <5>2, TrackedKept
      <4> QED
        BY <3>1, <4>1 DEF LiveInv
    <3>2. ASSUME NEW kind, NEW ars, kind \notin {"variant", "transformed", "converted"},
                 Makes({Art(kind, Cl, Slice, ars)})
          PROVE  \A r \in live' : r.to \in made' /\ (IsModel(r.to) => Tracked(r)')
      <4>1. \A a \in {Art(kind, Cl, Slice, ars)} : ~IsModel(a)
        BY <3>2, NoModel
      <4>2. (Converting' <=> Converting)
        BY <2>1 DEF Converting
      <4> QED
        BY <1>1, <2>1, <3>2, <4>1, <4>2, LiveMakes
    <3> QED
      BY <1>1, <3>1, <3>2
  <2>3. live \subseteq live'
    <3>1. Rebound = {}
      BY <1>0 DEF Rebound, ArList, Reading
    <3> QED
      BY <1>1, <3>1 DEF Makes
  <2>4. pc' \notin Beginning /\ pc' # "convert"
    BY <1>1 DEF Beginning, Reading
  <2> QED
    BY <1>0, <1>1, <2>2, <2>3, <2>4, LiveKept
<1>2. ASSUME spec' = spec, at' = at, live' = live, made' = made,
             pc' \in Reading, OutsideArs
      PROVE  Shape
  BY <1>0, <1>2
<1>3. ASSUME NEW kind, NEW ars, kind \notin {"variant", "transformed", "converted"},
             Makes({Art(kind, Cl, Slice, ars)}), OutsideArs, at' = at,
             pc' \in Reading \cup {"publish"}
      PROVE  Shape
  <2>1. spec' = spec
    BY <1>3 DEF Makes
  <2> QED
    BY <1>0, <1>3, <2>1
<1>4. ASSUME NEW kind, NEW ars, kind \notin {"variant", "transformed", "converted"},
             Makes({Art(kind, Cl, Slice, ars)}), NEW next, ForEachAr(next),
             next \in Reading \cup {"publish"}, ~OutsideArs
      PROVE  Shape
  <2>1. spec' = spec
    BY <1>4 DEF Makes
  <2>2. /\ at'.cl = at.cl /\ at'.slice = at.slice
        /\ \/ at'.ar = 1 /\ pc' = next
           \/ pc' = pc
    BY <1>0, <1>4, <2>1, ForEachArStep
  <2>3. OutsideArs' => at'.ar = 1
    BY <1>4, <2>1, <2>2 DEF OutsideArs
  <2> QED
    BY <1>0, <1>4, <2>1, <2>2, <2>3
<1>5. Fails \/ Refuses \/ Raise \/ Shape
  <2>1. CASE Structure
    BY <1>2, <2>1 DEF Structure, OutsideArs, Reading
  <2>2. CASE Standalone
    <3>1. \/ Refuses \/ Fails
          \/ /\ Makes({Art("standalone", Cl, Slice, {Ar})})
             /\ ForEachAr("authorise") /\ ~OutsideArs
      BY <2>2 DEF Standalone, CompileContext, Call, OutsideArs
    <3> QED
      BY <1>4, <3>1 DEF Reading
  <2>3. CASE Authorise
    BY <1>2, <2>3 DEF Authorise, OutsideArs, Reading
  <2>4. CASE Joint
    <3>1. \/ Refuses \/ Fails
          \/ Makes({Art("joint", Cl, Slice, AllArs)}) /\ OutsideArs /\ at' = at
             /\ pc' = "runtime"
      BY <2>4 DEF Joint, CompileContext, Call, OutsideArs
    <3> QED
      BY <1>3, <3>1 DEF Reading
  <2>5. CASE Runtime
    BY <1>2, <2>5 DEF Runtime, OutsideArs, Reading
  <2>6. CASE Compile \/ Diagnose
    <3>1. PICK kind \in {"context", "diagnostic"}, next \in {"diagnose", "publish"} :
             CompileSlice(kind, next) /\ pc \in {"compile", "diagnose"}
      BY <2>6 DEF Compile, Diagnose
    <3>2. next \in Reading \cup {"publish"}
      BY DEF Reading
    <3>3. CASE spec.shared
      <4>1. \/ Refuses \/ Fails
            \/ Makes({Art(kind, Cl, Slice, AllArs)}) /\ at' = at /\ pc' = next
        BY <3>1, <3>3 DEF CompileSlice, CompileContext, Call
      <4>2. OutsideArs
        BY <3>1, <3>3 DEF OutsideArs
      <4> QED
        BY <1>3, <3>2, <4>1, <4>2
    <3>4. CASE ~spec.shared
      <4>1. \/ Refuses \/ Fails
            \/ Makes({Art(kind, Cl, Slice, {Ar})}) /\ ForEachAr(next)
        BY <3>1, <3>4 DEF CompileSlice, CompileContext, Call
      <4>2. ~OutsideArs
        BY <3>1, <3>4 DEF OutsideArs
      <4> QED
        BY <1>4, <3>2, <4>1, <4>2
    <3> QED
      BY <3>3, <3>4
  <2> QED
    BY <2>1, <2>2, <2>3, <2>4, <2>5, <2>6
<1> HIDE DEF Shape
<1> QED
  BY <1>1, <1>5, LiveRaise

\* The accumulators let go of the models of a published slice; the lists keep them.
LEMMA LivePublish ==
    ASSUME ProgressInv, LiveInv, Publish
    PROVE  LiveInv'
<1>0. InLoops /\ pc = "publish" /\ at.ar = 1
  BY DEF ProgressInv, LiveInv, Publish, OutsideArs
<1>1. /\ spec' = spec /\ NextSlice /\ made' = made
      /\ Released(live, OfSlice({"converted", "transformed"}) \cup EndedVariants)
  BY DEF Publish
<1>2. Converting /\ \A holder \in Locals : Fresh(holder)
  BY <1>0 DEF Converting, Fresh, Locals
<1>3. ASSUME NEW r \in live', IsModel(r.to)
      PROVE  Left(r)
  <2>1. /\ r \in live /\ r.to \in made /\ Tracked(r)
        /\ r.by = "result" =>
              r.to \notin OfSlice({"converted", "transformed"}) /\ r.to \notin EndedVariants
    BY <1>1, <1>3 DEF Released, LiveInv
  <2>2. r.to.cl = Cl
    BY <1>2, <2>1 DEF Tracked, NotYetPublished
  <2>3. ASSUME r.by = "result"
        PROVE  /\ r.to.kind # "converted" /\ at.slice < Len(Slices)
               /\ \/ r.to.kind = "variant"
                  \/ \E i \in DOMAIN Slices : i > at.slice /\ Slices[i] = r.to.slice
    <3>1. NotYetPublished(r.to)
      BY <2>1, <2>3 DEF Tracked
    <3>2. CASE r.to.kind = "variant"
      <4>1. at.slice # Len(Slices)
        BY <2>1, <2>2, <2>3, <3>2 DEF EndedVariants
      <4> QED
        BY <3>2, <4>1, SlicesSeq DEF LiveInv
    <3>3. CASE r.to.kind # "variant"
      <4>1. r.to.kind \in {"transformed", "converted"} /\ r.to.slice # Slice
        BY <1>3, <2>1, <2>2, <2>3, <3>3 DEF IsModel, OfSlice
      <4>2. PICK i \in DOMAIN Slices : i >= at.slice /\ Slices[i] = r.to.slice
        BY <3>1, <3>3 DEF NotYetPublished
      <4>3. i > at.slice
        BY <4>1, <4>2, SlicesSeq DEF Slice, LiveInv
      <4>4. r.to.kind # "converted"
        BY <1>2, <2>1, <4>1 DEF Tracked
      <4> QED
        BY <4>2, <4>3, <4>4, SlicesSeq DEF LiveInv
    <3> QED
      BY <3>2, <3>3
  <2> QED
    BY <2>1, <2>2, <2>3 DEF Left, Tracked
<1>4. \A r \in live' : r.to \in made'
  BY <1>1 DEF Released, LiveInv
<1>5. pc' = "done" => \A r \in live' : r.by = "result"
  BY <1>1 DEF Released
<1> QED
  BY <1>0, <1>1, <1>3, <1>4, <1>5, LiveNextSlice

LEMMA LiveStep == ProgressInv /\ LiveInv /\ [StagesNext]_stagesVars => LiveInv'
<1> SUFFICES ASSUME ProgressInv, LiveInv, [StagesNext]_stagesVars
             PROVE  LiveInv'
  OBVIOUS
<1>1. CASE BuildStep
  BY <1>1, LiveAround, LiveLoops, LiveBegin, LiveConvert, LiveCompile, LivePublish
     DEF BuildStep, BuildNext
<1>2. CASE ToolNext
  <2>1. made \subseteq made'
    BY <1>2 DEF ToolNext, ToolStep, PrepareVectors, ConvertAr, TransformModel,
                ConvertModel, CompileModels, RunGraph, RunChain
  <2> QED
    BY <1>2, <2>1, LiveUntouched DEF ToolNext
<1>3. CASE UNCHANGED stageVars
  BY <1>3, LiveUntouched DEF stageVars, buildVars
<1> QED
  BY <1>1, <1>2, <1>3 DEF StagesNext, stagesVars

\* What a build keeps reachable with its SDK objects, however many context lengths,
\* slices and ARs there are: its accumulators refer to models that are not
\* published yet and to none of an earlier context length, the local lists to
\* those of two context lengths at most and, when a slice is published, of one; and
\* wherever a context is compiled, the converted models of all its ARs are there.
THEOREM ReleaseHolds == StagesSpec => []ModelsReleasedInTime
<1>1. StagesInit => ProgressInv /\ LiveInv
  BY ProgressInit, LiveInit
<1>2. ProgressInv /\ LiveInv /\ [StagesNext]_stagesVars => ProgressInv' /\ LiveInv'
  BY ProgressStep, LiveStep
<1> QED
  BY <1>1, <1>2, LiveSuffices, PTL DEF StagesSpec

-----------------------------------------------------------------------------
(* What has been built when the index is published.                        *)

\* The embedding may stay outside the contexts.
Unplanned(s) == s = Embedding /\ spec.boundary

\* A slice that is built has a context for every AR, unless it has none at all.
SliceBuilt(cl, s) ==
    Unplanned(s) \/ \A ar \in AllArs : \E a \in made :
                       /\ a.kind = "context" /\ a.cl = cl /\ a.slice = s
                       /\ ar \in a.ars

OtherLanes == {"vit", "bind_genai", "genai", "genai_build", "omni_build", "genai_raw"}

\* The loops over the slices have ended.
Finished ==
    spec.lane = "low_level"
    /\ pc \in {"vision", "done", "publish_index", "succeeded"}

Passed(i, j) == i < at.cl \/ (i = at.cl /\ j < at.slice) \/ Finished

\* The statements of a slice that has contexts.
Contextual == Reading \cup {"convert", "publish"}

\* Slices that the loops have passed are built, and all are when they have ended,
\* which in this lane nothing else does; contexts are of planned slices.
PlanInv ==
    /\ index # NoIndex => pc = "succeeded"
    /\ pc \in OtherLanes => spec.lane # "low_level"
    /\ \A i \in DOMAIN spec.cls, j \in DOMAIN Slices :
         Passed(i, j) => SliceBuilt(spec.cls[i], Slices[j])
    /\ pc \in Contextual => ~Unplanned(Slice)
    /\ \A a \in made : a.kind = "context" /\ a.cl # 0 =>
         /\ \E i \in DOMAIN spec.cls : a.cl = spec.cls[i]
         /\ a.slice \in Range(Slices) /\ ~Unplanned(a.slice)

LEMMA PlanSuffices == ProgressInv /\ PlanInv => PlanIsBuilt
<1> SUFFICES ASSUME ProgressInv, PlanInv, index # NoIndex, spec.lane = "low_level"
             PROVE  LET built == {a \in made : a.kind = "context" /\ a.cl # 0}
                    IN  /\ \A p \in Plan :
                             p.ars = UNION {a.ars : a \in {b \in built :
                                                b.slice = p.slice /\ b.cl = p.cl}}
                        /\ \A a \in built : \E p \in Plan :
                             p.slice = a.slice /\ p.cl = a.cl /\ a.ars \subseteq p.ars
  BY DEF PlanIsBuilt
<1> DEFINE built == {a \in made : a.kind = "context" /\ a.cl # 0}
<1>1. Finished
  BY DEF PlanInv, Finished
<1>2. \A a \in built : a.ars \subseteq AllArs
  BY DEF ProgressInv, OwnArs
<1>3. ASSUME NEW p \in Plan
      PROVE  p.ars = UNION {a.ars : a \in {b \in built :
                                        b.slice = p.slice /\ b.cl = p.cl}}
  <2>1. PICK s \in Range(Slices), i \in DOMAIN spec.cls :
           p = [slice |-> s, cl |-> spec.cls[i], ars |-> AllArs] /\ ~Unplanned(s)
    BY DEF Plan, Unplanned
  <2>2. PICK j \in DOMAIN Slices : s = Slices[j]
    BY SlicesSeq
  <2>3. SliceBuilt(spec.cls[i], s)
    BY <1>1, <2>2 DEF PlanInv, Passed
  <2>4. spec.cls[i] # 0
    BY Configured DEF ProgressInv
  <2>5. \A ar \in AllArs : \E a \in built :
           a.slice = s /\ a.cl = spec.cls[i] /\ ar \in a.ars
    BY <2>1, <2>3, <2>4 DEF SliceBuilt
  <2> HIDE DEF built
  <2> QED
    BY <1>2, <2>1, <2>5
<1>4. ASSUME NEW a \in built
      PROVE  \E p \in Plan : p.slice = a.slice /\ p.cl = a.cl /\ a.ars \subseteq p.ars
  <2>1. PICK i \in DOMAIN spec.cls : a.cl = spec.cls[i]
    BY DEF PlanInv
  <2>2. a.slice \in Range(Slices) /\ ~Unplanned(a.slice)
    BY DEF PlanInv
  <2>3. [slice |-> a.slice, cl |-> spec.cls[i], ars |-> AllArs] \in Plan
    BY <2>1, <2>2 DEF Plan, Unplanned
  <2> QED
    BY <1>2, <2>1, <2>3
<1> QED
  BY <1>3, <1>4

LEMMA PlanInit == StagesInit => PlanInv
<1> SUFFICES ASSUME StagesInit
             PROVE  PlanInv
  OBVIOUS
<1>1. /\ spec \in Specs /\ at = [cl |-> 1, slice |-> 1, ar |-> 1]
      /\ made = {} /\ pc = "prepare" /\ index = NoIndex
  BY DEF StagesInit, Init, BuildInit
<1>2. DOMAIN spec.cls \subseteq Nat \ {0} /\ DOMAIN Slices \subseteq Nat \ {0}
  BY <1>1, SpecAssumption, SlicesSeq
<1>3. \A i \in DOMAIN spec.cls, j \in DOMAIN Slices : ~Passed(i, j)
  BY <1>1, <1>2 DEF Passed, Finished
<1> QED
  BY <1>1, <1>3 DEF PlanInv, OtherLanes, Contextual, Reading

\* What is built stays built.
LEMMA BuiltStays ==
    ASSUME spec' = spec, made \subseteq made', NEW cl, NEW s, SliceBuilt(cl, s)
    PROVE  SliceBuilt(cl, s)'
  BY DEF SliceBuilt, Unplanned, AllArs

\* A step that stays with the slice.
LEMMA PlanKept ==
    ASSUME InLoops, LiveInv, PlanInv, spec' = spec, made \subseteq made',
           at'.cl = at.cl, at'.slice = at.slice,
           index' # NoIndex => pc' = "succeeded",
           pc' \in OtherLanes => pc \in OtherLanes \/ spec.lane # "low_level",
           Finished' => Finished,
           pc' \in Contextual => ~Unplanned(Slice),
           \A a \in made' : \/ a \in made \/ a.kind # "context" \/ a.cl = 0
                            \/ a.cl = Cl /\ a.slice = Slice /\ ~Unplanned(Slice)
    PROVE  PlanInv'
<1>1. Slice' = Slice /\ \A s : Unplanned(s)' <=> Unplanned(s)
  BY DEF Slice, Unplanned
<1>2. \A i, j : Passed(i, j)' => Passed(i, j)
  BY DEF Passed
<1>3. at.cl \in DOMAIN spec.cls /\ Slice \in Range(Slices)
  BY Configured, SlicesSeq DEF InLoops, LiveInv, Slice
<1>4. ASSUME NEW a \in made', a.kind = "context", a.cl # 0
      PROVE  /\ \E i \in DOMAIN spec.cls : a.cl = spec.cls[i]
             /\ a.slice \in Range(Slices) /\ ~Unplanned(a.slice)
  BY <1>3, <1>4 DEF PlanInv, Cl
<1>5. \A i \in DOMAIN spec.cls, j \in DOMAIN Slices :
         Passed(i, j)' => SliceBuilt(spec.cls[i], Slices[j])'
  BY <1>2, BuiltStays DEF PlanInv
<1> QED
  BY <1>1, <1>4, <1>5 DEF PlanInv

LEMMA PlanRaise ==
    ASSUME InLoops, LiveInv, PlanInv, pc # "succeeded", index' = index,
           \/ Fails \/ Refuses \/ (fault' = TRUE /\ Raise)
           \/ /\ spec' = spec /\ at' = at /\ pc' = "failed" /\ made \subseteq made'
              /\ \A a \in made' : a \in made \/ a.cl = 0
    PROVE  PlanInv'
<1>1. /\ spec' = spec /\ at' = at /\ pc' = "failed" /\ made \subseteq made'
      /\ \A a \in made' : a \in made \/ a.cl = 0
  BY DEF Fails, Refuses, Raise
<1>2. index' = NoIndex
  BY DEF PlanInv
<1> QED
  BY <1>1, <1>2, PlanKept DEF OtherLanes, Finished, Contextual, Reading

\* The loops pass a slice that is built.
LEMMA PlanNextSlice ==
    ASSUME InLoops, LiveInv, PlanInv, spec' = spec, made \subseteq made', NextSlice,
           pc \in {"slice", "publish"}, index' = index, SliceBuilt(Cl, Slice),
           \A a \in made' : a \in made \/ a.kind # "context"
    PROVE  PlanInv'
<1>1. /\ Len(spec.cls) \in Nat /\ DOMAIN spec.cls = 1 .. Len(spec.cls)
      /\ at.cl \in 1 .. Len(spec.cls) /\ at.slice \in 1 .. Len(Slices)
  BY Configured DEF InLoops, LiveInv
<1>2. index' = NoIndex /\ ~Finished
  BY DEF PlanInv, Finished
<1>3. \A s : Unplanned(s)' <=> Unplanned(s)
  BY DEF Unplanned
<1>4. pc' \in {"slice", "ar_convert", "done", "vision"}
  BY DEF NextSlice
<1>5. ASSUME NEW i \in DOMAIN spec.cls, NEW j \in DOMAIN Slices, Passed(i, j)'
      PROVE  Passed(i, j) \/ (spec.cls[i] = Cl /\ Slices[j] = Slice)
  <2>1. i \in 1 .. Len(spec.cls) /\ j \in 1 .. Len(Slices)
    BY <1>1, SlicesSeq
  <2>2. CASE at.slice < Len(Slices)
    <3>1. at'.cl = at.cl /\ at'.slice = at.slice + 1 /\ pc' = "slice"
      BY <2>2 DEF NextSlice, InLoops
    <3>2. Passed(i, j) \/ (i = at.cl /\ j = at.slice)
      BY <1>1, <1>5, <2>1, <3>1, SlicesSeq DEF Passed, Finished
    <3> QED
      BY <3>2 DEF Cl, Slice
  <2>3. CASE at.slice = Len(Slices) /\ at.cl < Len(spec.cls)
    <3>1. at'.cl = at.cl + 1 /\ at'.slice = 1 /\ pc' = "ar_convert"
      BY <1>1, <2>3, SlicesSeq DEF NextSlice
    <3>2. Passed(i, j) \/ (i = at.cl /\ j = at.slice)
      BY <1>1, <1>5, <2>1, <2>3, <3>1, SlicesSeq DEF Passed, Finished
    <3> QED
      BY <3>2 DEF Cl, Slice
  <2>4. CASE at.slice = Len(Slices) /\ at.cl = Len(spec.cls)
    <3>1. Passed(i, j) \/ (i = at.cl /\ j = at.slice)
      BY <1>1, <2>1, <2>4, SlicesSeq DEF Passed
    <3> QED
      BY <3>1 DEF Cl, Slice
  <2> QED
    BY <1>1, <2>2, <2>3, <2>4, SlicesSeq
<1>6. \A i \in DOMAIN spec.cls, j \in DOMAIN Slices :
         Passed(i, j)' => SliceBuilt(spec.cls[i], Slices[j])'
  BY <1>5, BuiltStays DEF PlanInv
<1> QED
  BY <1>2, <1>3, <1>4, <1>6 DEF PlanInv, OtherLanes, Contextual, Reading

\* The lanes end apart, and what they make besides the slices is of no context
\* length.
LEMMA PlanAround ==
    ASSUME InLoops, LiveInv, PlanInv,
           \/ Start /\ index' = index
           \/ Vision /\ index' = index
           \/ GenaiNext /\ index' = index
           \/ BuildVit \/ Prepare \/ BindVectors \/ BindGenaiVectors
    PROVE  PlanInv'
<1> DEFINE Raises ==
      \/ Fails \/ Refuses \/ (fault' = TRUE /\ Raise)
      \/ /\ spec' = spec /\ at' = at /\ pc' = "failed" /\ made \subseteq made'
         /\ \A a \in made' : a \in made \/ a.cl = 0
    Shape ==
      /\ spec' = spec /\ at' = at /\ made \subseteq made'
      /\ \A a \in made' : a \in made \/ a.cl = 0
      /\ pc' \in OtherLanes => pc \in OtherLanes \/ spec.lane # "low_level"
      /\ Finished' => Finished
      /\ pc' \notin Contextual
<1>0. pc # "succeeded" /\ index' = index
  BY DEF Start, Vision, GenaiNext, CheckContainer, BuildContainer, BuildOmni,
         DescribeSlices, BuildVit, Prepare, BindVectors, BindGenaiVectors
<1>1. ASSUME Shape
      PROVE  PlanInv'
  <2>1. index' = NoIndex
    BY <1>0 DEF PlanInv
  <2> QED
    BY <1>1, <2>1, PlanKept
<1>2. ASSUME Raises
      PROVE  PlanInv'
  <2> HIDE DEF Shape
  <2> QED
    BY <1>0, <1>2, PlanRaise
<1>3. ASSUME spec.lane # "low_level", spec' = spec
      PROVE  ~Finished'
  BY <1>3 DEF Finished
<1>4. Raises \/ Shape
  <2>1. CASE Start
    BY <2>1 DEF Start, OtherLanes, Finished, Contextual, Reading
  <2>2. CASE Prepare
    BY <2>2 DEF Prepare, OtherLanes, Finished, Contextual, Reading
  <2>3. CASE BindVectors
    BY <2>3 DEF BindVectors, OtherLanes, Finished, Contextual, Reading
  <2>4. CASE BindGenaiVectors
    BY <2>4 DEF BindGenaiVectors, OtherLanes, Finished, Contextual, Reading
  <2>5. CASE CheckContainer
    BY <2>5 DEF CheckContainer, OtherLanes, Finished, Contextual, Reading
  <2>6. CASE DescribeSlices
    <3>1. spec.lane # "low_level"
      BY <2>6 DEF DescribeSlices, PlanInv, OtherLanes
    <3> QED
      BY <1>3, <2>6, <3>1 DEF DescribeSlices, OtherLanes, Contextual, Reading
  <2>7. CASE Vision
    <3>1. \/ Raises
          \/ /\ spec' = spec /\ at' = at /\ pc = "vision" /\ pc' = "done"
             /\ made \subseteq made' /\ \A a \in made' : a \in made \/ a.cl = 0
      BY <2>7 DEF Vision, Call, Makes, Art
    <3> QED
      BY <3>1 DEF OtherLanes, Finished, Contextual, Reading
  <2>8. CASE BuildVit \/ BuildOmni
    <3>1. spec.lane # "low_level"
      BY <2>8 DEF BuildVit, BuildOmni, PlanInv, OtherLanes
    <3>2. \/ Raises
          \/ /\ spec' = spec /\ at' = at /\ pc' = "done"
             /\ made \subseteq made' /\ \A a \in made' : a \in made \/ a.cl = 0
      BY <2>8 DEF BuildVit, BuildOmni, Call, Makes, Art
    <3> QED
      BY <1>3, <3>1, <3>2 DEF OtherLanes, Contextual, Reading
  <2>9. CASE BuildContainer
    <3>1. \/ Raises
          \/ /\ spec' = spec /\ at' = at /\ pc = "genai_build" /\ pc' = "genai_raw"
             /\ made \subseteq made' /\ \A a \in made' : a \in made \/ a.cl = 0
      BY <2>9 DEF BuildContainer, Makes, Art
    <3> QED
      BY <3>1 DEF OtherLanes, Finished, Contextual, Reading
  <2> QED
    BY <2>1, <2>2, <2>3, <2>4, <2>5, <2>6, <2>7, <2>8, <2>9 DEF GenaiNext
<1> HIDE DEF Shape, Raises
<1> QED
  BY <1>1, <1>2, <1>4

LEMMA PlanLoops ==
    ASSUME InLoops, LiveInv, PlanInv, index' = index, ArConvert \/ Transform
    PROVE  PlanInv'
<1>1. ASSUME NEW arts, NEW next, Makes(arts), ForEachAr(next),
             pc \in {"ar_convert", "transform"}, next \in {"transform", "slice"},
             \A a \in arts : a.kind # "context"
      PROVE  PlanInv'
  <2>1. spec' = spec /\ made' = made \cup arts
    BY <1>1 DEF Makes
  <2>2. at'.cl = at.cl /\ at'.slice = at.slice /\ pc' \in {pc, next}
    BY <1>1, <2>1, ForEachArStep
  <2>3. index' = NoIndex
    BY <1>1 DEF PlanInv
  <2>4. pc' \notin OtherLanes /\ ~Finished' /\ pc' \notin Contextual
    BY <1>1, <2>2 DEF OtherLanes, Finished, Contextual, Reading
  <2> QED
    BY <1>1, <2>1, <2>2, <2>3, <2>4, PlanKept
<1>2. CASE ArConvert
  <2> DEFINE arts == {Art("variant", Cl, "", {Ar})}
  <2>1. \/ Refuses \/ Fails
        \/ Makes(arts) /\ ForEachAr("transform")
    BY <1>2 DEF ArConvert, Call
  <2>2. \A a \in arts : a.kind # "context"
    <3>1. Art("variant", Cl, "", {Ar}).kind # "context"
      BY DEF Art
    <3> QED
      BY <3>1
  <2>3. pc = "ar_convert"
    BY <1>2 DEF ArConvert
  <2> HIDE DEF arts
  <2> QED
    BY <1>1, <2>1, <2>2, <2>3, PlanRaise
<1>3. CASE Transform
  <2> DEFINE arts == {Art("transformed", Cl, s, {Ar}) : s \in Range(Slices)}
  <2>1. Fails \/ (Makes(arts) /\ ForEachAr("slice"))
    BY <1>3 DEF Transform, Call
  <2>2. \A a \in arts : a.kind # "context"
    BY DEF Art
  <2>3. pc = "transform"
    BY <1>3 DEF Transform
  <2> HIDE DEF arts
  <2> QED
    BY <1>1, <2>1, <2>2, <2>3, PlanRaise
<1> QED
  BY <1>2, <1>3

LEMMA PlanBegin ==
    ASSUME InLoops, LiveInv, PlanInv, index' = index, BeginSlice
    PROVE  PlanInv'
<1>1. pc = "slice" /\ spec' = spec
  BY DEF BeginSlice
<1>2. CASE Unplanned(Slice)
  <2>1. /\ NextSlice /\ made \subseteq made'
        /\ \A a \in made' : a \in made \/ a.kind # "context"
    BY <1>2 DEF BeginSlice, Unplanned, Art
  <2> QED
    BY <1>1, <1>2, <2>1, PlanNextSlice DEF SliceBuilt
<1>3. CASE ~Unplanned(Slice)
  <2>1. at' = at /\ made' = made /\ pc' = "convert" /\ index' = NoIndex
    BY <1>1, <1>3 DEF BeginSlice, Unplanned, PlanInv
  <2> QED
    BY <1>1, <1>3, <2>1, PlanKept DEF OtherLanes, Finished
<1> QED
  BY <1>2, <1>3

\* A context is compiled for the current slice only.
LEMMA PlanCompile ==
    ASSUME InLoops, LiveInv, PlanInv, index' = index,
           \/ Convert \/ Structure \/ Standalone \/ Authorise \/ Joint \/ Runtime
           \/ Compile \/ Diagnose
    PROVE  PlanInv'
<1>0. pc \in Contextual /\ pc # "succeeded" /\ index' = NoIndex /\ ~Unplanned(Slice)
  BY DEF Convert, Structure, Standalone, Authorise, Joint, Runtime, Compile,
         Diagnose, Contextual, Reading, PlanInv
<1> DEFINE Shape ==
      /\ spec' = spec /\ at'.cl = at.cl /\ at'.slice = at.slice
      /\ pc' \in Contextual /\ made \subseteq made'
      /\ \A a \in made' : a \in made \/ (a.cl = Cl /\ a.slice = Slice)
<1>1. ASSUME Shape
      PROVE  PlanInv'
  <2>1. pc' \notin OtherLanes /\ ~Finished'
    BY <1>1 DEF Contextual, Reading, OtherLanes, Finished
  <2> QED
    BY <1>0, <1>1, <2>1, PlanKept
<1>2. ASSUME NEW kind, NEW ars, Makes({Art(kind, Cl, Slice, ars)}),
             \/ at' = at /\ pc' \in Contextual
             \/ \E next \in Contextual : ForEachAr(next)
      PROVE  Shape
  <2>1. /\ spec' = spec /\ made \subseteq made'
        /\ \A a \in made' : a \in made \/ (a.cl = Cl /\ a.slice = Slice)
    BY <1>2 DEF Makes, Art
  <2>2. CASE at' = at /\ pc' \in Contextual
    BY <2>1, <2>2
  <2>3. ASSUME NEW next \in Contextual, ForEachAr(next)
        PROVE  Shape
    BY <1>0, <2>1, <2>3, ForEachArStep
  <2> QED
    BY <1>2, <2>2, <2>3
<1>3. ASSUME NEW kind, NEW ars, NEW shared, NEW e, NEW next,
             CompileContext(kind, ars, shared, e, next)
      PROVE  Refuses \/ Fails \/ (Makes({Art(kind, Cl, Slice, ars)}) /\ next)
  BY <1>3 DEF CompileContext, Call
<1>4. Fails \/ Refuses \/ (fault' = TRUE /\ Raise) \/ Shape
  <2>1. CASE Convert
    <3>1. PICK next \in {"structure", "compile"} :
             Fails \/ (Makes({Art("converted", Cl, Slice, {Ar})}) /\ ForEachAr(next))
      BY <2>1 DEF Convert, Call
    <3>2. next \in Contextual
      BY DEF Contextual, Reading
    <3> QED
      BY <1>2, <3>1, <3>2
  <2>2. CASE Structure \/ Authorise \/ Runtime
    BY <2>2 DEF Structure, Authorise, Runtime, Contextual, Reading
  <2>3. CASE Standalone
    <3>1. \/ Refuses \/ Fails
          \/ Makes({Art("standalone", Cl, Slice, {Ar})}) /\ ForEachAr("authorise")
      BY <2>3 DEF Standalone, CompileContext, Call
    <3>2. "authorise" \in Contextual
      BY DEF Contextual, Reading
    <3> QED
      BY <1>2, <3>1, <3>2
  <2>4. CASE Joint
    <3>1. \/ Refuses \/ Fails
          \/ Makes({Art("joint", Cl, Slice, AllArs)}) /\ at' = at /\ pc' = "runtime"
      BY <2>4 DEF Joint, CompileContext, Call
    <3>2. "runtime" \in Contextual
      BY DEF Contextual, Reading
    <3> QED
      BY <1>2, <3>1, <3>2
  <2>5. CASE Compile \/ Diagnose
    <3>1. PICK kind \in {"context", "diagnostic"}, next \in {"diagnose", "publish"} :
             CompileSlice(kind, next)
      BY <2>5 DEF Compile, Diagnose
    <3>2. next \in Contextual
      BY DEF Contextual, Reading
    <3>3. \/ Refuses \/ Fails
          \/ \E ars : /\ Makes({Art(kind, Cl, Slice, ars)})
                      /\ (at' = at /\ pc' = next) \/ ForEachAr(next)
      BY <3>1 DEF CompileSlice, CompileContext, Call
    <3> QED
      BY <1>2, <3>2, <3>3
  <2> QED
    BY <2>1, <2>2, <2>3, <2>4, <2>5
<1> HIDE DEF Shape
<1> QED
  BY <1>0, <1>1, <1>4, PlanRaise

\* A slice is published with a context for every AR.
LEMMA PlanPublish ==
    ASSUME ProgressInv, LiveInv, PlanInv, index' = index, Publish
    PROVE  PlanInv'
<1>1. /\ pc = "publish" /\ spec' = spec /\ made' = made /\ NextSlice
  BY DEF Publish
<1>2. SliceBuilt(Cl, Slice)
  BY <1>1 DEF ProgressInv, SliceCompiled, SliceBuilt
<1> QED
  BY <1>1, <1>2, PlanNextSlice DEF ProgressInv

\* The index is published when the loops have ended.
LEMMA PlanPublishIndex ==
    ASSUME InLoops, LiveInv, PlanInv, PublishIndex
    PROVE  PlanInv'
<1>1. /\ spec' = spec /\ at' = at /\ made' = made /\ pc' = "succeeded"
      /\ Publishable
  BY DEF PublishIndex
<1>2. Finished' => Finished
  BY <1>1 DEF Publishable, Finished
<1> QED
  BY <1>1, <1>2, PlanKept DEF OtherLanes, Contextual, Reading

LEMMA PlanStep ==
    ProgressInv /\ LiveInv /\ PlanInv /\ [StagesNext]_stagesVars => PlanInv'
<1> SUFFICES ASSUME ProgressInv, LiveInv, PlanInv, [StagesNext]_stagesVars
             PROVE  PlanInv'
  OBVIOUS
<1>0. InLoops
  BY DEF ProgressInv
<1>1. CASE BuildStep
  <2>1. CASE BuildNext /\ index' = index
    BY <1>0, <2>1, PlanAround, PlanLoops, PlanBegin, PlanCompile, PlanPublish
       DEF BuildNext
  <2>2. CASE ~(BuildNext /\ index' = index)
    BY <1>0, <1>1, <2>2, PlanAround, PlanPublishIndex DEF BuildStep
  <2> QED
    BY <2>1, <2>2
<1>2. ASSUME spec' = spec, pc' = pc, at' = at, index' = index, made \subseteq made',
             \A a \in made' : a \in made \/ a.kind # "context"
      PROVE  PlanInv'
  <2>1. Finished' <=> Finished
    BY <1>2 DEF Finished
  <2>2. /\ index' # NoIndex => pc' = "succeeded"
        /\ pc' \in Contextual => ~Unplanned(Slice)
    BY <1>2 DEF PlanInv
  <2> QED
    BY <1>0, <1>2, <2>1, <2>2, PlanKept
<1>3. CASE ToolNext
  <2>1. made \subseteq made' /\ \A a \in made' : a \in made \/ a.kind # "context"
    <3>1. CASE CompileModels
      BY <3>1 DEF CompileModels, Art
    <3>2. CASE ~CompileModels
      BY <1>3, <3>2 DEF ToolNext, ToolStep, PrepareVectors, ConvertAr,
                        TransformModel, ConvertModel, RunGraph, RunChain
    <3> QED
      BY <3>1, <3>2
  <2> QED
    BY <1>2, <1>3, <2>1 DEF ToolNext
<1>4. CASE UNCHANGED stageVars
  BY <1>2, <1>4 DEF stageVars, buildVars
<1> QED
  BY <1>1, <1>3, <1>4 DEF StagesNext, stagesVars

\* plan and build read the configuration apart from each other, and agree: for
\* every split plan, any context lengths and ARs, a build that has published its
\* index has made a context for each AR of each context that plan announces, and
\* none that plan does not announce; no tool that is called later changes that.
THEOREM PlanHolds == StagesSpec => []PlanIsBuilt
<1>1. StagesInit => ProgressInv /\ LiveInv /\ PlanInv
  BY ProgressInit, LiveInit, PlanInit
<1>2. ProgressInv /\ LiveInv /\ PlanInv /\ [StagesNext]_stagesVars
        => ProgressInv' /\ LiveInv' /\ PlanInv'
  BY ProgressStep, LiveStep, PlanStep
<1>3. ProgressInv /\ PlanInv => PlanIsBuilt
  BY PlanSuffices
<1> QED
  BY <1>1, <1>2, <1>3, PTL DEF StagesSpec

-----------------------------------------------------------------------------
(* What a diagnosis of latency compares.                                   *)

\* The trace that a manifest has of all its ARs, or of its only one.
Traced(artifacts) == <<"optrace_evidence", 0>> \in DOMAIN artifacts

\* Phases in which one AR after the other is executed.
Fanning == phase \notin {"idle", "called", "compare", "diagnose"} /\ FansOut

\* A call is made on a build that has succeeded; the reports on one AR have names
\* of their own while those on the others are missing.
CallsInv ==
    /\ call # NoCall => call \in Calls /\ pc = "succeeded"
    /\ Fanning => turn \in Seq(AllArs) /\ turn # << >>
    /\ \A n \in DOMAIN drafts :
         n # <<"optrace_evidence", 0>> /\ n[1] # "latency_diagnosis"

\* A call publishes one trace at most.  So the traces of a manifest and of its
\* ancestors are as old as their stamps say, and the manifest has the trace of
\* its parent or a later one.
TracesInv ==
    /\ called \in Nat
    /\ \E S : past \in Seq(S)
    /\ Traced(shelf) =>
         /\ TraceOf(shelf).stamp[1] \in Nat
         /\ TraceOf(shelf).stamp[1] <= called
         /\ call # NoCall => TraceOf(shelf).stamp[1] < called
    /\ \A i \in DOMAIN past : Traced(past[i]) =>
         /\ Traced(shelf)
         /\ \/ TraceOf(past[i]) = TraceOf(shelf)
            \/ /\ TraceOf(past[i]).stamp[1] \in Nat
               /\ TraceOf(past[i]).stamp[1] < TraceOf(shelf).stamp[1]

DiagnosesInv == IdleInv /\ CallsInv /\ TracesInv /\ LatencyDiagnosisTrue

\* The last one of some ancestors.
LEMMA LastOf ==
    ASSUME NEW n \in Nat, NEW S \in SUBSET (1 .. n), S # {}
    PROVE  Max(S) \in S
<1> DEFINE T == {n - x : x \in S}
<1>1. T \subseteq Nat /\ T # {}
  <2>1. \A x \in S : n - x \in Nat
    OBVIOUS
  <2>2. PICK x \in S : TRUE
    OBVIOUS
  <2>3. n - x \in T
    BY <2>2
  <2> QED
    BY <2>1, <2>3
<1>2. PICK t \in T : \A u \in T : ~ (<<u, t>> \in OpToRel(<, Nat))
  <2> HIDE DEF T
  <2> QED
    BY <1>1, NatLessThanWellFounded, WFMin
<1>3. \A u \in T : ~ (u < t)
  BY <1>1, <1>2 DEF OpToRel
<1>4. PICK m \in S : t = n - m
  BY <1>2
<1>5. \A y \in S : m >= y
  <2> TAKE y \in S
  <2>1. n - y \in T /\ m \in Nat /\ y \in Nat
    OBVIOUS
  <2>2. ~ (n - y < n - m)
    BY <1>3, <1>4, <2>1
  <2> QED
    BY <2>1, <2>2
<1> QED
  BY <1>4, <1>5 DEF Max

LEMMA DiagnosesInit == StagesInit => DiagnosesInv
<1> SUFFICES ASSUME StagesInit
             PROVE  DiagnosesInv
  OBVIOUS
<1>1. /\ call = NoCall /\ phase = "idle" /\ drafts = << >> /\ shelf = << >>
      /\ past = << >> /\ called = 0
  BY DEF StagesInit, CallInit
<1>2. past \in Seq({}) /\ DOMAIN past = {}
  BY <1>1
<1>3. CallsInv
  BY <1>1 DEF CallsInv, Fanning
<1>4. TracesInv
  BY <1>1, <1>2 DEF TracesInv, Traced
<1>5. LatencyDiagnosisTrue
  BY <1>1 DEF LatencyDiagnosisTrue, LatencyDiagnoses
<1> QED
  BY <1>3, <1>4, <1>5, IdleInit DEF DiagnosesInv

\* A step that goes on with a call.
LEMMA DiagnosesGoOn ==
    ASSUME DiagnosesInv, IdleInv', UNCHANGED stageVars, Stays,
           UNCHANGED <<shelf, past, called>>,
           Fanning' => turn' \in Seq(AllArs) /\ turn' # << >>,
           \A n \in DOMAIN drafts' :
             n # <<"optrace_evidence", 0>> /\ n[1] # "latency_diagnosis"
    PROVE  DiagnosesInv'
<1>1. AllArs' = AllArs /\ pc' = pc
  BY DEF AllArs, stageVars, buildVars
<1>2. CallsInv'
  BY <1>1 DEF DiagnosesInv, CallsInv, Stays
<1>3. TracesInv'
  <2>1. TraceOf(shelf)' = TraceOf(shelf)
    BY DEF TraceOf
  <2>2. \A i \in DOMAIN past : TraceOf(past[i])' = TraceOf(past[i])
    BY DEF TraceOf
  <2> QED
    BY <2>1, <2>2 DEF DiagnosesInv, TracesInv, Traced, Stays
<1>4. LatencyDiagnosisTrue'
  BY DEF DiagnosesInv, LatencyDiagnosisTrue, LatencyDiagnoses
<1> QED
  BY <1>2, <1>3, <1>4 DEF DiagnosesInv

\* A step of a call that fans out goes on with the same AR.
LEMMA FanningStays ==
    ASSUME DiagnosesInv, UNCHANGED stageVars, Stays, Fanning', turn' = turn,
           phase \notin {"idle", "called", "compare", "diagnose"}
    PROVE  turn' \in Seq(AllArs) /\ turn' # << >>
<1>1. FansOut' <=> FansOut
  BY DEF FansOut, Automatic, RunsOnce, Stays, stageVars, buildVars
<1> QED
  BY <1>1 DEF Fanning, DiagnosesInv, CallsInv

LEMMA DiagnosesProceed ==
    ASSUME DiagnosesInv, IdleInv', UNCHANGED stageVars,
           NEW next, NEW results, Proceed(next, results),
           \/ phase \notin {"idle", "called", "compare", "diagnose"}
           \/ next \in {"compare", "diagnose"}
    PROVE  DiagnosesInv'
<1>1. /\ Stays /\ UNCHANGED <<shelf, past, called, turn, drafts>> /\ phase' = next
  BY DEF Proceed, Stays
<1>2. Fanning' => turn' \in Seq(AllArs) /\ turn' # << >>
  BY <1>1, FanningStays DEF Fanning
<1> QED
  BY <1>1, <1>2, DiagnosesGoOn DEF DiagnosesInv, CallsInv

\* The end of a call: its trace is the latest, or that of its parent.
LEMMA DiagnosesEnd ==
    ASSUME DiagnosesInv, IdleInv', phase # "idle", NEW how, End(how), spec' = spec,
           past' = Append(past, shelf),
           Traced(shelf) => Traced(shelf'),
           Traced(shelf') => \/ Traced(shelf) /\ TraceOf(shelf') = TraceOf(shelf)
                             \/ TraceOf(shelf').stamp = <<called, 0>>,
           LatencyDiagnosisTrue'
    PROVE  DiagnosesInv'
<1>1. /\ call # NoCall /\ call' = NoCall /\ phase' = "idle" /\ drafts' = << >>
      /\ called' = called
  BY DEF DiagnosesInv, IdleInv, End
<1>2. CallsInv'
  BY <1>1 DEF CallsInv, Fanning
<1>3. PICK S : past \in Seq(S)
  BY DEF DiagnosesInv, TracesInv
<1>4. past \in Seq(S \cup {shelf})
  BY <1>3
<1>5. /\ past' \in Seq(S \cup {shelf})
      /\ Len(past') = Len(past) + 1
      /\ \A i \in 1 .. Len(past) : past'[i] = past[i]
      /\ past'[Len(past) + 1] = shelf
  BY <1>4, AppendProperties
<1>6. called \in Nat /\ (Traced(shelf) => /\ TraceOf(shelf).stamp[1] \in Nat
                                          /\ TraceOf(shelf).stamp[1] < called)
  BY <1>1 DEF DiagnosesInv, TracesInv
<1>7. Traced(shelf') => /\ TraceOf(shelf').stamp[1] \in Nat
                        /\ TraceOf(shelf').stamp[1] <= called
  BY <1>6
<1>8. Traced(shelf) => \/ TraceOf(shelf) = TraceOf(shelf')
                       \/ TraceOf(shelf).stamp[1] < TraceOf(shelf').stamp[1]
  BY <1>6
<1>9. ASSUME NEW i \in DOMAIN past', Traced(past'[i])
      PROVE  /\ Traced(shelf')
             /\ \/ TraceOf(past'[i]) = TraceOf(shelf')
                \/ /\ TraceOf(past'[i]).stamp[1] \in Nat
                   /\ TraceOf(past'[i]).stamp[1] < TraceOf(shelf').stamp[1]
  <2>1. CASE i \in 1 .. Len(past)
    <3>1. past'[i] = past[i] /\ i \in DOMAIN past
      BY <1>3, <1>5, <2>1
    <3>2. /\ Traced(shelf)
          /\ \/ TraceOf(past[i]) = TraceOf(shelf)
             \/ /\ TraceOf(past[i]).stamp[1] \in Nat
                /\ TraceOf(past[i]).stamp[1] < TraceOf(shelf).stamp[1]
      BY <1>9, <3>1 DEF DiagnosesInv, TracesInv
    <3> QED
      BY <1>6, <1>7, <1>8, <3>1, <3>2
  <2>2. CASE i = Len(past) + 1
    BY <1>5, <1>6, <1>8, <1>9, <2>2
  <2>3. i \in 1 .. Len(past) \/ i = Len(past) + 1
    <3>1. Len(past) \in Nat /\ DOMAIN past' = 1 .. Len(past) + 1
      BY <1>3, <1>5
    <3> QED
      BY <3>1
  <2> QED
    BY <2>1, <2>2, <2>3
<1>10. TracesInv'
  <2>1. Traced(shelf)' <=> Traced(shelf')
    BY DEF Traced
  <2>2. TraceOf(shelf)' = TraceOf(shelf')
    BY DEF TraceOf
  <2>3. \A i \in DOMAIN past' : /\ Traced(past[i])' <=> Traced(past'[i])
                                /\ TraceOf(past[i])' = TraceOf(past'[i])
    BY DEF Traced, TraceOf
  <2> QED
    BY <1>1, <1>5, <1>6, <1>7, <1>9, <2>1, <2>2, <2>3 DEF TracesInv
<1> QED
  BY <1>2, <1>10 DEF DiagnosesInv

LEMMA DiagnosesRefuse ==
    ASSUME DiagnosesInv, IdleInv', phase # "idle", spec' = spec,
           RefuseCall \/ FailCall
    PROVE  DiagnosesInv'
<1>1. PICK how : End(how) /\ past' = Append(past, shelf) /\ shelf' = shelf
  BY DEF RefuseCall, FailCall
<1>2. LatencyDiagnosisTrue'
  BY <1>1 DEF DiagnosesInv, LatencyDiagnosisTrue, LatencyDiagnoses
<1> QED
  BY <1>1, <1>2, DiagnosesEnd

TrueDiagnosis(d) ==
    ~d.given =>
        /\ d.trace.stamp = d.report.optrace
        /\ d.mode = "parent_profile_delta" =>
             /\ d.baseline.stamp[1] < d.trace.stamp[1]
             /\ d.baseline.profiled = d.trace.profiled

\* What is published: a trace is the call's own, and a diagnosis is true.
Sound(artifacts) ==
    /\ Traced(artifacts) => TraceOf(artifacts).stamp = <<called, 0>>
    /\ \A n \in DOMAIN artifacts :
         n[1] = "latency_diagnosis" => TrueDiagnosis(artifacts[n])

LEMMA DiagnosesPublish ==
    ASSUME DiagnosesInv, IdleInv', phase # "idle", spec' = spec,
           NEW artifacts, EndCall(artifacts), Sound(artifacts)
    PROVE  DiagnosesInv'
<1>1. End("done") /\ past' = Append(past, shelf) /\ shelf' = Over(artifacts, shelf)
  BY DEF EndCall
<1>2. /\ DOMAIN shelf' = DOMAIN artifacts \cup DOMAIN shelf
      /\ \A n \in DOMAIN shelf' : shelf'[n] = IF n \in DOMAIN artifacts
                                              THEN artifacts[n] ELSE shelf[n]
  BY <1>1 DEF Over
<1>3. Traced(shelf) => Traced(shelf')
  BY <1>2 DEF Traced
<1>4. Traced(shelf') => \/ Traced(shelf) /\ TraceOf(shelf') = TraceOf(shelf)
                        \/ TraceOf(shelf').stamp = <<called, 0>>
  <2>1. CASE Traced(artifacts)
    <3>1. TraceOf(shelf') = TraceOf(artifacts)
      BY <1>2, <2>1 DEF Traced, TraceOf
    <3> QED
      BY <2>1, <3>1 DEF Sound
  <2>2. CASE ~Traced(artifacts)
    BY <1>2, <2>2 DEF Traced, TraceOf
  <2> QED
    BY <2>1, <2>2
<1>5. LatencyDiagnosisTrue'
  <2>1. \A n \in DOMAIN shelf' : n[1] = "latency_diagnosis" => TrueDiagnosis(shelf'[n])
    <3> SUFFICES ASSUME NEW n \in DOMAIN shelf', n[1] = "latency_diagnosis"
                 PROVE  TrueDiagnosis(shelf'[n])
      OBVIOUS
    <3>1. CASE n \in DOMAIN artifacts
      BY <1>2, <3>1 DEF Sound
    <3>2. CASE n \notin DOMAIN artifacts
      <4>1. n \in DOMAIN shelf /\ shelf'[n] = shelf[n]
        BY <1>2, <3>2
      <4>2. ~shelf[n].given => shelf[n] \in LatencyDiagnoses
        BY <4>1 DEF LatencyDiagnoses
      <4> QED
        BY <4>1, <4>2 DEF DiagnosesInv, LatencyDiagnosisTrue, TrueDiagnosis
    <3> QED
      BY <3>1, <3>2
  <2> QED
    BY <2>1 DEF LatencyDiagnosisTrue, LatencyDiagnoses, TrueDiagnosis
<1> QED
  BY <1>1, <1>3, <1>4, <1>5, DiagnosesEnd

\* An artifact of another kind.
LEMMA OtherArtifact ==
    ASSUME NEW kind, NEW n, NEW artifact,
           kind \notin {"optrace_evidence", "latency_diagnosis"}
    PROVE  Sound(Artifact(<<kind, n>>, artifact))
<1>1. DOMAIN Artifact(<<kind, n>>, artifact) = {<<kind, n>>}
  BY DEF Artifact
<1> QED
  BY <1>1 DEF Sound, Traced

LEMMA SoundMerge ==
    ASSUME NEW a, NEW b, Sound(a), Sound(b)
    PROVE  Sound(Over(a, b))
<1>1. /\ DOMAIN Over(a, b) = DOMAIN a \cup DOMAIN b
      /\ \A n \in DOMAIN Over(a, b) :
            Over(a, b)[n] = IF n \in DOMAIN a THEN a[n] ELSE b[n]
  BY DEF Over
<1> QED
  BY <1>1 DEF Sound, Traced, TraceOf

LEMMA SoundDrafts ==
    ASSUME DiagnosesInv
    PROVE  Sound(drafts)
  BY DEF DiagnosesInv, CallsInv, Sound, Traced

\* What is left of two elements or more.
LEMMA LongerTail ==
    ASSUME NEW S, NEW s \in Seq(S), Len(s) > 1
    PROVE  Tail(s) \in Seq(S) /\ Tail(s) # << >>
<1>1. s # << >>
  OBVIOUS
<1>2. Tail(s) \in Seq(S) /\ Len(Tail(s)) = Len(s) - 1
  BY <1>1, HeadTailProperties
<1>3. Len(Tail(s)) > 0
  BY <1>2
<1>4. Len(<< >>) = 0
  BY EmptySeq
<1>5. \A n : n > 0 => n # 0
  OBVIOUS
<1>6. Tail(s) # << >>
  BY <1>3, <1>4, <1>5, Zenon
<1> QED
  BY <1>2, <1>6

\* One AR of a call that fans out, or the end of the call.
LEMMA DiagnosesNextAr ==
    ASSUME DiagnosesInv, IdleInv', InLoops, UNCHANGED stageVars,
           phase \notin {"idle", "called", "compare", "diagnose"},
           NEW artifacts, NEW first, NEW aggregate,
           NextAr(artifacts, first, aggregate),
           \A n \in DOMAIN artifacts :
             /\ n[1] # "latency_diagnosis"
             /\ n = <<"optrace_evidence", 0>> =>
                  ~FansOut /\ artifacts[n].stamp = <<called, 0>>
    PROVE  DiagnosesInv'
<1>0. spec' = spec
  BY DEF stageVars, buildVars
<1>1. CASE ~FansOut
  <2>1. EndCall(artifacts)
    BY <1>1 DEF NextAr
  <2>2. Sound(artifacts)
    BY DEF Sound, Traced, TraceOf
  <2> QED
    BY <1>0, <2>1, <2>2, DiagnosesPublish
<1>2. CASE FansOut
  <2>1. /\ drafts' = Over(artifacts, drafts) /\ Stays
        /\ UNCHANGED <<shelf, past, called>>
        /\ (Len(turn) > 1 /\ turn' = Tail(turn)) \/ turn' = turn
    BY <1>2 DEF NextAr, Stays
  <2>2. DOMAIN drafts' = DOMAIN artifacts \cup DOMAIN drafts
    BY <2>1 DEF Over
  <2>3. \A n \in DOMAIN drafts' :
           n # <<"optrace_evidence", 0>> /\ n[1] # "latency_diagnosis"
    BY <1>2, <2>2 DEF DiagnosesInv, CallsInv
  <2>4. turn \in Seq(AllArs) /\ turn # << >>
    BY <1>2 DEF DiagnosesInv, CallsInv, Fanning
  <2>5. turn' \in Seq(AllArs) /\ turn' # << >>
    <3>1. CASE Len(turn) > 1 /\ turn' = Tail(turn)
      BY <2>4, <3>1, LongerTail
    <3> QED
      BY <2>1, <2>4, <3>1
  <2> QED
    BY <2>1, <2>3, <2>5, DiagnosesGoOn
<1> QED
  BY <1>1, <1>2

\* The name of an artifact on one of several ARs.
LEMMA SuffixOfAr ==
    ASSUME DiagnosesInv, InLoops, phase \notin {"idle", "called", "compare", "diagnose"}
    PROVE  Suffix = 0 <=> ~FansOut
<1>1. CASE FansOut
  <2>1. turn \in Seq(AllArs) /\ turn # << >>
    BY <1>1 DEF DiagnosesInv, CallsInv, Fanning
  <2>2. Head(turn) \in AllArs
    BY <2>1, HeadTailProperties
  <2>3. 0 \notin AllArs
    BY Configured
  <2> QED
    BY <1>1, <2>2, <2>3 DEF Suffix
<1>2. CASE ~FansOut
  BY <1>2 DEF Suffix
<1> QED
  BY <1>1, <1>2

LEMMA DiagnosesStarts ==
    ASSUME DiagnosesInv, IdleInv', InLoops, UNCHANGED stageVars,
           NEW stage, NEW first, Starts(stage, first)
    PROVE  DiagnosesInv'
<1>0. spec' = spec /\ phase = "called"
  BY DEF Starts, stageVars, buildVars
<1>1. CASE RefuseCall
  BY <1>0, <1>1, DiagnosesRefuse
<1>2. CASE ~RefuseCall
  <2>1. /\ Stays /\ UNCHANGED <<shelf, past, called, drafts>>
        /\ turn' = IF FansOut THEN spec.ars ELSE <<call.ar>>
    BY <1>2 DEF Starts, Stays
  <2>2. FansOut' <=> FansOut
    BY <2>1 DEF FansOut, Automatic, RunsOnce, Stays, stageVars, buildVars
  <2>3. spec.ars \in Seq(AllArs) /\ spec.ars # << >>
    <3>1. spec.ars \in Seq(Nat \ {0})
      BY Configured
    <3>2. Len(spec.ars) \in Nat /\ Len(spec.ars) # 0
      BY <3>1 DEF InLoops
    <3>4. \A i \in 1 .. Len(spec.ars) : spec.ars[i] \in AllArs
      BY Configured
    <3>3. spec.ars \in Seq(AllArs)
      BY <3>1, <3>4
    <3>5. spec.ars # << >>
      BY <3>2
    <3> QED
      BY <3>3, <3>5
  <2>4. Fanning' => turn' \in Seq(AllArs) /\ turn' # << >>
    BY <2>1, <2>2, <2>3 DEF Fanning
  <2> QED
    BY <2>1, <2>4, DiagnosesGoOn DEF DiagnosesInv, CallsInv
<1> QED
  BY <1>1, <1>2

\* validate publishes no trace.
LEMMA DiagnosesValidate ==
    ASSUME DiagnosesInv, IdleInv', InLoops, UNCHANGED stageVars, ValidateNext
    PROVE  DiagnosesInv'
<1>0. spec' = spec
  BY DEF stageVars, buildVars
<1>1. CASE BeginValidate
  BY <1>1, DiagnosesStarts DEF BeginValidate
<1>2. CASE BindValidate \/ PrepareReferences \/ ExecuteModes
  <2>1. phase \notin {"idle", "called", "compare", "diagnose"}
    BY <1>2 DEF BindValidate, PrepareReferences, ExecuteModes
  <2>2. ASSUME NEW next, NEW results, Proceed(next, results)
        PROVE  DiagnosesInv'
    BY <2>1, <2>2, DiagnosesProceed
  <2>3. CASE RefuseCall \/ FailCall
    BY <1>0, <2>1, <2>3, DiagnosesRefuse
  <2>4. CASE BindValidate
    BY <2>2, <2>3, <2>4 DEF BindValidate
  <2>5. CASE PrepareReferences
    BY <2>2, <2>3, <2>5 DEF PrepareReferences
  <2>6. CASE ExecuteModes
    BY <2>2, <2>3, <2>6 DEF ExecuteModes
  <2> QED
    BY <1>2, <2>4, <2>5, <2>6
<1>3. CASE PublishReport
  <2>1. phase = "report"
    BY <1>3 DEF PublishReport
  <2>2. CASE RefuseCall \/ FailCall
    BY <1>0, <2>1, <2>2, DiagnosesRefuse
  <2>3. CASE NextAr(Reports, "bind", "aggregate")
    <3>1. \A n \in DOMAIN Reports :
             n[1] \in {"sqnr_report", "slice_reference", "float_reference_report"}
      BY DEF Reports, References, Over, Artifact, Name
    <3>2. \A n \in DOMAIN Reports :
             n[1] # "latency_diagnosis" /\ n # <<"optrace_evidence", 0>>
      BY <3>1
    <3> QED
      BY <2>1, <2>3, <3>2, DiagnosesNextAr
  <2> QED
    BY <1>3, <2>2, <2>3 DEF PublishReport
<1>4. CASE PublishAggregate
  <2>1. PICK all : EndCall(Over(Artifact(<<"sqnr_report", 0>>, all), drafts))
    BY <1>4 DEF PublishAggregate
  <2>2. phase # "idle"
    BY <1>4 DEF PublishAggregate
  <2>3. Sound(Over(Artifact(<<"sqnr_report", 0>>, all), drafts))
    BY OtherArtifact, SoundDrafts, SoundMerge
  <2> QED
    BY <1>0, <2>1, <2>2, <2>3, DiagnosesPublish
<1> QED
  BY <1>1, <1>2, <1>3, <1>4 DEF ValidateNext

\* What benchmark publishes of one AR has the trace of this call, or none.
LEMMA DiagnosesBenchmark ==
    ASSUME DiagnosesInv, IdleInv', InLoops, UNCHANGED stageVars, BenchmarkNext
    PROVE  DiagnosesInv'
<1>0. spec' = spec
  BY DEF stageVars, buildVars
<1>1. CASE BeginBenchmark
  <2>1. CASE RefuseCall
    BY <1>0, <1>1, <2>1, DiagnosesRefuse DEF BeginBenchmark
  <2> QED
    BY <1>1, <2>1, DiagnosesStarts DEF BeginBenchmark
<1>2. CASE \/ SelectBenchmark \/ OpenContainer \/ OpenChain \/ OpenGraph \/ Measure
           \/ Meter
  <2>1. phase \notin {"idle", "called", "compare", "diagnose"}
    BY <1>2 DEF SelectBenchmark, OpenContainer, OpenChain, OpenGraph, Measure, Meter
  <2>2. ASSUME NEW next, NEW results, Proceed(next, results)
        PROVE  DiagnosesInv'
    BY <2>1, <2>2, DiagnosesProceed
  <2>3. CASE RefuseCall \/ FailCall
    BY <1>0, <2>1, <2>3, DiagnosesRefuse
  <2>4. CASE SelectBenchmark
    BY <2>2, <2>3, <2>4 DEF SelectBenchmark
  <2>5. CASE OpenContainer \/ OpenChain \/ OpenGraph
    BY <2>2, <2>3, <2>5 DEF OpenContainer, OpenChain, OpenGraph
  <2>6. CASE Measure \/ Meter
    BY <2>2, <2>3, <2>6 DEF Measure, Meter
  <2> QED
    BY <1>2, <2>4, <2>5, <2>6
<1>3. CASE PublishLatency
  <2>1. phase = "trace"
    BY <1>3 DEF PublishLatency
  <2>2. CASE RefuseCall \/ FailCall
    BY <1>0, <2>1, <2>2, DiagnosesRefuse
  <2>3. CASE NextAr(LatencyArtifacts, "select", "aggregate")
    <3> DEFINE report == Artifact(Name("latency_report"),
                           [kind |-> "one", results |-> <<Latency>>,
                            metric |-> Latency.metric, optrace |-> Latency.optrace])
               trace == IF call.optrace
                        THEN Artifact(Name("optrace_evidence"), Trace) ELSE << >>
    <3>1. /\ DOMAIN report = {<<"latency_report", Suffix>>}
          /\ DOMAIN trace \subseteq {<<"optrace_evidence", Suffix>>}
          /\ \A n \in DOMAIN trace : trace[n] = Trace
      BY DEF Artifact, Name
    <3>2. LatencyArtifacts = Over(report, trace)
      BY DEF LatencyArtifacts
    <3> HIDE DEF report, trace
    <3>3. ASSUME NEW n \in DOMAIN LatencyArtifacts
          PROVE  /\ n[1] # "latency_diagnosis"
                 /\ n = <<"optrace_evidence", 0>> =>
                      Suffix = 0 /\ LatencyArtifacts[n] = Trace
      BY <3>1, <3>2, <3>3 DEF Over
    <3>4. Trace.stamp = <<called, Suffix>>
      BY DEF Trace, Stamp
    <3>5. Suffix = 0 <=> ~FansOut
      BY <2>1, SuffixOfAr
    <3> QED
      BY <2>1, <2>3, <3>3, <3>4, <3>5, DiagnosesNextAr
  <2> QED
    BY <1>3, <2>2, <2>3 DEF PublishLatency
<1>4. CASE PublishLatencies
  <2>1. phase # "idle"
    BY <1>4 DEF PublishLatencies
  <2>2. CASE FailCall
    BY <1>0, <2>1, <2>2, DiagnosesRefuse
  <2>3. CASE ~FailCall
    <3> DEFINE one == [i \in DOMAIN spec.ars |->
                         drafts[<<"latency_report", spec.ars[i]>>].results[1]]
               latency == [kind |-> "all", results |-> one, ars |-> AllArs,
                           cls |-> Range(spec.cls),
                           metric |-> IF \A i \in DOMAIN one :
                                           one[i].metric = "device_execution"
                                      THEN "device_execution" ELSE "partial",
                           optrace |-> IF call.optrace THEN <<called, 0>> ELSE << >>]
               trace == [stamp |-> <<called, 0>>, ars |-> AllArs,
                         profiled |-> [i \in DOMAIN one |->
                            [binding |-> one[i].binding, steps |-> one[i].steps]]]
               traces == IF call.optrace
                         THEN Artifact(<<"optrace_evidence", 0>>, trace) ELSE << >>
    <3>1. EndCall(Over(Artifact(<<"latency_report", 0>>, latency), Over(traces, drafts)))
      BY <1>4, <2>3 DEF PublishLatencies
    <3>2. trace.stamp = <<called, 0>>
      OBVIOUS
    <3> HIDE DEF trace, latency
    <3>3. Sound(traces)
      BY <3>2 DEF Sound, Traced, TraceOf, Artifact
    <3> HIDE DEF traces
    <3>4. Sound(Artifact(<<"latency_report", 0>>, latency))
      BY OtherArtifact
    <3>5. Sound(Over(Artifact(<<"latency_report", 0>>, latency), Over(traces, drafts)))
      BY <3>3, <3>4, SoundDrafts, SoundMerge
    <3> QED
      BY <1>0, <2>1, <3>1, <3>5, DiagnosesPublish
  <2> QED
    BY <2>2, <2>3
<1> QED
  BY <1>1, <1>2, <1>3, <1>4 DEF BenchmarkNext

\* The baseline is the trace of an older benchmark of the same graphs.
LEMMA OlderBaseline ==
    ASSUME TracesInv, Traced(shelf), Baseline # NoTrace
    PROVE  /\ Baseline.stamp[1] < TraceOf(shelf).stamp[1]
           /\ Baseline.profiled = TraceOf(shelf).profiled
<1> DEFINE usable == {i \in DOMAIN past :
                        /\ TraceOf(past[i]) # NoTrace
                        /\ TraceOf(past[i]) # TraceOf(shelf)
                        /\ Compatible(TraceOf(past[i]), TraceOf(shelf))}
<1>1. usable # {} /\ Baseline = TraceOf(past[Max(usable)])
  BY DEF Baseline
<1>2. PICK S : past \in Seq(S)
  BY DEF TracesInv
<1>3. Len(past) \in Nat /\ usable \subseteq 1 .. Len(past)
  BY <1>2
<1>4. Max(usable) \in usable
  <2> HIDE DEF usable
  <2> QED
    BY <1>1, <1>3, LastOf
<1>5. PICK i \in DOMAIN past : i = Max(usable)
  BY <1>4
<1>6. /\ Baseline = TraceOf(past[i]) /\ TraceOf(past[i]) # NoTrace
      /\ TraceOf(past[i]) # TraceOf(shelf)
      /\ Compatible(TraceOf(past[i]), TraceOf(shelf))
  BY <1>1, <1>4, <1>5
<1>7. Traced(past[i])
  BY <1>6 DEF TraceOf, Traced
<1> QED
  BY <1>6, <1>7 DEF TracesInv, Compatible

LEMMA DiagnosesDiagnose ==
    ASSUME DiagnosesInv, IdleInv', UNCHANGED stageVars, DiagnoseNext
    PROVE  DiagnosesInv'
<1>0. spec' = spec
  BY DEF stageVars, buildVars
<1>1. CASE BeginDiagnose
  BY <1>1, DiagnosesProceed DEF BeginDiagnose
<1>2. CASE CompareTraces
  <2>1. phase # "idle"
    BY <1>2 DEF CompareTraces
  <2>2. CASE FailCall
    BY <1>0, <2>1, <2>2, DiagnosesRefuse
  <2>3. ASSUME NEW n, EndCall(Artifact(n, [given |-> TRUE])),
               n[1] \in {"quality_diagnosis", "latency_diagnosis"}
        PROVE  DiagnosesInv'
    <3>1. Sound(Artifact(n, [given |-> TRUE]))
      BY <2>3 DEF Sound, Artifact, Traced, TrueDiagnosis
    <3> QED
      BY <1>0, <2>1, <2>3, <3>1, DiagnosesPublish
  <2> QED
    BY <1>2, <2>2, <2>3 DEF CompareTraces
<1>3. CASE Attribute
  <2>1. phase # "idle"
    BY <1>3 DEF Attribute
  <2>2. CASE RefuseCall \/ FailCall
    BY <1>0, <2>1, <2>2, DiagnosesRefuse
  <2>3. ASSUME ~(LatencyFound /\ ~TraceCurrent)
        PROVE  LatencyFound => Sound(LatencyDiagnosis)
    <3> SUFFICES ASSUME LatencyFound
                 PROVE  Sound(LatencyDiagnosis)
      OBVIOUS
    <3>1. Traced(shelf) /\ TraceCurrent
      BY <2>3 DEF LatencyFound, TraceOf, Traced
    <3>2. PICK d : d = [given |-> FALSE, trace |-> TraceOf(shelf),
                        report |-> shelf[<<"latency_report", 0>>],
                        baseline |-> Baseline,
                        mode |-> IF Baseline = NoTrace THEN "candidate_hotspot_only"
                                 ELSE "parent_profile_delta"]
      OBVIOUS
    <3>3. LatencyDiagnosis = Artifact(<<"latency_diagnosis", 0>>, d)
      BY <3>2 DEF LatencyDiagnosis
    <3>4. d.trace.stamp = d.report.optrace
      BY <3>1, <3>2 DEF TraceCurrent
    <3>5. d.mode = "parent_profile_delta" =>
            /\ d.baseline.stamp[1] < d.trace.stamp[1]
            /\ d.baseline.profiled = d.trace.profiled
      BY <3>1, <3>2, OlderBaseline DEF DiagnosesInv
    <3>6. TrueDiagnosis(d)
      BY <3>4, <3>5 DEF TrueDiagnosis
    <3> QED
      BY <3>3, <3>6 DEF Sound, Traced, Artifact
  <2>4. Sound(Quality)
    BY OtherArtifact DEF Quality
  <2>5. Sound(Artifact(<<"automatic_diagnosis", 0>>, [given |-> FALSE]))
    BY OtherArtifact
  <2>6. Sound(<< >>)
    BY DEF Sound, Traced
  <2>7. ASSUME ~(LatencyFound /\ ~TraceCurrent), NEW a, NEW b, NEW c,
               a = (IF QualityFound THEN Quality ELSE << >>),
               b = (IF LatencyFound THEN LatencyDiagnosis ELSE << >>),
               c = (IF QualityFound /\ LatencyFound
                    THEN Artifact(<<"automatic_diagnosis", 0>>, [given |-> FALSE])
                    ELSE << >>),
               EndCall(Over(a, Over(b, c)))
        PROVE  DiagnosesInv'
    <3>1. Sound(a) /\ Sound(b) /\ Sound(c)
      BY <2>3, <2>4, <2>5, <2>6, <2>7
    <3>2. Sound(Over(a, Over(b, c)))
      BY <3>1, SoundMerge
    <3> QED
      BY <1>0, <2>1, <2>7, <3>2, DiagnosesPublish
  <2> QED
    BY <1>3, <2>2, <2>7 DEF Attribute
<1> QED
  BY <1>1, <1>2, <1>3 DEF DiagnoseNext

\* A tool publishes under its own name.
LEMMA DiagnosesTools ==
    ASSUME DiagnosesInv, IdleInv', ToolNext
    PROVE  DiagnosesInv'
<1>1. /\ phase = "called" /\ call.stage = "tool" /\ spec' = spec
  BY DEF ToolNext, ToolStep, PrepareVectors, ConvertAr, TransformModel, ConvertModel,
         CompileModels, RunGraph, RunChain, Uses
<1>2. call \in Calls
  BY <1>1 DEF DiagnosesInv, CallsInv, IdleInv
<1>3. call.tool \in ToolNames
  BY <1>1, <1>2, ToolAssumption
<1>4. CASE RefuseCall \/ FailCall
  BY <1>1, <1>4, DiagnosesRefuse
<1>5. ASSUME NEW artifact, EndCall(Artifact(<<call.tool, 0>>, artifact))
      PROVE  DiagnosesInv'
  <2>1. call.tool \notin {"optrace_evidence", "latency_diagnosis"}
    BY <1>3 DEF ToolNames
  <2>2. Sound(Artifact(<<call.tool, 0>>, artifact))
    BY <2>1, OtherArtifact
  <2> QED
    BY <1>1, <1>5, <2>2, DiagnosesPublish
<1>6. ASSUME NEW accepted, NEW artifact, Tool(accepted, artifact)
      PROVE  DiagnosesInv'
  BY <1>4, <1>5, <1>6 DEF Tool
<1>7. CASE PrepareVectors \/ ConvertAr \/ TransformModel \/ ConvertModel
  BY <1>6, <1>7 DEF PrepareVectors, ConvertAr, TransformModel, ConvertModel
<1>8. CASE CompileModels
  BY <1>4, <1>5, <1>8 DEF CompileModels
<1>9. CASE RunGraph
  BY <1>6, <1>9 DEF RunGraph
<1>10. CASE RunChain
  BY <1>6, <1>10 DEF RunChain
<1> QED
  BY <1>7, <1>8, <1>9, <1>10 DEF ToolNext, ToolStep

LEMMA DiagnosesCall ==
    ASSUME DiagnosesInv, IdleInv', UNCHANGED stageVars, CallStage
    PROVE  DiagnosesInv'
<1>1. /\ call = NoCall /\ call' \in Calls /\ phase' = "called" /\ called' = called + 1
      /\ pc = "succeeded" /\ pc' = pc
      /\ UNCHANGED <<drafts, shelf, past>>
  BY DEF CallStage, stageVars, buildVars
<1>2. CallsInv'
  BY <1>1 DEF DiagnosesInv, CallsInv, Fanning
<1>3. TraceOf(shelf)' = TraceOf(shelf) /\ (Traced(shelf)' <=> Traced(shelf))
  BY <1>1 DEF TraceOf, Traced
<1>4. \A i \in DOMAIN past : /\ TraceOf(past[i])' = TraceOf(past[i])
                             /\ Traced(past[i])' <=> Traced(past[i])
  BY <1>1 DEF TraceOf, Traced
<1>5. TracesInv'
  BY <1>1, <1>3, <1>4 DEF DiagnosesInv, TracesInv
<1>6. LatencyDiagnosisTrue'
  BY <1>1 DEF DiagnosesInv, LatencyDiagnosisTrue, LatencyDiagnoses
<1> QED
  BY <1>2, <1>5, <1>6 DEF DiagnosesInv

\* No statement follows the last one of a build.
LEMMA StepsBeforeSuccess == BuildStep => pc # "succeeded"
<1> SUFFICES ASSUME BuildStep
             PROVE  pc # "succeeded"
  OBVIOUS
<1>1. CASE Prepare \/ BuildVit \/ BindVectors \/ BindGenaiVectors
  BY <1>1 DEF Prepare, BuildVit, BindVectors, BindGenaiVectors
<1>2. CASE PublishIndex
  BY <1>2 DEF PublishIndex, Publishable
<1>3. CASE GenaiNext
  BY <1>3 DEF GenaiNext, CheckContainer, BuildContainer, BuildOmni, DescribeSlices
<1>4. CASE \/ Start \/ ArConvert \/ Transform \/ BeginSlice \/ Convert \/ Structure
           \/ Vision
  BY <1>4 DEF Start, ArConvert, Transform, BeginSlice, Convert, Structure, Vision
<1>5. CASE Standalone \/ Authorise \/ Joint \/ Runtime \/ Compile \/ Diagnose
  BY <1>5 DEF Standalone, Authorise, Joint, Runtime, Compile, Diagnose
<1>6. CASE Publish
  BY <1>6 DEF Publish
<1> QED
  BY <1>1, <1>2, <1>3, <1>4, <1>5, <1>6 DEF BuildStep, BuildNext

\* The build is over when calls are made.
LEMMA DiagnosesBuild ==
    ASSUME DiagnosesInv, IdleInv', BuildStep \/ UNCHANGED stageVars, UNCHANGED callVars
    PROVE  DiagnosesInv'
<1>1. UNCHANGED <<call, phase, turn, drafts, shelf, past, called>>
  BY DEF callVars
<1>2. CASE UNCHANGED stageVars
  <2>1. Fanning' => turn' \in Seq(AllArs) /\ turn' # << >>
    <3>1. (Fanning' <=> Fanning) /\ AllArs' = AllArs
      BY <1>1, <1>2 DEF Fanning, FansOut, Automatic, RunsOnce, AllArs, stageVars, buildVars
    <3> QED
      BY <1>1, <3>1 DEF DiagnosesInv, CallsInv
  <2> QED
    BY <1>1, <1>2, <2>1, DiagnosesGoOn DEF Stays, DiagnosesInv, CallsInv
<1>3. CASE BuildStep
  <2>1. pc # "succeeded"
    BY <1>3, StepsBeforeSuccess
  <2>2. call = NoCall /\ phase = "idle"
    BY <2>1 DEF DiagnosesInv, CallsInv, IdleInv
  <2>3. CallsInv'
    BY <1>1, <2>2 DEF DiagnosesInv, CallsInv, Fanning
  <2>4. TraceOf(shelf)' = TraceOf(shelf) /\ (Traced(shelf)' <=> Traced(shelf))
    BY <1>1 DEF TraceOf, Traced
  <2>5. \A i \in DOMAIN past : /\ TraceOf(past[i])' = TraceOf(past[i])
                               /\ Traced(past[i])' <=> Traced(past[i])
    BY <1>1 DEF TraceOf, Traced
  <2>6. TracesInv'
    BY <1>1, <2>4, <2>5 DEF DiagnosesInv, TracesInv
  <2>7. LatencyDiagnosisTrue'
    BY <1>1 DEF DiagnosesInv, LatencyDiagnosisTrue, LatencyDiagnoses
  <2> QED
    BY <2>3, <2>6, <2>7 DEF DiagnosesInv
<1> QED
  BY <1>2, <1>3

LEMMA DiagnosesStep ==
    ProgressInv /\ DiagnosesInv /\ [StagesNext]_stagesVars => DiagnosesInv'
<1> SUFFICES ASSUME ProgressInv, DiagnosesInv, [StagesNext]_stagesVars
             PROVE  DiagnosesInv'
  OBVIOUS
<1>0. InLoops /\ IdleInv
  BY DEF ProgressInv, DiagnosesInv
<1>1. CASE UNCHANGED <<callVars, held>> /\ (BuildStep \/ UNCHANGED stageVars)
  <2>1. IdleInv'
    BY <1>0, <1>1 DEF IdleInv, callVars
  <2> QED
    BY <1>1, <2>1, DiagnosesBuild
<1>2. CASE ToolNext /\ UNCHANGED held
  BY <1>0, <1>2, IdleTools, DiagnosesTools
<1>3. CASE UNCHANGED stageVars /\ CallStage /\ UNCHANGED held
  <2>1. IdleInv'
    <3>1. call' # NoCall
      BY <1>3, NoCallAssumption DEF CallStage
    <3> QED
      BY <1>0, <1>3, <3>1 DEF IdleInv, CallStage
  <2> QED
    BY <1>3, <2>1, DiagnosesCall
<1>4. CASE UNCHANGED stageVars /\ ValidateNext /\ UNCHANGED held
  BY <1>0, <1>4, IdleValidate, DiagnosesValidate
<1>5. CASE UNCHANGED stageVars /\ BenchmarkNext
  BY <1>0, <1>5, IdleBenchmark, DiagnosesBenchmark
<1>6. CASE UNCHANGED stageVars /\ DiagnoseNext
  BY <1>0, <1>6, IdleDiagnose, DiagnosesDiagnose
<1> QED
  BY <1>1, <1>2, <1>3, <1>4, <1>5, <1>6 DEF StagesNext, stagesVars

\* Whatever was benchmarked before, with and without operator traces, for one AR or
\* for several, and whatever of it failed: the trace that a latency diagnosis
\* attributes was made with the latency it quotes, and a regression is claimed
\* against an earlier benchmark of the same graphs and steps only, however many
\* children have inherited the candidate's own trace.
THEOREM LatencyDiagnosesHold == StagesSpec => []LatencyDiagnosisTrue
<1>1. StagesInit => ProgressInv /\ DiagnosesInv
  BY ProgressInit, DiagnosesInit
<1>2. ProgressInv /\ DiagnosesInv /\ [StagesNext]_stagesVars
        => ProgressInv' /\ DiagnosesInv'
  BY ProgressStep, DiagnosesStep
<1>3. DiagnosesInv => LatencyDiagnosisTrue
  BY DEF DiagnosesInv
<1> QED
  BY <1>1, <1>2, <1>3, PTL DEF StagesSpec

-----------------------------------------------------------------------------
(* What a report on all ARs claims.                                        *)

\* An automatic call names a context length of the configuration, or none.
OwnContextLengths ==
    \A c \in Calls, s \in Specs :
        c.stage \in {"validate", "benchmark"} /\ c.form = "automatic" =>
            c.cl \in {0} \cup Range(s.cls)

\* Vectors are bound for one context length only.
VectorsInv ==
    /\ DOMAIN vectors # {} => Len(spec.cls) = 1
    /\ pc = "succeeded" =>
         /\ index.vectors = vectors
         /\ index.default.cl \in Range(spec.cls)
         /\ index.vision_model = FALSE

OfAValidation == {"bind", "reference", "execute", "report"}
OfABenchmark == {"select", "open", "measure", "meter", "trace"}

PhasesInv ==
    /\ phase \in OfAValidation => call.stage = "validate"
    /\ phase \in OfABenchmark => call.stage = "benchmark"
    /\ phase = "aggregate" => FansOut

\* The report on one AR of a call that fans out.
ReportName == IF call.stage = "validate" THEN "sqnr_report" ELSE "latency_report"

Executed(r, ar) ==
    /\ r.binding.ar = ar /\ r.vector.ar = ar
    /\ OwnContextLengths => \A cl \in Range(spec.cls) : r.binding.cl = cl

Reported(ar) ==
    /\ <<ReportName, ar>> \in DOMAIN drafts
    /\ 1 \in DOMAIN drafts[<<ReportName, ar>>].results
    /\ Executed(drafts[<<ReportName, ar>>].results[1], ar)

\* A call that fans out has one context length to execute; an AR has a report, or
\* its turn will come.
FanInv ==
    Fanning =>
        /\ Len(spec.cls) = 1
        /\ \A ar \in AllArs :
             \/ Reported(ar)
             \/ phase # "aggregate" /\ \E i \in DOMAIN turn : turn[i] = ar

\* What the work on the current AR is about, once it has a binding: graphs of
\* this AR, and when they have been executed, with a vector that fits them.
WithBinding == (OfAValidation \cup OfABenchmark) \ {"bind", "select"}

Works(p, w) ==
    /\ "binding" \in DOMAIN w /\ w.binding.ar = Head(turn)
    /\ OwnContextLengths => \A cl \in Range(spec.cls) : w.binding.cl = cl
    /\ p # "reference" => "vector" \in DOMAIN w /\ w.vector # NoManifest
    /\ p \in {"report", "meter", "trace"} => w.vector.ar = Head(turn)

WorkInv == Fanning /\ phase \in WithBinding => Works(phase, work)

OnReports == {"sqnr_report", "latency_report"}

DraftsInv == \A n \in DOMAIN drafts : n[1] \in OnReports => drafts[n].kind = "one"

ClaimsInv ==
    /\ VectorsInv /\ PhasesInv /\ FanInv /\ WorkInv /\ DraftsInv
    /\ OwnContextLengths => ClaimsExecuted

LEMMA ClaimsInit == StagesInit => ClaimsInv
<1> SUFFICES ASSUME StagesInit
             PROVE  ClaimsInv
  OBVIOUS
<1>1. /\ phase = "idle" /\ drafts = << >> /\ shelf = << >>
      /\ pc = "prepare" /\ vectors = << >>
  BY DEF StagesInit, CallInit, Init, BuildInit
<1>2. VectorsInv
  BY <1>1 DEF VectorsInv
<1>3. PhasesInv /\ FanInv /\ WorkInv
  BY <1>1 DEF PhasesInv, FanInv, WorkInv, Fanning, OfAValidation, OfABenchmark
<1>4. DraftsInv /\ ClaimsExecuted
  BY <1>1 DEF DraftsInv, ClaimsExecuted
<1> QED
  BY <1>2, <1>3, <1>4 DEF ClaimsInv

\* A build succeeds when its index is published.
LEMMA SuccessPublishes ==
    ASSUME BuildStep, ~PublishIndex
    PROVE  pc' # "succeeded" /\ spec' = spec
<1>1. CASE BindVectors \/ BindGenaiVectors
  BY <1>1 DEF BindVectors, BindGenaiVectors, Refuses, Raise
<1>2. CASE Prepare \/ BuildVit
  BY <1>2 DEF Prepare, BuildVit, Call, Makes, Fails, Refuses, Raise
<1>3. CASE GenaiNext /\ UNCHANGED <<vectors, index>>
  BY <1>3 DEF GenaiNext, CheckContainer, BuildContainer, BuildOmni, DescribeSlices,
              Makes, Fails, Refuses, Raise
<1>4. CASE BuildNext /\ UNCHANGED <<genaiVars, vectors, index>>
  <2>1. spec' = spec
    BY <1>4 DEF BuildNext, Start, ArConvert, Transform, BeginSlice, Convert, Structure,
           Standalone, Authorise, Joint, Runtime, Compile, Diagnose, Publish, Vision,
           CompileSlice, CompileContext, Call, Makes, Fails, Refuses, Raise
  <2>2. CASE Start \/ Vision
    BY <2>1, <2>2 DEF Start, Vision, Call, Fails, Refuses, Raise
  <2>3. CASE ArConvert \/ Transform \/ Convert
    BY <2>1, <2>3 DEF ArConvert, Transform, Convert, Call, Fails, Refuses, Raise,
                      ForEachAr
  <2>4. CASE BeginSlice \/ Publish
    BY <2>1, <2>4 DEF BeginSlice, Publish, NextSlice
  <2>5. CASE Structure \/ Authorise \/ Runtime
    BY <2>1, <2>5 DEF Structure, Authorise, Runtime, Fails, Refuses, Raise
  <2>6. CASE Standalone \/ Joint \/ Compile \/ Diagnose
    BY <2>1, <2>6 DEF Standalone, Joint, Compile, Diagnose, CompileSlice, CompileContext,
                      Call, Fails, Refuses, Raise, ForEachAr
  <2> QED
    BY <1>4, <2>2, <2>3, <2>4, <2>5, <2>6 DEF BuildNext
<1> QED
  BY <1>1, <1>2, <1>3, <1>4 DEF BuildStep

\* Binding vectors is where a second context length is refused, and publishing the
\* index is the last step of a build.
LEMMA VectorsBuild ==
    ASSUME InLoops, VectorsInv, BuildStep
    PROVE  VectorsInv'
<1>1. CASE PublishIndex
  <2>1. /\ index'.vectors = vectors /\ index'.default = Default
        /\ index'.vision_model = Result.vision_model
    BY <1>1 DEF PublishIndex, MakeIndex
  <2>2. Result.vision_model = FALSE
    BY DEF Result
  <2>3. Default.cl \in Range(spec.cls)
    <3>1. spec.cls \in Seq(Nat \ {0}) /\ Len(spec.cls) \in Nat /\ Len(spec.cls) # 0
      BY Configured DEF InLoops
    <3> QED
      BY <3>1 DEF Default, Range
  <2>4. spec' = spec /\ vectors' = vectors
    BY <1>1 DEF PublishIndex
  <2> QED
    BY <2>1, <2>2, <2>3, <2>4 DEF VectorsInv
<1>2. CASE ~PublishIndex
  <2>1. pc' # "succeeded" /\ spec' = spec
    BY <1>2, SuccessPublishes
  <2>2. CASE BindVectors
    BY <2>1, <2>2 DEF BindVectors, Refuses, Raise, VectorsInv
  <2>3. CASE BindGenaiVectors
    BY <2>1, <2>3 DEF BindGenaiVectors, Refuses, Raise, VectorsInv
  <2>4. CASE ~(BindVectors \/ BindGenaiVectors)
    <3>1. vectors' = vectors
      BY <1>2, <2>4 DEF BuildStep, Prepare, BuildVit
    <3> QED
      BY <2>1, <3>1 DEF VectorsInv
  <2> QED
    BY <2>2, <2>3, <2>4
<1> QED
  BY <1>1, <1>2

\* The end of a call, and a step that changes neither the build nor its index.
LEMMA ClaimsEnd ==
    ASSUME ClaimsInv, UNCHANGED <<spec, pc, vectors, index>>, NEW how, End(how),
           OwnContextLengths => ClaimsExecuted'
    PROVE  ClaimsInv'
<1>1. phase' = "idle" /\ drafts' = << >>
  BY DEF End
<1>2. VectorsInv'
  BY DEF ClaimsInv, VectorsInv
<1>3. PhasesInv' /\ FanInv' /\ WorkInv'
  BY <1>1 DEF PhasesInv, FanInv, WorkInv, Fanning, OfAValidation, OfABenchmark
<1>4. DraftsInv'
  BY <1>1 DEF DraftsInv
<1> QED
  BY <1>2, <1>3, <1>4 DEF ClaimsInv

LEMMA ClaimsRefuse ==
    ASSUME ClaimsInv, UNCHANGED <<spec, pc, vectors, index>>, RefuseCall \/ FailCall
    PROVE  ClaimsInv'
<1>1. PICK how : End(how) /\ shelf' = shelf
  BY DEF RefuseCall, FailCall
<1>2. OwnContextLengths => ClaimsExecuted'
  BY <1>1 DEF ClaimsInv, ClaimsExecuted
<1> QED
  BY <1>1, <1>2, ClaimsEnd

\* What a report on all ARs claims is so.
Claims(report) ==
    OwnContextLengths /\ report.kind = "all" =>
        \A ar \in report.ars, cl \in report.cls :
            \E r \in Elements(report.results) :
                r.binding.ar = ar /\ r.binding.cl = cl /\ r.vector.ar = ar

Claimed(artifacts) ==
    \A n \in DOMAIN artifacts : n[1] \in OnReports => Claims(artifacts[n])

LEMMA ClaimsPublish ==
    ASSUME ClaimsInv, UNCHANGED <<spec, pc, vectors, index>>,
           NEW artifacts, EndCall(artifacts), Claimed(artifacts)
    PROVE  ClaimsInv'
<1>1. End("done") /\ shelf' = Over(artifacts, shelf)
  BY DEF EndCall
<1>2. Claimed(shelf)
  BY DEF ClaimsInv, ClaimsExecuted, Claimed, Claims, OnReports
<1>3. /\ DOMAIN shelf' = DOMAIN artifacts \cup DOMAIN shelf
      /\ \A n \in DOMAIN shelf' : shelf'[n] = IF n \in DOMAIN artifacts
                                              THEN artifacts[n] ELSE shelf[n]
  BY <1>1 DEF Over
<1>4. Claimed(shelf')
  BY <1>2, <1>3 DEF Claimed
<1>5. OwnContextLengths => ClaimsExecuted'
  BY <1>4 DEF ClaimsExecuted, Claimed, Claims, OnReports
<1> QED
  BY <1>1, <1>5, ClaimsEnd

LEMMA OtherReport ==
    ASSUME NEW kind, NEW n, NEW artifact, kind \notin OnReports
    PROVE  Claimed(Artifact(<<kind, n>>, artifact))
<1>1. DOMAIN Artifact(<<kind, n>>, artifact) = {<<kind, n>>}
  BY DEF Artifact
<1> QED
  BY <1>1 DEF Claimed

LEMMA ClaimedMerge ==
    ASSUME NEW a, NEW b, Claimed(a), Claimed(b)
    PROVE  Claimed(Over(a, b))
<1>1. /\ DOMAIN Over(a, b) = DOMAIN a \cup DOMAIN b
      /\ \A n \in DOMAIN Over(a, b) :
            Over(a, b)[n] = IF n \in DOMAIN a THEN a[n] ELSE b[n]
  BY DEF Over
<1> QED
  BY <1>1 DEF Claimed

LEMMA ClaimedDrafts ==
    ASSUME ClaimsInv
    PROVE  Claimed(drafts)
  BY DEF ClaimsInv, DraftsInv, Claimed, Claims

\* The reports on all ARs together.
LEMMA ClaimedTogether ==
    ASSUME ClaimsInv, DiagnosesInv, InLoops, phase = "aggregate",
           NEW one,
           \A i \in DOMAIN spec.ars :
             /\ i \in DOMAIN one
             /\ one[i] = drafts[<<ReportName, spec.ars[i]>>].results[1],
           NEW report, report.ars = AllArs, report.cls = Range(spec.cls),
           report.results = one
    PROVE  Claims(report)
<1>1. Fanning
  BY DEF ClaimsInv, PhasesInv, Fanning
<1>2. \A ar \in AllArs : Reported(ar)
  BY <1>1 DEF ClaimsInv, FanInv
<1> SUFFICES ASSUME OwnContextLengths, NEW ar \in AllArs, NEW cl \in Range(spec.cls)
             PROVE  \E r \in Elements(one) :
                       r.binding.ar = ar /\ r.binding.cl = cl /\ r.vector.ar = ar
  BY DEF Claims
<1>3. PICK i \in DOMAIN spec.ars : spec.ars[i] = ar
  <2>1. spec.ars \in Seq(Nat \ {0}) /\ AllArs = {spec.ars[i] : i \in 1 .. Len(spec.ars)}
    BY Configured
  <2>2. DOMAIN spec.ars = 1 .. Len(spec.ars)
    BY <2>1
  <2> QED
    BY <2>1, <2>2
<1>4. one[i] \in Elements(one)
  BY DEF Elements
<1>5. Executed(one[i], ar)
  BY <1>2, <1>3 DEF Reported
<1>6. one[i].binding.ar = ar /\ one[i].binding.cl = cl /\ one[i].vector.ar = ar
  BY <1>5 DEF Executed
<1> QED
  BY <1>4, <1>6

-----------------------------------------------------------------------------
\* A call goes on: whether it fans out, and under which names, stays the same.
LEMMA FanStays ==
    ASSUME UNCHANGED stageVars, Stays
    PROVE  /\ UNCHANGED <<spec, pc, vectors, index>>
           /\ FansOut' = FansOut /\ AllArs' = AllArs /\ ReportName' = ReportName
<1>1. UNCHANGED <<spec, pc, vectors, index>> /\ call' = call
  BY DEF stageVars, buildVars, Stays
<1> QED
  BY <1>1 DEF FansOut, Automatic, RunsOnce, AllArs, ReportName

LEMMA ClaimsProceed ==
    ASSUME ClaimsInv, UNCHANGED stageVars, NEW next, NEW results, Proceed(next, results),
           \/ next \in {"compare", "diagnose"}
           \/ /\ phase \notin {"idle", "called", "compare", "diagnose"}
              /\ next \in WithBinding
              /\ next \in OfAValidation => phase \in OfAValidation
              /\ next \in OfABenchmark => phase \in OfABenchmark
              /\ FansOut => Works(next, results)
    PROVE  ClaimsInv'
<1>1. /\ phase' = next /\ work' = results /\ Stays
      /\ UNCHANGED <<call, turn, drafts, shelf>>
  BY DEF Proceed, Stays
<1>2. /\ UNCHANGED <<spec, pc, vectors, index>>
      /\ FansOut' = FansOut /\ AllArs' = AllArs /\ ReportName' = ReportName
  BY <1>1, FanStays
<1>3. next # "aggregate"
  BY DEF WithBinding, OfAValidation, OfABenchmark
<1>4. VectorsInv' /\ DraftsInv' /\ (OwnContextLengths => ClaimsExecuted')
  BY <1>1, <1>2 DEF ClaimsInv, VectorsInv, DraftsInv, ClaimsExecuted
<1>5. PhasesInv'
  BY <1>1, <1>3 DEF ClaimsInv, PhasesInv, OfAValidation, OfABenchmark
<1>6. CASE next \in {"compare", "diagnose"}
  <2>1. ~Fanning'
    BY <1>1, <1>6 DEF Fanning
  <2> QED
    BY <1>4, <1>5, <2>1 DEF ClaimsInv, FanInv, WorkInv
<1>7. CASE next \notin {"compare", "diagnose"}
  <2>1. Fanning' => Fanning
    BY <1>2, <1>7 DEF Fanning
  <2>2. \A ar : Reported(ar)' <=> Reported(ar)
    BY <1>1, <1>2 DEF Reported, Executed
  <2>3. FanInv'
    BY <1>1, <1>2, <1>3, <2>1, <2>2 DEF ClaimsInv, FanInv
  <2>4. WorkInv'
    <3>1. Works(next, results)' <=> Works(next, results)
      BY <1>1, <1>2 DEF Works
    <3>2. Fanning' => Works(next, results)
      BY <1>2, <1>7 DEF Fanning
    <3> QED
      BY <1>1, <3>1, <3>2 DEF WorkInv, Works
  <2> QED
    BY <1>4, <1>5, <2>3, <2>4 DEF ClaimsInv
<1> QED
  BY <1>6, <1>7

\* The report on an AR is published, and another AR has its turn.
LEMMA ClaimsNextAr ==
    ASSUME ClaimsInv, DiagnosesInv, UNCHANGED stageVars, NEW artifacts, NEW first,
           NextAr(artifacts, first, "aggregate"),
           \/ phase \in OfAValidation /\ first = "bind"
           \/ phase \in OfABenchmark /\ first = "select",
           \A n \in DOMAIN artifacts :
             n[1] \in OnReports => artifacts[n].kind = "one" /\ n = <<ReportName, Suffix>>,
           FansOut => /\ <<ReportName, Suffix>> \in DOMAIN artifacts
                      /\ 1 \in DOMAIN artifacts[<<ReportName, Suffix>>].results
                      /\ Executed(artifacts[<<ReportName, Suffix>>].results[1], Suffix)
    PROVE  ClaimsInv'
<1>0. UNCHANGED <<spec, pc, vectors, index>>
  BY DEF stageVars, buildVars
<1>1. CASE ~FansOut
  <2>1. EndCall(artifacts)
    BY <1>1 DEF NextAr
  <2>2. Claimed(artifacts)
    BY DEF Claimed, Claims
  <2> QED
    BY <1>0, <2>1, <2>2, ClaimsPublish
<1>2. CASE FansOut
  <2>1. /\ drafts' = Over(artifacts, drafts) /\ Stays
        /\ UNCHANGED <<call, shelf>>
        /\ \/ Len(turn) > 1 /\ turn' = Tail(turn) /\ phase' = first
           \/ ~(Len(turn) > 1) /\ turn' = turn /\ phase' = "aggregate"
    BY <1>2 DEF NextAr, Stays
  <2>2. FansOut' = FansOut /\ AllArs' = AllArs /\ ReportName' = ReportName
    BY <2>1, FanStays
  <2>3. /\ DOMAIN drafts' = DOMAIN artifacts \cup DOMAIN drafts
        /\ \A n \in DOMAIN drafts' : drafts'[n] = IF n \in DOMAIN artifacts
                                                  THEN artifacts[n] ELSE drafts[n]
    BY <2>1 DEF Over
  <2>4. Fanning /\ phase # "aggregate"
    BY <1>2 DEF Fanning, OfAValidation, OfABenchmark
  <2>5. turn \in Seq(AllArs) /\ turn # << >> /\ Suffix = Head(turn)
    BY <1>2, <2>4 DEF DiagnosesInv, CallsInv, Suffix
  <2>6. /\ Len(turn) \in Nat /\ Len(turn) >= 1 /\ DOMAIN turn = 1 .. Len(turn)
        /\ Head(turn) = turn[1]
    BY <2>5
  <2>7. VectorsInv' /\ (OwnContextLengths => ClaimsExecuted')
    BY <1>0, <2>1 DEF ClaimsInv, VectorsInv, ClaimsExecuted
  <2>8. DraftsInv'
    BY <2>3 DEF ClaimsInv, DraftsInv
  <2>9. PhasesInv'
    BY <1>2, <2>1, <2>2 DEF ClaimsInv, PhasesInv, OfAValidation, OfABenchmark
  <2>10. WorkInv'
    BY <2>1 DEF WorkInv, WithBinding, OfAValidation, OfABenchmark
  <2>11. ReportName \in OnReports
    BY DEF ReportName, OnReports
  <2> PICK h : h = Head(turn)
    OBVIOUS
  <2>12. Reported(h)'
    <3>1. drafts'[<<ReportName, Suffix>>] = artifacts[<<ReportName, Suffix>>]
      BY <1>2, <2>3
    <3> QED
      BY <1>0, <1>2, <2>2, <2>3, <2>5, <3>1 DEF Reported, Executed
  <2>13. ASSUME NEW ar, Reported(ar)
         PROVE  Reported(ar)'
    <3>1. CASE ar = h
      BY <2>12, <3>1
    <3>2. CASE ar # h
      <4>1. <<ReportName, ar>> \notin DOMAIN artifacts
        <5>1. <<ReportName, ar>> # <<ReportName, Suffix>> /\ <<ReportName, ar>>[1] = ReportName
          BY <2>5, <3>2
        <5> QED
          BY <2>11, <5>1
      <4>2. drafts'[<<ReportName, ar>>] = drafts[<<ReportName, ar>>]
        BY <2>3, <2>13, <4>1 DEF Reported
      <4> QED
        BY <1>0, <2>2, <2>3, <2>13, <4>2 DEF Reported, Executed
    <3> QED
      BY <3>1, <3>2
  <2>14. ASSUME NEW ar \in AllArs
         PROVE  \/ Reported(ar)'
                \/ phase' # "aggregate" /\ \E i \in DOMAIN turn' : turn'[i] = ar
    <3>1. CASE Reported(ar)
      BY <2>13, <3>1
    <3>2. CASE ~Reported(ar)
      <4>1. PICK i \in DOMAIN turn : turn[i] = ar
        BY <2>4, <3>2 DEF ClaimsInv, FanInv
      <4>2. CASE i = 1
        BY <2>6, <2>12, <4>1, <4>2
      <4>3. CASE i # 1
        <5>1. Len(turn) > 1 /\ i - 1 \in 1 .. Len(turn) - 1
          BY <2>6, <4>3
        <5>2. turn' = Tail(turn) /\ phase' = first
          BY <2>1, <5>1
        <5>3. Len(Tail(turn)) = Len(turn) - 1 /\ Tail(turn)[i - 1] = turn[i]
          BY <2>5, <2>6, <5>1
        <5>4. i - 1 \in DOMAIN turn'
          <6>1. Tail(turn) \in Seq(AllArs)
            BY <2>5
          <6> QED
            BY <5>1, <5>2, <5>3, <6>1
        <5>5. first # "aggregate"
          OBVIOUS
        <5> QED
          BY <4>1, <5>2, <5>3, <5>4, <5>5
      <4> QED
        BY <4>2, <4>3
    <3> QED
      BY <3>1, <3>2
  <2>15. FanInv'
    BY <1>0, <2>2, <2>4, <2>14 DEF ClaimsInv, FanInv
  <2> QED
    BY <2>7, <2>8, <2>9, <2>10, <2>15 DEF ClaimsInv
<1> QED
  BY <1>1, <1>2

LEMMA ClaimsStarts ==
    ASSUME ClaimsInv, DiagnosesInv, InLoops, UNCHANGED stageVars,
           NEW stage, NEW first, Starts(stage, first),
           \/ stage = "validate" /\ first = "bind"
           \/ stage = "benchmark" /\ first = "select"
    PROVE  ClaimsInv'
<1>0. UNCHANGED <<spec, pc, vectors, index>>
  BY DEF stageVars, buildVars
<1>1. CASE RefuseCall
  BY <1>0, <1>1, ClaimsRefuse
<1>2. CASE ~RefuseCall
  <2>1. /\ Stays /\ UNCHANGED <<call, shelf, drafts>> /\ phase' = first
        /\ phase = "called" /\ call.stage = stage
        /\ turn' = IF FansOut THEN spec.ars ELSE <<call.ar>>
        /\ FansOut => \A ar \in AllArs : ar \in DOMAIN index.vectors
    BY <1>2 DEF Starts, Stays
  <2>2. FansOut' = FansOut /\ AllArs' = AllArs /\ ReportName' = ReportName
    BY <2>1, FanStays
  <2>3. VectorsInv' /\ DraftsInv' /\ (OwnContextLengths => ClaimsExecuted')
    BY <1>0, <2>1 DEF ClaimsInv, VectorsInv, DraftsInv, ClaimsExecuted
  <2>4. PhasesInv'
    BY <2>1 DEF PhasesInv, OfAValidation, OfABenchmark
  <2>5. WorkInv'
    BY <2>1 DEF WorkInv, WithBinding, OfAValidation, OfABenchmark
  <2>6. FanInv'
    <3> SUFFICES ASSUME FansOut
                 PROVE  /\ Len(spec.cls)' = 1
                        /\ \A ar \in AllArs' :
                             phase' # "aggregate" /\ \E i \in DOMAIN turn' : turn'[i] = ar
      BY <2>2 DEF FanInv, Fanning
    <3>1. pc = "succeeded"
      BY <2>1 DEF DiagnosesInv, CallsInv, IdleInv
    <3>2. DOMAIN vectors # {}
      <4>1. Ar \in DOMAIN index.vectors
        BY <2>1, Configured
      <4> QED
        BY <3>1, <4>1 DEF ClaimsInv, VectorsInv
    <3>3. Len(spec.cls)' = 1
      BY <1>0, <3>2 DEF ClaimsInv, VectorsInv
    <3>4. \A ar \in AllArs : \E i \in DOMAIN spec.ars : spec.ars[i] = ar
      BY Configured
    <3> QED
      BY <2>1, <2>2, <3>3, <3>4
  <2> QED
    BY <2>3, <2>4, <2>5, <2>6 DEF ClaimsInv
<1> QED
  BY <1>1, <1>2
\* What is selected is graphs of the AR and context length that are asked for.
LEMMA Selected ==
    ASSUME NEW x, NEW ar, NEW cl, NEW component, x.vision_model = FALSE,
           SelectBinding(x, ar, cl, component) # NotSelectable
    PROVE  /\ SelectBinding(x, ar, cl, component).ar = ar
           /\ SelectBinding(x, ar, cl, component).cl = cl
<1>1. ASSUME NEW routes, Chain(routes, cl, ar, component) # NotSelectable
      PROVE  /\ Chain(routes, cl, ar, component).ar = ar
             /\ Chain(routes, cl, ar, component).cl = cl
  BY <1>1 DEF Chain
<1>2. ASSUME NEW slice
      PROVE  /\ Graph(slice, cl, ar, component).ar = ar
             /\ Graph(slice, cl, ar, component).cl = cl
  BY DEF Graph
<1>3. SelectVision(x, cl) = NotSelectable
  BY DEF SelectVision
<1>4. SelectGraph(x, cl, ar, component) # NotSelectable =>
        /\ SelectGraph(x, cl, ar, component).ar = ar
        /\ SelectGraph(x, cl, ar, component).cl = cl
  <2>1. \/ SelectGraph(x, cl, ar, component) = NotSelectable
        \/ \E slice : SelectGraph(x, cl, ar, component) = Graph(slice, cl, ar, component)
    BY DEF SelectGraph
  <2> QED
    BY <1>2, <2>1
<1>5. \/ SelectBinding(x, ar, cl, component)
           = [scope |-> "container", routes |-> << >>, ar |-> ar, cl |-> cl,
              component |-> component]
      \/ \E routes : SelectBinding(x, ar, cl, component) = Chain(routes, cl, ar, component)
      \/ SelectBinding(x, ar, cl, component) = SelectGraph(x, cl, ar, component)
  BY <1>3 DEF SelectBinding
<1> QED
  BY <1>1, <1>4, <1>5

LEMMA FanningAr ==
    ASSUME InLoops, DiagnosesInv, Fanning
    PROVE  Head(turn) \in AllArs \ {0}
<1>1. turn \in Seq(AllArs) /\ turn # << >>
  BY DEF DiagnosesInv, CallsInv
<1>2. Head(turn) \in AllArs
  BY <1>1, HeadTailProperties
<1>3. 0 \notin AllArs
  BY Configured
<1> QED
  BY <1>2, <1>3

\* A call that fans out executes graphs of the current AR and of the only context
\* length.
LEMMA BindingExecutes ==
    ASSUME InLoops, DiagnosesInv, ClaimsInv, FansOut,
           phase \in OfAValidation \cup OfABenchmark, Binding # NotSelectable
    PROVE  /\ Head(turn) \in AllArs \ {0}
           /\ Binding.ar = Head(turn)
           /\ OwnContextLengths => \A cl \in Range(spec.cls) : Binding.cl = cl
<1>1. Fanning /\ Automatic
  BY DEF Fanning, OfAValidation, OfABenchmark, FansOut
<1>2. Head(turn) \in AllArs \ {0}
  BY <1>1, FanningAr
<1>3. call # NoCall
  BY <1>1 DEF DiagnosesInv, IdleInv, Fanning
<1>4. call \in Calls /\ pc = "succeeded" /\ spec \in Specs
  BY <1>3 DEF DiagnosesInv, CallsInv, InLoops
<1>5. OwnContextLengths => call.cl \in {0} \cup Range(spec.cls)
  <2>1. call.stage \in {"validate", "benchmark"}
    BY DEF ClaimsInv, PhasesInv
  <2> QED
    BY <1>1, <1>4, <2>1 DEF OwnContextLengths, Automatic
<1>6. index.default.cl \in Range(spec.cls) /\ index.vision_model = FALSE
  BY <1>4 DEF ClaimsInv, VectorsInv
<1> DEFINE c == IF call.cl = 0 THEN index.default.cl ELSE call.cl
<1>7. OwnContextLengths => c \in Range(spec.cls)
  BY <1>5, <1>6
<1>8. OwnContextLengths => \A cl \in Range(spec.cls) : cl = c
  <2>1. Len(spec.cls) = 1
    BY <1>1 DEF ClaimsInv, FanInv
  <2>2. Range(spec.cls) = {spec.cls[1]}
    <3>1. DOMAIN spec.cls = 1 .. 1
      BY <2>1, Configured
    <3> QED
      BY <3>1 DEF Range
  <2> QED
    BY <1>7, <2>2
<1>9. Binding = SelectBinding(index, Head(turn), c, call.component)
  BY <1>1, <1>2 DEF Binding
<1> HIDE DEF c
<1>10. Binding.ar = Head(turn) /\ Binding.cl = c
  <2>1. SelectBinding(index, Head(turn), c, call.component) # NotSelectable
    BY <1>9
  <2>2. index.vision_model = FALSE
    BY <1>6
  <2>3. /\ SelectBinding(index, Head(turn), c, call.component).ar = Head(turn)
        /\ SelectBinding(index, Head(turn), c, call.component).cl = c
    BY <2>1, <2>2, Selected
  <2> QED
    BY <1>9, <2>3
<1> QED
  BY <1>2, <1>8, <1>10

\* A report on one AR has the graphs and the vector that were executed for it.
LEMMA ClaimsValidate ==
    ASSUME ClaimsInv, DiagnosesInv, InLoops, UNCHANGED stageVars, ValidateNext
    PROVE  ClaimsInv'
<1>0. UNCHANGED <<spec, pc, vectors, index>>
  BY DEF stageVars, buildVars
<1>1. CASE RefuseCall \/ FailCall
  BY <1>0, <1>1, ClaimsRefuse
<1>2. CASE BeginValidate
  BY <1>2, ClaimsStarts DEF BeginValidate
<1>3. CASE BindValidate
  <2>1. phase = "bind"
    BY <1>3 DEF BindValidate
  <2>2. ASSUME NEW b, Proceed("reference", [binding |-> b]),
               FansOut => b = Binding /\ Executable(Binding)
        PROVE  ClaimsInv'
    <3>1. FansOut => Works("reference", [binding |-> b])
      <4> SUFFICES ASSUME FansOut
                   PROVE  Works("reference", [binding |-> b])
        OBVIOUS
      <4>1. b = Binding /\ Binding # NotSelectable
        BY <2>2 DEF Executable
      <4>2. /\ b.ar = Head(turn)
            /\ OwnContextLengths => \A cl \in Range(spec.cls) : b.cl = cl
        BY <2>1, <4>1, BindingExecutes DEF OfAValidation
      <4> QED
        BY <4>2 DEF Works
    <3> QED
      BY <2>1, <2>2, <3>1, ClaimsProceed DEF WithBinding, OfAValidation, OfABenchmark
  <2>3. FansOut => call.form # "outputs"
    BY DEF FansOut, Automatic
  <2> QED
    BY <1>1, <1>3, <2>2, <2>3 DEF BindValidate
<1>4. CASE PrepareReferences
  <2>1. phase = "reference"
    BY <1>4 DEF PrepareReferences
  <2>2. CASE RefuseCall \/ FailCall
    BY <1>1, <2>2
  <2>3. CASE ~(RefuseCall \/ FailCall)
    <3>1. PICK next, w :
             /\ Proceed(next, w)
             /\ next = IF call.form = "outputs" THEN "report" ELSE "execute"
             /\ {"binding", "vector"} \subseteq DOMAIN w
             /\ w.binding = work.binding /\ w.vector # NoManifest
      BY <1>4, <2>3 DEF PrepareReferences
    <3>2. FansOut => Works(next, w)
      <4> SUFFICES ASSUME FansOut
                   PROVE  Works(next, w)
        OBVIOUS
      <4>1. Fanning /\ next = "execute"
        BY <2>1, <3>1 DEF Fanning, FansOut, Automatic
      <4>2. Works("reference", work)
        BY <2>1, <4>1 DEF ClaimsInv, WorkInv, WithBinding, OfAValidation, OfABenchmark
      <4> QED
        BY <3>1, <4>1, <4>2 DEF Works
    <3> QED
      BY <2>1, <3>1, <3>2, ClaimsProceed DEF WithBinding, OfAValidation, OfABenchmark
  <2> QED
    BY <2>2, <2>3
<1>5. CASE ExecuteModes
  <2>1. phase = "execute"
    BY <1>5, Zenon DEF ExecuteModes
  <2>2. CASE RefuseCall \/ FailCall
    BY <1>1, <2>2
  <2>3. CASE ~(RefuseCall \/ FailCall)
    <3>0. PICK noisy, device, chain, teacher, tapped :
             /\ Proceed("report", [work EXCEPT !.noisy = noisy, !.device = device,
                                     !.chain = chain, !.teacher = teacher,
                                     !.tapped = tapped])
             /\ work.vector.ar = ExecutedAr(work.binding)
      BY <1>5, <2>3, ZenonT(60) DEF ExecuteModes
    <3> PICK w : w = [work EXCEPT !.noisy = noisy, !.device = device, !.chain = chain,
                                   !.teacher = teacher, !.tapped = tapped]
      OBVIOUS
    <3>1. /\ Proceed("report", w) /\ work.vector.ar = ExecutedAr(work.binding)
          /\ DOMAIN w = DOMAIN work
          /\ "binding" \in DOMAIN work => w.binding = work.binding
          /\ "vector" \in DOMAIN work => w.vector = work.vector
      <4>1. Proceed("report", w) /\ work.vector.ar = ExecutedAr(work.binding)
        BY <3>0
      <4>2. /\ DOMAIN w = DOMAIN work
            /\ "binding" \in DOMAIN work => w.binding = work.binding
            /\ "vector" \in DOMAIN work => w.vector = work.vector
        OBVIOUS
      <4> QED
        BY <4>1, <4>2
    <3>2. FansOut => Works("report", w)
      <4> SUFFICES ASSUME FansOut
                   PROVE  Works("report", w)
        OBVIOUS
      <4>1. Fanning
        BY <2>1 DEF Fanning
      <4>2. Works("execute", work)
        BY <2>1, <4>1 DEF ClaimsInv, WorkInv, WithBinding, OfAValidation, OfABenchmark
      <4>3. w.binding.ar = Head(turn) /\ work.binding.ar = Head(turn)
        BY <3>1, <4>2 DEF Works
      <4>4. Head(turn) # 0
        BY <4>1, FanningAr
      <4>5. w.vector.ar = Head(turn)
        BY <3>1, <4>2, <4>3, <4>4 DEF Works, ExecutedAr
      <4> QED
        BY <3>1, <4>2, <4>3, <4>5 DEF Works
    <3> QED
      BY <2>1, <3>1, <3>2, ClaimsProceed DEF WithBinding, OfAValidation, OfABenchmark
  <2> QED
    BY <2>2, <2>3
<1>6. CASE PublishReport
  <2>1. phase = "report" /\ call.stage = "validate"
    BY <1>6 DEF PublishReport, ClaimsInv, PhasesInv, OfAValidation
  <2>2. CASE RefuseCall \/ FailCall
    BY <1>1, <2>2
  <2>3. CASE NextAr(Reports, "bind", "aggregate")
    <3>1. \A n \in DOMAIN Reports : n[1] \in OnReports =>
             /\ n = <<"sqnr_report", Suffix>>
             /\ Reports[n] = [kind |-> "one", results |-> <<Report>>]
      BY DEF Reports, References, Over, Artifact, Name, OnReports
    <3>2. <<"sqnr_report", Suffix>> \in DOMAIN Reports
      BY DEF Reports, Over, Artifact, Name
    <3>3. /\ Reports[<<"sqnr_report", Suffix>>].kind = "one"
          /\ 1 \in DOMAIN Reports[<<"sqnr_report", Suffix>>].results
          /\ Reports[<<"sqnr_report", Suffix>>].results[1] = Report
      <4>1. <<"sqnr_report", Suffix>>[1] \in OnReports
        BY DEF OnReports
      <4> QED
        BY <3>1, <3>2, <4>1
    <3>4. Report.binding = work.binding /\ Report.vector = work.vector
      BY DEF Report
    <3>5. FansOut => Executed(Report, Suffix)
      <4> SUFFICES ASSUME FansOut
                   PROVE  Executed(Report, Suffix)
        OBVIOUS
      <4>1. Fanning
        BY <2>1 DEF Fanning
      <4>2. Works("report", work)
        BY <2>1, <4>1 DEF ClaimsInv, WorkInv, WithBinding, OfAValidation, OfABenchmark
      <4> QED
        BY <3>4, <4>2 DEF Works, Executed, Suffix
    <3>6. ReportName = "sqnr_report"
      BY <2>1 DEF ReportName
    <3> QED
      BY <2>1, <2>3, <3>1, <3>2, <3>3, <3>5, <3>6, ClaimsNextAr DEF OfAValidation
  <2> QED
    BY <1>6, <2>2, <2>3 DEF PublishReport
<1>7. CASE PublishAggregate
  <2> DEFINE one == [i \in DOMAIN spec.ars |->
                       drafts[<<"sqnr_report", spec.ars[i]>>].results[1]]
             all == [kind |-> "all", results |-> one,
                     ars |-> AllArs, cls |-> Range(spec.cls),
                     diverged |-> \E i \in DOMAIN one :
                        one[i].top.teacher \cup one[i].top.chain # {}]
  <2>0. phase = "aggregate" /\ call.stage = "validate"
    BY <1>7, Zenon DEF PublishAggregate
  <2>1. EndCall(Over(Artifact(<<"sqnr_report", 0>>, all), drafts))
    BY <1>7, Zenon DEF PublishAggregate
  <2>2. all.ars = AllArs /\ all.cls = Range(spec.cls) /\ all.results = one
    OBVIOUS
  <2>3. \A i \in DOMAIN spec.ars :
           i \in DOMAIN one /\ one[i] = drafts[<<ReportName, spec.ars[i]>>].results[1]
    <3>1. ReportName = "sqnr_report"
      BY <2>0 DEF ReportName
    <3> QED
      BY <3>1
  <2> HIDE DEF one, all
  <2>4. Claims(all)
    BY <2>0, <2>2, <2>3, ClaimedTogether
  <2>5. Claimed(Artifact(<<"sqnr_report", 0>>, all))
    BY <2>4 DEF Claimed, Artifact
  <2>6. Claimed(Over(Artifact(<<"sqnr_report", 0>>, all), drafts))
    BY <2>5, ClaimedDrafts, ClaimedMerge
  <2> QED
    BY <1>0, <2>1, <2>6, ClaimsPublish
<1> QED
  BY <1>2, <1>3, <1>4, <1>5, <1>6, <1>7 DEF ValidateNext

\* A benchmark that fans out executes graphs, each with the inputs of its vector.
LEMMA ClaimsBenchmark ==
    ASSUME ClaimsInv, DiagnosesInv, InLoops, UNCHANGED stageVars, BenchmarkNext
    PROVE  ClaimsInv'
<1>0. UNCHANGED <<spec, pc, vectors, index>>
  BY DEF stageVars, buildVars
<1>1. CASE RefuseCall \/ FailCall
  BY <1>0, <1>1, ClaimsRefuse
<1>2. CASE BeginBenchmark
  BY <1>1, <1>2, ClaimsStarts DEF BeginBenchmark
<1>3. ASSUME phase \in OfABenchmark, FansOut
      PROVE  /\ Fanning /\ call.steps = << >> /\ \A b : ~OfContainer(b)
             /\ Head(turn) # 0
             /\ phase # "select" => Works(phase, work)
  <2>1. Fanning
    BY <1>3 DEF Fanning, OfABenchmark
  <2>2. call.stage = "benchmark" /\ Automatic /\ ~RunsOnce
    BY <1>3 DEF ClaimsInv, PhasesInv, FansOut
  <2>3. call.steps = << >> /\ \A b : ~OfContainer(b)
    BY <2>2 DEF RunsOnce, OfContainer, Automatic
  <2>4. phase # "select" => Works(phase, work)
    BY <1>3, <2>1 DEF ClaimsInv, WorkInv, WithBinding, OfAValidation, OfABenchmark
  <2> QED
    BY <2>1, <2>3, <2>4, FanningAr
\* The measurements are added to what the work is about.
<1>4. ASSUME NEW next, NEW w, Proceed(next, w), next \in {"measure", "meter", "trace"},
             phase \in OfABenchmark \ {"select"},
             DOMAIN w = DOMAIN work,
             "binding" \in DOMAIN work => w.binding = work.binding,
             "vector" \in DOMAIN work => w.vector = work.vector,
             FansOut /\ next # "measure" => work.vector.ar = Head(turn)
      PROVE  ClaimsInv'
  <2>1. FansOut => Works(phase, work) /\ phase # "reference"
    BY <1>3, <1>4 DEF OfABenchmark
  <2>2. FansOut => Works(next, w)
    BY <1>4, <2>1 DEF Works
  <2> QED
    BY <1>4, <2>2, ClaimsProceed DEF WithBinding, OfAValidation, OfABenchmark
<1>5. CASE SelectBenchmark
  <2>1. phase = "select"
    BY <1>5 DEF SelectBenchmark
  <2>2. CASE ~RefuseCall
    <3>1. Measurable(Binding)
      BY <1>5, <2>2 DEF SelectBenchmark
    <3>2. PICK w : /\ w = [binding |-> Binding, vector |-> VectorFor(Binding),
                           recorded |-> << >>, measured |-> << >>, metered |-> FALSE]
                   /\ Proceed("open", w)
      BY <1>5, <3>1 DEF SelectBenchmark
    <3>3. FansOut => Works("open", w)
      <4> SUFFICES ASSUME FansOut
                   PROVE  Works("open", w)
        OBVIOUS
      <4>1. call.steps = << >> /\ ~OfContainer(Binding)
        BY <1>3, <2>1 DEF OfABenchmark
      <4>2. Binding # NotSelectable /\ VectorFor(Binding) # NoManifest
        BY <3>1, <4>1 DEF Measurable
      <4>3. /\ Binding.ar = Head(turn)
            /\ OwnContextLengths => \A cl \in Range(spec.cls) : Binding.cl = cl
        BY <2>1, <4>2, BindingExecutes DEF OfABenchmark
      <4> QED
        BY <3>2, <4>2, <4>3 DEF Works
    <3> QED
      BY <2>1, <3>2, <3>3, ClaimsProceed DEF WithBinding, OfAValidation, OfABenchmark
  <2> QED
    BY <1>1, <2>2
<1>6. ASSUME NEW available, NEW executions
      PROVE  /\ DOMAIN Metered(available, executions) = DOMAIN work
             /\ "binding" \in DOMAIN work =>
                  Metered(available, executions).binding = work.binding
             /\ "vector" \in DOMAIN work =>
                  Metered(available, executions).vector = work.vector
  BY DEF Metered
<1>7. CASE OpenContainer \/ OpenChain \/ OpenGraph
  <2>1. phase = "open"
    BY <1>7 DEF OpenContainer, OpenChain, OpenGraph
  <2>2. \/ RefuseCall \/ FailCall \/ Proceed("measure", work)
        \/ \E available, executions : Proceed("measure", Metered(available, executions))
    BY <1>7 DEF OpenContainer, OpenChain, OpenGraph
  <2> QED
    BY <1>1, <1>4, <1>6, <2>1, <2>2 DEF OfABenchmark
<1>8. CASE Measure
  <2>1. phase = "measure"
    BY <1>8 DEF Measure
  <2>2. CASE ~(RefuseCall \/ FailCall)
    <3>1. /\ OfContainer(work.binding) \/ Runs
          /\ Proceed("meter", IF IsSequence(work.binding)
                              THEN [work EXCEPT !.recorded = Recorded] ELSE work)
      BY <1>8, <2>2 DEF Measure
    <3>2. FansOut => work.vector.ar = Head(turn)
      <4> SUFFICES ASSUME FansOut
                   PROVE  work.vector.ar = Head(turn)
        OBVIOUS
      <4>1. /\ call.steps = << >> /\ ~OfContainer(work.binding) /\ Head(turn) # 0
            /\ Works("measure", work)
        BY <1>3, <2>1 DEF OfABenchmark
      <4>2. work.vector.ar = ExecutedAr(work.binding)
        BY <3>1, <4>1 DEF Runs, Works
      <4> QED
        BY <4>1, <4>2 DEF Works, ExecutedAr
    <3> PICK w : w = IF IsSequence(work.binding)
                     THEN [work EXCEPT !.recorded = Recorded] ELSE work
      OBVIOUS
    <3>3. /\ DOMAIN w = DOMAIN work
          /\ "binding" \in DOMAIN work => w.binding = work.binding
          /\ "vector" \in DOMAIN work => w.vector = work.vector
      OBVIOUS
    <3>4. Proceed("meter", w)
      BY <3>1
    <3> QED
      BY <1>4, <2>1, <3>2, <3>3, <3>4 DEF OfABenchmark
  <2> QED
    BY <1>1, <2>2
<1>9. CASE Meter
  <2>1. phase = "meter"
    BY <1>9 DEF Meter
  <2>2. \/ Proceed("trace", work)
        \/ \E available, executions : Proceed("trace", Metered(available, executions))
    BY <1>9 DEF Meter
  <2>3. FansOut => work.vector.ar = Head(turn)
    BY <1>3, <2>1 DEF Works, OfABenchmark
  <2> QED
    BY <1>4, <1>6, <2>1, <2>2, <2>3 DEF OfABenchmark
<1>10. CASE PublishLatency
  <2>1. phase = "trace" /\ call.stage = "benchmark"
    BY <1>10 DEF PublishLatency, ClaimsInv, PhasesInv, OfABenchmark
  <2>2. CASE NextAr(LatencyArtifacts, "select", "aggregate")
    <3> DEFINE report == [kind |-> "one", results |-> <<Latency>>,
                          metric |-> Latency.metric, optrace |-> Latency.optrace]
               trace == IF call.optrace
                        THEN Artifact(Name("optrace_evidence"), Trace) ELSE << >>
    <3>1. LatencyArtifacts = Over(Artifact(<<"latency_report", Suffix>>, report), trace)
      BY DEF LatencyArtifacts, Name
    <3>2. report.kind = "one" /\ 1 \in DOMAIN report.results /\ report.results[1] = Latency
      OBVIOUS
    <3>3. \A n \in DOMAIN trace : n[1] = "optrace_evidence"
      BY DEF Artifact, Name
    <3>4. Latency.binding = work.binding /\ Latency.vector = work.vector
      BY DEF Latency
    <3> HIDE DEF report, trace
    <3>5. /\ <<"latency_report", Suffix>> \in DOMAIN LatencyArtifacts
          /\ LatencyArtifacts[<<"latency_report", Suffix>>] = report
          /\ \A n \in DOMAIN LatencyArtifacts :
               n[1] \in OnReports => n = <<"latency_report", Suffix>>
      BY <3>1, <3>3 DEF Over, Artifact, OnReports
    <3>6. FansOut => Executed(Latency, Suffix)
      BY <1>3, <2>1, <3>4 DEF Executed, Works, Suffix, OfABenchmark
    <3>7. ReportName = "latency_report"
      BY <2>1 DEF ReportName
    <3> QED
      BY <2>1, <2>2, <3>2, <3>5, <3>6, <3>7, ClaimsNextAr DEF OfABenchmark
  <2> QED
    BY <1>1, <1>10, <2>2 DEF PublishLatency
<1>11. CASE PublishLatencies
  <2>1. phase = "aggregate" /\ call.stage = "benchmark"
    BY <1>11, Zenon DEF PublishLatencies
  <2>2. ReportName = "latency_report"
    BY <2>1 DEF ReportName
  <2>3. CASE ~FailCall
    <3> DEFINE one == [i \in DOMAIN spec.ars |->
                         drafts[<<"latency_report", spec.ars[i]>>].results[1]]
               latency == [kind |-> "all", results |-> one, ars |-> AllArs,
                           cls |-> Range(spec.cls),
                           metric |-> IF \A i \in DOMAIN one :
                                           one[i].metric = "device_execution"
                                      THEN "device_execution" ELSE "partial",
                           optrace |-> IF call.optrace THEN <<called, 0>> ELSE << >>]
               trace == [stamp |-> <<called, 0>>, ars |-> AllArs,
                         profiled |-> [i \in DOMAIN one |->
                            [binding |-> one[i].binding, steps |-> one[i].steps]]]
               traces == IF call.optrace
                         THEN Artifact(<<"optrace_evidence", 0>>, trace) ELSE << >>
    <3>1. EndCall(Over(Artifact(<<"latency_report", 0>>, latency), Over(traces, drafts)))
      BY <1>11, <2>3, ZenonT(60) DEF PublishLatencies
    <3>2. /\ latency.ars = AllArs /\ latency.cls = Range(spec.cls)
          /\ latency.results = one
      OBVIOUS
    <3>3. \A i \in DOMAIN spec.ars :
             i \in DOMAIN one /\ one[i] = drafts[<<ReportName, spec.ars[i]>>].results[1]
      BY <2>2
    <3> HIDE DEF trace, latency, one
    <3>4. Claimed(traces)
      BY DEF Claimed, Artifact, OnReports
    <3>5. Claims(latency)
      BY <2>1, <3>2, <3>3, ClaimedTogether
    <3> HIDE DEF traces
    <3>6. Claimed(Artifact(<<"latency_report", 0>>, latency))
      BY <3>5 DEF Claimed, Artifact
    <3>7. Claimed(Over(Artifact(<<"latency_report", 0>>, latency), Over(traces, drafts)))
      BY <3>4, <3>6, ClaimedDrafts, ClaimedMerge
    <3> QED
      BY <1>0, <3>1, <3>7, ClaimsPublish
  <2> QED
    BY <1>1, <2>3
<1> QED
  BY <1>2, <1>5, <1>7, <1>8, <1>9, <1>10, <1>11 DEF BenchmarkNext

\* diagnose and the tools publish under other names.
LEMMA ClaimsDiagnose ==
    ASSUME ClaimsInv, UNCHANGED stageVars, DiagnoseNext
    PROVE  ClaimsInv'
<1>0. UNCHANGED <<spec, pc, vectors, index>>
  BY DEF stageVars, buildVars
<1>1. CASE RefuseCall \/ FailCall
  BY <1>0, <1>1, ClaimsRefuse
<1>2. CASE BeginDiagnose
  BY <1>2, ClaimsProceed DEF BeginDiagnose
<1>3. ASSUME NEW kind, NEW artifact, kind \notin OnReports,
             EndCall(Artifact(<<kind, 0>>, artifact))
      PROVE  ClaimsInv'
  BY <1>0, <1>3, OtherReport, ClaimsPublish
<1>4. CASE CompareTraces
  <2>1. "quality_diagnosis" \notin OnReports /\ "latency_diagnosis" \notin OnReports
    BY DEF OnReports
  <2>2. \/ FailCall
        \/ EndCall(Artifact(<<"quality_diagnosis", 0>>, [given |-> TRUE]))
        \/ EndCall(Artifact(<<"latency_diagnosis", 0>>, [given |-> TRUE]))
    BY <1>4 DEF CompareTraces
  <2> QED
    BY <1>1, <1>3, <2>1, <2>2
<1>5. CASE Attribute
  <2>1. /\ Claimed(Quality) /\ Claimed(LatencyDiagnosis)
        /\ Claimed(Artifact(<<"automatic_diagnosis", 0>>, [given |-> FALSE]))
    BY OtherReport DEF Quality, LatencyDiagnosis, OnReports
  <2>2. Claimed(<< >>)
    BY DEF Claimed
  <2>3. ASSUME NEW a, NEW b, NEW c,
               a = (IF QualityFound THEN Quality ELSE << >>),
               b = (IF LatencyFound THEN LatencyDiagnosis ELSE << >>),
               c = (IF QualityFound /\ LatencyFound
                    THEN Artifact(<<"automatic_diagnosis", 0>>, [given |-> FALSE])
                    ELSE << >>),
               EndCall(Over(a, Over(b, c)))
        PROVE  ClaimsInv'
    <3>1. Claimed(a) /\ Claimed(b) /\ Claimed(c)
      BY <2>1, <2>2, <2>3
    <3>2. Claimed(Over(a, Over(b, c)))
      BY <3>1, ClaimedMerge
    <3> QED
      BY <1>0, <2>3, <3>2, ClaimsPublish
  <2> QED
    BY <1>1, <1>5, <2>3 DEF Attribute
<1> QED
  BY <1>2, <1>4, <1>5 DEF DiagnoseNext

LEMMA ClaimsTools ==
    ASSUME ClaimsInv, DiagnosesInv, ToolNext
    PROVE  ClaimsInv'
<1>0. UNCHANGED <<spec, pc, vectors, index>>
  BY DEF ToolNext
<1>1. /\ phase = "called" /\ call.stage = "tool"
  BY DEF ToolNext, ToolStep, PrepareVectors, ConvertAr, TransformModel, ConvertModel,
         CompileModels, RunGraph, RunChain, Uses
<1>2. call \in Calls
  BY <1>1 DEF DiagnosesInv, CallsInv, IdleInv
<1>3. call.tool \in ToolNames
  BY <1>1, <1>2, ToolAssumption
<1>4. CASE RefuseCall \/ FailCall
  BY <1>0, <1>4, ClaimsRefuse
<1>5. ASSUME NEW artifact, EndCall(Artifact(<<call.tool, 0>>, artifact))
      PROVE  ClaimsInv'
  <2>1. call.tool \notin OnReports
    BY <1>3 DEF ToolNames, OnReports
  <2> QED
    BY <1>0, <1>5, <2>1, OtherReport, ClaimsPublish
<1>6. ASSUME NEW accepted, NEW artifact, Tool(accepted, artifact)
      PROVE  ClaimsInv'
  BY <1>4, <1>5, <1>6 DEF Tool
<1>7. CASE PrepareVectors \/ ConvertAr \/ TransformModel \/ ConvertModel
  BY <1>6, <1>7 DEF PrepareVectors, ConvertAr, TransformModel, ConvertModel
<1>8. CASE CompileModels
  BY <1>4, <1>5, <1>8 DEF CompileModels
<1>9. CASE RunGraph
  BY <1>6, <1>9 DEF RunGraph
<1>10. CASE RunChain
  BY <1>6, <1>10 DEF RunChain
<1> QED
  BY <1>7, <1>8, <1>9, <1>10 DEF ToolNext, ToolStep

\* A call begins with nothing published by it.
LEMMA ClaimsCall ==
    ASSUME ClaimsInv, UNCHANGED stageVars, CallStage
    PROVE  ClaimsInv'
<1>1. phase' = "called" /\ UNCHANGED <<drafts, shelf, spec, pc, vectors, index>>
  BY DEF CallStage, stageVars, buildVars
<1>2. VectorsInv' /\ DraftsInv' /\ (OwnContextLengths => ClaimsExecuted')
  BY <1>1 DEF ClaimsInv, VectorsInv, DraftsInv, ClaimsExecuted
<1>3. PhasesInv' /\ FanInv' /\ WorkInv'
  BY <1>1 DEF PhasesInv, FanInv, WorkInv, Fanning, OfAValidation, OfABenchmark
<1> QED
  BY <1>2, <1>3 DEF ClaimsInv

LEMMA ClaimsBuild ==
    ASSUME InLoops, ClaimsInv, DiagnosesInv, BuildStep, UNCHANGED callVars
    PROVE  ClaimsInv'
<1>1. pc # "succeeded"
  BY StepsBeforeSuccess
<1>2. phase = "idle" /\ UNCHANGED <<phase, drafts, shelf>>
  BY <1>1 DEF DiagnosesInv, CallsInv, IdleInv, callVars
<1>3. VectorsInv'
  BY VectorsBuild DEF ClaimsInv
<1>4. PhasesInv' /\ FanInv' /\ WorkInv'
  BY <1>2 DEF PhasesInv, FanInv, WorkInv, Fanning, OfAValidation, OfABenchmark
<1>5. DraftsInv' /\ (OwnContextLengths => ClaimsExecuted')
  BY <1>2 DEF ClaimsInv, DraftsInv, ClaimsExecuted
<1> QED
  BY <1>3, <1>4, <1>5 DEF ClaimsInv

LEMMA ClaimsStutter ==
    ASSUME ClaimsInv, UNCHANGED stagesVars
    PROVE  ClaimsInv'
<1>1. UNCHANGED <<spec, pc, vectors, index, call, phase, turn, work, drafts, shelf>>
  BY DEF stagesVars, stageVars, buildVars, callVars
<1>2. /\ FansOut' = FansOut /\ AllArs' = AllArs /\ ReportName' = ReportName
  BY <1>1 DEF FansOut, Automatic, RunsOnce, AllArs, ReportName
<1>3. VectorsInv' /\ PhasesInv' /\ DraftsInv' /\ (OwnContextLengths => ClaimsExecuted')
  BY <1>1, <1>2 DEF ClaimsInv, VectorsInv, PhasesInv, DraftsInv, ClaimsExecuted
<1>4. Fanning' = Fanning /\ \A ar : Reported(ar)' = Reported(ar)
  BY <1>1, <1>2 DEF Fanning, Reported, Executed
<1>5. FanInv'
  BY <1>1, <1>2, <1>4 DEF ClaimsInv, FanInv
<1>6. WorkInv'
  BY <1>1, <1>4 DEF ClaimsInv, WorkInv, Works
<1> QED
  BY <1>3, <1>5, <1>6 DEF ClaimsInv

LEMMA ClaimsStep ==
    ASSUME ProgressInv, DiagnosesInv, ClaimsInv, [StagesNext]_stagesVars
    PROVE  ClaimsInv'
<1>0. InLoops
  BY DEF ProgressInv
<1>1. CASE UNCHANGED stagesVars
  BY <1>1, ClaimsStutter
<1>2. CASE BuildStep /\ UNCHANGED <<callVars, held>>
  BY <1>0, <1>2, ClaimsBuild
<1>3. CASE ToolNext /\ UNCHANGED held
  BY <1>3, ClaimsTools
<1>4. CASE UNCHANGED stageVars /\ CallStage /\ UNCHANGED held
  BY <1>4, ClaimsCall
<1>5. CASE UNCHANGED stageVars /\ ValidateNext /\ UNCHANGED held
  BY <1>0, <1>5, ClaimsValidate
<1>6. CASE UNCHANGED stageVars /\ BenchmarkNext
  BY <1>0, <1>6, ClaimsBenchmark
<1>7. CASE UNCHANGED stageVars /\ DiagnoseNext
  BY <1>7, ClaimsDiagnose
<1> QED
  BY <1>1, <1>2, <1>3, <1>4, <1>5, <1>6, <1>7 DEF StagesNext

\* The report that validate or benchmark publishes on all ARs names the ARs and the
\* context lengths of the configuration.  Each of those pairs has been executed in
\* that call, with graphs of that AR and context length and a vector of that AR:
\* whatever calls have failed or were refused before, half-way through the ARs too.
THEOREM ReportsAreExecuted ==
    ASSUME OwnContextLengths
    PROVE  StagesSpec => []ClaimsExecuted
<1>1. StagesInit => ProgressInv /\ DiagnosesInv /\ ClaimsInv
  BY ProgressInit, DiagnosesInit, ClaimsInit
<1>2. ProgressInv /\ DiagnosesInv /\ ClaimsInv /\ [StagesNext]_stagesVars
        => ProgressInv' /\ DiagnosesInv' /\ ClaimsInv'
  BY ProgressStep, DiagnosesStep, ClaimsStep
<1>3. OwnContextLengths /\ ClaimsInv => ClaimsExecuted
  BY DEF ClaimsInv
<1> QED
  BY <1>1, <1>2, <1>3, PTL DEF StagesSpec

-----------------------------------------------------------------------------
(* What is said about the slices of a saved container.                     *)

\* Nothing is said before the container is saved; then its slices hold graphs of
\* all ARs.
BeforeRaw == {"prepare", "bind_genai", "genai", "genai_build", "genai_raw"}

RawInv ==
    /\ spec \in Specs
    /\ pc \in BeforeRaw => raw = NoSlices
    /\ pc = "genai_raw" =>
         saved \in SavedSlices /\ \A g \in Elements(saved) : UNION Range(g.ars) = AllArs
    /\ raw # NoSlices => \E n \in 0 .. Len(Slices) : DOMAIN raw = 1 .. n
    /\ RawSlicesTrue

\* An order that the columns prove is the order of the graphs.
LEMMA ProvenOrder ==
    ASSUME spec \in Specs, saved \in SavedSlices, NEW g \in Elements(saved),
           UNION Range(g.ars) = AllArs, Describable(g), NEW ar \in AllArs
    PROVE  ar \in g.ars[Bound(g)[ar]]
<1>1. /\ g.ars \in Seq(SUBSET Nat)
      /\ \A c \in g.columns : Len(c) = Len(g.ars)
  <2>1. saved \in Seq(GraphList) /\ \A c \in g.columns : Len(c) = Len(g.ars)
    BY SavedAssumption
  <2>2. g \in GraphList
    <3>1. PICK i \in DOMAIN saved : g = saved[i]
      BY DEF Elements
    <3>2. DOMAIN saved = 1 .. Len(saved)
      BY <2>1
    <3> QED
      BY <2>1, <3>1, <3>2
  <2> QED
    BY <2>1, <2>2 DEF GraphList
<1>2. spec.ars \in Seq(Nat \ {0}) /\ AllArs = {spec.ars[i] : i \in 1 .. Len(spec.ars)}
  BY SpecAssumption DEF AllArs, Range
<1>3. CASE Len(g.ars) = 1
  <2>1. Bound(g)[ar] = 1
    BY <1>3 DEF Bound
  <2>2. Range(g.ars) = {g.ars[1]}
    BY <1>1, <1>3 DEF Range
  <2> QED
    BY <2>1, <2>2
<1>4. CASE Len(g.ars) # 1
  <2>1. Len(g.ars) = Len(spec.ars) /\ OrderProven(g)
    BY <1>4 DEF Describable
  <2>2. PICK i \in 1 .. Len(spec.ars) : spec.ars[i] = ar
    BY <1>2
  <2>3. Len(spec.ars) \in Nat /\ DOMAIN spec.ars = 1 .. Len(spec.ars)
    BY <1>2
  <2> DEFINE observed == {c \in g.columns : IsInjective(c) /\ Range(c) = AllArs}
  <2>4. observed # {} /\ \A c \in observed : c = spec.ars
    <3>1. ~(Len(spec.ars) < 2)
      <4>1. Len(spec.ars) # 1
        BY <1>4, <2>1
      <4>2. Len(spec.ars) \in Nat /\ i \in 1 .. Len(spec.ars)
        BY <2>2, <2>3
      <4>3. \A n \in Nat : n # 1 /\ i \in 1 .. n => ~(n < 2)
        OBVIOUS
      <4> QED
        BY <4>1, <4>2, <4>3
    <3> QED
      BY <2>1, <3>1 DEF OrderProven
  <2>5. observed # {} =>
          \E c \in observed : \A k \in DOMAIN c : c[k] \in g.ars[k]
    <3>1. observed = {c \in g.columns :
                        IsInjective(c) /\ Range(c) = UNION Range(g.ars)}
      OBVIOUS
    <3> HIDE DEF observed
    <3> QED
      BY <3>1, ColumnsAssumption, Zenon
  <2> HIDE DEF observed
  <2>6. \A k \in DOMAIN spec.ars : spec.ars[k] \in g.ars[k]
    BY <2>4, <2>5, Zenon
  <2> DEFINE j == CHOOSE k \in DOMAIN spec.ars : spec.ars[k] = ar
  <2>7. Bound(g)[ar] = j
    BY <1>4 DEF Bound
  <2>8. j \in DOMAIN spec.ars /\ spec.ars[j] = ar
    BY <2>2, <2>3
  <2> QED
    BY <2>6, <2>7, <2>8
<1> QED
  BY <1>3, <1>4

LEMMA RawInit == StagesInit => RawInv
  BY DEF StagesInit, Init, BuildInit, GenaiInit, RawInv, RawSlicesTrue

\* A step that says nothing about slices.
LEMMA RawKept ==
    ASSUME RawInv, spec' = spec, raw' = raw, saved' = saved,
           pc' \in BeforeRaw \ {"genai_raw"} => pc \in BeforeRaw,
           pc' = "genai_raw" => pc = "genai_raw"
    PROVE  RawInv'
  BY DEF RawInv, RawSlicesTrue, AllArs, BeforeRaw

LEMMA RawGenai ==
    ASSUME RawInv, GenaiNext
    PROVE  RawInv'
<1>1. CASE CheckContainer
  BY <1>1, RawKept DEF CheckContainer, Refuses, Raise, genaiVars, BeforeRaw
<1>2. CASE BuildContainer
  <2>1. \/ /\ spec' = spec /\ raw' = raw /\ saved' = saved /\ pc' = "failed"
        \/ /\ spec' = spec /\ raw' = raw /\ pc' = "genai_raw"
           /\ pc = "genai_build"
           /\ saved' \in SavedSlices
           /\ \A g \in Elements(saved') : UNION Range(g.ars) = AllArs
    BY <1>2 DEF BuildContainer, Fails, Raise, Makes, genaiVars
  <2>2. AllArs' = AllArs
    BY <2>1 DEF AllArs
  <2>3. CASE pc' = "failed" /\ saved' = saved
    BY <2>1, <2>3, RawKept DEF BeforeRaw
  <2>4. CASE /\ raw' = raw /\ pc' = "genai_raw" /\ pc = "genai_build"
             /\ saved' \in SavedSlices
             /\ \A g \in Elements(saved') : UNION Range(g.ars) = AllArs
    <3>1. raw' = NoSlices
      BY <2>4 DEF RawInv, BeforeRaw
    <3>2. (\A g \in Elements(saved) : UNION Range(g.ars) = AllArs)'
      BY <2>2, <2>4 DEF Elements
    <3> QED
      BY <2>1, <2>4, <3>1, <3>2 DEF RawInv, RawSlicesTrue
  <2> QED
    BY <2>1, <2>3, <2>4
<1>3. CASE BuildOmni
  <2>1. \/ /\ spec' = spec /\ raw' = raw /\ saved' = saved /\ pc' = "failed"
        \/ spec' = spec /\ raw' = << >> /\ pc' = "done"
    BY <1>3 DEF BuildOmni, Fails, Raise, Makes, genaiVars
  <2>2. CASE raw' = << >> /\ pc' = "done"
    <3>1. 0 \in 0 .. Len(Slices) /\ DOMAIN << >> = 1 .. 0
      BY SlicesSeq
    <3>2. \E n \in 0 .. Len(Slices) : DOMAIN raw' = 1 .. n
      BY <2>2, <3>1
    <3> QED
      BY <2>1, <2>2, <3>2 DEF RawInv, RawSlicesTrue, BeforeRaw
  <2> QED
    BY <2>1, <2>2, RawKept DEF BeforeRaw
<1>4. CASE DescribeSlices
  <2>1. /\ spec' = spec /\ saved' = saved /\ pc' = "done" /\ pc = "genai_raw"
        /\ \/ raw' = << >>
           \/ /\ \A g \in Elements(saved) : Describable(g)
              /\ raw' = [i \in DOMAIN saved |-> Bound(saved[i])]
    BY <1>4 DEF DescribeSlices
  <2>2. RawSlicesTrue'
    <3>1. CASE raw' = << >>
      BY <3>1 DEF RawSlicesTrue
    <3>2. CASE /\ \A g \in Elements(saved) : Describable(g)
               /\ raw' = [i \in DOMAIN saved |-> Bound(saved[i])]
      <4>1. \A i \in DOMAIN saved : \A ar \in AllArs :
                ar \in saved[i].ars[Bound(saved[i])[ar]]
        BY <2>1, <3>2, ProvenOrder DEF RawInv, Elements
      <4>2. AllArs' = AllArs
        BY <2>1 DEF AllArs
      <4> QED
        BY <2>1, <3>2, <4>1, <4>2 DEF RawSlicesTrue
    <3> QED
      BY <2>1, <3>1, <3>2
  <2>3. \E n \in 0 .. Len(Slices) : DOMAIN raw' = 1 .. n
    <3>1. CASE raw' = << >>
      <4>1. 0 \in 0 .. Len(Slices) /\ DOMAIN << >> = 1 .. 0
        BY SlicesSeq
      <4> QED
        BY <3>1, <4>1
    <3>2. CASE raw' = [i \in DOMAIN saved |-> Bound(saved[i])]
      <4>1. saved \in Seq(GraphList) /\ Len(saved) <= Len(Slices)
        BY <2>1, SavedAssumption DEF RawInv
      <4>2. Len(saved) \in 0 .. Len(Slices) /\ DOMAIN saved = 1 .. Len(saved)
        BY <4>1, SlicesSeq
      <4>3. DOMAIN raw' = 1 .. Len(saved)
        BY <3>2, <4>2
      <4> QED
        BY <4>2, <4>3
    <3> QED
      BY <2>1, <3>1, <3>2
  <2> QED
    BY <2>1, <2>2, <2>3 DEF RawInv, BeforeRaw
<1> QED
  BY <1>1, <1>2, <1>3, <1>4 DEF GenaiNext

\* The low-level lane and the rest of the stage.
LEMMA RawBuild ==
    ASSUME RawInv, BuildNext, UNCHANGED genaiVars
    PROVE  RawInv'
<1>1. spec' = spec
  BY DEF BuildNext, Start, ArConvert, Transform, BeginSlice, Convert, Structure,
         Standalone, Authorise, Joint, Runtime, Compile, Diagnose, Publish, Vision,
         CompileSlice, CompileContext, Call, Makes, Fails, Refuses, Raise
<1>2. pc' = pc \/ pc' \notin BeforeRaw
  <2>1. CASE Start
    BY <2>1 DEF Start, Refuses, Raise, BeforeRaw
  <2>2. CASE ArConvert \/ Transform \/ Convert
    BY <2>2 DEF ArConvert, Transform, Convert, Call, Fails, Refuses, Raise,
                ForEachAr, BeforeRaw
  <2>3. CASE BeginSlice \/ Publish
    BY <2>3 DEF BeginSlice, Publish, NextSlice, BeforeRaw
  <2>4. CASE Structure \/ Authorise \/ Runtime
    BY <2>4 DEF Structure, Authorise, Runtime, Fails, Refuses, Raise, BeforeRaw
  <2>5. CASE Standalone \/ Joint
    BY <2>5 DEF Standalone, Joint, CompileContext, Call, Fails, Refuses, Raise,
                ForEachAr, BeforeRaw
  <2>6. CASE Compile \/ Diagnose
    BY <2>6 DEF Compile, Diagnose, CompileSlice, CompileContext, Call, Fails,
                Refuses, Raise, ForEachAr, BeforeRaw
  <2>7. CASE Vision
    BY <2>7 DEF Vision, Call, Fails, Refuses, Raise, BeforeRaw
  <2> QED
    BY <2>1, <2>2, <2>3, <2>4, <2>5, <2>6, <2>7 DEF BuildNext
<1> QED
  BY <1>1, <1>2, RawKept DEF genaiVars, BeforeRaw

LEMMA RawStage ==
    ASSUME RawInv,
           Prepare \/ BuildVit \/ BindVectors \/ BindGenaiVectors \/ PublishIndex
    PROVE  RawInv'
<1>1. CASE Prepare
  BY <1>1, RawKept DEF Prepare, Refuses, Raise, genaiVars, BeforeRaw
<1>2. CASE BuildVit
  BY <1>2, RawKept DEF BuildVit, Call, Makes, Fails, Raise, genaiVars, BeforeRaw
<1>3. CASE BindVectors
  BY <1>3, RawKept DEF BindVectors, Refuses, Raise, genaiVars, BeforeRaw
<1>4. CASE BindGenaiVectors
  BY <1>4, RawKept DEF BindGenaiVectors, Refuses, Raise, genaiVars, BeforeRaw
<1>5. CASE PublishIndex
  BY <1>5, RawKept DEF PublishIndex, genaiVars, BeforeRaw
<1> QED
  BY <1>1, <1>2, <1>3, <1>4, <1>5

LEMMA RawIdle ==
    ASSUME RawInv, ToolNext \/ UNCHANGED stageVars
    PROVE  RawInv'
  BY RawKept DEF ToolNext, stageVars, buildVars, genaiVars, BeforeRaw

LEMMA RawStep == RawInv /\ [StagesNext]_stagesVars => RawInv'
<1> SUFFICES ASSUME RawInv, [StagesNext]_stagesVars
             PROVE  RawInv'
  OBVIOUS
<1>1. CASE BuildStep
  BY <1>1, RawGenai, RawBuild, RawStage DEF BuildStep
<1>2. CASE ToolNext \/ UNCHANGED stageVars
  BY <1>2, RawIdle
<1> QED
  BY <1>1, <1>2 DEF StagesNext, stagesVars

\* _ar_graph_order_error, "Prove the AR->graph binding instead of trusting list
\* order": whatever the SDK has saved, an AR that is bound to a graph of a saved
\* slice is bound to one that was compiled for it, as long as one of the dimensions
\* that show the ARs shows them truly.
THEOREM BindingsTrue == StagesSpec => []RawSlicesTrue
<1>1. StagesInit => RawInv
  BY RawInit
<1>2. RawInv /\ [StagesNext]_stagesVars => RawInv'
  BY RawStep
<1>3. RawInv => RawSlicesTrue
  BY DEF RawInv
<1> QED
  BY <1>1, <1>2, <1>3, PTL DEF StagesSpec

-----------------------------------------------------------------------------
(* Sorting.                                                                *)

\* Ranked lists every element of a finite set once, in the order it is given.
LEMMA RankedOrder ==
    ASSUME NEW S, IsFiniteSet(S), NEW R,
           \A a \in S : <<a, a>> \notin R,
           \A a, b, c \in S : <<a, b>> \in R /\ <<b, c>> \in R => <<a, c>> \in R,
           \A a, b \in S : a # b => <<a, b>> \in R \/ <<b, a>> \in R
    PROVE  /\ DOMAIN Ranked(S, R) = 1 .. Cardinality(S)
           /\ \A i \in 1 .. Cardinality(S) : Ranked(S, R)[i] \in S
           /\ \A a \in S : \E i \in 1 .. Cardinality(S) : Ranked(S, R)[i] = a
           /\ \A i, j \in 1 .. Cardinality(S) :
                i < j => <<Ranked(S, R)[i], Ranked(S, R)[j]>> \in R
<1> DEFINE below(a) == {b \in S : <<b, a>> \in R}
           n == Cardinality(S)
           rank == [a \in S |-> Cardinality(below(a))]
<1>1. n \in Nat
  BY FS_CardinalityType
<1>2. ASSUME NEW a \in S
      PROVE  rank[a] \in 0 .. n - 1
  <2>1. below(a) \in SUBSET S /\ a \notin below(a)
    OBVIOUS
  <2>2. /\ IsFiniteSet(below(a)) /\ Cardinality(below(a)) <= n
        /\ Cardinality(S) = Cardinality(below(a)) => S = below(a)
    BY <2>1, FS_Subset
  <2>3. Cardinality(below(a)) \in Nat
    BY <2>2, FS_CardinalityType
  <2> QED
    BY <1>1, <2>1, <2>2, <2>3
<1>3. ASSUME NEW a \in S, NEW b \in S, <<a, b>> \in R
      PROVE  rank[a] < rank[b]
  <2>1. below(a) \in SUBSET below(b) /\ a \in below(b) /\ a \notin below(a)
    BY <1>3
  <2>2. below(b) \in SUBSET S
    OBVIOUS
  <2>3. IsFiniteSet(below(b))
    BY <2>2, FS_Subset
  <2>4. /\ Cardinality(below(a)) <= Cardinality(below(b))
        /\ Cardinality(below(b)) = Cardinality(below(a)) => below(b) = below(a)
    BY <2>1, <2>3, FS_Subset
  <2>5. rank[a] \in Nat /\ rank[b] \in Nat
    BY <1>1, <1>2
  <2> QED
    BY <2>1, <2>4, <2>5
<1> HIDE DEF rank
<1>4. \A a, b \in S : rank[a] = rank[b] => a = b
  <2> TAKE a, b \in S
  <2>1. rank[a] \in Int /\ rank[b] \in Int
    BY <1>1, <1>2
  <2>2. a # b => rank[a] < rank[b] \/ rank[b] < rank[a]
    BY <1>3
  <2> QED
    BY <2>1, <2>2
<1>5. \A i \in 0 .. n - 1 : \E a \in S : rank[a] = i
  <2>1. rank \in [S -> 0 .. n - 1]
    BY <1>2 DEF rank
  <2>2. rank \in Injection(S, 0 .. n - 1)
    BY <1>4, <2>1 DEF Injection, IsInjective
  <2>3. IsFiniteSet(0 .. n - 1) /\ Cardinality(0 .. n - 1) = n
    <3>1. 0 \in Int /\ n - 1 \in Int
      BY <1>1
    <3>2. /\ IsFiniteSet(0 .. n - 1)
          /\ Cardinality(0 .. n - 1) = IF 0 > n - 1 THEN 0 ELSE n - 1 - 0 + 1
      BY <3>1, FS_Interval
    <3> HIDE DEF n
    <3> QED
      BY <1>1, <3>2
  <2>4. rank \in Surjection(S, 0 .. n - 1)
    BY <2>2, <2>3, FS_Injection
  <2> QED
    BY <2>4 DEF Surjection
<1>6. ASSUME NEW i \in 1 .. n
      PROVE  Ranked(S, R)[i] \in S /\ rank[Ranked(S, R)[i]] = i - 1
  <2>1. i - 1 \in 0 .. n - 1
    BY <1>1
  <2>2. \E a \in S : rank[a] = i - 1
    BY <1>5, <2>1
  <2>3. Ranked(S, R)[i] = CHOOSE a \in S : Cardinality(below(a)) = i - 1
    BY DEF Ranked
  <2>4. \A a \in S : rank[a] = Cardinality(below(a))
    BY DEF rank
  <2> QED
    BY <2>2, <2>3, <2>4
<1>7. DOMAIN Ranked(S, R) = 1 .. n
  BY DEF Ranked
<1>8. ASSUME NEW a \in S
      PROVE  \E i \in 1 .. n : Ranked(S, R)[i] = a
  <2>1. rank[a] + 1 \in 1 .. n /\ rank[a] \in 0 .. n - 1
    BY <1>1, <1>2
  <2>2. rank[Ranked(S, R)[rank[a] + 1]] = rank[a] /\ Ranked(S, R)[rank[a] + 1] \in S
    BY <1>6, <2>1
  <2> QED
    BY <1>4, <2>1, <2>2
<1>9. ASSUME NEW i \in 1 .. n, NEW j \in 1 .. n, i < j
      PROVE  <<Ranked(S, R)[i], Ranked(S, R)[j]>> \in R
  <2> DEFINE a == Ranked(S, R)[i]
             b == Ranked(S, R)[j]
  <2>1. a \in S /\ b \in S /\ rank[a] = i - 1 /\ rank[b] = j - 1
    BY <1>6
  <2> HIDE DEF a, b
  <2>2. a # b /\ ~ (rank[b] < rank[a])
    BY <1>1, <1>9, <2>1
  <2>3. <<a, b>> \in R
    BY <1>3, <2>1, <2>2
  <2> QED
    BY <2>3 DEF a, b
<1> QED
  BY <1>6, <1>7, <1>8, <1>9

-----------------------------------------------------------------------------
(* What a build that has returned is made of.                              *)

\* What the statements of a build do to the loops and write, one after the other.
LoopStep(arts) ==
    \/ /\ pc' = "failed" /\ at' = at /\ \A a \in arts : a.kind = "container"
    \/ /\ pc \notin Contextual \cup {"ar_convert", "transform", "slice", "vit", "vision"}
       /\ pc' \notin Contextual \cup {"slice", "vision"}
       /\ pc' \in {"done", "publish_index", "succeeded"} =>
            pc \in {"done", "publish_index"} \cup OtherLanes
       /\ at' = at /\ \A a \in arts : a.kind = "container"
    \/ /\ pc = "ar_convert" /\ pc' \in {"ar_convert", "transform"}
       /\ at'.cl = at.cl /\ at'.slice = at.slice
       /\ \A a \in arts : a.kind = "variant"
    \/ /\ pc = "transform" /\ pc' \in {"transform", "slice"}
       /\ at'.cl = at.cl /\ at'.slice = at.slice
       /\ arts = {Art("transformed", Cl, s, {Ar}) : s \in Range(Slices)}
    \/ /\ pc \in {"slice", "publish"} /\ NextSlice
       /\ \A a \in arts : a.kind = "boundary"
    \/ /\ pc = "slice" /\ pc' = "convert" /\ at' = at /\ arts = {}
    \/ /\ pc = "convert" /\ pc' \in {"convert", "structure", "compile"}
       /\ at'.cl = at.cl /\ at'.slice = at.slice
       /\ \A a \in arts : a.kind = "converted"
    \/ /\ pc = "structure" /\ pc' = "standalone" /\ at' = at /\ arts = {}
    \/ /\ pc = "standalone" /\ ForEachAr("authorise")
       /\ arts = {Art("standalone", Cl, Slice, {Ar})}
    \/ /\ pc = "authorise" /\ pc' = "joint" /\ at' = at /\ arts = {}
    \/ /\ pc = "joint" /\ pc' = "runtime" /\ at' = at
       /\ arts = {Art("joint", Cl, Slice, AllArs)}
    \/ /\ pc = "runtime" /\ pc' = "compile" /\ at' = at /\ arts = {}
    \/ /\ pc = "compile"
       /\ pc' \in {"compile", IF spec.diagnostic THEN "diagnose" ELSE "publish"}
       /\ at'.cl = at.cl /\ at'.slice = at.slice
       /\ arts = {Art("context", Cl, Slice, IF spec.shared THEN AllArs ELSE {Ar})}
    \/ /\ pc = "diagnose" /\ pc' \in {"diagnose", "publish"} /\ spec.diagnostic
       /\ at'.cl = at.cl /\ at'.slice = at.slice
       /\ \E ars : arts = {Art("diagnostic", Cl, Slice, ars)}
    \/ /\ pc \in {"vit", "vision"} /\ pc' = "done" /\ at' = at
       /\ arts = {Art(k, 0, IF pc = "vit" THEN VitSlice ELSE VisionSlice, {1}) :
                    k \in {"converted", "context"}
                          \cup (IF spec.diagnostic THEN {"diagnostic"} ELSE {})}

\* A diagnostic context is only compiled when one is asked for.
Asked == pc = "diagnose" => spec.diagnostic

LEMMA RaiseStep ==
    ASSUME Fails \/ Refuses \/ (fault' = TRUE /\ Raise)
    PROVE  spec' = spec /\ made' = made /\ LoopStep({})
  BY DEF Fails, Refuses, Raise, LoopStep

LEMMA LoopSteps ==
    ASSUME InLoops, Asked, BuildStep
    PROVE  /\ spec' = spec
           /\ \E arts : IsFiniteSet(arts) /\ made' = made \cup arts /\ LoopStep(arts)
<1> DEFINE Stepped ==
      /\ spec' = spec
      /\ \E arts : IsFiniteSet(arts) /\ made' = made \cup arts /\ LoopStep(arts)
<1>0. IsFiniteSet({}) /\ \A a : IsFiniteSet({a})
  BY FS_EmptySet, FS_Singleton
<1>1. ASSUME Fails \/ Refuses \/ (fault' = TRUE /\ Raise)
      PROVE  Stepped
  <2>1. spec' = spec /\ made' = made \cup {} /\ LoopStep({})
    BY <1>1, RaiseStep
  <2> QED
    BY <1>0, <2>1
<1>2. ASSUME spec' = spec, made' = made, LoopStep({})
      PROVE  Stepped
  BY <1>0, <1>2
<1>3. ASSUME NEW a, Makes({a}), LoopStep({a})
      PROVE  Stepped
  <2>1. spec' = spec /\ made' = made \cup {a}
    BY <1>3 DEF Makes
  <2> QED
    BY <1>0, <1>3, <2>1
<1>4. CASE Start \/ Prepare \/ BindVectors \/ BindGenaiVectors
  <2> DEFINE Around ==
        /\ pc \in {"start", "prepare", "done", "bind_genai"}
        /\ pc' \in {"ar_convert", "start", "vit", "bind_genai", "publish_index", "genai"}
        /\ pc' = "publish_index" => pc = "done"
        /\ at' = at /\ spec' = spec /\ made' = made
  <2>1. Refuses \/ Around
    BY <1>4 DEF Start, Prepare, BindVectors, BindGenaiVectors
  <2>2. Around => LoopStep({})
    BY DEF LoopStep, Contextual, Reading, OtherLanes
  <2> QED
    BY <1>1, <1>2, <2>1, <2>2
<1>5. CASE CheckContainer \/ DescribeSlices \/ PublishIndex
  <2> DEFINE Around ==
        /\ pc \in {"genai", "genai_raw", "publish_index", "done"}
        /\ pc' \in {"omni_build", "genai_build", "done", "succeeded"}
        /\ pc' = "done" => pc = "genai_raw"
        /\ pc' = "succeeded" => pc \in {"publish_index", "done"}
        /\ at' = at /\ spec' = spec /\ made' = made
  <2>1. Refuses \/ Around
    BY <1>5 DEF CheckContainer, DescribeSlices, PublishIndex, Publishable
  <2>2. Around => LoopStep({})
    BY DEF LoopStep, Contextual, Reading, OtherLanes
  <2> QED
    BY <1>1, <1>2, <2>1, <2>2
<1>6. CASE BuildContainer \/ BuildOmni
  <2> DEFINE a == Art("container", 0, Destination, AllArs)
  <2>1. \/ Fails
        \/ /\ made' = made \cup {a} /\ spec' = spec /\ at' = at
           /\ \/ pc' = "failed"
              \/ pc \in {"genai_build", "omni_build"} /\ pc' \in {"genai_raw", "done"}
    BY <1>6 DEF BuildContainer, BuildOmni, Call, Makes
  <2>2. a.kind = "container"
    BY DEF Art
  <2> HIDE DEF a
  <2>3. CASE ~Fails
    <3>1. LoopStep({a})
      BY <2>1, <2>2, <2>3 DEF LoopStep, Contextual, Reading, OtherLanes
    <3> QED
      BY <1>0, <2>1, <2>3, <3>1
  <2> QED
    BY <1>1, <2>3
<1>7. CASE ArConvert
  <2> DEFINE a == Art("variant", Cl, "", {Ar})
  <2>1. Refuses \/ Fails \/ (pc = "ar_convert" /\ Makes({a}) /\ ForEachAr("transform"))
    BY <1>7 DEF ArConvert, Call
  <2>2. a.kind = "variant"
    BY DEF Art
  <2> HIDE DEF a
  <2>3. ASSUME pc = "ar_convert", Makes({a}), ForEachAr("transform")
        PROVE  LoopStep({a})
    BY <2>2, <2>3, ForEachArStep DEF LoopStep, Makes
  <2> QED
    BY <1>1, <1>3, <2>1, <2>3
<1>8. CASE Transform
  <2> DEFINE arts == {Art("transformed", Cl, s, {Ar}) : s \in Range(Slices)}
  <2>1. Fails \/ (pc = "transform" /\ Makes(arts) /\ ForEachAr("slice"))
    BY <1>8 DEF Transform, Call
  <2>2. IsFiniteSet(arts)
    <3> DEFINE g == [i \in 1 .. Len(Slices) |-> Art("transformed", Cl, Slices[i], {Ar})]
    <3>1. g \in Surjection(1 .. Len(Slices), arts)
      BY SlicesSeq DEF Surjection
    <3>2. IsFiniteSet(1 .. Len(Slices))
      BY SlicesSeq, FS_Interval
    <3> QED
      BY <3>1, <3>2, FS_Surjection
  <2>3. ASSUME pc = "transform", Makes(arts), ForEachAr("slice")
        PROVE  Stepped
    <3>1. spec' = spec /\ made' = made \cup arts
      BY <2>3 DEF Makes
    <3>2. at'.cl = at.cl /\ at'.slice = at.slice /\ pc' \in {"transform", "slice"}
      BY <2>3, <3>1, ForEachArStep
    <3>3. LoopStep(arts)
      BY <2>3, <3>2 DEF LoopStep
    <3> QED
      BY <2>2, <3>1, <3>3
  <2> QED
    BY <1>1, <2>1, <2>3
<1>9. CASE BeginSlice \/ Publish
  <2> DEFINE a == Art("boundary", Cl, Slice, AllArs)
  <2>1. /\ spec' = spec /\ pc \in {"slice", "publish"}
        /\ \/ NextSlice /\ (made' = made \/ made' = made \cup {a})
           \/ pc = "slice" /\ pc' = "convert" /\ at' = at /\ made' = made
    BY <1>9 DEF BeginSlice, Publish
  <2>2. a.kind = "boundary"
    BY DEF Art
  <2> HIDE DEF a
  <2>3. CASE NextSlice
    <3>1. LoopStep({}) /\ LoopStep({a})
      BY <2>1, <2>2, <2>3 DEF LoopStep
    <3>2. CASE made' = made
      BY <1>2, <2>1, <3>1, <3>2
    <3>3. CASE made' = made \cup {a}
      BY <1>0, <2>1, <3>1, <3>3
    <3>4. CASE made' # made /\ made' # made \cup {a}
      BY <1>2, <2>1, <3>4 DEF LoopStep
    <3> QED
      BY <3>2, <3>3, <3>4
  <2>4. CASE pc = "slice" /\ pc' = "convert" /\ at' = at /\ made' = made
    BY <1>2, <2>1, <2>4 DEF LoopStep
  <2> QED
    BY <2>1, <2>3, <2>4
<1>10. CASE Convert
  <2> DEFINE a == Art("converted", Cl, Slice, {Ar})
  <2>1. PICK next \in {"structure", "compile"} :
           Fails \/ (pc = "convert" /\ Makes({a}) /\ ForEachAr(next))
    BY <1>10 DEF Convert, Call
  <2>2. a.kind = "converted"
    BY DEF Art
  <2> HIDE DEF a
  <2>3. ASSUME pc = "convert", Makes({a}), ForEachAr(next)
        PROVE  LoopStep({a})
    BY <2>2, <2>3, ForEachArStep DEF LoopStep, Makes
  <2> QED
    BY <1>1, <1>3, <2>1, <2>3
<1>11. CASE Structure \/ Authorise \/ Runtime
  <2> DEFINE Validates ==
        /\ \/ pc = "structure" /\ pc' = "standalone"
           \/ pc = "authorise" /\ pc' = "joint"
           \/ pc = "runtime" /\ pc' = "compile"
        /\ at' = at /\ spec' = spec /\ made' = made
  <2>1. Fails \/ Refuses \/ (fault' = TRUE /\ Raise) \/ Validates
    BY <1>11 DEF Structure, Authorise, Runtime
  <2>2. Validates => LoopStep({})
    BY DEF LoopStep
  <2> QED
    BY <1>1, <1>2, <2>1, <2>2
<1>12. CASE Standalone
  <2> DEFINE a == Art("standalone", Cl, Slice, {Ar})
  <2>1. \/ Refuses \/ Fails
        \/ pc = "standalone" /\ Makes({a}) /\ ForEachAr("authorise")
    BY <1>12 DEF Standalone, CompileContext, Call
  <2>2. pc = "standalone" /\ ForEachAr("authorise") => LoopStep({a})
    BY DEF LoopStep
  <2> QED
    BY <1>1, <1>3, <2>1, <2>2
<1>13. CASE Joint
  <2> DEFINE a == Art("joint", Cl, Slice, AllArs)
  <2>1. \/ Refuses \/ Fails
        \/ pc = "joint" /\ Makes({a}) /\ pc' = "runtime" /\ at' = at
    BY <1>13 DEF Joint, CompileContext, Call
  <2>2. pc = "joint" /\ pc' = "runtime" /\ at' = at => LoopStep({a})
    BY DEF LoopStep
  <2> QED
    BY <1>1, <1>3, <2>1, <2>2
<1>14. CASE Compile \/ Diagnose
  <2> DEFINE kind == IF pc = "compile" THEN "context" ELSE "diagnostic"
             next == IF pc = "compile" /\ spec.diagnostic THEN "diagnose" ELSE "publish"
             ars == IF spec.shared THEN AllArs ELSE {Ar}
             a == Art(kind, Cl, Slice, ars)
  <2>1. pc \in {"compile", "diagnose"} /\ CompileSlice(kind, next)
    BY <1>14 DEF Compile, Diagnose
  <2>2. \/ Refuses \/ Fails
        \/ Makes({a}) /\ ((at' = at /\ pc' = next) \/ ForEachAr(next))
    BY <2>1 DEF CompileSlice, CompileContext, Call
  <2>3. ASSUME Makes({a}), (at' = at /\ pc' = next) \/ ForEachAr(next)
        PROVE  LoopStep({a})
    <3>1. at'.cl = at.cl /\ at'.slice = at.slice /\ pc' \in {pc, next}
      BY <2>3, ForEachArStep DEF Makes
    <3>2. CASE pc = "compile"
      BY <3>1, <3>2 DEF LoopStep
    <3>3. CASE pc = "diagnose"
      BY <3>1, <3>3 DEF LoopStep, Asked
    <3> QED
      BY <2>1, <3>2, <3>3
  <2> QED
    BY <1>1, <1>3, <2>2, <2>3
<1>15. CASE BuildVit \/ Vision
  <2> DEFINE slice == IF pc = "vit" THEN VitSlice ELSE VisionSlice
             kinds == {"converted", "context"}
                      \cup (IF spec.diagnostic THEN {"diagnostic"} ELSE {})
             arts == {Art(k, 0, slice, {1}) : k \in kinds}
  <2>1. \/ Refuses \/ Fails
        \/ pc \in {"vit", "vision"} /\ Makes(arts) /\ pc' = "done" /\ at' = at
    BY <1>15 DEF BuildVit, Vision, Call
  <2>2. IsFiniteSet(arts)
    <3> DEFINE all == {Art("converted", 0, slice, {1})}
                      \cup {Art("context", 0, slice, {1})}
                      \cup {Art("diagnostic", 0, slice, {1})}
    <3>1. IsFiniteSet(all)
      BY <1>0, FS_Union
    <3>2. arts \in SUBSET all
      BY Zenon
    <3> QED
      BY <3>1, <3>2, FS_Subset
  <2>3. ASSUME pc \in {"vit", "vision"}, Makes(arts), pc' = "done", at' = at
        PROVE  Stepped
    <3>1. spec' = spec /\ made' = made \cup arts
      BY <2>3 DEF Makes
    <3>2. LoopStep(arts)
      BY <2>3 DEF LoopStep
    <3> QED
      BY <2>2, <3>1, <3>2
  <2> QED
    BY <1>1, <2>1, <2>3
<1> QED
  BY <1>4, <1>5, <1>6, <1>7, <1>8, <1>9, <1>10, <1>11, <1>12, <1>13, <1>14, <1>15
  DEF BuildStep, BuildNext, GenaiNext

\* A context of a context length holds all ARs when weights are shared and one AR
\* otherwise; without one, it is the vision encoder's or the vision transformer's.
ContextsMade ==
    \A a \in made : a.kind = "context" =>
        /\ a = Art("context", a.cl, a.slice, a.ars)
        /\ IF a.cl = 0
           THEN /\ a.ars = {1}
                /\ a.slice = IF spec.lane = "low_level" THEN VisionSlice ELSE VitSlice
           ELSE IF spec.shared THEN a.ars = AllArs
           ELSE \E ar \in AllArs : a.ars = {ar}

\* The context lengths whose source model has been split.
Looped(i) ==
    i < at.cl \/ (i = at.cl /\ pc \in Contextual \cup {"slice"}) \/ Finished

ModelsTransformed ==
    \A i \in DOMAIN spec.cls : Looped(i) =>
        \A s \in Range(Slices) : \E a \in made :
            a.kind = "transformed" /\ a.cl = spec.cls[i] /\ a.slice = s

\* Vectors are bound to all ARs or to none.
VectorsBound ==
    /\ DOMAIN vectors # {} => VectorsGiven
    /\ spec.lane = "low_level" /\ pc \in {"publish_index", "succeeded"} /\ VectorsGiven =>
         vectors = BoundVectors /\ \A ar \in AllArs : VectorOf(ar) # NoManifest

\* What is compiled to be validated is compiled for each of several ARs.
StandalonesMade ==
    /\ pc = "standalone" =>
         \A i \in 1 .. at.ar - 1 : Art("standalone", Cl, Slice, {spec.ars[i]}) \in made
    /\ pc \in {"authorise", "joint"} =>
         \A ar \in AllArs : Art("standalone", Cl, Slice, {ar}) \in made
    /\ \A a \in made : a.kind \in {"standalone", "joint"} =>
         /\ a.cl # 0 /\ spec.shared
         /\ \/ pc = "failed"
            \/ pc = "standalone" /\ a.cl = Cl /\ a.slice = Slice
            \/ \A ar \in AllArs : Art("standalone", a.cl, a.slice, {ar}) \in made

\* Every context that is published has a diagnostic one, if they are asked for.
DiagnosticsMade ==
    /\ Asked
    /\ \A a \in made : a.kind = "diagnostic" => spec.diagnostic
    /\ spec.diagnostic =>
         \A a \in made : a.kind = "context" =>
            \/ pc = "failed"
            \/ pc \in {"compile", "diagnose"} /\ a.cl = Cl /\ a.slice = Slice
            \/ \E d \in made : d.kind = "diagnostic" /\ d.cl = a.cl /\ d.slice = a.slice

\* A build stays in its lane.
LanesApart ==
    spec.lane # "low_level" =>
        pc \in OtherLanes \cup {"prepare", "done", "publish_index", "succeeded", "failed"}

\* The index is made of what the build has returned, whatever tools write later.
IndexMade ==
    index # NoIndex \/ pc = "succeeded" =>
        index = MakeIndex(Result, Default, vectors, spec.base)

BuiltInv ==
    /\ IsFiniteSet(made)
    /\ ContextsMade /\ ModelsTransformed /\ VectorsBound /\ StandalonesMade
    /\ DiagnosticsMade /\ LanesApart /\ IndexMade

LEMMA BuiltInit == StagesInit => BuiltInv
<1> SUFFICES ASSUME StagesInit
             PROVE  BuiltInv
  OBVIOUS
<1>1. /\ spec \in Specs /\ at = [cl |-> 1, slice |-> 1, ar |-> 1]
      /\ made = {} /\ pc = "prepare" /\ index = NoIndex
  BY DEF StagesInit, Init, BuildInit
<1>2. IsFiniteSet(made)
  BY <1>1, FS_EmptySet
<1>3. ModelsTransformed
  <2>1. DOMAIN spec.cls \subseteq Nat \ {0}
    BY <1>1, SpecAssumption
  <2>2. \A i \in DOMAIN spec.cls : ~Looped(i)
    BY <1>1, <2>1 DEF Looped, Contextual, Reading, Finished
  <2> QED
    BY <2>2 DEF ModelsTransformed
<1>4. VectorsBound
  <2>1. vectors = << >>
    BY DEF StagesInit, Init
  <2>2. DOMAIN vectors = {}
    BY <2>1
  <2> QED
    BY <1>1, <2>2 DEF VectorsBound
<1> QED
  BY <1>1, <1>2, <1>3, <1>4 DEF BuiltInv, ContextsMade, StandalonesMade,
                                DiagnosticsMade, Asked, LanesApart, IndexMade

LEMMA ContextsStep ==
    ASSUME InLoops, PlanInv, BuiltInv, BuildStep
    PROVE  ContextsMade' /\ IsFiniteSet(made')
<1>1. spec' = spec /\ AllArs' = AllArs
  BY LoopSteps DEF BuiltInv, DiagnosticsMade, AllArs
<1>2. PICK arts : IsFiniteSet(arts) /\ made' = made \cup arts /\ LoopStep(arts)
  BY LoopSteps DEF BuiltInv, DiagnosticsMade
<1>3. IsFiniteSet(made')
  BY <1>2, FS_Union DEF BuiltInv
<1>4. ASSUME NEW a \in arts, a.kind = "context"
      PROVE  /\ a = Art("context", a.cl, a.slice, a.ars)
             /\ \/ /\ a.cl = 0 /\ a.ars = {1}
                   /\ a.slice = IF spec.lane = "low_level" THEN VisionSlice ELSE VitSlice
                \/ /\ a.cl # 0
                   /\ IF spec.shared THEN a.ars = AllArs
                      ELSE \E ar \in AllArs : a.ars = {ar}
  <2>1. \/ pc = "compile" /\ arts = {Art("context", Cl, Slice,
                                         IF spec.shared THEN AllArs ELSE {Ar})}
        \/ /\ pc \in {"vit", "vision"}
           /\ a.kind = "context" /\ \E k : a = Art(k, 0, IF pc = "vit" THEN VitSlice
                                                       ELSE VisionSlice, {1})
    BY <1>2, <1>4 DEF LoopStep, Art
  <2>2. Cl # 0 /\ Ar \in AllArs
    BY Configured
  <2>3. /\ pc = "vit" => spec.lane # "low_level"
        /\ pc = "vision" => spec.lane = "low_level"
    BY DEF PlanInv, BuiltInv, LanesApart, OtherLanes
  <2> QED
    BY <2>1, <2>2, <2>3 DEF Art
<1>5. ContextsMade'
  BY <1>1, <1>2, <1>4 DEF BuiltInv, ContextsMade, Art
<1> QED
  BY <1>3, <1>5

\* Statements of a build are executed while it is neither over nor has failed.
LEMMA StepsBeforeEnd == BuildStep => pc \notin {"succeeded", "failed"}
<1> SUFFICES ASSUME BuildStep
             PROVE  pc # "failed"
  BY StepsBeforeSuccess
<1>1. CASE Prepare \/ BuildVit \/ BindVectors \/ BindGenaiVectors \/ PublishIndex
  BY <1>1 DEF Prepare, BuildVit, BindVectors, BindGenaiVectors, PublishIndex, Publishable
<1>2. CASE GenaiNext
  BY <1>2 DEF GenaiNext, CheckContainer, BuildContainer, BuildOmni, DescribeSlices
<1>3. CASE \/ Start \/ ArConvert \/ Transform \/ BeginSlice \/ Convert \/ Structure
           \/ Vision
  BY <1>3 DEF Start, ArConvert, Transform, BeginSlice, Convert, Structure, Vision
<1>4. CASE \/ Standalone \/ Authorise \/ Joint \/ Runtime \/ Compile \/ Diagnose
           \/ Publish
  BY <1>4 DEF Standalone, Authorise, Joint, Runtime, Compile, Diagnose, Publish
<1> QED
  BY <1>1, <1>2, <1>3, <1>4 DEF BuildStep, BuildNext

\* What follows a slice.
LEMMA NextSliceLoops ==
    ASSUME InLoops, LiveInv, NextSlice
    PROVE  /\ pc' \in {"slice", "ar_convert", "done", "vision"}
           /\ at'.cl \in Nat
           /\ pc' = "slice" => at'.cl = at.cl
           /\ pc' = "ar_convert" => at'.cl = at.cl + 1
           /\ pc' \in {"done", "vision"} => at' = at /\ at.cl = Len(spec.cls)
<1>1. at.cl \in 1 .. Len(spec.cls) /\ Len(spec.cls) \in Nat
  BY Configured DEF InLoops
<1>2. CASE at.slice < Len(Slices)
  BY <1>1, <1>2 DEF NextSlice, InLoops
<1>3. CASE ~(at.slice < Len(Slices)) /\ at.cl < Len(spec.cls)
  BY <1>1, <1>3 DEF NextSlice, InLoops
<1>4. CASE ~(at.slice < Len(Slices)) /\ ~(at.cl < Len(spec.cls))
  BY <1>1, <1>4 DEF NextSlice, InLoops
<1> QED
  BY <1>2, <1>3, <1>4

LEMMA TransformedStep ==
    ASSUME InLoops, LiveInv, PlanInv, BuiltInv, BuildStep
    PROVE  ModelsTransformed'
<1>1. spec' = spec
  BY LoopSteps DEF BuiltInv, DiagnosticsMade
<1>2. PICK arts : made' = made \cup arts /\ LoopStep(arts)
  BY LoopSteps DEF BuiltInv, DiagnosticsMade
<1>3. /\ DOMAIN spec.cls = 1 .. Len(spec.cls) /\ Len(spec.cls) \in Nat
      /\ at.cl \in DOMAIN spec.cls
  BY Configured DEF InLoops
<1>4. ASSUME NEW i \in DOMAIN spec.cls, Looped(i)', ~Looped(i)
      PROVE  i = at.cl /\ arts = {Art("transformed", Cl, s, {Ar}) : s \in Range(Slices)}
  <2>1. CASE pc' = "failed" /\ at' = at
    BY <1>4, <2>1 DEF Looped, Contextual, Reading, Finished
  <2>2. CASE /\ pc \notin Contextual \cup {"ar_convert", "transform", "slice", "vit", "vision"}
             /\ pc' \notin Contextual \cup {"slice", "vision"}
             /\ pc' \in {"done", "publish_index", "succeeded"} =>
                  pc \in {"done", "publish_index"} \cup OtherLanes
             /\ at' = at
    BY <1>1, <1>4, <2>2 DEF Looped, Finished, PlanInv
  <2>3. CASE pc \in {"slice", "publish"} /\ NextSlice
    BY <1>1, <1>3, <1>4, <2>3, NextSliceLoops
       DEF Looped, Contextual, Reading, Finished
  <2>4. CASE pc \in {"vit", "vision"} /\ pc' = "done" /\ at' = at
    <3>1. pc = "vit" => spec.lane # "low_level"
      BY DEF PlanInv, OtherLanes
    <3> QED
      BY <1>1, <1>4, <2>4, <3>1 DEF Looped, Contextual, Reading, Finished
  <2>5. CASE pc = "ar_convert" /\ pc' \in {"ar_convert", "transform"} /\ at'.cl = at.cl
    BY <1>4, <2>5 DEF Looped, Contextual, Reading, Finished
  <2>6. CASE /\ pc = "transform" /\ pc' \in {"transform", "slice"} /\ at'.cl = at.cl
             /\ arts = {Art("transformed", Cl, s, {Ar}) : s \in Range(Slices)}
    BY <1>4, <2>6 DEF Looped, Contextual, Reading, Finished
  <2>7. CASE pc \in Contextual \cup {"slice"} /\ at'.cl = at.cl
             /\ pc' \in Contextual \cup {"slice"}
    BY <1>4, <2>7 DEF Looped, Contextual, Reading, Finished
  <2>8. ASSUME pc = "standalone", ForEachAr("authorise")
        PROVE  at'.cl = at.cl /\ pc' \in {"standalone", "authorise"}
    BY <1>1, <2>8, ForEachArStep
  <2> QED
    BY <1>2, <2>1, <2>2, <2>3, <2>4, <2>5, <2>6, <2>7, <2>8
    DEF LoopStep, Contextual, Reading
<1>5. ASSUME NEW i \in DOMAIN spec.cls, Looped(i)', NEW s \in Range(Slices)
      PROVE  \E a \in made' : /\ a.kind = "transformed" /\ a.cl = spec.cls[i]
                              /\ a.slice = s
  <2>1. CASE Looped(i)
    BY <1>2, <2>1 DEF BuiltInv, ModelsTransformed
  <2>2. CASE ~Looped(i)
    <3>1. Art("transformed", spec.cls[i], s, {Ar}) \in made'
      BY <1>2, <1>4, <1>5, <2>2 DEF Cl
    <3> QED
      BY <3>1 DEF Art
  <2> QED
    BY <2>1, <2>2
<1> QED
  BY <1>1, <1>5 DEF ModelsTransformed

LEMMA StandalonesStep ==
    ASSUME ProgressInv, LiveInv, PlanInv, BuiltInv, BuildStep
    PROVE  StandalonesMade'
<1>0. InLoops /\ pc # "failed"
  BY StepsBeforeEnd DEF ProgressInv
<1>1. spec' = spec /\ AllArs' = AllArs
  BY <1>0, LoopSteps DEF BuiltInv, DiagnosticsMade, AllArs
<1>2. PICK arts : made' = made \cup arts /\ LoopStep(arts)
  BY <1>0, LoopSteps DEF BuiltInv, DiagnosticsMade
<1> DEFINE Alone(a) == \A ar \in AllArs : Art("standalone", a.cl, a.slice, {ar}) \in made'
<1>3. AllArs = {spec.ars[i] : i \in 1 .. Len(spec.ars)} /\ Cl # 0
      /\ Len(spec.ars) \in Nat /\ at.ar \in 1 .. Len(spec.ars)
  <2>1. AllArs = {spec.ars[i] : i \in 1 .. Len(spec.ars)} /\ Len(spec.ars) \in Nat
    <3>1. spec.ars \in Seq(Nat \ {0})
      BY <1>0, Configured
    <3> QED
      BY <1>0, <3>1, Configured
  <2>2. Cl # 0
    BY <1>0, Configured
  <2>3. at.ar \in 1 .. Len(spec.ars)
    BY <1>0 DEF InLoops
  <2> QED
    BY <2>1, <2>2, <2>3
<1>4. CASE pc = "standalone" /\ ForEachAr("authorise")
           /\ arts = {Art("standalone", Cl, Slice, {Ar})}
  <2>1. /\ at'.cl = at.cl /\ at'.slice = at.slice
        /\ \/ at.ar < Len(spec.ars) /\ at'.ar = at.ar + 1 /\ pc' = pc
           \/ at.ar = Len(spec.ars) /\ at'.ar = 1 /\ pc' = "authorise"
    BY <1>0, <1>1, <1>4, ForEachArStep
  <2>2. Cl' = Cl /\ Slice' = Slice
    BY <1>1, <2>1 DEF Cl, Slice
  <2>3. \A i \in 1 .. at.ar : Art("standalone", Cl, Slice, {spec.ars[i]}) \in made'
    <3>1. \A i \in 1 .. at.ar - 1 : Art("standalone", Cl, Slice, {spec.ars[i]}) \in made
      BY <1>4 DEF BuiltInv, StandalonesMade
    <3>2. Art("standalone", Cl, Slice, {spec.ars[at.ar]}) \in made'
      BY <1>2, <1>4 DEF Ar
    <3>3. \A i \in 1 .. at.ar : i = at.ar \/ i \in 1 .. at.ar - 1
      BY <1>3
    <3> QED
      BY <1>2, <3>1, <3>2, <3>3
  <2>4. pc' = "standalone" =>
          \A i \in 1 .. at'.ar - 1 : Art("standalone", Cl, Slice, {spec.ars[i]}) \in made'
    BY <1>3, <1>4, <2>1, <2>3
  <2>5. pc' = "authorise" =>
          \A ar \in AllArs : Art("standalone", Cl, Slice, {ar}) \in made'
    BY <1>3, <1>4, <2>1, <2>3
  <2>6. ASSUME NEW a \in made', a.kind \in {"standalone", "joint"}
        PROVE  /\ a.cl # 0 /\ spec.shared
               /\ \/ pc' = "standalone" /\ a.cl = Cl /\ a.slice = Slice
                  \/ Alone(a)
    <3>1. (a.cl = Cl /\ a.slice = Slice) \/ a \in made
      BY <1>2, <1>4 DEF Art
    <3>2. spec.shared
      BY <1>4 DEF ProgressInv, SliceCompiled, Validating
    <3>3. CASE a.cl = Cl /\ a.slice = Slice
      BY <1>3, <1>4, <2>1, <2>5, <3>2, <3>3
    <3>4. CASE a \in made /\ ~ (a.cl = Cl /\ a.slice = Slice)
      BY <1>0, <1>2, <2>6, <3>4 DEF BuiltInv, StandalonesMade
    <3> QED
      BY <3>1, <3>3, <3>4
  <2> QED
    BY <1>1, <1>4, <2>1, <2>2, <2>4, <2>5, <2>6 DEF StandalonesMade
<1>5. ASSUME ~(/\ pc = "standalone" /\ ForEachAr("authorise")
               /\ arts = {Art("standalone", Cl, Slice, {Ar})})
      PROVE  StandalonesMade'
  <2>1. pc' = "failed" \/ pc # "standalone"
    BY <1>2, <1>5 DEF LoopStep, Contextual, Reading
  <2>2. \A a \in arts : a.kind # "standalone"
    BY <1>2, <1>5 DEF LoopStep, Art
  <2>3. pc' = "standalone" => at'.ar = 1
    <3>1. pc' = "standalone" => pc = "structure" /\ at' = at
      BY <1>2, <1>5 DEF LoopStep, Contextual, Reading, NextSlice
    <3> QED
      BY <3>1 DEF LiveInv, OutsideArs
  <2>4. pc' \in {"authorise", "joint"} => pc = "authorise" /\ pc' = "joint" /\ at' = at
    BY <1>2, <1>5 DEF LoopStep, Contextual, Reading, NextSlice
  <2>5. pc' \in {"authorise", "joint"} =>
          \A ar \in AllArs : Art("standalone", Cl', Slice', {ar}) \in made'
    <3>1. at' = at => Cl' = Cl /\ Slice' = Slice
      BY <1>1 DEF Cl, Slice
    <3> QED
      BY <1>2, <2>4, <3>1 DEF BuiltInv, StandalonesMade
  <2>6. ASSUME NEW a \in made', a.kind \in {"standalone", "joint"}
        PROVE  a.cl # 0 /\ spec.shared /\ (pc' = "failed" \/ Alone(a))
    <3>1. CASE a \in made
      BY <1>0, <1>2, <2>1, <2>6, <3>1 DEF BuiltInv, StandalonesMade
    <3>2. CASE a \in arts /\ a \notin made
      <4>1. pc = "joint" /\ a = Art("joint", Cl, Slice, AllArs)
        BY <1>2, <2>2, <2>6, <3>2 DEF LoopStep, Art
      <4>2. spec.shared
        BY <4>1 DEF ProgressInv, SliceCompiled, Validating
      <4>3. \A ar \in AllArs : Art("standalone", Cl, Slice, {ar}) \in made
        BY <4>1 DEF BuiltInv, StandalonesMade
      <4> QED
        BY <1>2, <1>3, <4>1, <4>2, <4>3 DEF Art
    <3> QED
      BY <1>2, <3>1, <3>2
  <2>7. pc' = "standalone" =>
          \A i \in 1 .. at'.ar - 1 : Art("standalone", Cl', Slice', {spec.ars[i]}) \in made'
    BY <2>3
  <2> QED
    BY <1>1, <2>5, <2>6, <2>7 DEF StandalonesMade
<1> QED
  BY <1>4, <1>5

LEMMA DiagnosticsStep ==
    ASSUME ProgressInv, PlanInv, BuiltInv, BuildStep
    PROVE  DiagnosticsMade'
<1>0. InLoops /\ pc # "failed"
  BY StepsBeforeEnd DEF ProgressInv
<1>1. spec' = spec
  BY <1>0, LoopSteps DEF BuiltInv, DiagnosticsMade
<1>2. PICK arts : made' = made \cup arts /\ LoopStep(arts)
  BY <1>0, LoopSteps DEF BuiltInv, DiagnosticsMade
<1>3. Asked /\ at'.cl = at.cl /\ at'.slice = at.slice => Cl' = Cl /\ Slice' = Slice
  BY <1>1 DEF Cl, Slice
<1>4. pc' = "diagnose" => spec.diagnostic
  <2>1. pc' = "diagnose" => pc \in {"compile", "diagnose"}
    BY <1>1, <1>2, ForEachArStep DEF LoopStep, Contextual, Reading, NextSlice, ForEachAr
  <2> QED
    BY <1>2, <2>1 DEF LoopStep, Contextual, Reading
<1>5. ASSUME NEW a \in arts, a.kind = "diagnostic"
      PROVE  spec.diagnostic
  BY <1>2, <1>5 DEF LoopStep, Art
<1>6. ASSUME spec.diagnostic, NEW a \in made', a.kind = "context"
      PROVE  \/ pc' = "failed"
             \/ pc' \in {"compile", "diagnose"} /\ a.cl = Cl' /\ a.slice = Slice'
             \/ \E d \in made' : d.kind = "diagnostic" /\ d.cl = a.cl /\ d.slice = a.slice
  <2>1. CASE pc = "compile" /\ pc' # "failed"
    <3>1. /\ pc' \in {"compile", "diagnose"} /\ Cl' = Cl /\ Slice' = Slice
          /\ \A x \in arts : x.cl = Cl /\ x.slice = Slice
      BY <1>2, <1>6, <2>1, <1>1 DEF LoopStep, Contextual, Reading, Art, Cl, Slice
    <3> QED
      BY <1>0, <1>2, <1>6, <3>1 DEF BuiltInv, DiagnosticsMade
  <2>2. CASE pc = "diagnose" /\ pc' # "failed"
    <3>0. /\ at'.cl = at.cl /\ at'.slice = at.slice
          /\ \E ars : arts = {Art("diagnostic", Cl, Slice, ars)}
      BY <1>2, <2>2 DEF LoopStep, Contextual, Reading
    <3>1. /\ Cl' = Cl /\ Slice' = Slice
          /\ \E ars : arts = {Art("diagnostic", Cl, Slice, ars)}
      <4>1. at'.cl = at.cl /\ at'.slice = at.slice
        BY <3>0
      <4>2. Cl' = Cl /\ Slice' = Slice
        BY <1>1, <2>2, <4>1 DEF Cl, Slice
      <4>3. \E ars : arts = {Art("diagnostic", Cl, Slice, ars)}
        BY <3>0
      <4> QED
        BY <4>2, <4>3
    <3>4. PICK ars : arts = {Art("diagnostic", Cl, Slice, ars)}
      BY <3>1
    <3>2. \E d \in made' : d.kind = "diagnostic" /\ d.cl = Cl /\ d.slice = Slice
      <4>1. Art("diagnostic", Cl, Slice, ars) \in made'
        BY <1>2, <3>4
      <4> QED
        BY <4>1 DEF Art
    <3>3. a \in made
      <4>1. a \notin arts
        BY <1>6, <3>4 DEF Art
      <4> QED
        BY <1>2, <1>6, <4>1
    <3> QED
      BY <1>0, <1>2, <1>6, <3>2, <3>3 DEF BuiltInv, DiagnosticsMade
  <2>3. CASE pc \notin {"compile", "diagnose"} /\ a \in made
    BY <1>0, <1>2, <1>6, <2>3 DEF BuiltInv, DiagnosticsMade
  <2>4. CASE pc \notin {"compile", "diagnose"} /\ a \in arts
    <3>1. /\ pc \in {"vit", "vision"}
          /\ arts = {Art(k, 0, IF pc = "vit" THEN VitSlice ELSE VisionSlice, {1}) :
                       k \in {"converted", "context"}
                             \cup (IF spec.diagnostic THEN {"diagnostic"} ELSE {})}
      BY <1>2, <1>6, <2>4 DEF LoopStep, Art
    <3> DEFINE d == Art("diagnostic", 0, IF pc = "vit" THEN VitSlice ELSE VisionSlice, {1})
    <3>2. d \in made'
      BY <1>2, <1>6, <3>1
    <3>3. d.kind = "diagnostic" /\ d.cl = a.cl /\ d.slice = a.slice
      BY <2>4, <3>1 DEF Art
    <3> QED
      BY <3>2, <3>3
  <2> QED
    BY <1>2, <2>1, <2>2, <2>3, <2>4
<1> QED
  BY <1>1, <1>2, <1>4, <1>5, <1>6 DEF BuiltInv, DiagnosticsMade, Asked

LEMMA VectorsStep ==
    ASSUME InLoops, PlanInv, BuiltInv, BuildStep
    PROVE  VectorsBound'
<1>1. spec' = spec
  BY LoopSteps DEF BuiltInv, DiagnosticsMade
<1>2. /\ VectorsGiven' <=> VectorsGiven
      /\ BoundVectors' = BoundVectors
      /\ \A ar : VectorOf(ar)' = VectorOf(ar)
      /\ AllArs' = AllArs
  BY <1>1 DEF VectorsGiven, BoundVectors, VectorOf, AllArs
<1>3. DOMAIN vectors' # {} => VectorsGiven'
  <2>1. CASE BindVectors
    BY <1>2, <2>1 DEF BindVectors, BuiltInv, VectorsBound
  <2>2. CASE BindGenaiVectors
    BY <1>2, <2>2 DEF BindGenaiVectors, BuiltInv, VectorsBound
  <2>3. CASE ~BindVectors /\ ~BindGenaiVectors
    <3>1. vectors' = vectors
      BY <2>3 DEF BuildStep, Prepare, BuildVit, PublishIndex
    <3> QED
      BY <1>2, <3>1 DEF BuiltInv, VectorsBound
  <2> QED
    BY <2>1, <2>2, <2>3
<1>4. CASE BindVectors
  BY <1>1, <1>2, <1>4, <1>3 DEF BindVectors, VectorsBound, Refuses, Raise
<1>5. CASE PublishIndex
  <2>1. vectors' = vectors /\ (pc = "publish_index" \/ spec.lane = "genai_builder")
    BY <1>5 DEF PublishIndex, Publishable
  <2> QED
    BY <1>1, <1>2, <1>3, <2>1 DEF BuiltInv, VectorsBound
<1>6. CASE ~BindVectors /\ ~PublishIndex
  <2>1. CASE BuildNext \/ GenaiNext
    <3>1. PICK arts : LoopStep(arts)
      BY LoopSteps DEF BuiltInv, DiagnosticsMade
    <3>2. pc # "publish_index" /\ pc # "done"
      <4>1. CASE GenaiNext
        BY <4>1 DEF GenaiNext, CheckContainer, BuildContainer, BuildOmni, DescribeSlices
      <4>2. CASE \/ Start \/ ArConvert \/ Transform \/ BeginSlice \/ Convert
                 \/ Structure \/ Vision
        BY <4>2 DEF Start, ArConvert, Transform, BeginSlice, Convert, Structure, Vision
      <4>3. CASE \/ Standalone \/ Authorise \/ Joint \/ Runtime \/ Compile \/ Diagnose
                 \/ Publish
        BY <4>3 DEF Standalone, Authorise, Joint, Runtime, Compile, Diagnose, Publish
      <4> QED
        BY <2>1, <4>1, <4>2, <4>3 DEF BuildNext
    <3>3. pc' \in {"publish_index", "succeeded"} => spec.lane # "low_level"
      BY <3>1, <3>2 DEF LoopStep, Contextual, Reading, NextSlice, PlanInv, ForEachAr
    <3> QED
      BY <1>1, <1>3, <3>3 DEF VectorsBound
  <2>2. CASE Prepare \/ BuildVit \/ BindGenaiVectors
    <3>1. pc' \notin {"publish_index", "succeeded"}
      BY <2>2 DEF Prepare, BuildVit, BindGenaiVectors, Call, Fails, Refuses, Raise
    <3> QED
      BY <1>3, <3>1 DEF VectorsBound
  <2> QED
    BY <1>6, <2>1, <2>2 DEF BuildStep
<1> QED
  BY <1>4, <1>5, <1>6

LEMMA LanesStep ==
    ASSUME InLoops, BuiltInv, BuildStep
    PROVE  LanesApart'
<1>1. spec' = spec
  BY LoopSteps DEF BuiltInv, DiagnosticsMade
<1>2. CASE Prepare \/ BuildVit
  BY <1>1, <1>2 DEF Prepare, BuildVit, Call, Fails, Refuses, Raise, LanesApart, OtherLanes
<1>3. CASE BindVectors \/ BindGenaiVectors \/ PublishIndex
  BY <1>1, <1>3 DEF BindVectors, BindGenaiVectors, PublishIndex, Refuses, Raise,
                    LanesApart, OtherLanes
<1>4. CASE GenaiNext
  <2>1. pc' \in {"omni_build", "genai_build", "genai_raw", "done", "failed"}
    BY <1>4 DEF GenaiNext, CheckContainer, BuildContainer, BuildOmni, DescribeSlices,
                Makes, Fails, Refuses, Raise
  <2> QED
    BY <2>1 DEF LanesApart, OtherLanes
<1>5. CASE BuildNext
  <2>1. pc \notin OtherLanes \cup {"prepare", "done", "publish_index", "succeeded", "failed"}
    <3>1. CASE \/ Start \/ ArConvert \/ Transform \/ BeginSlice \/ Convert \/ Structure
               \/ Vision
      BY <3>1 DEF Start, ArConvert, Transform, BeginSlice, Convert, Structure, Vision,
                  OtherLanes
    <3>2. CASE \/ Standalone \/ Authorise \/ Joint \/ Runtime \/ Compile \/ Diagnose
               \/ Publish
      BY <3>2 DEF Standalone, Authorise, Joint, Runtime, Compile, Diagnose, Publish,
                  OtherLanes
    <3> QED
      BY <1>5, <3>1, <3>2 DEF BuildNext
  <2> QED
    BY <1>1, <2>1 DEF BuiltInv, LanesApart
<1> QED
  BY <1>2, <1>3, <1>4, <1>5 DEF BuildStep

\* The order of a configuration.
Precedes(s, a, b) ==
    LET place(x) == CHOOSE i \in 0 .. Len(s.cls) :
                      IF x.cl = 0 THEN i = 0 ELSE i > 0 /\ s.cls[i] = x.cl
        slot(x) == CHOOSE i \in 0 .. Len(Slices) :
                      IF x.slice \in Range(Slices)
                      THEN i > 0 /\ Slices[i] = x.slice ELSE i = 0
        ar(x) == CHOOSE n \in x.ars : \A m \in x.ars : n <= m
    IN  \/ place(a) < place(b)
        \/ place(a) = place(b) /\ slot(a) < slot(b)
        \/ place(a) = place(b) /\ slot(a) = slot(b) /\ ar(a) < ar(b)

Arranged(s, S) == Ranked(S, {p \in S \X S : Precedes(s, p[1], p[2])})

\* The result is a function of the configuration, of what has been made and of
\* the slices of a container.
LEMMA ResultOf ==
    ASSUME spec' = spec, raw' = raw, 
           OnDisk({"context"})' = OnDisk({"context"}),
           OnDisk({"diagnostic", "standalone", "joint"})'
             = OnDisk({"diagnostic", "standalone", "joint"}),
           {b \in made : b.kind = "transformed"}' = {b \in made : b.kind = "transformed"},
           {b \in made : b.kind = "variant"}' = {b \in made : b.kind = "variant"}
    PROVE  Result' = Result /\ Default' = Default
<1>1. \A S : InOrder(S) = Arranged(spec, S)
  BY Zenon DEF InOrder, Before, Arranged, Precedes
<1>2. \A S : InOrder(S)' = Arranged(spec', S)
  BY Zenon DEF InOrder, Before, Arranged, Precedes
<1>3. InOrder(OnDisk({"context"}))' = InOrder(OnDisk({"context"}))
  BY <1>1, <1>2
<1>4. AllArs' = AllArs /\ Default' = Default /\ (RuntimeSupported' <=> RuntimeSupported)
  BY DEF AllArs, Default, RuntimeSupported
<1>5. RawRoutes' = RawRoutes
  BY <1>4 DEF RawRoutes
<1> DEFINE models == {<<a.cl, ar, a.slice>> :
                        a \in {b \in made : b.kind = "transformed"}, ar \in AllArs}
           variants == {<<a.cl, ar>> : a \in {b \in made : b.kind = "variant"},
                                       ar \in AllArs}
           runs == spec.lane # "genai_builder" \/ RuntimeSupported
           lane == IF spec.lane = "vit" THEN "low_level" ELSE spec.lane
           family == spec.family
           contexts == InOrder(OnDisk({"context"}))
           diagnostics == OnDisk({"diagnostic", "standalone", "joint"})
           Made(l, f, c, d, m, v, w, r) ==
             [lane |-> l, family |-> f, contexts |-> c, diagnostics |-> d,
              slice_models |-> m, variants |-> v, vision_model |-> FALSE, raw |-> w,
              supported |-> r]
<1>6. Result = Made(lane, family, contexts, diagnostics, models, variants, RawRoutes, runs)
  BY DEF Result
<1>7. Result' = Made(lane', family', contexts', diagnostics', models', variants',
                     RawRoutes', runs')
  BY DEF Result
<1>8. models' = models /\ variants' = variants
  BY <1>4
<1>9. runs' = runs
  BY <1>4
<1>10. lane' = lane /\ family' = family /\ contexts' = contexts
       /\ diagnostics' = diagnostics
  BY <1>3
<1> HIDE DEF lane, family, contexts, diagnostics, models, variants, runs, Made
<1> QED
  BY <1>4, <1>5, <1>6, <1>7, <1>8, <1>9, <1>10

LEMMA IndexStep ==
    ASSUME InLoops, PlanInv, BuiltInv, BuildStep
    PROVE  IndexMade'
<1>1. index = NoIndex
  BY StepsBeforeSuccess DEF PlanInv
<1>2. CASE PublishIndex
  <2>1. /\ index' = MakeIndex(Result, Default, vectors, spec.base)
        /\ spec' = spec /\ made' = made /\ raw' = raw /\ vectors' = vectors
    BY <1>2 DEF PublishIndex, genaiVars
  <2>2. Result' = Result /\ Default' = Default
    BY <2>1, ResultOf DEF OnDisk
  <2> QED
    BY <2>1, <2>2 DEF IndexMade
<1>3. CASE ~PublishIndex
  <2>1. index' = index
    BY <1>3 DEF BuildStep, Prepare, BuildVit, BindVectors, BindGenaiVectors
  <2>2. pc' # "succeeded"
    BY <1>3, SuccessPublishes
  <2> QED
    BY <1>1, <2>1, <2>2 DEF IndexMade
<1> QED
  BY <1>2, <1>3

\* Tools write files that are no part of a build, and nothing else moves on.
LEMMA BuiltQuiet ==
    ASSUME InLoops, BuiltInv, spec' = spec, pc' = pc, at' = at, raw' = raw,
           vectors' = vectors, index' = index,
           NEW arts, IsFiniteSet(arts), made' = made \cup arts,
           \A a \in arts : a.kind \in {"recompiled", "given"}
    PROVE  BuiltInv'
<1>1. /\ AllArs' = AllArs /\ Cl' = Cl /\ Slice' = Slice
      /\ VectorsGiven' <=> VectorsGiven
      /\ BoundVectors' = BoundVectors
      /\ \A ar : VectorOf(ar)' = VectorOf(ar)
      /\ \A i : Looped(i)' <=> Looped(i)
  BY DEF AllArs, Cl, Slice, VectorsGiven, BoundVectors, VectorOf, Looped, Finished
<1>2. IsFiniteSet(made')
  BY FS_Union DEF BuiltInv
<1>3. \A kinds : kinds \cap {"recompiled", "given"} = {} =>
         {b \in made' : b.kind \in kinds} = {b \in made : b.kind \in kinds}
  OBVIOUS
<1>4. ContextsMade'
  BY <1>1 DEF BuiltInv, ContextsMade
<1>5. ModelsTransformed'
  BY <1>1 DEF BuiltInv, ModelsTransformed
<1>6. VectorsBound'
  BY <1>1 DEF BuiltInv, VectorsBound
<1>7. StandalonesMade'
  BY <1>1 DEF BuiltInv, StandalonesMade
<1>8. DiagnosticsMade'
  BY <1>1 DEF BuiltInv, DiagnosticsMade, Asked
<1>10. LanesApart'
  BY DEF BuiltInv, LanesApart
<1>9. IndexMade'
  <2>1. /\ OnDisk({"context"})' = OnDisk({"context"})
        /\ OnDisk({"diagnostic", "standalone", "joint"})'
             = OnDisk({"diagnostic", "standalone", "joint"})
        /\ {b \in made : b.kind = "transformed"}' = {b \in made : b.kind = "transformed"}
        /\ {b \in made : b.kind = "variant"}' = {b \in made : b.kind = "variant"}
    BY DEF OnDisk
  <2>2. Result' = Result /\ Default' = Default
    BY <2>1, ResultOf
  <2> QED
    BY <2>2 DEF BuiltInv, IndexMade
<1> QED
  BY <1>2, <1>4, <1>5, <1>6, <1>7, <1>8, <1>9, <1>10 DEF BuiltInv

LEMMA BuiltStep ==
    ProgressInv /\ LiveInv /\ PlanInv /\ BuiltInv /\ [StagesNext]_stagesVars => BuiltInv'
<1> SUFFICES ASSUME ProgressInv, LiveInv, PlanInv, BuiltInv, [StagesNext]_stagesVars
             PROVE  BuiltInv'
  OBVIOUS
<1>0. InLoops /\ IsFiniteSet({})
  BY FS_EmptySet DEF ProgressInv
<1>1. CASE BuildStep
  BY <1>0, <1>1, ContextsStep, TransformedStep, VectorsStep, StandalonesStep,
     DiagnosticsStep, LanesStep, IndexStep DEF BuiltInv
<1>2. CASE ToolNext
  <2>1. \E arts : /\ IsFiniteSet(arts) /\ made' = made \cup arts
                  /\ \A a \in arts : a.kind \in {"recompiled", "given"}
    <3>1. CASE made' = made \cup {}
      BY <1>0, <3>1
    <3>2. ASSUME NEW kind \in {"recompiled", "given"},
                 made' = made \cup {Art(kind, call.cl, call.slice, call.ars)}
          PROVE  \E arts : /\ IsFiniteSet(arts) /\ made' = made \cup arts
                           /\ \A a \in arts : a.kind \in {"recompiled", "given"}
      <4> DEFINE a == Art(kind, call.cl, call.slice, call.ars)
      <4>1. IsFiniteSet({a}) /\ made' = made \cup {a}
        BY <3>2, FS_Singleton
      <4>2. a.kind = kind
        BY DEF Art
      <4> HIDE DEF a
      <4> QED
        BY <4>1, <4>2
    <3>3. CASE CompileModels
      BY <3>1, <3>2, <3>3 DEF CompileModels
    <3>4. CASE ~CompileModels
      BY <1>2, <3>1, <3>4 DEF ToolNext, ToolStep, PrepareVectors, ConvertAr,
                              TransformModel, ConvertModel, RunGraph, RunChain
    <3> QED
      BY <3>3, <3>4
  <2> QED
    BY <1>0, <1>2, <2>1, BuiltQuiet DEF ToolNext, genaiVars
<1>3. CASE UNCHANGED stageVars
  <2>1. made' = made \cup {}
    BY <1>3 DEF stageVars, buildVars
  <2> QED
    BY <1>0, <1>3, <2>1, BuiltQuiet DEF stageVars, buildVars, genaiVars
<1> QED
  BY <1>1, <1>2, <1>3 DEF StagesNext, stagesVars

-----------------------------------------------------------------------------
(* What the routes are made of.                                            *)

\* The smallest of some numbers.
LEMMA Smallest ==
    ASSUME NEW S \in SUBSET Nat, S # {}
    PROVE  \E m \in S : \A x \in S : m <= x
<1>1. PICK m \in S : \A x \in S : ~ (<<x, m>> \in OpToRel(<, Nat))
  BY NatLessThanWellFounded, WFMin
<1>2. \A x \in S : ~ (x < m)
  BY <1>1 DEF OpToRel
<1> QED
  BY <1>2

\* The build whose index later stages choose bindings from.
Indexed ==
    /\ pc = "succeeded" /\ spec.lane = "low_level"
    /\ spec.shared \/ Len(spec.ars) = 1

Contexts == OnDisk({"context"})

\* A context holds all ARs or one, or is of no context length.
LEMMA ContextsOf ==
    ASSUME ProgressInv, PlanInv, BuiltInv, NEW x \in Contexts
    PROVE  /\ x.ars \in SUBSET Nat /\ x.ars # {}
           /\ x = [slice |-> x.slice, cl |-> x.cl, ars |-> x.ars, tapped |-> FALSE]
           /\ Art("context", x.cl, x.slice, x.ars) \in made
           /\ IF x.cl = 0
              THEN /\ x.ars = {1}
                   /\ x.slice = IF spec.lane = "low_level" THEN VisionSlice ELSE VitSlice
              ELSE /\ IF spec.shared THEN x.ars = AllArs ELSE \E n \in AllArs : x.ars = {n}
                   /\ x.slice \in Range(Slices) /\ ~Unplanned(x.slice)
                   /\ \E i \in DOMAIN spec.cls : x.cl = spec.cls[i]
<1>1. PICK a \in made : /\ a.kind = "context"
                        /\ x = [slice |-> a.slice, cl |-> a.cl, ars |-> a.ars,
                                tapped |-> FALSE]
  BY DEF Contexts, OnDisk
<1>2. x.slice = a.slice /\ x.cl = a.cl /\ x.ars = a.ars
  BY <1>1
<1>3. AllArs \in SUBSET Nat /\ AllArs # {}
  BY Configured DEF ProgressInv
<1>4. a = Art("context", a.cl, a.slice, a.ars)
  BY <1>1 DEF BuiltInv, ContextsMade
<1>5. CASE a.cl = 0
  BY <1>1, <1>2, <1>4, <1>5 DEF BuiltInv, ContextsMade
<1>6. CASE a.cl # 0
  <2>1. IF spec.shared THEN a.ars = AllArs ELSE \E n \in AllArs : a.ars = {n}
    BY <1>1, <1>6 DEF BuiltInv, ContextsMade
  <2>2. /\ a.slice \in Range(Slices) /\ ~Unplanned(a.slice)
        /\ \E i \in DOMAIN spec.cls : a.cl = spec.cls[i]
    BY <1>1, <1>6 DEF PlanInv
  <2>3. a.ars \in SUBSET Nat /\ a.ars # {}
    BY <1>3, <2>1
  <2> QED
    BY <1>1, <1>2, <1>4, <1>6, <2>1, <2>2, <2>3
<1> QED
  BY <1>5, <1>6

\* All of them when later stages choose bindings.
LEMMA ContextsWhole ==
    ASSUME ProgressInv, PlanInv, BuiltInv, Indexed, NEW x \in Contexts, x.cl # 0
    PROVE  x.ars = AllArs
<1>1. CASE spec.shared
  BY <1>1, ContextsOf
<1>2. CASE ~spec.shared
  <2>1. Len(spec.ars) = 1 /\ AllArs = {spec.ars[i] : i \in 1 .. Len(spec.ars)}
    BY <1>2, Configured DEF Indexed, ProgressInv
  <2>2. \E n \in AllArs : x.ars = {n}
    BY <1>2, ContextsOf
  <2> QED
    BY <2>1, <2>2
<1> QED
  BY <1>1, <1>2

\* Contexts are sorted by context length, slice and AR, and no two of them have all
\* in common.
LEMMA ContextsOrdered ==
    ASSUME ProgressInv, PlanInv, BuiltInv
    PROVE  /\ IsFiniteSet(Contexts)
           /\ DOMAIN InOrder(Contexts) = 1 .. Cardinality(Contexts)
           /\ Elements(InOrder(Contexts)) = Contexts
<1> DEFINE place(x) == CHOOSE i \in 0 .. Len(spec.cls) :
                         IF x.cl = 0 THEN i = 0 ELSE i > 0 /\ spec.cls[i] = x.cl
           slot(x) == CHOOSE i \in 0 .. Len(Slices) :
                         IF x.slice \in Range(Slices)
                         THEN i > 0 /\ Slices[i] = x.slice ELSE i = 0
           ar(x) == CHOOSE n \in x.ars : \A m \in x.ars : n <= m
           R == {p \in Contexts \X Contexts : Before(p[1], p[2])}
<1>1. IsFiniteSet(Contexts)
  <2> DEFINE S == {b \in made : b.kind \in {"context"}}
             f == [a \in S |-> [slice |-> a.slice, cl |-> a.cl, ars |-> a.ars,
                                tapped |-> a.kind = "diagnostic"]]
  <2>1. IsFiniteSet(S)
    BY FS_Subset DEF BuiltInv
  <2>2. f \in Surjection(S, Contexts)
    BY DEF Surjection, Contexts, OnDisk
  <2> HIDE DEF S, f
  <2> QED
    BY <2>1, <2>2, FS_Surjection
<1>2. ASSUME NEW x \in Contexts
      PROVE  /\ place(x) \in 0 .. Len(spec.cls)
             /\ IF x.cl = 0 THEN place(x) = 0
                ELSE place(x) > 0 /\ spec.cls[place(x)] = x.cl
  <2>1. \E i \in 0 .. Len(spec.cls) :
           IF x.cl = 0 THEN i = 0 ELSE i > 0 /\ spec.cls[i] = x.cl
    <3>1. Len(spec.cls) \in Nat /\ DOMAIN spec.cls = 1 .. Len(spec.cls)
      BY Configured DEF ProgressInv
    <3>2. x.cl # 0 => \E i \in DOMAIN spec.cls : x.cl = spec.cls[i]
      BY ContextsOf
    <3> QED
      BY <3>1, <3>2
  <2> QED
    BY <2>1
<1>3. ASSUME NEW x \in Contexts
      PROVE  /\ slot(x) \in 0 .. Len(Slices)
             /\ x.slice \in Range(Slices) => Slices[slot(x)] = x.slice
  <2>1. \E i \in 0 .. Len(Slices) :
           IF x.slice \in Range(Slices) THEN i > 0 /\ Slices[i] = x.slice ELSE i = 0
    BY SlicesSeq
  <2> QED
    BY <2>1
<1>4. ASSUME NEW x \in Contexts
      PROVE  ar(x) \in Nat /\ ar(x) \in x.ars
  <2>1. x.ars \in SUBSET Nat /\ \E n \in x.ars : \A m \in x.ars : n <= m
    BY ContextsOf, Smallest
  <2> QED
    BY <2>1
<1>5. \A x, y \in Contexts :
         Before(x, y) <=> \/ place(x) < place(y)
                          \/ place(x) = place(y) /\ slot(x) < slot(y)
                          \/ place(x) = place(y) /\ slot(x) = slot(y) /\ ar(x) < ar(y)
  BY Zenon DEF Before
<1> HIDE DEF place, slot, ar
<1>6. ASSUME NEW x \in Contexts, NEW y \in Contexts, place(x) = place(y), slot(x) = slot(y),
             ar(x) = ar(y)
      PROVE  x = y
  <2>1. x.cl = y.cl
    BY <1>2, <1>6
  <2>2. x.slice = y.slice
    BY <1>3, <1>6, <2>1, ContextsOf
  <2>3. x.ars = y.ars
    <3>1. CASE x.cl = 0 \/ spec.shared
      BY <2>1, <3>1, ContextsOf
    <3>2. CASE ~(x.cl = 0 \/ spec.shared)
      <4>1. \E n : x.ars = {n}
        BY <3>2, ContextsOf
      <4>2. \E n : y.ars = {n}
        BY <2>1, <3>2, ContextsOf
      <4> QED
        BY <1>4, <1>6, <4>1, <4>2
    <3> QED
      BY <3>1, <3>2
  <2> QED
    BY <2>1, <2>2, <2>3, ContextsOf
<1>7. /\ \A x \in Contexts : place(x) \in Int /\ slot(x) \in Int /\ ar(x) \in Int
      /\ \A x, y : <<x, y>> \in R <=> x \in Contexts /\ y \in Contexts /\ Before(x, y)
  <2>1. Len(spec.cls) \in Nat /\ Len(Slices) \in Nat
    BY SlicesSeq, Configured DEF ProgressInv
  <2> QED
    BY <1>2, <1>3, <1>4, <2>1
<1> HIDE DEF R
<1>8. \A x \in Contexts : <<x, x>> \notin R
  BY <1>5, <1>7
<1>9. \A x, y, z \in Contexts : <<x, y>> \in R /\ <<y, z>> \in R => <<x, z>> \in R
  BY <1>5, <1>7
<1>10. \A x, y \in Contexts : x # y => <<x, y>> \in R \/ <<y, x>> \in R
  BY <1>5, <1>6, <1>7
<1>11. /\ DOMAIN Ranked(Contexts, R) = 1 .. Cardinality(Contexts)
       /\ \A i \in 1 .. Cardinality(Contexts) : Ranked(Contexts, R)[i] \in Contexts
       /\ \A a \in Contexts : \E i \in 1 .. Cardinality(Contexts) :
             Ranked(Contexts, R)[i] = a
  BY <1>1, <1>8, <1>9, <1>10, RankedOrder
<1>12. InOrder(Contexts) = Ranked(Contexts, R)
  BY DEF InOrder, R
<1> QED
  BY <1>1, <1>11, <1>12 DEF Elements

Planned == {s \in Range(Slices) : ~Unplanned(s)}

\* Every planned slice has its context, at each context length.
LEMMA BySlice ==
    ASSUME ProgressInv, LiveInv, PlanInv, BuiltInv, Indexed, NEW i \in DOMAIN spec.cls,
           NEW by, by = ContextsBySlice(InOrder(Contexts), spec.cls[i])
    PROVE  /\ DOMAIN by = Planned /\ Planned # {} /\ spec.cls[i] # 0
           /\ \A s \in Planned : by[s].ars = AllArs
           /\ \A s \in Planned : Art("context", spec.cls[i], s, AllArs) \in made
           /\ \E x \in Contexts : x.cl = spec.cls[i]
<1> DEFINE C == InOrder(Contexts)
           cl == spec.cls[i]
           n == Cardinality(Contexts)
           of(s) == {j \in DOMAIN C : C[j].cl = cl /\ C[j].slice = s}
<1>1. DOMAIN C = 1 .. n /\ Elements(C) = Contexts /\ n \in Nat
  BY ContextsOrdered, FS_CardinalityType
<1>2. cl # 0
  BY Configured DEF ProgressInv
<1>3. ASSUME NEW s \in Planned
      PROVE  \E x \in Contexts : x.cl = cl /\ x.slice = s
  <2>1. Finished
    BY DEF PlanInv, Finished, Indexed
  <2>2. PICK j \in DOMAIN Slices : s = Slices[j]
    BY SlicesSeq DEF Planned
  <2>3. SliceBuilt(cl, s) /\ ~Unplanned(s)
    BY <2>1, <2>2 DEF PlanInv, Passed, Planned
  <2>4. PICK ar \in AllArs : TRUE
    BY Configured DEF ProgressInv, InLoops
  <2>5. PICK a \in made : a.kind = "context" /\ a.cl = cl /\ a.slice = s
    BY <2>3, <2>4 DEF SliceBuilt
  <2> DEFINE x == [slice |-> a.slice, cl |-> a.cl, ars |-> a.ars,
                   tapped |-> a.kind = "diagnostic"]
  <2>6. x \in Contexts
    BY <2>5 DEF Contexts, OnDisk
  <2>7. x.cl = cl /\ x.slice = s
    BY <2>5
  <2> QED
    BY <2>6, <2>7
<1>4. \A x \in Contexts : x.cl = cl => x.slice \in Planned /\ x.ars = AllArs
  BY <1>2, ContextsOf, ContextsWhole DEF Planned
<1>5. {C[j].slice : j \in {k \in DOMAIN C : C[k].cl = cl}} = Planned
  <2> HIDE DEF C, cl
  <2>1. \A j \in DOMAIN C : C[j] \in Contexts
    BY <1>1 DEF Elements
  <2>2. \A x \in Contexts : \E j \in DOMAIN C : C[j] = x
    BY <1>1 DEF Elements
  <2>3. \A s \in Planned : \E j \in DOMAIN C : C[j].cl = cl /\ C[j].slice = s
    BY <1>3, <2>2
  <2> QED
    BY <1>4, <2>1, <2>3
<1>6. by = [s \in Planned |-> C[Max(of(s))]]
  BY <1>5 DEF ContextsBySlice
<1>7. ASSUME NEW s \in Planned
      PROVE  C[Max(of(s))] \in Contexts /\ C[Max(of(s))].cl = cl
             /\ C[Max(of(s))].slice = s
  <2> HIDE DEF C, cl
  <2>1. of(s) \in SUBSET (1 .. n)
    BY <1>1
  <2>2. of(s) # {}
    <3>1. PICK x \in Contexts : x.cl = cl /\ x.slice = s
      BY <1>3
    <3>2. PICK j \in DOMAIN C : C[j] = x
      BY <1>1 DEF Elements
    <3> QED
      BY <3>1, <3>2
  <2>3. Max(of(s)) \in of(s)
    BY <1>1, <2>1, <2>2, LastOf
  <2> QED
    BY <1>1, <2>3 DEF Elements
<1>8. ASSUME NEW s \in Planned
      PROVE  by[s].ars = AllArs /\ Art("context", cl, s, AllArs) \in made
  <2>1. by[s] \in Contexts /\ by[s].cl = cl /\ by[s].slice = s
    BY <1>6, <1>7
  <2>2. Art("context", by[s].cl, by[s].slice, by[s].ars) \in made
    BY <2>1, ContextsOf
  <2> QED
    BY <1>4, <2>1, <2>2
<1>9. Planned # {}
  <2>1. Range(Slices) # {Embedding}
    BY SliceAssumption
  <2>2. Range(Slices) # {}
    <3>1. 1 \in 1 .. Len(Slices)
      BY SlicesSeq
    <3> QED
      BY <3>1, SlicesSeq
  <2>3. \E s \in Range(Slices) : s # Embedding
    BY <2>1, <2>2
  <2> QED
    BY <2>3 DEF Planned, Unplanned
<1> QED
  BY <1>2, <1>3, <1>6, <1>8, <1>9

\* The routes are those of the planned slices, in the order of the split plan.
LEMMA RoutesOf ==
    ASSUME ProgressInv, LiveInv, PlanInv, BuiltInv, Indexed, NEW i \in DOMAIN spec.cls,
           NEW routes, routes = SliceRoutes(InOrder(Contexts), spec.cls[i])
    PROVE  /\ routes \in Seq(RouteOf) /\ Len(routes) > 0
           /\ {r.slice : r \in Elements(routes)} = Planned
           /\ \A k \in DOMAIN routes : routes[k].ars = AllArs
           /\ \A k, l \in DOMAIN routes : k < l =>
                \E a, b \in DOMAIN Slices :
                   a < b /\ Slices[a] = routes[k].slice /\ Slices[b] = routes[l].slice
<1> DEFINE by == ContextsBySlice(InOrder(Contexts), spec.cls[i])
           places == DOMAIN Slices
           T == {j \in places : Slices[j] \in DOMAIN by}
           R == {p \in places \X places : p[1] < p[2]}
           indices == Ranked(T, R)
           m == Cardinality(T)
           name(k) == Slices[indices[k]]
           before(k) == UNION {Outputs[name(j)] : j \in 1 .. k - 1}
<1>1. DOMAIN by = Planned /\ Planned # {} /\ \A s \in Planned : by[s].ars = AllArs
  BY BySlice
<1>2. routes = [k \in DOMAIN indices |-> Route(name(k), by[name(k)], before(k))]
  BY DEF SliceRoutes
<1> HIDE DEF by
<1>3. places = 1 .. Len(Slices) /\ Len(Slices) \in Nat
      /\ Range(Slices) = {Slices[j] : j \in places}
      /\ \A j \in places : Slices[j] \in STRING
  BY SlicesSeq, SliceAssumption
<1>4. IsFiniteSet(T) /\ m \in Nat
  <2>1. IsFiniteSet(1 .. Len(Slices))
    <3>1. 1 \in Int /\ Len(Slices) \in Int
      BY <1>3
    <3> QED
      BY <3>1, FS_Interval
  <2>2. T \in SUBSET places
    OBVIOUS
  <2>3. IsFiniteSet(places)
    BY <1>3, <2>1
  <2> HIDE DEF T, places
  <2>4. IsFiniteSet(T)
    BY <2>2, <2>3, FS_Subset
  <2> QED
    BY <2>4, FS_CardinalityType
<1>5. /\ \A a, b : <<a, b>> \in R <=> a \in places /\ b \in places /\ a < b
      /\ T \subseteq places /\ places \subseteq Int
  BY <1>3
<1> HIDE DEF R
<1>6. /\ DOMAIN indices = 1 .. m
      /\ \A k \in 1 .. m : indices[k] \in T
      /\ \A a \in T : \E k \in 1 .. m : indices[k] = a
      /\ \A k, l \in 1 .. m : k < l => <<indices[k], indices[l]>> \in R
  <2> HIDE DEF places, T
  <2>1. \A a \in T : <<a, a>> \notin R
    BY <1>5
  <2>2. \A a, b, c \in T : <<a, b>> \in R /\ <<b, c>> \in R => <<a, c>> \in R
    BY <1>5
  <2>3. \A a, b \in T : a # b => <<a, b>> \in R \/ <<b, a>> \in R
    BY <1>5
  <2> QED
    BY <1>4, <2>1, <2>2, <2>3, RankedOrder
<1> HIDE DEF indices, m
<1>7. \A k \in 1 .. m : name(k) \in Planned
  BY <1>1, <1>6
<1>8. \A s \in Planned : \E k \in 1 .. m : name(k) = s
  <2>1. \A s \in Planned : \E j \in T : Slices[j] = s
    BY <1>1, <1>3 DEF Planned
  <2> QED
    BY <1>6, <2>1
<1>9. ASSUME NEW k \in 1 .. m
      PROVE  /\ routes[k] = Route(name(k), by[name(k)], before(k))
             /\ routes[k].slice = name(k) /\ routes[k].ars = AllArs
             /\ routes[k] \in RouteOf
  <2>1. routes[k] = Route(name(k), by[name(k)], before(k))
    BY <1>2, <1>6
  <2>2. name(k) \in Planned /\ name(k) \in Range(Slices) /\ name(k) \in STRING
    BY <1>3, <1>7 DEF Planned
  <2>3. by[name(k)].ars = AllArs
    BY <1>1, <2>2
  <2>4. Inputs[name(k)] \subseteq Tensor /\ Outputs[name(k)] \subseteq Tensor
    <3> HIDE DEF name
    <3> QED
      BY <2>2, TensorAssumption
  <2>5. AllArs \subseteq Nat
    <3>1. InLoops
      BY DEF ProgressInv
    <3> QED
      BY <3>1, Configured
  <2> DEFINE s == name(k)
             previous == {t \in Inputs[s] : t \in before(k) /\ ~t.state}
             unresolved == {t \in Inputs[s] : t \notin previous /\ ~t.state}
  <2>6. routes[k] = [slice |-> s, ars |-> by[s].ars, inputs |-> Inputs[s],
                     outputs |-> Outputs[s], from_previous |-> previous,
                     unresolved |-> unresolved]
    BY <2>1 DEF Route
  <2>7. previous \in SUBSET Tensor /\ unresolved \in SUBSET Tensor
    BY <2>4
  <2> HIDE DEF name, before, previous, unresolved
  <2>8. routes[k] \in RouteOf
    BY <2>2, <2>3, <2>4, <2>5, <2>6, <2>7 DEF RouteOf
  <2> QED
    BY <2>1, <2>3, <2>6, <2>8
<1>10. DOMAIN routes = 1 .. m
  BY <1>2, <1>6
<1>11. routes \in Seq(RouteOf) /\ Len(routes) = m
  <2>1. routes \in [1 .. m -> RouteOf]
    BY <1>2, <1>6, <1>9, <1>10
  <2>2. m \in Nat
    BY <1>4 DEF m
  <2> QED
    BY <2>1, <2>2, SeqDef, LenProperties
<1>12. m > 0
  <2>1. PICK s \in Planned : TRUE
    BY <1>1
  <2>2. PICK k \in 1 .. m : name(k) = s
    BY <1>8
  <2>3. m \in Nat
    BY <1>4 DEF m
  <2> QED
    BY <2>2, <2>3
<1>13. {r.slice : r \in Elements(routes)} = Planned
  <2> HIDE DEF name, before
  <2>1. Elements(routes) = {routes[k] : k \in 1 .. m}
    BY <1>10 DEF Elements
  <2> QED
    BY <1>7, <1>8, <1>9, <2>1
<1>14. ASSUME NEW k \in DOMAIN routes, NEW l \in DOMAIN routes, k < l
       PROVE  \E a, b \in DOMAIN Slices :
                a < b /\ Slices[a] = routes[k].slice /\ Slices[b] = routes[l].slice
  <2>1. indices[k] \in places /\ indices[l] \in places /\ indices[k] < indices[l]
    BY <1>5, <1>6, <1>10, <1>14
  <2>2. routes[k].slice = Slices[indices[k]] /\ routes[l].slice = Slices[indices[l]]
    BY <1>9, <1>10
  <2> QED
    BY <2>1, <2>2
<1> QED
  BY <1>9, <1>10, <1>11, <1>12, <1>13, <1>14

\* For each AR the index selects the whole chain.
LEMMA WholeSelected ==
    ASSUME ProgressInv, LiveInv, PlanInv, BuiltInv, Indexed,
           NEW i \in DOMAIN spec.cls, NEW ar \in AllArs,
           NEW routes, routes = SliceRoutes(InOrder(Contexts), spec.cls[i]),
           NEW b, b = SelectBinding(index, ar, spec.cls[i], Text)
    PROVE  /\ b # NotSelectable
           /\ b = [scope |-> ScopeOf(routes), routes |-> routes, ar |-> ar,
                   cl |-> spec.cls[i], component |-> Text]
           /\ index.lane = "low_level" /\ index.vectors = vectors
           /\ index.default = Default /\ index.slice_models = Result.slice_models
<1> DEFINE cl == spec.cls[i]
           C == InOrder(Contexts)
<1>1. /\ routes \in Seq(RouteOf) /\ Len(routes) > 0
      /\ \A k \in DOMAIN routes : routes[k].ars = AllArs
  BY RoutesOf
<1>2. /\ \E x \in Contexts : x.cl = cl
      /\ cl # 0
  BY BySlice
<1>3. /\ index.lane = "low_level" /\ index.family = spec.family
      /\ index.end_to_end = (spec.family # "qwen3_vl")
      /\ index.vectors = vectors /\ index.default = Default
      /\ index.slice_models = Result.slice_models
      /\ cl \in DOMAIN index.routes /\ index.routes[cl] = routes
  <2>1. index = MakeIndex(Result, Default, vectors, spec.base) /\ spec.lane = "low_level"
    BY DEF BuiltInv, IndexMade, Indexed
  <2>2. /\ Result.lane = "low_level" /\ Result.family = spec.family
        /\ Result.contexts = C
        /\ Result.slice_models = {<<a.cl, n, a.slice>> :
                a \in {d \in made : d.kind = "transformed"}, n \in AllArs}
    BY <2>1 DEF Result, Contexts
  <2>3. Result.slice_models # {}
    <3>1. Finished
      BY DEF PlanInv, Finished, Indexed
    <3>2. PICK s \in Range(Slices) : TRUE
      BY SlicesSeq, BySlice DEF Planned
    <3>3. PICK a \in made : a.kind = "transformed"
      BY <3>1, <3>2 DEF BuiltInv, ModelsTransformed, Looped
    <3>4. <<a.cl, ar, a.slice>> \in Result.slice_models
      BY <2>2, <3>3
    <3> QED
      BY <3>4
  <2>4. cl \in {c.cl : c \in Elements(C)} \ {0}
    <3>1. Elements(C) = Contexts
      BY ContextsOrdered
    <3> HIDE DEF C
    <3> QED
      BY <1>2, <3>1
  <2> DEFINE cls == {c.cl : c \in Elements(Result.contexts)} \ {0}
  <2>5. index.routes = [c \in cls |-> SliceRoutes(Result.contexts, c)]
    BY <2>1, <2>3, Zenon DEF MakeIndex
  <2>6. /\ index.lane = Result.lane /\ index.family = Result.family
        /\ index.vectors = vectors /\ index.default = Default
        /\ index.slice_models = Result.slice_models
        /\ index.end_to_end = ~ (Result.lane = "low_level" /\ Result.family = "qwen3_vl")
    BY <2>1 DEF MakeIndex
  <2> QED
    BY <2>2, <2>4, <2>5, <2>6
<1> HIDE DEF cl
<1>4. SelectBinding(index, ar, cl, Text) = Chain(routes, cl, ar, Text)
  BY <1>3 DEF SelectBinding, Text
<1>5. Chain(routes, cl, ar, Text)
        = [scope |-> ScopeOf(routes), routes |-> routes, ar |-> ar, cl |-> cl,
           component |-> Text]
  BY <1>1 DEF Chain
<1>6. /\ b # NotSelectable
      /\ b = [scope |-> ScopeOf(routes), routes |-> routes, ar |-> ar, cl |-> cl,
              component |-> Text]
  <2>1. ScopeOf(routes) \in {"graph", "chain", "container"}
        /\ Text \in {"none", "text", "vision", "model"}
    <3>1. ScopeOf(routes) = "graph" \/ ScopeOf(routes) = "chain"
      BY DEF ScopeOf
    <3>2. Text = "text" \/ Text = "none"
      BY DEF Text
    <3>3. ScopeOf(routes) \in {"graph", "chain", "container"}
      BY <3>1
    <3>4. Text \in {"none", "text", "vision", "model"}
      BY <3>2
    <3> QED
      BY <3>3, <3>4
  <2>2. ar \in Nat /\ cl \in Nat
    <3>1. InLoops
      BY DEF ProgressInv
    <3>2. ar \in Nat
      BY <3>1, Configured
    <3>3. spec.cls[i] \in Nat
      BY <3>1, Configured
    <3> QED
      BY <3>2, <3>3 DEF cl
  <2>3. b = [scope |-> ScopeOf(routes), routes |-> routes, ar |-> ar, cl |-> cl,
             component |-> Text]
    BY <1>4, <1>5 DEF cl
  <2>4. routes \in Seq(RouteOf)
    BY <1>1
  <2>5. b \in BindingOf
    BY <2>1, <2>2, <2>3, <2>4 DEF BindingOf
  <2> QED
    BY <2>3, <2>5, BindingAssumption
<1> QED
  BY <1>3, <1>6 DEF cl

LEMMA IndexSuffices ==
    ProgressInv /\ LiveInv /\ PlanInv /\ BuiltInv => IndexUsable
<1> SUFFICES ASSUME ProgressInv, LiveInv, PlanInv, BuiltInv, Indexed,
                    NEW i \in DOMAIN spec.cls, NEW ar \in AllArs
             PROVE  LET cl == spec.cls[i]
                        b == SelectBinding(index, ar, cl, Text)
                    IN  /\ b # NotSelectable
                        /\ {r.slice : r \in Elements(b.routes)} = {p.slice : p \in Plan}
                        /\ \A r \in Elements(b.routes) :
                             Art("context", cl, r.slice, AllArs) \in made
                        /\ VectorsGiven => index.vectors[ar] # NoManifest
  BY Zenon DEF IndexUsable, Indexed, PlanInv
<1> DEFINE cl == spec.cls[i]
           routes == SliceRoutes(InOrder(Contexts), cl)
           b == SelectBinding(index, ar, cl, Text)
<1>1. {r.slice : r \in Elements(routes)} = Planned
  BY RoutesOf
<1>2. \A s \in Planned : Art("context", cl, s, AllArs) \in made
  BY BySlice
<1>3. {p.slice : p \in Plan} = Planned
  <2>1. \A s \in Planned : [slice |-> s, cl |-> cl, ars |-> AllArs] \in Plan
    BY DEF Plan, Planned, Unplanned
  <2>2. \A p \in Plan : p.slice \in Planned
    BY DEF Plan, Planned, Unplanned
  <2>3. \A s \in Planned : \E p \in Plan : p.slice = s
    BY <2>1
  <2> QED
    BY <2>2, <2>3
<1>4. b # NotSelectable /\ b.routes = routes /\ index.vectors = vectors
  <2>1. /\ b # NotSelectable
        /\ b = [scope |-> ScopeOf(routes), routes |-> routes, ar |-> ar,
                cl |-> cl, component |-> Text]
        /\ index.vectors = vectors
    BY WholeSelected
  <2> HIDE DEF routes, b, cl
  <2> QED
    BY <2>1
<1>5. VectorsGiven => index.vectors[ar] # NoManifest
  <2>1. pc = "succeeded"
    BY DEF PlanInv, Indexed
  <2>2. VectorsGiven => vectors = BoundVectors /\ VectorOf(ar) # NoManifest
    BY <2>1 DEF BuiltInv, VectorsBound, Indexed
  <2> QED
    BY <1>4, <2>2 DEF BoundVectors
<1>6. \A r \in Elements(routes) : Art("context", cl, r.slice, AllArs) \in made
  BY <1>1, <1>2
<1>7. /\ b # NotSelectable
      /\ {r.slice : r \in Elements(b.routes)} = {p.slice : p \in Plan}
      /\ \A r \in Elements(b.routes) : Art("context", cl, r.slice, AllArs) \in made
      /\ VectorsGiven => index.vectors[ar] # NoManifest
  <2> HIDE DEF b, routes, cl
  <2> QED
    BY <1>1, <1>3, <1>4, <1>5, <1>6
<1> QED
  BY <1>7

\* For every split plan and configuration: a build that has published its index can
\* be used for each AR and context length it was asked for, whatever tools are
\* called after it.  The index selects the whole chain, every context of which is on
\* disk with all ARs, and a vector manifest that fits the AR.
THEOREM IndexHolds == StagesSpec => []IndexUsable
<1>1. StagesInit => ProgressInv /\ LiveInv /\ PlanInv /\ BuiltInv
  BY ProgressInit, LiveInit, PlanInit, BuiltInit
<1>2. ProgressInv /\ LiveInv /\ PlanInv /\ BuiltInv /\ [StagesNext]_stagesVars
        => ProgressInv' /\ LiveInv' /\ PlanInv' /\ BuiltInv'
  BY ProgressStep, LiveStep, PlanStep, BuiltStep
<1>3. ProgressInv /\ LiveInv /\ PlanInv /\ BuiltInv => IndexUsable
  BY IndexSuffices
<1> QED
  BY <1>1, <1>2, <1>3, PTL DEF StagesSpec

=============================================================================
