-------------------------- MODULE ExecutionProofs --------------------------
(***************************************************************************)
(* Proofs about what a chain of slices executes and what validate,         *)
(* benchmark and diagnose say about it, for every split plan and wiring of *)
(* slices, every set of configurations, of calls and of deviating slices,  *)
(* and any number of calls.                                                *)
(***************************************************************************)
EXTENDS StagesProofs

-----------------------------------------------------------------------------
(* How a chain is executed.                                                *)

\* What holds at 0 and is handed on from one position to the next.
LEMMA Positions ==
    ASSUME NEW n \in Nat, NEW S, 0 \in S, \A i \in 1 .. n : i - 1 \in S => i \in S
    PROVE  0 .. n \subseteq S
<1> SUFFICES ASSUME NEW j \in 0 .. n, j \notin S
             PROVE  FALSE
  OBVIOUS
<1> DEFINE bad == {i \in 0 .. n : i \notin S}
<1>1. bad \in SUBSET Nat /\ bad # {}
  OBVIOUS
<1>2. PICK m \in bad : \A x \in bad : m <= x
  BY <1>1, Smallest
<1>3. m \in 1 .. n /\ m - 1 \in 0 .. n /\ ~ (m <= m - 1)
  BY <1>2
<1>4. m - 1 \in S
  BY <1>2, <1>3
<1> QED
  BY <1>2, <1>3, <1>4

\* One slice after the other.
LEMMA SlicesFollow ==
    ASSUME NEW runner, NEW s, NEW begun, Len(runner.routes) \in Nat
    PROVE  /\ AfterSlices(runner, s, begun)[0] = begun
           /\ \A i \in 1 .. Len(runner.routes) :
                AfterSlices(runner, s, begun)[i]
                  = RunSlice(runner, runner.routes[i], s.goldens,
                             AfterSlices(runner, s, begun)[i - 1])
<1> DEFINE n == Len(runner.routes)
           rs == AfterSlices(runner, s, begun)
<1> HIDE DEF n, rs
<1>0. n \in Nat
  BY DEF n
<1> DEFINE R(i, x) == RunSlice(runner, runner.routes[i], s.goldens, x)
           S == {m \in 0 .. n : \E f :
                   f = [i \in 0 .. m |-> IF i = 0 THEN begun ELSE R(i, f[i - 1])]}
<1>1. 0 \in S
  <2> DEFINE f == [i \in 0 .. 0 |-> begun]
  <2> HIDE DEF R
  <2>1. f = [i \in 0 .. 0 |-> IF i = 0 THEN begun ELSE R(i, f[i - 1])]
    BY <1>0
  <2> HIDE DEF f
  <2> QED
    BY <1>0, <2>1
<1>2. ASSUME NEW m \in 1 .. n, m - 1 \in S
      PROVE  m \in S
  <2> HIDE DEF R
  <2>1. PICK f : f = [i \in 0 .. m - 1 |-> IF i = 0 THEN begun ELSE R(i, f[i - 1])]
    BY <1>2
  <2> DEFINE g == [i \in 0 .. m |-> IF i = m THEN R(m, f[m - 1]) ELSE f[i]]
  <2>2. ASSUME NEW i \in 0 .. m
        PROVE  g[i] = IF i = 0 THEN begun ELSE R(i, g[i - 1])
    <3>1. CASE i = m
      BY <3>1
    <3>2. CASE i # m
      <4>1. g[i] = f[i] /\ i \in 0 .. m - 1 /\ (i # 0 => i - 1 \in 0 .. m - 1 /\ i - 1 # m)
        BY <3>2
      <4>2. f[i] = IF i = 0 THEN begun ELSE R(i, f[i - 1])
        BY <2>1, <4>1
      <4> QED
        BY <4>1, <4>2
    <3> QED
      BY <3>1, <3>2
  <2>3. g = [i \in 0 .. m |-> IF i = 0 THEN begun ELSE R(i, g[i - 1])]
    BY <2>2
  <2> HIDE DEF g
  <2> QED
    BY <2>3
<1>3. n \in S
  <2> HIDE DEF S
  <2>1. \A m \in 1 .. n : m - 1 \in S => m \in S
    BY <1>2
  <2>2. 0 .. n \subseteq S
    BY <1>0, <1>1, <2>1, Positions
  <2> QED
    BY <1>0, <2>2
<1>4. PICK f : f = [i \in 0 .. n |-> IF i = 0 THEN begun ELSE R(i, f[i - 1])]
  BY <1>3
<1>5. rs = [i \in 0 .. n |-> IF i = 0 THEN begun ELSE R(i, rs[i - 1])]
  BY <1>4 DEF AfterSlices, rs, n
<1> HIDE DEF R
<1>6. rs[0] = begun /\ \A i \in 1 .. n : rs[i] = R(i, rs[i - 1])
  BY <1>0, <1>5
<1> QED
  BY <1>6 DEF R, rs, n

\* One step after the other.
LEMMA StepsFollow ==
    ASSUME NEW runner, NEW steps, NEW state, Len(steps) \in Nat
    PROVE  /\ AfterSteps(runner, steps, state)[0]
                = [failed |-> FALSE, step |-> 0, ar |-> 0, available |-> << >>,
                   state |-> state, executions |-> << >>]
           /\ \A k \in 1 .. Len(steps) :
                AfterSteps(runner, steps, state)[k]
                  = RunOnce(runner, steps[k], AfterSteps(runner, steps, state)[k - 1])
<1> DEFINE n == Len(steps)
           ks == AfterSteps(runner, steps, state)
<1> HIDE DEF n, ks
<1>0. n \in Nat
  BY DEF n
<1> DEFINE first == [failed |-> FALSE, step |-> 0, ar |-> 0, available |-> << >>,
                     state |-> state, executions |-> << >>]
           R(k, x) == RunOnce(runner, steps[k], x)
           S == {m \in 0 .. n : \E f :
                   f = [k \in 0 .. m |-> IF k = 0 THEN first ELSE R(k, f[k - 1])]}
<1> HIDE DEF first
<1>1. 0 \in S
  <2> DEFINE f == [k \in 0 .. 0 |-> first]
  <2> HIDE DEF R
  <2>1. f = [k \in 0 .. 0 |-> IF k = 0 THEN first ELSE R(k, f[k - 1])]
    BY <1>0
  <2> HIDE DEF f
  <2> QED
    BY <1>0, <2>1
<1>2. ASSUME NEW m \in 1 .. n, m - 1 \in S
      PROVE  m \in S
  <2> HIDE DEF R
  <2>1. PICK f : f = [k \in 0 .. m - 1 |-> IF k = 0 THEN first ELSE R(k, f[k - 1])]
    BY <1>2
  <2> DEFINE g == [k \in 0 .. m |-> IF k = m THEN R(m, f[m - 1]) ELSE f[k]]
  <2>2. ASSUME NEW k \in 0 .. m
        PROVE  g[k] = IF k = 0 THEN first ELSE R(k, g[k - 1])
    <3>1. CASE k = m
      BY <3>1
    <3>2. CASE k # m
      <4>1. g[k] = f[k] /\ k \in 0 .. m - 1 /\ (k # 0 => k - 1 \in 0 .. m - 1 /\ k - 1 # m)
        BY <3>2
      <4>2. f[k] = IF k = 0 THEN first ELSE R(k, f[k - 1])
        BY <2>1, <4>1
      <4> QED
        BY <4>1, <4>2
    <3> QED
      BY <3>1, <3>2
  <2>3. g = [k \in 0 .. m |-> IF k = 0 THEN first ELSE R(k, g[k - 1])]
    BY <2>2
  <2> HIDE DEF g
  <2> QED
    BY <2>3
<1>3. n \in S
  <2> HIDE DEF S
  <2>1. \A m \in 1 .. n : m - 1 \in S => m \in S
    BY <1>2
  <2>2. 0 .. n \subseteq S
    BY <1>0, <1>1, <2>1, Positions
  <2> QED
    BY <1>0, <2>2
<1>4. PICK f : f = [k \in 0 .. n |-> IF k = 0 THEN first ELSE R(k, f[k - 1])]
  BY <1>3
<1>5. ks = [k \in 0 .. n |-> IF k = 0 THEN first ELSE R(k, ks[k - 1])]
  BY <1>4 DEF AfterSteps, first, ks, n
<1> HIDE DEF R
<1>6. ks[0] = first /\ \A k \in 1 .. n : ks[k] = R(k, ks[k - 1])
  BY <1>0, <1>5
<1> QED
  BY <1>6 DEF R, first, ks, n

\* The fields of a run.
RunOf(run) ==
    run = [failed |-> run.failed, step |-> run.step, ar |-> run.ar,
           available |-> run.available, state |-> run.state,
           executions |-> run.executions]

\* What the invocation of a slice makes of a run.
RunsTo(runner, route, goldens, run, done, next) ==
    /\ RunOf(next) /\ next.step = run.step /\ next.ar = run.ar
    /\ IF run.failed \/ run.ar \notin route.ars
          \/ Missing(route, runner.mode, Golden(runner, route, goldens), run) # {}
       THEN next.failed
       ELSE /\ ~next.failed
            /\ next.executions = Append(run.executions, done)
            /\ next.available = Over(done.outputs, run.available)
            /\ next.state = Over(done.state, run.state)

LEMMA SliceRuns ==
    ASSUME NEW runner, NEW route, NEW goldens, NEW run, RunOf(run)
    PROVE  RunsTo(runner, route, goldens, run,
                  Invocation(runner, route, Golden(runner, route, goldens), run),
                  RunSlice(runner, route, goldens, run))
<1> DEFINE next == RunSlice(runner, route, goldens, run)
           golden == Golden(runner, route, goldens)
           done == Invocation(runner, route, golden, run)
           refused == run.failed \/ run.ar \notin route.ars
                      \/ Missing(route, runner.mode, golden, run) # {}
<1>1. next = IF refused
             THEN [run EXCEPT !.failed = TRUE]
             ELSE [run EXCEPT !.executions = Append(@, done),
                              !.available = Over(done.outputs, @),
                              !.state = Over(done.state, @)]
  BY DEF RunSlice
<1> HIDE DEF next, done, refused
<1>2. ASSUME refused
      PROVE  RunOf(next) /\ next.step = run.step /\ next.ar = run.ar /\ next.failed
  <2>1. next = [run EXCEPT !.failed = TRUE]
    BY <1>1, <1>2
  <2> QED
    BY <2>1 DEF RunOf
<1>3. ASSUME ~refused
      PROVE  /\ RunOf(next) /\ next.step = run.step /\ next.ar = run.ar
             /\ next.failed = run.failed
             /\ next.executions = Append(run.executions, done)
             /\ next.available = Over(done.outputs, run.available)
             /\ next.state = Over(done.state, run.state)
  <2>1. next = [run EXCEPT !.executions = Append(@, done),
                           !.available = Over(done.outputs, @),
                           !.state = Over(done.state, @)]
    BY <1>1, <1>3
  <2> QED
    BY <2>1 DEF RunOf
<1>4. ~refused => ~run.failed
  BY DEF refused
<1>5. /\ RunOf(next) /\ next.step = run.step /\ next.ar = run.ar
      /\ IF refused
         THEN next.failed
         ELSE /\ ~next.failed
              /\ next.executions = Append(run.executions, done)
              /\ next.available = Over(done.outputs, run.available)
              /\ next.state = Over(done.state, run.state)
  BY <1>2, <1>3, <1>4
<1> QED
  BY <1>5 DEF RunsTo, refused, next, done

\* The slices of a chain that does not fail, one by one: the run after each of them.
SliceBySlice(runner, s, begun, n, rs, e) ==
    /\ rs[0] = begun
    /\ \A i \in 0 .. n : /\ RunOf(rs[i]) /\ ~rs[i].failed
                         /\ rs[i].step = begun.step /\ rs[i].ar = begun.ar
    /\ \A i \in 1 .. n :
         /\ begun.ar \in runner.routes[i].ars
         /\ Missing(runner.routes[i], runner.mode,
                    Golden(runner, runner.routes[i], s.goldens), rs[i - 1]) = {}
         /\ rs[i].executions = Append(rs[i - 1].executions, e[i])
         /\ rs[i].available = Over(e[i].outputs, rs[i - 1].available)
         /\ rs[i].state = Over(e[i].state, rs[i - 1].state)

LEMMA SlicesRun ==
    ASSUME NEW runner, NEW s, NEW begun, RunOf(begun),
           NEW n, n \in Nat, n = Len(runner.routes),
           NEW rs, rs = AfterSlices(runner, s, begun), ~rs[n].failed,
           NEW e, e = [i \in 1 .. n |->
                         Invocation(runner, runner.routes[i],
                                    Golden(runner, runner.routes[i], s.goldens), rs[i - 1])]
    PROVE  SliceBySlice(runner, s, begun, n, rs, e)
<1>1. /\ rs[0] = begun
      /\ \A i \in 1 .. n :
           rs[i] = RunSlice(runner, runner.routes[i], s.goldens, rs[i - 1])
  BY SlicesFollow
<1> DEFINE route(i) == runner.routes[i]
           golden(i) == Golden(runner, route(i), s.goldens)
<1>2. ASSUME NEW i \in 1 .. n, RunOf(rs[i - 1])
      PROVE  RunsTo(runner, route(i), s.goldens, rs[i - 1], e[i], rs[i])
  <2>1. e[i] = Invocation(runner, route(i), golden(i), rs[i - 1])
    OBVIOUS
  <2>2. rs[i] = RunSlice(runner, route(i), s.goldens, rs[i - 1])
    BY <1>1
  <2> QED
    BY <1>2, <2>1, <2>2, SliceRuns
<1>3. \A i \in 0 .. n : RunOf(rs[i]) /\ rs[i].step = begun.step /\ rs[i].ar = begun.ar
  <2> DEFINE S == {i \in 0 .. n : /\ RunOf(rs[i])
                                  /\ rs[i].step = begun.step /\ rs[i].ar = begun.ar}
  <2>1. 0 \in S
    BY <1>1
  <2> HIDE DEF golden, route
  <2>2. ASSUME NEW i \in 1 .. n, i - 1 \in S
        PROVE  i \in S
    <3>1. RunOf(rs[i - 1]) /\ rs[i - 1].step = begun.step /\ rs[i - 1].ar = begun.ar
      BY <2>2
    <3>2. RunOf(rs[i]) /\ rs[i].step = rs[i - 1].step /\ rs[i].ar = rs[i - 1].ar
      BY <1>2, <3>1 DEF RunsTo
    <3> QED
      BY <3>1, <3>2
  <2> HIDE DEF S
  <2>4. \A i \in 1 .. n : i - 1 \in S => i \in S
    BY <2>2
  <2>3. 0 .. n \subseteq S
    BY <2>1, <2>4, Positions
  <2> QED
    BY <2>3 DEF S
<1>4. ASSUME NEW k \in 0 .. n, rs[k].failed
      PROVE  FALSE
  <2> DEFINE S == {i \in 0 .. n : k <= i => rs[i].failed}
  <2>1. 0 \in S
    BY <1>4
  <2>2. ASSUME NEW i \in 1 .. n, i - 1 \in S
        PROVE  i \in S
    <3>1. CASE k = i
      BY <1>4, <3>1
    <3>2. CASE k <= i - 1
      <4>1. rs[i - 1].failed /\ RunOf(rs[i - 1])
        BY <1>3, <2>2, <3>2
      <4> HIDE DEF golden, route
      <4>2. rs[i].failed
        BY <1>2, <4>1 DEF RunsTo
      <4> QED
        BY <4>2
    <3>3. CASE ~ (k <= i)
      BY <3>3
    <3> QED
      BY <3>1, <3>2, <3>3
  <2> HIDE DEF S
  <2>3. \A i \in 1 .. n : i - 1 \in S => i \in S
    BY <2>2
  <2>4. 0 .. n \subseteq S
    BY <2>1, <2>3, Positions
  <2> QED
    BY <2>4 DEF S
<1>5. ASSUME NEW i \in 1 .. n
      PROVE  /\ begun.ar \in route(i).ars
             /\ Missing(route(i), runner.mode, golden(i), rs[i - 1]) = {}
             /\ rs[i].executions = Append(rs[i - 1].executions, e[i])
             /\ rs[i].available = Over(e[i].outputs, rs[i - 1].available)
             /\ rs[i].state = Over(e[i].state, rs[i - 1].state)
  <2>1. i - 1 \in 0 .. n /\ i \in 0 .. n
    OBVIOUS
  <2>2. RunOf(rs[i - 1]) /\ rs[i - 1].ar = begun.ar /\ ~rs[i].failed
    BY <1>3, <1>4, <2>1
  <2> HIDE DEF route
  <2> QED
    BY <1>2, <2>2 DEF RunsTo
<1> QED
  BY <1>1, <1>3, <1>4, <1>5 DEF SliceBySlice

-----------------------------------------------------------------------------
\* What it means for routes to belong together.
Linked(routes) ==
    /\ \A i \in DOMAIN routes :
         /\ routes[i].inputs = Inputs[routes[i].slice]
         /\ routes[i].outputs = Outputs[routes[i].slice]
         /\ routes[i].from_previous
              = {t \in routes[i].inputs :
                   ~t.state /\ \E j \in 1 .. i - 1 : t \in routes[j].outputs}
         /\ \E t \in routes[i].outputs : ~t.state
         /\ \A t \in routes[i].inputs : t.state =>
              \E u \in routes[i].outputs : u.state /\ StateSlot(u) = StateSlot(t)
    /\ \A i, j \in DOMAIN routes :
         \A t \in routes[i].outputs \cap routes[j].inputs : t.state \/ i < j
    /\ \A i, j \in DOMAIN routes : i # j =>
         /\ routes[i].slice # routes[j].slice
         /\ \A t \in routes[i].outputs \cap routes[j].outputs : t.state
         /\ \A t \in routes[i].inputs \cup routes[i].outputs,
               u \in routes[j].inputs \cup routes[j].outputs :
              t.state /\ u.state => StateSlot(t) # StateSlot(u)

LEMMA ChainedLinks ==
    ASSUME NEW routes, NEW n \in Nat, DOMAIN routes = 1 .. n, Chained(routes)
    PROVE  Linked(routes)
<1> DEFINE s(i) == routes[i].slice
           before(i) == UNION {Outputs[s(j)] : j \in 1 .. i - 1}
           names == [i \in DOMAIN routes |-> routes[i].slice]
<1>1. Wired(names) /\ DOMAIN names = 1 .. n /\ \A i \in 1 .. n : names[i] = s(i)
  BY DEF Chained
<1>2. \A i \in 1 .. n : routes[i] = Route(s(i), routes[i], before(i))
  BY DEF Chained
<1> HIDE DEF names
<1>3. ASSUME NEW i \in 1 .. n
      PROVE  /\ routes[i].inputs = Inputs[s(i)]
             /\ routes[i].outputs = Outputs[s(i)]
             /\ routes[i].from_previous = {t \in Inputs[s(i)] : t \in before(i) /\ ~t.state}
  <2> DEFINE previous == {t \in Inputs[s(i)] : t \in before(i) /\ ~t.state}
             unresolved == {t \in Inputs[s(i)] : t \notin previous /\ ~t.state}
  <2>1. routes[i] = Route(s(i), routes[i], before(i))
    BY <1>2
  <2>2. Route(s(i), routes[i], before(i))
          = [slice |-> s(i), ars |-> routes[i].ars, inputs |-> Inputs[s(i)],
             outputs |-> Outputs[s(i)], from_previous |-> previous,
             unresolved |-> unresolved]
    BY DEF Route
  <2> HIDE DEF s, previous, unresolved, before
  <2>3. /\ Route(s(i), routes[i], before(i)).inputs = Inputs[s(i)]
        /\ Route(s(i), routes[i], before(i)).outputs = Outputs[s(i)]
        /\ Route(s(i), routes[i], before(i)).from_previous = previous
    BY <2>2
  <2>4. /\ routes[i].inputs = Inputs[s(i)]
        /\ routes[i].outputs = Outputs[s(i)]
        /\ routes[i].from_previous = previous
    BY <2>1, <2>3
  <2> QED
    BY <2>4 DEF previous
<1>4. ASSUME NEW i \in 1 .. n, NEW j \in 1 .. n
      PROVE  /\ \E t \in Outputs[s(i)] : ~t.state
             /\ \A t \in Inputs[s(i)] : t.state =>
                  \E u \in Outputs[s(i)] : u.state /\ StateSlot(u) = StateSlot(t)
             /\ \A t \in Outputs[s(i)] \cap Inputs[s(j)] : t.state \/ i < j
             /\ i # j =>
                  /\ \A t \in Outputs[s(i)] \cap Outputs[s(j)] : t.state
                  /\ \A t \in Inputs[s(i)] \cup Outputs[s(i)],
                        u \in Inputs[s(j)] \cup Outputs[s(j)] :
                       t.state /\ u.state => StateSlot(t) # StateSlot(u)
  <2>1. names[i] = s(i) /\ names[j] = s(j) /\ i \in DOMAIN names /\ j \in DOMAIN names
    BY <1>1
  <2> DEFINE W(a, b) ==
               /\ \E t \in Outputs[a] : ~t.state
               /\ \A t \in Inputs[a] : t.state =>
                    \E u \in Outputs[a] : u.state /\ StateSlot(u) = StateSlot(t)
               /\ \A t \in Outputs[a] \cap Inputs[b] : t.state \/ i < j
               /\ i # j =>
                    /\ \A t \in Outputs[a] \cap Outputs[b] : t.state
                    /\ \A t \in Inputs[a] \cup Outputs[a], u \in Inputs[b] \cup Outputs[b] :
                         t.state /\ u.state => StateSlot(t) # StateSlot(u)
  <2>2. W(names[i], names[j])
    BY <1>1, <2>1, Zenon DEF Wired
  <2>3. W(s(i), s(j))
    <3> HIDE DEF W, s
    <3> QED
      BY <2>1, <2>2
  <2> HIDE DEF s
  <2> QED
    BY <2>3
<1>5. ASSUME NEW i \in 1 .. n, NEW j \in 1 .. n, i # j, s(i) = s(j)
      PROVE  FALSE
  <2>1. PICK t \in Outputs[s(i)] : ~t.state
    BY <1>4
  <2> HIDE DEF s
  <2>2. t \in Outputs[s(i)] \cap Outputs[s(j)]
    BY <1>5, <2>1
  <2> QED
    BY <1>4, <1>5, <2>1, <2>2
<1>6. ASSUME NEW i \in 1 .. n
      PROVE  routes[i].from_previous
              = {t \in routes[i].inputs :
                   ~t.state /\ \E j \in 1 .. i - 1 : t \in routes[j].outputs}
  <2>1. \A j \in 1 .. i - 1 : j \in 1 .. n
    OBVIOUS
  <2>2. \A t : t \in before(i) <=> \E j \in 1 .. i - 1 : t \in Outputs[s(j)]
    OBVIOUS
  <2>3. \A t : t \in before(i) <=> \E j \in 1 .. i - 1 : t \in routes[j].outputs
    BY <1>3, <2>1, <2>2
  <2> HIDE DEF before, s
  <2> QED
    BY <1>3, <2>3
<1> QED
  BY <1>3, <1>4, <1>5, <1>6 DEF Linked

-----------------------------------------------------------------------------
(* What a chain has executed when none of its slices failed.               *)

IsSeq(x) == \E T : x \in Seq(T)

\* Where the value of an input comes from: the goldens, the state before the step,
\* an earlier slice of the step or the step's own inputs.
FedFrom(runner, s, begun, e, i, t) ==
    LET golden == Golden(runner, runner.routes[i], s.goldens)
        value == e[i].inputs[t]
    IN  IF t \in DOMAIN golden THEN value = golden[t]
        ELSE IF t.state
        THEN /\ runner.mode # "teacher_forced"
             /\ StateSlot(t) \in DOMAIN begun.state /\ value = begun.state[StateSlot(t)]
        ELSE \/ /\ runner.mode # "teacher_forced"
                /\ \E j \in 1 .. i - 1 :
                     t \in runner.routes[j].outputs /\ value = e[j].outputs[t]
             \/ /\ \A j \in 1 .. i - 1 : t \notin runner.routes[j].outputs
                /\ t \in DOMAIN s.inputs /\ value = s.inputs[t]

\* One slice of a step.
Did(runner, s, begun, e, i) ==
    LET route == runner.routes[i]
        value == Value(route.slice, begun.step, Noise(runner, route, e[i].inputs))
    IN  /\ begun.ar \in route.ars
        /\ e[i].slice = route.slice /\ e[i].step = begun.step /\ e[i].ar = begun.ar
        /\ DOMAIN e[i].inputs = route.inputs
        /\ e[i].outputs = [t \in route.outputs |-> value]
        /\ \A t \in route.inputs : FedFrom(runner, s, begun, e, i, t)

\* All slices of a step, one after the other.
Ran(runner, s, begun, end, n, e) ==
    /\ RunOf(end) /\ end.step = begun.step /\ end.ar = begun.ar
    /\ ~begun.failed /\ ~end.failed
    /\ \A i \in 1 .. n : Did(runner, s, begun, e, i)
    /\ IsSeq(end.executions)
    /\ Len(end.executions) = Len(begun.executions) + n
    /\ \A k \in 1 .. Len(begun.executions) : end.executions[k] = begun.executions[k]
    /\ \A i \in 1 .. n : end.executions[Len(begun.executions) + i] = e[i]
    /\ \A i \in 1 .. n : \A u \in runner.routes[i].outputs : u.state =>
         /\ StateSlot(u) \in DOMAIN end.state
         /\ end.state[StateSlot(u)] = e[i].outputs[u]

\* The fields of an invocation.
Invoked(runner, route, golden, run, done) ==
    LET value == Value(route.slice, run.step, Noise(runner, route, done.inputs))
    IN  /\ done.slice = route.slice /\ done.step = run.step /\ done.ar = run.ar
        /\ done.inputs = SliceInputs(route, golden, run)
        /\ done.outputs = [t \in route.outputs |-> value]
        /\ DOMAIN done.state = {StateSlot(t) : t \in {u \in route.outputs : u.state}}
        /\ \A x \in DOMAIN done.state : done.state[x] = value

LEMMA InvocationOf ==
    ASSUME NEW runner, NEW route, NEW golden, NEW run
    PROVE  Invoked(runner, route, golden, run, Invocation(runner, route, golden, run))
<1> DEFINE inputs == SliceInputs(route, golden, run)
           value == Value(route.slice, run.step, Noise(runner, route, inputs))
           slots == {StateSlot(t) : t \in {u \in route.outputs : u.state}}
           done == Invocation(runner, route, golden, run)
           outputs == [t \in route.outputs |-> value]
           state == [x \in slots |-> value]
<1>1. done = [slice |-> route.slice, step |-> run.step, ar |-> run.ar, inputs |-> inputs,
              outputs |-> outputs, state |-> state]
  BY DEF Invocation
<1>2. DOMAIN state = slots /\ \A x \in slots : state[x] = value
  OBVIOUS
<1> HIDE DEF done, inputs, slots, outputs, state
<1>3. /\ done.slice = route.slice /\ done.step = run.step /\ done.ar = run.ar
      /\ done.inputs = inputs /\ done.outputs = outputs /\ done.state = state
  BY <1>1
<1>4. value = Value(route.slice, run.step, Noise(runner, route, done.inputs))
  BY <1>3
<1>5. /\ done.inputs = SliceInputs(route, golden, run)
      /\ done.outputs = [t \in route.outputs |-> value]
      /\ DOMAIN done.state = {StateSlot(t) : t \in {u \in route.outputs : u.state}}
      /\ \A x \in DOMAIN done.state : done.state[x] = value
  BY <1>2, <1>3 DEF inputs, slots, outputs
<1> HIDE DEF value
<1>6. Invoked(runner, route, golden, run, done)
  BY <1>3, <1>4, <1>5, Zenon DEF Invoked
<1> QED
  BY <1>6 DEF done

Overlaid(merged, new, old) ==
    /\ DOMAIN merged = DOMAIN new \cup DOMAIN old
    /\ \A x \in DOMAIN new : merged[x] = new[x]
    /\ \A x \in DOMAIN old : x \notin DOMAIN new => merged[x] = old[x]

LEMMA OverOf ==
    ASSUME NEW new, NEW old
    PROVE  Overlaid(Over(new, old), new, old)
  BY DEF Over, Overlaid

LEMMA ChainRuns ==
    ASSUME NEW runner, NEW s, NEW begun, RunOf(begun), IsSeq(begun.executions),
           begun.available = s.inputs,
           NEW n \in Nat, DOMAIN runner.routes = 1 .. n, n = Len(runner.routes),
           Linked(runner.routes), ~AfterSlices(runner, s, begun)[n].failed
    PROVE  \E e : Ran(runner, s, begun, AfterSlices(runner, s, begun)[n], n, e)
<1>0. PICK rs : rs = AfterSlices(runner, s, begun)
  OBVIOUS
<1> DEFINE route(i) == runner.routes[i]
           golden(i) == Golden(runner, route(i), s.goldens)
<1>00. PICK e : e = [i \in 1 .. n |-> Invocation(runner, route(i), golden(i), rs[i - 1])]
  OBVIOUS
<1>1. /\ rs[0] = begun
      /\ \A i \in 0 .. n : /\ RunOf(rs[i]) /\ ~rs[i].failed
                           /\ rs[i].step = begun.step /\ rs[i].ar = begun.ar
      /\ \A i \in 1 .. n :
           /\ begun.ar \in route(i).ars
           /\ Missing(route(i), runner.mode, golden(i), rs[i - 1]) = {}
           /\ rs[i].executions = Append(rs[i - 1].executions, e[i])
           /\ rs[i].available = Over(e[i].outputs, rs[i - 1].available)
           /\ rs[i].state = Over(e[i].state, rs[i - 1].state)
  <2>1. n = Len(runner.routes) /\ ~rs[n].failed
    BY <1>0
  <2>2. SliceBySlice(runner, s, begun, n, rs, e)
    <3> HIDE DEF SliceBySlice
    <3> QED
      BY <1>0, <1>00, <2>1, SlicesRun
  <2> QED
    BY <2>2 DEF SliceBySlice
<1> DEFINE value(i) == Value(route(i).slice, begun.step, Noise(runner, route(i), e[i].inputs))
<1>2. ASSUME NEW i \in 1 .. n
      PROVE  /\ e[i].slice = route(i).slice /\ e[i].step = begun.step
             /\ e[i].ar = begun.ar
             /\ e[i].inputs = SliceInputs(route(i), golden(i), rs[i - 1])
             /\ e[i].outputs = [t \in route(i).outputs |-> value(i)]
             /\ DOMAIN e[i].state
                  = {StateSlot(t) : t \in {u \in route(i).outputs : u.state}}
             /\ \A x \in DOMAIN e[i].state : e[i].state[x] = value(i)
  <2> DEFINE done == Invocation(runner, route(i), golden(i), rs[i - 1])
             v == Value(route(i).slice, rs[i - 1].step, Noise(runner, route(i), done.inputs))
  <2>1. e[i] = done
    BY <1>00
  <2>2. rs[i - 1].step = begun.step /\ rs[i - 1].ar = begun.ar
    BY <1>1
  <2>3. /\ done.slice = route(i).slice /\ done.step = rs[i - 1].step
        /\ done.ar = rs[i - 1].ar
        /\ done.inputs = SliceInputs(route(i), golden(i), rs[i - 1])
        /\ done.outputs = [t \in route(i).outputs |-> v]
        /\ DOMAIN done.state = {StateSlot(t) : t \in {u \in route(i).outputs : u.state}}
        /\ \A x \in DOMAIN done.state : done.state[x] = v
    <3>1. Invoked(runner, route(i), golden(i), rs[i - 1], done)
      BY InvocationOf
    <3> HIDE DEF done, route, golden
    <3> QED
      BY <3>1, Zenon DEF Invoked
  <2>4. v = value(i)
    <3> HIDE DEF done, route
    <3> QED
      BY <2>1, <2>2
  <2> HIDE DEF done, route, golden, value, v
  <2> QED
    BY <2>1, <2>2, <2>3, <2>4
<1> HIDE DEF value
<1>3. \A i \in 1 .. n : DOMAIN e[i].outputs = route(i).outputs
  <2> HIDE DEF route
  <2> QED
    BY <1>2
<1> DEFINE A(i) == \A t : ~t.state =>
             /\ \A j \in 1 .. i : t \in route(j).outputs =>
                  /\ t \in DOMAIN rs[i].available
                  /\ rs[i].available[t] = e[j].outputs[t]
             /\ (\A j \in 1 .. i : t \notin route(j).outputs) =>
                  /\ t \in DOMAIN rs[i].available <=> t \in DOMAIN s.inputs
                  /\ t \in DOMAIN s.inputs => rs[i].available[t] = s.inputs[t]
<1>4. \A i \in 0 .. n : A(i)
  <2> DEFINE Q == {i \in 0 .. n : A(i)}
  <2>1. 0 \in Q
    <3> HIDE DEF route
    <3> QED
      BY <1>1
  <2>2. ASSUME NEW i \in 1 .. n, i - 1 \in Q
        PROVE  i \in Q
    <3> HIDE DEF route
    <3>1. A(i - 1)
      BY <2>2
    <3>2. rs[i].available = Over(e[i].outputs, rs[i - 1].available)
          /\ DOMAIN e[i].outputs = route(i).outputs
      BY <1>1, <1>3
    <3>3. /\ DOMAIN rs[i].available = route(i).outputs \cup DOMAIN rs[i - 1].available
          /\ \A x \in route(i).outputs : rs[i].available[x] = e[i].outputs[x]
          /\ \A x \in DOMAIN rs[i - 1].available :
                x \notin route(i).outputs => rs[i].available[x] = rs[i - 1].available[x]
      <4> DEFINE new == e[i].outputs
                 old == rs[i - 1].available
      <4> HIDE DEF new, old
      <4>1. Overlaid(Over(new, old), new, old)
        BY OverOf
      <4>2. rs[i].available = Over(new, old)
        BY <3>2 DEF new, old
      <4>3. /\ DOMAIN rs[i].available = DOMAIN new \cup DOMAIN old
            /\ \A x \in DOMAIN new : rs[i].available[x] = new[x]
            /\ \A x \in DOMAIN old : x \notin DOMAIN new => rs[i].available[x] = old[x]
        BY <4>1, <4>2 DEF Overlaid
      <4> QED
        BY <3>2, <4>3 DEF new, old
    <3>4. ASSUME NEW t, ~t.state, NEW j \in 1 .. i, t \in route(j).outputs
          PROVE  t \in DOMAIN rs[i].available /\ rs[i].available[t] = e[j].outputs[t]
      <4>1. CASE j = i
        BY <3>3, <3>4, <4>1
      <4>2. CASE j # i
        <5>1. j \in 1 .. i - 1 /\ i \in DOMAIN runner.routes /\ j \in DOMAIN runner.routes
          BY <4>2
        <5>2. t \in DOMAIN rs[i - 1].available /\ rs[i - 1].available[t] = e[j].outputs[t]
          BY <3>1, <3>4, <5>1
        <5>3. t \notin route(i).outputs
          BY <3>4, <4>2, <5>1 DEF Linked, route
        <5> QED
          BY <3>3, <5>2, <5>3
      <4> QED
        BY <4>1, <4>2
    <3>5. ASSUME NEW t, ~t.state, \A j \in 1 .. i : t \notin route(j).outputs
          PROVE  /\ t \in DOMAIN rs[i].available <=> t \in DOMAIN s.inputs
                 /\ t \in DOMAIN s.inputs => rs[i].available[t] = s.inputs[t]
      <4>1. t \notin route(i).outputs /\ \A j \in 1 .. i - 1 : t \notin route(j).outputs
        BY <3>5
      <4> QED
        BY <3>1, <3>3, <3>5, <4>1
    <3>6. A(i)
      BY <3>4, <3>5
    <3> QED
      BY <3>6
  <2> HIDE DEF Q
  <2>3. \A i \in 1 .. n : i - 1 \in Q => i \in Q
    BY <2>2
  <2>4. 0 .. n \subseteq Q
    BY <2>1, <2>3, Positions
  <2> QED
    BY <2>4 DEF Q
<1> HIDE DEF A
<1> DEFINE slots(i) == {StateSlot(t) : t \in {u \in route(i).outputs : u.state}}
           B(i) == /\ \A j \in 1 .. i : \A x \in slots(j) :
                        x \in DOMAIN rs[i].state /\ rs[i].state[x] = value(j)
                   /\ \A x : (\A j \in 1 .. i : x \notin slots(j)) =>
                        /\ x \in DOMAIN rs[i].state <=> x \in DOMAIN begun.state
                        /\ x \in DOMAIN begun.state => rs[i].state[x] = begun.state[x]
<1>5. ASSUME NEW i \in 1 .. n, NEW j \in 1 .. n, i # j, NEW x \in slots(i)
      PROVE  x \notin slots(j)
  <2>1. i \in DOMAIN runner.routes /\ j \in DOMAIN runner.routes
    OBVIOUS
  <2>2. PICK t \in route(i).outputs : t.state /\ x = StateSlot(t)
    OBVIOUS
  <2>3. \A u \in route(j).outputs : u.state => StateSlot(u) # x
    BY <1>5, <2>1, <2>2 DEF Linked
  <2> HIDE DEF route
  <2> QED
    BY <2>3
<1>6. \A i \in 1 .. n : /\ DOMAIN e[i].state = slots(i)
                        /\ \A x \in slots(i) : e[i].state[x] = value(i)
  BY <1>2
<1> HIDE DEF slots
<1>7. \A i \in 0 .. n : B(i)
  <2> DEFINE Q == {i \in 0 .. n : B(i)}
  <2>1. 0 \in Q
    BY <1>1
  <2>2. ASSUME NEW i \in 1 .. n, i - 1 \in Q
        PROVE  i \in Q
    <3>1. B(i - 1)
      BY <2>2
    <3>2. /\ rs[i].state = Over(e[i].state, rs[i - 1].state)
          /\ DOMAIN e[i].state = slots(i)
          /\ \A x \in slots(i) : e[i].state[x] = value(i)
      BY <1>1, <1>6
    <3>3. /\ DOMAIN rs[i].state = slots(i) \cup DOMAIN rs[i - 1].state
          /\ \A x \in slots(i) : rs[i].state[x] = value(i)
          /\ \A x \in DOMAIN rs[i - 1].state :
                x \notin slots(i) => rs[i].state[x] = rs[i - 1].state[x]
      <4> DEFINE new == e[i].state
                 old == rs[i - 1].state
      <4> HIDE DEF new, old
      <4>1. Overlaid(Over(new, old), new, old)
        BY OverOf
      <4>2. rs[i].state = Over(new, old)
        BY <3>2 DEF new, old
      <4>3. /\ DOMAIN rs[i].state = DOMAIN new \cup DOMAIN old
            /\ \A x \in DOMAIN new : rs[i].state[x] = new[x]
            /\ \A x \in DOMAIN old : x \notin DOMAIN new => rs[i].state[x] = old[x]
        BY <4>1, <4>2 DEF Overlaid
      <4> QED
        BY <3>2, <4>3 DEF new, old
    <3>4. ASSUME NEW j \in 1 .. i, NEW x \in slots(j)
          PROVE  x \in DOMAIN rs[i].state /\ rs[i].state[x] = value(j)
      <4>1. CASE j = i
        BY <3>3, <4>1
      <4>2. CASE j # i
        <5>1. j \in 1 .. i - 1 /\ j \in 1 .. n
          BY <4>2
        <5>2. x \in DOMAIN rs[i - 1].state /\ rs[i - 1].state[x] = value(j)
          BY <3>1, <5>1
        <5>3. x \notin slots(i)
          BY <1>5, <4>2, <5>1
        <5> QED
          BY <3>3, <5>2, <5>3
      <4> QED
        BY <4>1, <4>2
    <3>5. ASSUME NEW x, \A j \in 1 .. i : x \notin slots(j)
          PROVE  /\ x \in DOMAIN rs[i].state <=> x \in DOMAIN begun.state
                 /\ x \in DOMAIN begun.state => rs[i].state[x] = begun.state[x]
      <4>1. x \notin slots(i) /\ \A j \in 1 .. i - 1 : x \notin slots(j)
        BY <3>5
      <4> QED
        BY <3>1, <3>3, <4>1
    <3>6. B(i)
      BY <3>4, <3>5
    <3> QED
      BY <3>6
  <2> HIDE DEF Q
  <2>3. \A i \in 1 .. n : i - 1 \in Q => i \in Q
    BY <2>2
  <2>4. 0 .. n \subseteq Q
    BY <2>1, <2>3, Positions
  <2> QED
    BY <2>4 DEF Q
<1> HIDE DEF B

<1>8. ASSUME NEW i \in 1 .. n, NEW t \in route(i).inputs
      PROVE  FedFrom(runner, s, begun, e, i, t)
  <2> DEFINE run == rs[i - 1]
             forced == Golden(runner, runner.routes[i], s.goldens)
             v == e[i].inputs[t]
  <2>1. v = IF t \in DOMAIN forced THEN forced[t]
            ELSE IF t.state THEN run.state[StateSlot(t)]
            ELSE run.available[t]
    <3>1. e[i].inputs = SliceInputs(route(i), forced, run)
      BY <1>2
    <3> HIDE DEF forced, run
    <3> QED
      BY <3>1 DEF SliceInputs
  <2>2. t \notin DOMAIN forced =>
          IF t.state
          THEN runner.mode # "teacher_forced" /\ StateSlot(t) \in DOMAIN run.state
          ELSE /\ ~ (runner.mode = "teacher_forced" /\ t \in route(i).from_previous)
               /\ t \in DOMAIN run.available
    <3>1. Missing(route(i), runner.mode, forced, run) = {}
      BY <1>1
    <3> HIDE DEF forced, run, route
    <3> QED
      BY <3>1 DEF Missing
  <2> HIDE DEF v, forced
  <2>3. CASE t \in DOMAIN forced
    BY <2>1, <2>3, Zenon DEF FedFrom, forced, v
  <2>4. CASE t \notin DOMAIN forced /\ t.state
    <3>1. \A j \in 1 .. i - 1 : StateSlot(t) \notin slots(j)
      <4> SUFFICES ASSUME NEW j \in 1 .. i - 1, StateSlot(t) \in slots(j)
                   PROVE  FALSE
        OBVIOUS
      <4>1. i \in DOMAIN runner.routes /\ j \in DOMAIN runner.routes /\ i # j
        OBVIOUS
      <4>2. PICK u \in route(j).outputs : u.state /\ StateSlot(t) = StateSlot(u)
        BY DEF slots
      <4> QED
        BY <2>4, <4>1, <4>2 DEF Linked
    <3>2. i - 1 \in 0 .. n
      OBVIOUS
    <3>3. /\ StateSlot(t) \in DOMAIN run.state <=> StateSlot(t) \in DOMAIN begun.state
          /\ StateSlot(t) \in DOMAIN begun.state =>
               run.state[StateSlot(t)] = begun.state[StateSlot(t)]
      BY <1>7, <3>1, <3>2 DEF B
    <3>4. /\ runner.mode # "teacher_forced"
          /\ StateSlot(t) \in DOMAIN begun.state /\ v = begun.state[StateSlot(t)]
      BY <2>1, <2>2, <2>4, <3>3
    <3> QED
      BY <2>4, <3>4, Zenon DEF FedFrom, forced, v
  <2>5. CASE t \notin DOMAIN forced /\ ~t.state
    <3>1. /\ v = run.available[t] /\ t \in DOMAIN run.available
          /\ ~ (runner.mode = "teacher_forced" /\ t \in route(i).from_previous)
      BY <2>1, <2>2, <2>5
    <3>2. i - 1 \in 0 .. n /\ i \in DOMAIN runner.routes
      OBVIOUS
    <3>3. /\ \A j \in 1 .. i - 1 : t \in route(j).outputs => run.available[t] = e[j].outputs[t]
          /\ (\A j \in 1 .. i - 1 : t \notin route(j).outputs) =>
                  /\ t \in DOMAIN run.available <=> t \in DOMAIN s.inputs
                  /\ t \in DOMAIN s.inputs => run.available[t] = s.inputs[t]
      BY <1>4, <2>5, <3>2 DEF A
    <3>4. ASSUME NEW j \in 1 .. i - 1, t \in route(j).outputs
          PROVE  runner.mode # "teacher_forced" /\ v = e[j].outputs[t]
      <4>1. t \in route(i).from_previous
        BY <2>5, <3>2, <3>4 DEF Linked
      <4> QED
        BY <3>1, <3>3, <3>4, <4>1
    <3>5. (\A j \in 1 .. i - 1 : t \notin route(j).outputs) =>
             t \in DOMAIN s.inputs /\ v = s.inputs[t]
      BY <3>1, <3>3
    <3>6. \/ /\ runner.mode # "teacher_forced"
             /\ \E j \in 1 .. i - 1 : t \in runner.routes[j].outputs /\ v = e[j].outputs[t]
          \/ /\ \A j \in 1 .. i - 1 : t \notin runner.routes[j].outputs
             /\ t \in DOMAIN s.inputs /\ v = s.inputs[t]
      BY <3>4, <3>5
    <3> QED
      BY <2>5, <3>6, Zenon DEF FedFrom, forced, v
  <2> QED
    BY <2>3, <2>4, <2>5
<1>9. ASSUME NEW i \in 1 .. n
      PROVE  Did(runner, s, begun, e, i)
  <2>1. DOMAIN e[i].inputs = route(i).inputs
    <3> DEFINE given == Golden(runner, runner.routes[i], s.goldens)
    <3>1. e[i].inputs = SliceInputs(route(i), given, rs[i - 1])
      BY <1>2
    <3> HIDE DEF given, route
    <3> QED
      BY <3>1 DEF SliceInputs
  <2>2. /\ begun.ar \in route(i).ars
        /\ e[i].slice = route(i).slice /\ e[i].step = begun.step /\ e[i].ar = begun.ar
        /\ e[i].outputs = [t \in route(i).outputs |-> value(i)]
        /\ \A t \in route(i).inputs : FedFrom(runner, s, begun, e, i, t)
    BY <1>1, <1>2, <1>8
  <2> QED
    BY <2>1, <2>2, Zenon DEF Did, value
<1>10. PICK S : begun.executions \in Seq(S)
  BY DEF IsSeq
<1> DEFINE T == S \cup {e[i] : i \in 1 .. n}
           m == Len(begun.executions)
           C(i) == /\ rs[i].executions \in Seq(T)
                   /\ Len(rs[i].executions) = m + i
                   /\ \A k \in 1 .. m : rs[i].executions[k] = begun.executions[k]
                   /\ \A j \in 1 .. i : rs[i].executions[m + j] = e[j]
<1>11. \A i \in 0 .. n : C(i)
  <2> DEFINE Q == {i \in 0 .. n : C(i)}
  <2>0. m \in Nat
    BY <1>10
  <2>1. 0 \in Q
    BY <1>1, <1>10
  <2>2. ASSUME NEW i \in 1 .. n, i - 1 \in Q
        PROVE  i \in Q
    <3> DEFINE old == rs[i - 1].executions
    <3>1. C(i - 1)
      BY <2>2
    <3>2. rs[i].executions = Append(old, e[i]) /\ e[i] \in T
      BY <1>1
    <3> HIDE DEF m, T
    <3>3. /\ rs[i].executions \in Seq(T) /\ Len(old) = m + (i - 1)
          /\ Len(rs[i].executions) = Len(old) + 1
          /\ rs[i].executions[Len(old) + 1] = e[i]
          /\ \A k \in 1 .. Len(old) : rs[i].executions[k] = old[k]
      BY <3>1, <3>2, AppendProperties
    <3>4. Len(rs[i].executions) = m + i
      BY <2>0, <3>3
    <3>5. \A k \in 1 .. m : rs[i].executions[k] = begun.executions[k]
      BY <2>0, <3>1, <3>3
    <3>6. ASSUME NEW j \in 1 .. i
          PROVE  rs[i].executions[m + j] = e[j]
      <4>1. CASE j = i
        <5>1. m + j = Len(old) + 1
          BY <2>0, <3>3, <4>1
        <5> QED
          BY <3>3, <4>1, <5>1
      <4>2. CASE j # i
        <5>1. j \in 1 .. i - 1 /\ m + j \in 1 .. Len(old)
          BY <2>0, <3>3, <4>2
        <5> QED
          BY <3>1, <3>3, <5>1
      <4> QED
        BY <4>1, <4>2
    <3>7. C(i)
      BY <3>3, <3>4, <3>5, <3>6
    <3> QED
      BY <3>7
  <2> HIDE DEF Q
  <2>3. \A i \in 1 .. n : i - 1 \in Q => i \in Q
    BY <2>2
  <2>4. 0 .. n \subseteq Q
    BY <2>1, <2>3, Positions
  <2> QED
    BY <2>4 DEF Q
<1>12. ASSUME NEW i \in 1 .. n, NEW u \in runner.routes[i].outputs, u.state
       PROVE  /\ StateSlot(u) \in DOMAIN rs[n].state
              /\ rs[n].state[StateSlot(u)] = e[i].outputs[u]
  <2>1. StateSlot(u) \in slots(i) /\ n \in 0 .. n
    BY <1>12 DEF slots
  <2>2. StateSlot(u) \in DOMAIN rs[n].state /\ rs[n].state[StateSlot(u)] = value(i)
    BY <1>7, <2>1 DEF B
  <2>3. e[i].outputs[u] = value(i)
    BY <1>2
  <2> QED
    BY <2>2, <2>3
<1>13. Ran(runner, s, begun, rs[n], n, e)
  <2>1. n \in 0 .. n
    OBVIOUS
  <2>2. RunOf(rs[n]) /\ ~rs[n].failed /\ rs[n].step = begun.step /\ rs[n].ar = begun.ar
    BY <1>1, <2>1
  <2>3. C(n)
    BY <1>11, <2>1
  <2>5. ~begun.failed
    <3>1. 0 \in 0 .. n
      OBVIOUS
    <3> QED
      BY <1>1, <3>1
  <2>4. IsSeq(rs[n].executions)
    BY <2>3 DEF IsSeq
  <2> QED
    BY <1>1, <1>9, <1>12, <2>2, <2>3, <2>4, <2>5 DEF Ran
<1> QED
  BY <1>0, <1>13

-----------------------------------------------------------------------------
(* Where deviations show.                                                  *)

\* Tensors without any deviation.
Clean(tensors) == \A t \in DOMAIN tensors : tensors[t].noise = {}

CleanTree(tree) == \A x \in DOMAIN tree : Clean(tree[x])

LEMMA NoiseOf ==
    ASSUME NEW runner, NEW route, NEW inputs, NEW x
    PROVE  x \in Noise(runner, route, inputs)
             <=> \/ \E t \in route.inputs : x \in inputs[t].noise
                 \/ x \in runner.noisy \cap {route.slice}
<1>1. Noise(runner, route, inputs)
        = (UNION {inputs[t].noise : t \in route.inputs})
            \cup (runner.noisy \cap {route.slice})
  BY Zenon DEF Noise
<1>2. PICK N : N = Noise(runner, route, inputs)
  OBVIOUS
<1>3. PICK U : U = UNION {inputs[t].noise : t \in route.inputs}
  OBVIOUS
<1>4. PICK V : V = runner.noisy \cap {route.slice}
  OBVIOUS
<1>5. N = U \cup V
  BY <1>1, <1>2, <1>3, <1>4, Zenon
<1>6. x \in U <=> \E t \in route.inputs : x \in inputs[t].noise
  BY <1>3
<1>7. x \in N <=> x \in U \/ x \in V
  BY <1>5
<1> QED
  BY <1>2, <1>4, <1>6, <1>7, Zenon

\* In a chain a slice deviates when it does by itself or is reached by one that does.
LEMMA ChainNoise ==
    ASSUME NEW runner, NEW s, NEW begun, NEW e, NEW n \in Nat,
           DOMAIN runner.routes = 1 .. n, Linked(runner.routes),
           runner.mode = "device_chain", Clean(s.inputs), Clean(begun.state),
           \A i \in 1 .. n : Did(runner, s, begun, e, i)
    PROVE  \A i \in 1 .. n :
             Noise(runner, runner.routes[i], e[i].inputs) # {} <=>
               runner.routes[i].slice
                 \in Reached(runner.noisy, {runner.routes[k].slice : k \in 1 .. n})
<1> DEFINE route(i) == runner.routes[i]
           noise(i) == Noise(runner, route(i), e[i].inputs)
           feeds(j, i) == \E t \in route(j).outputs : ~t.state /\ t \in route(i).inputs
           slices == {runner.routes[k].slice : k \in 1 .. n}
           D == {route(i).slice : i \in {k \in 1 .. n : noise(k) # {}}}
<1>1. \A i \in 1 .. n : /\ route(i).inputs = Inputs[route(i).slice]
                        /\ route(i).outputs = Outputs[route(i).slice]
  BY DEF Linked
<1>2. \A i, j \in 1 .. n : feeds(j, i) => j < i
  BY DEF Linked
<1>3. \A i, j \in 1 .. n : route(i).slice = route(j).slice => i = j
  BY DEF Linked
<1>4. ASSUME NEW i \in 1 .. n, NEW t \in route(i).inputs
      PROVE  \/ e[i].inputs[t].noise = {} /\ (t.state \/ \A j \in 1 .. n : t \notin route(j).outputs)
             \/ ~t.state /\ \E j \in 1 .. n :
                  t \in route(j).outputs /\ e[i].inputs[t].noise = noise(j)
  <2>1. FedFrom(runner, s, begun, e, i, t)
    BY DEF Did
  <2>2. Golden(runner, runner.routes[i], s.goldens) = << >>
    BY DEF Golden
  <2>3. t \notin DOMAIN << >>
    OBVIOUS
  <2>4. IF t.state
        THEN /\ StateSlot(t) \in DOMAIN begun.state
             /\ e[i].inputs[t] = begun.state[StateSlot(t)]
        ELSE \/ \E j \in 1 .. i - 1 :
                  t \in route(j).outputs /\ e[i].inputs[t] = e[j].outputs[t]
             \/ /\ \A j \in 1 .. i - 1 : t \notin route(j).outputs
                /\ t \in DOMAIN s.inputs /\ e[i].inputs[t] = s.inputs[t]
    <3>1. t \notin DOMAIN Golden(runner, runner.routes[i], s.goldens)
      BY <2>2, <2>3
    <3> QED
      BY <2>1, <3>1, Zenon DEF FedFrom
  <2>5. CASE t.state
    BY <2>4, <2>5 DEF Clean
  <2>6. CASE ~t.state /\ \E j \in 1 .. i - 1 :
               t \in route(j).outputs /\ e[i].inputs[t] = e[j].outputs[t]
    <3>1. PICK j \in 1 .. n : t \in route(j).outputs /\ e[i].inputs[t] = e[j].outputs[t]
      BY <2>6
    <3>2. e[j].outputs = [u \in route(j).outputs |->
                            Value(route(j).slice, begun.step, noise(j))]
      BY Zenon DEF Did
    <3>3. e[j].outputs[t].noise = noise(j)
      <4> HIDE DEF route, noise
      <4> QED
        BY <3>1, <3>2 DEF Value
    <3> QED
      BY <2>6, <3>1, <3>3
  <2>7. CASE ~t.state /\ (\A j \in 1 .. i - 1 : t \notin route(j).outputs)
             /\ t \in DOMAIN s.inputs /\ e[i].inputs[t] = s.inputs[t]
    <3>1. e[i].inputs[t].noise = {}
      BY <2>7 DEF Clean
    <3>2. \A j \in 1 .. n : t \in route(j).outputs => j \in 1 .. i - 1
      BY <1>2, <2>7
    <3> QED
      BY <2>7, <3>1, <3>2
  <2> QED
    BY <2>4, <2>5, <2>6, <2>7
<1> HIDE DEF route
<1>5. ASSUME NEW i \in 1 .. n
      PROVE  noise(i) # {} <=> \/ route(i).slice \in runner.noisy
                               \/ \E j \in 1 .. n : feeds(j, i) /\ noise(j) # {}
  <2>1. noise(i) = (UNION {e[i].inputs[t].noise : t \in route(i).inputs})
                     \cup (runner.noisy \cap {route(i).slice})
    BY DEF Noise
  <2>0. \A x : x \in runner.noisy /\ x = route(i).slice => x \in noise(i)
    <3> SUFFICES ASSUME NEW x \in runner.noisy, x = route(i).slice
                 PROVE  x \in noise(i)
      OBVIOUS
    <3>1. x \in runner.noisy \cap {route(i).slice}
      OBVIOUS
    <3> QED
      BY <3>1, NoiseOf
  <2> HIDE DEF noise
  <2>2. ASSUME NEW j \in 1 .. n, feeds(j, i), noise(j) # {}
        PROVE  noise(i) # {}
    <3>1. PICK t \in route(j).outputs : ~t.state /\ t \in route(i).inputs
      BY <2>2
    <3>2. PICK k \in 1 .. n : t \in route(k).outputs /\ e[i].inputs[t].noise = noise(k)
      BY <1>4, <3>1
    <3>3. k = j
      BY <3>1, <3>2 DEF Linked, route
    <3> QED
      BY <2>1, <2>2, <3>1, <3>2, <3>3
  <2>3. ASSUME noise(i) # {}, route(i).slice \notin runner.noisy
        PROVE  \E j \in 1 .. n : feeds(j, i) /\ noise(j) # {}
    <3>1. PICK t \in route(i).inputs : e[i].inputs[t].noise # {}
      BY <2>1, <2>3
    <3>2. PICK j \in 1 .. n : ~t.state /\ t \in route(j).outputs
                              /\ e[i].inputs[t].noise = noise(j)
      BY <1>4, <3>1
    <3> QED
      BY <3>1, <3>2
  <2>4. route(i).slice \in runner.noisy => noise(i) # {}
    <3>1. route(i).slice \in runner.noisy => route(i).slice \in noise(i)
      BY <2>0
    <3> QED
      BY <3>1
  <2> QED
    BY <2>2, <2>3, <2>4
<1> DEFINE fed(m, k) == \E t \in Outputs[m] : ~t.state /\ t \in Inputs[k]
           closed == {S \in SUBSET slices :
                        /\ runner.noisy \cap slices \subseteq S
                        /\ \A m \in S, k \in slices : fed(m, k) => k \in S}
<1>6. Reached(runner.noisy, slices) = {k \in slices : \A S \in closed : k \in S}
  BY Zenon DEF Reached
<1>7. \A i, j \in 1 .. n : fed(route(j).slice, route(i).slice) <=> feeds(j, i)
  BY <1>1
<1>8. slices = {route(k).slice : k \in 1 .. n}
  BY DEF route
<1> HIDE DEF noise, feeds, fed, slices
<1>9. D \in closed
  <2>1. D \subseteq slices
    BY <1>8
  <2>2. runner.noisy \cap slices \subseteq D
    BY <1>5, <1>8
  <2>3. ASSUME NEW m \in D, NEW k \in slices, fed(m, k)
        PROVE  k \in D
    <3>1. PICK j \in 1 .. n : m = route(j).slice /\ noise(j) # {}
      OBVIOUS
    <3>2. PICK i \in 1 .. n : k = route(i).slice
      BY <1>8
    <3>3. feeds(j, i)
      BY <1>7, <2>3, <3>1, <3>2
    <3>4. noise(i) # {}
      BY <1>5, <3>1, <3>3
    <3> QED
      BY <3>2, <3>4
  <2> HIDE DEF D
  <2> QED
    BY <2>1, <2>2, <2>3
<1>10. ASSUME NEW S \in closed
       PROVE  D \subseteq S
  <2> DEFINE Q == {i \in 0 .. n : \A j \in 1 .. i : noise(j) # {} => route(j).slice \in S}
  <2>1. 0 \in Q
    OBVIOUS
  <2>2. ASSUME NEW i \in 1 .. n, i - 1 \in Q
        PROVE  i \in Q
    <3>1. noise(i) # {} => route(i).slice \in S
      <4> SUFFICES ASSUME noise(i) # {}
                   PROVE  route(i).slice \in S
        OBVIOUS
      <4>1. route(i).slice \in slices
        BY <1>8
      <4>2. CASE route(i).slice \in runner.noisy
        BY <4>1, <4>2
      <4>3. CASE route(i).slice \notin runner.noisy
        <5>1. PICK j \in 1 .. n : feeds(j, i) /\ noise(j) # {}
          BY <1>5, <4>3
        <5>2. j \in 1 .. i - 1
          BY <1>2, <5>1 DEF feeds
        <5>3. route(j).slice \in S
          BY <2>2, <5>1, <5>2
        <5>4. fed(route(j).slice, route(i).slice)
          BY <1>7, <5>1
        <5> QED
          BY <4>1, <5>3, <5>4
      <4> QED
        BY <4>2, <4>3
    <3>2. \A j \in 1 .. i : j \in 1 .. i - 1 \/ j = i
      OBVIOUS
    <3> QED
      BY <2>2, <3>1, <3>2
  <2> HIDE DEF Q
  <2>3. \A i \in 1 .. n : i - 1 \in Q => i \in Q
    BY <2>2
  <2>4. n \in Q
    <3>1. 0 .. n \subseteq Q
      BY <2>1, <2>3, Positions
    <3>2. n \in 0 .. n
      OBVIOUS
    <3> QED
      BY <3>1, <3>2
  <2> QED
    BY <2>4 DEF Q
<1>11. Reached(runner.noisy, slices) = D
  <2>1. D \subseteq slices
    BY <1>8
  <2> HIDE DEF closed, D
  <2> QED
    BY <1>6, <1>9, <1>10, <2>1
<1>12. \A i \in 1 .. n : noise(i) # {} <=> route(i).slice \in D
  BY <1>3 DEF D, route
<1> QED
  BY <1>11, <1>12 DEF noise, slices, route

\* A slice that is fed with goldens deviates when it does by itself.
OwnNoise(runner, e, i) ==
    Noise(runner, runner.routes[i], e[i].inputs)
      = runner.noisy \cap {runner.routes[i].slice}

LEMMA TaughtNoise ==
    ASSUME NEW runner, NEW s, NEW begun, NEW e, NEW n \in Nat,
           DOMAIN runner.routes = 1 .. n, Linked(runner.routes),
           runner.mode = "teacher_forced", Clean(s.inputs),
           CleanTree(s.goldens),
           \A i \in 1 .. n : Did(runner, s, begun, e, i)
    PROVE  \A i \in 1 .. n : OwnNoise(runner, e, i)
<1> SUFFICES ASSUME NEW i \in 1 .. n
             PROVE  Noise(runner, runner.routes[i], e[i].inputs)
                      = runner.noisy \cap {runner.routes[i].slice}
  BY DEF OwnNoise
<1> DEFINE route == runner.routes[i]
           golden == Golden(runner, route, s.goldens)
<1>1. Clean(golden)
  BY DEF Golden, Clean, CleanTree
<1>2. ASSUME NEW t \in route.inputs
      PROVE  e[i].inputs[t].noise = {}
  <2>1. FedFrom(runner, s, begun, e, i, t)
    BY DEF Did
  <2>2. \/ t \in DOMAIN golden /\ e[i].inputs[t] = golden[t]
        \/ t \in DOMAIN s.inputs /\ e[i].inputs[t] = s.inputs[t]
    BY <2>1, Zenon DEF FedFrom
  <2> HIDE DEF golden
  <2> QED
    BY <1>1, <2>2 DEF Clean
<1>3. \A x : x \in Noise(runner, route, e[i].inputs)
              <=> \/ \E t \in route.inputs : x \in e[i].inputs[t].noise
                 \/ x \in runner.noisy \cap {route.slice}
  BY NoiseOf
<1> HIDE DEF route
<1>4. \A x : x \in Noise(runner, route, e[i].inputs)
              <=> x \in runner.noisy \cap {route.slice}
  BY <1>2, <1>3
<1>5. Noise(runner, route, e[i].inputs) = runner.noisy \cap {route.slice}
  BY <1>4
<1> QED
  BY <1>5 DEF route

-----------------------------------------------------------------------------
(* The execution of a binding, for one step.                               *)

\* Routes that can be executed: those of at least one slice, which belong together.
Proper(routes, n) ==
    n \in Nat \ {0} /\ DOMAIN routes = 1 .. n /\ Len(routes) = n /\ Linked(routes)

\* A run that has executed every slice once, in the first step, and begun without
\* any deviation.
Alone(runner, s, run, n, e) ==
    \E begun : /\ Ran(runner, s, begun, run, n, e)
               /\ begun.executions = << >> /\ begun.step = 1 /\ begun.ar = s.ar
               /\ Clean(begun.state)

LEMMA GivenClean ==
    ASSUME NEW tensors, NEW step
    PROVE  Clean(Given(tensors, step))
  BY DEF Clean, Given, Value

LEMMA FoundClean ==
    ASSUME NEW routes, NEW inputs, Clean(inputs)
    PROVE  Clean(StateFromVector(routes, inputs))
<1> DEFINE found == {t \in UNION {r.inputs : r \in Elements(routes)} :
                        t.state /\ t \in DOMAIN inputs}
           slots == {StateSlot(t) : t \in found}
           pick(x) == CHOOSE t \in found : StateSlot(t) = x
           state == [x \in slots |-> inputs[pick(x)]]
<1>1. StateFromVector(routes, inputs) = state
  BY DEF StateFromVector
<1>2. \A t \in found : t \in DOMAIN inputs
  OBVIOUS
<1> HIDE DEF found
<1>3. ASSUME NEW x \in slots
      PROVE  state[x].noise = {}
  <2>1. pick(x) \in found
    OBVIOUS
  <2> HIDE DEF pick
  <2>2. state[x] = inputs[pick(x)]
    OBVIOUS
  <2> QED
    BY <1>2, <2>1, <2>2 DEF Clean
<1>4. DOMAIN state = slots
  OBVIOUS
<1> HIDE DEF state, slots
<1> QED
  BY <1>1, <1>3, <1>4 DEF Clean

\* The execution of a binding is a run of one step over its slices.
OneStepOf(b, mode, noisy, goldens, n, runner, s, begun) ==
    /\ runner = [routes |-> b.routes, mode |-> mode, noisy |-> noisy]
    /\ s = [ar |-> ExecutedAr(b), inputs |-> VectorInputs, goldens |-> goldens]
    /\ RunRoutes(b, mode, noisy, goldens) = AfterSlices(runner, s, begun)[n]
    /\ RunOf(begun) /\ ~begun.failed /\ begun.executions = << >> /\ begun.step = 1
    /\ begun.ar = s.ar /\ begun.available = s.inputs
    /\ begun.state = StateFromVector(b.routes, VectorInputs)

LEMMA OneBegins ==
    ASSUME NEW b, NEW n, Proper(b.routes, n), NEW mode, NEW noisy, NEW goldens
    PROVE  \E runner, s, begun : OneStepOf(b, mode, noisy, goldens, n, runner, s, begun)
<1>1. PICK runner : runner = [routes |-> b.routes, mode |-> mode, noisy |-> noisy]
  OBVIOUS
<1>2. PICK s : s = [ar |-> ExecutedAr(b), inputs |-> VectorInputs, goldens |-> goldens]
  OBVIOUS
<1>3. PICK state : state = StateFromVector(b.routes, VectorInputs)
  OBVIOUS
<1>4. PICK first : first = [failed |-> FALSE, step |-> 0, ar |-> 0, available |-> << >>,
                            state |-> state, executions |-> << >>]
  OBVIOUS
<1>5. PICK begun : begun = Begun(s, first)
  OBVIOUS
<1>6. RunRoutes(b, mode, noisy, goldens) = AfterSlices(runner, s, begun)[n]
  <2>1. PICK steps : steps = <<s>>
    OBVIOUS
  <2>2. Len(steps) = 1 /\ steps[1] = s
    BY <2>1
  <2>3. RunRoutes(b, mode, noisy, goldens) = AfterSteps(runner, steps, state)[1]
    BY <1>1, <1>2, <1>3, <2>1, <2>2, Zenon DEF RunRoutes, RunSequence, OneStep
  <2>4. /\ AfterSteps(runner, steps, state)[0] = first
        /\ AfterSteps(runner, steps, state)[1]
             = RunOnce(runner, steps[1], AfterSteps(runner, steps, state)[1 - 1])
    <3>1. Len(steps) \in Nat /\ 1 \in 1 .. Len(steps)
      BY <2>2
    <3> QED
      BY <1>4, <3>1, StepsFollow
  <2>5. AfterSteps(runner, steps, state)[1] = RunOnce(runner, s, first)
    BY <2>2, <2>4
  <2>6. Len(runner.routes) = n
    BY <1>1 DEF Proper
  <2>7. RunOnce(runner, s, first) = AfterSlices(runner, s, begun)[n]
    BY <1>5, <2>6, Zenon DEF RunOnce
  <2> QED
    BY <2>3, <2>5, <2>7
<1>7. /\ RunOf(begun) /\ ~begun.failed /\ begun.executions = << >> /\ begun.step = 1
      /\ begun.ar = s.ar /\ begun.available = s.inputs /\ begun.state = state
  <2>1. begun = [first EXCEPT !.available = s.inputs, !.ar = s.ar, !.step = @ + 1]
    BY <1>5 DEF Begun
  <2>2. /\ RunOf(first) /\ first.step = 0 /\ first.state = state
        /\ first.executions = << >> /\ ~first.failed
    BY <1>4 DEF RunOf
  <2>3. /\ RunOf(begun) /\ begun.executions = first.executions
        /\ begun.failed = first.failed
        /\ begun.step = first.step + 1 /\ begun.ar = s.ar
        /\ begun.available = s.inputs /\ begun.state = first.state
    BY <2>1, <2>2 DEF RunOf
  <2> QED
    BY <2>2, <2>3
<1>8. OneStepOf(b, mode, noisy, goldens, n, runner, s, begun)
  BY <1>1, <1>2, <1>3, <1>6, <1>7, Zenon DEF OneStepOf
<1> QED
  BY <1>8

LEMMA OneRun ==
    ASSUME NEW b, NEW n, Proper(b.routes, n), NEW mode, NEW noisy, NEW goldens,
           ~RunRoutes(b, mode, noisy, goldens).failed
    PROVE  \E e : Alone([routes |-> b.routes, mode |-> mode, noisy |-> noisy],
                        [ar |-> ExecutedAr(b), inputs |-> VectorInputs, goldens |-> goldens],
                        RunRoutes(b, mode, noisy, goldens), n, e)
<1>1. PICK runner, s, begun : OneStepOf(b, mode, noisy, goldens, n, runner, s, begun)
  BY OneBegins
<1>2. /\ runner = [routes |-> b.routes, mode |-> mode, noisy |-> noisy]
      /\ s = [ar |-> ExecutedAr(b), inputs |-> VectorInputs, goldens |-> goldens]
  BY <1>1, Zenon DEF OneStepOf
<1>3. /\ RunRoutes(b, mode, noisy, goldens) = AfterSlices(runner, s, begun)[n]
      /\ RunOf(begun) /\ begun.executions = << >> /\ begun.step = 1
      /\ begun.ar = s.ar /\ begun.available = s.inputs
      /\ begun.state = StateFromVector(b.routes, VectorInputs)
  BY <1>1, Zenon DEF OneStepOf
<1>4. IsSeq(begun.executions)
  <2>1. << >> \in Seq({})
    OBVIOUS
  <2> QED
    BY <1>3, <2>1 DEF IsSeq
<1>5. /\ n \in Nat /\ DOMAIN runner.routes = 1 .. n /\ n = Len(runner.routes)
      /\ Linked(runner.routes)
  BY <1>2 DEF Proper
<1>6. ~AfterSlices(runner, s, begun)[n].failed
  BY <1>3
<1>7. PICK e : Ran(runner, s, begun, AfterSlices(runner, s, begun)[n], n, e)
  BY <1>3, <1>4, <1>5, <1>6, ChainRuns
<1>8. Clean(begun.state)
  BY <1>3, GivenClean, FoundClean DEF VectorInputs
<1>9. Alone(runner, s, RunRoutes(b, mode, noisy, goldens), n, e)
  BY <1>3, <1>7, <1>8, Zenon DEF Alone
<1> QED
  BY <1>2, <1>9

\* What such a run returns: the outputs of every slice, and those of the last one.
Returned(routes, run, n, e) ==
    /\ DOMAIN OutputsBySlice(run) = {routes[i].slice : i \in 1 .. n}
    /\ \A i \in 1 .. n : OutputsBySlice(run)[routes[i].slice] = e[i].outputs
    /\ FinalOutputs(run) = Whole(e[n].outputs)
    /\ \A i \in 1 .. n : DOMAIN e[i].inputs = routes[i].inputs
    /\ {x.slice : x \in Elements(run.executions)} = {routes[i].slice : i \in 1 .. n}
    /\ \A i \in 1 .. n :
         (CHOOSE x \in Elements(run.executions) : x.slice = routes[i].slice) = e[i]

LEMMA AloneReturns ==
    ASSUME NEW runner, NEW s, NEW run, NEW n, NEW e,
           Proper(runner.routes, n), Alone(runner, s, run, n, e)
    PROVE  Returned(runner.routes, run, n, e)
<1> DEFINE routes == runner.routes
           slices == {routes[i].slice : i \in 1 .. n}
<1>1. PICK begun : Ran(runner, s, begun, run, n, e) /\ begun.executions = << >>
  BY DEF Alone
<1>2. /\ \A i \in 1 .. n : Did(runner, s, begun, e, i)
      /\ Len(run.executions) = Len(begun.executions) + n
      /\ \A i \in 1 .. n : run.executions[Len(begun.executions) + i] = e[i]
      /\ IsSeq(run.executions)
  BY <1>1 DEF Ran
<1>3. /\ n \in Nat /\ n # 0
      /\ \A i, j \in 1 .. n : i # j => routes[i].slice # routes[j].slice
  BY DEF Proper, Linked
<1>4. \A i \in 1 .. n : e[i].slice = routes[i].slice /\ DOMAIN e[i].inputs = routes[i].inputs
  BY <1>2 DEF Did
<1>5. Len(begun.executions) = 0
  BY <1>1
<1>6. /\ DOMAIN run.executions = 1 .. n /\ Len(run.executions) = n
      /\ \A i \in 1 .. n : run.executions[i] = e[i]
  <2>1. PICK T : run.executions \in Seq(T)
    BY <1>2 DEF IsSeq
  <2>2. Len(run.executions) = n /\ DOMAIN run.executions = 1 .. Len(run.executions)
    BY <1>2, <1>3, <1>5, <2>1
  <2> QED
    BY <1>2, <1>3, <1>5, <2>2
<1> HIDE DEF routes
<1>7. PICK E : E = Elements(run.executions)
  OBVIOUS
<1>8. E = {e[i] : i \in 1 .. n}
  BY <1>6, <1>7 DEF Elements
<1>9. {x.slice : x \in E} = slices
  BY <1>4, <1>8
<1>10. ASSUME NEW i \in 1 .. n
       PROVE  (CHOOSE x \in E : x.slice = routes[i].slice) = e[i]
  <2>1. e[i] \in E /\ e[i].slice = routes[i].slice
    BY <1>4, <1>8
  <2>2. \A x \in E : x.slice = routes[i].slice => x = e[i]
    BY <1>3, <1>4, <1>8
  <2> QED
    BY <2>1, <2>2
<1> HIDE DEF slices
<1>11. OutputsBySlice(run)
         = [x \in slices |-> (CHOOSE y \in E : y.slice = x).outputs]
  <2>1. OutputsBySlice(run)
          = [x \in {y.slice : y \in Elements(run.executions)} |->
               (CHOOSE y \in Elements(run.executions) : y.slice = x).outputs]
    BY DEF OutputsBySlice
  <2> QED
    BY <1>7, <1>9, <2>1
<1>12. \A i \in 1 .. n : routes[i].slice \in slices
  BY DEF slices
<1>13. \A i \in 1 .. n : OutputsBySlice(run)[routes[i].slice] = e[i].outputs
  BY <1>10, <1>11, <1>12
<1>14. Last(run.executions) = e[n]
  BY <1>3, <1>6 DEF Last
<1>15. FinalOutputs(run) = Whole(e[n].outputs)
  BY <1>14, Zenon DEF FinalOutputs
<1>16. DOMAIN OutputsBySlice(run) = slices
  BY <1>11
<1>17. Returned(routes, run, n, e)
  BY <1>4, <1>7, <1>9, <1>10, <1>13, <1>15, <1>16, Zenon DEF Returned, slices
<1> QED
  BY <1>17 DEF routes

-----------------------------------------------------------------------------
\* What the outputs show: those of the slices of D deviate, and no others do.
OfSlices(routes, n, tree, D) ==
    /\ DOMAIN tree = {routes[i].slice : i \in 1 .. n}
    /\ \A i \in 1 .. n :
         /\ DOMAIN tree[routes[i].slice] = routes[i].outputs
         /\ \A t \in routes[i].outputs :
              tree[routes[i].slice][t].noise # {} <=> routes[i].slice \in D

AtEnd(routes, n, tree, D) ==
    /\ DOMAIN tree = {"model"}
    /\ DOMAIN tree["model"] = routes[n].outputs
    /\ \A t \in routes[n].outputs :
         tree["model"][t].noise # {} <=> routes[n].slice \in D

SlicesOf(routes, n) == {routes[i].slice : i \in 1 .. n}

LEMMA Shown ==
    ASSUME NEW runner, NEW s, NEW run, NEW n, NEW e, NEW D,
           Proper(runner.routes, n), Alone(runner, s, run, n, e),
           \A i \in 1 .. n :
             Noise(runner, runner.routes[i], e[i].inputs) # {} <=>
               runner.routes[i].slice \in D
    PROVE  /\ OfSlices(runner.routes, n, OutputsBySlice(run), D)
           /\ AtEnd(runner.routes, n, FinalOutputs(run), D)
<1> DEFINE routes == runner.routes
<1>1. Returned(routes, run, n, e)
  BY AloneReturns
<1>2. PICK begun : \A i \in 1 .. n : Did(runner, s, begun, e, i)
  BY DEF Alone, Ran
<1>3. ASSUME NEW i \in 1 .. n
      PROVE  /\ DOMAIN e[i].outputs = routes[i].outputs
             /\ \A t \in routes[i].outputs :
                  e[i].outputs[t].noise # {} <=> routes[i].slice \in D
  <2> DEFINE noise == Noise(runner, routes[i], e[i].inputs)
             value == Value(routes[i].slice, begun.step, noise)
  <2>1. e[i].outputs = [t \in routes[i].outputs |-> value]
    BY <1>2, Zenon DEF Did
  <2>2. value.noise = noise
    BY DEF Value
  <2>3. noise # {} <=> routes[i].slice \in D
    OBVIOUS
  <2> HIDE DEF value, noise, routes
  <2> QED
    BY <2>1, <2>2, <2>3
<1>4. n \in 1 .. n
  BY DEF Proper
<1> HIDE DEF routes
<1>5. /\ DOMAIN OutputsBySlice(run) = {routes[i].slice : i \in 1 .. n}
      /\ \A i \in 1 .. n : OutputsBySlice(run)[routes[i].slice] = e[i].outputs
      /\ FinalOutputs(run) = Whole(e[n].outputs)
  BY <1>1, Zenon DEF Returned
<1>6. OfSlices(routes, n, OutputsBySlice(run), D)
  <2>1. PICK tree : tree = OutputsBySlice(run)
    OBVIOUS
  <2> QED
    BY <1>3, <1>5, <2>1 DEF OfSlices
<1>7. AtEnd(routes, n, FinalOutputs(run), D)
  <2>1. PICK tree : tree = FinalOutputs(run)
    OBVIOUS
  <2>2. DOMAIN tree = {"model"} /\ tree["model"] = e[n].outputs
    BY <1>5, <2>1 DEF Whole
  <2> QED
    BY <1>3, <1>4, <2>1, <2>2 DEF AtEnd
<1> QED
  BY <1>6, <1>7 DEF routes

LEMMA ChainedShows ==
    ASSUME NEW b, NEW n, Proper(b.routes, n), NEW noisy,
           ~RunRoutes(b, "device_chain", noisy, << >>).failed
    PROVE  /\ OfSlices(b.routes, n, OutputsBySlice(RunRoutes(b, "device_chain", noisy, << >>)),
                      Reached(noisy, SlicesOf(b.routes, n)))
           /\ AtEnd(b.routes, n, FinalOutputs(RunRoutes(b, "device_chain", noisy, << >>)),
                    Reached(noisy, SlicesOf(b.routes, n)))
<1>1. PICK run : run = RunRoutes(b, "device_chain", noisy, << >>)
  OBVIOUS
<1>2. PICK runner : runner = [routes |-> b.routes, mode |-> "device_chain", noisy |-> noisy]
  OBVIOUS
<1>3. PICK s : s = [ar |-> ExecutedAr(b), inputs |-> VectorInputs, goldens |-> << >>]
  OBVIOUS
<1>4. PICK e : Alone(runner, s, run, n, e)
  BY <1>1, <1>2, <1>3, OneRun
<1>5. /\ runner.routes = b.routes /\ runner.mode = "device_chain" /\ runner.noisy = noisy
      /\ Clean(s.inputs)
  BY <1>2, <1>3, GivenClean DEF VectorInputs
<1>6. PICK begun : Clean(begun.state) /\ \A i \in 1 .. n : Did(runner, s, begun, e, i)
  BY <1>4 DEF Alone, Ran
<1>7. n \in Nat /\ DOMAIN runner.routes = 1 .. n /\ Linked(runner.routes)
  BY <1>5 DEF Proper
<1>8. \A i \in 1 .. n :
        Noise(runner, runner.routes[i], e[i].inputs) # {} <=>
          runner.routes[i].slice
            \in Reached(runner.noisy, {runner.routes[k].slice : k \in 1 .. n})
  BY <1>5, <1>6, <1>7, ChainNoise
<1>9. PICK D : D = Reached(noisy, SlicesOf(b.routes, n))
  OBVIOUS
<1>10. \A i \in 1 .. n :
         Noise(runner, runner.routes[i], e[i].inputs) # {} <=> runner.routes[i].slice \in D
  BY <1>5, <1>8, <1>9, Zenon DEF SlicesOf
<1>11. Proper(runner.routes, n)
  BY <1>5
<1>12. /\ OfSlices(runner.routes, n, OutputsBySlice(run), D)
       /\ AtEnd(runner.routes, n, FinalOutputs(run), D)
  BY <1>4, <1>10, <1>11, Shown
<1> QED
  BY <1>1, <1>5, <1>9, <1>12

LEMMA TaughtShows ==
    ASSUME NEW b, NEW n, Proper(b.routes, n), NEW noisy, NEW goldens,
           CleanTree(goldens),
           ~RunRoutes(b, "teacher_forced", noisy, goldens).failed
    PROVE  OfSlices(b.routes, n, OutputsBySlice(RunRoutes(b, "teacher_forced", noisy, goldens)),
                   noisy \cap SlicesOf(b.routes, n))
<1>1. PICK run : run = RunRoutes(b, "teacher_forced", noisy, goldens)
  OBVIOUS
<1>2. PICK runner : runner = [routes |-> b.routes, mode |-> "teacher_forced", noisy |-> noisy]
  OBVIOUS
<1>3. PICK s : s = [ar |-> ExecutedAr(b), inputs |-> VectorInputs, goldens |-> goldens]
  OBVIOUS
<1>4. PICK e : Alone(runner, s, run, n, e)
  BY <1>1, <1>2, <1>3, OneRun
<1>5. /\ runner.routes = b.routes /\ runner.mode = "teacher_forced" /\ runner.noisy = noisy
      /\ Clean(s.inputs) /\ s.goldens = goldens
  BY <1>2, <1>3, GivenClean DEF VectorInputs
<1>6. PICK begun : Clean(begun.state) /\ \A i \in 1 .. n : Did(runner, s, begun, e, i)
  BY <1>4 DEF Alone, Ran
<1>7. n \in Nat /\ DOMAIN runner.routes = 1 .. n /\ Linked(runner.routes)
  BY <1>5 DEF Proper
<1>8. \A i \in 1 .. n :
        Noise(runner, runner.routes[i], e[i].inputs)
          = runner.noisy \cap {runner.routes[i].slice}
  <2>1. CleanTree(s.goldens)
    BY <1>5
  <2>2. runner.mode = "teacher_forced" /\ Clean(s.inputs)
    BY <1>5
  <2>3. \A i \in 1 .. n : Did(runner, s, begun, e, i)
    BY <1>6
  <2>4. \A i \in 1 .. n : OwnNoise(runner, e, i)
    BY <1>7, <2>1, <2>2, <2>3, TaughtNoise
  <2> QED
    BY <2>4 DEF OwnNoise
<1>9. PICK D : D = noisy \cap SlicesOf(b.routes, n)
  OBVIOUS
<1>10. \A i \in 1 .. n :
         Noise(runner, runner.routes[i], e[i].inputs) # {} <=> runner.routes[i].slice \in D
  BY <1>5, <1>8, <1>9 DEF SlicesOf
<1>11. Proper(runner.routes, n)
  BY <1>5
<1>12. /\ OfSlices(runner.routes, n, OutputsBySlice(run), D)
       /\ AtEnd(runner.routes, n, FinalOutputs(run), D)
  BY <1>4, <1>10, <1>11, Shown
<1> QED
  BY <1>1, <1>5, <1>9, <1>12

-----------------------------------------------------------------------------
(* References.                                                             *)

\* References without a device do not deviate, so goldens are clean.
LEMMA GoldensClean ==
    ASSUME NEW b, NEW n, Proper(b.routes, n), MakesGoldens(b)
    PROVE  CleanTree(GoldenInputs(b))
<1>1. CASE call.goldens = "all"
  <2> DEFINE S == {r.slice : r \in Elements(b.routes)}
             of(s) == (CHOOSE r \in Elements(b.routes) : r.slice = s).inputs
  <2>1. GoldenInputs(b) = [s \in S |-> Given(of(s), 1)]
    BY <1>1, Zenon DEF GoldenInputs
  <2> HIDE DEF S, of
  <2> QED
    BY <2>1, GivenClean DEF CleanTree
<1>2. CASE call.goldens # "all"
  <2>1. PICK run : run = RunRoutes(b, "device_chain", {}, << >>)
    OBVIOUS
  <2>2. ~run.failed
    BY <1>2, <2>1 DEF MakesGoldens, ReferenceRun
  <2>3. PICK runner : runner = [routes |-> b.routes, mode |-> "device_chain", noisy |-> {}]
    OBVIOUS
  <2>4. PICK s : s = [ar |-> ExecutedAr(b), inputs |-> VectorInputs, goldens |-> << >>]
    OBVIOUS
  <2>5. PICK e : Alone(runner, s, run, n, e)
    BY <2>1, <2>2, <2>3, <2>4, OneRun
  <2>6. runner.routes = b.routes /\ runner.mode = "device_chain" /\ runner.noisy = {}
        /\ Clean(s.inputs) /\ s.goldens = << >>
    BY <2>3, <2>4, GivenClean DEF VectorInputs
  <2>7. Proper(runner.routes, n)
    BY <2>6
  <2>8. Returned(b.routes, run, n, e)
    BY <2>5, <2>6, <2>7, AloneReturns
  <2>9. PICK begun : Clean(begun.state) /\ \A i \in 1 .. n : Did(runner, s, begun, e, i)
    BY <2>5 DEF Alone, Ran
  <2>10. n \in Nat /\ DOMAIN runner.routes = 1 .. n /\ Linked(runner.routes)
    BY <2>7 DEF Proper
  <2>11. \A i \in 1 .. n :
          Noise(runner, runner.routes[i], e[i].inputs) # {} <=>
            runner.routes[i].slice
              \in Reached(runner.noisy, {runner.routes[k].slice : k \in 1 .. n})
    BY <2>6, <2>9, <2>10, ChainNoise
  <2>12. \A S : Reached({}, S) = {}
    <3> SUFFICES ASSUME NEW S
                 PROVE  Reached({}, S) = {}
      OBVIOUS
    <3> DEFINE fed(x, y) == \E t \in Outputs[x] : ~t.state /\ t \in Inputs[y]
               closed == {U \in SUBSET S : /\ {} \cap S \subseteq U
                                           /\ \A x \in U, y \in S : fed(x, y) => y \in U}
    <3>1. Reached({}, S) = {y \in S : \A U \in closed : y \in U}
      BY Zenon DEF Reached
    <3>2. {} \in closed
      OBVIOUS
    <3> HIDE DEF closed
    <3> QED
      BY <3>1, <3>2
  <2>13. \A i \in 1 .. n : Noise(runner, runner.routes[i], e[i].inputs) = {}
    BY <2>6, <2>11, <2>12
  <2>14. ASSUME NEW i \in 1 .. n
         PROVE  Clean(e[i].inputs)
    <3>1. DOMAIN e[i].inputs = runner.routes[i].inputs
      BY <2>6, <2>8 DEF Returned
    <3>2. \A t \in runner.routes[i].inputs : \A x : x \notin e[i].inputs[t].noise
      BY <2>13, NoiseOf
    <3> QED
      BY <3>1, <3>2 DEF Clean
  <2> DEFINE S == {x.slice : x \in Elements(run.executions)}
             of(z) == (CHOOSE x \in Elements(run.executions) : x.slice = z)
  <2>15. GoldenInputs(b) = [z \in S |-> of(z).inputs]
    <3>1. ReferenceRun(b) = run
      BY <2>1 DEF ReferenceRun
    <3>2. GoldenInputs(b)
            = [z \in {x.slice : x \in Elements(ReferenceRun(b).executions)} |->
                (CHOOSE x \in Elements(ReferenceRun(b).executions) : x.slice = z).inputs]
      BY <1>2 DEF GoldenInputs
    <3> QED
      BY <3>1, <3>2
  <2>16. S = {b.routes[i].slice : i \in 1 .. n}
         /\ \A i \in 1 .. n : of(b.routes[i].slice) = e[i]
    BY <2>8, Zenon DEF Returned
  <2> HIDE DEF S, of
  <2> QED
    BY <2>14, <2>15, <2>16 DEF CleanTree
<1> QED
  BY <1>1, <1>2

-----------------------------------------------------------------------------
(* The bindings that are executed.                                         *)

\* The routes of n slices, each with a context of its own.
RoutesFor(routes, n, names, contexts) ==
    routes = [i \in 1 .. n |->
                Route(names[i], contexts[i], UNION {Outputs[names[j]] : j \in 1 .. i - 1})]

LEMMA RoutesLink ==
    ASSUME NEW n \in Nat \ {0}, NEW names, DOMAIN names = 1 .. n, Wired(names),
           NEW contexts, NEW routes, RoutesFor(routes, n, names, contexts)
    PROVE  Proper(routes, n)
<1> USE DEF RoutesFor
<1> DEFINE before(i) == UNION {Outputs[names[j]] : j \in 1 .. i - 1}
<1>1. DOMAIN routes = 1 .. n /\ Len(routes) = n
  <2> DEFINE T == {routes[i] : i \in 1 .. n}
  <2>1. DOMAIN routes = 1 .. n
    OBVIOUS
  <2>2. routes \in [1 .. n -> T]
    <3>1. \A i \in 1 .. n : routes[i] \in T
      OBVIOUS
    <3>2. routes = [i \in 1 .. n |-> routes[i]]
      OBVIOUS
    <3> HIDE DEF T
    <3> QED
      BY <3>1, <3>2
  <2> HIDE DEF T
  <2>3. routes \in Seq(T)
    <3>1. routes \in UNION {[1 .. k -> T] : k \in Nat}
      BY <2>2
    <3> QED
      BY <3>1, SeqDef
  <2> QED
    BY <2>1, <2>3
<1>2. ASSUME NEW i \in 1 .. n
      PROVE  /\ routes[i] = Route(names[i], contexts[i], before(i))
             /\ routes[i].slice = names[i]
             /\ routes[i] = Route(names[i], routes[i], before(i))
  <2>1. routes[i] = Route(names[i], contexts[i], before(i))
    OBVIOUS
  <2>2. /\ Route(names[i], contexts[i], before(i)).slice = names[i]
        /\ Route(names[i], contexts[i], before(i)).ars = contexts[i].ars
    BY DEF Route
  <2>3. \A c : c.ars = contexts[i].ars =>
          Route(names[i], c, before(i)) = Route(names[i], contexts[i], before(i))
    BY DEF Route
  <2> HIDE DEF before
  <2> QED
    BY <2>1, <2>2, <2>3
<1>3. Wired([i \in DOMAIN routes |-> routes[i].slice])
  <2>1. [i \in DOMAIN routes |-> routes[i].slice] = [i \in 1 .. n |-> names[i]]
    BY <1>1, <1>2
  <2> DEFINE f == [i \in DOMAIN routes |-> routes[i].slice]
  <2>2. f = [i \in 1 .. n |-> names[i]]
    BY <2>1
  <2>3. DOMAIN f = 1 .. n /\ \A i \in 1 .. n : f[i] = names[i]
    BY <2>2
  <2> HIDE DEF f
  <2>4. Wired(f)
    <3> SUFFICES ASSUME NEW i \in 1 .. n, NEW j \in 1 .. n
                 PROVE  /\ \E t \in Outputs[f[i]] : ~t.state
                        /\ \A t \in Inputs[f[i]] : t.state =>
                             \E u \in Outputs[f[i]] : u.state /\ StateSlot(u) = StateSlot(t)
                        /\ \A t \in Outputs[f[i]] \cap Inputs[f[j]] : t.state \/ i < j
                        /\ i # j =>
                             /\ \A t \in Outputs[f[i]] \cap Outputs[f[j]] : t.state
                             /\ \A t \in Inputs[f[i]] \cup Outputs[f[i]],
                                   u \in Inputs[f[j]] \cup Outputs[f[j]] :
                                  t.state /\ u.state => StateSlot(t) # StateSlot(u)
      BY <2>3, Zenon DEF Wired
    <3>1. f[i] = names[i] /\ f[j] = names[j]
      BY <2>3
    <3>2. i \in DOMAIN names /\ j \in DOMAIN names
      OBVIOUS
    <3> DEFINE W(a, b) ==
                 /\ \E t \in Outputs[a] : ~t.state
                 /\ \A t \in Inputs[a] : t.state =>
                      \E u \in Outputs[a] : u.state /\ StateSlot(u) = StateSlot(t)
                 /\ \A t \in Outputs[a] \cap Inputs[b] : t.state \/ i < j
                 /\ i # j =>
                      /\ \A t \in Outputs[a] \cap Outputs[b] : t.state
                      /\ \A t \in Inputs[a] \cup Outputs[a], u \in Inputs[b] \cup Outputs[b] :
                           t.state /\ u.state => StateSlot(t) # StateSlot(u)
    <3>3. W(names[i], names[j])
      BY <3>2, Zenon DEF Wired
    <3>4. W(f[i], f[j])
      <4> HIDE DEF W
      <4> QED
        BY <3>1, <3>3
    <3> QED
      BY <3>4
  <2> QED
    BY <2>4 DEF f
<1>4. ASSUME NEW i \in 1 .. n
      PROVE  routes[i] = Route(routes[i].slice, routes[i],
                               UNION {Outputs[routes[j].slice] : j \in 1 .. i - 1})
  <2>0. \A j \in 1 .. i - 1 : j \in 1 .. n
    OBVIOUS
  <2>1. \A j \in 1 .. i - 1 : routes[j].slice = names[j]
    BY <1>2, <2>0
  <2>2. {Outputs[routes[j].slice] : j \in 1 .. i - 1} = {Outputs[names[j]] : j \in 1 .. i - 1}
    <3> DEFINE a(j) == Outputs[routes[j].slice]
               c(j) == Outputs[names[j]]
    <3>1. \A j \in 1 .. i - 1 : a(j) = c(j)
      BY <2>1
    <3> HIDE DEF a, c
    <3>2. {a(j) : j \in 1 .. i - 1} = {c(j) : j \in 1 .. i - 1}
      BY <3>1
    <3> QED
      BY <3>2 DEF a, c
  <2>3. UNION {Outputs[routes[j].slice] : j \in 1 .. i - 1} = before(i)
    BY <2>2
  <2> HIDE DEF before
  <2> QED
    BY <1>2, <2>3
<1>5. Chained(routes)
  BY <1>1, <1>3, <1>4, Zenon DEF Chained
<1> QED
  BY <1>1, <1>5, ChainedLinks DEF Proper

\* Some of the slices, in the order of the split plan.
LEMMA WiredSome ==
    ASSUME NEW m \in Nat, NEW f, \A k \in 1 .. m : f[k] \in DOMAIN Slices,
           \A k, l \in 1 .. m : k < l => f[k] < f[l]
    PROVE  Wired([k \in 1 .. m |-> Slices[f[k]]])
<1> DEFINE g == [k \in 1 .. m |-> Slices[f[k]]]
<1>1. DOMAIN g = 1 .. m /\ \A k \in 1 .. m : g[k] = Slices[f[k]]
  OBVIOUS
<1>2. DOMAIN Slices \subseteq Nat
  BY SlicesSeq
<1> HIDE DEF g
<1>3. ASSUME NEW i \in 1 .. m, NEW j \in 1 .. m
      PROVE  /\ \E t \in Outputs[g[i]] : ~t.state
             /\ \A t \in Inputs[g[i]] : t.state =>
                  \E u \in Outputs[g[i]] : u.state /\ StateSlot(u) = StateSlot(t)
             /\ \A t \in Outputs[g[i]] \cap Inputs[g[j]] : t.state \/ i < j
             /\ i # j =>
                  /\ \A t \in Outputs[g[i]] \cap Outputs[g[j]] : t.state
                  /\ \A t \in Inputs[g[i]] \cup Outputs[g[i]],
                        u \in Inputs[g[j]] \cup Outputs[g[j]] :
                       t.state /\ u.state => StateSlot(t) # StateSlot(u)
  <2>1. /\ f[i] \in DOMAIN Slices /\ f[j] \in DOMAIN Slices
        /\ f[i] < f[j] => i < j
        /\ i # j => f[i] # f[j]
    <3>1. f[i] \in DOMAIN Slices /\ f[j] \in DOMAIN Slices /\ f[i] \in Nat /\ f[j] \in Nat
      BY <1>2
    <3>2. i < j \/ i = j \/ j < i
      OBVIOUS
    <3> QED
      BY <3>1, <3>2
  <2> DEFINE W(a, b) ==
               /\ \E t \in Outputs[a] : ~t.state
               /\ \A t \in Inputs[a] : t.state =>
                    \E u \in Outputs[a] : u.state /\ StateSlot(u) = StateSlot(t)
               /\ \A t \in Outputs[a] \cap Inputs[b] : t.state \/ f[i] < f[j]
               /\ f[i] # f[j] =>
                    /\ \A t \in Outputs[a] \cap Outputs[b] : t.state
                    /\ \A t \in Inputs[a] \cup Outputs[a], u \in Inputs[b] \cup Outputs[b] :
                         t.state /\ u.state => StateSlot(t) # StateSlot(u)
  <2>2. W(Slices[f[i]], Slices[f[j]])
    BY <2>1, WiringAssumption, Zenon DEF Wired
  <2>3. W(g[i], g[j])
    <3> HIDE DEF W
    <3> QED
      BY <1>1, <2>2
  <2> QED
    BY <2>1, <2>3
<1>4. Wired(g)
  BY <1>1, <1>3, Zenon DEF Wired
<1> QED
  BY <1>4 DEF g

LEMMA SliceRoutesLink ==
    ASSUME NEW contexts, NEW cl, Len(SliceRoutes(contexts, cl)) > 0
    PROVE  \E n : /\ Proper(SliceRoutes(contexts, cl), n)
                  /\ \A k \in 1 .. n : SliceRoutes(contexts, cl)[k].slice
                                        \in DOMAIN ContextsBySlice(contexts, cl)
<1> DEFINE routes == SliceRoutes(contexts, cl)
           by == ContextsBySlice(contexts, cl)
           places == DOMAIN Slices
           T == {j \in places : Slices[j] \in DOMAIN by}
           R == {p \in places \X places : p[1] < p[2]}
           indices == Ranked(T, R)
           m == Cardinality(T)
           name(k) == Slices[indices[k]]
           names == [k \in 1 .. m |-> name(k)]
           given == [k \in 1 .. m |-> by[name(k)]]
<1>2. routes = [k \in DOMAIN indices |->
                  Route(name(k), by[name(k)], UNION {Outputs[name(j)] : j \in 1 .. k - 1})]
  BY DEF SliceRoutes
<1> HIDE DEF by
<1>3. places = 1 .. Len(Slices) /\ Len(Slices) \in Nat
  BY SlicesSeq
<1>4. IsFiniteSet(T) /\ m \in Nat
  <2>1. IsFiniteSet(1 .. Len(Slices))
    <3>1. 1 \in Int /\ Len(Slices) \in Int
      BY <1>3
    <3> QED
      BY <3>1, FS_Interval
  <2>2. T \in SUBSET places
    OBVIOUS
  <2>3. IsFiniteSet(places)
    BY <1>3, <2>1
  <2> HIDE DEF T, places
  <2>4. IsFiniteSet(T)
    BY <2>2, <2>3, FS_Subset
  <2> QED
    BY <2>4, FS_CardinalityType
<1>5. /\ \A a, b : <<a, b>> \in R <=> a \in places /\ b \in places /\ a < b
      /\ T \subseteq places /\ places \subseteq Int
  BY <1>3
<1> HIDE DEF R
<1>6. /\ DOMAIN indices = 1 .. m
      /\ \A k \in 1 .. m : indices[k] \in T
      /\ \A k, l \in 1 .. m : k < l => <<indices[k], indices[l]>> \in R
  <2> HIDE DEF places, T
  <2>1. \A a \in T : <<a, a>> \notin R
    BY <1>5
  <2>2. \A a, b, c \in T : <<a, b>> \in R /\ <<b, c>> \in R => <<a, c>> \in R
    BY <1>5
  <2>3. \A a, b \in T : a # b => <<a, b>> \in R \/ <<b, a>> \in R
    BY <1>5
  <2> QED
    BY <1>4, <2>1, <2>2, <2>3, RankedOrder
<1> HIDE DEF indices, m
<1>7. Wired(names)
  <2>1. \A k \in 1 .. m : indices[k] \in DOMAIN Slices
    BY <1>5, <1>6
  <2>2. \A k, l \in 1 .. m : k < l => indices[k] < indices[l]
    BY <1>5, <1>6
  <2> QED
    BY <1>4, <2>1, <2>2, WiredSome
<1>8. DOMAIN names = 1 .. m /\ \A k \in 1 .. m : names[k] = name(k)
  OBVIOUS
<1>9. routes = [k \in 1 .. m |->
                  Route(names[k], given[k], UNION {Outputs[names[j]] : j \in 1 .. k - 1})]
  <2>1. ASSUME NEW k \in 1 .. m
        PROVE  Route(name(k), by[name(k)], UNION {Outputs[name(j)] : j \in 1 .. k - 1})
                 = Route(names[k], given[k], UNION {Outputs[names[j]] : j \in 1 .. k - 1})
    <3>1. names[k] = name(k) /\ given[k] = by[name(k)]
      OBVIOUS
    <3>2. {Outputs[name(j)] : j \in 1 .. k - 1} = {Outputs[names[j]] : j \in 1 .. k - 1}
      <4>1. \A j \in 1 .. k - 1 : names[j] = name(j)
        BY <1>4
      <4> HIDE DEF names, name
      <4> QED
        BY <4>1
    <3> HIDE DEF names, name, given
    <3> QED
      BY <3>1, <3>2
  <2> DEFINE a(k) == Route(name(k), by[name(k)], UNION {Outputs[name(j)] : j \in 1 .. k - 1})
             b(k) == Route(names[k], given[k], UNION {Outputs[names[j]] : j \in 1 .. k - 1})
  <2>2. \A k \in 1 .. m : a(k) = b(k)
    BY <2>1
  <2>3. routes = [k \in 1 .. m |-> a(k)]
    BY <1>2, <1>6
  <2> HIDE DEF a, b, routes
  <2>4. routes = [k \in 1 .. m |-> b(k)]
    BY <2>2, <2>3
  <2> QED
    BY <2>4 DEF b
<1>10. m # 0
  <2> SUFFICES ASSUME m = 0
               PROVE  FALSE
    OBVIOUS
  <2>1. DOMAIN routes = {}
    BY <1>2, <1>4, <1>6
  <2> HIDE DEF names, name, given
  <2>2. routes = << >>
    <3>1. routes = [k \in {} |-> 0]
      BY <1>9, <2>1
    <3> QED
      BY <3>1
  <2>3. Len(routes) = 0
    BY <2>2
  <2> QED
    BY <2>3
<1>12. \A k \in 1 .. m : routes[k].slice \in DOMAIN by
  <2> TAKE k \in 1 .. m
  <2>1. routes[k].slice = names[k]
    BY <1>9 DEF Route
  <2>2. name(k) \in DOMAIN by
    BY <1>6
  <2> QED
    BY <1>8, <2>1, <2>2
<1> HIDE DEF names, name, given, routes
<1>11. Proper(routes, m)
  <2>1. RoutesFor(routes, m, names, given)
    BY <1>9 DEF RoutesFor
  <2> QED
    BY <1>4, <1>7, <1>8, <1>10, <2>1, RoutesLink
<1> QED
  BY <1>11, <1>12 DEF routes, by

-----------------------------------------------------------------------------
\* A binding of one graph, or of a chain of slices that belong together.
WellBound(b) ==
    /\ \E n : Proper(b.routes, n)
    /\ b.scope \in {"graph", "chain"}
    /\ b.scope = "graph" => Len(b.routes) = 1

\* A binding of which every slice has a context that the index has at its length.
Backed(b, cl) ==
    \A k \in DOMAIN b.routes : \E c \in Contexts :
        c.slice = b.routes[k].slice /\ IndexedCl(c.cl, spec.cls[1]) = cl

\* The saved slices of a container are the first ones of the split plan.
LEMMA RawLinks ==
    ASSUME RawInv, RawRoutes # << >>
    PROVE  \E n : Proper(RawRoutes, n)
<1>1. raw \notin {NoSlices, << >>}
  BY DEF RawRoutes
<1>2. PICK n \in 0 .. Len(Slices) : DOMAIN raw = 1 .. n
  BY <1>1 DEF RawInv
<1>3. Len(Slices) \in Nat /\ DOMAIN Slices = 1 .. Len(Slices)
  BY SlicesSeq
<1> DEFINE names == [k \in 1 .. n |-> Slices[k]]
           contexts == [k \in 1 .. n |-> [ars |-> AllArs]]
           f == [k \in 1 .. n |-> k]
<1>4. RawRoutes = [i \in 1 .. n |-> Route(Slices[i], [ars |-> AllArs],
                                          UNION {Outputs[Slices[j]] : j \in 1 .. i - 1})]
  BY <1>1, <1>2 DEF RawRoutes
<1>5. n # 0
  <2> SUFFICES ASSUME n = 0
               PROVE  FALSE
    OBVIOUS
  <2>1. 1 .. n = {}
    BY <1>3
  <2> QED
    BY <1>4, <2>1
<1>6. Wired(names)
  <2>1. n \in Nat
    BY <1>3
  <2>2. \A k \in 1 .. n : f[k] \in DOMAIN Slices
    BY <1>3
  <2>3. \A k, l \in 1 .. n : k < l => f[k] < f[l]
    OBVIOUS
  <2>4. Wired([k \in 1 .. n |-> Slices[f[k]]])
    <3> HIDE DEF f
    <3> QED
      BY <2>1, <2>2, <2>3, WiredSome
  <2>5. [k \in 1 .. n |-> Slices[f[k]]] = names
    OBVIOUS
  <2> HIDE DEF f, names
  <2> QED
    BY <2>4, <2>5
<1>7. DOMAIN names = 1 .. n /\ n \in Nat \ {0}
  BY <1>3, <1>5
<1>8. RawRoutes = [i \in 1 .. n |-> Route(names[i], contexts[i],
                                          UNION {Outputs[names[j]] : j \in 1 .. i - 1})]
  <2> DEFINE a(k) == Route(Slices[k], [ars |-> AllArs],
                           UNION {Outputs[Slices[j]] : j \in 1 .. k - 1})
             b(k) == Route(names[k], contexts[k],
                           UNION {Outputs[names[j]] : j \in 1 .. k - 1})
  <2>1. ASSUME NEW k \in 1 .. n
        PROVE  a(k) = b(k)
    <3>1. names[k] = Slices[k] /\ contexts[k] = [ars |-> AllArs]
      OBVIOUS
    <3>2. {Outputs[Slices[j]] : j \in 1 .. k - 1} = {Outputs[names[j]] : j \in 1 .. k - 1}
      <4>1. \A j \in 1 .. k - 1 : names[j] = Slices[j]
        BY <1>3
      <4> HIDE DEF names
      <4> QED
        BY <4>1
    <3> HIDE DEF names, contexts
    <3> QED
      BY <3>1, <3>2
  <2>2. RawRoutes = [k \in 1 .. n |-> a(k)]
    BY <1>4
  <2> HIDE DEF a, b
  <2>3. RawRoutes = [k \in 1 .. n |-> b(k)]
    BY <2>1, <2>2
  <2> QED
    BY <2>3 DEF b
<1> HIDE DEF names, contexts
<1>9. Proper(RawRoutes, n)
  <2>1. RoutesFor(RawRoutes, n, names, contexts)
    BY <1>8 DEF RoutesFor
  <2> QED
    BY <1>6, <1>7, <2>1, RoutesLink
<1> QED
  BY <1>9

\* One graph of a slice that belongs to itself.
LEMMA GraphLinks ==
    ASSUME NEW s, Wired(<<s>>), NEW cl, NEW ar, NEW component
    PROVE  WellBound(Graph(s, cl, ar, component))
<1> DEFINE routes == <<Route(s, [ars |-> {ar}], {})>>
           names == <<s>>
           contexts == [k \in 1 .. 1 |-> [ars |-> {ar}]]
<1>1. DOMAIN names = 1 .. 1 /\ names[1] = s
  OBVIOUS
<1>2. routes = [i \in 1 .. 1 |-> Route(names[i], contexts[i],
                                       UNION {Outputs[names[j]] : j \in 1 .. i - 1})]
  <2> DEFINE b(k) == Route(names[k], contexts[k],
                           UNION {Outputs[names[j]] : j \in 1 .. k - 1})
  <2>1. b(1) = Route(s, [ars |-> {ar}], {})
    <3>1. UNION {Outputs[names[j]] : j \in 1 .. 1 - 1} = {}
      OBVIOUS
    <3>2. names[1] = s /\ contexts[1] = [ars |-> {ar}]
      OBVIOUS
    <3> HIDE DEF names, contexts
    <3> QED
      BY <3>1, <3>2
  <2>2. DOMAIN routes = 1 .. 1 /\ routes[1] = Route(s, [ars |-> {ar}], {})
    OBVIOUS
  <2> HIDE DEF b
  <2>3. routes = [k \in 1 .. 1 |-> b(k)]
    <3>1. routes = [k \in 1 .. 1 |-> routes[k]]
      OBVIOUS
    <3> HIDE DEF routes
    <3> QED
      BY <2>1, <2>2, <3>1
  <2> QED
    BY <2>3 DEF b
<1>3. Wired(names)
  OBVIOUS
<1> HIDE DEF names, contexts, routes
<1>4. Proper(routes, 1)
  <2>1. 1 \in Nat \ {0}
    OBVIOUS
  <2>2. RoutesFor(routes, 1, names, contexts)
    BY <1>2 DEF RoutesFor
  <2> QED
    BY <1>1, <1>3, <2>1, <2>2, RoutesLink
<1>5. Len(routes) = 1
  BY <1>4 DEF Proper
<1>6. Graph(s, cl, ar, component).routes = routes /\ Graph(s, cl, ar, component).scope = "graph"
  BY DEF Graph, routes
<1> QED
  BY <1>4, <1>5, <1>6 DEF WellBound

\* What contexts of a length make up.
LEMMA ContextsBacked ==
    ASSUME NEW contexts, NEW cl, NEW s \in DOMAIN ContextsBySlice(contexts, cl)
    PROVE  \E j \in DOMAIN contexts : contexts[j].cl = cl /\ contexts[j].slice = s
  BY DEF ContextsBySlice

\* Every slice that has a context is a slice of the split plan, or an encoder.
LEMMA ContextWired ==
    ASSUME ProgressInv, PlanInv, BuiltInv, NEW x \in Contexts
    PROVE  Wired(<<x.slice>>)
<1>1. CASE x.cl = 0
  BY <1>1, ContextsOf, VisionAssumption, VitAssumption
<1>2. CASE x.cl # 0
  <2>1. PICK i \in DOMAIN Slices : Slices[i] = x.slice
    BY <1>2, ContextsOf, SlicesSeq
  <2> DEFINE f == [k \in 1 .. 1 |-> i]
             g == [k \in 1 .. 1 |-> Slices[f[k]]]
  <2>2. Wired(g)
    <3>1. \A k \in 1 .. 1 : f[k] \in DOMAIN Slices
      OBVIOUS
    <3>2. \A k, l \in 1 .. 1 : k < l => f[k] < f[l]
      OBVIOUS
    <3>3. 1 \in Nat
      OBVIOUS
    <3> HIDE DEF f
    <3> QED
      BY <3>1, <3>2, <3>3, WiredSome
  <2>3. g = <<x.slice>>
    BY <2>1
  <2> QED
    BY <2>2, <2>3
<1> QED
  BY <1>1, <1>2

\* What the index selects belongs together and is backed by contexts on disk.
LEMMA SelectedLinks ==
    ASSUME ProgressInv, PlanInv, BuiltInv, RawInv, pc = "succeeded",
           NEW ar, NEW cl, NEW component, NEW b, b = SelectBinding(index, ar, cl, component),
           b # NotSelectable, b.scope # "container"
    PROVE  WellBound(b) /\ (spec.lane # "genai_builder" => Backed(b, cl))
<1>1. index = MakeIndex(Result, Default, vectors, spec.base)
  BY DEF BuiltInv, IndexMade
<1> DEFINE C == InOrder(Contexts)
           D == [i \in DOMAIN C |-> [C[i] EXCEPT !.cl = IndexedCl(@, Default.cl)]]
           at0 == IF cl \in DOMAIN index.contexts THEN index.contexts[cl] ELSE << >>
<1>2. /\ DOMAIN C = 1 .. Cardinality(Contexts)
      /\ \A j \in DOMAIN C : C[j] \in Contexts
  BY ContextsOrdered DEF Elements
<1>3. /\ index.raw = RawRoutes /\ index.vision_model = FALSE
      /\ index.lane = IF spec.lane = "vit" THEN "low_level" ELSE spec.lane
      /\ index.contexts = [c \in {x.cl : x \in Elements(D)} |-> ContextsBySlice(D, c)]
      /\ \A c \in DOMAIN index.routes : c # 0 /\ index.routes[c] = SliceRoutes(C, c)
  <2>1. /\ Result.raw = RawRoutes /\ Result.vision_model = FALSE /\ Result.contexts = C
        /\ Result.lane = IF spec.lane = "vit" THEN "low_level" ELSE spec.lane
    BY DEF Result, Contexts
  <2> DEFINE cls == {c.cl : c \in Elements(Result.contexts)} \ {0}
  <2>2. index.routes = IF Result.slice_models # {}
                       THEN [c \in cls |-> SliceRoutes(Result.contexts, c)]
                       ELSE << >>
    BY <1>1, Zenon DEF MakeIndex
  <2>3. index.contexts = [c \in {x.cl : x \in Elements(D)} |-> ContextsBySlice(D, c)]
    <3> DEFINE E(r) == [i \in DOMAIN r.contexts |->
                          [r.contexts[i] EXCEPT !.cl = IndexedCl(@, Default.cl)]]
    <3>1. index.contexts = [c \in {x.cl : x \in Elements(E(Result))} |->
                              ContextsBySlice(E(Result), c)]
      BY <1>1, Zenon DEF MakeIndex
    <3>2. E(Result) = D
      BY <2>1
    <3> QED
      BY <3>1, <3>2
  <2>4. \A c \in DOMAIN index.routes : c # 0 /\ index.routes[c] = SliceRoutes(C, c)
    <3> HIDE DEF C
    <3> QED
      BY <2>1, <2>2
  <2>5. index.raw = RawRoutes /\ index.vision_model = FALSE /\ index.lane = Result.lane
    BY <1>1, <2>1 DEF MakeIndex
  <2> QED
    BY <2>1, <2>3, <2>4, <2>5
<1> HIDE DEF C, D
<1>4. ASSUME NEW routes, b = Chain(routes, cl, ar, component), \E n : Proper(routes, n)
      PROVE  WellBound(b) /\ b.routes = routes
  <2>1. b = [scope |-> ScopeOf(routes), routes |-> routes, ar |-> ar, cl |-> cl,
             component |-> component]
    BY <1>4 DEF Chain
  <2>2. b.scope = IF Len(routes) > 1 THEN "chain" ELSE "graph"
    BY <2>1 DEF ScopeOf
  <2>3. Len(routes) \in Nat \ {0}
    BY <1>4 DEF Proper
  <2>4. b.routes = routes
    BY <2>1
  <2>5. b.scope \in {"graph", "chain"} /\ (b.scope = "graph" => Len(routes) = 1)
    <3>1. PICK m \in Nat \ {0} : m = Len(routes)
      BY <2>3
    <3>2. CASE m > 1
      <4>1. b.scope = "chain"
        BY <2>2, <3>1, <3>2
      <4> QED
        BY <4>1
    <3>3. CASE ~(m > 1)
      <4>1. b.scope = "graph"
        BY <2>2, <3>1, <3>3
      <4>2. m = 1
        BY <3>3
      <4> QED
        BY <3>1, <4>1, <4>2
    <3> QED
      BY <3>2, <3>3
  <2>6. \E n : Proper(b.routes, n)
    BY <1>4, <2>4
  <2> QED
    BY <2>4, <2>5, <2>6 DEF WellBound
<1>5. SelectVision(index, cl) = NotSelectable
  BY <1>3 DEF SelectVision
<1>6. CASE index.lane = "genai_builder"
  <2>1. index.raw # << >> /\ b = Chain(index.raw, cl, ar, component)
    BY <1>6 DEF SelectBinding
  <2>2. \E n : Proper(RawRoutes, n)
    BY <1>3, <2>1, RawLinks
  <2> QED
    BY <1>3, <1>4, <1>6, <2>1, <2>2
<1>7. CASE index.lane # "genai_builder" /\ cl \in DOMAIN index.routes
  <2>1. b = Chain(index.routes[cl], cl, ar, component)
    BY <1>5, <1>7 DEF SelectBinding
  <2>2. index.routes[cl] = SliceRoutes(C, cl) /\ cl # 0
    BY <1>3, <1>7
  <2>3. Len(SliceRoutes(C, cl)) > 0
    BY <2>1, <2>2 DEF Chain
  <2>4. PICK n : /\ Proper(SliceRoutes(C, cl), n)
                 /\ \A k \in 1 .. n : SliceRoutes(C, cl)[k].slice \in DOMAIN ContextsBySlice(C, cl)
    BY <2>3, SliceRoutesLink
  <2>5. WellBound(b) /\ b.routes = SliceRoutes(C, cl)
    BY <1>4, <2>1, <2>2, <2>4
  <2>6. ASSUME NEW k \in DOMAIN b.routes
        PROVE  \E c \in Contexts :
                 c.slice = b.routes[k].slice /\ IndexedCl(c.cl, spec.cls[1]) = cl
    <3>1. b.routes[k].slice \in DOMAIN ContextsBySlice(C, cl)
      BY <2>4, <2>5 DEF Proper
    <3>2. PICK j \in DOMAIN C : C[j].cl = cl /\ C[j].slice = b.routes[k].slice
      BY <3>1, ContextsBacked
    <3> QED
      BY <1>2, <2>2, <3>2 DEF IndexedCl
  <2> QED
    BY <2>5, <2>6 DEF Backed
<1>8. CASE index.lane # "genai_builder" /\ cl \notin DOMAIN index.routes
  <2>1. b = SelectGraph(index, cl, ar, component)
    BY <1>5, <1>8 DEF SelectBinding
  <2> DEFINE candidates == {s \in DOMAIN at0 : ar \in at0[s].ars}
  <2>2. /\ \E s \in candidates : candidates = {s}
        /\ b = Graph(CHOOSE s \in candidates : TRUE, cl, ar, component)
    BY <2>1, Zenon DEF SelectGraph
  <2>3. PICK s \in candidates : b = Graph(s, cl, ar, component)
    BY <2>2
  <2>4. cl \in DOMAIN index.contexts /\ s \in DOMAIN index.contexts[cl]
    BY <2>3
  <2>5. s \in DOMAIN ContextsBySlice(D, cl)
    BY <1>3, <2>4
  <2>6. PICK j \in DOMAIN D : D[j].cl = cl /\ D[j].slice = s
    BY <2>5, ContextsBacked
  <2>7. PICK x \in Contexts : x = C[j] /\ DOMAIN D = DOMAIN C
    BY <1>2, <2>6 DEF D
  <2>8. D[j] = [x EXCEPT !.cl = IndexedCl(@, Default.cl)]
    BY <2>6, <2>7 DEF D
  <2>9. x = [slice |-> x.slice, cl |-> x.cl, ars |-> x.ars, tapped |-> FALSE]
    BY ContextsOf
  <2>10. D[j].slice = x.slice /\ D[j].cl = IndexedCl(x.cl, Default.cl)
    BY <2>8, <2>9
  <2>11. WellBound(b)
    BY <2>3, <2>6, <2>10, ContextWired, GraphLinks
  <2>12. \A k \in DOMAIN b.routes : b.routes[k].slice = s
    <3>1. b.routes = <<Route(s, [ars |-> {ar}], {})>>
      BY <2>3 DEF Graph
    <3>2. Route(s, [ars |-> {ar}], {}).slice = s
      BY DEF Route
    <3> QED
      BY <3>1, <3>2
  <2>13. IndexedCl(x.cl, spec.cls[1]) = cl
    BY <2>6, <2>10 DEF Default
  <2> QED
    BY <2>6, <2>10, <2>11, <2>12, <2>13 DEF Backed
<1> QED
  BY <1>6, <1>7, <1>8

\* A graph or chain that a call executes belongs together.
LEMMA BindingLinks ==
    ASSUME ProgressInv, PlanInv, BuiltInv, RawInv, DiagnosesInv, PhasesInv,
           phase \in {"bind", "select"}, Binding # NotSelectable,
           Automatic => Binding.scope # "container",
           call.form \in {"automatic", "given"}
    PROVE  WellBound(Binding)
<1>1. call \in Calls /\ pc = "succeeded" /\ call.stage \in {"validate", "benchmark"}
  BY DEF DiagnosesInv, IdleInv, CallsInv, PhasesInv, OfAValidation, OfABenchmark
<1>2. CASE Automatic
  BY <1>1, <1>2, SelectedLinks DEF Binding
<1>3. CASE ~Automatic
  <2>1. call.form = "given" /\ Binding = call.binding
    BY <1>3 DEF Automatic, Binding
  <2>2. Named(call.binding)
    BY <1>1, <2>1, NamedAssumption
  <2> DEFINE b == call.binding
  <2>3. b.routes \in Seq(RouteOf) /\ b.scope \in {"graph", "chain", "container"}
    BY <2>2 DEF Named, BindingOf
  <2>4. /\ Len(b.routes) \in Nat \ {0} /\ DOMAIN b.routes = 1 .. Len(b.routes)
    BY <2>2, <2>3 DEF Named
  <2>5. Proper(b.routes, Len(b.routes))
    <3>1. Chained(b.routes)
      BY <2>2 DEF Named
    <3> QED
      BY <2>4, <3>1, ChainedLinks DEF Proper
  <2> QED
    BY <2>1, <2>2, <2>3, <2>5 DEF WellBound, Named
<1> QED
  BY <1>2, <1>3

-----------------------------------------------------------------------------
(* What a report says of an execution.                                     *)

\* The end of the model deviates exactly when its last slice does.
LEMMA EndDiverges ==
    ASSUME NEW routes, NEW n, NEW tree, NEW D, NEW M, M # {},
           AtEnd(routes, n, tree, D), Comparable(Whole(M), tree)
    PROVE  /\ tree # NoTree
           /\ Diverged(Whole(M), tree) # {} <=> routes[n].slice \in D
<1>1. DOMAIN Whole(M) = {"model"} /\ Whole(M)["model"] = M
  BY DEF Whole
<1>2. tree # NoTree
  <2>1. DOMAIN NoTree = {}
    BY DEF NoTree
  <2> QED
    BY <2>1 DEF AtEnd
<1>3. M \subseteq routes[n].outputs
  BY <1>1, <1>2 DEF Comparable, AtEnd
<1>4. \A t \in M : tree["model"][t].noise # {} <=> routes[n].slice \in D
  BY <1>3 DEF AtEnd
<1>5. \A x : x \in Diverged(Whole(M), tree) <=>
        x = "model" /\ \E t \in M : tree["model"][t].noise # {}
  BY <1>1, <1>2 DEF Diverged
<1> QED
  BY <1>2, <1>4, <1>5

\* The goldens of the slices are of what they return.
LEMMA SliceGoldensOf ==
    ASSUME NEW b, NEW n, Proper(b.routes, n)
    PROVE  /\ DOMAIN SliceGoldens(b) = SlicesOf(b.routes, n)
           /\ SlicesOf(b.routes, n) = {q.slice : q \in Elements(b.routes)}
           /\ \A i \in 1 .. n : SliceGoldens(b)[b.routes[i].slice] = b.routes[i].outputs
<1> DEFINE routes == b.routes
           S == SlicesOf(b.routes, n)
           of(s) == (CHOOSE r \in Elements(b.routes) : r.slice = s).outputs
<1>1. /\ n \in Nat \ {0} /\ DOMAIN routes = 1 .. n
      /\ \A i, j \in 1 .. n : i # j => routes[i].slice # routes[j].slice
  BY DEF Proper, Linked
<1>2. S = {q.slice : q \in Elements(routes)}
  BY <1>1 DEF SlicesOf, Elements
<1>3. \A i \in 1 .. n : of(routes[i].slice) = routes[i].outputs
  <2> TAKE i \in 1 .. n
  <2> DEFINE r0 == CHOOSE r \in Elements(b.routes) : r.slice = routes[i].slice
  <2>1. routes[i] \in Elements(b.routes)
    BY <1>1 DEF Elements
  <2>2. r0 \in Elements(b.routes) /\ r0.slice = routes[i].slice
    BY <2>1
  <2>3. PICK j \in 1 .. n : r0 = routes[j]
    BY <1>1, <2>2 DEF Elements
  <2>4. j = i
    BY <1>1, <2>2, <2>3
  <2> QED
    BY <2>3, <2>4
<1>4. SliceGoldens(b) = [s \in S |-> of(s)]
  <2>1. SliceGoldens(b) = [s \in {q.slice : q \in Elements(b.routes)} |-> of(s)]
    BY Zenon DEF SliceGoldens
  <2> HIDE DEF of, S
  <2> QED
    BY <1>2, <2>1
<1>5. \A i \in 1 .. n : routes[i].slice \in S
  BY DEF SlicesOf
<1> HIDE DEF of, S
<1>6. DOMAIN SliceGoldens(b) = S
      /\ \A i \in 1 .. n : SliceGoldens(b)[routes[i].slice] = routes[i].outputs
  BY <1>3, <1>4, <1>5
<1> QED
  BY <1>2, <1>6 DEF S

\* Slice by slice, those that deviate do.
LEMMA SlicesDiverge ==
    ASSUME NEW b, NEW n, Proper(b.routes, n), NEW tree, NEW D,
           OfSlices(b.routes, n, tree, D)
    PROVE  /\ tree # NoTree
           /\ SlicesOf(b.routes, n) = {q.slice : q \in Elements(b.routes)}
           /\ Diverged(SliceGoldens(b), tree) = D \cap SlicesOf(b.routes, n)
<1> DEFINE routes == b.routes
           S == SlicesOf(b.routes, n)
<1>1. n \in Nat \ {0} /\ \A i \in 1 .. n : routes[i].outputs # {}
  BY DEF Proper, Linked
<1>2. /\ DOMAIN SliceGoldens(b) = S
      /\ S = {q.slice : q \in Elements(b.routes)}
      /\ \A i \in 1 .. n : SliceGoldens(b)[routes[i].slice] = routes[i].outputs
  BY SliceGoldensOf
<1>3. tree # NoTree
  <2>1. 1 \in 1 .. n
    BY <1>1
  <2>2. routes[1].slice \in DOMAIN tree
    BY <2>1 DEF OfSlices
  <2>3. DOMAIN NoTree = {}
    BY DEF NoTree
  <2> QED
    BY <2>2, <2>3
<1>4. Diverged(SliceGoldens(b), tree)
        = {x \in DOMAIN SliceGoldens(b) :
             \E t \in SliceGoldens(b)[x] : tree[x][t].noise # {}}
  BY <1>3 DEF Diverged
<1>5. ASSUME NEW x
      PROVE  x \in Diverged(SliceGoldens(b), tree) <=> x \in D /\ x \in S
  <2>1. CASE x \notin S
    BY <1>2, <1>4, <2>1
  <2>2. CASE x \in S
    <3>1. PICK i \in 1 .. n : x = routes[i].slice
      BY <2>2 DEF SlicesOf
    <3>2. SliceGoldens(b)[x] = routes[i].outputs
      BY <1>2, <3>1
    <3>3. \A t \in routes[i].outputs : tree[x][t].noise # {} <=> x \in D
      BY <3>1 DEF OfSlices
    <3>4. routes[i].outputs # {}
      BY <1>1
    <3> HIDE DEF routes, S
    <3> QED
      BY <1>2, <1>4, <2>2, <3>2, <3>3, <3>4
  <2> QED
    BY <2>1, <2>2
<1> HIDE DEF S
<1>6. Diverged(SliceGoldens(b), tree) = D \cap S
  BY <1>5
<1> QED
  BY <1>2, <1>3, <1>6 DEF S

\* A deviation reaches the slices it is in, and slices only.
LEMMA ReachedOf ==
    ASSUME NEW from, NEW slices
    PROVE  /\ Reached(from, slices) \subseteq slices
           /\ from \cap slices \subseteq Reached(from, slices)
  BY DEF Reached

-----------------------------------------------------------------------------
\* The slices of a binding.
SlicesIn(b) == {q.slice : q \in Elements(b.routes)}

\* A deviation is attributed to the slices that have it.
Attributed(r) ==
    LET slices == SlicesIn(r.binding)
    IN  r.executed /\ Len(r.binding.routes) > 1 =>
          /\ "teacher_forced" \in r.modes => r.errors["teacher_forced"] = r.noisy \cap slices
          /\ "chain" \in r.modes => r.errors["chain"] = Reached(r.noisy, slices)
          /\ "full_reference" \in r.modes =>
               (r.errors["full_reference"] # {}
                  <=> Last(r.binding.routes).slice \in Reached(r.noisy, slices))

\* Whoever compares the layers of a binding that is given names a chain.
LayersOfChains ==
    \A c \in Calls :
        c.stage = "validate" /\ c.form = "given" /\ c.float = "layer" =>
            c.binding.scope = "chain"

\* Intermediate tensors from graphs of the AR, for every slice.
TappedAll(b, ar, tapped) ==
    /\ \A d \in tapped : d.tapped /\ ar \in d.ars
    /\ SlicesIn(b) \subseteq {d.slice : d \in tapped}

\* What a report says is so: whom it blames, that it blames somebody if there is
\* something to see, and what has been tapped.
TrueReport(r) ==
    /\ Attributed(r)
    /\ r.executed /\ Visible(r) => BlocksOf(r) # {}
    /\ LayersOfChains /\ r.float = "op_level" => TappedAll(r.binding, r.ar, r.tapped)

\* What is compared with what.
Referred(w) ==
    /\ \E M : M # {} /\ w.model = Whole(M)
    /\ w.slices = IF PerSlice /\ IsChain(w.binding) THEN SliceGoldens(w.binding) ELSE w.model

\* The outputs of an execution show what deviates in it.
Displays(w, n) ==
    LET b == w.binding
        S == SlicesOf(b.routes, n)
        D == Reached(w.noisy, S)
    IN  /\ Proper(b.routes, n)
        /\ w.device # NoTree => AtEnd(b.routes, n, w.device, D)
        /\ w.chain # NoTree =>
             /\ RunsModes => Requested("chain")
             /\ IF IsChain(b) /\ RunsModes THEN OfSlices(b.routes, n, w.chain, D)
                ELSE AtEnd(b.routes, n, w.chain, D)
        /\ w.teacher # NoTree =>
             /\ Requested("teacher_forced")
             /\ IF IsChain(b) THEN OfSlices(b.routes, n, w.teacher, w.noisy \cap S)
                ELSE AtEnd(b.routes, n, w.teacher, D)
        /\ ~RunsModes => w.chain # NoTree

\* Each mode shows what it is made to show.
LEMMA ModesShow ==
    ASSUME call.form # "outputs", Reportable, Referred(work),
           NEW n, Displays(work, n), WellBound(work.binding),
           NEW S, S = SlicesOf(work.binding.routes, n),
           NEW D, D = Reached(work.noisy, S),
           NEW last, last = work.binding.routes[n].slice
    PROVE  /\ "full_reference" \in call.modes =>
                (Errors["full_reference"] # {} <=> last \in D)
           /\ "teacher_forced" \in call.modes =>
                IF IsChain(work.binding) THEN Errors["teacher_forced"] = work.noisy \cap S
                ELSE Errors["teacher_forced"] # {} <=> last \in D
           /\ "chain" \in call.modes =>
                IF IsChain(work.binding) THEN Errors["chain"] = D
                ELSE Errors["chain"] # {} <=> last \in D
           /\ call.modes = {} => (Top.chain # {} <=> last \in D)
<1> DEFINE b == work.binding
<1>1. PICK M : M # {} /\ work.model = Whole(M)
  BY DEF Referred
<1>2. Proper(b.routes, n) /\ D \subseteq S
  BY ReachedOf DEF Displays
<1>3. ASSUME NEW m \in call.modes
      PROVE  /\ Errors[m] = Diverged(Compared(m).references, Compared(m).outputs)
             /\ Compared(m).outputs # NoTree
             /\ Comparable(Compared(m).references, Compared(m).outputs)
             /\ RunsModes
  BY DEF Errors, Reportable, RunsModes
<1>4. ASSUME "full_reference" \in call.modes
      PROVE  Errors["full_reference"] # {} <=> last \in D
  <2>1. /\ Compared("full_reference").references = work.model
        /\ Compared("full_reference").outputs = work.device
    BY DEF Compared
  <2>2. /\ Errors["full_reference"] = Diverged(Whole(M), work.device)
        /\ work.device # NoTree /\ Comparable(Whole(M), work.device)
    BY <1>1, <1>3, <1>4, <2>1
  <2>3. AtEnd(b.routes, n, work.device, D)
    BY <2>2 DEF Displays
  <2> QED
    BY <1>1, <2>2, <2>3, EndDiverges
<1>5. ASSUME "teacher_forced" \in call.modes
      PROVE  IF IsChain(b) THEN Errors["teacher_forced"] = work.noisy \cap S
             ELSE Errors["teacher_forced"] # {} <=> last \in D
  <2>1. /\ Compared("teacher_forced").references = work.slices
        /\ Compared("teacher_forced").outputs = work.teacher
    BY DEF Compared
  <2>2. /\ Errors["teacher_forced"] = Diverged(work.slices, work.teacher)
        /\ work.teacher # NoTree /\ Comparable(work.slices, work.teacher)
        /\ PerSlice
    BY <1>3, <1>5, <2>1 DEF PerSlice, Requested
  <2>3. CASE IsChain(b)
    <3>1. work.slices = SliceGoldens(b)
      BY <2>2, <2>3 DEF Referred
    <3>2. OfSlices(b.routes, n, work.teacher, work.noisy \cap S)
      BY <2>2, <2>3 DEF Displays
    <3>3. Diverged(SliceGoldens(b), work.teacher) = (work.noisy \cap S) \cap S
      BY <1>2, <3>2, SlicesDiverge
    <3> QED
      BY <2>2, <2>3, <3>1, <3>3
  <2>4. CASE ~IsChain(b)
    <3>1. work.slices = Whole(M)
      BY <1>1, <2>4 DEF Referred
    <3>2. AtEnd(b.routes, n, work.teacher, D)
      BY <2>2, <2>4 DEF Displays
    <3> QED
      BY <1>1, <2>2, <2>4, <3>1, <3>2, EndDiverges
  <2> QED
    BY <2>3, <2>4
<1>6. ASSUME "chain" \in call.modes
      PROVE  IF IsChain(b) THEN Errors["chain"] = D
             ELSE Errors["chain"] # {} <=> last \in D
  <2>1. /\ Compared("chain").references = work.slices
        /\ Compared("chain").outputs = work.chain
    BY DEF Compared
  <2>2. /\ Errors["chain"] = Diverged(work.slices, work.chain)
        /\ work.chain # NoTree /\ Comparable(work.slices, work.chain)
        /\ PerSlice /\ RunsModes
    BY <1>3, <1>6, <2>1 DEF PerSlice, Requested
  <2>3. CASE IsChain(b)
    <3>1. work.slices = SliceGoldens(b)
      BY <2>2, <2>3 DEF Referred
    <3>2. OfSlices(b.routes, n, work.chain, D)
      BY <2>2, <2>3 DEF Displays
    <3>3. Diverged(SliceGoldens(b), work.chain) = D \cap S
      BY <1>2, <3>2, SlicesDiverge
    <3> QED
      BY <1>2, <2>2, <2>3, <3>1, <3>3
  <2>4. CASE ~IsChain(b)
    <3>1. work.slices = Whole(M)
      BY <1>1, <2>4 DEF Referred
    <3>2. AtEnd(b.routes, n, work.chain, D)
      BY <2>2, <2>4 DEF Displays
    <3> QED
      BY <1>1, <2>2, <2>4, <3>1, <3>2, EndDiverges
  <2> QED
    BY <2>3, <2>4
<1>7. ASSUME call.modes = {}
      PROVE  Top.chain # {} <=> last \in D
  <2>1. ~RunsModes /\ ~PerSlice
    BY <1>7 DEF RunsModes, PerSlice
  <2>2. work.slices = Whole(M) /\ Comparable(work.slices, work.chain)
    BY <1>1, <2>1 DEF Referred, Reportable
  <2>3. AtEnd(b.routes, n, work.chain, D)
    BY <2>1 DEF Displays
  <2>4. Top.chain = Diverged(Whole(M), work.chain)
    BY <2>2 DEF Top
  <2> QED
    BY <1>1, <2>2, <2>3, <2>4, EndDiverges
<1> QED
  BY <1>4, <1>5, <1>6, <1>7

\* What a report is made of shows whom it blames.
LEMMA ReportTrue ==
    ASSUME call.form # "outputs", call.modes \subseteq Modes, Reportable, Referred(work),
           WellBound(work.binding), \E n : Displays(work, n),
           LayersOfChains /\ work.tapped # {} =>
             TappedAll(work.binding, work.binding.ar, work.tapped)
    PROVE  TrueReport(Report)
<1> DEFINE b == work.binding
<1>1. PICK n : Displays(work, n)
  OBVIOUS
<1>2. PICK S : S = SlicesOf(b.routes, n)
  OBVIOUS
<1>3. PICK D : D = Reached(work.noisy, S)
  OBVIOUS
<1>4. PICK last : last = b.routes[n].slice
  OBVIOUS
<1>5. Proper(b.routes, n)
  BY <1>1 DEF Displays
<1>6. /\ n \in Nat \ {0} /\ DOMAIN b.routes = 1 .. n /\ Len(b.routes) = n
  BY <1>5 DEF Proper
<1>7. /\ S = SlicesIn(b) /\ last \in S /\ Last(b.routes).slice = last
      /\ n = 1 => S = {last}
  <2>1. n \in 1 .. n
    BY <1>6
  <2>2. Last(b.routes) = b.routes[n]
    BY <1>6 DEF Last
  <2>3. S = {b.routes[i].slice : i \in 1 .. n}
    BY <1>2 DEF SlicesOf
  <2>4. SlicesIn(b) = {b.routes[i].slice : i \in 1 .. n}
    BY <1>6 DEF SlicesIn, Elements
  <2>5. n = 1 => 1 .. n = {1}
    OBVIOUS
  <2> QED
    BY <1>4, <2>1, <2>2, <2>3, <2>4, <2>5
<1>8. D \subseteq S /\ work.noisy \cap S \subseteq D
  BY <1>3, ReachedOf
<1>9. IsChain(b) \/ n = 1
  BY <1>6 DEF WellBound, IsChain
<1>10. /\ "full_reference" \in call.modes =>
            (Errors["full_reference"] # {} <=> last \in D)
       /\ "teacher_forced" \in call.modes =>
            IF IsChain(b) THEN Errors["teacher_forced"] = work.noisy \cap S
            ELSE Errors["teacher_forced"] # {} <=> last \in D
       /\ "chain" \in call.modes =>
            IF IsChain(b) THEN Errors["chain"] = D
            ELSE Errors["chain"] # {} <=> last \in D
       /\ call.modes = {} => (Top.chain # {} <=> last \in D)
  BY <1>1, <1>2, <1>3, <1>4, ModesShow
<1>11. /\ Report.binding = b /\ Report.ar = b.ar /\ Report.noisy = work.noisy
       /\ Report.modes = call.modes /\ Report.errors = Errors /\ Report.top = Top
       /\ Report.tapped = work.tapped
       /\ Report.float = "op_level" => work.tapped # {}
  BY DEF Report
<1> PICK r : r = Report
  OBVIOUS
<1>12. Attributed(r)
  <2> SUFFICES ASSUME Len(b.routes) > 1
               PROVE  /\ "teacher_forced" \in r.modes =>
                           r.errors["teacher_forced"] = r.noisy \cap S
                      /\ "chain" \in r.modes => r.errors["chain"] = Reached(r.noisy, S)
                      /\ "full_reference" \in r.modes =>
                           (r.errors["full_reference"] # {}
                              <=> Last(r.binding.routes).slice \in Reached(r.noisy, S))
    BY <1>7, <1>11 DEF Attributed
  <2>1. IsChain(b)
    BY <1>6, <1>9
  <2> QED
    BY <1>3, <1>7, <1>10, <1>11, <2>1
<1>13. ASSUME Visible(r)
       PROVE  BlocksOf(r) # {}
  <2>1. ASSUME NEW m \in call.modes, Errors[m] # {}
        PROVE  BlocksOf(r) # {}
    <3>1. PICK s : s \in r.errors[m]
      BY <1>11, <2>1
    <3>2. <<r.ar, m, s>> \in UNION {{<<r.ar, x, y>> : y \in r.errors[x]} : x \in r.modes}
      BY <1>11, <3>1
    <3> QED
      BY <3>2 DEF BlocksOf
  <2>2. ASSUME Top.chain # {}
        PROVE  BlocksOf(r) # {}
    <3>1. PICK s : s \in r.top.chain
      BY <1>11, <2>2
    <3>2. <<r.ar, "default", s>> \in {<<r.ar, "default", y>> : y \in r.top.teacher \cup r.top.chain}
      BY <3>1
    <3> QED
      BY <3>2 DEF BlocksOf
  <2>3. IF r.modes \cap {"teacher_forced", "chain"} # {} THEN r.noisy \cap S # {}
        ELSE Last(r.binding.routes).slice \in Reached(r.noisy, S)
    BY <1>7, <1>11, <1>13 DEF Visible, SlicesIn
  <2>4. last \in D \/ IsChain(b)
    BY <1>7, <1>8, <1>9, <1>3, <1>11, <2>3
  <2>5. CASE "teacher_forced" \in call.modes
    <3>1. work.noisy \cap S # {}
      BY <1>11, <2>3, <2>5
    <3>2. ~IsChain(b) => last \in D
      BY <2>4
    <3>3. Errors["teacher_forced"] # {}
      BY <1>10, <2>5, <3>1, <3>2
    <3> QED
      BY <2>1, <2>5, <3>3
  <2>6. CASE "chain" \in call.modes
    <3>1. work.noisy \cap S # {} /\ D # {}
      BY <1>8, <1>11, <2>3, <2>6
    <3>2. ~IsChain(b) => last \in D
      BY <2>4
    <3>3. Errors["chain"] # {}
      BY <1>10, <2>6, <3>1, <3>2
    <3> QED
      BY <2>1, <2>6, <3>3
  <2>7. CASE "teacher_forced" \notin call.modes /\ "chain" \notin call.modes
    <3>1. last \in D
      BY <1>3, <1>7, <1>11, <2>3, <2>7
    <3>2. CASE "full_reference" \in call.modes
      BY <1>10, <2>1, <3>1, <3>2
    <3>3. CASE "full_reference" \notin call.modes
      <4>1. call.modes = {}
        BY <2>7, <3>3 DEF Modes
      <4> QED
        BY <1>10, <2>2, <3>1, <4>1
    <3> QED
      BY <3>2, <3>3
  <2> QED
    BY <2>5, <2>6, <2>7
<1>14. LayersOfChains /\ r.float = "op_level" => TappedAll(r.binding, r.ar, r.tapped)
  BY <1>11
<1>15. TrueReport(r)
  BY <1>12, <1>13, <1>14 DEF TrueReport
<1> QED
  BY <1>15

\* A report of tensors that were brought along says nothing of an execution.
LEMMA OutputsReport ==
    ASSUME call.form = "outputs", work.tapped = {}
    PROVE  TrueReport(Report)
<1>1. Report.executed = FALSE /\ Report.float # "op_level"
  BY DEF Report
<1> PICK r : r = Report
  OBVIOUS
<1>2. TrueReport(r)
  BY <1>1 DEF TrueReport, Attributed
<1> QED
  BY <1>2

-----------------------------------------------------------------------------
(* What is executed.                                                       *)

\* The undivided model computes something besides its state.
LEMMA GoldensSome == \A vector : ModelGoldens(vector) # {}
<1> DEFINE own == {t \in ModelOutputs : ~t.state}
<1>1. own # {}
  <2> DEFINE all == UNION {Outputs[s] : s \in ModelSlices}
             mine == {t \in all : t.state \/ \A s \in ModelSlices : t \notin Inputs[s]}
  <2>1. ModelOutputs = mine
    BY DEF ModelOutputs
  <2>2. ASSUME NEW z \in ModelSlices, NEW t \in Outputs[z], ~t.state,
               \A s \in ModelSlices : t \notin Inputs[s]
        PROVE  own # {}
    <3>1. t \in all
      OBVIOUS
    <3>2. t \in mine
      BY <2>2, <3>1
    <3> HIDE DEF mine
    <3> QED
      BY <2>1, <2>2, <3>2
  <2> HIDE DEF own
  <2>3. CASE spec.lane = "vit"
    <3>1. ModelSlices = {VitSlice}
      BY <2>3 DEF ModelSlices
    <3>2. PICK names : names = <<VitSlice>>
      OBVIOUS
    <3>3. Wired(names) /\ 1 \in DOMAIN names /\ names[1] = VitSlice
      BY <3>2, VitAssumption
    <3>4. PICK t \in Outputs[VitSlice] : ~t.state
      BY <3>3 DEF Wired
    <3>5. t \notin Inputs[VitSlice]
      <4>1. ~(1 < 1)
        OBVIOUS
      <4> QED
        BY <3>3, <3>4, <4>1 DEF Wired
    <3> QED
      BY <2>2, <3>1, <3>4, <3>5
  <2>4. CASE spec.lane # "vit"
    <3>1. ModelSlices = Range(Slices)
      BY <2>4 DEF ModelSlices
    <3>2. Len(Slices) \in DOMAIN Slices /\ DOMAIN Slices = 1 .. Len(Slices) /\ Len(Slices) \in Nat
      BY SlicesSeq, SliceAssumption
    <3> PICK z : z = Slices[Len(Slices)]
      OBVIOUS
    <3>3. z \in ModelSlices
      BY <3>1, <3>2 DEF Range
    <3>4. PICK t \in Outputs[z] : ~t.state
      BY <3>2, WiringAssumption DEF Wired
    <3>5. ASSUME NEW s \in ModelSlices
          PROVE  t \notin Inputs[s]
      <4>1. PICK j \in DOMAIN Slices : s = Slices[j]
        BY <3>1 DEF Range
      <4>2. ~(Len(Slices) < j)
        BY <3>2
      <4>3. t \in Outputs[z] \cap Inputs[s] => t.state \/ Len(Slices) < j
        BY <3>2, <4>1, WiringAssumption DEF Wired
      <4> QED
        BY <3>4, <4>2, <4>3
    <3> QED
      BY <2>2, <3>3, <3>4, <3>5
  <2> QED
    BY <2>3, <2>4
<1>2. \A vector : own \subseteq ModelGoldens(vector)
  <2> TAKE vector
  <2>1. ModelGoldens(vector) \in {own, ModelOutputs}
    BY DEF ModelGoldens
  <2>2. own \subseteq ModelOutputs
    OBVIOUS
  <2> HIDE DEF own
  <2> QED
    BY <2>1, <2>2
<1> HIDE DEF own
<1> QED
  BY <1>1, <1>2

\* The work on a validation that has a binding, and its references.
Referring(w) ==
    /\ Referred(w) /\ CleanTree(w.forced)
    /\ DOMAIN w = {"binding", "vector", "model", "slices", "forced", "noisy", "device",
                   "chain", "teacher", "tapped"}

\* The fields of a work to which the execution adds its results.
LEMMA Resulting ==
    ASSUME NEW noisy, NEW device, NEW chain, NEW teacher, NEW tapped, NEW w, NEW v,
           {"noisy", "device", "chain", "teacher", "tapped"} \subseteq DOMAIN v,
           w = [v EXCEPT !.noisy = noisy, !.device = device, !.chain = chain,
                         !.teacher = teacher, !.tapped = tapped]
    PROVE  /\ w.noisy = noisy /\ w.device = device /\ w.chain = chain
           /\ w.teacher = teacher /\ w.tapped = tapped
           /\ w.binding = v.binding /\ w.model = v.model /\ w.slices = v.slices
           /\ DOMAIN w = DOMAIN v
  OBVIOUS

\* The outputs of the device, of the executions that are needed.
Outcome(b, forced, noisy, chained, taught, needs, teaches, w) ==
    /\ chained = RunRoutes(b, "device_chain", noisy, << >>)
    /\ taught = RunRoutes(b, "teacher_forced", noisy, forced)
    /\ needs = (IF IsChain(b)
                THEN ~RunsModes \/ Requested("full_reference") \/ Requested("chain")
                ELSE TRUE)
    /\ teaches = (RunsModes /\ Requested("teacher_forced"))
    /\ (needs => ~chained.failed) /\ (teaches /\ IsChain(b) => ~taught.failed)
    /\ w.binding = b /\ w.noisy = noisy
    /\ w.device = (IF needs THEN FinalOutputs(chained) ELSE NoTree)
    /\ w.chain = (IF RunsModes /\ ~Requested("chain") THEN NoTree
                  ELSE IF IsChain(b) /\ RunsModes
                  THEN OutputsBySlice(chained) ELSE FinalOutputs(chained))
    /\ w.teacher = (IF ~teaches THEN NoTree
                    ELSE IF IsChain(b) THEN OutputsBySlice(taught)
                    ELSE FinalOutputs(chained))

\* They show the deviations of its slices.
LEMMA DeviceDisplays ==
    ASSUME NEW b, WellBound(b), NEW forced, CleanTree(forced), NEW noisy,
           NEW chained, NEW taught, NEW needs, NEW teaches, NEW w,
           Outcome(b, forced, noisy, chained, taught, needs, teaches, w)
    PROVE  \E n : Displays(w, n)
<1> USE DEF Outcome
<1>1. PICK n : Proper(b.routes, n)
  BY DEF WellBound
<1>2. PICK S : S = SlicesOf(b.routes, n)
  OBVIOUS
<1>3. PICK D : D = Reached(noisy, S)
  OBVIOUS
<1>4. needs => /\ OfSlices(b.routes, n, OutputsBySlice(chained), D)
               /\ AtEnd(b.routes, n, FinalOutputs(chained), D)
  BY <1>1, <1>2, <1>3, ChainedShows
<1>5. teaches /\ IsChain(b) => OfSlices(b.routes, n, OutputsBySlice(taught), noisy \cap S)
  BY <1>1, <1>2, TaughtShows
<1>6. w.device # NoTree => AtEnd(b.routes, n, w.device, D)
  BY <1>4
<1>7. ASSUME w.chain # NoTree
      PROVE  /\ RunsModes => Requested("chain")
             /\ IF IsChain(b) /\ RunsModes THEN OfSlices(b.routes, n, w.chain, D)
                ELSE AtEnd(b.routes, n, w.chain, D)
  <2>1. RunsModes => Requested("chain")
    BY <1>7
  <2>2. needs
    BY <2>1
  <2>3. w.chain = IF IsChain(b) /\ RunsModes
                  THEN OutputsBySlice(chained) ELSE FinalOutputs(chained)
    BY <2>1
  <2> QED
    BY <1>4, <2>1, <2>2, <2>3
<1>8. ASSUME w.teacher # NoTree
      PROVE  /\ Requested("teacher_forced")
             /\ IF IsChain(b) THEN OfSlices(b.routes, n, w.teacher, noisy \cap S)
                ELSE AtEnd(b.routes, n, w.teacher, D)
  <2>1. teaches
    BY <1>8
  <2>2. Requested("teacher_forced")
    BY <2>1
  <2>3. CASE IsChain(b)
    <3>1. w.teacher = OutputsBySlice(taught)
      BY <2>1, <2>3
    <3> QED
      BY <1>5, <2>1, <2>2, <2>3, <3>1
  <2>4. CASE ~IsChain(b)
    <3>1. w.teacher = FinalOutputs(chained) /\ needs
      BY <2>1, <2>4
    <3> QED
      BY <1>4, <2>2, <2>4, <3>1
  <2> QED
    BY <2>3, <2>4
<1>9. ~RunsModes => w.chain # NoTree
  <2> SUFFICES ASSUME ~RunsModes
               PROVE  w.chain # NoTree
    OBVIOUS
  <2>1. needs /\ w.chain = FinalOutputs(chained)
    OBVIOUS
  <2>2. DOMAIN w.chain = {"model"}
    BY <1>4, <2>1 DEF AtEnd
  <2>3. DOMAIN NoTree = {}
    BY DEF NoTree
  <2> QED
    BY <2>2, <2>3
<1>10. Displays(w, n)
  BY <1>1, <1>2, <1>3, <1>6, <1>7, <1>8, <1>9 DEF Displays
<1> QED
  BY <1>10

\* The diagnostic contexts that the index lists.
LEMMA Listed ==
    ASSUME ProgressInv, BuiltInv, pc = "succeeded"
    PROVE  /\ \A d \in index.diagnostics : \E a \in made :
                /\ a.kind \in {"diagnostic", "standalone", "joint"}
                /\ d.slice = a.slice /\ d.cl = IndexedCl(a.cl, spec.cls[1]) /\ d.ars = a.ars
                /\ d.tapped = (a.kind = "diagnostic")
           /\ \A a \in made : a.kind \in {"diagnostic", "standalone", "joint"} =>
                \E d \in index.diagnostics :
                  d.slice = a.slice /\ d.cl = IndexedCl(a.cl, spec.cls[1]) /\ d.ars = a.ars
<1> DEFINE kinds == {"diagnostic", "standalone", "joint"}
           on(a) == [slice |-> a.slice, cl |-> a.cl, ars |-> a.ars,
                     tapped |-> a.kind = "diagnostic"]
           listed(c) == [c EXCEPT !.cl = IndexedCl(@, Default.cl)]
<1>1. index.diagnostics = {listed(c) : c \in Result.diagnostics}
  <2>1. index = MakeIndex(Result, Default, vectors, spec.base)
    BY DEF BuiltInv, IndexMade
  <2> QED
    BY <2>1 DEF MakeIndex
<1>2. Result.diagnostics = {on(a) : a \in {x \in made : x.kind \in kinds}}
  BY DEF Result, OnDisk
<1>3. ASSUME NEW a
      PROVE  /\ listed(on(a)).slice = a.slice /\ listed(on(a)).ars = a.ars
             /\ listed(on(a)).cl = IndexedCl(a.cl, spec.cls[1])
             /\ listed(on(a)).tapped = (a.kind = "diagnostic")
  <2>1. listed(on(a)) = [slice |-> a.slice, cl |-> IndexedCl(a.cl, spec.cls[1]), ars |-> a.ars,
                         tapped |-> a.kind = "diagnostic"]
    BY DEF Default
  <2> PICK tapped : tapped = (a.kind = "diagnostic")
    OBVIOUS
  <2>2. listed(on(a)) = [slice |-> a.slice, cl |-> IndexedCl(a.cl, spec.cls[1]), ars |-> a.ars,
                         tapped |-> tapped]
    BY <2>1
  <2> HIDE DEF listed, on
  <2> QED
    BY <2>2
<1> HIDE DEF listed, on, kinds
<1>4. \A d \in index.diagnostics : \E a \in made : a.kind \in kinds /\ d = listed(on(a))
  BY <1>1, <1>2
<1>5. \A a \in made : a.kind \in kinds => listed(on(a)) \in index.diagnostics
  BY <1>1, <1>2
<1> QED
  BY <1>3, <1>4, <1>5 DEF kinds

\* Contexts of a slice that hold the AR, all of them, were compiled with
\* intermediate outputs.
LEMMA LayersLink ==
    ASSUME ProgressInv, BuiltInv, pc = "succeeded", NEW b, Layered(b),
           IsChain(b) \/ Backed(b, b.cl)
    PROVE  TappedAll(b, b.ar, Entries(b))
<1>1. \A d \in Entries(b) : d \in index.diagnostics /\ d.cl = b.cl /\ b.ar \in d.ars
  BY DEF Layered, Entries
<1>2. ASSUME NEW d \in Entries(b)
      PROVE  \E a \in made :
               /\ a.kind = "diagnostic" /\ d.slice = a.slice
               /\ d.cl = IndexedCl(a.cl, spec.cls[1]) /\ d.tapped
  <2>1. PICK a \in made :
          /\ a.kind \in {"diagnostic", "standalone", "joint"}
          /\ d.slice = a.slice /\ d.cl = IndexedCl(a.cl, spec.cls[1]) /\ d.ars = a.ars
          /\ d.tapped = (a.kind = "diagnostic")
    BY <1>1, Listed
  <2>2. CASE a.kind = "diagnostic"
    BY <2>1, <2>2
  <2>3. CASE a.kind \in {"standalone", "joint"}
    <3>1. /\ a.cl # 0 /\ spec.shared
          /\ \A ar \in AllArs : Art("standalone", a.cl, a.slice, {ar}) \in made
      BY <2>3 DEF BuiltInv, StandalonesMade
    <3>2. AllArs = {1, 128}
      BY <3>1, SpecAssumption DEF ProgressInv, InLoops, AllArs
    <3>3. PICK ar \in AllArs : ar # b.ar
      BY <3>2
    <3> DEFINE x == Art("standalone", a.cl, a.slice, {ar})
    <3>4. x \in made /\ x.kind = "standalone" /\ x.cl = a.cl /\ x.ars = {ar}
      BY <3>1 DEF Art
    <3> HIDE DEF x
    <3>5. PICK y \in index.diagnostics : y.cl = IndexedCl(x.cl, spec.cls[1]) /\ y.ars = x.ars
      BY <3>4, Listed
    <3>6. y \in Entries(b)
      BY <1>1, <2>1, <3>4, <3>5 DEF Entries
    <3>7. b.ar \in {ar}
      BY <1>1, <3>4, <3>5, <3>6
    <3> QED
      BY <3>3, <3>7
  <2> QED
    BY <2>1, <2>2, <2>3
<1>3. SlicesIn(b) \subseteq {d.slice : d \in Entries(b)}
  <2>1. CASE IsChain(b)
    <3>1. \A r \in Elements(b.routes) : r.slice \in {d.slice : d \in Entries(b)}
      BY <2>1, Zenon DEF Layered
    <3> QED
      BY <3>1 DEF SlicesIn
  <2>2. CASE Backed(b, b.cl)
    <3>1. spec.diagnostic
      <4>1. PICK d \in Entries(b) : TRUE
        BY DEF Layered
      <4>2. \E a \in made : a.kind = "diagnostic"
        BY <1>2, <4>1
      <4> QED
        BY <4>2 DEF BuiltInv, DiagnosticsMade
    <3>2. ASSUME NEW k \in DOMAIN b.routes
          PROVE  \E d \in Entries(b) : d.slice = b.routes[k].slice
      <4>1. PICK c \in Contexts :
              c.slice = b.routes[k].slice /\ IndexedCl(c.cl, spec.cls[1]) = b.cl
        BY <2>2 DEF Backed
      <4>2. PICK a \in made : a.kind = "context" /\ c.slice = a.slice /\ c.cl = a.cl
        BY DEF Contexts, OnDisk
      <4>3. PICK x \in made : x.kind = "diagnostic" /\ x.cl = a.cl /\ x.slice = a.slice
        BY <3>1, <4>2 DEF BuiltInv, DiagnosticsMade
      <4>4. PICK d \in index.diagnostics :
              d.slice = x.slice /\ d.cl = IndexedCl(x.cl, spec.cls[1])
        BY <4>3, Listed
      <4> QED
        BY <4>1, <4>2, <4>3, <4>4 DEF Entries
    <3> QED
      BY <3>2 DEF SlicesIn, Elements
  <2> QED
    BY <2>1, <2>2
<1> QED
  BY <1>1, <1>2, <1>3 DEF TappedAll

-----------------------------------------------------------------------------
(* The execution of a sequence of steps.                                   *)

\* A run that has failed does not recover.
LEMMA FailedStays ==
    ASSUME NEW runner, NEW s, NEW begun, RunOf(begun), NEW n \in Nat, n = Len(runner.routes)
    PROVE  /\ RunOf(AfterSlices(runner, s, begun)[n])
           /\ begun.failed => AfterSlices(runner, s, begun)[n].failed
<1> PICK rs : rs = AfterSlices(runner, s, begun)
  OBVIOUS
<1>1. /\ rs[0] = begun
      /\ \A i \in 1 .. n : rs[i] = RunSlice(runner, runner.routes[i], s.goldens, rs[i - 1])
  BY SlicesFollow
<1> DEFINE S == {i \in 0 .. n : RunOf(rs[i]) /\ (begun.failed => rs[i].failed)}
<1>2. 0 \in S
  BY <1>1
<1>3. ASSUME NEW i \in 1 .. n, i - 1 \in S
      PROVE  i \in S
  <2>1. RunOf(rs[i - 1]) /\ (begun.failed => rs[i - 1].failed)
    BY <1>3
  <2>2. PICK done : RunsTo(runner, runner.routes[i], s.goldens, rs[i - 1], done, rs[i])
    BY <1>1, <2>1, SliceRuns
  <2>3. RunOf(rs[i]) /\ (rs[i - 1].failed => rs[i].failed)
    BY <2>2 DEF RunsTo
  <2> QED
    BY <2>1, <2>3
<1>4. n \in S
  <2> HIDE DEF S
  <2>1. 0 .. n \subseteq S
    BY <1>2, <1>3, Positions
  <2> QED
    BY <2>1
<1> QED
  BY <1>4

\* An invocation whose inputs come from where the undivided model has them from.
FedTruly(routes, e) ==
    \A t \in DOMAIN e.inputs :
        /\ e.inputs[t].by \in TrueSource(routes, t, e.step)
        /\ e.inputs[t].step = IF t.state /\ e.step > 1 THEN e.step - 1 ELSE e.step

\* What a sequence has executed after k of its steps, and the state they have left.
Sequenced(routes, n, steps, k, run) ==
    /\ RunOf(run) /\ run.step = k /\ IsSeq(run.executions)
    /\ \A e \in Elements(run.executions) :
         /\ e.step \in 1 .. k /\ e.ar = steps[e.step].ar /\ FedTruly(routes, e)
         /\ \E i \in 1 .. n : e.slice = routes[i].slice
    /\ \A i \in 1 .. n, l \in 1 .. k : \E e \in Elements(run.executions) :
         e.slice = routes[i].slice /\ e.step = l
    /\ k = 0 => \A x \in DOMAIN run.state : run.state[x].by = "vector" /\ run.state[x].step = 1
    /\ k # 0 => \A i \in 1 .. n : \A u \in routes[i].outputs : u.state =>
                  /\ run.state[StateSlot(u)].by = routes[i].slice
                  /\ run.state[StateSlot(u)].step = k

\* The inputs of a slice in a step.
LEMMA SliceFed ==
    ASSUME NEW runner, runner.mode = "device_chain", Linked(runner.routes),
           NEW n \in Nat, DOMAIN runner.routes = 1 .. n,
           NEW steps, NEW k \in Nat \ {0}, NEW run,
           Sequenced(runner.routes, n, steps, k - 1, run),
           NEW s, s = steps[k], s.inputs = Given(DOMAIN s.inputs, k),
           NEW begun, begun.step = k, begun.state = run.state,
           NEW e, \A i \in 1 .. n : Did(runner, s, begun, e, i),
           NEW i \in 1 .. n
    PROVE  FedTruly(runner.routes, e[i])
<1> PICK routes : routes = runner.routes
  OBVIOUS
<1>1. e[i].step = k /\ DOMAIN e[i].inputs = routes[i].inputs /\ Linked(routes)
  BY DEF Did
<1> SUFFICES ASSUME NEW t \in routes[i].inputs
             PROVE  /\ e[i].inputs[t].by \in TrueSource(routes, t, k)
                    /\ e[i].inputs[t].step = IF t.state /\ k > 1 THEN k - 1 ELSE k
  BY <1>1 DEF FedTruly
<1> DEFINE makes(q) == IF t.state THEN \E x \in q.outputs : x.state /\ StateSlot(x) = StateSlot(t)
                       ELSE t \in q.outputs
           producers == {r.slice : r \in {q \in Elements(routes) : makes(q)}}
<1>2. TrueSource(routes, t, k) = IF producers = {} \/ (t.state /\ k = 1)
                                 THEN {"vector"} ELSE producers
  BY DEF TrueSource
<1>3. Golden(runner, routes[i], s.goldens) = << >>
  BY DEF Golden
<1>4. FedFrom(runner, s, begun, e, i, t)
  BY DEF Did
<1>5. DOMAIN << >> = {}
  OBVIOUS
<1>6. CASE t.state
  <2>1. StateSlot(t) \in DOMAIN begun.state /\ e[i].inputs[t] = begun.state[StateSlot(t)]
    BY <1>3, <1>4, <1>5, <1>6 DEF FedFrom
  <2>2. CASE k = 1
    <3>1. e[i].inputs[t].by = "vector" /\ e[i].inputs[t].step = 1
      BY <2>1, <2>2 DEF Sequenced
    <3> HIDE DEF producers
    <3> QED
      BY <1>2, <1>6, <2>2, <3>1
  <2>3. CASE k # 1
    <3>1. PICK u \in routes[i].outputs : u.state /\ StateSlot(u) = StateSlot(t)
      BY <1>1, <1>6 DEF Linked
    <3>2. k - 1 # 0 /\ k > 1
      BY <2>3
    <3>3. /\ run.state[StateSlot(u)].by = routes[i].slice
          /\ run.state[StateSlot(u)].step = k - 1
      BY <3>1, <3>2 DEF Sequenced
    <3>4. routes[i] \in Elements(routes) /\ makes(routes[i])
      BY <1>6, <3>1 DEF Elements
    <3>5. routes[i].slice \in producers
      BY <3>4
    <3> HIDE DEF producers
    <3> QED
      BY <1>2, <1>6, <2>1, <2>3, <3>1, <3>2, <3>3, <3>5
  <2> QED
    BY <2>2, <2>3
<1>7. CASE ~t.state
  <2>1. \/ \E j \in 1 .. i - 1 : t \in routes[j].outputs /\ e[i].inputs[t] = e[j].outputs[t]
        \/ /\ \A j \in 1 .. i - 1 : t \notin routes[j].outputs
           /\ t \in DOMAIN s.inputs /\ e[i].inputs[t] = s.inputs[t]
    BY <1>3, <1>4, <1>5, <1>7 DEF FedFrom
  <2>2. CASE \E j \in 1 .. i - 1 : t \in routes[j].outputs /\ e[i].inputs[t] = e[j].outputs[t]
    <3>1. PICK j \in 1 .. i - 1 : t \in routes[j].outputs /\ e[i].inputs[t] = e[j].outputs[t]
      BY <2>2
    <3>2. j \in 1 .. n
      OBVIOUS
    <3> PICK noise : noise = Noise(runner, routes[j], e[j].inputs)
      OBVIOUS
    <3>3. e[j].outputs = [x \in routes[j].outputs |-> Value(routes[j].slice, k, noise)]
      BY <3>2 DEF Did
    <3>4. e[i].inputs[t].by = routes[j].slice /\ e[i].inputs[t].step = k
      BY <3>1, <3>3 DEF Value
    <3>5. routes[j] \in Elements(routes) /\ makes(routes[j])
      BY <1>7, <3>1, <3>2 DEF Elements
    <3>6. routes[j].slice \in producers
      BY <3>5
    <3> HIDE DEF producers
    <3> QED
      BY <1>2, <1>7, <3>4, <3>6
  <2>3. CASE /\ \A j \in 1 .. i - 1 : t \notin routes[j].outputs
             /\ t \in DOMAIN s.inputs /\ e[i].inputs[t] = s.inputs[t]
    <3>1. e[i].inputs[t].by = "vector" /\ e[i].inputs[t].step = k
      <4>1. s.inputs[t] = Value("vector", k, {})
        BY <2>3 DEF Given
      <4> QED
        BY <2>3, <4>1 DEF Value
    <3>2. ASSUME NEW j \in 1 .. n
          PROVE  t \notin routes[j].outputs
      <4>1. t \in routes[j].outputs => j < i
        BY <1>1, <1>7 DEF Linked
      <4>2. j < i => j \in 1 .. i - 1
        OBVIOUS
      <4> QED
        BY <2>3, <4>1, <4>2
    <3>3. producers = {}
      BY <1>7, <3>2 DEF Elements
    <3> HIDE DEF producers
    <3> QED
      BY <1>2, <1>7, <3>1, <3>3
  <2> QED
    BY <2>1, <2>2, <2>3
<1> QED
  BY <1>6, <1>7

\* The executions of a step are added to those of the steps before it.
Added(before, n, e, after) ==
    \A x : x \in Elements(after) <=>
             \/ x \in Elements(before)
             \/ \E i \in 1 .. n : x = e[i]

LEMMA ExecutedMore ==
    ASSUME NEW runner, NEW s, NEW begun, NEW end, NEW n \in Nat, NEW e,
           Ran(runner, s, begun, end, n, e), IsSeq(begun.executions)
    PROVE  Added(begun.executions, n, e, end.executions)
<1>1. PICK m \in Nat : m = Len(begun.executions)
  BY DEF IsSeq
<1>2. DOMAIN begun.executions = 1 .. m
  BY <1>1 DEF IsSeq
<1>3. DOMAIN end.executions = 1 .. m + n
  <2>1. IsSeq(end.executions) /\ Len(end.executions) = m + n
    BY <1>1 DEF Ran
  <2> QED
    BY <2>1 DEF IsSeq
<1>4. /\ \A k \in 1 .. m : end.executions[k] = begun.executions[k]
      /\ \A i \in 1 .. n : end.executions[m + i] = e[i]
  BY <1>1 DEF Ran
<1> SUFFICES ASSUME NEW x
             PROVE  x \in Elements(end.executions) <=>
                      \/ x \in Elements(begun.executions)
                      \/ \E i \in 1 .. n : x = e[i]
  BY DEF Added
<1>5. ASSUME x \in Elements(begun.executions)
      PROVE  x \in Elements(end.executions)
  <2>1. PICK k \in 1 .. m : x = begun.executions[k]
    BY <1>2, <1>5 DEF Elements
  <2>2. k \in 1 .. m + n
    OBVIOUS
  <2> QED
    BY <1>3, <1>4, <2>1, <2>2 DEF Elements
<1>6. ASSUME NEW i \in 1 .. n, x = e[i]
      PROVE  x \in Elements(end.executions)
  <2>1. m + i \in 1 .. m + n
    OBVIOUS
  <2> QED
    BY <1>3, <1>4, <1>6, <2>1 DEF Elements
<1>7. ASSUME x \in Elements(end.executions)
      PROVE  \/ x \in Elements(begun.executions)
             \/ \E i \in 1 .. n : x = e[i]
  <2>1. PICK k \in 1 .. m + n : x = end.executions[k]
    BY <1>3, <1>7 DEF Elements
  <2>2. CASE k \in 1 .. m
    BY <1>2, <1>4, <2>1, <2>2 DEF Elements
  <2>3. CASE k \notin 1 .. m
    <3>1. k - m \in 1 .. n /\ m + (k - m) = k
      BY <2>3
    <3> QED
      BY <1>4, <2>1, <3>1
  <2> QED
    BY <2>2, <2>3
<1> QED
  BY <1>5, <1>6, <1>7

\* A step that does not fail adds an execution of every slice.
LEMMA OneMore ==
    ASSUME NEW runner, runner.mode = "device_chain", Linked(runner.routes),
           NEW n \in Nat, DOMAIN runner.routes = 1 .. n, n = Len(runner.routes),
           NEW steps, NEW k \in Nat \ {0}, NEW run,
           Sequenced(runner.routes, n, steps, k - 1, run),
           NEW s, s = steps[k], s.inputs = Given(DOMAIN s.inputs, k),
           NEW next, next = RunOnce(runner, s, run), ~next.failed
    PROVE  Sequenced(runner.routes, n, steps, k, next)
<1> PICK routes : routes = runner.routes
  OBVIOUS
<1> PICK begun : begun = Begun(s, run)
  OBVIOUS
<1>1. /\ RunOf(begun) /\ begun.available = s.inputs /\ begun.ar = s.ar /\ begun.step = k
      /\ begun.state = run.state /\ begun.executions = run.executions
      /\ IsSeq(begun.executions)
  <2>1. RunOf(run) /\ run.step = k - 1 /\ IsSeq(run.executions)
    BY DEF Sequenced
  <2>2. begun = [run EXCEPT !.available = s.inputs, !.ar = s.ar, !.step = @ + 1]
    BY DEF Begun
  <2>3. begun = [failed |-> run.failed, step |-> run.step + 1, ar |-> s.ar,
                 available |-> s.inputs, state |-> run.state, executions |-> run.executions]
    BY <2>1, <2>2 DEF RunOf
  <2> QED
    BY <2>1, <2>3 DEF RunOf
<1>2. next = AfterSlices(runner, s, begun)[n]
  BY DEF RunOnce
<1>3. PICK e : Ran(runner, s, begun, next, n, e)
  BY <1>1, <1>2, ChainRuns
<1>4. \A i \in 1 .. n : Did(runner, s, begun, e, i)
  BY <1>3 DEF Ran
<1>5. ASSUME NEW i \in 1 .. n
      PROVE  /\ e[i].slice = routes[i].slice /\ e[i].step = k /\ e[i].ar = steps[k].ar
             /\ FedTruly(routes, e[i])
  <2>1. e[i].slice = routes[i].slice /\ e[i].step = k /\ e[i].ar = steps[k].ar
    BY <1>1, <1>4 DEF Did
  <2>2. FedTruly(routes, e[i])
    BY <1>1, <1>4, SliceFed
  <2> QED
    BY <2>1, <2>2
<1>6. \A x : x \in Elements(next.executions) <=>
               \/ x \in Elements(run.executions)
               \/ \E i \in 1 .. n : x = e[i]
  <2>1. Added(begun.executions, n, e, next.executions)
    BY <1>1, <1>3, ExecutedMore
  <2> QED
    BY <1>1, <2>1 DEF Added
<1>7. RunOf(next) /\ next.step = k /\ IsSeq(next.executions)
  BY <1>1, <1>3 DEF Ran
<1>8. ASSUME NEW x \in Elements(next.executions)
      PROVE  /\ x.step \in 1 .. k /\ x.ar = steps[x.step].ar /\ FedTruly(routes, x)
             /\ \E i \in 1 .. n : x.slice = routes[i].slice
  <2>1. CASE x \in Elements(run.executions)
    <3>1. /\ x.step \in 1 .. k - 1 /\ x.ar = steps[x.step].ar /\ FedTruly(routes, x)
          /\ \E i \in 1 .. n : x.slice = routes[i].slice
      BY <2>1 DEF Sequenced
    <3> QED
      BY <3>1
  <2>2. ASSUME NEW i \in 1 .. n, x = e[i]
        PROVE  /\ x.step \in 1 .. k /\ x.ar = steps[x.step].ar /\ FedTruly(routes, x)
               /\ \E j \in 1 .. n : x.slice = routes[j].slice
    <3>1. k \in 1 .. k
      OBVIOUS
    <3> QED
      BY <1>5, <2>2, <3>1
  <2> QED
    BY <1>6, <2>1, <2>2
<1>9. ASSUME NEW i \in 1 .. n, NEW l \in 1 .. k
      PROVE  \E x \in Elements(next.executions) : x.slice = routes[i].slice /\ x.step = l
  <2>1. CASE l = k
    BY <1>5, <1>6, <2>1
  <2>2. CASE l # k
    <3>1. l \in 1 .. k - 1
      BY <2>2
    <3>2. \A j \in 1 .. n, h \in 1 .. k - 1 : \E x \in Elements(run.executions) :
            x.slice = runner.routes[j].slice /\ x.step = h
      BY Zenon DEF Sequenced
    <3>3. PICK x \in Elements(run.executions) : x.slice = routes[i].slice /\ x.step = l
      BY <3>1, <3>2
    <3> QED
      BY <1>6, <3>3
  <2> QED
    BY <2>1, <2>2
<1>10. ASSUME NEW i \in 1 .. n, NEW u \in routes[i].outputs, u.state
       PROVE  /\ next.state[StateSlot(u)].by = routes[i].slice
              /\ next.state[StateSlot(u)].step = k
  <2>1. next.state[StateSlot(u)] = e[i].outputs[u]
    BY <1>3, <1>10 DEF Ran
  <2> PICK noise : noise = Noise(runner, routes[i], e[i].inputs)
    OBVIOUS
  <2>2. e[i].outputs = [t \in routes[i].outputs |-> Value(routes[i].slice, k, noise)]
    <3>1. Did(runner, s, begun, e, i)
      BY <1>4
    <3>2. e[i].outputs = [t \in runner.routes[i].outputs |->
             Value(runner.routes[i].slice, begun.step, Noise(runner, runner.routes[i], e[i].inputs))]
      BY <3>1, Zenon DEF Did
    <3> QED
      BY <1>1, <3>2
  <2>3. next.state[StateSlot(u)] = Value(routes[i].slice, k, noise)
    BY <2>1, <2>2
  <2> QED
    BY <2>3 DEF Value
<1>11. Sequenced(routes, n, steps, k, next)
  BY <1>7, <1>8, <1>9, <1>10 DEF Sequenced
<1> QED
  BY <1>11

\* The steps of a run that does not fail.
LEMMA StepsRun ==
    ASSUME NEW runner, runner.mode = "device_chain", Linked(runner.routes),
           NEW n \in Nat, DOMAIN runner.routes = 1 .. n, n = Len(runner.routes),
           NEW steps, NEW m \in Nat, m = Len(steps),
           \A k \in 1 .. m : steps[k].inputs = Given(DOMAIN steps[k].inputs, k),
           NEW state, \A x \in DOMAIN state : state[x].by = "vector" /\ state[x].step = 1,
           NEW run, run = RunSequence(runner, steps, state), ~run.failed
    PROVE  Sequenced(runner.routes, n, steps, m, run)
<1> PICK ks : ks = AfterSteps(runner, steps, state)
  OBVIOUS
<1>1. /\ ks[0] = [failed |-> FALSE, step |-> 0, ar |-> 0, available |-> << >>,
                  state |-> state, executions |-> << >>]
      /\ \A k \in 1 .. m : ks[k] = RunOnce(runner, steps[k], ks[k - 1])
  BY StepsFollow
<1>2. run = ks[m]
  BY DEF RunSequence
<1> DEFINE S == {k \in 0 .. m : /\ RunOf(ks[k])
                                /\ ks[k].failed \/ Sequenced(runner.routes, n, steps, k, ks[k])}
<1>3. 0 \in S
  <2>1. RunOf(ks[0])
    BY <1>1 DEF RunOf
  <2>2. /\ ks[0].step = 0 /\ ks[0].state = state /\ ks[0].executions = << >>
    BY <1>1
  <2>3. << >> \in Seq({}) /\ Elements(<< >>) = {}
    BY DEF Elements
  <2>4. IsSeq(ks[0].executions)
    BY <2>2, <2>3 DEF IsSeq
  <2>5. \A l : l \notin 1 .. 0
    OBVIOUS
  <2>6. Sequenced(runner.routes, n, steps, 0, ks[0])
    BY <2>1, <2>2, <2>3, <2>4, <2>5 DEF Sequenced
  <2> QED
    BY <2>1, <2>6
<1>4. ASSUME NEW k \in 1 .. m, k - 1 \in S
      PROVE  k \in S
  <2> PICK s : s = steps[k]
    OBVIOUS
  <2> PICK before : before = ks[k - 1]
    OBVIOUS
  <2> PICK next : next = ks[k]
    OBVIOUS
  <2> PICK begun : begun = Begun(s, before)
    OBVIOUS
  <2>1. /\ RunOf(before)
        /\ before.failed \/ Sequenced(runner.routes, n, steps, k - 1, before)
    BY <1>4
  <2>2. RunOf(begun) /\ begun.failed = before.failed
    <3>1. begun = [before EXCEPT !.available = s.inputs, !.ar = s.ar, !.step = @ + 1]
      BY DEF Begun
    <3>2. begun = [failed |-> before.failed, step |-> before.step + 1, ar |-> s.ar,
                   available |-> s.inputs, state |-> before.state,
                   executions |-> before.executions]
      BY <2>1, <3>1 DEF RunOf
    <3> QED
      BY <3>2 DEF RunOf
  <2>3. next = RunOnce(runner, s, before) /\ next = AfterSlices(runner, s, begun)[n]
    BY <1>1 DEF RunOnce
  <2>4. RunOf(next) /\ (before.failed => next.failed)
    BY <2>2, <2>3, FailedStays
  <2>5. next.failed \/ Sequenced(runner.routes, n, steps, k, next)
    <3> SUFFICES ASSUME ~next.failed
                 PROVE  Sequenced(runner.routes, n, steps, k, next)
      OBVIOUS
    <3>1. Sequenced(runner.routes, n, steps, k - 1, before)
      BY <2>1, <2>4
    <3>2. s.inputs = Given(DOMAIN s.inputs, k) /\ k \in Nat \ {0}
      OBVIOUS
    <3> QED
      BY <2>3, <3>1, <3>2, OneMore
  <2> QED
    BY <2>4, <2>5
<1>5. m \in S
  <2> HIDE DEF S
  <2>1. 0 .. m \subseteq S
    BY <1>3, <1>4, Positions
  <2> QED
    BY <2>1
<1> QED
  BY <1>2, <1>5

\* What has been measured of a binding is its slices in its steps, each fed as in the
\* undivided model.
TrueMeasure(b, steps, measured) ==
    /\ SlicesIn(b) \X (IF b.scope = "chain" THEN DOMAIN steps ELSE {1})
         = {<<e.slice, e.step>> : e \in Elements(measured)}
    /\ \A e \in Elements(measured) :
         /\ FedTruly(b.routes, e)
         /\ b.scope = "chain" => e.ar = steps[e.step].ar

LEMMA SequenceMeasures ==
    ASSUME NEW b, NEW n \in Nat, DOMAIN b.routes = 1 .. n, NEW m \in Nat,
           NEW steps, NEW run, Sequenced(b.routes, n, steps, m, run),
           NEW named, IF b.scope = "chain" THEN named = steps /\ DOMAIN steps = 1 .. m
                      ELSE m = 1
    PROVE  TrueMeasure(b, named, run.executions)
<1> DEFINE ks == IF b.scope = "chain" THEN DOMAIN named ELSE {1}
           pairs == {<<e.slice, e.step>> : e \in Elements(run.executions)}
<1>1. ks = 1 .. m
  <2>1. 1 .. 1 = {1}
    OBVIOUS
  <2> QED
    BY <2>1
<1>2. \A s : s \in SlicesIn(b) <=> \E i \in 1 .. n : s = b.routes[i].slice
  BY DEF SlicesIn, Elements
<1>3. \A e \in Elements(run.executions) :
         /\ e.step \in 1 .. m /\ e.ar = steps[e.step].ar /\ FedTruly(b.routes, e)
         /\ \E i \in 1 .. n : e.slice = b.routes[i].slice
  BY Zenon DEF Sequenced
<1>4. \A i \in 1 .. n, l \in 1 .. m : \E e \in Elements(run.executions) :
         e.slice = b.routes[i].slice /\ e.step = l
  BY Zenon DEF Sequenced
<1> HIDE DEF ks
<1>5. ASSUME NEW p \in SlicesIn(b) \X ks
      PROVE  p \in pairs
  <2>1. PICK s \in SlicesIn(b), l \in 1 .. m : p = <<s, l>>
    BY <1>1
  <2>2. PICK i \in 1 .. n : s = b.routes[i].slice
    BY <1>2
  <2>3. PICK e \in Elements(run.executions) : e.slice = s /\ e.step = l
    BY <1>4, <2>2
  <2> QED
    BY <2>1, <2>3
<1>6. ASSUME NEW p \in pairs
      PROVE  p \in SlicesIn(b) \X ks
  <2>1. PICK e \in Elements(run.executions) : p = <<e.slice, e.step>>
    OBVIOUS
  <2> QED
    BY <1>1, <1>2, <1>3, <2>1
<1>7. SlicesIn(b) \X ks = pairs
  <2> HIDE DEF pairs
  <2>1. \A p \in pairs : p \in SlicesIn(b) \X ks
    BY <1>6
  <2>2. \A p \in SlicesIn(b) \X ks : p \in pairs
    BY <1>5
  <2> QED
    BY <2>1, <2>2
<1>8. \A e \in Elements(run.executions) : b.scope = "chain" => e.ar = named[e.step].ar
  BY <1>3
<1> QED
  BY <1>3, <1>7, <1>8 DEF TrueMeasure, ks

\* Executing a sequence again records nothing else.
Repeated(once, runs) ==
    [i \in 1 .. runs * Len(once) |-> once[((i - 1) % Len(once)) + 1]]

LEMMA Again ==
    ASSUME NEW once, IsSeq(once), NEW runs \in Nat \ {0}
    PROVE  Elements(Repeated(once, runs)) = Elements(once)
<1>1. PICK n \in Nat : n = Len(once) /\ DOMAIN once = 1 .. n
  BY DEF IsSeq
<1> PICK all : all = Repeated(once, runs)
  OBVIOUS
<1>2. all = [i \in 1 .. runs * n |-> once[((i - 1) % n) + 1]]
  BY <1>1 DEF Repeated
<1>3. runs * n \in Nat /\ runs * n >= n
  <2>1. PICK k \in Nat : runs = k + 1
    <3>1. runs - 1 \in Nat /\ runs = (runs - 1) + 1
      OBVIOUS
    <3> QED
      BY <3>1
  <2>2. runs * n = k * n + n /\ k * n \in Nat
    BY <2>1
  <2> QED
    BY <2>2
<1>4. ASSUME NEW x \in Elements(all)
      PROVE  x \in Elements(once)
  <2>1. PICK i \in 1 .. runs * n : x = all[i]
    BY <1>2, <1>4 DEF Elements
  <2>2. n # 0
    <3> SUFFICES ASSUME n = 0
                 PROVE  FALSE
      OBVIOUS
    <3>1. runs * n = 0
      OBVIOUS
    <3> QED
      BY <2>1, <3>1
  <2>3. (i - 1) % n \in 0 .. n - 1
    <3>1. i - 1 \in Nat /\ n \in Nat /\ n > 0
      BY <1>3, <2>2
    <3> QED
      BY <3>1
  <2>4. ((i - 1) % n) + 1 \in 1 .. n
    BY <2>3
  <2> QED
    BY <1>1, <1>2, <2>1, <2>4 DEF Elements
<1>5. ASSUME NEW x \in Elements(once)
      PROVE  x \in Elements(all)
  <2>1. PICK j \in 1 .. n : x = once[j]
    BY <1>1, <1>5 DEF Elements
  <2>2. j \in 1 .. runs * n
    BY <1>3
  <2>3. (j - 1) % n = j - 1
    <3>1. PICK k \in Nat : k = j - 1 /\ k < n
      <4>1. j - 1 \in Nat /\ j - 1 < n
        OBVIOUS
      <4> QED
        BY <4>1
    <3>2. PICK q \in Int, r \in 0 .. n - 1 : q = k \div n /\ r = k % n /\ k = n * q + r
      <4>1. n \in Nat /\ n > 0
        BY <3>1
      <4>2. k \div n \in Int /\ k % n \in 0 .. n - 1
        BY <4>1
      <4>3. k = n * (k \div n) + (k % n)
        BY <4>1
      <4> QED
        BY <4>2, <4>3
    <3>3. q = 0
      <4>1. CASE q >= 1
        <5>1. PICK h \in Nat : q = h + 1
          <6>1. q - 1 \in Nat /\ q = (q - 1) + 1
            BY <4>1
          <6> QED
            BY <6>1
        <5>2. n * q = n * h + n /\ n * h \in Nat
          BY <5>1
        <5> QED
          BY <3>1, <3>2, <5>2
      <4>2. CASE q <= -1
        <5>1. PICK h \in Nat : q = -1 - h
          <6>1. -1 - q \in Nat /\ q = -1 - (-1 - q)
            BY <4>2
          <6> QED
            BY <6>1
        <5>2. n * q = -n - n * h /\ n * h \in Nat
          BY <5>1
        <5>3. PICK p \in Nat : p = n * h
          BY <5>2
        <5>4. k = (-n - p) + r
          BY <3>2, <5>2, <5>3
        <5>5. r < n
          BY <3>2
        <5> QED
          BY <5>4, <5>5
      <4> QED
        BY <4>1, <4>2
    <3>4. k = r
      BY <3>2, <3>3
    <3> QED
      BY <3>1, <3>2, <3>4
  <2>4. all[j] = once[j]
    <3>1. all[j] = once[((j - 1) % n) + 1]
      BY <1>2, <2>2
    <3>2. (j - 1) + 1 = j
      OBVIOUS
    <3> QED
      BY <2>3, <3>1, <3>2
  <2> QED
    BY <1>2, <2>1, <2>2, <2>4 DEF Elements
<1> QED
  BY <1>4, <1>5

-----------------------------------------------------------------------------
(* What reports say is so.                                                 *)

\* The lane of an index is that of the build.
LEMMA LaneOf ==
    ASSUME BuiltInv, pc = "succeeded"
    PROVE  index.lane = "genai_builder" <=> spec.lane = "genai_builder"
<1>1. index = MakeIndex(Result, Default, vectors, spec.base)
  BY DEF BuiltInv, IndexMade
<1>2. Result.lane = IF spec.lane = "vit" THEN "low_level" ELSE spec.lane
  BY DEF Result
<1>3. index.lane = Result.lane
  BY <1>1 DEF MakeIndex
<1> QED
  BY <1>2, <1>3

\* Only of a container something else than graphs is selected.
LEMMA NoContainer ==
    ASSUME NEW x, x.lane # "genai_builder", NEW ar, NEW cl, NEW component,
           NEW b, b = SelectBinding(x, ar, cl, component), b # NotSelectable
    PROVE  b.scope # "container"
<1>1. ASSUME NEW routes, b = Chain(routes, cl, ar, component)
      PROVE  b.scope # "container"
  <2>1. b = [scope |-> ScopeOf(routes), routes |-> routes, ar |-> ar, cl |-> cl,
             component |-> component]
    BY <1>1 DEF Chain
  <2>2. ScopeOf(routes) # "container"
    BY DEF ScopeOf
  <2> QED
    BY <2>1, <2>2
<1>2. ASSUME NEW slice, NEW of, NEW r, b = Graph(slice, of, r, "vision") \/ b = Graph(slice, of, r, component)
      PROVE  b.scope # "container"
  BY <1>2 DEF Graph
<1>3. \/ \E routes : b = Chain(routes, cl, ar, component)
      \/ b = SelectVision(x, cl)
      \/ b = SelectGraph(x, cl, ar, component)
  BY DEF SelectBinding
<1>4. CASE b = SelectVision(x, cl)
  BY <1>2, <1>4 DEF SelectVision
<1>5. CASE b = SelectGraph(x, cl, ar, component)
  BY <1>2, <1>5 DEF SelectGraph
<1> QED
  BY <1>1, <1>3, <1>4, <1>5

\* A binding that is executed: it belongs together, its graphs have been compiled, or
\* the caller has named them.
Fit(b) ==
    /\ WellBound(b)
    /\ Automatic /\ spec.lane # "genai_builder" => Backed(b, b.cl)
    /\ call.form = "given" => b = call.binding

LEMMA BindingFits ==
    ASSUME ProgressInv, PlanInv, BuiltInv, RawInv, DiagnosesInv, ClaimsInv,
           phase \in {"bind", "select"}, Binding # NotSelectable,
           Automatic /\ index.lane = "genai_builder" => Binding.scope # "container",
           call.form \in {"automatic", "given"}
    PROVE  Fit(Binding)
<1>1. PhasesInv /\ pc = "succeeded"
  BY DEF ClaimsInv, DiagnosesInv, CallsInv, IdleInv
<1>2. index.vision_model = FALSE
  BY <1>1 DEF ClaimsInv, VectorsInv
<1> DEFINE ar == IF Head(turn) = 0 THEN index.default.ar ELSE Head(turn)
           cl == IF call.cl = 0 THEN index.default.cl ELSE call.cl
<1>3. Automatic => Binding = SelectBinding(index, ar, cl, call.component)
  BY DEF Binding
<1> HIDE DEF ar, cl
<1>4. Automatic => Binding.scope # "container"
  <2>1. CASE index.lane = "genai_builder"
    BY <2>1
  <2>2. CASE index.lane # "genai_builder"
    BY <1>3, <2>2, NoContainer
  <2> QED
    BY <2>1, <2>2
<1>5. WellBound(Binding)
  BY <1>1, <1>4, BindingLinks
<1>6. ASSUME Automatic, spec.lane # "genai_builder"
      PROVE  Backed(Binding, Binding.cl)
  <2>1. PICK b : b = SelectBinding(index, ar, cl, call.component) /\ b = Binding
    BY <1>3, <1>6
  <2>2. Backed(b, cl)
    BY <1>1, <1>4, <1>6, <2>1, SelectedLinks
  <2>3. b.cl = cl
    <3>1. SelectBinding(index, ar, cl, call.component) # NotSelectable
      BY <2>1
    <3>2. SelectBinding(index, ar, cl, call.component).cl = cl
      BY <1>2, <3>1, Selected
    <3> QED
      BY <2>1, <3>2
  <2> QED
    BY <2>1, <2>2, <2>3
<1>7. call.form = "given" => Binding = call.binding
  BY DEF Binding, Automatic
<1> QED
  BY <1>5, <1>6, <1>7 DEF Fit

-----------------------------------------------------------------------------
\* A latency that is device time has been measured.
TrueLatency(r) ==
    r.metric = "device_execution" => TrueMeasure(r.binding, r.steps, r.measured)

\* A report is true of each AR it is about.
TrueArtifact(n, artifact) ==
    /\ n[1] = "sqnr_report" => \A r \in Elements(artifact.results) : TrueReport(r)
    /\ n[1] = "latency_report" =>
         \A r \in Elements(artifact.results) :
           /\ TrueLatency(r)
           /\ artifact.metric = "device_execution" => r.metric = "device_execution"

Trusted(artifacts) == \A n \in DOMAIN artifacts : TrueArtifact(n, artifacts[n])

\* What a validation has found out about the current AR before each of its parts.
Examined(p, w) ==
    /\ p \in {"reference", "execute"} /\ call.form # "outputs" => Fit(w.binding)
    /\ p = "execute" => call.form # "outputs" /\ Referring(w)
    /\ p = "report" =>
         IF call.form = "outputs" THEN w.tapped = {}
         ELSE /\ WellBound(w.binding) /\ Referred(w)
              /\ \E n : Displays(w, n)
              /\ LayersOfChains /\ w.tapped # {} =>
                   TappedAll(w.binding, w.binding.ar, w.tapped)

\* What a benchmark has measured of it.
Benched(p, w) ==
    p \in {"open", "measure", "meter", "trace"} =>
      LET b == w.binding
      IN  /\ DOMAIN w = {"binding", "vector", "recorded", "measured", "metered"}
          /\ ~OfContainer(b) => WellBound(b)
          /\ w.metered => ~OfContainer(b) /\ TrueMeasure(b, Steps(b), w.measured)
          /\ p = "meter" /\ IsSequence(b) => TrueMeasure(b, Steps(b), w.recorded)

Founded(p, w) == Examined(p, w) /\ Benched(p, w)

TrustInv ==
    /\ Trusted(shelf) /\ Trusted(drafts)
    /\ phase = "compare" => ~Automatic
    /\ \A p, w : p = phase /\ w = work => Founded(p, w)
    /\ DivergenceReachesDiagnosis

LEMMA TrustSuffices ==
    TrustInv => /\ LayersOfChains => AttributionTrue
                /\ LatencyMetricTrue /\ DivergenceReachesDiagnosis
<1> SUFFICES ASSUME TrustInv
             PROVE  /\ LayersOfChains => AttributionTrue
                    /\ LatencyMetricTrue
  BY DEF TrustInv
<1>1. \A n \in DOMAIN shelf : TrueArtifact(n, shelf[n])
  BY DEF TrustInv, Trusted
<1>2. ASSUME NEW r \in QualityReports
      PROVE  TrueReport(r)
  <2>1. PICK n \in DOMAIN shelf : n[1] = "sqnr_report" /\ r \in Elements(shelf[n].results)
    BY DEF QualityReports
  <2> QED
    BY <1>1, <2>1 DEF TrueArtifact
<1>3. DeviationsAttributed
  BY <1>2 DEF DeviationsAttributed, TrueReport, Attributed, SlicesIn
<1>4. LayersOfChains => LayersTapped
  BY <1>2 DEF LayersTapped, TrueReport, TappedAll, SlicesIn
<1>5. LatencyMetricTrue
  <2> SUFFICES ASSUME NEW report \in LatencyReports, report.metric = "device_execution",
                      NEW r \in Elements(report.results)
               PROVE  TrueMeasure(r.binding, r.steps, r.measured)
    BY DEF LatencyMetricTrue, TrueMeasure, FedTruly, TrulyFed, SlicesIn
  <2>1. PICK n \in DOMAIN shelf : n[1] = "latency_report" /\ report = shelf[n]
    BY DEF LatencyReports
  <2>2. TrueArtifact(n, report)
    BY <1>1, <2>1
  <2> QED
    BY <2>1, <2>2 DEF TrueArtifact, TrueLatency
<1> QED
  BY <1>3, <1>4, <1>5 DEF AttributionTrue

\* What has been found out stays so while the call goes on.
LEMMA FoundedStays ==
    ASSUME UNCHANGED stageVars, call' = call, NEW p, NEW w
    PROVE  Founded(p, w)' <=> Founded(p, w)
<1>1. UNCHANGED <<spec, index, made>>
  BY DEF stageVars, buildVars
<1>2. Automatic' = Automatic /\ RunsModes' = RunsModes /\ PerSlice' = PerSlice
      /\ \A m : Requested(m)' = Requested(m)
  BY DEF Automatic, RunsModes, PerSlice, Requested
<1>3. \A b : /\ IsChain(b)' = IsChain(b) /\ OfContainer(b)' = OfContainer(b)
             /\ IsSequence(b)' = IsSequence(b)
  BY <1>1, <1>2 DEF IsChain, OfContainer, IsSequence
<1>4. \A b, cl : Backed(b, cl)' = Backed(b, cl)
  <2>1. Contexts' = Contexts
    BY <1>1 DEF Contexts, OnDisk
  <2> QED
    BY <1>1, <2>1 DEF Backed
<1>5. \A b : Steps(b)' = Steps(b)
  <2>1. ModelInputs' = ModelInputs
    BY <1>1 DEF ModelInputs, ModelSlices
  <2>2. VectorInputs' = VectorInputs
    BY <2>1 DEF VectorInputs
  <2>3. \A b : ExecutedAr(b)' = ExecutedAr(b)
    BY <1>1 DEF ExecutedAr
  <2> QED
    BY <2>2, <2>3 DEF Steps, OneStep
<1>6. \A b : Fit(b)' = Fit(b)
  BY <1>1, <1>2, <1>4 DEF Fit
<1>7. Referred(w)' = Referred(w) /\ Referring(w)' = Referring(w)
  BY <1>2, <1>3 DEF Referred, Referring
<1>8. \A n : Displays(w, n)' = Displays(w, n)
  BY <1>2, <1>3 DEF Displays
<1>9. Examined(p, w)' <=> Examined(p, w)
  BY <1>6, <1>7, <1>8 DEF Examined
<1>10. Benched(p, w)' <=> Benched(p, w)
  BY <1>3, <1>5 DEF Benched
<1> QED
  BY <1>9, <1>10 DEF Founded

LEMMA TrustInit == StagesInit => TrustInv
<1> SUFFICES ASSUME StagesInit
             PROVE  TrustInv
  OBVIOUS
<1>1. /\ phase = "idle" /\ drafts = << >> /\ shelf = << >> /\ work = << >>
      /\ ended = [call |-> NoCall, how |-> "none"]
  BY DEF StagesInit, CallInit
<1>2. Trusted(shelf) /\ Trusted(drafts)
  BY <1>1 DEF Trusted
<1>3. \A p, w : p = phase /\ w = work => Founded(p, w)
  BY <1>1 DEF Founded, Examined, Benched
<1>4. DivergenceReachesDiagnosis
  BY <1>1 DEF DivergenceReachesDiagnosis, QualityCall
<1> QED
  BY <1>1, <1>2, <1>3, <1>4 DEF TrustInv

-----------------------------------------------------------------------------
(* Artifacts.                                                              *)

LEMMA TrustedMerge ==
    ASSUME NEW a, NEW b, Trusted(a), Trusted(b)
    PROVE  Trusted(Over(a, b))
<1>1. /\ DOMAIN Over(a, b) = DOMAIN a \cup DOMAIN b
      /\ \A n \in DOMAIN Over(a, b) :
            Over(a, b)[n] = IF n \in DOMAIN a THEN a[n] ELSE b[n]
  BY DEF Over
<1> QED
  BY <1>1 DEF Trusted

LEMMA TrustedOne ==
    ASSUME NEW n, NEW artifact, TrueArtifact(n, artifact)
    PROVE  Trusted(Artifact(n, artifact))
<1>1. DOMAIN Artifact(n, artifact) = {n} /\ Artifact(n, artifact)[n] = artifact
  BY DEF Artifact
<1> QED
  BY <1>1 DEF Trusted

LEMMA TrustedOther ==
    ASSUME NEW kind, NEW i, NEW artifact, kind \notin OnReports
    PROVE  Trusted(Artifact(<<kind, i>>, artifact))
<1>1. TrueArtifact(<<kind, i>>, artifact)
  BY DEF TrueArtifact, OnReports
<1> QED
  BY <1>1, TrustedOne

LEMMA TrustedNone == Trusted(<< >>)
  BY DEF Trusted

-----------------------------------------------------------------------------
(* How a call goes on and how it ends.                                     *)

LEMMA TrustEnd ==
    ASSUME TrustInv, NEW how, End(how), Trusted(shelf'), DivergenceReachesDiagnosis'
    PROVE  TrustInv'
<1>1. phase' = "idle" /\ drafts' = << >>
  BY DEF End
<1>2. Trusted(drafts')
  BY <1>1, TrustedNone
<1>3. \A p, w : p = phase' /\ w = work' => Founded(p, w)'
  BY <1>1 DEF Founded, Examined, Benched
<1>4. Trusted(shelf)' /\ Trusted(drafts)'
  BY <1>2
<1> QED
  BY <1>1, <1>3, <1>4 DEF TrustInv

\* A call of another stage than diagnose says nothing of a diagnosis.
LEMMA OtherDiagnosis ==
    ASSUME call.stage # "diagnose", NEW how, End(how)
    PROVE  DivergenceReachesDiagnosis'
<1>1. ended'.call = call
  BY DEF End
<1> QED
  BY <1>1 DEF DivergenceReachesDiagnosis, QualityCall

LEMMA TrustRefuse ==
    ASSUME TrustInv, call.stage # "diagnose", RefuseCall \/ FailCall
    PROVE  TrustInv'
<1>1. PICK how : End(how) /\ shelf' = shelf
  BY DEF RefuseCall, FailCall
<1>2. Trusted(shelf')
  BY <1>1 DEF TrustInv
<1> QED
  BY <1>1, <1>2, TrustEnd, OtherDiagnosis

LEMMA TrustPublish ==
    ASSUME TrustInv, call.stage # "diagnose",
           NEW artifacts, EndCall(artifacts), Trusted(artifacts)
    PROVE  TrustInv'
<1>1. End("done") /\ shelf' = Over(artifacts, shelf)
  BY DEF EndCall
<1>2. Trusted(shelf')
  BY <1>1, TrustedMerge DEF TrustInv
<1> QED
  BY <1>1, <1>2, TrustEnd, OtherDiagnosis

\* What stays as it is while a call goes on.
LEMMA TrustGoesOn ==
    ASSUME TrustInv, UNCHANGED stageVars, UNCHANGED <<call, shelf, ended>>,
           Trusted(drafts'), phase' = "compare" => ~Automatic,
           \A p, w : p = phase' /\ w = work' => Founded(p, w)
    PROVE  TrustInv'
<1>1. \A p, w : p = phase' /\ w = work' => Founded(p, w)'
  BY FoundedStays
<1>2. Automatic' = Automatic
  BY DEF Automatic
<1>3. DivergenceReachesDiagnosis'
  BY DEF TrustInv, DivergenceReachesDiagnosis, QualityCall, Published
<1>4. Trusted(shelf)' /\ Trusted(drafts)'
  BY DEF TrustInv
<1> QED
  BY <1>1, <1>2, <1>3, <1>4 DEF TrustInv

LEMMA TrustProceed ==
    ASSUME TrustInv, UNCHANGED stageVars, NEW next, NEW w, Proceed(next, w),
           next = "compare" => ~Automatic, Founded(next, w)
    PROVE  TrustInv'
<1>1. /\ phase' = next /\ work' = w /\ UNCHANGED <<call, shelf, ended, drafts>>
  BY DEF Proceed
<1>2. Trusted(drafts')
  BY <1>1 DEF TrustInv
<1> QED
  BY <1>1, <1>2, TrustGoesOn

LEMMA TrustNextAr ==
    ASSUME TrustInv, UNCHANGED stageVars, call.stage # "diagnose",
           NEW artifacts, NEW first, first \in {"bind", "select"},
           NextAr(artifacts, first, "aggregate"), Trusted(artifacts)
    PROVE  TrustInv'
<1>1. CASE ~FansOut
  BY <1>1, TrustPublish DEF NextAr
<1>2. CASE FansOut
  <2>1. /\ drafts' = Over(artifacts, drafts) /\ UNCHANGED <<call, shelf, ended>>
        /\ phase' \in {first, "aggregate"}
    BY <1>2 DEF NextAr
  <2>2. Trusted(drafts')
    BY <2>1, TrustedMerge DEF TrustInv
  <2>3. \A p, w : p = phase' => Founded(p, w)
    BY <2>1 DEF Founded, Examined, Benched
  <2> QED
    BY <2>1, <2>2, <2>3, TrustGoesOn
<1> QED
  BY <1>1, <1>2

LEMMA TrustStarts ==
    ASSUME TrustInv, UNCHANGED stageVars, NEW stage, stage # "diagnose",
           NEW first, first \in {"bind", "select"}, Starts(stage, first)
    PROVE  TrustInv'
<1>1. phase = "called" /\ call.stage = stage
  BY DEF Starts
<1>2. CASE RefuseCall
  BY <1>1, <1>2, TrustRefuse
<1>3. CASE ~RefuseCall
  <2>1. UNCHANGED <<call, shelf, ended, drafts>> /\ phase' = first
    BY <1>3 DEF Starts
  <2>2. Trusted(drafts')
    BY <2>1 DEF TrustInv
  <2>3. \A p, w : p = phase' => Founded(p, w)
    BY <2>1 DEF Founded, Examined, Benched
  <2> QED
    BY <2>1, <2>2, <2>3, TrustGoesOn
<1> QED
  BY <1>2, <1>3

-----------------------------------------------------------------------------
(* validate.                                                               *)

LEMMA ValidateCall ==
    ASSUME DiagnosesInv, ClaimsInv, phase \in OfAValidation
    PROVE  /\ pc = "succeeded" /\ call \in Calls /\ call.stage = "validate"
           /\ call.modes \subseteq Modes
           /\ call.form \in {"automatic", "given", "outputs"}
<1>1. phase # "idle"
  BY DEF OfAValidation
<1>2. pc = "succeeded" /\ call \in Calls /\ call.stage = "validate"
  BY <1>1 DEF DiagnosesInv, CallsInv, IdleInv, ClaimsInv, PhasesInv
<1>3. call.modes \subseteq Modes
  BY <1>2, ValidateAssumption
<1>4. call.form \in {"automatic", "given", "outputs", "container"} /\ call.form # "container"
  BY <1>2, CallAssumption, NamedAssumption
<1> QED
  BY <1>2, <1>3, <1>4

LEMMA TrustBind ==
    ASSUME ProgressInv, PlanInv, BuiltInv, RawInv, DiagnosesInv, ClaimsInv, TrustInv,
           UNCHANGED stageVars, BindValidate
    PROVE  TrustInv'
<1>1. phase = "bind" /\ phase \in OfAValidation
  BY DEF BindValidate, OfAValidation
<1>2. call.stage # "diagnose" /\ call.form \in {"automatic", "given", "outputs"}
  BY <1>1, ValidateCall
<1>3. CASE RefuseCall
  BY <1>2, <1>3, TrustRefuse
<1>4. ASSUME NEW w, Proceed("reference", w), call.form # "outputs" => Fit(w.binding)
      PROVE  TrustInv'
  <2>1. Founded("reference", w)
    BY <1>4 DEF Founded, Examined, Benched
  <2> QED
    BY <1>4, <2>1, TrustProceed
<1>5. CASE call.form = "outputs"
  BY <1>4, <1>5 DEF BindValidate
<1>6. CASE call.form # "outputs" /\ ~RefuseCall
  <2>1. Executable(Binding) /\ Proceed("reference", [binding |-> Binding])
    BY <1>6 DEF BindValidate
  <2>2. /\ Binding # NotSelectable
        /\ Automatic /\ index.lane = "genai_builder" => Binding.scope # "container"
    BY <2>1 DEF Executable
  <2>3. Fit(Binding)
    BY <1>1, <1>2, <1>6, <2>2, BindingFits
  <2> PICK w : w = [binding |-> Binding]
    OBVIOUS
  <2>4. w.binding = Binding
    OBVIOUS
  <2> QED
    BY <1>4, <2>1, <2>3, <2>4
<1> QED
  BY <1>3, <1>5, <1>6

\* The goldens of the slices, if they are captured, deviate in nothing.
LEMMA TrustReferences ==
    ASSUME DiagnosesInv, ClaimsInv, TrustInv, UNCHANGED stageVars, PrepareReferences
    PROVE  TrustInv'
<1>1. phase = "reference" /\ phase \in OfAValidation
  BY DEF PrepareReferences, OfAValidation
<1>2. call.stage # "diagnose" /\ call.form \in {"automatic", "given", "outputs"}
  BY <1>1, ValidateCall
<1>3. CASE RefuseCall \/ FailCall
  BY <1>2, <1>3, TrustRefuse
<1>4. CASE ~(RefuseCall \/ FailCall)
  <2> DEFINE b == work.binding
             vector == IF call.form = "outputs" THEN call.vector ELSE VectorFor(b)
             split == PerSlice /\ IsChain(b)
             model == Whole(ModelGoldens(vector))
             slices == IF split THEN SliceGoldens(b) ELSE model
             forced == IF split /\ Requested("teacher_forced")
                       THEN GoldenInputs(b) ELSE << >>
             v == [binding |-> b, vector |-> vector, model |-> model, slices |-> slices,
                   forced |-> forced, noisy |-> {}, device |-> call.outputs,
                   chain |-> call.outputs, teacher |-> NoTree, tapped |-> {}]
             next == IF call.form = "outputs" THEN "report" ELSE "execute"
  <2>1. ~(split /\ ~MakesGoldens(b)) /\ Proceed(next, v)
    BY <1>4, ZenonT(60) DEF PrepareReferences
  <2>2. /\ v.binding = b /\ v.tapped = {}
        /\ v.model = model /\ v.slices = slices /\ v.forced = forced
        /\ DOMAIN v = {"binding", "vector", "model", "slices", "forced", "noisy", "device",
                       "chain", "teacher", "tapped"}
    <3> HIDE DEF b, vector, model, slices, forced
    <3> QED
      OBVIOUS
  <2> HIDE DEF v
  <2>3. call.form # "outputs" => Fit(b)
    BY <1>1 DEF TrustInv, Founded, Examined
  <2>4. ASSUME call.form # "outputs"
        PROVE  CleanTree(forced)
    <3>1. CASE split /\ Requested("teacher_forced")
      <4>1. PICK n : Proper(b.routes, n)
        BY <2>3, <2>4 DEF Fit, WellBound
      <4>2. CleanTree(GoldenInputs(b))
        BY <2>1, <3>1, <4>1, GoldensClean
      <4> QED
        BY <3>1, <4>2
    <3>2. CASE ~(split /\ Requested("teacher_forced"))
      <4>1. forced = << >>
        BY <3>2
      <4> QED
        BY <4>1 DEF CleanTree
    <3> QED
      BY <3>1, <3>2
  <2>5. Referred(v)
    <3>1. ModelGoldens(vector) # {} /\ v.model = Whole(ModelGoldens(vector))
      BY <2>2, GoldensSome
    <3>2. v.slices = IF PerSlice /\ IsChain(v.binding) THEN SliceGoldens(v.binding) ELSE v.model
      BY <2>2
    <3> HIDE DEF vector, b, split, model, slices
    <3> QED
      BY <3>1, <3>2 DEF Referred
  <2>6. call.form # "outputs" => Referring(v)
    <3> HIDE DEF forced, model, slices, vector, b
    <3> QED
      BY <2>2, <2>4, <2>5 DEF Referring
  <2>7. Founded(next, v)
    <3> HIDE DEF forced, model, slices, vector
    <3> QED
      BY <2>2, <2>3, <2>6 DEF Founded, Examined, Benched
  <2> HIDE DEF forced, model, slices, vector
  <2> QED
    BY <2>1, <2>7, TrustProceed
<1> QED
  BY <1>3, <1>4

\* What the device has made of the slices is what its deviations make of them.
LEMMA TrustExecute ==
    ASSUME ProgressInv, BuiltInv, DiagnosesInv, ClaimsInv, TrustInv,
           UNCHANGED stageVars, ExecuteModes
    PROVE  TrustInv'
<1>1. phase = "execute" /\ phase \in OfAValidation
  BY Zenon DEF ExecuteModes, OfAValidation
<1>2. pc = "succeeded" /\ call \in Calls /\ call.stage = "validate"
  BY <1>1, ValidateCall
<1>3. CASE RefuseCall \/ FailCall
  BY <1>2, <1>3, TrustRefuse
<1>4. CASE ~(RefuseCall \/ FailCall)
  <2> DEFINE chained(noisy) == RunRoutes(work.binding, "device_chain", noisy, << >>)
             taught(noisy) == RunRoutes(work.binding, "teacher_forced", noisy, work.forced)
             needs == IF IsChain(work.binding)
                      THEN ~RunsModes \/ Requested("full_reference") \/ Requested("chain")
                      ELSE TRUE
             teaches == RunsModes /\ Requested("teacher_forced")
             device(noisy) == IF needs THEN FinalOutputs(chained(noisy)) ELSE NoTree
             chain(noisy) == IF RunsModes /\ ~Requested("chain") THEN NoTree
                             ELSE IF IsChain(work.binding) /\ RunsModes
                             THEN OutputsBySlice(chained(noisy))
                             ELSE FinalOutputs(chained(noisy))
             teacher(noisy) == IF ~teaches THEN NoTree
                               ELSE IF IsChain(work.binding)
                               THEN OutputsBySlice(taught(noisy))
                               ELSE FinalOutputs(chained(noisy))
             tapped == IF call.float = "layer" THEN Entries(work.binding) ELSE {}
  <2>1. PICK noisy :
          /\ Proceed("report", [work EXCEPT !.noisy = noisy, !.device = device(noisy),
                                  !.chain = chain(noisy), !.teacher = teacher(noisy),
                                  !.tapped = tapped])
          /\ needs => ~chained(noisy).failed
          /\ teaches /\ IsChain(work.binding) => ~taught(noisy).failed
          /\ call.float = "layer" => Layered(work.binding)
    BY <1>4, ZenonT(60) DEF ExecuteModes
  <2>2. call.form # "outputs" /\ Fit(work.binding) /\ Referring(work)
    BY <1>1 DEF TrustInv, Founded, Examined
  <2> PICK b : b = work.binding
    OBVIOUS
  <2> PICK d : d = device(noisy)
    OBVIOUS
  <2> PICK c : c = chain(noisy)
    OBVIOUS
  <2> PICK t : t = teacher(noisy)
    OBVIOUS
  <2> PICK taps : taps = tapped
    OBVIOUS
  <2> PICK w : w = [work EXCEPT !.noisy = noisy, !.device = d, !.chain = c, !.teacher = t,
                                !.tapped = taps]
    OBVIOUS
  <2>3. Proceed("report", w)
    <3> HIDE DEF device, chain, teacher, tapped
    <3> QED
      BY <2>1
  <2>4. /\ w.noisy = noisy /\ w.device = d /\ w.chain = c /\ w.teacher = t /\ w.tapped = taps
        /\ w.binding = b /\ w.model = work.model /\ w.slices = work.slices
    <3>1. {"noisy", "device", "chain", "teacher", "tapped"} \subseteq DOMAIN work
      BY <2>2 DEF Referring
    <3> HIDE DEF device, chain, teacher, tapped
    <3> QED
      BY <3>1
  <2>5. WellBound(b) /\ CleanTree(work.forced)
    BY <2>2 DEF Fit, Referring
  <2>6. \E n : Displays(w, n)
    <3> PICK run : run = chained(noisy)
      OBVIOUS
    <3> PICK forced : forced = taught(noisy)
      OBVIOUS
    <3> PICK x \in BOOLEAN : x = needs
      OBVIOUS
    <3> PICK y \in BOOLEAN : y = teaches
      OBVIOUS
    <3>1. /\ run = RunRoutes(b, "device_chain", noisy, << >>)
          /\ forced = RunRoutes(b, "teacher_forced", noisy, work.forced)
      OBVIOUS
    <3>2. (x => ~run.failed) /\ (y /\ IsChain(b) => ~forced.failed)
      BY <2>1
    <3>3. /\ w.device = (IF x THEN FinalOutputs(run) ELSE NoTree)
          /\ w.chain = (IF RunsModes /\ ~Requested("chain") THEN NoTree
                        ELSE IF IsChain(b) /\ RunsModes
                        THEN OutputsBySlice(run) ELSE FinalOutputs(run))
          /\ w.teacher = (IF ~y THEN NoTree
                          ELSE IF IsChain(b) THEN OutputsBySlice(forced)
                          ELSE FinalOutputs(run))
      BY <2>4
    <3>4. x = (IF IsChain(b)
               THEN ~RunsModes \/ Requested("full_reference") \/ Requested("chain")
               ELSE TRUE)
      OBVIOUS
    <3>5. y = (RunsModes /\ Requested("teacher_forced"))
      OBVIOUS
    <3> HIDE DEF device, chain, teacher, tapped, needs, teaches, chained, taught
    <3>6. Outcome(b, work.forced, noisy, run, forced, x, y, w)
      BY <2>4, <3>1, <3>2, <3>3, <3>4, <3>5 DEF Outcome
    <3> QED
      BY <2>5, <3>6, DeviceDisplays
  <2>7. ASSUME LayersOfChains, taps # {}
        PROVE  TappedAll(b, b.ar, taps)
    <3>1. call.float = "layer" /\ taps = Entries(b) /\ Layered(b)
      BY <2>1, <2>7
    <3>2. IsChain(b) \/ Backed(b, b.cl)
      <4>1. CASE Automatic
        <5>1. CASE spec.lane # "genai_builder"
          BY <2>2, <4>1, <5>1 DEF Fit
        <5>2. CASE spec.lane = "genai_builder"
          <6>1. index.lane = "genai_builder"
            BY <1>2, <5>2, LaneOf
          <6> QED
            BY <4>1, <6>1 DEF IsChain
        <5> QED
          BY <5>1, <5>2
      <4>2. CASE ~Automatic
        <5>1. call.form = "given"
          BY <1>1, <2>2, <4>2, ValidateCall DEF Automatic
        <5>2. b = call.binding
          BY <2>2, <5>1 DEF Fit
        <5>3. b.scope = "chain"
          BY <1>2, <2>7, <3>1, <5>1, <5>2 DEF LayersOfChains
        <5> QED
          BY <5>3 DEF IsChain
      <4> QED
        BY <4>1, <4>2
    <3> QED
      BY <1>2, <3>1, <3>2, LayersLink
  <2>8. Referred(w)
    BY <2>2, <2>4 DEF Referring, Referred
  <2> HIDE DEF device, chain, teacher, tapped, needs, teaches, chained, taught
  <2>9. Founded("report", w)
    BY <2>2, <2>4, <2>5, <2>6, <2>7, <2>8 DEF Founded, Examined, Benched
  <2> QED
    BY <2>3, <2>9, TrustProceed
<1> QED
  BY <1>3, <1>4

LEMMA TrustReport ==
    ASSUME DiagnosesInv, ClaimsInv, TrustInv, UNCHANGED stageVars, PublishReport
    PROVE  TrustInv'
<1>1. phase = "report" /\ phase \in OfAValidation
  BY DEF PublishReport, OfAValidation
<1>2. call.stage # "diagnose" /\ call.modes \subseteq Modes
  BY <1>1, ValidateCall
<1>3. CASE RefuseCall \/ FailCall
  BY <1>2, <1>3, TrustRefuse
<1>4. CASE ~(RefuseCall \/ FailCall)
  <2>1. Reportable /\ NextAr(Reports, "bind", "aggregate")
    BY <1>4 DEF PublishReport
  <2>2. Examined("report", work)
    BY <1>1 DEF TrustInv, Founded
  <2>3. TrueReport(Report)
    <3>1. CASE call.form = "outputs"
      BY <2>2, <3>1, OutputsReport DEF Examined
    <3>2. CASE call.form # "outputs"
      <4>1. /\ WellBound(work.binding) /\ Referred(work) /\ \E n : Displays(work, n)
            /\ LayersOfChains /\ work.tapped # {} =>
                 TappedAll(work.binding, work.binding.ar, work.tapped)
        BY <2>2, <3>2, Zenon DEF Examined
      <4> QED
        BY <1>2, <2>1, <3>2, <4>1, ReportTrue
    <3> QED
      BY <3>1, <3>2
  <2> PICK r : r = Report
    OBVIOUS
  <2> DEFINE one == Artifact(Name("sqnr_report"), [kind |-> "one", results |-> <<r>>])
             float == IF call.float = "none" THEN << >>
                      ELSE Artifact(Name("float_reference_report"), [ar |-> work.binding.ar])
  <2>4. Reports = Over(one, Over(References, float))
    BY DEF Reports
  <2>5. Trusted(one)
    <3> DEFINE artifact == [kind |-> "one", results |-> <<r>>]
    <3>1. Elements(artifact.results) = {r}
      BY DEF Elements
    <3> HIDE DEF artifact
    <3>2. TrueArtifact(Name("sqnr_report"), artifact)
      BY <2>3, <3>1 DEF TrueArtifact, Name
    <3>3. Trusted(Artifact(Name("sqnr_report"), artifact))
      BY <3>2, TrustedOne
    <3> QED
      BY <3>3 DEF artifact
  <2>6. Trusted(float)
    <3>1. "float_reference_report" \notin OnReports
      BY DEF OnReports
    <3>2. Trusted(Artifact(Name("float_reference_report"), [ar |-> work.binding.ar]))
      BY <3>1, TrustedOther DEF Name
    <3> QED
      BY <3>2, TrustedNone
  <2>7. Trusted(References)
    <3>1. \A n \in DOMAIN References : n[1] = "slice_reference"
      BY DEF References
    <3> QED
      BY <3>1 DEF Trusted, TrueArtifact
  <2> HIDE DEF one, float
  <2>8. Trusted(Reports)
    BY <2>4, <2>5, <2>6, <2>7, TrustedMerge
  <2> QED
    BY <1>2, <2>1, <2>8, TrustNextAr
<1> QED
  BY <1>3, <1>4

\* The reports on all ARs together are those on each of them.
LEMMA Gathered ==
    ASSUME ClaimsInv, DiagnosesInv, InLoops, phase = "aggregate", Trusted(drafts),
           NEW i \in DOMAIN spec.ars
    PROVE  /\ <<ReportName, spec.ars[i]>> \in DOMAIN drafts
           /\ drafts[<<ReportName, spec.ars[i]>>].results[1]
                \in Elements(drafts[<<ReportName, spec.ars[i]>>].results)
           /\ TrueArtifact(<<ReportName, spec.ars[i]>>, drafts[<<ReportName, spec.ars[i]>>])
<1>1. Fanning
  BY DEF ClaimsInv, PhasesInv, Fanning
<1>2. spec.ars[i] \in AllArs
  BY Configured DEF AllArs
<1>3. Reported(spec.ars[i])
  BY <1>1, <1>2 DEF ClaimsInv, FanInv
<1> QED
  BY <1>3 DEF Reported, Trusted, Elements

LEMMA TrustAggregate ==
    ASSUME InLoops, DiagnosesInv, ClaimsInv, TrustInv, PublishAggregate
    PROVE  TrustInv'
<1> DEFINE one == [i \in DOMAIN spec.ars |->
                     drafts[<<"sqnr_report", spec.ars[i]>>].results[1]]
           all == [kind |-> "all", results |-> one,
                   ars |-> AllArs, cls |-> Range(spec.cls),
                   diverged |-> \E i \in DOMAIN one :
                      one[i].top.teacher \cup one[i].top.chain # {}]
<1>1. phase = "aggregate" /\ call.stage = "validate"
  BY Zenon DEF PublishAggregate
<1>2. EndCall(Over(Artifact(<<"sqnr_report", 0>>, all), drafts))
  BY Zenon DEF PublishAggregate
<1>3. ReportName = "sqnr_report"
  BY <1>1 DEF ReportName
<1>4. all.results = one
  OBVIOUS
<1>5. ASSUME NEW r \in Elements(one)
      PROVE  TrueReport(r)
  <2>1. PICK i \in DOMAIN spec.ars : r = drafts[<<"sqnr_report", spec.ars[i]>>].results[1]
    BY DEF Elements
  <2>2. /\ r \in Elements(drafts[<<"sqnr_report", spec.ars[i]>>].results)
        /\ TrueArtifact(<<"sqnr_report", spec.ars[i]>>, drafts[<<"sqnr_report", spec.ars[i]>>])
    BY <1>1, <1>3, <2>1, Gathered DEF TrustInv
  <2> QED
    BY <2>2 DEF TrueArtifact
<1> HIDE DEF one, all
<1>6. Trusted(Artifact(<<"sqnr_report", 0>>, all))
  <2>1. TrueArtifact(<<"sqnr_report", 0>>, all)
    BY <1>4, <1>5 DEF TrueArtifact
  <2> QED
    BY <2>1, TrustedOne
<1>7. Trusted(Over(Artifact(<<"sqnr_report", 0>>, all), drafts))
  BY <1>6, TrustedMerge DEF TrustInv
<1> QED
  BY <1>1, <1>2, <1>7, TrustPublish

LEMMA TrustValidate ==
    ASSUME ProgressInv, PlanInv, BuiltInv, RawInv, DiagnosesInv, ClaimsInv, TrustInv,
           UNCHANGED stageVars, ValidateNext
    PROVE  TrustInv'
<1>1. CASE BeginValidate
  BY <1>1, TrustStarts DEF BeginValidate
<1>2. CASE BindValidate
  BY <1>2, TrustBind
<1>3. CASE PrepareReferences
  BY <1>3, TrustReferences
<1>4. CASE ExecuteModes
  BY <1>4, TrustExecute
<1>5. CASE PublishReport
  BY <1>5, TrustReport
<1>6. CASE PublishAggregate
  BY <1>6, TrustAggregate DEF ProgressInv
<1> QED
  BY <1>1, <1>2, <1>3, <1>4, <1>5, <1>6 DEF ValidateNext

-----------------------------------------------------------------------------
(* benchmark.                                                              *)

LEMMA BenchmarkCall ==
    ASSUME DiagnosesInv, ClaimsInv, phase \in OfABenchmark
    PROVE  /\ pc = "succeeded" /\ call \in Calls /\ call.stage = "benchmark"
           /\ call.form \in {"automatic", "given", "container"}
           /\ call.runs \in Nat \ {0}
           /\ Len(call.steps) \in Nat /\ DOMAIN call.steps = 1 .. Len(call.steps)
           /\ \A k \in DOMAIN call.steps :
                call.steps[k].inputs = Given(DOMAIN call.steps[k].inputs, k)
<1>1. phase # "idle"
  BY DEF OfABenchmark
<1>2. pc = "succeeded" /\ call \in Calls /\ call.stage = "benchmark"
  BY <1>1 DEF DiagnosesInv, CallsInv, IdleInv, ClaimsInv, PhasesInv
<1>3. call.form \in {"automatic", "given", "outputs", "container"} /\ call.form # "outputs"
  BY <1>2, CallAssumption, NamedAssumption
<1>4. /\ call.runs \in Nat \ {0}
      /\ Len(call.steps) \in Nat /\ DOMAIN call.steps = 1 .. Len(call.steps)
      /\ \A k \in DOMAIN call.steps :
           call.steps[k].inputs = Given(DOMAIN call.steps[k].inputs, k)
  BY <1>2, BenchmarkAssumption
<1> QED
  BY <1>2, <1>3, <1>4

\* The state found in a vector is the vector's.
LEMMA FoundInVector ==
    ASSUME NEW routes, NEW inputs, inputs = Given(DOMAIN inputs, 1),
           NEW state, state = StateFromVector(routes, inputs), NEW x \in DOMAIN state
    PROVE  state[x].by = "vector" /\ state[x].step = 1
<1> DEFINE found == {t \in UNION {r.inputs : r \in Elements(routes)} :
                       t.state /\ t \in DOMAIN inputs}
           of(y) == CHOOSE t \in found : StateSlot(t) = y
<1>1. state = [y \in {StateSlot(t) : t \in found} |-> inputs[of(y)]]
  BY Zenon DEF StateFromVector
<1>2. \A y \in {StateSlot(t) : t \in found} : of(y) \in found
  <2> HIDE DEF found
  <2> QED
    OBVIOUS
<1>3. \A t \in found : t \in DOMAIN inputs
  OBVIOUS
<1> HIDE DEF found, of
<1>4. of(x) \in DOMAIN inputs /\ state[x] = inputs[of(x)]
  BY <1>1, <1>2, <1>3
<1>5. state[x] = Value("vector", 1, {})
  BY <1>4 DEF Given
<1> QED
  BY <1>5 DEF Value

\* What is executed to be measured are the slices and steps of the binding.
LEMMA ExecutionsMeasured ==
    ASSUME DiagnosesInv, ClaimsInv, phase \in OfABenchmark,
           WellBound(work.binding), ~Executions.failed
    PROVE  /\ IsSeq(Executions.executions)
           /\ TrueMeasure(work.binding, Steps(work.binding), Executions.executions)
<1> PICK b : b = work.binding
  OBVIOUS
<1> PICK steps : steps = IF b.scope = "chain" THEN Steps(b) ELSE OneStep(b, << >>)
  OBVIOUS
<1> PICK state : state = IF work.vector = NoManifest THEN << >>
                         ELSE StateFromVector(b.routes, VectorInputs)
  OBVIOUS
<1> PICK runner : runner = [routes |-> b.routes, mode |-> "device_chain", noisy |-> {}]
  OBVIOUS
<1>1. Executions = RunSequence(runner, steps, state)
  BY DEF Executions
<1>2. PICK n : /\ n \in Nat /\ DOMAIN b.routes = 1 .. n /\ n = Len(b.routes)
               /\ Linked(b.routes)
  BY DEF WellBound, Proper
<1>3. VectorInputs = Given(DOMAIN VectorInputs, 1)
  <2>1. VectorInputs = Given(ModelInputs, 1) /\ DOMAIN Given(ModelInputs, 1) = ModelInputs
    BY DEF VectorInputs, Given
  <2> QED
    BY <2>1
<1>4. \A goldens : /\ Len(OneStep(b, goldens)) = 1 /\ DOMAIN OneStep(b, goldens) = 1 .. 1
                   /\ OneStep(b, goldens)[1].inputs = VectorInputs
  BY DEF OneStep
<1>5. PICK m \in Nat :
        /\ m = Len(steps) /\ DOMAIN steps = 1 .. m
        /\ \A k \in 1 .. m : steps[k].inputs = Given(DOMAIN steps[k].inputs, k)
        /\ b.scope # "chain" => m = 1
  <2>1. CASE b.scope = "chain" /\ call.steps # << >>
    <3>1. steps = call.steps
      BY <2>1 DEF Steps
    <3> QED
      BY <2>1, <3>1, BenchmarkCall
  <2>2. CASE ~(b.scope = "chain" /\ call.steps # << >>)
    <3>1. steps = OneStep(b, << >>)
      BY <2>2 DEF Steps
    <3>2. \A k \in 1 .. 1 : k = 1
      OBVIOUS
    <3> QED
      BY <1>3, <1>4, <3>1, <3>2
  <2> QED
    BY <2>1, <2>2
<1>6. ASSUME NEW x \in DOMAIN state
      PROVE  state[x].by = "vector" /\ state[x].step = 1
  <2>1. state = StateFromVector(b.routes, VectorInputs)
    <3>1. DOMAIN << >> = {}
      OBVIOUS
    <3> QED
      BY <1>6, <3>1
  <2> QED
    BY <1>3, <1>6, <2>1, FoundInVector
<1> PICK run : run = Executions
  OBVIOUS
<1>7. Sequenced(b.routes, n, steps, m, run)
  <2>1. runner.mode = "device_chain" /\ runner.routes = b.routes
    OBVIOUS
  <2>2. run = RunSequence(runner, steps, state) /\ ~run.failed
    BY <1>1
  <2>3. Sequenced(runner.routes, n, steps, m, run)
    BY <1>2, <1>5, <1>6, <2>1, <2>2, StepsRun
  <2> QED
    BY <2>1, <2>3
<1>8. TrueMeasure(b, Steps(b), run.executions)
  <2>1. IF b.scope = "chain" THEN Steps(b) = steps /\ DOMAIN steps = 1 .. m ELSE m = 1
    BY <1>5
  <2> QED
    BY <1>2, <1>7, <2>1, SequenceMeasures
<1>9. IsSeq(run.executions)
  BY <1>7 DEF Sequenced
<1> QED
  BY <1>8, <1>9

\* What has been measured for a binding is kept with the binding.
LEMMA FoundMeasured ==
    ASSUME NEW w, NEW b, w.binding = b, NEW p \in {"measure", "trace"},
           DOMAIN w = {"binding", "vector", "recorded", "measured", "metered"},
           ~OfContainer(b) => WellBound(b),
           w.metered => ~OfContainer(b) /\ TrueMeasure(b, Steps(b), w.measured)
    PROVE  Founded(p, w)
<1>1. Examined(p, w)
  BY DEF Examined
<1>2. Benched(p, w)
  BY DEF Benched
<1> QED
  BY <1>1, <1>2 DEF Founded

LEMMA TrustMetered ==
    ASSUME DiagnosesInv, ClaimsInv, TrustInv, UNCHANGED stageVars, phase \in OfABenchmark,
           phase # "select", NEW next \in {"measure", "trace"},
           NEW available \in BOOLEAN, NEW executions,
           Proceed(next, Metered(available, executions)),
           available => /\ ~OfContainer(work.binding)
                        /\ TrueMeasure(work.binding, Steps(work.binding), executions)
    PROVE  TrustInv'
<1> PICK b : b = work.binding
  OBVIOUS
<1> PICK w : w = Metered(available, executions)
  OBVIOUS
<1>1. /\ DOMAIN work = {"binding", "vector", "recorded", "measured", "metered"}
      /\ ~OfContainer(b) => WellBound(b)
  BY DEF TrustInv, Founded, Benched, OfABenchmark
<1>2. /\ DOMAIN w = {"binding", "vector", "recorded", "measured", "metered"}
      /\ w.binding = b /\ w.metered = available
      /\ w.measured = IF available THEN executions ELSE << >>
  BY <1>1 DEF Metered
<1>3. Founded(next, w)
  BY <1>1, <1>2, FoundMeasured
<1> QED
  BY <1>3, TrustProceed

LEMMA TrustSelect ==
    ASSUME ProgressInv, PlanInv, BuiltInv, RawInv, DiagnosesInv, ClaimsInv, TrustInv,
           UNCHANGED stageVars, SelectBenchmark
    PROVE  TrustInv'
<1>1. phase = "select" /\ phase \in OfABenchmark
  BY DEF SelectBenchmark, OfABenchmark
<1>2. call.stage # "diagnose" /\ call.form \in {"automatic", "given", "container"}
  BY <1>1, BenchmarkCall
<1>3. CASE RefuseCall
  BY <1>2, <1>3, TrustRefuse
<1>4. CASE ~RefuseCall
  <2>1. PICK w : /\ w = [binding |-> Binding, vector |-> VectorFor(Binding),
                         recorded |-> << >>, measured |-> << >>, metered |-> FALSE]
                 /\ Proceed("open", w)
    BY <1>4 DEF SelectBenchmark
  <2>2. ASSUME ~OfContainer(Binding)
        PROVE  WellBound(Binding)
    <3>1. Binding # NotSelectable
      BY <1>4 DEF SelectBenchmark, Measurable
    <3>2. call.form \in {"automatic", "given"} /\ ~(Automatic /\ index.lane = "genai_builder")
      BY <1>2, <2>2 DEF OfContainer
    <3>3. Fit(Binding)
      BY <1>1, <3>1, <3>2, BindingFits
    <3> QED
      BY <3>3 DEF Fit
  <2>3. /\ DOMAIN w = {"binding", "vector", "recorded", "measured", "metered"}
        /\ w.binding = Binding /\ w.metered = FALSE
    BY <2>1
  <2>4. Examined("open", w)
    BY DEF Examined
  <2>5. Benched("open", w)
    BY <2>2, <2>3 DEF Benched
  <2>6. Founded("open", w)
    BY <2>4, <2>5 DEF Founded
  <2> QED
    BY <2>1, <2>6, TrustProceed
<1> QED
  BY <1>3, <1>4

LEMMA TrustOpen ==
    ASSUME DiagnosesInv, ClaimsInv, TrustInv, UNCHANGED stageVars,
           OpenContainer \/ OpenChain \/ OpenGraph
    PROVE  TrustInv'
<1>1. phase = "open" /\ phase \in OfABenchmark
  BY DEF OpenContainer, OpenChain, OpenGraph, OfABenchmark
<1>2. call.stage # "diagnose"
  BY <1>1, BenchmarkCall
<1>3. CASE RefuseCall \/ FailCall
  BY <1>2, <1>3, TrustRefuse
<1>4. CASE Proceed("measure", work)
  <2>1. Founded("open", work)
    BY <1>1 DEF TrustInv
  <2>2. Founded("measure", work)
    BY <2>1 DEF Founded, Examined, Benched
  <2> QED
    BY <1>4, <2>2, TrustProceed
<1>5. CASE OpenGraph /\ ~(RefuseCall \/ FailCall)
  <2>1. PICK available \in BOOLEAN :
          /\ available => Capturable
          /\ Proceed("measure", Metered(available, Executions.executions))
    BY <1>5 DEF OpenGraph
  <2>2. ~OfContainer(work.binding)
    BY <1>5 DEF OpenGraph
  <2>3. WellBound(work.binding)
    BY <1>1, <2>2 DEF TrustInv, Founded, Benched
  <2>4. available => TrueMeasure(work.binding, Steps(work.binding), Executions.executions)
    BY <1>1, <2>1, <2>3, ExecutionsMeasured DEF Capturable, Runs
  <2> QED
    BY <1>1, <2>1, <2>2, <2>4, TrustMetered
<1> QED
  BY <1>3, <1>4, <1>5 DEF OpenContainer, OpenChain

\* What is recorded are the executions of the slices, as often as they are timed.
LEMMA TrustMeasure ==
    ASSUME DiagnosesInv, ClaimsInv, TrustInv, UNCHANGED stageVars, Measure
    PROVE  TrustInv'
<1>1. phase = "measure" /\ phase \in OfABenchmark
  BY DEF Measure, OfABenchmark
<1>2. call.stage # "diagnose" /\ call.runs \in Nat \ {0}
  BY <1>1, BenchmarkCall
<1>3. CASE RefuseCall \/ FailCall
  BY <1>2, <1>3, TrustRefuse
<1>4. CASE ~(RefuseCall \/ FailCall)
  <2>1. /\ OfContainer(work.binding) \/ Runs
        /\ Proceed("meter", IF IsSequence(work.binding)
                            THEN [work EXCEPT !.recorded = Recorded] ELSE work)
    BY <1>4 DEF Measure
  <2>2. Founded("measure", work)
    BY <1>1 DEF TrustInv
  <2>3. CASE ~IsSequence(work.binding)
    <3>1. Founded("meter", work)
      BY <2>2, <2>3 DEF Founded, Examined, Benched
    <3> QED
      BY <2>1, <2>3, <3>1, TrustProceed
  <2>4. CASE IsSequence(work.binding)
    <3> PICK b : b = work.binding
      OBVIOUS
    <3> PICK recorded : recorded = Recorded
      OBVIOUS
    <3> PICK w : w = [work EXCEPT !.recorded = recorded]
      OBVIOUS
    <3>1. ~OfContainer(b) /\ ~Executions.failed
      BY <2>1, <2>4 DEF IsSequence, Runs
    <3>2. /\ DOMAIN work = {"binding", "vector", "recorded", "measured", "metered"}
          /\ WellBound(b)
          /\ work.metered => TrueMeasure(b, Steps(b), work.measured)
      BY <2>2, <3>1 DEF Founded, Benched
    <3>3. /\ IsSeq(Executions.executions)
          /\ TrueMeasure(b, Steps(b), Executions.executions)
      BY <1>1, <3>1, <3>2, ExecutionsMeasured
    <3>4. Elements(recorded) = Elements(Executions.executions)
      <4>1. recorded = Repeated(Executions.executions, call.runs)
        BY DEF Recorded, Repeated
      <4>2. Elements(Repeated(Executions.executions, call.runs))
              = Elements(Executions.executions)
        BY <1>2, <3>3, Again
      <4> QED
        BY <4>1, <4>2
    <3>5. TrueMeasure(b, Steps(b), recorded)
      BY <3>3, <3>4 DEF TrueMeasure
    <3>6. /\ DOMAIN w = {"binding", "vector", "recorded", "measured", "metered"}
          /\ w.binding = b /\ w.metered = work.metered /\ w.measured = work.measured
          /\ w.recorded = recorded
      BY <3>2
    <3>7. Examined("meter", w)
      BY DEF Examined
    <3>8. Benched("meter", w)
      BY <3>1, <3>2, <3>5, <3>6 DEF Benched
    <3>9. Founded("meter", w)
      BY <3>7, <3>8 DEF Founded
    <3> QED
      BY <2>1, <2>4, <3>9, TrustProceed
  <2> QED
    BY <2>3, <2>4
<1> QED
  BY <1>3, <1>4

LEMMA TrustMeter ==
    ASSUME DiagnosesInv, ClaimsInv, TrustInv, UNCHANGED stageVars, Meter
    PROVE  TrustInv'
<1>1. phase = "meter" /\ phase \in OfABenchmark
  BY DEF Meter, OfABenchmark
<1>2. Founded("meter", work)
  BY <1>1 DEF TrustInv
<1>3. CASE IsSequence(work.binding)
  <2>1. PICK available \in BOOLEAN : Proceed("trace", Metered(available, work.recorded))
    BY <1>3 DEF Meter
  <2>2. /\ ~OfContainer(work.binding)
        /\ TrueMeasure(work.binding, Steps(work.binding), work.recorded)
    BY <1>2, <1>3 DEF Founded, Benched, IsSequence
  <2> QED
    BY <1>1, <2>1, <2>2, TrustMetered
<1>4. CASE ~IsSequence(work.binding)
  <2>1. Proceed("trace", work)
    BY <1>4 DEF Meter
  <2>2. Founded("trace", work)
    BY <1>2 DEF Founded, Examined, Benched
  <2> QED
    BY <2>1, <2>2, TrustProceed
<1> QED
  BY <1>3, <1>4

\* A trace says nothing that a report on latency says.
LEMMA TrustLatency ==
    ASSUME DiagnosesInv, ClaimsInv, TrustInv, UNCHANGED stageVars, PublishLatency
    PROVE  TrustInv'
<1>1. phase = "trace" /\ phase \in OfABenchmark
  BY DEF PublishLatency, OfABenchmark
<1>2. call.stage # "diagnose"
  BY <1>1, BenchmarkCall
<1>3. CASE RefuseCall \/ FailCall
  BY <1>2, <1>3, TrustRefuse
<1>4. CASE NextAr(LatencyArtifacts, "select", "aggregate")
  <2> PICK r : r = Latency
    OBVIOUS
  <2>1. /\ r.binding = work.binding /\ r.steps = Steps(work.binding)
        /\ r.measured = work.measured
        /\ r.metric = IF work.metered THEN "device_execution" ELSE "unavailable"
    BY DEF Latency
  <2>2. TrueLatency(r)
    <3>1. work.metered => TrueMeasure(work.binding, Steps(work.binding), work.measured)
      BY <1>1 DEF TrustInv, Founded, Benched
    <3> QED
      BY <2>1, <3>1 DEF TrueLatency
  <2> DEFINE report == [kind |-> "one", results |-> <<r>>, metric |-> r.metric,
                        optrace |-> r.optrace]
             trace == IF call.optrace
                      THEN Artifact(Name("optrace_evidence"), Trace) ELSE << >>
  <2>3. LatencyArtifacts = Over(Artifact(Name("latency_report"), report), trace)
    BY DEF LatencyArtifacts
  <2>4. Trusted(Artifact(Name("latency_report"), report))
    <3>1. Elements(report.results) = {r} /\ report.metric = r.metric
      BY DEF Elements
    <3> HIDE DEF report
    <3>2. TrueArtifact(Name("latency_report"), report)
      BY <2>2, <3>1 DEF TrueArtifact, Name
    <3> QED
      BY <3>2, TrustedOne
  <2>5. Trusted(trace)
    <3>1. "optrace_evidence" \notin OnReports
      BY DEF OnReports
    <3>2. Trusted(Artifact(Name("optrace_evidence"), Trace))
      BY <3>1, TrustedOther DEF Name
    <3> QED
      BY <3>2, TrustedNone
  <2> HIDE DEF report, trace
  <2>6. Trusted(LatencyArtifacts)
    BY <2>3, <2>4, <2>5, TrustedMerge
  <2> QED
    BY <1>2, <1>4, <2>6, TrustNextAr
<1> QED
  BY <1>3, <1>4 DEF PublishLatency

LEMMA TrustLatencies ==
    ASSUME InLoops, DiagnosesInv, ClaimsInv, TrustInv, PublishLatencies
    PROVE  TrustInv'
<1> DEFINE one == [i \in DOMAIN spec.ars |->
                     drafts[<<"latency_report", spec.ars[i]>>].results[1]]
           latency == [kind |-> "all", results |-> one, ars |-> AllArs,
                       cls |-> Range(spec.cls),
                       metric |-> IF \A i \in DOMAIN one :
                                       one[i].metric = "device_execution"
                                  THEN "device_execution" ELSE "partial",
                       optrace |-> IF call.optrace THEN <<called, 0>> ELSE << >>]
           trace == [stamp |-> <<called, 0>>, ars |-> AllArs,
                     profiled |-> [i \in DOMAIN one |->
                        [binding |-> one[i].binding, steps |-> one[i].steps]]]
           traces == IF call.optrace
                     THEN Artifact(<<"optrace_evidence", 0>>, trace) ELSE << >>
<1>1. phase = "aggregate" /\ call.stage = "benchmark"
  BY Zenon DEF PublishLatencies
<1>2. CASE FailCall
  BY <1>1, <1>2, TrustRefuse
<1>3. CASE ~FailCall
  <2>1. EndCall(Over(Artifact(<<"latency_report", 0>>, latency), Over(traces, drafts)))
    BY <1>3, ZenonT(60) DEF PublishLatencies
  <2>2. ReportName = "latency_report"
    BY <1>1 DEF ReportName
  <2>3. /\ latency.results = one
        /\ latency.metric = "device_execution" =>
             \A i \in DOMAIN one : one[i].metric = "device_execution"
    OBVIOUS
  <2>4. DOMAIN one = DOMAIN spec.ars
    OBVIOUS
  <2>5. ASSUME NEW r \in Elements(one)
        PROVE  /\ TrueLatency(r)
               /\ latency.metric = "device_execution" => r.metric = "device_execution"
    <3>1. PICK i \in DOMAIN one :
            r = one[i] /\ r = drafts[<<"latency_report", spec.ars[i]>>].results[1]
      BY DEF Elements
    <3>2. /\ r \in Elements(drafts[<<"latency_report", spec.ars[i]>>].results)
          /\ TrueArtifact(<<"latency_report", spec.ars[i]>>,
                          drafts[<<"latency_report", spec.ars[i]>>])
      BY <1>1, <2>2, <2>4, <3>1, Gathered DEF TrustInv
    <3>3. TrueLatency(r)
      BY <3>2 DEF TrueArtifact
    <3> HIDE DEF latency, one
    <3> QED
      BY <2>3, <3>1, <3>3
  <2> HIDE DEF one, latency, trace
  <2>6. Trusted(Artifact(<<"latency_report", 0>>, latency))
    <3>1. TrueArtifact(<<"latency_report", 0>>, latency)
      BY <2>3, <2>5 DEF TrueArtifact
    <3> QED
      BY <3>1, TrustedOne
  <2>7. Trusted(traces)
    <3>1. "optrace_evidence" \notin OnReports
      BY DEF OnReports
    <3> QED
      BY <3>1, TrustedOther, TrustedNone
  <2> HIDE DEF traces
  <2>8. Trusted(Over(Artifact(<<"latency_report", 0>>, latency), Over(traces, drafts)))
    BY <2>6, <2>7, TrustedMerge DEF TrustInv
  <2> QED
    BY <1>1, <2>1, <2>8, TrustPublish
<1> QED
  BY <1>2, <1>3

LEMMA TrustBenchmark ==
    ASSUME ProgressInv, PlanInv, BuiltInv, RawInv, DiagnosesInv, ClaimsInv, TrustInv,
           UNCHANGED stageVars, BenchmarkNext
    PROVE  TrustInv'
<1>1. CASE BeginBenchmark
  <2>1. CASE RefuseCall
    BY <1>1, <2>1, TrustRefuse DEF BeginBenchmark
  <2> QED
    BY <1>1, <2>1, TrustStarts DEF BeginBenchmark
<1>2. CASE SelectBenchmark
  BY <1>2, TrustSelect
<1>3. CASE OpenContainer \/ OpenChain \/ OpenGraph
  BY <1>3, TrustOpen
<1>4. CASE Measure
  BY <1>4, TrustMeasure
<1>5. CASE Meter
  BY <1>5, TrustMeter
<1>6. CASE PublishLatency
  BY <1>6, TrustLatency
<1>7. CASE PublishLatencies
  BY <1>7, TrustLatencies DEF ProgressInv
<1> QED
  BY <1>1, <1>2, <1>3, <1>4, <1>5, <1>6, <1>7 DEF BenchmarkNext

-----------------------------------------------------------------------------
(* diagnose.                                                               *)

\* Every deviation that a published report shows is attributed.
LEMMA DeviationsFound ==
    ASSUME TrustInv, Published("sqnr_report"),
           NEW r \in Elements(shelf[<<"sqnr_report", 0>>].results),
           r.executed, Visible(r)
    PROVE  \E a \in Attributions : a[1] = r.ar
<1> PICK report : report = shelf[<<"sqnr_report", 0>>]
  OBVIOUS
<1>1. <<"sqnr_report", 0>> \in DOMAIN shelf /\ r \in Elements(report.results)
  BY DEF Published
<1>2. TrueArtifact(<<"sqnr_report", 0>>, report)
  BY <1>1 DEF TrustInv, Trusted
<1>3. TrueReport(r)
  BY <1>1, <1>2 DEF TrueArtifact
<1>4. PICK a : a \in BlocksOf(r)
  BY <1>3 DEF TrueReport
<1>5. a[1] = r.ar
  BY <1>4 DEF BlocksOf
<1>6. a \in Attributions
  <2>1. Attributions = UNION {BlocksOf(q) : q \in Elements(report.results)}
    BY DEF Attributions
  <2> QED
    BY <1>1, <1>4, <2>1
<1> QED
  BY <1>5, <1>6

\* A quality diagnosis is refused only if there is nothing to attribute, and
\* otherwise it publishes all there is.
LEMMA DiagnosisReaches ==
    ASSUME TrustInv,
           NEW how, End(how),
           \A n \in DOMAIN shelf' : n[1] \in OnReports =>
               n \in DOMAIN shelf /\ shelf'[n] = shelf[n],
           call.stage = "diagnose" /\ call.form = "automatic" /\ call.kind = "quality" =>
              /\ how = "refused" => Attributions = {}
              /\ how = "done" /\ Attributions # {} =>
                   shelf'[<<"quality_diagnosis", 0>>].attributions = Attributions
    PROVE  DivergenceReachesDiagnosis'
<1>1. ended'.call = call /\ ended'.how = how
  BY DEF End
<1> DEFINE results == IF Published("sqnr_report")
                      THEN Elements(shelf[<<"sqnr_report", 0>>].results) ELSE {}
<1>2. \A r \in results' : r \in results
  <2>1. <<"sqnr_report", 0>>[1] \in OnReports
    BY DEF OnReports
  <2>2. <<"sqnr_report", 0>> \in DOMAIN shelf' =>
          /\ <<"sqnr_report", 0>> \in DOMAIN shelf
          /\ shelf'[<<"sqnr_report", 0>>] = shelf[<<"sqnr_report", 0>>]
    BY <2>1
  <2> QED
    BY <2>2 DEF Published
<1>3. ASSUME QualityCall', NEW r \in results', r.executed, Visible(r)
      PROVE  /\ how # "refused"
             /\ how = "done" =>
                  \E a \in shelf'[<<"quality_diagnosis", 0>>].attributions : a[1] = r.ar
  <2>1. \E a \in Attributions : a[1] = r.ar
    <3>1. r \in results
      BY <1>2, <1>3
    <3>2. Published("sqnr_report") /\ r \in Elements(shelf[<<"sqnr_report", 0>>].results)
      BY <3>1
    <3> QED
      BY <1>3, <3>2, DeviationsFound
  <2>2. call.stage = "diagnose" /\ call.form = "automatic" /\ call.kind = "quality"
    BY <1>1, <1>3 DEF QualityCall
  <2> QED
    BY <2>1, <2>2
<1>4. \A r : Visible(r)' <=> Visible(r)
  BY DEF Visible
<1> HIDE DEF results
<1>5. \A ar \in {r.ar : r \in {q \in results' : q.executed /\ Visible(q)}} :
        QualityCall' =>
         /\ how # "refused"
         /\ how = "done" =>
              \E a \in shelf'[<<"quality_diagnosis", 0>>].attributions : a[1] = ar
  BY <1>3
<1> QED
  BY <1>1, <1>5 DEF DivergenceReachesDiagnosis, results

LEMMA TrustDiagnosed ==
    ASSUME TrustInv, NEW how, End(how),
           NEW artifacts, shelf' = Over(artifacts, shelf),
           \A n \in DOMAIN artifacts : n[1] \notin OnReports,
           call.form = "automatic" /\ call.kind = "quality" =>
              /\ how = "refused" => Attributions = {}
              /\ how = "done" /\ Attributions # {} =>
                   /\ <<"quality_diagnosis", 0>> \in DOMAIN artifacts
                   /\ artifacts[<<"quality_diagnosis", 0>>].attributions = Attributions
    PROVE  TrustInv'
<1>1. /\ DOMAIN shelf' = DOMAIN artifacts \cup DOMAIN shelf
      /\ \A n \in DOMAIN shelf' :
            shelf'[n] = IF n \in DOMAIN artifacts THEN artifacts[n] ELSE shelf[n]
  BY DEF Over
<1>2. \A n \in DOMAIN shelf' : n[1] \in OnReports =>
         n \in DOMAIN shelf /\ shelf'[n] = shelf[n]
  BY <1>1
<1>3. Trusted(shelf')
  <2>1. \A n \in DOMAIN artifacts : TrueArtifact(n, artifacts[n])
    BY DEF TrueArtifact, OnReports
  <2>2. Trusted(artifacts)
    BY <2>1 DEF Trusted
  <2> QED
    BY <2>2, TrustedMerge DEF TrustInv
<1>4. call.stage = "diagnose" /\ call.form = "automatic" /\ call.kind = "quality" =>
        /\ how = "refused" => Attributions = {}
        /\ how = "done" /\ Attributions # {} =>
             shelf'[<<"quality_diagnosis", 0>>].attributions = Attributions
  BY <1>1
<1>5. DivergenceReachesDiagnosis'
  BY <1>2, <1>4, DiagnosisReaches
<1> QED
  BY <1>3, <1>5, TrustEnd

\* A call that ends without having published anything.
LEMMA TrustUndiagnosed ==
    ASSUME TrustInv, NEW how, End(how), shelf' = shelf,
           call.form = "automatic" /\ call.kind = "quality" =>
              /\ how = "refused" => Attributions = {}
              /\ how # "done"
    PROVE  TrustInv'
<1>1. Trusted(shelf')
  BY DEF TrustInv
<1>2. DivergenceReachesDiagnosis'
  BY DiagnosisReaches
<1> QED
  BY <1>1, <1>2, TrustEnd

LEMMA TrustDiagnose ==
    ASSUME TrustInv, UNCHANGED stageVars, DiagnoseNext
    PROVE  TrustInv'
<1>1. CASE BeginDiagnose
  <2> PICK next : next = IF Automatic THEN "diagnose" ELSE "compare"
    OBVIOUS
  <2>1. Proceed(next, << >>)
    BY <1>1 DEF BeginDiagnose
  <2>2. Founded(next, << >>)
    BY DEF Founded, Examined, Benched
  <2> QED
    BY <2>1, <2>2, TrustProceed
<1>2. CASE CompareTraces
  <2>1. phase = "compare" /\ call.form # "automatic"
    BY <1>2 DEF CompareTraces, TrustInv, Automatic
  <2>2. CASE FailCall
    BY <2>1, <2>2, TrustUndiagnosed DEF FailCall
  <2>3. CASE ~FailCall
    <3> PICK kind : kind = IF Looks("quality") THEN "quality_diagnosis" ELSE "latency_diagnosis"
      OBVIOUS
    <3> PICK artifacts : artifacts = Artifact(<<kind, 0>>, [given |-> TRUE])
      OBVIOUS
    <3>1. End("done") /\ shelf' = Over(artifacts, shelf)
      BY <1>2, <2>3 DEF CompareTraces, EndCall
    <3>2. \A n \in DOMAIN artifacts : n[1] \notin OnReports
      BY DEF Artifact, OnReports
    <3> QED
      BY <2>1, <3>1, <3>2, TrustDiagnosed
  <2> QED
    BY <2>2, <2>3
<1>3. CASE Attribute
  <2>1. ASSUME call.kind = "quality"
        PROVE  ~LatencyFound /\ (QualityFound <=> Attributions # {})
    BY <2>1 DEF LatencyFound, QualityFound, Looks
  <2>2. CASE RefuseCall
    <3>1. ASSUME call.kind = "quality"
          PROVE  Attributions = {}
      <4>1. ~(FailCall \/ \E a : EndCall(a))
        BY <2>2 DEF RefuseCall, FailCall, EndCall, End
      <4> QED
        BY <1>3, <2>1, <3>1, <4>1 DEF Attribute
    <3> QED
      BY <2>2, <3>1, TrustUndiagnosed DEF RefuseCall
  <2>3. CASE FailCall
    BY <2>3, TrustUndiagnosed DEF FailCall
  <2>4. ASSUME NEW a, NEW b, NEW c,
               a = (IF QualityFound THEN Quality ELSE << >>),
               b = (IF LatencyFound THEN LatencyDiagnosis ELSE << >>),
               c = (IF QualityFound /\ LatencyFound
                    THEN Artifact(<<"automatic_diagnosis", 0>>, [given |-> FALSE])
                    ELSE << >>),
               EndCall(Over(a, Over(b, c)))
        PROVE  TrustInv'
    <3> PICK artifacts : artifacts = Over(a, Over(b, c))
      OBVIOUS
    <3>1. /\ DOMAIN artifacts = DOMAIN a \cup (DOMAIN b \cup DOMAIN c)
          /\ \A n \in DOMAIN a : artifacts[n] = a[n]
      BY DEF Over
    <3>2. /\ DOMAIN a \subseteq {<<"quality_diagnosis", 0>>}
          /\ DOMAIN b \subseteq {<<"latency_diagnosis", 0>>}
          /\ DOMAIN c \subseteq {<<"automatic_diagnosis", 0>>}
      <4>1. DOMAIN << >> = {}
        OBVIOUS
      <4> QED
        BY <2>4, <4>1 DEF Quality, LatencyDiagnosis, Artifact
    <3>3. \A n \in DOMAIN artifacts : n[1] \notin OnReports
      BY <3>1, <3>2 DEF OnReports
    <3>4. ASSUME call.kind = "quality", Attributions # {}
          PROVE  /\ <<"quality_diagnosis", 0>> \in DOMAIN artifacts
                 /\ artifacts[<<"quality_diagnosis", 0>>].attributions = Attributions
      <4>1. a = Quality
        BY <2>1, <2>4, <3>4
      <4>2. /\ <<"quality_diagnosis", 0>> \in DOMAIN a
            /\ a[<<"quality_diagnosis", 0>>].attributions = Attributions
        BY <4>1 DEF Quality, Artifact
      <4> QED
        BY <3>1, <4>2
    <3>5. End("done") /\ shelf' = Over(artifacts, shelf)
      BY <2>4 DEF EndCall
    <3> QED
      BY <3>3, <3>4, <3>5, TrustDiagnosed
  <2> QED
    BY <1>3, <2>2, <2>3, <2>4 DEF Attribute
<1> QED
  BY <1>1, <1>2, <1>3 DEF DiagnoseNext

-----------------------------------------------------------------------------
(* The other steps.                                                        *)

\* A tool publishes under its own name.
LEMMA TrustTools ==
    ASSUME DiagnosesInv, TrustInv, ToolNext
    PROVE  TrustInv'
<1>1. /\ phase = "called" /\ call.stage = "tool"
  BY DEF ToolNext, ToolStep, PrepareVectors, ConvertAr, TransformModel, ConvertModel,
         CompileModels, RunGraph, RunChain, Uses
<1>2. call \in Calls
  BY <1>1 DEF DiagnosesInv, CallsInv, IdleInv
<1>3. call.tool \notin OnReports
  BY <1>1, <1>2, ToolAssumption DEF ToolNames, OnReports
<1>4. CASE RefuseCall \/ FailCall
  BY <1>1, <1>4, TrustRefuse
<1>5. ASSUME NEW artifact, EndCall(Artifact(<<call.tool, 0>>, artifact))
      PROVE  TrustInv'
  BY <1>1, <1>3, <1>5, TrustedOther, TrustPublish
<1>6. ASSUME NEW accepted, NEW artifact, Tool(accepted, artifact)
      PROVE  TrustInv'
  BY <1>4, <1>5, <1>6 DEF Tool
<1>7. CASE PrepareVectors \/ ConvertAr \/ TransformModel \/ ConvertModel
  BY <1>6, <1>7 DEF PrepareVectors, ConvertAr, TransformModel, ConvertModel
<1>8. CASE CompileModels
  BY <1>4, <1>5, <1>8 DEF CompileModels
<1>9. CASE RunGraph
  BY <1>6, <1>9 DEF RunGraph
<1>10. CASE RunChain
  BY <1>6, <1>10 DEF RunChain
<1> QED
  BY <1>7, <1>8, <1>9, <1>10 DEF ToolNext, ToolStep

LEMMA TrustCall ==
    ASSUME TrustInv, CallStage
    PROVE  TrustInv'
<1>1. phase' = "called" /\ UNCHANGED <<drafts, shelf, ended>>
  BY DEF CallStage
<1>2. Trusted(shelf)' /\ Trusted(drafts)'
  BY <1>1 DEF TrustInv
<1>3. \A p, w : p = phase' /\ w = work' => Founded(p, w)'
  BY <1>1 DEF Founded, Examined, Benched
<1>4. DivergenceReachesDiagnosis'
  BY <1>1 DEF TrustInv, DivergenceReachesDiagnosis, QualityCall, Published
<1> QED
  BY <1>1, <1>2, <1>3, <1>4 DEF TrustInv

\* A build is over before the first call.
LEMMA TrustBuild ==
    ASSUME InLoops, DiagnosesInv, TrustInv, BuildStep, UNCHANGED callVars
    PROVE  TrustInv'
<1>1. pc # "succeeded"
  BY StepsBeforeSuccess
<1>2. phase = "idle" /\ UNCHANGED <<phase, drafts, shelf, ended>>
  BY <1>1 DEF DiagnosesInv, CallsInv, IdleInv, callVars
<1>3. Trusted(shelf)' /\ Trusted(drafts)'
  BY <1>2 DEF TrustInv
<1>4. \A p, w : p = phase' /\ w = work' => Founded(p, w)'
  BY <1>2 DEF Founded, Examined, Benched
<1>5. DivergenceReachesDiagnosis'
  BY <1>2 DEF TrustInv, DivergenceReachesDiagnosis, QualityCall, Published
<1> QED
  BY <1>2, <1>3, <1>4, <1>5 DEF TrustInv

LEMMA TrustStutter ==
    ASSUME TrustInv, UNCHANGED stagesVars
    PROVE  TrustInv'
<1>1. UNCHANGED stageVars /\ UNCHANGED <<call, phase, work, drafts, shelf, ended>>
  BY DEF stagesVars, callVars
<1> QED
  BY <1>1, TrustGoesOn DEF TrustInv

LEMMA TrustStep ==
    ASSUME ProgressInv, PlanInv, BuiltInv, RawInv, DiagnosesInv, ClaimsInv, TrustInv,
           [StagesNext]_stagesVars
    PROVE  TrustInv'
<1>0. InLoops
  BY DEF ProgressInv
<1>1. CASE UNCHANGED stagesVars
  BY <1>1, TrustStutter
<1>2. CASE BuildStep /\ UNCHANGED <<callVars, held>>
  BY <1>0, <1>2, TrustBuild
<1>3. CASE ToolNext /\ UNCHANGED held
  BY <1>3, TrustTools
<1>4. CASE UNCHANGED stageVars /\ CallStage /\ UNCHANGED held
  BY <1>4, TrustCall
<1>5. CASE UNCHANGED stageVars /\ ValidateNext /\ UNCHANGED held
  BY <1>5, TrustValidate
<1>6. CASE UNCHANGED stageVars /\ BenchmarkNext
  BY <1>6, TrustBenchmark
<1>7. CASE UNCHANGED stageVars /\ DiagnoseNext
  BY <1>7, TrustDiagnose
<1> QED
  BY <1>1, <1>2, <1>3, <1>4, <1>5, <1>6, <1>7 DEF StagesNext

\* All that is known of a build and of the calls on it.
KnownInv ==
    /\ ProgressInv /\ LiveInv /\ PlanInv /\ BuiltInv /\ RawInv
    /\ DiagnosesInv /\ ClaimsInv /\ TrustInv

LEMMA KnownInit == StagesInit => KnownInv
  BY ProgressInit, LiveInit, PlanInit, BuiltInit, RawInit, DiagnosesInit, ClaimsInit,
     TrustInit DEF KnownInv

LEMMA KnownStep == KnownInv /\ [StagesNext]_stagesVars => KnownInv'
<1> SUFFICES ASSUME KnownInv, [StagesNext]_stagesVars
             PROVE  KnownInv'
  OBVIOUS
<1>1. /\ ProgressInv /\ LiveInv /\ PlanInv /\ BuiltInv /\ RawInv
      /\ DiagnosesInv /\ ClaimsInv /\ TrustInv
  BY DEF KnownInv
<1>2. ProgressInv' /\ LiveInv' /\ PlanInv' /\ BuiltInv' /\ RawInv'
  BY <1>1, ProgressStep, LiveStep, PlanStep, BuiltStep, RawStep
<1>3. DiagnosesInv' /\ ClaimsInv' /\ TrustInv'
  BY <1>1, DiagnosesStep, ClaimsStep, TrustStep
<1> QED
  BY <1>2, <1>3 DEF KnownInv

\* What a quality report attributes to slices is so for any model, wiring of slices
\* and set of slices that deviate: the teacher-forced mode of validate blames exactly
\* the slices that deviate, the chain and the full reference exactly those that a
\* deviation reaches, through the slices that the runner has fed from each other, and
\* a layer-level comparison is about tensors that were tapped in every slice.
THEOREM AttributionsTrue ==
    ASSUME LayersOfChains
    PROVE  StagesSpec => []AttributionTrue
<1>1. KnownInv => AttributionTrue
  BY TrustSuffices DEF KnownInv
<1> QED
  BY <1>1, KnownInit, KnownStep, PTL DEF StagesSpec

\* A latency that benchmark reports as device time is that of every slice in every
\* step, each profiled with inputs that come from where the undivided model has them
\* from: for every wiring, number of steps and number of times that it is executed.
THEOREM LatenciesTrue == StagesSpec => []LatencyMetricTrue
<1>1. KnownInv => LatencyMetricTrue
  BY TrustSuffices DEF KnownInv
<1> QED
  BY <1>1, KnownInit, KnownStep, PTL DEF StagesSpec

\* An automatic quality diagnosis attributes every deviation that can be seen in the
\* last report of validate, of each AR of an aggregate, and is refused only if there
\* is none: whatever was executed, compared and published before.
THEOREM DivergencesReach == StagesSpec => []DivergenceReachesDiagnosis
<1>1. KnownInv => DivergenceReachesDiagnosis
  BY TrustSuffices DEF KnownInv
<1> QED
  BY <1>1, KnownInit, KnownStep, PTL DEF StagesSpec

-----------------------------------------------------------------------------
(* When a chain has all that it needs.                                     *)

\* What slice k needs is there: a golden that is forced upon it, the native state
\* or a tensor that the run begins with, or the output of a slice before it.
Fed(runner, s, begun, k) ==
    \A t \in runner.routes[k].inputs :
        \/ t \in DOMAIN Golden(runner, runner.routes[k], s.goldens)
        \/ /\ runner.mode # "teacher_forced"
           /\ IF t.state THEN StateSlot(t) \in DOMAIN begun.state
              ELSE \/ t \in DOMAIN begun.available
                   \/ \E j \in 1 .. k - 1 : t \in runner.routes[j].outputs

\* What a run has after slice i of what it began with and of what was computed.
Keeps(runner, begun, run, i) ==
    /\ RunOf(run) /\ ~run.failed /\ run.ar = begun.ar
    /\ DOMAIN begun.state \subseteq DOMAIN run.state
    /\ DOMAIN begun.available \subseteq DOMAIN run.available
    /\ \A j \in 1 .. i : runner.routes[j].outputs \subseteq DOMAIN run.available

LEMMA FedRuns ==
    ASSUME NEW runner, NEW s, NEW begun, RunOf(begun), ~begun.failed,
           NEW n \in Nat, n = Len(runner.routes),
           \A k \in 1 .. n : begun.ar \in runner.routes[k].ars /\ Fed(runner, s, begun, k)
    PROVE  ~AfterSlices(runner, s, begun)[n].failed
<1> PICK rs : rs = AfterSlices(runner, s, begun)
  OBVIOUS
<1>1. /\ rs[0] = begun
      /\ \A i \in 1 .. n :
           rs[i] = RunSlice(runner, runner.routes[i], s.goldens, rs[i - 1])
  BY SlicesFollow
<1> DEFINE S == {i \in 0 .. n : Keeps(runner, begun, rs[i], i)}
<1>2. 0 \in S
  BY <1>1 DEF Keeps
<1>3. ASSUME NEW i \in 1 .. n, i - 1 \in S
      PROVE  i \in S
  <2> PICK route : route = runner.routes[i]
    OBVIOUS
  <2> PICK run : run = rs[i - 1]
    OBVIOUS
  <2> PICK next : next = rs[i]
    OBVIOUS
  <2> DEFINE golden == Golden(runner, route, s.goldens)
             done == Invocation(runner, route, golden, run)
  <2>1. Keeps(runner, begun, run, i - 1)
    BY <1>3
  <2>2. next = RunSlice(runner, route, s.goldens, run)
    BY <1>1
  <2>3. RunsTo(runner, route, s.goldens, run, done, next)
    BY <2>1, <2>2, SliceRuns DEF Keeps
  <2>4. Invoked(runner, route, golden, run, done)
    BY InvocationOf
  <2> HIDE DEF done, S
  <2>5. ~run.failed /\ run.ar \in route.ars
    BY <2>1 DEF Keeps
  <2>6. Missing(route, runner.mode, golden, run) = {}
    <3>1. ASSUME NEW t \in route.inputs, t \notin DOMAIN golden
          PROVE  /\ runner.mode # "teacher_forced"
                 /\ IF t.state THEN StateSlot(t) \in DOMAIN run.state
                    ELSE t \in DOMAIN run.available
      <4>1. /\ runner.mode # "teacher_forced"
            /\ IF t.state THEN StateSlot(t) \in DOMAIN begun.state
               ELSE \/ t \in DOMAIN begun.available
                    \/ \E j \in 1 .. i - 1 : t \in runner.routes[j].outputs
        BY <3>1 DEF Fed
      <4> QED
        BY <2>1, <4>1 DEF Keeps
    <3> HIDE DEF golden
    <3> QED
      BY <3>1 DEF Missing
  <2>7. /\ ~next.failed /\ RunOf(next) /\ next.ar = run.ar
        /\ next.available = Over(done.outputs, run.available)
        /\ next.state = Over(done.state, run.state)
    <3> HIDE DEF golden
    <3>1. Missing(route, runner.mode, Golden(runner, route, s.goldens), run) = {}
      BY <2>6 DEF golden
    <3> QED
      BY <2>3, <2>5, <3>1 DEF RunsTo
  <2>8. DOMAIN done.outputs = route.outputs
    <3> DEFINE value == Value(route.slice, run.step, Noise(runner, route, done.inputs))
    <3>1. done.outputs = [t \in route.outputs |-> value]
      BY <2>4, Zenon DEF Invoked
    <3> HIDE DEF value
    <3> QED
      BY <3>1
  <2>9. /\ DOMAIN next.available = route.outputs \cup DOMAIN run.available
        /\ DOMAIN run.state \subseteq DOMAIN next.state
    <3>1. Overlaid(next.available, done.outputs, run.available)
      BY <2>7, OverOf
    <3>2. Overlaid(next.state, done.state, run.state)
      BY <2>7, OverOf
    <3> QED
      BY <2>8, <3>1, <3>2 DEF Overlaid
  <2>10. \A j \in 1 .. i : runner.routes[j].outputs \subseteq DOMAIN next.available
    <3> TAKE j \in 1 .. i
    <3>1. j = i \/ j \in 1 .. i - 1
      OBVIOUS
    <3>2. j \in 1 .. i - 1 => runner.routes[j].outputs \subseteq DOMAIN run.available
      BY <2>1 DEF Keeps
    <3> QED
      BY <2>9, <3>1, <3>2
  <2>11. Keeps(runner, begun, next, i)
    BY <2>1, <2>7, <2>9, <2>10 DEF Keeps
  <2> QED
    BY <2>11 DEF S
<1> HIDE DEF S
<1>4. \A i \in 1 .. n : i - 1 \in S => i \in S
  BY <1>3
<1>5. 0 .. n \subseteq S
  BY <1>2, <1>4, Positions
<1>6. n \in 0 .. n
  OBVIOUS
<1> QED
  BY <1>5, <1>6 DEF S, Keeps

-----------------------------------------------------------------------------
(* What a published build is validated with.                               *)

\* A build whose vectors have been accepted, with goldens of the model's outputs.
Sought == Validatable /\ \A ar \in AllArs : vectors[ar].goldens = "logits"

\* The whole model, for one AR and the default context length.
Complete(b) ==
    /\ b.ar \in AllArs /\ b.cl = spec.cls[1] /\ b.component = Text
    /\ SlicesIn(b) = Range(Slices)
    /\ \A k \in DOMAIN b.routes : b.routes[k].ars = AllArs
    /\ b.routes[Len(b.routes)].slice = Slices[Len(Slices)]

\* The last slice of the model comes last.
LEMMA LastRoute ==
    ASSUME ProgressInv, LiveInv, PlanInv, BuiltInv, Indexed, NEW i \in DOMAIN spec.cls,
           NEW routes, routes = SliceRoutes(InOrder(Contexts), spec.cls[i]),
           Planned = Range(Slices)
    PROVE  /\ \A k \in DOMAIN routes : routes[k].ars = AllArs
           /\ {r.slice : r \in Elements(routes)} = Range(Slices)
           /\ routes[Len(routes)].slice = Slices[Len(Slices)]
<1>1. /\ routes \in Seq(RouteOf) /\ Len(routes) > 0
      /\ {r.slice : r \in Elements(routes)} = Planned
      /\ \A k \in DOMAIN routes : routes[k].ars = AllArs
  BY RoutesOf
<1>0. \A k, l \in DOMAIN routes : k < l =>
        \E a, b \in DOMAIN Slices :
           a < b /\ Slices[a] = routes[k].slice /\ Slices[b] = routes[l].slice
  BY RoutesOf
<1>2. /\ Len(Slices) \in Nat \ {0} /\ DOMAIN Slices = 1 .. Len(Slices)
      /\ Slices[Len(Slices)] \in Range(Slices)
  BY SlicesSeq
<1>3. PICK k \in DOMAIN routes : routes[k].slice = Slices[Len(Slices)]
  BY <1>1, <1>2 DEF Elements
<1>4. Len(routes) \in DOMAIN routes /\ DOMAIN routes = 1 .. Len(routes)
  BY <1>1
<1>5. CASE k < Len(routes)
  <2>1. PICK a, b \in DOMAIN Slices : a < b /\ Slices[a] = Slices[Len(Slices)]
    BY <1>0, <1>3, <1>4, <1>5
  <2>2. a = Len(Slices)
    BY <1>2, <2>1, SliceAssumption DEF IsInjective
  <2> QED
    BY <1>2, <2>1, <2>2
<1> QED
  BY <1>1, <1>3, <1>4, <1>5

LEMMA CompleteSelected ==
    ASSUME ProgressInv, LiveInv, PlanInv, BuiltInv, pc = "succeeded", Sought,
           NEW ar \in AllArs, NEW b, b = SelectBinding(index, ar, spec.cls[1], Text)
    PROVE  /\ b # NotSelectable /\ Complete(b)
           /\ index.lane = "low_level" /\ index.vectors = vectors
           /\ index.default = Default /\ index.slice_models = Result.slice_models
<1>1. Indexed /\ ~spec.boundary /\ 1 \in DOMAIN spec.cls
  <2>1. spec.cls \in Seq(Nat \ {0}) /\ spec.cls # << >>
    BY SpecAssumption DEF ProgressInv, InLoops
  <2> QED
    BY <2>1 DEF Indexed, Sought, Validatable
<1> PICK routes : routes = SliceRoutes(InOrder(Contexts), spec.cls[1])
  OBVIOUS
<1>2. /\ b # NotSelectable
      /\ b = [scope |-> ScopeOf(routes), routes |-> routes, ar |-> ar,
              cl |-> spec.cls[1], component |-> Text]
      /\ index.lane = "low_level" /\ index.vectors = vectors
      /\ index.default = Default /\ index.slice_models = Result.slice_models
  BY <1>1, WholeSelected
<1>3. /\ b.routes = routes /\ b.ar = ar /\ b.cl = spec.cls[1] /\ b.component = Text
  BY <1>2
<1>4. Planned = Range(Slices)
  BY <1>1 DEF Planned, Unplanned
<1>5. /\ \A k \in DOMAIN routes : routes[k].ars = AllArs
      /\ {r.slice : r \in Elements(routes)} = Range(Slices)
      /\ routes[Len(routes)].slice = Slices[Len(Slices)]
  BY <1>1, <1>4, LastRoute
<1> QED
  BY <1>2, <1>3, <1>5 DEF Complete, SlicesIn

\* Each AR has a vector of its own.
LEMMA SoughtVectors ==
    ASSUME BuiltInv, pc = "succeeded", Sought, NEW ar \in AllArs
    PROVE  /\ ar \in DOMAIN vectors /\ vectors[ar] # NoManifest
           /\ vectors[ar].ar = ar /\ vectors[ar].goldens = "logits"
<1>1. DOMAIN vectors = AllArs /\ spec.lane = "low_level" /\ vectors[ar].goldens = "logits"
  BY DEF Sought, Validatable
<1>2. vectors = BoundVectors /\ VectorOf(ar) # NoManifest
  BY <1>1 DEF BuiltInv, VectorsBound
<1>3. vectors[ar] = VectorOf(ar)
  BY <1>2 DEF BoundVectors
<1>4. VectorOf(ar).ar = ar
  BY <1>2 DEF VectorOf, Provided, Retargeted, Vector
<1> QED
  BY <1>1, <1>2, <1>3, <1>4

\* Whatever a slice takes is in the vector or comes from a slice before it.
LEMMA Supplied ==
    ASSUME spec.lane = "low_level", NEW b, NEW n, Proper(b.routes, n), Complete(b),
           NEW k \in 1 .. n, NEW t \in b.routes[k].inputs
    PROVE  IF t.state THEN StateSlot(t) \in DOMAIN StateFromVector(b.routes, VectorInputs)
           ELSE t \in DOMAIN VectorInputs \/ \E j \in 1 .. k - 1 : t \in b.routes[j].outputs
<1>1. /\ n \in Nat \ {0} /\ DOMAIN b.routes = 1 .. n
      /\ \A i \in 1 .. n : /\ b.routes[i].inputs = Inputs[b.routes[i].slice]
                           /\ b.routes[i].outputs = Outputs[b.routes[i].slice]
      /\ \A i, j \in 1 .. n :
           \A u \in b.routes[i].outputs \cap b.routes[j].inputs : u.state \/ i < j
  BY DEF Proper, Linked
<1>2. /\ \A i \in 1 .. n : b.routes[i].slice \in Range(Slices)
      /\ \A s \in Range(Slices) : \E i \in 1 .. n : b.routes[i].slice = s
  BY <1>1 DEF Complete, SlicesIn, Elements
<1> DEFINE all == UNION {Inputs[s] : s \in ModelSlices}
<1>3. /\ ModelInputs = {u \in all : u.state \/ \A s \in ModelSlices : u \notin Outputs[s]}
      /\ ModelSlices = Range(Slices) /\ DOMAIN VectorInputs = ModelInputs
  BY DEF ModelInputs, ModelSlices, VectorInputs, Given
<1>4. t \in all
  BY <1>1, <1>2, <1>3
<1> HIDE DEF all
<1>5. CASE t.state
  <2> DEFINE found == {u \in UNION {r.inputs : r \in Elements(b.routes)} :
                         u.state /\ u \in DOMAIN VectorInputs}
  <2>1. StateFromVector(b.routes, VectorInputs)
          = [x \in {StateSlot(u) : u \in found} |->
               VectorInputs[CHOOSE u \in found : StateSlot(u) = x]]
    BY Zenon DEF StateFromVector
  <2>2. t \in found
    <3>1. t \in DOMAIN VectorInputs
      BY <1>3, <1>4, <1>5
    <3>2. b.routes[k] \in Elements(b.routes)
      BY <1>1 DEF Elements
    <3> QED
      BY <1>5, <3>1, <3>2
  <2> HIDE DEF found
  <2> QED
    BY <1>5, <2>1, <2>2
<1>6. CASE ~t.state
  <2>1. CASE \A s \in ModelSlices : t \notin Outputs[s]
    BY <1>3, <1>4, <1>6, <2>1
  <2>2. ASSUME NEW s \in ModelSlices, t \in Outputs[s]
        PROVE  \E j \in 1 .. k - 1 : t \in b.routes[j].outputs
    <3>1. PICK j \in 1 .. n : b.routes[j].slice = s
      BY <1>2, <1>3
    <3>2. t \in b.routes[j].outputs
      BY <1>1, <2>2, <3>1
    <3>3. j < k
      BY <1>1, <1>6, <3>2
    <3> QED
      BY <3>2, <3>3
  <2> QED
    BY <1>6, <2>1, <2>2
<1> QED
  BY <1>5, <1>6

\* So the device executes all of them.
LEMMA DeviceRuns ==
    ASSUME InLoops, spec.lane = "low_level", NEW b, NEW n, Proper(b.routes, n), Complete(b),
           NEW noisy
    PROVE  ~RunRoutes(b, "device_chain", noisy, << >>).failed
<1>1. PICK runner, s, begun : OneStepOf(b, "device_chain", noisy, << >>, n, runner, s, begun)
  BY OneBegins
<1>2. /\ runner.routes = b.routes /\ runner.mode = "device_chain"
      /\ RunRoutes(b, "device_chain", noisy, << >>) = AfterSlices(runner, s, begun)[n]
      /\ RunOf(begun) /\ ~begun.failed /\ begun.ar = ExecutedAr(b)
      /\ begun.available = VectorInputs
      /\ begun.state = StateFromVector(b.routes, VectorInputs)
  BY <1>1 DEF OneStepOf
<1>3. /\ n \in Nat /\ n = Len(b.routes) /\ DOMAIN b.routes = 1 .. n
  BY DEF Proper
<1>4. ExecutedAr(b) = b.ar /\ b.ar \in AllArs
  BY Configured DEF ExecutedAr, Complete
<1>5. ASSUME NEW k \in 1 .. n
      PROVE  begun.ar \in runner.routes[k].ars /\ Fed(runner, s, begun, k)
  <2>1. begun.ar \in runner.routes[k].ars
    BY <1>2, <1>3, <1>4 DEF Complete
  <2>2. ASSUME NEW t \in b.routes[k].inputs
        PROVE  IF t.state THEN StateSlot(t) \in DOMAIN begun.state
               ELSE \/ t \in DOMAIN begun.available
                    \/ \E j \in 1 .. k - 1 : t \in b.routes[j].outputs
    BY <1>2, Supplied
  <2> QED
    BY <1>2, <2>1, <2>2 DEF Fed
<1>6. n = Len(runner.routes)
  BY <1>2, <1>3
<1>7. ~AfterSlices(runner, s, begun)[n].failed
  BY <1>2, <1>3, <1>5, <1>6, FedRuns
<1> QED
  BY <1>2, <1>7

\* Goldens for all that the slices take.
Forces(b, goldens) ==
    \A k \in DOMAIN b.routes :
        /\ b.routes[k].slice \in DOMAIN goldens
        /\ b.routes[k].inputs \subseteq DOMAIN goldens[b.routes[k].slice]

\* With them the device executes each slice by itself.
LEMMA TaughtRuns ==
    ASSUME InLoops, NEW b, NEW n, Proper(b.routes, n), Complete(b),
           NEW noisy, NEW goldens, Forces(b, goldens)
    PROVE  ~RunRoutes(b, "teacher_forced", noisy, goldens).failed
<1>1. PICK runner, s, begun : OneStepOf(b, "teacher_forced", noisy, goldens, n, runner, s, begun)
  BY OneBegins
<1>2. /\ runner.routes = b.routes /\ runner.mode = "teacher_forced" /\ s.goldens = goldens
      /\ RunRoutes(b, "teacher_forced", noisy, goldens) = AfterSlices(runner, s, begun)[n]
      /\ RunOf(begun) /\ ~begun.failed /\ begun.ar = ExecutedAr(b)
  BY <1>1 DEF OneStepOf
<1>3. /\ n \in Nat /\ n = Len(b.routes) /\ DOMAIN b.routes = 1 .. n
  BY DEF Proper
<1>4. ExecutedAr(b) = b.ar /\ b.ar \in AllArs
  BY Configured DEF ExecutedAr, Complete
<1>5. ASSUME NEW k \in 1 .. n
      PROVE  begun.ar \in runner.routes[k].ars /\ Fed(runner, s, begun, k)
  <2>1. begun.ar \in runner.routes[k].ars
    BY <1>2, <1>3, <1>4 DEF Complete
  <2>2. b.routes[k].slice \in DOMAIN goldens
        /\ b.routes[k].inputs \subseteq DOMAIN goldens[b.routes[k].slice]
    BY <1>3 DEF Forces
  <2>3. Golden(runner, b.routes[k], goldens) = goldens[b.routes[k].slice]
    BY <1>2, <2>2 DEF Golden
  <2> QED
    BY <1>2, <2>1, <2>2, <2>3 DEF Fed
<1>6. n = Len(runner.routes)
  BY <1>2, <1>3
<1>7. ~AfterSlices(runner, s, begun)[n].failed
  BY <1>2, <1>3, <1>5, <1>6, FedRuns
<1> QED
  BY <1>2, <1>7

\* The goldens of a reference execution are such.
LEMMA GoldensWhole ==
    ASSUME call.goldens # "all", NEW b, NEW n, Proper(b.routes, n), ~ReferenceRun(b).failed
    PROVE  Forces(b, GoldenInputs(b))
<1>1. PICK run : run = RunRoutes(b, "device_chain", {}, << >>)
  OBVIOUS
<1>2. ~run.failed /\ ReferenceRun(b) = run
  BY <1>1 DEF ReferenceRun
<1>3. PICK runner : runner = [routes |-> b.routes, mode |-> "device_chain", noisy |-> {}]
  OBVIOUS
<1>4. PICK s : s = [ar |-> ExecutedAr(b), inputs |-> VectorInputs, goldens |-> << >>]
  OBVIOUS
<1>5. PICK e : Alone(runner, s, run, n, e)
  BY <1>1, <1>2, <1>3, <1>4, OneRun
<1>6. runner.routes = b.routes
  BY <1>3
<1>7. Proper(runner.routes, n)
  BY <1>6
<1>8. Returned(b.routes, run, n, e)
  BY <1>5, <1>6, <1>7, AloneReturns
<1> DEFINE S == {x.slice : x \in Elements(run.executions)}
           of(z) == (CHOOSE x \in Elements(run.executions) : x.slice = z)
<1>9. GoldenInputs(b) = [z \in S |-> of(z).inputs]
  <2>1. GoldenInputs(b)
          = [z \in {x.slice : x \in Elements(ReferenceRun(b).executions)} |->
              (CHOOSE x \in Elements(ReferenceRun(b).executions) : x.slice = z).inputs]
    BY DEF GoldenInputs
  <2> QED
    BY <1>2, <2>1
<1>10. /\ S = {b.routes[i].slice : i \in 1 .. n}
       /\ \A i \in 1 .. n : of(b.routes[i].slice) = e[i]
       /\ \A i \in 1 .. n : DOMAIN e[i].inputs = b.routes[i].inputs
  BY <1>8, Zenon DEF Returned
<1>11. DOMAIN b.routes = 1 .. n
  BY DEF Proper
<1> HIDE DEF S, of
<1> QED
  BY <1>9, <1>10, <1>11 DEF Forces

\* The transformed models of all slices are there to capture them with.
LEMMA CompleteModels ==
    ASSUME InLoops, PlanInv, BuiltInv, pc = "succeeded", spec.lane = "low_level",
           NEW b, Complete(b)
    PROVE  HasSliceModels(b)
<1>1. index = MakeIndex(Result, Default, vectors, spec.base)
  BY DEF BuiltInv, IndexMade
<1>2. index.slice_models = {<<a.cl, ar, a.slice>> :
           a \in {d \in made : d.kind = "transformed"}, ar \in AllArs}
  BY <1>1 DEF MakeIndex, Result
<1>3. b.cl = spec.cls[1] /\ b.cl # 0 /\ 1 \in DOMAIN spec.cls
  <2>1. spec.cls \in Seq(Nat \ {0}) /\ spec.cls # << >>
    BY SpecAssumption DEF InLoops
  <2> QED
    BY <2>1 DEF Complete
<1>4. ASSUME NEW r \in Elements(b.routes)
      PROVE  <<b.cl, b.ar, r.slice>> \in index.slice_models
  <2>1. r.slice \in Range(Slices) /\ b.ar \in AllArs
    BY DEF Complete, SlicesIn
  <2>2. Looped(1)
    BY DEF Looped, Finished
  <2>3. PICK a \in made : a.kind = "transformed" /\ a.cl = spec.cls[1] /\ a.slice = r.slice
    BY <1>3, <2>1, <2>2 DEF BuiltInv, ModelsTransformed
  <2>4. <<a.cl, b.ar, a.slice>> \in index.slice_models
    BY <1>2, <2>1, <2>3
  <2> QED
    BY <1>3, <2>3, <2>4
<1> QED
  BY <1>3, <1>4 DEF HasSliceModels

\* What the undivided model returns besides its state.
Logits == {t \in ModelOutputs : ~t.state}

\* It comes from the last slice.
LEMMA LogitsLast ==
    ASSUME spec.lane = "low_level", NEW b, NEW n, Proper(b.routes, n), Complete(b)
    PROVE  Logits \subseteq b.routes[n].outputs
<1> SUFFICES ASSUME NEW t \in Logits
             PROVE  t \in b.routes[n].outputs
  OBVIOUS
<1> DEFINE all == UNION {Outputs[s] : s \in ModelSlices}
<1>1. /\ ModelOutputs = {u \in all : u.state \/ \A s \in ModelSlices : u \notin Inputs[s]}
      /\ ModelSlices = Range(Slices)
  BY DEF ModelOutputs, ModelSlices
<1>2. ~t.state /\ t \in all /\ \A s \in Range(Slices) : t \notin Inputs[s]
  BY <1>1 DEF Logits
<1>3. PICK s \in Range(Slices) : t \in Outputs[s]
  BY <1>1, <1>2
<1> HIDE DEF all
<1>4. PICK i \in DOMAIN Slices : s = Slices[i]
  BY SlicesSeq
<1>5. i = Len(Slices)
  BY <1>2, <1>3, <1>4, WiringAssumption
<1>6. /\ n \in 1 .. n /\ n = Len(b.routes)
      /\ b.routes[n].outputs = Outputs[b.routes[n].slice]
  BY DEF Proper, Linked
<1>7. b.routes[n].slice = s
  BY <1>4, <1>5, <1>6 DEF Complete
<1> QED
  BY <1>3, <1>6, <1>7

-----------------------------------------------------------------------------
(* A validation of a published build.                                      *)

\* What the device has returned can be compared with goldens of it.
LEMMA EndCompares ==
    ASSUME NEW routes, NEW n, NEW tree, NEW D, AtEnd(routes, n, tree, D),
           NEW M, M \subseteq routes[n].outputs
    PROVE  Comparable(Whole(M), tree)
<1>1. DOMAIN Whole(M) = {"model"} /\ Whole(M)["model"] = M
  BY DEF Whole
<1>2. DOMAIN tree = {"model"} /\ DOMAIN tree["model"] = routes[n].outputs
  BY DEF AtEnd
<1> QED
  BY <1>1, <1>2 DEF Comparable

LEMMA SlicesCompare ==
    ASSUME NEW b, NEW n, Proper(b.routes, n), NEW tree, NEW D,
           OfSlices(b.routes, n, tree, D)
    PROVE  Comparable(SliceGoldens(b), tree)
<1>1. /\ DOMAIN SliceGoldens(b) = SlicesOf(b.routes, n)
      /\ \A i \in 1 .. n : SliceGoldens(b)[b.routes[i].slice] = b.routes[i].outputs
  BY SliceGoldensOf
<1>2. /\ DOMAIN tree = SlicesOf(b.routes, n)
      /\ \A i \in 1 .. n : DOMAIN tree[b.routes[i].slice] = b.routes[i].outputs
  BY DEF OfSlices, SlicesOf
<1>3. \A x \in SlicesOf(b.routes, n) : \E i \in 1 .. n : x = b.routes[i].slice
  BY DEF SlicesOf
<1> QED
  BY <1>1, <1>2, <1>3 DEF Comparable

\* Each mode that is requested has been executed.
Shows(w) ==
    /\ Requested("full_reference") => w.device # NoTree
    /\ Requested("teacher_forced") => w.teacher # NoTree
    /\ Requested("chain") => w.chain # NoTree

LEMMA CompleteReportable ==
    ASSUME call.form # "outputs", call.modes \subseteq Modes, spec.lane = "low_level",
           Referred(work), NEW n, Displays(work, n), Complete(work.binding),
           work.model = Whole(Logits), Shows(work)
    PROVE  Reportable
<1> PICK b : b = work.binding
  OBVIOUS
<1> PICK S : S = SlicesOf(b.routes, n)
  OBVIOUS
<1> PICK D : D = Reached(work.noisy, S)
  OBVIOUS
<1>1. /\ Proper(b.routes, n)
      /\ work.device # NoTree => AtEnd(b.routes, n, work.device, D)
      /\ work.chain # NoTree =>
           /\ RunsModes => Requested("chain")
           /\ IF IsChain(b) /\ RunsModes THEN OfSlices(b.routes, n, work.chain, D)
              ELSE AtEnd(b.routes, n, work.chain, D)
      /\ work.teacher # NoTree =>
           /\ Requested("teacher_forced")
           /\ IF IsChain(b) THEN OfSlices(b.routes, n, work.teacher, work.noisy \cap S)
              ELSE AtEnd(b.routes, n, work.teacher, D)
  BY DEF Displays
<1>2. work.slices = IF PerSlice /\ IsChain(b) THEN SliceGoldens(b) ELSE Whole(Logits)
  BY DEF Referred
<1>3. Logits \subseteq b.routes[n].outputs
  BY <1>1, LogitsLast
<1>4. /\ Requested("teacher_forced") => PerSlice
      /\ PerSlice => RunsModes
      /\ RunsModes /\ Requested("chain") => PerSlice
  BY DEF PerSlice, RunsModes, Requested
<1>5. Comparable(Whole(Logits), work.device)
  <2>1. CASE work.device = NoTree
    BY <2>1 DEF Comparable
  <2> QED
    BY <1>1, <1>3, <2>1, EndCompares
<1>6. Comparable(work.slices, work.teacher)
  <2>1. CASE work.teacher = NoTree
    BY <2>1 DEF Comparable
  <2>2. CASE work.teacher # NoTree /\ IsChain(b)
    <3>1. work.slices = SliceGoldens(b)
      BY <1>1, <1>2, <1>4, <2>2
    <3>2. OfSlices(b.routes, n, work.teacher, work.noisy \cap S)
      BY <1>1, <2>2
    <3> QED
      BY <1>1, <3>1, <3>2, SlicesCompare
  <2>3. CASE work.teacher # NoTree /\ ~IsChain(b)
    <3>1. AtEnd(b.routes, n, work.teacher, D) /\ work.slices = Whole(Logits)
      BY <1>1, <1>2, <2>3
    <3> QED
      BY <1>3, <3>1, EndCompares
  <2> QED
    BY <2>1, <2>2, <2>3
<1>7. Comparable(work.slices, work.chain)
  <2>1. CASE work.chain = NoTree
    BY <2>1 DEF Comparable
  <2>2. CASE work.chain # NoTree /\ IsChain(b) /\ RunsModes
    <3>1. work.slices = SliceGoldens(b) /\ OfSlices(b.routes, n, work.chain, D)
      BY <1>1, <1>2, <1>4, <2>2
    <3> QED
      BY <1>1, <3>1, SlicesCompare
  <2>3. CASE work.chain # NoTree /\ ~(IsChain(b) /\ RunsModes)
    <3>1. AtEnd(b.routes, n, work.chain, D) /\ work.slices = Whole(Logits)
      BY <1>1, <1>2, <1>4, <2>3
    <3> QED
      BY <1>3, <3>1, EndCompares
  <2> QED
    BY <2>1, <2>2, <2>3
<1>8. ASSUME NEW m \in call.modes
      PROVE  /\ Compared(m).outputs # NoTree
             /\ Comparable(Compared(m).references, Compared(m).outputs)
  <2>1. m \in {"full_reference", "teacher_forced", "chain"}
    BY DEF Modes
  <2>2. CASE m = "full_reference"
    BY <1>5, <2>2 DEF Compared, Shows, Requested
  <2>3. CASE m = "teacher_forced"
    BY <1>6, <2>3 DEF Compared, Shows, Requested
  <2>4. CASE m = "chain"
    BY <1>7, <2>4 DEF Compared, Shows, Requested
  <2> QED
    BY <2>1, <2>2, <2>3, <2>4
<1> QED
  BY <1>6, <1>7, <1>8 DEF Reportable

\* A validation that names nothing but an AR and modes.
Plainly(c) ==
    /\ c # NoCall /\ c.stage = "validate"
    /\ c.form = "automatic" /\ c.component = Text
    /\ c.ar \in AllArs \cup {0} /\ c.cl = 0
    /\ c.vector = NoManifest /\ c.goldens = "none" /\ c.float = "none"

\* What such a validation has before each of its parts.
Prepares(p, w) ==
    /\ p \in {"reference", "execute", "report"} => Complete(w.binding)
    /\ p = "execute" =>
         /\ w.vector.ar = w.binding.ar /\ w.model = Whole(Logits)
         /\ PerSlice /\ IsChain(w.binding) /\ Requested("teacher_forced") =>
              Forces(w.binding, w.forced)
    /\ p = "report" => w.model = Whole(Logits) /\ Shows(w)

OfADiagnosis == {"compare", "diagnose"}

ReadyInv ==
    /\ phase \in OfADiagnosis => call.stage = "diagnose"
    /\ ended.call # NoCall => pc = "succeeded"
    /\ PublishedIsValidatable
    /\ phase \in OfAValidation /\ ~FansOut => Head(turn) = call.ar
    /\ Sought /\ Plainly(call) => \A p, w : p = phase /\ w = work => Prepares(p, w)

LEMMA ReadyInit == StagesInit => ReadyInv
<1> SUFFICES ASSUME StagesInit
             PROVE  ReadyInv
  OBVIOUS
<1>1. /\ call = NoCall /\ phase = "idle" /\ ended = [call |-> NoCall, how |-> "none"]
  BY DEF StagesInit, CallInit
<1>2. ended.call = NoCall
  BY <1>1
<1> QED
  BY <1>1, <1>2
     DEF ReadyInv, PublishedIsValidatable, PlainValidation, OfAValidation, OfADiagnosis, Plainly

\* What has been sought stays so.
LEMMA SoughtStays ==
    ASSUME UNCHANGED <<spec, vectors>>
    PROVE  /\ Sought' = Sought /\ Validatable' = Validatable
           /\ AllArs' = AllArs /\ Text' = Text
  BY DEF Sought, Validatable, AllArs, Text

\* A call that ends, and was refused only if it may be.
LEMMA ReadyEnds ==
    ASSUME UNCHANGED <<spec, pc, vectors>>, call # NoCall => pc = "succeeded",
           NEW how, End(how), how = "refused" => ~(Sought /\ Plainly(call))
    PROVE  ReadyInv'
<1>1. /\ ended' = [call |-> call, how |-> how] /\ call' = NoCall /\ phase' = "idle"
  BY DEF End
<1>2. ended'.call = call /\ ended'.how = how
  BY <1>1
<1>3. PublishedIsValidatable'
  <2> SUFFICES ASSUME Validatable', (\A ar \in AllArs : vectors[ar].goldens = "logits")',
                      PlainValidation'
               PROVE  how # "refused"
    BY <1>2 DEF PublishedIsValidatable
  <2>1. Sought
    BY SoughtStays DEF Sought
  <2>2. Plainly(call)
    BY <1>2, SoughtStays DEF PlainValidation, Plainly
  <2> QED
    BY <2>1, <2>2
<1>4. ~Plainly(call)'
  BY <1>1 DEF Plainly
<1>5. phase' \notin OfAValidation \cup OfADiagnosis
  BY <1>1 DEF OfAValidation, OfADiagnosis
<1>6. ended'.call # NoCall => pc' = "succeeded"
  BY <1>2
<1> QED
  BY <1>3, <1>4, <1>5, <1>6 DEF ReadyInv

\* What a call has found stays so while it goes on.
LEMMA PreparesStays ==
    ASSUME UNCHANGED stageVars, call' = call, NEW p, NEW w
    PROVE  Prepares(p, w)' <=> Prepares(p, w)
<1>1. UNCHANGED <<spec, index, vectors>>
  BY DEF stageVars, buildVars
<1>2. /\ PerSlice' = PerSlice /\ \A m : Requested(m)' = Requested(m)
      /\ \A b : IsChain(b)' = IsChain(b)
  BY <1>1 DEF Automatic, RunsModes, PerSlice, Requested, IsChain
<1>3. AllArs' = AllArs /\ Text' = Text
  BY <1>1, SoughtStays
<1>4. \A b : Complete(b)' = Complete(b)
  BY <1>1, <1>3 DEF Complete
<1>5. Logits' = Logits
  BY <1>1 DEF Logits, ModelOutputs, ModelSlices
<1>6. Shows(w)' = Shows(w)
  BY <1>2 DEF Shows
<1> QED
  BY <1>2, <1>4, <1>5, <1>6 DEF Prepares

LEMMA ReadyGoesOn ==
    ASSUME ReadyInv, UNCHANGED stageVars, UNCHANGED <<call, ended>>,
           phase' \notin OfADiagnosis,
           phase' \in OfAValidation /\ ~FansOut => Head(turn') = call.ar,
           Sought /\ Plainly(call) => \A p, w : p = phase' /\ w = work' => Prepares(p, w)
    PROVE  ReadyInv'
<1>1. UNCHANGED <<spec, pc, index, vectors>>
  BY DEF stageVars, buildVars
<1>2. FansOut' = FansOut
  BY <1>1 DEF FansOut, Automatic, RunsOnce
<1>3. Sought' = Sought /\ Plainly(call)' = Plainly(call)
  BY <1>1, SoughtStays DEF Plainly
<1>4. \A p, w : p = phase' /\ w = work' => (Sought /\ Plainly(call) => Prepares(p, w)')
  BY PreparesStays
<1>5. PublishedIsValidatable'
  BY <1>1, SoughtStays DEF ReadyInv, PublishedIsValidatable, PlainValidation
<1>6. ended'.call # NoCall => pc' = "succeeded"
  BY <1>1 DEF ReadyInv
<1>7. phase' \in OfAValidation /\ ~FansOut' => Head(turn') = call'.ar
  BY <1>2
<1> QED
  BY <1>3, <1>4, <1>5, <1>6, <1>7 DEF ReadyInv

LEMMA ReadyProceeds ==
    ASSUME ReadyInv, UNCHANGED stageVars, phase \in OfAValidation,
           NEW next \in OfAValidation, NEW w, Proceed(next, w),
           Sought /\ Plainly(call) => Prepares(next, w)
    PROVE  ReadyInv'
<1>1. phase' = next /\ work' = w /\ UNCHANGED <<call, ended, turn>>
  BY DEF Proceed
<1>2. ~FansOut => Head(turn') = call.ar
  BY <1>1 DEF ReadyInv
<1>3. \A p, v : p = phase' /\ v = work' => p = next /\ v = w
  BY <1>1
<1>4. phase' \notin OfADiagnosis
  BY <1>1 DEF OfAValidation, OfADiagnosis
<1> QED
  BY <1>1, <1>2, <1>3, <1>4, ReadyGoesOn

\* How calls of other stages than validate go on and end.
Elsewhere ==
    \/ \E how : End(how)
    \/ /\ UNCHANGED <<call, ended>> /\ phase' \notin OfAValidation
       /\ phase' \in OfADiagnosis => call.stage = "diagnose"

\* Calls of other stages.
LEMMA ReadyOther ==
    ASSUME ReadyInv, DiagnosesInv, UNCHANGED <<spec, pc, vectors, index>>,
           call.stage # "validate", Elsewhere
    PROVE  ReadyInv'
<1>1. call # NoCall => pc = "succeeded"
  BY DEF DiagnosesInv, CallsInv
<1>2. CASE \E how : End(how)
  BY <1>1, <1>2, ReadyEnds DEF Plainly
<1>3. CASE /\ UNCHANGED <<call, ended>> /\ phase' \notin OfAValidation
           /\ phase' \in OfADiagnosis => call.stage = "diagnose"
  <2>1. ~Plainly(call)'
    BY <1>3 DEF Plainly
  <2>2. PublishedIsValidatable'
    BY <1>3, SoughtStays DEF ReadyInv, PublishedIsValidatable, PlainValidation
  <2> QED
    BY <1>3, <2>1, <2>2 DEF ReadyInv
<1> QED
  BY <1>2, <1>3 DEF Elsewhere

LEMMA ReadyTools ==
    ASSUME DiagnosesInv, ReadyInv, ToolNext
    PROVE  ReadyInv'
<1>1. call.stage = "tool" /\ UNCHANGED <<spec, pc, vectors, index>>
  BY DEF ToolNext, ToolStep, PrepareVectors, ConvertAr, TransformModel, ConvertModel,
         CompileModels, RunGraph, RunChain, Uses
<1>2. CASE RefuseCall \/ FailCall
  <2>1. Elsewhere
    BY <1>2 DEF RefuseCall, FailCall, Elsewhere
  <2> QED
    BY <1>1, <2>1, ReadyOther
<1>3. ASSUME NEW artifacts, EndCall(artifacts)
      PROVE  ReadyInv'
  <2>1. Elsewhere
    BY <1>3 DEF EndCall, Elsewhere
  <2> QED
    BY <1>1, <2>1, ReadyOther
<1>4. ASSUME NEW accepted, NEW artifact, Tool(accepted, artifact)
      PROVE  ReadyInv'
  BY <1>2, <1>3, <1>4 DEF Tool
<1>5. CASE PrepareVectors \/ ConvertAr \/ TransformModel \/ ConvertModel
  BY <1>4, <1>5 DEF PrepareVectors, ConvertAr, TransformModel, ConvertModel
<1>6. CASE CompileModels
  BY <1>2, <1>3, <1>6 DEF CompileModels
<1>7. CASE RunGraph
  BY <1>4, <1>7 DEF RunGraph
<1>8. CASE RunChain
  BY <1>4, <1>8 DEF RunChain
<1> QED
  BY <1>5, <1>6, <1>7, <1>8 DEF ToolNext, ToolStep

LEMMA ReadyBenchmark ==
    ASSUME DiagnosesInv, ClaimsInv, ReadyInv, UNCHANGED stageVars, BenchmarkNext
    PROVE  ReadyInv'
<1>1. UNCHANGED <<spec, pc, vectors, index>>
  BY DEF stageVars, buildVars
<1>2. call.stage = "benchmark"
  <2>1. CASE phase \in OfABenchmark
    BY <2>1 DEF ClaimsInv, PhasesInv
  <2>2. CASE BeginBenchmark \/ PublishLatencies
    BY <2>2, Zenon DEF BeginBenchmark, PublishLatencies
  <2>3. CASE SelectBenchmark \/ OpenContainer \/ OpenChain \/ OpenGraph
    BY <2>1, <2>3, Zenon DEF SelectBenchmark, OpenContainer, OpenChain, OpenGraph, OfABenchmark
  <2>4. CASE Measure \/ Meter \/ PublishLatency
    BY <2>1, <2>4, Zenon DEF Measure, Meter, PublishLatency, OfABenchmark
  <2> QED
    BY <2>2, <2>3, <2>4 DEF BenchmarkNext
<1>3. RefuseCall \/ FailCall \/ (\E a : EndCall(a)) => Elsewhere
  BY DEF RefuseCall, FailCall, EndCall, Elsewhere
<1>4. ASSUME NEW next \in OfABenchmark, NEW w, Proceed(next, w)
      PROVE  Elsewhere
  BY <1>4 DEF Proceed, Elsewhere, OfABenchmark, OfAValidation, OfADiagnosis
<1>5. ASSUME NEW artifacts, NextAr(artifacts, "select", "aggregate")
      PROVE  Elsewhere
  <2>1. CASE FansOut
    BY <1>5, <2>1 DEF NextAr, Elsewhere, OfAValidation, OfADiagnosis
  <2> QED
    BY <1>3, <1>5, <2>1 DEF NextAr
<1>6. CASE BeginBenchmark
  <2>1. Starts("benchmark", "select") => Elsewhere
    BY <1>3 DEF Starts, Elsewhere, OfAValidation, OfADiagnosis
  <2> QED
    BY <1>1, <1>2, <1>3, <1>6, <2>1, ReadyOther DEF BeginBenchmark
<1>7. CASE SelectBenchmark
  <2>1. Elsewhere
    BY <1>3, <1>4, <1>7 DEF SelectBenchmark, OfABenchmark
  <2> QED
    BY <1>1, <1>2, <2>1, ReadyOther
<1>8. CASE OpenContainer \/ OpenChain
  <2>1. Elsewhere
    BY <1>3, <1>4, <1>8 DEF OpenContainer, OpenChain, OfABenchmark
  <2> QED
    BY <1>1, <1>2, <2>1, ReadyOther
<1>9. CASE OpenGraph
  <2>1. Elsewhere
    BY <1>3, <1>4, <1>9 DEF OpenGraph, OfABenchmark
  <2> QED
    BY <1>1, <1>2, <2>1, ReadyOther
<1>10. CASE Measure
  <2>1. Elsewhere
    BY <1>3, <1>4, <1>10 DEF Measure, OfABenchmark
  <2> QED
    BY <1>1, <1>2, <2>1, ReadyOther
<1>11. CASE Meter
  <2>1. Elsewhere
    BY <1>4, <1>11 DEF Meter, OfABenchmark
  <2> QED
    BY <1>1, <1>2, <2>1, ReadyOther
<1>12. CASE PublishLatency
  <2>1. Elsewhere
    BY <1>3, <1>5, <1>12 DEF PublishLatency
  <2> QED
    BY <1>1, <1>2, <2>1, ReadyOther
<1>13. CASE PublishLatencies
  <2>1. Elsewhere
    BY <1>3, <1>13, Zenon DEF PublishLatencies
  <2> QED
    BY <1>1, <1>2, <2>1, ReadyOther
<1> QED
  BY <1>6, <1>7, <1>8, <1>9, <1>10, <1>11, <1>12, <1>13 DEF BenchmarkNext

LEMMA ReadyDiagnose ==
    ASSUME DiagnosesInv, ReadyInv, UNCHANGED stageVars, DiagnoseNext
    PROVE  ReadyInv'
<1>1. UNCHANGED <<spec, pc, vectors, index>>
  BY DEF stageVars, buildVars
<1>2. call.stage = "diagnose"
  BY DEF DiagnoseNext, BeginDiagnose, CompareTraces, Attribute, ReadyInv, OfADiagnosis
<1>3. RefuseCall \/ FailCall \/ (\E a : EndCall(a)) => Elsewhere
  BY DEF RefuseCall, FailCall, EndCall, Elsewhere
<1>4. CASE BeginDiagnose
  BY <1>1, <1>2, <1>4, ReadyOther DEF BeginDiagnose, Proceed, Elsewhere, OfAValidation
<1>5. CASE CompareTraces
  <2>1. Elsewhere
    BY <1>3, <1>5 DEF CompareTraces
  <2> QED
    BY <1>1, <1>2, <2>1, ReadyOther
<1>6. CASE Attribute
  <2>1. Elsewhere
    BY <1>3, <1>6 DEF Attribute
  <2> QED
    BY <1>1, <1>2, <2>1, ReadyOther
<1> QED
  BY <1>4, <1>5, <1>6 DEF DiagnoseNext

\* A call is made on a build that has succeeded, and nothing has been found yet.
LEMMA ReadyCall ==
    ASSUME ReadyInv, UNCHANGED stageVars, CallStage
    PROVE  ReadyInv'
<1>1. UNCHANGED <<spec, pc, vectors, index>>
  BY DEF stageVars, buildVars
<1>2. phase' = "called" /\ ended' = ended
  BY DEF CallStage
<1>3. PublishedIsValidatable'
  BY <1>1, <1>2, SoughtStays DEF ReadyInv, PublishedIsValidatable, PlainValidation
<1>4. \A p, w : p = phase' => Prepares(p, w)'
  BY <1>2 DEF Prepares
<1> QED
  BY <1>1, <1>2, <1>3, <1>4 DEF ReadyInv, OfAValidation, OfADiagnosis

\* A build is over before the first call.
LEMMA ReadyBuild ==
    ASSUME DiagnosesInv, ReadyInv, BuildStep, UNCHANGED callVars
    PROVE  ReadyInv'
<1>1. pc # "succeeded"
  BY StepsBeforeSuccess
<1>2. /\ call = NoCall /\ phase = "idle" /\ ended.call = NoCall
      /\ UNCHANGED <<call, phase, ended>>
  BY <1>1 DEF DiagnosesInv, CallsInv, IdleInv, ReadyInv, callVars
<1>3. PublishedIsValidatable'
  BY <1>2 DEF PublishedIsValidatable, PlainValidation
<1>4. ~Plainly(call)'
  BY <1>2 DEF Plainly
<1> QED
  BY <1>2, <1>3, <1>4 DEF ReadyInv, OfAValidation, OfADiagnosis

LEMMA ReadyStutter ==
    ASSUME ReadyInv, UNCHANGED stagesVars
    PROVE  ReadyInv'
<1>1. /\ UNCHANGED stageVars /\ UNCHANGED <<call, phase, turn, work, ended>>
      /\ UNCHANGED <<spec, pc, vectors, index>>
  BY DEF stagesVars, callVars, stageVars, buildVars
<1>2. FansOut' = FansOut
  BY <1>1 DEF FansOut, Automatic, RunsOnce
<1>3. Sought' = Sought /\ Plainly(call)' = Plainly(call)
  BY <1>1, SoughtStays DEF Plainly
<1>4. \A p, w : p = phase' /\ w = work' => (Sought /\ Plainly(call) => Prepares(p, w)')
  BY <1>1, PreparesStays DEF ReadyInv
<1>5. PublishedIsValidatable'
  BY <1>1, SoughtStays DEF ReadyInv, PublishedIsValidatable, PlainValidation
<1> QED
  BY <1>1, <1>2, <1>3, <1>4, <1>5 DEF ReadyInv

-----------------------------------------------------------------------------
(* How a validation goes on and how it ends.                               *)

LEMMA ReadyRefuse ==
    ASSUME UNCHANGED stageVars, DiagnosesInv, RefuseCall, ~(Sought /\ Plainly(call))
    PROVE  ReadyInv'
<1>1. UNCHANGED <<spec, pc, vectors>> /\ (call # NoCall => pc = "succeeded")
  BY DEF stageVars, buildVars, DiagnosesInv, CallsInv
<1>2. End("refused")
  BY DEF RefuseCall
<1> QED
  BY <1>1, <1>2, ReadyEnds

LEMMA ReadyFail ==
    ASSUME UNCHANGED stageVars, DiagnosesInv, FailCall
    PROVE  ReadyInv'
<1>1. UNCHANGED <<spec, pc, vectors>> /\ (call # NoCall => pc = "succeeded")
  BY DEF stageVars, buildVars, DiagnosesInv, CallsInv
<1>2. End("failed")
  BY DEF FailCall
<1> QED
  BY <1>1, <1>2, ReadyEnds

LEMMA ReadyPublish ==
    ASSUME UNCHANGED stageVars, DiagnosesInv, NEW artifacts, EndCall(artifacts)
    PROVE  ReadyInv'
<1>1. UNCHANGED <<spec, pc, vectors>> /\ (call # NoCall => pc = "succeeded")
  BY DEF stageVars, buildVars, DiagnosesInv, CallsInv
<1>2. End("done")
  BY DEF EndCall
<1> QED
  BY <1>1, <1>2, ReadyEnds

LEMMA ReadyNextAr ==
    ASSUME UNCHANGED stageVars, DiagnosesInv, ReadyInv,
           NEW artifacts, NextAr(artifacts, "bind", "aggregate")
    PROVE  ReadyInv'
<1>1. CASE ~FansOut
  BY <1>1, ReadyPublish DEF NextAr
<1>2. CASE FansOut
  <2>1. UNCHANGED <<call, ended>> /\ phase' \in {"bind", "aggregate"}
    BY <1>2 DEF NextAr
  <2>2. \A p, w : p = phase' => Prepares(p, w)
    BY <2>1 DEF Prepares
  <2> QED
    BY <1>2, <2>1, <2>2, ReadyGoesOn DEF OfADiagnosis
<1> QED
  BY <1>1, <1>2

\* Every AR has the vector that a validation of all of them needs.
LEMMA ReadyStarts ==
    ASSUME ClaimsInv, DiagnosesInv, ReadyInv, UNCHANGED stageVars, BeginValidate
    PROVE  ReadyInv'
<1>1. phase = "called" /\ call.stage = "validate"
  BY DEF BeginValidate, Starts
<1>2. pc = "succeeded"
  BY <1>1 DEF DiagnosesInv, CallsInv, IdleInv
<1>3. Sought => DOMAIN index.vectors = AllArs
  BY <1>2 DEF Sought, Validatable, ClaimsInv, VectorsInv
<1>4. \/ /\ RefuseCall /\ ~Sought
      \/ /\ turn' = (IF FansOut THEN spec.ars ELSE <<call.ar>>)
         /\ phase' = "bind" /\ UNCHANGED <<call, ended>>
  BY <1>3 DEF BeginValidate, Starts
<1>5. CASE RefuseCall /\ ~Sought
  BY <1>5, ReadyRefuse
<1>6. CASE /\ turn' = (IF FansOut THEN spec.ars ELSE <<call.ar>>)
           /\ phase' = "bind" /\ UNCHANGED <<call, ended>>
  <2>1. ~FansOut => Head(turn') = call.ar
    BY <1>6
  <2>2. \A p, w : p = phase' => Prepares(p, w)
    BY <1>6 DEF Prepares
  <2> QED
    BY <1>6, <2>1, <2>2, ReadyGoesOn DEF OfADiagnosis
<1> QED
  BY <1>4, <1>5, <1>6

\* The index selects the whole model for it.
LEMMA PlainBinding ==
    ASSUME ProgressInv, LiveInv, PlanInv, BuiltInv, DiagnosesInv, ReadyInv,
           pc = "succeeded", phase = "bind", Sought, Plainly(call)
    PROVE  Executable(Binding) /\ Complete(Binding)
<1>1. /\ spec.ars[1] \in AllArs /\ 0 \notin AllArs
  <2>1. 1 \in 1 .. Len(spec.ars)
    BY Configured DEF ProgressInv, InLoops
  <2> QED
    BY <2>1, Configured DEF ProgressInv
<1> PICK b : b = SelectBinding(index, spec.ars[1], spec.cls[1], Text)
  OBVIOUS
<1>2. index.lane = "low_level" /\ index.default = Default
  BY <1>1, CompleteSelected
<1>3. index.default.ar = spec.ars[1] /\ index.default.cl = spec.cls[1]
  BY <1>2 DEF Default
<1> PICK ar : ar = IF Head(turn) = 0 THEN index.default.ar ELSE Head(turn)
  OBVIOUS
<1>4. ar \in AllArs
  <2>1. CASE FansOut
    <3>1. Fanning
      BY <2>1 DEF Fanning
    <3>2. Head(turn) \in AllArs \ {0}
      BY <3>1, FanningAr DEF ProgressInv
    <3> QED
      BY <3>2
  <2>2. CASE ~FansOut
    <3>1. Head(turn) = call.ar
      BY <2>2 DEF ReadyInv, OfAValidation
    <3> QED
      BY <1>1, <1>3, <3>1 DEF Plainly
  <2> QED
    BY <2>1, <2>2
<1>5. Binding = SelectBinding(index, ar, spec.cls[1], Text)
  <2>1. Automatic /\ call.cl = 0 /\ call.component = Text
    BY DEF Plainly, Automatic
  <2> QED
    BY <1>3, <2>1 DEF Binding
<1>6. Binding # NotSelectable /\ Complete(Binding)
  BY <1>4, <1>5, CompleteSelected
<1>7. InScope(Binding)
  BY DEF InScope, Plainly, Text
<1> QED
  BY <1>2, <1>6, <1>7 DEF Executable

LEMMA ReadyBind ==
    ASSUME ProgressInv, LiveInv, PlanInv, BuiltInv, DiagnosesInv, ClaimsInv, ReadyInv,
           UNCHANGED stageVars, BindValidate
    PROVE  ReadyInv'
<1>1. phase = "bind" /\ phase \in OfAValidation
  BY DEF BindValidate, OfAValidation
<1>2. pc = "succeeded"
  BY <1>1, ValidateCall
<1>3. ASSUME NEW w, Proceed("reference", w), Sought /\ Plainly(call) => Complete(w.binding)
      PROVE  ReadyInv'
  <2>1. Sought /\ Plainly(call) => Prepares("reference", w)
    BY <1>3 DEF Prepares
  <2>2. "reference" \in OfAValidation
    BY DEF OfAValidation
  <2> QED
    BY <1>1, <1>3, <2>1, <2>2, ReadyProceeds
<1>4. CASE call.form = "outputs"
  <2>1. ~Plainly(call)
    BY <1>4 DEF Plainly
  <2> QED
    BY <1>3, <1>4, <2>1 DEF BindValidate
<1>5. CASE call.form # "outputs" /\ Executable(Binding)
  <2> PICK w : w = [binding |-> Binding]
    OBVIOUS
  <2>1. Proceed("reference", w) /\ w.binding = Binding
    BY <1>5 DEF BindValidate
  <2>2. Sought /\ Plainly(call) => Complete(w.binding)
    BY <1>1, <1>2, <2>1, PlainBinding
  <2> QED
    BY <1>3, <2>1, <2>2
<1>6. CASE call.form # "outputs" /\ ~Executable(Binding)
  <2>1. RefuseCall
    BY <1>6 DEF BindValidate
  <2>2. ~(Sought /\ Plainly(call))
    BY <1>1, <1>2, <1>6, PlainBinding
  <2> QED
    BY <2>1, <2>2, ReadyRefuse
<1> QED
  BY <1>4, <1>5, <1>6


\* Its references can be had: the vector's goldens, and those of the slices.
LEMMA PlainReferences ==
    ASSUME ProgressInv, PlanInv, BuiltInv, ClaimsInv, pc = "succeeded",
           Sought, Plainly(call), NEW b, WellBound(b), Complete(b)
    PROVE  /\ VectorFor(b) # NoManifest /\ VectorFor(b).ar = b.ar
           /\ ModelGoldens(VectorFor(b)) = Logits
           /\ MakesGoldens(b) /\ Forces(b, GoldenInputs(b))
<1>1. /\ spec.lane = "low_level" /\ InLoops
      /\ b.ar \in AllArs /\ b.component = Text /\ Text # "vision"
  BY DEF Sought, Validatable, ProgressInv, Complete, Text
<1>2. /\ b.ar \in DOMAIN vectors /\ vectors[b.ar] # NoManifest
      /\ vectors[b.ar].ar = b.ar /\ vectors[b.ar].goldens = "logits"
  BY <1>1, SoughtVectors
<1>3. VectorFor(b) = vectors[b.ar]
  <2>1. index.vectors = vectors
    BY DEF ClaimsInv, VectorsInv
  <2>2. call.vector = NoManifest /\ Automatic
    BY DEF Plainly, Automatic
  <2> QED
    BY <1>1, <1>2, <2>1, <2>2 DEF VectorFor
<1>4. ModelGoldens(VectorFor(b)) = Logits
  BY <1>2, <1>3 DEF ModelGoldens, Logits
<1>5. PICK n : Proper(b.routes, n)
  BY DEF WellBound
<1>6. ~ReferenceRun(b).failed
  BY <1>1, <1>5, DeviceRuns DEF ReferenceRun
<1>7. call.goldens = "none"
  BY DEF Plainly
<1>8. HasSliceModels(b)
  BY <1>1, CompleteModels
<1>9. MakesGoldens(b)
  BY <1>6, <1>7, <1>8 DEF MakesGoldens
<1>10. Forces(b, GoldenInputs(b))
  BY <1>5, <1>6, <1>7, GoldensWhole
<1> QED
  BY <1>2, <1>3, <1>4, <1>9, <1>10

LEMMA ReadyReferences ==
    ASSUME ProgressInv, PlanInv, BuiltInv, DiagnosesInv, ClaimsInv, TrustInv, ReadyInv,
           UNCHANGED stageVars, PrepareReferences
    PROVE  ReadyInv'
<1>1. phase = "reference" /\ phase \in OfAValidation
  BY DEF PrepareReferences, OfAValidation
<1>2. pc = "succeeded"
  BY <1>1, ValidateCall
<1> PICK b : b = work.binding
  OBVIOUS
<1>3. ASSUME Sought, Plainly(call)
      PROVE  /\ call.form # "outputs"
             /\ VectorFor(b) # NoManifest /\ VectorFor(b).ar = b.ar
             /\ ModelGoldens(VectorFor(b)) = Logits
             /\ MakesGoldens(b) /\ Forces(b, GoldenInputs(b)) /\ Complete(b)
  <2>1. call.form # "outputs"
    BY <1>3 DEF Plainly
  <2>2. WellBound(b)
    BY <1>1, <2>1 DEF TrustInv, Founded, Examined, Fit
  <2>3. Complete(b)
    BY <1>1, <1>3 DEF ReadyInv, Prepares
  <2> QED
    BY <1>2, <1>3, <2>1, <2>2, <2>3, PlainReferences
<1> DEFINE vector == IF call.form = "outputs" THEN call.vector ELSE VectorFor(work.binding)
           split == PerSlice /\ IsChain(work.binding)
           model == Whole(ModelGoldens(vector))
           slices == IF split THEN SliceGoldens(work.binding) ELSE model
           forced == IF split /\ Requested("teacher_forced")
                     THEN GoldenInputs(work.binding) ELSE << >>
           v == [binding |-> work.binding, vector |-> vector, model |-> model, slices |-> slices,
                 forced |-> forced, noisy |-> {}, device |-> call.outputs,
                 chain |-> call.outputs, teacher |-> NoTree, tapped |-> {}]
           next == IF call.form = "outputs" THEN "report" ELSE "execute"
<1>4. \/ RefuseCall /\ (vector = NoManifest \/ (split /\ ~MakesGoldens(work.binding)))
      \/ FailCall
      \/ Proceed(next, v)
  BY ZenonT(60) DEF PrepareReferences
<1>5. /\ v.binding = b /\ v.vector = vector /\ v.model = model /\ v.forced = forced
  <2> HIDE DEF vector, model, slices, forced
  <2> QED
    OBVIOUS
<1> HIDE DEF v
<1>6. ~(Sought /\ Plainly(call) /\ (vector = NoManifest \/ (split /\ ~MakesGoldens(work.binding))))
  BY <1>3
<1>7. Sought /\ Plainly(call) => Prepares(next, v)
  <2> SUFFICES ASSUME Sought, Plainly(call)
               PROVE  Prepares(next, v)
    OBVIOUS
  <2>1. next = "execute" /\ vector = VectorFor(b)
    BY <1>3
  <2>2. v.vector.ar = v.binding.ar /\ v.model = Whole(Logits) /\ Complete(v.binding)
    BY <1>3, <1>5, <2>1
  <2>3. ASSUME PerSlice, IsChain(v.binding), Requested("teacher_forced")
        PROVE  Forces(v.binding, v.forced)
    <3>1. v.forced = GoldenInputs(b)
      BY <1>5, <2>3
    <3> QED
      BY <1>3, <1>5, <3>1
  <2> HIDE DEF next
  <2> QED
    BY <2>1, <2>2, <2>3 DEF Prepares
<1>8. next \in OfAValidation
  BY DEF OfAValidation
<1> HIDE DEF vector, model, slices, forced, split, next
<1>9. CASE RefuseCall /\ (vector = NoManifest \/ (split /\ ~MakesGoldens(work.binding)))
  BY <1>6, <1>9, ReadyRefuse
<1>10. CASE FailCall
  BY <1>10, ReadyFail
<1>11. CASE Proceed(next, v)
  BY <1>1, <1>7, <1>8, <1>11, ReadyProceeds
<1> QED
  BY <1>4, <1>9, <1>10, <1>11


\* Each mode that is requested shows what the device has returned.
LEMMA OutcomeShows ==
    ASSUME NEW b, WellBound(b), NEW forced, CleanTree(forced), NEW noisy,
           NEW chained, NEW taught, NEW needs, NEW teaches, NEW w,
           Outcome(b, forced, noisy, chained, taught, needs, teaches, w),
           call.form # "outputs"
    PROVE  Shows(w)
<1> USE DEF Outcome
<1>1. PICK n : Proper(b.routes, n)
  BY DEF WellBound
<1>2. \A m : Requested(m) => RunsModes
  BY DEF Requested, RunsModes
<1>3. needs => /\ DOMAIN FinalOutputs(chained) = {"model"}
               /\ DOMAIN OutputsBySlice(chained) = {b.routes[i].slice : i \in 1 .. n}
  <2> SUFFICES ASSUME needs
               PROVE  /\ DOMAIN FinalOutputs(chained) = {"model"}
                      /\ DOMAIN OutputsBySlice(chained) = {b.routes[i].slice : i \in 1 .. n}
    OBVIOUS
  <2> PICK D : D = Reached(noisy, SlicesOf(b.routes, n))
    OBVIOUS
  <2>1. /\ OfSlices(b.routes, n, OutputsBySlice(chained), D)
        /\ AtEnd(b.routes, n, FinalOutputs(chained), D)
    BY <1>1, ChainedShows
  <2> QED
    BY <2>1 DEF OfSlices, AtEnd
<1>4. teaches /\ IsChain(b) =>
        DOMAIN OutputsBySlice(taught) = {b.routes[i].slice : i \in 1 .. n}
  <2> SUFFICES ASSUME teaches, IsChain(b)
               PROVE  DOMAIN OutputsBySlice(taught) = {b.routes[i].slice : i \in 1 .. n}
    OBVIOUS
  <2>1. OfSlices(b.routes, n, OutputsBySlice(taught), noisy \cap SlicesOf(b.routes, n))
    BY <1>1, TaughtShows
  <2> QED
    BY <2>1 DEF OfSlices
<1>5. /\ DOMAIN NoTree = {}
      /\ {"model"} # {} /\ {b.routes[i].slice : i \in 1 .. n} # {}
  <2>1. 1 \in 1 .. n
    BY <1>1 DEF Proper
  <2>2. b.routes[1].slice \in {b.routes[i].slice : i \in 1 .. n}
    BY <2>1
  <2> QED
    BY <2>2 DEF NoTree
<1>6. Requested("full_reference") => w.device # NoTree
  BY <1>3, <1>5
<1>7. Requested("teacher_forced") => w.teacher # NoTree
  <2> SUFFICES ASSUME Requested("teacher_forced")
               PROVE  w.teacher # NoTree
    OBVIOUS
  <2>1. teaches
    BY <1>2
  <2>2. CASE IsChain(b)
    <3>1. w.teacher = OutputsBySlice(taught)
      BY <2>1, <2>2
    <3> QED
      BY <1>4, <1>5, <2>1, <2>2, <3>1
  <2>3. CASE ~IsChain(b)
    <3>1. w.teacher = FinalOutputs(chained) /\ needs
      BY <2>1, <2>3
    <3> QED
      BY <1>3, <1>5, <3>1
  <2> QED
    BY <2>2, <2>3
<1>8. Requested("chain") => w.chain # NoTree
  <2> SUFFICES ASSUME Requested("chain")
               PROVE  w.chain # NoTree
    OBVIOUS
  <2>1. needs
    OBVIOUS
  <2>2. w.chain = OutputsBySlice(chained) \/ w.chain = FinalOutputs(chained)
    OBVIOUS
  <2> QED
    BY <1>3, <1>5, <2>1, <2>2
<1> QED
  BY <1>6, <1>7, <1>8 DEF Shows

\* The device executes what a plain validation has it execute.
LEMMA PlainExecution ==
    ASSUME ProgressInv, Sought, Plainly(call), NEW b, WellBound(b), Complete(b), NEW noisy
    PROVE  /\ ExecutedAr(b) = b.ar
           /\ ~RunRoutes(b, "device_chain", noisy, << >>).failed
           /\ \A goldens : Forces(b, goldens) =>
                ~RunRoutes(b, "teacher_forced", noisy, goldens).failed
           /\ call.float = "none"
<1>1. InLoops /\ spec.lane = "low_level"
  BY DEF ProgressInv, Sought, Validatable
<1>2. PICK n : Proper(b.routes, n)
  BY DEF WellBound
<1>3. ExecutedAr(b) = b.ar
  <2>1. b.ar \in AllArs
    BY DEF Complete
  <2>2. 0 \notin AllArs
    BY <1>1, Configured
  <2> QED
    BY <2>1, <2>2 DEF ExecutedAr
<1>4. ~RunRoutes(b, "device_chain", noisy, << >>).failed
  BY <1>1, <1>2, DeviceRuns
<1>5. ASSUME NEW goldens, Forces(b, goldens)
      PROVE  ~RunRoutes(b, "teacher_forced", noisy, goldens).failed
  BY <1>1, <1>2, <1>5, TaughtRuns
<1> QED
  BY <1>3, <1>4, <1>5 DEF Plainly


LEMMA ReadyExecute ==
    ASSUME ProgressInv, DiagnosesInv, ClaimsInv, TrustInv, ReadyInv,
           UNCHANGED stageVars, ExecuteModes
    PROVE  ReadyInv'
<1>1. phase = "execute" /\ phase \in OfAValidation
  BY Zenon DEF ExecuteModes, OfAValidation
<1>2. call.form # "outputs" /\ WellBound(work.binding) /\ Referring(work)
  BY <1>1 DEF TrustInv, Founded, Examined, Fit
<1>3. Sought /\ Plainly(call) => Prepares("execute", work)
  BY <1>1 DEF ReadyInv
<1> DEFINE chained(noisy) == RunRoutes(work.binding, "device_chain", noisy, << >>)
           taught(noisy) == RunRoutes(work.binding, "teacher_forced", noisy, work.forced)
           needs == IF IsChain(work.binding)
                    THEN ~RunsModes \/ Requested("full_reference") \/ Requested("chain")
                    ELSE TRUE
           teaches == RunsModes /\ Requested("teacher_forced")
           device(noisy) == IF needs THEN FinalOutputs(chained(noisy)) ELSE NoTree
           chain(noisy) == IF RunsModes /\ ~Requested("chain") THEN NoTree
                           ELSE IF IsChain(work.binding) /\ RunsModes
                           THEN OutputsBySlice(chained(noisy))
                           ELSE FinalOutputs(chained(noisy))
           teacher(noisy) == IF ~teaches THEN NoTree
                             ELSE IF IsChain(work.binding)
                             THEN OutputsBySlice(taught(noisy))
                             ELSE FinalOutputs(chained(noisy))
           tapped == IF call.float = "layer" THEN Entries(work.binding) ELSE {}
           bad(noisy) == \/ work.vector.ar # ExecutedAr(work.binding)
                         \/ needs /\ chained(noisy).failed
                         \/ teaches /\ IsChain(work.binding) /\ taught(noisy).failed
                         \/ call.float = "layer" /\ ~Layered(work.binding)
           after(noisy) == [work EXCEPT !.noisy = noisy, !.device = device(noisy),
                              !.chain = chain(noisy), !.teacher = teacher(noisy),
                              !.tapped = tapped]
<1>4. \/ FailCall
      \/ \E noisy \in NoisySets : IF bad(noisy) THEN RefuseCall
                                  ELSE Proceed("report", after(noisy))
  BY <1>1, ZenonT(60) DEF ExecuteModes
<1>5. ASSUME NEW noisy, Sought, Plainly(call)
      PROVE  ~bad(noisy)
  <2>1. Complete(work.binding) /\ work.vector.ar = work.binding.ar
    BY <1>3, <1>5 DEF Prepares
  <2>2. /\ ExecutedAr(work.binding) = work.binding.ar
        /\ ~chained(noisy).failed /\ call.float = "none"
    BY <1>2, <1>5, <2>1, PlainExecution
  <2>3. ~(teaches /\ IsChain(work.binding) /\ taught(noisy).failed)
    <3> SUFFICES ASSUME teaches, IsChain(work.binding)
                 PROVE  ~taught(noisy).failed
      OBVIOUS
    <3>1. Forces(work.binding, work.forced)
      BY <1>3, <1>5 DEF Prepares, PerSlice
    <3> QED
      BY <1>2, <1>5, <2>1, <3>1, PlainExecution
  <2> HIDE DEF chained, taught, needs, teaches
  <2> QED
    BY <2>1, <2>2, <2>3
<1>6. ASSUME NEW noisy, ~bad(noisy), Proceed("report", after(noisy))
      PROVE  ReadyInv'
  <2> PICK b : b = work.binding
    OBVIOUS
  <2> PICK w : w = after(noisy)
    OBVIOUS
  <2>1. /\ w.noisy = noisy /\ w.device = device(noisy) /\ w.chain = chain(noisy)
        /\ w.teacher = teacher(noisy) /\ w.binding = b /\ w.model = work.model
    <3>1. {"noisy", "device", "chain", "teacher", "tapped"} \subseteq DOMAIN work
      BY <1>2 DEF Referring
    <3> HIDE DEF device, chain, teacher, tapped
    <3> QED
      BY <3>1
  <2>2. Shows(w)
    <3> PICK run : run = chained(noisy)
      OBVIOUS
    <3> PICK forced : forced = taught(noisy)
      OBVIOUS
    <3> PICK x \in BOOLEAN : x = needs
      OBVIOUS
    <3> PICK y \in BOOLEAN : y = teaches
      OBVIOUS
    <3>1. /\ run = RunRoutes(b, "device_chain", noisy, << >>)
          /\ forced = RunRoutes(b, "teacher_forced", noisy, work.forced)
      OBVIOUS
    <3>2. (x => ~run.failed) /\ (y /\ IsChain(b) => ~forced.failed)
      BY <1>6
    <3>3. /\ w.device = (IF x THEN FinalOutputs(run) ELSE NoTree)
          /\ w.chain = (IF RunsModes /\ ~Requested("chain") THEN NoTree
                        ELSE IF IsChain(b) /\ RunsModes
                        THEN OutputsBySlice(run) ELSE FinalOutputs(run))
          /\ w.teacher = (IF ~y THEN NoTree
                          ELSE IF IsChain(b) THEN OutputsBySlice(forced)
                          ELSE FinalOutputs(run))
      BY <2>1
    <3>4. x = (IF IsChain(b)
               THEN ~RunsModes \/ Requested("full_reference") \/ Requested("chain")
               ELSE TRUE)
      OBVIOUS
    <3>5. y = (RunsModes /\ Requested("teacher_forced"))
      OBVIOUS
    <3> HIDE DEF device, chain, teacher, tapped, needs, teaches, chained, taught, bad, after
    <3>6. Outcome(b, work.forced, noisy, run, forced, x, y, w)
      BY <2>1, <3>1, <3>2, <3>3, <3>4, <3>5 DEF Outcome
    <3>7. WellBound(b) /\ CleanTree(work.forced)
      BY <1>2 DEF Referring
    <3> QED
      BY <1>2, <3>6, <3>7, OutcomeShows
  <2> HIDE DEF after
  <2>3. Sought /\ Plainly(call) => Prepares("report", w)
    BY <1>3, <2>1, <2>2 DEF Prepares
  <2>4. "report" \in OfAValidation
    BY DEF OfAValidation
  <2> QED
    BY <1>1, <1>6, <2>3, <2>4, ReadyProceeds
<1> HIDE DEF bad, after
<1>7. CASE FailCall
  BY <1>7, ReadyFail
<1>8. ASSUME NEW noisy, bad(noisy), RefuseCall
      PROVE  ReadyInv'
  BY <1>5, <1>8, ReadyRefuse
<1> QED
  BY <1>4, <1>6, <1>7, <1>8

LEMMA ReadyReport ==
    ASSUME ProgressInv, DiagnosesInv, ClaimsInv, TrustInv, ReadyInv,
           UNCHANGED stageVars, PublishReport
    PROVE  ReadyInv'
<1>1. phase = "report" /\ phase \in OfAValidation
  BY DEF PublishReport, OfAValidation
<1> DEFINE good == /\ Reportable
                   /\ call.float # "none" => FloatComparable
                   /\ Triggered => work.binding.cl # 0
<1>2. IF good THEN FailCall \/ NextAr(Reports, "bind", "aggregate") ELSE RefuseCall
  BY DEF PublishReport
<1>3. ASSUME Sought, Plainly(call)
      PROVE  good
  <2>1. Complete(work.binding) /\ work.model = Whole(Logits) /\ Shows(work)
    BY <1>1, <1>3 DEF ReadyInv, Prepares
  <2>2. call.form # "outputs" /\ call.float = "none" /\ spec.lane = "low_level"
    BY <1>3 DEF Plainly, Sought, Validatable
  <2>3. Examined("report", work)
    BY <1>1 DEF TrustInv, Founded
  <2>4. Referred(work) /\ \E n : Displays(work, n)
    BY <2>2, <2>3 DEF Examined
  <2>5. Reportable
    BY <1>1, <2>1, <2>2, <2>4, ValidateCall, CompleteReportable
  <2>6. work.binding.cl # 0
    <3>1. spec.cls \in Seq(Nat \ {0}) /\ 1 \in 1 .. Len(spec.cls)
      BY Configured DEF ProgressInv, InLoops
    <3> QED
      BY <2>1, <3>1 DEF Complete
  <2> QED
    BY <2>2, <2>5, <2>6
<1> HIDE DEF good
<1>4. CASE FailCall
  BY <1>4, ReadyFail
<1>5. CASE NextAr(Reports, "bind", "aggregate")
  BY <1>5, ReadyNextAr
<1>6. CASE RefuseCall /\ ~good
  BY <1>3, <1>6, ReadyRefuse
<1> QED
  BY <1>2, <1>4, <1>5, <1>6

LEMMA ReadyValidate ==
    ASSUME ProgressInv, LiveInv, PlanInv, BuiltInv, DiagnosesInv, ClaimsInv, TrustInv,
           ReadyInv, UNCHANGED stageVars, ValidateNext
    PROVE  ReadyInv'
<1>1. CASE BeginValidate
  BY <1>1, ReadyStarts
<1>2. CASE BindValidate
  BY <1>2, ReadyBind
<1>3. CASE PrepareReferences
  BY <1>3, ReadyReferences
<1>4. CASE ExecuteModes
  BY <1>4, ReadyExecute
<1>5. CASE PublishReport
  BY <1>5, ReadyReport
<1>6. CASE PublishAggregate
  <2>1. PICK artifacts : EndCall(artifacts)
    BY <1>6, Zenon DEF PublishAggregate
  <2> QED
    BY <2>1, ReadyPublish
<1> QED
  BY <1>1, <1>2, <1>3, <1>4, <1>5, <1>6 DEF ValidateNext


LEMMA ReadyStep ==
    ASSUME ProgressInv, LiveInv, PlanInv, BuiltInv, DiagnosesInv, ClaimsInv, TrustInv,
           ReadyInv, [StagesNext]_stagesVars
    PROVE  ReadyInv'
<1>1. CASE UNCHANGED stagesVars
  BY <1>1, ReadyStutter
<1>2. CASE BuildStep /\ UNCHANGED <<callVars, held>>
  BY <1>2, ReadyBuild
<1>3. CASE ToolNext /\ UNCHANGED held
  BY <1>3, ReadyTools
<1>4. CASE UNCHANGED stageVars /\ CallStage /\ UNCHANGED held
  BY <1>4, ReadyCall
<1>5. CASE UNCHANGED stageVars /\ ValidateNext /\ UNCHANGED held
  BY <1>5, ReadyValidate
<1>6. CASE UNCHANGED stageVars /\ BenchmarkNext
  BY <1>6, ReadyBenchmark
<1>7. CASE UNCHANGED stageVars /\ DiagnoseNext
  BY <1>7, ReadyDiagnose
<1> QED
  BY <1>1, <1>2, <1>3, <1>4, <1>5, <1>6, <1>7 DEF StagesNext

\* What a low-level build publishes with vectors can be validated, for any model,
\* wiring, split and configuration, and whatever was called before: a validation that
\* names an AR or none, and modes, is not refused.  The index selects all slices and
\* their vector, the transformed models give every golden that a mode is fed with, the
\* device finds what each slice takes, and each requested mode can be compared.
THEOREM ValidationsAccepted == StagesSpec => []PublishedIsValidatable
<1>1. StagesInit => KnownInv /\ ReadyInv
  BY KnownInit, ReadyInit
<1>2. (KnownInv /\ ReadyInv) /\ [StagesNext]_stagesVars => (KnownInv /\ ReadyInv)'
  <2> SUFFICES ASSUME KnownInv, ReadyInv, [StagesNext]_stagesVars
               PROVE  KnownInv' /\ ReadyInv'
    OBVIOUS
  <2>1. ReadyInv'
    BY ReadyStep DEF KnownInv
  <2> QED
    BY <2>1, KnownStep
<1>3. KnownInv /\ ReadyInv => PublishedIsValidatable
  BY DEF ReadyInv
<1> QED
  BY <1>1, <1>2, <1>3, PTL DEF StagesSpec

=============================================================================
