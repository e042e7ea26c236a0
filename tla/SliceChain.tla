----------------------------- MODULE SliceChain -----------------------------
(***************************************************************************)
(* SliceChainRunner, src/qairt_agent/runtime/chain.py: the slices of a     *)
(* model are executed one after the other, each fed with tensors of the    *)
(* vector, with outputs of the slices before it and with the state that    *)
(* the previous step of a sequence has left; in teacher-forced mode with   *)
(* goldens instead.                                                        *)
(*                                                                         *)
(* A tensor's value is the record [by, step, noise]: the slice, or         *)
(* "vector", that has produced it and in which step, and the slices whose  *)
(* numerical deviation it carries.  A device deviates in the slices of     *)
(* `noisy`; ONNX Runtime, which provides the references, in none.          *)
(***************************************************************************)
EXTENDS RuntimeIndex

Value(by, step, noise) == [by |-> by, step |-> step, noise |-> noise]

Given(tensors, step) == [t \in tensors |-> Value("vector", step, {})]

\* dict.update: a later value of a name is kept over an earlier one.
Over(new, old) ==
    [n \in DOMAIN new \cup DOMAIN old |-> IF n \in DOMAIN new THEN new[n] ELSE old[n]]

\* _run_once, the inputs of one slice that there is no value for.  `run` holds
\* the tensors available in this step and the native state, `golden` the values
\* that are forced upon the slice: whatever comes from another slice needs one.
Missing(route, mode, golden, run) ==
    {t \in route.inputs \ DOMAIN golden :
        IF t.state
        THEN mode = "teacher_forced" \/ StateSlot(t) \notin DOMAIN run.state
        ELSE \/ mode = "teacher_forced" /\ t \in route.from_previous
             \/ t \notin DOMAIN run.available}

\* Fault: what the slices before have left is preferred to the goldens.
SliceInputsChained(route, golden, run) ==
    [t \in route.inputs |->
        IF t.state /\ StateSlot(t) \in DOMAIN run.state
        THEN run.state[StateSlot(t)]
        ELSE IF t \in DOMAIN run.available THEN run.available[t]
        ELSE golden[t]]

SliceInputs(route, golden, run) ==
    [t \in route.inputs |->
        IF t \in DOMAIN golden THEN golden[t]
        ELSE IF t.state THEN run.state[StateSlot(t)]
        ELSE run.available[t]]

\* The goldens that are forced upon a slice.
Golden(runner, route, goldens) ==
    IF runner.mode = "teacher_forced" /\ route.slice \in DOMAIN goldens
    THEN goldens[route.slice] ELSE << >>

\* An output deviates where an input does or the device itself.
Noise(runner, route, inputs) ==
    (UNION {inputs[t].noise : t \in route.inputs}) \cup (runner.noisy \cap {route.slice})

\* The execution of one slice, and the native state it leaves.
Invocation(runner, route, golden, run) ==
    LET inputs == SliceInputs(route, golden, run)
        value == Value(route.slice, run.step, Noise(runner, route, inputs))
    IN  [slice |-> route.slice, step |-> run.step, ar |-> run.ar, inputs |-> inputs,
         outputs |-> [t \in route.outputs |-> value],
         state |-> [x \in {StateSlot(t) : t \in {u \in route.outputs : u.state}}
                      |-> value]]

\* One slice: the error of a missing input or graph, or its execution.  The
\* outputs become available and its state outputs the native state.
RunSlice(runner, route, goldens, run) ==
    LET golden == Golden(runner, route, goldens)
        done == Invocation(runner, route, golden, run)
    IN  IF run.failed \/ run.ar \notin route.ars
           \/ Missing(route, runner.mode, golden, run) # {}
        THEN [run EXCEPT !.failed = TRUE]
        ELSE [run EXCEPT !.executions = Append(@, done),
                         !.available = Over(done.outputs, @),
                         !.state = Over(done.state, @)]

\* The run after each of the routes.
AfterSlices(runner, s, begun) ==
    LET after[i \in 0 .. Len(runner.routes)] ==
            IF i = 0 THEN begun
            ELSE RunSlice(runner, runner.routes[i], s.goldens, after[i - 1])
    IN  after

\* A step of a sequence: what is available is the step's own inputs; the
\* native state is what the previous step has left.
Begun(s, run) == [run EXCEPT !.available = s.inputs, !.ar = s.ar, !.step = @ + 1]

RunOnce(runner, s, run) ==
    AfterSlices(runner, s, Begun(s, run))[Len(runner.routes)]

\* The run after each of the steps, from a native state.
AfterSteps(runner, steps, state) ==
    LET after[k \in 0 .. Len(steps)] ==
            IF k = 0
            THEN [failed |-> FALSE, step |-> 0, ar |-> 0, available |-> << >>,
                  state |-> state, executions |-> << >>]
            ELSE RunOnce(runner, steps[k], after[k - 1])
    IN  after

\* run_sequence of a runner [routes, mode, noisy] over steps [ar, inputs,
\* goldens].  run_device_chain and run_teacher_forced have one step.
RunSequence(runner, steps, state) == AfterSteps(runner, steps, state)[Len(steps)]

\* Fault: the last slice's state is not looked for.
StateButLast(routes, inputs) ==
    LET others == UNION {routes[i].inputs : i \in DOMAIN routes \ {Len(routes)}}
        found == {t \in others : t.state /\ t \in DOMAIN inputs}
    IN  [x \in {StateSlot(t) : t \in found} |->
            inputs[CHOOSE t \in found : StateSlot(t) = x]]

\* _initial_native_state_from_routes: the state tensors found in the vector.
StateFromVector(routes, inputs) ==
    LET found == {t \in UNION {r.inputs : r \in Elements(routes)} :
                    t.state /\ t \in DOMAIN inputs}
    IN  [x \in {StateSlot(t) : t \in found} |->
            inputs[CHOOSE t \in found : StateSlot(t) = x]]

\* outputs_by_slice and final_outputs.
OutputsBySlice(run) ==
    [s \in {e.slice : e \in Elements(run.executions)} |->
        (CHOOSE e \in Elements(run.executions) : e.slice = s).outputs]

Whole(tensors) == [x \in {"model"} |-> tensors]

FinalOutputs(run) == Whole(Last(run.executions).outputs)

-----------------------------------------------------------------------------
\* Where the input t of slice s comes from in step k of the undivided model:
\* the slice that produces it, the same slot in the step before, or the vector.
TrueSource(routes, t, k) ==
    LET producers == {r.slice : r \in {q \in Elements(routes) :
                        IF t.state
                        THEN \E x \in q.outputs :
                               x.state /\ StateSlot(x) = StateSlot(t)
                        ELSE t \in q.outputs}}
    IN  IF producers = {} \/ (t.state /\ k = 1)
        THEN {"vector"} ELSE producers
=============================================================================
