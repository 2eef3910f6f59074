------------------------------ MODULE PlanPair ------------------------------
(***************************************************************************)
(* A port plan and its test plan, and what loop/plan_checks.py demands of   *)
(* the pair. Findings of severity error only; the checks of wording          *)
(* (patterns, hedges, budget language) and the warnings are left out.       *)
(*                                                                         *)
(* A pointer into the spec is the name of what it points at, so an entry     *)
(* echoes its pointer correctly when its own name for it is the same. A      *)
(* field that may be missing or null is 0, {} or "none" then.               *)
(***************************************************************************)
EXTENDS Naturals, Sequences, FiniteSets

CONSTANTS
  Spec,       \* feature_name, items, needs, parameters, defaults, unit_tests
  Files,      \* the files of the host checkout
  TraceLists, \* the traces of the repository's trace lists, by name
  Recorded    \* the metrics the recorded baseline holds, by pointer

\* One field of every entry of a collection.
Values(entries, field) == {entries[i][field] : i \in DOMAIN entries}

\* No two entries agree on the field.
Distinct(entries, field) ==
  \A i, j \in DOMAIN entries : entries[i][field] = entries[j][field] => i = j

\* _traces_of: an inline list goes before a named one.
traces_of(entry) ==
  IF entry.traces # {} THEN entry.traces
  ELSE IF entry.trace_list \in DOMAIN TraceLists THEN TraceLists[entry.trace_list]
  ELSE {}

\* _check_coverage: what the spec has and no entry of the pair maps.
uncovered(port, tests) ==
  (Spec.items \ Values(port.spec_map, "spec_pointer"))
  \cup (Spec.needs \ Values(port.interface_resolutions, "spec_pointer"))
  \cup (Spec.parameters \ Values(port.knobs, "spec_pointer"))
  \cup (Spec.unit_tests \
          {tests.correctness[i].spec_pointer : i \in
             {j \in DOMAIN tests.correctness :
                tests.correctness[j].kind = "spec_unit_test"}})

\* The hook ids that spec_map, interface_resolutions and steps name.
hooks_named(port) ==
  UNION Values(port.spec_map, "hook_ids")
  \cup UNION Values(port.interface_resolutions, "hook_ids")
  \cup UNION Values(port.steps, "hook_ids")

\* _check_references: hook ids and test ids are unique and known.
references_hold(port, tests) ==
  LET correctness == Values(tests.correctness, "id")
      performance == Values(tests.performance, "id")
  IN
  /\ Distinct(port.hook_points, "id")
  /\ hooks_named(port) \subseteq Values(port.hook_points, "id")
  /\ Distinct(tests.correctness, "id") /\ Distinct(tests.performance, "id")
  /\ correctness \cap performance = {}
  /\ port.risks \subseteq correctness \cup performance

\* _check_pointers: every pointer resolves, every echo is of what it points at.
pointers_hold(port, tests) ==
  LET spec == Spec.items \cup Spec.needs \cup Spec.parameters \cup Spec.unit_tests IN
  /\ \A i \in DOMAIN port.spec_map :
       LET e == port.spec_map[i] IN e.spec_pointer \in spec /\ e.spec_item = e.spec_pointer
  /\ \A i \in DOMAIN port.interface_resolutions :
       LET e == port.interface_resolutions[i] IN
       e.spec_pointer \in spec /\ e.need = e.spec_pointer
  /\ \A i \in DOMAIN port.knobs :
       LET e == port.knobs[i] IN e.spec_pointer \in spec /\ e.spec_parameter = e.spec_pointer
  /\ Values(port.open_questions, "spec_pointer") \subseteq spec \cup {"none"}
  /\ Values(tests.correctness, "spec_pointer") \subseteq spec \cup {"none"}

\* expected_macro, expected_host_macro: the defines params_header emits.
expected_macro(name) == <<"SR_", name>>
expected_host_macro(name) == <<"HOST_", name>>

\* _check_knobs: a knob is under the macro of its parameter, at its default.
knobs_hold(port) ==
  /\ \A i \in DOMAIN port.knobs :
       LET knob == port.knobs[i] IN
       /\ knob.macro = expected_macro(knob.spec_parameter)
       /\ knob.spec_pointer \in Spec.parameters =>
            knob.default = Spec.defaults[knob.spec_pointer]
  /\ Distinct(port.knobs, "macro")

\* _check_host_knobs: a host knob is under its macro, drives a symbol of its
\* own, ships the value of the line that was read, and allows that value.
\* `observed` is the line: its symbol, its value and the files it occurs in.
host_knobs_hold(port) ==
  /\ \A i \in DOMAIN port.host_knobs :
       LET knob == port.host_knobs[i] IN
       /\ knob.macro = expected_host_macro(knob.name)
       /\ knob.default \in knob.range
       /\ knob.observed.symbol = knob.host_symbol
       /\ knob.observed.value = knob.default
       /\ knob.file \in Files \cap knob.observed.files
  /\ Distinct(port.host_knobs, "name")
  /\ Distinct(port.host_knobs, "macro")
  /\ Distinct(port.host_knobs, "host_symbol")

\* _check_host_storage: with host knobs, the terms read only them and sum to
\* the bits the plan declares. `sum` is their value at the clean tree's.
host_storage_holds(port) ==
  port.host_knobs # <<>> =>
    /\ port.host_storage.reads \subseteq Values(port.host_knobs, "name")
    /\ port.host_storage.baseline_bits # 0 =>
         port.host_storage.sum = port.host_storage.baseline_bits

\* _check_enable_knob: the knob that turns the feature on is bound one way,
\* and no entry's environment sets it under its name.
enable_knob_holds(port, tests) ==
  LET enable == port.feature_enable IN
  /\ enable.name \in Spec.parameters =>
       \E i \in DOMAIN port.knobs :
         /\ port.knobs[i].spec_parameter = enable.name
         /\ port.knobs[i].macro = enable.macro
         /\ port.knobs[i].binding = enable.binding
  /\ \A i \in DOMAIN tests.correctness : enable.name \notin tests.correctness[i].env

\* _check_pair: the two documents are one port of the spec.
pair_agrees(port, tests) ==
  /\ port.feature_name = tests.feature_name
  /\ port.host = tests.host
  /\ port.feature_name = Spec.feature_name
  /\ port.host_revision = tests.host_revision
  /\ port.spec_inputs_used = Spec.inputs_used

\* _check_test_plan: the metrics are known, the baseline entry runs with the
\* feature off, and no entry asks for what no port can do.
test_plan_holds(tests) ==
  /\ \E i \in DOMAIN tests.correctness :
       tests.correctness[i].kind = "feature_off_baseline"
  /\ \A i \in DOMAIN tests.correctness :
       LET entry == tests.correctness[i] IN
       /\ entry.kind = "feature_off_baseline" => entry.feature_state = "off"
       /\ ~ (entry.feature_state = "both" /\ entry.pass_condition.kind = "metrics_equal_baseline")
       /\ ~ /\ entry.kind = "existing_regression"
            /\ ~entry.clean_tree_passed
            /\ entry.pass_condition.kind = "exit_zero"
       /\ entry.pass_condition.metrics \subseteq tests.metric_keys
  /\ Values(tests.performance, "metric") \subseteq tests.metric_keys

\* _check_ranking_metric: on cbp2025, G5 judges what stage 4 ranks by.
ranking_metric_holds(tests) ==
  tests.host = "cbp2025" =>
    \A i \in DOMAIN tests.performance :
      tests.performance[i].metric = "mpki" /\ tests.performance[i].direction = "decrease"

\* _check_checkout: a hook to modify is there, a hook to create is not.
checkout_holds(port) ==
  \A i \in DOMAIN port.hook_points :
    (port.hook_points[i].file \in Files) <=> (port.hook_points[i].action = "modify")

\* _check_trace_lists: what measures names traces the repository has.
trace_lists_hold(tests) ==
  /\ traces_of(tests.smoke) # {}
  /\ \A i \in DOMAIN tests.performance : traces_of(tests.performance[i]) # {}

\* _check_baseline_pointers: a comparison finds its metrics in the recording.
baseline_pointers_hold(tests) ==
  \A i \in DOMAIN tests.correctness :
    LET condition == tests.correctness[i].pass_condition
        metrics == IF condition.metrics # {} THEN condition.metrics ELSE tests.metric_keys
    IN condition.kind = "metrics_equal_baseline" =>
         /\ condition.pointer \in DOMAIN Recorded
         /\ metrics \subseteq Recorded[condition.pointer]

\* run_checks as plan_revision.review calls it: with the checkout, without the
\* recorded baseline and without this repository.
run_checks(port, tests) ==
  /\ uncovered(port, tests) = {}
  /\ references_hold(port, tests)
  /\ pointers_hold(port, tests)
  /\ knobs_hold(port)
  /\ host_knobs_hold(port)
  /\ host_storage_holds(port)
  /\ enable_knob_holds(port, tests)
  /\ pair_agrees(port, tests)
  /\ test_plan_holds(tests)
  /\ ranking_metric_holds(tests)
  /\ checkout_holds(port)

\* run_checks as make_plan calls it: with everything.
run_all_checks(port, tests) ==
  /\ run_checks(port, tests)
  /\ trace_lists_hold(tests)
  /\ baseline_pointers_hold(tests)
=============================================================================
