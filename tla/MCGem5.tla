------------------------------- MODULE MCGem5 -------------------------------
(***************************************************************************)
(* A small plan for the gem5 host, and the revisions stage 3 may propose to  *)
(* it: one change of one field each, allowed or not, harmless or not.        *)
(***************************************************************************)
EXTENDS Gem5Host

MCSpec == [feature_name |-> "f", items |-> {"i"}, needs |-> {"n"}, parameters |-> {"p"},
           defaults |-> [p |-> 4], unit_tests |-> {}, inputs_used |-> {"isa"}]
MCFiles == {"bpred.cc"}
MCTraceLists == [w1 |-> {"w1"}, all |-> {"w1", "w2"}]
MCRecorded == [all |-> {"cond_mpki"}, w1 |-> {"cond_mpki"}, w2 |-> {"cond_mpki"}]
MCWorkloads == {"w1", "w2"}
MCLists == {{"w1"}, {"w1", "w2"}}

MCPort(how) ==
  [feature_name |-> "f", host |-> "gem5", host_revision |-> "r", spec_inputs_used |-> {"isa"},
   hook_points |-> <<[id |-> "h", action |-> "modify", file |-> "bpred.cc"]>>,
   steps |-> <<[hook_ids |-> {"h"}]>>,
   spec_map |-> <<[spec_pointer |-> "i", spec_item |-> "i", realization |-> "inline",
                   hook_ids |-> {"h"}]>>,
   interface_resolutions |-> <<[spec_pointer |-> "n", need |-> "n", status |-> "exact",
                                hook_ids |-> {"h"}]>>,
   knobs |-> <<[spec_pointer |-> "p", spec_parameter |-> "p", macro |-> <<"SR_", "p">>,
                default |-> 4, binding |-> "compile_time_define"]>>,
   host_knobs |-> <<>>,
   host_storage |-> [baseline_bits |-> 0, reads |-> {}, sum |-> 0],
   open_questions |-> <<>>,
   feature_enable |-> [name |-> "enable", macro |-> "ENABLE", binding |-> how,
                       default_off |-> TRUE, off_path |-> "guarded"],
   rejected_alternatives |-> <<>>,
   risks |-> {"off"}]

Correct(id, kind, state, condition, workload) ==
  [id |-> id, kind |-> kind, feature_state |-> state,
   pass_condition |-> [kind |-> condition, metrics |-> {}, pointer |-> workload],
   clean_tree_passed |-> TRUE, spec_pointer |-> "none", command |-> id, env |-> {}]

MCTests(source) ==
  [feature_name |-> "f", host |-> "gem5", host_revision |-> "r", spec_inputs_used |-> {"isa"},
   metric_keys |-> {"cond_mpki"}, baseline_rel_tol |-> 0,
   smoke |-> [trace_list |-> "none", traces |-> {"w1", "w2"}, run |-> "host_adapter"],
   correctness |-> <<Correct("off", "feature_off_baseline", "off", "metrics_equal_baseline", "w1"),
                     Correct("on", "other", "on", "exit_zero", "none")>>,
   performance |-> <<[id |-> "gain", metric |-> "cond_mpki", direction |-> "decrease",
                      trace_list |-> "w1", traces |-> {}, block_threshold |-> 1,
                      baseline |-> [source |-> source, pointer |-> "w1"],
                      run |-> "host_adapter"]>>]

MCPairs ==
  {[port |-> MCPort("compile_time_define"), tests |-> MCTests("measure_feature_off")],
   [port |-> MCPort("runtime_env"), tests |-> MCTests("recorded")]}

\* One debug turn's proposals.
PortEdits(p) ==
  {[p EXCEPT !.interface_resolutions[1].status = s] : s \in {"exact", "fallback", "unavailable"}}
  \cup {[p EXCEPT !.feature_enable.off_path = "removed"],
        [p EXCEPT !.feature_enable.binding = "python_param"]}

TestsEdits(t) ==
  {[t EXCEPT !.correctness = Front(@)],
   [t EXCEPT !.correctness[2].feature_state = "off"],
   [t EXCEPT !.correctness = Append(@, Correct("more", "other", "off", "metrics_equal_baseline", "w2"))],
   [t EXCEPT !.performance = <<>>],
   [t EXCEPT !.performance[1].trace_list = "all"],
   [t EXCEPT !.performance[1].block_threshold = 0],
   [t EXCEPT !.smoke.traces = {"w1"}]}

MCReplies(pair) ==
  {[pair EXCEPT !.port = p] : p \in PortEdits(pair.port)}
  \cup {[pair EXCEPT !.tests = t] : t \in TestsEdits(pair.tests)}
=============================================================================
