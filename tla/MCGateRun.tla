------------------------------ MODULE MCGateRun ------------------------------
(***************************************************************************)
(* Test plans for GateRun: small ones that share commands between entries   *)
(* and states, in both bindings of the enable knob and both run modes. What *)
(* is left out for size: a plan that does both measurements by command, and *)
(* a feature-off side in a plan that does one by command after two entries   *)
(* of opposite states.                                                      *)
(***************************************************************************)
EXTENDS GateRun

AnyExit == {"zero", "other"}

\* metrics_equal_baseline, the entry every checked plan has
FeatureOff == [kind |-> "feature_off_baseline", command |-> "cbp", state |-> "off",
               passes |-> [exits |-> AnyExit, hits |-> {TRUE}]]

\* exit_zero on the same command
Works == [kind |-> "other", command |-> "cbp", state |-> "both",
          passes |-> [exits |-> {"zero"}, hits |-> BOOLEAN]]

\* stdout_excludes with allow_nonzero_exit, on a command of its own
NoPanic == [kind |-> "other", command |-> "test", state |-> "on",
            passes |-> [exits |-> AnyExit, hits |-> {FALSE}]]

CorrectnessLists == {<<Works, FeatureOff>>, <<NoPanic, FeatureOff>>, <<NoPanic>>}

MCTestPlans ==
  {p \in [rebuild_per_state : BOOLEAN,
          correctness : CorrectnessLists,
          smoke : Modes,
          performance : {<<[mode |-> m, measured |-> b, companion |-> b]>> :
                           m \in Modes, b \in BOOLEAN}] :
     /\ "host_adapter" \in {p.smoke, p.performance[1].mode}
     /\ \/ p.correctness # <<NoPanic, FeatureOff>>
        \/ {p.smoke, p.performance[1].mode} = {"host_adapter"}
        \/ ~p.performance[1].measured}

MCTraceList == <<"t1", "t2">>
=============================================================================
