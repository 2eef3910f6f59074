----------------------------- MODULE PlanGuard -----------------------------
(***************************************************************************)
(* What a plan revision may change: guard and review of                     *)
(* loop/plan_revision.py, and the chain of revisions stage 3 earns under     *)
(* them. guard compares a proposal with the pair in force and with nothing  *)
(* older, so what it keeps of stage 2's pair it keeps step by step.         *)
(*                                                                         *)
(* A proposal is any member of Replies(pair); well_formed is what the schema *)
(* promises of it that guard relies on.                                     *)
(***************************************************************************)
EXTENDS PlanPair

CONSTANTS
  StageTwoPairs,  \* the pairs [port, tests] stage 2 may write
  Replies(_),     \* the pairs a debug turn may propose, given the one in force
  PlanRevisions   \* C.PLAN_REVISIONS

VARIABLES
  first,     \* the pair stage 2 wrote
  inforce,   \* the pair in force
  revision,  \* how many revisions have been accepted
  onrecord   \* what the revision records list as warnings

planVars == <<first, inforce, revision, onrecord>>

-----------------------------------------------------------------------------
(* The field table *)

\* _FROZEN_TOP
FROZEN_TOP == {"feature_name", "host", "host_revision", "spec_inputs_used"}

\* _PORT_COLLECTIONS: what identifies an entry, and every field a revision may
\* not change. The code lists the fields it may.
PORT_COLLECTIONS ==
  [knobs |-> [key |-> "spec_pointer", frozen |-> {"spec_parameter", "macro", "default"}],
   host_knobs |-> [key |-> "name", frozen |-> {"macro", "default"}],
   spec_map |-> [key |-> "spec_pointer", frozen |-> {"spec_item"}],
   interface_resolutions |-> [key |-> "spec_pointer", frozen |-> {"need"}],
   open_questions |-> [key |-> "question", frozen |-> {"assumption"}]]

\* Mutant: an entry's traces may be revised.
TESTS_COLLECTIONS_Traces ==
  [correctness |-> [key |-> "id",
     frozen |-> {"kind", "feature_state", "pass_condition", "clean_tree_passed", "spec_pointer"}],
   performance |-> [key |-> "id",
     frozen |-> {"metric", "direction", "block_threshold", "baseline"}]]

\* _TESTS_COLLECTIONS: `run` of a performance entry has a rule of its own.
TESTS_COLLECTIONS ==
  [correctness |-> [key |-> "id",
     frozen |-> {"kind", "feature_state", "pass_condition", "clean_tree_passed", "spec_pointer"}],
   performance |-> [key |-> "id",
     frozen |-> {"metric", "direction", "trace_list", "traces", "block_threshold", "baseline"}]]

\* _FIDELITY
FIDELITY == [exact |-> 0, fallback |-> 1, unavailable |-> 2]

-----------------------------------------------------------------------------
(* The comparer *)

\* _entries: the entry under a key is the first that has it.
entry(doc, name, key, k) ==
  LET at == {i \in DOMAIN doc[name] : doc[name][i][key] = k}
  IN doc[name][CHOOSE i \in at : \A j \in at : i <= j]

\* Mutant: an entry that disappears is not compared.
collection_kept_Deleted(old, new, name, table) ==
  LET key == table[name].key IN
  \A k \in Values(old[name], key) \cap Values(new[name], key) :
    \A f \in table[name].frozen : entry(old, name, key, k)[f] = entry(new, name, key, k)[f]

\* _check_collection: append-only, and no frozen field of an entry moves.
collection_kept(old, new, name, table) ==
  LET key == table[name].key IN
  \A k \in Values(old[name], key) :
    /\ k \in Values(new[name], key)
    /\ \A f \in table[name].frozen : entry(old, name, key, k)[f] = entry(new, name, key, k)[f]

\* _check_frozen_top
top_kept(old, new) == \A f \in FROZEN_TOP : old[f] = new[f]

\* _check_metric_keys, _check_tolerance
metrics_kept(old, new) ==
  /\ old.metric_keys \subseteq new.metric_keys
  /\ old.baseline_rel_tol = new.baseline_rel_tol

\* _check_smoke: the named list stays, the inline workloads only grow.
smoke_kept(old, new) ==
  /\ old.smoke.trace_list = new.smoke.trace_list
  /\ old.smoke.traces \subseteq new.smoke.traces

\* _check_performance_run: against a recorded baseline only the measured side
\* goes through `run`, so there it is frozen.
run_kept(old, new) ==
  \A k \in Values(old.performance, "id") \cap Values(new.performance, "id") :
    LET was == entry(old, "performance", "id", k)
        now == entry(new, "performance", "id", k)
    IN was.baseline.source = "recorded" => was.run = now.run

\* _check_host_storage: once there is a number, it is that number.
host_storage_kept(old, new) ==
  old.host_storage.baseline_bits # 0 =>
    new.host_storage.baseline_bits = old.host_storage.baseline_bits

\* _check_feature_enable, its errors.
enable_kept(old, new) ==
  /\ old.feature_enable.name = new.feature_enable.name
  /\ old.feature_enable.macro = new.feature_enable.macro

\* _check_rejected_alternatives: alternative -> reason, append-only.
rejected_kept(old, new) ==
  \A a \in DOMAIN old.rejected_alternatives :
    /\ a \in DOMAIN new.rejected_alternatives
    /\ new.rejected_alternatives[a] = old.rejected_alternatives[a]

\* guard, its errors: does the proposal keep what the pair in force demands?
guard(old, new) ==
  /\ top_kept(old.port, new.port)
  /\ top_kept(old.tests, new.tests)
  /\ metrics_kept(old.tests, new.tests)
  /\ smoke_kept(old.tests, new.tests)
  /\ run_kept(old.tests, new.tests)
  /\ enable_kept(old.port, new.port)
  /\ host_storage_kept(old.port, new.port)
  /\ rejected_kept(old.port, new.port)
  /\ \A name \in DOMAIN PORT_COLLECTIONS :
       collection_kept(old.port, new.port, name, PORT_COLLECTIONS)
  /\ \A name \in DOMAIN TESTS_COLLECTIONS :
       collection_kept(old.tests, new.tests, name, TESTS_COLLECTIONS)

status(port, k) == entry(port, "interface_resolutions", "spec_pointer", k).status

\* Has the resolution of this need moved away from the paper?
less_faithful(old, new, k) == FIDELITY[status(new, k)] > FIDELITY[status(old, k)]

\* Mutant: only a need that becomes unavailable is warned about.
lost_fidelity_Unavailable(old, new) ==
  {k \in Values(old.interface_resolutions, "spec_pointer") :
     status(new, k) = "unavailable" /\ less_faithful(old, new, k)}

\* _check_fidelity: what a revision makes less faithful is recorded.
lost_fidelity(old, new) ==
  {k \in Values(old.interface_resolutions, "spec_pointer")
       \cap Values(new.interface_resolutions, "spec_pointer") : less_faithful(old, new, k)}

\* _check_feature_enable, its warnings.
restated(old, new) ==
  {f \in {"default_off", "off_path"} : old.feature_enable[f] # new.feature_enable[f]}

\* parse_reply: the entries under test are lists, a resolution is of a known kind.
well_formed(pair) ==
  /\ DOMAIN pair.tests.correctness \subseteq Nat
  /\ DOMAIN pair.tests.performance \subseteq Nat
  /\ \A k \in Values(pair.port.interface_resolutions, "spec_pointer") :
       status(pair.port, k) \in DOMAIN FIDELITY

\* review and blocking: the schema, and nothing of severity error.
review(old, new) == well_formed(new) /\ run_checks(new.port, new.tests) /\ guard(old, new)

\* make_plan writes only pairs that pass its checks; C.PLAN_REVISIONS is a number.
ASSUME StageTwoAssumption ==
  /\ PlanRevisions \in Nat
  /\ \A pair \in StageTwoPairs :
       well_formed(pair) /\ run_all_checks(pair.port, pair.tests)

-----------------------------------------------------------------------------
(* The chain of revisions *)

PlanInit ==
  /\ first \in StageTwoPairs
  /\ inforce = first
  /\ revision = 0
  /\ onrecord = {}

\* Mutant: one revision more than the budget.
revisionsLeft_OneMore == revision <= PlanRevisions

\* The budget counts the revisions on disk, those of earlier jobs included.
revisionsLeft == revision < PlanRevisions

\* _consider_revision: a proposal that passes review is committed with what the
\* review found.
Revise(new) ==
  /\ revisionsLeft
  /\ new \in Replies(inforce)
  /\ review(inforce, new)
  /\ inforce' = new
  /\ revision' = revision + 1
  /\ onrecord' = onrecord \cup lost_fidelity(inforce.port, new.port)
                          \cup restated(inforce.port, new.port)
  /\ UNCHANGED first

\* A proposal that is refused, twice, or past the budget leaves the pair in force.
PlanNext == \E new \in Replies(inforce) : Revise(new)

PlanSpec == PlanInit /\ [][PlanNext]_planVars

-----------------------------------------------------------------------------
(* Properties *)

\* Is every entry of the one still an entry of the other, with these fields?
still_there(was, now, key, fields) ==
  \A i \in DOMAIN was : \E j \in DOMAIN now :
    now[j][key] = was[i][key] /\ \A f \in fields : now[j][f] = was[i][f]

\* What stage 2 asked the port to prove is asked still, after any number of
\* revisions that were each judged against the last one only: the same entries
\* with the same conditions, thresholds and workloads, nothing looser to compare
\* with, and the host's own storage as it was measured ("it would lower the bar
\* the gate holds you to", repair_prompt).
StageTwoDemandsKept ==
  LET tests == first.tests IN
  /\ still_there(tests.correctness, inforce.tests.correctness, "id",
                 {"kind", "feature_state", "pass_condition"})
  /\ still_there(tests.performance, inforce.tests.performance, "id",
                 {"metric", "direction", "block_threshold", "baseline", "trace_list", "traces"})
  /\ \A i \in DOMAIN tests.performance :
       tests.performance[i].baseline.source = "recorded" =>
         \E j \in DOMAIN inforce.tests.performance :
           /\ inforce.tests.performance[j].id = tests.performance[i].id
           /\ inforce.tests.performance[j].run = tests.performance[i].run
  /\ tests.smoke.traces \subseteq inforce.tests.smoke.traces
  /\ tests.metric_keys \subseteq inforce.tests.metric_keys
  /\ tests.baseline_rel_tol = inforce.tests.baseline_rel_tol
  /\ first.port.host_storage.baseline_bits # 0 =>
       inforce.port.host_storage.baseline_bits = first.port.host_storage.baseline_bits

\* A resolution further from the paper than stage 2 said, and an off path that
\* is told differently, are in a revision record a person reads ("never
\* silent", _check_fidelity; _check_feature_enable), also when no single
\* revision took the whole way. Of two resolutions of one need the code reads
\* the first.
LossIsOnRecord ==
  /\ \A k \in Values(first.port.interface_resolutions, "spec_pointer") :
       less_faithful(first.port, inforce.port, k) => k \in onrecord
  /\ \A f \in {"default_off", "off_path"} :
       inforce.port.feature_enable[f] # first.port.feature_enable[f] => f \in onrecord
=============================================================================
