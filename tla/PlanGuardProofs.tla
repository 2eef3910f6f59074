-------------------------- MODULE PlanGuardProofs --------------------------
(***************************************************************************)
(* PlanGuard, for every spec, every pair stage 2 may write, every reply of a *)
(* debug turn and every budget of revisions: what stage 2 demands is kept     *)
(* and what is lost is on record, though each revision is compared with the  *)
(* one before it only. The same of Gem5Host is in Gem5Proofs.               *)
(*                                                                         *)
(* The invariant compares entries the way guard does, key by key and first   *)
(* entry first: then one step extends it by transitivity. That an entry of   *)
(* stage 2's own documents is the first under its key follows from the ids   *)
(* being distinct, which run_checks demands of every pair.                  *)
(***************************************************************************)
EXTENDS PlanGuard, TLAPS

\* The documents' fields a revision may not change, by the entries' keys.
TestsKept(old, new) ==
  \A name \in DOMAIN TESTS_COLLECTIONS : collection_kept(old, new, name, TESTS_COLLECTIONS)

DemandsInv ==
  /\ TestsKept(first.tests, inforce.tests)
  /\ run_kept(first.tests, inforce.tests)
  /\ smoke_kept(first.tests, inforce.tests)
  /\ metrics_kept(first.tests, inforce.tests)
  /\ host_storage_kept(first.port, inforce.port)

PairInv == \A pair \in {first, inforce} : well_formed(pair) /\ run_checks(pair.port, pair.tests)

RecordInv ==
  /\ Values(first.port.interface_resolutions, "spec_pointer")
       \subseteq Values(inforce.port.interface_resolutions, "spec_pointer")
  /\ LossIsOnRecord

IInv == DemandsInv /\ PairInv /\ RecordInv

-----------------------------------------------------------------------------
(* The relations guard compares by *)

\* What guard keeps of a collection it keeps over two steps.
LEMMA CollectionKeptTrans ==
  ASSUME NEW a, NEW b, NEW c, NEW name, NEW table,
         collection_kept(a, b, name, table), collection_kept(b, c, name, table)
  PROVE  collection_kept(a, c, name, table)
BY DEF collection_kept

\* ... and of all the collections of a test plan.
LEMMA TestsKeptTrans ==
  ASSUME NEW a, NEW b, NEW c, TestsKept(a, b), TestsKept(b, c)
  PROVE  TestsKept(a, c)
BY CollectionKeptTrans DEF TestsKept

\* The fields of a test plan's entries that stay.
LEMMA EntryKept ==
  ASSUME NEW a, NEW b, TestsKept(a, b)
  PROVE  /\ \A k \in Values(a.correctness, "id") :
              /\ k \in Values(b.correctness, "id")
              /\ \A f \in {"kind", "feature_state", "pass_condition"} :
                   entry(b, "correctness", "id", k)[f] = entry(a, "correctness", "id", k)[f]
         /\ \A k \in Values(a.performance, "id") :
              /\ k \in Values(b.performance, "id")
              /\ \A f \in {"metric", "direction", "block_threshold", "baseline",
                           "trace_list", "traces"} :
                   entry(b, "performance", "id", k)[f] = entry(a, "performance", "id", k)[f]
<1>1. collection_kept(a, b, "correctness", TESTS_COLLECTIONS)
  BY DEF TestsKept, TESTS_COLLECTIONS
<1>2. collection_kept(a, b, "performance", TESTS_COLLECTIONS)
  BY DEF TestsKept, TESTS_COLLECTIONS
<1> QED BY <1>1, <1>2 DEF collection_kept, TESTS_COLLECTIONS

\* A run that stays, over two steps: the baseline of its entry stays as well.
LEMMA RunKeptTrans ==
  ASSUME NEW a, NEW b, NEW c, TestsKept(a, b), TestsKept(b, c),
         run_kept(a, b), run_kept(b, c)
  PROVE  run_kept(a, c)
<1> SUFFICES ASSUME NEW k \in Values(a.performance, "id") \cap Values(c.performance, "id"),
                    entry(a, "performance", "id", k).baseline.source = "recorded"
             PROVE  entry(a, "performance", "id", k).run = entry(c, "performance", "id", k).run
  BY DEF run_kept
<1>1. /\ k \in Values(b.performance, "id")
      /\ entry(b, "performance", "id", k)["baseline"] = entry(a, "performance", "id", k)["baseline"]
  BY EntryKept
<1>2. entry(a, "performance", "id", k).run = entry(b, "performance", "id", k).run
  BY <1>1 DEF run_kept
<1>3. entry(b, "performance", "id", k).run = entry(c, "performance", "id", k).run
  BY <1>1 DEF run_kept
<1> QED BY <1>2, <1>3

\* An entry of a collection with distinct ids is the first under its id.
LEMMA EntryAt ==
  ASSUME NEW doc, NEW name, DOMAIN doc[name] \subseteq Nat, Distinct(doc[name], "id"),
         NEW i \in DOMAIN doc[name]
  PROVE  entry(doc, name, "id", doc[name][i].id) = doc[name][i]
<1> DEFINE at == {j \in DOMAIN doc[name] : doc[name][j]["id"] = doc[name][i].id}
<1>1. at = {i}
  BY DEF Distinct
<1>2. (CHOOSE x \in at : \A y \in at : x <= y) = i
  BY <1>1
<1> QED BY <1>2 DEF entry

\* An entry is at its place: the converse, for a key that is there.
LEMMA EntryIsThere ==
  ASSUME NEW doc, NEW name, DOMAIN doc[name] \subseteq Nat, Distinct(doc[name], "id"),
         NEW k \in Values(doc[name], "id")
  PROVE  \E j \in DOMAIN doc[name] : doc[name][j] = entry(doc, name, "id", k) /\ doc[name][j].id = k
<1>1. PICK j \in DOMAIN doc[name] : doc[name][j]["id"] = k
  BY DEF Values
<1>2. entry(doc, name, "id", doc[name][j].id) = doc[name][j]
  BY EntryAt
<1> QED BY <1>1, <1>2

-----------------------------------------------------------------------------
(* The invariant *)

\* What the checks say of the ids of a pair's entries.
LEMMA IdsDistinct ==
  ASSUME NEW pair, well_formed(pair), run_checks(pair.port, pair.tests)
  PROVE  /\ DOMAIN pair.tests.correctness \subseteq Nat
         /\ DOMAIN pair.tests.performance \subseteq Nat
         /\ Distinct(pair.tests.correctness, "id")
         /\ Distinct(pair.tests.performance, "id")
BY DEF well_formed, run_checks, references_hold

LEMMA InitInv == ASSUME PlanInit PROVE IInv
<1>1. first \in StageTwoPairs /\ inforce = first /\ onrecord = {}
  BY DEF PlanInit
<1>2. PairInv
  BY <1>1, StageTwoAssumption DEF PairInv, run_all_checks
<1>3. DemandsInv
  BY <1>1 DEF DemandsInv, TestsKept, collection_kept, run_kept, smoke_kept, metrics_kept,
              host_storage_kept
<1>4. RecordInv
  <2>1. \A k \in Values(first.port.interface_resolutions, "spec_pointer") :
          ~less_faithful(first.port, inforce.port, k)
    <3> SUFFICES ASSUME NEW k \in Values(first.port.interface_resolutions, "spec_pointer")
                 PROVE  ~less_faithful(first.port, first.port, k)
      BY <1>1
    <3>1. status(first.port, k) \in DOMAIN FIDELITY
      BY <1>2 DEF PairInv, well_formed
    <3> QED BY <3>1 DEF less_faithful, FIDELITY
  <2> QED BY <1>1, <2>1 DEF RecordInv, LossIsOnRecord
<1> QED BY <1>2, <1>3, <1>4 DEF IInv

\* A revision keeps the demands: guard holds of it, and the relations compose.
LEMMA ReviseDemands ==
  ASSUME IInv, NEW new, Revise(new)
  PROVE  DemandsInv'
<1>1. guard(inforce, new) /\ inforce' = new /\ first' = first
  BY DEF Revise, review
<1>2. TestsKept(inforce.tests, new.tests) /\ run_kept(inforce.tests, new.tests)
  BY <1>1 DEF guard, TestsKept
<1>3. TestsKept(first.tests, new.tests)
  BY <1>2, TestsKeptTrans DEF IInv, DemandsInv
<1>4. run_kept(first.tests, new.tests)
  BY <1>2, RunKeptTrans DEF IInv, DemandsInv
<1>5. smoke_kept(first.tests, new.tests) /\ metrics_kept(first.tests, new.tests)
  BY <1>1 DEF guard, IInv, DemandsInv, smoke_kept, metrics_kept
<1>6. host_storage_kept(first.port, new.port)
  BY <1>1 DEF guard, IInv, DemandsInv, host_storage_kept
<1> QED BY <1>1, <1>3, <1>4, <1>5, <1>6 DEF DemandsInv

\* A need that is less faithful than at first became so now or was so before.
LEMMA ReviseRecord ==
  ASSUME IInv, NEW new, Revise(new)
  PROVE  RecordInv'
<1>1. /\ guard(inforce, new) /\ well_formed(new)
      /\ inforce' = new /\ first' = first
      /\ onrecord' = onrecord \cup lost_fidelity(inforce.port, new.port)
                              \cup restated(inforce.port, new.port)
  BY DEF Revise, review
<1> DEFINE Needs(port) == Values(port.interface_resolutions, "spec_pointer")
<1>2. Needs(inforce.port) \subseteq Needs(new.port)
  <2>1. collection_kept(inforce.port, new.port, "interface_resolutions", PORT_COLLECTIONS)
    BY <1>1 DEF guard, PORT_COLLECTIONS
  <2> QED BY <2>1 DEF collection_kept, PORT_COLLECTIONS
<1>3. Needs(first.port) \subseteq Needs(inforce.port)
  BY DEF IInv, RecordInv
<1>4. \A k \in Needs(first.port) : less_faithful(first.port, new.port, k) => k \in onrecord'
  <2> SUFFICES ASSUME NEW k \in Needs(first.port), less_faithful(first.port, new.port, k)
               PROVE  k \in onrecord'
    OBVIOUS
  <2>1. CASE less_faithful(inforce.port, new.port, k)
    BY <1>1, <1>2, <1>3, <2>1 DEF lost_fidelity
  <2>2. CASE ~less_faithful(inforce.port, new.port, k)
    <3>1. /\ status(first.port, k) \in DOMAIN FIDELITY
          /\ status(inforce.port, k) \in DOMAIN FIDELITY
          /\ status(new.port, k) \in DOMAIN FIDELITY
      BY <1>1, <1>2, <1>3 DEF IInv, PairInv, well_formed
    <3>2. less_faithful(first.port, inforce.port, k)
      BY <2>2, <3>1 DEF less_faithful, FIDELITY
    <3> QED BY <1>1, <3>2 DEF IInv, RecordInv, LossIsOnRecord
  <2> QED BY <2>1, <2>2
<1>5. \A f \in {"default_off", "off_path"} :
        new.port.feature_enable[f] # first.port.feature_enable[f] => f \in onrecord'
  BY <1>1 DEF IInv, RecordInv, LossIsOnRecord, restated
<1> QED BY <1>1, <1>2, <1>3, <1>4, <1>5 DEF RecordInv, LossIsOnRecord

LEMMA StepInv == ASSUME IInv, [PlanNext]_planVars PROVE IInv'
<1>1. CASE UNCHANGED planVars
  BY <1>1 DEF IInv, DemandsInv, PairInv, RecordInv, LossIsOnRecord, planVars
<1>2. ASSUME NEW new, Revise(new) PROVE IInv'
  <2>1. PairInv'
    BY <1>2 DEF IInv, PairInv, Revise, review
  <2> QED BY <1>2, <2>1, ReviseDemands, ReviseRecord DEF IInv
<1> QED BY <1>1, <1>2 DEF PlanNext

\* The invariant implies what the runs check.
LEMMA InvDemands == ASSUME IInv PROVE StageTwoDemandsKept
<1> DEFINE was == first.tests
           now == inforce.tests
<1>1. /\ DOMAIN was.correctness \subseteq Nat /\ Distinct(was.correctness, "id")
      /\ DOMAIN was.performance \subseteq Nat /\ Distinct(was.performance, "id")
      /\ DOMAIN now.correctness \subseteq Nat /\ Distinct(now.correctness, "id")
      /\ DOMAIN now.performance \subseteq Nat /\ Distinct(now.performance, "id")
  BY IdsDistinct DEF IInv, PairInv
<1>2. TestsKept(was, now)
  BY DEF IInv, DemandsInv
<1>at. \A name \in {"correctness", "performance"} : \A k \in Values(now[name], "id") :
         \E j \in DOMAIN now[name] : now[name][j] = entry(now, name, "id", k) /\ now[name][j].id = k
  <2> SUFFICES ASSUME NEW name \in {"correctness", "performance"}, NEW k \in Values(now[name], "id")
               PROVE  \E j \in DOMAIN now[name] :
                        now[name][j] = entry(now, name, "id", k) /\ now[name][j].id = k
    OBVIOUS
  <2>1. DOMAIN now[name] \subseteq Nat /\ Distinct(now[name], "id")
    BY <1>1
  <2> QED BY <2>1, EntryIsThere
<1>3. still_there(was.correctness, now.correctness, "id", {"kind", "feature_state", "pass_condition"})
  <2> SUFFICES ASSUME NEW i \in DOMAIN was.correctness
               PROVE  \E j \in DOMAIN now.correctness :
                        /\ now.correctness[j]["id"] = was.correctness[i]["id"]
                        /\ \A f \in {"kind", "feature_state", "pass_condition"} :
                             now.correctness[j][f] = was.correctness[i][f]
    BY DEF still_there
  <2>1. was.correctness[i].id \in Values(was.correctness, "id")
    BY DEF Values
  <2>2. entry(was, "correctness", "id", was.correctness[i].id) = was.correctness[i]
    BY <1>1, EntryAt
  <2>3. PICK j \in DOMAIN now.correctness :
          /\ now.correctness[j] = entry(now, "correctness", "id", was.correctness[i].id)
          /\ now.correctness[j].id = was.correctness[i].id
    <3>1. was.correctness[i].id \in Values(now["correctness"], "id")
      BY <1>2, <2>1, EntryKept
    <3> QED BY <3>1, <1>at
  <2> QED BY <1>2, <2>1, <2>2, <2>3, EntryKept
<1>4. ASSUME NEW i \in DOMAIN was.performance
      PROVE  \E j \in DOMAIN now.performance :
               /\ now.performance[j].id = was.performance[i].id
               /\ \A f \in {"metric", "direction", "block_threshold", "baseline",
                            "trace_list", "traces"} :
                    now.performance[j][f] = was.performance[i][f]
               /\ was.performance[i].baseline.source = "recorded" =>
                    now.performance[j].run = was.performance[i].run
  <2>1. was.performance[i].id \in Values(was.performance, "id")
    BY DEF Values
  <2>2. entry(was, "performance", "id", was.performance[i].id) = was.performance[i]
    BY <1>1, EntryAt
  <2>3. was.performance[i].id \in Values(now["performance"], "id")
    BY <1>2, <2>1, EntryKept
  <2>4. PICK j \in DOMAIN now.performance :
          /\ now.performance[j] = entry(now, "performance", "id", was.performance[i].id)
          /\ now.performance[j].id = was.performance[i].id
    BY <2>3, <1>at
  <2>5. was.performance[i].baseline.source = "recorded" =>
          now.performance[j].run = was.performance[i].run
    BY <2>1, <2>2, <2>3, <2>4 DEF IInv, DemandsInv, run_kept
  <2>6. \A f \in {"metric", "direction", "block_threshold", "baseline", "trace_list", "traces"} :
          now.performance[j][f] = was.performance[i][f]
    BY <1>2, <2>1, <2>2, <2>4, EntryKept
  <2> QED BY <2>4, <2>5, <2>6
<1>5. still_there(was.performance, now.performance, "id",
                  {"metric", "direction", "block_threshold", "baseline", "trace_list", "traces"})
  BY <1>4 DEF still_there
<1>6. \A i \in DOMAIN was.performance :
        was.performance[i].baseline.source = "recorded" =>
          \E j \in DOMAIN now.performance :
            /\ now.performance[j].id = was.performance[i].id
            /\ now.performance[j].run = was.performance[i].run
  BY <1>4
<1> QED BY <1>3, <1>5, <1>6
        DEF StageTwoDemandsKept, IInv, DemandsInv, smoke_kept, metrics_kept, host_storage_kept

-----------------------------------------------------------------------------
(* Theorems *)

\* After any number of revisions stage 2's demands stand as stage 2 wrote them
\* (guard, review).
THEOREM DemandsKept == PlanSpec => []StageTwoDemandsKept
<1>1. PlanInit => IInv
  BY InitInv
<1>2. IInv /\ [PlanNext]_planVars => IInv'
  BY StepInv
<1>3. IInv => StageTwoDemandsKept
  BY InvDemands
<1> QED BY <1>1, <1>2, <1>3, PTL DEF PlanSpec

\* Fidelity that is lost, in however many steps, is in a revision record
\* (_check_fidelity).
THEOREM LossOnRecord == PlanSpec => []LossIsOnRecord
<1>1. PlanInit => IInv
  BY InitInv
<1>2. IInv /\ [PlanNext]_planVars => IInv'
  BY StepInv
<1>3. IInv => LossIsOnRecord
  BY DEF IInv, RecordInv
<1> QED BY <1>1, <1>2, <1>3, PTL DEF PlanSpec
=============================================================================
