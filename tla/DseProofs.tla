----------------------------- MODULE DseProofs -----------------------------
(***************************************************************************)
(* DseSearch, for any knobs, formulas, wirings and proposals, any budgets    *)
(* and any number of jobs: scores belong to their headers, only live knobs   *)
(* are credited, only repeats are skipped, only the best are promoted, and    *)
(* the verdict compares like with like.                                     *)
(*                                                                         *)
(* The search tree has one writer at a time in the phases that count: an     *)
(* orphaned actor may only be alive before Launch replaces it, and then the  *)
(* preflight knows that it was disturbed (PreflightInv); a job promotes only *)
(* when no actor is alive, so the log it ranks does not move any more         *)
(* (FinalistsInv, VariantsInv). While it does move, every screened header is *)
(* in the cache and no other (LogInv).                                      *)
(***************************************************************************)
EXTENDS DseSearch, FiniteSetTheorems, SequenceTheorems, TLAPS

-----------------------------------------------------------------------------
(* Sequences *)

\* The places of a sequence are the numbers up to its length.
LEMMA SeqFacts ==
  ASSUME NEW S, NEW s \in Seq(S)
  PROVE  /\ Len(s) \in Nat /\ DOMAIN s = 1..Len(s) /\ \A i \in 1..Len(s) : s[i] \in S
         /\ s # <<>> <=> Len(s) > 0
OBVIOUS

\* A function on the first n numbers is a sequence of length n.
LEMMA IsSequence ==
  ASSUME NEW S, NEW n \in Nat, NEW s \in [1..n -> S]
  PROVE  s \in Seq(S) /\ Len(s) = n
OBVIOUS

\* Append adds one place at the end, and nothing else.
LEMMA AppendFacts ==
  ASSUME NEW S, NEW s \in Seq(S), NEW e \in S
  PROVE  /\ Append(s, e) \in Seq(S) /\ Len(Append(s, e)) = Len(s) + 1
         /\ DOMAIN Append(s, e) = 1..(Len(s) + 1)
         /\ \A i \in 1..Len(s) : Append(s, e)[i] = s[i]
         /\ Append(s, e)[Len(s) + 1] = e
OBVIOUS

\* Tail moves every place but the first down by one.
LEMMA TailFacts ==
  ASSUME NEW S, NEW s \in Seq(S), s # <<>>
  PROVE  /\ Tail(s) \in Seq(S) /\ Len(Tail(s)) = Len(s) - 1
         /\ Head(s) = s[1] /\ Head(s) \in S /\ 1 \in DOMAIN s
         /\ \A i \in DOMAIN Tail(s) : Tail(s)[i] = s[i + 1] /\ i + 1 \in DOMAIN s
         /\ \A i \in DOMAIN s : i > 1 => i - 1 \in DOMAIN Tail(s)
OBVIOUS

-----------------------------------------------------------------------------
(* Finite orders *)

\* A strict total order R of the members of S.
Orders(R, S) ==
  /\ \A x \in S : <<x, x>> \notin R
  /\ \A x, y, z \in S : <<x, y>> \in R /\ <<y, z>> \in R => <<x, z>> \in R
  /\ \A x, y \in S : x = y \/ <<x, y>> \in R \/ <<y, x>> \in R

\* A finite set can be put in order: the place of a member is the number of
\* members before it.
LEMMA InOrder ==
  ASSUME NEW S, IsFiniteSet(S), NEW R, Orders(R, S)
  PROVE  \E f \in [1..Cardinality(S) -> S] :
           \A i, j \in 1..Cardinality(S) : i < j => <<f[i], f[j]>> \in R
<1> DEFINE n == Cardinality(S)
           before(x) == {y \in S : <<y, x>> \in R}
           place == [x \in S |-> Cardinality(before(x)) + 1]
<1>1. n \in Nat
  BY FS_CardinalityType
<1>2. ASSUME NEW x \in S
      PROVE  /\ IsFiniteSet(before(x)) /\ Cardinality(before(x)) \in Nat
             /\ Cardinality(before(x)) < n
  <2>1. before(x) \in SUBSET S /\ x \notin before(x)
    BY DEF Orders
  <2>2. /\ IsFiniteSet(before(x)) /\ Cardinality(before(x)) <= n
        /\ n = Cardinality(before(x)) => S = before(x)
    BY <2>1, FS_Subset
  <2>3. Cardinality(before(x)) \in Nat
    BY <2>2, FS_CardinalityType
  <2> QED BY <1>1, <2>1, <2>2, <2>3
<1>3. place \in [S -> 1..n]
  <2>1. \A x \in S : Cardinality(before(x)) + 1 \in 1..n
    <3> HIDE DEF n, before
    <3> QED BY <1>1, <1>2
  <2> QED BY <2>1
<1>4. ASSUME NEW x \in S, NEW y \in S, <<x, y>> \in R
      PROVE  place[x] < place[y]
  <2>1. before(x) \in SUBSET before(y) /\ x \in before(y) \ before(x)
    BY <1>4 DEF Orders
  <2>2. /\ Cardinality(before(x)) <= Cardinality(before(y))
        /\ Cardinality(before(y)) = Cardinality(before(x)) => before(y) = before(x)
    BY <1>2, <2>1, FS_Subset
  <2>3. Cardinality(before(x)) < Cardinality(before(y))
    <3> HIDE DEF before
    <3> QED BY <1>2, <2>1, <2>2
  <2>4. place[x] = Cardinality(before(x)) + 1 /\ place[y] = Cardinality(before(y)) + 1
    OBVIOUS
  <2> HIDE DEF before, place
  <2> QED BY <1>2, <2>3, <2>4
<1> HIDE DEF place, before
<1>5. place \in Injection(S, 1..n)
  <2>1. \A x, y \in S : place[x] = place[y] => x = y
    <3> SUFFICES ASSUME NEW x \in S, NEW y \in S, place[x] = place[y], x # y
                 PROVE  FALSE
      OBVIOUS
    <3>1. place[x] \in Nat /\ place[y] \in Nat
      BY <1>1, <1>3
    <3>2. CASE <<x, y>> \in R
      BY <1>4, <3>1, <3>2
    <3>3. CASE <<y, x>> \in R
      BY <1>4, <3>1, <3>3
    <3> QED BY <3>2, <3>3 DEF Orders
  <2> QED BY <1>3, <2>1 DEF Injection, IsInjective
<1>6. IsFiniteSet(1..n) /\ Cardinality(1..n) = n
  <2> HIDE DEF n
  <2> QED BY <1>1, FS_Interval
<1>7. place \in Surjection(S, 1..n)
  BY <1>5, <1>6, FS_Injection
<1> DEFINE f == [i \in 1..n |-> CHOOSE x \in S : place[x] = i]
<1>8. \A i \in 1..n : f[i] \in S /\ place[f[i]] = i
  BY <1>7 DEF Surjection
<1>9. f \in [1..n -> S]
  BY <1>8
<1> HIDE DEF f
<1>10. ASSUME NEW i \in 1..n, NEW j \in 1..n, i < j
       PROVE  <<f[i], f[j]>> \in R
  <2>1. f[i] # f[j]
    BY <1>1, <1>8, <1>10
  <2>2. <<f[j], f[i]>> \notin R
    BY <1>1, <1>4, <1>8, <1>10
  <2> QED BY <1>8, <2>1, <2>2 DEF Orders
<1> QED BY <1>9, <1>10

\* What is in order has every member, once.
LEMMA InOrderIsOnto ==
  ASSUME NEW S, IsFiniteSet(S), NEW R, Orders(R, S),
         NEW f \in [1..Cardinality(S) -> S],
         \A i, j \in 1..Cardinality(S) : i < j => <<f[i], f[j]>> \in R
  PROVE  \A x \in S : \E i \in 1..Cardinality(S) : f[i] = x
<1> DEFINE n == Cardinality(S)
<1>1. n \in Nat
  BY FS_CardinalityType
<1>2. IsFiniteSet(1..n) /\ Cardinality(1..n) = n
  <2> HIDE DEF n
  <2> QED BY <1>1, FS_Interval
<1>3. ASSUME NEW i \in 1..n, NEW j \in 1..n, f[i] = f[j]
      PROVE  i = j
  <2>1. f[i] \in S /\ <<f[i], f[j]>> \notin R /\ <<f[j], f[i]>> \notin R
    BY <1>3 DEF Orders
  <2>2. ~(i < j) /\ ~(j < i)
    BY <2>1
  <2> QED BY <1>1, <2>2
<1>4. f \in Injection(1..n, S)
  BY <1>3 DEF Injection, IsInjective
<1>5. f \in Surjection(1..n, S)
  BY <1>2, <1>4, FS_Injection
<1> QED BY <1>5 DEF Surjection

\* A finite set has a first member.
LEMMA HasFirst ==
  ASSUME NEW S, IsFiniteSet(S), S # {}, NEW R, Orders(R, S)
  PROVE  \E x \in S : \A y \in S : x = y \/ <<x, y>> \in R
<1>1. PICK f \in [1..Cardinality(S) -> S] :
        \A i, j \in 1..Cardinality(S) : i < j => <<f[i], f[j]>> \in R
  BY InOrder
<1>2. Cardinality(S) \in Nat /\ Cardinality(S) # 0
  BY FS_CardinalityType, FS_EmptySet
<1>3. f[1] \in S
  BY <1>2
<1>4. \A y \in S : \E i \in 1..Cardinality(S) : f[i] = y
  BY <1>1, InOrderIsOnto
<1>5. ASSUME NEW y \in S
      PROVE  f[1] = y \/ <<f[1], y>> \in R
  <2>1. PICK i \in 1..Cardinality(S) : f[i] = y
    BY <1>4
  <2>2. CASE i = 1
    BY <2>1, <2>2
  <2>3. CASE 1 < i
    BY <1>1, <1>2, <2>1, <2>3
  <2> QED BY <1>2, <2>2, <2>3
<1> QED BY <1>3, <1>5

-----------------------------------------------------------------------------
(* The invariant *)

Places == {"idle", "copy", "preflight", "preflight make", "searching", "select",
           "variants", "variants make"}
Testing == {"preflight", "preflight make"}
Promoting == {"variants", "variants make"}

Binaries == [edition : Nat, code : {"none", "extra"},
             values : UNION {[reads -> Int] : reads \in SUBSET Names}]
Candidates == [header : Headers, mpki : Scores \cup {0}, binary : Binaries \cup {None},
               repeat_of : Nat]
Variants == [of : Nat, binary : Binaries]

\* Types, and what of a tree or a copy of it is always there.
TypeInv ==
  /\ port \in [edition : 1..MaxPorts, reads : SUBSET Names]
  /\ tree \in [edition : 0..port.edition, reads : SUBSET Names, header : Headers \cup {None}]
  /\ actor \in [alive : BOOLEAN, at : {"idle", "overlay", "make", "run"},
                header : Headers \cup {None}, binary : Binaries \cup {None}]
  /\ log \in Seq(Candidates) /\ Len(log) <= MaxEvals
  /\ pc \in Places /\ jobs \in 0..MaxJobs /\ disturbed \in BOOLEAN
  /\ outcome.status \in {"none", "preflight_failed", "build_failed", "incomplete", "promoted"}
  /\ outcome = [status |-> outcome.status, winner |-> outcome.winner, scores |-> outcome.scores]
  /\ pc \in {"copy", "select", "searching"} \cup Testing =>
       finalists = <<>> /\ binaries = <<>> /\ outcome = NoOutcome
  /\ actor.alive \/ pc \in Testing \cup Promoting => tree.header \in Headers

\* An evaluation under way is of a header that is not in the cache.
ActorInv ==
  actor.at # "idle" =>
    /\ actor.alive /\ actor.header \in Headers /\ Len(log) < MaxEvals
    /\ \A s \in screened : s.key # candidate_key(actor.header)

\* The cache has what was screened, and nothing else.
LogInv ==
  /\ \A s \in screened :
       s.id \in DOMAIN log /\ log[s.id].mpki # 0 /\ s.key = candidate_key(log[s.id].header)
  /\ \A i \in DOMAIN log :
       log[i].mpki # 0 => \E s \in screened : s.key = candidate_key(log[i].header)
  /\ \A i \in DOMAIN log : log[i].repeat_of # 0 => log[i].repeat_of \in DOMAIN log
  /\ OnlyRepeatsAreSkipped

\* The builds a preflight has left.
Test(t) == IF t \in {"first", "second"} THEN defaults ELSE variant(t)
Tests == {"first", "second"} \cup tested

\* What a knob's build may have come to, nobody having disturbed it.
Tried(n) ==
  \/ \E i \in DOMAIN todo : todo[i].of = n
  \/ digests.knobs[n] = compiled(variant(n), tree)
  \/ n \in port.reads

\* An undisturbed preflight has the tree to itself.
PreflightInv ==
  pc \in Testing =>
    /\ tree.edition = port.edition /\ tree.reads = port.reads
    /\ todo \in Seq([of : Tests, header : Headers])
    /\ pc = "preflight make" => todo # <<>>
    /\ digests = [first |-> digests.first, second |-> digests.second, knobs |-> digests.knobs]
    /\ DOMAIN digests.knobs = tested
    /\ ~disturbed =>
         /\ ~actor.alive
         /\ \A i \in DOMAIN todo : todo[i].header = Test(todo[i].of)
         /\ pc = "preflight make" => tree.header = Test(Head(todo).of)
         /\ digests.first \in {None, compiled(defaults, tree)}
         /\ digests.first = None \/ \A n \in tested : Tried(n)
         /\ \A i \in DOMAIN todo : todo[i].of = "first" => \A n \in tested : Tried(n)

\* The actor of the running search has the tree to itself.
SearchInv ==
  pc = "searching" =>
    /\ actor.alive
    /\ tree.edition = port.edition
    /\ actor.at = "make" => tree.header = actor.header
    /\ actor.at = "run" => actor.binary = compiled(actor.header, tree)
    /\ \A i \in DOMAIN log :
         log[i].mpki # 0 => log[i].binary = compiled(log[i].header, tree)

CreditInv == pc = "searching" /\ ~disturbed => tested \cap costed \subseteq tree.reads

\* While there are finalists, they are those of the log.
FinalistsInv ==
  finalists # <<>> => finalists = select_finalists /\ ~actor.alive

\* The builds of a promotion, and those that are done: the defaults come first.
VariantHeader(i) == IF i = 0 THEN defaults ELSE log[i].header
IsFinalist(i) == \E k \in DOMAIN finalists : finalists[k] = i

VariantsInv ==
  /\ binaries \in Seq(Variants) /\ Len(binaries) <= TopK + 1
  /\ \A i \in DOMAIN binaries :
       /\ i = 1 => binaries[i].of = 0
       /\ i > 1 => IsFinalist(binaries[i].of)
  /\ pc \in Promoting =>
       /\ finalists # <<>> /\ outcome = NoOutcome
       /\ tree.edition = port.edition /\ tree.reads = port.reads
       /\ todo \in Seq([of : Nat, header : Headers])
       /\ Len(binaries) + Len(todo) <= TopK + 1
       /\ binaries = <<>> => todo # <<>>
       /\ \A i \in DOMAIN todo :
            /\ IF binaries = <<>> /\ i = 1 THEN todo[i].of = 0 ELSE IsFinalist(todo[i].of)
            /\ todo[i].header = VariantHeader(todo[i].of)
       /\ pc = "variants make" => todo # <<>> /\ tree.header = VariantHeader(Head(todo).of)
       /\ \A i \in DOMAIN binaries :
            binaries[i].binary = compiled(VariantHeader(binaries[i].of), port)

\* A verdict is about the finalists it was reached with.
VerdictInv == outcome.status = "promoted" => finalists # <<>> /\ VerdictIsLikeWithLike

DseInv == TypeInv /\ ActorInv /\ LogInv /\ PreflightInv /\ SearchInv /\ CreditInv
            /\ FinalistsInv /\ VariantsInv /\ VerdictInv

-----------------------------------------------------------------------------
(* Headers, builds and knobs *)

\* A score, or the 0 that stands for none, is a natural number.
LEMMA ScoresTyped == \A v \in Scores \cup {0} : v \in Nat
<1>1. Scores \subseteq Nat \ {0}
  BY DseAssumption
<1> QED BY <1>1

\* The preflight builds headers, and a knob that has a second value is a knob.
LEMMA HeadersTyped ==
  /\ defaults \in Headers
  /\ \A t \in Tests : Test(t) \in Headers
  /\ tested \subseteq Names /\ IsFiniteSet(tested)
  /\ \A n \in tested : n # "first" /\ n # "second"
<1>1. defaults \in Headers
  BY DseAssumption DEF defaults, Headers
<1>2. ASSUME NEW n \in tested
      PROVE  n \in Names /\ alternate_value(n) \in Int
  <2>1. n \in Names /\ alternate_value(n) # None
    BY DEF tested
  <2>2. Knobs[n].range \subseteq Int
    BY <2>1, DseAssumption
  <2> QED BY <2>1, <2>2 DEF alternate_value
<1>3. \A n \in tested : variant(n) \in Headers
  BY <1>1, <1>2 DEF variant, Headers
<1>4. tested \in SUBSET Names
  BY DEF tested
<1>5. IsFiniteSet(tested)
  BY <1>4, DseAssumption, FS_Subset
<1>6. \A n \in tested : n # "first" /\ n # "second"
  BY <1>4, DseAssumption
<1> QED BY <1>1, <1>3, <1>4, <1>5, <1>6 DEF Test, Tests

\* What make compiles is a binary.
LEMMA CompiledTyped ==
  ASSUME NEW h \in Headers, NEW root, root.edition \in Nat, root.reads \in SUBSET Names
  PROVE  compiled(h, root) \in Binaries
<1>1. h.code \in {"none", "extra"} /\ h.values \in [Names -> Int]
  BY DEF Headers
<1>2. [n \in root.reads |-> h.values[n]] \in [root.reads -> Int]
  BY <1>1
<1> QED BY <1>1, <1>2 DEF compiled, Binaries

\* What a knob nothing reads is set to makes no difference to the build.
LEMMA DeadKnob ==
  ASSUME NEW n \in tested, NEW root, root.reads \subseteq Names, n \notin root.reads
  PROVE  compiled(variant(n), root) = compiled(defaults, root)
<1>1. /\ variant(n).code = defaults.code
      /\ variant(n).values = [defaults.values EXCEPT ![n] = alternate_value(n)]
  BY DEF variant, defaults
<1>2. \A m \in root.reads : variant(n).values[m] = defaults.values[m]
  BY <1>1 DEF defaults
<1>3. [m \in root.reads |-> variant(n).values[m]] = [m \in root.reads |-> defaults.values[m]]
  BY <1>2
<1> QED BY <1>1, <1>3 DEF compiled

\* A header is the same as another if its key is.
LEMMA KeyIsHeader ==
  ASSUME NEW g \in Headers, NEW h \in Headers, candidate_key(g) = candidate_key(h)
  PROVE  g = h
BY DEF candidate_key, Headers

-----------------------------------------------------------------------------
(* The selection *)

\* _screen_rank orders the evaluations.
LEMMA Ranking ==
  ASSUME log \in Seq(Candidates), NEW S \in SUBSET DOMAIN log
  PROVE  /\ IsFiniteSet(S)
         /\ Orders({p \in S \X S : ranks_before(p[1], p[2])}, S)
<1>1. Len(log) \in Nat /\ DOMAIN log = 1..Len(log)
  BY SeqFacts
<1>2. IsFiniteSet(S)
  <2>1. IsFiniteSet(1..Len(log))
    BY <1>1, FS_Interval
  <2> QED BY <1>1, <2>1, FS_Subset
<1>3. ASSUME NEW i \in S
      PROVE  i \in Nat /\ log[i].mpki \in Nat
  <2>1. i \in 1..Len(log) /\ log[i] \in Candidates
    BY <1>1, SeqFacts
  <2>2. log[i].mpki \in Scores \cup {0}
    BY <2>1 DEF Candidates
  <2> QED BY <1>1, <2>1, <2>2, ScoresTyped
<1>4. /\ \A i \in S : ~ranks_before(i, i)
      /\ \A i, j, k \in S : ranks_before(i, j) /\ ranks_before(j, k) => ranks_before(i, k)
      /\ \A i, j \in S : i = j \/ ranks_before(i, j) \/ ranks_before(j, i)
  BY <1>3 DEF ranks_before
<1> QED BY <1>2, <1>4 DEF Orders

\* ranked is every kept candidate in the order of its rank.
LEMMA RankedInOrder ==
  ASSUME log \in Seq(Candidates)
  PROVE  /\ Cardinality(kept) \in Nat
         /\ ranked \in [1..Cardinality(kept) -> kept]
         /\ \A i, j \in 1..Cardinality(kept) : i < j => ranks_before(ranked[i], ranked[j])
         /\ \A k \in kept : \E i \in 1..Cardinality(kept) : ranked[i] = k
<1> DEFINE R == {p \in kept \X kept : ranks_before(p[1], p[2])}
           n == Cardinality(kept)
<1>1. kept \in SUBSET DOMAIN log
  BY DEF kept, qualified
<1>2. IsFiniteSet(kept) /\ Orders(R, kept)
  BY <1>1, Ranking
<1>3. n \in Nat
  BY <1>2, FS_CardinalityType
<1>4. \E f \in [1..n -> kept] : \A i, j \in 1..n : i < j => <<f[i], f[j]>> \in R
  BY <1>2, InOrder
<1>5. \E f \in [1..n -> kept] : \A i, j \in DOMAIN f : i < j => ranks_before(f[i], f[j])
  BY <1>4
<1>6. /\ ranked \in [1..n -> kept]
      /\ \A i, j \in DOMAIN ranked : i < j => ranks_before(ranked[i], ranked[j])
  BY <1>5 DEF ranked
<1>7. \A i, j \in 1..n : i < j => <<ranked[i], ranked[j]>> \in R
  BY <1>6
<1> HIDE DEF R
<1>8. \A k \in kept : \E i \in 1..n : ranked[i] = k
  BY <1>2, <1>6, <1>7, InOrderIsOnto
<1> QED BY <1>3, <1>6, <1>8

\* The finalists are the first TopK of them.
LEMMA FirstOfRanked ==
  ASSUME log \in Seq(Candidates)
  PROVE  /\ select_finalists \in Seq(DOMAIN log) /\ Len(select_finalists) <= TopK
         /\ Len(select_finalists) = Cardinality(kept) \/ Len(select_finalists) = TopK
         /\ Len(select_finalists) <= Cardinality(kept)
         /\ \A i \in DOMAIN select_finalists :
              /\ i \in 1..Cardinality(kept) /\ i <= Len(select_finalists)
              /\ select_finalists[i] = ranked[i] /\ select_finalists[i] \in kept
<1> DEFINE n == Cardinality(kept)
           m == IF n < TopK THEN n ELSE TopK
<1>1. n \in Nat /\ ranked \in [1..n -> kept] /\ TopK \in Nat \ {0}
  BY RankedInOrder, DseAssumption
<1>2. m \in Nat /\ m <= n /\ m <= TopK /\ (m = n \/ m = TopK)
  <2> HIDE DEF n
  <2> QED BY <1>1
<1>3. select_finalists = [i \in 1..m |-> ranked[i]]
  <2>1. select_finalists = SubSeq(ranked, 1, m)
    BY DEF select_finalists
  <2>2. SubSeq(ranked, 1, m) = [i \in 1..m |-> ranked[i]]
    <3> HIDE DEF n, m
    <3> QED BY <1>1, <1>2
  <2> QED BY <2>1, <2>2
<1>4. \A i \in 1..m : i \in 1..n /\ ranked[i] \in kept /\ ranked[i] \in DOMAIN log
  <2>1. kept \subseteq DOMAIN log
    BY DEF kept, qualified
  <2> HIDE DEF n, m
  <2> QED BY <1>1, <1>2, <2>1
<1>5. select_finalists \in [1..m -> DOMAIN log]
  BY <1>3, <1>4
<1>6. select_finalists \in Seq(DOMAIN log) /\ Len(select_finalists) = m
  <2> HIDE DEF n, m
  <2> QED BY <1>2, <1>5, IsSequence
<1>7. \A i \in DOMAIN select_finalists :
        i \in 1..n /\ i <= m /\ select_finalists[i] = ranked[i] /\ select_finalists[i] \in kept
  <2> HIDE DEF n, m
  <2> QED BY <1>2, <1>3, <1>4
<1> QED
  <2> HIDE DEF n, m
  <2> QED BY <1>2, <1>6, <1>7 DEF n

\* A candidate's metric is a number.
LEMMA MetricTyped ==
  ASSUME log \in Seq(Candidates), NEW i \in DOMAIN log
  PROVE  i \in Nat /\ log[i].mpki \in Nat /\ log[i].header \in Headers
<1>1. i \in Nat /\ log[i] \in Candidates
  BY SeqFacts
<1>2. log[i].mpki \in Scores \cup {0} /\ log[i].header \in Headers
  BY <1>1 DEF Candidates
<1> QED BY <1>1, <1>2, ScoresTyped

\* A place behind the last finalist leaves only one reason for the cut.
LEMMA CutShort ==
  ASSUME NEW a \in Nat, NEW p \in Nat, NEW n \in Nat, NEW k, a < p, p <= n, a = n \/ a = k
  PROVE  a = k
<1>1. a < n
  OBVIOUS
<1>2. a # n
  BY <1>1
<1> QED BY <1>2

\* The finalists a log gives are the best of it, each setting once.
LEMMA TheBest ==
  ASSUME log \in Seq(Candidates), finalists = select_finalists
  PROVE  FinalistsAreTheBest
<1> DEFINE n == Cardinality(kept)
<1>1. kept \subseteq qualified /\ qualified \subseteq DOMAIN log
  BY DEF kept, qualified
<1>2. /\ n \in Nat
      /\ \A i, j \in 1..n : i < j => ranks_before(ranked[i], ranked[j])
      /\ \A k \in kept : \E i \in 1..n : ranked[i] = k
  BY RankedInOrder
<1>3. /\ finalists \in Seq(DOMAIN log)
      /\ Len(finalists) = n \/ Len(finalists) = TopK
      /\ \A i \in DOMAIN finalists :
           /\ i \in 1..n /\ i <= Len(finalists)
           /\ finalists[i] = ranked[i] /\ finalists[i] \in kept
  BY FirstOfRanked
<1> HIDE DEF n
<1>4. ASSUME NEW i \in DOMAIN finalists, NEW j \in DOMAIN finalists, i < j
      PROVE  log[finalists[i]].header.values # log[finalists[j]].header.values
  <2>1. ranks_before(finalists[i], finalists[j])
    BY <1>2, <1>3, <1>4
  <2>2. finalists[i] \in qualified /\ finalists[j] \in kept
    BY <1>1, <1>3
  <2> QED BY <2>1, <2>2 DEF kept
<1>5. ASSUME NEW i \in DOMAIN finalists, NEW j \in DOMAIN finalists, i # j
      PROVE  log[finalists[i]].header.values # log[finalists[j]].header.values
  <2>1. i \in Nat /\ j \in Nat
    BY <1>2, <1>3
  <2> QED BY <1>4, <1>5, <2>1
<1>6. ASSUME NEW c \in DOMAIN log, log[c].mpki # 0, check_static(log[c].header),
             log[c].header.values # defaults.values
      PROVE  \/ \E i \in DOMAIN finalists :
                  /\ log[finalists[i]].header.values = log[c].header.values
                  /\ log[finalists[i]].mpki <= log[c].mpki
             \/ /\ Len(finalists) = TopK
                /\ \A i \in DOMAIN finalists : log[finalists[i]].mpki <= log[c].mpki
  <2> DEFINE S == {i \in qualified : log[i].header.values = log[c].header.values}
             R == {p \in S \X S : ranks_before(p[1], p[2])}
  <2>1. c \in S /\ S \in SUBSET DOMAIN log
    BY <1>1, <1>6 DEF qualified
  <2>2. IsFiniteSet(S) /\ Orders(R, S)
    BY <2>1, Ranking
  <2>3. PICK f \in S : \A y \in S : f = y \/ <<f, y>> \in R
    <3> HIDE DEF S, R
    <3> QED BY <2>1, <2>2, HasFirst
  <2>4. \A i \in DOMAIN log : log[i].mpki \in Nat /\ i \in Nat
    BY MetricTyped
  <2>5. log[f].mpki <= log[c].mpki
    <3>1. f = c \/ ranks_before(f, c)
      BY <2>1, <2>3
    <3> QED BY <2>1, <2>4, <3>1 DEF ranks_before
  <2>6. f \in kept
    <3> SUFFICES ASSUME NEW j \in qualified,
                        log[j].header.values = log[f].header.values, ranks_before(j, f)
                 PROVE  FALSE
      BY DEF kept
    <3>1. j \in S
      OBVIOUS
    <3>2. f = j \/ ranks_before(f, j)
      BY <2>3, <3>1
    <3>3. f \in DOMAIN log /\ j \in DOMAIN log
      BY <2>1, <3>1
    <3> QED BY <2>4, <3>2, <3>3 DEF ranks_before
  <2>7. PICK p \in 1..n : ranked[p] = f
    BY <1>2, <2>6
  <2>8. CASE p \in DOMAIN finalists
    BY <1>3, <2>5, <2>7, <2>8
  <2>9. CASE p \notin DOMAIN finalists
    <3>1. Len(finalists) \in Nat /\ DOMAIN finalists = 1..Len(finalists)
      BY <1>3, SeqFacts
    <3>2. Len(finalists) < p /\ Len(finalists) = TopK
      <4>1. p \in Nat /\ p >= 1 /\ p <= n /\ n \in Nat
        BY <1>2
      <4>2. ~(p <= Len(finalists))
        BY <2>9, <3>1, <4>1
      <4>3. Len(finalists) = n \/ Len(finalists) = TopK
        BY <1>3
      <4>4. Len(finalists) < p
        BY <3>1, <4>1, <4>2
      <4> QED BY <3>1, <4>1, <4>3, <4>4, CutShort
    <3>3. ASSUME NEW i \in DOMAIN finalists
          PROVE  log[finalists[i]].mpki <= log[c].mpki
      <4>1. i < p /\ i \in 1..n /\ finalists[i] = ranked[i]
        BY <1>2, <1>3, <3>1, <3>2
      <4>2. ranks_before(finalists[i], f)
        BY <1>2, <2>7, <4>1
      <4>3. finalists[i] \in DOMAIN log /\ f \in DOMAIN log
        BY <1>1, <1>3, <2>1
      <4>4. log[finalists[i]].mpki <= log[f].mpki
        BY <2>4, <4>2, <4>3 DEF ranks_before
      <4> QED BY <2>1, <2>4, <2>5, <4>3, <4>4
    <3> QED BY <3>2, <3>3
  <2> QED BY <2>8, <2>9
<1> QED BY <1>5, <1>6 DEF FinalistsAreTheBest

\* compare_variants finds the best of the complete finalists, if there is one.
LEMMA TheWinner ==
  ASSUME binaries \in Seq(Variants),
         NEW scores \in [DOMAIN binaries -> Scores \cup {0}],
         \E i \in DOMAIN binaries : i > 1 /\ complete(scores[i])
  PROVE  LET w == winner_of(scores) IN
         /\ w \in DOMAIN binaries /\ w > 1 /\ scores[w] # 0
         /\ \A i \in DOMAIN binaries : i > 1 /\ scores[i] # 0 => scores[w] <= scores[i]
<1> DEFINE E == {i \in DOMAIN binaries : i > 1 /\ complete(scores[i])}
           leads(i, j) == scores[i] < scores[j] \/ (scores[i] = scores[j] /\ i <= j)
           R == {p \in E \X E : leads(p[1], p[2]) /\ p[1] # p[2]}
<1>1. Len(binaries) \in Nat /\ DOMAIN binaries = 1..Len(binaries)
  BY SeqFacts
<1>2. IsFiniteSet(E) /\ E # {}
  <2>1. IsFiniteSet(1..Len(binaries)) /\ E \in SUBSET (1..Len(binaries))
    BY <1>1, FS_Interval
  <2> QED BY <2>1, FS_Subset
<1>3. \A i \in E : i \in Nat /\ scores[i] \in Nat
  BY <1>1, ScoresTyped
<1>4. Orders(R, E)
  <2>1. /\ \A i, j, k \in E : leads(i, j) /\ i # j /\ leads(j, k) /\ j # k => leads(i, k) /\ i # k
        /\ \A i, j \in E : i = j \/ leads(i, j) \/ leads(j, i)
    <3> HIDE DEF E
    <3> QED BY <1>3
  <2> HIDE DEF E, leads
  <2> QED BY <2>1 DEF Orders
<1>5. \E i \in E : \A j \in E : i = j \/ <<i, j>> \in R
  <2> HIDE DEF E, R
  <2> QED BY <1>2, <1>4, HasFirst
<1>6. \E i \in E : \A j \in E : leads(i, j)
  <2>1. \A i \in E : leads(i, i)
    <3> HIDE DEF E
    <3> QED BY <1>3
  <2> HIDE DEF E, leads
  <2> QED BY <1>5, <2>1
<1>7. /\ winner_of(scores) \in E
      /\ \A j \in E : leads(winner_of(scores), j)
  BY <1>6 DEF winner_of
<1>8. \A j \in E : scores[winner_of(scores)] <= scores[j]
  <2> HIDE DEF E
  <2> QED BY <1>3, <1>7
<1> QED BY <1>7, <1>8 DEF complete

-----------------------------------------------------------------------------
(* The steps *)

\* Every step keeps the types.
LEMMA StepType == ASSUME DseInv, [Next]_vars PROVE TypeInv'
<1>1. TypeInv /\ ActorInv
  BY DEF DseInv
<1>2. /\ pc \in Testing => todo \in Seq([of : Tests, header : Headers])
      /\ pc \in Promoting => todo \in Seq([of : Nat, header : Headers])
  BY DEF DseInv, PreflightInv, VariantsInv
<1>3. Proposals \subseteq Headers /\ MaxPorts \in Nat /\ MaxJobs \in Nat /\ MaxEvals \in Nat
     /\ Wirings \subseteq SUBSET Names
  BY DseAssumption
<1>4. defaults \in Headers
  BY HeadersTyped
<1>5. CASE Reintegrate
  BY <1>1, <1>2, <1>3, <1>4, <1>5
     DEF Reintegrate, search, promotion, TypeInv, ActorInv, Places, Testing, Promoting,
          NoOutcome
<1>6. CASE JobKilled
  BY <1>1, <1>2, <1>3, <1>4, <1>6
     DEF JobKilled, JobEnds, search, promotion, TypeInv, ActorInv, Places, Testing,
          Promoting, NoOutcome
<1>7. CASE StartJob("copy")
  BY <1>1, <1>2, <1>3, <1>4, <1>7
     DEF StartJob, search, TypeInv, ActorInv, Places, Testing, Promoting, NoOutcome
<1>8. CASE StartJob("select")
  BY <1>1, <1>2, <1>3, <1>4, <1>8
     DEF StartJob, search, TypeInv, ActorInv, Places, Testing, Promoting, NoOutcome
<1>9. CASE CopyForSearch
  BY <1>1, <1>2, <1>3, <1>4, <1>9
     DEF CopyForSearch, port_copy, search, promotion, TypeInv, ActorInv, Places, Testing,
          Promoting, NoOutcome
<1>10. CASE JobOverlays
  <2>1. Head(todo).header \in Headers
    <3>1. todo # <<>> /\ (pc \in Testing \/ pc \in Promoting)
      BY <1>10 DEF JobOverlays, Testing, Promoting
    <3>2. CASE pc \in Testing
      <4>1. todo \in Seq([of : Tests, header : Headers])
        BY <1>2, <3>2
      <4>2. Head(todo) \in [of : Tests, header : Headers]
        BY <3>1, <4>1, TailFacts
      <4> QED BY <4>2
    <3>3. CASE pc \in Promoting
      <4>1. todo \in Seq([of : Nat, header : Headers])
        BY <1>2, <3>3
      <4>2. Head(todo) \in [of : Nat, header : Headers]
        BY <3>1, <4>1, TailFacts
      <4> QED BY <4>2
    <3> QED BY <3>1, <3>2, <3>3
  <2>2. tree' = [tree EXCEPT !.header = Head(todo).header]
    BY <1>10 DEF JobOverlays
  <2>3. /\ tree' \in [edition : 0..port.edition, reads : SUBSET Names,
                     header : Headers \cup {None}]
        /\ tree'.header \in Headers
    BY <1>1, <2>1, <2>2 DEF TypeInv
  <2>4. /\ port' = port /\ actor' = actor /\ log' = log /\ jobs' = jobs
        /\ disturbed' = disturbed /\ finalists' = finalists /\ binaries' = binaries
        /\ outcome' = outcome
        /\ (pc = "preflight" /\ pc' = "preflight make")
             \/ (pc = "variants" /\ pc' = "variants make")
    BY <1>10 DEF JobOverlays, search, promotion
  <2>5. /\ pc' \in Places
        /\ pc' \in {"copy", "select", "searching"} \cup Testing =>
             pc \in {"copy", "select", "searching"} \cup Testing
    BY <2>4 DEF Places, Testing
  <2> QED BY <1>1, <2>3, <2>4, <2>5 DEF TypeInv
<1>11. CASE PreflightMakes
  BY <1>1, <1>2, <1>3, <1>4, <1>11
     DEF PreflightMakes, search, promotion, TypeInv, ActorInv, Places, Testing,
          Promoting, NoOutcome
<1>12. CASE PreflightFails
  BY <1>1, <1>2, <1>3, <1>4, <1>12
     DEF PreflightFails, JobEnds, search, TypeInv, ActorInv, Places, Testing, Promoting,
          NoOutcome
<1>13. CASE Launch
  <2>1. log' = <<>> /\ log' \in Seq(Candidates) /\ Len(log') <= MaxEvals
    BY <1>3, <1>13 DEF Launch
  <2>2. /\ actor' = [alive |-> TRUE, at |-> "idle", header |-> None, binary |-> None]
        /\ pc = "preflight" /\ pc' = "searching"
        /\ port' = port /\ tree' = tree /\ jobs' = jobs /\ disturbed' = disturbed
        /\ finalists' = finalists /\ binaries' = binaries /\ outcome' = outcome
    BY <1>13 DEF Launch, new_actor, NoActor, promotion
  <2>3. /\ pc' \in Places /\ pc \in Testing
        /\ actor' \in [alive : BOOLEAN, at : {"idle", "overlay", "make", "run"},
                      header : Headers \cup {None}, binary : Binaries \cup {None}]
    BY <2>2 DEF Places, Testing
  <2> QED BY <1>1, <2>1, <2>2, <2>3 DEF TypeInv
<1>14. ASSUME NEW header \in Proposals, Repeat(header)
      PROVE  TypeInv'
  <2>1. PICK c : log' = Append(log, c) /\ c \in Candidates
    <3>1. PICK s \in screened : log' = Append(log, entry(header, 0, None, s.id))
      BY <1>14 DEF Repeat
    <3>2. s.id \in DOMAIN log
      BY DEF DseInv, LogInv
    <3>3. s.id \in Nat
      BY <1>1, <3>2, SeqFacts DEF TypeInv
    <3>4. entry(header, 0, None, s.id) \in Candidates
      BY <1>3, <1>14, <3>3 DEF entry, Candidates
    <3> QED BY <3>1, <3>4
  <2>2. log' \in Seq(Candidates) /\ Len(log') = Len(log) + 1
    BY <1>1, <2>1, AppendFacts DEF TypeInv
  <2>3. Len(log) \in Nat
    BY <1>1, SeqFacts DEF TypeInv
  <2>4. Len(log) < MaxEvals /\ actor' = actor
        /\ port' = port /\ tree' = tree /\ pc' = pc /\ jobs' = jobs /\ disturbed' = disturbed
        /\ finalists' = finalists /\ binaries' = binaries /\ outcome' = outcome
    BY <1>14 DEF Repeat, promotion
  <2>5. Len(log') <= MaxEvals
    BY <1>3, <2>2, <2>3, <2>4
  <2> QED BY <1>1, <2>2, <2>4, <2>5 DEF TypeInv
<1>15. ASSUME NEW header \in Proposals, Evaluate(header)
      PROVE  TypeInv'
  <2>1. /\ Len(log) < MaxEvals
        /\ port' = port /\ tree' = tree /\ pc' = pc /\ jobs' = jobs /\ disturbed' = disturbed
        /\ finalists' = finalists /\ binaries' = binaries /\ outcome' = outcome
    BY <1>15 DEF Evaluate, promotion
  <2>2. CASE check_static(header)
    <3>1. /\ actor' = [actor EXCEPT !.at = "overlay", !.header = header] /\ log' = log
          /\ actor.alive
      BY <1>15, <2>2 DEF Evaluate
    <3>2. /\ actor' \in [alive : BOOLEAN, at : {"idle", "overlay", "make", "run"},
                         header : Headers \cup {None}, binary : Binaries \cup {None}]
          /\ actor'.alive = actor.alive
      BY <1>1, <1>3, <3>1 DEF TypeInv
    <3> QED BY <1>1, <2>1, <3>1, <3>2 DEF TypeInv
  <2>3. CASE ~check_static(header)
    <3>1. log' = Append(log, entry(header, 0, None, 0)) /\ actor' = actor
      BY <1>15, <2>3 DEF Evaluate
    <3>2. entry(header, 0, None, 0) \in Candidates
      BY <1>3, <1>15 DEF entry, Candidates
    <3>3. log' \in Seq(Candidates) /\ Len(log') = Len(log) + 1
      BY <1>1, <3>1, <3>2, AppendFacts DEF TypeInv
    <3>4. Len(log) \in Nat
      BY <1>1, SeqFacts DEF TypeInv
    <3>5. Len(log') <= MaxEvals
      BY <1>3, <2>1, <3>3, <3>4
    <3> QED BY <1>1, <2>1, <3>1, <3>3, <3>5 DEF TypeInv
  <2> QED BY <2>2, <2>3
<1>16. CASE ActorOverlays
  BY <1>1, <1>2, <1>3, <1>4, <1>16
     DEF ActorOverlays, promotion, TypeInv, ActorInv, Places, Testing, Promoting, NoOutcome
<1>17. CASE ActorMakes
  <2>1. compiled(tree.header, tree) \in Binaries
    <3>1. tree.header \in Headers /\ tree.edition \in Nat /\ tree.reads \in SUBSET Names
      BY <1>1, <1>17 DEF ActorMakes, TypeInv
    <3> QED BY <3>1, CompiledTyped
  <2>2. /\ actor.alive
        /\ actor' = [actor EXCEPT !.at = "run", !.binary = compiled(tree.header, tree)]
        /\ log' = log
        /\ port' = port /\ tree' = tree /\ pc' = pc /\ jobs' = jobs /\ disturbed' = disturbed
        /\ finalists' = finalists /\ binaries' = binaries /\ outcome' = outcome
    BY <1>17 DEF ActorMakes, promotion
  <2>3. /\ actor' \in [alive : BOOLEAN, at : {"idle", "overlay", "make", "run"},
                       header : Headers \cup {None}, binary : Binaries \cup {None}]
        /\ actor'.alive = actor.alive
    BY <1>1, <2>1, <2>2 DEF TypeInv
  <2> QED BY <1>1, <2>2, <2>3 DEF TypeInv
<1>18. CASE ActorScores
  <2>1. PICK c : log' = Append(log, c) /\ c \in Candidates
    <3>1. PICK mpki \in Scores \cup {0} :
            log' = Append(log, entry(actor.header, mpki,
                                     IF mpki = 0 THEN None ELSE actor.binary, 0))
      BY <1>18 DEF ActorScores
    <3>2. actor.header \in Headers /\ actor.binary \in Binaries \cup {None}
      BY <1>1, <1>18 DEF ActorScores, ActorInv, TypeInv
    <3>3. entry(actor.header, mpki, IF mpki = 0 THEN None ELSE actor.binary,
         0) \in Candidates
      BY <3>2 DEF entry, Candidates
    <3> QED BY <3>1, <3>3
  <2>2. log' \in Seq(Candidates) /\ Len(log') = Len(log) + 1
    BY <1>1, <2>1, AppendFacts DEF TypeInv
  <2>3. Len(log) \in Nat
    BY <1>1, SeqFacts DEF TypeInv
  <2>4. /\ Len(log) < MaxEvals /\ actor.alive
        /\ actor' = [alive |-> TRUE, at |-> "idle", header |-> None, binary |-> None]
        /\ port' = port /\ tree' = tree /\ pc' = pc /\ jobs' = jobs /\ disturbed' = disturbed
        /\ finalists' = finalists /\ binaries' = binaries /\ outcome' = outcome
    BY <1>1, <1>18 DEF ActorScores, ActorInv, NoActor, promotion
  <2>5. Len(log') <= MaxEvals
    BY <1>3, <2>2, <2>3, <2>4
  <2> QED BY <1>1, <2>2, <2>4, <2>5 DEF TypeInv
<1>19. CASE SearchEnds
  BY <1>1, <1>2, <1>3, <1>4, <1>19
     DEF SearchEnds, JobEnds, NoActor, promotion, TypeInv, ActorInv, Places, Testing,
          Promoting, NoOutcome
<1>20. CASE Select
  <2>1. /\ port' = port /\ actor' = actor /\ log' = log /\ jobs' = jobs
        /\ binaries' = binaries /\ outcome' = outcome /\ pc = "select"
    BY <1>20 DEF Select, search
  <2>2. CASE select_finalists = <<>> \/ search_running
    <3>1. pc' = "idle" /\ disturbed' = FALSE /\ tree' = tree
      BY <1>20, <2>2 DEF Select, JobEnds
    <3>2. /\ pc' \in Places
          /\ pc' \notin {"copy", "select", "searching"} \cup Testing \cup Promoting
      BY <3>1 DEF Places, Testing, Promoting
    <3> QED BY <1>1, <2>1, <3>1, <3>2 DEF TypeInv
  <2>3. CASE ~(select_finalists = <<>> \/ search_running)
    <3>1. pc' = "variants" /\ disturbed' = disturbed /\ tree' = port_copy
      BY <1>20, <2>3 DEF Select
    <3> QED BY <1>1, <1>4, <2>1, <3>1 DEF port_copy, TypeInv, ActorInv, Places, Testing,
         Promoting, NoOutcome
  <2> QED BY <2>2, <2>3
<1>21. CASE VariantMakes
  BY <1>1, <1>2, <1>3, <1>4, <1>21
     DEF VariantMakes, JobEnds, search, TypeInv, ActorInv, Places, Testing, Promoting,
          NoOutcome
<1>22. CASE Compare
  <2>1. /\ port' = port /\ tree' = tree /\ actor' = actor /\ log' = log /\ jobs' = jobs
        /\ pc' = "idle" /\ disturbed' = FALSE
    BY <1>22 DEF Compare, JobEnds, search
  <2>2. /\ outcome'.status \in {"promoted", "incomplete"}
        /\ outcome' = [status |-> outcome'.status, winner |-> outcome'.winner,
                       scores |-> outcome'.scores]
    <3>1. PICK base, scores :
            outcome' =
             IF complete(base) /\ complete(scores[1])
                  /\ \E i \in DOMAIN binaries : i > 1 /\ complete(scores[i])
               THEN [status |-> "promoted", winner |-> winner_of(scores),
                     scores |-> <<base>> \o scores]
               ELSE [outcome EXCEPT !.status = "incomplete"]
      BY <1>22 DEF Compare
    <3> QED BY <1>1, <3>1 DEF TypeInv
  <2>3. /\ pc' \in Places
        /\ pc' \notin {"copy", "select", "searching"} \cup Testing \cup Promoting
    BY <2>1 DEF Places, Testing, Promoting
  <2> QED BY <1>1, <2>1, <2>2, <2>3 DEF TypeInv
<1>23. CASE UNCHANGED vars
  <2>1. /\ port' = port /\ tree' = tree /\ actor' = actor /\ screened' = screened
        /\ log' = log /\ pc' = pc /\ jobs' = jobs /\ todo' = todo /\ digests' = digests
        /\ disturbed' = disturbed /\ finalists' = finalists /\ binaries' = binaries
        /\ outcome' = outcome
    BY <1>23 DEF vars, search, promotion
  <2> QED BY <1>1, <2>1 DEF TypeInv
<1> QED
  BY <1>5, <1>6, <1>7, <1>8, <1>9, <1>10, <1>11, <1>12, <1>13, <1>14, <1>15, <1>16,
       <1>17, <1>18, <1>19, <1>20, <1>21, <1>22, <1>23 DEF Next

\* Every step keeps the evaluation under way apart from the cache.
LEMMA StepActor == ASSUME DseInv, [Next]_vars PROVE ActorInv'
<1>1. TypeInv /\ ActorInv
  BY DEF DseInv
<1>2. Proposals \subseteq Headers
  BY DseAssumption
<1>3. CASE Reintegrate
  BY <1>1, <1>2, <1>3
     DEF Reintegrate, search, promotion, ActorInv, TypeInv
<1>4. CASE JobKilled
  BY <1>1, <1>2, <1>4
     DEF JobKilled, JobEnds, search, promotion, ActorInv, TypeInv
<1>5. CASE StartJob("copy")
  BY <1>1, <1>2, <1>5
     DEF StartJob, search, ActorInv, TypeInv
<1>6. CASE StartJob("select")
  BY <1>1, <1>2, <1>6
     DEF StartJob, search, ActorInv, TypeInv
<1>7. CASE CopyForSearch
  BY <1>1, <1>2, <1>7
     DEF CopyForSearch, port_copy, search, promotion, ActorInv, TypeInv
<1>8. CASE JobOverlays
  BY <1>1, <1>2, <1>8
     DEF JobOverlays, search, promotion, ActorInv, TypeInv
<1>9. CASE PreflightMakes
  BY <1>1, <1>2, <1>9
     DEF PreflightMakes, search, promotion, ActorInv, TypeInv
<1>10. CASE PreflightFails
  BY <1>1, <1>2, <1>10
     DEF PreflightFails, JobEnds, search, ActorInv, TypeInv
<1>11. CASE Launch
  BY <1>1, <1>2, <1>11
     DEF Launch, new_actor, NoActor, nothing_screened, promotion, ActorInv, TypeInv
<1>12. ASSUME NEW header \in Proposals, Repeat(header)
      PROVE  ActorInv'
  BY <1>1, <1>2, <1>12
     DEF Repeat, entry, promotion, ActorInv, TypeInv
<1>13. ASSUME NEW header \in Proposals, Evaluate(header)
      PROVE  ActorInv'
  <2>1. Len(log) < MaxEvals /\ screened' = screened /\ actor.alive /\ actor.at = "idle"
        /\ \A s \in screened : s.key # candidate_key(header)
    BY <1>13 DEF Evaluate
  <2>2. CASE check_static(header)
    <3>1. log' = log /\ actor' = [actor EXCEPT !.at = "overlay", !.header = header]
      BY <1>13, <2>2 DEF Evaluate
    <3>2. actor'.alive /\ actor'.header = header /\ header \in Headers
      BY <1>1, <1>2, <1>13, <2>1, <3>1 DEF TypeInv
    <3> QED BY <2>1, <3>1, <3>2 DEF ActorInv
  <2>3. CASE ~check_static(header)
    <3>1. actor' = actor
      BY <1>13, <2>3 DEF Evaluate
    <3> QED BY <2>1, <3>1 DEF ActorInv
  <2> QED BY <2>2, <2>3
<1>14. CASE ActorOverlays
  BY <1>1, <1>2, <1>14
     DEF ActorOverlays, promotion, ActorInv, TypeInv
<1>15. CASE ActorMakes
  BY <1>1, <1>2, <1>15
     DEF ActorMakes, promotion, ActorInv, TypeInv
<1>16. CASE ActorScores
  BY <1>1, <1>2, <1>16
     DEF ActorScores, entry, NoActor, cached, promotion, ActorInv, TypeInv
<1>17. CASE SearchEnds
  BY <1>1, <1>2, <1>17
     DEF SearchEnds, JobEnds, NoActor, promotion, ActorInv, TypeInv
<1>18. CASE Select
  BY <1>1, <1>2, <1>18
     DEF Select, JobEnds, search_running, port_copy, search, ActorInv, TypeInv
<1>19. CASE VariantMakes
  BY <1>1, <1>2, <1>19
     DEF VariantMakes, JobEnds, search, ActorInv, TypeInv
<1>20. CASE Compare
  BY <1>1, <1>2, <1>20
     DEF Compare, JobEnds, search, ActorInv, TypeInv
<1>21. CASE UNCHANGED vars
  <2>1. actor' = actor /\ log' = log /\ screened' = screened
    BY <1>21 DEF vars, search
  <2> QED BY <1>1, <2>1 DEF ActorInv
<1> QED
  BY <1>3, <1>4, <1>5, <1>6, <1>7, <1>8, <1>9, <1>10, <1>11, <1>12, <1>13, <1>14, <1>15,
       <1>16, <1>17, <1>18, <1>19, <1>20, <1>21 DEF Next

\* A log entry that is no repeat of anything but what was screened, and is new to
\* the cache if it has a metric, keeps the cache true.
LEMMA LogAppend ==
  ASSUME LogInv, log \in Seq(Candidates), NEW c \in Candidates, log' = Append(log, c),
         c.repeat_of # 0 =>
           /\ c.repeat_of \in DOMAIN log /\ log[c.repeat_of].mpki # 0
           /\ log[c.repeat_of].header = c.header /\ c.mpki = 0,
         c.mpki # 0 => \A s \in screened : s.key # candidate_key(c.header),
         screened' = IF c.mpki # 0
                       THEN screened \cup {[key |-> candidate_key(c.header), id |-> Len(log) + 1]}
                       ELSE screened
  PROVE  LogInv'
<1> DEFINE n == Len(log)
<1>1. /\ n \in Nat /\ DOMAIN log = 1..n /\ DOMAIN log' = 1..(n + 1)
      /\ \A i \in 1..n : log'[i] = log[i]
      /\ log'[n + 1] = c
  BY AppendFacts, SeqFacts
<1> HIDE DEF n
<1>2. \A i \in DOMAIN log : i \in DOMAIN log' /\ log'[i] = log[i] /\ i \in Nat /\ i < n + 1
  BY <1>1
<1>3. \A i \in DOMAIN log' : i \in DOMAIN log \/ i = n + 1
  BY <1>1
<1>4. n + 1 \in DOMAIN log' /\ n + 1 \notin DOMAIN log
  BY <1>1
<1>5. screened \subseteq screened'
  OBVIOUS
<1>6. \A s \in screened' :
        /\ s.id \in DOMAIN log' /\ log'[s.id].mpki # 0
        /\ s.key = candidate_key(log'[s.id].header)
  <2> SUFFICES ASSUME NEW s \in screened'
               PROVE  /\ s.id \in DOMAIN log' /\ log'[s.id].mpki # 0
                      /\ s.key = candidate_key(log'[s.id].header)
    OBVIOUS
  <2>1. CASE s \in screened
    BY <1>2, <2>1 DEF LogInv
  <2>2. CASE s \notin screened
    <3>1. c.mpki # 0 /\ s.key = candidate_key(c.header) /\ s.id = n + 1
      BY <2>2 DEF n
    <3> QED BY <1>1, <1>4, <3>1
  <2> QED BY <2>1, <2>2
<1>7. \A i \in DOMAIN log' :
        log'[i].mpki # 0 => \E s \in screened' : s.key = candidate_key(log'[i].header)
  <2> SUFFICES ASSUME NEW i \in DOMAIN log', log'[i].mpki # 0
               PROVE  \E s \in screened' : s.key = candidate_key(log'[i].header)
    OBVIOUS
  <2>1. CASE i \in DOMAIN log
    <3>1. \E s \in screened : s.key = candidate_key(log[i].header)
      BY <1>2, <2>1 DEF LogInv
    <3> QED BY <1>2, <1>5, <2>1, <3>1
  <2>2. CASE i = n + 1
    <3> DEFINE e == [key |-> candidate_key(c.header), id |-> Len(log) + 1]
    <3>1. log'[i] = c /\ c.mpki # 0
      BY <1>1, <2>2
    <3>2. e \in screened' /\ e.key = candidate_key(c.header)
      BY <3>1
    <3> HIDE DEF e
    <3> QED BY <3>1, <3>2
  <2> QED BY <1>3, <2>1, <2>2
<1>8. \A i \in DOMAIN log' :
        log'[i].repeat_of # 0 =>
          /\ log'[i].repeat_of \in DOMAIN log'
          /\ log'[log'[i].repeat_of].mpki # 0
          /\ log'[log'[i].repeat_of].header = log'[i].header
  <2> SUFFICES ASSUME NEW i \in DOMAIN log', log'[i].repeat_of # 0
               PROVE  /\ log'[i].repeat_of \in DOMAIN log'
                      /\ log'[log'[i].repeat_of].mpki # 0
                      /\ log'[log'[i].repeat_of].header = log'[i].header
    OBVIOUS
  <2>1. CASE i \in DOMAIN log
    <3>1. /\ log[i].repeat_of # 0 /\ log[i].repeat_of \in DOMAIN log
          /\ log[log[i].repeat_of].mpki # 0
          /\ log[log[i].repeat_of].header = log[i].header
      BY <1>2, <2>1 DEF LogInv, OnlyRepeatsAreSkipped
    <3> QED BY <1>2, <2>1, <3>1
  <2>2. CASE i = n + 1
    BY <1>1, <1>2, <2>2
  <2> QED BY <1>3, <2>1, <2>2
<1>9. \A i, j \in DOMAIN log' :
        i < j /\ log'[i].mpki # 0 /\ log'[j].mpki # 0 => log'[i].header # log'[j].header
  <2> SUFFICES ASSUME NEW i \in DOMAIN log', NEW j \in DOMAIN log', i < j,
                      log'[i].mpki # 0, log'[j].mpki # 0
               PROVE  log'[i].header # log'[j].header
    OBVIOUS
  <2>1. i \in DOMAIN log
    BY <1>1, <1>3
  <2>2. CASE j \in DOMAIN log
    BY <1>2, <2>1, <2>2 DEF LogInv, OnlyRepeatsAreSkipped
  <2>3. CASE j = n + 1
    <3>1. PICK s \in screened : s.key = candidate_key(log[i].header)
      BY <1>2, <2>1 DEF LogInv
    <3>2. log'[j] = c /\ log'[i] = log[i]
      BY <1>1, <1>2, <2>1, <2>3
    <3>3. candidate_key(log[i].header) # candidate_key(c.header)
      BY <3>1, <3>2
    <3> QED BY <3>2, <3>3
  <2> QED BY <1>3, <2>2, <2>3
<1> QED BY <1>6, <1>7, <1>8, <1>9 DEF LogInv, OnlyRepeatsAreSkipped

\* Every step keeps the cache true.
LEMMA StepLog == ASSUME DseInv, [Next]_vars PROVE LogInv'
<1>1. TypeInv /\ ActorInv /\ LogInv /\ log \in Seq(Candidates)
  BY DEF DseInv, TypeInv
<1>2. Proposals \subseteq Headers
  BY DseAssumption
<1>3. CASE Reintegrate
  <2>1. log' = log /\ screened' = screened
    BY <1>3 DEF Reintegrate, search
  <2> QED BY <1>1, <2>1 DEF LogInv, OnlyRepeatsAreSkipped
<1>4. CASE JobKilled
  <2>1. log' = log /\ screened' = screened
    BY <1>4 DEF JobKilled, search
  <2> QED BY <1>1, <2>1 DEF LogInv, OnlyRepeatsAreSkipped
<1>5. CASE StartJob("copy")
  <2>1. log' = log /\ screened' = screened
    BY <1>5 DEF StartJob, search
  <2> QED BY <1>1, <2>1 DEF LogInv, OnlyRepeatsAreSkipped
<1>6. CASE StartJob("select")
  <2>1. log' = log /\ screened' = screened
    BY <1>6 DEF StartJob, search
  <2> QED BY <1>1, <2>1 DEF LogInv, OnlyRepeatsAreSkipped
<1>7. CASE CopyForSearch
  <2>1. log' = log /\ screened' = screened
    BY <1>7 DEF CopyForSearch, search
  <2> QED BY <1>1, <2>1 DEF LogInv, OnlyRepeatsAreSkipped
<1>8. CASE JobOverlays
  <2>1. log' = log /\ screened' = screened
    BY <1>8 DEF JobOverlays, search
  <2> QED BY <1>1, <2>1 DEF LogInv, OnlyRepeatsAreSkipped
<1>9. CASE PreflightMakes
  <2>1. log' = log /\ screened' = screened
    BY <1>9 DEF PreflightMakes, search
  <2> QED BY <1>1, <2>1 DEF LogInv, OnlyRepeatsAreSkipped
<1>10. CASE PreflightFails
  <2>1. log' = log /\ screened' = screened
    BY <1>10 DEF PreflightFails, search
  <2> QED BY <1>1, <2>1 DEF LogInv, OnlyRepeatsAreSkipped
<1>11. CASE Launch
  <2>1. log' = <<>> /\ screened' = {} /\ DOMAIN log' = {}
    BY <1>11 DEF Launch, nothing_screened
  <2> QED BY <2>1 DEF LogInv, OnlyRepeatsAreSkipped
<1>12. ASSUME NEW header \in Proposals, Repeat(header)
      PROVE  LogInv'
  <2>1. PICK s \in screened :
          s.key = candidate_key(header) /\ log' = Append(log, entry(header, 0, None, s.id))
    BY <1>12 DEF Repeat
  <2>2. /\ s.id \in DOMAIN log /\ log[s.id].mpki # 0
        /\ s.key = candidate_key(log[s.id].header)
    BY <1>1 DEF LogInv
  <2>3. s.id \in Nat /\ log[s.id].header \in Headers
    BY <1>1, <2>2, MetricTyped
  <2>4. header \in Headers
    BY <1>2, <1>12
  <2>5. log[s.id].header = header
    BY <2>1, <2>2, <2>3, <2>4, KeyIsHeader
  <2> DEFINE c == entry(header, 0, None, s.id)
  <2>6. /\ c \in Candidates /\ c.mpki = 0 /\ c.repeat_of = s.id /\ c.header = header
    BY <2>3, <2>4 DEF entry, Candidates
  <2>7. log' = Append(log, c) /\ screened' = screened
    BY <1>12, <2>1 DEF Repeat
  <2> HIDE DEF c
  <2> QED BY <1>1, <2>2, <2>5, <2>6, <2>7, LogAppend
<1>13. ASSUME NEW header \in Proposals, Evaluate(header)
      PROVE  LogInv'
  <2>1. CASE check_static(header)
    <3>1. log' = log /\ screened' = screened
      BY <1>13, <2>1 DEF Evaluate
    <3> QED BY <1>1, <3>1 DEF LogInv, OnlyRepeatsAreSkipped
  <2>2. CASE ~check_static(header)
    <3> DEFINE c == entry(header, 0, None, 0)
    <3>1. c \in Candidates /\ c.mpki = 0 /\ c.repeat_of = 0
      BY <1>2, <1>13 DEF entry, Candidates
    <3>2. log' = Append(log, c) /\ screened' = screened
      BY <1>13, <2>2 DEF Evaluate
    <3> HIDE DEF c
    <3> QED BY <1>1, <3>1, <3>2, LogAppend
  <2> QED BY <2>1, <2>2
<1>14. CASE ActorOverlays
  <2>1. log' = log /\ screened' = screened
    BY <1>14 DEF ActorOverlays
  <2> QED BY <1>1, <2>1 DEF LogInv, OnlyRepeatsAreSkipped
<1>15. CASE ActorMakes
  <2>1. log' = log /\ screened' = screened
    BY <1>15 DEF ActorMakes
  <2> QED BY <1>1, <2>1 DEF LogInv, OnlyRepeatsAreSkipped
<1>16. CASE ActorScores
  <2>1. PICK mpki \in Scores \cup {0} :
          /\ log' = Append(log, entry(actor.header, mpki,
                                      IF mpki = 0 THEN None ELSE actor.binary, 0))
          /\ screened' = IF cached(mpki)
                          THEN screened \cup {[key |-> candidate_key(actor.header),
                                               id |-> Len(log) + 1]}
                          ELSE screened
    BY <1>16 DEF ActorScores
  <2>2. /\ actor.header \in Headers /\ actor.binary \in Binaries \cup {None}
        /\ \A s \in screened : s.key # candidate_key(actor.header)
    BY <1>1, <1>16 DEF ActorScores, ActorInv, TypeInv
  <2> DEFINE c == entry(actor.header, mpki, IF mpki = 0 THEN None ELSE actor.binary, 0)
  <2>3. c \in Candidates /\ c.mpki = mpki /\ c.repeat_of = 0 /\ c.header = actor.header
    BY <2>2 DEF entry, Candidates
  <2>4. /\ log' = Append(log, c)
        /\ screened' = IF c.mpki # 0
                        THEN screened \cup {[key |-> candidate_key(c.header),
                                             id |-> Len(log) + 1]}
                        ELSE screened
    BY <2>1, <2>3 DEF cached
  <2> HIDE DEF c
  <2> QED BY <1>1, <2>2, <2>3, <2>4, LogAppend
<1>17. CASE SearchEnds
  <2>1. log' = log /\ screened' = screened
    BY <1>17 DEF SearchEnds
  <2> QED BY <1>1, <2>1 DEF LogInv, OnlyRepeatsAreSkipped
<1>18. CASE Select
  <2>1. log' = log /\ screened' = screened
    BY <1>18 DEF Select, search
  <2> QED BY <1>1, <2>1 DEF LogInv, OnlyRepeatsAreSkipped
<1>19. CASE VariantMakes
  <2>1. log' = log /\ screened' = screened
    BY <1>19 DEF VariantMakes, search
  <2> QED BY <1>1, <2>1 DEF LogInv, OnlyRepeatsAreSkipped
<1>20. CASE Compare
  <2>1. log' = log /\ screened' = screened
    BY <1>20 DEF Compare, search
  <2> QED BY <1>1, <2>1 DEF LogInv, OnlyRepeatsAreSkipped
<1>21. CASE UNCHANGED vars
  <2>1. log' = log /\ screened' = screened
    BY <1>21 DEF vars, search
  <2> QED BY <1>1, <2>1 DEF LogInv, OnlyRepeatsAreSkipped
<1> QED
  BY <1>3, <1>4, <1>5, <1>6, <1>7, <1>8, <1>9, <1>10, <1>11, <1>12, <1>13, <1>14, <1>15,
       <1>16, <1>17, <1>18, <1>19, <1>20, <1>21 DEF Next

\* A place of a list put together is a place of its first part or of its second.
LEMMA ConcatFacts ==
  ASSUME NEW S, NEW s \in Seq(S), NEW t \in Seq(S), NEW u, u = s \o t, NEW k \in {1, 2},
         Len(s) = k
  PROVE  /\ u \in Seq(S) /\ Len(u) = k + Len(t)
         /\ \A i \in DOMAIN u :
              (i \in DOMAIN s /\ u[i] = s[i])
                \/ (i > k /\ i - k \in DOMAIN t /\ u[i] = t[i - k])
<1>1. k \in Nat /\ DOMAIN s = 1..k /\ DOMAIN t = 1..Len(t) /\ Len(t) \in Nat
  OBVIOUS
<1>2. /\ u \in Seq(S) /\ Len(u) = k + Len(t)
      /\ \A i \in 1..(k + Len(t)) : u[i] = IF i <= k THEN s[i] ELSE t[i - k]
  BY ConcatProperties
<1>3. DOMAIN u = 1..(k + Len(t))
  BY <1>1, <1>2
<1>4. \A i \in DOMAIN u :
        (i \in DOMAIN s /\ u[i] = s[i])
          \/ (i > k /\ i - k \in DOMAIN t /\ u[i] = t[i - k])
  BY <1>1, <1>2, <1>3
<1> QED BY <1>2, <1>4

\* Behind a pair, the second part keeps its order.
LEMMA ConcatSecond ==
  ASSUME NEW S, NEW s \in Seq(S), NEW t \in Seq(S), Len(s) = 2
  PROVE  \A i \in DOMAIN t : i + 2 \in DOMAIN (s \o t) /\ (s \o t)[i + 2] = t[i]
<1>1. DOMAIN t = 1..Len(t) /\ Len(t) \in Nat
  OBVIOUS
<1>2. /\ s \o t \in Seq(S) /\ Len(s \o t) = Len(s) + Len(t)
      /\ \A i \in 1..(Len(s) + Len(t)) :
           (s \o t)[i] = IF i <= Len(s) THEN s[i] ELSE t[i - Len(s)]
  BY ConcatProperties
<1> DEFINE u == s \o t
<1>3. DOMAIN u = 1..(2 + Len(t))
  BY <1>1, <1>2
<1>4. \A i \in 1..(2 + Len(t)) : u[i] = IF i <= 2 THEN s[i] ELSE t[i - 2]
  BY <1>2
<1> HIDE DEF u
<1>5. \A i \in DOMAIN t : i + 2 \in DOMAIN u /\ u[i + 2] = t[i]
  BY <1>1, <1>3, <1>4
<1> QED BY <1>5 DEF u

\* SetToSeq leaves no member out.
LEMMA EveryMember ==
  ASSUME NEW S, IsFiniteSet(S)
  PROVE  /\ SetToSeq(S) \in Seq(S)
         /\ \A x \in S : \E i \in DOMAIN SetToSeq(S) : SetToSeq(S)[i] = x
<1> DEFINE n == Cardinality(S)
<1>1. n \in Nat /\ ExistsBijection(1..n, S)
  BY FS_CardinalityType
<1>2. \E f \in [1..n -> S] : IsInjective(f)
  BY <1>1 DEF ExistsBijection, Bijection, Injection
<1>3. SetToSeq(S) \in [1..n -> S] /\ IsInjective(SetToSeq(S))
  BY <1>2 DEF SetToSeq
<1> HIDE DEF n
<1>4. IsFiniteSet(1..n) /\ Cardinality(1..n) = n
  BY <1>1, FS_Interval
<1>5. SetToSeq(S) \in Injection(1..n, S)
  BY <1>3 DEF Injection
<1>6. SetToSeq(S) \in Surjection(1..n, S)
  BY <1>4, <1>5, FS_Injection DEF n
<1>7. SetToSeq(S) \in Seq(S)
  BY <1>1, <1>3, IsSequence
<1> QED BY <1>3, <1>6, <1>7 DEF Surjection

\* Every step keeps an undisturbed preflight what it is.
LEMMA StepPreflight == ASSUME DseInv, [Next]_vars PROVE PreflightInv'
<1>1. TypeInv /\ ActorInv /\ PreflightInv
  BY DEF DseInv
<1>2. CASE Reintegrate
  <2>1. pc' \notin Testing
    BY <1>2 DEF Reintegrate, Testing
  <2> QED BY <2>1 DEF PreflightInv
<1>3. CASE JobKilled
  <2>1. pc' \notin Testing
    BY <1>3 DEF JobKilled, JobEnds, Testing
  <2> QED BY <2>1 DEF PreflightInv
<1>4. CASE StartJob("copy")
  <2>1. pc' \notin Testing
    BY <1>4 DEF StartJob, Testing
  <2> QED BY <2>1 DEF PreflightInv
<1>5. CASE StartJob("select")
  <2>1. pc' \notin Testing
    BY <1>5 DEF StartJob, Testing
  <2> QED BY <2>1 DEF PreflightInv
<1>6. CASE CopyForSearch
  <2> DEFINE knobs == SetToSeq(tested)
             ends == <<[of |-> "first", header |-> defaults], [of |-> "second",
                  header |-> defaults]>>
             tries == [i \in DOMAIN knobs |-> [of |-> knobs[i],
                  header |-> variant(knobs[i])]]
             Builds == [of : Tests, header : Headers]
  <2>1. /\ tree' = [edition |-> port.edition, reads |-> port.reads, header |-> defaults]
        /\ port' = port /\ actor' = actor /\ pc' = "preflight"
        /\ digests' = [first |-> None, second |-> None, knobs |-> [n \in tested |-> None]]
        /\ disturbed' = actor.alive
        /\ todo' = ends \o tries
    BY <1>6 DEF CopyForSearch, port_copy, search
  <2>2. /\ knobs \in Seq(tested)
        /\ \A n \in tested : \E i \in DOMAIN knobs : knobs[i] = n
    BY HeadersTyped, EveryMember
  <2>3. \A t \in Tests : Test(t) \in Headers
    BY HeadersTyped
  <2>4. ends \in Seq(Builds) /\ Len(ends) = 2 /\ ends[1].of = "first" /\ ends[2].of = "second"
        /\ \A i \in DOMAIN ends : ends[i].header = Test(ends[i].of)
    <3>1. Test("first") = defaults /\ Test("second") = defaults /\ {"first",
         "second"} \subseteq Tests
      BY DEF Test, Tests
    <3> QED BY <2>3, <3>1
  <2> HIDE DEF knobs, ends
  <2>5. /\ Len(knobs) \in Nat /\ DOMAIN knobs = 1..Len(knobs)
        /\ \A i \in DOMAIN knobs : knobs[i] \in tested
    BY <2>2, SeqFacts
  <2>6. /\ tries \in [1..Len(knobs) -> Builds]
        /\ \A i \in DOMAIN tries :
             tries[i].header = Test(tries[i].of) /\ tries[i].of = knobs[i]
    <3>1. \A n \in tested : Test(n) = variant(n) /\ n \in Tests
      BY HeadersTyped DEF Test, Tests
    <3> QED BY <2>3, <2>5, <3>1
  <2> HIDE DEF tries
  <2>7. tries \in Seq(Builds) /\ Len(tries) = Len(knobs)
    BY <2>5, <2>6, IsSequence
  <2> HIDE DEF Builds
  <2>8. /\ todo' \in Seq(Builds)
        /\ \A i \in DOMAIN todo' :
             (i \in DOMAIN ends /\ todo'[i] = ends[i])
               \/ (i - 2 \in DOMAIN tries /\ todo'[i] = tries[i - 2])
        /\ \A i \in DOMAIN tries : i + 2 \in DOMAIN todo' /\ todo'[i + 2] = tries[i]
    <3> DEFINE all == ends \o tries
    <3> HIDE DEF all
    <3>1. /\ all \in Seq(Builds)
          /\ \A i \in DOMAIN all :
               (i \in DOMAIN ends /\ all[i] = ends[i])
                 \/ (i - 2 \in DOMAIN tries /\ all[i] = tries[i - 2])
          /\ \A i \in DOMAIN tries : i + 2 \in DOMAIN all /\ all[i + 2] = tries[i]
      <4> DEFINE k == Len(ends)
      <4>1. /\ all = ends \o tries /\ k \in {1, 2} /\ k = 2
            /\ ends \in Seq(Builds) /\ tries \in Seq(Builds)
        BY <2>4, <2>7 DEF all
      <4>2. /\ all \in Seq(Builds)
            /\ \A i \in DOMAIN all :
                 (i \in DOMAIN ends /\ all[i] = ends[i])
                   \/ (i - k \in DOMAIN tries /\ all[i] = tries[i - k])
        BY <4>1, ConcatFacts, SMTT(30)
      <4>3. \A i \in DOMAIN tries : i + 2 \in DOMAIN all /\ all[i + 2] = tries[i]
        BY <2>4, <2>7, ConcatSecond DEF all
      <4> HIDE DEF k
      <4> QED BY <4>1, <4>2, <4>3
    <3>2. todo' = all
      BY <2>1 DEF all
    <3> QED BY <3>1, <3>2
  <2>9. \A i \in DOMAIN todo' : todo'[i].header = Test(todo'[i].of)
    <3> TAKE i \in DOMAIN todo'
    <3>1. CASE i \in DOMAIN ends /\ todo'[i] = ends[i]
      BY <2>4, <3>1
    <3>2. CASE i - 2 \in DOMAIN tries /\ todo'[i] = tries[i - 2]
      BY <2>6, <3>2
    <3> QED BY <2>8, <3>1, <3>2
  <2>10. ASSUME NEW n \in tested
         PROVE  \E i \in DOMAIN todo' : todo'[i].of = n
    <3>1. PICK i \in DOMAIN knobs : knobs[i] = n
      BY <2>2
    <3>2. i \in DOMAIN tries /\ tries[i].of = n
      BY <2>5, <2>6, <3>1
    <3> QED BY <2>8, <3>2
  <2>11. \A n \in tested : Tried(n)'
    BY <2>10 DEF Tried
  <2> QED BY <2>1, <2>8, <2>9, <2>11 DEF PreflightInv, Builds
<1>7. CASE JobOverlays
  <2>1. CASE pc = "variants"
    <3>1. pc' \notin Testing
      BY <1>7, <2>1 DEF JobOverlays, Testing
    <3> QED BY <3>1 DEF PreflightInv
  <2>2. CASE pc = "preflight"
    <3>1. /\ tree' = [tree EXCEPT !.header = Head(todo).header] /\ todo # <<>>
          /\ pc' = "preflight make" /\ port' = port /\ actor' = actor /\ todo' = todo
          /\ digests' = digests /\ disturbed' = disturbed
      BY <1>7, <2>2 DEF JobOverlays, search
    <3>2. /\ tree'.edition = tree.edition /\ tree'.reads = tree.reads
          /\ tree'.header = Head(todo).header
      BY <1>1, <3>1 DEF TypeInv
    <3>3. todo \in Seq([of : Tests, header : Headers]) /\ pc \in Testing
      BY <1>1, <2>2 DEF PreflightInv, Testing
    <3>4. Head(todo) = todo[1] /\ 1 \in DOMAIN todo
      BY <3>1, <3>3, TailFacts
    <3>5. ~disturbed => tree'.header = Test(Head(todo).of)
      BY <1>1, <3>2, <3>3, <3>4 DEF PreflightInv
    <3>6. \A h : compiled(h, tree)' = compiled(h, tree)
      BY <3>2 DEF compiled
    <3>7. \A n \in tested : Tried(n) => Tried(n)'
      BY <3>1, <3>6 DEF Tried
    <3>8. compiled(defaults, tree)' = compiled(defaults, tree)
      BY <3>2 DEF compiled
    <3> QED BY <1>1, <3>1, <3>2, <3>3, <3>5, <3>7, <3>8 DEF PreflightInv
  <2> QED BY <1>7, <2>1, <2>2 DEF JobOverlays
<1>8. CASE PreflightMakes
  <2> DEFINE t == Head(todo).of
  <2>1. PICK binary \in {compiled(tree.header, tree), None} :
          /\ digests' = IF t \in {"first", "second"} THEN [digests EXCEPT ![t] = binary]
                        ELSE [digests EXCEPT !.knobs[t] = binary]
          /\ disturbed' = (disturbed \/ (binary = None /\ t \in Names \ port.reads))
          /\ todo' = IF t = "first" /\ binary = None THEN <<>> ELSE Tail(todo)
    BY <1>8 DEF PreflightMakes
  <2>2. /\ pc \in Testing /\ pc = "preflight make" /\ pc' = "preflight" /\ pc' \in Testing
        /\ port' = port /\ tree' = tree /\ actor' = actor
    BY <1>8 DEF PreflightMakes, Testing, search
  <2>3. /\ tree.edition = port.edition /\ tree.reads = port.reads
        /\ todo \in Seq([of : Tests, header : Headers]) /\ todo # <<>>
        /\ digests = [first |-> digests.first, second |-> digests.second,
             knobs |-> digests.knobs]
        /\ DOMAIN digests.knobs = tested
    BY <1>1, <2>2 DEF PreflightInv
  <2>4. /\ Tail(todo) \in Seq([of : Tests, header : Headers])
        /\ Head(todo) = todo[1] /\ 1 \in DOMAIN todo /\ t \in Tests
        /\ \A i \in DOMAIN Tail(todo) : Tail(todo)[i] = todo[i + 1] /\ i + 1 \in DOMAIN todo
        /\ \A i \in DOMAIN todo : i > 1 => i - 1 \in DOMAIN Tail(todo)
        /\ \A i \in DOMAIN todo : i \in Nat /\ i >= 1
    <3>1. Head(todo) \in [of : Tests, header : Headers]
      BY <2>3, TailFacts
    <3>2. \A i \in DOMAIN todo : i \in Nat /\ i >= 1
      BY <2>3, SeqFacts
    <3> QED BY <2>3, <3>1, <3>2, TailFacts
  <2>5. /\ todo' \in Seq([of : Tests, header : Headers])
        /\ digests' = [first |-> digests'.first, second |-> digests'.second,
             knobs |-> digests'.knobs]
        /\ DOMAIN digests'.knobs = tested
        /\ t = "first" => digests'.first = binary
        /\ t # "first" => digests'.first = digests.first
        /\ \A n \in tested : n # t => digests'.knobs[n] = digests.knobs[n]
        /\ t \in tested => digests'.knobs[t] = binary
    <3>1. t \in {"first", "second"} \/ (t \in tested /\ t \notin {"first", "second"})
      BY <2>4, HeadersTyped DEF Tests
    <3>2. \A n \in tested : n \notin {"first", "second"}
      BY HeadersTyped
    <3>3. todo' \in Seq([of : Tests, header : Headers])
      BY <2>1, <2>4
    <3>4. CASE t = "first"
      BY <2>1, <2>3, <3>2, <3>3, <3>4
    <3>5. CASE t = "second"
      BY <2>1, <2>3, <3>2, <3>3, <3>5
    <3>6. CASE t \in tested /\ t \notin {"first", "second"}
      <4>1. digests' = [first |-> digests.first, second |-> digests.second,
                        knobs |-> [digests.knobs EXCEPT ![t] = binary]]
        BY <2>1, <2>3, <3>6
      <4> HIDE DEF t
      <4> QED BY <2>3, <3>3, <3>6, <4>1
    <3> QED BY <3>1, <3>4, <3>5, <3>6
  <2>6. SUFFICES ASSUME ~disturbed'
                 PROVE  /\ ~actor'.alive
                        /\ \A i \in DOMAIN todo' : todo'[i].header = Test(todo'[i].of)
                        /\ digests'.first \in {None, compiled(defaults, tree)'}
                        /\ digests'.first = None \/ \A n \in tested : Tried(n)'
                        /\ \A i \in DOMAIN todo' :
                             todo'[i].of = "first" => \A n \in tested : Tried(n)'
    BY <2>2, <2>3, <2>5 DEF PreflightInv
  <2>7. /\ ~disturbed /\ ~actor.alive
        /\ \A i \in DOMAIN todo : todo[i].header = Test(todo[i].of)
        /\ tree.header = Test(t)
        /\ digests.first \in {None, compiled(defaults, tree)}
        /\ digests.first = None \/ \A n \in tested : Tried(n)
        /\ \A i \in DOMAIN todo : todo[i].of = "first" => \A n \in tested : Tried(n)
    BY <1>1, <2>1, <2>2, <2>6 DEF PreflightInv
  <2> HIDE DEF t
  <2>8. CASE t = "first" /\ binary = None
    <3>1. todo' = <<>> /\ DOMAIN todo' = {} /\ digests'.first = None
      BY <2>1, <2>5, <2>8
    <3> QED BY <2>2, <2>7, <3>1
  <2>9. CASE ~(t = "first" /\ binary = None)
    <3>1. todo' = Tail(todo)
      BY <2>1, <2>9
    <3>2. \A i \in DOMAIN todo' : todo'[i].header = Test(todo'[i].of)
      BY <2>4, <2>7, <3>1
    <3>3. /\ compiled(defaults, tree)' = compiled(defaults, tree)
          /\ \A n \in tested : compiled(variant(n), tree)' = compiled(variant(n), tree)
      BY <2>2 DEF compiled
    <3>4. digests'.first \in {None, compiled(defaults, tree)'}
      <4>1. t = "first" => tree.header = defaults
        BY <2>7 DEF Test
      <4> QED BY <2>5, <2>7, <3>3, <4>1
    <3>5. ASSUME NEW n \in tested, Tried(n)
          PROVE  Tried(n)'
      <4>1. CASE n = t
        <5>1. n \in Names /\ tree.header = variant(n)
          <6>1. n \in Names /\ n \notin {"first", "second"}
            BY HeadersTyped
          <6> QED BY <2>7, <4>1, <6>1 DEF Test
        <5>2. digests'.knobs[n] = binary
          BY <2>5, <4>1
        <5>3. binary = None => n \in port.reads
          BY <2>1, <2>6, <4>1, <5>1
        <5> QED BY <2>1, <2>2, <3>3, <5>1, <5>2, <5>3 DEF Tried
      <4>2. CASE n # t
        <5>1. digests'.knobs[n] = digests.knobs[n]
          BY <2>5, <4>2
        <5>2. ASSUME NEW i \in DOMAIN todo, todo[i].of = n
              PROVE  \E k \in DOMAIN todo' : todo'[k].of = n
          <6>1. i # 1
            BY <2>4, <4>2, <5>2 DEF t
          <6>2. i - 1 \in DOMAIN todo' /\ todo'[i - 1] = todo[i]
            <7>1. i \in Nat /\ i > 1 /\ (i - 1) + 1 = i
              BY <2>4, <6>1
            <7> QED BY <2>4, <3>1, <7>1
          <6> QED BY <5>2, <6>2
        <5> QED BY <2>2, <3>3, <3>5, <5>1, <5>2 DEF Tried
      <4> QED BY <4>1, <4>2
    <3>6. digests'.first = None \/ \A n \in tested : Tried(n)'
      <4>1. t = "first" => \A n \in tested : Tried(n)
        BY <2>4, <2>7 DEF t
      <4> QED BY <2>5, <2>7, <3>5, <4>1
    <3>7. \A i \in DOMAIN todo' : todo'[i].of = "first" => \A n \in tested : Tried(n)'
      BY <2>4, <2>7, <3>1, <3>5
    <3> QED BY <2>2, <2>7, <3>2, <3>4, <3>6, <3>7
  <2> QED BY <2>8, <2>9
<1>9. CASE PreflightFails
  <2>1. pc' \notin Testing
    BY <1>9 DEF PreflightFails, JobEnds, Testing
  <2> QED BY <2>1 DEF PreflightInv
<1>10. CASE Launch
  <2>1. pc' \notin Testing
    BY <1>10 DEF Launch, Testing
  <2> QED BY <2>1 DEF PreflightInv
<1>11. ASSUME NEW header \in Proposals, Repeat(header)
      PROVE  PreflightInv'
  <2>1. /\ actor.alive /\ pc' = pc /\ port' = port /\ todo' = todo /\ digests' = digests
        /\ disturbed' = disturbed /\ tree'.edition = tree.edition /\ tree'.reads = tree.reads
    BY <1>1, <1>11 DEF Repeat, TypeInv
  <2> QED BY <1>1, <2>1 DEF PreflightInv
<1>12. ASSUME NEW header \in Proposals, Evaluate(header)
      PROVE  PreflightInv'
  <2>1. /\ actor.alive /\ pc' = pc /\ port' = port /\ todo' = todo /\ digests' = digests
        /\ disturbed' = disturbed /\ tree'.edition = tree.edition /\ tree'.reads = tree.reads
    BY <1>1, <1>12 DEF Evaluate, TypeInv
  <2> QED BY <1>1, <2>1 DEF PreflightInv
<1>13. CASE ActorOverlays
  <2>1. /\ actor.alive /\ pc' = pc /\ port' = port /\ todo' = todo /\ digests' = digests
        /\ disturbed' = disturbed /\ tree'.edition = tree.edition /\ tree'.reads = tree.reads
    BY <1>1, <1>13 DEF ActorOverlays, TypeInv
  <2> QED BY <1>1, <2>1 DEF PreflightInv
<1>14. CASE ActorMakes
  <2>1. /\ actor.alive /\ pc' = pc /\ port' = port /\ todo' = todo /\ digests' = digests
        /\ disturbed' = disturbed /\ tree'.edition = tree.edition /\ tree'.reads = tree.reads
    BY <1>1, <1>14 DEF ActorMakes, TypeInv
  <2> QED BY <1>1, <2>1 DEF PreflightInv
<1>15. CASE ActorScores
  <2>1. /\ actor.alive /\ pc' = pc /\ port' = port /\ todo' = todo /\ digests' = digests
        /\ disturbed' = disturbed /\ tree'.edition = tree.edition /\ tree'.reads = tree.reads
    BY <1>1, <1>15 DEF ActorScores, TypeInv
  <2> QED BY <1>1, <2>1 DEF PreflightInv
<1>16. CASE SearchEnds
  <2>1. pc' \notin Testing
    BY <1>16 DEF SearchEnds, JobEnds, Testing
  <2> QED BY <2>1 DEF PreflightInv
<1>17. CASE Select
  <2>1. pc' \notin Testing
    BY <1>17 DEF Select, JobEnds, Testing
  <2> QED BY <2>1 DEF PreflightInv
<1>18. CASE VariantMakes
  <2>1. pc' \notin Testing
    BY <1>18 DEF VariantMakes, JobEnds, Testing
  <2> QED BY <2>1 DEF PreflightInv
<1>19. CASE Compare
  <2>1. pc' \notin Testing
    BY <1>19 DEF Compare, JobEnds, Testing
  <2> QED BY <2>1 DEF PreflightInv
<1>20. CASE UNCHANGED vars
  <2>1. /\ pc' = pc /\ port' = port /\ tree' = tree /\ todo' = todo /\ digests' = digests
        /\ disturbed' = disturbed /\ actor' = actor
    BY <1>20 DEF vars, search
  <2> QED BY <1>1, <2>1 DEF PreflightInv, Tried, compiled
<1> QED
  BY <1>2, <1>3, <1>4, <1>5, <1>6, <1>7, <1>8, <1>9, <1>10, <1>11, <1>12, <1>13, <1>14,
       <1>15, <1>16, <1>17, <1>18, <1>19, <1>20 DEF Next

\* What joins the log and has a metric was compiled from its header in the tree.
LEMMA ScoredInTree ==
  ASSUME log \in Seq(Candidates), NEW c \in Candidates, log' = Append(log, c), tree' = tree,
         c.mpki # 0 => c.binary = compiled(c.header, tree),
         \A i \in DOMAIN log :
           log[i].mpki # 0 => log[i].binary = compiled(log[i].header, tree)
  PROVE  \A i \in DOMAIN log' :
           log'[i].mpki # 0 => log'[i].binary = compiled(log'[i].header, tree')
<1>1. \A i \in DOMAIN log' :
        (i \in DOMAIN log /\ log'[i] = log[i]) \/ log'[i] = c
  BY AppendFacts, SeqFacts
<1>2. ASSUME NEW i \in DOMAIN log', log'[i].mpki # 0
      PROVE  log'[i].binary = compiled(log'[i].header, tree')
  <2>1. CASE i \in DOMAIN log /\ log'[i] = log[i]
    BY <1>2, <2>1
  <2>2. CASE log'[i] = c
    BY <1>2, <2>2
  <2> QED BY <1>1, <2>1, <2>2
<1> QED BY <1>2

\* Every step leaves the tree of a search to its actor.
LEMMA StepSearch == ASSUME DseInv, [Next]_vars PROVE SearchInv'
<1>1. /\ TypeInv /\ ActorInv /\ LogInv /\ PreflightInv /\ SearchInv
      /\ log \in Seq(Candidates)
  BY DEF DseInv, TypeInv
<1>2. Proposals \subseteq Headers
  BY DseAssumption
<1>3. CASE Reintegrate
  <2>1. pc' # "searching"
    BY <1>3 DEF Reintegrate
  <2> QED BY <2>1 DEF SearchInv
<1>4. CASE JobKilled
  <2>1. pc' # "searching"
    BY <1>4 DEF JobKilled, JobEnds
  <2> QED BY <2>1 DEF SearchInv
<1>5. CASE StartJob("copy")
  <2>1. pc' # "searching"
    BY <1>5 DEF StartJob
  <2> QED BY <2>1 DEF SearchInv
<1>6. CASE StartJob("select")
  <2>1. pc' # "searching"
    BY <1>6 DEF StartJob
  <2> QED BY <2>1 DEF SearchInv
<1>7. CASE CopyForSearch
  <2>1. pc' # "searching"
    BY <1>7 DEF CopyForSearch
  <2> QED BY <2>1 DEF SearchInv
<1>8. CASE JobOverlays
  <2>1. pc' # "searching"
    BY <1>8 DEF JobOverlays
  <2> QED BY <2>1 DEF SearchInv
<1>9. CASE PreflightMakes
  <2>1. pc' # "searching"
    BY <1>9 DEF PreflightMakes
  <2> QED BY <2>1 DEF SearchInv
<1>10. CASE PreflightFails
  <2>1. pc' # "searching"
    BY <1>10 DEF PreflightFails, JobEnds
  <2> QED BY <2>1 DEF SearchInv
<1>11. CASE Launch
  <2>1. /\ log' = <<>> /\ DOMAIN log' = {} /\ tree' = tree /\ port' = port /\ pc \in Testing
        /\ actor'.alive /\ actor'.at = "idle"
    BY <1>11 DEF Launch, new_actor, NoActor, Testing
  <2>2. tree.edition = port.edition
    BY <1>1, <2>1 DEF PreflightInv
  <2> QED BY <2>1, <2>2 DEF SearchInv
<1>12. ASSUME NEW header \in Proposals, Repeat(header)
      PROVE  SearchInv'
  <2> SUFFICES ASSUME pc = "searching"
               PROVE  SearchInv'
    BY <1>12 DEF Repeat, SearchInv
  <2>1. PICK s \in screened : log' = Append(log, entry(header, 0, None, s.id))
    BY <1>12 DEF Repeat
  <2>2. s.id \in Nat
    BY <1>1, MetricTyped DEF LogInv
  <2> DEFINE c == entry(header, 0, None, s.id)
  <2>4. c \in Candidates /\ c.mpki = 0
    BY <1>2, <1>12, <2>2 DEF entry, Candidates
  <2>5. log' = Append(log, c)
    BY <2>1
  <2>6. tree' = tree /\ port' = port /\ actor' = actor /\ pc' = pc
    BY <1>12 DEF Repeat
  <2> HIDE DEF c
  <2> QED BY <1>1, <2>4, <2>5, <2>6, ScoredInTree DEF SearchInv
<1>13. ASSUME NEW header \in Proposals, Evaluate(header)
      PROVE  SearchInv'
  <2> SUFFICES ASSUME pc = "searching"
               PROVE  SearchInv'
    BY <1>13 DEF Evaluate, SearchInv
  <2>1. tree' = tree /\ port' = port /\ pc' = pc /\ actor.alive /\ actor.at = "idle"
    BY <1>13 DEF Evaluate
  <2>2. CASE check_static(header)
    <3>1. log' = log /\ actor' = [actor EXCEPT !.at = "overlay", !.header = header]
      BY <1>13, <2>2 DEF Evaluate
    <3>2. actor'.alive /\ actor'.at = "overlay"
      BY <1>1, <2>1, <3>1 DEF TypeInv
    <3> QED BY <1>1, <2>1, <3>1, <3>2 DEF SearchInv, compiled
  <2>3. CASE ~check_static(header)
    <3> DEFINE c == entry(header, 0, None, 0)
    <3>1. c \in Candidates /\ c.mpki = 0
      BY <1>2, <1>13 DEF entry, Candidates
    <3>2. log' = Append(log, c) /\ actor' = actor
      BY <1>13, <2>3 DEF Evaluate
    <3> HIDE DEF c
    <3> QED BY <1>1, <2>1, <3>1, <3>2, ScoredInTree DEF SearchInv
  <2> QED BY <2>2, <2>3
<1>14. CASE ActorOverlays
  <2>1. /\ tree' = [tree EXCEPT !.header = actor.header]
        /\ actor' = [actor EXCEPT !.at = "make"] /\ log' = log /\ port' = port /\ pc' = pc
    BY <1>14 DEF ActorOverlays
  <2>2. /\ tree'.edition = tree.edition /\ tree'.reads = tree.reads
        /\ tree'.header = actor.header /\ actor'.header = actor.header
        /\ actor'.alive = actor.alive /\ actor'.at = "make"
    BY <1>1, <2>1 DEF TypeInv
  <2>3. \A h : compiled(h, tree)' = compiled(h, tree)
    BY <2>2 DEF compiled
  <2> QED BY <1>1, <2>1, <2>2, <2>3 DEF SearchInv
<1>15. CASE ActorMakes
  <2>1. /\ actor' = [actor EXCEPT !.at = "run", !.binary = compiled(tree.header, tree)]
        /\ actor.at = "make" /\ log' = log /\ port' = port /\ pc' = pc /\ tree' = tree
    BY <1>15 DEF ActorMakes
  <2>2. /\ actor'.header = actor.header /\ actor'.alive = actor.alive /\ actor'.at = "run"
        /\ actor'.binary = compiled(tree.header, tree)
    BY <1>1, <2>1 DEF TypeInv
  <2>3. \A h : compiled(h, tree)' = compiled(h, tree)
    BY <2>1 DEF compiled
  <2> QED BY <1>1, <2>1, <2>2, <2>3 DEF SearchInv
<1>16. CASE ActorScores
  <2> SUFFICES ASSUME pc = "searching"
               PROVE  SearchInv'
    BY <1>16 DEF ActorScores, SearchInv
  <2>1. PICK mpki \in IF actor.at = "run" THEN Scores \cup {0} ELSE {0} :
          log' = Append(log, entry(actor.header, mpki,
                                   IF mpki = 0 THEN None ELSE actor.binary, 0))
    BY <1>16 DEF ActorScores
  <2>2. /\ actor.header \in Headers /\ actor.binary \in Binaries \cup {None}
        /\ mpki \in Scores \cup {0} /\ mpki # 0 => actor.at = "run"
    BY <1>1, <1>16, <2>1 DEF ActorScores, ActorInv, TypeInv
  <2> DEFINE c == entry(actor.header, mpki, IF mpki = 0 THEN None ELSE actor.binary, 0)
  <2>3. c.header = actor.header /\ c.mpki = mpki /\ (mpki # 0 => c.binary = actor.binary)
    BY DEF entry
  <2>4. c \in Candidates /\ (c.mpki # 0 => c.binary = compiled(c.header, tree))
    <3>1. c \in Candidates
      BY <2>2 DEF entry, Candidates
    <3>2. ASSUME mpki # 0
          PROVE  actor.binary = compiled(actor.header, tree)
      BY <1>1, <2>2, <3>2 DEF SearchInv
    <3> QED BY <2>3, <3>1, <3>2
  <2>5. log' = Append(log, c)
    BY <2>1
  <2>6. tree' = tree /\ port' = port /\ actor'.alive /\ actor'.at = "idle" /\ pc' = pc
    BY <1>16 DEF ActorScores, NoActor
  <2> HIDE DEF c
  <2> QED BY <1>1, <2>4, <2>5, <2>6, ScoredInTree DEF SearchInv
<1>17. CASE SearchEnds
  <2>1. pc' # "searching"
    BY <1>17 DEF SearchEnds, JobEnds
  <2> QED BY <2>1 DEF SearchInv
<1>18. CASE Select
  <2>1. pc' # "searching"
    BY <1>18 DEF Select, JobEnds
  <2> QED BY <2>1 DEF SearchInv
<1>19. CASE VariantMakes
  <2>1. pc' # "searching"
    BY <1>19 DEF VariantMakes, JobEnds
  <2> QED BY <2>1 DEF SearchInv
<1>20. CASE Compare
  <2>1. pc' # "searching"
    BY <1>20 DEF Compare, JobEnds
  <2> QED BY <2>1 DEF SearchInv
<1>21. CASE UNCHANGED vars
  <2>1. /\ pc' = pc /\ port' = port /\ tree' = tree /\ actor' = actor /\ log' = log
    BY <1>21 DEF vars, search
  <2> QED BY <1>1, <2>1 DEF SearchInv, compiled
<1> QED
  BY <1>3, <1>4, <1>5, <1>6, <1>7, <1>8, <1>9, <1>10, <1>11, <1>12, <1>13, <1>14, <1>15,
       <1>16, <1>17, <1>18, <1>19, <1>20, <1>21 DEF Next

\* A search that is launched has every knob it credits tested, and no step after that
\* changes what the tree reads.
LEMMA StepCredit == ASSUME DseInv, [Next]_vars PROVE CreditInv'
<1>1. TypeInv /\ PreflightInv /\ CreditInv
  BY DEF DseInv
<1>2. CASE Reintegrate
  <2>1. pc' # "searching"
    BY <1>2 DEF Reintegrate
  <2> QED BY <2>1 DEF CreditInv
<1>3. CASE JobKilled
  <2>1. pc' # "searching"
    BY <1>3 DEF JobKilled, JobEnds
  <2> QED BY <2>1 DEF CreditInv
<1>4. CASE StartJob("copy")
  <2>1. pc' # "searching"
    BY <1>4 DEF StartJob
  <2> QED BY <2>1 DEF CreditInv
<1>5. CASE StartJob("select")
  <2>1. pc' # "searching"
    BY <1>5 DEF StartJob
  <2> QED BY <2>1 DEF CreditInv
<1>6. CASE CopyForSearch
  <2>1. pc' # "searching"
    BY <1>6 DEF CopyForSearch
  <2> QED BY <2>1 DEF CreditInv
<1>7. CASE JobOverlays
  <2>1. pc' # "searching"
    BY <1>7 DEF JobOverlays
  <2> QED BY <2>1 DEF CreditInv
<1>8. CASE PreflightMakes
  <2>1. pc' # "searching"
    BY <1>8 DEF PreflightMakes
  <2> QED BY <2>1 DEF CreditInv
<1>9. CASE PreflightFails
  <2>1. pc' # "searching"
    BY <1>9 DEF PreflightFails, JobEnds
  <2> QED BY <2>1 DEF CreditInv
<1>10. CASE Launch
  <2>1. /\ pc \in Testing /\ todo = <<>> /\ ~blocking
        /\ tree' = tree /\ disturbed' = disturbed
    BY <1>10 DEF Launch, Testing
  <2> SUFFICES ASSUME ~disturbed, NEW n \in tested \cap costed, n \notin tree.reads
               PROVE  FALSE
    BY <2>1 DEF CreditInv
  <2>2. /\ digests.first # None /\ digests.knobs[n] # digests.first
    BY <2>1 DEF blocking
  <2>3. digests.first = compiled(defaults, tree) /\ Tried(n) /\ tree.reads = port.reads
    BY <1>1, <2>1, <2>2 DEF PreflightInv
  <2>4. digests.knobs[n] = compiled(variant(n), tree)
    BY <2>1, <2>3 DEF Tried
  <2>5. compiled(variant(n), tree) = compiled(defaults, tree)
    BY <1>1, DeadKnob DEF TypeInv
  <2> QED BY <2>2, <2>3, <2>4, <2>5
<1>11. ASSUME NEW header \in Proposals, Repeat(header)
      PROVE  CreditInv'
  <2>1. pc' = pc /\ disturbed' = disturbed /\ tree'.reads = tree.reads
    BY <1>1, <1>11 DEF Repeat, TypeInv
  <2> QED BY <1>1, <2>1 DEF CreditInv
<1>12. ASSUME NEW header \in Proposals, Evaluate(header)
      PROVE  CreditInv'
  <2>1. pc' = pc /\ disturbed' = disturbed /\ tree'.reads = tree.reads
    BY <1>1, <1>12 DEF Evaluate, TypeInv
  <2> QED BY <1>1, <2>1 DEF CreditInv
<1>13. CASE ActorOverlays
  <2>1. pc' = pc /\ disturbed' = disturbed /\ tree'.reads = tree.reads
    BY <1>1, <1>13 DEF ActorOverlays, TypeInv
  <2> QED BY <1>1, <2>1 DEF CreditInv
<1>14. CASE ActorMakes
  <2>1. pc' = pc /\ disturbed' = disturbed /\ tree'.reads = tree.reads
    BY <1>1, <1>14 DEF ActorMakes, TypeInv
  <2> QED BY <1>1, <2>1 DEF CreditInv
<1>15. CASE ActorScores
  <2>1. pc' = pc /\ disturbed' = disturbed /\ tree'.reads = tree.reads
    BY <1>1, <1>15 DEF ActorScores, TypeInv
  <2> QED BY <1>1, <2>1 DEF CreditInv
<1>16. CASE SearchEnds
  <2>1. pc' # "searching"
    BY <1>16 DEF SearchEnds, JobEnds
  <2> QED BY <2>1 DEF CreditInv
<1>17. CASE Select
  <2>1. pc' # "searching"
    BY <1>17 DEF Select, JobEnds
  <2> QED BY <2>1 DEF CreditInv
<1>18. CASE VariantMakes
  <2>1. pc' # "searching"
    BY <1>18 DEF VariantMakes, JobEnds
  <2> QED BY <2>1 DEF CreditInv
<1>19. CASE Compare
  <2>1. pc' # "searching"
    BY <1>19 DEF Compare, JobEnds
  <2> QED BY <2>1 DEF CreditInv
<1>20. CASE UNCHANGED vars
  <2>1. pc' = pc /\ disturbed' = disturbed /\ tree'.reads = tree.reads
    BY <1>1, <1>20 DEF vars, TypeInv
  <2> QED BY <1>1, <2>1 DEF CreditInv
<1> QED
  BY <1>2, <1>3, <1>4, <1>5, <1>6, <1>7, <1>8, <1>9, <1>10, <1>11, <1>12, <1>13, <1>14,
       <1>15, <1>16, <1>17, <1>18, <1>19, <1>20 DEF Next

\* What the finalists are is decided by the log.
LEMMA SameLog == ASSUME log' = log PROVE select_finalists' = select_finalists
<1>1. qualified' = qualified
  BY DEF qualified
<1>2. \A i, j : ranks_before(i, j)' = ranks_before(i, j)
  BY DEF ranks_before
<1>3. kept' = kept
  BY <1>1 DEF kept, ranks_before
<1>4. ranked' = ranked
  BY <1>3 DEF ranked, ranks_before
<1> QED BY <1>3, <1>4 DEF select_finalists

\* Every step leaves the log that was ranked as it is while there are finalists.
LEMMA StepFinalists == ASSUME DseInv, [Next]_vars PROVE FinalistsInv'
<1>1. TypeInv /\ FinalistsInv
  BY DEF DseInv
<1>2. CASE Reintegrate
  <2>1. finalists' = finalists /\ log' = log /\ actor' = actor
    BY <1>2 DEF Reintegrate, search, promotion
  <2> QED BY <1>1, <2>1, SameLog DEF FinalistsInv
<1>3. CASE JobKilled
  <2>1. finalists' = finalists /\ log' = log /\ actor' = actor
    BY <1>3 DEF JobKilled, JobEnds, search, promotion
  <2> QED BY <1>1, <2>1, SameLog DEF FinalistsInv
<1>4. CASE StartJob("copy")
  BY <1>4 DEF StartJob, FinalistsInv
<1>5. CASE StartJob("select")
  BY <1>5 DEF StartJob, FinalistsInv
<1>6. CASE CopyForSearch
  <2>1. finalists' = finalists /\ finalists = <<>>
    BY <1>1, <1>6 DEF CopyForSearch, promotion, TypeInv, Testing
  <2> QED BY <2>1 DEF FinalistsInv
<1>7. CASE JobOverlays
  <2>1. finalists' = finalists /\ log' = log /\ actor' = actor
    BY <1>7 DEF JobOverlays, search, promotion
  <2> QED BY <1>1, <2>1, SameLog DEF FinalistsInv
<1>8. CASE PreflightMakes
  <2>1. finalists' = finalists /\ finalists = <<>>
    BY <1>1, <1>8 DEF PreflightMakes, promotion, TypeInv, Testing
  <2> QED BY <2>1 DEF FinalistsInv
<1>9. CASE PreflightFails
  <2>1. finalists' = finalists /\ finalists = <<>>
    BY <1>1, <1>9 DEF PreflightFails, JobEnds, promotion, TypeInv, Testing
  <2> QED BY <2>1 DEF FinalistsInv
<1>10. CASE Launch
  <2>1. finalists' = finalists /\ finalists = <<>>
    BY <1>1, <1>10 DEF Launch, promotion, TypeInv, Testing
  <2> QED BY <2>1 DEF FinalistsInv
<1>11. ASSUME NEW header \in Proposals, Repeat(header)
      PROVE  FinalistsInv'
  <2>1. finalists' = finalists /\ finalists = <<>>
    BY <1>1, <1>11 DEF Repeat, promotion, FinalistsInv
  <2> QED BY <2>1 DEF FinalistsInv
<1>12. ASSUME NEW header \in Proposals, Evaluate(header)
      PROVE  FinalistsInv'
  <2>1. finalists' = finalists /\ finalists = <<>>
    BY <1>1, <1>12 DEF Evaluate, promotion, FinalistsInv
  <2> QED BY <2>1 DEF FinalistsInv
<1>13. CASE ActorOverlays
  <2>1. finalists' = finalists /\ finalists = <<>>
    BY <1>1, <1>13 DEF ActorOverlays, promotion, FinalistsInv
  <2> QED BY <2>1 DEF FinalistsInv
<1>14. CASE ActorMakes
  <2>1. finalists' = finalists /\ finalists = <<>>
    BY <1>1, <1>14 DEF ActorMakes, promotion, FinalistsInv
  <2> QED BY <2>1 DEF FinalistsInv
<1>15. CASE ActorScores
  <2>1. finalists' = finalists /\ finalists = <<>>
    BY <1>1, <1>15 DEF ActorScores, promotion, FinalistsInv
  <2> QED BY <2>1 DEF FinalistsInv
<1>16. CASE SearchEnds
  <2>1. finalists' = finalists /\ finalists = <<>>
    BY <1>1, <1>16 DEF SearchEnds, JobEnds, promotion, TypeInv, Testing
  <2> QED BY <2>1 DEF FinalistsInv
<1>17. CASE Select
  <2>1. log' = log /\ actor' = actor
    BY <1>17 DEF Select, search
  <2>2. select_finalists' = select_finalists
    BY <2>1, SameLog
  <2>3. finalists' = finalists \/ (finalists' = select_finalists /\ ~actor.alive)
    BY <1>17 DEF Select, search_running
  <2> QED BY <1>1, <2>1, <2>2, <2>3 DEF FinalistsInv
<1>18. CASE VariantMakes
  <2>1. finalists' = finalists /\ log' = log /\ actor' = actor
    BY <1>18 DEF VariantMakes, JobEnds, search, promotion
  <2> QED BY <1>1, <2>1, SameLog DEF FinalistsInv
<1>19. CASE Compare
  <2>1. finalists' = finalists /\ log' = log /\ actor' = actor
    BY <1>19 DEF Compare, JobEnds, search, promotion
  <2> QED BY <1>1, <2>1, SameLog DEF FinalistsInv
<1>20. CASE UNCHANGED vars
  <2>1. finalists' = finalists /\ log' = log /\ actor' = actor
    BY <1>20 DEF vars, search, promotion
  <2> QED BY <1>1, <2>1, SameLog DEF FinalistsInv
<1> QED
  BY <1>2, <1>3, <1>4, <1>5, <1>6, <1>7, <1>8, <1>9, <1>10, <1>11, <1>12, <1>13, <1>14,
       <1>15, <1>16, <1>17, <1>18, <1>19, <1>20 DEF Next

\* Every step keeps what a promotion builds in order.
LEMMA StepVariants == ASSUME DseInv, [Next]_vars PROVE VariantsInv'
<1>1. TypeInv /\ FinalistsInv /\ VariantsInv /\ log \in Seq(Candidates)
  BY DEF DseInv, TypeInv
<1>2. TopK \in Nat \ {0}
  BY DseAssumption
<1>3. <<>> \in Seq(Variants) /\ Len(<<>>) = 0 /\ DOMAIN <<>> = {}
  OBVIOUS
<1>4. CASE Reintegrate
  <2>1. binaries' = binaries /\ finalists' = finalists
    BY <1>4 DEF Reintegrate, promotion
  <2>2. pc' \notin Promoting
    BY <1>4 DEF Reintegrate, Promoting
  <2> QED BY <1>1, <2>1, <2>2 DEF VariantsInv, IsFinalist
<1>5. CASE JobKilled
  <2>1. binaries' = binaries /\ finalists' = finalists
    BY <1>5 DEF JobKilled, JobEnds, promotion
  <2>2. pc' \notin Promoting
    BY <1>5 DEF JobKilled, JobEnds, Promoting
  <2> QED BY <1>1, <2>1, <2>2 DEF VariantsInv, IsFinalist
<1>6. CASE StartJob("copy")
  <2>1. binaries' = <<>> /\ pc' \notin Promoting
    BY <1>6 DEF StartJob, Promoting
  <2>2. /\ binaries' \in Seq(Variants) /\ Len(binaries') <= TopK + 1
       /\ DOMAIN binaries' = {}
    BY <1>2, <1>3, <2>1
  <2> QED BY <2>1, <2>2 DEF VariantsInv
<1>7. CASE StartJob("select")
  <2>1. binaries' = <<>> /\ pc' \notin Promoting
    BY <1>7 DEF StartJob, Promoting
  <2>2. /\ binaries' \in Seq(Variants) /\ Len(binaries') <= TopK + 1
       /\ DOMAIN binaries' = {}
    BY <1>2, <1>3, <2>1
  <2> QED BY <2>1, <2>2 DEF VariantsInv
<1>8. CASE CopyForSearch
  <2>1. binaries' = binaries /\ finalists' = finalists
    BY <1>8 DEF CopyForSearch, promotion
  <2>2. pc' \notin Promoting
    BY <1>8 DEF CopyForSearch, Promoting
  <2> QED BY <1>1, <2>1, <2>2 DEF VariantsInv, IsFinalist
<1>9. CASE JobOverlays
  <2>1. CASE pc = "preflight"
    <3>1. binaries' = binaries /\ finalists' = finalists /\ pc' \notin Promoting
      BY <1>9, <2>1 DEF JobOverlays, promotion, Promoting
    <3> QED BY <1>1, <3>1 DEF VariantsInv, IsFinalist
  <2>2. CASE pc = "variants"
    <3>1. /\ tree' = [tree EXCEPT !.header = Head(todo).header] /\ todo # <<>>
          /\ pc' = "variants make" /\ port' = port /\ todo' = todo /\ log' = log
          /\ binaries' = binaries /\ finalists' = finalists /\ outcome' = outcome
      BY <1>9, <2>2 DEF JobOverlays, search, promotion
    <3>2. /\ tree'.edition = tree.edition /\ tree'.reads = tree.reads
          /\ tree'.header = Head(todo).header
      BY <1>1, <3>1 DEF TypeInv
    <3>3. pc \in Promoting /\ todo \in Seq([of : Nat, header : Headers])
      BY <1>1, <2>2 DEF VariantsInv, Promoting
    <3>4. Head(todo) = todo[1] /\ 1 \in DOMAIN todo
      BY <3>1, <3>3, TailFacts
    <3>5. tree'.header = VariantHeader(Head(todo).of)
      BY <1>1, <3>2, <3>3, <3>4 DEF VariantsInv
    <3>6. /\ \A i : VariantHeader(i)' = VariantHeader(i)
          /\ \A h : compiled(h, port)' = compiled(h, port)
          /\ \A i : IsFinalist(i)' = IsFinalist(i)
      BY <3>1 DEF VariantHeader, compiled, IsFinalist
    <3> QED BY <1>1, <3>1, <3>2, <3>3, <3>5, <3>6 DEF VariantsInv
  <2> QED BY <1>9, <2>1, <2>2 DEF JobOverlays
<1>10. CASE PreflightMakes
  <2>1. binaries' = binaries /\ finalists' = finalists
    BY <1>10 DEF PreflightMakes, promotion
  <2>2. pc' \notin Promoting
    BY <1>10 DEF PreflightMakes, Promoting
  <2> QED BY <1>1, <2>1, <2>2 DEF VariantsInv, IsFinalist
<1>11. CASE PreflightFails
  <2>1. binaries' = binaries /\ finalists' = finalists
    BY <1>11 DEF PreflightFails, JobEnds, promotion
  <2>2. pc' \notin Promoting
    BY <1>11 DEF PreflightFails, JobEnds, Promoting
  <2> QED BY <1>1, <2>1, <2>2 DEF VariantsInv, IsFinalist
<1>12. CASE Launch
  <2>1. binaries' = binaries /\ finalists' = finalists
    BY <1>12 DEF Launch, promotion
  <2>2. pc' \notin Promoting
    BY <1>12 DEF Launch, Promoting
  <2> QED BY <1>1, <2>1, <2>2 DEF VariantsInv, IsFinalist
<1>13. ASSUME NEW header \in Proposals, Repeat(header)
      PROVE  VariantsInv'
  <2>1. /\ binaries' = binaries /\ finalists' = finalists /\ pc' = pc
        /\ finalists = <<>>
    BY <1>1, <1>13 DEF Repeat, promotion, FinalistsInv
  <2> QED BY <1>1, <2>1 DEF VariantsInv, IsFinalist
<1>14. ASSUME NEW header \in Proposals, Evaluate(header)
      PROVE  VariantsInv'
  <2>1. /\ binaries' = binaries /\ finalists' = finalists /\ pc' = pc
        /\ finalists = <<>>
    BY <1>1, <1>14 DEF Evaluate, promotion, FinalistsInv
  <2> QED BY <1>1, <2>1 DEF VariantsInv, IsFinalist
<1>15. CASE ActorOverlays
  <2>1. /\ binaries' = binaries /\ finalists' = finalists /\ pc' = pc
        /\ finalists = <<>>
    BY <1>1, <1>15 DEF ActorOverlays, promotion, FinalistsInv
  <2> QED BY <1>1, <2>1 DEF VariantsInv, IsFinalist
<1>16. CASE ActorMakes
  <2>1. /\ binaries' = binaries /\ finalists' = finalists /\ pc' = pc
        /\ finalists = <<>>
    BY <1>1, <1>16 DEF ActorMakes, promotion, FinalistsInv
  <2> QED BY <1>1, <2>1 DEF VariantsInv, IsFinalist
<1>17. CASE ActorScores
  <2>1. /\ binaries' = binaries /\ finalists' = finalists /\ pc' = pc
        /\ finalists = <<>>
    BY <1>1, <1>17 DEF ActorScores, promotion, FinalistsInv
  <2> QED BY <1>1, <2>1 DEF VariantsInv, IsFinalist
<1>18. CASE SearchEnds
  <2>1. binaries' = binaries /\ finalists' = finalists
    BY <1>18 DEF SearchEnds, JobEnds, promotion
  <2>2. pc' \notin Promoting
    BY <1>18 DEF SearchEnds, JobEnds, Promoting
  <2> QED BY <1>1, <2>1, <2>2 DEF VariantsInv, IsFinalist
<1>19. CASE Select
  <2>1. binaries' = binaries /\ binaries = <<>> /\ outcome' = outcome /\ outcome = NoOutcome
    BY <1>1, <1>19 DEF Select, TypeInv
  <2>2. CASE select_finalists = <<>> \/ search_running
    <3>1. pc' \notin Promoting
      BY <1>19, <2>2 DEF Select, JobEnds, Promoting
    <3>2. /\ binaries' \in Seq(Variants) /\ Len(binaries') <= TopK + 1
         /\ DOMAIN binaries' = {}
      BY <1>2, <1>3, <2>1
    <3> QED BY <3>1, <3>2 DEF VariantsInv
  <2>3. CASE ~(select_finalists = <<>> \/ search_running)
    <3> DEFINE first == <<[of |-> 0, header |-> defaults]>>
               rest == [i \in DOMAIN select_finalists |->
                          [of |-> select_finalists[i],
                           header |-> log[select_finalists[i]].header]]
               Builds == [of : Nat, header : Headers]
    <3>1. /\ finalists' = select_finalists /\ finalists' # <<>> /\ tree' = port_copy
          /\ todo' = first \o rest /\ pc' = "variants" /\ port' = port /\ log' = log
      BY <1>19, <2>3 DEF Select, search
    <3>2. /\ select_finalists \in Seq(DOMAIN log) /\ Len(select_finalists) <= TopK
          /\ Len(select_finalists) \in Nat
          /\ DOMAIN select_finalists = 1..Len(select_finalists)
          /\ \A i \in DOMAIN select_finalists : select_finalists[i] \in DOMAIN log
      BY <1>1, FirstOfRanked, SeqFacts
    <3>3. \A i \in DOMAIN log : i \in Nat /\ i # 0 /\ log[i].header \in Headers
      BY <1>1, MetricTyped, SeqFacts
    <3>4. /\ first \in Seq(Builds) /\ Len(first) = 1 /\ DOMAIN first = {1}
          /\ first[1] = [of |-> 0, header |-> defaults]
      BY HeadersTyped
    <3>5. rest \in [1..Len(select_finalists) -> Builds]
      BY <3>2, <3>3
    <3>6. \A i \in DOMAIN rest :
            /\ i \in DOMAIN select_finalists /\ rest[i].of = select_finalists[i]
            /\ rest[i].of # 0 /\ rest[i].header = log[rest[i].of].header
      BY <3>2, <3>3
    <3> HIDE DEF first, rest, Builds
    <3>7. rest \in Seq(Builds) /\ Len(rest) = Len(select_finalists)
      BY <3>2, <3>5, IsSequence
    <3>8. /\ todo' \in Seq(Builds) /\ Len(todo') = 1 + Len(rest)
          /\ \A i \in DOMAIN todo' :
               (i \in DOMAIN first /\ todo'[i] = first[i])
                 \/ (i > 1 /\ i - 1 \in DOMAIN rest /\ todo'[i] = rest[i - 1])
      <4> DEFINE all == first \o rest
      <4> HIDE DEF all
      <4>1. /\ all \in Seq(Builds) /\ Len(all) = 1 + Len(rest)
            /\ \A i \in DOMAIN all :
                 (i \in DOMAIN first /\ all[i] = first[i])
                   \/ (i > 1 /\ i - 1 \in DOMAIN rest /\ all[i] = rest[i - 1])
        <5>1. all = first \o rest /\ Len(first) = 1
          BY <3>4 DEF all
        <5>2. first \in Seq(Builds) /\ rest \in Seq(Builds) /\ 1 \in {1, 2}
          BY <3>4, <3>7
        <5> QED BY <5>1, <5>2, ConcatFacts, SMTT(30)
      <4> QED BY <3>1, <4>1 DEF all
    <3>9. ASSUME NEW i \in DOMAIN todo'
          PROVE  /\ IF i = 1 THEN todo'[i].of = 0 ELSE IsFinalist(todo[i].of)'
                 /\ todo'[i].header = VariantHeader(todo[i].of)'
      <4>1. CASE i \in DOMAIN first /\ todo'[i] = first[i]
        BY <3>4, <4>1 DEF VariantHeader
      <4>2. CASE i > 1 /\ i - 1 \in DOMAIN rest /\ todo'[i] = rest[i - 1]
        <5> DEFINE k == i - 1
        <5>1. k \in DOMAIN select_finalists /\ todo'[i].of = finalists'[k]
             /\ todo'[i].of # 0
              /\ todo'[i].header = log'[todo'[i].of].header /\ i # 1
          BY <3>1, <3>6, <4>2
        <5> HIDE DEF k
        <5> QED BY <3>1, <5>1 DEF IsFinalist, VariantHeader
      <4> QED BY <3>8, <4>1, <4>2
    <3>10. todo' # <<>> /\ Len(binaries') = 0 /\ Len(todo') <= TopK + 1
         /\ Len(todo') \in Nat
      BY <1>2, <2>1, <3>2, <3>7, <3>8, SeqFacts
    <3>11. tree'.edition = port'.edition /\ tree'.reads = port'.reads
      BY <3>1 DEF port_copy
    <3>12. /\ binaries' = <<>> /\ binaries' \in Seq(Variants) /\ Len(binaries') <= TopK + 1
           /\ DOMAIN binaries' = {} /\ Len(binaries') + Len(todo') <= TopK + 1
      BY <1>2, <1>3, <2>1, <3>10
    <3>13. outcome' = NoOutcome /\ pc' # "variants make"
      BY <2>1, <3>1
    <3> QED BY <3>1, <3>8, <3>9, <3>10, <3>11, <3>12, <3>13 DEF VariantsInv, Builds
  <2> QED BY <2>2, <2>3
<1>20. CASE VariantMakes
  <2> DEFINE t == Head(todo)
             Builds == [of : Nat, header : Headers]
  <2>1. /\ pc \in Promoting /\ pc = "variants make" /\ port' = port /\ tree' = tree
        /\ log' = log /\ finalists' = finalists
    BY <1>20 DEF VariantMakes, search, Promoting
  <2>2. /\ finalists # <<>> /\ outcome = NoOutcome
        /\ tree.edition = port.edition /\ tree.reads = port.reads
        /\ todo \in Seq(Builds) /\ todo # <<>> /\ Len(binaries) + Len(todo) <= TopK + 1
        /\ tree.header = VariantHeader(t.of)
        /\ binaries \in Seq(Variants) /\ Len(binaries) <= TopK + 1
    BY <1>1, <2>1 DEF VariantsInv
  <2>3. /\ Tail(todo) \in Seq(Builds) /\ Len(Tail(todo)) = Len(todo) - 1 /\ t = todo[1]
        /\ t \in Builds /\ 1 \in DOMAIN todo
        /\ \A i \in DOMAIN Tail(todo) : Tail(todo)[i] = todo[i + 1] /\ i + 1 \in DOMAIN todo
    BY <2>2, TailFacts
  <2>4. /\ \A i : VariantHeader(i)' = VariantHeader(i)
        /\ \A h : compiled(h, port)' = compiled(h, port)
        /\ \A i : IsFinalist(i)' = IsFinalist(i)
    BY <2>1 DEF VariantHeader, compiled, IsFinalist
  <2>5. /\ IF binaries = <<>> THEN t.of = 0 ELSE IsFinalist(t.of)
        /\ \A i \in DOMAIN Tail(todo) :
             /\ IsFinalist(Tail(todo)[i].of)
             /\ Tail(todo)[i].header = VariantHeader(Tail(todo)[i].of)
    <3>1. \A i \in DOMAIN todo :
            /\ IF binaries = <<>> /\ i = 1 THEN todo[i].of = 0 ELSE IsFinalist(todo[i].of)
            /\ todo[i].header = VariantHeader(todo[i].of)
      BY <1>1, <2>1 DEF VariantsInv
    <3>2. IF binaries = <<>> THEN t.of = 0 ELSE IsFinalist(t.of)
      BY <2>3, <3>1
    <3> HIDE DEF t
    <3>3. ASSUME NEW i \in DOMAIN Tail(todo)
          PROVE  /\ IsFinalist(Tail(todo)[i].of)
                 /\ Tail(todo)[i].header = VariantHeader(Tail(todo)[i].of)
      <4>1. i \in Nat /\ i + 1 # 1
        BY <2>3, SeqFacts
      <4> QED BY <2>3, <3>1, <4>1
    <3> QED BY <3>2, <3>3
  <2>6. CASE /\ binaries' = Append(binaries, [of |-> t.of,
                                          binary |-> compiled(tree.header, tree)])
             /\ todo' = Tail(todo) /\ pc' = "variants" /\ outcome' = outcome
    <3> DEFINE b == [of |-> t.of, binary |-> compiled(tree.header, tree)]
               n == Len(binaries)
    <3>1. b.of = t.of /\ b.binary = compiled(VariantHeader(b.of), port)
      BY <2>2 DEF compiled
    <3>2. b \in Variants
      <4>1. tree.header \in Headers
        BY <1>1, <2>1 DEF TypeInv
      <4>2. tree.edition \in Nat /\ tree.reads \in SUBSET Names
        BY <1>1 DEF TypeInv
      <4>3. compiled(tree.header, tree) \in Binaries /\ t.of \in Nat
        BY <2>3, <4>1, <4>2, CompiledTyped
      <4> QED BY <4>3 DEF Variants
    <3> HIDE DEF b, t
    <3>3. /\ binaries' \in Seq(Variants) /\ n \in Nat /\ Len(binaries') = n + 1
          /\ DOMAIN binaries = 1..n /\ DOMAIN binaries' = 1..(n + 1)
          /\ \A i \in 1..n : binaries'[i] = binaries[i]
          /\ binaries'[n + 1] = b /\ (binaries = <<>> <=> n = 0)
      BY <2>2, <2>6, <3>2, AppendFacts, SeqFacts DEF b
    <3> HIDE DEF n
    <3>4. \A i \in DOMAIN binaries' :
            (i \in DOMAIN binaries /\ binaries'[i] = binaries[i])
              \/ (i = n + 1 /\ binaries'[i] = b)
      BY <3>3
    <3>5. ASSUME NEW i \in DOMAIN binaries'
          PROVE  /\ i = 1 => binaries'[i].of = 0
                 /\ i > 1 => IsFinalist(binaries'[i].of)
                 /\ binaries'[i].binary = compiled(VariantHeader(binaries'[i].of), port)
      <4>1. CASE i \in DOMAIN binaries /\ binaries'[i] = binaries[i]
        BY <1>1, <2>1, <4>1 DEF VariantsInv
      <4>2. CASE i = n + 1 /\ binaries'[i] = b
        <5>1. i = 1 => binaries = <<>>
          BY <3>3, <4>2
        <5>2. i > 1 => binaries # <<>>
          BY <3>3, <4>2
        <5> QED BY <2>5, <3>1, <4>2, <5>1, <5>2
      <4> QED BY <3>4, <4>1, <4>2
    <3>6. /\ Len(binaries') <= TopK + 1 /\ binaries' # <<>>
          /\ Len(binaries') + Len(todo') <= TopK + 1
      <4>1. Len(todo) \in Nat /\ Len(todo) > 0
        BY <2>2, SeqFacts
      <4> QED BY <1>2, <2>2, <2>3, <2>6, <3>3, <4>1 DEF n
    <3>7. \A i \in DOMAIN binaries' :
            /\ i = 1 => binaries'[i].of = 0
            /\ i > 1 => IsFinalist(binaries[i].of)'
            /\ binaries'[i].binary = compiled(VariantHeader(binaries[i].of), port)'
      BY <2>1, <2>4, <3>5 DEF IsFinalist, VariantHeader
    <3>8. \A i \in DOMAIN todo' :
            IsFinalist(todo[i].of)' /\ todo'[i].header = VariantHeader(todo[i].of)'
      BY <2>1, <2>5, <2>6 DEF IsFinalist, VariantHeader
    <3> QED BY <2>1, <2>2, <2>3, <2>6, <3>3, <3>6, <3>7, <3>8 DEF VariantsInv, Builds
  <2>7. CASE t.of # 0 /\ todo' = Tail(todo) /\ pc' = "variants" /\ binaries' = binaries
               /\ outcome' = outcome
    <3>1. binaries # <<>>
      BY <2>5, <2>7
    <3>2. Len(todo) \in Nat /\ Len(binaries) \in Nat
      BY <2>2, SeqFacts
    <3>3. Len(binaries') + Len(todo') <= TopK + 1
      BY <1>2, <2>2, <2>3, <2>7, <3>2
    <3>4. \A i \in DOMAIN todo' :
            IsFinalist(todo[i].of)' /\ todo'[i].header = VariantHeader(todo[i].of)'
      BY <2>1, <2>5, <2>7 DEF IsFinalist, VariantHeader
    <3>5. \A i \in DOMAIN binaries' :
            /\ i = 1 => binaries'[i].of = 0
            /\ i > 1 => IsFinalist(binaries[i].of)'
            /\ binaries'[i].binary = compiled(VariantHeader(binaries[i].of), port)'
      <4>1. \A i \in DOMAIN binaries :
              /\ i = 1 => binaries[i].of = 0
              /\ i > 1 => IsFinalist(binaries[i].of)
              /\ binaries[i].binary = compiled(VariantHeader(binaries[i].of), port)
        BY <1>1, <2>1 DEF VariantsInv
      <4> HIDE DEF t
      <4> QED BY <2>1, <2>7, <4>1 DEF IsFinalist, VariantHeader
    <3> HIDE DEF t
    <3> QED BY <2>1, <2>2, <2>3, <2>7, <3>1, <3>3, <3>4, <3>5 DEF VariantsInv
  <2>8. CASE pc' = "idle" /\ binaries' = binaries
    BY <1>1, <2>1, <2>8 DEF VariantsInv, IsFinalist, Promoting
  <2> QED BY <1>20, <2>6, <2>7, <2>8 DEF VariantMakes, JobEnds
<1>21. CASE Compare
  <2>1. binaries' = binaries /\ finalists' = finalists
    BY <1>21 DEF Compare, JobEnds, promotion
  <2>2. pc' \notin Promoting
    BY <1>21 DEF Compare, JobEnds, Promoting
  <2> QED BY <1>1, <2>1, <2>2 DEF VariantsInv, IsFinalist
<1>22. CASE UNCHANGED vars
  <2>1. /\ binaries' = binaries /\ finalists' = finalists /\ pc' = pc /\ log' = log
        /\ tree' = tree /\ port' = port /\ todo' = todo /\ outcome' = outcome
    BY <1>22 DEF vars, search, promotion
  <2>2. /\ \A i : VariantHeader(i)' = VariantHeader(i)
        /\ \A h : compiled(h, port)' = compiled(h, port)
        /\ \A i : IsFinalist(i)' = IsFinalist(i)
    BY <2>1 DEF VariantHeader, compiled, IsFinalist
  <2> QED BY <1>1, <2>1, <2>2 DEF VariantsInv
<1> QED
  BY <1>4, <1>5, <1>6, <1>7, <1>8, <1>9, <1>10, <1>11, <1>12, <1>13, <1>14, <1>15, <1>16,
       <1>17, <1>18, <1>19, <1>20, <1>21, <1>22 DEF Next

\* Every step keeps a verdict true of what it was reached with.
LEMMA StepVerdict == ASSUME DseInv, [Next]_vars PROVE VerdictInv'
<1>1. /\ TypeInv /\ FinalistsInv /\ VariantsInv /\ VerdictInv
      /\ log \in Seq(Candidates)
  BY DEF DseInv, TypeInv
<1>2. CASE Reintegrate
  <2>1. outcome' = outcome /\ finalists' = finalists /\ binaries' = binaries /\ log' = log
    BY <1>2 DEF Reintegrate, search, promotion
  <2> QED BY <1>1, <2>1 DEF VerdictInv, VerdictIsLikeWithLike
<1>3. CASE JobKilled
  <2>1. outcome' = outcome /\ finalists' = finalists /\ binaries' = binaries /\ log' = log
    BY <1>3 DEF JobKilled, JobEnds, search, promotion
  <2> QED BY <1>1, <2>1 DEF VerdictInv, VerdictIsLikeWithLike
<1>4. CASE StartJob("copy")
  BY <1>4 DEF StartJob, NoOutcome, VerdictInv
<1>5. CASE StartJob("select")
  BY <1>5 DEF StartJob, NoOutcome, VerdictInv
<1>6. CASE CopyForSearch
  <2>1. outcome = NoOutcome
    BY <1>1, <1>6 DEF CopyForSearch, TypeInv, Testing
  <2>2. outcome'.status # "promoted"
    BY <1>6, <2>1 DEF CopyForSearch, promotion, NoOutcome
  <2> QED BY <2>2 DEF VerdictInv
<1>7. CASE JobOverlays
  <2>1. outcome = NoOutcome /\ outcome' = outcome
    BY <1>1, <1>7 DEF JobOverlays, promotion, TypeInv, Testing, VariantsInv, Promoting
  <2> QED BY <2>1 DEF VerdictInv, NoOutcome
<1>8. CASE PreflightMakes
  <2>1. outcome = NoOutcome
    BY <1>1, <1>8 DEF PreflightMakes, TypeInv, Testing
  <2>2. outcome'.status # "promoted"
    BY <1>8, <2>1 DEF PreflightMakes, promotion, NoOutcome
  <2> QED BY <2>2 DEF VerdictInv
<1>9. CASE PreflightFails
  <2>1. outcome = NoOutcome
    BY <1>1, <1>9 DEF PreflightFails, JobEnds, TypeInv, Testing
  <2>2. outcome'.status # "promoted"
    BY <1>9, <2>1 DEF PreflightFails, JobEnds, promotion, NoOutcome
  <2> QED BY <2>2 DEF VerdictInv
<1>10. CASE Launch
  <2>1. outcome = NoOutcome
    BY <1>1, <1>10 DEF Launch, TypeInv, Testing
  <2>2. outcome'.status # "promoted"
    BY <1>10, <2>1 DEF Launch, promotion, NoOutcome
  <2> QED BY <2>2 DEF VerdictInv
<1>11. ASSUME NEW header \in Proposals, Repeat(header)
      PROVE  VerdictInv'
  <2>1. outcome' = outcome /\ finalists = <<>>
    BY <1>1, <1>11 DEF Repeat, promotion, FinalistsInv
  <2> QED BY <1>1, <2>1 DEF VerdictInv
<1>12. ASSUME NEW header \in Proposals, Evaluate(header)
      PROVE  VerdictInv'
  <2>1. outcome' = outcome /\ finalists = <<>>
    BY <1>1, <1>12 DEF Evaluate, promotion, FinalistsInv
  <2> QED BY <1>1, <2>1 DEF VerdictInv
<1>13. CASE ActorOverlays
  <2>1. outcome' = outcome /\ finalists = <<>>
    BY <1>1, <1>13 DEF ActorOverlays, promotion, FinalistsInv
  <2> QED BY <1>1, <2>1 DEF VerdictInv
<1>14. CASE ActorMakes
  <2>1. outcome' = outcome /\ finalists = <<>>
    BY <1>1, <1>14 DEF ActorMakes, promotion, FinalistsInv
  <2> QED BY <1>1, <2>1 DEF VerdictInv
<1>15. CASE ActorScores
  <2>1. outcome' = outcome /\ finalists = <<>>
    BY <1>1, <1>15 DEF ActorScores, promotion, FinalistsInv
  <2> QED BY <1>1, <2>1 DEF VerdictInv
<1>16. CASE SearchEnds
  <2>1. outcome = NoOutcome
    BY <1>1, <1>16 DEF SearchEnds, JobEnds, TypeInv, Testing
  <2>2. outcome'.status # "promoted"
    BY <1>16, <2>1 DEF SearchEnds, JobEnds, promotion, NoOutcome
  <2> QED BY <2>2 DEF VerdictInv
<1>17. CASE Select
  <2>1. outcome = NoOutcome
    BY <1>1, <1>17 DEF Select, JobEnds, TypeInv, Testing
  <2>2. outcome'.status # "promoted"
    BY <1>17, <2>1 DEF Select, JobEnds, promotion, NoOutcome
  <2> QED BY <2>2 DEF VerdictInv
<1>18. CASE VariantMakes
  <2>1. outcome = NoOutcome
    BY <1>1, <1>18 DEF VariantMakes, VariantsInv, Promoting
  <2>2. outcome' = outcome \/ outcome' = [outcome EXCEPT !.status = "build_failed"]
    BY <1>18 DEF VariantMakes
  <2>3. outcome'.status # "promoted"
    BY <2>1, <2>2 DEF NoOutcome
  <2> QED BY <2>3 DEF VerdictInv
<1>19. CASE Compare
  <2>1. /\ outcome = NoOutcome /\ finalists # <<>> /\ binaries \in Seq(Variants)
        /\ finalists' = finalists /\ binaries' = binaries /\ log' = log
    BY <1>1, <1>19 DEF Compare, search, VariantsInv, Promoting
  <2>2. PICK base \in Scores \cup {0}, scores \in [DOMAIN binaries -> Scores \cup {0}] :
          outcome' =
            IF complete(base) /\ complete(scores[1])
                 /\ \E i \in DOMAIN binaries : i > 1 /\ complete(scores[i])
              THEN [status |-> "promoted", winner |-> winner_of(scores),
                    scores |-> <<base>> \o scores]
              ELSE [outcome EXCEPT !.status = "incomplete"]
    BY <1>19 DEF Compare
  <2> SUFFICES ASSUME outcome'.status = "promoted"
               PROVE  finalists' # <<>> /\ VerdictIsLikeWithLike'
    BY DEF VerdictInv
  <2> DEFINE w == winner_of(scores)
  <2>3. /\ complete(base) /\ complete(scores[1])
        /\ \E i \in DOMAIN binaries : i > 1 /\ complete(scores[i])
        /\ outcome'.winner = w /\ outcome'.scores = <<base>> \o scores
    <3> HIDE DEF w
    <3> QED BY <2>1, <2>2 DEF NoOutcome, w
  <2>4. /\ w \in DOMAIN binaries /\ w > 1 /\ scores[w] # 0
        /\ \A i \in DOMAIN binaries : i > 1 /\ scores[i] # 0 => scores[w] <= scores[i]
    BY <2>1, <2>3, TheWinner
  <2> HIDE DEF w
  <2>5. IsFinalist(binaries[w].of)
    BY <1>1, <2>4 DEF VariantsInv
  <2>6. PICK k \in DOMAIN finalists : finalists[k] = binaries[w].of
    BY <2>5 DEF IsFinalist
  <2>7. binaries[w].of \in kept
    <3>1. finalists = select_finalists
      BY <1>1, <2>1 DEF FinalistsInv
    <3>2. \A i \in DOMAIN finalists : finalists[i] \in kept
      BY <1>1, <3>1, FirstOfRanked
    <3> QED BY <2>6, <3>2
  <2>8. binaries[w].of # 0 /\ check_static(log[binaries[w].of].header)
    <3>1. binaries[w].of \in DOMAIN log /\ check_static(log[binaries[w].of].header)
      BY <2>7 DEF kept, qualified
    <3>2. \A i \in DOMAIN log : i # 0
      BY <1>1, SeqFacts
    <3> QED BY <3>1, <3>2
  <2>9. /\ (<<base>> \o scores)[1] = base
        /\ \A i \in DOMAIN binaries : (<<base>> \o scores)[i + 1] = scores[i]
    <3>1. Len(binaries) \in Nat /\ DOMAIN binaries = 1..Len(binaries)
      BY <2>1, SeqFacts
    <3>2. scores \in Seq(Scores \cup {0}) /\ Len(scores) = Len(binaries)
      BY <3>1, IsSequence
    <3>3. <<base>> \in Seq(Scores \cup {0}) /\ Len(<<base>>) = 1 /\ <<base>>[1] = base
      OBVIOUS
    <3> HIDE DEF w
    <3> QED BY <3>1, <3>2, <3>3, ConcatProperties
  <2>10. 1 \in DOMAIN binaries
    BY <2>1, <2>4, SeqFacts
  <2>11. /\ outcome'.scores[1] # 0 /\ outcome'.scores[1 + 1] # 0
       /\ outcome'.scores[w + 1] # 0
         /\ \A i \in DOMAIN binaries : i > 1 /\ outcome'.scores[i + 1] # 0 =>
              outcome'.scores[w + 1] <= outcome'.scores[i + 1]
    BY <2>3, <2>4, <2>9, <2>10 DEF complete
  <2> QED BY <2>1, <2>3, <2>8, <2>11 DEF VerdictIsLikeWithLike
<1>20. CASE UNCHANGED vars
  <2>1. outcome' = outcome /\ finalists' = finalists /\ binaries' = binaries /\ log' = log
    BY <1>20 DEF vars, search, promotion
  <2> QED BY <1>1, <2>1 DEF VerdictInv, VerdictIsLikeWithLike
<1> QED
  BY <1>2, <1>3, <1>4, <1>5, <1>6, <1>7, <1>8, <1>9, <1>10, <1>11, <1>12, <1>13, <1>14,
       <1>15, <1>16, <1>17, <1>18, <1>19, <1>20 DEF Next

-----------------------------------------------------------------------------
(* The theorems *)

\* A project without a search is in order.
LEMMA InitInv == Init => DseInv
<1> SUFFICES ASSUME Init
             PROVE  DseInv
  OBVIOUS
<1>1. /\ port = [edition |-> 1, reads |-> Names]
      /\ tree = [edition |-> 0, reads |-> {}, header |-> None]
      /\ actor = NoActor /\ screened = {} /\ log = <<>> /\ pc = "idle" /\ jobs = 0
      /\ todo = <<>> /\ disturbed = FALSE
      /\ finalists = <<>> /\ binaries = <<>> /\ outcome = NoOutcome
  BY DEF Init
<1>2. /\ MaxPorts \in Nat \ {0} /\ MaxEvals \in Nat /\ MaxJobs \in Nat /\ TopK \in Nat \ {0}
  BY DseAssumption
<1>3. /\ log \in Seq(Candidates) /\ Len(log) = 0 /\ DOMAIN log = {}
      /\ binaries \in Seq(Variants) /\ Len(binaries) = 0 /\ DOMAIN binaries = {}
  BY <1>1
<1>4. TypeInv
  <2>1. /\ port \in [edition : 1..MaxPorts, reads : SUBSET Names]
        /\ tree \in [edition : 0..port.edition, reads : SUBSET Names,
                    header : Headers \cup {None}]
    BY <1>1, <1>2
  <2>2. /\ actor \in [alive : BOOLEAN, at : {"idle", "overlay", "make", "run"},
                     header : Headers \cup {None}, binary : Binaries \cup {None}]
        /\ ~actor.alive
    BY <1>1 DEF NoActor
  <2>3. pc \in Places /\ pc \notin {"copy", "select", "searching"} \cup Testing \cup Promoting
    BY <1>1 DEF Places, Testing, Promoting
  <2>4. outcome = [status |-> "none", winner |-> 0, scores |-> <<>>]
    BY <1>1 DEF NoOutcome
  <2>5. Len(log) <= MaxEvals /\ jobs \in 0..MaxJobs /\ disturbed \in BOOLEAN
    <3>1. Len(log) <= MaxEvals
      BY <1>2, <1>3
    <3>2. jobs = 0 /\ 0 \in 0..MaxJobs
      BY <1>1, <1>2
    <3> QED BY <1>1, <3>1, <3>2
  <2> QED BY <1>3, <2>1, <2>2, <2>3, <2>4, <2>5 DEF TypeInv
<1>5. ActorInv /\ SearchInv /\ CreditInv /\ FinalistsInv /\ PreflightInv
  BY <1>1 DEF ActorInv, SearchInv, CreditInv, FinalistsInv, PreflightInv, NoActor, Testing
<1>6. LogInv
  BY <1>1, <1>3 DEF LogInv, OnlyRepeatsAreSkipped
<1>7. VariantsInv
  <2>1. Len(binaries) <= TopK + 1 /\ pc \notin Promoting
    BY <1>1, <1>2, <1>3 DEF Promoting
  <2> QED BY <1>3, <2>1 DEF VariantsInv
<1>8. VerdictInv
  BY <1>1 DEF VerdictInv, NoOutcome
<1> QED BY <1>4, <1>5, <1>6, <1>7, <1>8 DEF DseInv

\* Every behaviour keeps the invariant.
THEOREM Invariant == Spec => []DseInv
<1>1. DseInv /\ [Next]_vars => DseInv'
  BY StepType, StepActor, StepLog, StepPreflight, StepSearch, StepCredit, StepFinalists,
     StepVariants, StepVerdict DEF DseInv
<1> QED BY InitInv, <1>1, PTL DEF Spec

\* The search, its cache and the promotion keep their types, the log and the
\* promotion their bounds.
THEOREM Typed == Spec => []TypeOK
<1>1. DseInv => TypeOK
  <2> SUFFICES ASSUME DseInv
               PROVE  TypeOK
    OBVIOUS
  <2>1. TypeInv /\ ActorInv /\ LogInv /\ FinalistsInv /\ VariantsInv
    BY DEF DseInv
  <2>2. Len(finalists) <= TopK
    <3>1. CASE finalists = <<>>
      BY <3>1, DseAssumption
    <3>2. CASE finalists # <<>>
      BY <2>1, <3>2, FirstOfRanked DEF FinalistsInv, TypeInv
    <3> QED BY <3>1, <3>2
  <2>3. Len(binaries) <= TopK + 1
    BY <2>1 DEF VariantsInv
  <2>4. \A s \in screened : s.id \in DOMAIN log
    BY <2>1 DEF LogInv
  <2>5. actor.at # "idle" => actor.alive /\ actor.header \in Headers
    BY <2>1 DEF ActorInv
  <2> QED BY <2>1, <2>2, <2>3, <2>4, <2>5 DEF TypeOK, TypeInv
<1> QED BY Invariant, <1>1, PTL

\* A score is of its own header, built in the port in force, whatever actor an
\* earlier, killed job has left behind (run_dse, search_running, SearchActor).
THEOREM ScoreOfItsHeader == Spec => []ScoreIsOfItsHeader
<1>1. DseInv => ScoreIsOfItsHeader
  BY DEF DseInv, SearchInv, VariantsInv, VariantHeader, Promoting, ScoreIsOfItsHeader
<1> QED BY Invariant, <1>1, PTL

\* No search credits storage for a knob that nothing reads, unless what preflight
\* cannot tell disturbed it (preflight).
THEOREM OnlyLiveCredited == Spec => []OnlyLiveKnobsAreCredited
<1>1. DseInv => OnlyLiveKnobsAreCredited
  BY DEF DseInv, CreditInv, costed, OnlyLiveKnobsAreCredited
<1> QED BY Invariant, <1>1, PTL

\* What is called a repeat was screened, of the same header, and nothing is
\* screened twice (SRParamsEvaluator.evaluate_program, candidate_key).
THEOREM OnlyRepeatsSkipped == Spec => []OnlyRepeatsAreSkipped
<1>1. DseInv => OnlyRepeatsAreSkipped
  BY DEF DseInv, LogInv
<1> QED BY Invariant, <1>1, PTL

\* Nothing that fits and was screened is passed over for something worse, and no
\* setting is promoted twice (select_finalists).
THEOREM BestPromoted == Spec => []FinalistsAreTheBest
<1>1. DseInv => FinalistsAreTheBest
  <2> SUFFICES ASSUME DseInv
               PROVE  FinalistsAreTheBest
    OBVIOUS
  <2>1. CASE finalists = <<>>
    BY <2>1 DEF FinalistsAreTheBest
  <2>2. CASE finalists # <<>>
    BY <2>2, TheBest DEF DseInv, FinalistsInv, TypeInv
  <2> QED BY <2>1, <2>2
<1> QED BY Invariant, <1>1, PTL

\* A verdict compares variants that ran every trace, and names the best of the
\* finalists that did and that fit (compare_variants, promote_finalists).
THEOREM VerdictLikeWithLike == Spec => []VerdictIsLikeWithLike
<1>1. DseInv => VerdictIsLikeWithLike
  BY DEF DseInv, VerdictInv, VerdictIsLikeWithLike
<1> QED BY Invariant, <1>1, PTL
=============================================================================
