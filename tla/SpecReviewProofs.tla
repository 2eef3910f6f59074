-------------------------- MODULE SpecReviewProofs --------------------------
(***************************************************************************)
(* SpecReview, for every set of algorithms, drafts and claims: the spec    *)
(* keeps its required fields and the search space its cap, a field changes *)
(* only on an authority, a correction with a verified quote is in the spec *)
(* or is asked about, and a review that reports nothing unreviewed has     *)
(* heard of everything.                                                    *)
(*                                                                         *)
(* The rules are three greedy loops and a sort over the patches of a       *)
(* round.  Each is a recursion over subsets, so the first part is about    *)
(* those: one that descends has a solution.  Then pointers, records,       *)
(* applying patches and taking them out, a round, and the invariant, which *)
(* says the spec is complete (DocOK) and where each unit's call is         *)
(* (RoundInv, HeardInv).                                                   *)
(***************************************************************************)
EXTENDS SpecReview, FiniteSetTheorems, TLAPS

-----------------------------------------------------------------------------
(* Finite sets, and recursions over subsets.                               *)

\* A set of subsets of a finite set that is not empty has a smallest one, in the
\* sense that it holds none of the others.
LEMMA SmallestSubset ==
  ASSUME NEW S, IsFiniteSet(S), NEW Bad, Bad \subseteq SUBSET S, Bad # {}
  PROVE  \E T \in Bad : \A U \in Bad : U \subseteq T => U = T
<1>1. IsWellFoundedOn(StrictSubsetOrdering(S), FiniteSubsetsOf(S))
  BY FS_StrictSubsetOrderingWellFounded
<1>2. Bad \subseteq FiniteSubsetsOf(S)
  BY FS_FiniteSubsetsOfFinite
<1>3. PICK T \in Bad : \A U \in Bad : ~(<<U, T>> \in StrictSubsetOrdering(S))
  <2> HIDE DEF FiniteSubsetsOf, StrictSubsetOrdering, IsWellFoundedOn
  <2> QED BY <1>1, <1>2, WFMin
<1>4. ASSUME NEW U \in Bad, U \subseteq T PROVE U = T
  <2>1. <<U, T>> \in (SUBSET S) \X (SUBSET S)
    BY <1>4
  <2>2. U # T => <<U, T>> \in StrictSubsetOrdering(S)
    BY <2>1, <1>4 DEF StrictSubsetOrdering
  <2> QED BY <2>2, <1>3
<1> QED BY <1>3, <1>4

\* A total preorder on a finite set that is not empty has a top.
LEMMA FiniteTop ==
  ASSUME NEW S, IsFiniteSet(S), S # {}, NEW R,
         \A x, y \in S : <<x, y>> \in R \/ <<y, x>> \in R,
         \A x, y, z \in S : <<x, y>> \in R /\ <<y, z>> \in R => <<x, z>> \in R
  PROVE  \E x \in S : \A y \in S : <<x, y>> \in R
<1> DEFINE Topped(T) == \E x \in T : \A y \in T : <<x, y>> \in R
           Bad == {T \in SUBSET S : T # {} /\ ~Topped(T)}
<1>1. SUFFICES ASSUME Bad # {} PROVE FALSE
  BY S \in SUBSET S
<1>2. PICK T \in Bad : \A U \in Bad : U \subseteq T => U = T
  <2> HIDE DEF Bad
  <2>1. Bad \subseteq SUBSET S BY DEF Bad
  <2> QED BY <2>1, <1>1, SmallestSubset
<1>3. PICK a \in T : TRUE
  OBVIOUS
<1>4. CASE T = {a}
  BY <1>4, <1>2, <1>3
<1>5. CASE T # {a}
  <2>1. /\ T \ {a} \in SUBSET S /\ T \ {a} # {} /\ T \ {a} \subseteq T /\ T \ {a} # T
    BY <1>5, <1>3
  <2>2. Topped(T \ {a})
    <3> HIDE DEF Topped
    <3>1. T \ {a} \notin Bad
      BY <2>1, <1>2 DEF Bad
    <3> QED BY <3>1, <2>1 DEF Bad
  <2>3. PICK b \in T \ {a} : \A y \in T \ {a} : <<b, y>> \in R
    BY <2>2
  <2>4. CASE <<b, a>> \in R
    <3>1. \A y \in T : <<b, y>> \in R
      BY <2>3, <2>4
    <3> QED BY <3>1, <2>3, <1>2
  <2>5. CASE <<a, b>> \in R
    <3>1. <<a, a>> \in R
      BY <1>3
    <3>2. \A y \in T : <<a, y>> \in R
      <4> TAKE y \in T
      <4>1. CASE y = a BY <4>1, <3>1
      <4>2. CASE y # a
        <5>1. <<b, y>> \in R BY <4>2, <2>3
        <5>2. a \in S /\ b \in S /\ y \in S BY <1>3, <2>3
        <5> QED BY <5>1, <5>2, <2>5
      <4> QED BY <4>1, <4>2
    <3> QED BY <3>2, <1>3, <1>2
  <2> QED BY <2>4, <2>5, <1>3, <2>3
<1> QED BY <1>4, <1>5

\* A recursion over the subsets of T: given at Stop, and elsewhere made from the
\* value at a smaller subset.
Solves(h, T, X, Stop, base, next, step) ==
    /\ h \in [SUBSET T -> X]
    /\ \A K \in SUBSET T :
          h[K] = IF K \in Stop THEN base[K] ELSE step[K][h[next[K]]]
Descends(S, X, Stop, base, next, step) ==
    /\ \A K \in SUBSET S : K \in Stop => base[K] \in X
    /\ \A K \in SUBSET S : K \notin Stop => next[K] \subseteq K /\ next[K] # K
    /\ \A K \in SUBSET S : \A v \in X : step[K][v] \in X

\* Two solutions agree where both are defined.
LEMMA SolutionsAgree ==
  ASSUME NEW S, IsFiniteSet(S), NEW X, NEW Stop, NEW base, NEW next, NEW step,
         Descends(S, X, Stop, base, next, step),
         NEW T \in SUBSET S, NEW U \in SUBSET S, NEW g, NEW h,
         Solves(g, T, X, Stop, base, next, step), Solves(h, U, X, Stop, base, next, step),
         NEW K \in SUBSET S, K \subseteq T, K \subseteq U
  PROVE  g[K] = h[K]
<1> DEFINE Bad == {L \in SUBSET S : L \subseteq T /\ L \subseteq U /\ g[L] # h[L]}
<1>1. SUFFICES ASSUME Bad # {} PROVE FALSE
  OBVIOUS
<1>2. PICK L \in Bad : \A M \in Bad : M \subseteq L => M = L
  <2>1. Bad \subseteq SUBSET S OBVIOUS
  <2> HIDE DEF Bad
  <2> QED BY <2>1, <1>1, SmallestSubset
<1>3. L \in SUBSET T /\ L \in SUBSET U /\ L \in SUBSET S
  OBVIOUS
<1>4. /\ g[L] = IF L \in Stop THEN base[L] ELSE step[L][g[next[L]]]
      /\ h[L] = IF L \in Stop THEN base[L] ELSE step[L][h[next[L]]]
  BY <1>3 DEF Solves
<1>5. L \notin Stop
  BY <1>4
<1>6. next[L] \subseteq L /\ next[L] # L
  BY <1>5, <1>3 DEF Descends
<1>7. next[L] \notin Bad
  <2> HIDE DEF Bad
  <2> QED BY <1>6, <1>2
<1>8. g[next[L]] = h[next[L]]
  BY <1>7, <1>6, <1>3
<1> QED BY <1>8, <1>5, <1>4

\* A recursion that descends has a solution.
LEMMA SolutionExists ==
  ASSUME NEW S, IsFiniteSet(S), NEW X, NEW Stop, NEW base, NEW next, NEW step,
         Descends(S, X, Stop, base, next, step)
  PROVE  \E f : Solves(f, S, X, Stop, base, next, step)
<1> DEFINE Sol(h, T) == Solves(h, T, X, Stop, base, next, step)
           Bad == {T \in SUBSET S : ~\E h : Sol(h, T)}
<1>1. SUFFICES ASSUME Bad # {} PROVE FALSE
  BY S \in SUBSET S
<1>2. PICK T \in Bad : \A U \in Bad : U \subseteq T => U = T
  <2>1. Bad \subseteq SUBSET S OBVIOUS
  <2> HIDE DEF Bad
  <2> QED BY <2>1, <1>1, SmallestSubset
<1> DEFINE below(U) == CHOOSE h : Sol(h, U)
           f == [K \in SUBSET T |->
                   IF K # T THEN below(K)[K]
                   ELSE IF T \in Stop THEN base[T] ELSE step[T][below(next[T])[next[T]]]]
<1>3. ASSUME NEW U \in SUBSET S, U \subseteq T, U # T PROVE Sol(below(U), U)
  <2> HIDE DEF Sol
  <2>1. U \notin Bad
    <3> HIDE DEF Bad
    <3> QED BY <1>3, <1>2
  <2>2. \E h : Sol(h, U)
    BY <2>1
  <2> QED BY <2>2
<1>4. T \in SUBSET S
  OBVIOUS
<1> HIDE DEF below, Bad
<1>5. ASSUME NEW K \in SUBSET T PROVE f[K] \in X
  <2>1. CASE K # T
    <3>1. Sol(below(K), K) BY <2>1, <1>3, <1>4
    <3>2. K \in SUBSET K OBVIOUS
    <3>3. below(K)[K] \in X BY <3>1, <3>2 DEF Solves
    <3> QED BY <3>3, <2>1
  <2>2. CASE K = T /\ T \in Stop
    BY <2>2, <1>4 DEF Descends
  <2>3. CASE K = T /\ T \notin Stop
    <3>1. next[T] \subseteq T /\ next[T] # T BY <2>3, <1>4 DEF Descends
    <3>2. Sol(below(next[T]), next[T]) BY <3>1, <1>3, <1>4
    <3>3. next[T] \in SUBSET next[T] OBVIOUS
    <3>4. below(next[T])[next[T]] \in X BY <3>2, <3>3 DEF Solves
    <3> QED BY <3>4, <2>3, <1>4 DEF Descends
  <2> QED BY <2>1, <2>2, <2>3
<1>6. ASSUME NEW K \in SUBSET T
      PROVE  f[K] = IF K \in Stop THEN base[K] ELSE step[K][f[next[K]]]
  <2>1. CASE K \in Stop
    <3>1. CASE K = T BY <3>1, <2>1
    <3>2. CASE K # T
      <4>1. Sol(below(K), K) BY <3>2, <1>3, <1>4
      <4>2. K \in SUBSET K OBVIOUS
      <4>3. below(K)[K] = base[K] BY <4>1, <4>2, <2>1 DEF Solves
      <4> QED BY <4>3, <3>2, <2>1
    <3> QED BY <3>1, <3>2
  <2>2. CASE K \notin Stop
    <3> DEFINE N == next[K]
    <3>1. N \subseteq K /\ N # K /\ N \in SUBSET T /\ N \in SUBSET S
      BY <2>2, <1>4 DEF Descends
    <3>2. N # T
      BY <3>1
    <3> HIDE DEF N
    <3>3. f[N] = below(N)[N]
      BY <3>1, <3>2
    <3>4. CASE K = T
      BY <3>4, <3>3, <2>2 DEF N
    <3>5. CASE K # T
      <4>1. Sol(below(K), K) /\ Sol(below(N), N)
        BY <3>5, <3>1, <3>2, <1>3, <1>4
      <4>2. below(K)[K] = step[K][below(K)[N]]
        <5>1. K \in SUBSET K OBVIOUS
        <5> QED BY <4>1, <5>1, <2>2 DEF Solves, N
      <4>3. below(K)[N] = below(N)[N]
        <5>1. K \in SUBSET S /\ N \in SUBSET S /\ N \subseteq K /\ N \subseteq N
          BY <1>4, <3>1
        <5>2. /\ Solves(below(K), K, X, Stop, base, next, step)
              /\ Solves(below(N), N, X, Stop, base, next, step)
          BY <4>1
        <5> HIDE DEF f, Sol
        <5> QED BY ONLY <5>1, <5>2, SolutionsAgree, IsFiniteSet(S),
                        Descends(S, X, Stop, base, next, step)
      <4> QED BY <4>2, <4>3, <3>3, <3>5, <2>2 DEF N
    <3> QED BY <3>4, <3>5
  <2> QED BY <2>1, <2>2
<1>7. Sol(f, T)
  <2>1. f \in [SUBSET T -> X]
    <3>1. f = [K \in SUBSET T |-> f[K]] OBVIOUS
    <3> HIDE DEF f
    <3> QED BY <1>5, <3>1
  <2> HIDE DEF f
  <2> QED BY <2>1, <1>6 DEF Solves
<1> QED BY <1>7, <1>2 DEF Bad

-----------------------------------------------------------------------------
(* First records, greedy loops, and the cap on knobs.                      *)

\* Of finitely many records one comes first.
LEMMA FirstFacts ==
  ASSUME NEW S, IsFiniteSet(S), S # {}, \A r \in S : r.id \in Nat
  PROVE  first(S) \in S /\ \A q \in S : first(S).id <= q.id
<1> DEFINE R == {p \in S \X S : p[1].id <= p[2].id}
<1>1. \A x, y \in S : <<x, y>> \in R <=> x.id <= y.id
  OBVIOUS
<1> HIDE DEF R
<1>2. \A x, y \in S : <<x, y>> \in R \/ <<y, x>> \in R
  <2> TAKE x, y \in S
  <2>1. x.id \in Nat /\ y.id \in Nat OBVIOUS
  <2> QED BY <2>1, <1>1
<1>3. \A x, y, z \in S : <<x, y>> \in R /\ <<y, z>> \in R => <<x, z>> \in R
  <2> TAKE x, y, z \in S
  <2>1. x.id \in Nat /\ y.id \in Nat /\ z.id \in Nat OBVIOUS
  <2> QED BY <2>1, <1>1
<1>4. \E x \in S : \A y \in S : <<x, y>> \in R
  BY <1>2, <1>3, FiniteTop
<1>5. \E x \in S : \A q \in S : x.id <= q.id
  BY <1>4, <1>1
<1> QED BY <1>5 DEF first

\* The greedy loop takes out patches, and only patches somebody blames.
LEMMA DroppingFacts ==
  ASSUME NEW S, IsFiniteSet(S), NEW clean, NEW blamed,
         \A r \in S : r.id \in Nat, \A K \in SUBSET S : blamed[K] \subseteq K
  PROVE  /\ dropping(S, clean, blamed) \subseteq S
         /\ \A r \in S : (\A K \in SUBSET S : r \notin blamed[K])
                            => r \in dropping(S, clean, blamed)
<1> DEFINE body(f, K) == IF K \in clean THEN K
                         ELSE IF blamed[K] = {} THEN S
                         ELSE f[K \ {first(blamed[K])}]
           kept == CHOOSE f : f = [K \in SUBSET S |-> body(f, K)]
           Stop == {K \in SUBSET S : K \in clean \/ blamed[K] = {}}
           base == [K \in SUBSET S |-> IF K \in clean THEN K ELSE S]
           next == [K \in SUBSET S |-> K \ {first(blamed[K])}]
           step == [K \in SUBSET S |-> [v \in SUBSET S |-> v]]
<1>1. dropping(S, clean, blamed) = kept[S]
  BY DEF dropping
<1>2. ASSUME NEW K \in SUBSET S, blamed[K] # {} PROVE first(blamed[K]) \in blamed[K]
  <2>1. blamed[K] \subseteq S
    OBVIOUS
  <2>2. IsFiniteSet(blamed[K])
    BY <2>1, FS_Subset
  <2> QED BY <2>1, <2>2, <1>2, FirstFacts
<1>3. Descends(S, SUBSET S, Stop, base, next, step)
  <2>1. \A K \in SUBSET S : K \notin Stop => next[K] \subseteq K /\ next[K] # K
    BY <1>2
  <2> QED BY <2>1 DEF Descends
<1>4. \E f : f = [K \in SUBSET S |-> body(f, K)]
  <2>1. PICK f : Solves(f, S, SUBSET S, Stop, base, next, step)
    <3> HIDE DEF Stop, base, next, step
    <3> QED BY <1>3, SolutionExists
  <2>2. f \in [SUBSET S -> SUBSET S]
    BY <2>1 DEF Solves
  <2>3. ASSUME NEW K \in SUBSET S PROVE f[K] = body(f, K)
    <3>1. f[K] = IF K \in Stop THEN base[K] ELSE step[K][f[next[K]]]
      BY <2>1 DEF Solves
    <3>2. CASE K \in Stop
      BY <3>1, <3>2
    <3>3. CASE K \notin Stop
      <4>1. next[K] \in SUBSET S /\ f[next[K]] \in SUBSET S
        BY <2>2
      <4> QED BY <4>1, <3>1, <3>3
    <3> QED BY <3>2, <3>3
  <2>4. f = [K \in SUBSET S |-> f[K]]
    BY <2>2
  <2>5. f = [K \in SUBSET S |-> body(f, K)]
    <3> HIDE DEF body
    <3> QED BY <2>3, <2>4
  <2> QED BY <2>5
<1>5. kept = [K \in SUBSET S |-> body(kept, K)]
  BY <1>4
<1> HIDE DEF kept
<1>6. ASSUME NEW K \in SUBSET S PROVE kept[K] = body(kept, K)
  BY <1>5
<1> DEFINE Good(K) == /\ kept[K] \subseteq S
                      /\ \A r \in K : (\A L \in SUBSET S : r \notin blamed[L]) => r \in kept[K]
           Bad == {K \in SUBSET S : ~Good(K)}
<1>7. Bad = {}
  <2>1. SUFFICES ASSUME Bad # {} PROVE FALSE
    OBVIOUS
  <2>2. PICK K \in Bad : \A L \in Bad : L \subseteq K => L = K
    <3>1. Bad \subseteq SUBSET S OBVIOUS
    <3> HIDE DEF Bad
    <3> QED BY <3>1, <2>1, SmallestSubset
  <2>3. K \in SUBSET S /\ ~Good(K)
    OBVIOUS
  <2>4. CASE K \in clean \/ blamed[K] = {}
    BY <2>4, <2>3, <1>6
  <2>5. CASE K \notin clean /\ blamed[K] # {}
    <3> DEFINE L == K \ {first(blamed[K])}
    <3>1. first(blamed[K]) \in blamed[K] /\ first(blamed[K]) \in K
      BY <2>5, <2>3, <1>2
    <3>2. L \in SUBSET S /\ L \subseteq K /\ L # K
      BY <3>1, <2>3
    <3>3. Good(L)
      <4> HIDE DEF L, Good
      <4>1. L \notin Bad
        <5> HIDE DEF Bad
        <5> QED BY <3>2, <2>2
      <4> QED BY <4>1, <3>2
    <3>4. kept[K] = kept[L]
      BY <2>5, <2>3, <1>6
    <3>5. \A r \in K : (\A M \in SUBSET S : r \notin blamed[M]) => r \in L
      BY <3>1, <2>3
    <3>6. Good(K)
      <4> HIDE DEF L
      <4> QED BY <3>3, <3>4, <3>5
    <3> QED BY <3>6, <2>3
  <2> QED BY <2>4, <2>5
<1>8. Good(S)
  <2> HIDE DEF Good
  <2> QED BY <1>7
<1> QED BY <1>8, <1>1

\* outranks is total and transitive over records with numbers.
LEMMA OutranksIsOrder ==
  ASSUME NEW before, NEW replies, IsFiniteSet(replies),
         NEW S, \A r \in S : r.declared \in Nat /\ r.id \in Nat
  PROVE  /\ \A x, y \in S : \/ outranks(x, y, before, replies)
                            \/ outranks(y, x, before, replies)
         /\ \A x, y, z \in S :
               outranks(x, y, before, replies) /\ outranks(y, z, before, replies)
                  => outranks(x, z, before, replies)
<1> DEFINE mark(r) == promotion_rank(r, before, replies)
<1>1. ASSUME NEW r \in S PROVE mark(r) \in Nat \X Nat \X Nat
  <2> DEFINE alike == {q \in unsupported(replies) : q.choices = r.choices}
             n == Cardinality(alike)
  <2>1. n \in Nat
    <3>1. alike \in SUBSET replies BY DEF unsupported
    <3> HIDE DEF alike
    <3> QED BY <3>1, FS_Subset, FS_CardinalityType
  <2>2. mark(r) = <<r.declared, IF element(r.at) \in {element(e.at) : e \in errors(before)}
                                THEN 1 ELSE 0, n>>
    BY DEF promotion_rank
  <2> HIDE DEF n, mark
  <2> QED BY <2>1, <2>2
<1>2. ASSUME NEW x, NEW y
      PROVE  outranks(x, y, before, replies) <=>
                \/ mark(x)[1] > mark(y)[1]
                \/ mark(x)[1] = mark(y)[1] /\ mark(x)[2] > mark(y)[2]
                \/ mark(x)[1] = mark(y)[1] /\ mark(x)[2] = mark(y)[2] /\ mark(x)[3] > mark(y)[3]
                \/ mark(x) = mark(y) /\ x.id <= y.id
  BY DEF outranks
<1>3. ASSUME NEW a \in Nat \X Nat \X Nat, NEW b \in Nat \X Nat \X Nat
      PROVE  /\ a[1] \in Nat /\ a[2] \in Nat /\ a[3] \in Nat
             /\ a = b <=> a[1] = b[1] /\ a[2] = b[2] /\ a[3] = b[3]
  OBVIOUS
<1> HIDE DEF mark
<1>4. ASSUME NEW x \in S, NEW y \in S
      PROVE  outranks(x, y, before, replies) \/ outranks(y, x, before, replies)
  <2>1. mark(x) \in Nat \X Nat \X Nat /\ mark(y) \in Nat \X Nat \X Nat
    BY <1>1
  <2>2. x.id \in Nat /\ y.id \in Nat
    OBVIOUS
  <2> QED BY <2>1, <2>2, <1>2, <1>3
<1>5. ASSUME NEW x \in S, NEW y \in S, NEW z \in S,
             outranks(x, y, before, replies), outranks(y, z, before, replies)
      PROVE  outranks(x, z, before, replies)
  <2>1. /\ mark(x) \in Nat \X Nat \X Nat /\ mark(y) \in Nat \X Nat \X Nat
        /\ mark(z) \in Nat \X Nat \X Nat
    BY <1>1
  <2>2. x.id \in Nat /\ y.id \in Nat /\ z.id \in Nat
    OBVIOUS
  <2> QED BY <2>1, <2>2, <1>2, <1>3, <1>5
<1> QED BY <1>4, <1>5

\* One more offer adds at most one knob, and none beyond the cap.
LEMMA OfferedFacts ==
  ASSUME NEW r, NEW got, IsFiniteSet(got), NEW doc, IsFiniteSet(doc.knobs),
         got = {} \/ Cardinality(got) + Cardinality(doc.knobs) <= MaxPromoted
  PROVE  /\ offered(r, got, doc) \subseteq
               got \cup {[choices |-> r.choices, topic |-> r.topic]}
         /\ IsFiniteSet(offered(r, got, doc))
         /\ \/ offered(r, got, doc) = {}
            \/ Cardinality(offered(r, got, doc)) + Cardinality(doc.knobs) <= MaxPromoted
<1> DEFINE k == [choices |-> r.choices, topic |-> r.topic]
<1>1. \/ offered(r, got, doc) = got
      \/ /\ offered(r, got, doc) = got \cup {k}
         /\ ~(Cardinality(got) + Cardinality(doc.knobs) >= MaxPromoted)
  BY DEF offered
<1>2. IsFiniteSet(got \cup {k}) /\ Cardinality(got \cup {k}) <= Cardinality(got) + 1
  <2> HIDE DEF k
  <2>1. Cardinality(got) \in Nat
    BY FS_CardinalityType
  <2>2. /\ IsFiniteSet(got \cup {k})
        /\ Cardinality(got \cup {k}) = IF k \in got THEN Cardinality(got) ELSE Cardinality(got) + 1
    BY FS_AddElement
  <2> DEFINE more == Cardinality(got \cup {k})
             now == Cardinality(got)
  <2> HIDE DEF more, now
  <2>3. more <= now + 1
    BY <2>1, <2>2 DEF more, now
  <2> QED BY <2>2, <2>3 DEF more, now
<1>3. Cardinality(got) \in Nat /\ Cardinality(doc.knobs) \in Nat /\ MaxPromoted \in Nat
      /\ Cardinality(got \cup {k}) \in Nat
  BY <1>2, FS_CardinalityType, ReviewAssumption
<1> HIDE DEF k
<1>4. CASE offered(r, got, doc) = got
  BY <1>4
<1>5. CASE /\ offered(r, got, doc) = got \cup {k}
           /\ ~(Cardinality(got) + Cardinality(doc.knobs) >= MaxPromoted)
  <2>1. offered(r, got, doc) \subseteq got \cup {k}
    BY <1>5
  <2>2. Cardinality(got \cup {k}) + Cardinality(doc.knobs) <= MaxPromoted
    BY <1>5, <1>2, <1>3
  <2> QED BY <2>1, <2>2, <1>5, <1>2 DEF k
<1> QED BY <1>1, <1>4, <1>5

\* The knobs a round mints are finitely many, and fit under the cap beside the
\* knobs of the rounds before.
LEMMA MintedFacts ==
  ASSUME NEW before, NEW doc, NEW replies, IsFiniteSet(replies),
         \A r \in replies : r.declared \in Nat /\ r.id \in Nat,
         IsFiniteSet(doc.knobs), Cardinality(doc.knobs) <= MaxPromoted
  PROVE  LET all == doc.knobs \cup minted(before, doc, replies)
         IN IsFiniteSet(all) /\ Cardinality(all) <= MaxPromoted
<1> DEFINE P == promotable(replies)
           worst(K) == CHOOSE x \in K : \A q \in K : outranks(q, x, before, replies)
           body(f, K) == IF K = {} THEN {} ELSE offered(worst(K), f[K \ {worst(K)}], doc)
           mint == CHOOSE f : f = [K \in SUBSET P |-> body(f, K)]
           X == SUBSET {[choices |-> r.choices, topic |-> r.topic] : r \in P}
           Stop == {{}}
           base == [K \in SUBSET P |-> {}]
           next == [K \in SUBSET P |-> K \ {worst(K)}]
           step == [K \in SUBSET P |->
                      [v \in X |-> IF K = {} THEN {} ELSE offered(worst(K), v, doc)]]
<1>1. minted(before, doc, replies) = mint[P]
  BY DEF minted
<1>2. P \subseteq replies /\ IsFiniteSet(P) /\ (\A r \in P : r.declared \in Nat /\ r.id \in Nat)
  <2>1. P \subseteq replies
    BY DEF promotable, unsupported
  <2> HIDE DEF P
  <2> QED BY <2>1, FS_Subset
<1> HIDE DEF P
<1>3. ASSUME NEW K \in SUBSET P, K # {} PROVE worst(K) \in K
  <2> DEFINE R == {p \in K \X K : outranks(p[2], p[1], before, replies)}
  <2>1. \A x, y \in K : <<x, y>> \in R <=> outranks(y, x, before, replies)
    OBVIOUS
  <2> HIDE DEF R
  <2>2. IsFiniteSet(K)
    BY <1>2, FS_Subset
  <2>3. /\ \A x, y \in K : \/ outranks(x, y, before, replies)
                           \/ outranks(y, x, before, replies)
        /\ \A x, y, z \in K :
               outranks(x, y, before, replies) /\ outranks(y, z, before, replies)
                  => outranks(x, z, before, replies)
    <3>1. \A r \in K : r.declared \in Nat /\ r.id \in Nat
      BY <1>2
    <3> QED BY <3>1, OutranksIsOrder
  <2>4. \E x \in K : \A y \in K : <<x, y>> \in R
    <3>1. \A x, y \in K : <<x, y>> \in R \/ <<y, x>> \in R
      BY <2>1, <2>3
    <3>2. \A x, y, z \in K : <<x, y>> \in R /\ <<y, z>> \in R => <<x, z>> \in R
      BY <2>1, <2>3
    <3> QED BY <3>1, <3>2, <2>2, <1>3, FiniteTop
  <2>5. \E x \in K : \A q \in K : outranks(q, x, before, replies)
    BY <2>4, <2>1
  <2> QED BY <2>5
<1> HIDE DEF worst
<1>4. Descends(P, X, Stop, base, next, step)
  <2>1. \A K \in SUBSET P : K \in Stop => base[K] \in X
    OBVIOUS
  <2>2. \A K \in SUBSET P : K \notin Stop => next[K] \subseteq K /\ next[K] # K
    BY <1>3
  <2>3. ASSUME NEW K \in SUBSET P, NEW v \in X PROVE step[K][v] \in X
    <3>1. CASE K = {}
      BY <3>1
    <3>2. CASE K # {}
      <4> DEFINE r == worst(K)
      <4>1. r \in P
        BY <3>2, <1>3
      <4> HIDE DEF r
      <4>2. offered(r, v, doc) \subseteq v \cup {[choices |-> r.choices, topic |-> r.topic]}
        BY DEF offered
      <4>3. offered(r, v, doc) \in X
        BY <4>1, <4>2
      <4>4. step[K][v] = offered(r, v, doc)
        BY <3>2 DEF r
      <4> QED BY <4>3, <4>4
    <3> QED BY <3>1, <3>2
  <2> HIDE DEF X, Stop, base, next, step
  <2> QED BY <2>1, <2>2, <2>3 DEF Descends
<1>5. \E f : f = [K \in SUBSET P |-> body(f, K)]
  <2>1. PICK f : Solves(f, P, X, Stop, base, next, step)
    <3> HIDE DEF X, Stop, base, next, step
    <3> QED BY <1>4, <1>2, SolutionExists
  <2>2. f \in [SUBSET P -> X]
    BY <2>1 DEF Solves
  <2>3. ASSUME NEW K \in SUBSET P PROVE f[K] = body(f, K)
    <3>1. f[K] = IF K \in Stop THEN base[K] ELSE step[K][f[next[K]]]
      BY <2>1 DEF Solves
    <3>2. CASE K = {}
      BY <3>1, <3>2
    <3>3. CASE K # {}
      <4>1. next[K] \in SUBSET P /\ f[next[K]] \in X
        <5> HIDE DEF X
        <5> QED BY <2>2
      <4>2. step[K][f[next[K]]] = offered(worst(K), f[next[K]], doc)
        <5> HIDE DEF X, next
        <5> QED BY <4>1, <3>3
      <4>3. f[K] = step[K][f[next[K]]]
        BY <3>1, <3>3
      <4> QED BY <4>2, <4>3, <3>3
    <3> QED BY <3>2, <3>3
  <2>4. f = [K \in SUBSET P |-> f[K]]
    BY <2>2
  <2>5. f = [K \in SUBSET P |-> body(f, K)]
    <3> HIDE DEF body
    <3> QED BY <2>3, <2>4
  <2> QED BY <2>5
<1>6. mint = [K \in SUBSET P |-> body(mint, K)]
  BY <1>5
<1> HIDE DEF mint
<1>7. ASSUME NEW K \in SUBSET P PROVE mint[K] = body(mint, K)
  BY <1>6
<1> DEFINE Fits(v) == /\ IsFiniteSet(v)
                      /\ v = {} \/ Cardinality(v) + Cardinality(doc.knobs) <= MaxPromoted
           Bad == {K \in SUBSET P : ~Fits(mint[K])}
<1>8. Bad = {}
  <2>1. SUFFICES ASSUME Bad # {} PROVE FALSE
    OBVIOUS
  <2>2. PICK K \in Bad : \A L \in Bad : L \subseteq K => L = K
    <3>1. Bad \subseteq SUBSET P OBVIOUS
    <3> HIDE DEF Bad
    <3> QED BY <3>1, <2>1, <1>2, SmallestSubset
  <2>3. K \in SUBSET P /\ ~Fits(mint[K])
    OBVIOUS
  <2>4. CASE K = {}
    BY <2>4, <2>3, <1>7, FS_EmptySet
  <2>5. CASE K # {}
    <3> DEFINE L == K \ {worst(K)}
    <3>1. L \in SUBSET P /\ L \subseteq K /\ L # K
      BY <2>5, <2>3, <1>3
    <3>2. Fits(mint[L])
      <4> HIDE DEF L, Fits
      <4>1. L \notin Bad
        <5> HIDE DEF Bad
        <5> QED BY <3>1, <2>2
      <4> QED BY <4>1, <3>1
    <3>3. mint[K] = offered(worst(K), mint[L], doc)
      BY <2>5, <2>3, <1>7
    <3>4. Fits(mint[K])
      <4> HIDE DEF L
      <4> QED BY <3>2, <3>3, OfferedFacts
    <3> QED BY <3>4, <2>3
  <2> QED BY <2>4, <2>5
<1>9. Fits(mint[P])
  <2> HIDE DEF Fits
  <2> QED BY <1>8
<1> DEFINE new == minted(before, doc, replies)
<1>10. /\ IsFiniteSet(new)
       /\ new = {} \/ Cardinality(new) + Cardinality(doc.knobs) <= MaxPromoted
  BY <1>9, <1>1
<1> HIDE DEF new
<1>11. /\ IsFiniteSet(doc.knobs \cup new) /\ IsFiniteSet(doc.knobs \cap new)
       /\ Cardinality(doc.knobs \cup new)
            = Cardinality(doc.knobs) + Cardinality(new) - Cardinality(doc.knobs \cap new)
  <2>1. doc.knobs \cap new \in SUBSET new
    OBVIOUS
  <2> QED BY <1>10, <2>1, FS_Union, FS_Subset
<1>12. CASE new = {}
  <2>1. doc.knobs \cup new = doc.knobs
    BY <1>12
  <2> QED BY <2>1, <1>11 DEF new
<1>13. CASE Cardinality(new) + Cardinality(doc.knobs) <= MaxPromoted
  <2>1. /\ Cardinality(new) \in Nat /\ Cardinality(doc.knobs) \in Nat
        /\ Cardinality(doc.knobs \cap new) \in Nat /\ MaxPromoted \in Nat
    BY <1>10, <1>11, FS_CardinalityType, ReviewAssumption
  <2>2. Cardinality(doc.knobs \cup new) <= MaxPromoted
    BY <2>1, <1>11, <1>13
  <2> QED BY <2>2, <1>11 DEF new
<1> QED BY <1>10, <1>12, <1>13

-----------------------------------------------------------------------------
(* Pointers.                                                               *)

\* Prefixes among pointers of one or two tokens.
LEMMA ObjectPrefix ==
  ASSUME NEW a, NEW c, NEW d
  PROVE  IsPrefix(<<a>>, <<c, d>>) <=> a = c
BY DEF IsPrefix

\* An object is under no object but itself.
LEMMA ObjectPrefixes ==
  ASSUME NEW a, NEW c
  PROVE  IsPrefix(<<a>>, <<c>>) <=> a = c
BY DEF IsPrefix

\* A field is under no field but itself.
LEMMA FieldPrefix ==
  ASSUME NEW a, NEW b, NEW c, NEW d
  PROVE  IsPrefix(<<a, b>>, <<c, d>>) <=> a = c /\ b = d
BY DEF IsPrefix

\* No object is under a field.
LEMMA NoPrefix ==
  ASSUME NEW a, NEW b, NEW c
  PROVE  ~IsPrefix(<<a, b>>, <<c>>)
BY DEF IsPrefix

\* Pointers are equal when their tokens are.
LEMMA ShortPointers ==
  ASSUME NEW a, NEW b, NEW c, NEW d
  PROVE  /\ <<a>>[1] = a /\ Len(<<a>>) = 1
         /\ <<a, b>>[1] = a /\ <<a, b>>[2] = b /\ Len(<<a, b>>) = 2
         /\ <<a>> = <<c>> <=> a = c
         /\ <<a>> # <<c, d>>
         /\ <<a, b>> = <<c, d>> <=> a = c /\ b = d
OBVIOUS

\* The fields: each lies in one of four objects, and has a name of its own.
LEMMA LeafShape ==
  ASSUME NEW p \in Leaves
  PROVE  /\ p = <<p[1], p[2]>> /\ Len(p) = 2
         /\ p[1] \in {"param", "state", "algo", "acct"}
         /\ p = Default \/ p = Bound <=> p[1] = "param"
         /\ p = Size \/ p = Indexing <=> p[1] = "state"
         /\ p = Total <=> p[1] = "acct"
         /\ p = Body <=> p[1] = "algo"
BY ShortPointers DEF Leaves, Default, Bound, Size, Indexing, Total, Body

\* The other pointers: an object, or the end of an array.
LEMMA PointerShape ==
  ASSUME NEW a \in Pointers
  PROVE  \/ a \in Leaves /\ ~is_append(a)
         \/ /\ a = <<a[1]>> /\ Len(a) = 1 /\ a[1] \in {"param", "state", "algo", "acct"}
            /\ ~is_append(a) /\ a \notin Leaves
         \/ /\ a = <<a[1], a[2]>> /\ Len(a) = 2 /\ a[1] \in {"algorithms", "parameters"}
            /\ is_append(a) /\ a \notin Leaves
<1> USE DEF Default, Bound, Size, Indexing, Total, Body, NewAlgorithm, NewParameter
<1>1. CASE a \in {<<"param">>, <<"state">>, <<"algo">>, <<"acct">>}
  BY <1>1, ShortPointers DEF Leaves, is_append
<1>2. CASE a \in Leaves
  BY <1>2, ShortPointers DEF Leaves, is_append
<1>3. CASE a \in {NewAlgorithm, NewParameter}
  BY <1>3, ShortPointers DEF Leaves, is_append
<1> QED BY <1>1, <1>2, <1>3 DEF Pointers, Elements

\* A field is reached by a patch of the field and by one of its object, and by
\* no append.
LEMMA LeafPrefixes ==
  ASSUME NEW p \in Leaves, NEW a \in Pointers
  PROVE  /\ IsPrefix(a, p) <=> a = p \/ a = <<p[1]>>
         /\ IsPrefix(a, p) => ~is_append(a)
<1>1. p = <<p[1], p[2]>> /\ p[1] \in {"param", "state", "algo", "acct"}
  BY LeafShape
<1>2. CASE a \in Leaves /\ ~is_append(a)
  <2>1. a = <<a[1], a[2]>>
    BY <1>2, LeafShape
  <2>2. IsPrefix(<<a[1], a[2]>>, <<p[1], p[2]>>) <=> a[1] = p[1] /\ a[2] = p[2]
    BY ObjectPrefix, FieldPrefix
  <2>3. <<a[1], a[2]>> = <<p[1], p[2]>> <=> a[1] = p[1] /\ a[2] = p[2]
    BY ShortPointers
  <2>4. <<a[1], a[2]>> # <<p[1]>>
    BY ShortPointers
  <2> QED BY <2>1, <2>2, <2>3, <2>4, <1>1, <1>2
<1>3. CASE a = <<a[1]>> /\ ~is_append(a)
  <2>1. IsPrefix(<<a[1]>>, <<p[1], p[2]>>) <=> a[1] = p[1]
    BY ObjectPrefix, FieldPrefix
  <2>2. <<a[1]>> = <<p[1]>> <=> a[1] = p[1]
    BY ShortPointers
  <2>3. <<a[1]>> # <<p[1], p[2]>>
    BY ShortPointers
  <2> QED BY <2>1, <2>2, <2>3, <1>1, <1>3
<1>4. CASE a = <<a[1], a[2]>> /\ a[1] \in {"algorithms", "parameters"} /\ is_append(a)
  <2>1. IsPrefix(<<a[1], a[2]>>, <<p[1], p[2]>>) <=> a[1] = p[1] /\ a[2] = p[2]
    BY ObjectPrefix, FieldPrefix
  <2>2. <<a[1], a[2]>> = <<p[1], p[2]>> <=> a[1] = p[1] /\ a[2] = p[2]
    BY ShortPointers
  <2>3. <<a[1], a[2]>> # <<p[1]>>
    BY ShortPointers
  <2>4. a[1] # p[1]
    BY <1>1, <1>4
  <2> QED BY <2>1, <2>2, <2>3, <2>4, <1>1, <1>4
<1> QED BY <1>2, <1>3, <1>4, PointerShape

\* What overlaps shares its first token; an object overlaps all that lies in it.
LEMMA OverlapHeads ==
  ASSUME NEW a \in Pointers, NEW b \in Pointers, overlaps(a, b)
  PROVE  a[1] = b[1]
<1>1. \A x \in Pointers : x = <<x[1]>> \/ x = <<x[1], x[2]>>
  BY PointerShape, LeafShape
<1>2. ASSUME NEW x \in Pointers, NEW y \in Pointers, IsPrefix(x, y) PROVE x[1] = y[1]
  <2>1. CASE x = <<x[1]>> /\ y = <<y[1]>>
    <3>1. IsPrefix(<<x[1]>>, <<y[1]>>) BY <2>1, <1>2
    <3> QED BY <3>1, ObjectPrefixes
  <2>2. CASE x = <<x[1]>> /\ y = <<y[1], y[2]>>
    <3>1. IsPrefix(<<x[1]>>, <<y[1], y[2]>>) BY <2>2, <1>2
    <3> QED BY <3>1, ObjectPrefix
  <2>3. CASE x = <<x[1], x[2]>> /\ y = <<y[1]>>
    <3>1. IsPrefix(<<x[1], x[2]>>, <<y[1]>>) BY <2>3, <1>2
    <3> QED BY <3>1, NoPrefix
  <2>4. CASE x = <<x[1], x[2]>> /\ y = <<y[1], y[2]>>
    <3>1. IsPrefix(<<x[1], x[2]>>, <<y[1], y[2]>>) BY <2>4, <1>2
    <3> QED BY <3>1, FieldPrefix
  <2> QED BY <2>1, <2>2, <2>3, <2>4, <1>1
<1> QED BY <1>2 DEF overlaps

\* An object overlaps every pointer that starts with its token.
LEMMA HeadOverlaps ==
  ASSUME NEW a \in Pointers, NEW h
  PROVE  a[1] = h => overlaps(a, <<h>>)
<1>1. a = <<a[1]>> \/ a = <<a[1], a[2]>>
  BY PointerShape, LeafShape
<1>2. CASE a = <<a[1]>>
  <2>1. IsPrefix(<<h>>, <<a[1]>>) <=> h = a[1]
    BY ObjectPrefixes
  <2> QED BY <2>1, <1>2 DEF overlaps
<1>3. CASE a = <<a[1], a[2]>>
  <2>1. IsPrefix(<<h>>, <<a[1], a[2]>>) <=> h = a[1]
    BY ObjectPrefix
  <2> QED BY <2>1, <1>3 DEF overlaps
<1> QED BY <1>1, <1>2, <1>3

\* Two patches that reach one field overlap.
LEMMA ReachersOverlap ==
  ASSUME NEW p \in Leaves, NEW a \in Pointers, NEW b \in Pointers,
         IsPrefix(a, p), IsPrefix(b, p)
  PROVE  overlaps(a, b)
<1>1. (a = p \/ a = <<p[1]>>) /\ (b = p \/ b = <<p[1]>>)
  BY LeafPrefixes
<1>2. IsPrefix(p, p) /\ IsPrefix(<<p[1]>>, p)
  <2>1. p = <<p[1], p[2]>> BY LeafShape
  <2>2. IsPrefix(<<p[1], p[2]>>, <<p[1], p[2]>>) BY FieldPrefix
  <2>3. IsPrefix(<<p[1]>>, <<p[1], p[2]>>) BY ObjectPrefix
  <2> QED BY <2>1, <2>2, <2>3
<1>3. IsPrefix(<<p[1]>>, <<p[1]>>)
  BY ObjectPrefixes
<1> QED BY <1>1, <1>2, <1>3 DEF overlaps

\* The places a check reports, and the objects around them.
LEMMA Places ==
  /\ Default \in Leaves /\ Bound \in Leaves /\ Size \in Leaves /\ Indexing \in Leaves
  /\ Total \in Leaves /\ Body \in Leaves
  /\ Default \in Pointers /\ Total \in Pointers /\ NewAlgorithm \in Pointers
  /\ Leaves \subseteq Pointers
  /\ Default[1] = "param" /\ Bound[1] = "param" /\ Total[1] = "acct"
  /\ Size[1] = "state" /\ NewAlgorithm[1] = "algorithms"
  /\ Default # Bound /\ Size # Indexing /\ Default # Total /\ Bound # Total
  /\ enclosing(Default) = <<"param">> /\ enclosing(Total) = <<"acct">>
  /\ enclosing(NewAlgorithm) = NewAlgorithm
  /\ <<"param">> \in Pointers /\ <<"acct">> \in Pointers
  /\ Required \subseteq Leaves /\ Default \in Required /\ Bound \in Required
  /\ Size \in Required /\ Total \in Required /\ Indexing \notin Required
  /\ is_append(NewAlgorithm)
BY DEF Leaves, Pointers, Elements, Required, enclosing, is_append, Default, Bound, Size,
       Indexing, Total, Body, NewAlgorithm, NewParameter

-----------------------------------------------------------------------------
(* Records.                                                                *)

\* A record whose patch can be applied.
HasPatch(r) ==
    /\ r.id \in Nat /\ r.patch # None
    /\ r.patch.at \in Pointers /\ r.patch.op \in {"replace", "add"}
    /\ r.patch.op = "add" => r.patch.at \in Leaves \/ is_append(r.patch.at)
    /\ ~is_append(r.patch.at) =>
          fills(r.patch.value, {p \in Leaves : IsPrefix(r.patch.at, p)})
    /\ r.patch.at \in Leaves => r.patch.at \in DOMAIN r.patch.value

\* What verifying the evidence does to a record.
LEMMA VerifiedFacts ==
  ASSUME NEW r \in Claims
  PROVE  LET v == verify_evidence(r) IN
         /\ v.id = r.id /\ v.unit = r.unit /\ v.at = r.at /\ v.topic = r.topic
         /\ v.id \in Nat /\ v.declared \in Nat
         /\ v.patch # None => v.patch = r.patch /\ v.verdict = r.verdict /\ HasPatch(v)
         /\ v.verdict = "CONTRADICTED" => r.verdict = "CONTRADICTED" /\ r.quote = "verbatim"
         /\ r.verdict = "CONTRADICTED" /\ r.quote = "verbatim" =>
               v.verdict = "CONTRADICTED" /\ v.evidence_ok /\ v.patch = r.patch
<1> DEFINE v == verify_evidence(r)
           judged == r.verdict \in {"SUPPORTED", "CONTRADICTED"}
           ok == judged /\ r.quote = "verbatim"
           D == {"id", "unit", "at", "verdict", "quote", "patch", "topic",
                 "asks", "choices", "declared", "evidence_ok"}
<1>1. DOMAIN r = D /\ r.id \in Nat /\ r.declared \in Nat
  BY ClaimsAssumption
<1>2. r.patch # None => HasPatch(r)
  BY ClaimsAssumption DEF HasPatch
<1>3. CASE ok \/ ~judged
  <2>1. v = [r EXCEPT !.evidence_ok = ok]
    BY <1>3 DEF verify_evidence
  <2>2. /\ v.id = r.id /\ v.unit = r.unit /\ v.at = r.at /\ v.topic = r.topic
        /\ v.declared = r.declared /\ v.patch = r.patch /\ v.verdict = r.verdict
        /\ v.evidence_ok = ok
    BY <2>1, <1>1
  <2>3. v.patch # None => HasPatch(v)
    BY <2>2, <1>2 DEF HasPatch
  <2> HIDE DEF v
  <2> QED BY <2>2, <2>3, <1>1, <1>3 DEF v
<1>4. CASE ~(ok \/ ~judged)
  <2>1. v = [r EXCEPT !.verdict = "UNSUPPORTED", !.patch = None,
                      !.asks = r.asks \/ r.quote # "misquoted"]
    BY <1>4 DEF verify_evidence
  <2>2. /\ v.id = r.id /\ v.unit = r.unit /\ v.at = r.at /\ v.topic = r.topic
        /\ v.declared = r.declared /\ v.patch = None /\ v.verdict = "UNSUPPORTED"
    BY <2>1, <1>1
  <2> HIDE DEF v
  <2> QED BY <2>2, <1>1, <1>4 DEF v
<1> QED BY <1>3, <1>4

\* The replies of a round once their quotes are looked up.
verified(replies) == {verify_evidence(r) : r \in replies}

\* Verified, finitely many replies are finitely many, each with an id of its own.
LEMMA VerifiedSet ==
  ASSUME NEW replies \in SUBSET Claims, IsFiniteSet(replies)
  PROVE  /\ IsFiniteSet(verified(replies))
         /\ \A r \in verified(replies) : r.declared \in Nat /\ r.id \in Nat
<1>1. IsFiniteSet(verified(replies))
  <2> DEFINE f == [r \in replies |-> verify_evidence(r)]
  <2>1. f \in Surjection(replies, verified(replies))
    BY DEF Surjection, verified
  <2> HIDE DEF f
  <2> QED BY <2>1, FS_Surjection
<1>2. \A r \in verified(replies) : r.declared \in Nat /\ r.id \in Nat
  BY VerifiedFacts DEF verified
<1> QED BY <1>1, <1>2

\* Verified records are told apart and ordered as the replies were.
LEMMA VerifiedIds ==
  ASSUME NEW replies \in SUBSET Claims,
         NEW x \in verified(replies), NEW y \in verified(replies)
  PROVE  /\ x.id = y.id => x = y
         /\ x.patch # None /\ y.patch # None /\ IsPrefix(x.patch.at, y.patch.at)
            /\ x.patch.at # y.patch.at => x.id < y.id
<1>1. PICK r \in replies : x = verify_evidence(r)
  BY DEF verified
<1>2. PICK q \in replies : y = verify_evidence(q)
  BY DEF verified
<1>3. r \in Claims /\ q \in Claims
  OBVIOUS
<1>4. /\ x.id = r.id /\ (x.patch # None => x.patch = r.patch)
      /\ y.id = q.id /\ (y.patch # None => y.patch = q.patch)
  BY <1>1, <1>2, <1>3, VerifiedFacts
<1>5. x.id = y.id => x = y
  BY <1>1, <1>2, <1>3, <1>4, OrderAssumption
<1>6. x.patch # None /\ y.patch # None /\ IsPrefix(x.patch.at, y.patch.at)
            /\ x.patch.at # y.patch.at => x.id < y.id
  BY <1>3, <1>4, OrderAssumption
<1> QED BY <1>5, <1>6

\* Patches that can be tried together.
Tried(S) ==
    /\ IsFiniteSet(S)
    /\ \A r \in S : HasPatch(r)
    /\ \A r, q \in S :
          /\ r.id = q.id => r = q
          /\ IsPrefix(r.patch.at, q.patch.at) /\ r.patch.at # q.patch.at => r.id < q.id

\* Of which no two are of one field.
Applicable(S) ==
    /\ Tried(S)
    /\ \A r, q \in S : ~is_append(r.patch.at) /\ r.patch.at = q.patch.at => r = q

\* Taking patches out leaves what can be tried, or applied.
LEMMA TriedSubset ==
  ASSUME NEW S, NEW T \in SUBSET S
  PROVE  /\ Tried(S) => Tried(T)
         /\ Applicable(S) => Applicable(T)
BY FS_Subset DEF Tried, Applicable

\* What apply_patches tries are verified replies with patches.
LEMMA CandidatesFacts ==
  ASSUME NEW doc, NEW replies \in SUBSET Claims, IsFiniteSet(replies)
  PROVE  /\ candidates(doc, verified(replies)) \subseteq verified(replies)
         /\ Tried(candidates(doc, verified(replies)))
<1> DEFINE V == verified(replies)
           C == candidates(doc, V)
<1>1. C \subseteq V /\ \A r \in C : r.patch # None
  BY DEF candidates, patches
<1>2. IsFiniteSet(C)
  BY <1>1, VerifiedSet, FS_Subset
<1>3. \A r \in C : HasPatch(r)
  <2> TAKE r \in C
  <2>1. PICK q \in replies : r = verify_evidence(q)
    BY <1>1 DEF verified
  <2>2. q \in Claims /\ r.patch # None
    BY <1>1
  <2> QED BY <2>1, <2>2, VerifiedFacts
<1> HIDE DEF C
<1>4. \A r, q \in C :
          /\ r.id = q.id => r = q
          /\ IsPrefix(r.patch.at, q.patch.at) /\ r.patch.at # q.patch.at => r.id < q.id
  <2> TAKE r, q \in C
  <2>1. r \in V /\ q \in V /\ r.patch # None /\ q.patch # None
    BY <1>1
  <2> HIDE DEF V
  <2>2. r \in verified(replies) /\ q \in verified(replies)
    BY <2>1 DEF V
  <2> QED BY <2>1, <2>2, VerifiedIds
<1> QED BY <1>1, <1>2, <1>3, <1>4 DEF Tried, C

\* One value per field survives the grouping.
LEMMA MergedFacts ==
  ASSUME NEW S, Tried(S)
  PROVE  merged(S) \subseteq S /\ Applicable(merged(S))
<1>1. merged(S) \subseteq S
  BY DEF merged
<1>2. Tried(merged(S))
  BY <1>1, TriedSubset
<1>3. ASSUME NEW r \in merged(S), NEW q \in merged(S),
             ~is_append(r.patch.at), r.patch.at = q.patch.at
      PROVE  r = q
  <2>1. rivals(r, S) = rivals(q, S)
    BY <1>3 DEF rivals
  <2>2. unanimous(r, S) /\ unanimous(q, S) => r.patch.value = q.patch.value
    <3>1. q \in rivals(r, S)
      BY <1>3, <1>1 DEF rivals
    <3> QED BY <3>1 DEF unanimous
  <2>3. unanimous(r, S) <=> unanimous(q, S)
    <3>1. q \in rivals(r, S) /\ r \in rivals(r, S)
      BY <1>3, <1>1 DEF rivals
    <3> QED BY <3>1, <2>1 DEF unanimous
  <2>4. /\ unanimous(r, S) =>
             r = first({x \in rivals(r, S) : x.patch.value = r.patch.value})
        /\ ~unanimous(r, S) => r = first(agreeing(rivals(r, S)))
    BY <1>3 DEF merged
  <2>5. /\ unanimous(q, S) =>
             q = first({x \in rivals(q, S) : x.patch.value = q.patch.value})
        /\ ~unanimous(q, S) => q = first(agreeing(rivals(q, S)))
    BY <1>3 DEF merged
  <2> QED BY <2>1, <2>2, <2>3, <2>4, <2>5
<1> QED BY <1>1, <1>2, <1>3 DEF Applicable

-----------------------------------------------------------------------------
(* Applying patches.                                                       *)

\* The fields of a spec are numbers here.
IsDoc(d) == DOMAIN d = {"leaf", "added", "knobs"} /\ fills(d.leaf, Leaves)

\* The patch that decides a field: the last of those that reach it.
Decides(r, p, S) ==
    r \in S /\ reaches(r, p) /\ \A q \in S : reaches(q, p) => later(r, q)

\* A field that is reached is decided, by one patch.
LEMMA Decider ==
  ASSUME NEW S, Tried(S), NEW p, \E r \in S : reaches(r, p)
  PROVE  /\ \E r \in S : Decides(r, p, S)
         /\ \A r, q \in S : Decides(r, p, S) /\ Decides(q, p, S) => r = q
<1> DEFINE W == {r \in S : reaches(r, p)}
           R == {x \in W \X W : later(x[1], x[2])}
<1>1. IsFiniteSet(W) /\ W # {}
  BY FS_Subset DEF Tried
<1>2. \A r \in S : r.id \in Nat /\ r.patch.op \in {"replace", "add"}
  BY DEF Tried, HasPatch
<1>3. \A x, y \in W : <<x, y>> \in R <=> later(x, y)
  OBVIOUS
<1>4. \A x, y \in S : later(x, y) \/ later(y, x)
  BY <1>2 DEF later
<1>5. \A x, y, z \in S : later(x, y) /\ later(y, z) => later(x, z)
  BY <1>2 DEF later
<1> HIDE DEF R
<1>6. \E x \in W : \A y \in W : <<x, y>> \in R
  <2>1. \A x, y \in W : <<x, y>> \in R \/ <<y, x>> \in R
    BY <1>3, <1>4
  <2>2. \A x, y, z \in W : <<x, y>> \in R /\ <<y, z>> \in R => <<x, z>> \in R
    BY <1>3, <1>5
  <2> HIDE DEF W
  <2> QED BY <2>1, <2>2, <1>1, FiniteTop
<1>7. \E r \in S : Decides(r, p, S)
  BY <1>6, <1>3 DEF Decides
<1>8. ASSUME NEW r \in S, NEW q \in S, Decides(r, p, S), Decides(q, p, S)
      PROVE  r = q
  <2>1. later(r, q) /\ later(q, r)
    BY <1>8 DEF Decides
  <2>2. r.id = q.id
    BY <2>1, <1>2 DEF later
  <2> QED BY <2>2 DEF Tried
<1> QED BY <1>7, <1>8

\* The patch of a field comes after the one of its object.
LEMMA ExactDecides ==
  ASSUME NEW S, Applicable(S), NEW r \in S, r.patch.at \in Leaves
  PROVE  Decides(r, r.patch.at, S)
<1> DEFINE p == r.patch.at
<1>1. HasPatch(r) /\ \A q \in S : HasPatch(q)
  BY DEF Applicable, Tried
<1>2. IsPrefix(p, p) /\ ~is_append(p)
  <2>1. p \in Pointers
    BY <1>1 DEF HasPatch
  <2> HIDE DEF p
  <2> QED BY <2>1, LeafPrefixes DEF p
<1>3. reaches(r, p)
  BY <1>2 DEF reaches
<1>4. ASSUME NEW q \in S, reaches(q, p) PROVE later(r, q)
  <2>1. q.patch.at \in Pointers /\ ~is_append(q.patch.at) /\ IsPrefix(q.patch.at, p)
    BY <1>1, <1>4 DEF reaches, HasPatch
  <2>2. CASE q.patch.at = p
    <3>1. q = r
      BY <2>2, <2>1 DEF Applicable
    <3>2. r.id \in Nat
      BY <1>1 DEF HasPatch
    <3> QED BY <3>1, <3>2 DEF later
  <2>3. CASE q.patch.at # p
    <3>1. q.id < r.id
      BY <2>1, <2>3 DEF Applicable, Tried
    <3>2. q.patch.at \notin Leaves
      <4>1. q.patch.at = <<p[1]>>
        BY <2>1, <2>3, LeafPrefixes
      <4>2. Len(p) = 2
        BY LeafShape
      <4>3. \A z \in Leaves : Len(z) = 2
        BY LeafShape
      <4>4. Len(<<p[1]>>) = 1
        BY ShortPointers
      <4> HIDE DEF p
      <4> QED BY <4>1, <4>3, <4>4
    <3>3. q.patch.op = "replace"
      BY <3>2, <2>1, <1>1 DEF HasPatch
    <3>4. r.id \in Nat /\ q.id \in Nat /\ r.patch.op \in {"replace", "add"}
      BY <1>1 DEF HasPatch
    <3> QED BY <3>1, <3>3, <3>4 DEF later
  <2> QED BY <2>2, <2>3
<1> QED BY <1>3, <1>4 DEF Decides

\* What applying patches makes of a spec.
LEMMA ApplyShape ==
  ASSUME NEW doc, IsDoc(doc), NEW S
  PROVE  LET A == apply_to(doc, S) IN
         /\ DOMAIN A = {"leaf", "added", "knobs"} /\ A.knobs = doc.knobs
         /\ A.added = doc.added \cup {r.patch.value : r \in {q \in S : is_append(q.patch.at)}}
         /\ DOMAIN A.leaf \subseteq Leaves
BY DEF apply_to, IsDoc

\* A field no patch reaches stays.
LEMMA ApplyUnreached ==
  ASSUME NEW doc, IsDoc(doc), NEW S, NEW p \in Leaves, \A r \in S : ~reaches(r, p)
  PROVE  LET A == apply_to(doc, S) IN
         /\ p \in DOMAIN A.leaf <=> p \in DOMAIN doc.leaf
         /\ p \in DOMAIN A.leaf => A.leaf[p] = doc.leaf[p]
<1> DEFINE writers == [x \in Leaves |-> {r \in S : reaches(r, x)}]
           last == [x \in {q \in Leaves : writers[q] # {}} |->
                    (CHOOSE r \in writers[x] : \A q \in writers[x] : later(r, q)).patch.value]
           kept == {x \in Leaves : IF x \in DOMAIN last THEN x \in DOMAIN last[x] ELSE has(doc, x)}
<1>1. apply_to(doc, S).leaf =
        [x \in kept |-> IF x \in DOMAIN last THEN last[x][x] ELSE doc.leaf[x]]
  BY DEF apply_to, IsDoc
<1>2. p \notin DOMAIN last
  OBVIOUS
<1>3. p \in kept <=> p \in DOMAIN doc.leaf
  <2> HIDE DEF last
  <2> QED BY <1>2 DEF has
<1> HIDE DEF last, kept
<1> QED BY <1>1, <1>2, <1>3

\* A field that is reached is as its decider says.
LEMMA ApplyReached ==
  ASSUME NEW doc, IsDoc(doc), NEW S, Tried(S), NEW p \in Leaves,
         NEW r \in S, Decides(r, p, S)
  PROVE  LET A == apply_to(doc, S) IN
         /\ p \in DOMAIN A.leaf <=> p \in DOMAIN r.patch.value
         /\ p \in DOMAIN A.leaf => A.leaf[p] = r.patch.value[p]
<1> DEFINE writers == [x \in Leaves |-> {y \in S : reaches(y, x)}]
           pick(x) == CHOOSE y \in writers[x] : \A q \in writers[x] : later(y, q)
           last == [x \in {q \in Leaves : writers[q] # {}} |-> pick(x).patch.value]
           kept == {x \in Leaves : IF x \in DOMAIN last THEN x \in DOMAIN last[x] ELSE has(doc, x)}
<1>1. apply_to(doc, S).leaf =
        [x \in kept |-> IF x \in DOMAIN last THEN last[x][x] ELSE doc.leaf[x]]
  BY DEF apply_to, IsDoc
<1>2. r \in writers[p] /\ \A q \in writers[p] : later(r, q)
  BY DEF Decides
<1>3. pick(p) = r
  <2>1. pick(p) \in writers[p] /\ \A q \in writers[p] : later(pick(p), q)
    <3> HIDE DEF writers
    <3> QED BY <1>2
  <2> HIDE DEF pick
  <2>2. pick(p) \in S /\ Decides(pick(p), p, S)
    BY <2>1 DEF Decides
  <2>3. \E x \in S : reaches(x, p)
    BY DEF Decides
  <2> HIDE DEF writers
  <2> QED BY <2>2, <2>3, Decider
<1>4. p \in DOMAIN last /\ last[p] = r.patch.value
  <2> HIDE DEF pick
  <2> QED BY <1>2, <1>3
<1> HIDE DEF last
<1>5. p \in kept <=> p \in DOMAIN r.patch.value
  BY <1>4
<1> HIDE DEF kept
<1> QED BY <1>1, <1>4, <1>5

\* A spec with patches applied is a spec.
LEMMA ApplyIsDoc ==
  ASSUME NEW doc, IsDoc(doc), NEW S, Tried(S)
  PROVE  IsDoc(apply_to(doc, S))
<1> DEFINE A == apply_to(doc, S)
<1>1. /\ DOMAIN A = {"leaf", "added", "knobs"} /\ DOMAIN A.leaf \subseteq Leaves
  BY ApplyShape
<1>2. A.leaf = [p \in DOMAIN A.leaf |-> A.leaf[p]]
  BY DEF apply_to, IsDoc
<1>3. ASSUME NEW p \in DOMAIN A.leaf PROVE A.leaf[p] \in Nat
  <2>1. p \in Leaves
    BY <1>1
  <2>2. CASE \A r \in S : ~reaches(r, p)
    <3>1. p \in DOMAIN doc.leaf /\ A.leaf[p] = doc.leaf[p]
      BY <2>1, <2>2, <1>3, ApplyUnreached
    <3> QED BY <3>1 DEF IsDoc, fills
  <2>3. CASE \E r \in S : reaches(r, p)
    <3>1. PICK r \in S : Decides(r, p, S)
      BY <2>3, Decider
    <3>2. p \in DOMAIN r.patch.value /\ A.leaf[p] = r.patch.value[p]
      BY <3>1, <2>1, <1>3, ApplyReached
    <3>3. HasPatch(r) /\ ~is_append(r.patch.at)
      BY <3>1 DEF Tried, Decides, reaches
    <3> HIDE DEF A
    <3> QED BY <3>2, <3>3 DEF HasPatch, fills
  <2> QED BY <2>2, <2>3
<1> HIDE DEF A
<1> QED BY <1>1, <1>2, <1>3 DEF IsDoc, fills, A

\* The value a patch of a field gives is there when the patch is applied.
LEMMA ApplyExact ==
  ASSUME NEW doc, IsDoc(doc), NEW S, Applicable(S), NEW r \in S, r.patch.at \in Leaves
  PROVE  LET A == apply_to(doc, S) IN
         r.patch.at \in DOMAIN A.leaf /\ A.leaf[r.patch.at] = r.patch.value[r.patch.at]
<1>1. Decides(r, r.patch.at, S)
  BY ExactDecides
<1>2. Tried(S) /\ HasPatch(r)
  BY DEF Applicable, Tried
<1>3. r.patch.at \in DOMAIN r.patch.value
  BY <1>2 DEF HasPatch
<1> QED BY <1>1, <1>2, <1>3, ApplyReached

\* Two sets of patches of which the same reach a field agree about it.
LEMMA ApplyAgrees ==
  ASSUME NEW doc, IsDoc(doc), NEW S, Tried(S), NEW T, Tried(T), NEW p \in Leaves,
         \A r : r \in S /\ reaches(r, p) <=> r \in T /\ reaches(r, p)
  PROVE  LET A == apply_to(doc, S)
             B == apply_to(doc, T) IN
         /\ p \in DOMAIN A.leaf <=> p \in DOMAIN B.leaf
         /\ p \in DOMAIN A.leaf => A.leaf[p] = B.leaf[p]
<1>1. CASE \A r \in S : ~reaches(r, p)
  <2>1. \A r \in T : ~reaches(r, p)
    BY <1>1
  <2> QED BY <1>1, <2>1, ApplyUnreached
<1>2. CASE \E r \in S : reaches(r, p)
  <2>1. PICK r \in S : Decides(r, p, S)
    BY <1>2, Decider
  <2>2. r \in T /\ Decides(r, p, T)
    BY <2>1 DEF Decides
  <2> QED BY <2>1, <2>2, ApplyReached
<1> QED BY <1>1, <1>2

\* The patch of a field reaches that field alone.
LEMMA ExactReaches ==
  ASSUME NEW r, HasPatch(r), r.patch.at \in Leaves, NEW p \in Leaves
  PROVE  /\ ~is_append(r.patch.at)
         /\ reaches(r, p) <=> p = r.patch.at
         /\ IsPrefix(r.patch.at, p) <=> p = r.patch.at
<1>1. r.patch.at \in Pointers
  BY DEF HasPatch
<1>2. IsPrefix(r.patch.at, p) <=> r.patch.at = p \/ r.patch.at = <<p[1]>>
  BY <1>1, LeafPrefixes
<1>3. ~is_append(r.patch.at)
  <2>1. IsPrefix(r.patch.at, r.patch.at) => ~is_append(r.patch.at)
    BY <1>1, LeafPrefixes
  <2>2. IsPrefix(r.patch.at, r.patch.at)
    BY <1>1, LeafPrefixes
  <2> QED BY <2>1, <2>2
<1>4. r.patch.at # <<p[1]>>
  <2>1. Len(r.patch.at) = 2 /\ Len(<<p[1]>>) = 1
    BY LeafShape, ShortPointers
  <2> QED BY <2>1
<1> QED BY <1>2, <1>3, <1>4 DEF reaches

\* A few elements are finitely many.
LEMMA FewAreFinite ==
  ASSUME NEW a, NEW b, NEW c, NEW d, NEW e, NEW f
  PROVE  IsFiniteSet({a, b, c, d}) /\ IsFiniteSet({a, b, c, d, e, f})
<1>1. IsFiniteSet({a}) /\ IsFiniteSet({b}) /\ IsFiniteSet({c})
      /\ IsFiniteSet({d}) /\ IsFiniteSet({e}) /\ IsFiniteSet({f})
  BY FS_Singleton
<1>2. IsFiniteSet({a} \cup {b}) /\ IsFiniteSet({c} \cup {d}) /\ IsFiniteSet({e} \cup {f})
  BY <1>1, FS_Union
<1>3. IsFiniteSet(({a} \cup {b}) \cup ({c} \cup {d}))
  BY <1>2, FS_Union
<1>4. IsFiniteSet((({a} \cup {b}) \cup ({c} \cup {d})) \cup ({e} \cup {f}))
  BY <1>2, <1>3, FS_Union
<1>5. /\ ({a} \cup {b}) \cup ({c} \cup {d}) = {a, b, c, d}
      /\ (({a} \cup {b}) \cup ({c} \cup {d})) \cup ({e} \cup {f}) = {a, b, c, d, e, f}
  OBVIOUS
<1> QED BY <1>3, <1>4, <1>5

\* The errors of a spec are finitely many, at three places.
LEMMA ErrorsFacts ==
  ASSUME NEW doc
  PROVE  /\ IsFiniteSet(errors(doc))
         /\ \A e \in errors(doc) : e.at \in {Default, Total, NewAlgorithm}
<1> DEFINE E == {[code |-> "param_range", at |-> Default],
                 [code |-> "unrepresentable_default", at |-> Default],
                 [code |-> "storage_sum", at |-> Total],
                 [code |-> "missing_recovery_algorithm", at |-> NewAlgorithm]}
<1>1. errors(doc) \subseteq E
  BY DEF errors, found
<1>2. IsFiniteSet(E)
  BY FewAreFinite
<1>3. \A e \in E : e.at \in {Default, Total, NewAlgorithm}
  OBVIOUS
<1> HIDE DEF E
<1> QED BY <1>1, <1>2, <1>3, FS_Subset

\* The schema errors are finitely many when the appended elements are.
LEMMA SchemaErrorsFinite ==
  ASSUME NEW doc, IsFiniteSet(doc.added)
  PROVE  IsFiniteSet(schema_errors(doc))
<1>1. IsFiniteSet(Required \ DOMAIN doc.leaf)
  <2>1. IsFiniteSet(Leaves)
    BY FewAreFinite DEF Leaves
  <2>2. Required \ DOMAIN doc.leaf \in SUBSET Leaves
    BY DEF Required
  <2> QED BY <2>1, <2>2, FS_Subset
<1>2. IsFiniteSet({a \in doc.added : ~a.complete})
  BY FS_Subset
<1> QED BY <1>1, <1>2, FS_Union DEF schema_errors

\* Finitely many patches append finitely many elements.
LEMMA AddedFinite ==
  ASSUME NEW doc, IsDoc(doc), IsFiniteSet(doc.added), NEW S, IsFiniteSet(S)
  PROVE  IsFiniteSet(apply_to(doc, S).added)
<1> DEFINE T == {q \in S : is_append(q.patch.at)}
           V == {r.patch.value : r \in T}
           f == [r \in T |-> r.patch.value]
<1>1. IsFiniteSet(T)
  BY FS_Subset
<1>2. f \in Surjection(T, V)
  BY DEF Surjection
<1>3. IsFiniteSet(V)
  <2> HIDE DEF T, V, f
  <2> QED BY <1>1, <1>2, FS_Surjection
<1>4. apply_to(doc, S).added = doc.added \cup V
  BY ApplyShape
<1>5. IsFiniteSet(doc.added \cup V)
  <2> HIDE DEF V
  <2> QED BY <1>3, FS_Union
<1> HIDE DEF V
<1> QED BY <1>4, <1>5

\* Nobody blames the patch of one field for a field the schema misses.
LEMMA SchemaKept ==
  ASSUME NEW doc, IsDoc(doc), IsFiniteSet(doc.added), NEW S, Applicable(S)
  PROVE  /\ schema_kept(doc, S) \subseteq S
         /\ \A r \in S : r.patch.at \in Leaves => r \in schema_kept(doc, S)
<1> DEFINE count(K) == Cardinality(schema_errors(apply_to(doc, K)))
           best(K) == {r \in K : /\ count(K \ {r}) < count(K)
                                 /\ \A q \in K : count(K \ {r}) <= count(K \ {q})}
           clean == {K \in SUBSET S : count(K) = 0}
           blamed == [K \in SUBSET S |-> best(K)]
<1>1. schema_kept(doc, S) = dropping(S, clean, blamed)
  BY DEF schema_kept
<1>2. ASSUME NEW r \in S, r.patch.at \in Leaves, NEW K \in SUBSET S PROVE r \notin blamed[K]
  <2>1. SUFFICES ASSUME r \in K PROVE ~(count(K \ {r}) < count(K))
    OBVIOUS
  <2> DEFINE A == apply_to(doc, K)
             B == apply_to(doc, K \ {r})
  <2>2. Applicable(K) /\ Tried(K) /\ Tried(K \ {r}) /\ HasPatch(r)
    BY <2>1, TriedSubset DEF Applicable, Tried
  <2>3. IsFiniteSet(schema_errors(A)) /\ IsFiniteSet(schema_errors(B))
    <3>1. IsFiniteSet(K) /\ IsFiniteSet(K \ {r})
      BY <2>2 DEF Tried
    <3>2. IsFiniteSet(A.added) /\ IsFiniteSet(B.added)
      BY <3>1, AddedFinite
    <3> HIDE DEF A, B
    <3> QED BY <3>2, SchemaErrorsFinite
  <2>4. schema_errors(A) \subseteq schema_errors(B)
    <3>1. A.added = B.added
      <4>1. ~is_append(r.patch.at)
        BY <1>2, <2>2, ExactReaches
      <4> DEFINE T == {q \in K : is_append(q.patch.at)}
                 U == {q \in K \ {r} : is_append(q.patch.at)}
      <4>2. T = U
        BY <4>1
      <4>3. /\ A.added = doc.added \cup {q.patch.value : q \in T}
            /\ B.added = doc.added \cup {q.patch.value : q \in U}
        <5> HIDE DEF A, B
        <5> QED BY ApplyShape DEF A, B
      <4> HIDE DEF T, U, A, B
      <4> QED BY <4>2, <4>3
    <3>2. ASSUME NEW p \in Leaves, p \in DOMAIN B.leaf PROVE p \in DOMAIN A.leaf
      <4>1. CASE p = r.patch.at
        BY <4>1, <2>1, <2>2, ApplyExact
      <4>2. CASE p # r.patch.at
        <5>1. ~reaches(r, p)
          BY <4>2, <2>2, <1>2, ExactReaches
        <5>2. \A q : q \in K /\ reaches(q, p) <=> q \in K \ {r} /\ reaches(q, p)
          BY <5>1
        <5> QED BY <5>2, <2>2, <3>2, ApplyAgrees
      <4> QED BY <4>1, <4>2
    <3> HIDE DEF A, B
    <3> QED BY <3>1, <3>2 DEF schema_errors, Required
  <2> DEFINE a == count(K)
             b == count(K \ {r})
  <2>5. a \in Nat /\ b \in Nat /\ a <= b
    <3> HIDE DEF A, B
    <3>1. Cardinality(schema_errors(A)) <= Cardinality(schema_errors(B))
      BY <2>3, <2>4, FS_Subset
    <3> QED BY <3>1, <2>3, FS_CardinalityType DEF A, B
  <2> HIDE DEF a, b
  <2>6. ~(b < a)
    BY <2>5
  <2> QED BY <2>6 DEF a, b
<1>3. \A K \in SUBSET S : blamed[K] \subseteq K
  OBVIOUS
<1>4. IsFiniteSet(S) /\ \A r \in S : r.id \in Nat
  BY DEF Applicable, Tried, HasPatch
<1> HIDE DEF clean, blamed
<1>5. /\ dropping(S, clean, blamed) \subseteq S
      /\ \A r \in S : (\A K \in SUBSET S : r \notin blamed[K])
                            => r \in dropping(S, clean, blamed)
  BY <1>3, <1>4, DroppingFacts
<1> QED BY <1>1, <1>2, <1>5

\* Nobody blames it for detail that is lost somewhere else.
LEMMA LaunderingKept ==
  ASSUME NEW doc, IsDoc(doc), NEW S, Applicable(S)
  PROVE  /\ laundering_kept(doc, S) \subseteq S
         /\ \A r \in S : r.patch.at \in Leaves => r \in laundering_kept(doc, S)
<1> DEFINE lost(K) == uncovered_regressions(doc, apply_to(doc, K), K)
           culprits(K) == {r \in K : \E p \in lost(K) : IsPrefix(r.patch.at, p)}
           clean == {K \in SUBSET S : lost(K) = {}}
           blamed == [K \in SUBSET S |-> culprits(K)]
<1>1. laundering_kept(doc, S) = dropping(S, clean, blamed)
  BY DEF laundering_kept
<1>2. ASSUME NEW r \in S, r.patch.at \in Leaves, NEW K \in SUBSET S PROVE r \notin blamed[K]
  <2>1. SUFFICES ASSUME r \in K, NEW p \in lost(K), IsPrefix(r.patch.at, p) PROVE FALSE
    <3> HIDE DEF lost
    <3> QED OBVIOUS
  <2>2. p \in Leaves /\ \A q \in K : q.patch.at # p
    BY DEF uncovered_regressions, regressions, IsDoc, fills
  <2>3. HasPatch(r)
    BY DEF Applicable, Tried
  <2>4. p = r.patch.at
    BY <2>1, <2>2, <2>3, <1>2, ExactReaches
  <2> QED BY <2>1, <2>2, <2>4
<1>3. \A K \in SUBSET S : blamed[K] \subseteq K
  OBVIOUS
<1>4. IsFiniteSet(S) /\ \A r \in S : r.id \in Nat
  BY DEF Applicable, Tried, HasPatch
<1> HIDE DEF clean, blamed
<1>5. /\ dropping(S, clean, blamed) \subseteq S
      /\ \A r \in S : (\A K \in SUBSET S : r \notin blamed[K])
                            => r \in dropping(S, clean, blamed)
  BY <1>3, <1>4, DroppingFacts
<1> QED BY <1>1, <1>2, <1>5

\* What lands was tried, and a patch of a field that was grouped lands unless
\* it overlaps the object of a new error.
LEMMA LandingFacts ==
  ASSUME NEW doc, IsDoc(doc), IsFiniteSet(doc.added), NEW S, Tried(S)
  PROVE  /\ landing(doc, S) \subseteq merged(S) /\ Applicable(landing(doc, S))
         /\ \A r \in merged(S) : r.patch.at \in Leaves =>
               r \in laundering_kept(doc, schema_kept(doc, merged(S)))
<1> DEFINE M == merged(S)
           H == schema_kept(doc, M)
           L == laundering_kept(doc, H)
<1>1. Applicable(M)
  BY MergedFacts
<1>2. H \subseteq M /\ Applicable(H) /\ \A r \in M : r.patch.at \in Leaves => r \in H
  <2> HIDE DEF M
  <2>1. schema_kept(doc, M) \subseteq M
        /\ \A r \in M : r.patch.at \in Leaves => r \in schema_kept(doc, M)
    BY <1>1, SchemaKept
  <2> HIDE DEF H
  <2> QED BY <2>1, <1>1, TriedSubset DEF H
<1> HIDE DEF H
<1>3. L \subseteq H /\ Applicable(L) /\ \A r \in H : r.patch.at \in Leaves => r \in L
  <2>1. laundering_kept(doc, H) \subseteq H
        /\ \A r \in H : r.patch.at \in Leaves => r \in laundering_kept(doc, H)
    BY <1>2, LaunderingKept
  <2> HIDE DEF L
  <2> QED BY <2>1, <1>2, TriedSubset DEF L
<1> HIDE DEF L
<1>4. landing(doc, S) = regressing_kept(doc, L)
  BY DEF landing, H, L
<1>5. regressing_kept(doc, L) \subseteq L
  BY DEF regressing_kept
<1>6. Applicable(landing(doc, S))
  BY <1>3, <1>4, <1>5, TriedSubset
<1> QED BY <1>2, <1>3, <1>4, <1>5, <1>6 DEF H, L

\* A patch is not blamed for new errors that are all about other objects.
LEMMA RegressingKept ==
  ASSUME NEW doc, NEW S, Tried(S), NEW r \in S,
         \A e \in new_errors(doc, settled(doc, apply_to(doc, S))) : e.at[1] # r.patch.at[1]
  PROVE  r \in regressing_kept(doc, S)
<1> DEFINE outcome(K) == settled(doc, apply_to(doc, K))
           introduced(K) == new_errors(doc, outcome(K))
           culprits == {q \in S : \E e \in introduced(S) :
                        overlaps(q.patch.at, enclosing(e.at))}
<1>1. ASSUME NEW e \in introduced(S)
      PROVE  e.at \in {Default, Total, NewAlgorithm} /\ e.at[1] # r.patch.at[1]
  <2>1. introduced(S) \subseteq errors(outcome(S))
    BY DEF new_errors
  <2>2. e.at[1] # r.patch.at[1]
    OBVIOUS
  <2> HIDE DEF introduced, outcome
  <2> QED BY <2>1, <2>2, ErrorsFacts
<1>2. r.patch.at \in Pointers
  BY DEF Tried, HasPatch
<1>3. ASSUME NEW e \in introduced(S) PROVE ~overlaps(r.patch.at, enclosing(e.at))
  <2>1. e.at \in {Default, Total, NewAlgorithm} /\ e.at[1] # r.patch.at[1]
    BY <1>1
  <2>2. enclosing(e.at) \in Pointers /\ enclosing(e.at)[1] = e.at[1]
    BY <2>1, Places, ShortPointers
  <2> QED BY <2>1, <2>2, <1>2, OverlapHeads
<1>4. r \notin culprits
  <2> HIDE DEF introduced
  <2> QED BY <1>3
<1> HIDE DEF introduced, culprits
<1>5. regressing_kept(doc, S) = S \ culprits \/ regressing_kept(doc, S) = S
  BY DEF regressing_kept, culprits, introduced
<1> QED BY <1>4, <1>5

\* The range follows the default in one case only, and nothing else moves.
Follows(before, A, R) ==
    /\ Default \in DOMAIN A.leaf /\ Bound \in DOMAIN A.leaf
    /\ A.leaf[Bound] < A.leaf[Default]
    /\ R.leaf[Bound] = A.leaf[Default]
    /\ \E e \in new_errors(before, A) : e.code = "param_range"
    /\ new_errors(before, R) = {}

\* Settling moves the range at most.
LEMMA SettledFacts ==
  ASSUME NEW before, NEW A, IsDoc(A)
  PROVE  LET R == settled(before, A) IN
         /\ IsDoc(R) /\ DOMAIN R.leaf = DOMAIN A.leaf
         /\ R.added = A.added /\ R.knobs = A.knobs
         /\ \A p \in DOMAIN A.leaf : p # Bound => R.leaf[p] = A.leaf[p]
         /\ R = A \/ Follows(before, A, R)
<1> DEFINE R == settled(before, A)
<1>1. CASE R = A
  BY <1>1
<1>2. CASE R # A
  <2>1. R = coupled(before, A) /\ new_errors(before, R) = {}
    BY <1>2 DEF settled
  <2>2. /\ \E e \in new_errors(before, A) : e.code = "param_range"
        /\ has(A, Default)
        /\ R = [A EXCEPT !.leaf[Bound] = A.leaf[Default]]
    BY <1>2, <2>1 DEF coupled
  <2>3. param_range(A)
    BY <2>2 DEF new_errors, errors, found
  <2>4. /\ Default \in DOMAIN A.leaf /\ Bound \in DOMAIN A.leaf
        /\ A.leaf[Default] \in Nat /\ A.leaf[Bound] \in Nat
    BY <2>2, <2>3 DEF param_range, has, IsDoc, fills
  <2>5. A.leaf[Bound] < A.leaf[Default]
    BY <2>3, <2>4 DEF param_range, has
  <2> HIDE DEF R
  <2>6. /\ DOMAIN R = DOMAIN A /\ R.added = A.added /\ R.knobs = A.knobs
        /\ R.leaf = [A.leaf EXCEPT ![Bound] = A.leaf[Default]]
    BY <2>2 DEF IsDoc
  <2>7. /\ DOMAIN R.leaf = DOMAIN A.leaf /\ R.leaf[Bound] = A.leaf[Default]
        /\ \A p \in DOMAIN A.leaf : p # Bound => R.leaf[p] = A.leaf[p]
    BY <2>6, <2>4
  <2>8. IsDoc(R)
    <3>1. R.leaf = [p \in DOMAIN A.leaf |-> R.leaf[p]]
      BY <2>6
    <3>2. \A p \in DOMAIN A.leaf : R.leaf[p] \in Nat
      BY <2>7, <2>4 DEF IsDoc, fills
    <3> QED BY <3>1, <3>2, <2>6, <2>7 DEF IsDoc, fills
  <2>9. Follows(before, A, R)
    BY <2>1, <2>2, <2>4, <2>5, <2>7 DEF Follows
  <2> QED BY <2>6, <2>7, <2>8, <2>9 DEF R
<1> QED BY <1>1, <1>2

-----------------------------------------------------------------------------
(* A round.                                                                *)

\* The parts of round, by name: what is tried, lands and stands, the spec with
\* it, the knobs, the candidate, and whether the gate discards it.
Triable(doc, replies) == candidates(doc, verified(replies))
Landed(doc, replies) == landing(doc, Triable(doc, replies))
Standing(doc, replies) == Landed(doc, replies) \cup twins(Triable(doc, replies))
Revised(doc, replies) == settled(doc, apply_to(doc, Landed(doc, replies)))
Minted(doc, replies) == minted(doc, Revised(doc, replies), verified(replies))
Outcome(doc, replies) ==
    [Revised(doc, replies) EXCEPT !.knobs = @ \cup Minted(doc, replies)]
Rejected(doc, replies) ==
    reject_reason(doc, Standing(doc, replies), Outcome(doc, replies))

\* What a round comes to, in these words.
LEMMA RoundIs ==
  ASSUME NEW doc, NEW replies
  PROVE  /\ round(doc, replies).rejected = Rejected(doc, replies)
         /\ round(doc, replies).spec =
               IF Rejected(doc, replies) THEN doc ELSE Outcome(doc, replies)
         /\ ~Rejected(doc, replies) =>
               refused_questions(verified(replies), Triable(doc, replies),
                                 Standing(doc, replies))
                  \subseteq round(doc, replies).asked
BY DEF round, Triable, Landed, Standing, Revised, Minted, Outcome, Rejected, verified

\* A spec that is complete, whose parts are finite and whose knobs fit.
DocOK(d) ==
    /\ IsDoc(d) /\ Required \subseteq DOMAIN d.leaf
    /\ IsFiniteSet(d.added)
    /\ IsFiniteSet(d.knobs) /\ Cardinality(d.knobs) <= MaxPromoted

\* What lands was tried, and can be applied together.
LEMMA LandedFacts ==
  ASSUME NEW doc, DocOK(doc), NEW replies \in SUBSET Claims, IsFiniteSet(replies)
  PROVE  /\ Tried(Triable(doc, replies))
         /\ Triable(doc, replies) \subseteq verified(replies)
         /\ Landed(doc, replies) \subseteq Triable(doc, replies)
         /\ Applicable(Landed(doc, replies))
<1>1. Tried(Triable(doc, replies)) /\ Triable(doc, replies) \subseteq verified(replies)
  BY CandidatesFacts DEF Triable
<1>2. merged(Triable(doc, replies)) \subseteq Triable(doc, replies)
  BY <1>1, MergedFacts
<1>3. /\ landing(doc, Triable(doc, replies)) \subseteq merged(Triable(doc, replies))
      /\ Applicable(landing(doc, Triable(doc, replies)))
  BY <1>1, LandingFacts DEF DocOK
<1> QED BY <1>1, <1>2, <1>3 DEF Landed

\* The candidate of a round: the patches applied, then the range, then knobs.
LEMMA RevisedFacts ==
  ASSUME NEW doc, DocOK(doc), NEW replies \in SUBSET Claims, IsFiniteSet(replies)
  PROVE  LET A == apply_to(doc, Landed(doc, replies))
             R == Revised(doc, replies)
             C == Outcome(doc, replies) IN
         /\ IsDoc(A) /\ IsDoc(R) /\ DOMAIN R.leaf = DOMAIN A.leaf
         /\ R.added = A.added /\ R.knobs = doc.knobs
         /\ \A p \in DOMAIN A.leaf : p # Bound => R.leaf[p] = A.leaf[p]
         /\ R = A \/ Follows(doc, A, R)
         /\ DOMAIN C = {"leaf", "added", "knobs"} /\ C.leaf = R.leaf /\ C.added = R.added
         /\ C.knobs = doc.knobs \cup Minted(doc, replies)
<1> DEFINE A == apply_to(doc, Landed(doc, replies))
           R == Revised(doc, replies)
           C == Outcome(doc, replies)
<1>1. IsDoc(doc) /\ Tried(Landed(doc, replies))
  BY LandedFacts DEF DocOK, Applicable
<1>2. IsDoc(A) /\ A.knobs = doc.knobs
  BY <1>1, ApplyIsDoc, ApplyShape
<1>3. R = settled(doc, A)
  BY DEF Revised
<1>4. /\ IsDoc(R) /\ DOMAIN R.leaf = DOMAIN A.leaf
      /\ R.added = A.added /\ R.knobs = A.knobs
      /\ \A p \in DOMAIN A.leaf : p # Bound => R.leaf[p] = A.leaf[p]
      /\ R = A \/ Follows(doc, A, R)
  <2> HIDE DEF A, R
  <2> QED BY <1>2, <1>3, SettledFacts
<1>5. C = [R EXCEPT !.knobs = @ \cup Minted(doc, replies)]
  BY DEF Outcome
<1> HIDE DEF A, R, C
<1>6. /\ DOMAIN C = {"leaf", "added", "knobs"} /\ C.leaf = R.leaf /\ C.added = R.added
      /\ C.knobs = R.knobs \cup Minted(doc, replies)
  BY <1>4, <1>5 DEF IsDoc
<1> QED BY <1>2, <1>4, <1>6 DEF A, R, C

\* A round leaves a spec that is complete.
LEMMA RoundKeepsDoc ==
  ASSUME NEW doc, DocOK(doc), NEW replies \in SUBSET Claims, IsFiniteSet(replies)
  PROVE  DocOK(round(doc, replies).spec)
<1> DEFINE R == Revised(doc, replies)
           C == Outcome(doc, replies)
<1>1. CASE Rejected(doc, replies)
  BY <1>1, RoundIs
<1>2. CASE ~Rejected(doc, replies)
  <2>1. round(doc, replies).spec = C
    BY <1>2, RoundIs
  <2>2. schema_errors(C) = {}
    BY <1>2 DEF Rejected, reject_reason
  <2>3. /\ IsDoc(R) /\ R.knobs = doc.knobs
        /\ R.added = apply_to(doc, Landed(doc, replies)).added
        /\ DOMAIN C = {"leaf", "added", "knobs"} /\ C.leaf = R.leaf /\ C.added = R.added
        /\ C.knobs = doc.knobs \cup Minted(doc, replies)
    BY RevisedFacts
  <2>4. IsFiniteSet(R.added)
    <3>1. IsFiniteSet(Landed(doc, replies))
      BY LandedFacts DEF Applicable, Tried
    <3> QED BY <3>1, <2>3, AddedFinite DEF DocOK
  <2>5. IsFiniteSet(C.knobs) /\ Cardinality(C.knobs) <= MaxPromoted
    <3>1. IsFiniteSet(verified(replies))
          /\ \A r \in verified(replies) : r.declared \in Nat /\ r.id \in Nat
      BY VerifiedSet
    <3>2. IsFiniteSet(R.knobs) /\ Cardinality(R.knobs) <= MaxPromoted
      BY <2>3 DEF DocOK
    <3>3. /\ IsFiniteSet(R.knobs \cup minted(doc, R, verified(replies)))
          /\ Cardinality(R.knobs \cup minted(doc, R, verified(replies))) <= MaxPromoted
      <4> HIDE DEF R
      <4> QED BY <3>1, <3>2, MintedFacts
    <3> QED BY <3>3, <2>3 DEF Minted
  <2> HIDE DEF C, R
  <2>6. Required \subseteq DOMAIN C.leaf
    BY <2>2 DEF schema_errors
  <2>7. IsDoc(C)
    BY <2>3 DEF IsDoc
  <2> QED BY <2>1, <2>3, <2>4, <2>5, <2>6, <2>7 DEF DocOK
<1> QED BY <1>1, <1>2

-----------------------------------------------------------------------------
(* The invariant.                                                          *)

\* Who is called in a round, and what a round reports.
Units == partition \cup {coverage}
Reports == [units : SUBSET Units, failed : SUBSET Units, accepted : BOOLEAN]

\* The round: what is out, what came back, what failed.
RoundInv ==
    /\ waiting \subseteq Units /\ retry \subseteq Units
    /\ failed \subseteq Units \ waiting
    /\ records \in SUBSET Claims /\ IsFiniteSet(records)
    /\ exhausted \in BOOLEAN /\ pc \in {"review", "done"}
    /\ rounds \in Seq(Reports) /\ Len(rounds) <= Rounds
    /\ pc = "review" => Len(rounds) < Rounds
    /\ pc = "done" => waiting = {} /\ failed = {}

\* Every unit answered, is out, or is on record as failed.
HeardInv ==
    /\ Units \subseteq heard \cup waiting \cup failed
                       \cup UNION {rounds[i].failed : i \in DOMAIN rounds}
    /\ pc = "review" => units_of(retry) \subseteq heard \cup waiting \cup failed
    /\ \A i \in DOMAIN rounds : rounds[i].failed = {} => rounds[i].units \subseteq heard

\* What holds of a review at every moment.
ReviewInv == DocOK(spec) /\ RoundInv /\ HeardInv

\* A draft is complete, every unit is called, none has failed.
LEMMA InitInv == Init => ReviewInv
<1> SUFFICES ASSUME Init PROVE ReviewInv
  OBVIOUS
<1>1. DocOK(spec)
  <2>1. /\ DOMAIN spec = {"leaf", "added", "knobs"} /\ fills(spec.leaf, Leaves)
        /\ Required \subseteq DOMAIN spec.leaf /\ IsFiniteSet(spec.added) /\ spec.knobs = {}
    BY DraftsAssumption DEF Init
  <2>2. IsFiniteSet({}) /\ Cardinality({}) = 0
    BY FS_EmptySet
  <2> QED BY <2>1, <2>2, ReviewAssumption DEF DocOK, IsDoc
<1>2. RoundInv
  <2>1. calls_of({}) \subseteq Units
    BY DEF calls_of, units_of, Units
  <2>2. rounds \in Seq(Reports) /\ Len(rounds) = 0
    BY DEF Init
  <2>3. Rounds \in Nat /\ 0 < Rounds
    BY ReviewAssumption
  <2>4. /\ waiting = calls_of({}) /\ retry = {} /\ failed = {} /\ records = {}
        /\ exhausted = FALSE /\ pc = "review" /\ IsFiniteSet({})
    BY FS_EmptySet DEF Init
  <2>5. Len(rounds) <= Rounds /\ Len(rounds) < Rounds
    BY <2>2, <2>3
  <2> QED BY <2>1, <2>2, <2>4, <2>5 DEF RoundInv
<1>3. HeardInv
  BY DEF Init, HeardInv, calls_of, units_of, Units
<1> QED BY <1>1, <1>2, <1>3 DEF ReviewInv

\* An answered call is heard.
LEMMA AnswersInv ==
  ASSUME ReviewInv, NEW u \in Units, Answers(u)
  PROVE  ReviewInv'
<1> PICK S \in SUBSET {r \in Claims : r.unit = u} :
          IsFiniteSet(S) /\ records' = records \cup S
  BY DEF Answers
<1>1. /\ pc = "review" /\ waiting' = waiting \ {u} /\ heard' = heard \cup {u}
      /\ UNCHANGED <<spec, retry, failed, exhausted, rounds, pc>>
  BY DEF Answers
<1>2. DocOK(spec)'
  BY <1>1 DEF ReviewInv
<1>3. RoundInv'
  <2>1. IsFiniteSet(records \cup S)
    BY FS_Union DEF ReviewInv, RoundInv
  <2> QED BY <1>1, <2>1 DEF ReviewInv, RoundInv
<1>4. HeardInv'
  BY <1>1 DEF ReviewInv, HeardInv, RoundInv
<1> QED BY <1>2, <1>3, <1>4 DEF ReviewInv

\* A failed call is on record until the round ends.
LEMMA FailsInv ==
  ASSUME ReviewInv, NEW u \in Units, Fails(u)
  PROVE  ReviewInv'
<1>1. /\ pc = "review" /\ waiting' = waiting \ {u} /\ failed' = failed \cup {u}
      /\ exhausted' \in {exhausted, TRUE}
      /\ UNCHANGED <<spec, retry, records, rounds, pc, heard>>
  BY DEF Fails
<1>2. DocOK(spec)'
  BY <1>1 DEF ReviewInv
<1>3. RoundInv'
  BY <1>1 DEF ReviewInv, RoundInv
<1>4. HeardInv'
  BY <1>1 DEF ReviewInv, HeardInv, RoundInv
<1> QED BY <1>2, <1>3, <1>4 DEF ReviewInv

\* A judged round leaves a complete spec, and its failures in the report.
LEMMA JudgeInv ==
  ASSUME ReviewInv, Judge
  PROVE  ReviewInv'
<1> DEFINE result == round(spec, records)
           report == [units |-> units_of(retry), failed |-> failed,
                      accepted |-> ~result.rejected]
<1>1. /\ pc = "review" /\ waiting = {}
      /\ spec' = result.spec /\ rounds' = Append(rounds, report)
      /\ records' = {} /\ failed' = {} /\ exhausted' = FALSE /\ heard' = heard
  BY DEF Judge
<1>2. \/ pc' = "done" /\ retry' = {} /\ waiting' = {}
      \/ /\ pc' = pc /\ waiting' = calls_of(retry') /\ Len(rounds') # Rounds
         /\ retry' = {} \/ retry' = failed
  BY DEF Judge
<1>3. DocOK(spec)'
  <2>1. DocOK(result.spec)
    <3> HIDE DEF result
    <3> QED BY RoundKeepsDoc DEF ReviewInv, RoundInv, result
  <2> HIDE DEF result
  <2>2. DocOK(spec)' <=> DocOK(result.spec)
    BY <1>1 DEF DocOK, IsDoc
  <2> QED BY <2>1, <2>2
<1>4. report \in Reports
  <2>1. result.rejected \in BOOLEAN
    <3>1. result.rejected = Rejected(spec, records)
      BY RoundIs
    <3>2. Rejected(spec, records) \in BOOLEAN
      BY DEF Rejected, reject_reason
    <3> QED BY <3>1, <3>2
  <2>2. units_of(retry) \subseteq Units
    BY DEF units_of, Units
  <2> HIDE DEF result
  <2> QED BY <2>1, <2>2 DEF Reports, ReviewInv, RoundInv
<1>5. /\ rounds' \in Seq(Reports) /\ Len(rounds') = Len(rounds) + 1
      /\ DOMAIN rounds' = DOMAIN rounds \cup {Len(rounds) + 1}
      /\ \A i \in DOMAIN rounds : rounds'[i] = rounds[i]
      /\ rounds'[Len(rounds) + 1] = report
  <2> HIDE DEF report
  <2> QED BY <1>1, <1>4 DEF ReviewInv, RoundInv
<1> HIDE DEF result
<1>6. calls_of(retry') \subseteq Units /\ units_of(retry') \subseteq calls_of(retry')
  BY DEF calls_of, units_of, Units
<1>7. RoundInv'
  <2>1. Len(rounds) < Rounds /\ Len(rounds) \in Nat /\ Rounds \in Nat
    BY <1>1, ReviewAssumption DEF ReviewInv, RoundInv
  <2>2. Len(rounds') <= Rounds /\ (Len(rounds') # Rounds => Len(rounds') < Rounds)
    BY <2>1, <1>5
  <2>3. retry' \subseteq Units /\ waiting' \subseteq Units
    BY <1>2, <1>6 DEF ReviewInv, RoundInv
  <2> HIDE DEF report
  <2>4. IsFiniteSet({})
    BY FS_EmptySet
  <2> QED BY <1>1, <1>2, <1>5, <2>2, <2>3, <2>4 DEF RoundInv, ReviewInv
<1>8. HeardInv'
  <2>1. UNION {rounds'[i].failed : i \in DOMAIN rounds'}
          = failed \cup UNION {rounds[i].failed : i \in DOMAIN rounds}
    <3>1. report.failed = failed
      OBVIOUS
    <3> HIDE DEF report
    <3> QED BY <1>5, <3>1
  <2>2. Units \subseteq heard \cup UNION {rounds'[i].failed : i \in DOMAIN rounds'}
    BY <2>1, <1>1 DEF ReviewInv, HeardInv
  <2>3. pc' = "review" => units_of(retry') \subseteq waiting'
    BY <1>1, <1>2, <1>6
  <2>4. \A i \in DOMAIN rounds' : rounds'[i].failed = {} => rounds'[i].units \subseteq heard
    <3>1. report.failed = {} => report.units \subseteq heard
      BY <1>1 DEF ReviewInv, HeardInv
    <3> HIDE DEF report
    <3> QED BY <1>5, <3>1 DEF ReviewInv, HeardInv
  <2> QED BY <2>2, <2>3, <2>4, <1>1 DEF HeardInv, Units
<1> QED BY <1>3, <1>7, <1>8 DEF ReviewInv

\* Every step keeps the invariant.
LEMMA NextInv == ReviewInv /\ [Next]_vars => ReviewInv'
<1> SUFFICES ASSUME ReviewInv, [Next]_vars PROVE ReviewInv'
  OBVIOUS
<1>1. CASE UNCHANGED vars
  BY <1>1 DEF vars, ReviewInv, DocOK, IsDoc, RoundInv, HeardInv
<1>2. ASSUME NEW u \in Units, Answers(u) PROVE ReviewInv'
  BY <1>2, AnswersInv
<1>3. ASSUME NEW u \in Units, Fails(u) PROVE ReviewInv'
  BY <1>3, FailsInv
<1>4. CASE Judge
  BY <1>4, JudgeInv
<1> QED BY <1>1, <1>2, <1>3, <1>4 DEF Next, Units

\* The invariant of review_spec, for every set of drafts, claims and algorithms.
THEOREM ReviewInvariant == Spec => []ReviewInv
BY InitInv, NextInv, PTL DEF Spec

\* The spec keeps every required field and the search space its cap, whatever
\* the reviewers send (TypeOK).
THEOREM TypeCorrect == Spec => []TypeOK
<1>1. ReviewInv => TypeOK
  <2> SUFFICES ASSUME ReviewInv PROVE TypeOK
    OBVIOUS
  <2>1. /\ Required \subseteq DOMAIN spec.leaf /\ DOMAIN spec.leaf \subseteq Leaves
        /\ \A p \in DOMAIN spec.leaf : spec.leaf[p] \in Nat
        /\ Cardinality(spec.knobs) <= MaxPromoted
    BY DEF ReviewInv, DocOK, IsDoc, fills
  <2> QED BY <2>1 DEF ReviewInv, RoundInv, TypeOK, Units
<1> QED BY <1>1, ReviewInvariant, PTL

\* A review that reports no unit unreviewed has heard of each, over any number
\* of failures and retries (CompleteIsReviewed).
THEOREM CompleteMeansHeard == Spec => []CompleteIsReviewed
<1>1. ReviewInv => CompleteIsReviewed
  <2> SUFFICES ASSUME ReviewInv, pc = "done", unreviewed = {}, NEW u \in Units
               PROVE  u \in heard
    BY DEF CompleteIsReviewed, Units
  <2>1. \/ u \in heard
        \/ u \in UNION {rounds[i].failed : i \in DOMAIN rounds}
    BY DEF ReviewInv, RoundInv, HeardInv
  <2>2. ASSUME u \in UNION {rounds[i].failed : i \in DOMAIN rounds}
        PROVE  \E i \in DOMAIN rounds : rounds[i].failed = {} /\ u \in rounds[i].units
    BY <2>2 DEF unreviewed
  <2> QED BY <2>1, <2>2 DEF ReviewInv, HeardInv
<1> QED BY <1>1, ReviewInvariant, PTL

-----------------------------------------------------------------------------
(* What an adopted round may change.                                       *)

\* A twin says what a grouped patch of its field says.
LEMMA TwinFacts ==
  ASSUME NEW S, Tried(S), NEW q \in S, unanimous(q, S)
  PROVE  \E x \in merged(S) : x.patch.at = q.patch.at /\ x.patch.value = q.patch.value
<1> DEFINE G == {y \in rivals(q, S) : y.patch.value = q.patch.value}
           x == first(G)
<1>1. q \in G /\ G \subseteq S
  BY DEF rivals
<1>2. x \in G
  <2>1. IsFiniteSet(G) /\ \A r \in G : r.id \in Nat
    BY <1>1, FS_Subset DEF Tried, HasPatch
  <2> HIDE DEF G
  <2> QED BY <2>1, <1>1, FirstFacts
<1>3. x \in S /\ x.patch.at = q.patch.at /\ x.patch.value = q.patch.value
  <2> HIDE DEF x
  <2> QED BY <1>2 DEF rivals
<1>4. rivals(x, S) = rivals(q, S)
  BY <1>3 DEF rivals
<1>5. unanimous(x, S)
  BY <1>3, <1>4 DEF unanimous
<1>6. x = first({y \in rivals(x, S) : y.patch.value = x.patch.value})
  BY <1>3, <1>4
<1> HIDE DEF x, G
<1>7. x \in merged(S)
  BY <1>3, <1>5, <1>6 DEF merged
<1> QED BY <1>3, <1>7

\* A grouped patch of a field no check is about lands.
LEMMA StateLands ==
  ASSUME NEW doc, DocOK(doc), NEW replies \in SUBSET Claims, IsFiniteSet(replies),
         NEW r \in merged(Triable(doc, replies)), r.patch.at \in Leaves,
         r.patch.at[1] \notin {"param", "acct", "algorithms"}
  PROVE  r \in Landed(doc, replies)
<1> DEFINE T == Triable(doc, replies)
           L == laundering_kept(doc, schema_kept(doc, merged(T)))
<1>1. Tried(T)
  BY LandedFacts
<1>2. r \in L
  <2> HIDE DEF T
  <2> QED BY <1>1, LandingFacts DEF DocOK, T
<1>3. Tried(L)
  <2>1. Applicable(merged(T))
    BY <1>1, MergedFacts
  <2> HIDE DEF T
  <2>2. schema_kept(doc, merged(T)) \subseteq merged(T)
    BY <2>1, SchemaKept DEF DocOK
  <2>3. Applicable(schema_kept(doc, merged(T)))
    BY <2>1, <2>2, TriedSubset
  <2>4. L \subseteq schema_kept(doc, merged(T))
    BY <2>3, LaunderingKept DEF DocOK
  <2> HIDE DEF L
  <2> QED BY <2>3, <2>4, TriedSubset DEF Applicable
<1> HIDE DEF L
<1>4. r \in regressing_kept(doc, L)
  <2>1. ASSUME NEW e \in new_errors(doc, settled(doc, apply_to(doc, L)))
        PROVE  e.at[1] # r.patch.at[1]
    <3>1. e.at \in {Default, Total, NewAlgorithm}
      BY ErrorsFacts DEF new_errors
    <3> QED BY <3>1, Places
  <2> QED BY <2>1, <1>2, <1>3, RegressingKept
<1> QED BY <1>4 DEF Landed, landing, L

\* An adopted round loses no field.
LEMMA AdoptedKeepsFields ==
  ASSUME NEW doc, DocOK(doc), NEW replies \in SUBSET Claims, IsFiniteSet(replies),
         ~Rejected(doc, replies), NEW p \in DOMAIN doc.leaf
  PROVE  p \in DOMAIN Outcome(doc, replies).leaf
<1> DEFINE C == Outcome(doc, replies)
           L == Landed(doc, replies)
           T == Triable(doc, replies)
<1>1. p \in Leaves
  BY DEF DocOK, IsDoc, fills
<1>2. schema_errors(C) = {} /\ uncovered_regressions(doc, C, L \cup twins(T)) = {}
  BY DEF Rejected, reject_reason, Standing
<1>3. DOMAIN C.leaf = DOMAIN apply_to(doc, L).leaf
  BY RevisedFacts
<1>4. /\ Tried(T) /\ Applicable(L) /\ IsDoc(doc)
  BY LandedFacts DEF DocOK
<1>5. ASSUME NEW r \in L, r.patch.at = p PROVE p \in DOMAIN C.leaf
  <2> HIDE DEF C, L
  <2> QED BY <1>1, <1>3, <1>4, <1>5, ApplyExact
<1> HIDE DEF C, L, T
<1>6. Required \subseteq DOMAIN C.leaf
  BY <1>2 DEF schema_errors
<1>7. CASE p = Indexing
  <2>1. SUFFICES ASSUME p \notin DOMAIN C.leaf PROVE FALSE
    BY DEF C
  <2>2. PICK q \in L \cup twins(T) : q.patch.at = p
    BY <2>1, <1>2 DEF uncovered_regressions, regressions, has
  <2>3. CASE q \in L
    BY <2>1, <2>2, <2>3, <1>5
  <2>4. CASE q \in twins(T)
    <3>1. q \in T /\ unanimous(q, T)
      BY <2>4 DEF twins
    <3>2. PICK x \in merged(T) : x.patch.at = p
      BY <3>1, <2>2, <1>4, TwinFacts
    <3>3. p[1] \notin {"param", "acct", "algorithms"}
      BY <1>7 DEF Indexing
    <3>4. x \in L
      BY <3>2, <3>3, <1>1, StateLands DEF L, T
    <3> QED BY <3>2, <3>4, <2>1, <1>5
  <2> QED BY <2>2, <2>3, <2>4
<1> QED BY <1>1, <1>6, <1>7 DEF Required, C

\* A record that lands is a reply of the round, admitted.
LEMMA LandedOrigin ==
  ASSUME NEW doc, DocOK(doc), NEW replies \in SUBSET Claims, IsFiniteSet(replies),
         NEW r \in Landed(doc, replies)
  PROVE  /\ HasPatch(r) /\ admissible(doc, r) /\ ~shortens(doc, r) /\ ~cuts(doc, r)
         /\ \E q \in replies :
               /\ r = verify_evidence(q)
               /\ q.patch = r.patch /\ q.patch # None /\ q.verdict = r.verdict
               /\ r.verdict = "CONTRADICTED" => q.quote = "verbatim"
<1>1. r \in Triable(doc, replies) /\ r \in verified(replies) /\ HasPatch(r)
  BY LandedFacts DEF Tried
<1>2. admissible(doc, r) /\ ~shortens(doc, r) /\ ~cuts(doc, r)
  BY <1>1 DEF Triable, candidates
<1>3. PICK q \in replies : r = verify_evidence(q)
  BY <1>1 DEF verified
<1>4. r.patch # None
  BY <1>1 DEF HasPatch
<1>5. q \in Claims
  OBVIOUS
<1> QED BY <1>1, <1>2, <1>3, <1>4, <1>5, VerifiedFacts

\* What an INCONSISTENT patch reaches lies in the object of an error.
LEMMA InScope ==
  ASSUME NEW doc, NEW r, HasPatch(r), NEW p \in Leaves, reaches(r, p),
         NEW s \in self_consistency_scope(doc), overlaps(r.patch.at, s)
  PROVE  \E e \in errors(doc) : overlaps(p, enclosing(e.at))
<1>1. PICK e \in errors(doc) : s = e.at \/ s = enclosing(e.at)
  BY DEF self_consistency_scope
<1>2. e.at \in {Default, Total, NewAlgorithm}
  BY ErrorsFacts
<1>3. s \in Pointers /\ s[1] = e.at[1]
  BY <1>1, <1>2, Places, ShortPointers
<1>4. r.patch.at \in Pointers /\ p \in Pointers
  BY Places DEF HasPatch
<1>5. r.patch.at[1] = s[1]
  BY <1>3, <1>4, OverlapHeads
<1>6. overlaps(r.patch.at, p)
  BY DEF overlaps, reaches
<1>7. p[1] = e.at[1]
  BY <1>3, <1>4, <1>5, <1>6, OverlapHeads
<1>8. e.at # NewAlgorithm
  BY <1>7, LeafShape, Places
<1>9. enclosing(e.at) = <<e.at[1]>>
  BY <1>2, <1>8, Places
<1>10. overlaps(p, <<e.at[1]>>)
  BY <1>4, <1>7, HeadOverlaps
<1> QED BY <1>9, <1>10

\* A field that differs from before was patched so, or it is the range and
\* follows the default.
LEMMA ChangedFields ==
  ASSUME NEW doc, DocOK(doc), NEW replies \in SUBSET Claims, IsFiniteSet(replies),
         NEW p \in DOMAIN doc.leaf, p \in DOMAIN Outcome(doc, replies).leaf,
         Outcome(doc, replies).leaf[p] # doc.leaf[p]
  PROVE  LET C == Outcome(doc, replies)
             A == apply_to(doc, Landed(doc, replies)) IN
         \/ \E r \in Landed(doc, replies) :
               reaches(r, p) /\ p \in DOMAIN r.patch.value /\ C.leaf[p] = r.patch.value[p]
         \/ p = Bound /\ Follows(doc, A, Revised(doc, replies))
<1> DEFINE C == Outcome(doc, replies)
           L == Landed(doc, replies)
           A == apply_to(doc, L)
           R == Revised(doc, replies)
<1>1. /\ IsDoc(doc) /\ Tried(L) /\ p \in Leaves
  BY LandedFacts DEF DocOK, IsDoc, fills, Applicable
<1>2. /\ C.leaf = R.leaf /\ DOMAIN R.leaf = DOMAIN A.leaf
      /\ \A x \in DOMAIN A.leaf : x # Bound => R.leaf[x] = A.leaf[x]
      /\ R = A \/ Follows(doc, A, R)
  BY RevisedFacts
<1>3. CASE p = Bound /\ Follows(doc, A, R)
  BY <1>3
<1>4. CASE ~(p = Bound /\ Follows(doc, A, R))
  <2>1. p \in DOMAIN A.leaf /\ C.leaf[p] = A.leaf[p] /\ A.leaf[p] # doc.leaf[p]
    <3> HIDE DEF A, R, C
    <3>1. p \in DOMAIN A.leaf
      BY <1>2 DEF C
    <3>2. R.leaf[p] = A.leaf[p]
      BY <3>1, <1>2, <1>4
    <3> QED BY <3>1, <3>2, <1>2 DEF C
  <2>2. \E r \in L : reaches(r, p)
    <3> HIDE DEF L
    <3> QED BY <2>1, <1>1, ApplyUnreached
  <2>3. PICK r \in L : Decides(r, p, L)
    <3> HIDE DEF L
    <3> QED BY <2>2, <1>1, Decider
  <2>4. p \in DOMAIN r.patch.value /\ A.leaf[p] = r.patch.value[p]
    <3> HIDE DEF L
    <3> QED BY <2>1, <2>3, <1>1, ApplyReached
  <2>5. reaches(r, p)
    BY <2>3 DEF Decides
  <2> QED BY <2>1, <2>4, <2>5
<1> QED BY <1>3, <1>4

\* The range follows a default that moved, or that a patch of the range left out.
LEMMA FollowsFacts ==
  ASSUME NEW doc, DocOK(doc), NEW replies \in SUBSET Claims, IsFiniteSet(replies),
         Follows(doc, apply_to(doc, Landed(doc, replies)), Revised(doc, replies))
  PROVE  LET C == Outcome(doc, replies) IN
         /\ Default \in DOMAIN C.leaf /\ Bound \in DOMAIN C.leaf
         /\ C.leaf[Bound] = C.leaf[Default]
         /\ \/ C.leaf[Default] # doc.leaf[Default]
            \/ \E r \in Landed(doc, replies) :
                  /\ reaches(r, Bound) /\ Bound \in DOMAIN r.patch.value
                  /\ r.patch.value[Bound] < C.leaf[Default]
<1> DEFINE C == Outcome(doc, replies)
           L == Landed(doc, replies)
           A == apply_to(doc, L)
           R == Revised(doc, replies)
<1>1. /\ IsDoc(doc) /\ Tried(L)
  BY LandedFacts DEF DocOK, Applicable
<1>2. /\ C.leaf = R.leaf /\ DOMAIN R.leaf = DOMAIN A.leaf /\ IsDoc(A)
      /\ \A x \in DOMAIN A.leaf : x # Bound => R.leaf[x] = A.leaf[x]
  BY RevisedFacts
<1>3. Follows(doc, A, R)
  OBVIOUS
<1>4. Default \in Leaves /\ Bound \in Leaves /\ Default # Bound
      /\ Default \in DOMAIN doc.leaf /\ Bound \in DOMAIN doc.leaf
  BY Places DEF DocOK
<1>5. doc.leaf[Default] \in Nat /\ doc.leaf[Bound] \in Nat
  BY <1>1, <1>4 DEF IsDoc, fills
<1> HIDE DEF A, R, C, L
<1>6. /\ Default \in DOMAIN C.leaf /\ Bound \in DOMAIN C.leaf
      /\ C.leaf[Default] = A.leaf[Default] /\ C.leaf[Bound] = C.leaf[Default]
  BY <1>2, <1>3, <1>4 DEF Follows
<1>7. ASSUME C.leaf[Default] = doc.leaf[Default]
      PROVE  \E r \in L : /\ reaches(r, Bound) /\ Bound \in DOMAIN r.patch.value
                          /\ r.patch.value[Bound] < C.leaf[Default]
  <2>1. ~param_range(doc)
    <3>1. PICK e \in new_errors(doc, A) : e.code = "param_range"
      BY <1>3 DEF Follows
    <3>2. e = [code |-> "param_range", at |-> Default] /\ e \notin errors(doc)
      BY <3>1 DEF new_errors, errors, found
    <3> QED BY <3>2 DEF errors, found
  <2>2. doc.leaf[Default] <= doc.leaf[Bound]
    BY <2>1, <1>4 DEF param_range, has
  <2>3. A.leaf[Bound] < A.leaf[Default] /\ A.leaf[Bound] \in Nat
    BY <1>2, <1>3 DEF Follows, IsDoc, fills
  <2>4. A.leaf[Bound] # doc.leaf[Bound] /\ Bound \in DOMAIN A.leaf
    BY <2>2, <2>3, <1>3, <1>5, <1>6, <1>7 DEF Follows
  <2>5. \E r \in L : reaches(r, Bound)
    BY <2>4, <1>1, <1>4, ApplyUnreached DEF A
  <2>6. PICK r \in L : Decides(r, Bound, L)
    BY <2>5, <1>1, Decider
  <2>7. Bound \in DOMAIN r.patch.value /\ A.leaf[Bound] = r.patch.value[Bound]
    BY <2>4, <2>6, <1>1, <1>4, ApplyReached DEF A
  <2>8. reaches(r, Bound)
    BY <2>6 DEF Decides
  <2> QED BY <2>3, <2>7, <2>8, <1>6
<1> QED BY <1>6, <1>7 DEF C, L

\* A field that an adopted round changes is changed on an authority.
LEMMA JudgeOnAuthority ==
  ASSUME ReviewInv, Judge, NEW p \in Leaves, changed(p)
  PROVE  on_authority(p)
<1> DEFINE C == Outcome(spec, records)
           L == Landed(spec, records)
           A == apply_to(spec, L)
           R == Revised(spec, records)
<1>1. DocOK(spec) /\ records \in SUBSET Claims /\ IsFiniteSet(records)
  BY DEF ReviewInv, RoundInv
<1>2. ~Rejected(spec, records) /\ spec' = C
  <2>1. spec' = IF Rejected(spec, records) THEN spec ELSE C
    BY RoundIs DEF Judge
  <2> HIDE DEF C
  <2> QED BY <2>1 DEF changed
<1>3. p \in DOMAIN spec.leaf
  BY DEF changed
<1>4. p \in DOMAIN C.leaf
  BY <1>1, <1>2, <1>3, AdoptedKeepsFields
<1>5. C.leaf[p] # spec.leaf[p]
  <2> HIDE DEF C
  <2> QED BY <1>2, <1>4 DEF changed
<1>6. /\ ~reject_reason(spec, Standing(spec, records), C)
      /\ L \subseteq Standing(spec, records)
  BY <1>2 DEF Rejected, Standing
<1> HIDE DEF C, L, A, R
<1>7. CASE \E r \in L : /\ reaches(r, p) /\ p \in DOMAIN r.patch.value
                        /\ C.leaf[p] = r.patch.value[p]
  <2>1. PICK r \in L : /\ reaches(r, p) /\ p \in DOMAIN r.patch.value
                       /\ C.leaf[p] = r.patch.value[p]
    BY <1>7
  <2>2. HasPatch(r) /\ admissible(spec, r) /\ ~shortens(spec, r)
    BY <1>1, LandedOrigin DEF L
  <2>3. PICK q \in records : /\ q.patch = r.patch /\ q.patch # None /\ q.verdict = r.verdict
                             /\ r.verdict = "CONTRADICTED" => q.quote = "verbatim"
    BY <1>1, LandedOrigin DEF L
  <2>4. ~is_append(q.patch.at) /\ p \in DOMAIN q.patch.value
        /\ q.patch.value[p] = spec'.leaf[p]
    BY <1>2, <2>1, <2>3 DEF reaches
  <2>5. CASE r.verdict = "CONTRADICTED"
    BY <2>3, <2>4, <2>5, <1>2, <1>4 DEF on_authority, proposes
  <2>6. CASE r.verdict = "UNDERSPECIFIED"
    <3>1. replaces_text(q) => C.leaf[p] > spec.leaf[p]
      <4>1. SUFFICES ASSUME replaces_text(q) PROVE C.leaf[p] > spec.leaf[p]
        OBVIOUS
      <4>2. replaces_text(r) /\ r.patch.at \in Leaves
        BY <4>1, <2>3 DEF replaces_text, Texts, Leaves
      <4>3. r.patch.at = p
        BY <4>2, <2>1, <2>2, ExactReaches
      <4>4. ~(r.patch.value[p] <= spec.leaf[p])
        BY <4>2, <4>3, <2>2, <2>6 DEF shortens
      <4>5. spec.leaf[p] \in Nat
        BY <1>1, <1>3 DEF DocOK, IsDoc, fills
      <4>6. r.patch.value[p] \in Nat
        BY <2>1, <2>2 DEF HasPatch, fills, reaches
      <4> QED BY <4>4, <4>5, <4>6, <2>1
    <3> QED BY <3>1, <2>3, <2>4, <2>6, <1>2, <1>4 DEF on_authority, proposes
  <2>7. CASE r.verdict = "INCONSISTENT"
    <3>1. \E e \in errors(spec) : overlaps(p, enclosing(e.at))
      <4>1. PICK s \in self_consistency_scope(spec) : overlaps(r.patch.at, s)
        BY <2>2, <2>7 DEF admissible
      <4> QED BY <4>1, <2>1, <2>2, InScope
    <3>2. Cardinality(errors(C)) < Cardinality(errors(spec))
      <4>1. ~(Cardinality(errors(C)) >= Cardinality(errors(spec)))
        <5>1. r \in Standing(spec, records)
          BY <1>6
        <5> QED BY <5>1, <1>6, <2>7 DEF reject_reason
      <4>2. Cardinality(errors(C)) \in Nat /\ Cardinality(errors(spec)) \in Nat
        BY ErrorsFacts, FS_CardinalityType
      <4> QED BY <4>1, <4>2
    <3> QED BY <3>1, <3>2, <2>3, <2>4, <2>7, <1>2, <1>4 DEF on_authority, proposes
  <2> QED BY <2>2, <2>5, <2>6, <2>7 DEF admissible
<1>8. CASE p = Bound /\ Follows(spec, A, R)
  <2>1. /\ Default \in DOMAIN C.leaf /\ Bound \in DOMAIN C.leaf
        /\ C.leaf[Bound] = C.leaf[Default]
        /\ \/ C.leaf[Default] # spec.leaf[Default]
           \/ \E r \in L : /\ reaches(r, Bound) /\ Bound \in DOMAIN r.patch.value
                           /\ r.patch.value[Bound] < C.leaf[Default]
    BY <1>1, <1>8, FollowsFacts DEF A, L, R, C
  <2>2. Default \in DOMAIN spec.leaf
    BY <1>1, Places DEF DocOK
  <2>3. CASE C.leaf[Default] # spec.leaf[Default]
    BY <2>1, <2>2, <2>3, <1>2, <1>8 DEF on_authority, changed
  <2>4. ASSUME NEW r \in L, reaches(r, Bound), Bound \in DOMAIN r.patch.value,
               r.patch.value[Bound] < C.leaf[Default]
        PROVE  on_authority(p)
    <3>1. PICK q \in records : q.patch = r.patch /\ q.patch # None
      BY <1>1, LandedOrigin DEF L
    <3>2. narrows(q)
      BY <3>1, <2>4, <1>2 DEF narrows, reaches
    <3> QED BY <3>2, <2>1, <1>2, <1>8 DEF on_authority
  <2> QED BY <2>1, <2>3, <2>4
<1>9. \/ \E r \in L : reaches(r, p) /\ p \in DOMAIN r.patch.value /\ C.leaf[p] = r.patch.value[p]
      \/ p = Bound /\ Follows(spec, A, R)
  BY <1>1, <1>3, <1>4, <1>5, ChangedFields DEF A, L, R, C
<1> QED BY <1>7, <1>8, <1>9

\* Whatever patches meet in a round and whichever are taken out again, a field
\* changes only on an authority (ChangedOnAuthority).
THEOREM ChangesHaveAuthority == Spec => ChangedOnAuthority
<1>1. ReviewInv /\ [Next]_vars => [\A p \in Leaves : changed(p) => on_authority(p)]_vars
  <2> SUFFICES ASSUME ReviewInv, [Next]_vars, NEW p \in Leaves, changed(p)
               PROVE  on_authority(p)
    OBVIOUS
  <2>1. CASE Judge
    BY <2>1, JudgeOnAuthority
  <2>2. CASE UNCHANGED spec
    BY <2>2 DEF changed
  <2>3. CASE \E u \in partition \cup {coverage} : Answers(u) \/ Fails(u)
    BY <2>2, <2>3 DEF Answers, Fails
  <2> QED BY <2>1, <2>2, <2>3 DEF Next, vars
<1> QED BY <1>1, ReviewInvariant, PTL DEF Spec, ChangedOnAuthority

-----------------------------------------------------------------------------
(* Corrections.                                                            *)

\* The spec with one patch of a field, and nothing else.
alone(doc, v) == [doc EXCEPT !.leaf[v.patch.at] = v.patch.value[v.patch.at]]

\* Such a patch gives its field, and every other field stays.
LEMMA AloneFacts ==
  ASSUME NEW doc, IsDoc(doc), NEW v, HasPatch(v), v.patch.at \in Leaves,
         v.patch.at \in DOMAIN doc.leaf
  PROVE  LET D == alone(doc, v) IN
         /\ DOMAIN v.patch.value = {v.patch.at} /\ v.patch.value[v.patch.at] \in Nat
         /\ DOMAIN D.leaf = DOMAIN doc.leaf
         /\ D.leaf[v.patch.at] = v.patch.value[v.patch.at]
         /\ \A p \in DOMAIN doc.leaf : p # v.patch.at => D.leaf[p] = doc.leaf[p]
<1> DEFINE D == alone(doc, v)
           at == v.patch.at
           val == v.patch.value
<1>1. /\ fills(val, {p \in Leaves : IsPrefix(at, p)}) /\ at \in DOMAIN val
  <2>1. ~is_append(at)
    BY ExactReaches
  <2> QED BY <2>1 DEF HasPatch
<1>2. \A p \in Leaves : IsPrefix(at, p) <=> p = at
  BY ExactReaches
<1> HIDE DEF at, val
<1>3. DOMAIN val = {at} /\ val[at] \in Nat
  BY <1>1, <1>2 DEF fills
<1>4. D.leaf = [doc.leaf EXCEPT ![at] = val[at]]
  BY DEF alone, IsDoc, val, at
<1> HIDE DEF D
<1> QED BY <1>3, <1>4 DEF D, at, val

\* Nothing else in S touches the object v patches.
Sole(S, v) == \A q \in S : overlaps(q.patch.at, enclosing(v.patch.at)) => q = v

\* What reaches a field overlaps its object.
LEMMA ReachesObject ==
  ASSUME NEW r, HasPatch(r), NEW p \in Leaves, reaches(r, p)
  PROVE  overlaps(r.patch.at, <<p[1]>>)
<1>1. r.patch.at \in Pointers /\ p \in Pointers
  BY Places DEF HasPatch
<1>2. overlaps(r.patch.at, p)
  BY DEF overlaps, reaches
<1>3. r.patch.at[1] = p[1]
  BY <1>1, <1>2, OverlapHeads
<1> QED BY <1>1, <1>3, HeadOverlaps

\* The object of a field is named by its first token.
LEMMA LeafEnclosing ==
  ASSUME NEW p \in Leaves
  PROVE  enclosing(p) = <<p[1]>>
<1>1. ~is_append(p)
  <2>1. p \in Pointers
    BY Places
  <2>2. p[1] \in {"param", "state", "algo", "acct"}
    BY LeafShape
  <2> QED BY <2>1, <2>2, PointerShape
<1> QED BY <1>1 DEF enclosing

\* In the object of a sole patch, applying all is applying that one.
LEMMA SoleApplied ==
  ASSUME NEW doc, IsDoc(doc), NEW S, Applicable(S), NEW v \in S,
         v.patch.at \in DOMAIN doc.leaf, Sole(S, v),
         NEW p \in Leaves, p[1] = v.patch.at[1]
  PROVE  LET A == apply_to(doc, S)
             D == alone(doc, v) IN
         /\ p \in DOMAIN A.leaf <=> p \in DOMAIN D.leaf
         /\ p \in DOMAIN A.leaf => A.leaf[p] = D.leaf[p]
<1>1. v.patch.at \in Leaves
  BY DEF IsDoc, fills
<1>2. \A q \in S : HasPatch(q)
  BY DEF Applicable, Tried
<1>3. CASE p = v.patch.at
  BY <1>1, <1>2, <1>3, ApplyExact, AloneFacts
<1>4. CASE p # v.patch.at
  <2>1. ASSUME NEW q \in S, reaches(q, p) PROVE FALSE
    <3>1. overlaps(q.patch.at, <<p[1]>>)
      BY <2>1, <1>2, ReachesObject
    <3>2. q = v
      BY <3>1, <1>1, LeafEnclosing DEF Sole
    <3> QED BY <3>2, <2>1, <1>1, <1>2, <1>4, ExactReaches
  <2>2. LET A == apply_to(doc, S) IN
        /\ p \in DOMAIN A.leaf <=> p \in DOMAIN doc.leaf
        /\ p \in DOMAIN A.leaf => A.leaf[p] = doc.leaf[p]
    BY <2>1, ApplyUnreached
  <2>3. LET D == alone(doc, v) IN
        /\ p \in DOMAIN D.leaf <=> p \in DOMAIN doc.leaf
        /\ p \in DOMAIN doc.leaf => D.leaf[p] = doc.leaf[p]
    BY <1>1, <1>2, <1>4, AloneFacts
  <2> QED BY <2>2, <2>3
<1> QED BY <1>3, <1>4

\* The checks of the parameter depend on its default and its range.
LEMMA ParameterChecks ==
  ASSUME NEW A, NEW D,
         \A p \in {Default, Bound} : /\ p \in DOMAIN A.leaf <=> p \in DOMAIN D.leaf
                                     /\ p \in DOMAIN A.leaf => A.leaf[p] = D.leaf[p]
  PROVE  /\ param_range(A) <=> param_range(D)
         /\ unrepresentable(A) <=> unrepresentable(D)
BY DEF param_range, unrepresentable, has

\* A sole, sound patch of the parameter brings no error there, so no widening.
LEMMA ParameterSound ==
  ASSUME NEW doc, IsDoc(doc), NEW S, Applicable(S), NEW v \in S,
         v.patch.at \in DOMAIN doc.leaf, v.patch.at[1] = "param", Sole(S, v),
         errors(alone(doc, v)) \subseteq errors(doc)
  PROVE  LET A == apply_to(doc, S) IN
         /\ \A e \in new_errors(doc, A) : e.at # Default
         /\ settled(doc, A) = A
<1> DEFINE A == apply_to(doc, S)
           D == alone(doc, v)
<1>1. /\ param_range(A) <=> param_range(D)
      /\ unrepresentable(A) <=> unrepresentable(D)
  <2>1. /\ Default \in Leaves /\ Bound \in Leaves
        /\ Default[1] = "param" /\ Bound[1] = "param"
    BY Places
  <2>2. \A p \in {Default, Bound} : /\ p \in DOMAIN A.leaf <=> p \in DOMAIN D.leaf
                                    /\ p \in DOMAIN A.leaf => A.leaf[p] = D.leaf[p]
    BY <2>1, SoleApplied
  <2> HIDE DEF A, D
  <2> QED BY <2>2, ParameterChecks
<1>2. Default # Total /\ Default # NewAlgorithm
  BY Places
<1> HIDE DEF A, D
<1>3. ASSUME NEW e \in new_errors(doc, A) PROVE e.at # Default
  <2>1. SUFFICES ASSUME e.at = Default PROVE FALSE
    OBVIOUS
  <2>2. \/ e = [code |-> "param_range", at |-> Default] /\ param_range(A)
        \/ e = [code |-> "unrepresentable_default", at |-> Default] /\ unrepresentable(A)
    BY <2>1, <1>2 DEF new_errors, errors, found
  <2>3. e \in errors(D)
    BY <2>2, <1>1 DEF errors, found
  <2> QED BY <2>3 DEF D, new_errors
<1>4. \A e \in new_errors(doc, A) : e.code # "param_range"
  BY <1>3 DEF new_errors, errors, found
<1>5. settled(doc, A) = A
  BY <1>4 DEF settled, coupled
<1> QED BY <1>3, <1>5 DEF A

\* What overlaps a pointer no other record of the round touches is the record.
LEMMA ApartIsSole ==
  ASSUME records \in SUBSET Claims, NEW r \in records, NEW p, apart(r, p),
         NEW q \in verified(records), q.patch # None, overlaps(q.patch.at, p)
  PROVE  q = verify_evidence(r)
<1>1. PICK x \in records : q = verify_evidence(x)
  BY DEF verified
<1>2. x \in Claims
  OBVIOUS
<1>3. x.patch = q.patch
  BY <1>1, <1>2, VerifiedFacts
<1>4. x = r
  BY <1>3 DEF apart
<1> QED BY <1>1, <1>4

\* A pointer overlaps itself.
LEMMA OverlapsItself ==
  ASSUME NEW a \in Pointers
  PROVE  overlaps(a, a)
<1>1. a = <<a[1]>> \/ a = <<a[1], a[2]>>
  BY PointerShape, LeafShape
<1>2. IsPrefix(<<a[1]>>, <<a[1]>>)
  BY ObjectPrefixes
<1>3. IsPrefix(<<a[1], a[2]>>, <<a[1], a[2]>>)
  BY FieldPrefix
<1> QED BY <1>1, <1>2, <1>3 DEF overlaps

\* A correction with its quote: a record of the round the rules are about.
Corrects(r) ==
    /\ DocOK(spec) /\ records \in SUBSET Claims /\ IsFiniteSet(records)
    /\ r \in records
    /\ r.verdict = "CONTRADICTED" /\ r.quote = "verbatim" /\ r.patch # None

\* Verifying it changes neither its patch nor the question about it.
LEMMA CorrectionFacts ==
  ASSUME NEW r, Corrects(r)
  PROVE  LET v == verify_evidence(r) IN
         /\ v \in verified(records) /\ v.patch = r.patch /\ v.patch # None
         /\ v.verdict = "CONTRADICTED" /\ v.evidence_ok /\ v.unit = r.unit
         /\ HasPatch(v) /\ question(v) = question(r)
<1> DEFINE v == verify_evidence(r)
<1>1. r \in Claims /\ v \in verified(records)
  BY DEF Corrects, verified
<1>2. /\ v.patch = r.patch /\ v.patch # None /\ v.topic = r.topic
      /\ v.verdict = "CONTRADICTED" /\ v.evidence_ok /\ v.unit = r.unit /\ HasPatch(v)
  BY <1>1, VerifiedFacts DEF Corrects
<1> HIDE DEF v
<1>3. question(v) = question(r)
  BY <1>2 DEF question
<1> QED BY <1>1, <1>2, <1>3 DEF v

\* A sound correction is tried.
LEMMA SoundIsTried ==
  ASSUME NEW r, Corrects(r), sound(r)
  PROVE  LET v == verify_evidence(r) IN
         v \in Triable(spec, records) /\ v.patch.at \in Leaves
<1> DEFINE v == verify_evidence(r)
           at == v.patch.at
<1>1. /\ v \in verified(records) /\ v.patch = r.patch /\ v.patch # None
      /\ v.verdict = "CONTRADICTED" /\ v.evidence_ok /\ v.unit = r.unit /\ HasPatch(v)
  BY CorrectionFacts
<1>2. IsDoc(spec) /\ at \in DOMAIN spec.leaf /\ at \in Leaves
  BY <1>1 DEF sound, Corrects, DocOK, IsDoc, fills
<1> HIDE DEF v
<1>3. ~is_append(at)
  BY <1>1, <1>2, ExactReaches
<1>4. admissible(spec, v)
  BY <1>1, <1>2, <1>3 DEF admissible, sound, has
<1>5. ~shortens(spec, v)
  BY <1>1 DEF shortens
<1>6. ~cuts(spec, v)
  <2>1. SUFFICES ASSUME at \in Texts PROVE ~(10 * v.patch.value[at] < 4 * spec.leaf[at])
    BY DEF cuts, replaces_text
  <2>2. 10 * v.patch.value[at] >= 4 * spec.leaf[at]
    BY <2>1, <1>1 DEF sound
  <2>3. v.patch.value[at] \in Nat /\ spec.leaf[at] \in Nat
    BY <1>1, <1>2, AloneFacts DEF IsDoc, fills
  <2> HIDE DEF at
  <2> QED BY <2>2, <2>3
<1>7. v \in candidates(spec, verified(records))
  BY <1>1, <1>4, <1>5, <1>6 DEF candidates, patches
<1> QED BY <1>2, <1>7 DEF Triable, v

\* Alone in its object, it is the one that stands of its field.
LEMMA SoundIsGrouped ==
  ASSUME NEW r, Corrects(r), sound(r), apart(r, enclosing(r.patch.at))
  PROVE  LET v == verify_evidence(r) IN
         /\ v \in merged(Triable(spec, records))
         /\ Sole(Triable(spec, records), v)
<1> DEFINE v == verify_evidence(r)
           T == Triable(spec, records)
<1>1. /\ v \in verified(records) /\ v.patch = r.patch /\ HasPatch(v)
      /\ v \in T /\ v.patch.at \in Leaves
  BY CorrectionFacts, SoundIsTried
<1>2. T \subseteq verified(records) /\ \A q \in T : HasPatch(q)
  BY LandedFacts DEF Corrects, Tried
<1>3. Sole(T, v)
  <2> SUFFICES ASSUME NEW q \in T, overlaps(q.patch.at, enclosing(v.patch.at))
               PROVE  q = v
    BY DEF Sole
  <2>1. q \in verified(records) /\ q.patch # None
    BY <1>2 DEF HasPatch
  <2>2. overlaps(q.patch.at, enclosing(r.patch.at))
    BY <1>1
  <2> QED BY <2>1, <2>2, ApartIsSole DEF Corrects
<1> HIDE DEF v, T
<1>4. rivals(v, T) = {v}
  <2>1. ASSUME NEW q \in T, q.patch.at = v.patch.at PROVE q = v
    <3>1. v.patch.at \in Pointers
      BY <1>1 DEF HasPatch
    <3>2. overlaps(v.patch.at, <<v.patch.at[1]>>)
      BY <3>1, HeadOverlaps
    <3>3. overlaps(q.patch.at, enclosing(v.patch.at))
      BY <3>2, <2>1, <1>1, LeafEnclosing
    <3> QED BY <3>3, <1>3 DEF Sole
  <2> QED BY <2>1, <1>1 DEF rivals
<1>5. unanimous(v, T)
  BY <1>4 DEF unanimous
<1>6. v = first({q \in rivals(v, T) : q.patch.value = v.patch.value})
  <2>1. {q \in rivals(v, T) : q.patch.value = v.patch.value} = {v}
    BY <1>4
  <2>2. first({v}) \in {v}
    <3>1. v.id \in Nat
      BY <1>1 DEF HasPatch
    <3>2. IsFiniteSet({v})
      BY FS_Singleton
    <3> QED BY <3>1, <3>2, FirstFacts
  <2> QED BY <2>1, <2>2
<1>7. v \in merged(T)
  BY <1>1, <1>5, <1>6 DEF merged
<1> QED BY <1>3, <1>7 DEF v, T

\* The total is checked against the size.
LEMMA TotalSound ==
  ASSUME NEW doc, DocOK(doc), NEW v, HasPatch(v), v.patch.at = Total,
         errors(alone(doc, v)) \subseteq errors(doc)
  PROVE  \/ [code |-> "storage_sum", at |-> Total] \in errors(doc)
         \/ v.patch.value[Total] = doc.leaf[Total]
<1> DEFINE D == alone(doc, v)
           e == [code |-> "storage_sum", at |-> Total]
<1>1. /\ Total \in Leaves /\ Size \in Leaves /\ Size # Total
      /\ Size \in DOMAIN doc.leaf /\ Total \in DOMAIN doc.leaf
  <2>1. Size # Total
    BY DEF Size, Total
  <2> QED BY <2>1, Places DEF DocOK
<1>2. /\ DOMAIN D.leaf = DOMAIN doc.leaf
      /\ D.leaf[Total] = v.patch.value[Total] /\ D.leaf[Size] = doc.leaf[Size]
  BY <1>1, AloneFacts DEF DocOK
<1> HIDE DEF D
<1>3. ASSUME e \notin errors(doc) PROVE v.patch.value[Total] = doc.leaf[Total]
  <2>1. ~storage_sum(doc)
    BY <1>3 DEF errors, found
  <2>2. ~storage_sum(D)
    <3>1. e \notin errors(D)
      BY <1>3 DEF D
    <3> QED BY <3>1 DEF errors, found
  <2> QED BY <2>1, <2>2, <1>1, <1>2 DEF storage_sum, has
<1> QED BY <1>3

\* A sound correction alone in its object lands, or says what the spec says.
LEMMA SoundLands ==
  ASSUME NEW r, Corrects(r), sound(r), apart(r, enclosing(r.patch.at))
  PROVE  LET v == verify_evidence(r) IN
         \/ v \in Landed(spec, records)
         \/ v.patch.at = Total /\ v.patch.value[Total] = spec.leaf[Total]
<1> DEFINE v == verify_evidence(r)
           T == Triable(spec, records)
           L == laundering_kept(spec, schema_kept(spec, merged(T)))
           A == apply_to(spec, L)
           h == v.patch.at[1]
<1>1. /\ v \in merged(T) /\ Sole(T, v) /\ v.patch.at \in Leaves /\ HasPatch(v)
      /\ v.patch = r.patch
  BY SoundIsGrouped, SoundIsTried, CorrectionFacts
<1>2. DocOK(spec) /\ Tried(T) /\ IsFiniteSet(spec.added) /\ IsDoc(spec)
  BY LandedFacts DEF Corrects, DocOK
<1>3. v \in L /\ Applicable(L) /\ L \subseteq T
  <2> HIDE DEF v, T
  <2>1. v \in L
    BY <1>1, <1>2, LandingFacts
  <2>2. merged(T) \subseteq T /\ Applicable(merged(T))
    BY <1>2, MergedFacts
  <2>3. schema_kept(spec, merged(T)) \subseteq merged(T)
    BY <1>2, <2>2, SchemaKept
  <2>4. Applicable(schema_kept(spec, merged(T)))
    BY <2>2, <2>3, TriedSubset
  <2>5. L \subseteq schema_kept(spec, merged(T))
    BY <1>2, <2>4, LaunderingKept
  <2> HIDE DEF L
  <2>6. Applicable(L)
    BY <2>4, <2>5, TriedSubset
  <2> QED BY <2>1, <2>2, <2>3, <2>5, <2>6
<1>4. v.patch.at \in DOMAIN spec.leaf /\ errors(alone(spec, v)) \subseteq errors(spec)
  BY <1>1 DEF sound, alone
<1> HIDE DEF v, T, L
<1>5. Sole(L, v)
  BY <1>1, <1>3 DEF Sole
<1>6. Landed(spec, records) = regressing_kept(spec, L)
  BY DEF Landed, landing, L, T
<1>7. ASSUME \A e \in new_errors(spec, settled(spec, A)) : e.at[1] # h
      PROVE  v \in Landed(spec, records)
  BY <1>3, <1>6, <1>7, RegressingKept DEF Applicable
<1>8. ASSUME NEW e \in new_errors(spec, settled(spec, A))
      PROVE  /\ e.at \in {Default, Total, NewAlgorithm}
             /\ e.at = Total => e = [code |-> "storage_sum", at |-> Total]
             /\ e \notin errors(spec)
  <2> DEFINE R == settled(spec, A)
  <2>1. e \in errors(R) /\ e \notin errors(spec)
    BY DEF new_errors
  <2> HIDE DEF R
  <2>2. e.at = Total => e = [code |-> "storage_sum", at |-> Total]
    BY <2>1, Places DEF errors, found, NewAlgorithm, Total
  <2> QED BY <2>1, <2>2, ErrorsFacts
<1>9. Default[1] = "param" /\ Total[1] = "acct" /\ NewAlgorithm[1] = "algorithms"
  BY Places
<1>10. CASE h = "param"
  <2>1. (\A e \in new_errors(spec, A) : e.at # Default) /\ settled(spec, A) = A
    BY <1>2, <1>3, <1>4, <1>5, <1>10, ParameterSound
  <2> HIDE DEF A, h
  <2>2. \A e \in new_errors(spec, settled(spec, A)) : e.at[1] # h
    BY <2>1, <1>8, <1>9, <1>10
  <2> QED BY <2>2, <1>7 DEF v
<1>11. CASE h = "acct"
  <2>1. v.patch.at = Total
    BY <1>1, <1>11, LeafShape
  <2>2. \/ [code |-> "storage_sum", at |-> Total] \in errors(spec)
        \/ v.patch.value[Total] = spec.leaf[Total]
    BY <2>1, <1>1, <1>2, <1>4, TotalSound
  <2> HIDE DEF A, h
  <2>3. ASSUME [code |-> "storage_sum", at |-> Total] \in errors(spec)
        PROVE  \A e \in new_errors(spec, settled(spec, A)) : e.at[1] # h
    <3> TAKE e \in new_errors(spec, settled(spec, A))
    <3>1. e.at # Total /\ e.at \in {Default, Total, NewAlgorithm}
      BY <1>8, <2>3
    <3> QED BY <3>1, <1>9, <1>11
  <2> QED BY <2>1, <2>2, <2>3, <1>7 DEF v
<1>12. CASE h \in {"state", "algo"}
  <2> HIDE DEF A, h
  <2>1. \A e \in new_errors(spec, settled(spec, A)) : e.at[1] # h
    BY <1>8, <1>9, <1>12
  <2> QED BY <2>1, <1>7 DEF v
<1> QED BY <1>1, <1>10, <1>11, <1>12, LeafShape

\* Apart from the other records, a landed correction decides its fields.
LEMMA ApartApplied ==
  ASSUME NEW r, Corrects(r), verify_evidence(r) \in Landed(spec, records),
         apart(r, r.patch.at), ~is_append(r.patch.at), NEW p \in DOMAIN r.patch.value
  PROVE  LET A == apply_to(spec, Landed(spec, records)) IN
         p \in Leaves /\ p \in DOMAIN A.leaf /\ A.leaf[p] = r.patch.value[p]
<1> DEFINE v == verify_evidence(r)
           L == Landed(spec, records)
<1>1. v.patch = r.patch /\ HasPatch(v) /\ records \in SUBSET Claims /\ r \in records
  BY CorrectionFacts DEF Corrects
<1>2. IsDoc(spec) /\ Tried(L) /\ L \subseteq verified(records)
  BY LandedFacts DEF Corrects, DocOK, Applicable
<1> HIDE DEF v, L
<1>3. p \in Leaves /\ IsPrefix(v.patch.at, p)
  BY <1>1 DEF HasPatch, fills
<1>4. reaches(v, p)
  BY <1>1, <1>3 DEF reaches
<1>5. ASSUME NEW q \in L, reaches(q, p) PROVE q = v
  <2>1. HasPatch(q) /\ q \in verified(records) /\ q.patch # None
    BY <1>2 DEF Tried, HasPatch
  <2>2. overlaps(q.patch.at, v.patch.at)
    <3>1. q.patch.at \in Pointers /\ v.patch.at \in Pointers
      BY <1>1, <2>1 DEF HasPatch
    <3>2. IsPrefix(q.patch.at, p) /\ IsPrefix(v.patch.at, p)
      BY <1>3, <1>5 DEF reaches
    <3> QED BY <3>1, <3>2, <1>3, ReachersOverlap
  <2> QED BY <2>1, <2>2, <1>1, ApartIsSole DEF v
<1>6. v \in L
  BY DEF v, L
<1>7. Decides(v, p, L)
  <2>1. later(v, v)
    BY <1>1 DEF later, HasPatch
  <2> QED BY <2>1, <1>4, <1>5, <1>6 DEF Decides
<1>8. LET A == apply_to(spec, L) IN
      p \in DOMAIN A.leaf /\ A.leaf[p] = v.patch.value[p]
  BY <1>1, <1>2, <1>3, <1>6, <1>7, ApplyReached
<1> QED BY <1>1, <1>3, <1>8 DEF L

\* A correction apart from the others that landed is in the spec, or the range
\* it asked for was widened.
LEMMA LandedIsThere ==
  ASSUME NEW r, Corrects(r), verify_evidence(r) \in Landed(spec, records),
         apart(r, r.patch.at), spec' = Outcome(spec, records)
  PROVE  lands(r) \/ widened(r)
<1> DEFINE C == Outcome(spec, records)
           L == Landed(spec, records)
           A == apply_to(spec, L)
           R == Revised(spec, records)
           v == verify_evidence(r)
<1>1. v \in L /\ v.patch = r.patch /\ r.patch # None /\ HasPatch(v)
  BY CorrectionFacts
<1>2. IsDoc(spec)
  BY DEF Corrects, DocOK
<1>3. /\ C.leaf = R.leaf /\ DOMAIN R.leaf = DOMAIN A.leaf /\ C.added = A.added
      /\ \A p \in DOMAIN A.leaf : p # Bound => R.leaf[p] = A.leaf[p]
      /\ R = A \/ Follows(spec, A, R)
  BY RevisedFacts DEF Corrects
<1>4. CASE is_append(r.patch.at)
  <2>1. A.added = spec.added \cup {q.patch.value : q \in {x \in L : is_append(x.patch.at)}}
    <3> HIDE DEF L
    <3> QED BY <1>2, ApplyShape
  <2> HIDE DEF A, C, R, L, v
  <2>2. r.patch.value \in A.added
    BY <2>1, <1>1, <1>4
  <2>3. spec'.added = A.added
    BY <1>3 DEF C
  <2> QED BY <2>2, <2>3, <1>4 DEF lands
<1>5. CASE ~is_append(r.patch.at)
  <2> DEFINE val == r.patch.value
  <2>1. \A p \in DOMAIN val : p \in Leaves /\ p \in DOMAIN A.leaf /\ A.leaf[p] = val[p]
    BY <1>5, ApartApplied
  <2> HIDE DEF A, C, R, L, v, val
  <2>2. spec'.leaf = R.leaf
    BY <1>3 DEF C
  <2>3. gives(r, DOMAIN val \ {Bound})
    BY <2>1, <2>2, <1>3 DEF gives, val
  <2>4. CASE R = A \/ Bound \notin DOMAIN val
    <3>1. gives(r, DOMAIN val)
      BY <2>1, <2>2, <2>4, <1>3 DEF gives, val
    <3> QED BY <3>1, <1>5 DEF lands, val
  <2>5. CASE Follows(spec, A, R) /\ Bound \in DOMAIN val
    <3>1. Default # Bound
      BY Places
    <3>2. R.leaf[Default] = A.leaf[Default] /\ R.leaf[Bound] = A.leaf[Default]
      BY <3>1, <2>5, <1>3 DEF Follows
    <3>3. val[Bound] < A.leaf[Default]
      BY <2>1, <2>5 DEF Follows
    <3>4. narrows(r)
      BY <3>2, <3>3, <2>2, <2>5, <1>1, <1>5 DEF narrows, val
    <3>5. spec'.leaf[Bound] = spec'.leaf[Default]
      BY <3>2, <2>2
    <3> QED BY <3>4, <3>5, <2>3 DEF widened, val
  <2> QED BY <2>4, <2>5, <1>3
<1> QED BY <1>4, <1>5

\* A sound correction alone in its object is in the spec.
LEMMA SoundIsThere ==
  ASSUME NEW r, Corrects(r), sound(r), apart(r, enclosing(r.patch.at)),
         spec' = Outcome(spec, records)
  PROVE  lands(r)
<1> DEFINE C == Outcome(spec, records)
           L == Landed(spec, records)
           A == apply_to(spec, L)
           R == Revised(spec, records)
           v == verify_evidence(r)
           at == r.patch.at
<1>1. /\ v.patch = r.patch /\ HasPatch(v) /\ at \in Leaves /\ at \in DOMAIN spec.leaf
  <2>1. v.patch = r.patch /\ HasPatch(v) /\ v.patch.at \in Leaves
    BY CorrectionFacts, SoundIsTried
  <2> QED BY <2>1 DEF sound
<1>2. IsDoc(spec) /\ DocOK(spec) /\ records \in SUBSET Claims /\ IsFiniteSet(records)
  BY DEF Corrects, DocOK
<1>3. /\ C.leaf = R.leaf /\ DOMAIN R.leaf = DOMAIN A.leaf
      /\ \A p \in DOMAIN A.leaf : p # Bound => R.leaf[p] = A.leaf[p]
  BY <1>2, RevisedFacts
<1>4. Applicable(L) /\ L \subseteq Triable(spec, records) /\ \A q \in L : HasPatch(q)
  BY <1>2, LandedFacts DEF Applicable, Tried
<1>5. Sole(L, v)
  BY <1>4, SoundIsGrouped DEF Sole
<1>6. DOMAIN r.patch.value = {at} /\ ~is_append(at)
  BY <1>1, <1>2, AloneFacts, ExactReaches
<1>7. enclosing(at) = <<at[1]>>
  BY <1>1, LeafEnclosing
<1>8. spec'.leaf = R.leaf
  BY <1>3
<1>9. ASSUME at \in DOMAIN A.leaf, R.leaf[at] = r.patch.value[at]
      PROVE  lands(r)
  <2> HIDE DEF A, C, R, L, v
  <2>1. gives(r, DOMAIN r.patch.value)
    BY <1>3, <1>6, <1>8, <1>9 DEF gives
  <2> QED BY <2>1, <1>6 DEF lands
<1>10. CASE v \in L
  <2>1. at \in DOMAIN A.leaf /\ A.leaf[at] = r.patch.value[at]
    <3> HIDE DEF L
    <3> QED BY <1>1, <1>2, <1>4, <1>10, ApplyExact
  <2>2. CASE at # Bound
    BY <2>1, <2>2, <1>3, <1>9
  <2>3. CASE at = Bound
    <3>1. at[1] = "param"
      BY <2>3, Places
    <3>2. errors(alone(spec, v)) \subseteq errors(spec)
      BY <1>1 DEF sound, alone
    <3>3. settled(spec, A) = A
      <4> HIDE DEF L, v
      <4> QED BY <3>1, <3>2, <1>1, <1>2, <1>4, <1>5, <1>10, ParameterSound
    <3>4. R = A
      BY <3>3 DEF Revised
    <3> HIDE DEF A, R, L, v
    <3> QED BY <3>4, <2>1, <1>9
  <2> QED BY <2>2, <2>3
<1>11. CASE v \notin L
  <2>1. at = Total /\ r.patch.value[Total] = spec.leaf[Total]
    BY <1>1, <1>11, SoundLands
  <2>2. ASSUME NEW q \in L PROVE ~reaches(q, at)
    <3>1. SUFFICES ASSUME reaches(q, at) PROVE FALSE
      OBVIOUS
    <3> HIDE DEF v, L
    <3>2. overlaps(q.patch.at, enclosing(v.patch.at))
      BY <3>1, <1>1, <1>4, <1>7, ReachesObject
    <3> QED BY <3>2, <1>5, <1>11 DEF Sole
  <2>3. at \in DOMAIN A.leaf /\ A.leaf[at] = spec.leaf[at]
    <3> HIDE DEF L
    <3> QED BY <2>2, <1>1, <1>2, ApplyUnreached
  <2>4. at # Bound
    BY <2>1, Places
  <2> HIDE DEF A, C, R, L, v
  <2> QED BY <2>1, <2>3, <2>4, <1>3, <1>9
<1> QED BY <1>10, <1>11

\* Who is apart from an object is apart from its fields.
LEMMA ApartFromField ==
  ASSUME records \in SUBSET Claims, NEW r \in records, NEW p \in Leaves,
         apart(r, enclosing(p))
  PROVE  apart(r, p)
<1> SUFFICES ASSUME NEW q \in records \ {r}, q.patch # None, overlaps(q.patch.at, p)
             PROVE  FALSE
  BY DEF apart
<1>1. q \in Claims
  OBVIOUS
<1>2. q.patch.at \in Pointers /\ p \in Pointers
  BY <1>1, ClaimsAssumption, Places
<1>3. q.patch.at[1] = p[1]
  BY <1>2, OverlapHeads
<1>4. overlaps(q.patch.at, enclosing(p))
  BY <1>2, <1>3, HeadOverlaps, LeafEnclosing
<1> QED BY <1>4 DEF apart

\* A correction is in the spec an adopted round leaves, or is asked about.
LEMMA JudgeCorrects ==
  ASSUME ReviewInv, Judge, Adopts, NEW r \in records,
         r.verdict = "CONTRADICTED", r.quote = "verbatim", r.patch # None
  PROVE  lands_or_asked(r)
<1> DEFINE v == verify_evidence(r)
           T == Triable(spec, records)
           L == Landed(spec, records)
<1>1. Corrects(r)
  BY DEF Corrects, ReviewInv, RoundInv
<1>2. ~Rejected(spec, records)
  <2> DEFINE report == [units |-> units_of(retry), failed |-> failed,
                        accepted |-> ~round(spec, records).rejected]
  <2>1. rounds' = Append(rounds, report)
    BY DEF Judge
  <2>2. rounds \in Seq(Reports)
    BY DEF ReviewInv, RoundInv
  <2>3. report.accepted = ~Rejected(spec, records)
    BY RoundIs
  <2> HIDE DEF report
  <2>4. rounds'[Len(rounds')] = report
    BY <2>1, <2>2
  <2>5. report.accepted
    BY <2>4 DEF Adopts, Last
  <2> QED BY <2>3, <2>5
<1>3. spec' = Outcome(spec, records)
  BY <1>2, RoundIs DEF Judge
<1>4. refused_questions(verified(records), T, Standing(spec, records)) \subseteq questions'
  BY <1>2, RoundIs DEF Judge
<1>5. /\ v \in verified(records) /\ v.patch = r.patch /\ v.patch # None
      /\ v.verdict = "CONTRADICTED" /\ v.evidence_ok
      /\ HasPatch(v) /\ question(v) = question(r)
  BY <1>1, CorrectionFacts
<1> HIDE DEF v, T, L
<1>6. ASSUME apart(r, r.patch.at)
      PROVE  lands(r) \/ widened(r) \/ question(r) \in questions'
  <2>1. CASE v \notin Standing(spec, records)
    <3>1. question(v) \in refused_questions(verified(records), T, Standing(spec, records))
      BY <2>1, <1>5 DEF refused_questions, patches
    <3> QED BY <3>1, <1>4, <1>5
  <2>2. CASE v \in L
    BY <2>2, <1>1, <1>3, <1>6, LandedIsThere DEF v, L
  <2>3. CASE v \in twins(T)
    <3>1. v \in T /\ v \notin merged(T) /\ unanimous(v, T)
      BY <2>3 DEF twins
    <3>2. Tried(T) /\ T \subseteq verified(records)
      BY <1>1, LandedFacts DEF Corrects, T
    <3>3. PICK x \in merged(T) : x.patch.at = v.patch.at
      BY <3>1, <3>2, TwinFacts
    <3>4. x \in verified(records) /\ x.patch # None
      BY <3>2, MergedFacts DEF Tried, HasPatch
    <3>5. overlaps(x.patch.at, r.patch.at)
      <4>1. v.patch.at \in Pointers
        BY <1>5 DEF HasPatch
      <4> QED BY <4>1, <3>3, <1>5, OverlapsItself
    <3>6. x = v
      BY <3>4, <3>5, <1>6, <1>1, ApartIsSole DEF Corrects, v
    <3> QED BY <3>1, <3>6
  <2> QED BY <2>1, <2>2, <2>3 DEF Standing, L, T
<1>7. ASSUME sound(r), apart(r, enclosing(r.patch.at))
      PROVE  lands(r)
  BY <1>1, <1>3, <1>7, SoundIsThere
<1> QED BY <1>6, <1>7 DEF lands_or_asked

\* Whatever else the round brings, a correction with a verified quote is in the
\* spec afterwards or is an open question (CorrectionsLandOrAreAsked).
THEOREM CorrectionsSurvive == Spec => CorrectionsLandOrAreAsked
<1> DEFINE Survive == \A r \in records :
              r.verdict = "CONTRADICTED" /\ r.quote = "verbatim" /\ r.patch # None
                 => lands_or_asked(r)
<1>1. ReviewInv /\ [Next]_vars => [Adopts => Survive]_vars
  <2> SUFFICES ASSUME ReviewInv, [Next]_vars, Adopts PROVE Survive
    OBVIOUS
  <2>1. CASE Judge
    BY <2>1, JudgeCorrects
  <2>2. CASE UNCHANGED rounds
    <3>1. Len(rounds) \in Nat
      BY DEF ReviewInv, RoundInv
    <3> QED BY <2>2, <3>1 DEF Adopts
  <2>3. CASE \E u \in partition \cup {coverage} : Answers(u) \/ Fails(u)
    BY <2>2, <2>3 DEF Answers, Fails
  <2> QED BY <2>1, <2>2, <2>3 DEF Next, vars
<1> QED BY <1>1, ReviewInvariant, PTL DEF Spec, CorrectionsLandOrAreAsked

=============================================================================
