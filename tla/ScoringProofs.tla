---------------------------- MODULE ScoringProofs ----------------------------
(***************************************************************************)
(* The properties ScoringSpec.tla states, for every set of Rules and every *)
(* bound on timestamps.                                                    *)
(***************************************************************************)
EXTENDS ScoringSpec, ScoreLemmas, Loops, FiniteSetTheorems

-----------------------------------------------------------------------------
(* The states of ScoringSpec.                                              *)

\* A further hit never lowers the score (ScoringSpec.tla), whatever the Rules.
THEOREM HitsNeverLowerScore == Spec => ScoreNeverDrops
<1>1. [Next]_hits => [Total(DOMAIN hits') >= Total(DOMAIN hits)]_hits
  <2> SUFFICES ASSUME Next PROVE Total(DOMAIN hits') >= Total(DOMAIN hits)
    OBVIOUS
  <2>1. DOMAIN hits \subseteq DOMAIN hits'
    BY DEF Next, Hit
  <2>2. Total(DOMAIN hits) <= Total(DOMAIN hits')
    BY <2>1, ScoreMonotone
  <2>3. Total(DOMAIN hits) \in 0..100 /\ Total(DOMAIN hits') \in 0..100
    BY ScoreBounds
  <2>4. QED
    BY <2>2, <2>3
<1>2. QED
  BY <1>1, PTL DEF Spec, ScoreNeverDrops

\* Only rules are ever among the hits.
LEMMA HitsAreRules == Spec => [](DOMAIN hits \subseteq RuleId)
<1>1. Init => DOMAIN hits \subseteq RuleId
  BY DEF Init
<1>2. DOMAIN hits \subseteq RuleId /\ [Next]_hits => (DOMAIN hits \subseteq RuleId)'
  BY MCAssumption DEF Next, Hit
<1>3. QED
  BY <1>1, <1>2, PTL DEF Spec

\* A set of rules scores 0 exactly when it holds gated rules only.
LEMMA ZeroScore ==
  ASSUME NEW fired, fired \subseteq RuleId
  PROVE  Total(fired) = 0 <=> fired \subseteq {"C1", "N3"}
<1> DEFINE c == Counted(fired)
<1>1. Total(fired) = ProcessScore(c) + FileScore(c) + NetworkScore(c) + ContextScore(c)
  BY DEF Total
<1>2. c \subseteq RuleId
  BY DEF Counted
<1>3. c = {} <=> fired \subseteq {"C1", "N3"}
  <2> DEFINE ungated == {r \in fired : /\ r # "C1"
                                       /\ r = "N3" => fired \cap {"N1", "N2"} # {}}
  <2>1. c = {} <=> ungated = {}
    BY DEF Counted
  <2>2. ungated = {} <=> fired \subseteq {"C1", "N3"}
    OBVIOUS
  <2>3. QED
    BY <2>1, <2>2
<1> HIDE DEF c
<1>4. Total(fired) = 0 <=> /\ ProcessScore(c) = 0 /\ FileScore(c) = 0
                           /\ NetworkScore(c) = 0 /\ ContextScore(c) = 0
  <2>1. /\ ProcessScore(c) \in Nat /\ FileScore(c) \in Nat
        /\ NetworkScore(c) \in Nat /\ ContextScore(c) \in Nat
    BY ProcessScoreFacts, FileScoreFacts, NetworkScoreFacts, ContextScoreFacts
  <2>2. QED
    BY <1>1, <2>1
<1>5. Total(fired) = 0 <=> c = {}
  BY <1>2, <1>4, ProcessScoreFacts, FileScoreFacts, NetworkScoreFacts, ContextScoreFacts
     DEF RuleId
<1>6. QED
  BY <1>3, <1>5

\* A chain scores 0 exactly while nothing but the gated rules fired.
THEOREM CleanScoresZero == Spec => []OnlyGatedScoresZero
<1>1. DOMAIN hits \subseteq RuleId => OnlyGatedScoresZero
  BY ZeroScore DEF OnlyGatedScoresZero
<1>2. QED
  BY <1>1, HitsAreRules, PTL

-----------------------------------------------------------------------------
(* Breadth: how many components a band takes.                              *)

\* The four components are four sets.
LEMMA ComponentsDiffer ==
  /\ ProcessRules # FileRules /\ ProcessRules # NetworkRules /\ ProcessRules # ContextRules
  /\ FileRules # NetworkRules /\ FileRules # ContextRules /\ NetworkRules # ContextRules
<1>1. "P1" \in ProcessRules /\ "P1" \notin FileRules \cup NetworkRules \cup ContextRules
  BY DEF ProcessRules, FileRules, NetworkRules, ContextRules
<1>2. "F1" \in FileRules /\ "F1" \notin NetworkRules \cup ContextRules
  BY DEF FileRules, NetworkRules, ContextRules
<1>3. "N1" \in NetworkRules /\ "N1" \notin ContextRules
  BY DEF NetworkRules, ContextRules
<1>4. QED
  BY <1>1, <1>2, <1>3

\* A set with two distinct members has more than one.
LEMMA AtLeastTwo ==
  ASSUME NEW S, IsFiniteSet(S), NEW a \in S, NEW b \in S, a # b
  PROVE  Cardinality(S) \in Nat /\ Cardinality(S) > 1
<1>1. IsFiniteSet(S \ {a}) /\ Cardinality(S \ {a}) = Cardinality(S) - 1
  BY FS_RemoveElement
<1>2. Cardinality(S \ {a}) \in Nat /\ Cardinality(S) \in Nat
  BY <1>1, FS_CardinalityType
<1>3. Cardinality(S \ {a}) # 0
  BY <1>1, FS_EmptySet
<1>4. QED
  BY <1>1, <1>2, <1>3

\* A set with three distinct members has more than two.
LEMMA AtLeastThree ==
  ASSUME NEW S, IsFiniteSet(S), NEW a \in S, NEW b \in S, NEW c \in S,
         a # b, a # c, b # c
  PROVE  Cardinality(S) \in Nat /\ Cardinality(S) > 2
<1>1. IsFiniteSet(S \ {a}) /\ Cardinality(S \ {a}) = Cardinality(S) - 1
  BY FS_RemoveElement
<1>2. Cardinality(S \ {a}) \in Nat /\ Cardinality(S \ {a}) > 1
  BY <1>1, AtLeastTwo
<1>3. Cardinality(S) \in Nat
  BY FS_CardinalityType
<1>4. QED
  BY <1>1, <1>2, <1>3

\* A set with four distinct members has more than three.
LEMMA AtLeastFour ==
  ASSUME NEW S, IsFiniteSet(S), NEW a \in S, NEW b \in S, NEW c \in S, NEW d \in S,
         a # b, a # c, a # d, b # c, b # d, c # d
  PROVE  Cardinality(S) \in Nat /\ Cardinality(S) > 3
<1>1. IsFiniteSet(S \ {a}) /\ Cardinality(S \ {a}) = Cardinality(S) - 1
  BY FS_RemoveElement
<1>2. Cardinality(S \ {a}) \in Nat /\ Cardinality(S \ {a}) > 2
  BY <1>1, AtLeastThree
<1>3. Cardinality(S) \in Nat
  BY FS_CardinalityType
<1>4. QED
  BY <1>1, <1>2, <1>3

\* Medium takes counted hits of two components, High of three, Critical of all.
THEOREM BandsTakeBreadth == Spec => []BandsNeedBreadth
<1> DEFINE c       == Counted(DOMAIN hits)
           all     == {ProcessRules, FileRules, NetworkRules, ContextRules}
           scoring == {S \in all : S \cap c # {}}
           p == ProcessScore(c)
           f == FileScore(c)
           n == NetworkScore(c)
           x == ContextScore(c)
<1>1. IsFiniteSet(scoring)
  <2>1. IsFiniteSet(all)
    <3>1. IsFiniteSet({} \cup {ProcessRules})
      BY FS_EmptySet, FS_AddElement
    <3>2. IsFiniteSet({} \cup {ProcessRules} \cup {FileRules})
      BY <3>1, FS_AddElement
    <3>3. IsFiniteSet({} \cup {ProcessRules} \cup {FileRules} \cup {NetworkRules})
      BY <3>2, FS_AddElement
    <3>4. IsFiniteSet({} \cup {ProcessRules} \cup {FileRules} \cup {NetworkRules} \cup {ContextRules})
      BY <3>3, FS_AddElement
    <3>5. all = {} \cup {ProcessRules} \cup {FileRules} \cup {NetworkRules} \cup {ContextRules}
      OBVIOUS
    <3>6. QED
      BY <3>4, <3>5
  <2>2. QED
    BY <2>1, FS_Subset
<1>2. /\ p \in 0..30 /\ f \in 0..25 /\ n \in 0..25 /\ x \in 0..20
      /\ p # 0 => ProcessRules \in scoring
      /\ f # 0 => FileRules \in scoring
      /\ n # 0 => NetworkRules \in scoring
      /\ x # 0 => ContextRules \in scoring
  BY ProcessScoreFacts, FileScoreFacts, NetworkScoreFacts, ContextScoreFacts
<1>3. Total(DOMAIN hits) = p + f + n + x
  BY DEF Total
<1> HIDE DEF p, f, n, x
<1>4. Total(DOMAIN hits) \in Nat
  BY ScoreBounds
<1>5. Total(DOMAIN hits) > 30 => Cardinality(scoring) \in Nat /\ Cardinality(scoring) > 1
  <2>1. Total(DOMAIN hits) > 30 => \/ p # 0 /\ (f # 0 \/ n # 0 \/ x # 0)
                                   \/ f # 0 /\ (n # 0 \/ x # 0)
                                   \/ n # 0 /\ x # 0
    BY <1>2, <1>3
  <2>2. QED
    BY <1>1, <1>2, <2>1, AtLeastTwo, ComponentsDiffer
<1>6. Total(DOMAIN hits) > 60 => Cardinality(scoring) \in Nat /\ Cardinality(scoring) > 2
  <2>1. Total(DOMAIN hits) > 60 => \/ p # 0 /\ f # 0 /\ (n # 0 \/ x # 0)
                                   \/ p # 0 /\ n # 0 /\ x # 0
                                   \/ f # 0 /\ n # 0 /\ x # 0
    BY <1>2, <1>3
  <2>2. QED
    BY <1>1, <1>2, <2>1, AtLeastThree, ComponentsDiffer
<1>7. Total(DOMAIN hits) > 80 => Cardinality(scoring) \in Nat /\ Cardinality(scoring) > 3
  <2>1. Total(DOMAIN hits) > 80 => p # 0 /\ f # 0 /\ n # 0 /\ x # 0
    BY <1>2, <1>3
  <2>2. QED
    BY <1>1, <1>2, <2>1, AtLeastFour, ComponentsDiffer
<1>8. Band(DOMAIN hits) # Low => Cardinality(scoring) > Band(DOMAIN hits)
  <2>1. /\ Total(DOMAIN hits) <= 30 => Band(DOMAIN hits) = 0
        /\ Total(DOMAIN hits) \in 31..60 => Band(DOMAIN hits) = 1
        /\ Total(DOMAIN hits) \in 61..80 => Band(DOMAIN hits) = 2
        /\ Total(DOMAIN hits) > 80 => Band(DOMAIN hits) = 3
    BY <1>4, SeverityOfFacts DEF Band
  <2>2. \/ Total(DOMAIN hits) <= 30 \/ Total(DOMAIN hits) \in 31..60
        \/ Total(DOMAIN hits) \in 61..80 \/ Total(DOMAIN hits) > 80
    BY <1>4
  <2>3. QED
    BY <1>4, <1>5, <1>6, <1>7, <2>1, <2>2 DEF Low
<1>9. BandsNeedBreadth
  BY <1>8 DEF BandsNeedBreadth
<1>10. QED
  BY <1>9, PTL

-----------------------------------------------------------------------------
(* The loop over the tactics: the longest rising runs of a sequence.       *)

\* The values at the positions I rise.
RisesAt(seq, I) == \A i, k \in I : i < k => seq[i] < seq[k]

\* A longest rising run among those that end at position j.
RunFine(seq, j, run) ==
  /\ run \in Seq(Nat) /\ Len(run) \in 1..j /\ run[Len(run)] = seq[j]
  /\ \A i \in 1..(Len(run) - 1) : run[i] < run[i + 1]
  /\ \E I \in SUBSET (1..j) : /\ j \in I /\ RisesAt(seq, I)
                              /\ ToSet(run) = {seq[i] : i \in I}
  /\ \A I \in SUBSET (1..j) : j \in I /\ RisesAt(seq, I) => Cardinality(I) <= Len(run)

RunsFine(seq, runs) ==
  /\ runs \in Seq(Seq(Nat)) /\ Len(runs) <= Len(seq)
  /\ \A j \in 1..Len(runs) : RunFine(seq, j, runs[j])

\* Of the largest values of len the first, and the last.
LEMMA LargestOf ==
  ASSUME NEW n \in Nat, NEW D \in SUBSET (1..n), D # {}, NEW len \in [D -> 0..n]
  PROVE  /\ \E j \in D : \A k \in D : len[k] < len[j] \/ (len[k] = len[j] /\ j <= k)
         /\ \E j \in D : \A k \in D : len[k] < len[j] \/ (len[k] = len[j] /\ k <= j)
<1> DEFINE S == {len[j] : j \in D}
<1>1. S \in SUBSET (0..n) /\ S # {}
  OBVIOUS
<1> HIDE DEF S
<1>2. PICK most \in S : \A m \in S : m <= most
  BY <1>1, Greatest
<1> DEFINE E == {j \in D : len[j] = most}
<1>3. E \in SUBSET (0..n) /\ E \in SUBSET Nat /\ E # {}
  <2>1. \A j \in D : j \in 0..n /\ j \in Nat
    OBVIOUS
  <2>2. PICK j \in D : len[j] = most
    BY DEF S
  <2>3. QED
    BY <2>1, <2>2
<1>4. \A k \in D : len[k] <= most /\ len[k] \in Nat /\ most \in Nat
  BY <1>1, <1>2 DEF S
<1>5. \A k \in D : k \in E \/ len[k] < most
  BY <1>4
<1> HIDE DEF E
<1>6. PICK a \in E : \A k \in E : a <= k
  BY <1>3, Least
<1>7. PICK z \in E : \A k \in E : k <= z
  BY <1>3, Greatest
<1>8. \A k \in E : k \in D /\ len[k] = most
  BY DEF E
<1>9. QED
  BY <1>5, <1>6, <1>7, <1>8

\* Extend appends a longest rising run that ends at the next position.
LEMMA ExtendFine ==
  ASSUME NEW seq \in Seq(Nat), NEW runs, RunsFine(seq, runs), Len(runs) < Len(seq),
         NEW n, n = Len(runs) + 1
  PROVE  RunFine(seq, n, Extend(runs, seq[n]))
<1> DEFINE t     == seq[n]
           below == {j \in DOMAIN runs : Last(runs[j]) < t}
           best  == CHOOSE j \in below : \A k \in below :
                      \/ Len(runs[k]) < Len(runs[j])
                      \/ Len(runs[k]) = Len(runs[j]) /\ j <= k
           longer == Append(runs[best], t)
<1>1. /\ Len(runs) \in Nat /\ n \in Nat /\ n = Len(runs) + 1 /\ DOMAIN runs = 1..Len(runs)
      /\ n \in 1..Len(seq) /\ t \in Nat /\ \A j \in 1..n : seq[j] \in Nat
  BY DEF RunsFine
<1>2. \A j \in DOMAIN runs : RunFine(seq, j, runs[j]) /\ j \in 1..n /\ j < n
  BY <1>1 DEF RunsFine
<1>3. below = {j \in DOMAIN runs : seq[j] < t}
  BY <1>2 DEF Last, RunFine
<1>4. ASSUME NEW I \in SUBSET (1..n), n \in I, RisesAt(seq, I)
      PROVE  I \ {n} \subseteq below
  <2> SUFFICES ASSUME NEW i \in I, i # n  PROVE i \in below
    OBVIOUS
  <2>1. i \in 1..n /\ i < n /\ i \in 1..Len(runs)
    BY <1>1
  <2>2. seq[i] < t
    BY <1>4, <2>1 DEF RisesAt
  <2>3. QED
    BY <1>1, <1>3, <2>1, <2>2
<1>5. Extend(runs, t) = IF below = {} THEN <<t>> ELSE longer
  BY DEF Extend
<1> HIDE DEF below, t
<1>6. CASE below = {}
  <2>1. PICK run : run = <<t>>
    OBVIOUS
  <2>2. run \in Seq(Nat) /\ Len(run) = 1 /\ run[1] = t /\ ToSet(run) = {t}
    BY <1>1, <2>1 DEF ToSet
  <2>3. RisesAt(seq, {n}) /\ {n} \in SUBSET (1..n) /\ {seq[i] : i \in {n}} = {t}
    BY <1>1 DEF RisesAt, t
  <2>4. ASSUME NEW I \in SUBSET (1..n), n \in I, RisesAt(seq, I)
        PROVE  Cardinality(I) <= 1
    <3>1. I = {n}
      BY <1>4, <1>6, <2>4
    <3>2. Cardinality({n}) = 1
      BY FS_Singleton
    <3>3. QED
      BY <3>1, <3>2
  <2>5. RunFine(seq, n, run)
    <3>1. Len(run) \in 1..n /\ run[Len(run)] = seq[n] /\ 1..(Len(run) - 1) = {}
      BY <1>1, <2>2 DEF t
    <3>2. \E I \in SUBSET (1..n) : n \in I /\ RisesAt(seq, I) /\ ToSet(run) = {seq[i] : i \in I}
      BY <2>2, <2>3
    <3>3. \A I \in SUBSET (1..n) : n \in I /\ RisesAt(seq, I) => Cardinality(I) <= Len(run)
      BY <2>2, <2>4
    <3>4. QED
      BY <2>2, <3>1, <3>2, <3>3 DEF RunFine
  <2>6. QED
    BY <1>5, <1>6, <2>1, <2>5 DEF t
<1>7. CASE below # {}
  <2>1. PICK len : len = [j \in below |-> Len(runs[j])]
    OBVIOUS
  <2>2. len \in [below -> 0..n] /\ below \in SUBSET (1..n)
    <3>1. \A j \in below : j \in DOMAIN runs /\ Len(runs[j]) \in 1..j
      BY <1>2, <1>3 DEF RunFine
    <3>2. \A j \in below : Len(runs[j]) \in 0..n /\ j \in 1..n
      BY <1>1, <1>2, <3>1
    <3>3. QED
      BY <2>1, <3>2
  <2>3. \E j \in below : \A k \in below : len[k] < len[j] \/ (len[k] = len[j] /\ j <= k)
    BY <1>1, <1>7, <2>2, LargestOf
  <2>4. best \in below /\ \A k \in below : \/ Len(runs[k]) < Len(runs[best])
                                           \/ Len(runs[k]) = Len(runs[best]) /\ best <= k
    BY <2>1, <2>3
  <2> HIDE DEF best
  <2>5. PICK run : run = runs[best]
    OBVIOUS
  <2>6. RunFine(seq, best, run) /\ best \in 1..n /\ best < n /\ seq[best] < t
    BY <1>2, <1>3, <2>4, <2>5
  <2>7. PICK J \in SUBSET (1..best) : /\ best \in J /\ RisesAt(seq, J)
                                      /\ ToSet(run) = {seq[i] : i \in J}
    BY <2>6 DEF RunFine
  <2>8. /\ run \in Seq(Nat) /\ Len(run) \in 1..best /\ run[Len(run)] = seq[best]
        /\ \A i \in 1..(Len(run) - 1) : run[i] < run[i + 1]
    BY <2>6 DEF RunFine
  <2>9. longer = Append(run, t)
    BY <2>5
  <2> HIDE DEF longer
  <2>10. /\ longer \in Seq(Nat) /\ Len(longer) = Len(run) + 1 /\ longer[Len(run) + 1] = t
         /\ \A i \in 1..Len(run) : longer[i] = run[i]
         /\ DOMAIN longer = 1..(Len(run) + 1) /\ DOMAIN run = 1..Len(run) /\ Len(run) \in Nat
    BY <1>1, <2>8, <2>9
  <2>11. Len(longer) \in 1..n
    BY <1>1, <2>6, <2>8, <2>10
  <2>12. ASSUME NEW i \in 1..(Len(longer) - 1)  PROVE longer[i] < longer[i + 1]
    <3>1. i \in 1..Len(run)
      BY <2>10
    <3>2. CASE i = Len(run)
      BY <2>6, <2>8, <2>10, <3>1, <3>2
    <3>3. CASE i # Len(run)
      <4>1. i \in 1..(Len(run) - 1) /\ i + 1 \in 1..Len(run)
        <5>1. PICK l \in Nat : l = Len(run)
          BY <2>10
        <5>2. i \in 1..l /\ i # l => i \in 1..(l - 1) /\ i + 1 \in 1..l
          OBVIOUS
        <5>3. QED
          BY <3>1, <3>3, <5>1, <5>2
      <4>2. QED
        BY <2>8, <2>10, <3>1, <4>1
    <3>4. QED
      BY <3>2, <3>3
  <2>13. ToSet(longer) = ToSet(run) \cup {t}
    <3>1. \A i \in DOMAIN longer : i \in DOMAIN run \/ i = Len(run) + 1
      BY <2>10
    <3>2. \A i \in DOMAIN run : i \in DOMAIN longer /\ longer[i] = run[i]
      BY <2>10
    <3>3. Len(run) + 1 \in DOMAIN longer
      BY <2>10
    <3>4. QED
      BY <2>10, <3>1, <3>2, <3>3 DEF ToSet
  <2>14. /\ J \cup {n} \in SUBSET (1..n) /\ n \in J \cup {n} /\ RisesAt(seq, J \cup {n})
         /\ ToSet(longer) = {seq[i] : i \in J \cup {n}}
    <3>1. J \cup {n} \in SUBSET (1..n)
      <4>1. \A i \in 1..best : i \in 1..n
        BY <1>1, <2>6
      <4>2. n \in 1..n
        BY <1>1
      <4>3. QED
        BY <2>7, <4>1, <4>2
    <3>2. \A i \in J : i <= best /\ i \in Nat /\ seq[i] \in Nat
      BY <1>1, <2>6, <2>7
    <3>3. \A i \in J : seq[i] < t
      <4>1. \A i \in J : i = best \/ seq[i] < seq[best]
        BY <2>6, <2>7, <3>2 DEF RisesAt
      <4>2. seq[best] \in Nat /\ t \in Nat
        BY <1>1, <2>6
      <4>3. QED
        BY <2>6, <3>2, <4>1, <4>2
    <3>4. RisesAt(seq, J \cup {n})
      <4> SUFFICES ASSUME NEW i \in J \cup {n}, NEW k \in J \cup {n}, i < k
                   PROVE  seq[i] < seq[k]
        BY DEF RisesAt
      <4>1. i \in J
        BY <1>1, <2>6, <3>2
      <4>2. CASE k \in J
        BY <2>7, <4>1, <4>2 DEF RisesAt
      <4>3. CASE k = n
        BY <3>3, <4>1, <4>3 DEF t
      <4>4. QED
        BY <4>2, <4>3
    <3>5. ToSet(longer) = {seq[i] : i \in J \cup {n}}
      BY <2>7, <2>13 DEF t
    <3>6. QED
      BY <3>1, <3>4, <3>5
  <2>15. ASSUME NEW I \in SUBSET (1..n), n \in I, RisesAt(seq, I)
         PROVE  Cardinality(I) <= Len(longer)
    <3>1. PICK K : K = I \ {n}
      OBVIOUS
    <3>2. K \subseteq below /\ I = K \cup {n} /\ n \notin K /\ RisesAt(seq, K)
      BY <1>4, <2>15, <3>1 DEF RisesAt
    <3>3. IsFiniteSet(K) /\ Cardinality(K) \in Nat /\ Cardinality(I) = Cardinality(K) + 1
      <4>0. n \in Int /\ 1 \in Int
        BY <1>1
      <4>1. IsFiniteSet(1..n) /\ K \in SUBSET (1..n)
        <5>1. IsFiniteSet(1..n)
          BY <4>0, FS_Interval
        <5>2. K \in SUBSET (1..n)
          BY <3>1
        <5>3. QED
          BY <5>1, <5>2
      <4>2. IsFiniteSet(K)
        BY <4>1, FS_Subset
      <4>3. QED
        BY <3>2, <4>2, FS_AddElement, FS_CardinalityType
    <3>4. CASE K = {}
      <4>1. Cardinality(K) = 0
        BY <3>4, FS_EmptySet
      <4>2. QED
        BY <2>10, <3>3, <4>1
    <3>5. CASE K # {}
      <4>1. K \in SUBSET (0..n)
        <5>1. \A i \in 1..n : i \in 0..n
          OBVIOUS
        <5>2. QED
          BY <3>1, <5>1
      <4>2. PICK k \in K : \A i \in K : i <= k
        BY <1>1, <3>5, <4>1, Greatest
      <4>3. K \in SUBSET (1..k) /\ k \in DOMAIN runs /\ k \in below
        BY <1>1, <1>3, <3>1, <3>2, <4>2
      <4>4. Cardinality(K) <= Len(runs[k]) /\ Len(runs[k]) \in Nat
        BY <1>2, <3>2, <4>2, <4>3 DEF RunFine
      <4>5. Len(runs[k]) <= Len(run)
        <5>1. Len(runs[k]) < Len(runs[best]) \/ Len(runs[k]) = Len(runs[best])
          BY <2>4, <4>3
        <5>2. Len(runs[best]) = Len(run) /\ Len(run) \in Nat
          BY <2>5, <2>10
        <5>3. QED
          BY <4>4, <5>1, <5>2
      <4>6. QED
        BY <2>10, <3>3, <4>4, <4>5
    <3>6. QED
      BY <3>4, <3>5
  <2>16. RunFine(seq, n, longer)
    <3>1. longer[Len(longer)] = seq[n]
      BY <2>10 DEF t
    <3>2. QED
      BY <2>10, <2>11, <2>12, <2>14, <2>15, <3>1 DEF RunFine
  <2>17. QED
    BY <1>5, <1>7, <2>16 DEF t
<1>8. QED
  BY <1>6, <1>7

\* With keeps the runs longest rising runs, one position further.
LEMMA WithFine ==
  ASSUME NEW seq \in Seq(Nat), NEW runs, RunsFine(seq, runs), Len(runs) < Len(seq)
  PROVE  /\ RunsFine(seq, With(runs, seq[Len(runs) + 1]))
         /\ Len(With(runs, seq[Len(runs) + 1])) = Len(runs) + 1
<1>1. PICK n : n = Len(runs) + 1
  OBVIOUS
<1>2. PICK run : run = Extend(runs, seq[n])
  OBVIOUS
<1>3. PICK more : more = With(runs, seq[n])
  OBVIOUS
<1>4. RunFine(seq, n, run) /\ run \in Seq(Nat)
  <2>1. RunFine(seq, n, run)
    BY <1>1, <1>2, ExtendFine
  <2>2. QED
    BY <2>1 DEF RunFine
<1>5. runs \in Seq(Seq(Nat)) /\ more = Append(runs, run)
  BY <1>2, <1>3 DEF RunsFine, With
<1>6. /\ more \in Seq(Seq(Nat)) /\ Len(more) = n /\ n \in Nat /\ more[n] = run
      /\ \A j \in 1..n : j # n => j \in 1..Len(runs) /\ more[j] = runs[j]
  BY <1>1, <1>4, <1>5
<1>7. \A j \in 1..n : RunFine(seq, j, more[j])
  BY <1>4, <1>6 DEF RunsFine
<1>8. n <= Len(seq)
  BY <1>1, <1>5
<1>9. QED
  BY <1>1, <1>3, <1>6, <1>7, <1>8 DEF RunsFine

\* RisingRuns finds, for every position, a longest rising run that ends there.
LEMMA RisingRunsFine ==
  ASSUME NEW seq \in Seq(Nat)
  PROVE  RunsFine(seq, RisingRuns(seq)) /\ Len(RisingRuns(seq)) = Len(seq)
<1> DEFINE N == Len(seq)
           S == {s \in Seq(Seq(Nat)) : RunsFine(seq, s)}
           step == [s \in S \X (1..N) |->
                      IF Len(s[1]) = s[2] - 1 THEN With(s[1], seq[s[2]]) ELSE <<>>]
           Is(f) == f = [n \in 0..N |-> IF n = 0 THEN <<>> ELSE With(f[n - 1], seq[n])]
           upto == CHOOSE f : Is(f)
           At(n) == {s \in S : Len(s) = n}
<1>1. N \in Nat /\ <<>> \in S /\ Len(<<>>) = 0
  BY DEF RunsFine
<1>2. ASSUME NEW n \in 1..N, NEW s \in S, Len(s) = n - 1
      PROVE  With(s, seq[n]) \in S /\ Len(With(s, seq[n])) = n
  <2>1. n = Len(s) + 1 /\ Len(s) < Len(seq) /\ Len(s) \in Nat
    BY <1>2
  <2>2. RunsFine(seq, With(s, seq[n])) /\ Len(With(s, seq[n])) = n
    BY <2>1, WithFine
  <2>3. QED
    BY <2>2 DEF RunsFine
<1> HIDE DEF S, N
<1>3. step \in [S \X (1..N) -> S]
  BY <1>1, <1>2
<1>4. PICK g \in [0..N -> S] : Runs(g, <<>>, step, N)
  <2> HIDE DEF step
  <2>1. QED
    BY <1>1, <1>3, LoopExists
<1>5. ASSUME NEW f, f[0] = <<>>, \A n \in 1..N : f[n - 1] \in S /\ Len(f[n - 1]) = n - 1 =>
                                               f[n] = With(f[n - 1], seq[n])
      PROVE  \A n \in 0..N : f[n] \in S /\ Len(f[n]) = n
  <2> DEFINE pairs == [n \in 0..N |-> <<n, f[n]>>]
             T == {p \in (0..N) \X S : Len(p[2]) = p[1]}
  <2>1. pairs[0] \in T
    BY <1>1, <1>5
  <2>2. ASSUME NEW n \in 1..N, pairs[n - 1] \in T  PROVE pairs[n] \in T
    <3>1. n \in 0..N /\ n - 1 \in 0..N
      BY <1>1
    <3>2. f[n - 1] \in S /\ Len(f[n - 1]) = n - 1
      BY <2>2, <3>1
    <3>3. f[n] \in S /\ Len(f[n]) = n
      BY <1>2, <1>5, <3>2
    <3>4. QED
      BY <3>1, <3>3
  <2>3. \A n \in 0..N : pairs[n] \in T
    <3> HIDE DEF pairs, T
    <3>1. QED
      BY <1>1, <2>1, <2>2, LoopStays
  <2>4. QED
    BY <2>3
<1>6. \A n \in 1..N : g[n - 1] \in S /\ Len(g[n - 1]) = n - 1 => g[n] = With(g[n - 1], seq[n])
  <2> SUFFICES ASSUME NEW n \in 1..N, g[n - 1] \in S, Len(g[n - 1]) = n - 1
               PROVE  g[n] = With(g[n - 1], seq[n])
    OBVIOUS
  <2>1. g[n] = step[<<g[n - 1], n>>]
    BY <1>4 DEF Runs
  <2>2. step[<<g[n - 1], n>>] = With(g[n - 1], seq[n])
    OBVIOUS
  <2>3. QED
    BY <2>1, <2>2
<1>7. \A n \in 0..N : g[n] \in S /\ Len(g[n]) = n
  <2>1. g[0] = <<>>
    BY <1>4 DEF Runs
  <2> HIDE DEF step
  <2>2. QED
    BY <1>5, <1>6, <2>1
<1>8. Is(g)
  <2>1. \A n \in 0..N : n # 0 => n \in 1..N /\ n - 1 \in 0..N
    BY <1>1
  <2>2. \A n \in 0..N : n # 0 => g[n] = With(g[n - 1], seq[n])
    BY <1>6, <1>7, <2>1
  <2>3. g = [n \in 0..N |-> g[n]] /\ g[0] = <<>>
    BY <1>4 DEF Runs
  <2> HIDE DEF step
  <2>4. QED
    BY <2>2, <2>3
<1>9. Is(upto)
  <2> HIDE DEF Is
  <2>1. QED
    BY <1>8, Zenon
<1>10. RisingRuns(seq) = upto[N]
  BY DEF RisingRuns, N
<1> HIDE DEF upto, step
<1>11. upto[0] = <<>> /\ \A n \in 1..N : upto[n] = With(upto[n - 1], seq[n])
  BY <1>1, <1>9
<1>12. upto[N] \in S /\ Len(upto[N]) = N
  BY <1>1, <1>5, <1>11
<1>13. QED
  BY <1>10, <1>12 DEF S, N
-----------------------------------------------------------------------------
(* The tactics in the order they were first seen.                          *)

\* Sighting q comes before p in that order.
Precedes(q, p)   == q[1] < p[1] \/ (q[1] = p[1] /\ q[2] < p[2])
Sooner(first, p) == {q \in first : Precedes(q, p)}

\* A finite set of sightings, no two of one tactic.
Sightings(first) == /\ first \in SUBSET (Nat \X Nat) /\ IsFiniteSet(first)
                    /\ \A p, q \in first : p[2] = q[2] => p = q

\* at lists the sightings as InOrderSeen does.
ListedBy(first, at) ==
  /\ at \in [1..Cardinality(first) -> first]
  /\ InOrderSeen(first) = [i \in 1..Cardinality(first) |-> at[i][2]]
  /\ \A p \in first : \E i \in 1..Cardinality(first) : at[i] = p
  /\ \A i, k \in 1..Cardinality(first) : i < k => Precedes(at[i], at[k])

\* How many sightings come sooner tells two sightings apart.
LEMMA SoonerCounts ==
  ASSUME NEW first, Sightings(first)
  PROVE  /\ \A p \in first : Cardinality(Sooner(first, p)) \in 0..(Cardinality(first) - 1)
         /\ \A p, q \in first : Precedes(p, q) =>
               Cardinality(Sooner(first, p)) < Cardinality(Sooner(first, q))
<1>1. \A p \in first : p[1] \in Nat /\ p[2] \in Nat
  BY DEF Sightings
<1>2. ASSUME NEW S \in SUBSET first, NEW T \in SUBSET S, NEW p \in S, p \notin T
      PROVE  Cardinality(T) < Cardinality(S) /\ Cardinality(T) \in Nat /\ Cardinality(S) \in Nat
  <2>1. IsFiniteSet(S)
    BY FS_Subset DEF Sightings
  <2>2. IsFiniteSet(T) /\ Cardinality(T) <= Cardinality(S) /\ Cardinality(S) # Cardinality(T)
    BY <1>2, <2>1, FS_Subset
  <2>3. Cardinality(T) \in Nat /\ Cardinality(S) \in Nat
    BY <2>1, <2>2, FS_CardinalityType
  <2>4. QED
    BY <2>2, <2>3
<1>3. \A p \in first : Sooner(first, p) \in SUBSET first /\ p \notin Sooner(first, p)
  BY <1>1 DEF Sooner, Precedes
<1>4. ASSUME NEW p \in first
      PROVE  Cardinality(Sooner(first, p)) \in 0..(Cardinality(first) - 1)
  <2>1. PICK S : S = Sooner(first, p)
    OBVIOUS
  <2>2. S \in SUBSET first /\ p \notin S /\ first \in SUBSET first
    BY <1>3, <2>1
  <2>3. Cardinality(S) < Cardinality(first) /\ Cardinality(S) \in Nat /\ Cardinality(first) \in Nat
    BY <1>2, <2>2
  <2>4. QED
    BY <2>1, <2>3
<1>5. ASSUME NEW p \in first, NEW q \in first, Precedes(p, q)
      PROVE  Cardinality(Sooner(first, p)) < Cardinality(Sooner(first, q))
  <2>1. p \in Sooner(first, q)
    BY <1>5 DEF Sooner
  <2>2. ASSUME NEW r \in Sooner(first, p)  PROVE r \in Sooner(first, q)
    <3>1. r \in first /\ Precedes(r, p)
      BY <2>2 DEF Sooner
    <3>2. Precedes(r, q)
      BY <1>1, <1>5, <3>1 DEF Precedes
    <3>3. QED
      BY <3>1, <3>2 DEF Sooner
  <2>3. PICK S, T : S = Sooner(first, q) /\ T = Sooner(first, p)
    OBVIOUS
  <2>4. S \in SUBSET first /\ T \in SUBSET S /\ p \in S /\ p \notin T
    BY <1>3, <2>1, <2>2, <2>3
  <2>5. Cardinality(T) < Cardinality(S)
    BY <1>2, <2>4
  <2>6. QED
    BY <2>3, <2>5
<1>6. QED
  BY <1>4, <1>5

\* InOrderSeen lists every sighting once, in order.
LEMMA EachListedInOrder ==
  ASSUME NEW first, Sightings(first)
  PROVE  \E at : ListedBy(first, at)
<1> DEFINE n == Cardinality(first)
           Rank(p) == Cardinality(Sooner(first, p))
           rank == [p \in first |-> Rank(p)]
           at == [i \in 1..n |-> CHOOSE p \in first : Rank(p) = i - 1]
<1>1. n \in Nat /\ \A p \in first : p[1] \in Nat /\ p[2] \in Nat
  BY FS_CardinalityType DEF Sightings
<1>2. \A p \in first : Rank(p) \in 0..(n - 1)
  BY SoonerCounts
<1>3. \A p, q \in first : Precedes(p, q) => Rank(p) < Rank(q)
  BY SoonerCounts
<1>4. \A p, q \in first : p # q => Precedes(p, q) \/ Precedes(q, p)
  BY <1>1 DEF Precedes, Sightings
<1>5. InOrderSeen(first) = [i \in 1..n |-> at[i][2]]
  BY DEF InOrderSeen, Sooner, Precedes
<1> HIDE DEF Rank, n
<1>6. \A p, q \in first : Rank(p) = Rank(q) => p = q
  BY <1>2, <1>3, <1>4
<1>7. \A i \in 1..n : \E p \in first : Rank(p) = i - 1
  <2>1. rank \in Injection(first, 0..(n - 1))
    BY <1>2, <1>6 DEF Injection, IsInjective
  <2>2. IsFiniteSet(0..(n - 1)) /\ Cardinality(0..(n - 1)) = n
    <3>1. 0 \in Int /\ n - 1 \in Int
      BY <1>1
    <3>2. /\ IsFiniteSet(0..(n - 1))
          /\ Cardinality(0..(n - 1)) = IF 0 > n - 1 THEN 0 ELSE (n - 1) - 0 + 1
      BY <3>1, FS_Interval
    <3>3. QED
      BY <1>1, <3>2
  <2> HIDE DEF rank
  <2>3. rank \in Surjection(first, 0..(n - 1))
    BY <2>1, <2>2, FS_Injection DEF n
  <2>4. \A j \in 0..(n - 1) : \E p \in first : rank[p] = j
    BY <2>3 DEF Surjection
  <2>5. \A i \in 1..n : i - 1 \in 0..(n - 1)
    BY <1>1
  <2>6. QED
    BY <2>4, <2>5 DEF rank
<1>8. \A i \in 1..n : at[i] \in first /\ Rank(at[i]) = i - 1
  BY <1>7
<1>9. at \in [1..n -> first]
  BY <1>8
<1> HIDE DEF at
<1>10. ASSUME NEW p \in first  PROVE \E i \in 1..n : at[i] = p
  <2>1. PICK i \in 1..n : Rank(p) = i - 1
    <3>1. PICK m \in 0..(n - 1) : m = Rank(p)
      BY <1>2
    <3>2. m + 1 \in 1..n /\ m = (m + 1) - 1
      BY <1>1
    <3>3. QED
      BY <3>1, <3>2
  <2>2. QED
    BY <1>6, <1>8, <2>1
<1>11. ASSUME NEW i \in 1..n, NEW k \in 1..n, i < k  PROVE Precedes(at[i], at[k])
  <2>1. PICK p \in first, q \in first : p = at[i] /\ q = at[k]
    BY <1>8
  <2>2. Rank(p) = i - 1 /\ Rank(q) = k - 1
    BY <1>8, <2>1
  <2>3. ~(Rank(q) < Rank(p)) /\ Rank(p) # Rank(q)
    BY <1>1, <1>11, <2>2
  <2>4. QED
    BY <1>3, <1>4, <2>1, <2>3
<1>12. QED
  BY <1>5, <1>9, <1>10, <1>11 DEF ListedBy, n

\* The tactics at positions I are those of sightings that rise.
SightingsAt(first, seq, I) ==
  \E T \in SUBSET first : Rises(T) /\ {p[2] : p \in T} = {seq[i] : i \in I}

\* The sightings that rise are the positions at which the list of them rises.
LEMMA RisesIsRisesAt ==
  ASSUME NEW first, Sightings(first), NEW at, ListedBy(first, at),
         NEW n, n = Cardinality(first), NEW seq, seq = InOrderSeen(first)
  PROVE  /\ seq \in Seq(Nat) /\ Len(seq) = n /\ n \in Nat
         /\ \A T \in SUBSET first : Rises(T) =>
               \E I \in SUBSET (1..n) : RisesAt(seq, I) /\ Cardinality(T) = Cardinality(I)
         /\ \A I \in SUBSET (1..n) : RisesAt(seq, I) => SightingsAt(first, seq, I)
<1>1. n \in Nat /\ \A p \in first : p[1] \in Nat /\ p[2] \in Nat
  BY FS_CardinalityType DEF Sightings
<1>2. /\ at \in [1..n -> first] /\ seq = [i \in 1..n |-> at[i][2]]
      /\ \A p \in first : \E i \in 1..n : at[i] = p
      /\ \A i, k \in 1..n : i < k => Precedes(at[i], at[k])
  BY DEF ListedBy
<1>3. \A i \in 1..n : /\ at[i] \in first /\ seq[i] = at[i][2]
                      /\ at[i][1] \in Nat /\ at[i][2] \in Nat
  BY <1>1, <1>2
<1>4. seq \in Seq(Nat) /\ Len(seq) = n
  <2>1. seq \in [1..n -> Nat]
    BY <1>2, <1>3
  <2>2. QED
    BY <1>1, <2>1
<1>5. \A i, k \in 1..n : i # k => at[i] # at[k]
  <2> SUFFICES ASSUME NEW i \in 1..n, NEW k \in 1..n, i < k  PROVE at[i] # at[k]
    BY <1>1
  <2>1. Precedes(at[i], at[k])
    BY <1>2
  <2>2. QED
    BY <1>3, <2>1 DEF Precedes
<1>6. ASSUME NEW T \in SUBSET first, Rises(T)
      PROVE  \E I \in SUBSET (1..n) : RisesAt(seq, I) /\ Cardinality(T) = Cardinality(I)
  <2> DEFINE I == {i \in 1..n : at[i] \in T}
             f == [i \in I |-> at[i]]
  <2>1. RisesAt(seq, I)
    <3> SUFFICES ASSUME NEW i \in I, NEW k \in I, i < k  PROVE seq[i] < seq[k]
      BY DEF RisesAt
    <3>1. PICK p \in T, q \in T : p = at[i] /\ q = at[k]
      OBVIOUS
    <3>2. Precedes(p, q) /\ seq[i] = p[2] /\ seq[k] = q[2]
      BY <1>2, <1>3, <3>1
    <3>3. p[1] \in Nat /\ p[2] \in Nat /\ q[1] \in Nat /\ q[2] \in Nat
      BY <1>1
    <3>4. p[2] # q[2]
      <4>1. p # q
        BY <1>1, <1>5, <3>1
      <4>2. QED
        BY <4>1 DEF Sightings
    <3>5. q[2] < p[2] => q[1] <= p[1]
      BY <1>6 DEF Rises
    <3>6. p[2] < q[2]
      BY <3>2, <3>3, <3>4, <3>5 DEF Precedes
    <3>7. QED
      BY <3>2, <3>6
  <2>2. I \in SUBSET (1..n) /\ f \in Bijection(I, T)
    <3>1. f \in [I -> T] /\ \A i, k \in I : f[i] = f[k] => i = k
      BY <1>5
    <3>2. \A p \in T : \E i \in I : f[i] = p
      BY <1>2
    <3>3. QED
      BY <3>1, <3>2 DEF Bijection, Injection, Surjection, IsInjective
  <2>3. IsFiniteSet(I)
    <3>1. 1 \in Int /\ n \in Int
      BY <1>1
    <3>2. IsFiniteSet(1..n)
      BY <3>1, FS_Interval
    <3>3. QED
      BY <2>2, <3>2, FS_Subset
  <2>4. ExistsBijection(I, T)
    BY <2>2 DEF ExistsBijection
  <2> HIDE DEF I, f
  <2>5. Cardinality(T) = Cardinality(I)
    BY <2>3, <2>4, FS_Bijection
  <2>6. QED
    BY <2>1, <2>2, <2>5
<1>7. ASSUME NEW I \in SUBSET (1..n), RisesAt(seq, I)
      PROVE  SightingsAt(first, seq, I)
  <2> DEFINE T == {at[i] : i \in I}
  <2>1. T \in SUBSET first /\ {p[2] : p \in T} = {seq[i] : i \in I}
    BY <1>3
  <2>2. Rises(T)
    <3> SUFFICES ASSUME NEW i \in I, NEW k \in I, at[i][2] < at[k][2]
                 PROVE  at[i][1] <= at[k][1]
      BY DEF Rises
    <3>1. seq[i] < seq[k] /\ seq[i] \in Nat /\ seq[k] \in Nat /\ i \in 1..n /\ k \in 1..n
      BY <1>3
    <3>2. ~(k < i) /\ i # k
      BY <1>7, <3>1 DEF RisesAt
    <3>3. Precedes(at[i], at[k])
      BY <1>1, <1>2, <3>1, <3>2
    <3>4. QED
      BY <1>3, <3>1, <3>3 DEF Precedes
  <2>3. QED
    BY <2>1, <2>2 DEF SightingsAt
<1>8. QED
  BY <1>1, <1>4, <1>6, <1>7
-----------------------------------------------------------------------------
(* The progression of a set of hits.                                       *)

\* What hits are made of.
AreHits(h) == \A r \in DOMAIN h : /\ r \in RuleId /\ h[r].ts \in Nat
                                  /\ h[r].tactic \in Tactic \cup {NoTactic}

\* Every tactic is first seen once, and there are finitely many.
LEMMA FirstSeenOnce ==
  ASSUME AreHits(hits)
  PROVE  Sightings(FirstSeen(hits))
<1> DEFINE mapped == {r \in Counted(DOMAIN hits) \ ContextRules : hits[r].tactic # NoTactic}
           seen   == {<<hits[r].ts, hits[r].tactic>> : r \in mapped}
<1>1. FirstSeen(hits) = {p \in seen : \A q \in seen : q[2] = p[2] => p[1] <= q[1]}
  BY DEF FirstSeen
<1>2. \A r \in mapped : r \in DOMAIN hits
  BY DEF Counted
<1>3. \A r \in mapped : hits[r].ts \in Nat /\ hits[r].tactic \in 1..9
  BY <1>2 DEF AreHits, Tactic, NoTactic
<1> HIDE DEF mapped
<1>4. \A p \in seen : p \in Nat \X (1..9)
  BY <1>3
<1> HIDE DEF seen
<1>5. PICK first : first = FirstSeen(hits)
  OBVIOUS
<1>6. /\ first \in SUBSET (Nat \X (1..9))
      /\ \A p, q \in first : p[2] = q[2] => p[1] <= q[1]
  BY <1>1, <1>4, <1>5
<1>7. ASSUME NEW p \in first, NEW q \in first, p[2] = q[2]  PROVE p = q
  <2>1. p[1] <= q[1] /\ q[1] <= p[1] /\ p[1] \in Nat /\ q[1] \in Nat
    BY <1>6, <1>7
  <2>2. p[1] = q[1] /\ p \in Nat \X (1..9) /\ q \in Nat \X (1..9)
    BY <1>6, <2>1
  <2>3. QED
    BY <1>7, <2>2
<1>8. IsFiniteSet(first)
  <2> DEFINE f == [p \in first |-> p[2]]
  <2>1. f \in Injection(first, 1..9)
    BY <1>6, <1>7 DEF Injection, IsInjective
  <2>2. IsFiniteSet(1..9)
    <3>1. 1 \in Int /\ 9 \in Int
      OBVIOUS
    <3>2. QED
      BY <3>1, FS_Interval
  <2> HIDE DEF f
  <2>3. QED
    BY <2>1, <2>2, FS_Injection
<1>9. first \in SUBSET (Nat \X Nat)
  BY <1>6
<1>10. QED
  BY <1>5, <1>7, <1>8, <1>9 DEF Sightings

\* No sightings that rise outnumber the last of the longest runs.
LEMMA LastIsLongest ==
  ASSUME AreHits(hits),
         NEW runs, runs = RisingRuns(InOrderSeen(FirstSeen(hits))),
         NEW T \in SUBSET FirstSeen(hits), Rises(T)
  PROVE  /\ T # {} => \E j \in DOMAIN runs : Cardinality(T) <= Len(runs[j])
         /\ Cardinality(T) \in Nat /\ (T = {} => Cardinality(T) = 0)
<1>1. PICK first : first = FirstSeen(hits)
  OBVIOUS
<1>2. PICK n, seq : n = Cardinality(first) /\ seq = InOrderSeen(first)
  OBVIOUS
<1>3. Sightings(first)
  BY <1>1, FirstSeenOnce
<1>4. PICK at : ListedBy(first, at)
  BY <1>3, EachListedInOrder
<1>5. seq \in Seq(Nat) /\ Len(seq) = n /\ n \in Nat
  BY <1>2, <1>3, <1>4, RisesIsRisesAt
<1>6. RunsFine(seq, runs) /\ Len(runs) = n
  BY <1>1, <1>2, <1>5, RisingRunsFine
<1>7. PICK I \in SUBSET (1..n) : RisesAt(seq, I) /\ Cardinality(T) = Cardinality(I)
  BY <1>1, <1>2, <1>3, <1>4, RisesIsRisesAt
<1>8. IsFiniteSet(T) /\ IsFiniteSet(I)
  <2>1. 1 \in Int /\ n \in Int
    BY <1>5
  <2>2. IsFiniteSet(1..n)
    BY <2>1, FS_Interval
  <2>3. QED
    BY <1>1, <1>3, <1>7, <2>2, FS_Subset DEF Sightings
<1>9. Cardinality(T) \in Nat /\ (T = {} => Cardinality(T) = 0) /\ (I = {} => Cardinality(T) = 0)
  BY <1>7, <1>8, FS_CardinalityType, FS_EmptySet
<1>10. ASSUME T # {}  PROVE \E j \in DOMAIN runs : Cardinality(T) <= Len(runs[j])
  <2>1. I # {}
    BY <1>7, <1>8, <1>10, FS_EmptySet
  <2>2. \A i \in 1..n : i \in 0..n
    OBVIOUS
  <2>3. I \in SUBSET (0..n)
    BY <1>7, <2>2
  <2>4. PICK j \in I : \A i \in I : i <= j
    BY <1>5, <2>1, <2>3, Greatest
  <2>5. j \in 1..n /\ I \in SUBSET (1..j)
    BY <1>5, <1>7, <2>4
  <2>6. RunFine(seq, j, runs[j]) /\ j \in DOMAIN runs
    BY <1>6, <2>5 DEF RunsFine
  <2>7. Cardinality(I) <= Len(runs[j])
    BY <1>7, <2>4, <2>5, <2>6 DEF RunFine
  <2>8. QED
    BY <1>7, <2>6, <2>7
<1>11. QED
  BY <1>9, <1>10

\* A rising run is made of sightings that rise.
LEMMA RunsAreSightings ==
  ASSUME AreHits(hits),
         NEW runs, runs = RisingRuns(InOrderSeen(FirstSeen(hits))),
         NEW j \in DOMAIN runs
  PROVE  /\ runs[j] \in Seq(Nat) /\ Len(runs[j]) \in 1..j
         /\ runs \in Seq(Seq(Nat)) /\ j \in 1..Len(runs)
         /\ \A i \in 1..(Len(runs[j]) - 1) : runs[j][i] < runs[j][i + 1]
         /\ \E T \in SUBSET FirstSeen(hits) : /\ Rises(T)
                                              /\ ToSet(runs[j]) = {p[2] : p \in T}
<1>1. PICK first : first = FirstSeen(hits)
  OBVIOUS
<1>2. PICK n, seq : n = Cardinality(first) /\ seq = InOrderSeen(first)
  OBVIOUS
<1>3. Sightings(first)
  BY <1>1, FirstSeenOnce
<1>4. PICK at : ListedBy(first, at)
  BY <1>3, EachListedInOrder
<1>5. seq \in Seq(Nat) /\ Len(seq) = n /\ n \in Nat
  BY <1>2, <1>3, <1>4, RisesIsRisesAt
<1>6. RunsFine(seq, runs) /\ Len(runs) = n
  BY <1>1, <1>2, <1>5, RisingRunsFine
<1>7. runs \in Seq(Seq(Nat)) /\ j \in 1..Len(runs) /\ j \in 1..n
  BY <1>6 DEF RunsFine
<1>8. PICK run : run = runs[j]
  OBVIOUS
<1>9. RunFine(seq, j, run)
  BY <1>6, <1>7, <1>8 DEF RunsFine
<1>10. /\ run \in Seq(Nat) /\ Len(run) \in 1..j
       /\ \A i \in 1..(Len(run) - 1) : run[i] < run[i + 1]
  BY <1>9 DEF RunFine
<1>11. PICK I \in SUBSET (1..j) : RisesAt(seq, I) /\ ToSet(run) = {seq[i] : i \in I}
  BY <1>9 DEF RunFine
<1>12. I \in SUBSET (1..n)
  <2>1. \A i \in 1..j : i \in 1..n
    BY <1>5, <1>7
  <2>2. QED
    BY <1>11, <2>1
<1>13. SightingsAt(first, seq, I)
  BY <1>2, <1>3, <1>4, <1>11, <1>12, RisesIsRisesAt
<1>14. \E T \in SUBSET FirstSeen(hits) : Rises(T) /\ ToSet(runs[j]) = {p[2] : p \in T}
  BY <1>1, <1>8, <1>11, <1>13 DEF SightingsAt
<1>15. QED
  BY <1>7, <1>8, <1>10, <1>14

\* The last of the longest runs is a largest set of sightings that rise.
LEMMA ProgressionRight ==
  ASSUME AreHits(hits)
  PROVE  ProgressionIsLongest
<1> DEFINE runs == RisingRuns(InOrderSeen(FirstSeen(hits)))
           end  == CHOOSE i \in DOMAIN runs : \A k \in DOMAIN runs :
                     \/ Len(runs[k]) < Len(runs[i])
                     \/ Len(runs[k]) = Len(runs[i]) /\ k <= i
           rising == {T \in SUBSET FirstSeen(hits) : Rises(T)}
<1>1. Progression(hits) = IF runs = <<>> \/ Len(runs[end]) < 3 THEN <<>> ELSE runs[end]
  BY DEF Progression, PROGRESSION_LEN
<1>2. /\ \A T \in rising : T # {} => \E j \in DOMAIN runs : Cardinality(T) <= Len(runs[j])
      /\ \A T \in rising : Cardinality(T) \in Nat /\ (T = {} => Cardinality(T) = 0)
  BY LastIsLongest
<1>3. \A j \in DOMAIN runs :
         /\ runs[j] \in Seq(Nat) /\ Len(runs[j]) \in 1..j
         /\ runs \in Seq(Seq(Nat)) /\ j \in 1..Len(runs)
         /\ \A i \in 1..(Len(runs[j]) - 1) : runs[j][i] < runs[j][i + 1]
         /\ \E T \in rising : ToSet(runs[j]) = {p[2] : p \in T}
  <2> SUFFICES ASSUME NEW j \in DOMAIN runs
               PROVE  /\ runs[j] \in Seq(Nat) /\ Len(runs[j]) \in 1..j
                      /\ runs \in Seq(Seq(Nat)) /\ j \in 1..Len(runs)
                      /\ \A i \in 1..(Len(runs[j]) - 1) : runs[j][i] < runs[j][i + 1]
                      /\ \E T \in rising : ToSet(runs[j]) = {p[2] : p \in T}
    OBVIOUS
  <2>1. PICK all : all = runs
    OBVIOUS
  <2>2. j \in DOMAIN all
    BY <2>1
  <2>3. /\ all[j] \in Seq(Nat) /\ Len(all[j]) \in 1..j
        /\ all \in Seq(Seq(Nat)) /\ j \in 1..Len(all)
        /\ \A i \in 1..(Len(all[j]) - 1) : all[j][i] < all[j][i + 1]
        /\ \E T \in SUBSET FirstSeen(hits) : Rises(T) /\ ToSet(all[j]) = {p[2] : p \in T}
    BY <2>1, <2>2, RunsAreSightings
  <2>4. QED
    BY <2>1, <2>3
<1> HIDE DEF runs
<1>4. CASE DOMAIN runs = {}
  <2>1. \A T \in rising : Cardinality(T) = 0
    BY <1>2, <1>4
  <2>2. runs = <<>>
    <3>1. runs \in Seq(Seq(Nat))
      <4>1. PICK seq \in Seq(Nat) : runs = RisingRuns(seq)
        <5>1. Sightings(FirstSeen(hits))
          BY FirstSeenOnce
        <5>2. PICK at : ListedBy(FirstSeen(hits), at)
          BY <5>1, EachListedInOrder
        <5>3. InOrderSeen(FirstSeen(hits)) \in Seq(Nat)
          BY <5>1, <5>2, RisesIsRisesAt
        <5>4. QED
          BY <5>3 DEF runs
      <4>2. RunsFine(seq, runs)
        BY <4>1, RisingRunsFine
      <4>3. QED
        BY <4>2 DEF RunsFine
    <3>2. QED
      BY <1>4, <3>1
  <2>3. Progression(hits) = <<>>
    BY <1>1, <2>2
  <2> HIDE DEF rising
  <2>4. \A T \in rising : Cardinality(T) < 3
    BY <2>1
  <2>5. QED
    BY <2>3, <2>4 DEF ProgressionIsLongest, PROGRESSION_LEN, rising
<1>5. CASE DOMAIN runs # {}
  <2>1. PICK n \in Nat : DOMAIN runs = 1..n /\ \A j \in 1..n : Len(runs[j]) \in 0..n
    <3>1. PICK j \in DOMAIN runs : TRUE
      BY <1>5
    <3>2. runs \in Seq(Seq(Nat))
      BY <1>3, <3>1
    <3>3. PICK n \in Nat : n = Len(runs)
      BY <3>2
    <3>4. DOMAIN runs = 1..n
      BY <3>2, <3>3
    <3>5. ASSUME NEW k \in 1..n  PROVE Len(runs[k]) \in 0..n
      <4>1. Len(runs[k]) \in 1..k
        BY <1>3, <3>4
      <4>2. QED
        BY <4>1
    <3>6. QED
      BY <3>4, <3>5
  <2>2. PICK len : len = [j \in DOMAIN runs |-> Len(runs[j])]
    OBVIOUS
  <2>3. len \in [DOMAIN runs -> 0..n] /\ DOMAIN runs \in SUBSET (1..n)
    BY <2>1, <2>2
  <2>4. \E j \in DOMAIN runs : \A k \in DOMAIN runs : len[k] < len[j] \/ (len[k] = len[j] /\ k <= j)
    BY <1>5, <2>3, LargestOf
  <2>5. /\ end \in DOMAIN runs
        /\ \A k \in DOMAIN runs :
             \/ Len(runs[k]) < Len(runs[end])
             \/ Len(runs[k]) = Len(runs[end]) /\ k <= end
    <3>1. \E j \in DOMAIN runs : \A k \in DOMAIN runs :
            \/ Len(runs[k]) < Len(runs[j])
            \/ Len(runs[k]) = Len(runs[j]) /\ k <= j
      <4>1. \A j \in DOMAIN runs : len[j] = Len(runs[j])
        BY <2>2
      <4>2. QED
        BY <2>4, <4>1
    <3>2. QED
      BY <3>1
  <2> HIDE DEF end
  <2>6. PICK run : run = runs[end]
    OBVIOUS
  <2>7. /\ run \in Seq(Nat) /\ Len(run) \in Nat /\ Len(run) >= 1
        /\ \A i \in 1..(Len(run) - 1) : run[i] < run[i + 1]
        /\ \E T \in rising : ToSet(run) = {p[2] : p \in T}
    <3>1. end \in 1..n
      BY <2>1, <2>5
    <3>2. Len(run) \in 1..end
      BY <1>3, <2>5, <2>6
    <3>3. Len(run) \in Nat /\ Len(run) >= 1
      BY <3>1, <3>2
    <3>4. /\ run \in Seq(Nat) /\ \A i \in 1..(Len(run) - 1) : run[i] < run[i + 1]
          /\ \E T \in rising : ToSet(run) = {p[2] : p \in T}
      BY <1>3, <2>5, <2>6
    <3>5. QED
      BY <3>3, <3>4
  <2>8. ASSUME NEW T \in rising  PROVE Cardinality(T) <= Len(run) /\ Cardinality(T) \in Nat
    <3>1. Cardinality(T) \in Nat /\ (T = {} => Cardinality(T) = 0)
      BY <1>2
    <3>2. CASE T = {}
      BY <2>7, <3>1, <3>2
    <3>3. CASE T # {}
      <4>1. PICK j \in DOMAIN runs : Cardinality(T) <= Len(runs[j])
        BY <1>2, <3>3
      <4>2. Len(runs[j]) \in Nat /\ (Len(runs[j]) < Len(run) \/ Len(runs[j]) = Len(run))
        BY <2>1, <2>5, <2>6
      <4>3. QED
        BY <2>7, <3>1, <4>1, <4>2
    <3>4. QED
      BY <3>2, <3>3
  <2>9. runs # <<>> /\ (Len(run) >= 3 => run # <<>>)
    <3>1. DOMAIN <<>> = {} /\ Len(<<>>) = 0
      OBVIOUS
    <3>2. QED
      BY <1>5, <3>1
  <2>10. CASE Len(run) < 3
    <3>1. Progression(hits) = <<>>
      BY <1>1, <2>6, <2>10
    <3>2. \A T \in rising : Cardinality(T) < 3
      BY <2>7, <2>8, <2>10
    <3> HIDE DEF rising
    <3>3. QED
      BY <3>1, <3>2 DEF ProgressionIsLongest, PROGRESSION_LEN, rising
  <2>11. CASE ~(Len(run) < 3)
    <3>1. Progression(hits) = run /\ run # <<>>
      BY <1>1, <2>6, <2>7, <2>9, <2>11
    <3>2. \A T \in rising : Cardinality(T) <= Len(run)
      BY <2>8
    <3> HIDE DEF rising
    <3>3. QED
      BY <2>7, <3>1, <3>2 DEF ProgressionIsLongest, rising
  <2>12. QED
    BY <2>10, <2>11
<1>6. QED
  BY <1>4, <1>5

\* Hits are made of rules, times and tactics.
LEMMA HitsTyped == Spec => []AreHits(hits)
<1>1. Init => AreHits(hits)
  BY DEF Init, AreHits
<1>2. AreHits(hits) /\ [Next]_hits => AreHits(hits)'
  <2> SUFFICES ASSUME AreHits(hits), [Next]_hits  PROVE AreHits(hits)'
    OBVIOUS
  <2>1. CASE hits' = hits
    BY <2>1 DEF AreHits
  <2>2. CASE Next
    <3>1. PICK r \in Rules : Hit(r)
      BY <2>2 DEF Next
    <3>2. PICK ts \in 0..MaxTs, t \in Tactics(r) :
            hits' = [q \in DOMAIN hits \cup {r} |->
                       IF q = r THEN [ts |-> ts, tactic |-> t] ELSE hits[q]]
      BY <3>1 DEF Hit
    <3>3. r \in RuleId /\ ts \in Nat
      BY MCAssumption
    <3>4. t \in Tactic \cup {NoTactic}
      BY DEF Tactics, TacticOf, Tactic, NoTactic, InitialAccess, Execution, Persistence,
             PrivilegeEscalation, DefenseEvasion, CredentialAccess, Collection,
             CommandAndControl, Exfiltration
    <3>5. \A q \in DOMAIN hits' : /\ q \in RuleId /\ hits'[q].ts \in Nat
                                  /\ hits'[q].tactic \in Tactic \cup {NoTactic}
      BY <3>2, <3>3, <3>4 DEF AreHits
    <3>6. QED
      BY <3>5 DEF AreHits
  <2>3. QED
    BY <2>1, <2>2
<1>3. QED
  BY <1>1, <1>2, PTL DEF Spec

\* The progression C3 records (score.rs:94-142) is a largest set of tactics that
\* rises in the order they were first seen, whatever was hit and when.
THEOREM LongestRises == Spec => []ProgressionIsLongest
<1>1. AreHits(hits) => ProgressionIsLongest
  BY ProgressionRight
<1>2. QED
  BY <1>1, HitsTyped, PTL
=============================================================================
