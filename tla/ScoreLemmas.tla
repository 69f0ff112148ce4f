----------------------------- MODULE ScoreLemmas -----------------------------
(***************************************************************************)
(* What holds of the score of every set of hits, whichever rules fire and  *)
(* in whatever order (score.rs).  A component's score is a sum of worths   *)
(* cut off at a cap; everything follows from how a worth and a cut-off sum *)
(* change with the set of counted rules.                                   *)
(***************************************************************************)
EXTENDS Scoring, TLAPS

-----------------------------------------------------------------------------
(* Worths and caps.                                                        *)

\* Every rule is worth something.
LEMMA PointsPositive == \A r : Points(r) \in Nat /\ Points(r) > 0
<1> SUFFICES ASSUME NEW r PROVE Points(r) \in Nat /\ Points(r) > 0
  OBVIOUS
<1>1. Points(r) \in {5, 10, 15, 20, 25, 30}
  BY DEF Points
<1>2. QED
  BY <1>1

\* A worth is a natural number.
LEMMA WorthNat == \A r, c : Worth(r, c) \in Nat
BY PointsPositive DEF Worth

\* A rule is worth no less when more rules are counted.
LEMMA WorthMonotone ==
  ASSUME NEW c, NEW d, c \subseteq d, NEW r
  PROVE  Worth(r, c) <= Worth(r, d)
BY PointsPositive DEF Worth

\* A capped sum lies in 0..cap, and is 0 only when the sum is.
LEMMA AtMostBounds ==
  ASSUME NEW cap \in Nat, NEW n \in Nat
  PROVE  /\ AtMost(cap, n) \in 0..cap
         /\ cap > 0 => (AtMost(cap, n) = 0 <=> n = 0)
BY DEF AtMost

\* Capping keeps the order of sums.
LEMMA AtMostMonotone ==
  ASSUME NEW cap \in Nat, NEW m \in Nat, NEW n \in Nat, m <= n
  PROVE  AtMost(cap, m) <= AtMost(cap, n)
BY DEF AtMost

-----------------------------------------------------------------------------
(* The four components.                                                    *)

\* The process score is at most 30, is 0 only if no process rule counts, and
\* grows with the rules counted.
LEMMA ProcessScoreFacts ==
  ASSUME NEW c
  PROVE  /\ ProcessScore(c) \in 0..30
         /\ ProcessScore(c) = 0 <=> ProcessRules \cap c = {}
         /\ \A d : c \subseteq d => ProcessScore(c) <= ProcessScore(d)
<1> DEFINE Sum(x) == Worth("P1", x) + Worth("P2", x) + Worth("P3", x) + Worth("L1", x)
                       + Worth("L3", x) + Worth("L5", x) + Worth("L12", x)
<1>1. \A x : /\ Worth("P1", x) \in Nat /\ Worth("P2", x) \in Nat /\ Worth("P3", x) \in Nat
            /\ Worth("L1", x) \in Nat /\ Worth("L3", x) \in Nat /\ Worth("L5", x) \in Nat
            /\ Worth("L12", x) \in Nat
  BY WorthNat
<1>2. \A x : Sum(x) \in Nat
  BY <1>1
<1>3. \A x : ProcessScore(x) = AtMost(30, Sum(x))
  BY DEF ProcessScore, CAP_PROCESS
<1>4. Sum(c) = 0 <=> ProcessRules \cap c = {}
  <2>1. Sum(c) = 0 <=> /\ Worth("P1", c) = 0 /\ Worth("P2", c) = 0 /\ Worth("P3", c) = 0
                       /\ Worth("L1", c) = 0 /\ Worth("L3", c) = 0 /\ Worth("L5", c) = 0
                       /\ Worth("L12", c) = 0
    <3>1. /\ Worth("P1", c) \in Nat /\ Worth("P2", c) \in Nat /\ Worth("P3", c) \in Nat
          /\ Worth("L1", c) \in Nat /\ Worth("L3", c) \in Nat /\ Worth("L5", c) \in Nat
          /\ Worth("L12", c) \in Nat
      BY <1>1
    <3>2. QED
      BY <3>1
  <2>2. \A r : Worth(r, c) = 0 <=> r \notin c
    BY PointsPositive DEF Worth
  <2>3. QED
    BY <2>1, <2>2 DEF ProcessRules
<1>5. \A d : c \subseteq d => Sum(c) <= Sum(d)
  <2> SUFFICES ASSUME NEW d, c \subseteq d PROVE Sum(c) <= Sum(d)
    OBVIOUS
  <2>1. /\ Worth("P1", c) <= Worth("P1", d) /\ Worth("P2", c) <= Worth("P2", d)
        /\ Worth("P3", c) <= Worth("P3", d) /\ Worth("L1", c) <= Worth("L1", d)
        /\ Worth("L3", c) <= Worth("L3", d) /\ Worth("L5", c) <= Worth("L5", d)
        /\ Worth("L12", c) <= Worth("L12", d)
    BY WorthMonotone
  <2>2. QED
    BY <1>1, <2>1
<1> HIDE DEF Sum
<1>6. ProcessScore(c) \in 0..30 /\ (ProcessScore(c) = 0 <=> Sum(c) = 0)
  <2>1. Sum(c) \in Nat /\ ProcessScore(c) = AtMost(30, Sum(c))
    BY <1>2, <1>3
  <2>2. AtMost(30, Sum(c)) \in 0..30 /\ (AtMost(30, Sum(c)) = 0 <=> Sum(c) = 0)
    BY <2>1, AtMostBounds, 30 \in Nat /\ 30 > 0
  <2>3. QED
    BY <2>1, <2>2
<1>7. \A d : c \subseteq d => ProcessScore(c) <= ProcessScore(d)
  BY <1>2, <1>3, <1>5, AtMostMonotone
<1>8. QED
  BY <1>4, <1>6, <1>7

\* The same of the file score, capped at 25.
LEMMA FileScoreFacts ==
  ASSUME NEW c
  PROVE  /\ FileScore(c) \in 0..25
         /\ FileScore(c) = 0 <=> FileRules \cap c = {}
         /\ \A d : c \subseteq d => FileScore(c) <= FileScore(d)
<1> DEFINE Sum(x) == Worth("F1", x) + Worth("F2", x) + Worth("F3", x) + Worth("F4", x)
                       + Worth("F5", x) + Worth("F6", x) + Worth("L6", x) + Worth("L7", x)
                       + Worth("L8", x) + Worth("L10", x) + Worth("L11", x)
<1>1. \A x : /\ Worth("F1", x) \in Nat /\ Worth("F2", x) \in Nat /\ Worth("F3", x) \in Nat
            /\ Worth("F4", x) \in Nat /\ Worth("F5", x) \in Nat /\ Worth("F6", x) \in Nat
            /\ Worth("L6", x) \in Nat /\ Worth("L7", x) \in Nat /\ Worth("L8", x) \in Nat
            /\ Worth("L10", x) \in Nat /\ Worth("L11", x) \in Nat
  BY WorthNat
<1>2. \A x : Sum(x) \in Nat
  BY <1>1
<1>3. \A x : FileScore(x) = AtMost(25, Sum(x))
  BY DEF FileScore, CAP_FILE
<1>4. Sum(c) = 0 <=> FileRules \cap c = {}
  <2>1. Sum(c) = 0 <=> /\ Worth("F1", c) = 0 /\ Worth("F2", c) = 0 /\ Worth("F3", c) = 0
                       /\ Worth("F4", c) = 0 /\ Worth("F5", c) = 0 /\ Worth("F6", c) = 0
                       /\ Worth("L6", c) = 0 /\ Worth("L7", c) = 0 /\ Worth("L8", c) = 0
                       /\ Worth("L10", c) = 0 /\ Worth("L11", c) = 0
    <3> DEFINE Half == Worth("F1", c) + Worth("F2", c) + Worth("F3", c)
                         + Worth("F4", c) + Worth("F5", c) + Worth("F6", c)
    <3>1. /\ Half \in Nat
          /\ Half = 0 <=> /\ Worth("F1", c) = 0 /\ Worth("F2", c) = 0 /\ Worth("F3", c) = 0
                          /\ Worth("F4", c) = 0 /\ Worth("F5", c) = 0 /\ Worth("F6", c) = 0
      BY <1>1
    <3>2. Sum(c) = Half + Worth("L6", c) + Worth("L7", c) + Worth("L8", c)
                     + Worth("L10", c) + Worth("L11", c)
      OBVIOUS
    <3> HIDE DEF Half, Sum
    <3>3. Sum(c) = 0 <=> /\ Half = 0 /\ Worth("L6", c) = 0 /\ Worth("L7", c) = 0
                         /\ Worth("L8", c) = 0 /\ Worth("L10", c) = 0 /\ Worth("L11", c) = 0
      BY <1>1, <3>1, <3>2
    <3>4. QED
      BY <3>1, <3>3
  <2>2. \A r : Worth(r, c) = 0 <=> r \notin c
    BY PointsPositive DEF Worth
  <2>3. QED
    BY <2>1, <2>2 DEF FileRules
<1>5. \A d : c \subseteq d => Sum(c) <= Sum(d)
  <2> SUFFICES ASSUME NEW d, c \subseteq d PROVE Sum(c) <= Sum(d)
    OBVIOUS
  <2>1. /\ Worth("F1", c) <= Worth("F1", d) /\ Worth("F2", c) <= Worth("F2", d)
        /\ Worth("F3", c) <= Worth("F3", d) /\ Worth("F4", c) <= Worth("F4", d)
        /\ Worth("F5", c) <= Worth("F5", d) /\ Worth("F6", c) <= Worth("F6", d)
        /\ Worth("L6", c) <= Worth("L6", d) /\ Worth("L7", c) <= Worth("L7", d)
        /\ Worth("L8", c) <= Worth("L8", d) /\ Worth("L10", c) <= Worth("L10", d)
        /\ Worth("L11", c) <= Worth("L11", d)
    BY WorthMonotone
  <2> DEFINE Half(x) == Worth("F1", x) + Worth("F2", x) + Worth("F3", x)
                          + Worth("F4", x) + Worth("F5", x) + Worth("F6", x)
  <2>2. Half(c) \in Nat /\ Half(d) \in Nat /\ Half(c) <= Half(d)
    BY <1>1, <2>1
  <2>3. \A x : Sum(x) = Half(x) + Worth("L6", x) + Worth("L7", x) + Worth("L8", x)
                          + Worth("L10", x) + Worth("L11", x)
    OBVIOUS
  <2> HIDE DEF Half, Sum
  <2>4. QED
    BY <1>1, <2>1, <2>2, <2>3
<1> HIDE DEF Sum
<1>6. FileScore(c) \in 0..25 /\ (FileScore(c) = 0 <=> Sum(c) = 0)
  <2>1. Sum(c) \in Nat /\ FileScore(c) = AtMost(25, Sum(c))
    BY <1>2, <1>3
  <2>2. AtMost(25, Sum(c)) \in 0..25 /\ (AtMost(25, Sum(c)) = 0 <=> Sum(c) = 0)
    BY <2>1, AtMostBounds, 25 \in Nat /\ 25 > 0
  <2>3. QED
    BY <2>1, <2>2
<1>7. \A d : c \subseteq d => FileScore(c) <= FileScore(d)
  BY <1>2, <1>3, <1>5, AtMostMonotone
<1>8. QED
  BY <1>4, <1>6, <1>7

\* The same of the network score, capped at 25.
LEMMA NetworkScoreFacts ==
  ASSUME NEW c
  PROVE  /\ NetworkScore(c) \in 0..25
         /\ NetworkScore(c) = 0 <=> NetworkRules \cap c = {}
         /\ \A d : c \subseteq d => NetworkScore(c) <= NetworkScore(d)
<1> DEFINE Sum(x) == Worth("N1", x) + Worth("N2", x) + Worth("N3", x) + Worth("L2", x)
<1>1. \A x : /\ Worth("N1", x) \in Nat /\ Worth("N2", x) \in Nat /\ Worth("N3", x) \in Nat
            /\ Worth("L2", x) \in Nat
  BY WorthNat
<1>2. \A x : Sum(x) \in Nat
  BY <1>1
<1>3. \A x : NetworkScore(x) = AtMost(25, Sum(x))
  BY DEF NetworkScore, CAP_NETWORK
<1>4. Sum(c) = 0 <=> NetworkRules \cap c = {}
  <2>1. Sum(c) = 0 <=> /\ Worth("N1", c) = 0 /\ Worth("N2", c) = 0 /\ Worth("N3", c) = 0
                       /\ Worth("L2", c) = 0
    <3>1. /\ Worth("N1", c) \in Nat /\ Worth("N2", c) \in Nat /\ Worth("N3", c) \in Nat
          /\ Worth("L2", c) \in Nat
      BY <1>1
    <3>2. QED
      BY <3>1
  <2>2. \A r : Worth(r, c) = 0 <=> r \notin c
    BY PointsPositive DEF Worth
  <2>3. QED
    BY <2>1, <2>2 DEF NetworkRules
<1>5. \A d : c \subseteq d => Sum(c) <= Sum(d)
  <2> SUFFICES ASSUME NEW d, c \subseteq d PROVE Sum(c) <= Sum(d)
    OBVIOUS
  <2>1. /\ Worth("N1", c) <= Worth("N1", d) /\ Worth("N2", c) <= Worth("N2", d)
        /\ Worth("N3", c) <= Worth("N3", d) /\ Worth("L2", c) <= Worth("L2", d)
    BY WorthMonotone
  <2>2. QED
    BY <1>1, <2>1
<1> HIDE DEF Sum
<1>6. NetworkScore(c) \in 0..25 /\ (NetworkScore(c) = 0 <=> Sum(c) = 0)
  <2>1. Sum(c) \in Nat /\ NetworkScore(c) = AtMost(25, Sum(c))
    BY <1>2, <1>3
  <2>2. AtMost(25, Sum(c)) \in 0..25 /\ (AtMost(25, Sum(c)) = 0 <=> Sum(c) = 0)
    BY <2>1, AtMostBounds, 25 \in Nat /\ 25 > 0
  <2>3. QED
    BY <2>1, <2>2
<1>7. \A d : c \subseteq d => NetworkScore(c) <= NetworkScore(d)
  BY <1>2, <1>3, <1>5, AtMostMonotone
<1>8. QED
  BY <1>4, <1>6, <1>7

\* The same of the context score, capped at 20.
LEMMA ContextScoreFacts ==
  ASSUME NEW c
  PROVE  /\ ContextScore(c) \in 0..20
         /\ ContextScore(c) = 0 <=> ContextRules \cap c = {}
         /\ \A d : c \subseteq d => ContextScore(c) <= ContextScore(d)
<1> DEFINE Sum(x) == Worth("C1", x) + Worth("C2", x) + Worth("L9", x) + Worth("C3", x)
<1>1. \A x : /\ Worth("C1", x) \in Nat /\ Worth("C2", x) \in Nat /\ Worth("L9", x) \in Nat
            /\ Worth("C3", x) \in Nat
  BY WorthNat
<1>2. \A x : Sum(x) \in Nat
  BY <1>1
<1>3. \A x : ContextScore(x) = AtMost(20, Sum(x))
  BY DEF ContextScore, CAP_CONTEXT
<1>4. Sum(c) = 0 <=> ContextRules \cap c = {}
  <2>1. Sum(c) = 0 <=> /\ Worth("C1", c) = 0 /\ Worth("C2", c) = 0 /\ Worth("L9", c) = 0
                       /\ Worth("C3", c) = 0
    <3>1. /\ Worth("C1", c) \in Nat /\ Worth("C2", c) \in Nat /\ Worth("L9", c) \in Nat
          /\ Worth("C3", c) \in Nat
      BY <1>1
    <3>2. QED
      BY <3>1
  <2>2. \A r : Worth(r, c) = 0 <=> r \notin c
    BY PointsPositive DEF Worth
  <2>3. QED
    BY <2>1, <2>2 DEF ContextRules
<1>5. \A d : c \subseteq d => Sum(c) <= Sum(d)
  <2> SUFFICES ASSUME NEW d, c \subseteq d PROVE Sum(c) <= Sum(d)
    OBVIOUS
  <2>1. /\ Worth("C1", c) <= Worth("C1", d) /\ Worth("C2", c) <= Worth("C2", d)
        /\ Worth("L9", c) <= Worth("L9", d) /\ Worth("C3", c) <= Worth("C3", d)
    BY WorthMonotone
  <2>2. QED
    BY <1>1, <2>1
<1> HIDE DEF Sum
<1>6. ContextScore(c) \in 0..20 /\ (ContextScore(c) = 0 <=> Sum(c) = 0)
  <2>1. Sum(c) \in Nat /\ ContextScore(c) = AtMost(20, Sum(c))
    BY <1>2, <1>3
  <2>2. AtMost(20, Sum(c)) \in 0..20 /\ (AtMost(20, Sum(c)) = 0 <=> Sum(c) = 0)
    BY <2>1, AtMostBounds, 20 \in Nat /\ 20 > 0
  <2>3. QED
    BY <2>1, <2>2
<1>7. \A d : c \subseteq d => ContextScore(c) <= ContextScore(d)
  BY <1>2, <1>3, <1>5, AtMostMonotone
<1>8. QED
  BY <1>4, <1>6, <1>7

-----------------------------------------------------------------------------
(* The total.                                                              *)

\* A further hit ungates others and discounts none.
LEMMA CountedMonotone ==
  ASSUME NEW fired, NEW more, fired \subseteq more
  PROVE  Counted(fired) \subseteq Counted(more)
<1> DEFINE Ungated(x) == {r \in x : /\ r # "C1"
                                    /\ r = "N3" => x \cap {"N1", "N2"} # {}}
<1>1. Ungated(fired) \subseteq Ungated(more)
  OBVIOUS
<1>2. /\ Counted(fired) = Ungated(fired) \cup (IF Ungated(fired) = {} THEN {} ELSE fired \cap {"C1"})
      /\ Counted(more) = Ungated(more) \cup (IF Ungated(more) = {} THEN {} ELSE more \cap {"C1"})
  BY DEF Counted
<1> HIDE DEF Ungated
<1>3. QED
  BY <1>1, <1>2

\* A score lies in 0..100 (README: "0-100").
THEOREM ScoreBounds ==
  ASSUME NEW fired
  PROVE  Total(fired) \in 0..100
BY ProcessScoreFacts, FileScoreFacts, NetworkScoreFacts, ContextScoreFacts DEF Total

\* More hits never score less.
THEOREM ScoreMonotone ==
  ASSUME NEW fired, NEW more, fired \subseteq more
  PROVE  Total(fired) <= Total(more)
<1> DEFINE c == Counted(fired)
           d == Counted(more)
<1>1. c \subseteq d
  BY CountedMonotone
<1>2. Total(fired) = ProcessScore(c) + FileScore(c) + NetworkScore(c) + ContextScore(c)
  BY DEF Total
<1>3. Total(more) = ProcessScore(d) + FileScore(d) + NetworkScore(d) + ContextScore(d)
  BY DEF Total
<1> HIDE DEF c, d
<1>4. /\ ProcessScore(c) <= ProcessScore(d) /\ ProcessScore(c) \in 0..30 /\ ProcessScore(d) \in 0..30
      /\ FileScore(c) <= FileScore(d) /\ FileScore(c) \in 0..25 /\ FileScore(d) \in 0..25
      /\ NetworkScore(c) <= NetworkScore(d) /\ NetworkScore(c) \in 0..25 /\ NetworkScore(d) \in 0..25
      /\ ContextScore(c) <= ContextScore(d) /\ ContextScore(c) \in 0..20 /\ ContextScore(d) \in 0..20
  BY <1>1, ProcessScoreFacts, FileScoreFacts, NetworkScoreFacts, ContextScoreFacts
<1>5. /\ ProcessScore(c) \in Nat /\ ProcessScore(d) \in Nat
      /\ FileScore(c) \in Nat /\ FileScore(d) \in Nat
      /\ NetworkScore(c) \in Nat /\ NetworkScore(d) \in Nat
      /\ ContextScore(c) \in Nat /\ ContextScore(d) \in Nat
  BY <1>4
<1>6. \A p, f, n, x, p2, f2, n2, x2 \in Nat :
        p <= p2 /\ f <= f2 /\ n <= n2 /\ x <= x2 => p + f + n + x <= p2 + f2 + n2 + x2
  OBVIOUS
<1>7. ProcessScore(c) + FileScore(c) + NetworkScore(c) + ContextScore(c)
        <= ProcessScore(d) + FileScore(d) + NetworkScore(d) + ContextScore(d)
  BY <1>4, <1>5, <1>6
<1>8. QED
  BY <1>2, <1>3, <1>7

\* The bands of score.rs: 0-30, 31-60, 61-80, above.
LEMMA SeverityOfFacts ==
  ASSUME NEW n \in Nat
  PROVE  /\ SeverityOf(n) \in Severity
         /\ n <= 30 => SeverityOf(n) = 0
         /\ n \in 31..60 => SeverityOf(n) = 1
         /\ n \in 61..80 => SeverityOf(n) = 2
         /\ n > 80 => SeverityOf(n) = 3
BY DEF SeverityOf, Severity, Low, Medium, High, Critical

\* Nor is the band ever lowered by more hits.
THEOREM BandMonotone ==
  ASSUME NEW fired, NEW more, fired \subseteq more
  PROVE  /\ Band(fired) \in Severity /\ Band(more) \in Severity
         /\ Band(fired) <= Band(more)
<1>1. Total(fired) \in Nat /\ Total(more) \in Nat /\ Total(fired) <= Total(more)
  BY ScoreBounds, ScoreMonotone
<1>2. /\ SeverityOf(Total(fired)) \in Severity /\ SeverityOf(Total(more)) \in Severity
      /\ SeverityOf(Total(fired)) <= SeverityOf(Total(more))
  BY <1>1, SeverityOfFacts
<1>3. QED
  BY <1>2 DEF Band

\* A chain without hits is Low.
LEMMA EmptyBand == Band({}) = Low
<1>1. Counted({}) = {}
  BY DEF Counted
<1>2. Total({}) = 0
  <2>1. ProcessScore({}) = 0
    BY ProcessScoreFacts
  <2>2. FileScore({}) = 0
    BY FileScoreFacts
  <2>3. NetworkScore({}) = 0
    BY NetworkScoreFacts
  <2>4. ContextScore({}) = 0
    BY ContextScoreFacts
  <2>5. QED
    BY <1>1, <2>1, <2>2, <2>3, <2>4 DEF Total
<1>3. QED
  BY <1>2, SeverityOfFacts DEF Band, Low
=============================================================================
