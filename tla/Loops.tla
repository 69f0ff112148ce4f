-------------------------------- MODULE Loops --------------------------------
(***************************************************************************)
(* Loops written as recursive functions on 0..n: the function a loop       *)
(* defines exists, and stays within what its steps keep to.  (The library's *)
(* induction takes an operator, which the provers cannot instantiate; these *)
(* take the least number at which the loop would go wrong.)                *)
(***************************************************************************)
EXTENDS Naturals, TLAPS, WellFoundedInduction

\* A set of numbers that is not empty has a least.
LEMMA Least ==
  ASSUME NEW S \in SUBSET Nat, S # {}
  PROVE  \E i \in S : \A j \in S : i <= j
<1> DEFINE R == OpToRel(<, Nat)
<1>1. IsWellFoundedOn(R, Nat)
  BY NatLessThanWellFounded
<1>2. \A i, j \in Nat : i < j => <<i, j>> \in R
  BY DEF OpToRel
<1> HIDE DEF R
<1>3. \E i \in S : \A j \in S : <<j, i>> \notin R
  BY <1>1, WFMin
<1>4. \E i \in S : \A j \in S : ~(j < i)
  BY <1>2, <1>3
<1>5. QED
  BY <1>4

\* A set of numbers up to n that is not empty has a greatest.
LEMMA Greatest ==
  ASSUME NEW n \in Nat, NEW S \in SUBSET (0..n), S # {}
  PROVE  \E i \in S : \A j \in S : j <= i
<1> DEFINE R == {m \in Nat : n - m \in S}
<1>1. R \in SUBSET Nat /\ \A i \in S : n - i \in R
  OBVIOUS
<1>2. R # {}
  BY <1>1
<1> HIDE DEF R
<1>3. PICK m \in R : \A k \in R : m <= k
  BY <1>1, <1>2, Least
<1>4. n - m \in S /\ m \in Nat
  BY DEF R
<1>5. \A i \in S : m <= n - i /\ i \in Nat
  BY <1>1, <1>3
<1>6. \A i \in S : i <= n - m
  BY <1>4, <1>5
<1>7. QED
  BY <1>4, <1>6

\* f goes from x through step, n times.
Runs(f, x, step, n) == /\ DOMAIN f = 0..n /\ f[0] = x
                       /\ \A i \in 1..n : f[i] = step[<<f[i - 1], i>>]

LEMMA LoopExists ==
  ASSUME NEW S, NEW n \in Nat, NEW x \in S, NEW step \in [S \X (1..n) -> S]
  PROVE  \E f \in [0..n -> S] : Runs(f, x, step, n)
<1> DEFINE Bad == {m \in 0..n : ~\E f \in [0..m -> S] : Runs(f, x, step, m)}
<1> SUFFICES ASSUME Bad # {}  PROVE FALSE
  OBVIOUS
<1>0. Bad \in SUBSET Nat
  OBVIOUS
<1>1. PICK m \in Bad : \A k \in Bad : m <= k
  BY <1>0, Least
<1>2. m \in 0..n
  OBVIOUS
<1>3. CASE m = 0
  <2> DEFINE f == [i \in 0..0 |-> x]
  <2>1. f \in [0..0 -> S] /\ Runs(f, x, step, 0)
    BY DEF Runs
  <2>2. QED
    BY <1>3, <2>1
<1>4. CASE m # 0
  <2>1. m - 1 \in 0..n /\ ~(m <= m - 1) /\ m - 1 \in Nat
    BY <1>2, <1>4
  <2>2. PICK g \in [0..(m - 1) -> S] : Runs(g, x, step, m - 1)
    BY <1>1, <2>1
  <2> DEFINE f == [i \in 0..m |-> IF i = m THEN step[<<g[m - 1], m>>] ELSE g[i]]
  <2>3. g[m - 1] \in S /\ m \in 1..n
    BY <1>2, <1>4, <2>1, <2>2
  <2>4. step[<<g[m - 1], m>>] \in S
    BY <2>3
  <2>5. \A i \in 0..m : i # m => i \in 0..(m - 1)
    BY <1>2, <2>1
  <2>6. f \in [0..m -> S]
    BY <2>4, <2>5
  <2>7. f[0] = x
    BY <1>2, <1>4, <2>2 DEF Runs
  <2>8. ASSUME NEW i \in 1..m  PROVE f[i] = step[<<f[i - 1], i>>]
    <3>1. i \in 0..m /\ i - 1 \in 0..m /\ i - 1 # m /\ (i # m => i \in 1..(m - 1))
      BY <1>2, <2>1
    <3>2. f[i - 1] = g[i - 1]
      BY <3>1
    <3>3. CASE i = m
      BY <3>1, <3>2, <3>3
    <3>4. CASE i # m
      BY <2>2, <3>1, <3>2, <3>4 DEF Runs
    <3>5. QED
      BY <3>3, <3>4
  <2>9. Runs(f, x, step, m)
    BY <2>6, <2>7, <2>8 DEF Runs
  <2>10. QED
    BY <2>6, <2>9
<1>5. QED
  BY <1>3, <1>4

LEMMA LoopStays ==
  ASSUME NEW S, NEW n \in Nat, NEW f, f[0] \in S,
         \A i \in 1..n : f[i - 1] \in S => f[i] \in S
  PROVE  \A i \in 0..n : f[i] \in S
<1> DEFINE Bad == {m \in 0..n : f[m] \notin S}
<1> SUFFICES ASSUME Bad # {}  PROVE FALSE
  OBVIOUS
<1>0. Bad \in SUBSET Nat
  OBVIOUS
<1>1. PICK m \in Bad : \A k \in Bad : m <= k
  BY <1>0, Least
<1>2. m # 0 /\ m \in 0..n
  OBVIOUS
<1>3. m \in 1..n /\ m - 1 \in 0..n /\ ~(m <= m - 1)
  BY <1>2
<1>4. f[m - 1] \in S
  BY <1>1, <1>3
<1>5. QED
  BY <1>3, <1>4

LEMMA CountUp ==
  ASSUME NEW n \in Nat, NEW S, 0 \in S, \A i \in 1..n : i - 1 \in S => i \in S
  PROVE  \A i \in 0..n : i \in S
<1> DEFINE f == [i \in 0..n |-> i]
<1>1. \A i \in 1..n : i \in 0..n /\ i - 1 \in 0..n
  OBVIOUS
<1>2. f[0] \in S /\ \A i \in 1..n : f[i - 1] \in S => f[i] \in S
  BY <1>1
<1>3. \A i \in 0..n : f[i] = i
  OBVIOUS
<1> HIDE DEF f
<1>4. \A i \in 0..n : f[i] \in S
  BY <1>2, LoopStays
<1>5. QED
  BY <1>3, <1>4

\* What a loop computes is what follows its steps.
SameLoop(f, g, n) == /\ f[0] = g[0]
                     /\ \A i \in 1..n : f[i - 1] = g[i - 1] => f[i] = g[i]

LEMMA LoopIs ==
  ASSUME NEW n \in Nat, NEW f, NEW g, SameLoop(f, g, n)
  PROVE  \A i \in 0..n : f[i] = g[i]
<1> DEFINE Bad == {m \in 0..n : f[m] # g[m]}
<1> SUFFICES ASSUME Bad # {}  PROVE FALSE
  OBVIOUS
<1>0. Bad \in SUBSET Nat
  OBVIOUS
<1>1. PICK m \in Bad : \A k \in Bad : m <= k
  BY <1>0, Least
<1>2. m # 0 /\ m \in 0..n
  BY DEF SameLoop
<1>3. m \in 1..n /\ m - 1 \in 0..n /\ ~(m <= m - 1)
  BY <1>2
<1>4. f[m - 1] = g[m - 1]
  BY <1>1, <1>3
<1>5. QED
  BY <1>3, <1>4 DEF SameLoop
=============================================================================
