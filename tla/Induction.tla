----------------------------- MODULE Induction -----------------------------
(***************************************************************************)
(* Induction over the natural numbers said with sets, and what follows of  *)
(* the folds of the community modules: a fold over 1 .. n has a value for  *)
(* every number of elements, each from the one before.                     *)
(***************************************************************************)
EXTENDS Integers, Sequences, FiniteSetsExt, WellFoundedInduction, NaturalsInduction, TLAPS

\* A set of numbers that is not empty has a least one.
LEMMA LeastNumber ==
    ASSUME NEW S \in SUBSET Nat, S # {}
    PROVE  \E x \in S : \A y \in S : x <= y
<1>1. IsWellFoundedOn(OpToRel(<, Nat), Nat)
  BY NatLessThanWellFounded, Zenon
<1>2. PICK x \in S : \A y \in S : <<y, x>> \notin OpToRel(<, Nat)
  BY <1>1, WFMin
<1>3. \A y \in S : ~ (y < x)
  BY <1>2 DEF OpToRel
<1> QED  BY <1>3

\* A set that holds zero and, with a number, the next holds them all.
LEMMA NumbersReached ==
    ASSUME NEW S, 0 \in S, \A n \in Nat : n \in S => n + 1 \in S
    PROVE  Nat \subseteq S
<1> SUFFICES ASSUME Nat \ S # {}  PROVE  FALSE
  OBVIOUS
<1>1. PICK x \in Nat \ S : \A y \in Nat \ S : x <= y
  BY LeastNumber
<1>2. x # 0 /\ x - 1 \in Nat /\ x - 1 \in S
  BY <1>1
<1>3. (x - 1) + 1 = x
  BY <1>1
<1> QED  BY <1>1, <1>2, <1>3

\* The greatest of a set of numbers up to n.
LEMMA MaxIs ==
    ASSUME NEW n \in Nat, NEW S \in SUBSET (1 .. n), S # {}
    PROVE  Max(S) \in S /\ \A y \in S : y <= Max(S)
<1> DEFINE T == {n - x : x \in S}
<1>1. T \in SUBSET Nat /\ T # {}
  <2>1. \A x \in S : n - x \in Nat
    OBVIOUS
  <2> QED  BY <2>1
<1>2. PICK t \in T : \A y \in T : t <= y
  BY <1>1, LeastNumber
<1>3. PICK x \in S : t = n - x
  BY <1>2
<1>4. \A y \in S : x >= y
  <2> TAKE y \in S
  <2>1. n - x <= n - y
    BY <1>2, <1>3
  <2> QED  BY <2>1
<1>5. Max(S) \in S /\ \A y \in S : Max(S) >= y
  BY <1>4 DEF Max
<1> QED  BY <1>5

\* The least of a set of numbers.
LEMMA MinIs ==
    ASSUME NEW S \in SUBSET Nat, S # {}
    PROVE  Min(S) \in S /\ \A y \in S : Min(S) <= y
BY LeastNumber DEF Min

\* The greatest of the first k numbers is k.
LEMMA MaxOfFirst ==
    ASSUME NEW k \in Nat \ {0}  PROVE  Max(1 .. k) = k /\ (1 .. k) \ {k} = 1 .. k - 1
<1> DEFINE S == 1 .. k
<1>1. S \in SUBSET (1 .. k) /\ k \in S
  OBVIOUS
<1>2. Max(S) \in S /\ \A y \in S : y <= Max(S)
  <2> HIDE DEF S
  <2> QED  BY <1>1, MaxIs
<1>3. Max(S) = k
  BY <1>1, <1>2
<1> QED  BY <1>3

\* A step of a fold over 1 .. n, as a function on a set it does not leave; and the
\* recursive function of such a fold, from the greatest element of a set down.
StepOn(R, n, step) == step \in [(1 .. n) \X R -> R]

FoldOf(R, n, base, step, it) ==
    /\ it \in [SUBSET (1 .. n) -> R]
    /\ \A s \in SUBSET (1 .. n) :
          it[s] = IF s = {} THEN base ELSE step[<<Max(s), it[s \ {Max(s)}]>>]

\* There is such a function.
LEMMA FoldExists ==
    ASSUME NEW n \in Nat, NEW R, NEW base \in R, NEW step, StepOn(R, n, step)
    PROVE  \E it : FoldOf(R, n, base, step, it)
<1> DEFINE Folds(k, it) ==
             /\ it \in [SUBSET (1 .. k) -> R]
             /\ \A s \in SUBSET (1 .. k) :
                   it[s] = IF s = {} THEN base ELSE step[<<Max(s), it[s \ {Max(s)}]>>]
           Has(k) == k <= n => \E it : Folds(k, it)
           T == {k \in Nat : Has(k)}
<1>0. step \in [(1 .. n) \X R -> R]
  BY DEF StepOn
<1>1. 0 \in T
  <2> DEFINE it == [s \in SUBSET (1 .. 0) |-> base]
  <2>1. SUBSET (1 .. 0) = {{}}
    OBVIOUS
  <2>2. Folds(0, it)
    BY <2>1
  <2>3. Has(0)
    BY <2>2
  <2> QED  BY <2>3
<1>2. ASSUME NEW k \in Nat, k \in T  PROVE  k + 1 \in T
  <2> SUFFICES ASSUME k + 1 <= n  PROVE  \E it : Folds(k + 1, it)
    <3> HIDE DEF Folds
    <3> QED  OBVIOUS
  <2>1. PICK f : Folds(k, f)
    <3> HIDE DEF Folds
    <3> QED  BY <1>2
  <2> DEFINE g == [s \in SUBSET (1 .. k + 1) |->
                     IF k + 1 \in s THEN step[<<k + 1, f[s \ {k + 1}]>>] ELSE f[s]]
  <2>2. \A s \in SUBSET (1 .. k + 1) : s \ {k + 1} \in SUBSET (1 .. k)
    OBVIOUS
  <2>3. \A s \in SUBSET (1 .. k + 1) : k + 1 \notin s => s \in SUBSET (1 .. k)
    OBVIOUS
  <2>4. g \in [SUBSET (1 .. k + 1) -> R]
    BY <1>0, <2>1, <2>2, <2>3
  <2>5. \A s \in SUBSET (1 .. k + 1) :
           g[s] = IF k + 1 \in s THEN step[<<k + 1, f[s \ {k + 1}]>>] ELSE f[s]
    OBVIOUS
  <2>6. \A s \in SUBSET (1 .. k) : s \in SUBSET (1 .. k + 1) /\ g[s] = f[s]
    BY <2>5
  <2> HIDE DEF g
  <2>7. ASSUME NEW s \in SUBSET (1 .. k + 1)
        PROVE  g[s] = IF s = {} THEN base ELSE step[<<Max(s), g[s \ {Max(s)}]>>]
    <3>1. CASE k + 1 \in s
      <4>1. Max(s) = k + 1
        <5>1. k + 1 \in Nat /\ s # {}
          BY <3>1
        <5>2. Max(s) \in s /\ \A y \in s : y <= Max(s)
          BY <5>1, MaxIs
        <5>3. Max(s) \in 1 .. k + 1 /\ k + 1 <= Max(s)
          BY <3>1, <5>2
        <5> QED  BY <5>3
      <4>2. g[s \ {k + 1}] = f[s \ {k + 1}]
        BY <2>2, <2>6
      <4> QED  BY <2>5, <3>1, <4>1, <4>2
    <3>2. CASE k + 1 \notin s /\ s # {}
      <4>1. s \in SUBSET (1 .. k) /\ s \ {Max(s)} \in SUBSET (1 .. k)
        BY <2>3, <3>2
      <4>2. f[s] = step[<<Max(s), f[s \ {Max(s)}]>>]
        BY <2>1, <3>2, <4>1
      <4> QED  BY <2>6, <3>2, <4>1, <4>2
    <3>3. CASE s = {}
      <4>1. s \in SUBSET (1 .. k)
        BY <3>3
      <4>2. g[s] = f[s] /\ f[s] = base
        BY <2>1, <2>6, <3>3, <4>1
      <4> QED  BY <3>3, <4>2
    <3> QED  BY <3>1, <3>2, <3>3
  <2>8. Folds(k + 1, g)
    BY <2>4, <2>7
  <2> QED  BY <2>8
<1>3. n \in T
  <2> HIDE DEF T
  <2> QED  BY <1>1, <1>2, NumbersReached
<1>4. PICK it : Folds(n, it)
  <2> HIDE DEF Folds
  <2> QED  BY <1>3
<1> QED  BY <1>4 DEF FoldOf

\* The recursive function of a fold that adds up the numbers v[1], ..., v[n].
SumOf(n, v, it) ==
    \A s \in SUBSET (1 .. n) :
        it[s] = IF s = {} THEN 0 ELSE it[s \ {Max(s)}] + v[Max(s)]

\* There is such a function.
LEMMA SumExists ==
    ASSUME NEW n \in Nat, NEW v \in [1 .. n -> Nat]
    PROVE  \E it \in [SUBSET (1 .. n) -> Nat] : SumOf(n, v, it)
<1> DEFINE step == [x \in (1 .. n) \X Nat |-> x[2] + v[x[1]]]
<1>1. PICK it : FoldOf(Nat, n, 0, step, it)
  <2> StepOn(Nat, n, step)
    BY DEF StepOn
  <2> HIDE DEF step
  <2> QED  BY FoldExists
<1>2. it \in [SUBSET (1 .. n) -> Nat]
  BY <1>1 DEF FoldOf
<1>3. SumOf(n, v, it)
  <2> SUFFICES ASSUME NEW s \in SUBSET (1 .. n), s # {}
               PROVE  it[s] = it[s \ {Max(s)}] + v[Max(s)]
    <3>1. it[{}] = 0
      BY <1>1 DEF FoldOf
    <3> QED  BY <3>1 DEF SumOf
  <2>1. Max(s) \in 1 .. n /\ it[s \ {Max(s)}] \in Nat
    BY <1>2, MaxIs
  <2>2. it[s] = step[<<Max(s), it[s \ {Max(s)}]>>]
    <3> HIDE DEF step
    <3> QED  BY <1>1 DEF FoldOf
  <2> QED  BY <2>1, <2>2
<1> QED  BY <1>2, <1>3

\* The sums p[0], p[1], ... of the first of the numbers v, one after the other.
Sums(n, v, p) ==
    /\ p \in [0 .. n -> Nat] /\ p[0] = 0
    /\ \A k \in 1 .. n : p[k] = p[k - 1] + v[k]

\* Its values on the first k numbers are the sums one after the other.
LEMMA SumSteps ==
    ASSUME NEW n \in Nat, NEW v \in [1 .. n -> Nat], NEW c, SumOf(n, v, c)
    PROVE  \E p : Sums(n, v, p) /\ p[n] = c[1 .. n]
<1> DEFINE p == [k \in 0 .. n |-> c[1 .. k]]
<1>1. c[1 .. 0] = 0
  <2>1. 1 .. 0 = {} /\ {} \in SUBSET (1 .. n)
    OBVIOUS
  <2>2. c[{}] = 0
    BY <2>1 DEF SumOf
  <2> QED  BY <2>1, <2>2
<1>2. ASSUME NEW k \in 1 .. n
      PROVE  c[1 .. k] = c[1 .. k - 1] + v[k]
  <2>1. (1 .. k) \in SUBSET (1 .. n) /\ k \in 1 .. k /\ k \in Nat \ {0}
    OBVIOUS
  <2>2. Max(1 .. k) = k /\ (1 .. k) \ {k} = 1 .. k - 1
    BY <2>1, MaxOfFirst
  <2> QED  BY <2>1, <2>2 DEF SumOf
<1>3. \A k \in 0 .. n : c[1 .. k] \in Nat
  <2> DEFINE T == {k \in Nat : k <= n => c[1 .. k] \in Nat}
  <2>1. 0 \in T
    BY <1>1
  <2>2. \A k \in Nat : k \in T => k + 1 \in T
    <3> TAKE k \in Nat
    <3> HAVE k \in T
    <3>1. ASSUME k + 1 <= n  PROVE  c[1 .. k + 1] \in Nat
      <4>1. k + 1 \in 1 .. n /\ (k + 1) - 1 = k /\ c[1 .. k] \in Nat
        BY <3>1
      <4>2. c[1 .. k + 1] = c[1 .. (k + 1) - 1] + v[k + 1]
        BY <1>2, <4>1
      <4> QED  BY <4>1, <4>2
    <3> QED  BY <3>1
  <2> HIDE DEF T
  <2>3. Nat \subseteq T
    BY <2>1, <2>2, NumbersReached
  <2> QED  BY <2>3 DEF T
<1>4. p \in [0 .. n -> Nat] /\ p[0] = 0 /\ p[n] = c[1 .. n]
  BY <1>1, <1>3
<1>5. \A k \in 1 .. n : p[k] = p[k - 1] + v[k]
  BY <1>2
<1>6. Sums(n, v, p)
  BY <1>4, <1>5 DEF Sums
<1> QED  BY <1>4, <1>6

\* The numbers v and w agree up to j.
Agree(j, v, w) == \A k \in 1 .. j : v[k] = w[k]

\* Sums of the same numbers are the same.
LEMMA SumsAgree ==
    ASSUME NEW n \in Nat, NEW m \in Nat, NEW j \in 0 .. n, j <= m,
           NEW v, NEW w, Agree(j, v, w), NEW p, NEW q, Sums(n, v, p), Sums(m, w, q)
    PROVE  p[j] = q[j]
<1> DEFINE T == {k \in Nat : k <= j => p[k] = q[k]}
<1>1. 0 \in T
  BY DEF Sums
<1>2. ASSUME NEW k \in Nat, k \in T  PROVE  k + 1 \in T
  <2>1. ASSUME k + 1 <= j  PROVE  p[k + 1] = q[k + 1]
    <3>1. k + 1 \in 1 .. n /\ k + 1 \in 1 .. m /\ (k + 1) - 1 = k /\ p[k] = q[k]
      BY <1>2, <2>1
    <3>2. p[k + 1] = p[k] + v[k + 1] /\ q[k + 1] = q[k] + w[k + 1] /\ v[k + 1] = w[k + 1]
      BY <2>1, <3>1 DEF Sums, Agree
    <3> QED  BY <3>1, <3>2
  <2> QED  BY <2>1
<1> HIDE DEF T
<1>3. j \in T
  BY <1>1, <1>2, NumbersReached
<1> QED  BY <1>3 DEF T

\* The sums do not fall.
LEMMA SumsRise ==
    ASSUME NEW n \in Nat, NEW v \in [1 .. n -> Nat], NEW p, Sums(n, v, p),
           NEW i \in 0 .. n, NEW j \in i .. n
    PROVE  p[i] <= p[j]
<1> DEFINE T == {k \in Nat : i + k <= n => p[i] <= p[i + k]}
<1>1. 0 \in T
  BY DEF Sums
<1>2. ASSUME NEW k \in Nat, k \in T  PROVE  k + 1 \in T
  <2>1. ASSUME i + (k + 1) <= n  PROVE  p[i] <= p[i + (k + 1)]
    <3>1. /\ i + k + 1 \in 1 .. n /\ (i + k + 1) - 1 = i + k /\ i + k \in 0 .. n
          /\ i + (k + 1) = i + k + 1 /\ p[i] <= p[i + k]
      BY <1>2, <2>1
    <3>2. p[i + k + 1] = p[i + k] + v[i + k + 1]
      BY <3>1 DEF Sums
    <3>3. p[i] \in Nat /\ p[i + k] \in Nat /\ v[i + k + 1] \in Nat
      BY <3>1 DEF Sums
    <3> QED  BY <3>1, <3>2, <3>3
  <2> QED  BY <2>1
<1> HIDE DEF T
<1>3. j - i \in Nat /\ i + (j - i) = j
  OBVIOUS
<1>4. j - i \in T
  BY <1>1, <1>2, <1>3, NumbersReached
<1> QED  BY <1>3, <1>4 DEF T
=============================================================================
