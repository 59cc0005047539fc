-------------------------- MODULE ArithmeticProofs --------------------------
(***************************************************************************)
(* Induction on numbers, and what it yields for the recursive definitions  *)
(* of the other modules: powers, sums over functions and the values of     *)
(* numerals.                                                               *)
(*                                                                         *)
(* The library states induction for a predicate P(_).  Here it is stated   *)
(* for a set, which the provers can instantiate: the least number that is  *)
(* not in the set has no predecessor, so it cannot be there.               *)
(***************************************************************************)
EXTENDS Arithmetic, Sequences, Functions, FiniteSetTheorems, WellFoundedInduction, TLAPS

(* Every set of numbers that is not empty has a least element. *)
LEMMA LeastNumber ==
  ASSUME NEW T \in SUBSET Nat, T # {}
  PROVE  \E x \in T : \A y \in T : x <= y
<1> DEFINE Less == OpToRel(<, Nat)
<1>1. \E x \in T : \A y \in T : <<y, x>> \notin Less
  BY NatLessThanWellFounded, WFMin
<1>2. \A x, y \in Nat : y < x => <<y, x>> \in Less
  BY DEF OpToRel
<1> HIDE DEF Less
<1>3. PICK x \in T : \A y \in T : <<y, x>> \notin Less
  BY <1>1
<1>4. ASSUME NEW y \in T
      PROVE  x <= y
  <2>1. x \in Nat /\ y \in Nat
    OBVIOUS
  <2>2. ~ (y < x)
    BY <1>2, <1>3, <2>1, Zenon
  <2> QED
    BY <2>1, <2>2
<1> QED
  BY <1>3, <1>4

LEMMA InductionOnSet ==
  ASSUME NEW S, 0 \in S, \A n \in Nat : n \in S => n + 1 \in S
  PROVE  \A n \in Nat : n \in S
<1> DEFINE Missing == {n \in Nat : n \notin S}
<1> SUFFICES ASSUME Missing # {} PROVE FALSE
  OBVIOUS
<1>1. PICK n \in Missing : \A m \in Missing : n <= m
  BY LeastNumber
<1>2. n # 0 /\ n - 1 \in Nat /\ n - 1 \notin Missing
  BY <1>1
<1> QED
  BY <1>2

-----------------------------------------------------------------------------
(* Functions defined by recursion on numbers. *)

\* g follows the recursion up to n.
Follows(g, n, base, step) ==
  /\ g \in [0 .. n -> Nat]
  /\ g[0] = base
  /\ \A m \in 0 .. n - 1 : g[m + 1] = step[g[m]]

LEMMA FollowsUnique ==
  ASSUME NEW base, NEW step, NEW n \in Nat, NEW k \in 0 .. n, NEW f, NEW g,
         Follows(f, n, base, step), Follows(g, k, base, step)
  PROVE  \A m \in 0 .. k : f[m] = g[m]
<1> DEFINE S == {m \in Nat : m <= k => f[m] = g[m]}
<1>1. 0 \in S
  BY DEF Follows
<1>2. ASSUME NEW m \in Nat, m \in S
      PROVE  m + 1 \in S
  <2> SUFFICES ASSUME m + 1 <= k PROVE f[m + 1] = g[m + 1]
    OBVIOUS
  <2>1. m \in 0 .. k - 1 /\ m \in 0 .. n - 1 /\ f[m] = g[m]
    BY <1>2
  <2> QED
    BY <2>1 DEF Follows
<1>3. \A m \in Nat : m \in S
  <2> HIDE DEF S
  <2> QED BY <1>1, <1>2, InductionOnSet
<1> QED
  BY <1>3

LEMMA FollowsExists ==
  ASSUME NEW base \in Nat, NEW step \in [Nat -> Nat]
  PROVE  \A n \in Nat : \E g : Follows(g, n, base, step)
<1> DEFINE S == {n \in Nat : \E g : Follows(g, n, base, step)}
<1>1. 0 \in S
  <2>1. Follows([m \in 0 .. 0 |-> base], 0, base, step)
    BY DEF Follows
  <2> QED
    BY <2>1
<1>2. ASSUME NEW n \in Nat, n \in S
      PROVE  n + 1 \in S
  <2>1. PICK g : Follows(g, n, base, step)
    BY <1>2
  <2> DEFINE h == [m \in 0 .. n + 1 |-> IF m = n + 1 THEN step[g[n]] ELSE g[m]]
  <2>2. g \in [0 .. n -> Nat] /\ g[n] \in Nat /\ step[g[n]] \in Nat
    BY <2>1 DEF Follows
  <2>3. h \in [0 .. n + 1 -> Nat]
    <3>1. ASSUME NEW m \in 0 .. n + 1, m # n + 1
          PROVE  g[m] \in Nat
      <4>1. m \in 0 .. n
        BY <3>1
      <4> QED
        BY <2>2, <4>1
    <3>2. \A m \in 0 .. n + 1 : (IF m = n + 1 THEN step[g[n]] ELSE g[m]) \in Nat
      BY <2>2, <3>1, Zenon
    <3> QED
      BY <3>2, Zenon
  <2>4. h[0] = base
    <3>1. 0 \in 0 .. n + 1 /\ 0 # n + 1
      OBVIOUS
    <3>2. g[0] = base
      BY <2>1 DEF Follows
    <3> QED
      BY <3>1, <3>2, Zenon
  <2>5. ASSUME NEW m \in 0 .. (n + 1) - 1
        PROVE  h[m + 1] = step[h[m]]
    <3>1. CASE m = n
      BY <3>1
    <3>2. CASE m # n
      <4>1. m \in 0 .. n - 1 /\ m + 1 # n + 1 /\ m # n + 1
        BY <3>2
      <4>2. h[m + 1] = g[m + 1] /\ h[m] = g[m]
        BY <4>1
      <4> QED
        BY <2>1, <4>1, <4>2 DEF Follows
    <3> QED
      BY <3>1, <3>2
  <2>6. Follows(h, n + 1, base, step)
    <3> HIDE DEF h
    <3> QED BY <2>3, <2>4, <2>5 DEF Follows
  <2> QED
    BY <2>6
<1>3. \A n \in Nat : n \in S
  <2> HIDE DEF S
  <2> QED BY <1>1, <1>2, InductionOnSet
<1> QED
  BY <1>3

(* There is a function for every start and every step. *)
LEMMA Recursion ==
  ASSUME NEW base \in Nat, NEW step \in [Nat -> Nat]
  PROVE  \E f \in [Nat -> Nat] : f[0] = base /\ \A n \in Nat : f[n + 1] = step[f[n]]
<1> DEFINE G(n) == CHOOSE g : Follows(g, n, base, step)
           f == [n \in Nat |-> G(n)[n]]
<1>1. \A n \in Nat : Follows(G(n), n, base, step)
  BY FollowsExists
<1>2. ASSUME NEW n \in Nat
      PROVE  G(n)[n] \in Nat
  <2>1. Follows(G(n), n, base, step) /\ n \in 0 .. n
    BY <1>1
  <2> HIDE DEF G
  <2> QED BY <2>1 DEF Follows
<1>3. G(0)[0] = base
  BY <1>1 DEF Follows
<1>4. ASSUME NEW n \in Nat
      PROVE  G(n + 1)[n + 1] = step[G(n)[n]]
  <2>1. Follows(G(n + 1), n + 1, base, step) /\ Follows(G(n), n, base, step)
    BY <1>1
  <2>2. n \in 0 .. n + 1 /\ n \in 0 .. n /\ n \in 0 .. (n + 1) - 1 /\ n + 1 \in Nat
    OBVIOUS
  <2> HIDE DEF G
  <2>3. G(n + 1)[n] = G(n)[n]
    BY <2>1, <2>2, FollowsUnique
  <2>4. G(n + 1)[n + 1] = step[G(n + 1)[n]]
    BY <2>1, <2>2 DEF Follows
  <2> QED
    BY <2>3, <2>4
<1> HIDE DEF G
<1>5. f \in [Nat -> Nat]
  BY <1>2
<1>6. f[0] = base /\ \A n \in Nat : f[n + 1] = step[f[n]]
  BY <1>3, <1>4
<1> QED
  BY <1>5, <1>6

-----------------------------------------------------------------------------
(* Powers. *)

LEMMA PowLaws ==
  ASSUME NEW b \in Nat
  PROVE  /\ Pow(b, 0) = 1
         /\ \A k \in Nat : Pow(b, k) \in Nat /\ Pow(b, k + 1) = b * Pow(b, k)
<1> DEFINE Solves(p) == p = [n \in Nat |-> IF n = 0 THEN 1 ELSE b * p[n - 1]]
           power == CHOOSE p : Solves(p)
<1>1. PICK f \in [Nat -> Nat] : f[0] = 1 /\ \A n \in Nat : f[n + 1] = b * f[n]
  <2> DEFINE step == [v \in Nat |-> b * v]
  <2>1. step \in [Nat -> Nat] /\ 1 \in Nat /\ \A v \in Nat : step[v] = b * v
    OBVIOUS
  <2> HIDE DEF step
  <2>2. PICK f \in [Nat -> Nat] : f[0] = 1 /\ \A n \in Nat : f[n + 1] = step[f[n]]
    BY <2>1, Recursion
  <2> QED
    BY <2>1, <2>2
<1>2. f = [n \in Nat |-> IF n = 0 THEN 1 ELSE b * f[n - 1]]
  <2>1. ASSUME NEW n \in Nat \ {0}
        PROVE  f[n] = b * f[n - 1]
    <3>1. n - 1 \in Nat /\ (n - 1) + 1 = n
      OBVIOUS
    <3>2. f[(n - 1) + 1] = b * f[n - 1]
      BY <1>1, <3>1
    <3> QED
      BY <3>1, <3>2
  <2> QED
    BY <1>1, <2>1
<1>3. Solves(f)
  BY <1>2
<1>4. Solves(power)
  <2> HIDE DEF Solves
  <2> QED BY <1>3
<1>5. \A k : Pow(b, k) = power[k]
  BY DEF Pow
<1>6. power[0] = 1 /\ \A k \in Nat : power[k + 1] = b * power[k]
  <2> HIDE DEF power
  <2>1. ASSUME NEW k \in Nat
        PROVE  power[k + 1] = b * power[k]
    <3>1. k + 1 \in Nat /\ k + 1 # 0 /\ (k + 1) - 1 = k
      OBVIOUS
    <3> QED
      BY <1>4, <3>1
  <2> QED
    BY <1>4, <2>1
<1>7. \A k \in Nat : power[k] \in Nat
  <2> HIDE DEF power
  <2> DEFINE S == {k \in Nat : power[k] \in Nat}
  <2>1. 0 \in S /\ \A k \in Nat : k \in S => k + 1 \in S
    BY <1>6
  <2> QED
    BY <2>1, InductionOnSet
<1> QED
  <2> HIDE DEF power
  <2> QED BY <1>5, <1>6, <1>7

LEMMA PowPositive ==
  ASSUME NEW b \in Nat \ {0}
  PROVE  \A k \in Nat : Pow(b, k) > 0
<1> DEFINE S == {k \in Nat : Pow(b, k) > 0}
<1>1. 0 \in S
  BY PowLaws
<1>2. ASSUME NEW k \in Nat, k \in S
      PROVE  k + 1 \in S
  <2>1. Pow(b, k) \in Nat /\ Pow(b, k) > 0 /\ Pow(b, k + 1) = b * Pow(b, k)
    BY <1>2, PowLaws
  <2> QED
    BY <2>1
<1> QED
  <2> HIDE DEF S
  <2>1. \A k \in Nat : k \in S
    BY <1>1, <1>2, InductionOnSet
  <2> QED
    BY <2>1 DEF S

\* Doubling gets anywhere.
LEMMA PowExceeds ==
  ASSUME NEW b \in Nat, b >= 2
  PROVE  \A k \in Nat : Pow(b, k) > k
<1> DEFINE S == {k \in Nat : Pow(b, k) > k}
<1>1. 0 \in S
  BY PowLaws
<1>2. ASSUME NEW k \in Nat, k \in S
      PROVE  k + 1 \in S
  <2>1. Pow(b, k) \in Nat /\ Pow(b, k) > k /\ Pow(b, k + 1) = b * Pow(b, k)
    BY <1>2, PowLaws
  <2>2. \A v \in Nat : v > k => b * v >= 2 * v
    OBVIOUS
  <2> QED
    BY <2>1, <2>2
<1> QED
  <2> HIDE DEF S
  <2>1. \A k \in Nat : k \in S
    BY <1>1, <1>2, InductionOnSet
  <2> QED
    BY <2>1 DEF S

LEMMA PowAdd ==
  ASSUME NEW b \in Nat, NEW i \in Nat
  PROVE  \A j \in Nat : Pow(b, i + j) = Pow(b, i) * Pow(b, j)
<1> DEFINE S == {j \in Nat : Pow(b, i + j) = Pow(b, i) * Pow(b, j)}
<1>1. 0 \in S
  BY PowLaws
<1>2. ASSUME NEW j \in Nat, j \in S
      PROVE  j + 1 \in S
  <2>1. i + j \in Nat /\ i + (j + 1) = (i + j) + 1
    OBVIOUS
  <2>2. /\ Pow(b, i) \in Nat /\ Pow(b, j) \in Nat /\ Pow(b, i + j) \in Nat
        /\ Pow(b, j + 1) = b * Pow(b, j) /\ Pow(b, (i + j) + 1) = b * Pow(b, i + j)
    BY <2>1, PowLaws
  <2>3. \A u, v \in Nat : b * (u * v) = u * (b * v)
    OBVIOUS
  <2> QED
    BY <1>2, <2>1, <2>2, <2>3
<1> QED
  <2> HIDE DEF S
  <2>1. \A j \in Nat : j \in S
    BY <1>1, <1>2, InductionOnSet
  <2> QED
    BY <2>1 DEF S

-----------------------------------------------------------------------------
(* Sums.  The library's fold takes the elements of a set one by one, in the
   order of CHOOSE.  It yields what any function does that adds an element's
   value whichever element is taken. *)

Additive(g, f, S) ==
  /\ g \in [SUBSET S -> Nat]
  /\ g[{}] = 0
  /\ \A s \in SUBSET S : \A x \in s : g[s] = f[x] + g[s \ {x}]

LEMMA AdditiveExtends ==
  ASSUME NEW f, NEW T, NEW z, z \notin T, NEW g, Additive(g, f, T),
         \A x \in T \union {z} : f[x] \in Nat
  PROVE  \E h : Additive(h, f, T \union {z})
<1> DEFINE U == T \union {z}
           h == [s \in SUBSET U |-> IF z \in s THEN f[z] + g[s \ {z}] ELSE g[s]]
<1>0. ASSUME NEW s \in SUBSET U
      PROVE  s \ {z} \in SUBSET T /\ (z \notin s => s \in SUBSET T)
  OBVIOUS
<1>1. \A s \in SUBSET T : g[s] \in Nat
  BY DEF Additive
<1>2. h \in [SUBSET U -> Nat]
  BY <1>0, <1>1
<1>3. h[{}] = 0
  BY DEF Additive
<1>4. ASSUME NEW s \in SUBSET U, NEW x \in s
      PROVE  h[s] = f[x] + h[s \ {x}]
  <2>0. s \ {x} \in SUBSET U
    OBVIOUS
  <2>1. CASE x = z
    <3>1. h[s] = f[z] + g[s \ {z}]
      BY <2>1
    <3>2. h[s \ {z}] = g[s \ {z}]
      BY <2>0, <2>1
    <3> QED
      BY <2>1, <3>1, <3>2
  <2>2. CASE x # z /\ z \in s
    <3>1. h[s] = f[z] + g[s \ {z}] /\ h[s \ {x}] = f[z] + g[(s \ {x}) \ {z}]
      BY <2>0, <2>2
    <3>2. s \ {z} \in SUBSET T /\ x \in s \ {z} /\ (s \ {z}) \ {x} = (s \ {x}) \ {z}
      BY <1>0, <2>2
    <3>3. g[s \ {z}] = f[x] + g[(s \ {x}) \ {z}]
      <4>1. g[s \ {z}] = f[x] + g[(s \ {z}) \ {x}]
        BY <3>2 DEF Additive
      <4> QED
        BY <3>2, <4>1
    <3>4. /\ g[s \ {z}] \in Nat /\ g[(s \ {x}) \ {z}] \in Nat
      BY <1>1, <3>2
    <3>5. f[x] \in Nat /\ f[z] \in Nat
      OBVIOUS
    <3> QED
      BY <3>1, <3>3, <3>4, <3>5
  <2>3. CASE z \notin s
    <3>1. h[s] = g[s] /\ h[s \ {x}] = g[s \ {x}] /\ s \in SUBSET T
      BY <1>0, <2>0, <2>3
    <3> QED
      BY <3>1 DEF Additive
  <2> QED
    BY <2>1, <2>2, <2>3
<1>5. Additive(h, f, U)
  <2> HIDE DEF h, U
  <2> QED BY <1>2, <1>3, <1>4 DEF Additive
<1> QED
  BY <1>5

LEMMA AdditiveExists ==
  ASSUME NEW S, IsFiniteSet(S), NEW f, \A x \in S : f[x] \in Nat
  PROVE  \E g : Additive(g, f, S)
<1> DEFINE Sizes == {n \in Nat : \A T \in SUBSET S :
                       Cardinality(T) = n => \E g : Additive(g, f, T)}
<1>0. \A T \in SUBSET S : IsFiniteSet(T) /\ Cardinality(T) \in Nat
  BY FS_Subset, FS_CardinalityType
<1>1. 0 \in Sizes
  <2> SUFFICES ASSUME NEW T \in SUBSET S, Cardinality(T) = 0
               PROVE  \E g : Additive(g, f, T)
    OBVIOUS
  <2>1. T = {}
    BY <1>0, FS_EmptySet
  <2>2. Additive([s \in SUBSET T |-> 0], f, T)
    BY <2>1 DEF Additive
  <2> QED
    BY <2>2
<1>2. ASSUME NEW n \in Nat, n \in Sizes
      PROVE  n + 1 \in Sizes
  <2> SUFFICES ASSUME NEW T \in SUBSET S, Cardinality(T) = n + 1
               PROVE  \E g : Additive(g, f, T)
    OBVIOUS
  <2>1. PICK z \in T : TRUE
    BY FS_EmptySet
  <2> DEFINE R == T \ {z}
  <2>2. R \in SUBSET S /\ Cardinality(R) = n
    <3>1. IsFiniteSet(T) /\ z \in T
      BY <1>0, <2>1
    <3>2. Cardinality(R) = Cardinality(T) - 1
      BY <3>1, FS_RemoveElement
    <3> QED
      BY <3>2
  <2>3. PICK g : Additive(g, f, R)
    BY <1>2, <2>2
  <2>4. z \notin R /\ T = R \union {z} /\ \A x \in R \union {z} : f[x] \in Nat
    BY <2>1
  <2> HIDE DEF R
  <2> QED
    BY <2>3, <2>4, AdditiveExtends
<1>3. \A n \in Nat : n \in Sizes
  <2> HIDE DEF Sizes
  <2> QED BY <1>1, <1>2, InductionOnSet
<1> QED
  BY <1>0, <1>3

\* What the fold computes for every subset of S.
FoldsTo(h, f, S) ==
  h = [s \in SUBSET S |-> IF s = {} THEN 0
                          ELSE f[CHOOSE x \in s : TRUE] + h[s \ {CHOOSE x \in s : TRUE}]]

LEMMA SumFolds ==
  ASSUME NEW S, NEW f, NEW g, FoldsTo(g, f, S)
  PROVE  \E h : FoldsTo(h, f, S) /\ SumFunctionOnSet(f, S) = h[S]
BY Zenon DEF FoldsTo, SumFunctionOnSet, FoldFunctionOnSet, MapThenFoldSet

LEMMA AdditiveFolds ==
  ASSUME NEW S, NEW f, NEW g, Additive(g, f, S)
  PROVE  FoldsTo(g, f, S)
<1>1. ASSUME NEW s \in SUBSET S, s # {}
      PROVE  g[s] = f[CHOOSE x \in s : TRUE] + g[s \ {CHOOSE x \in s : TRUE}]
  <2>1. (CHOOSE x \in s : TRUE) \in s
    BY <1>1
  <2> DEFINE c == CHOOSE x \in s : TRUE
  <2> HIDE DEF c
  <2>2. c \in s => g[s] = f[c] + g[s \ {c}]
    BY DEF Additive
  <2> USE DEF c
  <2> QED
    BY <2>1, <2>2
<1>2. g \in [SUBSET S -> Nat] /\ g[{}] = 0
  BY DEF Additive
<1> QED
  BY <1>1, <1>2 DEF FoldsTo

LEMMA FoldsAgree ==
  ASSUME NEW S, IsFiniteSet(S), NEW f, NEW g, NEW h, Additive(g, f, S), FoldsTo(h, f, S)
  PROVE  \A s \in SUBSET S : h[s] = g[s]
<1> DEFINE Sizes == {n \in Nat : \A s \in SUBSET S : Cardinality(s) = n => h[s] = g[s]}
<1>0. \A s \in SUBSET S : IsFiniteSet(s) /\ Cardinality(s) \in Nat
  BY FS_Subset, FS_CardinalityType
<1>1. 0 \in Sizes
  <2>1. \A s \in SUBSET S : Cardinality(s) = 0 => s = {}
    BY <1>0, FS_EmptySet
  <2>2. g[{}] = 0 /\ h[{}] = 0
    BY DEF Additive, FoldsTo
  <2> QED
    BY <2>1, <2>2
<1>2. ASSUME NEW n \in Nat, n \in Sizes
      PROVE  n + 1 \in Sizes
  <2> SUFFICES ASSUME NEW s \in SUBSET S, Cardinality(s) = n + 1
               PROVE  h[s] = g[s]
    OBVIOUS
  <2>1. s # {}
    BY FS_EmptySet
  <2> DEFINE c == CHOOSE x \in s : TRUE
  <2>2. c \in s
    BY <2>1
  <2>3. h[s] = f[c] + h[s \ {c}]
    BY <2>1 DEF FoldsTo
  <2> HIDE DEF c
  <2>4. s \ {c} \in SUBSET S /\ Cardinality(s \ {c}) = n
    <3>1. IsFiniteSet(s)
      BY <1>0
    <3>2. Cardinality(s \ {c}) = Cardinality(s) - 1
      BY <2>2, <3>1, FS_RemoveElement
    <3>3. (n + 1) - 1 = n
      OBVIOUS
    <3> QED
      BY <3>2, <3>3
  <2>5. h[s \ {c}] = g[s \ {c}]
    BY <1>2, <2>4
  <2>6. g[s] = f[c] + g[s \ {c}]
    BY <2>2 DEF Additive
  <2> QED
    BY <2>3, <2>5, <2>6
<1>3. \A n \in Nat : n \in Sizes
  <2> HIDE DEF Sizes
  <2> QED BY <1>1, <1>2, InductionOnSet
<1> QED
  BY <1>0, <1>3

\* The fold over a subset is the value of any additive function.
LEMMA SumIsAdditive ==
  ASSUME NEW S, IsFiniteSet(S), NEW f, NEW g, Additive(g, f, S), NEW T \in SUBSET S
  PROVE  SumFunctionOnSet(f, T) = g[T]
<1> DEFINE gT == [s \in SUBSET T |-> g[s]]
<1>1. Additive(gT, f, T)
  <2>1. \A s \in SUBSET T : s \in SUBSET S /\ g[s] \in Nat
    BY DEF Additive
  <2>2. gT \in [SUBSET T -> Nat] /\ gT[{}] = 0
    BY <2>1 DEF Additive
  <2>3. ASSUME NEW s \in SUBSET T, NEW x \in s
        PROVE  gT[s] = f[x] + gT[s \ {x}]
    <3>1. s \ {x} \in SUBSET T
      OBVIOUS
    <3> QED
      BY <2>1, <3>1 DEF Additive
  <2> HIDE DEF gT
  <2> QED
    BY <2>2, <2>3 DEF Additive
<1>2. gT[T] = g[T]
  OBVIOUS
<1> HIDE DEF gT
<1>3. PICK h : FoldsTo(h, f, T) /\ SumFunctionOnSet(f, T) = h[T]
  BY <1>1, AdditiveFolds, SumFolds
<1>4. h[T] = gT[T]
  BY <1>1, <1>3, FS_Subset, FoldsAgree
<1> QED
  BY <1>2, <1>3, <1>4

(* A sum over a finite set: it is a number, it is 0 for no elements, and any
   element can be taken out of it. *)
LEMMA SumLaws ==
  ASSUME NEW S, IsFiniteSet(S), NEW f, \A x \in S : f[x] \in Nat
  PROVE  /\ SumFunctionOnSet(f, S) \in Nat
         /\ S = {} => SumFunctionOnSet(f, S) = 0
         /\ \A x \in S :
              SumFunctionOnSet(f, S) = f[x] + SumFunctionOnSet(f, S \ {x})
<1>1. PICK g : Additive(g, f, S)
  BY AdditiveExists
<1>2. \A T \in SUBSET S : SumFunctionOnSet(f, T) = g[T]
  BY <1>1, SumIsAdditive
<1> QED
  BY <1>1, <1>2 DEF Additive

\* A sum depends only on the values that are summed.
LEMMA SumCongruence ==
  ASSUME NEW S, IsFiniteSet(S), NEW f, NEW h,
         \A x \in S : f[x] \in Nat /\ h[x] = f[x]
  PROVE  SumFunctionOnSet(h, S) = SumFunctionOnSet(f, S)
<1>1. PICK g : Additive(g, f, S)
  BY AdditiveExists
<1>2. Additive(g, h, S)
  BY <1>1 DEF Additive
<1>3. S \in SUBSET S
  OBVIOUS
<1> QED
  BY <1>1, <1>2, <1>3, SumIsAdditive

LEMMA SumOfSeq ==
  ASSUME NEW s \in Seq(Nat)
  PROVE  /\ SumFunction(s) \in Nat
         /\ SumFunction(s) = SumFunctionOnSet(s, 1 .. Len(s))
<1>1. IsFiniteSet(1 .. Len(s)) /\ DOMAIN s = 1 .. Len(s)
  BY FS_Interval
<1>2. \A i \in 1 .. Len(s) : s[i] \in Nat
  OBVIOUS
<1>3. SumFunctionOnSet(s, 1 .. Len(s)) \in Nat
  BY <1>1, <1>2, SumLaws
<1> QED
  BY <1>1, <1>3 DEF SumFunction

LEMMA SumOfEmpty == SumFunction(<<>>) = 0
<1>1. DOMAIN <<>> = {} /\ IsFiniteSet({})
  BY FS_EmptySet
<1>2. SumFunctionOnSet(<<>>, {}) = 0
  BY <1>1, SumLaws
<1> QED
  BY <1>1, <1>2 DEF SumFunction

LEMMA SumOfAppend ==
  ASSUME NEW s \in Seq(Nat), NEW x \in Nat
  PROVE  SumFunction(Append(s, x)) = SumFunction(s) + x
<1> DEFINE n == Len(s)
           t == Append(s, x)
<1>1. t \in Seq(Nat) /\ Len(t) = n + 1 /\ t[n + 1] = x /\ n \in Nat
  OBVIOUS
<1>2. \A i \in 1 .. n : s[i] \in Nat /\ t[i] = s[i]
  OBVIOUS
<1>3. (1 .. n + 1) \ {n + 1} = 1 .. n /\ n + 1 \in 1 .. n + 1
  BY <1>1
<1>4. IsFiniteSet(1 .. n) /\ IsFiniteSet(1 .. n + 1)
  BY <1>1, FS_Interval
<1>5. \A i \in 1 .. n + 1 : t[i] \in Nat
  BY <1>1
<1> HIDE DEF n, t
<1>6. SumFunctionOnSet(t, 1 .. n + 1) = t[n + 1] + SumFunctionOnSet(t, 1 .. n)
  <2>1. SumFunctionOnSet(t, 1 .. n + 1)
          = t[n + 1] + SumFunctionOnSet(t, (1 .. n + 1) \ {n + 1})
    BY <1>3, <1>4, <1>5, SumLaws
  <2> QED
    BY <1>3, <2>1
<1>7. SumFunctionOnSet(t, 1 .. n) = SumFunctionOnSet(s, 1 .. n)
  BY <1>2, <1>4, SumCongruence
<1>8. SumFunction(t) = x + SumFunction(s) /\ SumFunction(s) \in Nat
  BY <1>1, <1>6, <1>7, SumOfSeq DEF n
<1> QED
  BY <1>8 DEF t

LEMMA SumOfRepeat ==
  ASSUME NEW s \in Seq(Nat), NEW c \in Nat
  PROVE  \A k \in Nat :
           /\ s \o [i \in 1 .. k |-> c] \in Seq(Nat)
           /\ SumFunction(s \o [i \in 1 .. k |-> c]) = SumFunction(s) + k * c
<1> DEFINE t(k) == s \o [i \in 1 .. k |-> c]
           S == {k \in Nat : t(k) \in Seq(Nat) /\ SumFunction(t(k)) = SumFunction(s) + k * c}
<1>0. SumFunction(s) \in Nat
  BY SumOfSeq
<1>1. 0 \in S
  <2>1. t(0) = s
    OBVIOUS
  <2> QED
    BY <1>0, <2>1
<1>2. ASSUME NEW k \in Nat, k \in S
      PROVE  k + 1 \in S
  <2>1. t(k + 1) = Append(t(k), c)
    OBVIOUS
  <2>2. t(k) \in Seq(Nat) /\ SumFunction(t(k)) = SumFunction(s) + k * c
    BY <1>2
  <2>3. (k + 1) * c = k * c + c /\ k * c \in Nat
    OBVIOUS
  <2>4. SumFunction(t(k + 1)) = SumFunction(t(k)) + c /\ t(k + 1) \in Seq(Nat)
    <3>1. \A u \in Seq(Nat) :
            Append(u, c) \in Seq(Nat) /\ SumFunction(Append(u, c)) = SumFunction(u) + c
      BY SumOfAppend
    <3> HIDE DEF t
    <3> QED
      BY <2>1, <2>2, <3>1
  <2> HIDE DEF t
  <2> QED
    BY <1>0, <2>2, <2>3, <2>4
<1>3. \A k \in Nat : k \in S
  <2> HIDE DEF S
  <2> QED BY <1>1, <1>2, InductionOnSet
<1> QED
  BY <1>3

-----------------------------------------------------------------------------
(* Decimal numerals. *)

LEMMA QuotientIs ==
  ASSUME NEW a \in Nat, NEW b \in Nat \ {0}, NEW q \in Nat,
         q * b <= a, a < (q + 1) * b
  PROVE  a \div b = q
<1> DEFINE k == a \div b
<1>1. k \in Nat /\ k * b <= a /\ a < (k + 1) * b
  OBVIOUS
<1> HIDE DEF k
<1>2. \A m, n \in Nat : m <= n => m * b <= n * b
  OBVIOUS
<1>3. k < q + 1
  <2> SUFFICES ASSUME q + 1 <= k PROVE FALSE
    BY <1>1
  <2>1. (q + 1) * b <= k * b
    BY <1>1, <1>2
  <2>2. (q + 1) * b \in Nat /\ k * b \in Nat
    BY <1>1
  <2> QED
    BY <1>1, <2>1, <2>2
<1>4. q < k + 1
  <2> SUFFICES ASSUME k + 1 <= q PROVE FALSE
    BY <1>1
  <2>1. (k + 1) * b <= q * b
    BY <1>1, <1>2
  <2>2. (k + 1) * b \in Nat /\ q * b \in Nat
    BY <1>1
  <2> QED
    BY <1>1, <2>1, <2>2
<1>5. k = q
  BY <1>1, <1>3, <1>4
<1> QED
  BY <1>5 DEF k

LEMMA MultipleDivides ==
  ASSUME NEW a \in Nat, NEW b \in Nat \ {0}
  PROVE  (a * b) % b = 0
<1>1. a * b \in Nat /\ (a + 1) * b = a * b + b
  OBVIOUS
<1>2. (a * b) \div b = a
  <2> DEFINE p == a * b
  <2>1. p \in Nat /\ a * b <= p /\ p < (a + 1) * b
    BY <1>1
  <2> QED
    BY <2>1, QuotientIs
<1>3. \A p \in Nat : p % b = p - b * (p \div b)
  OBVIOUS
<1> QED
  BY <1>1, <1>2, <1>3

LEMMA SmallRemainder ==
  ASSUME NEW a \in Nat, NEW b \in Nat, a < b
  PROVE  a % b = a
OBVIOUS

\* v[j] is the number that the first j of n digits spell.
Spells(v, digits, n) ==
  /\ v \in [0 .. n -> Nat]
  /\ v[0] = 0
  /\ \A j \in 0 .. n - 1 : v[j + 1] = 10 * v[j] + digits[j + 1]

LEMMA PowersOfTen ==
  /\ Pow(10, 0) = 1
  /\ \A k \in Nat : Pow(10, k) \in Nat \ {0} /\ Pow(10, k + 1) = 10 * Pow(10, k)
<1>1. 10 \in Nat /\ 10 \in Nat \ {0}
  OBVIOUS
<1>2. /\ Pow(10, 0) = 1
      /\ \A k \in Nat : Pow(10, k) \in Nat /\ Pow(10, k + 1) = 10 * Pow(10, k)
  BY <1>1, PowLaws, Zenon
<1>3. \A k \in Nat : Pow(10, k) > 0
  BY <1>1, PowPositive, Zenon
<1> QED
  BY <1>2, <1>3

(* The number n digits spell begins with that of the first i of them. *)
LEMMA PrefixBounds ==
  ASSUME NEW n \in Nat, NEW digits \in [1 .. n -> 0 .. 9], NEW v, Spells(v, digits, n),
         NEW i \in 0 .. n
  PROVE  \A k \in Nat : i + k <= n =>
           /\ v[i] * Pow(10, k) <= v[i + k]
           /\ v[i + k] < (v[i] + 1) * Pow(10, k)
<1> DEFINE S == {k \in Nat : i + k <= n =>
                   /\ v[i] * Pow(10, k) <= v[i + k]
                   /\ v[i + k] < (v[i] + 1) * Pow(10, k)}
<1>0. \A j \in 0 .. n : v[j] \in Nat
  BY DEF Spells
<1>1. 0 \in S
  <2>1. Pow(10, 0) = 1 /\ i + 0 = i /\ v[i] \in Nat
    BY <1>0, PowersOfTen
  <2> QED
    BY <2>1
<1>2. ASSUME NEW k \in Nat, k \in S
      PROVE  k + 1 \in S
  <2> SUFFICES ASSUME i + (k + 1) <= n
               PROVE  /\ v[i] * Pow(10, k + 1) <= v[i + (k + 1)]
                      /\ v[i + (k + 1)] < (v[i] + 1) * Pow(10, k + 1)
    OBVIOUS
  <2>1. /\ i + k \in 0 .. n - 1 /\ i + (k + 1) = (i + k) + 1
        /\ i + k \in 0 .. n /\ (i + k) + 1 \in 1 .. n
    OBVIOUS
  <2>2. /\ v[i] \in Nat /\ v[i + k] \in Nat
        /\ digits[(i + k) + 1] \in 0 .. 9
        /\ v[(i + k) + 1] = 10 * v[i + k] + digits[(i + k) + 1]
    BY <1>0, <2>1 DEF Spells
  <2>3. Pow(10, k) \in Nat /\ Pow(10, k + 1) = 10 * Pow(10, k)
    BY PowersOfTen
  <2>4. /\ v[i] * Pow(10, k) <= v[i + k]
        /\ v[i + k] < (v[i] + 1) * Pow(10, k)
    BY <1>2, <2>1
  <2>5. \A x, y \in Nat : x * (10 * y) = 10 * (x * y)
    OBVIOUS
  <2>6. /\ v[i] * Pow(10, k + 1) = 10 * (v[i] * Pow(10, k))
        /\ (v[i] + 1) * Pow(10, k + 1) = 10 * ((v[i] + 1) * Pow(10, k))
    BY <2>2, <2>3, <2>5
  <2>7. v[i] * Pow(10, k) \in Nat /\ (v[i] + 1) * Pow(10, k) \in Nat
    <3>1. v[i] + 1 \in Nat
      BY <2>2
    <3>2. \A x, y \in Nat : x * y \in Nat
      OBVIOUS
    <3> QED
      BY <2>2, <2>3, <3>1, <3>2, Zenon
  <2>8. /\ 10 * (v[i] * Pow(10, k)) <= v[(i + k) + 1]
        /\ v[(i + k) + 1] < 10 * ((v[i] + 1) * Pow(10, k))
    <3> DEFINE x == v[i] * Pow(10, k)
               y == v[i + k]
               z == (v[i] + 1) * Pow(10, k)
               d == digits[(i + k) + 1]
    <3>1. x \in Nat /\ y \in Nat /\ z \in Nat /\ d \in 0 .. 9 /\ x <= y /\ y < z
      BY <2>2, <2>4, <2>7
    <3>2. v[(i + k) + 1] = 10 * y + d
      BY <2>2
    <3> HIDE DEF x, y, z, d
    <3>3. 10 * x <= 10 * y + d /\ 10 * y + d < 10 * z
      BY <3>1
    <3> QED
      BY <3>2, <3>3 DEF x, z
  <2> QED
    BY <2>1, <2>6, <2>8
<1>3. \A k \in Nat : k \in S
  <2> HIDE DEF S
  <2> QED BY <1>1, <1>2, InductionOnSet
<1> QED
  BY <1>3

(* The quotient of a numeral of n digits by the n-th power of ten has these
   digits as its decimals, and no more. *)
LEMMA DecimalPlaces ==
  ASSUME NEW n \in Nat, NEW digits \in [1 .. n -> 0 .. 9], NEW v, Spells(v, digits, n)
  PROVE  /\ v[n] < Pow(10, n)
         /\ \A i \in 1 .. n : ((v[n] * Pow(10, i)) \div Pow(10, n)) % 10 = digits[i]
         /\ (v[n] * Pow(10, n)) % Pow(10, n) = 0
<1>0. /\ \A j \in 0 .. n : v[j] \in Nat
      /\ \A k \in Nat : Pow(10, k) \in Nat \ {0}
  BY PowersOfTen DEF Spells
<1>1. v[n] < Pow(10, n)
  <2>1. 0 + n <= n /\ 0 + n = n /\ 0 \in 0 .. n
    OBVIOUS
  <2>2. v[0 + n] < (v[0] + 1) * Pow(10, n)
    BY <2>1, PrefixBounds
  <2>3. v[0] = 0
    BY DEF Spells
  <2>4. Pow(10, n) \in Nat /\ v[0 + n] = v[n]
    BY <1>0, <2>1
  <2>5. (v[0] + 1) * Pow(10, n) = Pow(10, n)
    BY <2>3, <2>4
  <2> QED
    BY <2>2, <2>4, <2>5, Zenon
<1>2. ASSUME NEW i \in 1 .. n
      PROVE  ((v[n] * Pow(10, i)) \div Pow(10, n)) % 10 = digits[i]
  <2> DEFINE b == Pow(10, i)
             c == Pow(10, n - i)
             d == Pow(10, n)
  <2>1. i \in Nat /\ n - i \in Nat /\ i + (n - i) = n /\ i \in 0 .. n
    OBVIOUS
  <2>2. d = b * c
    BY <2>1, PowAdd
  <2>3. b \in Nat \ {0} /\ c \in Nat \ {0} /\ d \in Nat \ {0}
    BY <1>0, <2>1
  <2>4. v[i] \in Nat /\ v[n] \in Nat
    BY <1>0, <2>1
  <2>5. v[i] * c <= v[n] /\ v[n] < (v[i] + 1) * c
    BY <2>1, PrefixBounds
  <2> HIDE DEF b, c, d
  <2>6. v[i] * d <= v[n] * b /\ v[n] * b < (v[i] + 1) * d
    <3>1. \A x, y \in Nat : /\ x <= y => x * b <= y * b
                            /\ x < y => x * b < y * b
      BY <2>3
    <3>2. \A x \in Nat : (x * c) * b = x * (b * c)
      BY <2>3
    <3>3. v[i] * c \in Nat /\ (v[i] + 1) * c \in Nat /\ v[i] + 1 \in Nat
      BY <2>3, <2>4
    <3>4. (v[i] * c) * b <= v[n] * b /\ v[n] * b < ((v[i] + 1) * c) * b
      BY <2>4, <2>5, <3>1, <3>3
    <3> QED
      BY <2>2, <2>4, <3>2, <3>3, <3>4
  <2>7. (v[n] * b) \div d = v[i]
    <3> DEFINE p == v[n] * b
    <3>1. p \in Nat
      BY <2>3, <2>4
    <3>2. v[i] * d <= p /\ p < (v[i] + 1) * d
      BY <2>6
    <3> HIDE DEF p
    <3>3. p \div d = v[i]
      BY <2>3, <2>4, <3>1, <3>2, QuotientIs
    <3> QED
      BY <3>3 DEF p
  <2>8. v[i] % 10 = digits[i]
    <3>1. i - 1 \in 0 .. n - 1 /\ (i - 1) + 1 = i /\ i - 1 \in 0 .. n
      OBVIOUS
    <3>2. v[i] = 10 * v[i - 1] + digits[i]
      BY <3>1 DEF Spells
    <3>3. v[i - 1] \in Nat /\ digits[i] \in 0 .. 9
      BY <1>0, <3>1
    <3>4. \A x \in Nat, y \in 0 .. 9 : (10 * x + y) % 10 = y
      OBVIOUS
    <3> QED
      BY <3>2, <3>3, <3>4
  <2> QED
    BY <2>7, <2>8 DEF b, d
<1>3. (v[n] * Pow(10, n)) % Pow(10, n) = 0
  <2>1. v[n] \in Nat /\ Pow(10, n) \in Nat \ {0}
    BY <1>0
  <2> QED
    BY <2>1, MultipleDivides
<1> QED
  BY <1>1, <1>2, <1>3
=============================================================================
