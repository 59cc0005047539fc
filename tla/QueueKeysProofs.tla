-------------------------- MODULE QueueKeysProofs --------------------------
(***************************************************************************)
(* Facts about the keys jobs are pushed to and polled from, for every base *)
(* name, number of queues and list of priorities.                          *)
(***************************************************************************)
EXTENDS QueueKeys, TLAPS

(* priority_step: every priority is floored to the largest step not above it. *)
THEOREM StepIsFloor ==
  ASSUME NEW n \in Nat
  PROVE  /\ PriorityStep(n) \in {0, 3, 6, 9}
         /\ PriorityStep(n) <= n
         /\ \A s \in {0, 3, 6, 9} : s <= n => s <= PriorityStep(n)
<1>1. /\ PrioritySteps[1] = 0 /\ PrioritySteps[2] = 3
      /\ PrioritySteps[3] = 6 /\ PrioritySteps[4] = 9
  BY DEF PrioritySteps
<1>2. 1 .. 4 = {1, 2, 3, 4}
  BY SMT
<1>3. /\ 1 \in Passed(n)
      /\ 2 \in Passed(n) <=> n >= 3
      /\ 3 \in Passed(n) <=> n >= 6
      /\ 4 \in Passed(n) <=> n >= 9
  BY <1>1, SMT DEF Passed
<1>4. PICK m \in Passed(n) : \A j \in Passed(n) : j <= m
  BY <1>2, <1>3, SMT DEF Passed
<1> DEFINE last == CHOOSE i \in Passed(n) : \A j \in Passed(n) : j <= i
<1>5. last \in Passed(n) /\ \A j \in Passed(n) : j <= last
  BY <1>4
<1>6. last \in {1, 2, 3, 4}
  BY <1>2, <1>5 DEF Passed
<1>7. PriorityStep(n) = PrioritySteps[last]
  BY <1>3 DEF PriorityStep
<1> HIDE DEF last
<1> QED
  BY <1>1, <1>3, <1>5, <1>6, <1>7, SMT

LEMMA NumberOfNames == Len(QueueNames) = NumQueues
<1>1. CASE NumQueues <= 1
  BY <1>1, NumQueuesAssumption, SMT DEF QueueNames
<1>2. CASE ~(NumQueues <= 1)
  <2> DEFINE name(i) == Base \o <<"_", i - 1>>
             all == {name(i) : i \in 1 .. NumQueues}
  <2>1. QueueNames = [i \in 1 .. NumQueues |-> name(i)]
    BY <1>2 DEF QueueNames
  <2>2. \A i \in 1 .. NumQueues : name(i) \in all
    OBVIOUS
  <2> HIDE DEF name, all
  <2>3. QueueNames \in Seq(all)
    BY <2>1, <2>2, NumQueuesAssumption, SMT
  <2> QED
    BY <2>1, <2>3, NumQueuesAssumption, SMT
<1> QED
  BY <1>1, <1>2

\* The elements of a sequence.
Elements(s) == {s[i] : i \in DOMAIN s}

LEMMA ElementsOfConcatenation ==
  ASSUME NEW S, NEW s \in Seq(S), NEW t \in Seq(S)
  PROVE  /\ s \o t \in Seq(S)
         /\ Elements(s) \subseteq Elements(s \o t)
         /\ Elements(t) \subseteq Elements(s \o t)
<1>1. /\ s \o t \in Seq(S)
      /\ DOMAIN s = 1 .. Len(s) /\ DOMAIN t = 1 .. Len(t)
      /\ Len(s) \in Nat /\ Len(t) \in Nat
      /\ DOMAIN (s \o t) = 1 .. Len(s) + Len(t)
      /\ \A q \in 1 .. Len(s) : (s \o t)[q] = s[q]
      /\ \A q \in 1 .. Len(t) : (s \o t)[Len(s) + q] = t[q]
  BY SMT
<1>2. \A q \in 1 .. Len(t) : Len(s) + q \in DOMAIN (s \o t)
  BY <1>1, SMT
<1>3. \A q \in 1 .. Len(s) : q \in DOMAIN (s \o t)
  BY <1>1, SMT
<1> QED
  BY <1>1, <1>2, <1>3, Zenon DEF Elements

(* All four steps of every queue are polled. *)
LEMMA PolledAt ==
  ASSUME NEW s \in 1 .. 4, NEW q \in 1 .. NumQueues
  PROVE  QForPri(QueueNames[q], PrioritySteps[s]) \in PolledKeys
<1> DEFINE key(p, r) == QForPri(QueueNames[p], PrioritySteps[r])
<1> DEFINE all == {key(p, r) : p \in 1 .. NumQueues, r \in 1 .. 4}
<1>1. ASSUME NEW r \in 1 .. 4
      PROVE  /\ StepKeys(r) \in Seq(all)
             /\ \A p \in 1 .. NumQueues : key(p, r) \in Elements(StepKeys(r))
  <2>1. StepKeys(r) = [p \in 1 .. NumQueues |-> key(p, r)]
    BY NumberOfNames DEF StepKeys
  <2>2. \A p \in 1 .. NumQueues : key(p, r) \in all
    OBVIOUS
  <2> HIDE DEF key, all
  <2>3. StepKeys(r) \in Seq(all)
    BY <2>1, <2>2, NumQueuesAssumption, SMT
  <2> QED
    BY <2>1, <2>3 DEF Elements
<1> HIDE DEF all
<1>2. /\ StepKeys(1) \in Seq(all) /\ StepKeys(2) \in Seq(all)
      /\ StepKeys(3) \in Seq(all) /\ StepKeys(4) \in Seq(all)
  BY <1>1, SMT
<1> DEFINE two == StepKeys(1) \o StepKeys(2)
           three == two \o StepKeys(3)
<1>3. /\ two \in Seq(all)
      /\ Elements(StepKeys(1)) \subseteq Elements(two)
      /\ Elements(StepKeys(2)) \subseteq Elements(two)
  BY <1>2, ElementsOfConcatenation
<1> HIDE DEF two
<1>4. /\ three \in Seq(all)
      /\ Elements(two) \subseteq Elements(three)
      /\ Elements(StepKeys(3)) \subseteq Elements(three)
  BY <1>2, <1>3, ElementsOfConcatenation
<1>5. BrpopKeys = three \o StepKeys(4)
  BY DEF BrpopKeys, two
<1> HIDE DEF three
<1>6. /\ Elements(three) \subseteq PolledKeys
      /\ Elements(StepKeys(4)) \subseteq PolledKeys
  <2>1. PolledKeys = Elements(three \o StepKeys(4))
    BY <1>5 DEF PolledKeys, Elements
  <2> QED
    BY <1>2, <1>4, <2>1, ElementsOfConcatenation
<1>7. s = 1 \/ s = 2 \/ s = 3 \/ s = 4
  BY SMT
<1>8. key(q, s) \in Elements(StepKeys(s))
  BY <1>1
<1> QED
  BY <1>3, <1>4, <1>6, <1>7, <1>8, Zenon

(* What a BRPOP polls is a sequence of keys. *)
LEMMA BrpopKeysIsSeq == Len(BrpopKeys) \in Nat /\ DOMAIN BrpopKeys = 1 .. Len(BrpopKeys)
<1> DEFINE key(p, r) == QForPri(QueueNames[p], PrioritySteps[r])
<1> DEFINE all == {key(p, r) : p \in 1 .. NumQueues, r \in 1 .. 4}
<1>1. ASSUME NEW r \in 1 .. 4
      PROVE  StepKeys(r) \in Seq(all)
  <2>1. StepKeys(r) = [p \in 1 .. NumQueues |-> key(p, r)]
    BY NumberOfNames DEF StepKeys
  <2>2. \A p \in 1 .. NumQueues : key(p, r) \in all
    OBVIOUS
  <2> HIDE DEF key, all
  <2> QED
    BY <2>1, <2>2, NumQueuesAssumption, SMT
<1> HIDE DEF all
<1>2. /\ StepKeys(1) \in Seq(all) /\ StepKeys(2) \in Seq(all)
      /\ StepKeys(3) \in Seq(all) /\ StepKeys(4) \in Seq(all)
  BY <1>1, SMT
<1>3. StepKeys(1) \o StepKeys(2) \in Seq(all)
  BY <1>2, ElementsOfConcatenation
<1>4. (StepKeys(1) \o StepKeys(2)) \o StepKeys(3) \in Seq(all)
  BY <1>2, <1>3, ElementsOfConcatenation
<1>5. BrpopKeys \in Seq(all)
  BY <1>2, <1>4, ElementsOfConcatenation DEF BrpopKeys
<1> HIDE DEF key
<1> QED
  BY <1>5, SMT

(* Every key a job of any queue and any priority is pushed to is a key every
   worker polls: flooring a step changes nothing. *)
THEOREM EveryKeyIsPolled ==
  ASSUME NEW q \in 1 .. NumQueues, NEW priority \in Nat
  PROVE  QForPri(QueueNames[q], priority) \in PolledKeys
<1>1. PICK s \in 1 .. 4 : PriorityStep(priority) = PrioritySteps[s]
  BY StepIsFloor, SMT DEF PrioritySteps
<1>2. PriorityStep(PrioritySteps[s]) = PrioritySteps[s]
  BY <1>1, StepIsFloor, SMT DEF PrioritySteps
<1>3. QForPri(QueueNames[q], priority) = QForPri(QueueNames[q], PrioritySteps[s])
  BY <1>1, <1>2 DEF QForPri
<1> QED
  BY <1>3, PolledAt

(* Job i names a queue and a priority that exist, and its key is polled. *)
THEOREM EveryJobIsPolled ==
  ASSUME NEW i \in Nat
  PROVE  KeyOf(i) \in PolledKeys
<1>1. Len(Priorities) \in Nat \ {0} /\ \A p \in 1 .. Len(Priorities) : Priorities[p] \in Nat
  BY PrioritiesAssumption, SMT
<1>2. i \div NumQueues \in Nat
  BY NumQueuesAssumption, SMT
<1>3. /\ RoundRobin(i)[1] \in 0 .. NumQueues - 1
      /\ RoundRobin(i)[2] \in 0 .. Len(Priorities) - 1
  BY <1>1, <1>2, NumQueuesAssumption, NumberOfNames, SMT DEF RoundRobin
<1>4. RoundRobin(i)[1] + 1 \in 1 .. NumQueues /\ PriorityOf(i) \in Nat
  BY <1>1, <1>3, NumQueuesAssumption, SMT DEF PriorityOf
<1> QED
  BY <1>4, EveryKeyIsPolled DEF KeyOf, QueueOf

(* round_robin_indices: within a cycle no pair of a queue and a priority comes
   up twice, whatever their numbers have in common; and a cycle is as long as
   there are pairs. *)
THEOREM CycleHasNoRepeats ==
  ASSUME NEW i \in 0 .. NumQueues * Len(Priorities) - 1,
         NEW j \in 0 .. NumQueues * Len(Priorities) - 1,
         RoundRobin(i) = RoundRobin(j)
  PROVE  i = j
<1> DEFINE n == NumQueues
           m == Len(Priorities)
<1>1. n \in Nat \ {0} /\ m \in Nat \ {0}
  BY NumQueuesAssumption, PrioritiesAssumption, SMT
<1>2. i % n = j % n /\ (i \div n) % m = (j \div n) % m
  BY NumberOfNames, SMT DEF RoundRobin
<1>3. i \in 0 .. n * m - 1 /\ j \in 0 .. n * m - 1
  OBVIOUS
<1> HIDE DEF n, m
<1>4. n * m \in Nat /\ i \in Nat /\ j \in Nat
  BY <1>1, <1>3, SMT
<1>5. /\ i \div n \in Nat /\ i % n \in 0 .. n - 1 /\ i = n * (i \div n) + (i % n)
      /\ j \div n \in Nat /\ j % n \in 0 .. n - 1 /\ j = n * (j \div n) + (j % n)
  BY <1>1, <1>4, SMT
<1>6. ASSUME NEW a \in Nat, NEW r \in 0 .. n - 1, n * a + r <= n * m - 1
      PROVE  a <= m - 1
  <2>1. SUFFICES ASSUME a >= m PROVE FALSE
    BY <1>1, SMT
  <2>2. n * a >= n * m
    BY <1>1, <2>1, SMT
  <2> QED
    BY <1>1, <1>6, <2>2, SMT
<1>7. i \div n <= m - 1 /\ j \div n <= m - 1
  BY <1>3, <1>4, <1>5, <1>6, <1>1, SMT
<1>8. \A a \in Nat : a <= m - 1 => a % m = a
  BY <1>1, SMT
<1>9. i \div n = j \div n
  BY <1>2, <1>5, <1>7, <1>8
<1> QED
  BY <1>2, <1>5, <1>9

-----------------------------------------------------------------------------
(* The round robin, a cycle later. *)

(* A quotient and a remainder are what makes up the number. *)
LEMMA DivisionIsUnique ==
  ASSUME NEW n \in Nat \ {0}, NEW x \in Nat, NEW r \in 0 .. n - 1
  PROVE  n * x + r \in Nat /\ (n * x + r) \div n = x /\ (n * x + r) % n = r
<1> DEFINE z == n * x + r
           y == z \div n
<1>1. n * x \in Nat
  BY SMT
<1>2. z \in Nat
  BY <1>1, SMT
<1>5. z = n * x + r
  OBVIOUS
<1> HIDE DEF z
<1>3. y \in Nat /\ z % n \in 0 .. n - 1 /\ z = n * y + (z % n)
  BY <1>2, SMT
<1> HIDE DEF y
<1>4. ASSUME NEW a \in Nat, NEW b \in Nat, NEW c \in 0 .. n - 1, NEW d \in 0 .. n - 1,
             a < b
      PROVE  n * a + c < n * b + d
  <2>1. n * (a + 1) <= n * b
    BY <1>4, SMT
  <2>2. n * (a + 1) = n * a + n /\ n * a \in Nat /\ n * b \in Nat
    BY SMT
  <2> QED
    BY <2>1, <2>2, SMT
<1>6. ~(x < y) /\ ~(y < x)
  BY <1>2, <1>3, <1>4, <1>5, SMT
<1>7. y = x
  BY <1>3, <1>6, SMT
<1>8. z % n = r
  BY <1>1, <1>2, <1>3, <1>5, <1>7, SMT
<1> QED
  BY <1>2, <1>7, <1>8 DEF y, z

\* The first job of a pair.
FirstOf(pair) == pair[1] + NumQueues * pair[2]

\* The pairs of a queue and a priority.
Pairs == (0 .. NumQueues - 1) \X (0 .. Len(Priorities) - 1)

(* Job i is the first one of its pair, or every pair had a job within the
   cycle before it. *)
LEMMA EveryPairSince ==
  ASSUME NEW i \in Nat, NEW pair \in Pairs
  PROVE  LET j == i - NumQueues * Len(Priorities) - FirstOf(RoundRobin(i)) + FirstOf(pair)
         IN i = FirstOf(RoundRobin(i)) \/ (j \in 0 .. i - 1 /\ RoundRobin(j) = pair)
<1> DEFINE n == NumQueues
           m == Len(Priorities)
           a == i \div n
           b == i % n
           k == a \div m
           c == a % m
<1>1. n \in Nat \ {0} /\ m \in Nat \ {0}
  BY NumQueuesAssumption, PrioritiesAssumption, SMT
<1>2. RoundRobin(i) = <<b, c>>
  BY NumberOfNames DEF RoundRobin
<1>3. \A x : RoundRobin(x) = <<x % n, (x \div n) % m>>
  BY NumberOfNames DEF RoundRobin
<1>4. \A r : FirstOf(r) = r[1] + n * r[2]
  BY DEF FirstOf
<1>5. pair = <<pair[1], pair[2]>> /\ pair[1] \in 0 .. n - 1 /\ pair[2] \in 0 .. m - 1
  BY DEF Pairs
<1> HIDE DEF n, m
<1>6. a \in Nat /\ b \in 0 .. n - 1 /\ i = n * a + b
  BY <1>1, SMT
<1> HIDE DEF a, b
<1>7. k \in Nat /\ c \in 0 .. m - 1 /\ a = m * k + c
  BY <1>1, <1>6, SMT
<1> HIDE DEF k, c
<1>8. FirstOf(RoundRobin(i)) = b + n * c
  BY <1>2, <1>4
<1>9. CASE k = 0
  <2>1. a = c
    BY <1>1, <1>7, <1>9, SMT
  <2>2. n * c \in Nat
    BY <1>1, <1>7, SMT
  <2> QED
    BY <1>6, <1>8, <2>1, <2>2, SMT
<1>10. CASE k # 0
  <2> PICK h \in Nat : k = h + 1
    BY <1>7, <1>10, SMT
  <2> DEFINE q == pair[1]
             p == pair[2]
             v == m * h + p
             j == n * v + q
  <2>1. m * h \in Nat /\ m * k = m * h + m
    BY <1>1, SMT
  <2>2. v \in Nat /\ q \in 0 .. n - 1 /\ p \in 0 .. m - 1
    BY <1>1, <1>5, <2>1, SMT
  <2>3. RoundRobin(j) = pair
    <3>1. j \div n = v /\ j % n = q
      BY <1>1, <2>2, DivisionIsUnique
    <3>2. v % m = p
      BY <1>1, <2>2, DivisionIsUnique
    <3> QED
      BY <1>3, <1>5, <3>1, <3>2
  <2>4. v + 1 <= m * h + m /\ m * h + m <= a
    BY <1>1, <1>7, <2>1, <2>2, SMT
  <2>5. v + 1 <= a
    BY <1>6, <2>1, <2>2, <2>4, <1>1, SMT
  <2>6. n * (v + 1) <= n * a /\ n * (v + 1) = n * v + n /\ n * v \in Nat /\ n * a \in Nat
    BY <1>1, <1>6, <2>2, <2>5, SMT
  <2>7. j \in 0 .. i - 1
    BY <1>1, <1>6, <2>2, <2>6, SMT
  <2>8. j = i - n * m - (b + n * c) + (q + n * p)
    <3>1. /\ n * v = n * (m * h) + n * p
          /\ n * a = n * (m * h) + n * m + n * c
      <4>1. a = m * h + m + c
        BY <1>1, <1>7, <2>1, SMT
      <4>2. \A x, y \in Nat : n * (x + y) = n * x + n * y
        BY <1>1, SMT
      <4>3. n * a = n * (m * h + m) + n * c /\ n * (m * h + m) = n * (m * h) + n * m
        BY <1>1, <1>7, <2>1, <4>1, <4>2, SMT
      <4>4. p \in Nat
        BY <1>1, <2>2, SMT
      <4>5. n * v = n * (m * h) + n * p
        BY <2>1, <4>2, <4>4
      <4> QED
        BY <4>3, <4>5, SMT
    <3>2. n * (m * h) \in Nat /\ n * p \in Nat /\ n * m \in Nat /\ n * c \in Nat
      BY <1>1, <1>7, <2>1, <2>2, SMT
    <3> DEFINE w == n * (m * h)
               np == n * p
               nm == n * m
               nc == n * c
               nv == n * v
               na == n * a
    <3>3. nv = w + np /\ na = w + nm + nc /\ i = na + b
      BY <1>6, <3>1
    <3>4. w \in Nat /\ np \in Nat /\ nm \in Nat /\ nc \in Nat /\ b \in Nat /\ q \in Nat
      BY <1>1, <1>6, <2>2, <3>2, SMT
    <3> HIDE DEF w, np, nm, nc, nv, na
    <3>5. nv + q = i - nm - (b + nc) + (q + np)
      BY <3>3, <3>4, SMT
    <3> QED
      BY <3>5 DEF np, nm, nc, nv
  <2>9. FirstOf(pair) = q + n * p
    BY <1>4
  <2> QED
    BY <1>8, <2>3, <2>7, <2>8, <2>9 DEF n, m
<1> QED
  BY <1>9, <1>10

-----------------------------------------------------------------------------
(* The order of the keys. *)

(* Where the parts of a concatenation are. *)
LEMMA ConcatenationAt ==
  ASSUME NEW S, NEW s \in Seq(S), NEW t \in Seq(S)
  PROVE  /\ s \o t \in Seq(S) /\ Len(s \o t) = Len(s) + Len(t)
         /\ \A q \in 1 .. Len(s) : (s \o t)[q] = s[q]
         /\ \A q \in 1 .. Len(t) : (s \o t)[Len(s) + q] = t[q]
  BY SMT

(* The last part of a name and a suffix. *)
LEMMA LastPart ==
  ASSUME NEW S, NEW s \in Seq(S), NEW t \in Seq(S),
         NEW m \in Nat, Len(s) = m, Len(t) = 2
  PROVE  (s \o t)[m + 2] = t[2]
<1>1. \A u, v \in Seq(S) : \A q \in 1 .. Len(v) : (u \o v)[Len(u) + q] = v[q]
  BY ConcatenationAt
<1>2. 2 \in 1 .. Len(t)
  BY SMT
<1> QED
  BY <1>1, <1>2

(* The parts of a name, and the pair that is appended to it. *)
LEMMA PartsOfAName ==
  ASSUME NEW S, NEW T, S \subseteq T
  PROVE  /\ \A s \in Seq(S) : s \in Seq(T) /\ Len(s) \in Nat
         /\ \A e, f \in T : <<e, f>> \in Seq(T) /\ Len(<<e, f>>) = 2 /\ <<e, f>>[2] = f
  BY SMT

(* A BRPOP's keys are four blocks, one for every step, with a key for every
   queue in each. *)
LEMMA BrpopKeysAt ==
  /\ DOMAIN BrpopKeys = 1 .. 4 * NumQueues
  /\ \A q \in 1 .. NumQueues :
       /\ BrpopKeys[q] = QForPri(QueueNames[q], 0)
       /\ BrpopKeys[NumQueues + q] = QForPri(QueueNames[q], 3)
       /\ BrpopKeys[2 * NumQueues + q] = QForPri(QueueNames[q], 6)
       /\ BrpopKeys[3 * NumQueues + q] = QForPri(QueueNames[q], 9)
<1> DEFINE n == NumQueues
           key(p, r) == QForPri(QueueNames[p], PrioritySteps[r])
           all == {key(p, r) : p \in 1 .. n, r \in 1 .. 4}
<1>1. n \in Nat \ {0}
  BY NumQueuesAssumption
<1>2. ASSUME NEW r \in 1 .. 4
      PROVE  /\ StepKeys(r) \in Seq(all) /\ Len(StepKeys(r)) = n
             /\ \A p \in 1 .. n : StepKeys(r)[p] = key(p, r)
  <2>1. StepKeys(r) = [p \in 1 .. n |-> key(p, r)]
    BY NumberOfNames DEF StepKeys
  <2>2. \A p \in 1 .. n : key(p, r) \in all
    OBVIOUS
  <2> HIDE DEF key, all, n
  <2> QED
    BY <1>1, <2>1, <2>2, SMT
<1>3. \A p : /\ key(p, 1) = QForPri(QueueNames[p], 0) /\ key(p, 2) = QForPri(QueueNames[p], 3)
             /\ key(p, 3) = QForPri(QueueNames[p], 6) /\ key(p, 4) = QForPri(QueueNames[p], 9)
  BY DEF PrioritySteps
<1> HIDE DEF key, all, n
<1> DEFINE one == StepKeys(1)
           two == StepKeys(2)
           three == StepKeys(3)
           four == StepKeys(4)
           half == one \o two
           most == half \o three
<1>4. BrpopKeys = most \o four
  BY DEF BrpopKeys
<1>5. /\ one \in Seq(all) /\ two \in Seq(all) /\ three \in Seq(all) /\ four \in Seq(all)
      /\ Len(one) = n /\ Len(two) = n /\ Len(three) = n /\ Len(four) = n
      /\ \A p \in 1 .. n : /\ one[p] = key(p, 1) /\ two[p] = key(p, 2)
                           /\ three[p] = key(p, 3) /\ four[p] = key(p, 4)
  BY <1>2
<1> HIDE DEF one, two, three, four
<1>6. /\ half \in Seq(all) /\ Len(half) = 2 * n
      /\ \A p \in 1 .. n : half[p] = key(p, 1) /\ half[n + p] = key(p, 2)
  <2>1. half \in Seq(all)
    BY <1>5, ConcatenationAt
  <2>2. Len(half) = Len(one) + Len(two)
    BY <1>5, ConcatenationAt
  <2>3. \A p \in 1 .. Len(one) : half[p] = one[p]
    BY <1>5, ConcatenationAt
  <2>4. \A p \in 1 .. Len(two) : half[Len(one) + p] = two[p]
    BY <1>5, ConcatenationAt
  <2> QED
    BY <1>1, <1>5, <2>1, <2>2, <2>3, <2>4, SMT
<1> HIDE DEF half
<1>7. /\ most \in Seq(all) /\ Len(most) = 3 * n
      /\ \A p \in 1 .. n : /\ most[p] = key(p, 1) /\ most[n + p] = key(p, 2)
                           /\ most[2 * n + p] = key(p, 3)
  <2>4. most \in Seq(all)
    BY <1>5, <1>6, ConcatenationAt
  <2>5. Len(most) = Len(half) + Len(three)
    BY <1>5, <1>6, ConcatenationAt
  <2>6. \A p \in 1 .. Len(half) : most[p] = half[p]
    BY <1>5, <1>6, ConcatenationAt
  <2>8. most = half \o three
    OBVIOUS
  <2>9. /\ half \in Seq(all) /\ three \in Seq(all)
        /\ Len(half) = 2 * n /\ Len(three) = n
    BY <1>5, <1>6
  <2> HIDE DEF most
  <2>7. \A p \in 1 .. n : most[2 * n + p] = three[p]
    BY <1>1, <2>8, <2>9, SMT
  <2>1. /\ most \in Seq(all) /\ Len(most) = 2 * n + n
        /\ \A p \in 1 .. 2 * n : most[p] = half[p]
        /\ \A p \in 1 .. n : most[2 * n + p] = three[p]
    BY <1>5, <1>6, <2>4, <2>5, <2>6, <2>7, Zenon
  <2>2. \A p \in 1 .. n : p \in 1 .. 2 * n /\ n + p \in 1 .. 2 * n
    BY <1>1, SMT
  <2>3. 2 * n + n = 3 * n
    BY <1>1, SMT
  <2> QED
    BY <1>5, <1>6, <2>1, <2>2, <2>3, Zenon
<1> HIDE DEF most
<1>8. /\ BrpopKeys \in Seq(all) /\ Len(BrpopKeys) = 4 * n
      /\ \A p \in 1 .. n : /\ BrpopKeys[p] = key(p, 1) /\ BrpopKeys[n + p] = key(p, 2)
                           /\ BrpopKeys[2 * n + p] = key(p, 3)
                           /\ BrpopKeys[3 * n + p] = key(p, 4)
  <2>4. BrpopKeys \in Seq(all)
    BY <1>4, <1>5, <1>7, ConcatenationAt
  <2>5. Len(BrpopKeys) = Len(most) + Len(four)
    BY <1>4, <1>5, <1>7, ConcatenationAt
  <2>6. \A p \in 1 .. Len(most) : BrpopKeys[p] = most[p]
    BY <1>4, <1>5, <1>7, ConcatenationAt
  <2>9. /\ most \in Seq(all) /\ four \in Seq(all)
        /\ Len(most) = 3 * n /\ Len(four) = n
    BY <1>5, <1>7
  <2>7. \A p \in 1 .. n : BrpopKeys[3 * n + p] = four[p]
    BY <1>1, <1>4, <2>9, SMT
  <2>1. /\ BrpopKeys \in Seq(all) /\ Len(BrpopKeys) = 3 * n + n
        /\ \A p \in 1 .. 3 * n : BrpopKeys[p] = most[p]
        /\ \A p \in 1 .. n : BrpopKeys[3 * n + p] = four[p]
    BY <1>5, <1>7, <2>4, <2>5, <2>6, <2>7, Zenon
  <2>2. \A p \in 1 .. n : /\ p \in 1 .. 3 * n /\ n + p \in 1 .. 3 * n
                          /\ 2 * n + p \in 1 .. 3 * n
    BY <1>1, SMT
  <2>3. 3 * n + n = 4 * n
    BY <1>1, SMT
  <2> QED
    BY <1>5, <1>7, <2>1, <2>2, <2>3, Zenon
<1>9. DOMAIN BrpopKeys = 1 .. 4 * n
  BY <1>8, SMT
<1> QED
  BY <1>3, <1>8, <1>9 DEF n

(* No two steps share a key: with a base name that is a sequence of parts, the
   number of a step is the last part of its keys, and those of step 0 are
   shorter. *)
LEMMA StepsShareNoKey ==
  ASSUME NEW p \in 1 .. NumQueues, NEW q \in 1 .. NumQueues,
         NEW r \in {0, 3, 6, 9}, NEW s \in {0, 3, 6, 9},
         QForPri(QueueNames[p], r) = QForPri(QueueNames[q], s)
  PROVE  r = s
<1> DEFINE parts == STRING \union {"_", "sep"} \union Nat
<1>1. \A a \in {0, 3, 6, 9} : PriorityStep(a) = a
  <2>1. \A a \in {0, 3, 6, 9} : a \in Nat
    BY SMT
  <2>2. ASSUME NEW a \in {0, 3, 6, 9}
        PROVE  PriorityStep(a) = a
    <3>1. /\ PriorityStep(a) \in {0, 3, 6, 9} /\ PriorityStep(a) <= a
          /\ \A b \in {0, 3, 6, 9} : b <= a => b <= PriorityStep(a)
      BY <2>1, StepIsFloor
    <3> QED
      BY <3>1, SMT
  <2> QED
    BY <2>2
<1>2. \A a \in {0, 3, 6, 9} : \A name :
        QForPri(name, a) = IF a # 0 THEN name \o <<"sep", a>> ELSE name
  BY <1>1 DEF QForPri
<1>8. /\ STRING \subseteq parts /\ "_" \in parts /\ "sep" \in parts
      /\ \A a \in Nat : a \in parts
  BY Zenon
<1> HIDE DEF parts
<1>3. Base \in Seq(parts) /\ Len(Base) \in Nat
  BY <1>8, BaseAssumption, PartsOfAName
<1>4. \E len \in Nat : \A x \in 1 .. NumQueues :
        QueueNames[x] \in Seq(parts) /\ Len(QueueNames[x]) = len
  <2>1. CASE NumQueues <= 1
    <3>1. \A x \in 1 .. NumQueues : QueueNames[x] = Base
      BY <2>1, NumQueuesAssumption, SMT DEF QueueNames
    <3> QED
      BY <1>3, <3>1
  <2>2. CASE ~(NumQueues <= 1)
    <3>1. \A x \in 1 .. NumQueues : QueueNames[x] = Base \o <<"_", x - 1>>
      BY <2>2 DEF QueueNames
    <3>2. ASSUME NEW x \in 1 .. NumQueues
          PROVE  Base \o <<"_", x - 1>> \in Seq(parts) /\ Len(Base \o <<"_", x - 1>>) = Len(Base) + 2
      <4>1. x - 1 \in Nat
        BY NumQueuesAssumption, SMT
      <4>2. <<"_", x - 1>> \in Seq(parts) /\ Len(<<"_", x - 1>>) = 2
        BY <1>8, <4>1, PartsOfAName
      <4> DEFINE suffix == <<"_", x - 1>>
      <4> HIDE DEF suffix
      <4>3. suffix \in Seq(parts) /\ Len(suffix) = 2
        BY <4>2 DEF suffix
      <4>4. Base \o suffix \in Seq(parts)
        BY <1>3, <4>3, ConcatenationAt
      <4>5. Len(Base \o suffix) = Len(Base) + Len(suffix)
        BY <1>3, <4>3, ConcatenationAt
      <4> QED
        BY <4>3, <4>4, <4>5, Zenon DEF suffix
    <3>3. Len(Base) + 2 \in Nat
      BY <1>3, SMT
    <3> QED
      BY <3>1, <3>2, <3>3
  <2> QED
    BY <2>1, <2>2
<1>11. PICK len \in Nat : \A x \in 1 .. NumQueues :
        QueueNames[x] \in Seq(parts) /\ Len(QueueNames[x]) = len
  BY <1>4, Zenon
<1>5. ASSUME NEW x \in 1 .. NumQueues, NEW a \in {3, 6, 9}
      PROVE  /\ Len(QForPri(QueueNames[x], a)) = len + 2
             /\ QForPri(QueueNames[x], a)[len + 2] = a
  <2>1. a \in Nat /\ a # 0 /\ a \in {0, 3, 6, 9}
    BY SMT
  <2>2. <<"sep", a>> \in Seq(parts) /\ Len(<<"sep", a>>) = 2 /\ <<"sep", a>>[2] = a
    BY <1>8, <2>1, PartsOfAName
  <2>3. QForPri(QueueNames[x], a) = QueueNames[x] \o <<"sep", a>>
    <3>1. \A name : QForPri(name, a) = IF a # 0 THEN name \o <<"sep", a>> ELSE name
      BY <1>2, <2>1, Zenon
    <3>2. \A name : QForPri(name, a) = name \o <<"sep", a>>
      BY <2>1, <3>1
    <3> QED
      BY <3>2, Zenon
  <2>4. /\ QueueNames[x] \in Seq(parts) /\ Len(QueueNames[x]) = len
        /\ 2 \in 1 .. 2
    BY <1>11, SMT
  <2> DEFINE end == <<"sep", a>>
  <2> HIDE DEF end
  <2>7. end \in Seq(parts) /\ Len(end) = 2 /\ end[2] = a
    BY <2>2 DEF end
  <2>8. Len(QueueNames[x] \o end) = Len(QueueNames[x]) + Len(end)
    <3>1. \A u, v \in Seq(parts) : Len(u \o v) = Len(u) + Len(v)
      BY ConcatenationAt, Zenon
    <3> QED
      BY <2>4, <2>7, <3>1, Zenon
  <2>5. (QueueNames[x] \o end)[len + 2] = end[2]
    BY <2>4, <2>7, LastPart
  <2>6. /\ Len(QueueNames[x] \o end) = len + 2
        /\ (QueueNames[x] \o end)[len + 2] = a
    BY <2>4, <2>5, <2>7, <2>8, Zenon
  <2> QED
    BY <2>3, <2>6, Zenon DEF end
<1>6. \A x \in 1 .. NumQueues : Len(QForPri(QueueNames[x], 0)) = len
  BY <1>2, <1>11
<1>7. len # len + 2
  BY SMT
<1>9. CASE r = 0 \/ s = 0
  <2>1. \A a \in {0, 3, 6, 9} : a = 0 \/ a \in {3, 6, 9}
    OBVIOUS
  <2> QED
    BY <1>5, <1>6, <1>7, <1>9, <2>1
<1>10. CASE r # 0 /\ s # 0
  <2>1. r \in {3, 6, 9} /\ s \in {3, 6, 9}
    BY <1>10
  <2> QED
    BY <1>5, <2>1
<1> QED
  BY <1>9, <1>10

(* A worker looks for the jobs of a smaller step before those of a larger one:
   where it finds the key of the latter, it has passed the key of the former. *)
THEOREM SmallerStepsComeFirst ==
  ASSUME NEW i \in Nat, NEW j \in Nat, NEW x \in DOMAIN BrpopKeys,
         BrpopKeys[x] = KeyOf(j),
         PriorityStep(PriorityOf(i)) < PriorityStep(PriorityOf(j))
  PROVE  \E y \in 1 .. x - 1 : BrpopKeys[y] = KeyOf(i)
<1> DEFINE n == NumQueues
           step(k) == PriorityStep(PriorityOf(k))
<1>1. ASSUME NEW k \in Nat
      PROVE  \E q \in 1 .. n : /\ KeyOf(k) = QForPri(QueueNames[q], step(k))
                               /\ step(k) \in {0, 3, 6, 9}
  <2>1. Len(Priorities) \in Nat \ {0} /\ \A p \in 1 .. Len(Priorities) : Priorities[p] \in Nat
    BY PrioritiesAssumption, SMT
  <2>2. k \div NumQueues \in Nat
    BY NumQueuesAssumption, SMT
  <2>3. /\ RoundRobin(k)[1] \in 0 .. NumQueues - 1
        /\ RoundRobin(k)[2] \in 0 .. Len(Priorities) - 1
    <3>1. /\ NumQueues \in Nat \ {0} /\ Len(QueueNames) = NumQueues
          /\ Len(Priorities) \in Nat \ {0}
      BY <2>1, NumQueuesAssumption, NumberOfNames
    <3>2. /\ RoundRobin(k)[1] = k % NumQueues
          /\ RoundRobin(k)[2] = (k \div NumQueues) % Len(Priorities)
      BY <3>1 DEF RoundRobin
    <3>3. k % NumQueues \in 0 .. NumQueues - 1
      BY <3>1, SMT
    <3>4. (k \div NumQueues) % Len(Priorities) \in 0 .. Len(Priorities) - 1
      BY <2>2, <3>1, SMT
    <3> QED
      BY <3>2, <3>3, <3>4, Zenon
  <2>4. RoundRobin(k)[1] + 1 \in 1 .. NumQueues /\ PriorityOf(k) \in Nat
    <3>1. NumQueues \in Nat \ {0}
      BY NumQueuesAssumption
    <3>2. /\ RoundRobin(k)[1] + 1 \in 1 .. NumQueues
          /\ RoundRobin(k)[2] + 1 \in 1 .. Len(Priorities)
      BY <2>1, <2>3, <3>1, SMT
    <3> QED
      BY <2>1, <3>2, Zenon DEF PriorityOf
  <2>5. step(k) \in {0, 3, 6, 9}
    BY <2>4, StepIsFloor
  <2>6. PriorityStep(step(k)) = step(k)
    <3>1. step(k) \in Nat
      BY <2>5, SMT
    <3> HIDE DEF step
    <3>2. /\ PriorityStep(step(k)) <= step(k) /\ PriorityStep(step(k)) \in {0, 3, 6, 9}
          /\ step(k) <= step(k) => step(k) <= PriorityStep(step(k))
      BY <2>5, <3>1, StepIsFloor
    <3> QED
      BY <2>5, <3>2, SMT
  <2>7. KeyOf(k) = QForPri(QueueOf(k), step(k))
    BY <2>6 DEF KeyOf, QForPri
  <2> QED
    BY <2>4, <2>5, <2>7 DEF QueueOf
<1>2. PICK q \in 1 .. n : KeyOf(i) = QForPri(QueueNames[q], step(i)) /\ step(i) \in {0, 3, 6, 9}
  BY <1>1
<1>3. PICK p \in 1 .. n : KeyOf(j) = QForPri(QueueNames[p], step(j)) /\ step(j) \in {0, 3, 6, 9}
  BY <1>1
<1>4. step(i) < step(j)
  OBVIOUS
<1> HIDE DEF step
<1>5. n \in Nat \ {0} /\ q \in Nat /\ q <= n
  BY NumQueuesAssumption, SMT
<1>6. x \in 1 .. 4 * n
  BY BrpopKeysAt
\* The block x is in has the step of j.
<1>7. /\ x <= n => step(j) = 0
      /\ x > n /\ x <= 2 * n => step(j) = 3
      /\ x > 2 * n /\ x <= 3 * n => step(j) = 6
      /\ x > 3 * n => step(j) = 9
  <2>1. CASE x <= n
    <3>1. x \in 1 .. n
      BY <1>5, <1>6, <2>1, SMT
    <3>2. BrpopKeys[x] = QForPri(QueueNames[x], 0)
      BY <3>1, BrpopKeysAt
    <3>3. step(j) = 0
      BY <1>3, <3>1, <3>2, StepsShareNoKey
    <3> QED
      BY <1>5, <1>6, <2>1, <3>3, SMT
  <2>2. CASE x > n /\ x <= 2 * n
    <3>1. PICK r \in 1 .. n : x = n + r
      <4>1. x - n \in 1 .. n /\ x = n + (x - n)
        BY <1>5, <1>6, <2>2, SMT
      <4> QED
        BY <4>1
    <3>2. BrpopKeys[x] = QForPri(QueueNames[r], 3)
      BY <3>1, BrpopKeysAt
    <3>3. step(j) = 3
      BY <1>3, <3>1, <3>2, StepsShareNoKey
    <3> QED
      BY <1>5, <1>6, <2>2, <3>3, SMT
  <2>3. CASE x > 2 * n /\ x <= 3 * n
    <3>1. PICK r \in 1 .. n : x = 2 * n + r
      <4>1. x - 2 * n \in 1 .. n /\ x = 2 * n + (x - 2 * n)
        BY <1>5, <1>6, <2>3, SMT
      <4> QED
        BY <4>1
    <3>2. BrpopKeys[x] = QForPri(QueueNames[r], 6)
      BY <3>1, BrpopKeysAt
    <3>3. step(j) = 6
      BY <1>3, <3>1, <3>2, StepsShareNoKey
    <3> QED
      BY <1>5, <1>6, <2>3, <3>3, SMT
  <2>4. CASE x > 3 * n
    <3>1. PICK r \in 1 .. n : x = 3 * n + r
      <4>1. x - 3 * n \in 1 .. n /\ x = 3 * n + (x - 3 * n)
        BY <1>5, <1>6, <2>4, SMT
      <4> QED
        BY <4>1
    <3>2. BrpopKeys[x] = QForPri(QueueNames[r], 9)
      BY <3>1, BrpopKeysAt
    <3>3. step(j) = 9
      BY <1>3, <3>1, <3>2, StepsShareNoKey
    <3> QED
      BY <1>5, <1>6, <2>4, <3>3, SMT
  <2> QED
    BY <1>5, <1>6, <2>1, <2>2, <2>3, <2>4, SMT
<1>8. \/ step(i) = 0 /\ x > n
      \/ step(i) = 3 /\ x > 2 * n
      \/ step(i) = 6 /\ x > 3 * n
  BY <1>2, <1>3, <1>4, <1>5, <1>6, <1>7, SMT
<1>9. CASE step(i) = 0 /\ x > n
  <2>1. q \in 1 .. x - 1 /\ BrpopKeys[q] = KeyOf(i)
    BY <1>2, <1>5, <1>6, <1>9, BrpopKeysAt, SMT
  <2> QED
    BY <2>1
<1>10. CASE step(i) = 3 /\ x > 2 * n
  <2>1. n + q \in 1 .. x - 1
    BY <1>5, <1>6, <1>10, SMT
  <2> QED
    BY <1>2, <1>10, <2>1, BrpopKeysAt
<1>11. CASE step(i) = 6 /\ x > 3 * n
  <2>1. 2 * n + q \in 1 .. x - 1
    BY <1>5, <1>6, <1>11, SMT
  <2> QED
    BY <1>2, <1>11, <2>1, BrpopKeysAt
<1> QED
  BY <1>8, <1>9, <1>10, <1>11
=============================================================================
