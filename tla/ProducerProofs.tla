--------------------------- MODULE ProducerProofs ---------------------------
(***************************************************************************)
(* The producer's safety for every number of jobs, batch size, queue and   *)
(* priority list: the workers find every job exactly once, nothing else,   *)
(* and every key is a FIFO queue.                                          *)
(*                                                                         *)
(* The argument is about jobs rather than positions: a job waits under a   *)
(* key, is gone, or is still to be pushed, in the order of its number.     *)
(***************************************************************************)
EXTENDS Producer, QueueKeysProofs, ArithmeticProofs, FiniteSetTheorems, FunctionTheorems

JobIds == 0 .. Jobs - 1

\* Job i is in the list of key k, or was taken by a BRPOP.
Waits(k, i) == \E p \in DOMAIN lists[k] : lists[k][p] = Own(i)
Gone(i) == \E p \in DOMAIN taken : taken[p].msg = Own(i)

\* Younger jobs are nearer to the head.
Youngest1st(list) ==
  \A p, q \in DOMAIN list :
    p < q /\ list[p].own /\ list[q].own => list[q].job < list[p].job

-----------------------------------------------------------------------------

\* The pushes on their way are in order, each under its key, and later than
\* every job the broker has seen.
PipelineInOrder ==
  \A p \in DOMAIN pipeline :
    pipeline[p].op = "push" =>
      /\ pipeline[p] = Push(pipeline[p].job) /\ pipeline[p].job \in JobIds
      /\ \A q \in DOMAIN pipeline :
           p < q /\ pipeline[q].op = "push" => pipeline[p].job < pipeline[q].job
      /\ \A i \in JobIds : \A k \in Keys :
           Gone(i) \/ Waits(k, i) => i < pipeline[p].job

\* Every list holds jobs of its key only, younger ones nearer to the head, and
\* only jobs younger than those already taken from it.
ListsInOrder ==
  /\ \A k \in Keys : \A i \in JobIds : Waits(k, i) => KeyOf(i) = k
  /\ \A k \in Keys : Youngest1st(lists[k])
  /\ \A i, j \in JobIds : Gone(i) /\ Waits(KeyOf(i), j) => i < j

\* While the keys are being cleared there is no job yet, and a key that is not
\* empty is still to be deleted.
Clearing ==
  stage = "clear" =>
    /\ idx = 0 /\ batch = 0 /\ remaining = Jobs
    /\ \A p \in DOMAIN pipeline : pipeline[p].op # "push"
    /\ \A i \in JobIds : ~Gone(i) /\ \A k \in Keys : ~Waits(k, i)
    /\ \A k \in PolledKeys : lists[k] # <<>> =>
         \E p \in DOMAIN pipeline : pipeline[p] \in {Del(k), Flush}

\* While jobs are enqueued, exactly those before NextJob have been pushed.
Enqueueing ==
  stage \in {"enqueue", "ready"} =>
    /\ idx + remaining = Jobs /\ batch <= remaining /\ Len(pipeline) <= batch
    /\ stage = "ready" => batch = 0 /\ remaining = 0
    /\ \A p \in DOMAIN pipeline : pipeline[p] = Push(NextJob + p - 1)
    /\ \A i \in JobIds : i < NextJob <=> Gone(i) \/ Waits(KeyOf(i), i)
    /\ \A k \in PolledKeys : \A p \in DOMAIN lists[k] : lists[k][p].own

\* Workers have taken nothing but jobs.
WorkersTookJobs ==
  \A p \in DOMAIN taken : taken[p].to = "worker" => taken[p].msg.own

ProducerInv ==
  /\ ProducerTypeOK
  /\ PipelineInOrder
  /\ ListsInOrder
  /\ Fifo
  /\ Clearing
  /\ Enqueueing
  /\ WorkersTookJobs

-----------------------------------------------------------------------------
(* Messages, keys and sequences. *)

LEMMA MessageFacts ==
  /\ \A i, j : Own(i) = Own(j) => i = j
  /\ \A i : Own(i).own /\ Own(i).job = i
  /\ ~Stale.own
  /\ \A m \in Messages : m.own => m = Own(m.job) /\ m.job \in JobIds
  /\ \A i \in JobIds : Own(i) \in Messages
  /\ Stale \in Messages
<1>1. \A i : Own(i).own = TRUE /\ Own(i).job = i
  BY DEF Own
<1>2. Stale.own = FALSE
  BY DEF Stale
<1>3. \A i, j : Own(i) = Own(j) => i = j
  BY <1>1, Zenon
<1>4. Messages = {Own(i) : i \in JobIds} \union {Stale}
  BY DEF Messages, JobIds
<1>5. ASSUME NEW m \in Messages, m.own
      PROVE  m = Own(m.job) /\ m.job \in JobIds
  BY <1>1, <1>2, <1>4, <1>5, Zenon
<1> QED
  BY <1>1, <1>2, <1>3, <1>4, <1>5, Zenon

LEMMA CommandFacts ==
  /\ \A c \in Commands : c.op \in {"push", "del", "flush"}
  /\ \A c \in Commands : c.op = "push" => c = Push(c.job) /\ c.job \in JobIds
  /\ \A c \in Commands : c.op = "del" => c = Del(c.key) /\ c.key \in PolledKeys
  /\ \A c \in Commands : c.op = "flush" => c = Flush
  /\ \A i \in JobIds : Push(i) \in Commands
  /\ \A i : Push(i).op = "push" /\ Push(i).job = i /\ Push(i).key = KeyOf(i)
  /\ \A k : Del(k).op = "del" /\ Del(k).key = k
  /\ Flush.op = "flush"
  BY DEF Commands, Push, Del, Flush, JobIds

LEMMA JobIdFacts == JobIds \subseteq Nat /\ \A i \in JobIds : i < Jobs
  BY JobsAssumption, SMT DEF JobIds

LEMMA KeyFacts ==
  /\ \A i \in JobIds : KeyOf(i) \in PolledKeys
  /\ PolledKeys \subseteq Keys
  BY EveryJobIsPolled, JobIdFacts DEF Keys

LEMMA TailFacts ==
  ASSUME NEW S, NEW s \in Seq(S), s # <<>>
  PROVE  /\ Tail(s) \in Seq(S) /\ Len(Tail(s)) = Len(s) - 1 /\ Len(s) \in Nat \ {0}
         /\ Head(s) = s[1] /\ 1 \in DOMAIN s /\ Head(s) \in S
         /\ \A p \in DOMAIN Tail(s) : p \in Nat /\ p + 1 \in DOMAIN s /\ Tail(s)[p] = s[p + 1]
  BY SMT

LEMMA ElementFacts ==
  ASSUME NEW S, NEW s \in Seq(S), NEW p \in DOMAIN s
  PROVE  s[p] \in S
  BY SMT

LEMMA PrependFacts ==
  ASSUME NEW S, NEW s \in Seq(S), NEW e \in S
  PROVE  /\ <<e>> \o s \in Seq(S)
         /\ DOMAIN (<<e>> \o s) = 1 .. Len(s) + 1 /\ DOMAIN s = 1 .. Len(s)
         /\ (<<e>> \o s)[1] = e
         /\ \A p \in DOMAIN s : (<<e>> \o s)[p + 1] = s[p]
         /\ \A p \in 2 .. Len(s) + 1 : (<<e>> \o s)[p] = s[p - 1]
         /\ Len(s) \in Nat
  BY SMT

LEMMA PrefixFacts ==
  ASSUME NEW S, NEW s \in Seq(S), NEW n \in 0 .. Len(s)
  PROVE  /\ SubSeq(s, 1, n) \in Seq(S)
         /\ DOMAIN SubSeq(s, 1, n) = 1 .. n /\ DOMAIN s = 1 .. Len(s)
         /\ \A p \in 1 .. n : SubSeq(s, 1, n)[p] = s[p]
  BY SMT

LEMMA AppendFacts ==
  ASSUME NEW S, NEW s \in Seq(S), NEW e \in S
  PROVE  /\ Append(s, e) \in Seq(S)
         /\ DOMAIN Append(s, e) = 1 .. Len(s) + 1 /\ DOMAIN s = 1 .. Len(s)
         /\ Append(s, e)[Len(s) + 1] = e
         /\ \A p \in DOMAIN s : Append(s, e)[p] = s[p]
         /\ Len(s) \in Nat
  BY SMT

-----------------------------------------------------------------------------
(* The broker. *)

\* What the broker has not touched stays in order.
LEMMA SameLists ==
  ASSUME UNCHANGED <<lists, taken>>
  PROVE  /\ ListsInOrder <=> ListsInOrder'
         /\ Fifo <=> Fifo'
         /\ WorkersTookJobs <=> WorkersTookJobs'
         /\ \A i : Gone(i)' = Gone(i)
         /\ \A k, i : Waits(k, i)' = Waits(k, i)
         /\ \A k : lists'[k] = lists[k]
  BY DEF ListsInOrder, Fifo, WorkersTookJobs, Gone, Waits, Youngest1st

LEMMA LpushStep ==
  ASSUME ProducerInv, Lpush
  PROVE  ProducerInv'
<1>1. /\ pipeline \in Seq(Commands) /\ pipeline # <<>> /\ Head(pipeline).op = "push"
      /\ pipeline' = Tail(pipeline)
      /\ lists \in [Keys -> Seq(Messages)]
      /\ taken' = taken /\ UNCHANGED <<allowFlushdb, stage, idx, remaining, batch, orphans>>
  BY DEF ProducerInv, ProducerTypeOK, Lpush, producerVars
<1>2. /\ pipeline' \in Seq(Commands) /\ Len(pipeline') = Len(pipeline) - 1
      /\ Len(pipeline) \in Nat \ {0}
      /\ 1 \in DOMAIN pipeline /\ Head(pipeline) = pipeline[1] /\ Head(pipeline) \in Commands
      /\ \A p \in DOMAIN pipeline' :
           p \in Nat /\ p + 1 \in DOMAIN pipeline /\ pipeline'[p] = pipeline[p + 1]
  BY <1>1, TailFacts
<1> PICK n \in JobIds : Head(pipeline) = Push(n)
  BY <1>1, <1>2, CommandFacts
<1> DEFINE K == KeyOf(n)
<1>3. /\ K = KeyOf(n) /\ K \in PolledKeys /\ K \in Keys
      /\ pipeline[1].op = "push" /\ pipeline[1].job = n
      /\ lists' = [lists EXCEPT ![K] = <<Own(n)>> \o @]
  <2>1. Head(pipeline).key = K /\ Head(pipeline).job = n /\ Head(pipeline).op = "push"
    BY CommandFacts
  <2>2. lists' = [lists EXCEPT ![K] = <<Own(n)>> \o @]
    BY <2>1 DEF Lpush
  <2> QED
    BY <1>2, <2>1, <2>2, KeyFacts
<1> HIDE DEF K
<1>4. Own(n) \in Messages /\ lists[K] \in Seq(Messages)
  BY <1>1, <1>3, MessageFacts
<1> DEFINE old == lists[K]
           new == <<Own(n)>> \o old
<1>5. /\ lists' \in [Keys -> Seq(Messages)] /\ lists'[K] = new
      /\ \A k \in Keys : k # K => lists'[k] = lists[k]
  BY <1>1, <1>3, <1>4, PrependFacts
<1>6. /\ DOMAIN new = 1 .. Len(old) + 1 /\ DOMAIN old = 1 .. Len(old) /\ Len(old) \in Nat
      /\ new[1] = Own(n)
      /\ \A p \in DOMAIN old : new[p + 1] = old[p]
      /\ \A p \in 2 .. Len(old) + 1 : new[p] = old[p - 1]
  BY <1>4, PrependFacts
<1> HIDE DEF old, new
<1>7. \A i \in JobIds : \A k \in Keys : Waits(k, i)' <=> Waits(k, i) \/ (k = K /\ i = n)
  <2>1. \A i : (\E p \in DOMAIN new : new[p] = Own(i))
              <=> i = n \/ \E p \in DOMAIN old : old[p] = Own(i)
    <3>1. \A p \in DOMAIN new : p = 1 \/ p - 1 \in DOMAIN old
      BY <1>6, SMT
    <3>2. \A p \in DOMAIN new : p # 1 => new[p] = old[p - 1]
      BY <1>6, SMT
    <3>3. \A p \in DOMAIN old : p + 1 \in DOMAIN new
      BY <1>6, SMT
    <3>4. 1 \in DOMAIN new
      BY <1>6, SMT
    <3>5. \A i : Own(n) = Own(i) <=> i = n
      BY MessageFacts
    <3>6. new[1] = Own(n) /\ \A p \in DOMAIN old : new[p + 1] = old[p]
      BY <1>6
    <3> HIDE DEF old, new
    <3>7. ASSUME NEW i, NEW p \in DOMAIN new, new[p] = Own(i)
          PROVE  i = n \/ \E q \in DOMAIN old : old[q] = Own(i)
      BY <3>1, <3>2, <3>5, <3>6, <3>7
    <3>8. ASSUME NEW i, NEW p \in DOMAIN old, old[p] = Own(i)
          PROVE  \E q \in DOMAIN new : new[q] = Own(i)
      BY <3>3, <3>6, <3>8
    <3> QED
      BY <3>4, <3>6, <3>7, <3>8
  <2>2. \A i : Waits(K, i)' <=> Waits(K, i) \/ i = n
    BY <1>5, <2>1 DEF Waits, old
  <2>3. \A k \in Keys : k # K => \A i : Waits(k, i)' <=> Waits(k, i)
    BY <1>5 DEF Waits
  <2> QED
    BY <2>2, <2>3
<1>8. \A i \in JobIds : Gone(i)' <=> Gone(i)
  BY <1>1 DEF Gone
<1>9. \A i \in JobIds : \A k \in Keys : Gone(i) \/ Waits(k, i) => i < n
  BY <1>2, <1>3 DEF ProducerInv, PipelineInOrder
<1>10. ProducerTypeOK'
  BY <1>1, <1>2, <1>5 DEF ProducerInv, ProducerTypeOK
<1>11. PipelineInOrder'
  <2> SUFFICES ASSUME NEW p \in DOMAIN pipeline', pipeline'[p].op = "push"
               PROVE  /\ pipeline'[p] = Push(pipeline'[p].job) /\ pipeline'[p].job \in JobIds
                      /\ \A q \in DOMAIN pipeline' :
                           p < q /\ pipeline'[q].op = "push"
                             => pipeline'[p].job < pipeline'[q].job
                      /\ \A i \in JobIds : \A k \in Keys :
                           Gone(i)' \/ Waits(k, i)' => i < pipeline'[p].job
    BY DEF PipelineInOrder
  <2>1. /\ pipeline'[p] = pipeline[p + 1] /\ p + 1 \in DOMAIN pipeline
        /\ p \in Nat /\ 1 < p + 1
    BY <1>2, SMT
  <2>2. /\ pipeline[p + 1] = Push(pipeline[p + 1].job) /\ pipeline[p + 1].job \in JobIds
        /\ \A q \in DOMAIN pipeline :
             p + 1 < q /\ pipeline[q].op = "push" => pipeline[p + 1].job < pipeline[q].job
        /\ \A i \in JobIds : \A k \in Keys :
             Gone(i) \/ Waits(k, i) => i < pipeline[p + 1].job
    BY <2>1 DEF ProducerInv, PipelineInOrder
  <2>3. ASSUME NEW q \in DOMAIN pipeline', p < q, pipeline'[q].op = "push"
        PROVE  pipeline'[p].job < pipeline'[q].job
    <3>1. q + 1 \in DOMAIN pipeline /\ pipeline'[q] = pipeline[q + 1] /\ q \in Nat
      BY <1>2
    <3>2. p + 1 < q + 1
      BY <2>1, <2>3, <3>1, SMT
    <3> QED
      BY <2>1, <2>2, <2>3, <3>1, <3>2
  <2>4. n < pipeline[p + 1].job
    BY <1>2, <1>3, <2>1 DEF ProducerInv, PipelineInOrder
  <2> QED
    BY <1>7, <1>8, <2>1, <2>2, <2>3, <2>4
<1>12. ListsInOrder'
  <2>1. ASSUME NEW k \in Keys
        PROVE  Youngest1st(lists'[k])
    <3>1. CASE k # K
      BY <1>5, <3>1 DEF ProducerInv, ListsInOrder
    <3>2. CASE k = K
      <4> SUFFICES ASSUME NEW p \in DOMAIN new, NEW q \in DOMAIN new, p < q,
                          new[p].own, new[q].own
                   PROVE  new[q].job < new[p].job
        BY <1>5, <3>2 DEF Youngest1st
      <4>1. q # 1 /\ q - 1 \in DOMAIN old /\ new[q] = old[q - 1] /\ q \in Nat
        BY <1>6, SMT
      <4>2. old[q - 1] \in Messages
        BY <1>4, <4>1, SMT DEF old
      <4>3. new[q] = Own(new[q].job) /\ new[q].job \in JobIds
        BY <4>1, <4>2, MessageFacts
      <4>4. CASE p = 1
        <5>1. Waits(K, new[q].job)
          BY <4>1, <4>3 DEF Waits, old
        <5> QED
          BY <1>3, <1>6, <1>9, <4>3, <4>4, <5>1, MessageFacts
      <4>5. CASE p # 1
        <5>1. p - 1 \in DOMAIN old /\ new[p] = old[p - 1] /\ p - 1 < q - 1
          BY <1>6, <4>1, <4>5, SMT
        <5> QED
          BY <1>3, <4>1, <5>1 DEF ProducerInv, ListsInOrder, Youngest1st, old
      <4> QED
        BY <4>4, <4>5
    <3> QED
      BY <3>1, <3>2
  <2>2. ASSUME NEW i \in JobIds, NEW j \in JobIds, Gone(i)', Waits(KeyOf(i), j)'
        PROVE  i < j
    BY <1>3, <1>7, <1>8, <1>9, <2>2, KeyFacts DEF ProducerInv, ListsInOrder
  <2>3. ASSUME NEW k \in Keys, NEW i \in JobIds, Waits(k, i)'
        PROVE  KeyOf(i) = k
    BY <1>3, <1>7, <2>3 DEF ProducerInv, ListsInOrder
  <2> QED
    BY <2>1, <2>2, <2>3 DEF ListsInOrder
<1>13. Fifo' /\ WorkersTookJobs'
  BY <1>1 DEF ProducerInv, Fifo, WorkersTookJobs
<1>14. Clearing'
  BY <1>1, <1>2, <1>3 DEF ProducerInv, Clearing
<1>15. Enqueueing'
  <2> SUFFICES ASSUME stage \in {"enqueue", "ready"}
               PROVE  Enqueueing'
    BY <1>1 DEF Enqueueing
  <2>1. /\ idx + remaining = Jobs /\ batch <= remaining /\ Len(pipeline) <= batch
        /\ stage = "ready" => batch = 0 /\ remaining = 0
        /\ \A p \in DOMAIN pipeline : pipeline[p] = Push(NextJob + p - 1)
        /\ \A i \in JobIds : i < NextJob <=> Gone(i) \/ Waits(KeyOf(i), i)
        /\ \A k \in PolledKeys : \A p \in DOMAIN lists[k] : lists[k][p].own
        /\ idx \in Nat /\ batch \in Nat
    BY DEF ProducerInv, Enqueueing, ProducerTypeOK
  <2>2. NextJob \in Int /\ NextJob' = NextJob + 1 /\ n = NextJob
    <3>1. NextJob = idx + batch - Len(pipeline)
      BY DEF NextJob
    <3>2. NextJob' = idx + batch - Len(pipeline')
      BY <1>1 DEF NextJob
    <3>3. NextJob \in Int /\ NextJob' = NextJob + 1
      BY <1>2, <2>1, <3>1, <3>2, SMT
    <3>4. n = NextJob + 1 - 1
      BY <1>2, <1>3, <2>1, CommandFacts
    <3> QED
      BY <3>3, <3>4, SMT
  <2>3. ASSUME NEW p \in DOMAIN pipeline'
        PROVE  pipeline'[p] = Push(NextJob' + p - 1)
    <3>1. p \in Nat /\ pipeline'[p] = Push(NextJob + (p + 1) - 1)
      BY <1>2, <2>1
    <3>2. NextJob + (p + 1) - 1 = NextJob' + p - 1
      BY <2>2, <3>1, SMT
    <3> QED
      BY <3>1, <3>2
  <2>4. ASSUME NEW i \in JobIds
        PROVE  i < NextJob' <=> Gone(i)' \/ Waits(KeyOf(i), i)'
    <3>1. i < NextJob' <=> i < NextJob \/ i = n
      BY <2>2, JobIdFacts, SMT
    <3> QED
      BY <1>3, <1>7, <1>8, <2>1, <3>1, KeyFacts
  <2>5. ASSUME NEW k \in PolledKeys, NEW p \in DOMAIN lists'[k]
        PROVE  lists'[k][p].own
    <3>1. CASE k # K
      BY <1>5, <2>1, <3>1, KeyFacts
    <3>2. CASE k = K
      <4>1. p = 1 \/ (p - 1 \in DOMAIN old /\ new[p] = old[p - 1])
        BY <1>5, <1>6, <3>2, SMT
      <4>2. lists'[k][p] = new[p]
        BY <1>5, <3>2
      <4>3. new[1].own
        BY <1>6, MessageFacts
      <4>4. \A q \in DOMAIN old : old[q].own
        BY <1>3, <2>1 DEF old
      <4> QED
        BY <4>1, <4>2, <4>3, <4>4
    <3> QED
      BY <3>1, <3>2
  <2>6. /\ idx' + remaining' = Jobs /\ batch' <= remaining' /\ Len(pipeline') <= batch'
        /\ stage' = "ready" => batch' = 0 /\ remaining' = 0
    <3>1. Len(pipeline') <= batch
      BY <1>2, <2>1, SMT
    <3> QED
      BY <1>1, <2>1, <3>1
  <2> QED
    BY <2>3, <2>4, <2>5, <2>6 DEF Enqueueing
<1> QED
  BY <1>10, <1>11, <1>12, <1>13, <1>14, <1>15 DEF ProducerInv

\* DEL and FLUSHDB empty lists and leave the others alone.
LEMMA EmptyingStep ==
  ASSUME ProducerInv, Delete \/ FlushAll
  PROVE  ProducerInv'
<1>1. /\ pipeline \in Seq(Commands) /\ pipeline # <<>> /\ pipeline' = Tail(pipeline)
      /\ Head(pipeline).op # "push"
      /\ lists \in [Keys -> Seq(Messages)]
      /\ taken' = taken /\ UNCHANGED <<allowFlushdb, stage, idx, remaining, batch, orphans>>
  BY DEF ProducerInv, ProducerTypeOK, Delete, FlushAll, producerVars
<1>2. /\ pipeline' \in Seq(Commands) /\ Len(pipeline') = Len(pipeline) - 1
      /\ Len(pipeline) \in Nat \ {0} /\ DOMAIN pipeline = 1 .. Len(pipeline)
      /\ 1 \in DOMAIN pipeline /\ Head(pipeline) = pipeline[1] /\ Head(pipeline) \in Commands
      /\ \A p \in DOMAIN pipeline' :
           p \in Nat /\ p + 1 \in DOMAIN pipeline /\ pipeline'[p] = pipeline[p + 1]
      /\ \A p \in DOMAIN pipeline : p # 1 => p - 1 \in DOMAIN pipeline' /\ p \in Nat
  BY <1>1, TailFacts, SMT
<1>3. /\ lists' \in [Keys -> Seq(Messages)]
      /\ \A k \in Keys : lists'[k] = lists[k] \/ lists'[k] = <<>>
      /\ \A k \in PolledKeys : Head(pipeline) \in {Del(k), Flush} => lists'[k] = <<>>
  <2>1. CASE Delete
    <3>1. lists' = [lists EXCEPT ![Head(pipeline).key] = <<>>]
      BY <2>1 DEF Delete
    <3>2. Head(pipeline).op = "del"
      BY <2>1 DEF Delete
    <3>3. \A k \in PolledKeys : Head(pipeline) \in {Del(k), Flush} => Head(pipeline).key = k
      BY <3>2, CommandFacts
    <3>4. <<>> \in Seq(Messages)
      BY SMT
    <3>5. /\ lists' \in [Keys -> Seq(Messages)]
          /\ \A k \in Keys : lists'[k] = IF k = Head(pipeline).key THEN <<>> ELSE lists[k]
      BY <1>1, <3>1, <3>4, Zenon
    <3> QED
      BY <3>3, <3>5, KeyFacts, Zenon
  <2>2. CASE FlushAll
    <3>1. lists' = [k \in Keys |-> <<>>]
      BY <2>2 DEF FlushAll
    <3> QED
      BY <3>1, KeyFacts
  <2> QED
    BY <2>1, <2>2
<1>4. \A i : \A k \in Keys : Waits(k, i)' => Waits(k, i)
  BY <1>3 DEF Waits
<1>5. \A i : Gone(i)' <=> Gone(i)
  BY <1>1 DEF Gone
<1>6. ProducerTypeOK'
  BY <1>1, <1>2, <1>3 DEF ProducerInv, ProducerTypeOK
<1>7. PipelineInOrder'
  <2> SUFFICES ASSUME NEW p \in DOMAIN pipeline', pipeline'[p].op = "push"
               PROVE  /\ pipeline'[p] = Push(pipeline'[p].job) /\ pipeline'[p].job \in JobIds
                      /\ \A q \in DOMAIN pipeline' :
                           p < q /\ pipeline'[q].op = "push"
                             => pipeline'[p].job < pipeline'[q].job
                      /\ \A i \in JobIds : \A k \in Keys :
                           Gone(i)' \/ Waits(k, i)' => i < pipeline'[p].job
    BY DEF PipelineInOrder
  <2>1. pipeline'[p] = pipeline[p + 1] /\ p + 1 \in DOMAIN pipeline /\ p \in Nat
    BY <1>2
  <2>2. /\ pipeline[p + 1] = Push(pipeline[p + 1].job) /\ pipeline[p + 1].job \in JobIds
        /\ \A q \in DOMAIN pipeline :
             p + 1 < q /\ pipeline[q].op = "push" => pipeline[p + 1].job < pipeline[q].job
        /\ \A i \in JobIds : \A k \in Keys :
             Gone(i) \/ Waits(k, i) => i < pipeline[p + 1].job
    BY <2>1 DEF ProducerInv, PipelineInOrder
  <2>3. ASSUME NEW q \in DOMAIN pipeline', p < q, pipeline'[q].op = "push"
        PROVE  pipeline'[p].job < pipeline'[q].job
    <3>1. q + 1 \in DOMAIN pipeline /\ pipeline'[q] = pipeline[q + 1] /\ q \in Nat
      BY <1>2
    <3>2. p + 1 < q + 1
      BY <2>1, <2>3, <3>1, SMT
    <3> QED
      BY <2>1, <2>2, <2>3, <3>1, <3>2
  <2> QED
    BY <1>4, <1>5, <2>1, <2>2, <2>3
<1>8. ListsInOrder'
  <2>1. Youngest1st(<<>>)
    BY DEF Youngest1st
  <2>2. \A k \in Keys : Youngest1st(lists'[k])
    BY <1>3, <2>1 DEF ProducerInv, ListsInOrder
  <2>3. ASSUME NEW i \in JobIds, NEW j \in JobIds, Gone(i)', Waits(KeyOf(i), j)'
        PROVE  i < j
    BY <1>4, <1>5, <2>3, KeyFacts DEF ProducerInv, ListsInOrder
  <2>4. ASSUME NEW k \in Keys, NEW i \in JobIds, Waits(k, i)'
        PROVE  KeyOf(i) = k
    BY <1>4, <2>4 DEF ProducerInv, ListsInOrder
  <2> QED
    BY <2>2, <2>3, <2>4 DEF ListsInOrder
<1>9. Fifo' /\ WorkersTookJobs'
  BY <1>1 DEF ProducerInv, Fifo, WorkersTookJobs
<1>10. Clearing'
  <2> SUFFICES ASSUME stage = "clear" PROVE Clearing'
    BY <1>1 DEF Clearing
  <2>1. /\ idx = 0 /\ batch = 0 /\ remaining = Jobs
        /\ \A p \in DOMAIN pipeline : pipeline[p].op # "push"
        /\ \A i \in JobIds : ~Gone(i) /\ \A k \in Keys : ~Waits(k, i)
        /\ \A k \in PolledKeys : lists[k] # <<>> =>
             \E p \in DOMAIN pipeline : pipeline[p] \in {Del(k), Flush}
    BY DEF ProducerInv, Clearing
  <2>2. ASSUME NEW k \in PolledKeys, lists'[k] # <<>>
        PROVE  \E p \in DOMAIN pipeline' : pipeline'[p] \in {Del(k), Flush}
    <3>1. Head(pipeline) \notin {Del(k), Flush} /\ lists[k] # <<>>
      BY <1>3, <2>2, KeyFacts
    <3>2. PICK p \in DOMAIN pipeline : pipeline[p] \in {Del(k), Flush}
      BY <2>1, <3>1
    <3>3. p # 1
      BY <1>2, <3>1, <3>2
    <3>4. p - 1 \in DOMAIN pipeline' /\ pipeline'[p - 1] = pipeline[(p - 1) + 1] /\ (p - 1) + 1 = p
      BY <1>2, <3>3, SMT
    <3> QED
      BY <3>2, <3>4
  <2>3. \A i \in JobIds : ~Gone(i)' /\ \A k \in Keys : ~Waits(k, i)'
    BY <1>4, <1>5, <2>1
  <2>4. \A p \in DOMAIN pipeline' : pipeline'[p].op # "push"
    BY <1>2, <2>1
  <2> QED
    BY <1>1, <2>1, <2>2, <2>3, <2>4 DEF Clearing
<1>11. Enqueueing'
  <2>1. stage \in {"enqueue", "ready"} => pipeline[1] = Push(NextJob + 1 - 1)
    BY <1>2 DEF ProducerInv, Enqueueing
  <2>2. stage \notin {"enqueue", "ready"}
    BY <1>1, <1>2, <2>1, CommandFacts
  <2> QED
    BY <1>1, <2>2 DEF Enqueueing
<1> QED
  BY <1>6, <1>7, <1>8, <1>9, <1>10, <1>11 DEF ProducerInv

\* A BRPOP takes the oldest job of its list.
LEMMA PopStep ==
  ASSUME ProducerInv, NEW to \in {"worker", "orphan"}, Pop(to),
         UNCHANGED <<producerVars, pipeline>>, orphans' \in 0 .. MaxOrphans,
         to = "worker" => stage = "ready"
  PROVE  ProducerInv'
<1>1. PICK x \in DOMAIN BrpopKeys :
        /\ lists[BrpopKeys[x]] # <<>>
        /\ lists' = [lists EXCEPT ![BrpopKeys[x]] =
                       SubSeq(lists[BrpopKeys[x]], 1, Len(lists[BrpopKeys[x]]) - 1)]
        /\ taken' = Append(taken, [msg |-> lists[BrpopKeys[x]][Len(lists[BrpopKeys[x]])],
                                   to |-> to])
  BY DEF Pop
<1> DEFINE K == BrpopKeys[x]
<1>2. K \in PolledKeys /\ K \in Keys
  BY KeyFacts DEF PolledKeys
<1> HIDE DEF K
<1>3. /\ lists \in [Keys -> Seq(Messages)]
      /\ taken \in Seq([msg : Messages, to : {"worker", "orphan"}])
      /\ UNCHANGED <<allowFlushdb, stage, idx, remaining, batch, pipeline>>
  BY DEF ProducerInv, ProducerTypeOK, producerVars
<1> PICK old \in Seq(Messages) : old = lists[K]
  BY <1>2, <1>3
<1>4. /\ old # <<>>
      /\ lists' = [lists EXCEPT ![K] = SubSeq(old, 1, Len(old) - 1)]
      /\ taken' = Append(taken, [msg |-> old[Len(old)], to |-> to])
  BY <1>1 DEF K
<1>5. /\ Len(old) \in Nat \ {0} /\ DOMAIN old = 1 .. Len(old) /\ Len(old) \in DOMAIN old
      /\ Len(old) - 1 \in 0 .. Len(old) /\ old[Len(old)] \in Messages
  BY <1>4, SMT
<1> PICK m \in Messages : m = old[Len(old)]
  BY <1>5
<1> PICK new : new = SubSeq(old, 1, Len(old) - 1)
  OBVIOUS
<1>6. /\ new \in Seq(Messages) /\ DOMAIN new = 1 .. Len(old) - 1
      /\ \A p \in DOMAIN new : new[p] = old[p] /\ p \in DOMAIN old /\ p < Len(old)
      /\ \A p \in DOMAIN old : p = Len(old) \/ p \in DOMAIN new
  BY <1>5, PrefixFacts, SMT
<1>7. /\ lists' \in [Keys -> Seq(Messages)] /\ lists'[K] = new
      /\ \A k \in Keys : k # K => lists'[k] = lists[k]
  BY <1>2, <1>3, <1>4, <1>6
<1>8. /\ taken' \in Seq([msg : Messages, to : {"worker", "orphan"}])
      /\ DOMAIN taken' = 1 .. Len(taken) + 1 /\ DOMAIN taken = 1 .. Len(taken)
      /\ Len(taken) \in Nat
      /\ taken'[Len(taken) + 1] = [msg |-> m, to |-> to]
      /\ \A p \in DOMAIN taken : taken'[p] = taken[p] /\ p \in DOMAIN taken'
      /\ \A p \in DOMAIN taken' : p = Len(taken) + 1 \/ (p \in DOMAIN taken /\ p < Len(taken) + 1)
  <2>1. [msg |-> m, to |-> to] \in [msg : Messages, to : {"worker", "orphan"}]
    OBVIOUS
  <2>2. taken' = Append(taken, [msg |-> m, to |-> to])
    BY <1>4
  <2>3. /\ taken' \in Seq([msg : Messages, to : {"worker", "orphan"}])
        /\ DOMAIN taken' = 1 .. Len(taken) + 1 /\ DOMAIN taken = 1 .. Len(taken)
        /\ taken'[Len(taken) + 1] = [msg |-> m, to |-> to]
        /\ \A p \in DOMAIN taken : taken'[p] = taken[p]
        /\ Len(taken) \in Nat
    BY <1>3, <2>1, <2>2, AppendFacts
  <2> QED
    BY <2>3, SMT
<1>9. \A i : Gone(i)' <=> Gone(i) \/ m = Own(i)
  <2>1. ASSUME NEW i, NEW p \in DOMAIN taken', taken'[p].msg = Own(i)
        PROVE  Gone(i) \/ m = Own(i)
    BY <1>8, <2>1 DEF Gone
  <2>2. ASSUME NEW i, Gone(i) \/ m = Own(i)
        PROVE  \E p \in DOMAIN taken' : taken'[p].msg = Own(i)
    <3>1. Len(taken) + 1 \in DOMAIN taken' /\ taken'[Len(taken) + 1].msg = m
      BY <1>8, SMT
    <3> QED
      BY <1>8, <2>2, <3>1 DEF Gone
  <2> QED
    BY <2>1, <2>2 DEF Gone
<1>10. \A i \in JobIds : \A k \in Keys :
         /\ Waits(k, i)' => Waits(k, i)
         /\ Waits(k, i) => Waits(k, i)' \/ m = Own(i)
  <2>1. \A k \in Keys : k # K => \A i : Waits(k, i)' <=> Waits(k, i)
    BY <1>7 DEF Waits
  <2>2. \A i : /\ Waits(K, i)' => Waits(K, i)
               /\ Waits(K, i) => Waits(K, i)' \/ m = Own(i)
    BY <1>6, <1>7 DEF Waits
  <2> QED
    BY <2>1, <2>2
<1>11. ASSUME NEW j \in JobIds, m = Own(j)
       PROVE  /\ Waits(K, j) /\ KeyOf(j) = K
              /\ \A i \in JobIds : Waits(K, i)' => j < i
  <2>1. Waits(K, j)
    BY <1>5, <1>11 DEF Waits
  <2>2. KeyOf(j) = K
    BY <1>2, <2>1 DEF ProducerInv, ListsInOrder
  <2>3. ASSUME NEW i \in JobIds, Waits(K, i)'
        PROVE  j < i
    <3>1. PICK p \in DOMAIN new : new[p] = Own(i)
      BY <1>7, <2>3 DEF Waits
    <3>2. p \in DOMAIN old /\ p < Len(old) /\ old[p] = Own(i) /\ old[Len(old)] = Own(j)
      BY <1>6, <1>11, <3>1
    <3>3. /\ old[p].own /\ old[p].job = i
          /\ old[Len(old)].own /\ old[Len(old)].job = j
      BY <3>2, MessageFacts
    <3>4. Youngest1st(old)
      BY <1>2 DEF ProducerInv, ListsInOrder
    <3> QED
      BY <1>5, <3>2, <3>3, <3>4 DEF Youngest1st
  <2> QED
    BY <2>1, <2>2, <2>3
<1>12. ProducerTypeOK'
  BY <1>3, <1>7, <1>8 DEF ProducerInv, ProducerTypeOK
<1>13. PipelineInOrder'
  <2>1. ASSUME NEW i \in JobIds, NEW k \in Keys, Gone(i)' \/ Waits(k, i)'
        PROVE  Gone(i) \/ \E k2 \in Keys : Waits(k2, i)
    BY <1>2, <1>9, <1>10, <1>11, <2>1
  <2> QED
    BY <1>3, <2>1 DEF ProducerInv, PipelineInOrder
<1>14. ListsInOrder'
  <2>1. ASSUME NEW k \in Keys
        PROVE  Youngest1st(lists'[k])
    <3>1. Youngest1st(old)
      BY <1>2 DEF ProducerInv, ListsInOrder
    <3>2. Youngest1st(new)
      BY <1>6, <3>1 DEF Youngest1st
    <3> QED
      BY <1>7, <3>2 DEF ProducerInv, ListsInOrder
  <2>2. ASSUME NEW i \in JobIds, NEW j \in JobIds, Gone(i)', Waits(KeyOf(i), j)'
        PROVE  i < j
    <3>1. Waits(KeyOf(i), j)
      BY <1>10, <2>2, KeyFacts
    <3>2. CASE Gone(i)
      BY <3>1, <3>2 DEF ProducerInv, ListsInOrder
    <3>3. CASE m = Own(i)
      BY <1>11, <2>2, <3>3
    <3> QED
      BY <1>9, <2>2, <3>2, <3>3
  <2>3. ASSUME NEW k \in Keys, NEW i \in JobIds, Waits(k, i)'
        PROVE  KeyOf(i) = k
    BY <1>10, <2>3 DEF ProducerInv, ListsInOrder
  <2> QED
    BY <2>1, <2>2, <2>3 DEF ListsInOrder
<1>15. Fifo'
  <2> SUFFICES ASSUME NEW a \in DOMAIN taken', NEW b \in DOMAIN taken', a < b,
                      taken'[a].msg.own, taken'[b].msg.own,
                      KeyOf(taken'[a].msg.job) = KeyOf(taken'[b].msg.job)
               PROVE  taken'[a].msg.job < taken'[b].msg.job
    BY DEF Fifo
  <2>1. a \in DOMAIN taken /\ taken'[a] = taken[a]
    BY <1>8, SMT
  <2>2. CASE b \in DOMAIN taken
    BY <1>8, <2>1, <2>2 DEF ProducerInv, Fifo
  <2>3. CASE b = Len(taken) + 1
    <3>1. taken'[b].msg = m
      BY <1>8, <2>3
    <3>2. m = Own(m.job) /\ m.job \in JobIds
      BY <3>1, MessageFacts
    <3>3. taken[a] \in [msg : Messages, to : {"worker", "orphan"}]
      BY <1>3, <2>1, ElementFacts
    <3>4. taken[a].msg = Own(taken[a].msg.job) /\ taken[a].msg.job \in JobIds
      BY <2>1, <3>3, MessageFacts
    <3>5. Gone(taken[a].msg.job)
      BY <2>1, <3>4 DEF Gone
    <3>6. Waits(KeyOf(taken[a].msg.job), m.job)
      BY <1>11, <2>1, <3>1, <3>2
    <3> QED
      BY <2>1, <3>1, <3>2, <3>4, <3>5, <3>6 DEF ProducerInv, ListsInOrder
  <2> QED
    BY <1>8, <2>2, <2>3
<1>16. Clearing'
  <2> SUFFICES ASSUME stage = "clear" PROVE Clearing'
    BY <1>3 DEF Clearing
  <2>1. /\ idx = 0 /\ batch = 0 /\ remaining = Jobs
        /\ \A p \in DOMAIN pipeline : pipeline[p].op # "push"
        /\ \A i \in JobIds : ~Gone(i) /\ \A k \in Keys : ~Waits(k, i)
        /\ \A k \in PolledKeys : lists[k] # <<>> =>
             \E p \in DOMAIN pipeline : pipeline[p] \in {Del(k), Flush}
    BY DEF ProducerInv, Clearing
  <2>2. \A i \in JobIds : m # Own(i)
    BY <1>2, <1>11, <2>1
  <2>3. \A i \in JobIds : ~Gone(i)' /\ \A k \in Keys : ~Waits(k, i)'
    BY <1>9, <1>10, <2>1, <2>2
  <2>4. \A k \in PolledKeys : lists'[k] # <<>> => lists[k] # <<>>
    BY <1>4, <1>7, KeyFacts
  <2> QED
    BY <1>3, <2>1, <2>3, <2>4 DEF Clearing
<1>17. Enqueueing'
  <2> SUFFICES ASSUME stage \in {"enqueue", "ready"} PROVE Enqueueing'
    BY <1>3 DEF Enqueueing
  <2>1. /\ idx + remaining = Jobs /\ batch <= remaining /\ Len(pipeline) <= batch
        /\ stage = "ready" => batch = 0 /\ remaining = 0
        /\ \A p \in DOMAIN pipeline : pipeline[p] = Push(NextJob + p - 1)
        /\ \A i \in JobIds : i < NextJob <=> Gone(i) \/ Waits(KeyOf(i), i)
        /\ \A k \in PolledKeys : \A p \in DOMAIN lists[k] : lists[k][p].own
    BY DEF ProducerInv, Enqueueing
  <2>2. NextJob' = NextJob
    BY <1>3 DEF NextJob
  <2>3. \A i \in JobIds : i < NextJob <=> Gone(i)' \/ Waits(KeyOf(i), i)'
    BY <1>9, <1>10, <1>11, <2>1, KeyFacts
  <2>4. \A k \in PolledKeys : \A p \in DOMAIN lists'[k] : lists'[k][p].own
    BY <1>6, <1>7, <2>1, KeyFacts
  <2> QED
    BY <1>3, <2>1, <2>2, <2>3, <2>4 DEF Enqueueing
<1>18. WorkersTookJobs'
  <2>1. to = "worker" => m.own
    BY <1>2, <1>5 DEF ProducerInv, Enqueueing
  <2> QED
    BY <1>8, <2>1 DEF ProducerInv, WorkersTookJobs
<1> QED
  BY <1>12, <1>13, <1>14, <1>15, <1>16, <1>17, <1>18 DEF ProducerInv

-----------------------------------------------------------------------------
(* main(). *)

LEMMA ClearDoneStep ==
  ASSUME ProducerInv, ClearDone
  PROVE  ProducerInv'
<1>1. /\ stage = "clear" /\ pipeline = <<>> /\ stage' = "enqueue"
      /\ UNCHANGED <<allowFlushdb, idx, remaining, batch, pipeline, lists, taken, orphans>>
  BY DEF ClearDone
<1>2. ProducerTypeOK'
  BY <1>1 DEF ProducerInv, ProducerTypeOK
<1>3. PipelineInOrder'
  BY <1>1, SMT DEF PipelineInOrder
<1>4. Clearing'
  BY <1>1 DEF Clearing
<1>5. Enqueueing'
  <2>1. /\ idx = 0 /\ batch = 0 /\ remaining = Jobs
        /\ \A i \in JobIds : ~Gone(i) /\ \A k \in Keys : ~Waits(k, i)
        /\ \A k \in PolledKeys : lists[k] # <<>> =>
             \E p \in DOMAIN pipeline : pipeline[p] \in {Del(k), Flush}
    BY <1>1 DEF ProducerInv, Clearing
  <2>2. DOMAIN pipeline = {} /\ Len(pipeline) = 0
    BY <1>1, SMT
  <2>3. NextJob' = 0
    <3>1. NextJob' = idx + batch - Len(pipeline)
      BY <1>1 DEF NextJob
    <3> QED
      BY <2>1, <2>2, <3>1
  <2>4. \A i \in JobIds : i < NextJob' <=> Gone(i)' \/ Waits(KeyOf(i), i)'
    <3>1. \A i \in JobIds : ~(i < 0)
      BY JobIdFacts, SMT
    <3> QED
      BY <1>1, <2>1, <2>3, <3>1, KeyFacts, SameLists
  <2>5. \A k \in PolledKeys : lists'[k] = <<>>
    BY <1>1, <2>1, <2>2
  <2>6. \A k \in PolledKeys : \A p \in DOMAIN lists'[k] : lists'[k][p].own
    BY <2>5, SMT
  <2>7. idx' + remaining' = Jobs /\ batch' <= remaining' /\ Len(pipeline') <= batch'
    BY <1>1, <2>1, <2>2, JobsAssumption, SMT
  <2> QED
    BY <1>1, <2>2, <2>4, <2>6, <2>7 DEF Enqueueing
<1> QED
  BY <1>1, <1>2, <1>3, <1>4, <1>5, SameLists DEF ProducerInv

LEMMA SendBatchStep ==
  ASSUME ProducerInv, SendBatch
  PROVE  ProducerInv'
<1>1. /\ stage = "enqueue" /\ batch = 0 /\ remaining > 0
      /\ batch' = IF remaining < BatchSize THEN remaining ELSE BatchSize
      /\ pipeline' = [j \in 1 .. batch' |-> Push(idx + j - 1)]
      /\ UNCHANGED <<allowFlushdb, stage, idx, remaining, lists, taken, orphans>>
      /\ idx \in Nat /\ remaining \in Nat
  BY DEF SendBatch, ProducerInv, ProducerTypeOK
<1>2. /\ idx + remaining = Jobs /\ Len(pipeline) <= batch
      /\ \A i \in JobIds : i < NextJob <=> Gone(i) \/ Waits(KeyOf(i), i)
      /\ \A k \in PolledKeys : \A p \in DOMAIN lists[k] : lists[k][p].own
      /\ Len(pipeline) \in Nat
  BY <1>1 DEF ProducerInv, Enqueueing, ProducerTypeOK
<1>3. batch' \in 1 .. BatchSize /\ batch' <= remaining
  BY <1>1, BatchAssumption, SMT
<1>4. \A j \in 1 .. batch' : idx + j - 1 \in JobIds
  BY <1>1, <1>2, <1>3, BatchAssumption, JobsAssumption, SMT DEF JobIds
<1>5. \A j \in 1 .. batch' : Push(idx + j - 1) \in Commands
  BY <1>4, CommandFacts
<1>6. /\ pipeline' \in Seq(Commands) /\ Len(pipeline') = batch' /\ DOMAIN pipeline' = 1 .. batch'
      /\ \A j \in 1 .. batch' : pipeline'[j] = Push(idx + j - 1)
  <2> DEFINE push(j) == Push(idx + j - 1)
  <2>1. pipeline' = [j \in 1 .. batch' |-> push(j)] /\ \A j \in 1 .. batch' : push(j) \in Commands
    BY <1>1, <1>5
  <2>2. \A j : push(j) = Push(idx + j - 1)
    OBVIOUS
  <2> HIDE DEF push
  <2>3. pipeline' \in Seq(Commands) /\ Len(pipeline') = batch'
    BY <1>3, <2>1, BatchAssumption, SMT
  <2> QED
    BY <2>1, <2>2, <2>3
<1>7. NextJob = idx /\ NextJob' = idx
  <2>1. Len(pipeline) = 0
    BY <1>1, <1>2, SMT
  <2>2. NextJob = idx
    BY <1>1, <2>1, SMT DEF NextJob
  <2>3. NextJob' = idx
    BY <1>1, <1>3, <1>6, BatchAssumption, SMT DEF NextJob
  <2> QED
    BY <2>2, <2>3
<1>8. ProducerTypeOK'
  BY <1>1, <1>3, <1>6, BatchAssumption, SMT DEF ProducerInv, ProducerTypeOK
<1>9. PipelineInOrder'
  <2>1. \A i \in JobIds : \A k \in Keys : Gone(i)' \/ Waits(k, i)' => i < idx
    BY <1>1, <1>2, <1>7, SameLists DEF ProducerInv, ListsInOrder
  <2>2. ASSUME NEW p \in DOMAIN pipeline'
        PROVE  /\ pipeline'[p] = Push(pipeline'[p].job) /\ pipeline'[p].job = idx + p - 1
               /\ pipeline'[p].job \in JobIds /\ p \in Nat /\ idx <= idx + p - 1
    <3>1. pipeline'[p] = Push(idx + p - 1) /\ idx + p - 1 \in JobIds
      BY <1>4, <1>6
    <3>2. p \in Nat /\ idx <= idx + p - 1
      BY <1>1, <1>6, SMT
    <3> QED
      BY <3>1, <3>2, CommandFacts
  <2>3. \A p, q \in DOMAIN pipeline' : p < q => idx + p - 1 < idx + q - 1
    BY <1>1, <2>2, SMT
  <2>4. ASSUME NEW p \in DOMAIN pipeline', NEW i \in JobIds, i < idx
        PROVE  i < idx + p - 1
    <3>1. i \in Nat
      BY JobIdFacts
    <3> QED
      BY <1>1, <2>2, <2>4, <3>1, SMT
  <2> QED
    BY <2>1, <2>2, <2>3, <2>4 DEF PipelineInOrder
<1>10. Clearing'
  BY <1>1 DEF Clearing
<1>11. Enqueueing'
  <2>1. \A i \in JobIds : i < NextJob' <=> Gone(i)' \/ Waits(KeyOf(i), i)'
    BY <1>1, <1>2, <1>7, SameLists
  <2>2. \A k \in PolledKeys : \A p \in DOMAIN lists'[k] : lists'[k][p].own
    BY <1>1, <1>2
  <2>3. \A p \in DOMAIN pipeline' : pipeline'[p] = Push(NextJob' + p - 1)
    BY <1>6, <1>7
  <2>4. batch' <= remaining' /\ Len(pipeline') <= batch'
    BY <1>1, <1>3, <1>6, BatchAssumption, SMT
  <2> QED
    BY <1>1, <1>2, <2>1, <2>2, <2>3, <2>4 DEF Enqueueing
<1> QED
  BY <1>1, <1>8, <1>9, <1>10, <1>11, SameLists DEF ProducerInv

LEMMA AcknowledgedStep ==
  ASSUME ProducerInv, BatchDone \/ EnqueueDone
  PROVE  ProducerInv'
<1>1. /\ stage = "enqueue" /\ stage' \in {"enqueue", "ready"}
      /\ UNCHANGED <<allowFlushdb, pipeline, lists, taken, orphans>>
  BY DEF BatchDone, EnqueueDone
<1>2. /\ idx + remaining = Jobs /\ batch <= remaining /\ Len(pipeline) <= batch
      /\ \A p \in DOMAIN pipeline : pipeline[p] = Push(NextJob + p - 1)
      /\ \A i \in JobIds : i < NextJob <=> Gone(i) \/ Waits(KeyOf(i), i)
      /\ \A k \in PolledKeys : \A p \in DOMAIN lists[k] : lists[k][p].own
      /\ idx \in 0 .. Jobs /\ remaining \in 0 .. Jobs /\ batch \in 0 .. BatchSize
      /\ Len(pipeline) \in Nat
  BY <1>1 DEF ProducerInv, Enqueueing, ProducerTypeOK
<1>3. /\ idx' + remaining' = Jobs /\ batch' <= remaining' /\ Len(pipeline) <= batch'
      /\ stage' = "ready" => batch' = 0 /\ remaining' = 0
      /\ idx' \in 0 .. Jobs /\ remaining' \in 0 .. Jobs /\ batch' \in 0 .. BatchSize
  <2>1. CASE BatchDone
    <3>1. /\ pipeline = <<>> /\ idx' = idx + batch /\ remaining' = remaining - batch
          /\ batch' = 0 /\ stage' = "enqueue"
      BY <1>1, <2>1 DEF BatchDone
    <3>2. Len(pipeline) = 0
      BY <3>1, SMT
    <3> QED
      BY <1>2, <3>1, <3>2, JobsAssumption, BatchAssumption, SMT
  <2>2. CASE EnqueueDone
    BY <1>2, <2>2 DEF EnqueueDone
  <2> QED
    BY <2>1, <2>2
<1>4. NextJob' = NextJob
  <2>1. NextJob = idx + (batch - Len(pipeline))
    BY DEF NextJob
  <2>2. CASE BatchDone
    <3>1. NextJob' = (idx + batch) + (0 - Len(pipeline))
      BY <1>1, <2>2 DEF NextJob, BatchDone
    <3> QED
      BY <1>2, <2>1, <3>1, SMT
  <2>3. CASE EnqueueDone
    BY <2>3 DEF NextJob, EnqueueDone
  <2> QED
    BY <2>2, <2>3
<1>5. ProducerTypeOK'
  BY <1>1, <1>3 DEF ProducerInv, ProducerTypeOK
<1>6. PipelineInOrder'
  BY <1>1, SameLists DEF ProducerInv, PipelineInOrder
<1>7. Clearing'
  BY <1>1 DEF Clearing
<1>8. Enqueueing'
  <2>1. \A i \in JobIds : i < NextJob' <=> Gone(i)' \/ Waits(KeyOf(i), i)'
    BY <1>1, <1>2, <1>4, SameLists
  <2> QED
    BY <1>1, <1>2, <1>3, <1>4, <2>1 DEF Enqueueing
<1> QED
  BY <1>1, <1>5, <1>6, <1>7, <1>8, SameLists DEF ProducerInv

LEMMA FailureStep ==
  ASSUME ProducerInv, PipelineFails
  PROVE  ProducerInv'
<1>1. PICK n \in 0 .. Len(pipeline) : pipeline' = SubSeq(pipeline, 1, n)
  BY DEF PipelineFails
<1>2. stage' = "failed" /\ UNCHANGED <<allowFlushdb, idx, remaining, batch, lists, taken, orphans>>
  BY DEF PipelineFails
<1>3. pipeline \in Seq(Commands)
  BY DEF ProducerInv, ProducerTypeOK
<1>4. /\ pipeline' \in Seq(Commands)
      /\ \A p \in DOMAIN pipeline' : p \in DOMAIN pipeline /\ pipeline'[p] = pipeline[p]
  <2>1. /\ pipeline' \in Seq(Commands)
        /\ DOMAIN pipeline' = 1 .. n /\ DOMAIN pipeline = 1 .. Len(pipeline)
        /\ \A p \in 1 .. n : pipeline'[p] = pipeline[p]
    BY <1>1, <1>3, PrefixFacts
  <2>2. \A p \in 1 .. n : p \in 1 .. Len(pipeline)
    BY <1>3, SMT
  <2> QED
    BY <2>1, <2>2
<1>5. ProducerTypeOK'
  BY <1>2, <1>4 DEF ProducerInv, ProducerTypeOK
<1>6. PipelineInOrder'
  BY <1>2, <1>4, SameLists DEF ProducerInv, PipelineInOrder
<1> QED
  BY <1>2, <1>5, <1>6, SameLists DEF ProducerInv, Clearing, Enqueueing

-----------------------------------------------------------------------------

LEMMA InvInitially == Init => ProducerInv
<1> SUFFICES ASSUME Init PROVE ProducerInv
  OBVIOUS
<1>1. /\ allowFlushdb \in BOOLEAN /\ stage = "clear" /\ pipeline = ClearCommands
      /\ idx = 0 /\ remaining = Jobs /\ batch = 0
      /\ lists \in [Keys -> {<<>>, <<Stale>>}]
      /\ taken = <<>> /\ orphans \in 0 .. MaxOrphans
  BY DEF Init
<1>2. /\ pipeline \in Seq(Commands)
      /\ \A p \in DOMAIN pipeline : pipeline[p].op # "push"
      /\ \A k \in PolledKeys : \E p \in DOMAIN pipeline : pipeline[p] \in {Del(k), Flush}
  <2>1. CASE allowFlushdb
    <3>1. pipeline = <<Flush>>
      BY <1>1, <2>1 DEF ClearCommands
    <3>2. Flush \in Commands
      BY DEF Commands
    <3> QED
      BY <3>1, <3>2, CommandFacts
  <2>2. CASE ~allowFlushdb
    <3> DEFINE del(i) == Del(BrpopKeys[i])
    <3>1. pipeline = [i \in 1 .. Len(BrpopKeys) |-> del(i)]
      BY <1>1, <2>2 DEF ClearCommands
    <3>2. DOMAIN BrpopKeys = 1 .. Len(BrpopKeys) /\ Len(BrpopKeys) \in Nat
      BY BrpopKeysIsSeq
    <3>3. \A i \in 1 .. Len(BrpopKeys) : del(i) \in Commands /\ del(i).op = "del"
      BY <3>2, CommandFacts DEF Commands, PolledKeys
    <3>4. \A k \in PolledKeys : \E i \in 1 .. Len(BrpopKeys) : del(i) = Del(k)
      BY <3>2 DEF PolledKeys
    <3> HIDE DEF del
    <3> QED
      BY <3>1, <3>2, <3>3, <3>4, SMT
  <2> QED
    BY <2>1, <2>2
<1>3. \A k \in Keys : lists[k] \in Seq(Messages) /\ (lists[k] = <<>> \/ lists[k] = <<Stale>>)
  <2>1. <<>> \in Seq(Messages) /\ <<Stale>> \in Seq(Messages)
    BY MessageFacts
  <2> QED
    BY <1>1, <2>1
<1>4. \A k \in Keys : \A p \in DOMAIN lists[k] : lists[k][p] = Stale
  BY <1>3, SMT
<1>5. \A i : ~Gone(i) /\ \A k \in Keys : ~Waits(k, i)
  <2>1. \A i : Own(i) # Stale
    BY DEF Own, Stale
  <2>2. DOMAIN taken = {}
    BY <1>1, SMT
  <2> QED
    BY <1>4, <2>1, <2>2 DEF Gone, Waits
<1>6. ProducerTypeOK
  <2>1. lists \in [Keys -> Seq(Messages)]
    BY <1>1, <1>3
  <2>2. taken \in Seq([msg : Messages, to : {"worker", "orphan"}])
    BY <1>1, SMT
  <2> QED
    BY <1>1, <1>2, <2>1, <2>2, JobsAssumption, BatchAssumption, SMT DEF ProducerTypeOK
<1>7. PipelineInOrder
  BY <1>2 DEF PipelineInOrder
<1>8. ListsInOrder
  <2>1. \A k \in Keys : Youngest1st(lists[k])
    BY <1>4, MessageFacts DEF Youngest1st
  <2> QED
    BY <1>5, <2>1 DEF ListsInOrder
<1>9. Fifo /\ WorkersTookJobs
  <2>1. DOMAIN taken = {}
    BY <1>1, SMT
  <2> QED
    BY <2>1 DEF Fifo, WorkersTookJobs
<1>10. Clearing
  BY <1>1, <1>2, <1>5 DEF Clearing
<1>11. Enqueueing
  BY <1>1 DEF Enqueueing
<1> QED
  BY <1>6, <1>7, <1>8, <1>9, <1>10, <1>11 DEF ProducerInv

LEMMA InvStep == ProducerInv /\ [Next]_vars => ProducerInv'
<1> SUFFICES ASSUME ProducerInv, [Next]_vars PROVE ProducerInv'
  OBVIOUS
<1>1. CASE ClearDone
  BY <1>1, ClearDoneStep
<1>2. CASE SendBatch
  BY <1>2, SendBatchStep
<1>3. CASE BatchDone \/ EnqueueDone
  BY <1>3, AcknowledgedStep
<1>4. CASE PipelineFails
  BY <1>4, FailureStep
<1>5. CASE Delete \/ FlushAll
  BY <1>5, EmptyingStep
<1>6. CASE Lpush
  BY <1>6, LpushStep
<1>7. CASE ServeWorker
  <2>1. orphans' \in 0 .. MaxOrphans
    BY <1>7 DEF ServeWorker, ProducerInv, ProducerTypeOK
  <2> QED
    BY <1>7, <2>1, PopStep DEF ServeWorker
<1>8. CASE ServeOrphan
  <2>1. orphans' \in 0 .. MaxOrphans
    BY <1>8, OrphansAssumption, SMT DEF ServeOrphan, ProducerInv, ProducerTypeOK
  <2> QED
    BY <1>8, <2>1, PopStep DEF ServeOrphan
<1>9. CASE OrphanCloses
  <2>1. orphans' \in 0 .. MaxOrphans
    BY <1>9, OrphansAssumption, SMT DEF OrphanCloses, ProducerInv, ProducerTypeOK
  <2>2. UNCHANGED <<allowFlushdb, stage, pipeline, idx, remaining, batch, lists, taken>>
    BY <1>9 DEF OrphanCloses, producerVars
  <2>3. NextJob' = NextJob
    BY <2>2 DEF NextJob
  <2> QED
    BY <2>1, <2>2, <2>3, SameLists
       DEF ProducerInv, ProducerTypeOK, PipelineInOrder, Clearing, Enqueueing
<1>10. CASE UNCHANGED vars
  <2>1. UNCHANGED <<allowFlushdb, stage, pipeline, idx, remaining, batch, lists, taken, orphans>>
    BY <1>10 DEF vars, producerVars
  <2>2. NextJob' = NextJob
    BY <2>1 DEF NextJob
  <2> QED
    BY <2>1, <2>2, SameLists
       DEF ProducerInv, ProducerTypeOK, PipelineInOrder, Clearing, Enqueueing
<1> QED
  BY <1>1, <1>2, <1>3, <1>4, <1>5, <1>6, <1>7, <1>8, <1>9, <1>10
     DEF Next, Produce, Execute, Serve, Finished

LEMMA InvAlways == Spec => []ProducerInv
  BY InvInitially, InvStep, PTL DEF Spec

(* Type correctness of the producer, the broker's lists and their consumers. *)
THEOREM ProducerTypeCorrect == Spec => []ProducerTypeOK
<1>1. ProducerInv => ProducerTypeOK
  BY DEF ProducerInv
<1> QED
  BY <1>1, InvAlways, PTL

(* LPUSH and BRPOP make every key a FIFO queue, however the pipelines of the
   producer and the BRPOPs interleave and wherever a pipeline breaks. *)
THEOREM FifoCorrect == Spec => []Fifo
<1>1. ProducerInv => Fifo
  BY DEF ProducerInv
<1> QED
  BY <1>1, InvAlways, PTL

(* Nothing that was in the database before reaches a worker. *)
THEOREM NoLeftoversCorrect == Spec => []NoLeftovers
<1>1. ProducerInv => NoLeftovers
  BY DEF ProducerInv, NoLeftovers, Enqueueing, WorkersTookJobs
<1> QED
  BY <1>1, InvAlways, PTL

-----------------------------------------------------------------------------
(* Other programs' keys. *)

\* What the pipeline may still do to lists: without FLUSHDB, nothing to a key
\* that is not polled.
NoFlush == ~allowFlushdb => \A p \in DOMAIN pipeline : pipeline[p].op # "flush"

LEMMA NoFlushInitially == Init => NoFlush
<1> SUFFICES ASSUME Init, ~allowFlushdb
             PROVE  \A p \in DOMAIN pipeline : pipeline[p].op # "flush"
  BY DEF NoFlush
<1>1. pipeline = [i \in 1 .. Len(BrpopKeys) |-> Del(BrpopKeys[i])]
  BY DEF Init, ClearCommands
<1> QED
  BY <1>1, CommandFacts

LEMMA NoFlushStep == ProducerTypeOK /\ NoFlush /\ [Next]_vars => NoFlush'
<1> SUFFICES ASSUME ProducerTypeOK, NoFlush, [Next]_vars
             PROVE  NoFlush'
  OBVIOUS
<1>1. allowFlushdb' = allowFlushdb /\ pipeline \in Seq(Commands)
  BY DEF ProducerTypeOK, Next, Produce, ClearDone, SendBatch, BatchDone, EnqueueDone,
         PipelineFails, Execute, Delete, FlushAll, Lpush, Serve, ServeWorker, ServeOrphan,
         OrphanCloses, Finished, vars, producerVars
<1>2. CASE SendBatch
  <2>1. \A p \in DOMAIN pipeline' : \E i : pipeline'[p] = Push(i)
    BY <1>2 DEF SendBatch
  <2> QED
    BY <2>1, CommandFacts DEF NoFlush
<1>3. CASE PipelineFails
  <2>1. PICK n \in 0 .. Len(pipeline) : pipeline' = SubSeq(pipeline, 1, n)
    BY <1>3 DEF PipelineFails
  <2>2. \A p \in DOMAIN pipeline' : p \in DOMAIN pipeline /\ pipeline'[p] = pipeline[p]
    <3>1. /\ DOMAIN pipeline' = 1 .. n /\ DOMAIN pipeline = 1 .. Len(pipeline)
          /\ \A p \in 1 .. n : pipeline'[p] = pipeline[p]
      BY <1>1, <2>1, PrefixFacts
    <3>2. \A p \in 1 .. n : p \in 1 .. Len(pipeline)
      BY <1>1, SMT
    <3> QED
      BY <3>1, <3>2
  <2> QED
    BY <1>1, <2>2 DEF NoFlush
<1>4. CASE Execute
  <2>1. pipeline # <<>> /\ pipeline' = Tail(pipeline)
    BY <1>4 DEF Execute, Delete, FlushAll, Lpush
  <2>2. \A p \in DOMAIN pipeline' : p + 1 \in DOMAIN pipeline /\ pipeline'[p] = pipeline[p + 1]
    BY <1>1, <2>1, TailFacts
  <2> QED
    BY <1>1, <2>2 DEF NoFlush
<1>5. CASE UNCHANGED pipeline
  BY <1>1, <1>5 DEF NoFlush
<1> QED
  BY <1>2, <1>3, <1>4, <1>5
     DEF Next, Produce, ClearDone, BatchDone, EnqueueDone, Serve, ServeWorker, ServeOrphan,
         OrphanCloses, Finished, vars

(* A step without --allow-flushdb leaves other keys alone. *)
LEMMA OthersKeptStep ==
  ASSUME ProducerTypeOK, NoFlush, [Next]_vars, ~allowFlushdb, NEW k \in OtherKeys
  PROVE  lists'[k] = lists[k]
<1>1. k \notin PolledKeys
  BY OtherKeysAssumption
<1>2. lists \in [Keys -> Seq(Messages)] /\ pipeline \in Seq(Commands)
  BY DEF ProducerTypeOK
<1>3. CASE Delete \/ FlushAll \/ Lpush
  <2>1. pipeline # <<>>
    BY <1>3 DEF Delete, FlushAll, Lpush
  <2>2. /\ Head(pipeline) = pipeline[1] /\ 1 \in DOMAIN pipeline /\ Head(pipeline) \in Commands
    BY <1>2, <2>1, TailFacts
  <2>3. Head(pipeline).op # "flush"
    BY <2>2 DEF NoFlush
  <2>4. Head(pipeline).key \in PolledKeys
    BY <2>2, <2>3, CommandFacts, KeyFacts
  <2>5. CASE Delete
    <3>1. lists' = [lists EXCEPT ![Head(pipeline).key] = <<>>]
      BY <2>5 DEF Delete
    <3> QED
      BY <1>1, <1>2, <2>4, <3>1 DEF Keys
  <2>6. CASE Lpush
    <3>1. PICK new : lists' = [lists EXCEPT ![Head(pipeline).key] = new]
      BY <2>6 DEF Lpush
    <3> QED
      BY <1>1, <1>2, <2>4, <3>1 DEF Keys
  <2>7. CASE FlushAll
    BY <2>3, <2>7 DEF FlushAll
  <2> QED
    BY <1>3, <2>5, <2>6, <2>7
<1>4. CASE ServeWorker \/ ServeOrphan
  <2>1. PICK x \in DOMAIN BrpopKeys : \E new : lists' = [lists EXCEPT ![BrpopKeys[x]] = new]
    BY <1>4 DEF ServeWorker, ServeOrphan, Pop
  <2>2. BrpopKeys[x] \in PolledKeys
    BY DEF PolledKeys
  <2>3. PICK new : lists' = [lists EXCEPT ![BrpopKeys[x]] = new]
    BY <2>1
  <2> QED
    BY <1>1, <1>2, <2>2, <2>3 DEF Keys
<1>5. CASE UNCHANGED lists
  BY <1>5
<1> QED
  BY <1>3, <1>4, <1>5
     DEF Next, Produce, ClearDone, SendBatch, BatchDone, EnqueueDone, PipelineFails, Execute,
         Serve, OrphanCloses, Finished, vars

(* Unless FLUSHDB is allowed, clearing, enqueueing and taking never touch a key
   of another program, also when a pipeline breaks. *)
THEOREM OtherKeysUntouchedCorrect == Spec => OtherKeysUntouched
<1>1. /\ ProducerTypeOK /\ NoFlush /\ [Next]_vars
      => [~allowFlushdb => \A k \in OtherKeys : lists'[k] = lists[k]]_vars
  BY OthersKeptStep
<1>2. ProducerInv => ProducerTypeOK
  BY DEF ProducerInv
<1> QED
  BY <1>1, <1>2, InvAlways, NoFlushInitially, NoFlushStep, PTL DEF Spec, OtherKeysUntouched

-----------------------------------------------------------------------------
(* How evenly jobs are spread. *)

\* The first jobs that go to one pair.
JobsOf(pair, jobs) == {i \in 0 .. jobs - 1 : RoundRobin(i) = pair}

(* Two pairs' shares of the first jobs differ by one at most: for every job of
   the one pair but its first, the other pair had one in the cycle before. *)
LEMMA SharesDifferByOne ==
  ASSUME NEW jobs \in Int, NEW a \in Pairs, NEW b \in Pairs
  PROVE  Cardinality(JobsOf(a, jobs)) <= Cardinality(JobsOf(b, jobs)) + 1
<1> DEFINE A == JobsOf(a, jobs)
           B == JobsOf(b, jobs)
           shift == FirstOf(b) - FirstOf(a) - NumQueues * Len(Priorities)
           rest == A \ {FirstOf(a)}
           earlier == [i \in rest |-> i + shift]
<1>1. IsFiniteSet(A) /\ IsFiniteSet(B)
  <2>1. IsFiniteSet(0 .. jobs - 1)
    BY FS_Interval, SMT
  <2> QED
    BY <2>1, FS_Subset DEF JobsOf
<1>2. FirstOf(a) \in Nat /\ FirstOf(b) \in Nat /\ NumQueues * Len(Priorities) \in Nat
  <2>1. NumQueues \in Nat \ {0} /\ Len(Priorities) \in Nat \ {0}
    BY NumQueuesAssumption, PrioritiesAssumption, SMT
  <2>2. \A r \in Pairs : r[1] \in Nat /\ r[2] \in Nat
    BY <2>1, SMT DEF Pairs
  <2>3. \A x, y \in Nat : x * y \in Nat
    BY SMT
  <2>4. \A x, y \in Nat : x + y \in Nat
    BY SMT
  <2> QED
    BY <2>1, <2>2, <2>3, <2>4 DEF FirstOf
<1>3. shift \in Int
  BY <1>2, SMT
<1>4. ASSUME NEW i \in rest
      PROVE  i + shift \in B /\ i \in Nat
  <2>1. i \in Nat /\ i \in 0 .. jobs - 1 /\ RoundRobin(i) = a /\ i # FirstOf(a)
    BY SMT DEF JobsOf
  <2> DEFINE j == i - NumQueues * Len(Priorities) - FirstOf(RoundRobin(i)) + FirstOf(b)
  <2>2. j \in 0 .. i - 1 /\ RoundRobin(j) = b
    BY <2>1, EveryPairSince
  <2>3. j = i + shift
    <3>1. FirstOf(RoundRobin(i)) = FirstOf(a)
      BY <2>1
    <3> QED
      BY <1>2, <2>1, <3>1, SMT
  <2> HIDE DEF j, shift
  <2>4. j \in 0 .. jobs - 1
    BY <2>1, <2>2, SMT
  <2> QED
    BY <2>1, <2>2, <2>3, <2>4 DEF JobsOf
<1> HIDE DEF A, B, shift, rest
<1>5. earlier \in Injection(rest, B)
  <2>1. earlier \in [rest -> B]
    BY <1>4
  <2>2. ASSUME NEW i \in rest, NEW j \in rest, earlier[i] = earlier[j]
        PROVE  i = j
    <3>1. i + shift = j + shift
      BY <2>2
    <3> QED
      BY <1>3, <1>4, <3>1, SMT
  <2> QED
    BY <2>1, <2>2, Fun_IsInj
<1>6. Cardinality(rest) <= Cardinality(B)
  BY <1>1, <1>5, FS_Injection
<1>7. Cardinality(rest) = IF FirstOf(a) \in A THEN Cardinality(A) - 1 ELSE Cardinality(A)
  BY <1>1, FS_RemoveElement DEF rest
<1>8. Cardinality(A) \in Nat /\ Cardinality(B) \in Nat
  BY <1>1, FS_CardinalityType
<1>9. Cardinality(A) <= Cardinality(B) + 1
  BY <1>6, <1>7, <1>8, SMT
<1> QED
  BY <1>9 DEF A, B

(* At every moment of the enqueueing the pairs of a queue and a priority have
   the same number of jobs, to one, whatever their numbers have in common. *)
THEOREM EvenSpreadCorrect == Spec => []EvenSpread
<1>1. ASSUME ProducerTypeOK
      PROVE  EvenSpread
  <2>1. NextJob \in Int
    <3>1. idx \in Nat /\ batch \in Nat /\ Len(pipeline) \in Nat
      BY <1>1, JobsAssumption, BatchAssumption, SMT DEF ProducerTypeOK
    <3> QED
      BY <3>1, SMT DEF NextJob
  <2>2. \A r \in Pairs : r = <<r[1], r[2]>>
    BY DEF Pairs
  <2> DEFINE Share(q, p) == Cardinality({i \in 0 .. NextJob - 1 : RoundRobin(i) = <<q, p>>})
  <2>3. \A r \in Pairs : Share(r[1], r[2]) = Cardinality(JobsOf(r, NextJob))
    BY <2>2 DEF JobsOf
  <2>4. \A a, b \in Pairs : Share(a[1], a[2]) <= Share(b[1], b[2]) + 1
    <3> HIDE DEF Share
    <3> QED
      BY <2>1, <2>3, SharesDifferByOne
  <2>5. Pairs = (0 .. Len(QueueNames) - 1) \X (0 .. Len(Priorities) - 1)
    BY NumberOfNames DEF Pairs
  <2> QED
    BY <2>4, <2>5 DEF EvenSpread
<1>2. ProducerInv => ProducerTypeOK
  BY DEF ProducerInv
<1> QED
  BY <1>1, <1>2, InvAlways, PTL

-----------------------------------------------------------------------------
(* The order of the priority steps. *)

StepOf(i) == PriorityStep(PriorityOf(i))

\* Workers exist only once the trial has started.
WorkersComeLast == (\E p \in DOMAIN taken : taken[p].to = "worker") => stage = "ready"

\* No job that waits has a smaller step than one a worker was given.
SmallestStepTaken ==
  \A p \in DOMAIN taken : \A i \in JobIds :
    taken[p].to = "worker" /\ Waits(KeyOf(i), i) => StepOf(taken[p].msg.job) <= StepOf(i)

OrderInv == WorkersComeLast /\ SmallestStepTaken /\ StepsInOrder

LEMMA StepOfIsNat == \A i \in Nat : StepOf(i) \in Nat
<1> SUFFICES ASSUME NEW i \in Nat PROVE StepOf(i) \in Nat
  OBVIOUS
<1>1. Len(Priorities) \in Nat \ {0} /\ \A p \in 1 .. Len(Priorities) : Priorities[p] \in Nat
  BY PrioritiesAssumption, SMT
<1>2. i \div NumQueues \in Nat
  BY NumQueuesAssumption, SMT
<1>3. RoundRobin(i)[2] + 1 \in 1 .. Len(Priorities)
  BY <1>1, <1>2, NumberOfNames, SMT DEF RoundRobin
<1>4. PriorityStep(PriorityOf(i)) \in {0, 3, 6, 9}
  BY <1>1, <1>3, StepIsFloor DEF PriorityOf
<1> QED
  BY <1>4, SMT DEF StepOf

\* A BRPOP finds only empty keys before the one it takes a message from.
LEMMA PopFinds ==
  ASSUME ProducerTypeOK, NEW to \in {"worker", "orphan"}, Pop(to)
  PROVE  \E x \in DOMAIN BrpopKeys : \E m \in Messages :
           /\ \A y \in 1 .. x - 1 : lists[BrpopKeys[y]] = <<>>
           /\ \E p \in DOMAIN lists[BrpopKeys[x]] : lists[BrpopKeys[x]][p] = m
           /\ taken' = Append(taken, [msg |-> m, to |-> to])
           /\ \A i \in JobIds : \A k \in Keys : Waits(k, i)' => Waits(k, i)
<1>1. PICK x \in DOMAIN BrpopKeys :
        /\ lists[BrpopKeys[x]] # <<>>
        /\ \A y \in 1 .. x - 1 : lists[BrpopKeys[y]] = <<>>
        /\ lists' = [lists EXCEPT ![BrpopKeys[x]] =
                       SubSeq(lists[BrpopKeys[x]], 1, Len(lists[BrpopKeys[x]]) - 1)]
        /\ taken' = Append(taken, [msg |-> lists[BrpopKeys[x]][Len(lists[BrpopKeys[x]])],
                                   to |-> to])
  BY DEF Pop
<1> DEFINE K == BrpopKeys[x]
<1>2. K \in Keys /\ lists \in [Keys -> Seq(Messages)]
  BY KeyFacts DEF PolledKeys, ProducerTypeOK
<1> HIDE DEF K
<1> PICK old \in Seq(Messages) : old = lists[K]
  BY <1>2
<1>3. /\ old # <<>> /\ lists' = [lists EXCEPT ![K] = SubSeq(old, 1, Len(old) - 1)]
      /\ taken' = Append(taken, [msg |-> old[Len(old)], to |-> to])
  BY <1>1 DEF K
<1>4. /\ Len(old) \in DOMAIN old /\ Len(old) - 1 \in 0 .. Len(old) /\ old[Len(old)] \in Messages
  BY <1>3, SMT
<1> PICK new : new = SubSeq(old, 1, Len(old) - 1)
  OBVIOUS
<1>5. \A p \in DOMAIN new : new[p] = old[p] /\ p \in DOMAIN old
  <2>1. /\ DOMAIN new = 1 .. Len(old) - 1 /\ DOMAIN old = 1 .. Len(old)
        /\ \A p \in 1 .. Len(old) - 1 : new[p] = old[p]
    BY <1>4, PrefixFacts
  <2>2. \A p \in 1 .. Len(old) - 1 : p \in 1 .. Len(old)
    BY <1>4, SMT
  <2> QED
    BY <2>1, <2>2
<1>6. lists'[K] = new /\ \A k \in Keys : k # K => lists'[k] = lists[k]
  BY <1>2, <1>3
<1>7. \A i \in JobIds : \A k \in Keys : Waits(k, i)' => Waits(k, i)
  BY <1>5, <1>6 DEF Waits
<1> QED
  BY <1>1, <1>3, <1>4, <1>7 DEF K

LEMMA OrderPop ==
  ASSUME ProducerInv, OrderInv, NEW to \in {"worker", "orphan"}, Pop(to), stage' = stage,
         to = "worker" => stage = "ready"
  PROVE  OrderInv'
<1>1. PICK x \in DOMAIN BrpopKeys, m \in Messages :
        /\ \A y \in 1 .. x - 1 : lists[BrpopKeys[y]] = <<>>
        /\ \E p \in DOMAIN lists[BrpopKeys[x]] : lists[BrpopKeys[x]][p] = m
        /\ taken' = Append(taken, [msg |-> m, to |-> to])
        /\ \A i \in JobIds : \A k \in Keys : Waits(k, i)' => Waits(k, i)
  BY PopFinds DEF ProducerInv
<1>2. /\ DOMAIN taken' = 1 .. Len(taken) + 1 /\ DOMAIN taken = 1 .. Len(taken)
      /\ Len(taken) \in Nat
      /\ taken'[Len(taken) + 1] = [msg |-> m, to |-> to]
      /\ \A p \in DOMAIN taken : taken'[p] = taken[p]
  <2>1. taken \in Seq([msg : Messages, to : {"worker", "orphan"}])
    BY DEF ProducerInv, ProducerTypeOK
  <2>2. [msg |-> m, to |-> to] \in [msg : Messages, to : {"worker", "orphan"}]
    OBVIOUS
  <2> QED
    BY <1>1, <2>1, <2>2, AppendFacts
<1>3. \A p \in DOMAIN taken' : p = Len(taken) + 1 \/ (p \in DOMAIN taken /\ p < Len(taken) + 1)
  BY <1>2, SMT
<1>4. \A p \in DOMAIN taken' : taken'[p].to = "worker" => stage' = "ready"
  BY <1>2, <1>3 DEF OrderInv, WorkersComeLast
\* What the worker is given waited, and nothing of a smaller step did.
<1>5. ASSUME to = "worker"
      PROVE  /\ m.job \in JobIds /\ Waits(KeyOf(m.job), m.job)
             /\ \A i \in JobIds : Waits(KeyOf(i), i) => StepOf(m.job) <= StepOf(i)
  <2>1. BrpopKeys[x] \in PolledKeys /\ BrpopKeys[x] \in Keys
    BY KeyFacts DEF PolledKeys
  <2>2. m.own
    BY <1>1, <1>5, <2>1 DEF ProducerInv, Enqueueing
  <2>3. m = Own(m.job) /\ m.job \in JobIds
    BY <2>2, MessageFacts
  <2>4. Waits(BrpopKeys[x], m.job)
    BY <1>1, <2>3 DEF Waits
  <2>5. KeyOf(m.job) = BrpopKeys[x]
    BY <2>1, <2>3, <2>4 DEF ProducerInv, ListsInOrder
  <2>6. ASSUME NEW i \in JobIds, Waits(KeyOf(i), i)
        PROVE  StepOf(m.job) <= StepOf(i)
    <3>1. i \in Nat /\ m.job \in Nat
      BY <2>3, JobIdFacts
    <3>2. SUFFICES ASSUME StepOf(i) < StepOf(m.job) PROVE FALSE
      BY <3>1, StepOfIsNat, SMT
    <3>3. PICK y \in 1 .. x - 1 : BrpopKeys[y] = KeyOf(i)
      BY <2>5, <3>1, <3>2, SmallerStepsComeFirst DEF StepOf
    <3>4. lists[KeyOf(i)] = <<>>
      BY <1>1, <3>3
    <3>5. DOMAIN lists[KeyOf(i)] = {}
      BY <3>4, SMT
    <3> QED
      BY <2>6, <3>5 DEF Waits
  <2> QED
    BY <2>3, <2>4, <2>5, <2>6
<1>6. SmallestStepTaken'
  <2> SUFFICES ASSUME NEW p \in DOMAIN taken', NEW i \in JobIds,
                      taken'[p].to = "worker", Waits(KeyOf(i), i)'
               PROVE  StepOf(taken'[p].msg.job) <= StepOf(i)
    BY DEF SmallestStepTaken, StepOf
  <2>1. Waits(KeyOf(i), i)
    BY <1>1, KeyFacts
  <2>2. CASE p \in DOMAIN taken
    BY <1>2, <2>1, <2>2 DEF OrderInv, SmallestStepTaken
  <2>3. CASE p = Len(taken) + 1
    BY <1>2, <1>5, <2>1, <2>3
  <2> QED
    BY <1>3, <2>2, <2>3
<1>7. StepsInOrder'
  <2> SUFFICES ASSUME NEW a \in DOMAIN taken', NEW b \in DOMAIN taken', a < b,
                      taken'[a].to = "worker", taken'[b].to = "worker"
               PROVE  StepOf(taken'[a].msg.job) <= StepOf(taken'[b].msg.job)
    BY DEF StepsInOrder, StepOf
  <2>1. a \in DOMAIN taken /\ taken'[a] = taken[a]
    BY <1>2, SMT
  <2>2. CASE b \in DOMAIN taken
    BY <1>2, <2>1, <2>2 DEF OrderInv, StepsInOrder, StepOf
  <2>3. CASE b = Len(taken) + 1
    <3>1. taken'[b].msg = m /\ to = "worker"
      BY <1>2, <2>3
    <3> QED
      BY <1>5, <2>1, <3>1 DEF OrderInv, SmallestStepTaken
  <2> QED
    BY <1>3, <2>2, <2>3
<1> QED
  BY <1>4, <1>6, <1>7 DEF OrderInv, WorkersComeLast

LEMMA OrderStep == ProducerInv /\ OrderInv /\ [Next]_vars => OrderInv'
<1> SUFFICES ASSUME ProducerInv, OrderInv, [Next]_vars PROVE OrderInv'
  OBVIOUS
<1>1. CASE ServeWorker
  BY <1>1, OrderPop DEF ServeWorker, producerVars
<1>2. CASE ServeOrphan
  BY <1>2, OrderPop DEF ServeOrphan, producerVars
<1>3. CASE UNCHANGED taken /\ stage # "ready"
  <2>1. \A p \in DOMAIN taken : taken[p].to # "worker"
    BY <1>3 DEF OrderInv, WorkersComeLast
  <2> QED
    BY <1>3, <2>1 DEF OrderInv, WorkersComeLast, SmallestStepTaken, StepsInOrder
<1>4. CASE UNCHANGED <<taken, lists, stage>>
  BY <1>4, SameLists
     DEF OrderInv, WorkersComeLast, SmallestStepTaken, StepsInOrder, StepOf
<1>5. CASE Execute
  <2>1. pipeline # <<>> /\ taken' = taken
    BY <1>5 DEF Execute, Delete, FlushAll, Lpush
  <2>2. stage # "ready"
    <3>1. pipeline \in Seq(Commands)
      BY DEF ProducerInv, ProducerTypeOK
    <3>2. Len(pipeline) > 0
      BY <2>1, <3>1, SMT
    <3>3. stage = "ready" => batch = 0 /\ Len(pipeline) <= batch
      BY DEF ProducerInv, Enqueueing
    <3> QED
      BY <3>1, <3>2, <3>3, SMT
  <2> QED
    BY <1>3, <2>1, <2>2
<1> QED
  BY <1>1, <1>2, <1>3, <1>4, <1>5
     DEF Next, Produce, ClearDone, SendBatch, BatchDone, EnqueueDone, PipelineFails, Serve,
         OrphanCloses, Finished, vars, producerVars

(* With all jobs enqueued before the first worker starts, and every BRPOP
   looking for smaller steps first, workers get the jobs of one priority step,
   of all queues, before any of the next. *)
THEOREM StepsInOrderCorrect == Spec => []StepsInOrder
<1>1. Init => OrderInv
  <2>1. Init => DOMAIN taken = {}
    BY SMT DEF Init
  <2> QED
    BY <2>1 DEF OrderInv, WorkersComeLast, SmallestStepTaken, StepsInOrder
<1>2. OrderInv => StepsInOrder
  BY DEF OrderInv
<1> QED
  BY <1>1, <1>2, OrderStep, InvAlways, PTL DEF Spec

-----------------------------------------------------------------------------
(* What a round sees of the broker. *)

\* A polled key has one message from before at most.
OneOldPerKey ==
  \A k \in PolledKeys : \A p, q \in DOMAIN lists[k] :
    ~lists[k][p].own /\ ~lists[k][q].own => p = q

SupplyInv == ProducerInv /\ WorkersComeLast /\ OneOldPerKey

LEMMA OldKeysFinite == OldKeys \subseteq PolledKeys /\ IsFiniteSet(PolledKeys) /\ IsFiniteSet(OldKeys)
<1>1. DOMAIN BrpopKeys = 1 .. Len(BrpopKeys) /\ Len(BrpopKeys) \in Nat
  BY BrpopKeysIsSeq
<1>2. IsFiniteSet(DOMAIN BrpopKeys)
  BY <1>1, FS_Interval, SMT
<1> DEFINE key == [i \in DOMAIN BrpopKeys |-> BrpopKeys[i]]
<1>3. key \in Surjection(DOMAIN BrpopKeys, PolledKeys)
  BY Fun_IsSurj DEF PolledKeys
<1>4. IsFiniteSet(PolledKeys)
  BY <1>2, <1>3, FS_Surjection
<1> QED
  BY <1>4, FS_Subset DEF OldKeys

LEMMA JobSetsFinite ==
  /\ Waiting \subseteq JobIds /\ Stolen \subseteq JobIds
  /\ IsFiniteSet(JobIds) /\ IsFiniteSet(Waiting) /\ IsFiniteSet(Stolen)
  /\ Cardinality(JobIds) = Jobs
<1>1. IsFiniteSet(JobIds) /\ Cardinality(JobIds) = Jobs
  BY FS_Interval, JobsAssumption, SMT DEF JobIds
<1>2. Waiting \subseteq JobIds /\ Stolen \subseteq JobIds
  BY DEF Waiting, Stolen, JobIds
<1> QED
  BY <1>1, <1>2, FS_Subset

LEMMA Counts ==
  /\ Cardinality(OldKeys) \in Nat /\ Cardinality(Waiting) \in Nat /\ Cardinality(Stolen) \in Nat
  /\ Cardinality(OldKeys)' \in Nat /\ Cardinality(Waiting)' \in Nat /\ Cardinality(Stolen)' \in Nat
<1>1. IsFiniteSet(PolledKeys) /\ IsFiniteSet(JobIds)
  BY OldKeysFinite, JobSetsFinite
<1>2. /\ OldKeys \subseteq PolledKeys /\ OldKeys' \subseteq PolledKeys
      /\ Waiting \subseteq JobIds /\ Waiting' \subseteq JobIds
      /\ Stolen \subseteq JobIds /\ Stolen' \subseteq JobIds
  BY DEF OldKeys, Waiting, Stolen, JobIds
<1> QED
  BY <1>1, <1>2, FS_Subset, FS_CardinalityType

LEMMA WaitingWaits ==
  /\ \A i \in JobIds : i \in Waiting <=> \E k \in Keys : Waits(k, i)
  /\ \A i \in JobIds : i \in Waiting' <=> \E k \in Keys : Waits(k, i)'
<1>1. ASSUME NEW i
      PROVE  Listed(i) # {} <=> \E k \in Keys : Waits(k, i)
  <2>1. \A k \in Keys : Waits(k, i) <=> \E p : p \in Positions(lists[k], i)
    BY DEF Positions, Waits
  <2>2. ASSUME NEW x \in Listed(i)
        PROVE  \E k \in Keys : \E p : p \in Positions(lists[k], i)
    BY <2>2 DEF Listed
  <2>3. ASSUME NEW k \in Keys, NEW p \in Positions(lists[k], i)
        PROVE  <<k, p>> \in Listed(i)
    BY <2>3 DEF Listed
  <2> QED
    BY <2>1, <2>2, <2>3
<1>2. ASSUME NEW i
      PROVE  Listed(i)' # {} <=> \E k \in Keys : Waits(k, i)'
  <2>1. \A k \in Keys : Waits(k, i)' <=> \E p : p \in Positions(lists'[k], i)
    BY DEF Positions, Waits
  <2>2. ASSUME NEW x \in Listed(i)'
        PROVE  \E k \in Keys : \E p : p \in Positions(lists'[k], i)
    BY <2>2 DEF Listed
  <2>3. ASSUME NEW k \in Keys, NEW p \in Positions(lists'[k], i)
        PROVE  <<k, p>> \in Listed(i)'
    BY <2>3 DEF Listed
  <2> QED
    BY <2>1, <2>2, <2>3
<1> QED
  BY <1>1, <1>2 DEF Waiting, JobIds

\* The broker's answer to a BRPOP, key by key.
LEMMA PopRemoves ==
  ASSUME ProducerTypeOK, NEW to \in {"worker", "orphan"}, Pop(to)
  PROVE  \E K \in PolledKeys, m \in Messages, n \in Nat :
           /\ n \in DOMAIN lists[K] /\ lists[K][n] = m
           /\ \A p \in DOMAIN lists[K] : p = n \/ p \in DOMAIN lists'[K]
           /\ \A p \in DOMAIN lists'[K] :
                p \in DOMAIN lists[K] /\ p < n /\ lists'[K][p] = lists[K][p]
           /\ \A k \in Keys : k # K => lists'[k] = lists[k]
           /\ \E t : /\ t \notin DOMAIN taken /\ DOMAIN taken' = DOMAIN taken \union {t}
                     /\ taken'[t] = [msg |-> m, to |-> to]
                     /\ \A p \in DOMAIN taken : taken'[p] = taken[p]
<1>1. PICK x \in DOMAIN BrpopKeys :
        /\ lists[BrpopKeys[x]] # <<>>
        /\ lists' = [lists EXCEPT ![BrpopKeys[x]] =
                       SubSeq(lists[BrpopKeys[x]], 1, Len(lists[BrpopKeys[x]]) - 1)]
        /\ taken' = Append(taken, [msg |-> lists[BrpopKeys[x]][Len(lists[BrpopKeys[x]])],
                                   to |-> to])
  BY DEF Pop
<1> DEFINE K == BrpopKeys[x]
<1>2. K \in PolledKeys /\ K \in Keys /\ lists \in [Keys -> Seq(Messages)]
  BY KeyFacts DEF PolledKeys, ProducerTypeOK
<1> HIDE DEF K
<1> PICK old \in Seq(Messages) : old = lists[K]
  BY <1>2
<1> PICK n : n = Len(old)
  OBVIOUS
<1>3. /\ old # <<>> /\ lists' = [lists EXCEPT ![K] = SubSeq(old, 1, n - 1)]
      /\ taken' = Append(taken, [msg |-> old[n], to |-> to])
  BY <1>1 DEF K
<1>4. n \in DOMAIN old /\ n \in Nat \ {0} /\ DOMAIN old = 1 .. n /\ old[n] \in Messages
      /\ n - 1 \in 0 .. n
  BY <1>3, SMT
<1> PICK m \in Messages : m = old[n]
  BY <1>4
<1> PICK new : new = SubSeq(old, 1, n - 1)
  OBVIOUS
<1>5. /\ \A p \in DOMAIN old : p = n \/ p \in DOMAIN new
      /\ \A p \in DOMAIN new : p \in DOMAIN old /\ p < n /\ new[p] = old[p]
  <2>1. DOMAIN new = 1 .. n - 1 /\ \A p \in 1 .. n - 1 : new[p] = old[p]
    BY <1>4, PrefixFacts
  <2> QED
    BY <1>4, <2>1, SMT
<1>6. lists'[K] = new /\ \A k \in Keys : k # K => lists'[k] = lists[k]
  BY <1>2, <1>3
<1>7. \E t : /\ t \notin DOMAIN taken /\ DOMAIN taken' = DOMAIN taken \union {t}
             /\ taken'[t] = [msg |-> m, to |-> to]
             /\ \A p \in DOMAIN taken : taken'[p] = taken[p]
  <2>1. taken \in Seq([msg : Messages, to : {"worker", "orphan"}])
    BY DEF ProducerTypeOK
  <2>2. [msg |-> m, to |-> to] \in [msg : Messages, to : {"worker", "orphan"}]
    OBVIOUS
  <2>3. taken' = Append(taken, [msg |-> m, to |-> to])
    BY <1>3
  <2>4. /\ DOMAIN taken' = 1 .. Len(taken) + 1 /\ DOMAIN taken = 1 .. Len(taken)
        /\ taken'[Len(taken) + 1] = [msg |-> m, to |-> to]
        /\ \A p \in DOMAIN taken : taken'[p] = taken[p]
        /\ Len(taken) \in Nat
    BY <2>1, <2>2, <2>3, AppendFacts
  <2>5. Len(taken) + 1 \notin DOMAIN taken /\ DOMAIN taken' = DOMAIN taken \union {Len(taken) + 1}
    BY <2>4, SMT
  <2> QED
    BY <2>4, <2>5
<1>8. n \in Nat /\ n \in DOMAIN lists[K] /\ lists[K][n] = m
  BY <1>4
<1>9. /\ \A p \in DOMAIN lists[K] : p = n \/ p \in DOMAIN lists'[K]
      /\ \A p \in DOMAIN lists'[K] : p \in DOMAIN lists[K] /\ p < n /\ lists'[K][p] = lists[K][p]
  BY <1>5, <1>6
<1>10. K \in PolledKeys /\ m \in Messages /\ n \in Nat
  BY <1>2, <1>8
<1>11. \A k \in Keys : k # K => lists'[k] = lists[k]
  BY <1>6
<1> HIDE DEF ProducerTypeOK
<1> QED
  BY <1>7, <1>8, <1>9, <1>10, <1>11, ZenonT(30)

\* An LPUSH puts a job in front of a list.
LEMMA LpushAdds ==
  ASSUME ProducerInv, Lpush
  PROVE  \E K \in PolledKeys, n \in JobIds :
           /\ Head(pipeline) = Push(n) /\ K = KeyOf(n)
           /\ lists'[K][1] = Own(n) /\ 1 \in DOMAIN lists'[K]
           /\ \A p \in DOMAIN lists'[K] :
                p = 1 \/ (p - 1 \in DOMAIN lists[K] /\ lists'[K][p] = lists[K][p - 1])
           /\ \A p \in DOMAIN lists[K] : p + 1 \in DOMAIN lists'[K] /\ lists'[K][p + 1] = lists[K][p]
           /\ \A k \in Keys : k # K => lists'[k] = lists[k]
<1>1. /\ pipeline \in Seq(Commands) /\ pipeline # <<>> /\ Head(pipeline).op = "push"
      /\ lists \in [Keys -> Seq(Messages)]
      /\ lists' = [lists EXCEPT ![Head(pipeline).key] = <<Own(Head(pipeline).job)>> \o @]
  BY DEF ProducerInv, ProducerTypeOK, Lpush
<1>2. Head(pipeline) \in Commands
  BY <1>1, TailFacts
<1> PICK n \in JobIds : Head(pipeline) = Push(n)
  BY <1>1, <1>2, CommandFacts
<1> DEFINE K == KeyOf(n)
<1>3. /\ K \in PolledKeys /\ K \in Keys /\ lists' = [lists EXCEPT ![K] = <<Own(n)>> \o @]
      /\ K = KeyOf(n)
  BY <1>1, CommandFacts, KeyFacts
<1> HIDE DEF K
<1> PICK old \in Seq(Messages) : old = lists[K]
  BY <1>1, <1>3
<1> PICK new : new = <<Own(n)>> \o old
  OBVIOUS
<1>4. /\ DOMAIN new = 1 .. Len(old) + 1 /\ DOMAIN old = 1 .. Len(old) /\ Len(old) \in Nat
      /\ new[1] = Own(n)
      /\ \A p \in DOMAIN old : new[p + 1] = old[p]
      /\ \A p \in 2 .. Len(old) + 1 : new[p] = old[p - 1]
  BY MessageFacts, PrependFacts
<1>5. \A p \in DOMAIN new : p = 1 \/ (p - 1 \in DOMAIN old /\ new[p] = old[p - 1])
  BY <1>4, SMT
<1>6. \A p \in DOMAIN old : p + 1 \in DOMAIN new /\ new[p + 1] = old[p]
  BY <1>4, SMT
<1>7. lists'[K] = new /\ \A k \in Keys : k # K => lists'[k] = lists[k]
  BY <1>1, <1>3
<1>8. /\ Head(pipeline) = Push(n) /\ K = KeyOf(n)
      /\ lists'[K][1] = Own(n) /\ 1 \in DOMAIN lists'[K]
      /\ \A p \in DOMAIN lists'[K] :
           p = 1 \/ (p - 1 \in DOMAIN lists[K] /\ lists'[K][p] = lists[K][p - 1])
      /\ \A p \in DOMAIN lists[K] : p + 1 \in DOMAIN lists'[K] /\ lists'[K][p + 1] = lists[K][p]
  <2>1. 1 \in DOMAIN new
    BY <1>4, SMT
  <2> QED
    BY <1>3, <1>4, <1>5, <1>6, <1>7, <2>1
<1> QED
  BY <1>3, <1>7, <1>8, Zenon

\* The messages from before, and the commands.
LEMMA LpushKeepsOld ==
  ASSUME ProducerInv, OneOldPerKey, Lpush
  PROVE  OneOldPerKey' /\ OldKeys' = OldKeys
<1>1. PICK K \in PolledKeys, n \in JobIds :
        /\ lists'[K][1] = Own(n)
        /\ \A p \in DOMAIN lists'[K] :
             p = 1 \/ (p - 1 \in DOMAIN lists[K] /\ lists'[K][p] = lists[K][p - 1])
        /\ \A p \in DOMAIN lists[K] : p + 1 \in DOMAIN lists'[K] /\ lists'[K][p + 1] = lists[K][p]
        /\ \A k \in Keys : k # K => lists'[k] = lists[k]
  BY LpushAdds
<1>2. lists'[K][1].own
  BY <1>1, MessageFacts
<1>3. \A p \in DOMAIN lists'[K] : p \in Int
  <2>1. lists'[K] \in Seq(Messages)
    BY LpushStep, KeyFacts DEF ProducerInv, ProducerTypeOK
  <2> QED
    BY <2>1, SMT
<1>4. \A p, q \in DOMAIN lists'[K] : ~lists'[K][p].own /\ ~lists'[K][q].own => p = q
  <2> SUFFICES ASSUME NEW p \in DOMAIN lists'[K], NEW q \in DOMAIN lists'[K],
                      ~lists'[K][p].own, ~lists'[K][q].own
               PROVE  p = q
    OBVIOUS
  <2>1. /\ p - 1 \in DOMAIN lists[K] /\ lists'[K][p] = lists[K][p - 1]
        /\ q - 1 \in DOMAIN lists[K] /\ lists'[K][q] = lists[K][q - 1]
    BY <1>1, <1>2
  <2>2. p - 1 = q - 1
    BY <2>1 DEF OneOldPerKey
  <2> QED
    BY <1>3, <2>2, SMT
<1>5. (\E p \in DOMAIN lists'[K] : ~lists'[K][p].own) <=> (\E p \in DOMAIN lists[K] : ~lists[K][p].own)
  BY <1>1, <1>2
<1> QED
  BY <1>1, <1>4, <1>5, KeyFacts DEF OneOldPerKey, OldKeys

LEMMA EmptyingDrops ==
  ASSUME ProducerInv, OneOldPerKey, Delete \/ FlushAll
  PROVE  OneOldPerKey' /\ OldKeys' \subseteq OldKeys
<1>1. lists \in [Keys -> Seq(Messages)]
  BY DEF ProducerInv, ProducerTypeOK
<1>2. \A k \in Keys : lists'[k] = lists[k] \/ lists'[k] = <<>>
  <2>1. CASE Delete
    <3>1. PICK key : lists' = [lists EXCEPT ![key] = <<>>]
      BY <2>1 DEF Delete
    <3> QED
      BY <1>1, <3>1
  <2>2. CASE FlushAll
    BY <2>2 DEF FlushAll
  <2> QED
    BY <2>1, <2>2
<1>3. \A k \in PolledKeys : lists'[k] = lists[k] \/ DOMAIN lists'[k] = {}
  <2>1. DOMAIN <<>> = {}
    BY SMT
  <2> QED
    BY <1>2, <2>1, KeyFacts
<1> QED
  BY <1>3 DEF OneOldPerKey, OldKeys

LEMMA SameView ==
  ASSUME UNCHANGED <<lists, taken>>
  PROVE  /\ OldKeys' = OldKeys /\ Waiting' = Waiting /\ Stolen' = Stolen
         /\ OneOldPerKey' <=> OneOldPerKey
  BY DEF OldKeys, Waiting, Stolen, Listed, Positions, OneOldPerKey

\* A BRPOP gets the one message from before that a key has, or a job that waits.
LEMMA PopView ==
  ASSUME ProducerInv, ProducerInv', OneOldPerKey, NEW to \in {"worker", "orphan"}, Pop(to)
  PROVE  /\ OneOldPerKey'
         /\ \/ \E k \in OldKeys : /\ OldKeys' = OldKeys \ {k}
                                  /\ UNCHANGED <<Waiting, Stolen>>
            \/ \E i \in Waiting :
                 /\ UNCHANGED OldKeys /\ Waiting' = Waiting \ {i} /\ i \notin Stolen
                 /\ Stolen' = IF to = "orphan" THEN Stolen \union {i} ELSE Stolen
<1>1. PICK K \in PolledKeys, m \in Messages, n \in Nat :
        /\ n \in DOMAIN lists[K] /\ lists[K][n] = m
        /\ \A p \in DOMAIN lists[K] : p = n \/ p \in DOMAIN lists'[K]
        /\ \A p \in DOMAIN lists'[K] :
             p \in DOMAIN lists[K] /\ p < n /\ lists'[K][p] = lists[K][p]
        /\ \A k \in Keys : k # K => lists'[k] = lists[k]
        /\ \E t : /\ t \notin DOMAIN taken /\ DOMAIN taken' = DOMAIN taken \union {t}
                  /\ taken'[t] = [msg |-> m, to |-> to]
                  /\ \A p \in DOMAIN taken : taken'[p] = taken[p]
  BY PopRemoves DEF ProducerInv
<1>2. PICK t : /\ t \notin DOMAIN taken /\ DOMAIN taken' = DOMAIN taken \union {t}
               /\ taken'[t] = [msg |-> m, to |-> to]
               /\ \A p \in DOMAIN taken : taken'[p] = taken[p]
  BY <1>1
<1>3. K \in Keys /\ n \in Nat
  BY KeyFacts
<1>4. OneOldPerKey'
  BY <1>1, KeyFacts DEF OneOldPerKey
<1>5. \A k \in Keys : \A i \in JobIds : Own(i) # m => (Waits(k, i)' <=> Waits(k, i))
  <2>1. \A i \in JobIds : Own(i) # m => (Waits(K, i)' <=> Waits(K, i))
    BY <1>1 DEF Waits
  <2> QED
    BY <1>1, <2>1 DEF Waits
<1>6. \A i \in JobIds : i \in Stolen' <=> i \in Stolen \/ [msg |-> Own(i), to |-> "orphan"] = [msg |-> m, to |-> to]
  BY <1>2 DEF Stolen, JobIds
<1>7. CASE ~m.own
  <2>1. \A i \in JobIds : Own(i) # m
    BY <1>7, MessageFacts
  <2>2. Waiting' = Waiting
    <3>1. Waiting \subseteq JobIds /\ Waiting' \subseteq JobIds
      BY DEF Waiting, JobIds
    <3>2. \A i \in JobIds : i \in Waiting' <=> i \in Waiting
      BY <1>5, <2>1, WaitingWaits
    <3> QED
      BY <3>1, <3>2
  <2>3. Stolen' = Stolen
    <3>1. Stolen \subseteq JobIds /\ Stolen' \subseteq JobIds
      BY DEF Stolen, JobIds
    <3>2. \A i \in JobIds : i \in Stolen' <=> i \in Stolen
      BY <1>6, <2>1, Zenon
    <3> QED
      BY <3>1, <3>2
  <2>4. K \in OldKeys
    BY <1>1, <1>7 DEF OldKeys
  <2>5. \A p \in DOMAIN lists'[K] : lists'[K][p].own
    <3> SUFFICES ASSUME NEW p \in DOMAIN lists'[K], ~lists'[K][p].own PROVE FALSE
      OBVIOUS
    <3>1. p \in DOMAIN lists[K] /\ p < n /\ ~lists[K][p].own
      BY <1>1
    <3>2. p = n
      BY <1>1, <1>7, <3>1 DEF OneOldPerKey
    <3> QED
      BY <1>3, <3>1, <3>2, SMT
  <2>6. OldKeys' = OldKeys \ {K}
    BY <1>1, <2>5, KeyFacts DEF OldKeys
  <2> QED
    BY <1>4, <2>2, <2>3, <2>4, <2>6
<1>8. CASE m.own
  <2> PICK i \in JobIds : m = Own(i)
    BY <1>8, MessageFacts
  <2>1. Waits(K, i)
    BY <1>1 DEF Waits
  <2>2. ~Gone(i)
    <3>1. KeyOf(i) = K
      BY <1>3, <2>1 DEF ProducerInv, ListsInOrder
    <3>2. Gone(i) => i < i
      BY <2>1, <3>1 DEF ProducerInv, ListsInOrder
    <3> QED
      BY <3>2, JobIdFacts, SMT
  <2>3. Gone(i)'
    BY <1>2 DEF Gone
  <2>4. \A k \in Keys : ~Waits(k, i)'
    <3> SUFFICES ASSUME NEW k \in Keys, Waits(k, i)' PROVE FALSE
      OBVIOUS
    <3>1. KeyOf(i) = k
      BY DEF ProducerInv, ListsInOrder
    <3>2. i < i
      BY <2>3, <3>1 DEF ProducerInv, ListsInOrder
    <3> QED
      BY <3>2, JobIdFacts, SMT
  <2>5. i \in Waiting /\ i \notin Waiting'
    BY <1>3, <2>1, <2>4, WaitingWaits
  <2>6. \A j \in JobIds : j # i => (j \in Waiting' <=> j \in Waiting)
    BY <1>5, MessageFacts, WaitingWaits
  <2>7. Waiting' = Waiting \ {i}
    <3>1. Waiting \subseteq JobIds /\ Waiting' \subseteq JobIds
      BY DEF Waiting, JobIds
    <3> QED
      BY <2>5, <2>6, <3>1
  <2>8. i \notin Stolen
    BY <2>2 DEF Stolen, Gone
  <2>9. Stolen' = IF to = "orphan" THEN Stolen \union {i} ELSE Stolen
    <3>1. Stolen \subseteq JobIds /\ Stolen' \subseteq JobIds
      BY DEF Stolen, JobIds
    <3>2. \A j \in JobIds : j \in Stolen' <=> j \in Stolen \/ (j = i /\ to = "orphan")
      <4>1. \A j : Own(j) = Own(i) <=> j = i
        BY MessageFacts
      <4>2. \A j : [msg |-> Own(j), to |-> "orphan"] = [msg |-> m, to |-> to]
                     <=> Own(j) = m /\ to = "orphan"
        BY SMT
      <4> QED
        BY <1>6, <4>1, <4>2
    <3> QED
      BY <3>1, <3>2
  <2>10. OldKeys' = OldKeys
    <3>1. (\E p \in DOMAIN lists'[K] : ~lists'[K][p].own) <=> (\E p \in DOMAIN lists[K] : ~lists[K][p].own)
      BY <1>1, <1>8
    <3> QED
      BY <1>1, <3>1, KeyFacts DEF OldKeys
  <2> QED
    BY <1>4, <2>5, <2>7, <2>8, <2>9, <2>10
<1> QED
  BY <1>7, <1>8

\* What the refinement mapping amounts to, stage by stage.
View ==
  /\ SupplyKeys \in [{"own", "old"} -> Nat] /\ SupplyOrphans \in Nat
  /\ SupplyKeys["old"] = Cardinality(OldKeys)
  /\ IF stage = "ready"
     THEN SupplyStep = "trial" /\ SupplyOrphans = orphans
          /\ SupplyKeys["own"] = Cardinality(Waiting)
     ELSE SupplyStep = (IF stage = "failed" THEN "exited" ELSE stage)
          /\ SupplyOrphans = orphans + Cardinality(Stolen) /\ SupplyKeys["own"] = 0

LEMMA ViewFacts == ProducerTypeOK => View
<1> SUFFICES ASSUME ProducerTypeOK PROVE View
  OBVIOUS
<1>1. Cardinality(OldKeys) \in Nat /\ Cardinality(Waiting) \in Nat /\ Cardinality(Stolen) \in Nat
  BY Counts
<1>2. orphans \in Nat /\ stage \in {"clear", "enqueue", "ready", "failed"}
  BY OrphansAssumption, SMT DEF ProducerTypeOK
<1>3. SupplyOrphans \in Nat
  BY <1>1, <1>2, SMT DEF SupplyOrphans
<1>4. /\ SupplyKeys \in [{"own", "old"} -> Nat]
      /\ SupplyKeys["old"] = Cardinality(OldKeys)
      /\ SupplyKeys["own"] = IF stage = "ready" THEN Cardinality(Waiting) ELSE 0
  BY <1>1 DEF SupplyKeys
<1>5. SupplyStep = IF stage = "ready" THEN "trial" ELSE IF stage = "failed" THEN "exited" ELSE stage
  BY <1>2 DEF SupplyStep
<1> QED
  BY <1>3, <1>4, <1>5 DEF View, SupplyOrphans

LEMMA ViewFactsNext == ProducerTypeOK' => View'
  BY ViewFacts, PTL

\* Functions of the two ages are equal when they agree on them.
LEMMA KeysUpdate ==
  ASSUME NEW f \in [{"own", "old"} -> Nat], NEW g \in [{"own", "old"} -> Nat],
         NEW age \in {"own", "old"},
         \A a \in {"own", "old"} : a # age => g[a] = f[a]
  PROVE  g = [f EXCEPT ![age] = g[age]]
  OBVIOUS

\* When everything is enqueued, a job that does not wait was stolen.
LEMMA AllEnqueued ==
  ASSUME SupplyInv, EnqueueDone
  PROVE  Cardinality(Waiting) = Jobs - Cardinality(Stolen) /\ Cardinality(Stolen) \in 0 .. Jobs
<1>1. /\ stage = "enqueue" /\ batch = 0 /\ remaining = 0
  BY DEF EnqueueDone
<1>2. \A i \in JobIds : Gone(i) \/ Waits(KeyOf(i), i)
  <2>1. /\ idx + remaining = Jobs /\ Len(pipeline) <= batch
        /\ idx \in 0 .. Jobs /\ Len(pipeline) \in Nat
        /\ \A i \in JobIds : i < NextJob <=> Gone(i) \/ Waits(KeyOf(i), i)
    BY <1>1 DEF SupplyInv, ProducerInv, Enqueueing, ProducerTypeOK
  <2>2. NextJob = Jobs
    BY <1>1, <2>1, JobsAssumption, SMT DEF NextJob
  <2> QED
    BY <2>1, <2>2, JobIdFacts
<1>3. \A i \in JobIds : Gone(i) <=> i \in Stolen
  <2>1. \A p \in DOMAIN taken : taken[p] = [msg |-> taken[p].msg, to |-> "orphan"]
    <3>1. taken \in Seq([msg : Messages, to : {"worker", "orphan"}])
      BY DEF SupplyInv, ProducerInv, ProducerTypeOK
    <3>2. \A p \in DOMAIN taken : taken[p] \in [msg : Messages, to : {"worker", "orphan"}]
      BY <3>1, ElementFacts
    <3>3. \A p \in DOMAIN taken : taken[p].to # "worker"
      BY <1>1 DEF SupplyInv, WorkersComeLast
    <3> QED
      BY <3>2, <3>3
  <2> QED
    BY <2>1 DEF Gone, Stolen, JobIds
<1>4. \A i \in JobIds : i \in Waiting => ~Gone(i)
  <2> SUFFICES ASSUME NEW i \in JobIds, i \in Waiting, Gone(i) PROVE FALSE
    OBVIOUS
  <2>1. PICK k \in Keys : Waits(k, i)
    BY WaitingWaits
  <2>2. KeyOf(i) = k
    BY <2>1 DEF SupplyInv, ProducerInv, ListsInOrder
  <2>3. i < i
    BY <2>1, <2>2 DEF SupplyInv, ProducerInv, ListsInOrder
  <2> QED
    BY <2>3, JobIdFacts, SMT
<1>5. \A i \in JobIds : i \in Waiting \/ i \in Stolen
  BY <1>2, <1>3, KeyFacts, WaitingWaits
<1>6. Waiting \union Stolen = JobIds /\ Waiting \intersect Stolen = {}
  BY <1>3, <1>4, <1>5, JobSetsFinite
<1>7. Cardinality(Waiting \union Stolen)
        = Cardinality(Waiting) + Cardinality(Stolen) - Cardinality(Waiting \intersect Stolen)
  BY JobSetsFinite, FS_Union
<1>8. Cardinality(Waiting \intersect Stolen) = 0
  BY <1>6, FS_EmptySet
<1>9. Jobs = Cardinality(Waiting) + Cardinality(Stolen) - 0
  BY <1>6, <1>7, <1>8, JobSetsFinite
<1> QED
  BY <1>9, Counts, JobsAssumption, SMT

LEMMA SupplyInvAlways == Spec => []SupplyInv
<1>1. Init => WorkersComeLast /\ OneOldPerKey
  <2> SUFFICES ASSUME Init PROVE WorkersComeLast /\ OneOldPerKey
    OBVIOUS
  <2>1. DOMAIN taken = {}
    BY SMT DEF Init
  <2>2. \A k \in PolledKeys : lists[k] = <<>> \/ lists[k] = <<Stale>>
    BY KeyFacts DEF Init
  <2>3. \A k \in PolledKeys : \A p \in DOMAIN lists[k] : p = 1
    BY <2>2, SMT
  <2> QED
    BY <2>1, <2>3 DEF WorkersComeLast, OneOldPerKey
<1>2. ProducerInv /\ ProducerInv' /\ WorkersComeLast /\ OneOldPerKey /\ [Next]_vars
      => WorkersComeLast' /\ OneOldPerKey'
  <2> SUFFICES ASSUME ProducerInv, ProducerInv', WorkersComeLast, OneOldPerKey, [Next]_vars
               PROVE  WorkersComeLast' /\ OneOldPerKey'
    OBVIOUS
  <2>1. CASE UNCHANGED <<lists, taken>> /\ (stage = "ready" => stage' = "ready")
    BY <2>1, SameView DEF WorkersComeLast
  <2>2. CASE Lpush
    BY <2>2, LpushKeepsOld DEF Lpush, producerVars, WorkersComeLast
  <2>3. CASE Delete \/ FlushAll
    BY <2>3, EmptyingDrops DEF Delete, FlushAll, producerVars, WorkersComeLast
  <2>4. ASSUME NEW to \in {"worker", "orphan"}, Pop(to), stage' = stage,
               to = "worker" => stage = "ready"
        PROVE  WorkersComeLast' /\ OneOldPerKey'
    <3> PICK m \in Messages :
            \E t : /\ t \notin DOMAIN taken /\ DOMAIN taken' = DOMAIN taken \union {t}
                   /\ taken'[t] = [msg |-> m, to |-> to]
                   /\ \A p \in DOMAIN taken : taken'[p] = taken[p]
      BY <2>4, PopRemoves DEF ProducerInv
    <3>1. PICK t : /\ DOMAIN taken' = DOMAIN taken \union {t}
                   /\ taken'[t] = [msg |-> m, to |-> to]
                   /\ \A p \in DOMAIN taken : taken'[p] = taken[p]
      OBVIOUS
    <3>2. WorkersComeLast'
      BY <2>4, <3>1 DEF WorkersComeLast
    <3> QED
      BY <2>4, <3>2, PopView
  <2>5. CASE ServeWorker
    BY <2>4, <2>5 DEF ServeWorker, producerVars
  <2>6. CASE ServeOrphan
    BY <2>4, <2>6 DEF ServeOrphan, producerVars
  <2> QED
    BY <2>1, <2>2, <2>3, <2>5, <2>6
       DEF Next, Produce, ClearDone, SendBatch, BatchDone, EnqueueDone, PipelineFails,
           Execute, Serve, OrphanCloses, Finished, vars, producerVars
<1> QED
  BY <1>1, <1>2, InvAlways, PTL DEF Spec, SupplyInv

(* Every step of the pipelines, the broker and the orphans is one of the
   contract, or none. *)
LEMMA SupplyStepKeeps ==
  ASSUME SupplyInv, SupplyInv', [Next]_vars
  PROVE  [Supply!SupplyNext]_(Supply!supplyVars)
<1>1. View /\ View'
  BY ViewFacts, ViewFactsNext DEF SupplyInv, ProducerInv
<1>2. /\ orphans \in Nat /\ orphans' \in Nat /\ stage \in {"clear", "enqueue", "ready", "failed"}
      /\ Cardinality(OldKeys) \in Nat /\ Cardinality(Waiting) \in Nat
      /\ Cardinality(Stolen) \in Nat
      /\ Cardinality(OldKeys)' \in Nat /\ Cardinality(Waiting)' \in Nat
      /\ Cardinality(Stolen)' \in Nat
  BY Counts, OrphansAssumption, SMT DEF SupplyInv, ProducerInv, ProducerTypeOK
<1> DEFINE same == UNCHANGED <<SupplyStep, SupplyKeys, SupplyOrphans>>
<1>3. same => [Supply!SupplyNext]_(Supply!supplyVars)
  BY DEF Supply!supplyVars
\* The same sets of keys and jobs make the same view.
<1>4. ASSUME UNCHANGED <<stage, orphans, OldKeys, Waiting, Stolen>>
      PROVE  same
  BY <1>4 DEF SupplyStep, SupplyKeys, SupplyOrphans
<1>5. CASE UNCHANGED <<stage, orphans, lists, taken>>
  BY <1>3, <1>4, <1>5, SameView
<1>6. CASE ClearDone
  <2>1. /\ stage = "clear" /\ stage' = "enqueue" /\ UNCHANGED <<lists, taken, orphans>>
        /\ pipeline = <<>>
    BY <1>6 DEF ClearDone
  <2>2. OldKeys = {}
    <3>1. DOMAIN pipeline = {}
      BY <2>1, SMT
    <3>2. \A k \in PolledKeys : lists[k] = <<>>
      BY <2>1, <3>1 DEF SupplyInv, ProducerInv, Clearing
    <3>3. \A k \in PolledKeys : DOMAIN lists[k] = {}
      BY <3>2, SMT
    <3> QED
      BY <3>3 DEF OldKeys
  <2>3. SupplyKeys["old"] = 0 /\ SupplyKeys["own"] = 0
    BY <1>1, <2>1, <2>2, FS_EmptySet DEF View
  <2>4. SupplyKeys = Supply!NoMessages
    BY <1>1, <2>3 DEF View, Supply!NoMessages, Supply!Ages
  <2>5. SupplyStep = "clear" /\ SupplyStep' = "enqueue"
    BY <1>1, <2>1 DEF View
  <2>6. SupplyKeys' = SupplyKeys /\ SupplyOrphans' = SupplyOrphans
    BY <2>1, SameView DEF SupplyKeys, SupplyOrphans
  <2> QED
    BY <2>4, <2>5, <2>6 DEF Supply!SupplyNext, Supply!Cleared
<1>7. CASE EnqueueDone
  <2>1. stage = "enqueue" /\ stage' = "ready" /\ UNCHANGED <<lists, taken, orphans>>
    BY <1>7 DEF EnqueueDone
  <2>2. OldKeys' = OldKeys /\ Waiting' = Waiting /\ Stolen' = Stolen
    BY <2>1, SameView
  <2> DEFINE stolen == Cardinality(Stolen)
  <2>3. Cardinality(Waiting) = Jobs - stolen /\ stolen \in 0 .. Jobs
    BY <1>7, AllEnqueued
  <2>4. SupplyOrphans = orphans + stolen /\ SupplyOrphans' = orphans
    BY <1>1, <2>1 DEF View
  <2>5. stolen <= SupplyOrphans /\ SupplyOrphans' = SupplyOrphans - stolen
    BY <1>2, <2>4, SMT
  <2>6. SupplyKeys'["own"] = Jobs - stolen /\ SupplyKeys'["old"] = SupplyKeys["old"]
    BY <1>1, <2>1, <2>2, <2>3 DEF View
  <2>7. SupplyKeys' = [SupplyKeys EXCEPT !["own"] = Jobs - stolen]
    <3>1. SupplyKeys \in [{"own", "old"} -> Nat] /\ SupplyKeys' \in [{"own", "old"} -> Nat]
      BY <1>1 DEF View
    <3>2. \A a \in {"own", "old"} : a # "own" => SupplyKeys'[a] = SupplyKeys[a]
      BY <2>6
    <3>3. SupplyKeys' = [SupplyKeys EXCEPT !["own"] = SupplyKeys'["own"]]
      BY <3>1, <3>2, KeysUpdate
    <3> QED
      BY <2>6, <3>3
  <2>8. SupplyStep = "enqueue" /\ SupplyStep' = "trial"
    BY <1>1, <2>1 DEF View
  <2> HIDE DEF stolen
  <2>9. Supply!Enqueue(Jobs)
    BY <2>3, <2>5, <2>7, <2>8 DEF Supply!Enqueue
  <2> QED
    BY <2>9 DEF Supply!SupplyNext
<1>8. CASE PipelineFails
  <2>1. /\ stage \in {"clear", "enqueue"} /\ stage' = "failed"
        /\ UNCHANGED <<lists, taken, orphans>>
    BY <1>8 DEF PipelineFails
  <2>2. OldKeys' = OldKeys /\ Stolen' = Stolen
    BY <2>1, SameView
  <2>3. SupplyStep \in {"clear", "enqueue"} /\ SupplyStep' = "exited"
    BY <1>1, <2>1 DEF View
  <2>4. SupplyKeys' = SupplyKeys /\ SupplyOrphans' = SupplyOrphans
    BY <2>1, <2>2 DEF SupplyKeys, SupplyOrphans
  <2> QED
    BY <2>3, <2>4 DEF Supply!SupplyNext, Supply!Fail
\* What changes in the keys, step by step.
<1>9. ASSUME UNCHANGED <<SupplyStep, SupplyOrphans>>, SupplyKeys'["own"] = SupplyKeys["own"],
             OldKeys' \subseteq OldKeys, stage \in {"clear", "failed"}
      PROVE  [Supply!SupplyNext]_(Supply!supplyVars)
  <2>1. Cardinality(OldKeys') <= Cardinality(OldKeys)
    BY <1>9, OldKeysFinite, FS_Subset
  <2>2. /\ SupplyKeys \in [{"own", "old"} -> Nat] /\ SupplyKeys' \in [{"own", "old"} -> Nat]
        /\ SupplyKeys["old"] = Cardinality(OldKeys) /\ SupplyKeys'["old"] = Cardinality(OldKeys')
    BY <1>1 DEF View
  <2> DEFINE n == SupplyKeys'["old"]
  <2>3. SupplyKeys' = [SupplyKeys EXCEPT !["old"] = n]
    <3>1. \A a \in {"own", "old"} : a # "old" => SupplyKeys'[a] = SupplyKeys[a]
      BY <1>9
    <3> QED
      BY <2>2, <3>1, KeysUpdate
  <2>4. n \in Nat /\ SupplyKeys["old"] \in Nat /\ n <= SupplyKeys["old"]
    BY <1>2, <2>1, <2>2
  <2> HIDE DEF n
  <2>5. CASE n = SupplyKeys["old"]
    BY <1>3, <1>9, <2>2, <2>3, <2>5
  <2>6. CASE n # SupplyKeys["old"]
    <3>1. n \in 0 .. SupplyKeys["old"] - 1
      BY <2>4, <2>6, SMT
    <3>2. Supply!Drop
      BY <1>9, <2>3, <3>1 DEF Supply!Drop
    <3>3. SupplyStep = "clear" \/ SupplyStep = "exited"
      BY <1>1, <1>9 DEF View
    <3> QED
      BY <3>2, <3>3 DEF Supply!SupplyNext, Supply!Discard, Supply!LateDiscard
  <2> QED
    BY <2>5, <2>6
<1>10. CASE Delete \/ FlushAll
  <2>1. UNCHANGED <<stage, orphans, taken>>
    BY <1>10 DEF Delete, FlushAll, producerVars
  <2>2. OldKeys' \subseteq OldKeys
    BY <1>10, EmptyingDrops DEF SupplyInv
  <2>3. Stolen' = Stolen
    BY <2>1 DEF Stolen
  <2>4. stage \in {"clear", "failed"}
    <3>1. /\ pipeline \in Seq(Commands) /\ pipeline # <<>> /\ Head(pipeline).op # "push"
      BY <1>10 DEF Delete, FlushAll, SupplyInv, ProducerInv, ProducerTypeOK
    <3>2. 1 \in DOMAIN pipeline /\ Head(pipeline) = pipeline[1]
      BY <3>1, TailFacts
    <3>3. stage \notin {"enqueue", "ready"}
      BY <3>1, <3>2, CommandFacts DEF SupplyInv, ProducerInv, Enqueueing
    <3> QED
      BY <1>2, <3>3
  <2>5. UNCHANGED <<SupplyStep, SupplyOrphans>>
    BY <2>1, <2>3 DEF SupplyStep, SupplyOrphans
  <2>6. SupplyKeys'["own"] = SupplyKeys["own"]
    BY <1>1, <2>1, <2>4 DEF View
  <2> QED
    BY <1>9, <2>2, <2>4, <2>5, <2>6
<1>11. CASE Lpush
  <2>1. UNCHANGED <<stage, orphans, taken>>
    BY <1>11 DEF Lpush, producerVars
  <2>2. OldKeys' = OldKeys /\ Stolen' = Stolen
    BY <1>11, <2>1, LpushKeepsOld DEF SupplyInv, Stolen
  <2>3. stage # "ready"
    <3>1. /\ pipeline \in Seq(Commands) /\ pipeline # <<>>
      BY <1>11 DEF Lpush, SupplyInv, ProducerInv, ProducerTypeOK
    <3>2. Len(pipeline) > 0 /\ Len(pipeline) \in Nat
      BY <3>1, SMT
    <3>3. stage = "ready" => batch = 0 /\ Len(pipeline) <= batch
      BY DEF SupplyInv, ProducerInv, Enqueueing
    <3> QED
      BY <3>2, <3>3, SMT
  <2>4. same
    BY <2>1, <2>2, <2>3 DEF SupplyStep, SupplyKeys, SupplyOrphans
  <2> QED
    BY <1>3, <2>4
<1>12. CASE OrphanCloses
  <2>1. /\ orphans > 0 /\ orphans' = orphans - 1 /\ UNCHANGED <<stage, lists, taken>>
    BY <1>12 DEF OrphanCloses, producerVars
  <2>2. OldKeys' = OldKeys /\ Waiting' = Waiting /\ Stolen' = Stolen
    BY <2>1, SameView
  <2>3. UNCHANGED <<SupplyStep, SupplyKeys>>
    BY <2>1, <2>2 DEF SupplyStep, SupplyKeys
  <2>4. SupplyOrphans > 0 /\ SupplyOrphans' = SupplyOrphans - 1
    BY <1>2, <2>1, <2>2, SMT DEF SupplyOrphans
  <2> QED
    BY <2>3, <2>4 DEF Supply!SupplyNext, Supply!OrphanCloses
\* A message less, and of which age.
<1>13. ASSUME NEW k \in OldKeys, OldKeys' = OldKeys \ {k}
       PROVE  Cardinality(OldKeys) > 0 /\ Cardinality(OldKeys') = Cardinality(OldKeys) - 1
  <2>1. Cardinality(OldKeys') = Cardinality(OldKeys) - 1
    BY <1>13, OldKeysFinite, FS_RemoveElement
  <2> QED
    BY <1>2, <2>1, SMT
<1>14. ASSUME NEW i \in Waiting, Waiting' = Waiting \ {i}
       PROVE  Cardinality(Waiting) > 0 /\ Cardinality(Waiting') = Cardinality(Waiting) - 1
  <2>1. Cardinality(Waiting') = Cardinality(Waiting) - 1
    BY <1>14, JobSetsFinite, FS_RemoveElement
  <2> QED
    BY <1>2, <2>1, SMT
<1>15. ASSUME NEW age \in {"own", "old"}, SupplyKeys[age] > 0,
              SupplyKeys'[age] = SupplyKeys[age] - 1,
              \A a \in {"own", "old"} : a # age => SupplyKeys'[a] = SupplyKeys[a]
       PROVE  SupplyKeys' = [SupplyKeys EXCEPT ![age] = @ - 1]
  <2>1. SupplyKeys \in [{"own", "old"} -> Nat] /\ SupplyKeys' \in [{"own", "old"} -> Nat]
    BY <1>1 DEF View
  <2>2. SupplyKeys' = [SupplyKeys EXCEPT ![age] = SupplyKeys'[age]]
    BY <1>15, <2>1, KeysUpdate
  <2> QED
    BY <1>15, <2>2
<1>16. CASE ServeWorker
  <2>1. stage = "ready" /\ Pop("worker") /\ UNCHANGED <<stage, orphans>>
    BY <1>16 DEF ServeWorker, producerVars
  <2>2. OldKeys = {}
    BY <2>1 DEF SupplyInv, ProducerInv, Enqueueing, OldKeys
  <2>3. PICK i \in Waiting : /\ UNCHANGED OldKeys /\ Waiting' = Waiting \ {i}
                             /\ Stolen' = Stolen
    BY <2>1, <2>2, PopView DEF SupplyInv
  <2>4. SupplyKeys["own"] > 0 /\ SupplyKeys'["own"] = SupplyKeys["own"] - 1
        /\ SupplyKeys'["old"] = SupplyKeys["old"]
    BY <1>1, <1>14, <2>1, <2>3 DEF View
  <2>5. SupplyKeys' = [SupplyKeys EXCEPT !["own"] = @ - 1]
    BY <1>15, <2>4
  <2>6. SupplyStep = "trial" /\ UNCHANGED <<SupplyStep, SupplyOrphans>>
    BY <1>1, <2>1 DEF View
  <2>7. Supply!Take("own")
    BY <2>4, <2>5, <2>6 DEF Supply!Take
  <2> QED
    BY <2>7 DEF Supply!SupplyNext, Supply!Ages
<1>17. CASE ServeOrphan
  <2>1. /\ orphans > 0 /\ orphans' = orphans - 1 /\ Pop("orphan") /\ stage' = stage
    BY <1>17 DEF ServeOrphan, producerVars
  <2>2. \/ \E k \in OldKeys : OldKeys' = OldKeys \ {k} /\ UNCHANGED <<Waiting, Stolen>>
        \/ \E i \in Waiting : /\ UNCHANGED OldKeys /\ Waiting' = Waiting \ {i}
                              /\ i \notin Stolen /\ Stolen' = Stolen \union {i}
    BY <2>1, PopView DEF SupplyInv
  <2>3. SupplyStep' = SupplyStep
    BY <2>1 DEF SupplyStep
  \* An old message, or a job that the round sees: Steal.
  <2>4. ASSUME NEW age \in {"own", "old"}, SupplyKeys[age] > 0,
               SupplyKeys'[age] = SupplyKeys[age] - 1,
               \A a \in {"own", "old"} : a # age => SupplyKeys'[a] = SupplyKeys[a],
               SupplyOrphans > 0, SupplyOrphans' = SupplyOrphans - 1
        PROVE  [Supply!SupplyNext]_(Supply!supplyVars)
    <3>1. SupplyKeys' = [SupplyKeys EXCEPT ![age] = @ - 1]
      BY <1>15, <2>4
    <3>2. Supply!Steal
      BY <2>3, <2>4, <3>1 DEF Supply!Steal, Supply!Ages
    <3> QED
      BY <3>2 DEF Supply!SupplyNext
  <2>5. ASSUME NEW k \in OldKeys, OldKeys' = OldKeys \ {k}, UNCHANGED <<Waiting, Stolen>>
        PROVE  [Supply!SupplyNext]_(Supply!supplyVars)
    <3>1. /\ SupplyKeys["old"] > 0 /\ SupplyKeys'["old"] = SupplyKeys["old"] - 1
          /\ SupplyKeys'["own"] = SupplyKeys["own"]
      BY <1>1, <1>13, <2>1, <2>5 DEF View
    <3>2. SupplyOrphans > 0 /\ SupplyOrphans' = SupplyOrphans - 1
      BY <1>2, <2>1, <2>5, SMT DEF SupplyOrphans
    <3> QED
      BY <2>4, <3>1, <3>2
  <2>6. ASSUME NEW i \in Waiting, UNCHANGED OldKeys, Waiting' = Waiting \ {i},
               i \notin Stolen, Stolen' = Stolen \union {i}
        PROVE  [Supply!SupplyNext]_(Supply!supplyVars)
    <3>1. CASE stage = "ready"
      <4>1. /\ SupplyKeys["own"] > 0 /\ SupplyKeys'["own"] = SupplyKeys["own"] - 1
            /\ SupplyKeys'["old"] = SupplyKeys["old"]
        BY <1>1, <1>14, <2>1, <2>6, <3>1 DEF View
      <4>2. SupplyOrphans > 0 /\ SupplyOrphans' = SupplyOrphans - 1
        BY <1>1, <2>1, <3>1 DEF View
      <4> QED
        BY <2>4, <4>1, <4>2
    \* Before the trial starts the round sees neither the job nor the theft.
    <3>2. CASE stage # "ready"
      <4>1. Cardinality(Stolen') = Cardinality(Stolen) + 1
        BY <2>6, JobSetsFinite, FS_AddElement
      <4>2. SupplyOrphans' = SupplyOrphans
        BY <1>2, <2>1, <3>2, <4>1, SMT DEF SupplyOrphans
      <4>3. SupplyKeys' = SupplyKeys
        BY <2>1, <2>6, <3>2 DEF SupplyKeys
      <4> QED
        BY <1>3, <2>3, <4>2, <4>3
    <3> QED
      BY <3>1, <3>2
  <2> QED
    BY <2>2, <2>5, <2>6
<1> QED
  BY <1>5, <1>6, <1>7, <1>8, <1>10, <1>11, <1>12, <1>16, <1>17
     DEF Next, Produce, SendBatch, BatchDone, Execute, Serve, Finished, vars, producerVars

(* A contract of four counters stands for the whole of clearing and enqueueing:
   whatever batch sizes, broken pipelines and BRPOPs of dead workers do, a trial
   starts without old messages and misses only the jobs that were stolen. *)
THEOREM SuppliesRoundsCorrect == Spec => SuppliesRounds
<1>1. Init => Supply!SupplyInit
  <2> SUFFICES ASSUME Init PROVE Supply!SupplyInit
    OBVIOUS
  <2>1. View
    BY InvInitially, ViewFacts DEF ProducerInv
  <2>2. stage = "clear" /\ orphans \in 0 .. MaxOrphans
    BY DEF Init
  <2>3. Stolen = {}
    <3>1. DOMAIN taken = {}
      BY SMT DEF Init
    <3> QED
      BY <3>1 DEF Stolen
  <2>4. SupplyOrphans = orphans + 0
    BY <2>1, <2>2, <2>3, FS_EmptySet DEF View
  <2>5. SupplyOrphans = orphans
    BY <2>2, <2>4, OrphansAssumption, SMT
  <2> QED
    BY <2>1, <2>2, <2>5 DEF View, Supply!SupplyInit, Supply!Ages
<1>2. SupplyInv /\ SupplyInv' /\ [Next]_vars => [Supply!SupplyNext]_(Supply!supplyVars)
  BY SupplyStepKeeps
<1> QED
  BY <1>1, <1>2, SupplyInvAlways, PTL DEF Spec, SuppliesRounds, Supply!SupplySpec

-----------------------------------------------------------------------------
(* The broker has got a first part of the jobs, also where a pipeline breaks. *)

\* Job i was pushed: it waits under its key or is gone.
There(i) == Gone(i) \/ Waits(KeyOf(i), i)

LEMMA CopiesOfAJob ==
  ASSUME ProducerInv, NEW i \in JobIds
  PROVE  Copies(i) = IF There(i) THEN 1 ELSE 0
<1>2. /\ taken \in Seq([msg : Messages, to : {"worker", "orphan"}])
      /\ \A k \in Keys : lists[k] \in Seq(Messages)
  BY DEF ProducerInv, ProducerTypeOK
<1>3. \A p \in DOMAIN taken : p \in Nat
  BY <1>2, SMT
<1>4. \A k \in Keys : \A p \in DOMAIN lists[k] : p \in Nat
  BY <1>2, SMT
<1>5. i \in Nat /\ KeyOf(i) \in Keys
  BY JobIdFacts, KeyFacts
<1>6. ASSUME NEW p \in Taken(i), NEW q \in Taken(i), p < q
      PROVE  FALSE
  <2>1. /\ p \in DOMAIN taken /\ q \in DOMAIN taken
        /\ taken[p].msg = Own(i) /\ taken[q].msg = Own(i)
    BY DEF Taken
  <2>2. taken[p].msg.own /\ taken[q].msg.own /\ taken[p].msg.job = i /\ taken[q].msg.job = i
    BY <2>1, MessageFacts
  <2>3. i < i
    BY <1>6, <2>1, <2>2 DEF ProducerInv, Fifo
  <2> QED
    BY <1>5, <2>3, SMT
<1>7. ASSUME NEW k \in Keys, NEW p \in Positions(lists[k], i),
             NEW q \in Positions(lists[k], i), p < q
      PROVE  FALSE
  <2>1. /\ p \in DOMAIN lists[k] /\ q \in DOMAIN lists[k]
        /\ lists[k][p] = Own(i) /\ lists[k][q] = Own(i)
    BY DEF Positions
  <2>2. lists[k][p].own /\ lists[k][q].own /\ lists[k][p].job = i /\ lists[k][q].job = i
    BY <2>1, MessageFacts
  <2>3. i < i
    BY <1>7, <2>1, <2>2 DEF ProducerInv, ListsInOrder, Youngest1st
  <2> QED
    BY <1>5, <2>3, SMT
<1>8. Taken(i) \subseteq Nat /\ (Taken(i) # {} <=> Gone(i))
  BY <1>3 DEF Taken, Gone
<1>9. \A k \in Keys : /\ Positions(lists[k], i) \subseteq Nat
                      /\ Positions(lists[k], i) # {} <=> Waits(k, i)
  BY <1>4 DEF Positions, Waits
<1>10. \A k \in Keys : Waits(k, i) => k = KeyOf(i) /\ ~Gone(i)
  <2>1. \A k \in Keys : Waits(k, i) => k = KeyOf(i)
    BY DEF ProducerInv, ListsInOrder
  <2>2. Gone(i) /\ Waits(KeyOf(i), i) => i < i
    BY DEF ProducerInv, ListsInOrder
  <2>3. ~(i < i)
    BY <1>5, SMT
  <2> QED
    BY <2>1, <2>2, <2>3
<1>11. CASE Gone(i)
  <2>1. ASSUME NEW k \in Keys
        PROVE  Positions(lists[k], i) = {}
    <3>1. ~Waits(k, i)
      BY <1>10, <1>11
    <3> QED
      BY <1>9, <3>1
  <2>5. Listed(i) = {}
    BY <2>1 DEF Listed
  <2>2. PICK p \in Taken(i) : TRUE
    BY <1>8, <1>11
  <2>3. \A q \in Taken(i) : q = p
    BY <1>6, <1>8, <2>2, SMT
  <2>4. Taken(i) = {p}
    BY <2>2, <2>3
  <2>6. Cardinality(Listed(i)) = 0 /\ Cardinality(Taken(i)) = 1
    BY <2>4, <2>5, FS_EmptySet, FS_Singleton, Zenon
  <2> QED
    BY <1>11, <2>6, SMT DEF Copies, There
<1>12. CASE ~Gone(i) /\ There(i)
  <2>1. Taken(i) = {}
    BY <1>8, <1>12
  <2> DEFINE here == Positions(lists[KeyOf(i)], i)
  <2>2. PICK p \in here : TRUE
    BY <1>5, <1>9, <1>12 DEF There
  <2>3. ASSUME NEW q \in here
        PROVE  q = p
    <3>1. ~(p < q) /\ ~(q < p)
      BY <1>5, <1>7, <2>2
    <3>2. p \in Nat /\ q \in Nat
      BY <1>5, <1>9, <2>2
    <3> QED
      BY <3>1, <3>2, SMT
  <2>4. here = {p}
    BY <2>2, <2>3
  <2>5. ASSUME NEW k \in Keys, k # KeyOf(i)
        PROVE  Positions(lists[k], i) = {}
    <3>1. ~Waits(k, i)
      BY <1>10, <2>5
    <3> QED
      BY <1>9, <3>1
  <2>6. Listed(i) = {<<KeyOf(i), p>>}
    BY <1>5, <2>4, <2>5 DEF Listed
  <2>7. Cardinality(Listed(i)) = 1 /\ Cardinality(Taken(i)) = 0
    BY <2>1, <2>6, FS_EmptySet, FS_Singleton, Zenon
  <2> QED
    BY <1>12, <2>7, SMT DEF Copies
<1>13. CASE ~There(i)
  <2>1. Taken(i) = {}
    BY <1>8, <1>13 DEF There
  <2>2. \A k \in Keys : ~Waits(k, i)
    BY <1>10, <1>13 DEF There
  <2>3. ASSUME NEW k \in Keys
        PROVE  Positions(lists[k], i) = {}
    BY <1>9, <2>2
  <2>4. Listed(i) = {}
    BY <2>3 DEF Listed
  <2>5. Cardinality(Listed(i)) = 0 /\ Cardinality(Taken(i)) = 0
    BY <2>1, <2>4, FS_EmptySet, Zenon
  <2> QED
    BY <1>13, <2>5, SMT DEF Copies
<1> QED
  BY <1>11, <1>12, <1>13 DEF There

\* Every job before one that is there is there, every job before one that is to be
\* pushed is there or is to be pushed earlier, and there is none as long as
\* something is to be deleted.
FirstPart ==
  /\ \A i, j \in JobIds : i < j /\ There(j) => There(i)
  /\ \A p \in DOMAIN pipeline : \A i \in JobIds :
       pipeline[p].op = "push" /\ i < pipeline[p].job
         => There(i) \/ \E q \in DOMAIN pipeline : q < p /\ pipeline[q] = Push(i)
  /\ \A p \in DOMAIN pipeline : pipeline[p].op # "push" =>
       /\ \A q \in DOMAIN pipeline : pipeline[q].op # "push"
       /\ \A i \in JobIds : ~There(i)

LEMMA ThereAfterPop ==
  ASSUME ProducerInv, NEW to \in {"worker", "orphan"}, Pop(to)
  PROVE  \A i \in JobIds : There(i)' <=> There(i)
<1>1. PICK K \in PolledKeys, m \in Messages, n \in Nat :
        /\ n \in DOMAIN lists[K] /\ lists[K][n] = m
        /\ \A p \in DOMAIN lists[K] : p = n \/ p \in DOMAIN lists'[K]
        /\ \A p \in DOMAIN lists'[K] :
             p \in DOMAIN lists[K] /\ p < n /\ lists'[K][p] = lists[K][p]
        /\ \A k \in Keys : k # K => lists'[k] = lists[k]
        /\ \E t : /\ t \notin DOMAIN taken /\ DOMAIN taken' = DOMAIN taken \union {t}
                  /\ taken'[t] = [msg |-> m, to |-> to]
                  /\ \A p \in DOMAIN taken : taken'[p] = taken[p]
  BY PopRemoves DEF ProducerInv
<1>2. \A i : Gone(i)' <=> Gone(i) \/ m = Own(i)
  <2>1. PICK t : /\ t \notin DOMAIN taken /\ DOMAIN taken' = DOMAIN taken \union {t}
                 /\ taken'[t] = [msg |-> m, to |-> to]
                 /\ \A p \in DOMAIN taken : taken'[p] = taken[p]
    BY <1>1
  <2>2. taken'[t].msg = m
    BY <2>1
  <2> QED
    BY <2>1, <2>2 DEF Gone
<1>3. ASSUME NEW i \in JobIds, NEW k \in Keys
      PROVE  /\ Waits(k, i)' => Waits(k, i)
             /\ Waits(k, i) => Waits(k, i)' \/ m = Own(i)
  BY <1>1 DEF Waits
<1>4. \A i \in JobIds : m = Own(i) => Waits(KeyOf(i), i)
  BY <1>1, KeyFacts DEF Waits, ProducerInv, ListsInOrder
<1> QED
  BY <1>2, <1>3, <1>4, KeyFacts DEF There

LEMMA FirstPartStep == ProducerInv /\ FirstPart /\ [Next]_vars => FirstPart'
<1> SUFFICES ASSUME ProducerInv, FirstPart, [Next]_vars PROVE FirstPart'
  OBVIOUS
<1>1. pipeline \in Seq(Commands) /\ lists \in [Keys -> Seq(Messages)]
  BY DEF ProducerInv, ProducerTypeOK
<1>2. ASSUME UNCHANGED <<lists, taken>>
      PROVE  \A i : There(i)' <=> There(i)
  BY <1>2 DEF There, Gone, Waits
<1>3. ASSUME UNCHANGED <<lists, taken, pipeline>>
      PROVE  FirstPart'
  BY <1>2, <1>3 DEF FirstPart
<1>4. CASE ClearDone \/ BatchDone \/ EnqueueDone \/ OrphanCloses \/ UNCHANGED vars
  BY <1>3, <1>4 DEF ClearDone, BatchDone, EnqueueDone, OrphanCloses, vars
<1>5. CASE SendBatch
  <2>1. /\ \A i : There(i)' <=> There(i)
        /\ stage = "enqueue" /\ batch = 0 /\ batch' \in Int
        /\ pipeline' = [j \in 1 .. batch' |-> Push(idx + j - 1)]
        /\ idx \in Nat
    BY <1>2, <1>5, BatchAssumption DEF SendBatch, ProducerInv, ProducerTypeOK
  <2>2. \A p \in DOMAIN pipeline' : p \in 1 .. batch' /\ pipeline'[p] = Push(idx + p - 1)
    BY <2>1
  <2>3. \A i \in JobIds : i < idx => There(i)
    <3>1. Len(pipeline) <= batch /\ \A i \in JobIds : i < NextJob <=> There(i)
      BY <2>1 DEF ProducerInv, Enqueueing, There
    <3>2. NextJob = idx
      BY <1>1, <2>1, <3>1, SMT DEF NextJob
    <3> QED
      BY <3>1, <3>2
  <2>4. ASSUME NEW p \in DOMAIN pipeline', NEW i \in JobIds, i < pipeline'[p].job, ~There(i)
        PROVE  \E q \in DOMAIN pipeline' : q < p /\ pipeline'[q] = Push(i)
    <3>1. i \in Nat /\ p \in 1 .. batch' /\ pipeline'[p].job = idx + p - 1 /\ ~(i < idx)
      BY <2>2, <2>3, <2>4, CommandFacts, JobIdFacts
    <3>2. i < idx + p - 1
      BY <2>4, <3>1
    <3>3. i - idx + 1 \in 1 .. batch' /\ i - idx + 1 < p /\ idx + (i - idx + 1) - 1 = i
      BY <2>1, <3>1, <3>2, SMT
    <3>4. i - idx + 1 \in DOMAIN pipeline'
      BY <2>1, <3>3
    <3> QED
      BY <2>2, <3>3, <3>4
  <2>5. \A p \in DOMAIN pipeline' : pipeline'[p].op = "push"
    BY <2>2, CommandFacts
  <2> QED
    BY <2>1, <2>4, <2>5 DEF FirstPart
<1>6. CASE PipelineFails
  <2>1. \A i : There(i)' <=> There(i)
    BY <1>2, <1>6 DEF PipelineFails
  <2>2. PICK n \in 0 .. Len(pipeline) : pipeline' = SubSeq(pipeline, 1, n)
    BY <1>6 DEF PipelineFails
  <2>3. /\ DOMAIN pipeline' = 1 .. n /\ DOMAIN pipeline = 1 .. Len(pipeline)
        /\ \A p \in 1 .. n : pipeline'[p] = pipeline[p]
    BY <1>1, <2>2, PrefixFacts
  <2>4. Len(pipeline) \in Nat
    BY <1>1
  <2>5. /\ \A p \in DOMAIN pipeline' : p \in DOMAIN pipeline /\ pipeline'[p] = pipeline[p]
        /\ \A p \in DOMAIN pipeline', q \in DOMAIN pipeline : q < p => q \in DOMAIN pipeline'
    BY <2>2, <2>3, <2>4, SMT
  <2> QED
    BY <2>1, <2>5 DEF FirstPart
<1>7. CASE Delete \/ FlushAll
  <2>1. /\ pipeline # <<>> /\ pipeline' = Tail(pipeline) /\ Head(pipeline).op # "push"
        /\ taken' = taken
    BY <1>7 DEF Delete, FlushAll
  <2>2. /\ Head(pipeline) = pipeline[1] /\ 1 \in DOMAIN pipeline
        /\ \A p \in DOMAIN pipeline' : p + 1 \in DOMAIN pipeline /\ pipeline'[p] = pipeline[p + 1]
    BY <1>1, <2>1, TailFacts
  <2>3. /\ \A p \in DOMAIN pipeline' : pipeline'[p].op # "push"
        /\ \A i \in JobIds : ~There(i)
    BY <2>1, <2>2 DEF FirstPart
  <2>4. \A k \in Keys : lists'[k] = lists[k] \/ DOMAIN lists'[k] = {}
    <3>1. DOMAIN <<>> = {}
      BY SMT
    <3>2. CASE Delete
      <4>1. PICK key : lists' = [lists EXCEPT ![key] = <<>>]
        BY <3>2 DEF Delete
      <4> QED
        BY <1>1, <3>1, <4>1
    <3>3. CASE FlushAll
      BY <3>1, <3>3 DEF FlushAll
    <3> QED
      BY <1>7, <3>2, <3>3
  <2>5. \A i \in JobIds : ~There(i)'
    BY <2>1, <2>3, <2>4, KeyFacts DEF There, Gone, Waits
  <2> QED
    BY <2>3, <2>5 DEF FirstPart
<1>8. CASE Lpush
  <2>1. PICK K \in PolledKeys, n \in JobIds :
          /\ Head(pipeline) = Push(n) /\ K = KeyOf(n)
          /\ lists'[K][1] = Own(n) /\ 1 \in DOMAIN lists'[K]
          /\ \A p \in DOMAIN lists'[K] :
               p = 1 \/ (p - 1 \in DOMAIN lists[K] /\ lists'[K][p] = lists[K][p - 1])
          /\ \A p \in DOMAIN lists[K] : p + 1 \in DOMAIN lists'[K] /\ lists'[K][p + 1] = lists[K][p]
          /\ \A k \in Keys : k # K => lists'[k] = lists[k]
    BY <1>8, LpushAdds
  <2>2. pipeline # <<>> /\ pipeline' = Tail(pipeline) /\ taken' = taken
    BY <1>8 DEF Lpush
  <2>3. /\ 1 \in DOMAIN pipeline /\ pipeline[1] = Push(n)
        /\ \A p \in DOMAIN pipeline' :
             p \in Nat /\ p + 1 \in DOMAIN pipeline /\ pipeline'[p] = pipeline[p + 1]
        /\ \A p \in DOMAIN pipeline : p # 1 => p - 1 \in DOMAIN pipeline' /\ p \in Nat
    BY <1>1, <2>1, <2>2, TailFacts, SMT
  <2>4. \A i \in JobIds : There(i)' <=> There(i) \/ i = n
    <3>1. \A i \in JobIds : Waits(K, i)' <=> Waits(K, i) \/ i = n
      <4>1. \A i : Own(n) = Own(i) => i = n
        BY MessageFacts
      <4>2. ASSUME NEW i, Waits(K, i)'
            PROVE  Waits(K, i) \/ i = n
        BY <2>1, <4>1, <4>2 DEF Waits
      <4>3. ASSUME NEW i, Waits(K, i) \/ i = n
            PROVE  Waits(K, i)'
        BY <2>1, <4>3 DEF Waits
      <4> QED
        BY <4>2, <4>3
    <3>2. \A i \in JobIds : \A k \in Keys : k # K => (Waits(k, i)' <=> Waits(k, i))
      BY <2>1 DEF Waits
    <3>3. \A i : Gone(i)' <=> Gone(i)
      BY <2>2 DEF Gone
    <3> QED
      BY <2>1, <3>1, <3>2, <3>3, KeyFacts DEF There
  <2>5. pipeline[1].op = "push" /\ pipeline[1].job = n
    BY <2>3, CommandFacts
  <2>6. \A p \in DOMAIN pipeline : pipeline[p].op = "push"
    BY <2>3, <2>5 DEF FirstPart
  <2>7. \A i \in JobIds : i < n => There(i)
    <3>1. ~\E q \in DOMAIN pipeline : q < 1
      BY <1>1, SMT
    <3> QED
      BY <2>3, <2>5, <3>1 DEF FirstPart
  <2>8. ASSUME NEW p \in DOMAIN pipeline', NEW i \in JobIds, i < pipeline'[p].job, ~There(i)'
        PROVE  \E q \in DOMAIN pipeline' : q < p /\ pipeline'[q] = Push(i)
    <3>1. /\ p \in Nat /\ p + 1 \in DOMAIN pipeline /\ i < pipeline[p + 1].job
          /\ ~There(i) /\ i # n
      BY <2>3, <2>4, <2>8
    <3>2. PICK q \in DOMAIN pipeline : q < p + 1 /\ pipeline[q] = Push(i)
      BY <2>6, <3>1 DEF FirstPart
    <3>3. q # 1
      BY <2>3, <3>1, <3>2, CommandFacts
    <3>4. q - 1 \in DOMAIN pipeline' /\ q \in Nat
      BY <2>3, <3>3
    <3>5. q - 1 < p /\ (q - 1) + 1 = q
      BY <3>1, <3>2, <3>4, SMT
    <3> QED
      BY <2>3, <3>2, <3>4, <3>5
  <2>9. \A i, j \in JobIds : i < j /\ There(j)' => There(i)'
    BY <2>4, <2>7 DEF FirstPart
  <2>10. \A p \in DOMAIN pipeline' : pipeline'[p].op = "push"
    BY <2>3, <2>6
  <2> QED
    BY <2>8, <2>9, <2>10 DEF FirstPart
<1>9. CASE Serve
  <2>1. PICK to \in {"worker", "orphan"} : Pop(to) /\ pipeline' = pipeline
    BY <1>9 DEF Serve, ServeWorker, ServeOrphan
  <2>2. \A i \in JobIds : There(i)' <=> There(i)
    BY <2>1, ThereAfterPop
  <2> QED
    BY <2>1, <2>2 DEF FirstPart
<1> QED
  BY <1>4, <1>5, <1>6, <1>7, <1>8, <1>9 DEF Next, Produce, Execute, Finished

(* No job is pushed twice, and none before an earlier one, wherever a pipeline
   breaks; when the trial starts every job is in exactly one place: once in the
   list of its key, or taken once (producer.rs:59-91). *)
THEOREM EachJobOnceCorrect == Spec => []EachJobOnce
<1>1. ProducerInv /\ FirstPart => EachJobOnce
  <2> SUFFICES ASSUME ProducerInv, FirstPart PROVE EachJobOnce
    OBVIOUS
  <2>1. \A i \in JobIds : Copies(i) = IF There(i) THEN 1 ELSE 0
    BY CopiesOfAJob
  <2>2. ASSUME stage = "ready", NEW i \in JobIds
        PROVE  There(i)
    <3>1. /\ idx + remaining = Jobs /\ batch <= remaining /\ Len(pipeline) <= batch
          /\ batch = 0 /\ remaining = 0
          /\ idx \in 0 .. Jobs /\ Len(pipeline) \in Nat
          /\ \A j \in JobIds : j < NextJob <=> There(j)
      BY <2>2 DEF ProducerInv, Enqueueing, ProducerTypeOK, There
    <3>2. NextJob = Jobs
      BY <3>1, JobsAssumption, SMT DEF NextJob
    <3> QED
      BY <3>1, <3>2, JobIdFacts
  <2>3. \A i, j \in JobIds : i < j /\ There(j) => There(i)
    BY DEF FirstPart
  <2> QED
    BY <2>1, <2>2, <2>3, SMT DEF EachJobOnce, JobIds
<1>2. Init => FirstPart
  <2> SUFFICES ASSUME Init PROVE FirstPart
    OBVIOUS
  <2>1. ProducerInv /\ stage = "clear"
    BY InvInitially DEF Init
  <2>2. /\ \A p \in DOMAIN pipeline : pipeline[p].op # "push"
        /\ \A i \in JobIds : ~There(i)
    BY <2>1, KeyFacts DEF ProducerInv, Clearing, There
  <2> QED
    BY <2>2 DEF FirstPart
<1> QED
  BY <1>1, <1>2, FirstPartStep, InvAlways, PTL DEF Spec

-----------------------------------------------------------------------------
(* No job is out of the workers' reach: the part of AllJobsTaken that needs no
   fairness. *)

\* A BRPOP that is sent now is served at once.
HasWork ==
  \E x \in DOMAIN BrpopKeys :
    /\ lists[BrpopKeys[x]] # <<>>
    /\ \A y \in 1 .. x - 1 : lists[BrpopKeys[y]] = <<>>

\* Once the trial runs, no worker is sent away while there is a job left.
NoJobIsStranded == stage = "ready" => HasWork \/ \A i \in JobIds : Gone(i)

\* There is a first key with a message if there is any.
LEMMA FirstKey ==
  ASSUME NEW x \in DOMAIN BrpopKeys, lists[BrpopKeys[x]] # <<>>
  PROVE  HasWork
<1> DEFINE full == {y \in DOMAIN BrpopKeys : lists[BrpopKeys[y]] # <<>>}
<1>1. DOMAIN BrpopKeys \subseteq Nat \ {0} /\ \A y \in DOMAIN BrpopKeys :
        \A z \in 1 .. y - 1 : z \in DOMAIN BrpopKeys
  <2>1. PICK n \in Nat : DOMAIN BrpopKeys = 1 .. n
    BY BrpopKeysIsSeq
  <2> QED
    BY <2>1, SMT
<1>2. full \in SUBSET Nat /\ full # {}
  BY <1>1
<1>3. PICK y \in full : \A z \in full : y <= z
  BY <1>2, LeastNumber
<1>4. ASSUME NEW z \in 1 .. y - 1
      PROVE  lists[BrpopKeys[z]] = <<>>
  <2>1. y \in Nat /\ ~(y <= z) /\ z \in DOMAIN BrpopKeys
    BY <1>1, <1>3, SMT
  <2> QED
    BY <1>3, <2>1
<1> QED
  BY <1>3, <1>4 DEF HasWork

(* While the trial runs, a BRPOP finds a message for as long as one job has been
   taken by nobody: producer and worker name the same keys (job.rs:25-66,
   producer.rs:46-48), for every number of queues and list of priorities. *)
THEOREM NoJobIsStrandedCorrect == Spec => []NoJobIsStranded
<1>1. ProducerInv => NoJobIsStranded
  <2> SUFFICES ASSUME ProducerInv, stage = "ready", NEW i \in JobIds, ~Gone(i)
               PROVE  HasWork
    BY DEF NoJobIsStranded
  <2>1. /\ idx + remaining = Jobs /\ Len(pipeline) <= batch
        /\ batch = 0 /\ remaining = 0
        /\ idx \in 0 .. Jobs /\ Len(pipeline) \in Nat
        /\ \A j \in JobIds : j < NextJob <=> Gone(j) \/ Waits(KeyOf(j), j)
    BY DEF ProducerInv, Enqueueing, ProducerTypeOK
  <2>2. NextJob = Jobs
    BY <2>1, JobsAssumption, SMT DEF NextJob
  <2>3. Waits(KeyOf(i), i)
    BY <2>1, <2>2, JobIdFacts
  <2>4. PICK p : p \in DOMAIN lists[KeyOf(i)]
    BY <2>3 DEF Waits
  <2>5. lists[KeyOf(i)] # <<>>
    BY <2>4, SMT
  <2>6. PICK x \in DOMAIN BrpopKeys : BrpopKeys[x] = KeyOf(i)
    BY KeyFacts DEF PolledKeys
  <2> QED
    BY <2>5, <2>6, FirstKey
<1> QED
  BY <1>1, InvAlways, PTL
=============================================================================
