------------------------- MODULE LatencyRangeProofs -------------------------
(***************************************************************************)
(* What is measured, and what is lost, is right for every number of jobs,  *)
(* every timeout and every way in which the wall clock is set.             *)
(***************************************************************************)
EXTENDS LatencyRange, ArithmeticProofs

(* A stamp is a reading of a wall clock that was never outside the offsets. *)
StampedByTheClock ==
  \A p \in DOMAIN stamps :
    /\ stamps[p].at <= now
    /\ stamps[p].wall - stamps[p].at \in offsets.low .. offsets.high

(* A measured wait is over, and a lost latency was refused. *)
LostWasRefused == \A job \in lost : ~Recordable(job.latency)

LatencyInv ==
  /\ LatencyTypeOK
  /\ StampedByTheClock
  /\ MeasuredWithinDrift
  /\ LostWasRefused

-----------------------------------------------------------------------------

(* The elements of a sequence are in the set it is over. *)
LEMMA ElementsInSet ==
  ASSUME NEW S, NEW seq \in Seq(S), NEW p \in DOMAIN seq
  PROVE  seq[p] \in S
<1> DOMAIN seq = 1 .. Len(seq) /\ Len(seq) \in Nat
  OBVIOUS
<1> QED
  OBVIOUS

(* Both readings of a stamp are numbers. *)
LEMMA StampsInSet ==
  ASSUME LatencyTypeOK, NEW p \in DOMAIN stamps
  PROVE  stamps[p].at \in Nat /\ stamps[p].wall \in Nat
<1> stamps \in Seq([wall : Nat, at : Nat])
  BY DEF LatencyTypeOK
<1> stamps[p] \in [wall : Nat, at : Nat]
  BY ElementsInSet
<1> QED
  OBVIOUS

(* The tail of a sequence holds nothing that the sequence does not. *)
LEMMA TailElements ==
  ASSUME NEW S, NEW seq \in Seq(S), seq # <<>>
  PROVE  /\ Head(seq) \in S /\ Head(seq) = seq[1] /\ 1 \in DOMAIN seq
         /\ Tail(seq) \in Seq(S)
         /\ \A p \in DOMAIN Tail(seq) : p + 1 \in DOMAIN seq /\ Tail(seq)[p] = seq[p + 1]
  OBVIOUS

(* An appended element is the only new one. *)
LEMMA AppendedElements ==
  ASSUME NEW S, NEW seq \in Seq(S), NEW e \in S
  PROVE  \A p \in DOMAIN Append(seq, e) :
           (p \in DOMAIN seq /\ Append(seq, e)[p] = seq[p]) \/ Append(seq, e)[p] = e
  OBVIOUS

(* A stamp that was read off the clock is measured to within the drift. *)
LEMMA LatencyWithinDrift ==
  ASSUME LatencyTypeOK,
         NEW stamp \in [wall : Nat, at : Nat],
         stamp.at <= now,
         stamp.wall - stamp.at \in offsets.low .. offsets.high
  PROVE  /\ Latency(stamp.wall) \in Nat \ {0}
         /\ now - stamp.at \in Nat
         /\ now - stamp.at <= Latency(stamp.wall) + Drift
         /\ \/ Latency(stamp.wall) = 1
            \/ Latency(stamp.wall) <= (now - stamp.at) + Drift
<1> /\ now \in Nat /\ MaxOffset \in Nat
    /\ offsets.low \in 0 .. MaxOffset /\ offsets.high \in 0 .. MaxOffset
    /\ offset \in offsets.low .. offsets.high
  BY TimesAssumption DEF LatencyTypeOK
<1> stamp.wall \in Nat /\ stamp.at \in Nat
  OBVIOUS
<1> QED
  BY DEF Latency, Wall, Drift

(* The offsets only ever spread. *)
LEMMA OffsetsSpread ==
  ASSUME LatencyTypeOK, SetClock
  PROVE  /\ offsets'.low \in 0 .. MaxOffset /\ offsets'.high \in 0 .. MaxOffset
         /\ offsets' \in [low : 0 .. MaxOffset, high : 0 .. MaxOffset]
         /\ offsets'.low <= offsets.low /\ offsets.high <= offsets'.high
         /\ offset' \in offsets'.low .. offsets'.high
         /\ Drift \in Nat /\ Drift' \in Nat /\ Drift <= Drift'
<1> /\ MaxOffset \in Nat
    /\ offsets.low \in 0 .. MaxOffset /\ offsets.high \in 0 .. MaxOffset
    /\ offset' \in 0 .. MaxOffset
    /\ offsets.low <= offsets.high
  BY TimesAssumption DEF LatencyTypeOK, SetClock
<1> QED
  BY DEF SetClock, Drift

-----------------------------------------------------------------------------

LEMMA LatencyInitially == Init => LatencyInv
<1> SUFFICES ASSUME Init PROVE LatencyInv
  OBVIOUS
<1> USE TimesAssumption DEF Init
<1>1. LatencyTypeOK
  BY DEF LatencyTypeOK
<1>2. StampedByTheClock
  BY DEF StampedByTheClock
<1>3. MeasuredWithinDrift /\ LostWasRefused
  BY DEF MeasuredWithinDrift, LostWasRefused
<1> QED
  BY <1>1, <1>2, <1>3 DEF LatencyInv

LEMMA LatencyInductive == LatencyInv /\ [Next]_vars => LatencyInv'
<1> SUFFICES ASSUME LatencyInv, [Next]_vars PROVE LatencyInv'
  OBVIOUS
<1> USE TimesAssumption DEF clockVars
<1> LatencyTypeOK /\ StampedByTheClock /\ MeasuredWithinDrift /\ LostWasRefused
  BY DEF LatencyInv
<1>1. CASE TimePasses
  <2>1. LatencyTypeOK'
    <3>1. now' \in Nat
      BY <1>1 DEF TimePasses, LatencyTypeOK
    <3>2. UNCHANGED <<offset, offsets, stage, stamps, enqueued, deadline, recorded, lost>>
      BY <1>1 DEF TimePasses
    <3> QED
      BY <3>1, <3>2 DEF LatencyTypeOK
  <2>2. StampedByTheClock'
    <3> now \in Nat /\ \A p \in DOMAIN stamps : stamps[p].at \in Nat
      BY StampsInSet DEF LatencyTypeOK
    <3> QED
      BY <1>1 DEF TimePasses, StampedByTheClock
  <2>3. MeasuredWithinDrift' /\ LostWasRefused'
    BY <1>1 DEF TimePasses, MeasuredWithinDrift, LostWasRefused, Drift, Recordable
  <2> QED
    BY <2>1, <2>2, <2>3 DEF LatencyInv
<1>2. CASE SetClock
  <2>1. LatencyTypeOK'
    BY <1>2, OffsetsSpread DEF SetClock, LatencyTypeOK
  <2>2. StampedByTheClock'
    <3> \A p \in DOMAIN stamps : stamps[p].at \in Nat /\ stamps[p].wall \in Nat
      BY StampsInSet
    <3> /\ offsets.low \in Nat /\ offsets.high \in Nat
        /\ offsets'.low \in Nat /\ offsets'.high \in Nat
      BY <1>2, OffsetsSpread DEF LatencyTypeOK
    <3> QED
      BY <1>2, OffsetsSpread DEF SetClock, StampedByTheClock
  <2>3. MeasuredWithinDrift'
    <3> SUFFICES ASSUME NEW job \in recorded \union lost
                 PROVE  /\ job.waited <= job.latency + Drift'
                        /\ job.latency = 1 \/ job.latency <= job.waited + Drift'
      BY <1>2 DEF SetClock, MeasuredWithinDrift
    <3> job.latency \in Nat /\ job.waited \in Nat
      BY DEF LatencyTypeOK
    <3> /\ job.waited <= job.latency + Drift
        /\ job.latency = 1 \/ job.latency <= job.waited + Drift
      BY DEF MeasuredWithinDrift
    <3> Drift \in Nat /\ Drift' \in Nat /\ Drift <= Drift'
      BY <1>2, OffsetsSpread
    <3> QED
      OBVIOUS
  <2>4. LostWasRefused'
    BY <1>2 DEF SetClock, LostWasRefused, Recordable
  <2> QED
    BY <2>1, <2>2, <2>3, <2>4 DEF LatencyInv
<1>3. CASE Enqueue
  <2> DEFINE stamp == [wall |-> Wall, at |-> now]
  <2>1. stamp \in [wall : Nat, at : Nat] /\ stamps \in Seq([wall : Nat, at : Nat])
    BY DEF LatencyTypeOK, Wall
  <2>2. LatencyTypeOK'
    <3>1. enqueued' \in Nat
      BY <1>3 DEF Enqueue, LatencyTypeOK
    <3>2. stamps' \in Seq([wall : Nat, at : Nat])
      BY <1>3, <2>1 DEF Enqueue
    <3>3. UNCHANGED <<now, deadline, offset, offsets, stage, recorded, lost>>
      BY <1>3 DEF Enqueue
    <3> QED
      BY <3>1, <3>2, <3>3 DEF LatencyTypeOK
  <2>3. StampedByTheClock'
    <3>1. stamp.at <= now /\ stamp.wall - stamp.at \in offsets.low .. offsets.high
      BY DEF Wall, LatencyTypeOK
    <3>2. stamps' = Append(stamps, stamp)
      BY <1>3 DEF Enqueue
    <3> HIDE DEF stamp
    <3>3. \A p \in DOMAIN Append(stamps, stamp) :
            \/ p \in DOMAIN stamps /\ Append(stamps, stamp)[p] = stamps[p]
            \/ Append(stamps, stamp)[p] = stamp
      BY <2>1, AppendedElements, Zenon
    <3>4. UNCHANGED <<now, offsets>>
      BY <1>3 DEF Enqueue
    <3> QED
      BY <3>1, <3>2, <3>3, <3>4 DEF StampedByTheClock
  <2>4. MeasuredWithinDrift' /\ LostWasRefused'
    BY <1>3 DEF Enqueue, MeasuredWithinDrift, LostWasRefused, Drift, Recordable
  <2> QED
    BY <2>2, <2>3, <2>4 DEF LatencyInv
<1>4. CASE Dequeue
  <2> DEFINE first == Head(stamps)
             job == [latency |-> Latency(first.wall), waited |-> now - first.at]
  <2>1. /\ stamps \in Seq([wall : Nat, at : Nat]) /\ stamps # <<>>
        /\ stamps' = Tail(stamps)
        /\ UNCHANGED <<now, offset, offsets, stage, enqueued, deadline>>
    BY <1>4 DEF Dequeue, LatencyTypeOK
  <2>2. /\ first \in [wall : Nat, at : Nat] /\ first = stamps[1] /\ 1 \in DOMAIN stamps
        /\ stamps' \in Seq([wall : Nat, at : Nat])
        /\ \A p \in DOMAIN stamps' : p + 1 \in DOMAIN stamps /\ stamps'[p] = stamps[p + 1]
    BY <2>1, TailElements
  <2>3. first.at <= now /\ first.wall - first.at \in offsets.low .. offsets.high
    BY <2>2 DEF StampedByTheClock
  <2>4. /\ job \in [latency : Nat \ {0}, waited : Nat]
        /\ job.waited <= job.latency + Drift
        /\ job.latency = 1 \/ job.latency <= job.waited + Drift
    BY <2>2, <2>3, LatencyWithinDrift
  <2>5. \/ recorded' = recorded \union {job} /\ lost' = lost
        \/ lost' = lost \union {job} /\ recorded' = recorded /\ ~Recordable(job.latency)
    BY <1>4 DEF Dequeue
  <2> HIDE DEF first, job
  <2>6. LatencyTypeOK'
    BY <2>1, <2>2, <2>4, <2>5 DEF LatencyTypeOK
  <2>7. StampedByTheClock'
    BY <2>1, <2>2 DEF StampedByTheClock
  <2>8. MeasuredWithinDrift'
    BY <2>1, <2>4, <2>5 DEF MeasuredWithinDrift, Drift
  <2>9. LostWasRefused'
    BY <2>5 DEF LostWasRefused, Recordable
  <2> QED
    BY <2>6, <2>7, <2>8, <2>9 DEF LatencyInv
<1>5. CASE StartTrial \/ StartTimer \/ StopTrial \/ Return \/ UNCHANGED vars
  <2>1. UNCHANGED <<now, offset, offsets, stamps, enqueued, recorded, lost>>
    BY <1>5 DEF StartTrial, StartTimer, StopTrial, Return, vars
  <2>2. stage' \in {"enqueue", "connect", "wait", "drain", "returned"} /\ deadline' \in Nat
    <3>1. /\ {now, deadline, Timeout, Drain} \subseteq Nat
          /\ stage \in {"enqueue", "connect", "wait", "drain", "returned"}
      BY DEF LatencyTypeOK
    <3>2. now + Timeout \in Nat /\ now + Drain \in Nat
      BY <3>1
    <3> QED
      BY <1>5, <3>1, <3>2 DEF StartTrial, StartTimer, StopTrial, Return, vars
  <2>3. LatencyTypeOK'
    BY <2>1, <2>2 DEF LatencyTypeOK
  <2>4. StampedByTheClock' /\ MeasuredWithinDrift' /\ LostWasRefused'
    BY <2>1 DEF StampedByTheClock, MeasuredWithinDrift, LostWasRefused, Drift, Recordable
  <2> QED
    BY <2>3, <2>4 DEF LatencyInv
<1> QED
  BY <1>1, <1>2, <1>3, <1>4, <1>5 DEF Next, Terminated

(* Types, true stamps, and what is measured and lost, along every behaviour. *)
THEOREM LatencyInvariant == Spec => []LatencyInv
  BY LatencyInitially, LatencyInductive, PTL DEF Spec

(* Type correctness; no latency is ever 0, which a histogram cannot hold. *)
THEOREM LatencyTypeCorrect == Spec => []LatencyTypeOK
<1>1. LatencyInv => LatencyTypeOK
  BY DEF LatencyInv
<1> QED
  BY <1>1, LatencyInvariant, PTL

(* A latency differs from what its job waited by no more than the wall clock
   was moved, however often it was set in between. *)
THEOREM MeasuredWithinDriftCorrect == Spec => []MeasuredWithinDrift
<1>1. LatencyInv => MeasuredWithinDrift
  BY DEF LatencyInv
<1> QED
  BY <1>1, LatencyInvariant, PTL

LEMMA BoundIsNumber == Bound \in Nat \ {0}
BY TimesAssumption DEF Bound

(* However large the timeout and however small the histogram begins, doubling
   it gets past its bound. *)
LEMMA RangeCoversBound == HistogramRange \in Nat /\ HistogramRange > Bound
<1> DEFINE Covers(k) == SubBuckets * Pow(2, k) > Bound
           K == {k \in 0 .. Bound : Covers(k)}
           First(k) == Covers(k) /\ \A j \in 0 .. k - 1 : ~Covers(j)
           c == CHOOSE k \in 0 .. Bound : First(k)
<1>0. SubBuckets \in Nat \ {0} /\ Bound \in Nat
  BY BoundIsNumber, TimesAssumption
<1>1. \A k \in Nat : Pow(2, k) \in Nat /\ Pow(2, k) > k
  BY PowLaws, PowExceeds
<1>2. \A v \in Nat : SubBuckets * v \in Nat /\ SubBuckets * v >= v
  BY <1>0
<1>3. Bound \in K
  BY <1>0, <1>1, <1>2
<1>4. PICK k \in K : \A j \in K : k <= j
  <2>1. K \in SUBSET Nat /\ K # {}
    BY <1>0, <1>3
  <2> HIDE DEF K
  <2> QED BY <2>1, LeastNumber
<1>5. k \in 0 .. Bound /\ First(k)
  BY <1>0, <1>4
<1>6. c \in 0 .. Bound /\ First(c)
  <2> HIDE DEF First
  <2> QED BY <1>5
<1>7. HistogramRange = SubBuckets * Pow(2, c)
  BY DEF HistogramRange
<1> HIDE DEF c
<1>8. c \in Nat /\ Covers(c)
  BY <1>0, <1>6
<1> QED
  <2>1. Pow(2, c) \in Nat
    BY <1>1, <1>8
  <2> QED
    BY <1>2, <1>7, <1>8, <2>1

(* Only jobs that were late, but for the drift of the clock, are lost: the range
   of the histogram follows the timeout up to its ceiling. *)
THEOREM OnlyLateJobsLostCorrect == Spec => []OnlyLateJobsLost
<1>1. LatencyInv => OnlyLateJobsLost
  <2> SUFFICES ASSUME LatencyInv, NEW job \in lost
               PROVE  job.waited + Drift > Timeout \/ job.waited + Drift > MaxHistMax
    BY DEF OnlyLateJobsLost
  <2>1. job.latency \in Nat \ {0} /\ job.waited \in Nat /\ Drift \in Nat
    BY DEF LatencyInv, LatencyTypeOK, Drift
  <2>2. job.latency = 1 \/ job.latency <= job.waited + Drift
    BY DEF LatencyInv, MeasuredWithinDrift
  <2>3. /\ HistogramRange \in Nat /\ HistogramRange > Bound
        /\ job.latency >= HistogramRange
    BY <2>1, RangeCoversBound DEF LatencyInv, LostWasRefused, Recordable
  <2>4. {Timeout, MinHistMax, MaxHistMax} \subseteq Nat \ {0} /\ MinHistMax <= MaxHistMax
    BY TimesAssumption
  <2>5. job.latency > Timeout \/ job.latency > MaxHistMax
    BY <2>1, <2>3, <2>4 DEF Bound
  <2> QED
    BY <2>1, <2>2, <2>4, <2>5
<1> QED
  BY <1>1, LatencyInvariant, PTL
=============================================================================
