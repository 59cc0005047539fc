-------------------------- MODULE LoadWorkerProofs --------------------------
(***************************************************************************)
(* What holds of a LoadWorker pool of any finite size, for any target and  *)
(* any number of foreign messages, faults and BRPOPs of earlier trials.    *)
(***************************************************************************)
EXTENDS LoadWorker, FiniteSetTheorems, TLAPS

(* What others do to the keys leaves the trial's own state alone. *)
LEMMA OthersKeep ==
  OthersStep => UNCHANGED <<task, conn, completed, errors, samples, done, shutdown,
                            aborted, faults>>
BY DEF OthersStep, ForeignPush, Steal, OrphanCloses

LEMMA OrphanStep ==
  ASSUME orphans \in Orphans, orphans.waiting > 0
  PROVE  /\ [waiting |-> orphans.waiting - 1, served |-> orphans.served + 1] \in Orphans
         /\ [orphans EXCEPT !.waiting = @ - 1] \in Orphans
<1>1. /\ orphans.waiting \in 1 .. MaxOrphans /\ orphans.served \in 0 .. MaxOrphans
      /\ orphans.waiting + orphans.served <= MaxOrphans
      /\ orphans = [waiting |-> orphans.waiting, served |-> orphans.served]
  BY BoundsAssumption DEF Orphans
<1>2. /\ orphans.waiting - 1 \in 0 .. MaxOrphans /\ orphans.served + 1 \in 0 .. MaxOrphans
      /\ (orphans.waiting - 1) + (orphans.served + 1) <= MaxOrphans
      /\ (orphans.waiting - 1) + orphans.served <= MaxOrphans
  BY <1>1, BoundsAssumption
<1>3. [orphans EXCEPT !.waiting = @ - 1]
        = [waiting |-> orphans.waiting - 1, served |-> orphans.served]
  BY <1>1
<1> QED
  BY <1>1, <1>2, <1>3 DEF Orphans

(* The pool's variables always have the types TypeOK states. *)
THEOREM TypeCorrect == PoolSpec => []TypeOK
<1> USE TargetAssumption, LatenciesAssumption, BoundsAssumption
    DEF TypeOK, TaskStates, Ended, Dead, ConnStates, Kinds
<1>1. PoolInit => TypeOK
  <2> SUFFICES ASSUME PoolInit
               PROVE  TypeOK
    OBVIOUS
  <2>1. queue \in [Kinds -> Nat]
    <3>1. TargetJobs - orphans.served \in Nat
      BY DEF PoolInit, Orphans
    <3> QED
      BY <3>1 DEF PoolInit
  <2>2. samples \in Seq(Latencies)
    BY DEF PoolInit
  <2>3. task \in [Workers -> TaskStates] /\ conn \in [Workers -> ConnStates]
    BY DEF PoolInit
  <2>4. foreign \in 0 .. MaxForeign /\ faults \in 0 .. MaxFaults
    BY DEF PoolInit
  <2> QED
    BY <2>1, <2>2, <2>3, <2>4 DEF PoolInit
<1>2. TypeOK /\ [PoolNext]_poolVars => TypeOK'
  <2> SUFFICES ASSUME TypeOK, [PoolNext]_poolVars
               PROVE  TypeOK'
    OBVIOUS
  <2>1. ASSUME NEW w \in Workers, TaskStep(w)
        PROVE  TypeOK'
    <3>1. CASE Return(w)
      BY <3>1 DEF Return, Goto
    <3>2. CASE IssueBrpop(w)
      BY <3>2 DEF IssueBrpop, Goto, SetConn
    <3>3. CASE Wake(w)
      BY <3>3 DEF Wake, Goto
    <3>4. ASSUME NEW us \in Latencies, HandleTask(w, us)
          PROVE  TypeOK'
      BY <3>4 DEF HandleTask, Goto, SetConn
    <3>5. CASE HandleForeign(w)
      BY <3>5 DEF HandleForeign, Goto, SetConn
    <3>6. CASE Count(w)
      BY <3>6 DEF Count, Goto
    <3>7. CASE Signal(w)
      BY <3>7 DEF Signal, Goto
    <3>8. CASE Cancel(w)
      BY <3>8 DEF Cancel, Goto
    <3> QED
      BY <2>1, <3>1, <3>2, <3>3, <3>4, <3>5, <3>6, <3>7, <3>8 DEF TaskStep
  <2>2. ASSUME NEW w \in Workers, BrokerStep(w)
        PROVE  TypeOK'
    <3>1. ASSUME NEW k \in Kinds, ServeBrpop(w, k)
          PROVE  TypeOK'
      BY <3>1 DEF ServeBrpop, SetConn
    <3>2. CASE BrpopTimeout(w)
      BY <3>2 DEF BrpopTimeout, Goto, SetConn
    <3> QED
      BY <2>2, <3>1, <3>2 DEF BrokerStep
  <2>3. ASSUME NEW w \in Workers, FaultStep(w)
        PROVE  TypeOK'
    <3>1. CASE TransientError(w)
      BY <3>1 DEF TransientError, Goto, SetConn
    <3>2. CASE IoError(w)
      BY <3>2 DEF IoError, Goto
    <3>3. CASE Disconnect(w)
      BY <3>3 DEF Disconnect, SetConn
    <3> QED
      BY <2>3, <3>1, <3>2, <3>3 DEF FaultStep
  <2>4. CASE OthersStep
    <3>1. CASE ForeignPush
      BY <3>1 DEF ForeignPush
    <3>2. ASSUME NEW k \in Kinds, Steal(k)
          PROVE  TypeOK'
      <4>1. queue' \in [Kinds -> Nat]
        BY <3>2 DEF Steal
      <4>2. orphans' \in Orphans
        BY <3>2, OrphanStep DEF Steal
      <4> QED
        BY <3>2, <4>1, <4>2 DEF Steal
    <3>3. CASE OrphanCloses
      <4>1. orphans' \in Orphans
        BY <3>3, OrphanStep DEF OrphanCloses
      <4> QED
        BY <3>3, <4>1 DEF OrphanCloses
    <3> QED
      BY <2>4, <3>1, <3>2, <3>3 DEF OthersStep
  <2>5. CASE Environment
    <3>1. ASSUME NEW w \in Workers, Spawn(w)
          PROVE  TypeOK'
      BY <3>1 DEF Spawn, Goto
    <3>2. CASE SetShutdown
      BY <3>2 DEF SetShutdown
    <3>3. CASE AbortAll
      BY <3>3 DEF AbortAll
    <3>4. CASE ReceiveSample
      BY <3>4 DEF ReceiveSample
    <3> QED
      BY <2>5, <3>1, <3>2, <3>3, <3>4 DEF Environment
  <2>6. CASE UNCHANGED poolVars
    BY <2>6 DEF poolVars
  <2>7. CASE PoolStep
    BY <2>1, <2>2, <2>3, <2>4, <2>7 DEF PoolStep
  <2> QED
    BY <2>5, <2>6, <2>7 DEF PoolNext
<1> QED
  BY <1>1, <1>2, PTL DEF PoolSpec
-----------------------------------------------------------------------------
(* The target is announced truthfully and is not lost. *)

SignalInv ==
  /\ DoneIsTruthful
  /\ DoneIsNotLost
  /\ \A w \in Workers : task[w] = "signal" => completed >= TargetJobs

(* SignalInv is inductive: a worker reaches "signal" only by counting the job
   that reaches the target, and completed never decreases. *)
LEMMA SignalStep ==
  ASSUME TypeOK, SignalInv, [PoolNext]_poolVars
  PROVE  SignalInv'
<1> USE TargetAssumption
    DEF TypeOK, SignalInv, DoneIsTruthful, DoneIsNotLost, Goto
<1>1. ASSUME NEW w \in Workers, TaskStep(w)
      PROVE  SignalInv'
  <2>1. CASE Count(w)
    BY <2>1 DEF Count
  <2>2. CASE Signal(w)
    BY <2>2 DEF Signal
  <2>3. CASE Return(w) \/ IssueBrpop(w) \/ Wake(w) \/ Cancel(w)
    BY <2>3 DEF Return, IssueBrpop, Wake, Cancel
  <2>4. CASE HandleForeign(w) \/ \E us \in Latencies : HandleTask(w, us)
    BY <2>4 DEF HandleForeign, HandleTask
  <2> QED
    BY <1>1, <2>1, <2>2, <2>3, <2>4 DEF TaskStep
<1>2. ASSUME NEW w \in Workers, BrokerStep(w) \/ FaultStep(w)
      PROVE  SignalInv'
  BY <1>2 DEF BrokerStep, ServeBrpop, BrpopTimeout, FaultStep, TransientError,
    IoError, Disconnect
<1>3. CASE OthersStep
  BY <1>3, OthersKeep
<1>4. CASE Environment
  BY <1>4 DEF Environment, Spawn, SetShutdown, AbortAll, ReceiveSample
<1>5. CASE UNCHANGED poolVars
  BY <1>5 DEF poolVars
<1> QED
  BY <1>1, <1>2, <1>3, <1>4, <1>5 DEF PoolNext, PoolStep

LEMMA SignalCorrect == PoolSpec => []SignalInv
<1>1. PoolInit => SignalInv
  BY TargetAssumption
    DEF PoolInit, SignalInv, DoneIsTruthful, DoneIsNotLost
<1>2. TypeOK /\ SignalInv /\ [PoolNext]_poolVars => SignalInv'
  BY SignalStep
<1> QED
  BY <1>1, <1>2, TypeCorrect, PTL DEF PoolSpec

(* done_tx is sent only when the target is reached (worker.rs:107-110). *)
THEOREM DoneTruthful == PoolSpec => []DoneIsTruthful
<1>1. SignalInv => DoneIsTruthful
  BY DEF SignalInv
<1> QED
  BY <1>1, SignalCorrect, PTL

(* When the target is reached, done_tx was sent or a worker that cannot be
   cancelled any more is about to send it. *)
THEOREM DoneNotLost == PoolSpec => []DoneIsNotLost
<1>1. SignalInv => DoneIsNotLost
  BY DEF SignalInv
<1> QED
  BY <1>1, SignalCorrect, PTL

-----------------------------------------------------------------------------
(* Counting workers. *)

Indicator(b) == IF b THEN 1 ELSE 0

(* Sets of workers that differ in one worker only differ by at most one in
   their cardinality. *)
LEMMA CardStep ==
  ASSUME NEW w \in Workers, NEW S \in SUBSET Workers, NEW T \in SUBSET Workers,
         S \ {w} = T \ {w}
  PROVE  /\ Cardinality(S) \in Nat
         /\ Cardinality(T) \in Nat
         /\ Cardinality(T) + Indicator(w \in S) = Cardinality(S) + Indicator(w \in T)
<1>1. IsFiniteSet(S) /\ IsFiniteSet(T)
  BY WorkersAssumption, FS_Subset
<1>2. Cardinality(S) \in Nat /\ Cardinality(T) \in Nat
  BY <1>1, FS_CardinalityType
<1>3. CASE (w \in S) = (w \in T)
  <2>1. S = T
    BY <1>3
  <2> QED
    BY <1>2, <2>1 DEF Indicator
<1>4. CASE w \in S /\ w \notin T
  <2>1. T = S \ {w}
    BY <1>4
  <2>2. Cardinality(T) = Cardinality(S) - 1
    BY <1>1, <1>4, <2>1, FS_RemoveElement
  <2> QED
    BY <1>2, <1>4, <2>2 DEF Indicator
<1>5. CASE w \notin S /\ w \in T
  <2>1. S = T \ {w}
    BY <1>5
  <2>2. Cardinality(S) = Cardinality(T) - 1
    BY <1>1, <1>5, <2>1, FS_RemoveElement
  <2> QED
    BY <1>2, <1>5, <2>2 DEF Indicator
<1> QED
  BY <1>3, <1>4, <1>5

-----------------------------------------------------------------------------
(* The pool does not run far past its target. *)

OvershootInv ==
  completed + Cardinality(Committed) < TargetJobs + Cardinality(Workers)

(* OvershootInv is inductive: counting moves a worker from Committed to
   completed, and when a worker joins Committed completed is below the target
   and Committed has room for no more than all workers. *)
LEMMA OvershootStep ==
  ASSUME TypeOK, OvershootInv, [PoolNext]_poolVars
  PROVE  OvershootInv'
<1> USE DEF TypeOK, OvershootInv
<1>0. /\ Cardinality(Workers) \in Nat
      /\ IsFiniteSet(Committed)
      /\ Cardinality(Committed) \in Nat
  BY WorkersAssumption, FS_CardinalityType, FS_Subset DEF Committed
<1>1. ASSUME Committed' \subseteq Committed, completed' = completed
      PROVE  OvershootInv'
  <2>1. /\ Cardinality(Committed') \in Nat
        /\ Cardinality(Committed') <= Cardinality(Committed)
    BY <1>0, <1>1, FS_Subset, FS_CardinalityType
  <2> QED
    BY <1>0, <1>1, <2>1, TargetAssumption
<1>2. ASSUME NEW w \in Workers, Count(w)
      PROVE  OvershootInv'
  <2>1. /\ completed' = completed + 1
        /\ w \in Committed
        /\ w \notin Committed'
        /\ Committed \ {w} = Committed' \ {w}
    BY <1>2 DEF Count, Goto, Committed
  <2>2. /\ Cardinality(Committed') \in Nat
        /\ Cardinality(Committed') + 1 = Cardinality(Committed)
    BY <1>0, <2>1, CardStep DEF Committed, Indicator
  <2> QED
    BY <1>0, <2>1, <2>2, TargetAssumption
<1>3. ASSUME NEW w \in Workers, IssueBrpop(w)
      PROVE  OvershootInv'
  <2>1. completed' = completed /\ completed < TargetJobs
    BY <1>3, TargetAssumption DEF IssueBrpop, MustStop
  <2>2. /\ Cardinality(Committed') \in Nat
        /\ Cardinality(Committed') <= Cardinality(Workers)
    BY WorkersAssumption, FS_Subset, FS_CardinalityType DEF Committed
  <2> QED
    BY <1>0, <2>1, <2>2, TargetAssumption
<1>4. ASSUME NEW w \in Workers,
             \/ Return(w) \/ Wake(w) \/ Signal(w) \/ Cancel(w) \/ HandleForeign(w)
             \/ \E us \in Latencies : HandleTask(w, us)
             \/ BrokerStep(w) \/ FaultStep(w) \/ Spawn(w)
      PROVE  OvershootInv'
  <2>1. Committed' \subseteq Committed /\ completed' = completed
    BY <1>4 DEF Committed, Return, Wake, Signal, Cancel, HandleForeign, HandleTask,
      BrokerStep, ServeBrpop, BrpopTimeout, FaultStep, TransientError, IoError,
      Disconnect, Spawn, Goto
  <2> QED
    BY <1>1, <2>1
<1>5. CASE OthersStep \/ SetShutdown \/ AbortAll \/ ReceiveSample
           \/ UNCHANGED poolVars
  <2>1. Committed' = Committed /\ completed' = completed
    BY <1>5, OthersKeep DEF Committed, SetShutdown, AbortAll, ReceiveSample, poolVars
  <2> QED
    BY <1>1, <2>1
<1> QED
  BY <1>2, <1>3, <1>4, <1>5 DEF PoolNext, PoolStep, Environment, TaskStep

(* The number of jobs counted stays below the target plus the number of
   workers (worker.rs:50-52 and 107). *)
THEOREM OvershootBounded == PoolSpec => []Overshoot
<1>1. PoolInit => OvershootInv
  <2> SUFFICES ASSUME PoolInit
               PROVE  OvershootInv
    OBVIOUS
  <2>1. Committed = {} /\ completed = 0
    BY DEF PoolInit, Committed
  <2>2. Cardinality(Workers) \in Nat
    BY WorkersAssumption, FS_CardinalityType
  <2> QED
    BY <2>1, <2>2, FS_EmptySet, TargetAssumption DEF OvershootInv
<1>2. TypeOK /\ OvershootInv /\ [PoolNext]_poolVars => OvershootInv'
  BY OvershootStep
<1>3. TypeOK /\ OvershootInv => Overshoot
  <2>1. Cardinality(Workers) \in Nat /\ Cardinality(Committed) \in Nat
    BY WorkersAssumption, FS_CardinalityType, FS_Subset DEF Committed
  <2> QED
    BY <2>1, TargetAssumption DEF TypeOK, OvershootInv, Overshoot
<1> QED
  BY <1>1, <1>2, <1>3, TypeCorrect, PTL DEF PoolSpec

(* One step after the announcement or after shutdown: a job is counted only by a
   worker that was committed to it, and no worker commits itself any more. *)
LEMMA LateJobsStep ==
  ASSUME TypeOK, MustStop, [PoolNext]_poolVars
  PROVE  completed' + Cardinality(Committed') <= completed + Cardinality(Committed)
<1> USE DEF TypeOK
<1>1. /\ IsFiniteSet(Committed)
      /\ Cardinality(Committed) \in Nat /\ Cardinality(Committed') \in Nat
  BY WorkersAssumption, FS_CardinalityType, FS_Subset DEF Committed
<1>2. ASSUME Committed' \subseteq Committed, completed' = completed
      PROVE  completed' + Cardinality(Committed') <= completed + Cardinality(Committed)
  <2>1. Cardinality(Committed') <= Cardinality(Committed)
    BY <1>1, <1>2, FS_Subset
  <2> QED
    BY <1>1, <1>2, <2>1
<1>3. ASSUME NEW w \in Workers, Count(w)
      PROVE  completed' + Cardinality(Committed') <= completed + Cardinality(Committed)
  <2>1. /\ completed' = completed + 1
        /\ w \in Committed /\ w \notin Committed'
        /\ Committed \ {w} = Committed' \ {w}
    BY <1>3 DEF Count, Goto, Committed
  <2>2. Cardinality(Committed') + 1 = Cardinality(Committed)
    BY <1>1, <2>1, CardStep DEF Committed, Indicator
  <2> QED
    BY <1>1, <2>1, <2>2
<1>4. ASSUME NEW w \in Workers, IssueBrpop(w)
      PROVE  FALSE
  BY <1>4 DEF IssueBrpop, MustStop
<1>5. ASSUME NEW w \in Workers,
             \/ Return(w) \/ Wake(w) \/ Signal(w) \/ Cancel(w) \/ HandleForeign(w)
             \/ \E us \in Latencies : HandleTask(w, us)
             \/ BrokerStep(w) \/ FaultStep(w) \/ Spawn(w)
      PROVE  Committed' \subseteq Committed /\ completed' = completed
  BY <1>5 DEF Committed, Return, Wake, Signal, Cancel, HandleForeign, HandleTask,
    BrokerStep, ServeBrpop, BrpopTimeout, FaultStep, TransientError, IoError,
    Disconnect, Spawn, Goto
<1>6. CASE OthersStep \/ SetShutdown \/ AbortAll \/ ReceiveSample
           \/ UNCHANGED poolVars
  <2>1. Committed' = Committed /\ completed' = completed
    BY <1>6, OthersKeep DEF Committed, SetShutdown, AbortAll, ReceiveSample, poolVars
  <2> QED
    BY <1>2, <2>1
<1> QED
  BY <1>2, <1>3, <1>4, <1>5, <1>6 DEF PoolNext, PoolStep, Environment, TaskStep

(* Once the target is announced or shutdown is set a worker counts at most the
   job it was waiting for or was handling (worker.rs:47-52, 107): the
   announcement is truthful, so either way the tests at the top of the loop stop
   it from asking for another one. *)
THEOREM LateJobsCorrect == PoolSpec => LateJobsBounded
<1>1. TypeOK /\ DoneIsTruthful /\ [PoolNext]_poolVars
        => [done \/ shutdown => completed' + Cardinality(Committed')
                                  <= completed + Cardinality(Committed)]_poolVars
  <2>1. DoneIsTruthful /\ (done \/ shutdown) => MustStop
    BY DEF DoneIsTruthful, MustStop
  <2> QED
    BY <2>1, LateJobsStep
<1> QED
  BY <1>1, TypeCorrect, DoneTruthful, PTL DEF PoolSpec, LateJobsBounded

-----------------------------------------------------------------------------
(* No message is counted twice, and only dead workers lose one. *)

\* A connection is in use only while its task awaits the reply or after the
\* task has died.
ConnInv == \A w \in Workers : conn[w] # "idle" => task[w] \in {"await"} \union Dead

AccountInv == ConnInv /\ EveryJobAccountedFor

(* What one worker's step does to the two sets EveryJobAccountedFor counts. *)
LEMMA AccountDelta ==
  ASSUME NEW w \in Workers,
         \A v \in Workers \ {w} : task'[v] = task[v] /\ conn'[v] = conn[v]
  PROVE  /\ Cardinality(Holders) \in Nat /\ Cardinality(Holders') \in Nat
         /\ Cardinality(Spent) \in Nat /\ Cardinality(Spent') \in Nat
         /\ Cardinality(Holders') + Indicator(w \in Holders)
              = Cardinality(Holders) + Indicator(w \in Holders')
         /\ Cardinality(Spent') + Indicator(w \in Spent)
              = Cardinality(Spent) + Indicator(w \in Spent')
<1>1. /\ Holders \subseteq Workers /\ Holders' \subseteq Workers
      /\ Spent \subseteq Workers /\ Spent' \subseteq Workers
      /\ Holders \ {w} = Holders' \ {w}
      /\ Spent \ {w} = Spent' \ {w}
  BY DEF Holders, Spent
<1> QED
  BY <1>1, CardStep

LEMMA ConnStep ==
  ASSUME TypeOK, ConnInv, [PoolNext]_poolVars
  PROVE  ConnInv'
<1> USE DEF TypeOK, ConnInv, Goto, SetConn, Dead
<1>1. ASSUME NEW w \in Workers, TaskStep(w) \/ Spawn(w)
      PROVE  ConnInv'
  BY <1>1 DEF TaskStep, Spawn, Return, IssueBrpop, Wake, HandleTask, HandleForeign,
    Count, Signal, Cancel
<1>2. ASSUME NEW w \in Workers, BrokerStep(w) \/ FaultStep(w)
      PROVE  ConnInv'
  BY <1>2 DEF BrokerStep, ServeBrpop, BrpopTimeout, FaultStep, TransientError,
    IoError, Disconnect
<1>3. CASE OthersStep \/ SetShutdown \/ AbortAll \/ ReceiveSample
           \/ UNCHANGED poolVars
  BY <1>3, OthersKeep DEF SetShutdown, AbortAll, ReceiveSample, poolVars
<1> QED
  BY <1>1, <1>2, <1>3 DEF PoolNext, PoolStep, Environment

\* The provers find this for expressions with primes only when it is cited.
LEMMA NatSum ==
  ASSUME NEW m \in Nat, NEW n \in Nat
  PROVE  m + n \in Nat
OBVIOUS

LEMMA AccountStep ==
  ASSUME TypeOK, TypeOK', AccountInv, [PoolNext]_poolVars
  PROVE  AccountInv'
<1> USE DEF Goto, SetConn
<1>1. ConnInv'
  BY ConnStep DEF AccountInv
<1>2. ConnInv /\ EveryJobAccountedFor
  BY DEF AccountInv
<1>3. /\ Holders \subseteq Workers /\ Spent \subseteq Workers
      /\ Holders' \subseteq Workers /\ Spent' \subseteq Workers
  BY DEF Holders, Spent
<1>4. /\ Cardinality(Holders) \in Nat /\ Cardinality(Holders') \in Nat
      /\ Cardinality(Spent) \in Nat /\ Cardinality(Spent') \in Nat
  BY <1>3, WorkersAssumption, FS_Subset, FS_CardinalityType
<1>5. /\ queue["task"] \in Nat /\ queue["foreign"] \in Nat
      /\ queue["task"]' \in Nat /\ queue["foreign"]' \in Nat
      /\ completed \in Nat /\ completed' \in Nat
      /\ foreign \in Nat /\ foreign' \in Nat
  BY BoundsAssumption DEF TypeOK, Kinds
<1>6. orphans.served \in Nat /\ orphans'.served \in Nat
  BY DEF TypeOK, Orphans
<1>7. /\ Traced \in Nat /\ Traced' \in Nat
      /\ Pushed \in Nat /\ Pushed' \in Nat
  <2>1. Traced \in Nat /\ Pushed \in Nat
    BY <1>4, <1>5, <1>6, TargetAssumption DEF Traced, Pushed
  <2>2. Pushed' \in Nat
    <3>1. Pushed' = TargetJobs + foreign'
      BY DEF Pushed
    <3> QED
      BY <1>5, <3>1, TargetAssumption, NatSum
  <2>3. Traced' \in Nat
    BY <1>4, <1>5, <1>6 DEF Traced
  <2> QED
    BY <2>1, <2>2, <2>3
\* Steps that trade no more of Traced than Spent pays for.
<1>8. ASSUME Pushed' = Pushed, Traced' <= Traced,
             Traced + Cardinality(Spent) <= Traced' + Cardinality(Spent')
      PROVE  EveryJobAccountedFor'
  BY <1>2, <1>4, <1>7, <1>8 DEF EveryJobAccountedFor
<1>9. ASSUME UNCHANGED <<Holders, Spent, queue, completed, foreign, orphans>>
      PROVE  EveryJobAccountedFor'
  BY <1>2, <1>9 DEF EveryJobAccountedFor, Traced, Pushed
<1>10. ASSUME NEW w \in Workers,
             \/ Return(w) \/ IssueBrpop(w) \/ Wake(w) \/ Signal(w) \/ Spawn(w)
             \/ HandleForeign(w) \/ \E us \in Latencies : HandleTask(w, us)
             \/ BrpopTimeout(w) \/ TransientError(w)
      PROVE  EveryJobAccountedFor'
  <2>1. Holders' = Holders
    BY <1>10 DEF TypeOK, Holders, Kinds, Return, IssueBrpop, Wake, Signal, Spawn,
      HandleForeign, HandleTask, BrpopTimeout, TransientError
  <2>2. Spent' = Spent
    BY <1>10 DEF TypeOK, Spent, Dead, Return, IssueBrpop, Wake, Signal, Spawn,
      HandleForeign, HandleTask, BrpopTimeout, TransientError
  <2>3. UNCHANGED <<queue, completed, foreign, orphans>>
    BY <1>10 DEF Return, IssueBrpop, Wake, Signal, Spawn,
      HandleForeign, HandleTask, BrpopTimeout, TransientError
  <2> QED
    BY <1>9, <2>1, <2>2, <2>3
<1>11. ASSUME NEW w \in Workers, Count(w)
       PROVE  EveryJobAccountedFor'
  <2>1. /\ \A v \in Workers \ {w} : task'[v] = task[v] /\ conn'[v] = conn[v]
        /\ w \in Holders /\ w \notin Holders'
        /\ w \notin Spent /\ w \notin Spent'
    BY <1>11 DEF TypeOK, Count, Holders, Spent, Dead
  <2>2. /\ Cardinality(Holders') + 1 = Cardinality(Holders)
        /\ Cardinality(Spent') = Cardinality(Spent)
    BY <1>4, <2>1, AccountDelta DEF Indicator
  <2>3. /\ completed' = completed + 1
        /\ UNCHANGED <<queue, foreign, orphans>>
    BY <1>11 DEF Count
  <2>4. Traced' = Traced /\ Pushed' = Pushed
    BY <1>4, <1>5, <1>6, <2>2, <2>3 DEF Traced, Pushed
  <2> QED
    BY <1>4, <1>7, <1>8, <2>2, <2>4
\* A worker dies: what it may hold is lost with it.
<1>12. ASSUME NEW w \in Workers, Cancel(w) \/ IoError(w)
       PROVE  EveryJobAccountedFor'
  <2>1. /\ \A v \in Workers \ {w} : task'[v] = task[v] /\ conn'[v] = conn[v]
        /\ w \notin Holders'
        /\ w \notin Spent
        /\ w \in Holders => w \in Spent'
    BY <1>12 DEF TypeOK, Cancel, IoError, Holders, Spent, Dead, Kinds
  <2>2. /\ Cardinality(Holders') <= Cardinality(Holders)
        /\ Cardinality(Holders) + Cardinality(Spent)
             <= Cardinality(Holders') + Cardinality(Spent')
    BY <1>4, <2>1, AccountDelta DEF Indicator
  <2>3. UNCHANGED <<queue, completed, foreign, orphans>>
    BY <1>12 DEF Cancel, IoError
  <2>4. /\ Pushed' = Pushed /\ Traced' <= Traced
        /\ Traced + Cardinality(Spent) <= Traced' + Cardinality(Spent')
    BY <1>4, <1>5, <1>6, <2>2, <2>3 DEF Traced, Pushed
  <2> QED
    BY <1>8, <2>4
<1>13. ASSUME NEW w \in Workers, Disconnect(w)
       PROVE  EveryJobAccountedFor'
  <2>1. /\ \A v \in Workers \ {w} : task'[v] = task[v] /\ conn'[v] = conn[v]
        /\ w \notin Holders /\ w \notin Holders'
        /\ w \in Spent'
    BY <1>13 DEF TypeOK, Disconnect, Holders, Spent, Dead
  <2>2. /\ Cardinality(Holders') = Cardinality(Holders)
        /\ Cardinality(Spent) <= Cardinality(Spent')
    BY <1>4, <2>1, AccountDelta DEF Indicator
  <2>3. UNCHANGED <<queue, completed, foreign, orphans>>
    BY <1>13 DEF Disconnect
  <2>4. Traced' = Traced /\ Pushed' = Pushed
    BY <1>4, <1>5, <1>6, <2>2, <2>3 DEF Traced, Pushed
  <2> QED
    BY <1>4, <1>7, <1>8, <2>2, <2>4
\* A message leaves the list: a live worker holds it now, a dead one loses it.
<1>14. ASSUME NEW w \in Workers, NEW k \in Kinds, ServeBrpop(w, k)
       PROVE  EveryJobAccountedFor'
  <2>1. /\ \A v \in Workers \ {w} : task'[v] = task[v] /\ conn'[v] = conn[v]
        /\ w \notin Holders /\ w \notin Spent
        /\ (w \in Holders') # (w \in Spent')
    BY <1>2, <1>14 DEF TypeOK, ServeBrpop, Holders, Spent, Dead, Kinds, ConnInv
  <2>2. /\ Cardinality(Holders') <= Cardinality(Holders) + 1
        /\ Cardinality(Holders') + Cardinality(Spent')
             = Cardinality(Holders) + Cardinality(Spent) + 1
    BY <1>4, <2>1, AccountDelta DEF Indicator
  <2>3. queue["task"]' + queue["foreign"]' + 1 = queue["task"] + queue["foreign"]
    <3>1. CASE k = "task"
      BY <1>5, <1>14, <3>1 DEF TypeOK, ServeBrpop, Kinds
    <3>2. CASE k = "foreign"
      BY <1>5, <1>14, <3>2 DEF TypeOK, ServeBrpop, Kinds
    <3> QED
      BY <3>1, <3>2 DEF Kinds
  <2>4. UNCHANGED <<completed, foreign, orphans>>
    BY <1>14 DEF ServeBrpop
  <2>5. /\ Pushed' = Pushed /\ Traced' <= Traced
        /\ Traced + Cardinality(Spent) <= Traced' + Cardinality(Spent')
    BY <1>4, <1>5, <1>6, <2>2, <2>3, <2>4 DEF Traced, Pushed
  <2> QED
    BY <1>8, <2>5
<1>15. ASSUME ForeignPush
       PROVE  EveryJobAccountedFor'
  <2>1. /\ UNCHANGED <<Holders, Spent, completed, orphans>>
        /\ foreign' = foreign + 1
    BY <1>15 DEF ForeignPush, Holders, Spent
  <2>2. /\ queue["task"]' = queue["task"]
        /\ queue["foreign"]' = queue["foreign"] + 1
    BY <1>15 DEF TypeOK, ForeignPush, Kinds
  <2>3. Traced' = Traced + 1 /\ Pushed' = Pushed + 1
    BY <1>4, <1>5, <1>6, <2>1, <2>2, TargetAssumption DEF Traced, Pushed
  <2> QED
    BY <1>2, <1>4, <1>7, <2>1, <2>3 DEF EveryJobAccountedFor
<1>18. ASSUME SetShutdown \/ AbortAll \/ ReceiveSample \/ UNCHANGED poolVars
       PROVE  EveryJobAccountedFor'
  <2>1. UNCHANGED <<Holders, Spent, queue, completed, foreign, orphans>>
    BY <1>18 DEF SetShutdown, AbortAll, ReceiveSample, poolVars, Holders, Spent
  <2> QED
    BY <1>9, <2>1
\* A message is lost with a BRPOP of an earlier trial.
<1>16. ASSUME NEW k \in Kinds, Steal(k)
       PROVE  EveryJobAccountedFor'
  <2>1. UNCHANGED <<Holders, Spent, completed, foreign>>
    BY <1>16 DEF Steal, Holders, Spent
  <2>2. orphans'.served = orphans.served + 1
    BY <1>16 DEF Steal
  <2>3. queue["task"]' + queue["foreign"]' + 1 = queue["task"] + queue["foreign"]
    <3>1. CASE k = "task"
      BY <1>5, <1>16, <3>1 DEF TypeOK, Steal, Kinds
    <3>2. CASE k = "foreign"
      BY <1>5, <1>16, <3>2 DEF TypeOK, Steal, Kinds
    <3> QED
      BY <3>1, <3>2 DEF Kinds
  <2>4. Pushed' = Pushed /\ Traced' = Traced
    BY <1>4, <1>5, <1>6, <2>1, <2>2, <2>3 DEF Traced, Pushed
  <2> QED
    BY <1>4, <1>7, <1>8, <2>1, <2>4
<1>17. ASSUME OrphanCloses
       PROVE  EveryJobAccountedFor'
  <2>1. UNCHANGED <<Holders, Spent, queue, completed, foreign>>
    BY <1>17 DEF OrphanCloses, Holders, Spent
  <2>2. orphans'.served = orphans.served
    BY <1>17 DEF TypeOK, Orphans, OrphanCloses
  <2>3. Pushed' = Pushed /\ Traced' = Traced
    BY <2>1, <2>2 DEF Traced, Pushed
  <2> QED
    BY <1>4, <1>7, <1>8, <2>1, <2>3
<1>19. EveryJobAccountedFor'
  BY <1>10, <1>11, <1>12, <1>13, <1>14, <1>15, <1>18, <1>16, <1>17
    DEF OthersStep, PoolNext, PoolStep, Environment, TaskStep, BrokerStep, FaultStep
<1> QED
  BY <1>1, <1>19 DEF AccountInv

(* Every message pushed is in the lists, with a live worker, counted once, or
   lost with one dead worker. *)
THEOREM AccountCorrect == PoolSpec => []EveryJobAccountedFor
<1>1. PoolInit => AccountInv
  <2> SUFFICES ASSUME PoolInit
               PROVE  AccountInv
    OBVIOUS
  <2>1. Holders = {} /\ Spent = {}
    BY DEF PoolInit, Holders, Spent, Dead
  <2>2. /\ queue["task"] = TargetJobs - orphans.served /\ queue["foreign"] = 0
        /\ orphans.served \in Nat
    BY DEF PoolInit, Kinds, Orphans
  <2>3. EveryJobAccountedFor
    BY <2>1, <2>2, FS_EmptySet, TargetAssumption
      DEF PoolInit, EveryJobAccountedFor, Traced, Pushed
  <2> QED
    BY <2>3 DEF PoolInit, AccountInv, ConnInv
<1>2. TypeOK /\ TypeOK' /\ AccountInv /\ [PoolNext]_poolVars => AccountInv'
  BY AccountStep
<1>3. AccountInv => EveryJobAccountedFor
  BY DEF AccountInv
<1> QED
  BY <1>1, <1>2, <1>3, TypeCorrect, PTL DEF PoolSpec

-----------------------------------------------------------------------------
(* After shutdown every worker is on its way to its end: the part of
   ShutdownEndsWorkers that needs no fairness. *)

\* How many steps a worker can still take before it has ended.
Rank(w) ==
  CASE task[w] \in Ended -> 0
    [] task[w] \in {"spawned", "top"} -> 1
    [] task[w] \in {"backoff", "signal"} -> 2
    [] task[w] = "count" -> 3
    [] task[w] = "await" -> IF conn[w] \in Kinds THEN 4 ELSE 5
    [] task[w] = "unborn" -> 6

\* A worker is only where it was, or nearer to its end.
Nearer(w) == Rank(w)' <= Rank(w) /\ (Rank(w)' = Rank(w) => task'[w] = task[w])

\* Once shutdown is set no worker's rank grows, and each of its steps lowers it.
WindsDown == [][shutdown => \A w \in Workers : Nearer(w)]_poolVars

\* What a worker that has not ended can do next, or the broker can do for it: a
\* BRPOP that waits is served when there is a message and times out when not.
CanGoOn(w) ==
  \/ task[w] \in {"spawned", "top", "backoff", "count", "signal"}
  \/ task[w] = "await" /\ conn[w] \in Kinds
  \/ task[w] = "await" /\ conn[w] = "waiting"

\* No worker waits for an answer to a request that is not at the broker.
AwaitInv == \A w \in Workers : task[w] = "await" => conn[w] # "idle"

LEMMA RankOf ==
  ASSUME TypeOK, NEW w \in Workers
  PROVE  /\ task[w] \in Ended => Rank(w) = 0
         /\ task[w] \in {"spawned", "top"} => Rank(w) = 1
         /\ task[w] \in {"backoff", "signal"} => Rank(w) = 2
         /\ task[w] = "count" => Rank(w) = 3
         /\ task[w] = "await" /\ conn[w] \in Kinds => Rank(w) = 4
         /\ task[w] = "await" /\ conn[w] \notin Kinds => Rank(w) = 5
         /\ task[w] = "unborn" => Rank(w) = 6
         /\ Rank(w) \in 0 .. 6
BY DEF TypeOK, Rank, TaskStates, Ended, Dead

LEMMA RankOfNext ==
  ASSUME TypeOK', NEW w \in Workers
  PROVE  /\ task'[w] \in Ended => Rank(w)' = 0
         /\ task'[w] \in {"spawned", "top"} => Rank(w)' = 1
         /\ task'[w] \in {"backoff", "signal"} => Rank(w)' = 2
         /\ task'[w] = "count" => Rank(w)' = 3
         /\ task'[w] = "await" /\ conn'[w] \in Kinds => Rank(w)' = 4
         /\ task'[w] = "await" /\ conn'[w] \notin Kinds => Rank(w)' = 5
         /\ task'[w] = "unborn" => Rank(w)' = 6
         /\ Rank(w)' \in 0 .. 6
BY DEF TypeOK, Rank, TaskStates, Ended, Dead

LEMMA NearerStep ==
  ASSUME TypeOK, TypeOK', shutdown, [PoolNext]_poolVars, NEW w \in Workers
  PROVE  Nearer(w)
<1> USE DEF Nearer, Goto, SetConn
<1>1. ASSUME task'[w] = task[w], conn'[w] = conn[w]
      PROVE  Nearer(w)
  <2>1. Rank(w)' = Rank(w)
    BY <1>1 DEF Rank
  <2> QED
    BY <1>1, <2>1, RankOf
<1>2. ASSUME NEW v \in Workers \ {w}, TaskStep(v) \/ BrokerStep(v) \/ FaultStep(v) \/ Spawn(v)
      PROVE  Nearer(w)
  <2>1. task'[w] = task[w] /\ conn'[w] = conn[w]
    BY <1>2 DEF TypeOK, TaskStep, Return, IssueBrpop, Wake, HandleTask, HandleForeign, Count,
      Signal, Cancel, BrokerStep, ServeBrpop, BrpopTimeout, FaultStep, TransientError,
      IoError, Disconnect, Spawn
  <2> QED
    BY <1>1, <2>1
<1>3. CASE TaskStep(w)
  <2>1. CASE Return(w) \/ Cancel(w)
    <3>1. task[w] \notin Ended /\ task'[w] \in Ended
      BY <2>1 DEF TypeOK, Return, Cancel, Ended, Dead
    <3>2. task[w] \in {"unborn", "spawned", "top", "await", "count", "signal", "backoff"}
      BY <3>1 DEF TypeOK, TaskStates
    <3>3. Rank(w) \in 1 .. 6
      BY <3>2, RankOf
    <3>4. Rank(w)' = 0
      BY <3>1, RankOfNext
    <3> QED
      BY <3>3, <3>4
  <2>2. CASE IssueBrpop(w)
    BY <2>2 DEF IssueBrpop, MustStop
  <2>3. CASE Wake(w) \/ Signal(w)
    <3>1. task[w] \in {"backoff", "signal"} /\ task'[w] = "top"
      BY <2>3 DEF TypeOK, Wake, Signal
    <3> QED
      BY <3>1, RankOf, RankOfNext
  <2>4. CASE HandleForeign(w) \/ \E us \in Latencies : HandleTask(w, us)
    <3>1. task[w] = "await" /\ conn[w] \in Kinds /\ task'[w] = "count"
      BY <2>4 DEF TypeOK, HandleForeign, HandleTask, Kinds
    <3> QED
      BY <3>1, RankOf, RankOfNext
  <2>5. CASE Count(w)
    <3>1. task[w] = "count" /\ task'[w] \in {"signal", "top"}
      BY <2>5 DEF TypeOK, Count
    <3> QED
      BY <3>1, RankOf, RankOfNext
  <2> QED
    BY <1>3, <2>1, <2>2, <2>3, <2>4, <2>5 DEF TaskStep
<1>4. CASE BrokerStep(w)
  <2>1. ASSUME NEW k \in Kinds, ServeBrpop(w, k)
        PROVE  Nearer(w)
    <3>1. task'[w] = task[w] /\ conn[w] = "waiting" /\ conn'[w] \in Kinds
      BY <2>1 DEF TypeOK, ServeBrpop
    <3>2. conn[w] \notin Kinds
      BY <3>1 DEF Kinds
    <3>3. CASE task[w] = "await"
      BY <3>1, <3>2, <3>3, RankOf, RankOfNext
    <3>4. CASE task[w] # "await"
      <4>1. Rank(w)' = Rank(w)
        BY <3>1, <3>4 DEF Rank
      <4> QED
        BY <3>1, <4>1, RankOf
    <3> QED
      BY <3>3, <3>4
  <2>2. CASE BrpopTimeout(w)
    <3>1. task[w] = "await" /\ conn[w] \notin Kinds /\ task'[w] = "top"
      BY <2>2 DEF TypeOK, BrpopTimeout, Kinds
    <3> QED
      BY <3>1, RankOf, RankOfNext
  <2> QED
    BY <1>4, <2>1, <2>2 DEF BrokerStep
<1>5. CASE FaultStep(w)
  <2>1. CASE TransientError(w)
    <3>1. task[w] = "await" /\ conn[w] \notin Kinds /\ task'[w] = "backoff"
      BY <2>1 DEF TypeOK, TransientError, Kinds
    <3> QED
      BY <3>1, RankOf, RankOfNext
  <2>2. CASE IoError(w)
    <3>1. task[w] = "await" /\ task'[w] \in Ended
      BY <2>2 DEF TypeOK, IoError, Ended, Dead
    <3> QED
      BY <3>1, RankOf, RankOfNext
  <2>3. CASE Disconnect(w)
    <3>1. task[w] \in Ended /\ task'[w] = task[w]
      BY <2>3 DEF Disconnect, Ended
    <3> QED
      BY <3>1, RankOf, RankOfNext
  <2> QED
    BY <1>5, <2>1, <2>2, <2>3 DEF FaultStep
<1>6. CASE Spawn(w)
  <2>1. task[w] = "unborn" /\ task'[w] = "spawned"
    BY <1>6 DEF TypeOK, Spawn
  <2> QED
    BY <2>1, RankOf, RankOfNext
<1>7. CASE OthersStep \/ SetShutdown \/ AbortAll \/ ReceiveSample \/ UNCHANGED poolVars
  <2>1. task' = task /\ conn' = conn
    BY <1>7, OthersKeep DEF SetShutdown, AbortAll, ReceiveSample, poolVars
  <2> QED
    BY <1>1, <2>1
<1> QED
  BY <1>2, <1>3, <1>4, <1>5, <1>6, <1>7 DEF PoolNext, PoolStep, Environment

(* A worker takes at most five more steps of its own after shutdown, whatever the
   broker, the faults and the rest of the trial do (worker.rs:46-80). *)
THEOREM WindsDownCorrect == PoolSpec => WindsDown
<1>1. TypeOK /\ TypeOK' /\ [PoolNext]_poolVars
        => [shutdown => \A w \in Workers : Nearer(w)]_poolVars
  BY NearerStep
<1> QED
  BY <1>1, TypeCorrect, PTL DEF PoolSpec, WindsDown

LEMMA AwaitStep ==
  ASSUME TypeOK, AwaitInv, [PoolNext]_poolVars
  PROVE  AwaitInv'
<1> USE DEF TypeOK, AwaitInv, Goto, SetConn, Dead
<1>1. ASSUME NEW w \in Workers, TaskStep(w) \/ Spawn(w)
      PROVE  AwaitInv'
  BY <1>1 DEF TaskStep, Spawn, Return, IssueBrpop, Wake, HandleTask, HandleForeign,
    Count, Signal, Cancel
<1>2. ASSUME NEW w \in Workers, BrokerStep(w) \/ FaultStep(w)
      PROVE  AwaitInv'
  BY <1>2 DEF BrokerStep, ServeBrpop, BrpopTimeout, FaultStep, TransientError,
    IoError, Disconnect, Kinds
<1>3. CASE OthersStep \/ SetShutdown \/ AbortAll \/ ReceiveSample
           \/ UNCHANGED poolVars
  BY <1>3, OthersKeep DEF SetShutdown, AbortAll, ReceiveSample, poolVars
<1> QED
  BY <1>1, <1>2, <1>3 DEF PoolNext, PoolStep, Environment

(* A worker that was spawned and has not ended is never stuck: it has a step of its
   own, or the broker holds its request and has a message for it or lets it time
   out. *)
THEOREM NoWorkerIsStuck ==
  PoolSpec => [](\A w \in Workers : task[w] \in Ended \union {"unborn"} \/ CanGoOn(w))
<1>1. PoolInit => AwaitInv
  BY DEF PoolInit, AwaitInv
<1>2. TypeOK /\ AwaitInv /\ [PoolNext]_poolVars => AwaitInv'
  BY AwaitStep
<1>3. TypeOK /\ AwaitInv
        => \A w \in Workers : task[w] \in Ended \union {"unborn"} \/ CanGoOn(w)
  <2> SUFFICES ASSUME TypeOK, AwaitInv, NEW w \in Workers,
                      task[w] \notin Ended, task[w] # "unborn"
               PROVE  CanGoOn(w)
    OBVIOUS
  <2>1. task[w] \in {"spawned", "top", "await", "count", "signal", "backoff"}
    BY DEF TypeOK, TaskStates
  <2>2. CASE task[w] = "await"
    <3>1. conn[w] = "waiting" \/ conn[w] \in Kinds
      BY <2>2 DEF TypeOK, ConnStates, AwaitInv
    <3> QED
      BY <2>2, <3>1 DEF CanGoOn
  <2> QED
    BY <2>1, <2>2 DEF CanGoOn
<1> QED
  BY <1>1, <1>2, <1>3, TypeCorrect, PTL DEF PoolSpec

-----------------------------------------------------------------------------
(* What is left to count: the part of Trial's ReachesTarget that needs no fairness. *)

\* As long as fewer jobs were lost than are missing, there is one to come by.
WorkIsLeft ==
  completed + orphans.served + Cardinality(Spent) < TargetJobs =>
    Holders # {} \/ \E k \in Kinds : queue[k] > 0

(* While the target is not reached, a message is in the keys or in a worker's hands,
   unless dead workers and BRPOPs of earlier trials, with one message each at most,
   have taken all that is missing: the workers that run (worker.rs:46-111) are not
   left waiting for jobs that do not exist. *)
THEOREM WorkIsLeftCorrect == PoolSpec => []WorkIsLeft
<1>1. TypeOK /\ EveryJobAccountedFor => WorkIsLeft
  <2> SUFFICES ASSUME TypeOK, EveryJobAccountedFor, Holders = {},
                      completed + orphans.served + Cardinality(Spent) < TargetJobs,
                      \A k \in Kinds : ~(queue[k] > 0)
               PROVE  FALSE
    BY DEF WorkIsLeft
  <2>1. Cardinality(Holders) = 0 /\ IsFiniteSet(Spent)
    BY WorkersAssumption, FS_EmptySet, FS_Subset DEF Spent
  <2>2. Cardinality(Spent) \in Nat
    BY <2>1, FS_CardinalityType
  <2>3. queue["task"] = 0 /\ queue["foreign"] = 0
    BY SMT DEF TypeOK, Kinds
  <2>4. completed \in Nat /\ orphans.served \in Nat /\ foreign \in Nat
    <3>1. foreign \in 0 .. MaxForeign /\ orphans.served \in 0 .. MaxOrphans
      BY DEF TypeOK, Orphans
    <3> QED
      BY <3>1 DEF TypeOK
  <2>5. TargetJobs + foreign <= completed + orphans.served + Cardinality(Spent)
    BY <2>1, <2>2, <2>3, <2>4, TargetAssumption, SMT
       DEF EveryJobAccountedFor, Traced, Pushed
  <2> QED
    BY <2>2, <2>4, <2>5, TargetAssumption, SMT
<1> QED
  BY <1>1, TypeCorrect, AccountCorrect, PTL
=============================================================================
