----------------------------- MODULE TrialProofs -----------------------------
(***************************************************************************)
(* What holds of a trial with any number of workers, any target, any       *)
(* --latency-percentiles and any number of foreign messages and faults.    *)
(*                                                                         *)
(* The argument: run_trial drives the worker pool as LoadWorker's          *)
(* environment does, so everything proved of the pool holds in a trial     *)
(* (RefinesPool).  What is proved here is about the order in which         *)
(* run_trial, the collector and the workers end.                           *)
(***************************************************************************)
EXTENDS Trial, LoadWorkerProofs, ArithmeticProofs

LEMMA PoolAction == [Next]_vars => [PoolNext]_poolVars
<1> SUFFICES ASSUME [Next]_vars
             PROVE  [PoolNext]_poolVars
  OBVIOUS
<1> USE DEF PoolNext, PoolStep, Environment
<1>1. ASSUME NEW w \in Workers, Connect(w)
      PROVE  [PoolNext]_poolVars
  BY <1>1 DEF Connect
<1>2. CASE ConnectError \/ DrainTimeout \/ StopTrial
  BY <1>2 DEF ConnectError, DrainTimeout, StopTrial
<1>3. CASE \/ PollDone \/ PollSleep \/ PollJoin \/ JoinWorkers
           \/ CloneThroughput \/ CloneErrors \/ CloneLatency \/ TimeoutElapses
  BY <1>3 DEF PollDone, PollSleep, PollJoin, Poll, JoinWorkers, CloneThroughput,
    CloneErrors, CloneLatency, TimeoutElapses
<1>4. CASE CollectorStep
  BY <1>4 DEF CollectorStep, Record, ServeSnapshot, CollectorEnds
<1>5. CASE MonitorStep
  BY <1>5 DEF MonitorStep, Tick, SampleThroughput, SampleErrors, AskSnapshot, Park,
    PushLatency, SkipLatency, CancelMonitor
<1>6. CASE Disturbance \/ \E w \in Workers : WorkerStep(w) \/ ServerStep(w)
  BY <1>6 DEF Disturbance, WorkerStep, ServerStep
<1>7. CASE Terminated \/ UNCHANGED vars
  BY <1>7 DEF Terminated, vars
<1> QED
  BY <1>1, <1>2, <1>3, <1>4, <1>5, <1>6, <1>7 DEF Next, MainStep

(* A trial does nothing to its workers that the pool's specification does not
   allow, so every theorem about the pool holds in a trial. *)
THEOREM RefinesPool == Spec => PoolSpec
<1>1. TrialInit => PoolInit
  BY DEF TrialInit
<1> QED
  BY <1>1, PoolAction, PTL DEF Spec, PoolSpec
-----------------------------------------------------------------------------
(* The order in which the trial's tasks end. *)

\* The select! decides once; the flags that stop workers are set afterwards.
VerdictInv ==
  /\ verdict \in {"none", "target", "timeout", "exited"}
  /\ verdict = "none" <=> main \in Waiting \union {"connect", "failed"}
  /\ shutdown => main \in Winding \union {"returned"}
  /\ aborted => main \in Winding \union {"returned", "failed"}
  /\ verdict = "target" => completed >= TargetJobs

\* Why a worker has ended.
EndInv ==
  \A w \in Workers :
    /\ task[w] = "exited" => shutdown \/ completed >= TargetJobs
    /\ task[w] = "cancelled" => aborted

\* The channel is closed for good and empty when the collector has ended, and
\* no worker is left when run_trial awaits the collector.
ClosedInv ==
  /\ collector = "ended" => samples = <<>> /\ ~SendersOpen
  /\ main \in {"collect", "clone_errors", "clone_latency", "returned"} => AllEnded
  /\ Published => collector = "ended"

\* The trial gave up because all workers had ended.
GaveUpInv == verdict = "exited" => AllEnded /\ GiveUpOnlyOnDeadWorkers

PhaseInv == VerdictInv /\ EndInv /\ ClosedInv /\ GaveUpInv

\* What every step respects, whoever takes it.
LEMMA PoolMonotone ==
  ASSUME TypeOK, [PoolNext]_poolVars
  PROVE  /\ completed' \in {completed, completed + 1}
         /\ shutdown => shutdown'
         /\ aborted => aborted'
         /\ \A w \in Workers : task[w] \in Ended => task'[w] = task[w]
<1> USE DEF TypeOK, Goto, Ended, Dead
<1>1. ASSUME NEW w \in Workers, TaskStep(w) \/ Spawn(w)
      PROVE  /\ completed' \in {completed, completed + 1}
             /\ shutdown' = shutdown /\ aborted' = aborted
             /\ \A v \in Workers : task[v] \in Ended => task'[v] = task[v]
  BY <1>1 DEF TaskStep, Spawn, Return, IssueBrpop, Wake, HandleTask, HandleForeign,
    Count, Signal, Cancel
<1>2. ASSUME NEW w \in Workers, BrokerStep(w) \/ FaultStep(w)
      PROVE  /\ completed' = completed
             /\ shutdown' = shutdown /\ aborted' = aborted
             /\ \A v \in Workers : task[v] \in Ended => task'[v] = task[v]
  BY <1>2 DEF BrokerStep, ServeBrpop, BrpopTimeout, FaultStep, TransientError,
    IoError, Disconnect
<1>3. CASE OthersStep \/ SetShutdown \/ AbortAll \/ ReceiveSample
           \/ UNCHANGED poolVars
  BY <1>3, OthersKeep DEF SetShutdown, AbortAll, ReceiveSample, poolVars
<1> QED
  BY <1>1, <1>2, <1>3 DEF PoolNext, PoolStep, Environment

LEMMA VerdictStep ==
  ASSUME TypeOK, DoneIsTruthful, VerdictInv, [Next]_vars
  PROVE  VerdictInv'
<1> USE TargetAssumption DEF VerdictInv, Waiting, Winding
<1>1. completed' \in {completed, completed + 1} /\ completed \in Nat
  BY PoolAction, PoolMonotone DEF TypeOK
\* Steps that leave the flags and run_trial where they are.
<1>2. ASSUME UNCHANGED <<main, verdict, shutdown, aborted>>
      PROVE  VerdictInv'
  BY <1>1, <1>2
<1>3. ASSUME NEW w \in Workers, Connect(w)
      PROVE  VerdictInv'
  BY <1>3 DEF Connect, Spawn, mainVars
<1>4. CASE ConnectError
  BY <1>4 DEF ConnectError, AbortAll
<1>5. CASE PollDone
  BY <1>5 DEF PollDone, Poll, poolVars, DoneIsTruthful
<1>6. CASE PollSleep \/ PollJoin
  BY <1>6 DEF PollSleep, PollJoin, Poll, poolVars
<1>7. CASE StopTrial
  BY <1>7 DEF StopTrial, SetShutdown
<1>8. CASE DrainTimeout
  BY <1>8 DEF DrainTimeout, AbortAll
<1>9. CASE JoinWorkers \/ CloneThroughput \/ CloneErrors \/ CloneLatency
  BY <1>9 DEF JoinWorkers, CloneThroughput, CloneErrors, CloneLatency, poolVars
<1>10. CASE TimeoutElapses \/ CollectorStep \/ MonitorStep
  <2>1. UNCHANGED <<main, verdict, shutdown, aborted>>
    BY <1>10 DEF TimeoutElapses, CollectorStep, Record, ReceiveSample, ServeSnapshot,
      CollectorEnds, MonitorStep, Tick, SampleThroughput, SampleErrors, AskSnapshot,
      Park, PushLatency, SkipLatency, CancelMonitor, mainVars, poolVars
  <2> QED
    BY <1>2, <2>1
<1>11. ASSUME NEW w \in Workers, WorkerStep(w)
       PROVE  VerdictInv'
  <2>1. UNCHANGED <<main, verdict, shutdown, aborted>>
    BY <1>11 DEF WorkerStep, TaskStep, Return, IssueBrpop, Wake, HandleTask,
      HandleForeign, Count, Signal, Cancel, trialVars
  <2> QED
    BY <1>2, <2>1
<1>12. ASSUME NEW w \in Workers, ServerStep(w) \/ (FaultStep(w) /\ UNCHANGED trialVars)
       PROVE  VerdictInv'
  <2>1. UNCHANGED <<main, verdict, shutdown, aborted>>
    BY <1>12 DEF ServerStep, BrokerStep, ServeBrpop, BrpopTimeout, FaultStep,
      TransientError, IoError, Disconnect, trialVars
  <2> QED
    BY <1>2, <2>1
<1>13. CASE (OthersStep /\ UNCHANGED trialVars) \/ Terminated \/ UNCHANGED vars
  <2>1. UNCHANGED <<main, verdict, shutdown, aborted>>
    BY <1>13, OthersKeep DEF Terminated, vars, poolVars, trialVars
  <2> QED
    BY <1>2, <2>1
<1> QED
  BY <1>3, <1>4, <1>5, <1>6, <1>7, <1>8, <1>9, <1>10, <1>11, <1>12, <1>13
    DEF Next, MainStep, Disturbance
LEMMA EndStep ==
  ASSUME TypeOK, EndInv, [PoolNext]_poolVars
  PROVE  EndInv'
<1> USE TargetAssumption DEF EndInv, TypeOK, Goto, MustStop
<1>1. /\ completed' \in {completed, completed + 1}
      /\ shutdown => shutdown'
      /\ aborted => aborted'
  BY PoolMonotone
<1>2. ASSUME NEW w \in Workers, Return(w)
      PROVE  EndInv'
  BY <1>2 DEF Return
<1>3. ASSUME NEW w \in Workers, Cancel(w)
      PROVE  EndInv'
  BY <1>3 DEF Cancel
<1>4. ASSUME \A v \in Workers : task'[v] = task[v] \/ task'[v] \notin {"exited", "cancelled"}
      PROVE  EndInv'
  BY <1>1, <1>4
<1>5. ASSUME NEW w \in Workers,
             \/ IssueBrpop(w) \/ Wake(w) \/ HandleForeign(w) \/ Count(w) \/ Signal(w)
             \/ \E us \in Latencies : HandleTask(w, us)
             \/ Spawn(w) \/ BrokerStep(w) \/ FaultStep(w)
      PROVE  EndInv'
  <2>1. \A v \in Workers : task'[v] = task[v] \/ task'[v] \notin {"exited", "cancelled"}
    BY <1>5 DEF IssueBrpop, Wake, HandleForeign, Count, Signal, HandleTask, Spawn,
      BrokerStep, ServeBrpop, BrpopTimeout, FaultStep, TransientError, IoError,
      Disconnect
  <2> QED
    BY <1>4, <2>1
<1>6. CASE OthersStep \/ SetShutdown \/ AbortAll \/ ReceiveSample
           \/ UNCHANGED poolVars
  BY <1>4, <1>6, OthersKeep DEF SetShutdown, AbortAll, ReceiveSample, poolVars
<1> QED
  BY <1>2, <1>3, <1>5, <1>6 DEF PoolNext, PoolStep, Environment, TaskStep

\* Nothing moves in a pool whose workers have all ended.
LEMMA QuietPool ==
  ASSUME TypeOK, AllEnded, [PoolNext]_poolVars
  PROVE  UNCHANGED <<task, completed, errors>>
<1> USE DEF TypeOK, AllEnded, Ended, Dead
<1>1. ASSUME NEW w \in Workers, TaskStep(w) \/ Spawn(w)
      PROVE  FALSE
  BY <1>1 DEF TaskStep, Spawn, Return, IssueBrpop, Wake, HandleTask, HandleForeign,
    Count, Signal, Cancel
<1>2. ASSUME NEW w \in Workers, BrokerStep(w) \/ FaultStep(w)
      PROVE  UNCHANGED <<task, completed, errors>>
  BY <1>2 DEF BrokerStep, ServeBrpop, BrpopTimeout, FaultStep, TransientError,
    IoError, Disconnect
<1>3. CASE OthersStep \/ SetShutdown \/ AbortAll \/ ReceiveSample
           \/ UNCHANGED poolVars
  BY <1>3, OthersKeep DEF SetShutdown, AbortAll, ReceiveSample, poolVars
<1> QED
  BY <1>1, <1>2, <1>3 DEF PoolNext, PoolStep, Environment

\* What moves run_trial, and what it finds when it moves.
LEMMA MainMoves ==
  ASSUME [Next]_vars
  PROVE  \/ main' = main /\ verdict' = verdict
         \/ /\ main = "connect" /\ main' \in {"poll_done", "failed"}
            /\ verdict' = verdict
            /\ UNCHANGED <<completed, errors>>
         \/ /\ main \in Waiting /\ main' \in Waiting
            /\ verdict' = verdict
         \/ /\ main \in Waiting /\ main' = "decided"
            /\ verdict' \in {"target", "timeout"} \/ (verdict' = "exited" /\ AllEnded)
            /\ UNCHANGED poolVars
         \/ /\ main = "decided" /\ main' = "drain" /\ verdict' = verdict
         \/ /\ main = "drain" /\ main' = "reap" /\ verdict' = verdict
         \/ /\ main \in {"drain", "reap"} /\ main' = "collect" /\ verdict' = verdict
            /\ AllEnded
            /\ UNCHANGED poolVars
         \/ /\ main = "collect" /\ main' = "clone_errors" /\ verdict' = verdict
            /\ collector = "ended"
            /\ UNCHANGED <<poolVars, collectorVars>>
         \/ /\ main \in {"clone_errors", "clone_latency"}
            /\ main' \in {"clone_latency", "returned"} /\ verdict' = verdict
            /\ UNCHANGED <<poolVars, collectorVars>>
<1> USE DEF Waiting
<1>1. ASSUME NEW w \in Workers, Connect(w)
      PROVE  /\ main = "connect" /\ main' \in {"connect", "poll_done"}
             /\ verdict' = verdict
             /\ UNCHANGED <<completed, errors>>
  BY <1>1 DEF Connect, Spawn
<1>2. CASE ConnectError
  BY <1>2 DEF ConnectError, AbortAll
<1>3. CASE PollDone \/ PollSleep \/ PollJoin
  BY <1>3 DEF PollDone, PollSleep, PollJoin, Poll
<1>4. CASE StopTrial
  BY <1>4 DEF StopTrial
<1>5. CASE DrainTimeout
  BY <1>5 DEF DrainTimeout
<1>6. CASE JoinWorkers
  BY <1>6 DEF JoinWorkers
<1>7. CASE CloneThroughput
  BY <1>7 DEF CloneThroughput
<1>8. CASE CloneErrors \/ CloneLatency
  BY <1>8 DEF CloneErrors, CloneLatency
<1>9. CASE TimeoutElapses \/ CollectorStep \/ MonitorStep
  BY <1>9 DEF TimeoutElapses, CollectorStep, Record, ServeSnapshot, CollectorEnds,
    MonitorStep, Tick, SampleThroughput, SampleErrors, AskSnapshot, Park,
    PushLatency, SkipLatency, CancelMonitor, mainVars
<1>10. CASE \/ \E w \in Workers : WorkerStep(w) \/ ServerStep(w)
            \/ Disturbance \/ Terminated \/ UNCHANGED vars
  BY <1>10 DEF WorkerStep, ServerStep, Disturbance, Terminated, vars, trialVars
<1> QED
  BY <1>1, <1>2, <1>3, <1>4, <1>5, <1>6, <1>7, <1>8, <1>9, <1>10 DEF Next, MainStep

LEMMA GaveUpStep ==
  ASSUME TypeOK, VerdictInv, EndInv, GaveUpInv, [Next]_vars
  PROVE  GaveUpInv'
<1> USE DEF AllEnded
<1>1. SUFFICES ASSUME verdict' = "exited"
               PROVE  AllEnded' /\ GiveUpOnlyOnDeadWorkers'
  BY DEF GaveUpInv
<1>2. CASE verdict = "exited"
  <2>1. AllEnded /\ GiveUpOnlyOnDeadWorkers
    BY <1>2 DEF GaveUpInv
  <2>2. UNCHANGED <<task, completed>>
    BY <2>1, PoolAction, QuietPool
  <2> QED
    BY <1>1, <1>2, <2>1, <2>2 DEF GiveUpOnlyOnDeadWorkers
<1>3. CASE verdict # "exited"
  <2>1. main \in Waiting /\ AllEnded /\ UNCHANGED poolVars
    BY <1>1, <1>3, MainMoves
  <2>2. ~shutdown /\ ~aborted
    BY <2>1 DEF VerdictInv, Waiting, Winding
  <2>3. \A w \in Workers : task[w] = "failed" \/ completed >= TargetJobs
    BY <2>1, <2>2 DEF EndInv, Ended, Dead
  <2>4. completed < TargetJobs => \A w \in Workers : task[w] = "failed"
    BY <2>3, TargetAssumption DEF TypeOK
  <2> QED
    BY <2>1, <2>4 DEF GiveUpOnlyOnDeadWorkers, poolVars
<1> QED
  BY <1>2, <1>3
\* A channel without senders stays closed, and empty once it is empty.
LEMMA ClosedChannel ==
  ASSUME TypeOK, ~SendersOpen, samples = <<>>, [Next]_vars
  PROVE  ~SendersOpen' /\ samples' = <<>>
<1> USE DEF TypeOK, SendersOpen, HoldsSender, Ended, Dead, Waiting
<1>1. main' \notin Waiting \union {"connect", "decided"}
  BY MainMoves
<1>2. ASSUME NEW w \in Workers, TaskStep(w)
      PROVE  FALSE
  BY <1>2 DEF TaskStep, Return, IssueBrpop, Wake, HandleTask, HandleForeign, Count,
    Signal, Cancel
<1>3. CASE UNCHANGED <<task, samples>>
  BY <1>1, <1>3
<1>4. ASSUME NEW w \in Workers, BrokerStep(w) \/ FaultStep(w)
      PROVE  ~SendersOpen' /\ samples' = <<>>
  BY <1>1, <1>4 DEF BrokerStep, ServeBrpop, BrpopTimeout, FaultStep, TransientError,
    IoError, Disconnect, Goto
<1>5. CASE \/ OthersStep \/ Terminated \/ UNCHANGED vars \/ CollectorStep
           \/ TimeoutElapses \/ MonitorStep
  BY <1>3, <1>5, OthersKeep DEF Terminated, vars, poolVars, CollectorStep, Record,
    ReceiveSample, ServeSnapshot, CollectorEnds, TimeoutElapses, MonitorStep, Tick,
    SampleThroughput, SampleErrors, AskSnapshot, Park, PushLatency, SkipLatency,
    CancelMonitor
<1>6. CASE MainStep
  BY <1>3, <1>6 DEF MainStep, Connect, ConnectError, AbortAll, PollDone, PollSleep,
    PollJoin, Poll, StopTrial, SetShutdown, JoinWorkers, DrainTimeout,
    CloneThroughput, CloneErrors, CloneLatency, poolVars
<1> QED
  BY <1>2, <1>4, <1>5, <1>6 DEF Next, WorkerStep, ServerStep, Disturbance

\* What a step may do to the collector and its histogram.
LEMMA CollectorMoves ==
  ASSUME [Next]_vars
  PROVE  \/ UNCHANGED <<collector, hist, dropped>>
         \/ Record
         \/ CollectorEnds
<1>1. CASE \/ Disturbance \/ Terminated \/ UNCHANGED vars
           \/ \E w \in Workers : WorkerStep(w) \/ ServerStep(w)
  BY <1>1 DEF Disturbance, Terminated, vars, WorkerStep, ServerStep, trialVars
<1>2. CASE TimeoutElapses \/ MonitorStep \/ CollectorStep
  BY <1>2 DEF TimeoutElapses, MonitorStep, Tick, SampleThroughput, SampleErrors,
    AskSnapshot, Park, PushLatency, SkipLatency, CancelMonitor, CollectorStep,
    ServeSnapshot, collectorVars
<1>3. CASE MainStep
  BY <1>3 DEF MainStep, Connect, ConnectError, PollDone, PollSleep, PollJoin, Poll,
    StopTrial, JoinWorkers, DrainTimeout, CloneThroughput, CloneErrors,
    CloneLatency, collectorVars
<1> QED
  BY <1>1, <1>2, <1>3 DEF Next

LEMMA ClosedStep ==
  ASSUME TypeOK, ClosedInv, [Next]_vars
  PROVE  ClosedInv'
<1>1. collector' = "ended" => samples' = <<>> /\ ~SendersOpen'
  <2>1. CASE collector = "ended"
    BY <2>1, ClosedChannel DEF ClosedInv
  <2>2. CASE CollectorEnds
    BY <2>2 DEF CollectorEnds, SendersOpen, HoldsSender, poolVars, mainVars
  <2>3. CASE Record
    BY <2>3 DEF Record
  <2> QED
    BY <2>1, <2>2, <2>3, CollectorMoves
<1>2. main' \in {"collect", "clone_errors", "clone_latency", "returned"} => AllEnded'
  <2>1. SUFFICES ASSUME main' \in {"collect", "clone_errors", "clone_latency", "returned"}
                 PROVE  AllEnded'
    OBVIOUS
  <2>2. AllEnded
    BY <2>1, MainMoves DEF ClosedInv, Waiting
  <2>3. task' = task
    BY <2>2, PoolAction, QuietPool
  <2> QED
    BY <2>2, <2>3 DEF AllEnded
<1>3. Published' => collector' = "ended"
  <2>1. SUFFICES ASSUME Published'
                 PROVE  collector' = "ended"
    OBVIOUS
  <2>2. collector = "ended"
    BY <2>1, MainMoves DEF Published, ClosedInv, Waiting
  <2> QED
    BY <2>2, CollectorMoves DEF Record, CollectorEnds
<1> QED
  BY <1>1, <1>2, <1>3 DEF ClosedInv

LEMMA PhaseInitially == TrialInit => PhaseInv
<1> SUFFICES ASSUME TrialInit
             PROVE  PhaseInv
  OBVIOUS
<1>1. VerdictInv /\ GaveUpInv
  BY DEF TrialInit, PoolInit, VerdictInv, GaveUpInv, Waiting, Winding
<1>2. EndInv
  BY DEF TrialInit, PoolInit, EndInv
<1>3. ClosedInv
  BY DEF TrialInit, ClosedInv, Published
<1> QED
  BY <1>1, <1>2, <1>3 DEF PhaseInv

LEMMA PhaseCorrect == Spec => []PhaseInv
<1>1. TypeOK /\ DoneIsTruthful /\ PhaseInv /\ [Next]_vars => PhaseInv'
  BY VerdictStep, EndStep, ClosedStep, GaveUpStep, PoolAction DEF PhaseInv
<1> QED
  BY <1>1, PhaseInitially, RefinesPool, TypeCorrect, DoneTruthful, PTL DEF Spec

(* A trial that gives up on exited workers below its target has lost the
   connection of every worker (main.rs:620-630, worker.rs:69-73). *)
THEOREM GivesUpRightly == Spec => []GiveUpOnlyOnDeadWorkers
<1>1. PhaseInv => GiveUpOnlyOnDeadWorkers
  BY DEF PhaseInv, GaveUpInv, GiveUpOnlyOnDeadWorkers
<1> QED
  BY <1>1, PhaseCorrect, PTL
-----------------------------------------------------------------------------
(* Latencies, errors and completed jobs add up. *)

\* Workers that have handled a message and not counted it yet.
Counting == {w \in Workers : task[w] = "count"}

Sampled == hist + dropped + Len(samples)
Handled == completed + Cardinality(Counting)

\* Every handled message has sent a latency or is an error, and what was sent
\* is in the channel, in the histogram or refused by it.
CountInv ==
  /\ hist \in Nat
  /\ dropped \in Nat
  /\ Sampled <= Handled
  /\ Handled <= Sampled + errors

LEMMA CountingCard ==
  ASSUME NEW w \in Workers, \A v \in Workers \ {w} : task'[v] = task[v]
  PROVE  Cardinality(Counting') + Indicator(w \in Counting)
           = Cardinality(Counting) + Indicator(w \in Counting')
<1>1. /\ Counting \subseteq Workers /\ Counting' \subseteq Workers
      /\ Counting \ {w} = Counting' \ {w}
  BY DEF Counting
<1> QED
  BY <1>1, CardStep

\* A step of the pool other than the receipt of a sample.
Working ==
  \/ PoolStep
  \/ \E w \in Workers : Spawn(w)
  \/ SetShutdown
  \/ AbortAll
  \/ UNCHANGED poolVars

LEMMA WorkingOrRecord ==
  ASSUME [Next]_vars
  PROVE  Record \/ (Working /\ UNCHANGED <<hist, dropped>>)
<1> USE DEF Working, PoolStep
<1>1. CASE MainStep
  BY <1>1 DEF MainStep, Connect, ConnectError, PollDone, PollSleep, PollJoin, Poll,
    StopTrial, JoinWorkers, DrainTimeout, CloneThroughput, CloneErrors,
    CloneLatency, collectorVars
<1>2. CASE TimeoutElapses \/ MonitorStep \/ CollectorStep
  BY <1>2 DEF TimeoutElapses, MonitorStep, Tick, SampleThroughput, SampleErrors,
    AskSnapshot, Park, PushLatency, SkipLatency, CancelMonitor, CollectorStep,
    ServeSnapshot, CollectorEnds, collectorVars
<1>3. CASE \/ Disturbance \/ Terminated \/ UNCHANGED vars
           \/ \E w \in Workers : WorkerStep(w) \/ ServerStep(w)
  BY <1>3 DEF Disturbance, Terminated, vars, WorkerStep, ServerStep, trialVars
<1> QED
  BY <1>1, <1>2, <1>3 DEF Next

\* What such a step may do to the numbers CountInv is about.
LEMMA PoolCounts ==
  ASSUME TypeOK, TypeOK', Working
  PROVE  \/ UNCHANGED <<Counting, completed, errors, samples>>
         \/ /\ Len(samples)' = Len(samples) + 1
            /\ Cardinality(Counting)' = Cardinality(Counting) + 1
            /\ UNCHANGED <<completed, errors>>
         \/ /\ errors' = errors + 1
            /\ Cardinality(Counting)' \in {Cardinality(Counting), Cardinality(Counting) + 1}
            /\ UNCHANGED <<completed, samples>>
         \/ /\ completed' = completed + 1
            /\ Cardinality(Counting) = Cardinality(Counting)' + 1
            /\ UNCHANGED <<errors, samples>>
<1>1. /\ Cardinality(Counting) \in Nat /\ Cardinality(Counting') \in Nat
  <2>1. Counting \subseteq Workers /\ Counting' \subseteq Workers
    BY DEF Counting
  <2> QED
    BY <2>1, WorkersAssumption, FS_Subset, FS_CardinalityType
<1> USE DEF Goto, SetConn
<1>2. ASSUME NEW w \in Workers, NEW us \in Latencies, HandleTask(w, us)
      PROVE  /\ Len(samples)' = Len(samples) + 1
             /\ Cardinality(Counting)' = Cardinality(Counting) + 1
             /\ UNCHANGED <<completed, errors>>
  <2>1. /\ \A v \in Workers \ {w} : task'[v] = task[v]
        /\ w \notin Counting /\ w \in Counting'
    BY <1>2 DEF TypeOK, HandleTask, Counting
  <2>2. Cardinality(Counting') = Cardinality(Counting) + 1
    BY <1>1, <2>1, CountingCard DEF Indicator
  <2>3. Len(samples') = Len(samples) + 1
    BY <1>2 DEF TypeOK, HandleTask
  <2> QED
    BY <1>2, <2>1, <2>2, <2>3 DEF HandleTask
<1>3. ASSUME NEW w \in Workers, HandleForeign(w)
      PROVE  /\ errors' = errors + 1
             /\ Cardinality(Counting)' = Cardinality(Counting) + 1
             /\ UNCHANGED <<completed, samples>>
  <2>1. /\ \A v \in Workers \ {w} : task'[v] = task[v]
        /\ w \notin Counting /\ w \in Counting'
    BY <1>3 DEF TypeOK, HandleForeign, Counting
  <2>2. Cardinality(Counting') = Cardinality(Counting) + 1
    BY <1>1, <2>1, CountingCard DEF Indicator
  <2> QED
    BY <1>3, <2>2 DEF HandleForeign
<1>4. ASSUME NEW w \in Workers, Count(w)
      PROVE  /\ completed' = completed + 1
             /\ Cardinality(Counting) = Cardinality(Counting)' + 1
             /\ UNCHANGED <<errors, samples>>
  <2>1. /\ \A v \in Workers \ {w} : task'[v] = task[v]
        /\ w \in Counting /\ w \notin Counting'
    BY <1>4 DEF TypeOK, Count, Counting
  <2>2. Cardinality(Counting) = Cardinality(Counting') + 1
    BY <1>1, <2>1, CountingCard DEF Indicator
  <2> QED
    BY <1>4, <2>2 DEF Count
<1>5. ASSUME NEW w \in Workers, TransientError(w)
      PROVE  /\ errors' = errors + 1
             /\ UNCHANGED <<Counting, completed, samples>>
  BY <1>5 DEF TypeOK, TransientError, Counting
<1>6. ASSUME NEW w \in Workers,
             \/ Return(w) \/ IssueBrpop(w) \/ Wake(w) \/ Signal(w) \/ Cancel(w)
             \/ Spawn(w) \/ BrokerStep(w) \/ IoError(w) \/ Disconnect(w)
      PROVE  UNCHANGED <<Counting, completed, errors, samples>>
  BY <1>6 DEF TypeOK, Return, IssueBrpop, Wake, Signal, Cancel, Spawn, BrokerStep,
    ServeBrpop, BrpopTimeout, IoError, Disconnect, Counting
<1>7. CASE OthersStep \/ SetShutdown \/ AbortAll \/ UNCHANGED poolVars
  BY <1>7, OthersKeep DEF SetShutdown, AbortAll, poolVars, Counting
<1> QED
  BY <1>2, <1>3, <1>4, <1>5, <1>6, <1>7
    DEF Working, PoolStep, TaskStep, FaultStep
LEMMA CountStep ==
  ASSUME TypeOK, TypeOK', CountInv, [Next]_vars
  PROVE  CountInv'
<1>1. /\ Cardinality(Counting) \in Nat /\ Cardinality(Counting)' \in Nat
  <2>1. Counting \subseteq Workers /\ Counting' \subseteq Workers
    BY DEF Counting
  <2> QED
    BY <2>1, WorkersAssumption, FS_Subset, FS_CardinalityType
<1>2. /\ completed \in Nat /\ errors \in Nat /\ Len(samples) \in Nat
      /\ hist \in Nat /\ dropped \in Nat
  BY DEF TypeOK, CountInv
<1>3. Sampled <= Handled /\ Handled <= Sampled + errors
  BY DEF CountInv
<1>4. CASE Record
  <2>1. /\ Len(samples)' = Len(samples) - 1
        /\ Len(samples) > 0
    BY <1>4 DEF Record, ReceiveSample, TypeOK
  <2>2. \/ hist' = hist + 1 /\ dropped' = dropped
        \/ dropped' = dropped + 1 /\ hist' = hist
    BY <1>4 DEF Record
  <2>3. UNCHANGED <<Counting, completed, errors>>
    BY <1>4 DEF Record, ReceiveSample, Counting
  <2>4. UNCHANGED <<Sampled, Handled>>
    BY <1>1, <1>2, <2>1, <2>2, <2>3 DEF Sampled, Handled
  <2> QED
    BY <1>2, <1>3, <2>2, <2>3, <2>4 DEF CountInv
<1>5. CASE Working /\ UNCHANGED <<hist, dropped>>
  <2>1. CASE UNCHANGED <<Counting, completed, errors, samples>>
    <3>1. UNCHANGED <<Sampled, Handled>>
      BY <1>5, <2>1 DEF Sampled, Handled
    <3> QED
      BY <1>2, <1>3, <1>5, <2>1, <3>1 DEF CountInv
  <2>2. CASE /\ Len(samples)' = Len(samples) + 1
             /\ Cardinality(Counting)' = Cardinality(Counting) + 1
             /\ UNCHANGED <<completed, errors>>
    <3>1. Sampled' = Sampled + 1 /\ Handled' = Handled + 1
      BY <1>1, <1>2, <1>5, <2>2 DEF Sampled, Handled
    <3> QED
      BY <1>1, <1>2, <1>3, <1>5, <2>2, <3>1 DEF CountInv, Sampled, Handled
  <2>3. CASE /\ errors' = errors + 1
             /\ Cardinality(Counting)' \in {Cardinality(Counting), Cardinality(Counting) + 1}
             /\ UNCHANGED <<completed, samples>>
    <3>1. Sampled' = Sampled /\ Handled' \in {Handled, Handled + 1}
      BY <1>1, <1>2, <1>5, <2>3 DEF Sampled, Handled
    <3> QED
      BY <1>1, <1>2, <1>3, <1>5, <2>3, <3>1 DEF CountInv, Sampled, Handled
  <2>4. CASE /\ completed' = completed + 1
             /\ Cardinality(Counting) = Cardinality(Counting)' + 1
             /\ UNCHANGED <<errors, samples>>
    <3>1. Sampled' = Sampled /\ Handled' = Handled
      BY <1>1, <1>2, <1>5, <2>4 DEF Sampled, Handled
    <3> QED
      BY <1>2, <1>3, <1>5, <2>4, <3>1 DEF CountInv
  <2> QED
    BY <1>5, <2>1, <2>2, <2>3, <2>4, PoolCounts
<1> QED
  BY <1>4, <1>5, WorkingOrRecord

LEMMA CountCorrect == Spec => []CountInv
<1>1. TrialInit => CountInv
  <2> SUFFICES ASSUME TrialInit
               PROVE  CountInv
    OBVIOUS
  <2>1. Counting = {}
    BY DEF TrialInit, PoolInit, Counting
  <2>2. Cardinality(Counting) = 0
    BY <2>1, FS_EmptySet
  <2>3. Len(samples) = 0
    BY DEF TrialInit, PoolInit
  <2> QED
    BY <2>2, <2>3 DEF TrialInit, PoolInit, CountInv, Sampled, Handled
<1>2. TypeOK /\ TypeOK' /\ CountInv /\ [Next]_vars => CountInv'
  BY CountStep
<1> QED
  BY <1>1, <1>2, RefinesPool, TypeCorrect, PTL DEF Spec

\* When run_trial reads the counters nothing is on its way any more.
LEMMA AtRest ==
  ASSUME TypeOK, PhaseInv, CountInv, collector = "ended", AllEnded
  PROVE  hist + dropped <= completed /\ completed <= hist + dropped + errors
<1>1. Counting = {}
  BY DEF Counting, AllEnded, Ended, Dead
<1>2. Cardinality(Counting) = 0
  BY <1>1, FS_EmptySet
<1>3. Len(samples) = 0
  BY DEF PhaseInv, ClosedInv
<1>4. completed \in Nat /\ errors \in Nat /\ hist \in Nat /\ dropped \in Nat
  BY DEF TypeOK, CountInv
<1> QED
  BY <1>2, <1>3, <1>4 DEF CountInv, Sampled, Handled

(* The report of a trial adds up: a success has its jobs, and every counted job
   has a latency, was refused by the histogram or was an error (main.rs:635-692,
   worker.rs:83-107). *)
THEOREM ReportCorrect == Spec => []ReportAddsUp
<1>1. TypeOK /\ PhaseInv /\ CountInv => ReportAddsUp
  <2> SUFFICES ASSUME TypeOK, PhaseInv, CountInv, main = "returned"
               PROVE  /\ verdict = "target" => completed >= TargetJobs
                      /\ hist + dropped <= completed
                      /\ completed <= hist + dropped + errors
    BY DEF ReportAddsUp
  <2>1. collector = "ended" /\ AllEnded
    BY DEF PhaseInv, ClosedInv, Published
  <2>2. verdict = "target" => completed >= TargetJobs
    BY DEF PhaseInv, VerdictInv
  <2> QED
    BY <2>1, <2>2, AtRest
<1> QED
  BY <1>1, PhaseCorrect, CountCorrect, RefinesPool, TypeCorrect, PTL

-----------------------------------------------------------------------------
(* A trial keeps TrialContract. *)

LEMMA ContractStep ==
  ASSUME TypeOK, TypeOK', PhaseInv, PhaseInv', CountInv, CountInv', [Next]_vars
  PROVE  [Contract!ContractNext]_(Contract!contractVars)
<1> USE DEF Contract!contractVars, Contract!ContractNext
<1>1. completed \in Nat /\ errors \in Nat /\ hist \in Nat /\ dropped \in Nat
  BY DEF TypeOK, CountInv
\* The counts are final once they are read.
<1>2. CASE Published
  <2>1. AllEnded /\ collector = "ended"
    BY <1>2 DEF PhaseInv, ClosedInv, Published
  <2>2. UNCHANGED <<task, completed, errors>>
    BY <2>1, PoolAction, QuietPool
  <2>3. hist' = hist
    BY <2>1, CollectorMoves DEF Record, CollectorEnds
  <2>4. /\ Published' /\ verdict' = verdict
        /\ main # "failed" /\ main' # "failed"
    BY <1>2, MainMoves DEF Published, Waiting
  <2> QED
    BY <1>2, <2>2, <2>3, <2>4 DEF Outcome, Result
\* They are read when the collector has ended, after the last worker.
<1>3. CASE ~Published /\ Published'
  <2>1. /\ main = "collect" /\ main' = "clone_errors"
        /\ verdict' = verdict
        /\ collector = "ended"
        /\ UNCHANGED <<completed, errors, hist, dropped>>
    BY <1>3, MainMoves DEF Published, Waiting, poolVars, collectorVars
  <2>2. AllEnded
    BY <2>1 DEF PhaseInv, ClosedInv
  <2>3. hist \in 0 .. completed
    BY <1>1, <2>1, <2>2, AtRest
  <2>4. verdict \in {"target", "timeout", "exited"}
    BY <2>1 DEF PhaseInv, VerdictInv, Waiting
  <2>5. Outcome' = Outcome /\ Outcome \in Contract!Outcomes \ {"refused"}
    BY <2>1, <2>4 DEF Outcome, Contract!Outcomes
  <2>6. /\ ~Result.done
        /\ Result' = [latencies |-> hist, jobs |-> completed, errors |-> errors,
                      done |-> TRUE]
    BY <1>3, <2>1 DEF Result
  <2>7. Contract!Publish
    BY <2>1, <2>3, <2>5, <2>6 DEF Contract!Publish
  <2> QED
    BY <2>7
<1>4. CASE ~Published /\ ~Published'
  <2>0. Result' = Result /\ ~Result.done
    BY <1>4 DEF Result
  <2>1. CASE /\ main \in Waiting /\ main' = "decided"
             /\ verdict' \in {"target", "timeout", "exited"}
             /\ UNCHANGED <<completed, errors>>
    <3>1. verdict = "none"
      BY <2>1 DEF PhaseInv, VerdictInv
    <3>2. verdict' = "target" => completed >= TargetJobs
      BY <2>1 DEF PhaseInv, VerdictInv
    <3>3. Outcome = "running" /\ Outcome' = verdict'
      BY <2>1, <3>1 DEF Outcome, Waiting
    <3>4. verdict' \in Contract!Outcomes
      BY <2>1 DEF Contract!Outcomes
    <3>5. Contract!Conclude(verdict')
      BY <2>0, <2>1, <3>2, <3>3 DEF Contract!Conclude
    <3> QED
      BY <3>4, <3>5
  <2>2. CASE /\ main = "connect" /\ main' = "failed" /\ verdict' = verdict
             /\ UNCHANGED <<completed, errors>>
    <3>1. verdict = "none"
      BY <2>2 DEF PhaseInv, VerdictInv
    <3>2. Outcome = "running" /\ Outcome' = "refused"
      BY <2>2, <3>1 DEF Outcome
    <3>3. Contract!Conclude("refused")
      BY <2>0, <2>2, <3>2 DEF Contract!Conclude
    <3> QED
      BY <3>3 DEF Contract!Outcomes
  <2>3. CASE verdict' = verdict /\ (main' = "failed" <=> main = "failed")
    <3>1. \/ UNCHANGED <<completed, errors>>
          \/ completed' = completed + 1 /\ errors' = errors
          \/ errors' = errors + 1 /\ completed' = completed
      BY WorkingOrRecord, PoolCounts DEF Record, ReceiveSample
    <3>2. Outcome' = Outcome
      BY <2>3 DEF Outcome
    <3> QED
      BY <2>0, <3>1, <3>2 DEF Contract!CountJob, Contract!CountError
  <2> QED
    BY <1>4, <2>1, <2>2, <2>3, MainMoves DEF Published, Waiting, poolVars
<1> QED
  BY <1>2, <1>3, <1>4

(* run_trial implements TrialContract: it decides once, claims success only for
   a reached target, and the counts it reports are final. *)
THEOREM ImplementsContract == Spec => KeepsContract
<1>1. TrialInit => Contract!ContractInit
  BY DEF TrialInit, PoolInit, Contract!ContractInit, Contract!NoResult, Published,
    Outcome, Result
<1>2. TypeOK /\ TypeOK' /\ PhaseInv /\ PhaseInv' /\ CountInv /\ CountInv' /\ [Next]_vars
        => [Contract!ContractNext]_(Contract!contractVars)
  BY ContractStep
<1> QED
  BY <1>1, <1>2, PhaseCorrect, CountCorrect, RefinesPool, TypeCorrect, PTL
    DEF Spec, KeepsContract, Contract!ContractSpec

-----------------------------------------------------------------------------
(* The per-second series: they keep their types, stay aligned while the trial
   waits, and are cloned with lengths that differ by one second at most although
   the monitor may still be writing.

   The argument counts the monitor's ticks.  Every series has as many values as
   there were ticks, or one fewer while the monitor is on its way through a
   sample; an aborted monitor ticks no more, so what is cloned at three different
   moments differs by that one value. *)

Series == [throughput : Seq(Nat), errors : Seq(Nat), latency : [Names -> Seq(Nat)]]

\* The trial's own variables; the previous counts never exceed the counters,
\* so that a delta is not negative.
TrialInv ==
  /\ main \in MainStates
  /\ verdict \in {"none", "target", "timeout", "exited"}
  /\ elapsed \in BOOLEAN
  /\ collector \in {"running", "ended"}
  /\ hist \in Nat /\ dropped \in Nat /\ window \in Nat
  /\ monitor \in MonitorStates
  /\ snapshot \in [status : {"none", "asked", "answered", "dropped"}, count : Nat]
  /\ prev \in [completed : Nat, errors : Nat]
  /\ prev.completed <= completed /\ prev.errors <= errors
  /\ series \in Series /\ report \in Series

LEMMA TimesPositive ==
  ASSUME NEW n \in Names
  PROVE  Times(n) \in Nat /\ Times(n) >= 1
<1> DEFINE S == {j \in DOMAIN Specs : Specs[j] = n}
<1>1. Specs \in Seq(STRING)
  BY SpecsAssumption
<1>2. IsFiniteSet(1 .. Len(Specs)) /\ DOMAIN Specs = 1 .. Len(Specs)
  BY <1>1, FS_Interval
<1>3. IsFiniteSet(S)
  BY <1>2, FS_Subset
<1>4. S # {}
  BY DEF Names
<1> QED
  BY <1>3, <1>4, FS_CardinalityType, FS_EmptySet DEF Times

\* The counters only grow.
LEMMA CountersGrow ==
  ASSUME TypeOK, TypeOK', [Next]_vars
  PROVE  /\ completed \in Nat /\ completed' \in Nat /\ completed <= completed'
         /\ errors \in Nat /\ errors' \in Nat /\ errors <= errors'
<1>1. completed \in Nat /\ errors \in Nat
  BY DEF TypeOK
<1>2. completed' \in {completed, completed + 1} /\ errors' \in {errors, errors + 1}
  BY WorkingOrRecord, PoolCounts DEF Record, ReceiveSample
<1> QED
  BY <1>1, <1>2

\* What is appended when a snapshot is pushed.
LEMMA PushedType ==
  ASSUME TrialInv, NEW n \in Names,
         NEW values, values = [i \in 1 .. Times(n) |-> snapshot.count]
  PROVE  /\ values \in Seq(Nat) /\ Len(values) = Times(n)
         /\ series.latency[n] \in Seq(Nat)
         /\ series.latency[n] \o values \in Seq(Nat)
         /\ Len(series.latency[n] \o values) = Len(series.latency[n]) + Times(n)
<1>1. Times(n) \in Nat /\ snapshot.count \in Nat /\ series.latency[n] \in Seq(Nat)
  BY TimesPositive DEF TrialInv, Series
<1>2. values \in Seq(Nat) /\ Len(values) = Times(n)
  BY <1>1
<1> QED
  BY <1>1, <1>2

\* What the monitor writes keeps its type.
LEMMA SampleTypes ==
  ASSUME NEW s \in Series, NEW x \in Nat
  PROVE  /\ [s EXCEPT !.throughput = Append(s.throughput, x)] \in Series
         /\ [s EXCEPT !.errors = Append(s.errors, x)] \in Series
<1>1. /\ s.throughput \in Seq(Nat) /\ s.errors \in Seq(Nat)
      /\ s.latency \in [Names -> Seq(Nat)]
  BY DEF Series
<1>2. Append(s.throughput, x) \in Seq(Nat) /\ Append(s.errors, x) \in Seq(Nat)
  BY <1>1
<1> QED
  BY <1>1, <1>2 DEF Series

LEMMA PushTypes ==
  ASSUME NEW s \in Series, NEW f \in [Names -> Seq(Nat)]
  PROVE  [s EXCEPT !.latency = f] \in Series
BY DEF Series

LEMMA PrevTypes ==
  ASSUME NEW p \in [completed : Nat, errors : Nat], NEW x \in Nat
  PROVE  /\ [p EXCEPT !.completed = x] = [completed |-> x, errors |-> p.errors]
         /\ [p EXCEPT !.errors = x] = [completed |-> p.completed, errors |-> x]
OBVIOUS

LEMMA TrialInvStep ==
  ASSUME TypeOK, TypeOK', TrialInv, [Next]_vars
  PROVE  TrialInv'
<1>1. /\ completed \in Nat /\ completed' \in Nat /\ completed <= completed'
      /\ errors \in Nat /\ errors' \in Nat /\ errors <= errors'
  BY CountersGrow
<1>2. CASE UNCHANGED trialVars
  BY <1>1, <1>2 DEF TrialInv, trialVars
<1>3. CASE MainStep \/ TimeoutElapses
  <2>1. /\ main' \in MainStates
        /\ verdict' \in {"none", "target", "timeout", "exited"}
        /\ elapsed' \in BOOLEAN
        /\ monitor' \in MonitorStates
    <3>1. /\ main \in MainStates /\ verdict \in {"none", "target", "timeout", "exited"}
          /\ elapsed \in BOOLEAN /\ monitor \in MonitorStates
      BY DEF TrialInv
    <3>2. CASE \/ TimeoutElapses \/ ConnectError \/ \E w \in Workers : Connect(w)
      BY <3>1, <3>2 DEF TimeoutElapses, Connect, ConnectError, MainStates, Waiting,
        MonitorStates, monitorVars
    <3>3. CASE PollDone \/ PollSleep \/ PollJoin
      BY <3>1, <3>3 DEF PollDone, PollSleep, PollJoin, Poll, MainStates, Waiting, monitorVars
    <3>4. CASE \/ StopTrial \/ JoinWorkers \/ DrainTimeout
               \/ CloneThroughput \/ CloneErrors \/ CloneLatency
      BY <3>1, <3>4 DEF StopTrial, JoinWorkers, DrainTimeout, CloneThroughput,
        CloneErrors, CloneLatency, MainStates, Winding, monitorVars
    <3> QED
      BY <1>3, <3>2, <3>3, <3>4 DEF MainStep
  <2>2. UNCHANGED <<collectorVars, snapshot, prev, series>>
    BY <1>3 DEF MainStep, TimeoutElapses, Connect, ConnectError, PollDone,
      PollSleep, PollJoin, Poll, StopTrial, JoinWorkers, DrainTimeout,
      CloneThroughput, CloneErrors, CloneLatency, monitorVars
  <2>3. report' \in Series
    BY <1>3 DEF TrialInv, MainStep, TimeoutElapses, Connect, ConnectError, PollDone,
      PollSleep, PollJoin, Poll, StopTrial, JoinWorkers, DrainTimeout,
      CloneThroughput, CloneErrors, CloneLatency, Series
  <2> QED
    BY <1>1, <2>1, <2>2, <2>3 DEF TrialInv, collectorVars
<1>4. CASE CollectorStep
  <2>0. /\ hist \in Nat /\ dropped \in Nat /\ window \in Nat
        /\ snapshot \in [status : {"none", "asked", "answered", "dropped"}, count : Nat]
    BY DEF TrialInv
  <2>1. /\ collector' \in {"running", "ended"}
        /\ hist' \in Nat /\ dropped' \in Nat /\ window' \in Nat
        /\ snapshot' \in [status : {"none", "asked", "answered", "dropped"}, count : Nat]
    <3>1. CASE Record
      BY <2>0, <3>1 DEF Record
    <3>2. CASE ServeSnapshot
      BY <2>0, <3>2 DEF ServeSnapshot
    <3>3. CASE CollectorEnds
      BY <2>0, <3>3 DEF CollectorEnds
    <3> QED
      BY <1>4, <3>1, <3>2, <3>3 DEF CollectorStep
  <2>2. UNCHANGED <<mainVars, monitorVars>>
    BY <1>4 DEF CollectorStep, Record, ServeSnapshot, CollectorEnds
  <2> QED
    BY <1>1, <2>1, <2>2 DEF TrialInv, mainVars, monitorVars
<1>5. CASE MonitorStep
  <2>1. UNCHANGED <<mainVars, collectorVars, poolVars>>
    BY <1>5 DEF MonitorStep, Tick, SampleThroughput, SampleErrors, AskSnapshot, Park,
      PushLatency, SkipLatency, CancelMonitor
  <2>2. /\ monitor' \in MonitorStates
        /\ snapshot' \in [status : {"none", "asked", "answered", "dropped"}, count : Nat]
    BY <1>5 DEF TrialInv, MonitorStep, Tick, SampleThroughput, SampleErrors,
      AskSnapshot, Park, PushLatency, SkipLatency, CancelMonitor, Resumes,
      MonitorStates, NoSnapshot
  <2>0. /\ prev \in [completed : Nat, errors : Nat] /\ series \in Series
        /\ prev.completed \in Nat /\ prev.errors \in Nat
        /\ prev.completed <= completed /\ prev.errors <= errors
    BY DEF TrialInv
  <2>3. CASE SampleThroughput
    <3>1. completed - prev.completed \in Nat
      BY <1>1, <2>0
    <3>2. /\ series' = [series EXCEPT !.throughput = Append(series.throughput, completed - prev.completed)]
          /\ prev' = [prev EXCEPT !.completed = completed]
      BY <2>3 DEF SampleThroughput
    <3>3. series' \in Series
      BY <2>0, <3>1, <3>2, SampleTypes
    <3>4. prev' = [completed |-> completed, errors |-> prev.errors]
      BY <1>1, <2>0, <3>2, PrevTypes
    <3>5. /\ prev' \in [completed : Nat, errors : Nat]
          /\ prev'.completed <= completed' /\ prev'.errors <= errors'
      BY <1>1, <2>0, <3>4
    <3> QED
      BY <2>1, <2>2, <3>3, <3>5 DEF TrialInv, mainVars, collectorVars
  <2>4. CASE SampleErrors
    <3>1. errors - prev.errors \in Nat
      BY <1>1, <2>0
    <3>2. /\ series' = [series EXCEPT !.errors = Append(series.errors, errors - prev.errors)]
          /\ prev' = [prev EXCEPT !.errors = errors]
      BY <2>4 DEF SampleErrors
    <3>3. series' \in Series
      BY <2>0, <3>1, <3>2, SampleTypes
    <3>4. prev' = [completed |-> prev.completed, errors |-> errors]
      BY <1>1, <2>0, <3>2, PrevTypes
    <3>5. /\ prev' \in [completed : Nat, errors : Nat]
          /\ prev'.completed <= completed' /\ prev'.errors <= errors'
      BY <1>1, <2>0, <3>4
    <3> QED
      BY <2>1, <2>2, <3>3, <3>5 DEF TrialInv, mainVars, collectorVars
  <2>5. CASE PushLatency
    <3> DEFINE pushed == [n \in Names |->
                 series.latency[n] \o [i \in 1 .. Times(n) |-> snapshot.count]]
    <3>1. pushed \in [Names -> Seq(Nat)]
      BY PushedType
    <3>2. series' = [series EXCEPT !.latency = pushed]
      BY <2>5 DEF PushLatency
    <3>3. series' \in Series
      <4> HIDE DEF pushed
      <4> QED
        BY <2>0, <3>1, <3>2, PushTypes
    <3>4. prev' = prev /\ prev.completed <= completed' /\ prev.errors <= errors'
      BY <1>1, <2>0, <2>5 DEF PushLatency
    <3> QED
      BY <2>0, <2>1, <2>2, <3>3, <3>4 DEF TrialInv, mainVars, collectorVars
  <2>6. CASE Tick \/ AskSnapshot \/ Park \/ SkipLatency \/ CancelMonitor
    <3>1. UNCHANGED <<prev, series>>
      BY <2>6 DEF Tick, AskSnapshot, Park, SkipLatency, CancelMonitor
    <3> QED
      BY <1>1, <2>1, <2>2, <3>1 DEF TrialInv, mainVars, collectorVars
  <2> QED
    BY <1>5, <2>3, <2>4, <2>5, <2>6 DEF MonitorStep
<1> QED
  BY <1>2, <1>3, <1>4, <1>5 DEF Next, WorkerStep, ServerStep, Disturbance, Terminated,
    vars

LEMMA TrialInvCorrect == Spec => []TrialInv
<1>1. TrialInit => TrialInv
  <2> SUFFICES ASSUME TrialInit
               PROVE  TrialInv
    OBVIOUS
  <2>1. series \in Series /\ report \in Series
    BY DEF TrialInit, Series
  <2>2. snapshot \in [status : {"none", "asked", "answered", "dropped"}, count : Nat]
    BY DEF TrialInit, NoSnapshot
  <2>3. /\ prev \in [completed : Nat, errors : Nat]
        /\ prev.completed <= completed /\ prev.errors <= errors
    BY DEF TrialInit, PoolInit
  <2> QED
    BY <2>1, <2>2, <2>3 DEF TrialInit, TrialInv, MainStates, MonitorStates
<1>2. TypeOK /\ TypeOK' /\ TrialInv /\ [Next]_vars => TrialInv'
  BY TrialInvStep
<1> QED
  BY <1>1, <1>2, RefinesPool, TypeCorrect, PTL DEF Spec

(* The variables of a trial keep their types; in particular no per-second delta
   is negative, since a previous count never exceeds its counter
   (main.rs:545-607). *)
THEOREM TrialTypeCorrect == Spec => []TrialTypeOK
<1>1. TypeOK /\ TrialInv => TrialTypeOK
  BY DEF TrialInv, TrialTypeOK, Series
<1> QED
  BY <1>1, TrialInvCorrect, RefinesPool, TypeCorrect, PTL

-----------------------------------------------------------------------------
(* How long the series are. *)

Ticks == Len(series.throughput) + Indicator(monitor = "throughput")
InSample == {"throughput", "errors", "ask", "polling", "parked"}

\* The monitor lives from the last connection to its cancellation, and loses
\* the collector only after it was aborted.
MonitorInv ==
  /\ monitor = "unborn" <=> main \in {"connect", "failed"}
  /\ monitor = "cancelled" => MonitorAborted
  /\ snapshot.status = "dropped" => collector = "ended"

\* A series misses the values of the last tick at most: always while the
\* monitor is in a sample, and otherwise only if it was aborted.
LatencyLength(n) ==
  /\ Len(series.latency[n]) \in {Times(n) * (Ticks - 1), Times(n) * Ticks}
  /\ monitor \in {"unborn", "sleep"} /\ ~MonitorAborted =>
       Len(series.latency[n]) = Times(n) * Ticks
  /\ monitor \in InSample => Len(series.latency[n]) = Times(n) * (Ticks - 1)

LengthInv ==
  /\ Len(series.errors) + Indicator(monitor = "errors") = Len(series.throughput)
  /\ \A n \in Names : LatencyLength(n)

LEMMA AbortStays ==
  ASSUME [Next]_vars, MonitorAborted
  PROVE  MonitorAborted'
BY MainMoves DEF MonitorAborted, Winding, Waiting

\* As long as run_trial has not aborted the monitor, the collector is there.
LEMMA CollectorLives ==
  ASSUME ClosedInv, TrialInv, MonitorInv, monitor # "unborn", ~MonitorAborted
  PROVE  collector # "ended"
<1>1. main \in Waiting \union {"decided"}
  BY DEF TrialInv, MonitorInv, MainStates, MonitorAborted
<1> QED
  BY <1>1 DEF ClosedInv, SendersOpen

LEMMA MonitorStays ==
  ASSUME MonitorInv, [Next]_vars
  PROVE  MonitorInv'
<1> USE DEF MonitorInv, MonitorAborted, Winding, Waiting
<1>0. MonitorAborted => MonitorAborted'
  BY AbortStays
<1>1. ASSUME NEW w \in Workers, Connect(w)
      PROVE  MonitorInv'
  BY <1>1 DEF Connect, collectorVars
<1>2. CASE ConnectError
  BY <1>2 DEF ConnectError, collectorVars, monitorVars
<1>3. CASE PollDone \/ PollSleep \/ PollJoin
  BY <1>3 DEF PollDone, PollSleep, PollJoin, Poll, collectorVars, monitorVars
<1>4. CASE StopTrial \/ JoinWorkers \/ DrainTimeout
  BY <1>4 DEF StopTrial, JoinWorkers, DrainTimeout, collectorVars, monitorVars
<1>5. CASE CloneThroughput \/ CloneErrors \/ CloneLatency
  BY <1>5 DEF CloneThroughput, CloneErrors, CloneLatency, collectorVars, monitorVars
<1>6. CASE TimeoutElapses \/ CollectorStep
  BY <1>6 DEF TimeoutElapses, CollectorStep, Record, ServeSnapshot, CollectorEnds,
    collectorVars, monitorVars, mainVars
<1>7. CASE MonitorStep
  BY <1>7 DEF MonitorStep, Tick, SampleThroughput, SampleErrors, AskSnapshot, Park,
    PushLatency, SkipLatency, CancelMonitor, Resumes, NoSnapshot, collectorVars,
    mainVars
<1>8. CASE UNCHANGED trialVars
  BY <1>8 DEF trialVars
<1> QED
  BY <1>1, <1>2, <1>3, <1>4, <1>5, <1>6, <1>7, <1>8
    DEF Next, MainStep, WorkerStep, ServerStep, Disturbance, Terminated, vars

\* The lengths that are compared are numbers.
LEMMA Lengths ==
  ASSUME TrialInv
  PROVE  /\ Len(series.throughput) \in Nat /\ Len(series.errors) \in Nat
         /\ Ticks \in Nat
         /\ \A n \in Names : Len(series.latency[n]) \in Nat
BY DEF TrialInv, Series, Ticks, Indicator

\* What the monitor's samples append.
LEMMA Appended ==
  ASSUME TrialInv
  PROVE  /\ SampleThroughput =>
              /\ Len(series'.throughput) = Len(series.throughput) + 1
              /\ series'.errors = series.errors /\ series'.latency = series.latency
         /\ SampleErrors =>
              /\ Len(series'.errors) = Len(series.errors) + 1
              /\ series'.throughput = series.throughput
              /\ series'.latency = series.latency
         /\ PushLatency =>
              /\ series'.throughput = series.throughput
              /\ series'.errors = series.errors
              /\ \A n \in Names :
                   Len(series'.latency[n]) = Len(series.latency[n]) + Times(n)
<1>1. /\ series \in Series
      /\ series.throughput \in Seq(Nat) /\ series.errors \in Seq(Nat)
  BY DEF TrialInv, Series
<1>2. ASSUME SampleThroughput
      PROVE  /\ Len(series'.throughput) = Len(series.throughput) + 1
             /\ series'.errors = series.errors /\ series'.latency = series.latency
  BY <1>1, <1>2 DEF SampleThroughput, Series
<1>3. ASSUME SampleErrors
      PROVE  /\ Len(series'.errors) = Len(series.errors) + 1
             /\ series'.throughput = series.throughput
             /\ series'.latency = series.latency
  BY <1>1, <1>3 DEF SampleErrors, Series
<1>4. ASSUME PushLatency
      PROVE  /\ series'.throughput = series.throughput
             /\ series'.errors = series.errors
             /\ \A n \in Names :
                  Len(series'.latency[n]) = Len(series.latency[n]) + Times(n)
  <2> DEFINE pushed == [n \in Names |->
               series.latency[n] \o [i \in 1 .. Times(n) |-> snapshot.count]]
  <2>1. series' = [series EXCEPT !.latency = pushed]
    BY <1>4 DEF PushLatency
  <2>2. \A n \in Names : Len(pushed[n]) = Len(series.latency[n]) + Times(n)
    BY PushedType
  <2> HIDE DEF pushed
  <2>3. /\ series'.throughput = series.throughput /\ series'.errors = series.errors
        /\ series'.latency = pushed
    BY <1>1, <2>1 DEF Series
  <2> QED
    BY <2>2, <2>3
<1> QED
  BY <1>2, <1>3, <1>4

LEMMA LengthStep ==
  ASSUME TrialInv, ClosedInv, MonitorInv, LengthInv, [Next]_vars
  PROVE  LengthInv'
<1> DEFINE Rest ==
             Len(series.errors) + Indicator(monitor = "errors") = Len(series.throughput)
<1>0. /\ MonitorAborted => MonitorAborted'
      /\ monitor # "unborn" /\ ~MonitorAborted => collector # "ended"
  BY AbortStays, CollectorLives
<1>1. /\ Len(series.throughput) \in Nat /\ Len(series.errors) \in Nat
      /\ Ticks \in Nat
      /\ monitor \in MonitorStates
  BY Lengths DEF TrialInv
<1>2. Rest /\ \A n \in Names : LatencyLength(n)
  BY DEF LengthInv
\* The monitor does not tick or sample.
<1>3. ASSUME series' = series, Ticks' = Ticks, Rest',
             monitor' \in InSample => monitor \in InSample,
             \/ monitor' \notin {"unborn", "sleep"}
             \/ MonitorAborted'
             \/ monitor \in {"unborn", "sleep"} /\ ~MonitorAborted
      PROVE  LengthInv'
  BY <1>2, <1>3 DEF LengthInv, LatencyLength
<1>4. CASE UNCHANGED <<monitor, series>>
  BY <1>0, <1>2, <1>3, <1>4 DEF Ticks
<1>5. ASSUME NEW w \in Workers, Connect(w)
      PROVE  LengthInv'
  <2>1. series' = series /\ monitor' \in {monitor, "sleep"} /\ monitor = "unborn"
    BY <1>5 DEF Connect, MonitorInv
  <2>2. ~MonitorAborted
    BY <1>5 DEF Connect, MonitorAborted, Winding
  <2> QED
    BY <1>2, <1>3, <2>1, <2>2 DEF Ticks, Indicator, InSample
<1>6. CASE Tick
  <2>1. /\ series' = series /\ monitor = "sleep" /\ monitor' = "throughput"
        /\ ~MonitorAborted
    BY <1>6 DEF Tick
  <2>2. Rest' /\ Ticks' = Ticks + 1
    BY <1>1, <1>2, <2>1 DEF Ticks, Indicator
  <2>3. Ticks' - 1 = Ticks
    BY <1>1, <2>2
  <2>4. ASSUME NEW n \in Names
        PROVE  Len(series'.latency[n]) = Times(n) * (Ticks' - 1)
    BY <1>2, <2>1, <2>3 DEF LatencyLength
  <2> QED
    BY <2>1, <2>2, <2>4 DEF LengthInv, LatencyLength
<1>7. CASE SampleThroughput
  <2>1. monitor = "throughput" /\ monitor' = "errors"
    BY <1>7 DEF SampleThroughput
  <2>2. series'.latency = series.latency /\ Rest' /\ Ticks' = Ticks
    BY <1>1, <1>2, <1>7, <2>1, Appended DEF Ticks, Indicator
  <2> QED
    BY <1>2, <2>1, <2>2 DEF LengthInv, LatencyLength, InSample
<1>8. CASE SampleErrors
  <2>1. monitor = "errors" /\ monitor' = "ask"
    BY <1>8 DEF SampleErrors
  <2>2. series'.latency = series.latency /\ Rest' /\ Ticks' = Ticks
    BY <1>1, <1>2, <1>8, <2>1, Appended DEF Ticks, Indicator
  <2> QED
    BY <1>2, <2>1, <2>2 DEF LengthInv, LatencyLength, InSample
<1>9. CASE AskSnapshot \/ Park \/ SkipLatency \/ CancelMonitor
  <2>1. /\ series' = series
        /\ monitor \in {"ask", "polling", "parked", "sleep"}
        /\ monitor' \in {"polling", "parked", "sleep", "cancelled"}
        /\ monitor = "sleep" => monitor' = "cancelled"
    BY <1>9 DEF AskSnapshot, Park, SkipLatency, CancelMonitor, Resumes
  <2>2. monitor' = "sleep" => MonitorAborted
    BY <1>0, <1>9, <2>1 DEF AskSnapshot, Park, SkipLatency, CancelMonitor, Resumes,
      MonitorInv
  <2>3. Rest' /\ Ticks' = Ticks
    BY <1>2, <2>1 DEF Ticks, Indicator
  <2> QED
    BY <1>0, <1>3, <2>1, <2>2, <2>3 DEF InSample
<1>10. CASE PushLatency
  <2>1. monitor \in {"polling", "parked"} /\ monitor' = "sleep"
    BY <1>10 DEF PushLatency, Resumes
  <2>2. Rest' /\ Ticks' = Ticks
    BY <1>2, <1>10, <2>1, Appended DEF Ticks, Indicator
  <2>3. ASSUME NEW n \in Names
        PROVE  Len(series'.latency[n]) = Times(n) * Ticks'
    <3>1. /\ Len(series'.latency[n]) = Len(series.latency[n]) + Times(n)
          /\ Len(series.latency[n]) = Times(n) * (Ticks - 1)
      BY <1>2, <1>10, <2>1, Appended DEF LatencyLength, InSample
    <3>2. Times(n) \in Nat
      BY TimesPositive
    <3>3. Times(n) * (Ticks - 1) + Times(n) = Times(n) * Ticks
      BY <1>1, <3>2
    <3> QED
      BY <2>2, <3>1, <3>3
  <2> QED
    BY <2>1, <2>2, <2>3 DEF LengthInv, LatencyLength, InSample
<1>11. CASE MainStep \/ TimeoutElapses \/ CollectorStep \/ UNCHANGED trialVars
  <2>1. ASSUME ~ \E w \in Workers : Connect(w)
        PROVE  UNCHANGED <<monitor, series>>
    BY <1>11, <2>1 DEF MainStep, ConnectError, PollDone, PollSleep, PollJoin, Poll,
      StopTrial, JoinWorkers, DrainTimeout, CloneThroughput, CloneErrors,
      CloneLatency, TimeoutElapses, CollectorStep, Record, ServeSnapshot,
      CollectorEnds, monitorVars, trialVars
  <2> QED
    BY <1>4, <1>5, <2>1
<1> QED
  BY <1>6, <1>7, <1>8, <1>9, <1>10, <1>11
    DEF Next, MonitorStep, WorkerStep, ServerStep, Disturbance, Terminated, vars

LEMMA LengthCorrect == Spec => [](TrialInv /\ MonitorInv /\ LengthInv)
<1>1. TrialInit => MonitorInv /\ LengthInv
  <2> SUFFICES ASSUME TrialInit
               PROVE  MonitorInv /\ LengthInv
    OBVIOUS
  <2>1. /\ series.throughput = <<>> /\ series.errors = <<>>
        /\ \A n \in Names : series.latency[n] = <<>>
        /\ monitor = "unborn" /\ main = "connect" /\ snapshot.status = "none"
    BY DEF TrialInit, NoSnapshot
  <2>2. MonitorInv
    BY <2>1 DEF MonitorInv
  <2>3. Len(<<>>) = 0
    OBVIOUS
  <2>4. LengthInv
    <3>1. Ticks = 0
      BY <2>1, <2>3 DEF Ticks, Indicator
    <3>2. \A n \in Names : Times(n) * Ticks = 0
      BY <3>1, TimesPositive
    <3> QED
      BY <2>1, <2>3, <3>2 DEF LengthInv, LatencyLength, Indicator, InSample
  <2> QED
    BY <2>2, <2>4
<1>2. /\ TrialInv /\ PhaseInv /\ MonitorInv /\ LengthInv /\ [Next]_vars
      => MonitorInv' /\ LengthInv'
  BY MonitorStays, LengthStep DEF PhaseInv
<1> QED
  BY <1>1, <1>2, TrialInvCorrect, PhaseCorrect, PTL DEF Spec

(* Between two samples of a trial that waits no series lags behind another:
   every snapshot the monitor asks for is answered, however the collector, the
   workers and the monitor interleave (main.rs:480-496, main.rs:567-607). *)
THEOREM AlignedAtRestCorrect == Spec => []AlignedAtRest
<1>1. TrialInv /\ LengthInv => AlignedAtRest
  <2> SUFFICES ASSUME TrialInv, LengthInv, monitor = "sleep", ~MonitorAborted
               PROVE  /\ Len(series.errors) = Len(series.throughput)
                      /\ \A n \in Names :
                           Len(series.latency[n]) = Times(n) * Len(series.throughput)
    BY DEF AlignedAtRest
  <2>1. Ticks = Len(series.throughput)
    BY Lengths DEF Ticks, Indicator
  <2>2. Len(series.errors) = Len(series.throughput)
    BY Lengths DEF LengthInv, Indicator
  <2>3. \A n \in Names : Len(series.latency[n]) = Times(n) * Ticks
    BY DEF LengthInv, LatencyLength
  <2> QED
    BY <2>1, <2>2, <2>3
<1> QED
  BY <1>1, LengthCorrect, PTL

-----------------------------------------------------------------------------
(* The clones in the report. *)

Within(k) == k \in {Ticks - 1, Ticks}
NameWithin(n, k) == k \in {Times(n) * (Ticks - 1), Times(n) * Ticks}

\* What is cloned misses the values of the last tick at most, and there are no
\* more ticks.
CloneInv ==
  /\ Published => Within(Len(report.throughput))
  /\ main \in {"clone_latency", "returned"} => Within(Len(report.errors))
  /\ main = "returned" => \A n \in Names : NameWithin(n, Len(report.latency[n]))

\* The series as they are cloned.
LEMMA SeriesWithin ==
  ASSUME TrialInv, LengthInv
  PROVE  /\ Within(Len(series.throughput)) /\ Within(Len(series.errors))
         /\ \A n \in Names : NameWithin(n, Len(series.latency[n]))
<1> USE Lengths
<1>1. Within(Len(series.throughput))
  BY DEF Within, Ticks, Indicator
<1>2. Within(Len(series.errors))
  <2>0. /\ Indicator(monitor = "throughput") \in Nat
        /\ Indicator(monitor = "errors") \in Nat
        /\ Indicator(monitor = "throughput") + Indicator(monitor = "errors") <= 1
    BY DEF Indicator
  <2>1. Len(series.errors) + Indicator(monitor = "errors") = Len(series.throughput)
    BY DEF LengthInv
  <2> QED
    BY <2>0, <2>1 DEF Within, Ticks
<1>3. \A n \in Names : NameWithin(n, Len(series.latency[n]))
  BY DEF LengthInv, LatencyLength, NameWithin
<1> QED
  BY <1>1, <1>2, <1>3

LEMMA NoMoreTicks ==
  ASSUME TrialInv, MonitorInv, MonitorAborted, [Next]_vars
  PROVE  Ticks' = Ticks
<1> USE DEF Ticks, Indicator
<1>1. CASE MonitorStep
  <2>1. CASE SampleThroughput
    BY <2>1, Appended, Lengths DEF SampleThroughput
  <2>2. CASE SampleErrors \/ PushLatency
    BY <2>2, Appended DEF SampleErrors, PushLatency, Resumes
  <2>3. CASE AskSnapshot \/ Park \/ SkipLatency \/ CancelMonitor
    BY <2>3 DEF AskSnapshot, Park, SkipLatency, CancelMonitor, Resumes
  <2> QED
    BY <1>1, <2>1, <2>2, <2>3 DEF MonitorStep, Tick
<1>2. CASE MainStep \/ TimeoutElapses \/ CollectorStep \/ UNCHANGED trialVars
  <2>1. main # "connect"
    BY DEF MonitorAborted, Winding
  <2>2. UNCHANGED <<monitor, series>>
    BY <1>2, <2>1 DEF MainStep, Connect, ConnectError, PollDone, PollSleep, PollJoin,
      Poll, StopTrial, JoinWorkers, DrainTimeout, CloneThroughput, CloneErrors,
      CloneLatency, TimeoutElapses, CollectorStep, Record, ServeSnapshot,
      CollectorEnds, monitorVars, trialVars
  <2> QED
    BY <2>2
<1> QED
  BY <1>1, <1>2 DEF Next, WorkerStep, ServerStep, Disturbance, Terminated, vars

LEMMA CloneStep ==
  ASSUME TrialInv, MonitorInv, LengthInv, CloneInv, [Next]_vars
  PROVE  CloneInv'
<1>1. MonitorAborted => Ticks' = Ticks
  BY NoMoreTicks
<1>2. /\ report \in Series /\ series \in Series
  BY DEF TrialInv
<1>3. CASE CloneThroughput
  <2>1. /\ report'.throughput = series.throughput
        /\ main' = "clone_errors" /\ MonitorAborted
    BY <1>2, <1>3 DEF CloneThroughput, Series, MonitorAborted, Winding
  <2> QED
    BY <1>1, <2>1, SeriesWithin DEF CloneInv, Published, Within, NameWithin
<1>4. CASE CloneErrors
  <2>1. /\ report'.throughput = report.throughput /\ report'.errors = series.errors
        /\ main = "clone_errors" /\ main' = "clone_latency" /\ MonitorAborted
    BY <1>2, <1>4 DEF CloneErrors, Series, MonitorAborted, Winding
  <2> QED
    BY <1>1, <1>2, <2>1, SeriesWithin DEF CloneInv, Published, Within, NameWithin
<1>5. CASE CloneLatency
  <2>1. /\ report'.throughput = report.throughput /\ report'.errors = report.errors
        /\ report'.latency = series.latency
        /\ main = "clone_latency" /\ main' = "returned" /\ MonitorAborted
    BY <1>2, <1>5 DEF CloneLatency, Series, MonitorAborted, Winding
  <2> QED
    BY <1>1, <1>2, <2>1, SeriesWithin DEF CloneInv, Published, Within, NameWithin
<1>6. CASE report' = report /\ (Published' => main' = main)
  <2>1. Published => MonitorAborted
    BY DEF Published, MonitorAborted, Winding
  <2>2. Published' => Published
    BY <1>6 DEF Published
  <2> QED
    BY <1>1, <1>6, <2>1, <2>2 DEF CloneInv, Published, Within, NameWithin
<1> QED
  <2>1. CASE MainStep \/ TimeoutElapses \/ CollectorStep \/ MonitorStep
    BY <1>3, <1>4, <1>5, <1>6, <2>1 DEF MainStep, Connect, ConnectError, PollDone,
      PollSleep, PollJoin, Poll, StopTrial, JoinWorkers, DrainTimeout, TimeoutElapses,
      CollectorStep, Record, ServeSnapshot, CollectorEnds, MonitorStep, Tick,
      SampleThroughput, SampleErrors, AskSnapshot, Park, PushLatency, SkipLatency,
      CancelMonitor, mainVars, Published
  <2>2. CASE UNCHANGED trialVars
    BY <1>6, <2>2 DEF trialVars
  <2> QED
    BY <2>1, <2>2 DEF Next, WorkerStep, ServerStep, Disturbance, Terminated, vars

(* The series of a report differ by one second at most, although they are cloned
   one after the other while an aborted monitor may still be finishing a sample,
   and no name has a part of a second (main.rs:567-583, main.rs:665-673). *)
THEOREM SeriesSkewCorrect == Spec => []SeriesSkew
<1>1. TrialInit => CloneInv
  BY DEF TrialInit, CloneInv, Published
<1>2. TrialInv /\ MonitorInv /\ LengthInv /\ CloneInv /\ [Next]_vars => CloneInv'
  BY CloneStep
<1>3. TrialInv /\ CloneInv => SeriesSkew
  <2> SUFFICES ASSUME TrialInv, CloneInv, main = "returned"
               PROVE  SeriesSkew
    BY DEF SeriesSkew
  <2>1. /\ Within(Len(report.throughput)) /\ Within(Len(report.errors))
        /\ \A n \in Names : NameWithin(n, Len(report.latency[n]))
    BY DEF CloneInv, Published
  <2>2. Ticks \in {Len(report.throughput), Len(report.throughput) + 1}
    BY <2>1, Lengths DEF Within
  <2> QED
    BY <2>1, <2>2 DEF SeriesSkew, Within, NameWithin
<1> QED
  BY <1>1, <1>2, <1>3, LengthCorrect, PTL DEF Spec

-----------------------------------------------------------------------------
(* What the series add up to. *)

(* The sums after the monitor's samples. *)
LEMMA AppendedSums ==
  ASSUME TypeOK, TrialInv
  PROVE  /\ SampleThroughput =>
              /\ SumFunction(series'.throughput)
                   = SumFunction(series.throughput) + (completed - prev.completed)
              /\ series'.errors = series.errors /\ series'.latency = series.latency
              /\ prev'.completed = completed /\ prev'.errors = prev.errors
         /\ SampleErrors =>
              /\ SumFunction(series'.errors)
                   = SumFunction(series.errors) + (errors - prev.errors)
              /\ series'.throughput = series.throughput
              /\ series'.latency = series.latency
              /\ prev'.errors = errors /\ prev'.completed = prev.completed
<1>1. /\ series \in Series /\ prev \in [completed : Nat, errors : Nat]
      /\ series.throughput \in Seq(Nat) /\ series.errors \in Seq(Nat)
      /\ completed - prev.completed \in Nat /\ errors - prev.errors \in Nat
  BY DEF TypeOK, TrialInv, Series
<1>2. ASSUME SampleThroughput
      PROVE  /\ series'.throughput = Append(series.throughput, completed - prev.completed)
             /\ series'.errors = series.errors /\ series'.latency = series.latency
             /\ prev'.completed = completed /\ prev'.errors = prev.errors
  BY <1>1, <1>2 DEF SampleThroughput, Series
<1>3. ASSUME SampleErrors
      PROVE  /\ series'.errors = Append(series.errors, errors - prev.errors)
             /\ series'.throughput = series.throughput
             /\ series'.latency = series.latency
             /\ prev'.errors = errors /\ prev'.completed = prev.completed
  BY <1>1, <1>3 DEF SampleErrors, Series
<1>4. /\ SumFunction(Append(series.throughput, completed - prev.completed))
           = SumFunction(series.throughput) + (completed - prev.completed)
      /\ SumFunction(Append(series.errors, errors - prev.errors))
           = SumFunction(series.errors) + (errors - prev.errors)
  BY <1>1, SumOfAppend
<1> QED
  BY <1>2, <1>3, <1>4

LEMMA DeltasStep ==
  ASSUME TypeOK, TypeOK', TrialInv, DeltasAddUp, [Next]_vars
  PROVE  DeltasAddUp'
<1>1. /\ completed \in Nat /\ completed' \in Nat /\ completed <= completed'
      /\ errors \in Nat /\ errors' \in Nat /\ errors <= errors'
  BY CountersGrow
<1>2. prev.completed \in Nat /\ prev.errors \in Nat
  BY DEF TrialInv
<1>3. CASE SampleThroughput
  <2>1. completed' = completed /\ errors' = errors
    BY <1>3 DEF SampleThroughput, poolVars
  <2>2. /\ SumFunction(series'.throughput)
             = SumFunction(series.throughput) + (completed - prev.completed)
        /\ series'.errors = series.errors
        /\ prev'.completed = completed /\ prev'.errors = prev.errors
    BY <1>3, AppendedSums
  <2>3. SumFunction(series'.throughput) = prev'.completed
    BY <1>1, <1>2, <2>2 DEF DeltasAddUp
  <2> QED
    BY <1>1, <1>2, <2>1, <2>2, <2>3 DEF DeltasAddUp
<1>4. CASE SampleErrors
  <2>1. completed' = completed /\ errors' = errors
    BY <1>4 DEF SampleErrors, poolVars
  <2>2. /\ SumFunction(series'.errors)
             = SumFunction(series.errors) + (errors - prev.errors)
        /\ series'.throughput = series.throughput
        /\ prev'.errors = errors /\ prev'.completed = prev.completed
    BY <1>4, AppendedSums
  <2>3. SumFunction(series'.errors) = prev'.errors
    BY <1>1, <1>2, <2>2 DEF DeltasAddUp
  <2> QED
    BY <1>1, <1>2, <2>1, <2>2, <2>3 DEF DeltasAddUp
<1>5. CASE PushLatency
  <2>1. /\ series'.throughput = series.throughput /\ series'.errors = series.errors
        /\ prev' = prev
    BY <1>5, Appended DEF PushLatency
  <2> QED
    BY <1>1, <1>2, <2>1 DEF DeltasAddUp
<1>6. CASE UNCHANGED <<prev, series>>
  BY <1>1, <1>2, <1>6 DEF DeltasAddUp
<1>7. CASE UNCHANGED trialVars
  BY <1>6, <1>7 DEF trialVars
<1>8. CASE MainStep \/ TimeoutElapses \/ CollectorStep
  <2>1. UNCHANGED <<prev, series>>
    BY <1>8 DEF MainStep, Connect, ConnectError, PollDone, PollSleep, PollJoin, Poll,
      StopTrial, JoinWorkers, DrainTimeout, CloneThroughput, CloneErrors,
      CloneLatency, TimeoutElapses, CollectorStep, Record, ServeSnapshot,
      CollectorEnds, monitorVars
  <2> QED
    BY <1>6, <2>1
<1>9. CASE MonitorStep
  BY <1>3, <1>4, <1>5, <1>6, <1>9 DEF MonitorStep, Tick, AskSnapshot, Park, SkipLatency,
    CancelMonitor
<1> QED
  BY <1>7, <1>8, <1>9 DEF Next, WorkerStep, ServerStep, Disturbance, Terminated, vars

(* No job and no error is in two seconds of a report or in none, up to the last
   sample: the deltas sum to the counters they were taken from (main.rs:551-566). *)
THEOREM DeltasAddUpCorrect == Spec => []DeltasAddUp
<1>1. TrialInit => DeltasAddUp
  BY SumOfEmpty DEF TrialInit, PoolInit, DeltasAddUp
<1>2. TypeOK /\ TypeOK' /\ TrialInv /\ DeltasAddUp /\ [Next]_vars => DeltasAddUp'
  BY DeltasStep
<1> QED
  BY <1>1, <1>2, TrialInvCorrect, RefinesPool, TypeCorrect, PTL DEF Spec

-----------------------------------------------------------------------------
(* Where every latency is. *)

(* A snapshot is under way only while the monitor waits for it, and it carries
   values only from the collector's answer to the monitor's push. *)
WindowInv ==
  /\ snapshot.status # "answered" => snapshot.count = 0
  /\ snapshot.status # "none" => monitor \in {"polling", "parked", "cancelled"}
  /\ WindowsPartitionHistogram

\* What the sums and products range over.
LEMMA WindowTypes ==
  ASSUME TrialInv
  PROVE  /\ hist \in Nat /\ window \in Nat /\ snapshot.count \in Nat
         /\ \A n \in Names :
              /\ series.latency[n] \in Seq(Nat)
              /\ SumFunction(series.latency[n]) \in Nat
              /\ Times(n) \in Nat
<1>1. ASSUME NEW n \in Names
      PROVE  series.latency[n] \in Seq(Nat)
  BY DEF TrialInv, Series
<1> QED
  BY <1>1, SumOfSeq, TimesPositive DEF TrialInv

LEMMA Distributes ==
  ASSUME NEW k \in Nat, NEW a \in Nat, NEW b \in Nat
  PROVE  k * (a + b) = k * a + k * b
OBVIOUS

LEMMA OneMore ==
  ASSUME NEW k \in Nat, NEW a \in Nat
  PROVE  k * (a + 1) = k * a + k
OBVIOUS

\* The sums after a snapshot is pushed.
LEMMA PushedSums ==
  ASSUME TrialInv, PushLatency, NEW n \in Names
  PROVE  SumFunction(series'.latency[n])
           = SumFunction(series.latency[n]) + Times(n) * snapshot.count
<1> DEFINE pushed == [m \in Names |->
             series.latency[m] \o [i \in 1 .. Times(m) |-> snapshot.count]]
<1>1. series' = [series EXCEPT !.latency = pushed] /\ series \in Series
  BY DEF PushLatency, TrialInv
<1>2. SumFunction(pushed[n]) = SumFunction(series.latency[n]) + Times(n) * snapshot.count
  BY WindowTypes, SumOfRepeat
<1> HIDE DEF pushed
<1>3. series'.latency = pushed
  BY <1>1 DEF Series
<1> QED
  BY <1>2, <1>3

\* A value is recorded in the trial's histogram and in the current window.
LEMMA RecordKeepsWindows ==
  ASSUME TrialInv, WindowInv, Record
  PROVE  WindowInv'
<1>1. UNCHANGED <<monitor, series, snapshot>>
  BY DEF Record, monitorVars
<1>2. CASE UNCHANGED <<hist, window>>
  BY <1>1, <1>2 DEF WindowInv, WindowsPartitionHistogram
<1>3. CASE hist' = hist + 1 /\ window' = window + 1
  <2>1. ASSUME NEW n \in Names, monitor # "cancelled"
        PROVE  SumFunction(series'.latency[n]) + Times(n) * (snapshot'.count + window')
                 = Times(n) * hist'
    <3> DEFINE c == snapshot.count + window
    <3>0. /\ hist \in Nat /\ window \in Nat /\ snapshot.count \in Nat
          /\ SumFunction(series.latency[n]) \in Nat /\ Times(n) \in Nat
      BY WindowTypes
    <3>1. c \in Nat /\ snapshot'.count + window' = c + 1
      BY <1>1, <1>3, <3>0
    <3>2. SumFunction(series.latency[n]) + Times(n) * c = Times(n) * hist
      BY <2>1 DEF WindowInv, WindowsPartitionHistogram
    <3> HIDE DEF c
    <3>3. /\ Times(n) * (c + 1) = Times(n) * c + Times(n)
          /\ Times(n) * (hist + 1) = Times(n) * hist + Times(n)
      BY <3>0, <3>1, OneMore
    <3>4. Times(n) * c \in Nat /\ Times(n) * hist \in Nat
      BY <3>0, <3>1
    <3>5. SumFunction(series.latency[n]) + (Times(n) * c + Times(n))
            = Times(n) * hist + Times(n)
      BY <3>0, <3>2, <3>4
    <3> QED
      BY <1>1, <1>3, <3>1, <3>3, <3>5
  <2> QED
    BY <1>1, <2>1 DEF WindowInv, WindowsPartitionHistogram
<1> QED
  BY <1>2, <1>3 DEF Record

LEMMA WindowStep ==
  ASSUME TrialInv, MonitorInv, WindowInv, [Next]_vars
  PROVE  WindowInv'
<1> USE DEF WindowInv, WindowsPartitionHistogram
<1>1. CASE UNCHANGED <<hist, window, series, snapshot>>
           /\ (snapshot.status # "none" => monitor' \in {"polling", "parked", "cancelled"})
           /\ (monitor = "cancelled" => monitor' = "cancelled")
  BY <1>1
<1>2. CASE Record
  BY <1>2, RecordKeepsWindows
<1>3. CASE ServeSnapshot
  <2>1. /\ snapshot.count = 0
        /\ snapshot' = [status |-> "answered", count |-> window] /\ window' = 0
        /\ UNCHANGED <<monitor, series, hist>>
        /\ snapshot.status = "asked"
    BY <1>3 DEF ServeSnapshot, monitorVars
  <2>2. snapshot'.count + window' = snapshot.count + window
    BY <2>1, WindowTypes
  <2> QED
    BY <2>1, <2>2
<1>4. CASE CollectorEnds
  <2>1. /\ snapshot \in [status : {"none", "asked", "answered", "dropped"}, count : Nat]
        /\ UNCHANGED <<monitor, series, hist, window>>
    BY <1>4 DEF TrialInv, CollectorEnds, monitorVars
  <2>2. /\ snapshot'.count = snapshot.count
        /\ snapshot'.status = "answered" <=> snapshot.status = "answered"
        /\ snapshot'.status = "none" <=> snapshot.status = "none"
    BY <1>4, <2>1 DEF CollectorEnds
  <2> QED
    BY <2>1, <2>2
<1>5. CASE AskSnapshot
  <2>1. /\ snapshot.status = "none" /\ snapshot.count = 0 /\ snapshot'.count = 0
        /\ snapshot'.status # "none" => monitor' = "polling"
        /\ snapshot'.status # "answered"
        /\ monitor # "cancelled"
        /\ UNCHANGED <<series, hist, window>>
    BY <1>5 DEF AskSnapshot, NoSnapshot, collectorVars
  <2> QED
    BY <2>1
<1>6. CASE PushLatency
  <2>1. /\ snapshot'.status = "none" /\ snapshot'.count = 0
        /\ monitor # "cancelled"
        /\ UNCHANGED <<hist, window>>
    BY <1>6 DEF PushLatency, Resumes, NoSnapshot, collectorVars
  <2>2. ASSUME NEW n \in Names
        PROVE  SumFunction(series'.latency[n]) + Times(n) * (snapshot'.count + window')
                 = Times(n) * hist'
    <3>1. SumFunction(series'.latency[n])
            = SumFunction(series.latency[n]) + Times(n) * snapshot.count
      BY <1>6, PushedSums
    <3>2. SumFunction(series.latency[n]) + Times(n) * (snapshot.count + window)
            = Times(n) * hist
      BY <2>1
    <3>3. Times(n) * (snapshot.count + window)
            = Times(n) * snapshot.count + Times(n) * window
      BY WindowTypes, Distributes
    <3>4. /\ Times(n) * snapshot.count \in Nat /\ Times(n) * window \in Nat
          /\ SumFunction(series.latency[n]) \in Nat
      BY WindowTypes
    <3>5. (SumFunction(series.latency[n]) + Times(n) * snapshot.count) + Times(n) * window
            = Times(n) * hist
      BY <3>2, <3>3, <3>4
    <3>6. snapshot'.count + window' = window
      BY <2>1, WindowTypes
    <3> QED
      BY <2>1, <3>1, <3>5, <3>6
  <2> QED
    BY <2>1, <2>2
<1>7. CASE SkipLatency
  <2>1. /\ snapshot.status = "dropped" /\ snapshot'.status = "none"
        /\ snapshot'.count = 0 /\ snapshot.count = 0
        /\ monitor # "cancelled"
        /\ UNCHANGED <<series, hist, window>>
    BY <1>7 DEF SkipLatency, Resumes, NoSnapshot, collectorVars
  <2> QED
    BY <2>1
<1>8. CASE \/ Tick \/ SampleThroughput \/ SampleErrors \/ Park \/ CancelMonitor
  <2>1. /\ UNCHANGED <<hist, window, snapshot>> /\ series'.latency = series.latency
        /\ monitor # "cancelled"
    BY <1>8, Appended DEF Tick, SampleThroughput, SampleErrors, Park, CancelMonitor,
      collectorVars
  <2>2. snapshot.status # "none" => monitor' \in {"polling", "parked", "cancelled"}
    BY <1>8 DEF Tick, SampleThroughput, SampleErrors, Park, CancelMonitor
  <2> QED
    BY <2>1, <2>2
<1>9. CASE MainStep \/ TimeoutElapses
  <2>1. /\ UNCHANGED <<hist, window, series, snapshot>>
        /\ monitor' = monitor \/ (monitor' = "sleep" /\ main = "connect")
    BY <1>9 DEF MainStep, Connect, ConnectError, PollDone, PollSleep, PollJoin, Poll,
      StopTrial, JoinWorkers, DrainTimeout, CloneThroughput, CloneErrors,
      CloneLatency, TimeoutElapses, collectorVars, monitorVars
  <2>2. main = "connect" => monitor = "unborn"
    BY DEF MonitorInv
  <2> QED
    BY <1>1, <2>1, <2>2
<1>10. CASE UNCHANGED trialVars
  BY <1>1, <1>10 DEF trialVars
<1> QED
  BY <1>2, <1>3, <1>4, <1>5, <1>6, <1>7, <1>8, <1>9, <1>10
    DEF Next, CollectorStep, MonitorStep, WorkerStep, ServerStep, Disturbance,
      Terminated, vars

(* No latency is in two seconds of a report or in none, as long as the monitor
   lives: whatever the histogram of the trial holds was pushed in one window, is
   in the snapshot on its way to the monitor or in the current window
   (main.rs:466-496, main.rs:567-607). *)
THEOREM WindowsPartitionHistogramCorrect == Spec => []WindowsPartitionHistogram
<1>1. TrialInit => WindowInv
  <2> SUFFICES ASSUME TrialInit
               PROVE  WindowInv
    OBVIOUS
  <2>1. /\ snapshot.status = "none" /\ snapshot.count = 0 /\ window = 0 /\ hist = 0
        /\ \A n \in Names : series.latency[n] = <<>>
    BY DEF TrialInit, NoSnapshot
  <2>2. \A n \in Names : Times(n) * (0 + 0) = 0 /\ Times(n) * 0 = 0
    BY TimesPositive
  <2> QED
    BY <2>1, <2>2, SumOfEmpty DEF WindowInv, WindowsPartitionHistogram
<1>2. TrialInv /\ MonitorInv /\ WindowInv /\ [Next]_vars => WindowInv'
  BY WindowStep
<1>3. WindowInv => WindowsPartitionHistogram
  BY DEF WindowInv
<1> QED
  BY <1>1, <1>2, <1>3, LengthCorrect, PTL DEF Spec

-----------------------------------------------------------------------------
(* run_trial is never left waiting for the broker: the part of TrialReturns that
   needs no fairness.  WindsDown of LoadWorkerProofs holds in a trial as well
   (RefinesPool), so after StopTrial workers come nearer to their ends. *)

\* Connecting ends with the last worker, and reaping begins with the two flags.
StartedInv ==
  /\ main = "connect" => \E w \in Workers : task[w] = "unborn"
  /\ main \notin {"connect", "failed"} => \A w \in Workers : task[w] # "unborn"
  /\ main \in {"drain", "reap"} => shutdown
  /\ main = "reap" => aborted

\* A worker that can be cancelled, or has a step to take, without the broker.
Movable(w) ==
  \/ task[w] \in {"spawned", "backoff", "count", "signal"}
  \/ task[w] = "top" /\ MustStop
  \/ task[w] = "await" /\ aborted

\* Where run_trial may be, and who can go on there: it itself (the timers of the
\* select! and of the drain included), every worker that is still to be joined, or
\* the collector, whose channel is closed.
NeverStuck ==
  \/ main = "connect" /\ \E w \in Workers : task[w] = "unborn"
  \/ main \in Waiting \union {"decided", "drain", "clone_errors", "clone_latency",
                               "returned", "failed"}
  \/ main = "reap" /\ \A w \in Workers : task[w] \in Ended \/ Movable(w)
  \/ main = "collect" /\ AllEnded /\ ~SendersOpen

\* Only run_trial spawns, and nobody undoes it.
LEMMA UnbornStay ==
  ASSUME TypeOK, NEW w \in Workers,
         PoolStep \/ SetShutdown \/ AbortAll \/ ReceiveSample \/ UNCHANGED poolVars
  PROVE  task'[w] = "unborn" <=> task[w] = "unborn"
<1> USE DEF TypeOK, Goto
<1>1. ASSUME NEW v \in Workers, TaskStep(v)
      PROVE  task'[w] = "unborn" <=> task[w] = "unborn"
  BY <1>1 DEF TaskStep, Return, IssueBrpop, Wake, HandleTask, HandleForeign, Count,
    Signal, Cancel
<1>2. ASSUME NEW v \in Workers, BrokerStep(v) \/ FaultStep(v)
      PROVE  task'[w] = "unborn" <=> task[w] = "unborn"
  BY <1>2 DEF BrokerStep, ServeBrpop, BrpopTimeout, FaultStep, TransientError, IoError,
    Disconnect, Dead
<1>3. CASE OthersStep \/ SetShutdown \/ AbortAll \/ ReceiveSample \/ UNCHANGED poolVars
  BY <1>3, OthersKeep DEF SetShutdown, AbortAll, ReceiveSample, poolVars
<1> QED
  BY <1>1, <1>2, <1>3 DEF PoolStep

\* What a step may do to run_trial's flags.
LEMMA StartedStep ==
  ASSUME TypeOK, StartedInv, [Next]_vars
  PROVE  StartedInv'
<1> USE DEF StartedInv, Waiting
<1>1. /\ shutdown => shutdown'
      /\ aborted => aborted'
  BY PoolAction, PoolMonotone
<1>2. ASSUME NEW w \in Workers, Connect(w)
      PROVE  StartedInv'
  <2>1. /\ main = "connect" /\ task' = [task EXCEPT ![w] = "spawned"]
        /\ IF \A v \in Workers : task'[v] # "unborn"
           THEN main' = "poll_done" ELSE main' = main
    BY <1>2 DEF Connect, Spawn, Goto
  <2> QED
    BY <2>1
<1>3. ASSUME main' = main,
             PoolStep \/ SetShutdown \/ AbortAll \/ ReceiveSample \/ UNCHANGED poolVars
      PROVE  StartedInv'
  <2>1. \A w \in Workers : task'[w] = "unborn" <=> task[w] = "unborn"
    BY <1>3, UnbornStay
  <2> QED
    BY <1>1, <1>3, <2>1
<1>4. CASE ConnectError
  BY <1>4 DEF ConnectError
<1>5. CASE PollDone \/ PollSleep \/ PollJoin
  BY <1>5 DEF PollDone, PollSleep, PollJoin, Poll, poolVars
<1>6. CASE StopTrial
  BY <1>6 DEF StopTrial, SetShutdown
<1>7. CASE DrainTimeout
  BY <1>7 DEF DrainTimeout, AbortAll
<1>8. CASE JoinWorkers \/ CloneThroughput \/ CloneErrors \/ CloneLatency
  BY <1>8 DEF JoinWorkers, CloneThroughput, CloneErrors, CloneLatency, poolVars
<1>9. CASE TimeoutElapses \/ MonitorStep
  <2>1. main' = main /\ UNCHANGED poolVars
    BY <1>9 DEF TimeoutElapses, MonitorStep, Tick, SampleThroughput, SampleErrors,
      AskSnapshot, Park, PushLatency, SkipLatency, CancelMonitor, mainVars
  <2> QED
    BY <1>3, <2>1
<1>10. CASE CollectorStep
  <2>1. main' = main /\ (ReceiveSample \/ UNCHANGED poolVars)
    BY <1>10 DEF CollectorStep, Record, ServeSnapshot, CollectorEnds, mainVars
  <2> QED
    BY <1>3, <2>1
<1>11. CASE Disturbance \/ \E w \in Workers : WorkerStep(w) \/ ServerStep(w)
  <2>1. main' = main /\ PoolStep
    BY <1>11 DEF Disturbance, WorkerStep, ServerStep, PoolStep, trialVars
  <2> QED
    BY <1>3, <2>1
<1>12. CASE Terminated \/ UNCHANGED vars
  <2>1. main' = main /\ UNCHANGED poolVars
    BY <1>12 DEF Terminated, vars, trialVars
  <2> QED
    BY <1>3, <2>1
<1> QED
  BY <1>2, <1>4, <1>5, <1>6, <1>7, <1>8, <1>9, <1>10, <1>11, <1>12 DEF Next, MainStep

LEMMA StartedCorrect == Spec => []StartedInv
<1>1. TrialInit => StartedInv
  <2> SUFFICES ASSUME TrialInit PROVE StartedInv
    OBVIOUS
  <2>1. main = "connect" /\ \A w \in Workers : task[w] = "unborn"
    BY DEF TrialInit, PoolInit
  <2> QED
    BY <2>1, WorkersAssumption DEF StartedInv
<1>2. TypeOK /\ StartedInv /\ [Next]_vars => StartedInv'
  BY StartedStep
<1> QED
  BY <1>1, <1>2, RefinesPool, TypeCorrect, PTL DEF Spec

(* In every state of a trial that has not returned, run_trial can go on, or all the
   tasks it waits for can, whatever the broker does: no worker that is being reaped
   waits for an answer, and the channel of the collector that is awaited is closed
   (main.rs:606-662). *)
THEOREM NeverStuckCorrect == Spec => []NeverStuck
<1>1. TypeOK /\ TrialTypeOK /\ PhaseInv /\ StartedInv => NeverStuck
  <2> SUFFICES ASSUME TypeOK, TrialTypeOK, PhaseInv, StartedInv
               PROVE  NeverStuck
    OBVIOUS
  <2>1. CASE main = "reap"
    <3>1. shutdown /\ aborted /\ \A w \in Workers : task[w] # "unborn"
      BY <2>1 DEF StartedInv
    <3>2. ASSUME NEW w \in Workers, task[w] \notin Ended
          PROVE  Movable(w)
      <4>1. task[w] \in {"spawned", "top", "await", "count", "signal", "backoff"}
        BY <3>1, <3>2 DEF TypeOK, TaskStates
      <4> QED
        BY <3>1, <4>1 DEF Movable, MustStop
    <3> QED
      BY <2>1, <3>2 DEF NeverStuck
  <2>2. CASE main = "collect"
    <3>1. AllEnded
      BY <2>2 DEF PhaseInv, ClosedInv
    <3>2. ~SendersOpen
      BY <2>2, <3>1 DEF SendersOpen, HoldsSender, AllEnded, Waiting
    <3> QED
      BY <2>2, <3>1, <3>2 DEF NeverStuck
  <2>3. CASE main = "connect"
    BY <2>3 DEF StartedInv, NeverStuck
  <2>4. CASE main \notin {"reap", "collect", "connect"}
    BY <2>4 DEF TrialTypeOK, MainStates, Winding, NeverStuck
  <2> QED
    BY <2>1, <2>2, <2>3, <2>4
<1> QED
  BY <1>1, RefinesPool, TypeCorrect, TrialTypeCorrect, PhaseCorrect, StartedCorrect, PTL

\* While run_trial awaits the collector nothing is added to its channel.
CollectorCatchesUp == [][main = "collect" => Len(samples') <= Len(samples)]_vars

LEMMA CatchUpStep ==
  ASSUME TypeOK, TypeOK', PhaseInv, main = "collect", [Next]_vars
  PROVE  Len(samples') <= Len(samples)
<1>1. AllEnded
  BY DEF PhaseInv, ClosedInv
<1>2. Len(samples) \in Nat /\ Len(samples') \in Nat
  BY DEF TypeOK
<1>3. ASSUME samples' = samples
      PROVE  Len(samples') <= Len(samples)
  BY <1>2, <1>3
<1>4. CASE ReceiveSample
  <2>1. samples # <<>> /\ samples' = Tail(samples)
    BY <1>4 DEF ReceiveSample
  <2>2. Len(samples') = Len(samples) - 1
    BY <2>1 DEF TypeOK
  <2> QED
    BY <1>2, <2>2
<1>5. ASSUME NEW w \in Workers, TaskStep(w)
      PROVE  FALSE
  BY <1>1, <1>5 DEF AllEnded, Ended, Dead, TaskStep, Return, IssueBrpop, Wake,
    HandleTask, HandleForeign, Count, Signal, Cancel
<1>6. ASSUME NEW w \in Workers, BrokerStep(w) \/ FaultStep(w) \/ Spawn(w)
      PROVE  samples' = samples
  BY <1>6 DEF BrokerStep, ServeBrpop, BrpopTimeout, FaultStep, TransientError, IoError,
    Disconnect, Spawn
<1>7. CASE OthersStep \/ SetShutdown \/ AbortAll \/ UNCHANGED poolVars
  BY <1>3, <1>7, OthersKeep DEF SetShutdown, AbortAll, poolVars
<1> QED
  BY <1>3, <1>4, <1>5, <1>6, <1>7, PoolAction DEF PoolNext, PoolStep, Environment

(* The collector run_trial awaits only has the samples to take that are buffered
   already (main.rs:645, main.rs:659). *)
THEOREM CollectorCatchesUpCorrect == Spec => CollectorCatchesUp
<1>1. TypeOK /\ TypeOK' /\ PhaseInv /\ [Next]_vars
        => [main = "collect" => Len(samples') <= Len(samples)]_vars
  BY CatchUpStep
<1> QED
  BY <1>1, RefinesPool, TypeCorrect, PhaseCorrect, PTL DEF Spec, CollectorCatchesUp
=============================================================================
