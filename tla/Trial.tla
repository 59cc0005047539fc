------------------------------- MODULE Trial -------------------------------
(***************************************************************************)
(* run_trial (main.rs): one benchmark trial.                               *)
(*                                                                         *)
(* Four kinds of tasks run concurrently on the multi-threaded runtime: the *)
(* worker pool (LoadWorker), the histogram collector, the one-second       *)
(* monitor and run_trial itself, which opens the connections, waits in a   *)
(* biased select! for the target, the timeout or the end of all workers,   *)
(* shuts the pool down, aborts stragglers and assembles the result.  They  *)
(* share atomics and channels; every atomic access, channel operation and  *)
(* poll is one step.                                                       *)
(*                                                                         *)
(* Abstraction: a histogram is the number of values recorded in it, since  *)
(* what can go wrong between the tasks is which samples reach it.          *)
(***************************************************************************)
EXTENDS LoadWorker, Functions

CONSTANTS
  Specs,     \* names in --latency-percentiles, in the order given
  MaxTicks   \* bound: seconds for which the monitor samples

ASSUME SpecsAssumption == Specs \in Seq(STRING)
ASSUME TicksAssumption == MaxTicks \in Nat

VARIABLES
  main,       \* where run_trial is
  verdict,    \* the select! branch that ended the wait
  elapsed,    \* the --timeout sleep has run out
  collector,  \* the collector task
  hist,       \* values in the trial-long histogram
  dropped,    \* values Histogram::record refused
  window,     \* values in the histogram of the current second
  monitor,    \* where the monitor task is
  snapshot,   \* the monitor's snapshot request and the oneshot reply to it
  prev,       \* the monitor's prev_completed and prev_errors
  series,     \* the three shared sample vectors
  report      \* what run_trial has cloned from them

trialVars == <<main, verdict, elapsed, collector, hist, dropped, window,
               monitor, snapshot, prev, series, report>>
mainVars == <<main, verdict, elapsed, report>>
collectorVars == <<collector, hist, dropped, window>>
monitorVars == <<monitor, prev, series>>
vars == <<poolVars, trialVars>>

-----------------------------------------------------------------------------

Waiting == {"poll_done", "poll_sleep", "poll_join"}
Winding == {"drain", "reap", "collect", "clone_errors", "clone_latency"}
MainStates ==
  Waiting \union Winding \union {"connect", "decided", "returned", "failed"}

\* The monitor sleeps, is between two of its samples, is polled while it waits
\* for a snapshot, or has given up the thread while it waits.
MonitorStates ==
  {"unborn", "sleep", "throughput", "errors", "ask", "polling", "parked",
   "cancelled"}

NoSnapshot == [status |-> "none", count |-> 0]

Names == {Specs[i] : i \in DOMAIN Specs}

\* How often a name was given.
Times(name) == Cardinality({i \in DOMAIN Specs : Specs[i] = name})

(* Mutated form of MonitorAborted: the call is missing. *)
MonitorNeverAborted == FALSE

\* monitor.abort() has been called.
MonitorAborted == main \in Winding \union {"returned"}

(* Mutated forms of SendersOpen: run_trial never drops the sender inside its
   LoadWorker template, or keeps no sentinel of its own. *)
SendersOpenTemplate ==
  \/ main # "failed"
  \/ \E w \in Workers : HoldsSender(w)

SendersOpenNoSentinel ==
  \/ main = "connect"
  \/ \E w \in Workers : HoldsSender(w)

(* The latency channel is open while run_trial keeps its sentinel, or, until
   every worker is spawned, the sender of its LoadWorker template, and while
   a worker lives. *)
SendersOpen ==
  \/ main \in Waiting \union {"connect", "decided"}
  \/ \E w \in Workers : HoldsSender(w)

TrialInit ==
  /\ PoolInit
  /\ main = "connect"
  /\ verdict = "none"
  /\ elapsed = FALSE
  /\ collector = "running"
  /\ hist = 0
  /\ dropped = 0
  /\ window = 0
  /\ monitor = "unborn"
  /\ snapshot = NoSnapshot
  /\ prev = [completed |-> 0, errors |-> 0]
  /\ series = [throughput |-> <<>>, errors |-> <<>>,
               latency |-> [n \in Names |-> <<>>]]
  /\ report = series

-----------------------------------------------------------------------------
(* run_trial. *)

(* Open one more worker connection and spawn its task; after the last one the
   monitor starts and run_trial enters the select!. *)
Connect(w) ==
  /\ main = "connect"
  /\ Spawn(w)
  /\ IF \A v \in Workers : task'[v] # "unborn"
     THEN main' = "poll_done" /\ monitor' = "sleep"
     ELSE UNCHANGED <<main, monitor>>
  /\ UNCHANGED <<verdict, elapsed, report, collectorVars, snapshot, prev,
                 series>>

(* A connection cannot be opened: run_trial returns the error at once, which
   drops the JoinSet and with it aborts the workers already running. *)
ConnectError ==
  /\ main = "connect"
  /\ \E w \in Workers : task[w] = "unborn"
  /\ AbortAll
  /\ main' = "failed"
  /\ UNCHANGED <<verdict, elapsed, report, collectorVars, monitorVars,
                 snapshot>>

(* The sleep of the select! starts with it. *)
TimeoutElapses ==
  /\ main \in Waiting
  /\ elapsed' = TRUE
  /\ UNCHANGED <<poolVars, main, verdict, report, collectorVars, monitorVars,
                 snapshot>>

(* One branch of the select! is polled: if it is ready it decides, otherwise
   the next one is polled.  The pass over the three branches is not atomic. *)
Poll(branch, ready, outcome, next) ==
  /\ main = branch
  /\ IF ready
     THEN main' = "decided" /\ verdict' = outcome
     ELSE main' = next /\ UNCHANGED verdict
  /\ UNCHANGED <<poolVars, elapsed, report, collectorVars, monitorVars,
                 snapshot>>

PollDone == Poll("poll_done", done, "target", "poll_sleep")
PollSleep == Poll("poll_sleep", elapsed, "timeout", "poll_join")
PollJoin == Poll("poll_join", AllEnded, "exited", "poll_done")

(* Abort the monitor, tell the workers to stop, drop the sentinel. *)
StopTrial ==
  /\ main = "decided"
  /\ SetShutdown
  /\ main' = "drain"
  /\ UNCHANGED <<verdict, elapsed, report, collectorVars, monitorVars,
                 snapshot>>

(* Every worker is joined within the five seconds, or those that are left are
   aborted and joined.  The deadline may pass just after the last one ended. *)
JoinWorkers ==
  /\ main \in {"drain", "reap"}
  /\ AllEnded
  /\ main' = "collect"
  /\ UNCHANGED <<poolVars, verdict, elapsed, report, collectorVars,
                 monitorVars, snapshot>>

DrainTimeout ==
  /\ main = "drain"
  /\ AbortAll
  /\ main' = "reap"
  /\ UNCHANGED <<verdict, elapsed, report, collectorVars, monitorVars,
                 snapshot>>

(* The collector is awaited, then each of the three vectors is cloned under
   its own lock. *)
CloneThroughput ==
  /\ main = "collect"
  /\ collector = "ended"
  /\ report' = [report EXCEPT !.throughput = series.throughput]
  /\ main' = "clone_errors"
  /\ UNCHANGED <<poolVars, verdict, elapsed, collectorVars, monitorVars,
                 snapshot>>

CloneErrors ==
  /\ main = "clone_errors"
  /\ report' = [report EXCEPT !.errors = series.errors]
  /\ main' = "clone_latency"
  /\ UNCHANGED <<poolVars, verdict, elapsed, collectorVars, monitorVars,
                 snapshot>>

CloneLatency ==
  /\ main = "clone_latency"
  /\ report' = [report EXCEPT !.latency = series.latency]
  /\ main' = "returned"
  /\ UNCHANGED <<poolVars, verdict, elapsed, collectorVars, monitorVars,
                 snapshot>>

MainStep ==
  \/ \E w \in Workers : Connect(w)
  \/ ConnectError
  \/ PollDone
  \/ PollSleep
  \/ PollJoin
  \/ StopTrial
  \/ JoinWorkers
  \/ DrainTimeout
  \/ CloneThroughput
  \/ CloneErrors
  \/ CloneLatency

-----------------------------------------------------------------------------
(* The collector, whose select! takes a sample or a snapshot request. *)

Record ==
  /\ collector = "running"
  /\ ReceiveSample
  /\ IF Head(samples) = "inRange"
     THEN hist' = hist + 1 /\ window' = window + 1 /\ UNCHANGED dropped
     ELSE dropped' = dropped + 1 /\ UNCHANGED <<hist, window>>
  /\ UNCHANGED <<mainVars, collector, monitorVars, snapshot>>

(* Mutated form of ServeSnapshot: the window is not reset. *)
ServeSnapshotNoReset ==
  /\ collector = "running"
  /\ snapshot.status = "asked"
  /\ snapshot' = [status |-> "answered", count |-> window]
  /\ UNCHANGED <<poolVars, mainVars, collectorVars, monitorVars>>

ServeSnapshot ==
  /\ collector = "running"
  /\ snapshot.status = "asked"
  /\ snapshot' = [status |-> "answered", count |-> window]
  /\ window' = 0
  /\ UNCHANGED <<poolVars, mainVars, collector, hist, dropped, monitorVars>>

(* Mutated form of CollectorEnds: it does not drain what is buffered. *)
CollectorEndsEarly ==
  /\ collector = "running"
  /\ ~SendersOpen
  /\ collector' = "ended"
  /\ snapshot' = IF snapshot.status = "asked"
                  THEN [snapshot EXCEPT !.status = "dropped"] ELSE snapshot
  /\ UNCHANGED <<poolVars, mainVars, hist, dropped, window, monitorVars>>

(* recv() returns None: the channel is closed and empty.  A request that has
   not been answered is dropped with the receiver. *)
CollectorEnds ==
  /\ collector = "running"
  /\ ~SendersOpen
  /\ samples = <<>>
  /\ collector' = "ended"
  /\ snapshot' = IF snapshot.status = "asked"
                  THEN [snapshot EXCEPT !.status = "dropped"] ELSE snapshot
  /\ UNCHANGED <<poolVars, mainVars, hist, dropped, window, monitorVars>>

CollectorStep == Record \/ ServeSnapshot \/ CollectorEnds

-----------------------------------------------------------------------------
(* The monitor.  Aborting it takes effect where it is parked: in its sleep or
   while it waits for a snapshot that is not there yet. *)

Tick ==
  /\ monitor = "sleep"
  /\ ~MonitorAborted
  /\ Len(series.throughput) < MaxTicks
  /\ monitor' = "throughput"
  /\ UNCHANGED <<poolVars, mainVars, collectorVars, snapshot, prev, series>>

SampleThroughput ==
  /\ monitor = "throughput"
  /\ series' = [series EXCEPT !.throughput = Append(@, completed - prev.completed)]
  /\ prev' = [prev EXCEPT !.completed = completed]
  /\ monitor' = "errors"
  /\ UNCHANGED <<poolVars, mainVars, collectorVars, snapshot>>

(* Mutated forms of SampleErrors: the delta is taken from the wrong previous
   value, and prev_errors is never updated. *)
SampleErrorsWrongPrev ==
  /\ monitor = "errors"
  /\ series' = [series EXCEPT !.errors = Append(@, errors - prev.completed)]
  /\ prev' = [prev EXCEPT !.errors = errors]
  /\ monitor' = "ask"
  /\ UNCHANGED <<poolVars, mainVars, collectorVars, snapshot>>

SampleErrorsStalePrev ==
  /\ monitor = "errors"
  /\ series' = [series EXCEPT !.errors = Append(@, errors - prev.errors)]
  /\ monitor' = "ask"
  /\ UNCHANGED <<poolVars, mainVars, collectorVars, snapshot, prev>>

SampleErrors ==
  /\ monitor = "errors"
  /\ series' = [series EXCEPT !.errors = Append(@, errors - prev.errors)]
  /\ prev' = [prev EXCEPT !.errors = errors]
  /\ monitor' = "ask"
  /\ UNCHANGED <<poolVars, mainVars, collectorVars, snapshot>>

(* Sending fails once the collector is gone; the second then has no latency. *)
AskSnapshot ==
  /\ monitor = "ask"
  /\ IF collector = "ended"
     THEN monitor' = "sleep" /\ UNCHANGED snapshot
     ELSE monitor' = "polling" /\ snapshot' = [NoSnapshot EXCEPT !.status = "asked"]
  /\ UNCHANGED <<poolVars, mainVars, collectorVars, prev, series>>

Park ==
  /\ monitor = "polling"
  /\ snapshot.status = "asked"
  /\ monitor' = "parked"
  /\ UNCHANGED <<poolVars, mainVars, collectorVars, snapshot, prev, series>>

\* The monitor is polled with the outcome of its request at hand.
Resumes(outcome) ==
  /\ monitor = "polling" \/ (monitor = "parked" /\ ~MonitorAborted)
  /\ snapshot.status = outcome
  /\ snapshot' = NoSnapshot
  /\ monitor' = "sleep"

(* One value is pushed for every spec, under its name. *)
PushLatency ==
  /\ Resumes("answered")
  /\ series' = [series EXCEPT !.latency = [n \in Names |->
                  @[n] \o [i \in 1 .. Times(n) |-> snapshot.count]]]
  /\ UNCHANGED <<poolVars, mainVars, collectorVars, prev>>

SkipLatency ==
  /\ Resumes("dropped")
  /\ UNCHANGED <<poolVars, mainVars, collectorVars, prev, series>>

CancelMonitor ==
  /\ MonitorAborted
  /\ monitor \in {"sleep", "parked"}
  /\ monitor' = "cancelled"
  /\ UNCHANGED <<poolVars, mainVars, collectorVars, snapshot, prev, series>>

MonitorStep ==
  \/ Tick
  \/ SampleThroughput
  \/ SampleErrors
  \/ AskSnapshot
  \/ Park
  \/ PushLatency
  \/ SkipLatency
  \/ CancelMonitor

-----------------------------------------------------------------------------

WorkerStep(w) == TaskStep(w) /\ UNCHANGED trialVars
ServerStep(w) == BrokerStep(w) /\ UNCHANGED trialVars

Disturbance ==
  /\ OthersStep \/ \E w \in Workers : FaultStep(w)
  /\ UNCHANGED trialVars

(* run_trial has returned and nothing is left of the tasks it spawned. *)
Terminated ==
  /\ main \in {"returned", "failed"}
  /\ UNCHANGED vars

Next ==
  \/ MainStep
  \/ TimeoutElapses
  \/ CollectorStep
  \/ MonitorStep
  \/ \E w \in Workers : WorkerStep(w) \/ ServerStep(w)
  \/ Disturbance
  \/ Terminated

Spec == TrialInit /\ [][Next]_vars

(* The runtime polls every task that can run, and run_trial's connections are
   opened or refused. *)
RuntimeFairness ==
  /\ WF_vars(MainStep)
  /\ WF_vars(CollectorStep)
  /\ WF_vars(MonitorStep)
  /\ \A w \in Workers : WF_vars(WorkerStep(w))

TimerFairness == WF_vars(TimeoutElapses)
ServerFairness == \A w \in Workers : WF_vars(ServerStep(w))

FairSpec == Spec /\ RuntimeFairness

-----------------------------------------------------------------------------

TrialTypeOK ==
  /\ TypeOK
  /\ main \in MainStates
  /\ verdict \in {"none", "target", "timeout", "exited"}
  /\ elapsed \in BOOLEAN
  /\ collector \in {"running", "ended"}
  /\ hist \in Nat /\ dropped \in Nat /\ window \in Nat
  /\ monitor \in MonitorStates
  /\ snapshot \in [status : {"none", "asked", "answered", "dropped"}, count : Nat]
  /\ prev \in [completed : Nat, errors : Nat]
  /\ \A s \in {series, report} :
       s \in [throughput : Seq(Nat), errors : Seq(Nat), latency : [Names -> Seq(Nat)]]

\* The counts are read when the collector has ended.
Published == main \in {"clone_errors", "clone_latency", "returned"}

Outcome ==
  IF main = "failed" THEN "refused"
  ELSE IF verdict = "none" THEN "running" ELSE verdict

Result ==
  IF Published
  THEN [latencies |-> hist, jobs |-> completed, errors |-> errors, done |-> TRUE]
  ELSE [latencies |-> 0, jobs |-> 0, errors |-> 0, done |-> FALSE]

Contract == INSTANCE TrialContract WITH
  jobs <- completed, errs <- errors, outcome <- Outcome, result <- Result

(* run_trial keeps the contract: counts that are reported are final, because
   every worker has ended before they are read. *)
KeepsContract == Contract!ContractSpec

-----------------------------------------------------------------------------

\* Claims of the code's comments that the code does not keep.

(* main.rs:609: polling done_rx first makes "target reached" always win. *)
TargetWinsTies == verdict = "exited" => completed < TargetJobs

(* main.rs:466: a window holds the latencies of the jobs counted in the same
   second.  Every job sends its latency before it is counted, so at the least
   the windows are never behind the counts. *)
WindowsKeepUp ==
  errors + dropped = 0 /\ monitor = "sleep" /\ ~MonitorAborted =>
    \A n \in Names : SumFunction(series.throughput) <= SumFunction(series.latency[n])

-----------------------------------------------------------------------------

(* A trial that ends because every worker exited has missed its target only
   if every one of them lost its connection. *)
GiveUpOnlyOnDeadWorkers ==
  verdict = "exited" /\ completed < TargetJobs =>
    \A w \in Workers : task[w] = "failed"

(* A trial that reports success has processed its jobs, and the report adds
   up: every counted job has a latency in the histogram, was refused by it, or
   was an error; and no latency belongs to an uncounted job. *)
ReportAddsUp ==
  main = "returned" =>
    /\ verdict = "target" => completed >= TargetJobs
    /\ hist + dropped <= completed
    /\ completed <= hist + dropped + errors

(* Every latency is in exactly one second's window: the windows already
   pushed, the one on its way to the monitor and the current one partition the
   trial's histogram, as long as the monitor lives. *)
WindowsPartitionHistogram ==
  monitor # "cancelled" =>
    \A n \in Names :
      SumFunction(series.latency[n]) + Times(n) * (snapshot.count + window) = Times(n) * hist

(* The per-second deltas add up to the counters they were taken from. *)
DeltasAddUp ==
  /\ SumFunction(series.throughput) = prev.completed
  /\ SumFunction(series.errors) = prev.errors
  /\ prev.completed <= completed /\ prev.errors <= errors

(* While the trial waits, the collector is there to answer the monitor, so
   between two samples the three series have the same number of seconds.  A
   percentile that was given twice has two values for each of them. *)
AlignedAtRest ==
  monitor = "sleep" /\ ~MonitorAborted =>
    /\ Len(series.errors) = Len(series.throughput)
    /\ \A n \in Names : Len(series.latency[n]) = Times(n) * Len(series.throughput)

(* The three vectors are cloned one after the other while an aborted monitor may
   still be finishing its last sample: they may have different lengths, in
   either direction, but only by one second, which no name has half of. *)
SeriesSkew ==
  main = "returned" =>
    \E last \in {Len(report.throughput), Len(report.throughput) + 1} :
      /\ Len(report.errors) \in {last - 1, last}
      /\ \A n \in Names :
           Len(report.latency[n]) \in {Times(n) * (last - 1), Times(n) * last}

(* With the --timeout timer run_trial always returns, even if the broker never
   answers again. *)
TrialReturns == TimerFairness => <>(main \in {"returned", "failed"})

(* If the broker answers, however far away the timeout, the trial reaches its
   target, unless the timeout comes first after all, a worker loses its
   connection, a connection is refused, or a BRPOP that an earlier trial left
   behind has taken a job. *)
ReachesTarget ==
  ServerFairness =>
    <>(\/ done \/ elapsed \/ main = "failed"
       \/ \E w \in Workers : task[w] \in Dead
       \/ orphans.served > 0)
=============================================================================
