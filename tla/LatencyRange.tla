---------------------------- MODULE LatencyRange ----------------------------
(***************************************************************************)
(* Which latencies a trial can measure and which of them its histogram can *)
(* hold: the stamps of bulk_enqueue (producer.rs, job.rs), the clock and   *)
(* the timer of run_trial and empty_histogram (main.rs), and the latency   *)
(* that a worker sends (worker.rs).                                        *)
(*                                                                         *)
(* A job is stamped when it is enqueued, which is before run_trial opens   *)
(* its connections, which is before the --timeout timer starts.            *)
(*                                                                         *)
(* Stamps and latencies are readings of the wall clock, which may be set   *)
(* forward or back at any time; timers run on the monotonic clock.         *)
(*                                                                         *)
(* Abstraction: coarse ticks; timers fire on time, and dequeueing,         *)
(* recording and deciding take no time.                                    *)
(***************************************************************************)
EXTENDS Naturals, Sequences, Arithmetic

CONSTANTS
  Jobs,        \* n_jobs
  Timeout,     \* --timeout
  MinHistMax,  \* MIN_HIST_MAX_US
  MaxHistMax,  \* MAX_HIST_MAX_US
  SubBuckets,  \* values an HDR histogram holds without doubling its range
  Drain,       \* the five seconds for which stopping workers are awaited
  MaxClock,    \* bound: ticks
  MaxOffset    \* bound: how far the wall clock can be ahead of the ticks

ASSUME TimesAssumption ==
  /\ {Jobs, Timeout, MinHistMax, MaxHistMax, SubBuckets} \subseteq Nat \ {0}
  /\ {Drain, MaxClock, MaxOffset} \subseteq Nat
  /\ MinHistMax <= MaxHistMax

VARIABLES
  now,       \* the monotonic clock
  offset,    \* what the wall clock is ahead of it
  offsets,   \* the smallest and the largest offset there was
  stage,     \* what main() is doing
  stamps,    \* enqueued_at_ns of the jobs that wait, oldest first, and when
             \* they were really enqueued
  enqueued,  \* how many jobs were enqueued
  deadline,  \* when the timer that runs fires
  recorded,  \* latencies in the histogram, and how long the jobs waited
  lost       \* the same of what Histogram::record refused

clockVars == <<now, offset, offsets>>
vars == <<clockVars, stage, stamps, enqueued, deadline, recorded, lost>>

-----------------------------------------------------------------------------

(* Mutated form of Bound: the range does not depend on --timeout. *)
BoundFixed == MinHistMax

(* empty_histogram clamps what it is asked for. *)
Bound ==
  IF Timeout < MinHistMax THEN MinHistMax
  ELSE IF Timeout > MaxHistMax THEN MaxHistMax
  ELSE Timeout

(* new_with_bounds doubles the range until the bound is in it. *)
HistogramRange ==
  LET Covers(k) == SubBuckets * Pow(2, k) > Bound
  IN SubBuckets * Pow(2, CHOOSE k \in 0 .. Bound : Covers(k) /\ \A j \in 0 .. k - 1 : ~Covers(j))

Recordable(latency) == latency < HistogramRange

Wall == now + offset

(* Mutated forms of Latency: a job taken at once measures nothing, and the
   subtraction wraps, in a word of six bits. *)
LatencyZero(stamp) == IF Wall >= stamp THEN Wall - stamp ELSE 1

LatencyWraps(stamp) ==
  LET elapsed == (Wall + 64 - stamp) % 64
  IN IF elapsed > 1 THEN elapsed ELSE 1

(* A stamp ahead of the clock counts as the smallest latency there is. *)
Latency(stamp) ==
  IF Wall >= stamp /\ Wall - stamp > 1 THEN Wall - stamp ELSE 1

-----------------------------------------------------------------------------

Init ==
  /\ now = 0
  /\ offset \in 0 .. MaxOffset
  /\ offsets = [low |-> offset, high |-> offset]
  /\ stage = "enqueue"
  /\ stamps = <<>>
  /\ enqueued = 0
  /\ deadline = 0
  /\ recorded = {}
  /\ lost = {}

TimePasses ==
  /\ now < MaxClock
  /\ stage \in {"wait", "drain"} => now < deadline
  /\ now' = now + 1
  /\ UNCHANGED <<offset, offsets, stage, stamps, enqueued, deadline, recorded, lost>>

(* Somebody, or NTP, sets the wall clock. *)
SetClock ==
  /\ offset' \in 0 .. MaxOffset
  /\ offsets' = [low  |-> IF offset' < offsets.low THEN offset' ELSE offsets.low,
                 high |-> IF offset' > offsets.high THEN offset' ELSE offsets.high]
  /\ UNCHANGED <<now, stage, stamps, enqueued, deadline, recorded, lost>>

Enqueue ==
  /\ stage = "enqueue"
  /\ enqueued < Jobs
  /\ enqueued' = enqueued + 1
  /\ stamps' = Append(stamps, [wall |-> Wall, at |-> now])
  /\ UNCHANGED <<clockVars, stage, deadline, recorded, lost>>

StartTrial ==
  /\ stage = "enqueue"
  /\ enqueued = Jobs
  /\ stage' = "connect"
  /\ UNCHANGED <<clockVars, stamps, enqueued, deadline, recorded, lost>>

(* All workers are connected: the select! starts, and its timer with it. *)
StartTimer ==
  /\ stage = "connect"
  /\ stage' = "wait"
  /\ deadline' = now + Timeout
  /\ UNCHANGED <<clockVars, stamps, enqueued, recorded, lost>>

(* The first workers run while later ones are still being connected. *)
Dequeue ==
  /\ stage \in {"connect", "wait", "drain"}
  /\ stamps # <<>>
  /\ stamps' = Tail(stamps)
  /\ LET job == [latency |-> Latency(Head(stamps).wall), waited |-> now - Head(stamps).at]
     IN IF Recordable(job.latency)
        THEN recorded' = recorded \union {job} /\ UNCHANGED lost
        ELSE lost' = lost \union {job} /\ UNCHANGED recorded
  /\ UNCHANGED <<clockVars, stage, enqueued, deadline>>

StopTrial ==
  /\ stage = "wait"
  /\ now = deadline \/ stamps = <<>>
  /\ stage' = "drain"
  /\ deadline' = now + Drain
  /\ UNCHANGED <<clockVars, stamps, enqueued, recorded, lost>>

Return ==
  /\ stage = "drain"
  /\ stage' = "returned"
  /\ UNCHANGED <<clockVars, stamps, enqueued, deadline, recorded, lost>>

Terminated ==
  /\ stage = "returned"
  /\ UNCHANGED vars

Next ==
  \/ TimePasses
  \/ SetClock
  \/ Enqueue
  \/ StartTrial
  \/ StartTimer
  \/ Dequeue
  \/ StopTrial
  \/ Return
  \/ Terminated

Spec == Init /\ [][Next]_vars

-----------------------------------------------------------------------------

\* How far the wall clock has been moved, in all.
Drift == offsets.high - offsets.low

LatencyTypeOK ==
  /\ {now, enqueued, deadline} \subseteq Nat
  /\ offsets \in [low : 0 .. MaxOffset, high : 0 .. MaxOffset]
  /\ offset \in offsets.low .. offsets.high
  /\ stage \in {"enqueue", "connect", "wait", "drain", "returned"}
  /\ stamps \in Seq([wall : Nat, at : Nat])
  /\ recorded \in SUBSET [latency : Nat \ {0}, waited : Nat]
  /\ lost \in SUBSET [latency : Nat \ {0}, waited : Nat]

(* However often the wall clock is set between the stamp and the reading of
   handle_message, what is measured differs from what the job waited by no
   more than the clock was moved: a clock that goes back yields 1, not a huge
   number. *)
MeasuredWithinDrift ==
  \A job \in recorded \union lost :
    /\ job.waited <= job.latency + Drift
    /\ job.latency = 1 \/ job.latency <= job.waited + Drift

(* What the histogram loses has, but for the drift of the clock, waited for
   longer than the trial may last, or than the ceiling of its range: the range
   follows --timeout. *)
OnlyLateJobsLost ==
  \A job \in lost :
    job.waited + Drift > Timeout \/ job.waited + Drift > MaxHistMax

(* main.rs:446: the bound makes every reachable latency value recordable. *)
EveryLatencyRecordable == lost = {}
=============================================================================
