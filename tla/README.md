# Verification of celery-benchmark

This directory holds TLA+ models of celery-benchmark, a load generator that
enqueues Celery-shaped messages on a Redis-compatible broker, lets a pool of
asynchronous workers take them out with multi-key `BRPOP`s, and reports
throughput and queueing latency for every level of concurrency. TLC checks the
models on small instances and TLAPS proves all safety properties of the passing
runs for every value of the constants; liveness is model-checked, and what it needs
of safety is proved too.

Paths below are relative to the repository's root; `PROJECT.json` maps every
definition that models code to its lines (there, paths begin with one more `src/`,
the directory that holds the repository).

Contents: [1 the system](#1-the-system) · [2 modules](#2-the-modules) ·
[3 runs](#3-the-runs) · [4 fairness](#4-fairness) · [5 findings](#5-findings) ·
[6 proofs](#6-proofs) · [7 not modelled](#7-what-is-not-modelled) ·
[8 plan](#8-plan) · [9 how to run](#9-how-to-run)

## 1. The system

The program is one process on the multi-threaded tokio runtime. `main()` first
decides, from the command line and the broker's first answer, what to connect
to and whether to run at all, and then loops over the levels. It is sequential;
all concurrency is inside `run_trial`, and between the process, the broker and
connections that outlive their tasks.

    main()  --  validate_cli, build_redis_url, warnings, --output, percentile
      |         specs, tag, first connection; refuse or go on
      +---  for every --workers value: [warmup round] measured round
      |           pre_trial_clear -> bulk_enqueue -> run_trial
      |                 pipelines of DEL / LPUSH            |
      |                                                     v
      |    run_trial: select!{ done | timeout | all workers ended }
      |       |  spawns            shares: Metrics atomics, shutdown flag,
      |       |                            done watch channel, latency channel,
      |       |                            snapshot channel, three vectors
      |       +-- worker pool  (one connection each, BRPOP loop)
      |       +-- collector    (latency channel -> histograms)
      |       +-- monitor      (every second: deltas + one snapshot request)
      v
    report file, exit code

### Components

| component | source | state | operations | what is hard | what must hold |
|---|---|---|---|---|---|
| worker pool | `src/worker.rs`, `src/metrics.rs` | each task's place in its loop, its outstanding `BRPOP`, the counters `completed` and `errors`, the `done` channel, the `shutdown` flag | top-of-loop tests, `BRPOP`, `handle_message`, error pauses, cancellation at an await | workers race on the counters; cancellation between a reply and its counting; a broker that serves a connection nobody reads | nothing counted twice, at most one message lost with each dead worker, the target announced exactly when it is reached, bounded overshoot, shutdown ends every worker |
| trial orchestration | `src/main.rs:454-693` | the `select!`, the JoinSet, channel senders, both histograms, the sample vectors | connect, wait, stop, drain, abort, collect, clone; `Record`, snapshots; monitor ticks | `abort()` that is not awaited, a biased `select!` that is not atomic, a random `select!` in the collector, channels that close when the last sender goes | the result adds up and is final, windows partition the histogram, series stay aligned, `run_trial` returns |
| queue keys | `src/job.rs:25-66`, `src/main.rs:374-380`, `src/producer.rs:46-48` | none | names, priority steps, `BRPOP` key order, round robin | producer and worker compute keys independently; correlated strides | every job is polled for, no pair of queue and priority is starved, steps are served in order |
| producer | `src/producer.rs`, `src/main.rs:935-945` | batch counters, the pipeline, the broker's lists | clear or flush, batches of `LPUSH`, failure of a pipeline | pipelines are not transactions, connections break halfway, old `BRPOP`s take new jobs | each job once, nothing old left, FIFO per key, other keys untouched |
| benchmark loop | `src/main.rs:844-932`, `src/report.rs:154-168` | level, phase, collected results, `any_timeout`, output file | warmup and measured rounds, saving, exit code | an error late in the sweep, a time-out of an early level, a warmup that times out | exit code and report agree, rounds do not count each other's jobs, the program ends |
| latency and histogram range | `src/main.rs:430-452`, `src/worker.rs:83-101`, `src/job.rs:149-155` | stamps, the wall clock, the timer, the histogram's bound | stamp, set the clock, dequeue, record | stamps are readings of a clock that may be set; they are taken before the timer starts; `record` refuses silently | a latency is off by no more than the clock was moved; only latencies beyond the timeout are refused |
| command line and startup | `src/main.rs:382-428`, `src/main.rs:694-843`, `src/tls.rs` | the point `main()` has reached, what it has printed and contacted | provider, validation, URL, warnings, output check, specs, tag, first connection | checks, warnings and connections must come in the right order | everything refusable is refused before the network is touched; the rounds start with arguments the other components can take |
| URL and TLS resolution | `src/main.rs:137-262` | none | scheme, flags over URL components, redaction, what redis-rs reads | two functions decide about TLS, one from the URL given and one from the URL built | what is connected to, how, and what is said about it is what was asked for |
| percentile specs | `src/main.rs:311-372` | none | head, u64 parser, power of ten, quotient | signs, overflow of `10u64.pow` | a spec of digits is the decimal fraction it spells |
| output path and tag | `src/main.rs:277-309`, `src/main.rs:803-830` | none | `sanitize_tag`, `validate_output_path`, default name | the tag may come from the broker | the report goes to the path that is given, without `..`, or to a file of the working directory |
| envelopes, report text, library surface | `src/job.rs`, `src/report.rs`, `src/lib.rs` | none | encoding and formatting | | see [7](#7-what-is-not-modelled) |

The hazards this code is exposed to, each at its line and with the properties
that would catch it, are listed under `hazards` in `PROJECT.json`.

## 2. The modules

    LoadWorker  <-EXTENDS-  Trial  --implements-->  TrialContract  <-INSTANCE-  Bench
    QueueKeys   <-EXTENDS-  Producer  --implements-->  SupplyContract  <-INSTANCE-  Bench
    RedisUrl, PercentileSpec  <-EXTENDS-  Startup  --its outcome is assumed by-->  all of them
    LatencyRange (alone);  Arithmetic  <-used by-  PercentileSpec, LatencyRange

`X`'s theorems are in `XProofs`. `MCX` gives a module's constants values that a cfg
cannot write. `Arithmetic` has powers as a recursive function.

### LoadWorker: the pool of one trial

One task per worker. `task[w]` is the await, or the gap between two atomic
accesses, where the task is; `conn[w]` is the broker's side of its connection.
They are apart because the broker does not learn of a dead client at once: a
`BRPOP` that was sent may be served after its task was aborted (`ServeBrpop`
needs only `conn`), which loses the message, until `Disconnect` happens.

| action | code |
|---|---|
| `Spawn` | `set.spawn(worker.run())`, `main.rs:523-533` |
| `Return`, `IssueBrpop` | the two tests at the top of the loop and the request, `worker.rs:46-63` |
| `ServeBrpop`, `BrpopTimeout` | what the broker does with it, and `Ok(None)` |
| `TransientError`, `Wake`, `IoError` | the two error arms and the 20 ms pause, `worker.rs:69-80` |
| `HandleTask`, `HandleForeign` | decoding: a latency sample, or an error, `worker.rs:83-105` |
| `Count`, `Signal` | `inc_completed` and, from the value it returned, `done_tx.send` , `worker.rs:107-111` |
| `Cancel` | the runtime drops an aborted task: only at an await, never between two counters |
| `ForeignPush`, `Steal`, `OrphanCloses` | other programs, and `BRPOP`s of an earlier trial's dead workers, at the same keys |
| `SetShutdown`, `AbortAll`, `ReceiveSample` | what `run_trial` does to the pool |

Lists are one bag of messages by kind, because which key a `BRPOP` picks does
not matter to these properties (`Producer` has the order). `PoolInit` is any state
in which `SupplyContract` lets a trial start: `TargetJobs` tasks but for those that
`BRPOP`s of earlier trials' dead workers have taken. Such `orphans` may go on taking
messages while the trial runs (`Steal`), each one at most, until the broker learns
that nobody reads them (`OrphanCloses`). That the pool takes messages as `Take` and
`Steal` of the contract do is the shape of these broker actions, which are the same
in both modules, and is not claimed as a property.

`Committed` are the workers past the test at the top of their loop: what they
may still count, also after `shutdown`, is what `Overshoot` and
`LateJobsBounded` are about.

`PoolSpec` lets the environment act at any time, so that everything shown of it
holds for whatever `run_trial` does.

### Trial and TrialContract: run_trial

`Trial` extends the pool by `run_trial` itself (`main`), the collector and the
monitor. Every poll of a `select!` branch is a step of its own (`PollDone`,
`PollSleep`, `PollJoin`): workers run on other threads between two of them. The
monitor's `abort()` is not awaited, so `MonitorAborted` only says that it was
called, and `CancelMonitor` acts where the task is parked; a monitor that is
being polled runs on to its next await, which is why cloning the three vectors
takes three steps. The collector ends when no sender is left (`SendersOpen`):
those of live workers, the one in the `LoadWorker` template until the last
worker is spawned, and the sentinel.

A percentile that is given twice has one key and two pushes a second, in the code
(`main.rs:577-581`) as in `PushLatency`; `Times` is how often a name was given.

A histogram is the number of values in it. Durations are left out: the timer
fires at any time after the wait began, and the five seconds of the drain may
pass at any point of it.

`TrialContract` is what `main()` relies on: jobs and errors go up by one, the
trial is decided once, `target` only if the target was reached, and the
published counts never change afterwards. `KeepsContract` is the refinement.

### QueueKeys, Producer and SupplyContract

`QueueKeys` is the pure part: names and keys are sequences of the parts they are
concatenated from. `Producer` runs `main()`'s pipelines against the broker's
lists. `pipeline` holds the commands the broker has not executed yet and
executes one at a time; when a query fails any prefix of them is still
executed; `BRPOP`s of dead workers (`orphans`) come in between; `Pop` takes the
last element of the first non-empty key in `BrpopKeys`' order. Whether `FLUSHDB`
is allowed is a choice of the initial state. A key starts empty or with one old
message: `DEL` and `FLUSHDB` do not tell one from many. The orphans' `BRPOP`s may
wait at the broker or still be on their way, so they may find old messages.

`SupplyContract` is what a round relies on, with numbers of messages in place of
lists: a trial starts with no message from before under a polled key, and lacks
only those of its jobs that `BRPOP`s of dead workers have taken, one each at most.
`SuppliesRounds` is the refinement. Before the trial starts the contract sees none
of the new jobs, and an orphan that was served one as if it still waited, so that
filling the lists job by job is one step of it.

### Bench

The loop of `main()`, made of the two contracts. The broker is filled by steps of
`SupplyContract` (`Discard`, `Clear`, `Enqueue`, `BrokerFails`, `Steal`,
`OrphanCloses`), and a round's trial is any behaviour of `TrialContract` on the
messages that are in the keys, old ones included, so that it is the clearing, and
not an assumption, that keeps rounds apart. Its actions are written with the
actions of the contracts, so that a round keeps them is not a property to check.
`SaveFails` includes the truncated file `fs::write` leaves when it fails halfway.

### LatencyRange

Two clocks: `now`, on which the timers run, and the wall clock `now + offset`,
which anybody may set at any time (`SetClock`). A job is stamped with the latter
when it is enqueued, and its latency is a second reading of it. The histogram's
range is what `new_with_bounds` doubles until it covers the bound. Each latency is
kept together with how long the job really waited, which the program cannot know.

### RedisUrl, PercentileSpec and Startup

`Startup` is `main()` up to its first round, one action for each thing it does, in
its order: `InstallProvider`, `Validate`, `BuildUrl`, `Warn`, `CheckOutput`,
`ParseSpecs`, `UseGivenTag` or `FetchTag`, `Connect`. Every action ends the program
(`refused`) or goes on; `loop` is where `Bench` begins. `contacted` says that a
connection was attempted, which `FetchTag` does before `Connect`.

`RedisUrl` is what is done with URLs, over records of their components:
`ResolvesToTls` (used by `validate_cli` and, on the URL that was *given*, by
`build_redis_url`), `BuiltUrl` as one operator for each flag, `CanBuild` for its
errors, and what redis-rs makes of the result (`Opens`, `UsesTls`, `Db`,
`SkipsVerification`; external). redis-rs opens Valkey's schemes too, `valkey://` and,
with TLS, `valkeys://`; no line of the program names them, so `--tls` upgrades neither
and `--insecure` is refused with both. `unix` stands for `redis+unix` and
`valkey+unix` as well. The crate's source is not in the repository: these four
definitions are from its documented behaviour. `PercentileSpec` has the parser of
`--latency-percentiles` with a `u64` of `Width` bits, which wraps in `Divisor`:
`Cargo.toml`'s release profile does not switch overflow checks on.

## 3. The runs

| run | module, cfg | instance | question |
|---|---|---|---|
| `worker_pool` | LoadWorker, `LoadWorker.cfg` | 3 workers, 1 job, 3 foreign messages, 1 fault, 1 orphan (487,308 states) | counting, announcing and overshooting under every interleaving; shutdown ends every worker |
| `trial_result` | MCTrial, `Trial_safety.cfg` | 2 workers, 2 jobs, both kinds of latency, 1 foreign message, 2 faults, 1 orphan (487,219 states) | the trial implements its contract, every message is accounted for, its numbers add up, `run_trial` returns, the target is reached |
| `trial_sampling` | MCTrial, `Trial_sampling.cfg` | 1 worker, 2 jobs, 1 foreign message, 1 fault, 2 seconds, 3 percentiles of which one is repeated (741,156 states) | the monitor, the collector and the clones |
| `enqueue_order` | MCProducer, `Producer_order.cfg` | 2 queues, priorities 0 2 5 9, 9 jobs in batches of 4, 2 orphans, 1 foreign key, with and without `--allow-flushdb` (51,225 states) | clearing and batching implement the contract; order, spread, other keys; every job is taken |
| `benchmark_loop` | MCBench, `Bench.cfg` | levels 1 and 2, warmup of 1 job, 2 jobs, 1 orphan, 1 error, 1 old message (3,443 states) | exit code, report, isolation of rounds, end |
| `latency_range` | LatencyRange, `LatencyRange_lost.cfg` | 2 jobs, timeout 7 of at most 12 ticks, range doubling from 2, wall clock set within 2 ticks (1,066,458 states) | how wrong a latency may be and what the histogram may refuse |
| `startup` | MCStartup, `Startup.cfg` | five families of command lines, see [bounds](#bounds) (99,454 states) | what is refused, connected to and said, in which order |
| `select_ties` | MCTrial, `Trial_ties.cfg` | 2 workers, 1 job | violated: [5](#5-findings) |
| `window_alignment` | MCTrial, `Trial_windows.cfg` | 1 worker, 2 jobs, 2 seconds | violated: [5](#5-findings) |
| `reachable_latency` | LatencyRange, `LatencyRange_reach.cfg` | as `latency_range`, with a clock that nobody sets | violated: [5](#5-findings) |
| `url_precedence` | MCStartup, `Startup_precedence.cfg` | as `startup` | violated: [5](#5-findings) |
| `silent_insecure` | MCStartup, `Startup_insecure.cfg` | as `startup` | violated: [5](#5-findings) |

Every property of a passing run has a mutant in `PROJECT.json`: a definition of
the model changed the way a bug would change the code, under which the run
finds the property violated.

### What the properties say

*Pool.* `Overshoot`: the counter stays below target plus workers, and three foreign
messages and the job are one more than that, so the bound is met and not exceeded.
`DoneIsTruthful` and `DoneIsNotLost`: the target is announced if, and only if, it is
reached, even by a pool that is being aborted. `LateJobsBounded`: `duration` is read
before the workers are told to stop, the number of jobs after they were joined; once
the target is announced, or `shutdown` is set, each worker counts at most the one job
it is committed to. (For a trial that timed out nothing bounds what is counted
between `main.rs:633`, where the duration is read, and `main.rs:644`, where
`shutdown` is set: the property starts at the latter.) `ShutdownEndsWorkers`.

*Trial.* `EveryJobAccountedFor`: every message is in the keys, held by a live worker,
counted, lost with a dead worker, or taken by an orphan, at most one with each of
these. `GiveUpOnlyOnDeadWorkers`: the branch "all workers exited" decides a trial
below its target only if every worker lost its connection. `ReportAddsUp`: `hist +
dropped <= completed <= hist + dropped + errors` when the trial returns.
`KeepsContract`. `WindowsPartitionHistogram`: windows pushed, the one on its way and
the current one add up to the trial's histogram. `DeltasAddUp`: the deltas of both
counters sum to the value of the last sample. `AlignedAtRest`: between two samples of
a trial that waits, no series lags. `SeriesSkew`: the clones in the report differ by
one second at most, and a name that was given twice has both of its values for a
second or none. `TrialReturns`; `ReachesTarget`, unless the timeout comes first, a
connection is lost or an orphan takes a job.

*Producer.* `SuppliesRounds`: pipelines that are executed command by command,
broken anywhere and interleaved with old `BRPOP`s amount to `SupplyContract`; in
particular no message from before is left when a trial starts (`NoLeftovers`, which
is proved of its own). `EachJobOnce`: what was enqueued is at any time a first part
of the jobs, none of them twice, also where a pipeline broke, and each exactly once
when the trial starts. `Fifo`: no key's jobs overtake one another;
`StepsInOrder`: no job of a lower priority step reaches a worker before one of a
higher step; `EvenSpread`: at every moment of the enqueueing the shares of two
pairs differ by one at most; `OtherKeysUntouched`; `AllJobsTaken`.

*Bench.* `ExitIsHonest`: success means a complete report with every level, in
order, at its target; a complete report with exit code 1 holds a level that was
not. `RoundsAreIsolated`: no trial counts an old message. `MainExits`.

The type invariants of `LoadWorker` and `Startup` are not in a run of their own:
they are proved, and `TrialTypeOK` contains the first.

*Latency.* `MeasuredWithinDrift`: however often the wall clock is set between stamp
and reading, a latency differs from the real wait by no more than the clock was
moved, and a clock that goes back yields 1 and not a wrapped number.
`OnlyLateJobsLost`: but for that drift, a refused latency exceeds the timeout or
the 24-hour ceiling (which the run's timeout stays below: the ceiling is covered by
the theorem, not by the run).

*Startup.* `ContactIsPrepared`: whatever order the checks come in, no connection is
attempted with arguments that break the assumptions of the other modules, with an
`--insecure` that could not take effect, or over TLS without the provider rustls would
panic for. `ServerIsAsAsked`: every flag that is given counts, every one that is
omitted leaves the URL alone, TLS is used for the schemes that mean TLS to redis-rs
and for `redis` with `--tls`, and what is shown is that URL without its password.
`VerificationIsAsAsked`: `--insecure` is refused or takes effect, the warning appears
only when certificates go unverified, and whenever they do except at a `valkeys://`
URL. `FlushIsWarned`: database 0 is never flushed without the warning.
`OutputIsAsAsked`: a given path, absolute or not, is used as it is and has no `..`; a
file name made of a tag has no separator. `SpecsReadAsDecimals`: a spec of digits
whose power of ten fits is the decimal fraction it spells.

### Bounds

- `MaxForeign`, `MaxFaults` and `MaxOrphans` cap events that could otherwise happen
  for ever. A fault changes one worker for good and workers are interchangeable, so
  one fault, with the orders in which it meets the rest, has the pool's cases;
  `trial_result` has one for each of its two workers, because a trial gives up only
  when it has lost both. An orphan is a worker that is dead already and can only take
  a message or go, so one is enough for a trial; in the run of the producer, where it
  matters which key it takes from, there are two. The proofs of [6](#6-proofs) do not
  depend on the bounds' values.
- Two workers are needed for a race on the last job and three for an overshoot
  by two, of one job already; the trial runs use two workers and two jobs because the
  pool's properties are inherited (`RefinesPool`).
- `MaxTicks` caps the seconds the monitor samples. Two are needed for a window
  that follows another (and for `SeriesSkew`, whose clones may miss the second
  one); a third repeats the second, since `prev` and the window are all that is
  carried over.
- Nine jobs over eight pairs are a full cycle and a wrap; batches of four do not
  divide them, so the last batch is short, and a batch border falls into a cycle.
- Two levels with warmup give every kind of neighbouring rounds.
- `Width` is 12 bits: they hold powers of ten up to 10^3, as 64 bits do up to
  10^19, so specs of four characters have the cases of specs of twenty.
- The command lines of `startup` are families that vary the arguments which are
  read together: scheme, fragment, path, TLS, database and flush flags; host, port,
  password and what replaces them; numbers at both ends of their ranges; tags and
  all short paths over `a`, `.` and `/`; specs. The theorems of [6](#6-proofs) are
  about any set of command lines.
- `MaxOffset` is two ticks: the clock can go forward, back, and past its starting
  point.
- `MaxClock`, and the tick as a unit, make `LatencyRange` finite: the timeout
  lies just below a doubling of the range, and the clock runs long enough to
  pass both.

`CHECK_DEADLOCK` is on everywhere; the modules' last states stutter explicitly.

## 4. Fairness

- *The runtime polls every task that can run* (`TaskFairness`,
  `RuntimeFairness`): weak fairness of every task's own steps. tokio's scheduler
  is cooperative and each task awaits in every iteration.
- *The timer fires* (`TimerFairness`): the sleep of the `select!`. It is the
  only help `TrialReturns` has: the broker may never answer a `BRPOP`, and the
  drain's deadline (`DrainTimeout`, a step of `run_trial`) does the rest.
- *The broker answers* (`BrokerFairness`, `ServerFairness`): it serves a `BRPOP`
  or lets it time out. Assumed for `ShutdownEndsWorkers` and `ReachesTarget`
  only. Both are stated as premises of the trial's two properties, so that each
  is checked with exactly the fairness it needs.
- *`main()`'s pipelines are answered or fail* (`Producer`, `Bench`, where it is
  fairness of `Discard` and of `main()`'s steps). The code
  sets no time-out for them; a broker that accepts a connection and never
  answers blocks the program, and no property claims otherwise.
- `Bench` assumes that a trial is decided and published: that is `TrialReturns`.

Nothing is assumed of spawning, faults, foreign pushes, `Disconnect` or the
monitor's ticks.

## 5. Findings

Five comments and help texts promise more than the code does. Each is a run that
TLC ends with a counterexample.

- **A tie is not always won by the target** (`select_ties`, `TargetWinsTies`).
  The branches of the biased `select!` at `src/main.rs:612` are polled one
  after the other while workers run on other threads. The last job can be
  counted and announced, and the last worker can end, after `done_rx` was polled
  and before `join_next()` is. The comment at `src/main.rs:609-611` says that
  checking `done_rx` first makes it "always win a genuine tie". The trial is then
  reported as timed out, and the program exits with 1, with all jobs done.
  `GiveUpOnlyOnDeadWorkers` says what does hold.
- **A window and a delta may describe different seconds** (`window_alignment`,
  `WindowsKeepUp`). The collector's `select!` (`src/main.rs:480-496`) picks a
  ready branch at random and may answer the monitor before it has taken the
  samples that are buffered. Their jobs are in this second's throughput and in
  the next second's latencies, where the comment at `src/main.rs:461-466` says
  both "describe the same second". No sample is lost
  (`WindowsPartitionHistogram`).
- **Not every reachable latency is recordable** (`reachable_latency`,
  `EveryLatencyRecordable`). The histogram's bound is the length of the
  `--timeout` timer, which starts when all jobs have been stamped and enqueued
  and all connections are open. With a timeout just below a power of two times
  2048 us (`--timeout 67`, say) a job that waits until the end is outside the
  range and is refused silently, where `src/main.rs:446-447` says that the bound
  "makes every reachable latency value recordable".
- **The URL does not take precedence** (`url_precedence`, `UrlTakesPrecedence`). The
  help text of `--url` (`src/main.rs:24`) says "takes precedence over --host/--port";
  `build_redis_url` (`src/main.rs:167-178`) replaces the URL's host and port by the
  flags, as the help texts of the flags themselves say. `ServerIsAsAsked` says it
  exactly.
- **One scheme with TLS is unknown to the warning** (`silent_insecure`,
  `UnverifiedIsAnnounced`). `url_disables_cert_verification` (`src/main.rs:232`)
  looks for `rediss`; with `valkeys://host/0#insecure` redis-rs verifies no
  certificate either, and nothing is printed, where the comment at
  `src/main.rs:218-220` says that a URL with that fragment of its own "deserves the
  same warning `--insecure` gets, not silence". `VerificationIsAsAsked` says that
  this scheme is the only exception.

Remarks that have no run of their own:

- The divisor at `src/main.rs:360` is ten to the number of characters after the `p`,
  but `u64`'s parser also takes a plus sign: `p+50` is the 5th percentile. From
  twenty characters on `10u64.pow` wraps in a release build. The comment at
  `src/main.rs:346-348` says that the scheme "treats digit COUNT as decimal
  placement"; `SpecsReadAsDecimals` says where it does.
- `src/main.rs:55-56` says that without `--db` the database falls back to 13. The
  fallback at `src/main.rs:208` fills an empty path, and the path of a `unix://` URL
  is the socket's name: the database of such a URL is its `?db=`, or 0, as
  `ServerIsAsAsked` says. The warning about database 0 does appear (`FlushIsWarned`),
  except for a socket whose name is a number, which `Reaches` leaves out.
- `README.md:380` promises one latency value for each second and percentile; a
  percentile that is given twice gets two under one name, and the clones of the
  series may differ by one second. `AlignedAtRest` and `SeriesSkew` say what holds.

## 6. Proofs

All theorems are for any values of the constants that meet the named
assumptions: finite, non-empty `Workers`; positive `TargetJobs`, `BatchSize`,
`NumQueues`; a non-empty list of priorities in `0 .. 9`; other programs' keys
disjoint from the polled ones; a non-empty `--workers` list of positive numbers.
Where they are parameters of the program, `ContactIsPreparedCorrect` shows that
`main()` does not get to its first connection without them.

**LoadWorkerProofs.** `TypeCorrect`. `DoneTruthful` and `DoneNotLost` follow from
`SignalInv`: whoever is in `signal` has seen the target reached, and a reached target
was announced or has such a worker; neither half is inductive without the other.
`OvershootBounded` rests on `OvershootInv`: workers that have passed the test at the
top of the loop are *committed* until they have counted; counting moves a worker from
one term to the other, and joining needs a counter below the target, so completed plus
committed stays below target plus workers. `LateJobsCorrect` uses the same sum: after
the announcement or `shutdown` nobody joins. `AccountCorrect` is an induction over
cardinalities (`AccountDelta`, `CardStep`) with `ConnInv`, which says that only
waiting or dead workers have a request at the broker; what an orphan takes moves from
the keys to `orphans.served`. `WindsDownCorrect` is `ShutdownEndsWorkers` without its
fairness: with `shutdown` set no worker's `Rank`, an upper bound on the steps it has
left, ever grows, and every step it makes lowers it. `NoWorkerIsStuck`: a worker that
has not ended has a step of its own, a reply to handle or a request at the broker.
`WorkIsLeftCorrect` is what `ReachesTarget` needs of `EveryJobAccountedFor`: below the
target there is a message to count, unless dead workers and orphans have taken all
that is missing.

**TrialProofs.** `RefinesPool` (every step of the trial is a step of the pool or
a stutter) brings the pool's theorems over. `PhaseInv` relates where `run_trial`
is to the rest: a verdict is given from `decided` on, all workers have ended
from `collect` on, the collector ends only with the channel closed and drained,
and a trial that gave up has no live worker. `CountInv` counts samples and jobs
that are handled but not yet counted; with `PhaseInv` it gives `ReportCorrect`
at the end, when no worker is in between. `ImplementsContract` is step
simulation with both. `NeverStuckCorrect` is `TrialReturns` without its fairness:
wherever `run_trial` waits it can go on itself (a timer's firing included), or every
task it waits for can without the broker; that needs `shutdown` and `abort()` to have
come before the joining (`StartedInv`). `CollectorCatchesUpCorrect`: while the
collector is awaited nothing is added to its channel.

For the rest of the trial, `TrialTypeCorrect` needs that a previous count never
exceeds its counter, which follows from the pool's counters only growing. For the
lengths of the series the argument counts the monitor's *ticks*: a series has the
values of all ticks, or misses those of the last (`LengthInv`) - while the monitor
is in a sample, or because it was aborted in it; as long as it is not aborted the
collector lives (`CollectorLives`, from `ClosedInv` of `TrialProofs`) and answers.
That is `AlignedAtRestCorrect`. An aborted monitor ticks no more, so what was cloned
at three different moments stays within the same bound (`CloneInv`), which gives
`SeriesSkewCorrect`, for any list of percentiles, repeated ones included.
`DeltasAddUpCorrect` and `WindowsPartitionHistogramCorrect` are about sums over
series: a series grows by one value at a time, and what it adds is what the counter
moved, or the window that was cloned and reset (`WindowInv` follows it on its way
through the snapshot channel).

**ArithmeticProofs.** The library's induction theorems take a predicate, which the
provers cannot instantiate. `InductionOnSet` states induction for a set of numbers
instead (the least number that is missing from it has no predecessor), and with it
the recursive functions of the models get their equations for every number: powers
(`Pow`), sums over functions and sequences and what appending adds to them, and the
values of numerals. The other modules' proofs cite these.

**QueueKeysProofs.** `StepIsFloor`; `EveryJobIsPolled` (with `EveryKeyIsPolled`):
the key of every job is among those every worker polls; `CycleHasNoRepeats`: the
round robin visits no pair twice within a cycle, also when the numbers of
queues and priorities have a common divisor; `SmallerStepsComeFirst`: the `BRPOP`
names all keys of a step before those of the next, and no key belongs to two
steps, so a job's key is preceded by the keys of all jobs of smaller steps.

**ProducerProofs.** `ProducerInv` is about jobs and not positions: the pushes on
their way are in order and later than every job the broker has seen
(`PipelineInOrder`), each list holds jobs of its key only, younger ones nearer
the head, and all of them younger than those taken (`ListsInOrder`); `Fifo`;
while clearing, a key that is not empty has its `DEL` still on the way
(`Clearing`); while enqueueing, exactly the jobs before `NextJob` have been
pushed and are in their list or gone (`Enqueueing`). `ProducerTypeCorrect`,
`FifoCorrect` and `NoLeftoversCorrect` follow. `EachJobOnceCorrect` counts positions,
each set of which has at most one member because lists are ordered; that the jobs
which are there are a first part of all (`FirstPart`) also when a pipeline broke is
an invariant of its own, because only an `LPUSH` adds one, in order, and what a `BRPOP`
takes stays counted.
`OtherKeysUntouchedCorrect` needs only that no flush is ever in the pipeline
(`NoFlush`). `EvenSpreadCorrect` maps each job of one pair but the first to the
job of the other pair in the cycle before it, an injection because of
`CycleHasNoRepeats`. `StepsInOrderCorrect` strengthens the property to: what a worker
was given has no larger step than anything that still waits (`SmallestStepTaken`),
which a `BRPOP` preserves by `SmallerStepsComeFirst` and which nothing disturbs once
the enqueueing is over. `SuppliesRoundsCorrect` is step simulation: `View` says, for
any step, what of the lists the contract sees; `PopView` does so for a `BRPOP`, by
the age of what it takes and who gets it; a key holds one old message at most, at
its tail (`OneOldPerKey`), so a `BRPOP` or `DEL` that takes an old message empties a
key of them; and when the trial starts the jobs that wait and those that were stolen
are all jobs (`AllEnqueued`). `NoJobIsStrandedCorrect` is `AllJobsTaken` without its
fairness: while a job is left there is a first key with a message in `BrpopKeys`
(`FirstKey`), because the key of every job is among them.

**LatencyRangeProofs.** The invariant is that every waiting stamp is a reading of a
wall clock between the smallest and the largest offset so far
(`StampedByTheClock`); `MeasuredWithinDriftCorrect` follows, and with it and the fact
that doubling takes the histogram's range beyond any bound (powers of two exceed
their exponents) `OnlyLateJobsLostCorrect`.

**StartupProofs.** `StartupInv` says what is known at each point of `main()`; it is
sequential, so each step adds one part. `ContactIsPreparedCorrect`,
`ServerIsAsAskedCorrect`, `VerificationIsAsAskedCorrect` and `FlushIsWarnedCorrect`
follow for every set of command lines: from `BuiltComponents`, what
`build_redis_url` does to each component, `TlsOfBuilt`, which schemes end up with TLS,
and `ValidArgumentsFit`, what `validate_cli` lets through. `OutputIsAsAskedCorrect`
needs that a sanitized tag has no separator and no name
made of it a component `..` (`DefaultOutputIsName`). `StartupTypeCorrect`.
`SpecsReadAsDecimalsCorrect`: the parser's value of a spec of digits is that of the
numeral, and a power of ten that fits in `Width` bits is not wrapped.

**BenchProofs.** `BenchInv`: one result for every level passed (`Progress`), in order
and with `anyTimeout` as their disjunction (`Faithful`), the contract's promise about
a decided trial (`TrialHonest`), what is known at the end (`Ending`), and old messages
only before a clearing, new ones only after it (`Fresh`). `BenchTypeCorrect`,
`ExitIsHonestCorrect`, `RoundsAreIsolatedCorrect`. `RoundsAdvanceCorrect` is
`MainExits` without its fairness: `Position` counts levels, rounds and stages, every
step of `main()` moves it on, nothing moves it back, and it is bounded.

**Model-checked only.** Liveness, because the prover has no `ENABLED`:
`ShutdownEndsWorkers`, `TrialReturns`, `ReachesTarget`, `AllJobsTaken`, `MainExits`.
The theorems above prove what in each of them does not depend on fairness, namely
that nothing goes back, nothing is stuck and work is left; that enabled steps are
taken in the end is what the runs check. Every other property of a passing run is
proved. The comments that [5](#5-findings) refutes are false, and the runs'
counterexamples are what there is to say about them.

## 7. What is not modelled

- *The envelope's encoding*: JSON and base64. What matters to the rest is whether
  a message carries the marker, which is `LoadWorker`'s `Kinds`.
- *Report and console text*: no state and nothing that interacts.
  `redact_url_best_effort` shortens the text of error messages.
- *Characters*: percent-encoding and user names in URLs; texts are sequences of
  kinds of characters. Rounding of the one floating-point division.
- *Time-outs of `main()`'s pipelines*: there are none in the code (see
  [4](#4-fairness)).
- *The values in a histogram* and its quantiles; the time-outs' lengths.
- *Redis* is modelled from how the code uses it: lists, `LPUSH`, `BRPOP`, `DEL`,
  `FLUSHDB`, and that it learns late of a closed connection.

## 8. Plan

Everything that has state is modelled, every safety property is proved, and the
pieces are joined by contracts. What would add most from here:

1. The windows' and the histogram's *values* instead of their numbers, and with them
   the quantiles of the report.
2. Orphans that hold their connection across several rounds are numbers in `Bench`
   and `Trial`. Following each of them from the worker it was to the job it takes
   would show in one run what `SupplyContract` splits into three.

## 9. How to run

    tlc -workers 2 -config Trial_safety.cfg MCTrial
    tlapm TrialProofs.tla

Every run takes less than two minutes on two cores.
