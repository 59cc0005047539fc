---------------------------- MODULE LoadWorker ----------------------------
(***************************************************************************)
(* The pool of LoadWorker::run tasks of one trial (worker.rs) and the      *)
(* counters they share (metrics.rs).                                       *)
(*                                                                         *)
(* Every worker owns one broker connection and loops: look at `shutdown`   *)
(* and at the number of completed jobs, issue a multi-key BRPOP, handle    *)
(* the reply.  A worker is a tokio task: it can be cancelled only where it *)
(* awaits, never between two atomic operations on the shared counters.     *)
(* The broker does not know whether the task behind a connection is alive: *)
(* a BRPOP that was sent may be served after its worker is gone.           *)
(*                                                                         *)
(* Abstraction: the broker's lists are one bag of messages, counted by     *)
(* kind, because none of the properties here depends on the order in which *)
(* a BRPOP picks from them.                                                *)
(***************************************************************************)
EXTENDS Naturals, Sequences, FiniteSets

CONSTANTS
  Workers,     \* the worker tasks of the trial, n_workers of them
  TargetJobs,  \* LoadWorker.target_jobs: --jobs, or --warmup-jobs in a warmup
  Latencies,   \* the latencies a job may show when it is dequeued
  MaxForeign,  \* bound: messages other programs push onto the queue keys
  MaxFaults,   \* bound: BRPOPs that fail
  MaxOrphans   \* bound: BRPOPs of workers that earlier trials aborted

ASSUME WorkersAssumption == IsFiniteSet(Workers) /\ Workers # {}
ASSUME TargetAssumption == TargetJobs \in Nat \ {0}
ASSUME LatenciesAssumption == Latencies \subseteq {"inRange", "tooLong"}
ASSUME BoundsAssumption ==
  MaxForeign \in Nat /\ MaxFaults \in Nat /\ MaxOrphans \in Nat

VARIABLES
  task,       \* where each worker's task is
  conn,       \* the broker's side of each worker's connection
  queue,      \* how many messages of each kind are in the broker's lists
  completed,  \* Metrics.completed
  errors,     \* Metrics.errors
  samples,    \* the latency_tx channel
  done,       \* the done_tx watch channel
  shutdown,   \* the shutdown flag
  aborted,    \* JoinSet::abort_all was called, or the JoinSet was dropped
  foreign,    \* how many messages other programs have pushed
  faults,     \* how many BRPOPs have failed
  orphans     \* how many BRPOPs of earlier trials wait or took a message

poolVars == <<task, conn, queue, completed, errors, samples, done, shutdown,
              aborted, foreign, faults, orphans>>

-----------------------------------------------------------------------------

\* A message carries the enqueued_at_ns marker of this tool, or it does not
\* decode as such a message.
Kinds == {"task", "foreign"}

\* A task is not yet spawned, spawned but never polled, at the top of its
\* loop, waiting for a BRPOP, between handling a message and counting it,
\* between counting the job that reaches the target and announcing it, or in
\* the pause after an error; it ends by returning Ok or Err or by cancellation.
Dead == {"failed", "cancelled"}
Ended == Dead \union {"exited"}
TaskStates == Ended \union
  {"unborn", "spawned", "top", "await", "count", "signal", "backoff"}

\* No BRPOP outstanding, one that waits at the broker, or one whose reply, a
\* message of the given kind that has left the list, is on its way.
ConnStates == {"idle", "waiting"} \union Kinds

\* No BRPOP of an earlier trial takes more than one message.
Orphans ==
  {o \in [waiting : 0 .. MaxOrphans, served : 0 .. MaxOrphans] :
     o.waiting + o.served <= MaxOrphans}

\* A task gives up its latency_tx clone when it ends.
HoldsSender(w) == task[w] \notin Ended \union {"unborn"}

\* Mutated form of AllEnded: join_next() has returned once.
AllEndedAny == \E w \in Workers : task[w] \in Ended

\* join_next() returns None: every task of the JoinSet has been joined.
AllEnded == \A w \in Workers : task[w] \in Ended

Goto(w, state) == task' = [task EXCEPT ![w] = state]
SetConn(w, state) == conn' = [conn EXCEPT ![w] = state]

-----------------------------------------------------------------------------

(* The trial starts with its target_jobs tasks and nothing else in the keys, but
   for the tasks that BRPOPs of earlier trials' dead workers have taken already:
   any state in which SupplyContract lets a trial start. *)
PoolInit ==
  /\ task = [w \in Workers |-> "unborn"]
  /\ conn = [w \in Workers |-> "idle"]
  /\ orphans \in Orphans /\ orphans.served <= TargetJobs
  /\ queue = [k \in Kinds |-> IF k = "task" THEN TargetJobs - orphans.served ELSE 0]
  /\ completed = 0
  /\ errors = 0
  /\ samples = <<>>
  /\ done = FALSE
  /\ shutdown = FALSE
  /\ aborted = FALSE
  /\ foreign = 0
  /\ faults = 0

(* A worker's connection is open and its task is handed to the runtime. *)
Spawn(w) ==
  /\ task[w] = "unborn"
  /\ Goto(w, "spawned")
  /\ UNCHANGED <<conn, queue, completed, errors, samples, done, shutdown,
                 aborted, foreign, orphans, faults>>

(* Mutated forms of MustStop: one of the two tests is missing. *)
MustStopNoTarget == shutdown

MustStopNoShutdown == completed >= TargetJobs

(* The two tests at the top of the loop.  `completed` never decreases, so
   reading both at once gives the same outcomes as reading one after the
   other. *)
MustStop == shutdown \/ completed >= TargetJobs

Return(w) ==
  /\ task[w] \in {"spawned", "top"}
  /\ MustStop
  /\ Goto(w, "exited")
  /\ UNCHANGED <<conn, queue, completed, errors, samples, done, shutdown,
                 aborted, foreign, orphans, faults>>

IssueBrpop(w) ==
  /\ task[w] \in {"spawned", "top"}
  /\ ~MustStop
  /\ Goto(w, "await")
  /\ SetConn(w, "waiting")
  /\ UNCHANGED <<queue, completed, errors, samples, done, shutdown, aborted,
                 foreign, orphans, faults>>

(* The broker removes a message and sends it over the connection. *)
ServeBrpop(w, k) ==
  /\ conn[w] = "waiting"
  /\ queue[k] > 0
  /\ SetConn(w, k)
  /\ queue' = [queue EXCEPT ![k] = @ - 1]
  /\ UNCHANGED <<task, completed, errors, samples, done, shutdown, aborted,
                 foreign, orphans, faults>>

(* The BRPOP times out at the broker on empty lists: Ok(None). *)
BrpopTimeout(w) ==
  /\ task[w] = "await"
  /\ conn[w] = "waiting"
  /\ \A k \in Kinds : queue[k] = 0
  /\ Goto(w, "top")
  /\ SetConn(w, "idle")
  /\ UNCHANGED <<queue, completed, errors, samples, done, shutdown, aborted,
                 foreign, orphans, faults>>

(* The broker answers with an error that leaves the connection usable. *)
TransientError(w) ==
  /\ faults < MaxFaults
  /\ task[w] = "await"
  /\ conn[w] = "waiting"
  /\ errors' = errors + 1
  /\ faults' = faults + 1
  /\ Goto(w, "backoff")
  /\ SetConn(w, "idle")
  /\ UNCHANGED <<queue, completed, samples, done, shutdown, aborted, foreign,
                 orphans>>

Wake(w) ==
  /\ task[w] = "backoff"
  /\ Goto(w, "top")
  /\ UNCHANGED <<conn, queue, completed, errors, samples, done, shutdown,
                 aborted, foreign, orphans, faults>>

(* The client sees the connection drop or an I/O error, whatever the broker
   has done with the request: the worker returns Err. *)
IoError(w) ==
  /\ faults < MaxFaults
  /\ task[w] = "await"
  /\ faults' = faults + 1
  /\ Goto(w, "failed")
  /\ UNCHANGED <<conn, queue, completed, errors, samples, done, shutdown,
                 aborted, foreign, orphans>>

(* Mutated form of HandleTask: the done channel is written before the counter. *)
HandleTaskAnnounced(w, us) ==
  /\ task[w] = "await"
  /\ conn[w] = "task"
  /\ samples' = Append(samples, us)
  /\ done' = (done \/ completed + 1 >= TargetJobs)
  /\ Goto(w, "count")
  /\ SetConn(w, "idle")
  /\ UNCHANGED <<queue, completed, errors, shutdown, aborted, foreign,
                 orphans, faults>>

(* The first half of handle_message: a marked task sends its latency sample,
   any other message is an error. *)
HandleTask(w, us) ==
  /\ task[w] = "await"
  /\ conn[w] = "task"
  /\ samples' = Append(samples, us)
  /\ Goto(w, "count")
  /\ SetConn(w, "idle")
  /\ UNCHANGED <<queue, completed, errors, done, shutdown, aborted, foreign,
                 orphans, faults>>

(* Mutated form of HandleForeign: an undecodable message returns early. *)
HandleForeignUncounted(w) ==
  /\ task[w] = "await"
  /\ conn[w] = "foreign"
  /\ errors' = errors + 1
  /\ Goto(w, "top")
  /\ SetConn(w, "idle")
  /\ UNCHANGED <<queue, completed, samples, done, shutdown, aborted, foreign,
                 orphans, faults>>

HandleForeign(w) ==
  /\ task[w] = "await"
  /\ conn[w] = "foreign"
  /\ errors' = errors + 1
  /\ Goto(w, "count")
  /\ SetConn(w, "idle")
  /\ UNCHANGED <<queue, completed, samples, done, shutdown, aborted, foreign,
                 orphans, faults>>

(* Mutated forms of Count: the target is announced one job early, and the
   value fetch_add returns is compared without the job just added. *)
CountEarly(w) ==
  /\ task[w] = "count"
  /\ completed' = completed + 1
  /\ Goto(w, IF completed' + 1 >= TargetJobs THEN "signal" ELSE "top")
  /\ UNCHANGED <<conn, queue, errors, samples, done, shutdown, aborted,
                 foreign, orphans, faults>>

CountOldValue(w) ==
  /\ task[w] = "count"
  /\ completed' = completed + 1
  /\ Goto(w, IF completed >= TargetJobs THEN "signal" ELSE "top")
  /\ UNCHANGED <<conn, queue, errors, samples, done, shutdown, aborted,
                 foreign, orphans, faults>>

(* inc_completed, which returns the new value. *)
Count(w) ==
  /\ task[w] = "count"
  /\ completed' = completed + 1
  /\ Goto(w, IF completed' >= TargetJobs THEN "signal" ELSE "top")
  /\ UNCHANGED <<conn, queue, errors, samples, done, shutdown, aborted,
                 foreign, orphans, faults>>

Signal(w) ==
  /\ task[w] = "signal"
  /\ done' = TRUE
  /\ Goto(w, "top")
  /\ UNCHANGED <<conn, queue, completed, errors, samples, shutdown, aborted,
                 foreign, orphans, faults>>

(* The runtime drops an aborted task at the point where it awaits. *)
Cancel(w) ==
  /\ aborted
  /\ task[w] \in {"spawned", "await", "backoff"}
  /\ Goto(w, "cancelled")
  /\ UNCHANGED <<conn, queue, completed, errors, samples, done, shutdown,
                 aborted, foreign, orphans, faults>>

(* The broker learns that the connection of a dead worker is closed. *)
Disconnect(w) ==
  /\ task[w] \in Dead
  /\ conn[w] # "idle"
  /\ SetConn(w, "idle")
  /\ UNCHANGED <<task, queue, completed, errors, samples, done, shutdown,
                 aborted, foreign, orphans, faults>>

(* Another program pushes a message onto one of the queue keys. *)
ForeignPush ==
  /\ foreign < MaxForeign
  /\ foreign' = foreign + 1
  /\ queue' = [queue EXCEPT !["foreign"] = @ + 1]
  /\ UNCHANGED <<task, conn, completed, errors, samples, done, shutdown,
                 aborted, orphans, faults>>

(* The broker serves a BRPOP of an earlier trial: the message is lost. *)
Steal(k) ==
  /\ orphans.waiting > 0
  /\ queue[k] > 0
  /\ orphans' = [waiting |-> orphans.waiting - 1, served |-> orphans.served + 1]
  /\ queue' = [queue EXCEPT ![k] = @ - 1]
  /\ UNCHANGED <<task, conn, completed, errors, samples, done, shutdown, aborted,
                 foreign, faults>>

\* Or it learns that nobody waits for the answer.
OrphanCloses ==
  /\ orphans.waiting > 0
  /\ orphans' = [orphans EXCEPT !.waiting = @ - 1]
  /\ UNCHANGED <<task, conn, queue, completed, errors, samples, done, shutdown,
                 aborted, foreign, faults>>

(* What the rest of the trial does to the pool. *)
SetShutdown ==
  /\ shutdown' = TRUE
  /\ UNCHANGED <<task, conn, queue, completed, errors, samples, done, aborted,
                 foreign, orphans, faults>>

AbortAll ==
  /\ aborted' = TRUE
  /\ UNCHANGED <<task, conn, queue, completed, errors, samples, done, shutdown,
                 foreign, orphans, faults>>

ReceiveSample ==
  /\ samples # <<>>
  /\ samples' = Tail(samples)
  /\ UNCHANGED <<task, conn, queue, completed, errors, done, shutdown, aborted,
                 foreign, orphans, faults>>

-----------------------------------------------------------------------------

(* What a worker's task does on its own, once it is runnable. *)
TaskStep(w) ==
  \/ Return(w)
  \/ IssueBrpop(w)
  \/ Wake(w)
  \/ \E us \in Latencies : HandleTask(w, us)
  \/ HandleForeign(w)
  \/ Count(w)
  \/ Signal(w)
  \/ Cancel(w)

(* The broker's answers to a BRPOP. *)
BrokerStep(w) ==
  \/ \E k \in Kinds : ServeBrpop(w, k)
  \/ BrpopTimeout(w)

FaultStep(w) ==
  \/ TransientError(w)
  \/ IoError(w)
  \/ Disconnect(w)

\* What others do to the keys.
OthersStep ==
  \/ ForeignPush
  \/ \E k \in Kinds : Steal(k)
  \/ OrphanCloses

PoolStep ==
  \/ \E w \in Workers : TaskStep(w) \/ BrokerStep(w) \/ FaultStep(w)
  \/ OthersStep

\* The trial as the pool sees it: anything it may do to the pool, at any time.
Environment ==
  \/ \E w \in Workers : Spawn(w)
  \/ SetShutdown
  \/ AbortAll
  \/ ReceiveSample

PoolNext == PoolStep \/ Environment

PoolSpec == PoolInit /\ [][PoolNext]_poolVars

(* The runtime polls every task that can run, and a broker that has a message
   or whose BRPOP timeout elapses answers.  Nothing is assumed of spawning,
   faults, cancellation requests or other programs. *)
TaskFairness == \A w \in Workers : WF_poolVars(TaskStep(w))
BrokerFairness == \A w \in Workers : WF_poolVars(BrokerStep(w))

FairPoolSpec == PoolSpec /\ TaskFairness /\ BrokerFairness
-----------------------------------------------------------------------------

TypeOK ==
  /\ task \in [Workers -> TaskStates]
  /\ conn \in [Workers -> ConnStates]
  /\ queue \in [Kinds -> Nat]
  /\ completed \in Nat
  /\ errors \in Nat
  /\ samples \in Seq(Latencies)
  /\ done \in BOOLEAN
  /\ shutdown \in BOOLEAN
  /\ aborted \in BOOLEAN
  /\ foreign \in 0 .. MaxForeign
  /\ faults \in 0 .. MaxFaults
  /\ orphans \in Orphans

(* Workers look at the target before they wait for a job and count the job
   afterwards, so a pool may go past its target when the keys hold more than
   the trial's own jobs; but by fewer jobs than there are workers. *)
Overshoot == completed < TargetJobs + Cardinality(Workers)

(* The trial is told that the target is reached only when it is. *)
DoneIsTruthful == done => completed >= TargetJobs

(* Reaching the target is announced even if the pool is being aborted: either
   it was announced or a worker that can no longer be cancelled is about to. *)
DoneIsNotLost ==
  completed >= TargetJobs => done \/ \E w \in Workers : task[w] = "signal"

\* Workers that hold a message: its reply is on the way to a live task, or it
\* was handled and is not counted yet.
Holders ==
  {w \in Workers : task[w] = "count" \/ (task[w] = "await" /\ conn[w] \in Kinds)}

\* Dead workers whose connection can no longer take a message.
Spent == {w \in Workers : task[w] \in Dead /\ conn[w] # "waiting"}

Pushed == TargetJobs + foreign

Traced ==
  queue["task"] + queue["foreign"] + Cardinality(Holders) + completed + orphans.served

(* No message is counted twice, and none is lost except with the death of the
   worker that had asked for it, at most one for each dead worker, of this trial
   or of an earlier one, and none for a dead worker whose BRPOP still waits at
   the broker. *)
EveryJobAccountedFor ==
  /\ Traced <= Pushed
  /\ Pushed <= Traced + Cardinality(Spent)

\* Workers that found no reason to stop and have not counted a job since.
Committed == {w \in Workers : task[w] \in {"await", "count"}}

(* Jobs that are counted after the duration was read are part of a result whose
   duration does not include their time.  Once the target is announced or
   shutdown is set, every worker adds no more than the one job it had committed
   itself to: no step, and so no sequence of steps, counts more jobs than
   workers leave Committed. *)
LateJobsBounded ==
  [][done \/ shutdown => completed' + Cardinality(Committed')
                           <= completed + Cardinality(Committed)]_poolVars

(* Once shutdown is set every spawned worker ends, without being aborted and
   whether or not there is work left: none stays blocked on an empty queue. *)
ShutdownEndsWorkers ==
  shutdown ~> \A w \in Workers : task[w] \in Ended \union {"unborn"}
=============================================================================
