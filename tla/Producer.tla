------------------------------ MODULE Producer ------------------------------
(***************************************************************************)
(* How main() fills the broker for a trial: pre_trial_clear (main.rs),     *)
(* clear_queue, flushdb and bulk_enqueue (producer.rs), and the order in   *)
(* which multi-key BRPOPs take the jobs out again (worker.rs).             *)
(*                                                                         *)
(* A pipeline is not a transaction: the broker executes its commands one   *)
(* by one, other clients' commands may come in between, and when the       *)
(* connection breaks any number of the commands on their way is still      *)
(* executed.  The BRPOPs of workers that an earlier trial aborted may wait *)
(* at the broker until it notices that their connections are closed.       *)
(***************************************************************************)
EXTENDS QueueKeys, FiniteSets

CONSTANTS
  Jobs,          \* n_jobs
  BatchSize,     \* BATCH_SIZE, 1000 in the code
  OtherKeys,     \* keys of other programs in the same database
  MaxOrphans     \* bound: BRPOPs left behind by an earlier trial

ASSUME JobsAssumption == Jobs \in Nat
ASSUME BatchAssumption == BatchSize \in Nat \ {0}
ASSUME OtherKeysAssumption == OtherKeys \intersect PolledKeys = {}
ASSUME OrphansAssumption == MaxOrphans \in Nat

VARIABLES
  allowFlushdb,  \* --allow-flushdb
  stage,         \* what main() is doing
  pipeline,      \* commands sent and not yet executed by the broker
  idx,           \* bulk_enqueue: jobs in the batches that were acknowledged
  remaining,     \* bulk_enqueue: jobs not yet in such a batch
  batch,         \* size of the batch that is being sent, 0 if there is none
  lists,         \* the broker's lists, head first
  taken,         \* every message taken by a BRPOP, in order, and who got it
  orphans        \* BRPOPs of dead workers that wait at the broker

producerVars == <<allowFlushdb, stage, idx, remaining, batch>>
vars == <<producerVars, pipeline, lists, taken, orphans>>

-----------------------------------------------------------------------------

Keys == PolledKeys \union OtherKeys

\* A job of this trial, or a message that was in the database before.
Own(i) == [own |-> TRUE, job |-> i]
Stale == [own |-> FALSE, job |-> 0]

Del(key) == [op |-> "del", key |-> key, job |-> 0]
Push(i) == [op |-> "push", key |-> KeyOf(i), job |-> i]
Flush == [op |-> "flush", key |-> Base, job |-> 0]

(* Mutated forms of ClearCommands: only the bare queue names are deleted, and
   the database is always flushed. *)
ClearCommandsBare == [q \in 1 .. Len(QueueNames) |-> Del(QueueNames[q])]

ClearCommandsFlush == <<Flush>>

(* pre_trial_clear: FLUSHDB if it is allowed, otherwise one DEL per key. *)
ClearCommands ==
  IF allowFlushdb THEN <<Flush>>
  ELSE [i \in 1 .. Len(BrpopKeys) |-> Del(BrpopKeys[i])]

(* The BRPOPs of dead workers wait at the broker, or are on their way to it and
   may find messages. *)
Init ==
  /\ allowFlushdb \in BOOLEAN
  /\ stage = "clear"
  /\ pipeline = ClearCommands
  /\ idx = 0
  /\ remaining = Jobs
  /\ batch = 0
  /\ lists \in [Keys -> {<<>>, <<Stale>>}]
  /\ taken = <<>>
  /\ orphans \in 0 .. MaxOrphans

-----------------------------------------------------------------------------
(* main(): clear, then enqueue batch by batch, then start the trial. *)

ClearDone ==
  /\ stage = "clear"
  /\ pipeline = <<>>
  /\ stage' = "enqueue"
  /\ UNCHANGED <<allowFlushdb, idx, remaining, batch, pipeline, lists, taken, orphans>>

(* Mutated forms of SendBatch: the last batch is not cut to what remains, and
   the numbering restarts with every batch. *)
SendBatchFull ==
  /\ stage = "enqueue"
  /\ batch = 0
  /\ remaining > 0
  /\ batch' = BatchSize
  /\ pipeline' = [j \in 1 .. batch' |-> Push(idx + j - 1)]
  /\ UNCHANGED <<allowFlushdb, stage, idx, remaining, lists, taken, orphans>>

SendBatchRestart ==
  /\ stage = "enqueue"
  /\ batch = 0
  /\ remaining > 0
  /\ batch' = IF remaining < BatchSize THEN remaining ELSE BatchSize
  /\ pipeline' = [j \in 1 .. batch' |-> Push(j - 1)]
  /\ UNCHANGED <<allowFlushdb, stage, idx, remaining, lists, taken, orphans>>

SendBatch ==
  /\ stage = "enqueue"
  /\ batch = 0
  /\ remaining > 0
  /\ batch' = IF remaining < BatchSize THEN remaining ELSE BatchSize
  /\ pipeline' = [j \in 1 .. batch' |-> Push(idx + j - 1)]
  /\ UNCHANGED <<allowFlushdb, stage, idx, remaining, lists, taken, orphans>>

BatchDone ==
  /\ stage = "enqueue"
  /\ batch > 0
  /\ pipeline = <<>>
  /\ idx' = idx + batch
  /\ remaining' = remaining - batch
  /\ batch' = 0
  /\ UNCHANGED <<allowFlushdb, stage, pipeline, lists, taken, orphans>>

EnqueueDone ==
  /\ stage = "enqueue"
  /\ batch = 0
  /\ remaining = 0
  /\ stage' = "ready"
  /\ UNCHANGED <<allowFlushdb, idx, remaining, batch, pipeline, lists, taken, orphans>>

(* A query fails and main() returns the error.  What has left this side by
   then may still be executed. *)
PipelineFails ==
  /\ stage = "clear" \/ (stage = "enqueue" /\ batch > 0)
  /\ stage' = "failed"
  /\ \E n \in 0 .. Len(pipeline) : pipeline' = SubSeq(pipeline, 1, n)
  /\ UNCHANGED <<allowFlushdb, idx, remaining, batch, lists, taken, orphans>>

Produce ==
  \/ ClearDone
  \/ SendBatch
  \/ BatchDone
  \/ EnqueueDone
  \/ PipelineFails

-----------------------------------------------------------------------------
(* The broker. *)

Delete ==
  /\ pipeline # <<>>
  /\ Head(pipeline).op = "del"
  /\ pipeline' = Tail(pipeline)
  /\ lists' = [lists EXCEPT ![Head(pipeline).key] = <<>>]
  /\ UNCHANGED <<producerVars, taken, orphans>>

FlushAll ==
  /\ pipeline # <<>>
  /\ Head(pipeline).op = "flush"
  /\ pipeline' = Tail(pipeline)
  /\ lists' = [k \in Keys |-> <<>>]
  /\ UNCHANGED <<producerVars, taken, orphans>>

(* Mutated form of Lpush: RPUSH. *)
Rpush ==
  /\ pipeline # <<>>
  /\ Head(pipeline).op = "push"
  /\ pipeline' = Tail(pipeline)
  /\ lists' = [lists EXCEPT ![Head(pipeline).key] = Append(@, Own(Head(pipeline).job))]
  /\ UNCHANGED <<producerVars, taken, orphans>>

Lpush ==
  /\ pipeline # <<>>
  /\ Head(pipeline).op = "push"
  /\ pipeline' = Tail(pipeline)
  /\ lists' = [lists EXCEPT ![Head(pipeline).key] = <<Own(Head(pipeline).job)>> \o @]
  /\ UNCHANGED <<producerVars, taken, orphans>>

(* BRPOP takes the last element of the first list in its order that is not
   empty. *)
Pop(to) ==
  \E i \in DOMAIN BrpopKeys :
    LET key == BrpopKeys[i]
        list == lists[key]
    IN /\ list # <<>>
       /\ \A j \in 1 .. i - 1 : lists[BrpopKeys[j]] = <<>>
       /\ lists' = [lists EXCEPT ![key] = SubSeq(list, 1, Len(list) - 1)]
       /\ taken' = Append(taken, [msg |-> list[Len(list)], to |-> to])

(* Workers exist only once the trial has started. *)
ServeWorker ==
  /\ stage = "ready"
  /\ Pop("worker")
  /\ UNCHANGED <<producerVars, pipeline, orphans>>

ServeOrphan ==
  /\ orphans > 0
  /\ orphans' = orphans - 1
  /\ Pop("orphan")
  /\ UNCHANGED <<producerVars, pipeline>>

OrphanCloses ==
  /\ orphans > 0
  /\ orphans' = orphans - 1
  /\ UNCHANGED <<producerVars, pipeline, lists, taken>>

Execute == Delete \/ FlushAll \/ Lpush

Serve == ServeWorker \/ ServeOrphan

\* main() has given up, or every job is out.
Finished ==
  /\ stage = "failed" \/ (stage = "ready" /\ \A k \in PolledKeys : lists[k] = <<>>)
  /\ UNCHANGED vars

Next == Produce \/ Execute \/ Serve \/ OrphanCloses \/ Finished

Spec == Init /\ [][Next]_vars

(* The broker executes what it is sent, main() goes on when it has its answer,
   and workers keep asking. *)
FairSpec == Spec /\ WF_vars(Produce) /\ WF_vars(Execute) /\ WF_vars(Serve)

-----------------------------------------------------------------------------

\* The job whose LPUSH the broker executes next.
NextJob == idx + batch - Len(pipeline)

Commands == {Push(i) : i \in 0 .. Jobs - 1} \union {Del(k) : k \in PolledKeys} \union {Flush}
Messages == {Own(i) : i \in 0 .. Jobs - 1} \union {Stale}

ProducerTypeOK ==
  /\ allowFlushdb \in BOOLEAN
  /\ stage \in {"clear", "enqueue", "ready", "failed"}
  /\ pipeline \in Seq(Commands)
  /\ idx \in 0 .. Jobs
  /\ remaining \in 0 .. Jobs
  /\ batch \in 0 .. BatchSize
  /\ lists \in [Keys -> Seq(Messages)]
  /\ taken \in Seq([msg : Messages, to : {"worker", "orphan"}])
  /\ orphans \in 0 .. MaxOrphans

\* Where job i is: in a list, or among the messages taken.
Positions(seq, i) == {p \in DOMAIN seq : seq[p] = Own(i)}
Listed(i) == UNION {{<<k, p>> : p \in Positions(lists[k], i)} : k \in Keys}
Taken(i) == {p \in DOMAIN taken : taken[p].msg = Own(i)}

\* Polled keys with a message from before (at most one each, see Init), jobs that
\* wait, and jobs that went to dead workers.
OldKeys == {k \in PolledKeys : \E p \in DOMAIN lists[k] : ~lists[k][p].own}
Waiting == {i \in 0 .. Jobs - 1 : Listed(i) # {}}
Stolen == {i \in 0 .. Jobs - 1 : \E p \in DOMAIN taken : taken[p] = [msg |-> Own(i), to |-> "orphan"]}

(* What a round sees of the broker.  Before the trial starts it sees no job, and
   the orphans as if they had not been served yet. *)
SupplyStep == CASE stage = "ready" -> "trial" [] stage = "failed" -> "exited" [] OTHER -> stage
SupplyKeys ==
  [age \in {"own", "old"} |->
     IF age = "old" THEN Cardinality(OldKeys)
     ELSE IF stage = "ready" THEN Cardinality(Waiting) ELSE 0]
SupplyOrphans == IF stage = "ready" THEN orphans ELSE orphans + Cardinality(Stolen)

Supply == INSTANCE SupplyContract WITH
  Amounts <- {Jobs}, step <- SupplyStep, keys <- SupplyKeys, orphans <- SupplyOrphans

(* The pipelines, executed command by command, broken anywhere and interleaved
   with BRPOPs of dead workers, amount to what main() relies on: no message from
   before is left when a trial starts, the jobs that are missing are those the
   dead workers' BRPOPs took, and workers get jobs of the round only. *)
SuppliesRounds == Supply!SupplySpec

(* When the workers start, no message from before is left under any key they
   poll, whatever was there; so none is ever counted as a job. *)
NoLeftovers ==
  stage \in {"enqueue", "ready"} =>
    /\ \A k \in PolledKeys : \A p \in DOMAIN lists[k] : lists[k][p].own
    /\ \A p \in DOMAIN taken : taken[p].to = "worker" => taken[p].msg.own

\* The copies of job i that the broker has or has given away.
Copies(i) == Cardinality(Listed(i)) + Cardinality(Taken(i))

(* The trial starts only with all its jobs enqueued, each exactly once, across
   batch boundaries and although other BRPOPs may already take some out.  Where a
   pipeline breaks, whatever is executed of it later, the broker has got a first
   part of the jobs, none of them twice. *)
EachJobOnce ==
  /\ \A i \in 0 .. Jobs - 1 : Copies(i) <= 1
  /\ \A i, j \in 0 .. Jobs - 1 : i < j /\ Copies(j) = 1 => Copies(i) = 1
  /\ stage = "ready" => \A i \in 0 .. Jobs - 1 : Copies(i) = 1

(* LPUSH and BRPOP make every key a FIFO queue. *)
Fifo ==
  \A a, b \in DOMAIN taken :
    a < b /\ taken[a].msg.own /\ taken[b].msg.own
      /\ KeyOf(taken[a].msg.job) = KeyOf(taken[b].msg.job)
    => taken[a].msg.job < taken[b].msg.job

(* With all jobs enqueued before the workers start, they get all jobs of one
   priority step, of all queues, before any of the next. *)
StepsInOrder ==
  \A a, b \in DOMAIN taken :
    a < b /\ taken[a].to = "worker" /\ taken[b].to = "worker"
    => PriorityStep(PriorityOf(taken[a].msg.job)) <= PriorityStep(PriorityOf(taken[b].msg.job))

(* At every moment of the enqueueing, and not only after whole cycles, the jobs
   pushed are spread over all pairs of a queue and a priority, evenly to one. *)
EvenSpread ==
  stage \in {"enqueue", "ready"} =>
    LET Share(q, p) == Cardinality({i \in 0 .. NextJob - 1 : RoundRobin(i) = <<q, p>>})
        Pairs == (0 .. Len(QueueNames) - 1) \X (0 .. Len(Priorities) - 1)
    IN \A a, b \in Pairs : Share(a[1], a[2]) <= Share(b[1], b[2]) + 1

(* Without --allow-flushdb no key of another program is ever touched. *)
OtherKeysUntouched ==
  [][~allowFlushdb => \A k \in OtherKeys : lists'[k] = lists[k]]_vars

(* Every job enqueued under some key is polled for: once the trial starts all
   of them are taken. *)
AllJobsTaken ==
  (stage = "ready") ~>
    (\A i \in 0 .. Jobs - 1 : \E p \in DOMAIN taken : taken[p].msg = Own(i))
=============================================================================
