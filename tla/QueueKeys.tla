----------------------------- MODULE QueueKeys -----------------------------
(***************************************************************************)
(* Which list every job goes to and which lists every worker polls:        *)
(* make_queue_names (main.rs), priority_step, q_for_pri and brpop_keys     *)
(* (job.rs) and round_robin_indices (producer.rs).                         *)
(*                                                                         *)
(* Abstraction: a queue or key name is the sequence of the parts it is     *)
(* concatenated from; the separator bytes and the printed form of a number *)
(* are one part each.                                                      *)
(***************************************************************************)
EXTENDS Naturals, Sequences

CONSTANTS
  Base,       \* --queue
  NumQueues,  \* --num-queues
  Priorities  \* --priorities

(* validate_cli: at least one queue, at least one priority, none above 9. *)
ASSUME BaseAssumption == Base \in Seq(STRING)
ASSUME NumQueuesAssumption == NumQueues \in Nat \ {0}
ASSUME PrioritiesAssumption == Priorities \in Seq(0 .. 9) /\ Priorities # <<>>

QueueNames ==
  IF NumQueues <= 1
  THEN <<Base>>
  ELSE [i \in 1 .. NumQueues |-> Base \o <<"_", i - 1>>]

PrioritySteps == <<0, 3, 6, 9>>

\* The steps the scan passes before it breaks at the first one above n.
Passed(n) == {i \in 1 .. 4 : \A j \in 1 .. i : PrioritySteps[j] <= n}

(* The last step passed, and the first one if there is none. *)
PriorityStep(n) ==
  IF Passed(n) = {}
  THEN PrioritySteps[1]
  ELSE PrioritySteps[CHOOSE i \in Passed(n) : \A j \in Passed(n) : j <= i]

(* Mutated form of QForPri: the raw priority names the key. *)
QForPriRaw(queue, priority) ==
  IF priority # 0 THEN queue \o <<"sep", priority>> ELSE queue

QForPri(queue, priority) ==
  LET step == PriorityStep(priority)
  IN IF step # 0 THEN queue \o <<"sep", step>> ELSE queue

\* The keys of one priority step, in the order of the queues.
StepKeys(s) ==
  [q \in 1 .. Len(QueueNames) |-> QForPri(QueueNames[q], PrioritySteps[s])]

(* Mutated form of BrpopKeys: the queue is the outer loop. *)
BrpopKeysQueueFirst ==
  [i \in 1 .. 4 * Len(QueueNames) |->
     QForPri(QueueNames[((i - 1) \div 4) + 1], PrioritySteps[((i - 1) % 4) + 1])]

(* The priority step is the outer loop, the queue the inner one. *)
BrpopKeys == StepKeys(1) \o StepKeys(2) \o StepKeys(3) \o StepKeys(4)

\* The keys a BRPOP polls, without their order.
PolledKeys == {BrpopKeys[i] : i \in DOMAIN BrpopKeys}

(* Mutated form of RoundRobin: both strides step together. *)
RoundRobinCorrelated(i) ==
  <<i % Len(QueueNames), i % Len(Priorities)>>

(* Indices, from 0, of the queue and the priority of job i. *)
RoundRobin(i) ==
  <<i % Len(QueueNames), (i \div Len(QueueNames)) % Len(Priorities)>>

\* The queue, the priority and the key of job i.
QueueOf(i) == QueueNames[RoundRobin(i)[1] + 1]
PriorityOf(i) == Priorities[RoundRobin(i)[2] + 1]
KeyOf(i) == QForPri(QueueOf(i), PriorityOf(i))
=============================================================================
