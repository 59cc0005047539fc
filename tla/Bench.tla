-------------------------------- MODULE Bench --------------------------------
(***************************************************************************)
(* main() (main.rs): for every value of --workers an optional warmup round *)
(* and a measured round, each of which clears the keys, enqueues its jobs  *)
(* and runs a trial; then the report is written and the exit code chosen.  *)
(*                                                                         *)
(* A round fills the broker in any way that SupplyContract allows          *)
(* (Producer implements it), while BRPOPs of dead workers interfere, and   *)
(* its trial is any behaviour that TrialContract allows (Trial implements  *)
(* it) on the messages that are in the keys.                               *)
(***************************************************************************)
EXTENDS Naturals, Sequences

CONSTANTS
  WorkersList,  \* --workers
  Jobs,         \* --jobs
  WarmupJobs,   \* --warmup-jobs
  MaxOrphans,   \* bound: BRPOPs of dead workers that wait at the broker
  MaxErrors,    \* bound: errors in a trial
  MaxOld        \* bound: messages in the keys before the program starts

ASSUME WorkersListAssumption == WorkersList \in Seq(Nat \ {0}) /\ WorkersList # <<>>
ASSUME JobsAssumption == Jobs \in Nat \ {0}
ASSUME WarmupAssumption == WarmupJobs \in Nat
ASSUME BoundsAssumption == MaxOrphans \in Nat /\ MaxErrors \in Nat /\ MaxOld \in Nat

VARIABLES
  stage,       \* what main() is doing
  level,       \* the index in WorkersList
  phase,       \* warmup or measured round
  keys,        \* messages in the keys: of this round, and older ones
  counted,     \* messages of either age the trial has counted
  orphans,     \* BRPOPs of dead workers that wait at the broker
  jobs,        \* the current trial, see TrialContract
  errs,
  outcome,
  result,
  results,     \* the results of the measured rounds
  anyTimeout,  \* any_timeout
  file,        \* the output file
  code         \* exit code, once there is one

trialVars == <<jobs, errs, outcome, result, counted>>
roundVars == <<stage, level, phase>>
exitVars == <<results, anyTimeout, file, code>>
vars == <<roundVars, keys, orphans, trialVars, exitVars>>

Warmup == INSTANCE TrialContract WITH TargetJobs <- WarmupJobs
Measured == INSTANCE TrialContract WITH TargetJobs <- Jobs
Supply == INSTANCE SupplyContract WITH Amounts <- {WarmupJobs, Jobs}, step <- stage

-----------------------------------------------------------------------------

Phases == {"warmup", "measured"}

FirstPhase == IF WarmupJobs > 0 THEN "warmup" ELSE "measured"
Target == IF phase = "warmup" THEN WarmupJobs ELSE Jobs

Init ==
  /\ stage = "clear" /\ level = 1 /\ phase = FirstPhase
  /\ \E n \in 0 .. MaxOld : keys = [Supply!NoMessages EXCEPT !["old"] = n]
  /\ counted = Supply!NoMessages
  /\ orphans = 0
  /\ Measured!ContractInit
  /\ results = <<>>
  /\ anyTimeout = FALSE
  /\ file = "before"
  /\ code = "none"

Exit(c) == stage' = "exited" /\ code' = c

-----------------------------------------------------------------------------
(* One round. *)

(* The broker deletes what it finds, also for a pipeline that main() has given
   up on. *)
Discard ==
  /\ Supply!Discard \/ Supply!LateDiscard
  /\ UNCHANGED <<level, phase, trialVars, exitVars>>

(* Mutated form of Clear: the keys keep what the last round left. *)
ClearNothing ==
  /\ stage = "clear"
  /\ stage' = "enqueue"
  /\ UNCHANGED <<level, phase, keys, orphans, trialVars, exitVars>>

Clear ==
  /\ Supply!Cleared
  /\ UNCHANGED <<level, phase, trialVars, exitVars>>

(* The round's jobs are enqueued and run_trial starts with fresh counters. *)
Enqueue ==
  /\ Supply!Enqueue(Target)
  /\ counted' = Supply!NoMessages
  /\ jobs' = 0 /\ errs' = 0 /\ outcome' = "running" /\ result' = Measured!NoResult
  /\ UNCHANGED <<level, phase, exitVars>>

(* A pipeline fails; its error ends the program, whatever it had measured. *)
BrokerFails ==
  /\ Supply!Fail
  /\ code' = "failure"
  /\ UNCHANGED <<level, phase, trialVars, results, anyTimeout, file>>

Process(age) ==
  /\ Supply!Take(age)
  /\ counted' = [counted EXCEPT ![age] = @ + 1]
  /\ Measured!CountJob
  /\ UNCHANGED <<level, phase, exitVars>>

BrpopFails ==
  /\ stage = "trial"
  /\ errs < MaxErrors
  /\ Measured!CountError
  /\ UNCHANGED <<roundVars, keys, counted, orphans, exitVars>>

Decide ==
  /\ stage = "trial"
  /\ \E verdict \in Measured!Outcomes :
       IF phase = "warmup" THEN Warmup!Conclude(verdict) ELSE Measured!Conclude(verdict)
  /\ UNCHANGED <<roundVars, keys, counted, orphans, exitVars>>

Publish ==
  /\ stage = "trial"
  /\ Measured!Publish
  /\ UNCHANGED <<roundVars, keys, counted, orphans, exitVars>>

\* TrialResult.timed_out.
TimedOut == outcome # "target"

\* What the trial left in the keys, and workers it had to abort.
LeaveBehind ==
  /\ keys' = [Supply!NoMessages EXCEPT !["old"] = keys["own"] + keys["old"]]
  /\ \E n \in 0 .. WorkersList[level] :
       orphans + n <= MaxOrphans /\ orphans' = orphans + n

(* Mutated form of WarmupReturns: the loop warms up again. *)
WarmupAgain ==
  /\ stage = "trial" /\ phase = "warmup"
  /\ result.done
  /\ stage' = "clear"
  /\ LeaveBehind
  /\ UNCHANGED <<level, phase, trialVars, exitVars>>

(* The result of a warmup is discarded, also one that timed out. *)
WarmupReturns ==
  /\ stage = "trial" /\ phase = "warmup"
  /\ result.done
  /\ stage' = "clear" /\ phase' = "measured"
  /\ LeaveBehind
  /\ UNCHANGED <<level, trialVars, exitVars>>

(* Mutated forms of MeasuredReturns: only the last level's time-out is
   remembered, and the loop runs one level too far. *)
MeasuredReturnsLast ==
  /\ stage = "trial" /\ phase = "measured"
  /\ result.done
  /\ results' = Append(results, [workers |-> WorkersList[level], jobs |-> result.jobs,
                                 timedOut |-> TimedOut])
  /\ anyTimeout' = TimedOut
  /\ IF level < Len(WorkersList)
     THEN level' = level + 1 /\ stage' = "clear" /\ phase' = FirstPhase
     ELSE stage' = "save" /\ UNCHANGED <<level, phase>>
  /\ LeaveBehind
  /\ UNCHANGED <<trialVars, file, code>>

MeasuredReturnsFar ==
  /\ stage = "trial" /\ phase = "measured"
  /\ result.done
  /\ results' = Append(results, [workers |-> WorkersList[level], jobs |-> result.jobs,
                                 timedOut |-> TimedOut])
  /\ anyTimeout' = (anyTimeout \/ TimedOut)
  /\ IF level <= Len(WorkersList)
     THEN level' = level + 1 /\ stage' = "clear" /\ phase' = FirstPhase
     ELSE stage' = "save" /\ UNCHANGED <<level, phase>>
  /\ LeaveBehind
  /\ UNCHANGED <<trialVars, file, code>>

MeasuredReturns ==
  /\ stage = "trial" /\ phase = "measured"
  /\ result.done
  /\ results' = Append(results, [workers |-> WorkersList[level], jobs |-> result.jobs,
                                 timedOut |-> TimedOut])
  /\ anyTimeout' = (anyTimeout \/ TimedOut)
  /\ IF level < Len(WorkersList)
     THEN level' = level + 1 /\ stage' = "clear" /\ phase' = FirstPhase
     ELSE stage' = "save" /\ UNCHANGED <<level, phase>>
  /\ LeaveBehind
  /\ UNCHANGED <<trialVars, file, code>>

(* run_trial returned an error: a connection was refused. *)
TrialFails ==
  /\ stage = "trial"
  /\ outcome = "refused"
  /\ Exit("failure")
  /\ UNCHANGED <<level, phase, keys, orphans, trialVars, results, anyTimeout, file>>

-----------------------------------------------------------------------------
(* The end: the report, then the exit code. *)

Save ==
  /\ stage = "save"
  /\ file' = "complete"
  /\ Exit(IF anyTimeout THEN "failure" ELSE "success")
  /\ UNCHANGED <<level, phase, keys, orphans, trialVars, results, anyTimeout>>

(* fs::write truncates the file first. *)
SaveFails ==
  /\ stage = "save"
  /\ file' \in {"before", "partial"}
  /\ Exit("failure")
  /\ UNCHANGED <<level, phase, keys, orphans, trialVars, results, anyTimeout>>

MainStep ==
  \/ Clear
  \/ Enqueue
  \/ BrokerFails
  \/ WarmupReturns
  \/ MeasuredReturns
  \/ TrialFails
  \/ Save
  \/ SaveFails

TrialStep ==
  \/ \E age \in Supply!Ages : Process(age)
  \/ BrpopFails
  \/ Decide
  \/ Publish

-----------------------------------------------------------------------------

(* BRPOPs of dead workers, also while main() does something else. *)
Steal == Supply!Steal /\ UNCHANGED <<level, phase, trialVars, exitVars>>

OrphanCloses == Supply!OrphanCloses /\ UNCHANGED <<level, phase, trialVars, exitVars>>

Exited ==
  /\ stage = "exited"
  /\ UNCHANGED vars

Next == MainStep \/ Discard \/ TrialStep \/ Steal \/ OrphanCloses \/ Exited

Spec == Init /\ [][Next]_vars

(* The pipelines of main() are answered or fail (it sets no time-out for them),
   and every trial is decided and returns: Trial's TrialReturns, for which no
   BRPOP needs an answer. *)
FairSpec ==
  Spec /\ WF_vars(MainStep) /\ WF_vars(Discard) /\ WF_vars(Decide) /\ WF_vars(Publish)

-----------------------------------------------------------------------------

Results == [workers : Nat \ {0}, jobs : Nat, timedOut : BOOLEAN]

BenchTypeOK ==
  /\ stage \in {"clear", "enqueue", "trial", "save", "exited"}
  /\ level \in 1 .. Len(WorkersList)
  /\ phase \in Phases
  /\ keys \in [Supply!Ages -> Nat] /\ counted \in [Supply!Ages -> Nat]
  /\ orphans \in 0 .. MaxOrphans
  /\ jobs \in Nat /\ errs \in 0 .. MaxErrors
  /\ outcome \in Measured!Outcomes \union {"running"}
  /\ result \in [latencies : Nat, jobs : Nat, errors : Nat, done : BOOLEAN]
  /\ results \in Seq(Results)
  /\ anyTimeout \in BOOLEAN
  /\ file \in {"before", "partial", "complete"}
  /\ code \in {"none", "success", "failure"}

(* The exit code tells the truth about the report: success means a complete
   report in which every level, in the order of --workers, reached its target;
   a complete report with exit code 1 holds a level that did not. *)
ExitIsHonest ==
  /\ code = "success" =>
       /\ file = "complete"
       /\ \A i \in DOMAIN results : ~results[i].timedOut /\ results[i].jobs >= Jobs
  /\ file = "complete" =>
       /\ Len(results) = Len(WorkersList)
       /\ \A i \in DOMAIN results : results[i].workers = WorkersList[i]
       /\ code = "failure" => \E i \in DOMAIN results : results[i].timedOut

(* No trial counts a job of an earlier round, although a round that times out
   leaves jobs in the keys and its workers' BRPOPs at the broker. *)
RoundsAreIsolated == counted["old"] = 0

(* The program ends: no round is run twice, and no trial, however it ends,
   keeps main() from going on. *)
MainExits == <>(stage = "exited")
=============================================================================
