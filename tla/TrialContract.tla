---------------------------- MODULE TrialContract ----------------------------
(***************************************************************************)
(* What one trial promises to main(), which prints and stores its result   *)
(* and derives the exit code from it: jobs and errors are counted one by   *)
(* one, the trial is decided once, success is claimed only for a reached   *)
(* target, and the reported counts are final - nothing that happens after  *)
(* they were read changes them.                                            *)
(***************************************************************************)
EXTENDS Naturals

CONSTANT TargetJobs

VARIABLES
  jobs,     \* jobs completed
  errs,     \* errors counted
  outcome,  \* how the trial ended, if it has
  result    \* the counts that are reported

contractVars == <<jobs, errs, outcome, result>>

Outcomes == {"target", "timeout", "exited", "refused"}

NoResult == [latencies |-> 0, jobs |-> 0, errors |-> 0, done |-> FALSE]

ContractInit ==
  /\ jobs = 0
  /\ errs = 0
  /\ outcome = "running"
  /\ result = NoResult

(* Work may go on after the outcome is decided, but not after the report. *)
CountJob ==
  /\ ~result.done
  /\ jobs' = jobs + 1
  /\ UNCHANGED <<errs, outcome, result>>

CountError ==
  /\ ~result.done
  /\ errs' = errs + 1
  /\ UNCHANGED <<jobs, outcome, result>>

Conclude(verdict) ==
  /\ outcome = "running"
  /\ verdict = "target" => jobs >= TargetJobs
  /\ outcome' = verdict
  /\ UNCHANGED <<jobs, errs, result>>

(* A trial that could not be started has no result. *)
Publish ==
  /\ outcome \in Outcomes \ {"refused"}
  /\ ~result.done
  /\ \E latencies \in 0 .. jobs :
       result' = [latencies |-> latencies, jobs |-> jobs, errors |-> errs, done |-> TRUE]
  /\ UNCHANGED <<jobs, errs, outcome>>

ContractNext ==
  \/ CountJob
  \/ CountError
  \/ \E verdict \in Outcomes : Conclude(verdict)
  \/ Publish

ContractSpec == ContractInit /\ [][ContractNext]_contractVars
=============================================================================
