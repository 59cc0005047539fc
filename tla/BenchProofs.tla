----------------------------- MODULE BenchProofs -----------------------------
(***************************************************************************)
(* The exit code is honest and rounds do not mix, for every list of        *)
(* worker counts, every number of jobs and every bound.                    *)
(***************************************************************************)
EXTENDS Bench, TLAPS

\* While main() is running nothing is saved; results has one element for every
\* level that is behind it.
Progress ==
  /\ stage # "exited" => code = "none" /\ file = "before"
  /\ stage \in {"clear", "enqueue", "trial"} => Len(results) = level - 1
  /\ stage = "save" => Len(results) = Len(WorkersList)

\* What the results say is what the trials did, and any_timeout sums it up.
Faithful ==
  /\ \A i \in DOMAIN results : results[i].workers = WorkersList[i]
  /\ \A i \in DOMAIN results : results[i].timedOut = TRUE \/ results[i].jobs >= Jobs
  /\ anyTimeout = TRUE <=> \E i \in DOMAIN results : results[i].timedOut = TRUE

\* The trial of a measured round claims success only for a reached target, and
\* publishes what it counted.
TrialHonest ==
  /\ stage = "trial" /\ phase = "measured" /\ outcome = "target" => jobs >= Jobs
  /\ stage = "trial" /\ result.done = TRUE => result.jobs = jobs /\ outcome # "running"

\* How the program ended.
Ending ==
  /\ code = "success" => file = "complete" /\ anyTimeout = FALSE
  /\ file = "complete" =>
       /\ Len(results) = Len(WorkersList)
       /\ code = "failure" => anyTimeout = TRUE

\* A round begins without jobs; nothing old is left once the keys are cleared, so
\* nothing old is counted.
Fresh ==
  /\ stage = "clear" => keys["own"] = 0
  /\ stage \in {"enqueue", "trial"} => keys["old"] = 0
  /\ counted["old"] = 0

BenchInv ==
  /\ BenchTypeOK
  /\ Progress
  /\ Faithful
  /\ TrialHonest
  /\ Ending
  /\ Fresh

-----------------------------------------------------------------------------

LEMMA InitialState == Init => BenchInv
<1> SUFFICES ASSUME Init PROVE BenchInv
  OBVIOUS
<1>1. /\ stage = "clear" /\ level = 1 /\ phase = FirstPhase
      /\ orphans = 0 /\ jobs = 0 /\ errs = 0 /\ outcome = "running"
      /\ result = [latencies |-> 0, jobs |-> 0, errors |-> 0, done |-> FALSE]
      /\ results = <<>> /\ anyTimeout = FALSE /\ file = "before" /\ code = "none"
      /\ counted = Supply!NoMessages
  BY DEF Init, Measured!ContractInit, Measured!NoResult
<1>2. keys \in [Supply!Ages -> Nat] /\ keys["own"] = 0 /\ counted \in [Supply!Ages -> Nat] /\ counted["old"] = 0
  BY <1>1, BoundsAssumption, SMT DEF Init, Supply!NoMessages, Supply!Ages
<1>3. Len(WorkersList) \in Nat \ {0} /\ Len(results) = 0 /\ DOMAIN results = {}
  BY <1>1, WorkersListAssumption, SMT
<1>4. results \in Seq(Results)
  BY <1>1, SMT
<1>5. FirstPhase \in Phases
  BY DEF FirstPhase, Phases
<1>6. BenchTypeOK
  <2>1. level \in 1 .. Len(WorkersList) /\ orphans \in 0 .. MaxOrphans /\ errs \in 0 .. MaxErrors
    BY <1>1, <1>3, BoundsAssumption, SMT
  <2>2. result \in [latencies : Nat, jobs : Nat, errors : Nat, done : BOOLEAN]
    <3>1. 0 \in Nat /\ FALSE \in BOOLEAN
      BY SMT
    <3> QED
      BY <1>1, <3>1, Zenon
  <2> QED
    BY <1>1, <1>2, <1>4, <1>5, <2>1, <2>2 DEF BenchTypeOK
<1> QED
  BY <1>1, <1>2, <1>3, <1>6, SMT
     DEF BenchInv, Progress, Faithful, TrialHonest, Ending, Fresh

LEMMA KeysStep ==
  ASSUME NEW f \in [Supply!Ages -> Nat], NEW age \in Supply!Ages, NEW g,
         f[age] > 0, g = [f EXCEPT ![age] = @ - 1]
  PROVE  g \in [Supply!Ages -> Nat] /\ \A a \in Supply!Ages : f[a] = 0 => g[a] = 0
  BY SMT DEF Supply!Ages

(* Clearing, enqueueing, and the errors that end the program early. *)
LEMMA PreparationStep ==
  ASSUME BenchInv, Discard \/ Clear \/ Enqueue \/ BrokerFails \/ TrialFails
  PROVE  BenchInv'
<1>1. CASE Discard
  <2>1. /\ stage \in {"clear", "exited"}
        /\ UNCHANGED <<stage, level, phase, orphans, jobs, errs, outcome, result, counted,
                       results, anyTimeout, file, code>>
    BY <1>1 DEF Discard, Supply!Discard, Supply!LateDiscard, Supply!Drop, trialVars, exitVars
  <2>2. PICK n \in 0 .. keys["old"] - 1 : keys' = [keys EXCEPT !["old"] = n]
    BY <1>1 DEF Discard, Supply!Discard, Supply!LateDiscard, Supply!Drop
  <2>3. keys \in [Supply!Ages -> Nat]
    BY DEF BenchInv, BenchTypeOK
  <2>4. keys' \in [Supply!Ages -> Nat] /\ keys'["own"] = keys["own"]
    BY <2>2, <2>3, SMT DEF Supply!Ages
  <2> QED
    BY <2>1, <2>4 DEF BenchInv, BenchTypeOK, Progress, Faithful, TrialHonest, Ending, Fresh
<1>2. CASE Clear
  <2>1. keys = Supply!NoMessages /\ stage = "clear" /\ stage' = "enqueue"
        /\ UNCHANGED <<level, phase, keys, orphans, jobs, errs, outcome, result, counted,
                       results, anyTimeout, file, code>>
    BY <1>2 DEF Clear, Supply!Cleared, trialVars, exitVars
  <2>2. keys["old"] = 0
    BY <2>1, SMT DEF Supply!NoMessages, Supply!Ages
  <2> QED
    BY <2>1, <2>2 DEF BenchInv, BenchTypeOK, Progress, Faithful, TrialHonest, Ending, Fresh
<1>3. CASE Enqueue
  <2> PICK stolen \in 0 .. Target :
        /\ stolen <= orphans /\ orphans' = orphans - stolen
        /\ keys' = [keys EXCEPT !["own"] = Target - stolen]
    BY <1>3 DEF Enqueue, Supply!Enqueue
  <2>1. /\ stage = "enqueue" /\ stage' = "trial"
        /\ counted' = Supply!NoMessages
        /\ jobs' = 0 /\ errs' = 0 /\ outcome' = "running"
        /\ result' = [latencies |-> 0, jobs |-> 0, errors |-> 0, done |-> FALSE]
        /\ UNCHANGED <<level, phase, results, anyTimeout, file, code>>
    BY <1>3 DEF Enqueue, Supply!Enqueue, exitVars, Measured!NoResult
  <2>2. Supply!NoMessages \in [Supply!Ages -> Nat] /\ Supply!NoMessages["old"] = 0
    BY SMT DEF Supply!NoMessages, Supply!Ages
  <2>3. Target \in Nat
    BY JobsAssumption, WarmupAssumption, SMT DEF Target
  <2>4. orphans' \in 0 .. MaxOrphans
    BY <2>3, BoundsAssumption, SMT DEF BenchInv, BenchTypeOK
  <2>5. keys' \in [Supply!Ages -> Nat] /\ keys'["old"] = keys["old"]
    <3>1. keys \in [Supply!Ages -> Nat] /\ Target - stolen \in Nat
      BY <2>3, SMT DEF BenchInv, BenchTypeOK
    <3> QED
      BY <3>1, SMT DEF Supply!Ages
  <2>6. BenchTypeOK'
    BY <2>1, <2>2, <2>4, <2>5, BoundsAssumption, SMT DEF BenchInv, BenchTypeOK
  <2> QED
    BY <2>1, <2>2, <2>5, <2>6
       DEF BenchInv, Progress, Faithful, TrialHonest, Ending, Fresh
<1>4. CASE BrokerFails \/ TrialFails
  <2>1. /\ stage' = "exited" /\ code' = "failure" /\ stage # "exited"
        /\ UNCHANGED <<level, phase, keys, orphans, jobs, errs, outcome, result, counted,
                       results, anyTimeout, file>>
    BY <1>4 DEF BrokerFails, Supply!Fail, TrialFails, Exit, trialVars
  <2> QED
    BY <2>1 DEF BenchInv, BenchTypeOK, Progress, Faithful, TrialHonest, Ending, Fresh
<1> QED
  BY <1>1, <1>2, <1>3, <1>4

(* A step of the trial. *)
LEMMA TrialStepKeeps ==
  ASSUME BenchInv, TrialStep
  PROVE  BenchInv'
<1>1. /\ stage = "trial"
      /\ UNCHANGED <<stage, level, phase, orphans, results, anyTimeout, file, code>>
  BY DEF TrialStep, Process, Supply!Take, BrpopFails, Decide, Publish, roundVars, exitVars
<1>2. /\ keys' \in [Supply!Ages -> Nat] /\ keys'["old"] = 0
      /\ counted' \in [Supply!Ages -> Nat] /\ counted'["old"] = 0
  <2>1. /\ keys \in [Supply!Ages -> Nat] /\ keys["old"] = 0
        /\ counted \in [Supply!Ages -> Nat] /\ counted["old"] = 0
    BY <1>1 DEF BenchInv, BenchTypeOK, Fresh
  <2>2. ASSUME NEW age \in Supply!Ages, Process(age)
        PROVE  /\ keys' \in [Supply!Ages -> Nat] /\ keys'["old"] = 0
               /\ counted' \in [Supply!Ages -> Nat] /\ counted'["old"] = 0
    <3>1. keys[age] > 0 /\ keys' = [keys EXCEPT ![age] = @ - 1]
          /\ counted' = [counted EXCEPT ![age] = @ + 1]
      BY <2>2 DEF Process, Supply!Take
    <3>2. age = "own"
      BY <2>1, <3>1, SMT DEF Supply!Ages
    <3> QED
      BY <2>1, <3>1, <3>2, SMT DEF Supply!Ages
  <2>3. CASE BrpopFails \/ Decide \/ Publish
    BY <2>1, <2>3 DEF BrpopFails, Decide, Publish
  <2> QED
    BY <2>2, <2>3 DEF TrialStep
<1>3. /\ jobs \in Nat /\ errs \in 0 .. MaxErrors
      /\ outcome \in Measured!Outcomes \union {"running"}
      /\ result \in [latencies : Nat, jobs : Nat, errors : Nat, done : BOOLEAN]
      /\ phase \in Phases
      /\ phase = "measured" /\ outcome = "target" => jobs >= Jobs
      /\ result.done = TRUE => result.jobs = jobs /\ outcome # "running"
  BY <1>1 DEF BenchInv, BenchTypeOK, TrialHonest
<1>4. /\ jobs' \in Nat /\ errs' \in 0 .. MaxErrors
      /\ outcome' \in Measured!Outcomes \union {"running"}
      /\ result' \in [latencies : Nat, jobs : Nat, errors : Nat, done : BOOLEAN]
      /\ phase = "measured" /\ outcome' = "target" => jobs' >= Jobs
      /\ result'.done = TRUE => result'.jobs = jobs' /\ outcome' # "running"
  <2>1. CASE \E age \in Supply!Ages : Process(age)
    <3>1. ~result.done /\ jobs' = jobs + 1 /\ UNCHANGED <<errs, outcome, result>>
      BY <2>1 DEF Process, Measured!CountJob
    <3>2. jobs' \in Nat /\ (jobs >= Jobs => jobs' >= Jobs)
      BY <1>3, <3>1, JobsAssumption, SMT
    <3> QED
      BY <1>3, <3>1, <3>2
  <2>2. CASE BrpopFails
    <3>1. errs < MaxErrors /\ errs' = errs + 1 /\ UNCHANGED <<jobs, outcome, result>>
      BY <2>2 DEF BrpopFails, Measured!CountError
    <3>2. errs' \in 0 .. MaxErrors
      BY <1>3, <3>1, BoundsAssumption, SMT
    <3> QED
      BY <1>3, <3>1, <3>2
  <2>3. CASE Decide
    <3>1. PICK verdict \in Measured!Outcomes :
            /\ outcome' = verdict /\ UNCHANGED <<jobs, errs, result>>
            /\ outcome = "running"
            /\ phase = "measured" /\ verdict = "target" => jobs >= Jobs
      BY <2>3 DEF Decide, Warmup!Conclude, Measured!Conclude, Measured!Outcomes,
                  Warmup!Outcomes, Phases
    <3> QED
      BY <1>3, <3>1
  <2>4. CASE Publish
    <3>1. PICK latencies \in 0 .. jobs :
            result' = [latencies |-> latencies, jobs |-> jobs, errors |-> errs, done |-> TRUE]
      BY <2>4 DEF Publish, Measured!Publish
    <3>2. outcome \in Measured!Outcomes \ {"refused"} /\ UNCHANGED <<jobs, errs, outcome>>
      BY <2>4 DEF Publish, Measured!Publish
    <3>3. outcome # "running"
      BY <3>2 DEF Measured!Outcomes
    <3>4. latencies \in Nat /\ errs \in Nat
      BY <1>3, BoundsAssumption, SMT
    <3> QED
      BY <1>3, <3>1, <3>2, <3>3, <3>4
  <2> QED
    BY <2>1, <2>2, <2>3, <2>4 DEF TrialStep
<1>5. BenchTypeOK'
  BY <1>1, <1>2, <1>4 DEF BenchInv, BenchTypeOK
<1> QED
  BY <1>1, <1>2, <1>4, <1>5
     DEF BenchInv, Progress, Faithful, TrialHonest, Ending, Fresh

LEMMA LeaveBehindFacts ==
  ASSUME BenchInv, LeaveBehind
  PROVE  /\ keys' \in [Supply!Ages -> Nat] /\ keys'["own"] = 0
         /\ orphans' \in 0 .. MaxOrphans
<1>1. keys["own"] \in Nat /\ keys["old"] \in Nat /\ level \in 1 .. Len(WorkersList)
      /\ orphans \in 0 .. MaxOrphans
  BY DEF BenchInv, BenchTypeOK, Supply!Ages
<1>2. keys' \in [Supply!Ages -> Nat] /\ keys'["own"] = 0
  <2>1. keys["own"] + keys["old"] \in Nat
    BY <1>1, SMT
  <2>2. keys' = [Supply!NoMessages EXCEPT !["old"] = keys["own"] + keys["old"]]
    BY DEF LeaveBehind
  <2> QED
    BY <2>1, <2>2, SMT DEF Supply!NoMessages, Supply!Ages
<1>3. WorkersList[level] \in Nat
  BY <1>1, WorkersListAssumption, SMT
<1>4. PICK n \in 0 .. WorkersList[level] : orphans + n <= MaxOrphans /\ orphans' = orphans + n
  BY DEF LeaveBehind
<1>5. orphans + n \in 0 .. MaxOrphans
  BY <1>1, <1>3, <1>4, BoundsAssumption, SMT
<1> QED
  BY <1>2, <1>4, <1>5

(* A trial has returned its result. *)
LEMMA ReturnStep ==
  ASSUME BenchInv, WarmupReturns \/ MeasuredReturns
  PROVE  BenchInv'
<1>1. /\ stage = "trial" /\ LeaveBehind /\ result.done = TRUE
      /\ UNCHANGED <<jobs, errs, outcome, result, counted, file, code>>
  <2>1. result.done /\ result.done \in BOOLEAN
    BY DEF WarmupReturns, MeasuredReturns, BenchInv, BenchTypeOK
  <2> QED
    BY <2>1 DEF WarmupReturns, MeasuredReturns, trialVars, exitVars
<1>2. keys' \in [Supply!Ages -> Nat] /\ keys'["own"] = 0 /\ orphans' \in 0 .. MaxOrphans
  BY <1>1, LeaveBehindFacts
<1>3. CASE WarmupReturns
  <2>1. stage' = "clear" /\ phase' = "measured" /\ UNCHANGED <<level, results, anyTimeout>>
    BY <1>3 DEF WarmupReturns, exitVars
  <2> QED
    BY <1>1, <1>2, <2>1
       DEF BenchInv, BenchTypeOK, Phases, Progress, Faithful, TrialHonest, Ending, Fresh
<1>4. CASE MeasuredReturns
  <2> DEFINE new == [workers |-> WorkersList[level], jobs |-> result.jobs,
                     timedOut |-> TimedOut]
  <2>1. /\ phase = "measured" /\ results' = Append(results, new)
        /\ anyTimeout' = (anyTimeout \/ TimedOut)
        /\ IF level < Len(WorkersList)
           THEN level' = level + 1 /\ stage' = "clear" /\ phase' = FirstPhase
           ELSE stage' = "save" /\ UNCHANGED <<level, phase>>
    BY <1>4 DEF MeasuredReturns
  <2>2. /\ level \in 1 .. Len(WorkersList) /\ Len(WorkersList) \in Nat
        /\ WorkersList[level] \in Nat \ {0}
        /\ results \in Seq(Results) /\ Len(results) = level - 1
        /\ result.jobs = jobs /\ jobs \in Nat
        /\ outcome = "target" => jobs >= Jobs
        /\ anyTimeout \in BOOLEAN
    BY <1>1, <2>1, WorkersListAssumption, SMT
       DEF BenchInv, BenchTypeOK, Progress, TrialHonest
  <2>3. TimedOut \in BOOLEAN /\ (TimedOut = FALSE => outcome = "target")
    BY DEF TimedOut
  <2>4. /\ new.workers = WorkersList[level] /\ new.jobs = jobs /\ new.timedOut = TimedOut
        /\ new \in Results
    BY <2>2, <2>3, Zenon DEF Results
  <2>5. new.timedOut = TRUE \/ new.jobs >= Jobs
    BY <2>2, <2>3, <2>4, Zenon
  <2> HIDE DEF new
  <2>6. /\ results' \in Seq(Results) /\ Len(results') = level
        /\ DOMAIN results' = 1 .. level /\ DOMAIN results = 1 .. level - 1
        /\ results'[level] = new
        /\ \A i \in DOMAIN results : results'[i] = results[i]
    BY <2>1, <2>2, <2>4, SMT
  <2>7. DOMAIN results' = DOMAIN results \union {level}
    BY <2>2, <2>6, SMT
  <2>8. Faithful'
    <3>1. /\ \A i \in DOMAIN results : results[i].workers = WorkersList[i]
          /\ \A i \in DOMAIN results : results[i].timedOut = TRUE \/ results[i].jobs >= Jobs
          /\ anyTimeout = TRUE <=> \E i \in DOMAIN results : results[i].timedOut = TRUE
      BY DEF BenchInv, Faithful
    <3>2. \A i \in DOMAIN results' :
            (i \in DOMAIN results /\ results'[i] = results[i]) \/ (i = level /\ results'[i] = new)
      BY <2>6, <2>7
    <3>3. \A i \in DOMAIN results' : results'[i].workers = WorkersList[i]
      BY <2>4, <3>1, <3>2
    <3>4. \A i \in DOMAIN results' : results'[i].timedOut = TRUE \/ results'[i].jobs >= Jobs
      BY <2>5, <3>1, <3>2
    <3>5. (\E i \in DOMAIN results' : results'[i].timedOut = TRUE)
            <=> (\E i \in DOMAIN results : results[i].timedOut = TRUE) \/ TimedOut = TRUE
      BY <2>4, <2>6, <2>7, <3>2, Zenon
    <3>6. anyTimeout' = TRUE <=> anyTimeout = TRUE \/ TimedOut = TRUE
      BY <2>1, <2>2, <2>3, Zenon
    <3> QED
      BY <3>1, <3>3, <3>4, <3>5, <3>6 DEF Faithful
  <2>9. /\ level' \in 1 .. Len(WorkersList) /\ phase' \in Phases /\ stage' \in {"clear", "save"}
        /\ stage' = "clear" => Len(results') = level' - 1
        /\ stage' = "save" => Len(results') = Len(WorkersList)
    <3>1. FirstPhase \in Phases /\ phase \in Phases
      BY DEF FirstPhase, Phases, BenchInv, BenchTypeOK
    <3>2. CASE level < Len(WorkersList)
      <4>1. level' = level + 1 /\ stage' = "clear" /\ phase' = FirstPhase
        BY <2>1, <3>2
      <4>2. level + 1 \in 1 .. Len(WorkersList) /\ level = (level + 1) - 1
        BY <2>2, <3>2, SMT
      <4> QED
        BY <2>6, <3>1, <4>1, <4>2
    <3>3. CASE ~(level < Len(WorkersList))
      <4>1. stage' = "save" /\ level' = level /\ phase' = phase
        BY <2>1, <3>3
      <4>2. level = Len(WorkersList)
        BY <2>2, <3>3, SMT
      <4> QED
        BY <2>2, <2>6, <3>1, <4>1, <4>2
    <3> QED
      BY <3>2, <3>3
  <2>10. anyTimeout' \in BOOLEAN
    BY <2>1
  <2>11. code = "none" /\ file = "before" /\ counted["old"] = 0
    BY <1>1 DEF BenchInv, Progress, Fresh
  <2>12. BenchTypeOK'
    BY <1>1, <1>2, <2>6, <2>9, <2>10 DEF BenchInv, BenchTypeOK
  <2> QED
    BY <1>1, <1>2, <2>8, <2>9, <2>11, <2>12
       DEF BenchInv, Progress, TrialHonest, Ending, Fresh
<1> QED
  BY <1>3, <1>4

(* The report is written, or not. *)
LEMMA SaveStep ==
  ASSUME BenchInv, Save \/ SaveFails
  PROVE  BenchInv'
<1>1. /\ stage = "save" /\ stage' = "exited"
      /\ UNCHANGED <<level, phase, keys, orphans, jobs, errs, outcome, result, counted,
                     results, anyTimeout>>
      /\ Len(results) = Len(WorkersList) /\ anyTimeout \in BOOLEAN
  BY DEF Save, SaveFails, Exit, trialVars, BenchInv, BenchTypeOK, Progress
<1>2. \/ file' = "complete" /\ code' = "failure" /\ anyTimeout = TRUE
      \/ file' = "complete" /\ code' = "success" /\ anyTimeout = FALSE
      \/ file' \in {"before", "partial"} /\ code' = "failure"
  BY <1>1 DEF Save, SaveFails, Exit
<1> QED
  BY <1>1, <1>2 DEF BenchInv, BenchTypeOK, Progress, Faithful, TrialHonest, Ending, Fresh

(* BRPOPs of dead workers. *)
LEMMA OrphanStep ==
  ASSUME BenchInv, Steal \/ OrphanCloses
  PROVE  BenchInv'
<1>1. /\ orphans > 0 /\ orphans' = orphans - 1
      /\ UNCHANGED <<stage, level, phase, jobs, errs, outcome, result, counted,
                     results, anyTimeout, file, code>>
  BY DEF Steal, Supply!Steal, OrphanCloses, Supply!OrphanCloses, trialVars, exitVars
<1>2. orphans' \in 0 .. MaxOrphans
  BY <1>1, BoundsAssumption, SMT DEF BenchInv, BenchTypeOK
<1>3. keys' \in [Supply!Ages -> Nat] /\ \A a \in Supply!Ages : keys[a] = 0 => keys'[a] = 0
  <2>1. keys \in [Supply!Ages -> Nat]
    BY DEF BenchInv, BenchTypeOK
  <2>2. CASE Steal
    <3>1. PICK age \in Supply!Ages : keys[age] > 0 /\ keys' = [keys EXCEPT ![age] = @ - 1]
      BY <2>2 DEF Steal, Supply!Steal
    <3> QED
      BY <2>1, <3>1, KeysStep
  <2>3. CASE OrphanCloses
    BY <2>1, <2>3 DEF OrphanCloses, Supply!OrphanCloses
  <2> QED
    BY <2>2, <2>3
<1>4. keys["own"] = 0 => keys'["own"] = 0
  BY <1>3 DEF Supply!Ages
<1>5. keys["old"] = 0 => keys'["old"] = 0
  BY <1>3 DEF Supply!Ages
<1> QED
  BY <1>1, <1>2, <1>3, <1>4, <1>5
     DEF BenchInv, BenchTypeOK, Progress, Faithful, TrialHonest, Ending, Fresh

LEMMA InvariantStep == BenchInv /\ [Next]_vars => BenchInv'
<1> SUFFICES ASSUME BenchInv, [Next]_vars PROVE BenchInv'
  OBVIOUS
<1>1. CASE Discard \/ Clear \/ Enqueue \/ BrokerFails \/ TrialFails
  BY <1>1, PreparationStep
<1>2. CASE WarmupReturns \/ MeasuredReturns
  BY <1>2, ReturnStep
<1>3. CASE Save \/ SaveFails
  BY <1>3, SaveStep
<1>4. CASE TrialStep
  BY <1>4, TrialStepKeeps
<1>5. CASE Steal \/ OrphanCloses
  BY <1>5, OrphanStep
<1>6. CASE UNCHANGED vars
  BY <1>6 DEF vars, roundVars, trialVars, exitVars, BenchInv, BenchTypeOK, Progress,
              Faithful, TrialHonest, Ending, Fresh
<1> QED
  BY <1>1, <1>2, <1>3, <1>4, <1>5, <1>6 DEF Next, MainStep, Exited

LEMMA InvariantAlways == Spec => []BenchInv
  BY InitialState, InvariantStep, PTL DEF Spec

(* Type correctness of the loop over the levels. *)
THEOREM BenchTypeCorrect == Spec => []BenchTypeOK
<1>1. BenchInv => BenchTypeOK
  BY DEF BenchInv
<1> QED
  BY <1>1, InvariantAlways, PTL

(* Exit code 0 means that every level was measured, in order, reached its
   target and was saved; exit code 1 with a complete report, that one did not. *)
THEOREM ExitIsHonestCorrect == Spec => []ExitIsHonest
<1>1. ASSUME BenchInv PROVE ExitIsHonest
  <2>1. /\ Faithful /\ Ending
        /\ results \in Seq(Results) /\ anyTimeout \in BOOLEAN
    BY <1>1 DEF BenchInv, BenchTypeOK
  <2>2. \A i \in DOMAIN results : results[i].timedOut \in BOOLEAN
    <3>1. \A i \in DOMAIN results : results[i] \in Results
      BY <2>1, SMT
    <3> QED
      BY <3>1 DEF Results
  <2>3. code = "success" =>
          /\ file = "complete"
          /\ \A i \in DOMAIN results : ~results[i].timedOut /\ results[i].jobs >= Jobs
    BY <2>1, <2>2, Zenon DEF Faithful, Ending
  <2>4. file = "complete" =>
          /\ Len(results) = Len(WorkersList)
          /\ \A i \in DOMAIN results : results[i].workers = WorkersList[i]
          /\ code = "failure" => \E i \in DOMAIN results : results[i].timedOut
    BY <2>1, <2>2, Zenon DEF Faithful, Ending
  <2> QED
    BY <2>3, <2>4 DEF ExitIsHonest
<1> QED
  BY <1>1, InvariantAlways, PTL

(* No trial counts a job that an earlier round left behind. *)
THEOREM RoundsAreIsolatedCorrect == Spec => []RoundsAreIsolated
<1>1. BenchInv => RoundsAreIsolated
  BY DEF BenchInv, Fresh, RoundsAreIsolated
<1> QED
  BY <1>1, InvariantAlways, PTL

-----------------------------------------------------------------------------
(* How far main() has come: levels, then rounds, then the steps of a round. *)

StageNumber ==
  CASE stage = "clear" -> 0 [] stage = "enqueue" -> 1 [] stage = "trial" -> 2 [] stage = "save" -> 3

Position ==
  IF stage = "exited" THEN 8 * (Len(WorkersList) + 1)
  ELSE 8 * level + (IF phase = "warmup" THEN 0 ELSE 4) + StageNumber

\* main() never goes back, and what it does not do itself leaves it where it is.
RoundsAdvance == [][Position' >= Position /\ (Position' = Position => UNCHANGED roundVars)]_vars

LEMMA StageNumberFacts ==
  /\ stage = "clear" => StageNumber = 0
  /\ stage = "enqueue" => StageNumber = 1
  /\ stage = "trial" => StageNumber = 2
  /\ stage = "save" => StageNumber = 3
BY DEF StageNumber

LEMMA PositionFacts ==
  ASSUME BenchTypeOK
  PROVE  /\ Len(WorkersList) \in Nat /\ level \in Nat /\ level <= Len(WorkersList)
         /\ stage # "exited" => StageNumber \in 0 .. 3
         /\ stage # "exited" => Position < 8 * (Len(WorkersList) + 1)
         /\ Position \in Nat
<1>1. Len(WorkersList) \in Nat /\ level \in 1 .. Len(WorkersList)
  BY WorkersListAssumption, SMT DEF BenchTypeOK
<1>2. stage # "exited" => StageNumber \in 0 .. 3
  BY StageNumberFacts, SMT DEF BenchTypeOK
<1> QED
  BY <1>1, <1>2, SMT DEF Position

(* The safety half of MainExits, for every --workers list: every step of the loop
   (main.rs:886-932) takes main() to a later stage, round or level, so that it makes
   at most eight for each value of --workers, and no BRPOP of a dead worker, late
   DEL or step of a trial takes it back. *)
THEOREM RoundsAdvanceCorrect == Spec => RoundsAdvance
<1>1. ASSUME BenchInv, BenchInv', [Next]_vars
      PROVE  Position' >= Position /\ (Position' = Position => UNCHANGED roundVars)
  <2>1. /\ Len(WorkersList) \in Nat /\ level \in Nat /\ level <= Len(WorkersList)
        /\ stage # "exited" => StageNumber \in 0 .. 3
        /\ Position \in Nat
        /\ stage # "exited" => Position < 8 * (Len(WorkersList) + 1)
    BY <1>1, PositionFacts DEF BenchInv
  <2>2. CASE UNCHANGED roundVars
    <3>1. UNCHANGED <<stage, level, phase>>
      BY <2>2 DEF roundVars
    <3>2. StageNumber' = StageNumber
      BY <3>1 DEF StageNumber
    <3>3. Position' = Position
      BY <3>1, <3>2 DEF Position
    <3> QED
      BY <2>1, <2>2, <3>3, SMT
  <2>3. ASSUME stage # "exited", stage' = "exited"
        PROVE  Position' \in Nat /\ Position' > Position
    <3>1. Position' = 8 * (Len(WorkersList) + 1)
      BY <2>3 DEF Position
    <3> QED
      BY <2>1, <2>3, <3>1, SMT
  <2>4. ASSUME UNCHANGED <<level, phase>>,
               \/ stage = "clear" /\ stage' = "enqueue"
               \/ stage = "enqueue" /\ stage' = "trial"
        PROVE  Position' \in Nat /\ Position' > Position
    BY <2>1, <2>4, SMT DEF Position, StageNumber
  <2>5. CASE WarmupReturns
    <3>1. /\ stage = "trial" /\ phase = "warmup" /\ level' = level
          /\ stage' = "clear" /\ phase' = "measured"
      BY <2>5 DEF WarmupReturns
    <3> QED
      BY <2>1, <3>1, SMT DEF Position, StageNumber
  <2>6. CASE MeasuredReturns
    <3>1. /\ stage = "trial" /\ phase = "measured"
          /\ \/ level' = level + 1 /\ stage' = "clear"
             \/ stage' = "save" /\ UNCHANGED <<level, phase>>
      BY <2>6 DEF MeasuredReturns
    <3> QED
      BY <2>1, <3>1, SMT DEF Position, StageNumber
  <2>7. CASE Clear \/ Enqueue
    <3>1. Position' \in Nat /\ Position' > Position
      BY <2>4, <2>7 DEF Clear, Enqueue, Supply!Cleared, Supply!Enqueue
    <3> QED
      BY <2>1, <3>1, SMT
  <2>8. CASE BrokerFails \/ TrialFails \/ Save \/ SaveFails
    <3>1. stage # "exited" /\ stage' = "exited"
      BY <2>8 DEF BrokerFails, Supply!Fail, TrialFails, Save, SaveFails, Exit
    <3>2. Position' \in Nat /\ Position' > Position
      BY <2>3, <3>1
    <3> QED
      BY <2>1, <3>2, SMT
  <2>9. CASE Discard \/ TrialStep \/ Steal \/ OrphanCloses \/ Exited \/ UNCHANGED vars
    <3>1. UNCHANGED roundVars
      BY <2>9 DEF Discard, Supply!Discard, Supply!LateDiscard, Supply!Drop, TrialStep, Process,
                  Supply!Take, BrpopFails, Decide, Publish, Steal, Supply!Steal, OrphanCloses,
                  Supply!OrphanCloses, Exited, vars, roundVars
    <3> QED
      BY <2>2, <3>1
  <2> QED
    BY <1>1, <2>1, <2>5, <2>6, <2>7, <2>8, <2>9, SMT DEF Next, MainStep
<1> QED
  BY <1>1, InvariantAlways, PTL DEF Spec, RoundsAdvance
=============================================================================
