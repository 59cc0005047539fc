\* Three workers and a BRPOP of an earlier trial, one own job and three foreign
\* messages: one message more than Overshoot lets the pool count.
CONSTANTS
  Workers = {w1, w2, w3}
  TargetJobs = 1
  Latencies = {"inRange"}
  MaxForeign = 3
  MaxFaults = 1
  MaxOrphans = 1
SPECIFICATION FairPoolSpec
INVARIANTS
  Overshoot
  DoneIsTruthful
  DoneIsNotLost
PROPERTIES
  LateJobsBounded
  ShutdownEndsWorkers
