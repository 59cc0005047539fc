\* Two levels with warmup, two jobs per trial, and one BRPOP that outlives its
\* worker.
CONSTANTS
  WorkersList <- TwoLevels
  Jobs = 2
  WarmupJobs = 1
  MaxOrphans = 1
  MaxErrors = 1
  MaxOld = 1
SPECIFICATION FairSpec
INVARIANTS
  BenchTypeOK
  ExitIsHonest
  RoundsAreIsolated
PROPERTIES
  MainExits
