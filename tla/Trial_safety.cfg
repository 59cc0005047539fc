\* Two workers race while both connections may be lost, another program pushes a
\* message and a BRPOP of an earlier trial may take one; some latencies are out of
\* the histogram's range.  The monitor never ticks: Trial_sampling.cfg looks at it.
CONSTANTS
  Workers = {w1, w2}
  TargetJobs = 2
  Latencies = {"inRange", "tooLong"}
  MaxForeign = 1
  MaxFaults = 2
  MaxOrphans = 1
  Specs <- NoSpecs
  MaxTicks = 0
SPECIFICATION FairSpec
INVARIANTS
  EveryJobAccountedFor
  GiveUpOnlyOnDeadWorkers
  ReportAddsUp
PROPERTIES
  KeepsContract
  TrialReturns
  ReachesTarget
