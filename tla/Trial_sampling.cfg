\* Two ticks: the monitor may be anywhere in its loop when the trial ends, also
\* with a second already sampled.  One of the percentiles is given twice.
CONSTANTS
  Workers = {w1}
  TargetJobs = 2
  Latencies = {"inRange"}
  MaxForeign = 1
  MaxFaults = 1
  MaxOrphans = 0
  Specs <- RepeatedSpec
  MaxTicks = 2
SPECIFICATION Spec
INVARIANTS
  TrialTypeOK
  WindowsPartitionHistogram
  DeltasAddUp
  AlignedAtRest
  SeriesSkew
