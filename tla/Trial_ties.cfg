CONSTANTS
  Workers = {w1, w2}
  TargetJobs = 1
  Latencies = {"inRange"}
  MaxForeign = 0
  MaxFaults = 0
  MaxOrphans = 0
  Specs <- NoSpecs
  MaxTicks = 0
SPECIFICATION Spec
INVARIANTS
  TargetWinsTies
