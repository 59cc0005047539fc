CONSTANTS
  Workers = {w1}
  TargetJobs = 2
  Latencies = {"inRange"}
  MaxForeign = 0
  MaxFaults = 0
  MaxOrphans = 0
  Specs <- OneSpec
  MaxTicks = 2
SPECIFICATION Spec
INVARIANTS
  WindowsKeepUp
