\* A clock that nobody sets, and a timeout just below a power of two times
\* SubBuckets, as --timeout 67 is: 67,000,000 < 2048 * 2^15 = 67,108,864.
CONSTANTS
  Jobs = 2
  Timeout = 7
  MinHistMax = 3
  MaxHistMax = 12
  SubBuckets = 2
  Drain = 1
  MaxClock = 12
  MaxOffset = 0
SPECIFICATION Spec
INVARIANTS
  EveryLatencyRecordable
