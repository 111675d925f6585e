CONSTANTS
  Workers = {w1, w2}
  Dur = 3
  Warm = 1
  Slo = 1
  MinPct = 99
  Timeout = 2
  Cap = 2
SPECIFICATION BenchFairSpec
INVARIANT GateAsDocumented
