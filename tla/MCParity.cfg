CONSTANTS
  Nil = Nil
  Long = Long
  Broken = Broken
  Batch = 2
  OptCut = 2
  Runs <- MCRuns
SPECIFICATION Spec
INVARIANTS
  SeqVerified
  ReportTrue
  TokensVerified
