\* mpiexec: one task at a time, on all the ranks a task may have.
SPECIFICATION Spec
CONSTANTS
  TaskIndices = {1, 2, 3}
  MemoryEstimates <- MCEstimates
  TotalRanks = 5
  MemPerRank = 4
  MinRanks = 1
  RankLimit = 4
  CapRanks = 5
  RoundTo = 2
  BoostFactor = 2
  SkipSizing = FALSE
  Exclusive = TRUE
  FailureTolerance = NoTolerance
  NoTolerance = NoTolerance
INVARIANTS
  LauncherAlone
PROPERTIES
  SweepEnds
