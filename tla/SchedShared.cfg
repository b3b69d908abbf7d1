\* Tasks share the allocation (ibrun, srun --exclusive); one failure tolerated.
SPECIFICATION Spec
CONSTANTS
  TaskIndices = {1, 2, 3}
  MemoryEstimates <- MCEstimates
  TotalRanks = 5
  MemPerRank = 4
  MinRanks = 1
  RankLimit = 4
  CapRanks = 5
  RoundTo = 1
  BoostFactor = 2
  SkipSizing = FALSE
  Exclusive = FALSE
  FailureTolerance = 1
  NoTolerance = NoTolerance
INVARIANTS
  TypeOK
  RanksPartitioned
  PlanFeasible
  MemoryProvided
  TasksPartitioned
  StatusTruthful
PROPERTIES
  WorkConserving
  LaunchWithinTolerance
  ImplementsTaskPool
  SweepEnds
