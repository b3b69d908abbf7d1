\* Slurm may end a job with OUT_OF_MEMORY, which the client does not know.
SPECIFICATION Spec
CONSTANTS
  Submissions = 1
  Tasks = {1}
  v1 = v1
  v2 = v2
  Versions = {v1}
  Tolerance = 0
  Kills <- MCKillsMemory
  Forced = FALSE
  Crashes = FALSE
INVARIANTS
  SuccessIsReal
CHECK_DEADLOCK FALSE
