\* One definition: what the handles of its successive runs report.
SPECIFICATION Spec
CONSTANTS
  Submissions = 2
  Tasks = {1, 2}
  v1 = v1
  v2 = v2
  Versions = {v1}
  Tolerance = 1
  Kills <- MCKills
  Forced = FALSE
  Crashes = FALSE
INVARIANTS
  FailureIsOwn
PROPERTIES
  WaitReturns
CHECK_DEADLOCK FALSE
