\* A definition is edited between two submissions.
SPECIFICATION Spec
CONSTANTS
  Submissions = 2
  Tasks = {1}
  v1 = v1
  v2 = v2
  Versions = {v1, v2}
  Tolerance = 0
  Kills <- MCKills
  Forced = FALSE
  Crashes = FALSE
INVARIANTS
  SkipIsCurrent
CHECK_DEADLOCK FALSE
