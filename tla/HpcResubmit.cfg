\* Two definitions, forced submissions, a client that may die at any time.  Slurm kills
\* no job here: to runs.json and to submit() it would look like one cancelled.
SPECIFICATION Spec
CONSTANTS
  Submissions = 2
  Tasks = {1}
  v1 = v1
  v2 = v2
  Versions = {v1, v2}
  Tolerance = 0
  Kills = {}
  Forced = TRUE
  Crashes = TRUE
INVARIANTS
  TypeOK
  RecordsNameJobs
  OneLiveJobPerDefinition
SYMMETRY MCSymmetry
CHECK_DEADLOCK FALSE
