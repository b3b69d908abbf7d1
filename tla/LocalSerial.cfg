SPECIFICATION FairSpec
CONSTANTS
  Runs = {1, 2}
  Jobs = {"image"}
  Tasks = {"t1", "t2"}
  PostJobs = {"image"}
  PackJobs = {"image"}
  Tolerances = {0, 1}
  Shutdowns = {FALSE}
  Forces = {FALSE}
  Interrupts = {"timeout", "watch", "lost"}
  MaxVersion = 1
  None = None
CHECK_DEADLOCK FALSE
INVARIANTS TypeOK RecordAgrees
PROPERTIES CompletedIsBacked ProductIsOfTasks PostReadsQuietShards
