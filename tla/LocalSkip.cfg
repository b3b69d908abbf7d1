SPECIFICATION FairSpec
CONSTANTS
  Runs = {1, 2, 3}
  Jobs = {"image"}
  Tasks = {"t1"}
  PostJobs = {"image"}
  PackJobs = {}
  Tolerances = {0}
  Shutdowns = {TRUE}
  Forces = {FALSE}
  Interrupts = {}
  MaxVersion = 1
  None = None
CHECK_DEADLOCK FALSE
PROPERTIES SkippedIsCurrent
