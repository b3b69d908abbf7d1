SPECIFICATION FairSpec
CONSTANTS
  Runs = {1, 2}
  Jobs = {"image", "sweep"}
  Tasks = {"t1"}
  PostJobs = {"image"}
  PackJobs = {"image"}
  Tolerances = {0}
  Shutdowns = {FALSE, TRUE}
  Forces = {FALSE}
  Interrupts = {"cancel", "timeout"}
  MaxVersion = 0
  None = None
CHECK_DEADLOCK FALSE
PROPERTIES SiblingsUndisturbed Settles
INVARIANTS RecordAgrees
