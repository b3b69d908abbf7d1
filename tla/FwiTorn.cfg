\* With a support that never changes, only a torn save is left to be refused.
SPECIFICATION FairSpec
CONSTANTS
  deep = deep
  shallow = shallow
  edge = edge
  N = 2
  Budget = 2
  Refined = {1}
  Dofs = {deep, shallow, edge}
  Supported <- SupportedEverywhere
  MaxFaults = 3
  MaxDescents = 2
CHECK_DEADLOCK FALSE
INVARIANTS NeverRejected
