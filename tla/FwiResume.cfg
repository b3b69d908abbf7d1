SPECIFICATION FairSpec
CONSTANTS
  deep = deep
  shallow = shallow
  edge = edge
  N = 2
  Budget = 2
  Refined = {1}
  Dofs = {deep, shallow, edge}
  Supported <- MCSupported
  MaxFaults = 3
  MaxDescents = 2
CHECK_DEADLOCK FALSE
INVARIANTS TypeOK RefusalHasCause BudgetKept SizeHeld HistoryCovers DoneIsDone
PROPERTIES LosesAtMostOne Completes ImplementsDescent
