\* Two problems, three views and an extension share a cache of two linearizations.
SPECIFICATION Spec
CONSTANTS
  model = model
  sources = sources
  stage = stage
  other = other
  extended = extended
  Problems = {model, sources}
  Inline = {model}
  Views = {model, stage, other}
  Extensions = {extended}
  ProblemOf <- MCProblemOf
  ViewOf <- MCViewOf
  Trials = {p}
  Authored = Authored
  Mixed = Mixed
  None = None
  Capacity = 2
  Remade = {other}
  ExtendedAt = {p}
INVARIANTS
  TypeOK
  CachedIsUsable
  KnownIsCached
  ReturnedOnSpace
PROPERTIES
  RunsAtPoint
  LatestStays
