SPECIFICATION Spec
CONSTANTS
  t1 = t1
  c1 = c1
  e1 = e1
  s2 = s2
  s1 = s1
  a2 = a2
  a1 = a1
  Application = {a1, a2}
  SubmitId = {s1, s2}
  EditId = {e1}
  EventId = {}
  Consumers = {c1}
  BatchSize = 1
  MaxReceives = 1
  Tasks = {t1}
  TaskBatch = 2
  MaxBatches = 0
  Unbuildable = {}
CHECK_DEADLOCK FALSE
SYMMETRY Symmetry
INVARIANT OnePackage
PROPERTY ImplementsLifecycle
