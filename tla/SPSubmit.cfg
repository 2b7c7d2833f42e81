SPECIFICATION Spec
CONSTANTS
  t1 = t1
  c1 = c1
  m1 = m1
  s2 = s2
  s1 = s1
  a1 = a1
  Application = {a1}
  SubmitId = {s1, s2}
  EditId = {}
  EventId = {m1}
  Consumers = {c1}
  BatchSize = 2
  MaxReceives = 2
  Tasks = {t1}
  TaskBatch = 1
  MaxBatches = 0
  Unbuildable = {}
CHECK_DEADLOCK FALSE
SYMMETRY Symmetry
INVARIANTS
  PackagePerSubmit
  AcceptedHasPackage
  DeletedIsBuilt
