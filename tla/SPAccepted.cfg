SPECIFICATION FairSpec
CONSTANTS
  t1 = t1
  c1 = c1
  s2 = s2
  s1 = s1
  a2 = a2
  a1 = a1
  Application = {a1, a2}
  SubmitId = {s1, s2}
  EditId = {}
  EventId = {}
  Consumers = {c1}
  BatchSize = 1
  MaxReceives = 1
  Tasks = {t1}
  TaskBatch = 2
  MaxBatches = 0
  Unbuildable = {a2}
CHECK_DEADLOCK FALSE
PROPERTY SubmittedIsAccepted
