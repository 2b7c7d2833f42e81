SPECIFICATION Spec
CONSTANTS
  e1 = e1
  e2 = e2
  u1 = u1
  u2 = u2
  m1 = m1
  m2 = m2
  w0 = w0
  EventId <- TwoEvents
  Users <- OneUser
  Managers <- TwoManagers
  BatchSize = 2
  MaxReceives = 2
  FirstWorkflow = w0
  InitialStates <- Edges
  Names <- EdgeNames
INVARIANTS
  StoredBeforeDelete
  AppliedOnce
  EffectsMatchHistory
  AuditTrailUnbroken
PROPERTIES
  FinishedStaysInactive
  HistoryIsFinal
  ImplementsReview
SYMMETRY Symmetry
\* Every message may be settled and every manager idle.
CHECK_DEADLOCK FALSE
