SPECIFICATION FairSpec
CONSTANTS
  e1 = e1
  e2 = e2
  u1 = u1
  u2 = u2
  m1 = m1
  m2 = m2
  w0 = w0
  EventId <- TwoEvents
  Users <- OneUser
  Managers <- OneManager
  BatchSize = 2
  MaxReceives = 2
  FirstWorkflow = w0
  InitialStates <- LastStage
  Names <- LastNames
PROPERTIES
  Settled
\* Every message may be settled and every manager idle.
CHECK_DEADLOCK FALSE
