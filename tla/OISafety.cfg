SPECIFICATION Spec
CONSTANTS
  o1 = o1
  o2 = o2
  p1 = p1
  c1 = c1
  c2 = c2
  Opportunity = {o1, o2}
  Legacy = {o2}
  TestOpportunity = {}
  Publishers = {p1}
  Commands = {c1, c2}
  Choices <- EarlyOrLate
  Initial <- OnlyLate
  MaxDay = 2
  MaxChanges = 3
  MaxFaults = 1
  MaxRequests = 1
  LegacyDeletes = TRUE
  Lapses = {}
CHECK_DEADLOCK FALSE
SYMMETRY Symmetry
INVARIANTS
  OneCommand
  QueuedHasNoCurrent
  OneCurrent
PROPERTY QueueForgets
