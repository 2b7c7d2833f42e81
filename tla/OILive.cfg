SPECIFICATION FairSpec
CONSTANTS
  o1 = o1
  p1 = p1
  c1 = c1
  Opportunity = {o1}
  Legacy = {}
  TestOpportunity = {}
  Publishers = {p1}
  Commands = {c1}
  Choices <- EarlyOrLate
  Initial <- EarlyOrLate
  MaxDay = 2
  MaxChanges = 1
  MaxFaults = 1
  MaxRequests = 2
  LegacyDeletes = FALSE
  Lapses <- TwoRequests
CHECK_DEADLOCK FALSE
PROPERTIES
  Converges
  CurrentFollows
  QueueDrains
