SPECIFICATION Spec
CONSTANTS
  File = {f1, f2}
  Infected = {f2}
  Delivery = {d1, d2}
  Retries = 1
  Request = {r1, r2}
  MaxAttachments = 2
  MaxFaults = 1
SYMMETRY Symmetry
INVARIANTS
  OnlyCleanAttached
  HasFile
  NothingLost
  ToldTruly
  ScansSettle
CHECK_DEADLOCK FALSE
