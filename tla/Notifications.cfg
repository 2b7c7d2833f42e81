SPECIFICATION FairSpec
CONSTANTS
  u1 = u1
  a = a
  b = b
  User = {u1}
  Text = {a, b}
  Visible = {a}
  CloseDays = {0, 2}
  Lookback = 2
  MaxRequest = 3
  MaxTime = 6
  MaxFaults = 2
INVARIANTS
  NewNotMissed
PROPERTIES
  NoneTwice
  MarksFollowMail
  ChangesDelivered
