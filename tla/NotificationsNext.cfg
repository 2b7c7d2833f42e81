SPECIFICATION Spec
CONSTANTS
  u1 = u1
  a = a
  b = b
  User = {u1}
  Text = {a, b}
  Visible = {a}
  CloseDays = {0}
  Lookback = 2
  MaxRequest = 3
  MaxTime = 4
  MaxFaults = 0
PROPERTIES
  NextChangeTold
