SPECIFICATION Instance
CONSTANTS
  Entity = {e1}
  u1 = u1
  User = {u1, u2}
  Monthly <- Sundays
  KeepDays = 1
  MaxDay = 3
  MaxFaults = 1
  MaxRequests = 3
  MaxInvitations = 1
INVARIANTS
  TypeOK
  EntityFollowsRegistry
  AcceptedJoined
PROPERTIES
  ContactAdministers
  Loaded
CHECK_DEADLOCK FALSE
