SPECIFICATION Spec
CONSTANTS
  u1 = u1
  u2 = u2
  u3 = u3
  Users <- MCUsers
INVARIANTS
  StatusFollowsState
  ApprovalsCoverStages
  ReviewerNotLockedOut
PROPERTY ReviewSteps
\* The review stops at "end".
CHECK_DEADLOCK FALSE
