CONSTANTS
  Reader = {d1}
  Source = {s1}
  Revision = {v1, v2}
  Gone = Gone
  MaxSnapshots = 3
  Executor = {c1}
  Unread = Unread
  MaxRequests = 1
  MaxPolicies = 2
  MaxAttempts = 2
SPECIFICATION RequestSpec
CHECK_DEADLOCK FALSE
SYMMETRY Symmetry
INVARIANT SentUnderPolicy
INVARIANT SentAsFirstCaptured
INVARIANT NothingSentLate
INVARIANT NoChangeUnreported
