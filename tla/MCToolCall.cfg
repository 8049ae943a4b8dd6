CONSTANTS
  Server = {s1, s2}
  Request = {r1}
  Grant = {g1}
  Cursor = {c1}
  Absent = Absent
  GrantLife = 1
  TokenLife = 3
  Window = 2
  MaxCalls = 1
  MaxItems = 1
  PageItems = 2
  MaxTime = 2
SPECIFICATION ToolSpec
CHECK_DEADLOCK FALSE
SYMMETRY Symmetry
INVARIANT OneChange
INVARIANT BurstBound
