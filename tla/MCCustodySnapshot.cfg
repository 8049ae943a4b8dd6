CONSTANTS
  Item = {e1, e2}
  Content = {c1, c2}
  Scope = {e1, e2}
  Blank = Blank
  MaxEvents = 3
  MaxDamage = 1
SPECIFICATION SnapSpec
CHECK_DEADLOCK FALSE
SYMMETRY Symmetry
INVARIANT VerifiedCoversScope
INVARIANT SnapshotPinsHistory
