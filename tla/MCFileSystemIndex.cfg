CONSTANTS
  d0 = d0
  d1 = d1
  d2 = d2
  f1 = f1
  f2 = f2
  Process = {p1}
  Dir = {d0, d1, d2}
  File = {f1, f2}
  Root = d0
  Listing <- TwoDirs
  Unreadable = Unreadable
  Excluded = {f1}
  MaxDepth = 3
  MaxQueue = 2
  Urgent = {d0}
  Quick = FALSE
  MayFail = TRUE
SPECIFICATION FairSpec
CHECK_DEADLOCK FALSE
INVARIANT CheckpointBehind
INVARIANT CompleteMeansScanned
PROPERTY RunEnds
