CONSTANTS
  Handler = {p1, p2}
  Evidence = {e1, e2}
  EventId = {x1, x2, x3}
  None = None
  File = {e1}
  Digest = {h1, h2}
  MaxTime = 2
SPECIFICATION EvidenceSpec
SYMMETRY Symmetry
CHECK_DEADLOCK FALSE
INVARIANT ChainsVerify
INVARIANT VerdictsAreWitnessed
PROPERTY RefinesAppendOnlyLog
