CONSTANTS
  Handler = {p1, p2, p3}
  Session = {s0, s1}
  Legacy = {s0}
  None = None
  MaxTokens = 3
  Mortal = {p3}
SPECIFICATION FairSpec
CHECK_DEADLOCK FALSE
INVARIANT OneSuccessor
PROPERTY ReuseRevokes
