CONSTANTS
  r1 = r1
  t1 = t1
  t2 = t2
  Caller = {c1, c2}
  Recommendation = {r1}
  Term = {t1, t2}
  Proposed <- FirstTerm
  None = None
  MaxEvents = 2
  MaxVersions = 3
SPECIFICATION Spec
CHECK_DEADLOCK FALSE
SYMMETRY Symmetry
INVARIANT KeywordsRestOnReviews
INVARIANT OneChangeApart
INVARIANT NoTermTwice
