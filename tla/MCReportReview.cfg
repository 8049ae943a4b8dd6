CONSTANTS
  v1 = v1
  v2 = v2
  Handler = {p1, p2}
  Version = {v1, v2}
  Section = {s1}
  Required = {s1}
  Actions = {"ACCEPT_SECTION", "REJECT_SECTION", "COMPLETE"}
  Verified = {v1}
  None = None
  MaxReviews <- OneReviewed
  MaxDecisions = 1
SPECIFICATION Spec
SYMMETRY HandlerSymmetry
INVARIANT NumbersContiguous
INVARIANT LineageDescends
INVARIANT HeaderPointsBack
INVARIANT CompleteMeansAccepted
INVARIANT ApprovalRestsOnReview
