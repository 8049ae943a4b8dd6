CONSTANTS
  Process = {p1}
  Asker = {q1}
  Job = {j1}
  None = None
  Sources = 2
  Initial <- FirstRevision
  MaxRevision <- LastRevision
  BatchSize = 1
  MaxIndex = 2
  MaxEntries = 1
SPECIFICATION Spec
CHECK_DEADLOCK FALSE
INVARIANT SucceededCovers
INVARIANT AnswersKeepUp
