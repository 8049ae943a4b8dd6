CONSTANTS
  database = database
  file = file
  Process = {p1, p2}
  Job = {j1, j2}
  Source = {database, file}
  Records <- Sizes
  Paged = {database}
  Warned = {}
  Broken = {}
  Indexed = TRUE
  Batch = 1
  ItemBudget = None
  ResumeBudget = {1}
  MaxCalls = 3
  None = None
SYMMETRY Symmetry
SPECIFICATION Spec
CHECK_DEADLOCK FALSE
INVARIANT RowsAreBacked
INVARIANT CompleteMeansFinished
