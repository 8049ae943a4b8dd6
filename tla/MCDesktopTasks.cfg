CONSTANTS
  t1 = t1
  t2 = t2
  t3 = t3
  Task <- MCTask
  Cancellable <- MCCancellable
  Limit = 2
  Results = {"SUCCEEDED", "PARTIAL"}
SPECIFICATION FairSpec
INVARIANT NoOrphan
INVARIANT ReceiptBeforeWork
INVARIANT DurableOutcome
INVARIANT SlotBound
PROPERTY CancelWins
PROPERTY RefinesWorkQueue
PROPERTY EveryTaskFinishes
PROPERTY CloseReturns
PROPERTY FairlyRefinesWorkQueue
