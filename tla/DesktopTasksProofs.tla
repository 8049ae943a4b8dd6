------------------------- MODULE DesktopTasksProofs -------------------------
(***************************************************************************)
(* Proofs about DesktopTasks for every set of tasks, every queue limit and   *)
(* any number of handlers and restarts.                                     *)
(***************************************************************************)
EXTENDS DesktopTasks, FiniteSetTheorems, TLAPS

(* The threads that hold a task, in the words of the program counter. *)
Held == {"admitted", "submitted"} \cup Running

(* What a task's record looks like in each phase of its thread. *)
PhaseInv ==
  \A t \in Task :
    /\ pc[t] = "unborn" => status[t] = "ABSENT" /\ journal[t] = "ABSENT"
    /\ pc[t] \in {"admitted", "submitted"} => status[t] \in {"QUEUED", "CANCELLING"}
    /\ pc[t] \in {"check", "abort", "run"} => status[t] \in {"RUNNING", "CANCELLING"}
    /\ pc[t] = "fin" => status[t] \in Results \cup {"CANCELLED", "FAILED", "CANCELLING"}
    /\ pc[t] = "over" => status[t] \notin {"QUEUED", "RUNNING"}
    /\ token[t] # "none" => pc[t] \in Held

(* A dead process holds no thread and no memory. *)
DownInv ==
  proc = "down" => /\ queue = <<>>
                   /\ \A t \in Task : /\ status[t] = "ABSENT"
                                      /\ pc[t] \in {"unborn", "over"}

(* The executor's queue holds exactly submitted tasks, each once. *)
QueueInv ==
  /\ \A i \in 1..Len(queue) : pc[queue[i]] = "submitted"
  /\ \A i, j \in 1..Len(queue) : queue[i] = queue[j] => i = j

(* One executor thread. *)
SingleWorker ==
  \A t, u \in Task : pc[t] \in Running /\ pc[u] \in Running => t = u

(* The receipts of held tasks exist. *)
ReceiptInv == \A t \in Task : pc[t] \in Held => journal[t] # "ABSENT"

(* The inductive invariant, but for the counting of slots. *)
IInv ==
  /\ TypeOK /\ PhaseInv /\ DownInv /\ QueueInv
  /\ SingleWorker /\ ReceiptInv /\ DurableOutcome

(* The slots that are counted, and the one that a late cancel can claim     *)
(* back: the task in the worker's finally block.                            *)
Occupied == Active \cup {t \in Task : pc[t] = "fin"}

SlotInv ==
  /\ IsFiniteSet(Occupied) /\ Cardinality(Occupied) <= Limit + 1
  /\ Cardinality(InHand) <= Limit

-----------------------------------------------------------------------------

LEMMA InitIInv == Init => IInv
BY TaskAssumption
DEF Init, IInv, TypeOK, PhaseInv, DownInv, QueueInv, SingleWorker, ReceiptInv,
    DurableOutcome, Held, Running, Phase, Status, Settled, Restored, InProgress

(* Every value that a step writes to a record is a status. *)
LEMMA RestoredType ==
  ASSUME NEW s \in Status
  PROVE  /\ Restored(s) \in Status \ InProgress
         /\ Restored(Restored(s)) = Restored(s)
BY TaskAssumption DEF Restored, Status, Settled, InProgress

LEMMA AdmitStep ==
  ASSUME IInv, NEW t \in Task, Admit(t)
  PROVE  IInv'
<1> USE TaskAssumption DEF IInv, Held, Running
<1>1. TypeOK'
  BY DEF TypeOK, Admit, Save, Phase, Status, Settled, InProgress
<1>2. PhaseInv'
  BY DEF TypeOK, PhaseInv, ReceiptInv, Admit, SlotFree, Save
<1>3. DownInv'
  BY DEF TypeOK, DownInv, Admit, SlotFree, Save
<1>4. QueueInv'
  BY DEF TypeOK, PhaseInv, QueueInv, Admit, SlotFree, Save
<1>5. SingleWorker'
  BY DEF TypeOK, SingleWorker, Admit, SlotFree, Save
<1>6. ReceiptInv'
  BY DEF TypeOK, PhaseInv, ReceiptInv, Admit, SlotFree, Save
<1>7. DurableOutcome'
  BY DEF TypeOK, PhaseInv, DurableOutcome, Admit, SlotFree, Save
<1> QED
  BY <1>1, <1>2, <1>3, <1>4, <1>5, <1>6, <1>7

LEMMA AdmitFailsStep ==
  ASSUME IInv, NEW t \in Task, AdmitFails(t)
  PROVE  IInv'
<1> USE TaskAssumption DEF IInv, Held, Running
<1>1. TypeOK'
  BY DEF TypeOK, AdmitFails, SaveFails, Phase, Status, Settled, InProgress
<1>2. PhaseInv'
  BY DEF TypeOK, PhaseInv, ReceiptInv, AdmitFails, SaveFails
<1>3. DownInv'
  BY DEF TypeOK, DownInv, AdmitFails, SaveFails
<1>4. QueueInv'
  BY DEF TypeOK, PhaseInv, QueueInv, AdmitFails, SaveFails
<1>5. SingleWorker'
  BY DEF TypeOK, SingleWorker, AdmitFails, SaveFails
<1>6. ReceiptInv'
  BY DEF TypeOK, PhaseInv, ReceiptInv, AdmitFails, SaveFails
<1>7. DurableOutcome'
  BY DEF TypeOK, PhaseInv, DurableOutcome, AdmitFails, SaveFails
<1> QED
  BY <1>1, <1>2, <1>3, <1>4, <1>5, <1>6, <1>7

LEMMA SubmitStep ==
  ASSUME IInv, NEW t \in Task, Submit(t)
  PROVE  IInv'
<1> USE TaskAssumption DEF IInv, Held, Running
<1>1. TypeOK'
  BY DEF TypeOK, Submit, Phase, Status, Settled, InProgress
<1>2. PhaseInv'
  BY DEF TypeOK, PhaseInv, ReceiptInv, Submit
<1>3. DownInv'
  BY DEF TypeOK, DownInv, Submit
<1>4. QueueInv'
  BY DEF TypeOK, PhaseInv, QueueInv, Submit
<1>5. SingleWorker'
  BY DEF TypeOK, SingleWorker, Submit
<1>6. ReceiptInv'
  BY DEF TypeOK, PhaseInv, ReceiptInv, Submit
<1>7. DurableOutcome'
  BY DEF TypeOK, PhaseInv, DurableOutcome, Submit
<1> QED
  BY <1>1, <1>2, <1>3, <1>4, <1>5, <1>6, <1>7

LEMMA SubmitRefusedStep ==
  ASSUME IInv, NEW t \in Task, SubmitRefused(t)
  PROVE  IInv'
<1> USE TaskAssumption DEF IInv, Held, Running
<1>1. TypeOK'
  BY DEF TypeOK, SubmitRefused, Save, SaveFails, Phase, Status, Settled, InProgress
<1>2. PhaseInv'
  BY DEF TypeOK, PhaseInv, ReceiptInv, SubmitRefused, Save, SaveFails
<1>3. DownInv'
  BY DEF TypeOK, DownInv, SubmitRefused, Save, SaveFails
<1>4. QueueInv'
  BY DEF TypeOK, PhaseInv, QueueInv, SubmitRefused, Save, SaveFails
<1>5. SingleWorker'
  BY DEF TypeOK, SingleWorker, SubmitRefused, Save, SaveFails
<1>6. ReceiptInv'
  BY DEF TypeOK, PhaseInv, ReceiptInv, SubmitRefused, Save, SaveFails
<1>7. DurableOutcome'
  BY DEF TypeOK, PhaseInv, DurableOutcome, SubmitRefused, Save, SaveFails
<1> QED
  BY <1>1, <1>2, <1>3, <1>4, <1>5, <1>6, <1>7

LEMMA BeginStep ==
  ASSUME IInv, NEW t \in Task, Begin(t)
  PROVE  IInv'
<1> USE TaskAssumption DEF IInv, Held, Running
(* The head of the queue is a submitted task, so its receipt exists. *)
<1>0. pc[t] = "submitted"
  BY DEF TypeOK, QueueInv, Begin
<1>1. TypeOK'
  BY DEF TypeOK, Begin, Idle, Phase, Status, Settled, InProgress
<1>2. PhaseInv'
  BY <1>0 DEF TypeOK, PhaseInv, ReceiptInv, Begin
<1>3. DownInv'
  BY DEF TypeOK, DownInv, Begin, Idle
<1>4. QueueInv'
  BY DEF TypeOK, PhaseInv, QueueInv, Begin, Idle
<1>5. SingleWorker'
  BY DEF TypeOK, SingleWorker, Begin, Idle
<1>6. ReceiptInv'
  BY <1>0 DEF TypeOK, ReceiptInv, Begin
<1>7. DurableOutcome'
  BY <1>0 DEF TypeOK, DurableOutcome, Begin
<1> QED
  BY <1>1, <1>2, <1>3, <1>4, <1>5, <1>6, <1>7

LEMMA CheckTokenStep ==
  ASSUME IInv, NEW t \in Task, CheckToken(t)
  PROVE  IInv'
<1> USE TaskAssumption DEF IInv, Held, Running
<1>1. TypeOK'
  BY DEF TypeOK, CheckToken, Phase, Status, Settled, InProgress
<1>2. PhaseInv'
  BY DEF TypeOK, PhaseInv, ReceiptInv, CheckToken
<1>3. DownInv'
  BY DEF TypeOK, DownInv, CheckToken
<1>4. QueueInv'
  BY DEF TypeOK, PhaseInv, QueueInv, CheckToken
<1>5. SingleWorker'
  BY DEF TypeOK, SingleWorker, CheckToken
<1>6. ReceiptInv'
  BY DEF TypeOK, PhaseInv, ReceiptInv, CheckToken
<1>7. DurableOutcome'
  BY DEF TypeOK, PhaseInv, DurableOutcome, CheckToken
<1> QED
  BY <1>1, <1>2, <1>3, <1>4, <1>5, <1>6, <1>7

LEMMA AbortStep ==
  ASSUME IInv, NEW t \in Task, Abort(t)
  PROVE  IInv'
<1> USE TaskAssumption DEF IInv, Held, Running
<1>1. TypeOK'
  BY DEF TypeOK, Abort, Phase, Status, Settled, InProgress
<1>2. PhaseInv'
  BY DEF TypeOK, PhaseInv, ReceiptInv, Abort
<1>3. DownInv'
  BY DEF TypeOK, DownInv, Abort
<1>4. QueueInv'
  BY DEF TypeOK, PhaseInv, QueueInv, Abort
<1>5. SingleWorker'
  BY DEF TypeOK, SingleWorker, Abort
<1>6. ReceiptInv'
  BY DEF TypeOK, PhaseInv, ReceiptInv, Abort
<1>7. DurableOutcome'
  BY DEF TypeOK, PhaseInv, DurableOutcome, Abort
<1> QED
  BY <1>1, <1>2, <1>3, <1>4, <1>5, <1>6, <1>7

LEMMA ReturnStep ==
  ASSUME IInv, NEW t \in Task, Return(t)
  PROVE  IInv'
<1> USE TaskAssumption DEF IInv, Held, Running
<1>1. TypeOK'
  BY DEF TypeOK, Return, Outcome, Phase, Status, Settled, InProgress
<1>2. PhaseInv'
  BY DEF TypeOK, PhaseInv, ReceiptInv, Return, Outcome
<1>3. DownInv'
  BY DEF TypeOK, DownInv, Return, Outcome
<1>4. QueueInv'
  BY DEF TypeOK, PhaseInv, QueueInv, Return, Outcome
<1>5. SingleWorker'
  BY DEF TypeOK, SingleWorker, Return, Outcome
<1>6. ReceiptInv'
  BY DEF TypeOK, PhaseInv, ReceiptInv, Return, Outcome
<1>7. DurableOutcome'
  BY DEF TypeOK, PhaseInv, DurableOutcome, Return, Outcome
<1> QED
  BY <1>1, <1>2, <1>3, <1>4, <1>5, <1>6, <1>7

LEMMA RaiseStep ==
  ASSUME IInv, NEW t \in Task, Raise(t)
  PROVE  IInv'
<1> USE TaskAssumption DEF IInv, Held, Running
<1>1. TypeOK'
  BY DEF TypeOK, Raise, Outcome, Phase, Status, Settled, InProgress
<1>2. PhaseInv'
  BY DEF TypeOK, PhaseInv, ReceiptInv, Raise, Outcome
<1>3. DownInv'
  BY DEF TypeOK, DownInv, Raise, Outcome
<1>4. QueueInv'
  BY DEF TypeOK, PhaseInv, QueueInv, Raise, Outcome
<1>5. SingleWorker'
  BY DEF TypeOK, SingleWorker, Raise, Outcome
<1>6. ReceiptInv'
  BY DEF TypeOK, PhaseInv, ReceiptInv, Raise, Outcome
<1>7. DurableOutcome'
  BY DEF TypeOK, PhaseInv, DurableOutcome, Raise, Outcome
<1> QED
  BY <1>1, <1>2, <1>3, <1>4, <1>5, <1>6, <1>7

LEMMA FinishStep ==
  ASSUME IInv, NEW t \in Task, Finish(t)
  PROVE  IInv'
<1> USE TaskAssumption DEF IInv, Held, Running
<1>1. TypeOK'
  BY DEF TypeOK, Finish, Save, SaveFailsVisibly, Phase, Status, Settled, InProgress
<1>2. PhaseInv'
  BY DEF TypeOK, PhaseInv, ReceiptInv, Finish, Save, SaveFailsVisibly
<1>3. DownInv'
  BY DEF TypeOK, DownInv, Finish, Save, SaveFailsVisibly
<1>4. QueueInv'
  BY DEF TypeOK, PhaseInv, QueueInv, Finish, Save, SaveFailsVisibly
<1>5. SingleWorker'
  BY DEF TypeOK, SingleWorker, Finish, Save, SaveFailsVisibly
<1>6. ReceiptInv'
  BY DEF TypeOK, PhaseInv, ReceiptInv, Finish, Save, SaveFailsVisibly
<1>7. DurableOutcome'
  BY DEF TypeOK, PhaseInv, DurableOutcome, Finish, Save, SaveFailsVisibly
<1> QED
  BY <1>1, <1>2, <1>3, <1>4, <1>5, <1>6, <1>7

LEMMA CancelStep ==
  ASSUME IInv, NEW t \in Task, Cancel(t)
  PROVE  IInv'
<1> USE TaskAssumption DEF IInv, Held, Running
<1>1. TypeOK'
  BY DEF TypeOK, Cancel, Phase, Status, Settled, InProgress
<1>2. PhaseInv'
  BY DEF TypeOK, PhaseInv, ReceiptInv, Cancel
<1>3. DownInv'
  BY DEF TypeOK, DownInv, Cancel
<1>4. QueueInv'
  BY DEF TypeOK, PhaseInv, QueueInv, Cancel
<1>5. SingleWorker'
  BY DEF TypeOK, SingleWorker, Cancel
<1>6. ReceiptInv'
  BY DEF TypeOK, PhaseInv, ReceiptInv, Cancel
<1>7. DurableOutcome'
  BY DEF TypeOK, PhaseInv, DurableOutcome, Cancel
<1> QED
  BY <1>1, <1>2, <1>3, <1>4, <1>5, <1>6, <1>7

LEMMA RetryReceiptsStep ==
  ASSUME IInv, RetryReceipts
  PROVE  IInv'
<1> USE TaskAssumption DEF IInv, Held, Running
<1>1. TypeOK'
  BY DEF TypeOK, RetryReceipts, Save, SaveFails, Phase, Status, Settled, InProgress
<1>2. PhaseInv'
  BY DEF TypeOK, PhaseInv, ReceiptInv, RetryReceipts, Save, SaveFails
<1>3. DownInv'
  BY DEF TypeOK, DownInv, RetryReceipts, Save, SaveFails
<1>4. QueueInv'
  BY DEF TypeOK, PhaseInv, QueueInv, RetryReceipts, Save, SaveFails
<1>5. SingleWorker'
  BY DEF TypeOK, SingleWorker, RetryReceipts, Save, SaveFails
<1>6. ReceiptInv'
  BY DEF TypeOK, PhaseInv, ReceiptInv, RetryReceipts, Save, SaveFails
<1>7. DurableOutcome'
  BY DEF TypeOK, PhaseInv, DurableOutcome, RetryReceipts, Save, SaveFails
<1> QED
  BY <1>1, <1>2, <1>3, <1>4, <1>5, <1>6, <1>7

LEMMA CloseCancelsStep ==
  ASSUME IInv, CloseCancels
  PROVE  IInv'
<1> USE TaskAssumption DEF IInv, Held, Running
<1>1. TypeOK'
  BY DEF TypeOK, CloseCancels, Phase, Status, Settled, InProgress
<1>2. PhaseInv'
  BY DEF TypeOK, PhaseInv, ReceiptInv, CloseCancels
<1>3. DownInv'
  BY DEF TypeOK, DownInv, CloseCancels
<1>4. QueueInv'
  BY DEF TypeOK, PhaseInv, QueueInv, CloseCancels
<1>5. SingleWorker'
  BY DEF TypeOK, SingleWorker, CloseCancels
<1>6. ReceiptInv'
  BY DEF TypeOK, PhaseInv, ReceiptInv, CloseCancels
<1>7. DurableOutcome'
  BY DEF TypeOK, PhaseInv, DurableOutcome, CloseCancels
<1> QED
  BY <1>1, <1>2, <1>3, <1>4, <1>5, <1>6, <1>7

LEMMA CloseShutdownStep ==
  ASSUME IInv, CloseShutdown
  PROVE  IInv'
<1> USE TaskAssumption DEF IInv, Held, Running
<1>1. TypeOK'
  BY DEF TypeOK, CloseShutdown, Phase, Status, Settled, InProgress
<1>2. PhaseInv'
  BY DEF TypeOK, PhaseInv, ReceiptInv, CloseShutdown
<1>3. DownInv'
  BY DEF TypeOK, DownInv, CloseShutdown
<1>4. QueueInv'
  BY DEF TypeOK, PhaseInv, QueueInv, CloseShutdown
<1>5. SingleWorker'
  BY DEF TypeOK, SingleWorker, CloseShutdown
<1>6. ReceiptInv'
  BY DEF TypeOK, PhaseInv, ReceiptInv, CloseShutdown
<1>7. DurableOutcome'
  BY DEF TypeOK, PhaseInv, DurableOutcome, CloseShutdown
<1> QED
  BY <1>1, <1>2, <1>3, <1>4, <1>5, <1>6, <1>7

LEMMA CloseJoinedStep ==
  ASSUME IInv, CloseJoined
  PROVE  IInv'
<1> USE TaskAssumption DEF IInv, Held, Running
<1>1. TypeOK'
  BY DEF TypeOK, CloseJoined, Save, SaveFails, Phase, Status, Settled, InProgress
<1>2. PhaseInv'
  BY DEF TypeOK, PhaseInv, ReceiptInv, CloseJoined, Save, SaveFails
<1>3. DownInv'
  BY DEF TypeOK, DownInv, CloseJoined, Save, SaveFails
<1>4. QueueInv'
  BY DEF TypeOK, PhaseInv, QueueInv, CloseJoined, Save, SaveFails
<1>5. SingleWorker'
  BY DEF TypeOK, SingleWorker, CloseJoined, Save, SaveFails
<1>6. ReceiptInv'
  BY DEF TypeOK, PhaseInv, ReceiptInv, CloseJoined, Save, SaveFails
<1>7. DurableOutcome'
  BY DEF TypeOK, PhaseInv, DurableOutcome, CloseJoined, Save, SaveFails
<1> QED
  BY <1>1, <1>2, <1>3, <1>4, <1>5, <1>6, <1>7

LEMMA StopStep ==
  ASSUME IInv, Stop
  PROVE  IInv'
<1> USE TaskAssumption DEF IInv, Held, Running
<1>1. TypeOK'
  BY DEF TypeOK, Stop, Phase, Status, Settled, InProgress
<1>2. PhaseInv'
  BY DEF TypeOK, PhaseInv, ReceiptInv, Stop
<1>3. DownInv'
  BY DEF TypeOK, DownInv, Stop
<1>4. QueueInv'
  BY DEF TypeOK, PhaseInv, QueueInv, Stop
<1>5. SingleWorker'
  BY DEF TypeOK, SingleWorker, Stop
<1>6. ReceiptInv'
  BY DEF TypeOK, PhaseInv, ReceiptInv, Stop
<1>7. DurableOutcome'
  BY DEF TypeOK, PhaseInv, DurableOutcome, Stop
<1> QED
  BY <1>1, <1>2, <1>3, <1>4, <1>5, <1>6, <1>7

LEMMA RestartStep ==
  ASSUME IInv, Restart
  PROVE  IInv'
<1> USE TaskAssumption DEF IInv, Held, Running
(* Receipts come back settled, and a second restart changes nothing. *)
<1>0. \A t \in Task : /\ status'[t] \in Status \ InProgress
                      /\ status'[t] = Restored(journal[t])
                      /\ Restored(status'[t]) = status'[t]
  BY RestoredType DEF TypeOK, Restart
<1>1. TypeOK'
  BY <1>0 DEF TypeOK, Restart
<1>2. PhaseInv'
  BY <1>0 DEF TypeOK, PhaseInv, DownInv, Restart, Restored, InProgress
<1>3. DownInv'
  BY DEF TypeOK, DownInv, Restart
<1>4. QueueInv'
  BY DEF TypeOK, PhaseInv, QueueInv, Restart
<1>5. SingleWorker'
  BY DEF TypeOK, SingleWorker, Restart
<1>6. ReceiptInv'
  BY DEF TypeOK, PhaseInv, ReceiptInv, Restart
<1>7. DurableOutcome'
  BY <1>0 DEF TypeOK, DurableOutcome, Restart
<1> QED
  BY <1>1, <1>2, <1>3, <1>4, <1>5, <1>6, <1>7

LEMMA RestartCorruptStep ==
  ASSUME IInv, RestartCorrupt
  PROVE  IInv'
<1> USE TaskAssumption DEF IInv, Held, Running
<1>1. TypeOK'
  BY DEF TypeOK, RestartCorrupt, Phase, Status, Settled, InProgress
<1>2. PhaseInv'
  BY DEF TypeOK, PhaseInv, ReceiptInv, RestartCorrupt
<1>3. DownInv'
  BY DEF TypeOK, DownInv, RestartCorrupt
<1>4. QueueInv'
  BY DEF TypeOK, PhaseInv, QueueInv, RestartCorrupt
<1>5. SingleWorker'
  BY DEF TypeOK, SingleWorker, RestartCorrupt
<1>6. ReceiptInv'
  BY DEF TypeOK, DownInv, ReceiptInv, RestartCorrupt
<1>7. DurableOutcome'
  BY DEF TypeOK, DownInv, DurableOutcome, RestartCorrupt
<1> QED
  BY <1>1, <1>2, <1>3, <1>4, <1>5, <1>6, <1>7

-----------------------------------------------------------------------------
(* The invariant, and the properties that follow from it alone. *)

LEMMA StutterStep == IInv /\ UNCHANGED vars => IInv'
BY DEF vars, IInv, TypeOK, PhaseInv, DownInv, QueueInv, SingleWorker, ReceiptInv,
       DurableOutcome

LEMMA NextIInv == IInv /\ [Next]_vars => IInv'
<1> SUFFICES ASSUME IInv, [Next]_vars PROVE IInv'
  OBVIOUS
<1>1. CASE \E t \in Task :
             Admit(t) \/ AdmitFails(t) \/ Submit(t) \/ SubmitRefused(t) \/ Worker(t) \/ Cancel(t)
  BY <1>1, AdmitStep, AdmitFailsStep, SubmitStep, SubmitRefusedStep, BeginStep,
     CheckTokenStep, AbortStep, ReturnStep, RaiseStep, FinishStep, CancelStep DEF Worker
<1>2. CASE \/ RetryReceipts
           \/ CloseCancels \/ CloseShutdown \/ CloseJoined
           \/ Stop \/ Restart \/ RestartCorrupt
  BY <1>2, RetryReceiptsStep, CloseCancelsStep, CloseShutdownStep, CloseJoinedStep,
     StopStep, RestartStep, RestartCorruptStep
<1>3. CASE UNCHANGED vars
  BY <1>3, StutterStep
<1> QED
  BY <1>1, <1>2, <1>3 DEF Next

(* The inductive invariant holds in every reachable state. *)
THEOREM Invariance == Spec => []IInv
<1>1. Init => IInv
  BY InitIInv
<1>2. IInv /\ [Next]_vars => IInv'
  BY NextIInv
<1> QED
  BY <1>1, <1>2, PTL DEF Spec

(* Every variable keeps its type, across crashes and restarts. *)
THEOREM TypeCorrect == Spec => []TypeOK
<1>1. IInv => TypeOK
  BY DEF IInv
<1> QED
  BY <1>1, Invariance, PTL

(* No QUEUED or RUNNING record survives the thread that would finish it. *)
THEOREM NoOrphanTheorem == Spec => []NoOrphan
<1>1. IInv => NoOrphan
  BY TaskAssumption DEF IInv, TypeOK, PhaseInv, NoOrphan, Phase, Running
<1> QED
  BY <1>1, Invariance, PTL

(* Work that the executor was given has a receipt in the journal. *)
THEOREM ReceiptBeforeWorkTheorem == Spec => []ReceiptBeforeWork
<1>1. IInv => ReceiptBeforeWork
  BY DEF IInv, ReceiptInv, ReceiptBeforeWork, Held
<1> QED
  BY <1>1, Invariance, PTL

(* A finished record without a receipt error says what a restart would say. *)
THEOREM DurableOutcomeTheorem == Spec => []DurableOutcome
<1>1. IInv => DurableOutcome
  BY DEF IInv
<1> QED
  BY <1>1, Invariance, PTL

(* A cancelled token is honoured by every later write to the record. *)
THEOREM CancelWinsTheorem == Spec => CancelWins
<1> DEFINE Honoured == \A t \in Task :
       (token[t] = "cancelled" /\ status'[t] # status[t] /\ proc' # "down")
          => status'[t] \in {"RUNNING", "CANCELLING", "CANCELLED", "ABSENT"}
<1>1. IInv /\ [Next]_vars => [Honoured]_vars
  <2> SUFFICES ASSUME IInv, Next PROVE Honoured
    OBVIOUS
  <2> USE DEF IInv, TypeOK
  <2>1. CASE \E t \in Task : Admit(t) \/ AdmitFails(t) \/ Submit(t) \/ SubmitRefused(t)
    BY <2>1 DEF Admit, AdmitFails, Submit, SubmitRefused, PhaseInv, Held, Running
  <2>2. CASE \E t \in Task : Worker(t)
    BY <2>2 DEF Worker, Begin, CheckToken, Abort, Return, Raise, Finish, Outcome
  <2>3. CASE \E t \in Task : Cancel(t)
    BY <2>3 DEF Cancel
  <2>4. CASE RetryReceipts \/ CloseCancels \/ CloseShutdown \/ CloseJoined \/ Stop
    BY <2>4 DEF RetryReceipts, CloseCancels, CloseShutdown, CloseJoined, Stop
  <2>5. CASE Restart \/ RestartCorrupt
    (* A process that is down has no tokens. *)
    BY <2>5 DEF Restart, RestartCorrupt, PhaseInv, DownInv, Held, Running
  <2> QED
    BY <2>1, <2>2, <2>3, <2>4, <2>5 DEF Next
<1> QED
  BY <1>1, Invariance, PTL DEF Spec, CancelWins

-----------------------------------------------------------------------------
(* Counting slots.  Only admission adds a member to Occupied: a late cancel  *)
(* can make a record count again, but its task is in Occupied already.      *)

LEMMA OnlyAdmitOccupies ==
  ASSUME IInv, [Next]_vars, \A t \in Task : ~Admit(t)
  PROVE  Occupied' \subseteq Occupied
<1> USE TaskAssumption DEF IInv, TypeOK, Occupied, Active, InProgress
<1>1. CASE \E t \in Task : AdmitFails(t) \/ Submit(t) \/ SubmitRefused(t)
  BY <1>1 DEF AdmitFails, Submit, SubmitRefused
<1>2. CASE \E t \in Task : Begin(t)
  <2>1. PICK t \in Task : Begin(t)
    BY <1>2
  <2>2. status[t] \in InProgress
    BY <2>1 DEF Begin, QueueInv, PhaseInv
  <2> QED
    BY <2>1, <2>2 DEF Begin
<1>3. CASE \E t \in Task : CheckToken(t) \/ Abort(t) \/ Return(t) \/ Raise(t) \/ Finish(t)
  BY <1>3 DEF CheckToken, Abort, Return, Raise, Finish, Outcome, PhaseInv
<1>4. CASE \E t \in Task : Cancel(t)
  <2>1. PICK t \in Task : Cancel(t)
    BY <1>4
  <2>2. t \in Occupied
    BY <2>1 DEF Cancel, PhaseInv, Held, Running
  <2> QED
    BY <2>1, <2>2 DEF Cancel
<1>5. CASE RetryReceipts \/ CloseCancels \/ CloseShutdown \/ CloseJoined
  BY <1>5 DEF RetryReceipts, CloseCancels, CloseShutdown, CloseJoined
<1>6. CASE Stop \/ Restart \/ RestartCorrupt
  <2>1. CASE Stop
    BY <2>1 DEF Stop
  <2>2. CASE Restart
    BY <2>2, RestoredType DEF Restart
  <2>3. CASE RestartCorrupt
    BY <2>3 DEF RestartCorrupt
  <2> QED
    BY <1>6, <2>1, <2>2, <2>3
<1>7. CASE UNCHANGED vars
  BY <1>7 DEF vars
<1> QED
  BY <1>1, <1>2, <1>3, <1>4, <1>5, <1>6, <1>7 DEF Next, Worker

(* Nor does anything but an admission bring in work. *)
LEMMA OnlyAdmitBringsWork ==
  ASSUME IInv, [Next]_vars, \A t \in Task : ~Admit(t)
  PROVE  InHand' \subseteq InHand
<1> USE DEF IInv, TypeOK, InHand
<1>1. CASE \E t \in Task : AdmitFails(t) \/ Submit(t) \/ SubmitRefused(t)
  BY <1>1 DEF AdmitFails, Submit, SubmitRefused
<1>2. CASE \E t \in Task : Begin(t)
  BY <1>2 DEF Begin, QueueInv
<1>3. CASE \E t \in Task : CheckToken(t) \/ Abort(t) \/ Return(t) \/ Raise(t) \/ Finish(t)
  BY <1>3 DEF CheckToken, Abort, Return, Raise, Finish
<1>4. CASE \E t \in Task : Cancel(t)
  BY <1>4 DEF Cancel
<1>5. CASE RetryReceipts \/ CloseCancels \/ CloseShutdown \/ CloseJoined
  BY <1>5 DEF RetryReceipts, CloseCancels, CloseShutdown, CloseJoined
<1>6. CASE Stop \/ Restart \/ RestartCorrupt
  BY <1>6 DEF Stop, Restart, RestartCorrupt
<1>7. CASE UNCHANGED vars
  BY <1>7 DEF vars
<1> QED
  BY <1>1, <1>2, <1>3, <1>4, <1>5, <1>6, <1>7 DEF Next, Worker

LEMMA AtMostOne ==
  ASSUME NEW S, \A u, v \in S : u = v
  PROVE  IsFiniteSet(S) /\ Cardinality(S) <= 1
<1>1. CASE S = {}
  <2>1. IsFiniteSet({}) /\ Cardinality({}) = 0
    BY FS_EmptySet
  <2> QED
    BY <1>1, <2>1
<1>2. CASE S # {}
  <2>1. PICK u : S = {u}
    BY <1>2
  <2>2. IsFiniteSet({u}) /\ Cardinality({u}) = 1
    BY FS_Singleton
  <2> QED
    BY <2>1, <2>2
<1> QED
  BY <1>1, <1>2

LEMMA OneMore ==
  ASSUME NEW S, IsFiniteSet(S), NEW x, NEW n \in Nat, Cardinality(S) <= n
  PROVE  /\ IsFiniteSet(S \cup {x})
         /\ Cardinality(S \cup {x}) \in Nat
         /\ Cardinality(S \cup {x}) <= n + 1
<1>1. /\ IsFiniteSet(S \cup {x})
      /\ Cardinality(S \cup {x}) = IF x \in S THEN Cardinality(S) ELSE Cardinality(S) + 1
  BY FS_AddElement
<1>2. Cardinality(S) \in Nat
  BY FS_CardinalityType
<1> QED
  BY <1>1, <1>2

LEMMA AdmitKeepsSlotInv ==
  ASSUME IInv, SlotInv, NEW t \in Task, Admit(t)
  PROVE  SlotInv'
<1> USE DEF IInv, TypeOK
<1> DEFINE Late == {u \in Task : pc[u] = "fin"}
(* The single worker is in at most one finally block. *)
<1>1. IsFiniteSet(Late) /\ Cardinality(Late) <= 1
  <2>1. \A u, v \in Late : u = v
    BY DEF SingleWorker, Running
  <2> QED
    BY <2>1, AtMostOne
<1>2. IsFiniteSet(Active) /\ Cardinality(Active) \in Nat
  <2>1. Active \in SUBSET Occupied
    BY DEF Occupied
  <2> QED
    BY <2>1, FS_Subset, FS_CardinalityType DEF SlotInv
<1>3. Cardinality(Active) < Limit
  BY DEF Admit, SlotFree
<1>4. Cardinality(Late) \in Nat /\ Cardinality(Active \cap Late) \in Nat
  BY <1>1, <1>2, FS_CardinalityType, FS_Intersection
<1>5. Cardinality(Active \cup Late) =
        Cardinality(Active) + Cardinality(Late) - Cardinality(Active \cap Late)
  BY <1>1, <1>2, FS_Union
<1>6. Occupied = Active \cup Late
  BY DEF Occupied
<1>7. IsFiniteSet(Occupied) /\ Cardinality(Occupied) \in Nat /\ Cardinality(Occupied) <= Limit
  BY <1>1, <1>2, <1>3, <1>4, <1>5, <1>6, TaskAssumption, FS_CardinalityType DEF SlotInv
<1>8. /\ IsFiniteSet(Occupied \cup {t})
      /\ Cardinality(Occupied \cup {t}) \in Nat
      /\ Cardinality(Occupied \cup {t}) <= Limit + 1
  BY <1>7, TaskAssumption, OneMore
<1>9. Occupied' \in SUBSET (Occupied \cup {t})
  BY DEF Admit, Occupied, Active, InProgress
(* Work in hand is in progress: start() counts all of it. *)
<1>10. InHand \in SUBSET Active
  BY DEF InHand, Active, InProgress, PhaseInv
<1>11. /\ IsFiniteSet(InHand) /\ Cardinality(InHand) \in Nat
       /\ Cardinality(InHand) <= Limit - 1
  BY <1>2, <1>3, <1>10, TaskAssumption, FS_Subset, FS_CardinalityType
<1>12. InHand' \in SUBSET (InHand \cup {t})
  BY DEF Admit, InHand
<1>13. Cardinality(InHand') <= Limit
  <2>1. Limit - 1 \in Nat
    BY <1>11, TaskAssumption
  <2>2. /\ IsFiniteSet(InHand \cup {t})
        /\ Cardinality(InHand \cup {t}) \in Nat
        /\ Cardinality(InHand \cup {t}) <= (Limit - 1) + 1
    BY <1>11, <2>1, OneMore
  <2> QED
    BY <1>12, <2>2, TaskAssumption, FS_Subset, FS_CardinalityType
<1>14. IsFiniteSet(Occupied') /\ Cardinality(Occupied') <= Limit + 1
  BY <1>8, <1>9, TaskAssumption, FS_Subset, FS_CardinalityType
<1> QED
  BY <1>13, <1>14 DEF SlotInv

LEMMA SmallerKeepsSlotInv ==
  ASSUME IInv, SlotInv, Occupied' \subseteq Occupied, InHand' \subseteq InHand
  PROVE  SlotInv'
<1>1. IsFiniteSet(Occupied') /\ Cardinality(Occupied') <= Cardinality(Occupied)
  BY FS_Subset DEF SlotInv
<1>2. Cardinality(Occupied') \in Nat /\ Cardinality(Occupied) \in Nat
  BY <1>1, FS_CardinalityType DEF SlotInv
<1>3. InHand \in SUBSET Occupied
  BY DEF InHand, Occupied, Active, InProgress, IInv, PhaseInv
<1>4. IsFiniteSet(InHand)
  BY <1>3, FS_Subset DEF SlotInv
<1>5. /\ IsFiniteSet(InHand') /\ Cardinality(InHand') <= Cardinality(InHand)
      /\ Cardinality(InHand) \in Nat /\ Cardinality(InHand') \in Nat
  BY <1>4, FS_Subset, FS_CardinalityType
<1>6. Cardinality(InHand') <= Limit
  BY <1>5, TaskAssumption DEF SlotInv
<1> QED
  BY <1>1, <1>2, <1>6, TaskAssumption DEF SlotInv

(* The queue limit bounds the work in hand, and at most one record more than *)
(* that is ever in progress (start and cancel).                             *)
THEOREM SlotBoundTheorem == Spec => []SlotBound
<1>1. Init => SlotInv
  <2> SUFFICES ASSUME Init PROVE SlotInv
    OBVIOUS
  <2>1. Occupied = {}
    BY DEF Init, Occupied, Active, InProgress
  <2>2. InHand = {}
    BY DEF Init, InHand
  <2> QED
    BY <2>1, <2>2, FS_EmptySet, TaskAssumption DEF SlotInv
<1>2. IInv /\ SlotInv /\ [Next]_vars => SlotInv'
  <2> SUFFICES ASSUME IInv, SlotInv, [Next]_vars PROVE SlotInv'
    OBVIOUS
  <2>1. CASE \E t \in Task : Admit(t)
    BY <2>1, AdmitKeepsSlotInv
  <2>2. CASE \A t \in Task : ~Admit(t)
    BY <2>2, OnlyAdmitOccupies, OnlyAdmitBringsWork, SmallerKeepsSlotInv
  <2> QED
    BY <2>1, <2>2
<1>3. SlotInv => SlotBound
  <2> SUFFICES ASSUME SlotInv PROVE SlotBound
    OBVIOUS
  <2>1. Active \in SUBSET Occupied
    BY DEF Occupied
  <2>2. Cardinality(Active) <= Cardinality(Occupied)
    BY <2>1, FS_Subset DEF SlotInv
  <2>3. Cardinality(Active) \in Nat /\ Cardinality(Occupied) \in Nat
    BY <2>1, FS_Subset, FS_CardinalityType DEF SlotInv
  <2> QED
    BY <2>2, <2>3, TaskAssumption DEF SlotInv, SlotBound
<1> QED
  BY <1>1, <1>2, <1>3, Invariance, PTL DEF Spec

-----------------------------------------------------------------------------
(* The refinement of the abstract queue. *)

LEMMA WorkerRefines ==
  ASSUME IInv, NEW t \in Task, Worker(t)
  PROVE  [WQ!Next]_WQ!vars
<1> USE DEF IInv, TypeOK, WQ!vars
<1>1. CASE Begin(t)
  <2>1. pc[t] = "submitted"
    BY <1>1 DEF Begin, QueueInv
  <2>2. WQ!Take
    BY <1>1, <2>1 DEF Begin, Idle, WQ!Take, Running
  <2> QED
    BY <2>2 DEF WQ!Next
<1>2. CASE CheckToken(t)
  BY <1>2 DEF CheckToken, Running
<1>3. CASE Abort(t) \/ Return(t) \/ Raise(t)
  BY <1>3 DEF Abort, Return, Raise, Running
<1>4. CASE Finish(t)
  <2>1. WQ!Complete
    BY <1>4 DEF Finish, WQ!Complete, SingleWorker, Running
  <2> QED
    BY <2>1 DEF WQ!Next
<1> QED
  BY <1>1, <1>2, <1>3, <1>4 DEF Worker

LEMMA HandlerRefines ==
  ASSUME IInv, NEW t \in Task,
         Admit(t) \/ AdmitFails(t) \/ Submit(t) \/ SubmitRefused(t) \/ Cancel(t)
  PROVE  [WQ!Next]_WQ!vars
<1> USE DEF IInv, TypeOK, WQ!vars, Running
<1>1. CASE Admit(t)
  BY <1>1 DEF Admit
<1>2. CASE AdmitFails(t)
  <2>1. WQ!GiveUp(t)
    BY <1>2 DEF AdmitFails, WQ!GiveUp
  <2> QED
    BY <2>1 DEF WQ!Next
<1>3. CASE Submit(t)
  <2>1. WQ!Enqueue(t)
    BY <1>3 DEF Submit, WQ!Enqueue
  <2> QED
    BY <2>1 DEF WQ!Next
<1>4. CASE SubmitRefused(t)
  <2>1. WQ!GiveUp(t)
    BY <1>4 DEF SubmitRefused, WQ!GiveUp
  <2> QED
    BY <2>1 DEF WQ!Next
<1>5. CASE Cancel(t)
  BY <1>5 DEF Cancel
<1> QED
  BY <1>1, <1>2, <1>3, <1>4, <1>5

(* Spec implements the abstract FIFO, at-most-once, one-at-a-time queue. *)
THEOREM Refinement == Spec => RefinesWorkQueue
<1>1. Init => WQ!Init
  BY DEF Init, WQ!Init, Running
<1>2. IInv /\ [Next]_vars => [WQ!Next]_WQ!vars
  <2> SUFFICES ASSUME IInv, [Next]_vars PROVE [WQ!Next]_WQ!vars
    OBVIOUS
  <2>1. CASE \E t \in Task : Worker(t)
    BY <2>1, WorkerRefines
  <2>2. CASE \E t \in Task :
               Admit(t) \/ AdmitFails(t) \/ Submit(t) \/ SubmitRefused(t) \/ Cancel(t)
    BY <2>2, HandlerRefines
  <2>3. CASE Stop
    <3>1. WQ!Lose
      BY <2>3 DEF Stop, IInv, TypeOK, WQ!Lose, Running
    <3> QED
      BY <3>1 DEF WQ!Next
  <2>4. CASE \/ RetryReceipts \/ CloseCancels \/ CloseShutdown \/ CloseJoined
             \/ Restart \/ RestartCorrupt \/ UNCHANGED vars
    BY <2>4 DEF RetryReceipts, CloseCancels, CloseShutdown, CloseJoined, Restart,
                RestartCorrupt, vars, WQ!vars
  <2> QED
    BY <2>1, <2>2, <2>3, <2>4 DEF Next
<1> QED
  BY <1>1, <1>2, Invariance, PTL DEF Spec, RefinesWorkQueue, WQ!Spec
=============================================================================
