---------------------------- MODULE DesktopTasks ----------------------------
(***************************************************************************)
(* The background work queue of the desktop API: class Tasks of            *)
(* src/apex_desktop/tasks.py.                                              *)
(*                                                                         *)
(* Request handlers run in a thread pool and call start, cancel and list   *)
(* concurrently.  One executor thread (max_workers=1) runs the admitted    *)
(* work in order.  Every block under Tasks.lock is one step here, and so   *)
(* is every access outside it, so the interleavings are those of the code. *)
(* Receipts go to a journal file that is replaced as a whole and read back *)
(* when the process starts again.                                          *)
(*                                                                         *)
(* A definition marked "variant" is not the code: it is the next definition *)
(* with a plausible mistake, which the properties have to notice.          *)
(***************************************************************************)
EXTENDS Naturals, Sequences, FiniteSets

CONSTANTS
  Task,        (* task ids; uuid4 never returns one twice                  *)
  Cancellable, (* the tasks admitted with cancellable=True                 *)
  Limit,       (* records that may be in progress at once; 16 in the code  *)
  Results      (* statuses that the finished work itself can report        *)

ASSUME TaskAssumption ==
  /\ Cancellable \subseteq Task
  /\ Limit \in Nat \ {0}
  /\ Results \subseteq {"SUCCEEDED", "PARTIAL", "PAUSED"}

VARIABLES
  proc,       (* the API process: "up", the phases of close(), or "down"   *)
  status,     (* records[t]["status"], "ABSENT" when there is no record    *)
  actions,    (* does records[t]["actions"] hold "CANCEL"                  *)
  token,      (* tokens[t] and its flag                                    *)
  unsaved,    (* does records[t] carry "receipt_error"                     *)
  queue,      (* the executor's pending work, oldest first                 *)
  pc,         (* where the thread that owns task t is                      *)
  journal     (* the status each receipt in tasks.json has                 *)

vars == <<proc, status, actions, token, unsaved, queue, pc, journal>>

-----------------------------------------------------------------------------

InProgress == {"QUEUED", "RUNNING", "CANCELLING"}
Settled    == Results \cup {"CANCELLED", "FAILED", "INTERRUPTED"}
Status     == InProgress \cup Settled \cup {"ABSENT"}

(* The phases of the thread that owns a task: start() holds it until it is *)
(* "submitted" to the executor, then the worker runs it.  "check" reads the *)
(* token outside the lock; "fin" is the finally block, entered with the     *)
(* lock released, where services.close() runs first.                       *)
Running == {"check", "abort", "run", "fin"}
Phase   == {"unborn", "admitted", "submitted", "over"} \cup Running

(* The slots that start() counts against the limit of 16. *)
Active == {t \in Task : status[t] \in InProgress}

SlotFreeOneMore == Cardinality(Active) <= Limit   (* variant *)
SlotFree == Cardinality(Active) < Limit

(* The status under which a new process loads a receipt: live work did not  *)
(* survive, everything else is kept.                                       *)
Restored(s) == IF s \in InProgress THEN "INTERRUPTED" ELSE s

Init ==
  /\ proc    = "up"
  /\ status  = [t \in Task |-> "ABSENT"]
  /\ actions = [t \in Task |-> FALSE]
  /\ token   = [t \in Task |-> "none"]
  /\ unsaved = [t \in Task |-> FALSE]
  /\ queue   = <<>>
  /\ pc      = [t \in Task |-> "unborn"]
  /\ journal = [t \in Task |-> "ABSENT"]

-----------------------------------------------------------------------------
(* _save: a temporary file with every record replaces the journal, and all  *)
(* receipt errors are cleared.  An OSError leaves the journal as it was.    *)

SaveReplacesNothing ==   (* variant: the temporary file is left beside the journal *)
  /\ UNCHANGED journal
  /\ unsaved' = [t \in Task |-> FALSE]

Save ==
  /\ journal' = status'
  /\ unsaved' = [t \in Task |-> FALSE]

SaveFails == UNCHANGED <<journal, unsaved>>

(* The worker's own failed save is put on its record. *)
SaveFailsSilently(t) == UNCHANGED <<journal, unsaved>>   (* variant *)
SaveFailsVisibly(t) ==
  /\ unsaved' = [unsaved EXCEPT ![t] = TRUE]
  /\ UNCHANGED journal

-----------------------------------------------------------------------------
(* start(): admission and the receipt under the lock, then submit without it *)

Admit(t) ==
  /\ proc # "down"
  /\ pc[t] = "unborn"
  /\ SlotFree
  /\ status'  = [status  EXCEPT ![t] = "QUEUED"]
  /\ actions' = [actions EXCEPT ![t] = t \in Cancellable]
  /\ token'   = [token   EXCEPT ![t] = "live"]
  /\ pc'      = [pc      EXCEPT ![t] = "admitted"]
  /\ Save
  /\ UNCHANGED <<proc, queue>>

(* Variant: the failed admission leaves its record in the queue. *)
AdmitFailsKeepsRecord(t) ==
  /\ proc # "down"
  /\ pc[t] = "unborn"
  /\ SlotFree
  /\ status' = [status EXCEPT ![t] = "QUEUED"]
  /\ pc'     = [pc     EXCEPT ![t] = "over"]
  /\ SaveFails
  /\ UNCHANGED <<proc, actions, token, queue>>

(* The receipt could not be written: record and token are taken out again   *)
(* in the same locked block and the caller gets the error.                 *)
AdmitFails(t) ==
  /\ proc # "down"
  /\ pc[t] = "unborn"
  /\ SlotFree
  /\ pc' = [pc EXCEPT ![t] = "over"]
  /\ SaveFails
  /\ UNCHANGED <<proc, status, actions, token, queue>>

Submit(t) ==
  /\ proc \in {"up", "closing"}
  /\ pc[t] = "admitted"
  /\ queue' = Append(queue, t)
  /\ pc'    = [pc EXCEPT ![t] = "submitted"]
  /\ UNCHANGED <<proc, status, actions, token, unsaved, journal>>

(* The executor was shut down between admission and submit. *)
SubmitRefused(t) ==
  /\ proc \in {"draining", "closed"}
  /\ pc[t] = "admitted"
  /\ status'  = [status  EXCEPT ![t] = "ABSENT"]
  /\ actions' = [actions EXCEPT ![t] = FALSE]
  /\ token'   = [token   EXCEPT ![t] = "none"]
  /\ pc'      = [pc      EXCEPT ![t] = "over"]
  /\ Save \/ SaveFails
  /\ UNCHANGED <<proc, queue>>

-----------------------------------------------------------------------------
(* worker(): the single executor thread *)

IdleAlways      == TRUE                                            (* variant *)
IdleOnlyWhileUp == proc = "up" /\ \A t \in Task : pc[t] \notin Running (* variant *)
Idle == \A t \in Task : pc[t] \notin Running

Begin(t) ==
  /\ proc # "down"
  /\ Idle
  /\ queue # <<>>
  /\ t = Head(queue)
  /\ queue'  = Tail(queue)
  /\ status' = [status EXCEPT ![t] = "RUNNING"]
  /\ pc'     = [pc     EXCEPT ![t] = "check"]
  /\ UNCHANGED <<proc, actions, token, unsaved, journal>>

(* Variant: a cancelled task holds the worker. *)
CheckTokenHangs(t) ==
  /\ pc[t] = "check"
  /\ token[t] = "live"
  /\ pc' = [pc EXCEPT ![t] = "run"]
  /\ UNCHANGED <<proc, status, actions, token, unsaved, queue, journal>>

CheckToken(t) ==
  /\ pc[t] = "check"
  /\ pc' = [pc EXCEPT ![t] = IF token[t] = "cancelled" THEN "abort" ELSE "run"]
  /\ UNCHANGED <<proc, status, actions, token, unsaved, queue, journal>>

Abort(t) ==
  /\ pc[t] = "abort"
  /\ status' = [status EXCEPT ![t] = "CANCELLED"]
  /\ pc'     = [pc     EXCEPT ![t] = "fin"]
  /\ UNCHANGED <<proc, actions, token, unsaved, queue, journal>>

(* Variant: the token is not looked at again after the work. *)
OutcomeIgnoresToken(t, s) == s

(* What the lock block after the work writes: the work's own status, unless *)
(* the token was cancelled by then.                                        *)
Outcome(t, s) == IF token[t] = "cancelled" THEN "CANCELLED" ELSE s

Return(t) ==
  /\ pc[t] = "run"
  /\ \E r \in Results : status' = [status EXCEPT ![t] = Outcome(t, r)]
  /\ pc' = [pc EXCEPT ![t] = "fin"]
  /\ UNCHANGED <<proc, actions, token, unsaved, queue, journal>>

Raise(t) ==
  /\ pc[t] = "run"
  /\ status' = [status EXCEPT ![t] = Outcome(t, "FAILED")]
  /\ pc'     = [pc     EXCEPT ![t] = "fin"]
  /\ UNCHANGED <<proc, actions, token, unsaved, queue, journal>>

Finish(t) ==
  /\ pc[t] = "fin"
  /\ actions' = [actions EXCEPT ![t] = FALSE]
  /\ token'   = [token   EXCEPT ![t] = "none"]
  /\ pc'      = [pc      EXCEPT ![t] = "over"]
  /\ UNCHANGED <<proc, status, queue>>
  /\ Save \/ SaveFailsVisibly(t)

Worker(t) ==
  Begin(t) \/ CheckToken(t) \/ Abort(t) \/ Return(t) \/ Raise(t) \/ Finish(t)

-----------------------------------------------------------------------------
(* The other operations of the API *)

Cancel(t) ==
  /\ proc # "down"
  /\ actions[t]
  /\ token[t] # "none"
  /\ token'  = [token  EXCEPT ![t] = "cancelled"]
  /\ status' = [status EXCEPT ![t] = "CANCELLING"]
  /\ UNCHANGED <<proc, actions, unsaved, queue, pc, journal>>

(* list(retry_receipts=True): one attempt to write the receipts again. *)
RetryReceipts ==
  /\ proc # "down"
  /\ \E t \in Task : unsaved[t]
  /\ UNCHANGED <<proc, status, actions, token, queue, pc>>
  /\ Save \/ SaveFails

-----------------------------------------------------------------------------
(* close(): cancel the tokens it finds, without the lock; shut the executor *)
(* down and wait for it; write the receipts once more if some are missing.  *)

CloseCancels ==
  /\ proc = "up"
  /\ proc'  = "closing"
  /\ token' = [t \in Task |-> IF token[t] = "none" THEN "none" ELSE "cancelled"]
  /\ UNCHANGED <<status, actions, unsaved, queue, pc, journal>>

CloseShutdown ==
  /\ proc = "closing"
  /\ proc' = "draining"
  /\ UNCHANGED <<status, actions, token, unsaved, queue, pc, journal>>

(* Variant: waits for the records instead of the executor. *)
CloseJoinedOnRecords ==
  /\ proc = "draining"
  /\ Active = {}
  /\ proc' = "closed"
  /\ UNCHANGED <<status, actions, token, queue, pc>>
  /\ IF \E t \in Task : unsaved[t] THEN Save \/ SaveFails ELSE SaveFails

CloseJoined ==
  /\ proc = "draining"
  /\ queue = <<>>
  /\ Idle
  /\ proc' = "closed"
  /\ UNCHANGED <<status, actions, token, queue, pc>>
  /\ IF \E t \in Task : unsaved[t] THEN Save \/ SaveFails ELSE SaveFails

-----------------------------------------------------------------------------
(* The process ends, at any point: everything but the journal is lost. *)

Stop ==
  /\ proc # "down"
  /\ proc'    = "down"
  /\ status'  = [t \in Task |-> "ABSENT"]
  /\ actions' = [t \in Task |-> FALSE]
  /\ token'   = [t \in Task |-> "none"]
  /\ unsaved' = [t \in Task |-> FALSE]
  /\ queue'   = <<>>
  /\ pc'      = [t \in Task |-> IF pc[t] = "unborn" THEN "unborn" ELSE "over"]
  /\ UNCHANGED journal

(* Tasks.__init__ reads the journal back... *)
Restart ==
  /\ proc = "down"
  /\ proc'   = "up"
  /\ status' = [t \in Task |-> Restored(journal[t])]
  /\ UNCHANGED <<actions, token, unsaved, queue, pc, journal>>

(* ...or, when the file does not parse, moves it aside and starts empty. *)
RestartCorrupt ==
  /\ proc = "down"
  /\ \E t \in Task : journal[t] # "ABSENT"
  /\ proc'    = "up"
  /\ journal' = [t \in Task |-> "ABSENT"]
  /\ UNCHANGED <<status, actions, token, unsaved, queue, pc>>

-----------------------------------------------------------------------------

Next ==
  \/ \E t \in Task :
       Admit(t) \/ AdmitFails(t) \/ Submit(t) \/ SubmitRefused(t) \/ Worker(t) \/ Cancel(t)
  \/ RetryReceipts
  \/ CloseCancels \/ CloseShutdown \/ CloseJoined
  \/ Stop \/ Restart \/ RestartCorrupt

Spec == Init /\ [][Next]_vars

(* A handler that admitted a task goes on to submit it, the executor thread *)
(* runs while there is work, and every run returns or raises.  Nobody has   *)
(* to start, cancel, list, stop or restart anything.                       *)
Fairness ==
  /\ \A t \in Task : WF_vars(Submit(t) \/ SubmitRefused(t))
  /\ \A t \in Task : WF_vars(Worker(t))
  /\ WF_vars(CloseShutdown) /\ WF_vars(CloseJoined)

FairSpec == Spec /\ Fairness

-----------------------------------------------------------------------------
(* Properties *)

(* Every variable has the values the code gives it. *)
TypeOK ==
  /\ proc    \in {"up", "closing", "draining", "closed", "down"}
  /\ status  \in [Task -> Status]
  /\ actions \in [Task -> BOOLEAN]
  /\ token   \in [Task -> {"none", "live", "cancelled"}]
  /\ unsaved \in [Task -> BOOLEAN]
  /\ queue   \in Seq(Task)
  /\ pc      \in [Task -> Phase]
  /\ journal \in [Task -> Status]

(* The tasks whose work is still to be done or is being done. *)
InHand == {t \in Task : pc[t] \in {"admitted", "submitted", "check", "abort", "run"}}

(* The queue limit: start() never lets more work in than Limit, although it  *)
(* counts record statuses, which cancel, the worker, close and a restart     *)
(* change.  The records themselves can pass the limit by one, because a      *)
(* cancel that meets a worker between its result and its finally block turns *)
(* a record that no longer counted back into CANCELLING.  Never by two.      *)
SlotBound == Cardinality(InHand) <= Limit /\ Cardinality(Active) <= Limit + 1

(* No QUEUED or RUNNING record is left behind without a thread that will     *)
(* still write its outcome: neither a failed admission, nor a refused        *)
(* submit, nor a crash leaves one.                                         *)
NoOrphan ==
  \A t \in Task : /\ status[t] = "QUEUED"  => pc[t] \in {"admitted", "submitted"}
                  /\ status[t] = "RUNNING" => pc[t] \in {"check", "abort", "run"}

(* The executor never runs work that a restart would not know of: start()    *)
(* writes the receipt before submit, and no later save loses it.            *)
ReceiptBeforeWork ==
  \A t \in Task : pc[t] \in {"submitted"} \cup Running => journal[t] # "ABSENT"

(* A finished task that shows no receipt error is on disk with the outcome   *)
(* that the user sees: a restart would show the same.  Other tasks' saves,   *)
(* retries, the close() save and crashes all write or lose receipts.        *)
DurableOutcome ==
  \A t \in Task :
    (pc[t] = "over" /\ status[t] # "ABSENT" /\ ~unsaved[t])
       => Restored(journal[t]) = Restored(status[t])

(* Once a task's token is cancelled no later write can report that the work  *)
(* ran to completion, whatever the work returned.                           *)
CancelWins ==
  [][\A t \in Task :
       (token[t] = "cancelled" /\ status'[t] # status[t] /\ proc' # "down")
          => status'[t] \in {"RUNNING", "CANCELLING", "CANCELLED", "ABSENT"}]_vars

(* Every admitted task is eventually finished, in whatever way. *)
EveryTaskFinishes ==
  \A t \in Task : pc[t] = "admitted" ~> pc[t] = "over"

(* The abstract queue: a task is waiting once submitted, and running from    *)
(* the worker's first step to its last.                                     *)
WQ == INSTANCE WorkQueue WITH
        spent   <- {t \in Task : pc[t] \notin {"unborn", "admitted"}},
        waiting <- queue,
        running <- {t \in Task : pc[t] \in Running}

(* Admission, refused submits, cancels, receipts and close() hide behind the *)
(* abstract queue: work runs at most once, singly, in submission order.      *)
RefinesWorkQueue == WQ!Spec

(* And with a fair executor thread no submitted work is starved. *)
FairlyRefinesWorkQueue == WQ!FairSpec

(* close() returns: no task can keep the executor from draining. *)
CloseReturns == proc = "closing" ~> proc \in {"closed", "down"}
=============================================================================
