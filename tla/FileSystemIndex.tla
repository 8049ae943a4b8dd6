-------------------------- MODULE FileSystemIndex --------------------------
(***************************************************************************)
(* One filesystem index job: FileSystemIndexService of                      *)
(* application/services/file_system_index.py over the tables fs_nodes,      *)
(* fs_index_queue, fs_index_coverage, fs_scan_events and jobs.              *)
(*                                                                         *)
(* Processes run, resume, cancel, pause and prioritize the job, each with   *)
(* its own connection; every database transaction is a step, but for the    *)
(* writes of index_evidence before _run, those of _sync_progress, and a     *)
(* write with the read that follows it, which are one step each.  A process *)
(* can die, or leave by an exception, between any two steps.  A directory   *)
(* is the sequence of entries its provider returns in the order of their    *)
(* sort keys; a cursor is a position in it.  Which queued directory comes   *)
(* first (priority, sequence) is left open, and a used-up item budget is a  *)
(* pause whose job status is PARTIAL.                                       *)
(*                                                                         *)
(* A definition marked "variant" is not the code: it is the next definition *)
(* with a plausible mistake, which the properties have to notice.           *)
(***************************************************************************)
EXTENDS Naturals, Sequences, FiniteSets

CONSTANTS
  Process,    (* command-line calls, desktop tasks                          *)
  Dir, File,  (* what the evidence holds                                    *)
  Root,       (* its root directory                                         *)
  Listing,    (* the entries of each directory                              *)
  Unreadable, (* an entry the provider reports as an issue                  *)
  Excluded,   (* what the include and exclude patterns leave out            *)
  MaxDepth,   (* options.max_depth                                          *)
  MaxQueue,   (* options.max_queue_size                                     *)
  Urgent,     (* the directories that are ever prioritized                   *)
  Quick,      (* whether the profile is QUICK_TRIAGE                        *)
  MayFail     (* whether processes can end between two transactions         *)

Node == Dir \cup File

ASSUME IndexAssumption ==
  /\ Dir \cap File = {} /\ Unreadable \notin Node
  /\ Root \in Dir
  /\ Listing \in [Dir -> Seq(Node \cup {Unreadable})]
  /\ Excluded \subseteq Node /\ Urgent \subseteq Dir
  /\ MaxDepth \in Nat /\ MaxQueue \in Nat
  /\ Quick \in BOOLEAN /\ MayFail \in BOOLEAN

VARIABLES
  job,       (* jobs.status                                                 *)
  coverage,  (* fs_index_coverage: its status, and whether anything was     *)
             (* skipped or failed                                           *)
  nodes,     (* fs_nodes                                                    *)
  queue,     (* fs_index_queue, by directory and reason                     *)
  events,    (* fs_scan_events: where in which directory                    *)
  proc       (* what each process is doing and remembers                    *)

vars == <<job, coverage, nodes, queue, events, proc>>

-----------------------------------------------------------------------------

(* TREE stands for ROOT and DISCOVERED_DIRECTORY: no directory is both. *)
Key == Dir \X {"TREE", "SELECTED_SCOPE"}
Row == [status : {"NONE", "QUEUED", "PROCESSING", "DONE"}, cursor : Nat, depth : Nat]
NoRow == [status |-> "NONE", cursor |-> 0, depth |-> 0]
NewRow(depth) == [NoRow EXCEPT !.status = "QUEUED", !.depth = depth]

JobStatus == {"NONE", "QUEUED", "RESUMING", "RUNNING", "SUCCEEDED", "PARTIAL", "PAUSED", "CANCELLED"}
Coverage == [status : {"NOT_STARTED", "PARTIAL", "COMPLETE", "CANCELLED"}, flawed : BOOLEAN]

Scanning == {"marking", "scan", "stored", "check"}
Running == {"admitted", "informed", "reset", "begin", "loop", "sync"} \cup Scanning
Mem == [at : {"idle", "finish", "finishing", "stop", "restate", "prioritized"} \cup Running,
        key : Key, pos : Nat, cov : Coverage, job : JobStatus, wish : {"none", "pause", "cancel"}]
Idle == [at |-> "idle", key |-> <<Root, "TREE">>, pos |-> 0,
         cov |-> [status |-> "NOT_STARTED", flawed |-> FALSE], job |-> "NONE", wish |-> "none"]

Init ==
  /\ job = "NONE"
  /\ coverage = [status |-> "NOT_STARTED", flawed |-> FALSE]
  /\ nodes = {}
  /\ queue = [k \in Key |-> NoRow]
  /\ events = {}
  /\ proc = [p \in Process |-> Idle]

Entries(k) == Listing[k[1]]
Included(e) == e # Unreadable /\ e \notin Excluded
CanTraverse(depth) == depth < MaxDepth
Pending == {k \in Key : queue[k].status \in {"QUEUED", "PROCESSING"}}

(* INSERT ... ON CONFLICT (job_id, node_id, reason): an existing row stays. *)
Enqueue(k, depth) ==
  queue' = [queue EXCEPT ![k] = IF @.status = "NONE" THEN NewRow(depth) ELSE @]

GoTo(p, at) == proc' = [proc EXCEPT ![p].at = at]
Return(p) == proc' = [proc EXCEPT ![p] = Idle]

-----------------------------------------------------------------------------
(* index_evidence and resume_index_job, up to _run *)

(* Until the coverage row is written, last, resume refuses the job. *)
StartIndex(p) ==
  /\ proc[p] = Idle /\ job = "NONE"
  /\ job' = "QUEUED"
  /\ nodes' = {Root}
  /\ Enqueue(<<Root, "TREE">>, 0)
  /\ GoTo(p, "begin")
  /\ UNCHANGED <<coverage, events>>

CheckResume(p) ==
  /\ proc[p] = Idle
  /\ job \notin {"NONE", "SUCCEEDED"}
  /\ GoTo(p, "admitted")
  /\ UNCHANGED <<job, coverage, nodes, queue, events>>

RequeuedNever(r) == r   (* variant: an interrupted row stays PROCESSING *)
Requeued(r) == IF r.status = "PROCESSING" THEN [r EXCEPT !.status = "QUEUED"] ELSE r

ReadCoverage(p) ==
  /\ proc[p].at = "admitted"
  /\ proc' = [proc EXCEPT ![p].at = "informed", ![p].cov = coverage]
  /\ UNCHANGED <<job, coverage, nodes, queue, events>>

ResetQueue(p) ==
  /\ proc[p].at = "informed"
  /\ queue' = [k \in Key |-> Requeued(queue[k])]
  /\ GoTo(p, "reset")
  /\ UNCHANGED <<job, coverage, nodes, events>>

ResumeJob(p) ==
  /\ proc[p].at = "reset"
  /\ job' = "RESUMING"
  /\ GoTo(p, "begin")
  /\ UNCHANGED <<coverage, nodes, queue, events>>

(* _sync_progress: the process writes its own copies over what is there. *)
Sync(p) == coverage' = proc[p].cov /\ job' = "RUNNING"

BeginRun(p) ==
  /\ proc[p].at = "begin"
  /\ Sync(p)
  /\ GoTo(p, "loop")
  /\ UNCHANGED <<nodes, queue, events>>

-----------------------------------------------------------------------------
(* _run *)

Finish(p, status, coverageStatus) ==
  /\ proc' = [proc EXCEPT ![p].at = "finish", ![p].job = status, ![p].cov.status = coverageStatus]
  /\ UNCHANGED <<job, coverage, nodes, queue, events>>

StopRun(p) ==
  /\ proc[p].at = "loop"
  /\ \/ proc[p].wish = "cancel" /\ Finish(p, "CANCELLED", "CANCELLED")
     \/ proc[p].wish = "pause" /\ \E status \in {"PAUSED", "PARTIAL"} : Finish(p, status, "PARTIAL")

(* next_fs_queue_item selects a row, and then updates it by its id. *)
PickItem(p) ==
  /\ proc[p].at = "loop" /\ proc[p].wish = "none"
  /\ \E k \in Key :
       /\ queue[k].status = "QUEUED"
       /\ proc' = [proc EXCEPT ![p].at = "marking", ![p].key = k, ![p].pos = queue[k].cursor]
  /\ UNCHANGED <<job, coverage, nodes, queue, events>>

MarkItem(p) ==
  /\ proc[p].at = "marking"
  /\ queue' = [queue EXCEPT ![proc[p].key].status = "PROCESSING"]
  /\ GoTo(p, "scan")
  /\ UNCHANGED <<job, coverage, nodes, events>>

(* _final_coverage_status *)
FinalStatus(cov) == IF Quick \/ cov.flawed THEN "PARTIAL" ELSE "COMPLETE"

FinishQueue(p) ==
  /\ proc[p].at = "loop" /\ proc[p].wish = "none"
  /\ \A k \in Key : queue[k].status # "QUEUED"
  /\ LET final == FinalStatus(proc[p].cov)
     IN  Finish(p, IF final = "COMPLETE" THEN "SUCCEEDED" ELSE "PARTIAL", final)

SyncRun(p) ==
  /\ proc[p].at = "sync"
  /\ Sync(p)
  /\ proc' = [proc EXCEPT ![p].at = "loop", ![p].key = Idle.key, ![p].pos = 0]
  /\ UNCHANGED <<nodes, queue, events>>

-----------------------------------------------------------------------------
(* _scan_queue_item *)

AtEntry(p) == proc[p].at = "scan" /\ proc[p].pos < Len(Entries(proc[p].key))
Here(p) == <<proc[p].key[1], proc[p].pos>>   (* the entry it has just taken *)


CountUnreadable(p) ==   (* variant: the issue is counted and not recorded *)
  /\ AtEntry(p)
  /\ Entries(proc[p].key)[proc[p].pos + 1] = Unreadable
  /\ proc' = [proc EXCEPT ![p].pos = @ + 1, ![p].cov.flawed = TRUE]
  /\ UNCHANGED <<job, coverage, nodes, queue, events>>

(* The provider's issue is recorded as an event. *)
SkipUnreadable(p) ==
  /\ AtEntry(p)
  /\ Entries(proc[p].key)[proc[p].pos + 1] = Unreadable
  /\ events' = events \cup {<<proc[p].key[1], proc[p].pos + 1>>}
  /\ proc' = [proc EXCEPT ![p].pos = @ + 1, ![p].cov.flawed = TRUE]
  /\ UNCHANGED <<job, coverage, nodes, queue>>

SkipExcluded(p) ==
  /\ AtEntry(p)
  /\ Entries(proc[p].key)[proc[p].pos + 1] \in Excluded
  /\ proc' = [proc EXCEPT ![p].pos = @ + 1, ![p].cov.flawed = TRUE]
  /\ UNCHANGED <<job, coverage, nodes, queue, events>>

StoreEntry(p) ==
  LET k == proc[p].key
      e == Entries(k)[proc[p].pos + 1]
      deeper == e \in Dir /\ CanTraverse(queue[k].depth + 1)
  IN  /\ AtEntry(p)
      /\ Included(e)
      /\ nodes' = nodes \cup {e}
      /\ proc' = [proc EXCEPT ![p].pos = @ + 1,
                              ![p].at = IF deeper THEN "stored" ELSE "check",
                              ![p].cov.flawed = @ \/ (e \in Dir /\ ~deeper)]
      /\ UNCHANGED <<job, coverage, queue, events>>

(* The directory just stored is queued, unless the queue is at its bound. *)
QueueChild(p) ==
  LET k == proc[p].key
      e == Entries(k)[proc[p].pos]
  IN  /\ proc[p].at = "stored"
      /\ IF Cardinality(Pending) >= MaxQueue
         THEN /\ events' = events \cup {Here(p)}
              /\ proc' = [proc EXCEPT ![p].at = "check", ![p].cov.flawed = TRUE]
              /\ UNCHANGED queue
         ELSE /\ Enqueue(<<e, "TREE">>, queue[k].depth + 1)
              /\ GoTo(p, "check")
              /\ UNCHANGED events
      /\ UNCHANGED <<job, coverage, nodes>>

(* A batch may be full after any entry. *)
SyncBatch(p) ==
  /\ proc[p].at = "check"
  /\ Sync(p)
  /\ UNCHANGED <<nodes, queue, events, proc>>

NextEntry(p) ==
  /\ proc[p].at = "check" /\ proc[p].wish = "none"
  /\ GoTo(p, "scan")
  /\ UNCHANGED <<job, coverage, nodes, queue, events>>

(* A cancelled scan leaves the row as it is, PROCESSING, with its old cursor. *)
CancelScan(p) ==
  /\ proc[p].at = "check" /\ proc[p].wish = "cancel"
  /\ GoTo(p, "sync")
  /\ UNCHANGED <<job, coverage, nodes, queue, events>>

(* update_fs_queue_cursor *)
SaveCursor(p) ==
  queue' = [queue EXCEPT ![proc[p].key].status = "QUEUED", ![proc[p].key].cursor = proc[p].pos]

PauseScan(p) ==
  /\ proc[p].at = "check" /\ proc[p].wish = "pause"
  /\ SaveCursor(p)
  /\ GoTo(p, "sync")
  /\ UNCHANGED <<job, coverage, nodes, events>>

(* mark_fs_queue_done *)
RequeueDone(p) ==   (* variant: the status is written as when pausing *)
  queue' = [queue EXCEPT ![proc[p].key].status = "QUEUED"]
MarkDone(p) ==
  queue' = [queue EXCEPT ![proc[p].key].status = "DONE"]

EndScan(p) ==
  /\ proc[p].at = "scan"
  /\ proc[p].pos >= Len(Entries(proc[p].key))
  /\ MarkDone(p)
  /\ GoTo(p, "sync")
  /\ UNCHANGED <<job, coverage, nodes, events>>

-----------------------------------------------------------------------------
(* _finish: the coverage first, then the job. *)

FinishCoverage(p) ==
  /\ proc[p].at = "finish"
  /\ coverage' = proc[p].cov
  /\ GoTo(p, "finishing")
  /\ UNCHANGED <<job, nodes, queue, events>>

FinishJob(p) ==
  /\ proc[p].at = "finishing"
  /\ job' = proc[p].job
  /\ Return(p)
  /\ UNCHANGED <<coverage, nodes, queue, events>>

-----------------------------------------------------------------------------
(* The tokens of a run, and the commands of other processes *)

(* A token that is set earlier is noticed here, where it is read. *)
RequestStop(p) ==
  /\ proc[p].at \in {"loop", "check"}
  /\ \/ proc[p].wish = "none" /\ proc' = [proc EXCEPT ![p].wish = "pause"]
     \/ proc[p].wish # "cancel" /\ proc' = [proc EXCEPT ![p].wish = "cancel"]
  /\ UNCHANGED <<job, coverage, nodes, queue, events>>

(* cancel_index_job, pause_index_job *)
CheckStop(p) ==
  /\ proc[p] = Idle
  /\ job \notin {"NONE", "SUCCEEDED"}
  /\ \E status \in {"CANCELLED", "PAUSED"} :
       proc' = [proc EXCEPT ![p].at = "stop", ![p].job = status]
  /\ UNCHANGED <<job, coverage, nodes, queue, events>>

CommitStop(p) ==
  /\ proc[p].at = "stop"
  /\ job' = proc[p].job
  /\ proc' = [proc EXCEPT
       ![p].at = "restate",
       ![p].cov = [coverage EXCEPT !.status = IF proc[p].job = "CANCELLED" THEN "CANCELLED" ELSE "PARTIAL"]]
  /\ UNCHANGED <<coverage, nodes, queue, events>>

RestateCoverage(p) ==
  /\ proc[p].at = "restate"
  /\ coverage' = proc[p].cov
  /\ Return(p)
  /\ UNCHANGED <<job, nodes, queue, events>>

(* prioritize_node: a row of depth 0, and then the job as it was read. *)
PrioritizeNode(p) ==
  /\ proc[p] = Idle /\ job # "NONE"
  /\ \E d \in Urgent \cap nodes : Enqueue(<<d, "SELECTED_SCOPE">>, 0)
  /\ proc' = [proc EXCEPT ![p].at = "prioritized", ![p].job = job]
  /\ UNCHANGED <<job, coverage, nodes, events>>

SavePriority(p) ==
  /\ proc[p].at = "prioritized"
  /\ job' = proc[p].job
  /\ Return(p)
  /\ UNCHANGED <<coverage, nodes, queue, events>>

Die(p) ==
  /\ MayFail
  /\ proc[p] # Idle
  /\ Return(p)
  /\ UNCHANGED <<job, coverage, nodes, queue, events>>

-----------------------------------------------------------------------------

Scan(p) ==
  \/ SkipUnreadable(p) \/ SkipExcluded(p) \/ StoreEntry(p) \/ QueueChild(p)
  \/ NextEntry(p) \/ CancelScan(p) \/ PauseScan(p) \/ EndScan(p)

Work(p) ==
  \/ ReadCoverage(p) \/ ResetQueue(p) \/ ResumeJob(p) \/ BeginRun(p)
  \/ StopRun(p) \/ PickItem(p) \/ MarkItem(p) \/ FinishQueue(p) \/ SyncRun(p)
  \/ Scan(p)
  \/ FinishCoverage(p) \/ FinishJob(p)

Command(p) ==
  \/ StartIndex(p) \/ CheckResume(p)
  \/ CheckStop(p) \/ CommitStop(p) \/ RestateCoverage(p)
  \/ PrioritizeNode(p) \/ SavePriority(p)

Next == \E p \in Process :
  Work(p) \/ Command(p) \/ SyncBatch(p) \/ RequestStop(p) \/ Die(p)

Spec == Init /\ [][Next]_vars

(* The service runs synchronously: a run goes on by itself. *)
FairSpec == Spec /\ \A p \in Process : WF_vars(Work(p))

-----------------------------------------------------------------------------

(* Rows, statuses and positions keep their types; a row is there only of a  *)
(* stored directory, and a scan stays inside its directory.                 *)
TypeOK ==
  /\ job \in JobStatus
  /\ coverage \in Coverage
  /\ nodes \subseteq Node
  /\ queue \in [Key -> Row]
  /\ events \subseteq Dir \X Nat
  /\ proc \in [Process -> Mem]
  /\ \A k \in Key : queue[k].status # "NONE" => k[1] \in nodes
  /\ \A p \in Process : proc[p].pos <= Len(Entries(proc[p].key))

(* How far the queue says that a directory has been scanned. *)
Reached(k) == IF queue[k].status = "DONE" THEN Len(Entries(k)) ELSE queue[k].cursor

(* An entry is dealt with: stored and, if it is a directory in reach, queued *)
(* or reported; what cannot be read is reported.                             *)
Settled(k, i) ==
  LET e == Entries(k)[i]
  IN  \/ e \in Excluded
      \/ e = Unreadable /\ <<k[1], i>> \in events
      \/ /\ e \in nodes
         /\ e \in Dir => \/ queue[<<e, "TREE">>].status # "NONE"
                         \/ ~CanTraverse(queue[k].depth + 1)
                         \/ <<k[1], i>> \in events

(* A checkpoint never runs ahead of the work: whatever processes scan, pause, *)
(* cancel, resume, overlap or die, every entry before the cursor of a        *)
(* directory, and every entry of a directory that is DONE, is settled, so    *)
(* that resuming from the queue leaves nothing out unreported.               *)
CheckpointBehind ==
  \A k \in Key : queue[k].status # "NONE" =>
    \A i \in 1..Len(Entries(k)) : i <= Reached(k) => Settled(k, i)

(* COMPLETE says that the work is over: a job that has SUCCEEDED is COMPLETE, *)
(* and no directory that was ever queued is left half scanned, even if        *)
(* processes died in it and the job was resumed (reset_interrupted_fs_queue); *)
(* with CheckpointBehind, nothing in reach is then missing without a report.  *)
(* Until then COMPLETE may be that of an earlier end: a job resumed after a  *)
(* death in _finish keeps it while it scans what was prioritized meanwhile.   *)
TreeDone == \A d \in Dir : queue[<<d, "TREE">>].status \in {"NONE", "DONE"}

CompleteMeansScanned == job = "SUCCEEDED" => coverage.status = "COMPLETE" /\ TreeDone

(* A run comes to an end: every directory it takes is finished or given back *)
(* to a stop that was asked for.                                             *)
RunEnds == \A p \in Process : proc[p].at \in Running ~> proc[p] = Idle
=============================================================================
