-------------------------- MODULE ArtifactAnalysis --------------------------
(***************************************************************************)
(* Artifact analysis jobs over one evidence item: ArtifactAnalysisService of *)
(* application/services/artifact_analysis.py over artifact_sources,          *)
(* artifacts, artifact_coverage and jobs.                                   *)
(*                                                                         *)
(* Processes discover, analyze, resume, cancel and pause jobs whose options  *)
(* are the same, so that a source has one row whoever discovers it.  Every   *)
(* read and every transaction is a step, but for the writes of               *)
(* _sync_progress; a process can die between any two.  A record of a source  *)
(* is its number; of a source, "SUCCEEDED" stands for PARTIAL, too, and       *)
(* "FAILED" for every other end.                                            *)
(*                                                                         *)
(* A definition marked "variant" is not the code: it is the next definition *)
(* with a plausible mistake, which the properties have to notice.           *)
(***************************************************************************)
EXTENDS Naturals, FiniteSets

CONSTANTS
  Process,      (* command-line calls, desktop tasks                         *)
  Job,          (* jobs                                                     *)
  Source,       (* the sources that analyzers detect in the indexed nodes    *)
  Records,      (* how many records each of them holds                      *)
  Paged,        (* the sources that are read page by page, with a checkpoint *)
  Warned,       (* the sources whose analysis ends with warnings or errors    *)
  Broken,       (* the sources whose analysis ends as FAILED                 *)
  Indexed,      (* whether the filesystem index is COMPLETE                  *)
  Batch,        (* options.batch_size                                       *)
  ItemBudget,   (* options.item_budget of the start, or None                 *)
  ResumeBudget, (* the item budgets of resumes                               *)
  MaxCalls,     (* bound: the calls that are made                            *)
  None          (* no job, no source, no budget                             *)

ASSUME ArtifactAssumption ==
  /\ Records \in [Source -> Nat] /\ Paged \subseteq Source
  /\ Broken \subseteq Warned /\ Warned \subseteq Source /\ Indexed \in BOOLEAN
  /\ Batch \in Nat \ {0} /\ MaxCalls \in Nat /\ IsFiniteSet(Process)
  /\ None \notin Job \cup Source \cup Nat
  /\ {ItemBudget} \cup ResumeBudget \subseteq (Nat \ {0}) \cup {None}

VARIABLES
  job,         (* jobs.status                                               *)
  coverage,    (* artifact_coverage: its status, and whether it has counted  *)
               (* a warning or an error                                     *)
  sources,     (* artifact_sources                                          *)
  artifacts,   (* artifacts: the records stored of each source              *)
  proc,        (* what each process is doing and remembers                  *)
  calls,       (* the calls that were made                                  *)
  discoveries, (* history: the jobs of discover_sources; rows do not tell    *)
  overlapped   (* history: whether two processes were ever at work at once   *)

tables == <<job, coverage, sources, artifacts>>
vars == <<tables, proc, calls, discoveries, overlapped>>

-----------------------------------------------------------------------------

Min2(a, b) == IF a < b THEN a ELSE b

JobStatus == {"NONE", "QUEUED", "RESUMING", "RUNNING", "SUCCEEDED", "PARTIAL", "PAUSED", "CANCELLED"}
Coverage == [status : {"NONE", "NOT_STARTED", "PARTIAL", "COMPLETE", "CANCELLED"}, flawed : BOOLEAN]
Row == [job : Job \cup {None}, status : {"NONE", "QUEUED", "PROCESSING", "SUCCEEDED", "FAILED"},
        checkpoint : Nat]
NoRow == [job |-> None, status |-> "NONE", checkpoint |-> 0]

Working == {"discover", "queue", "cover", "admitted", "informed", "reset", "begin", "loop", "claim",
            "analyze", "save", "mark", "sync", "finish", "finishing"}
Proc == [at : {"idle", "stop", "restate"} \cup Working, job : Job \cup {None}, status : JobStatus,
         cov : Coverage, fresh : SUBSET Source, source : Source \cup {None}, from : Nat,
         saved : Nat, upto : Nat, whole : BOOLEAN, budget : Nat \cup {None}, spent : Nat]
Idle == [at |-> "idle", job |-> None, status |-> "NONE", cov |-> [status |-> "NONE", flawed |-> FALSE],
         fresh |-> {}, source |-> None, from |-> 0, saved |-> 0, upto |-> 0, whole |-> FALSE,
         budget |-> None, spent |-> 0]

Init ==
  /\ job = [j \in Job |-> "NONE"]
  /\ coverage = [j \in Job |-> Idle.cov]
  /\ sources = [s \in Source |-> NoRow]
  /\ artifacts = [s \in Source |-> {}]
  /\ proc = [p \in Process |-> Idle]
  /\ calls = 0
  /\ discoveries = {}
  /\ overlapped = FALSE

Become(p, m) == proc' = [proc EXCEPT ![p] = m]
GoTo(p, at) == proc' = [proc EXCEPT ![p].at = at]
Return(p) == Become(p, Idle)

-----------------------------------------------------------------------------
(* analyze_evidence, discover_sources *)

CreateJob(p) ==
  \E j \in Job :
    /\ proc[p] = Idle /\ job[j] = "NONE"
    /\ job' = [job EXCEPT ![j] = "QUEUED"]
    /\ Become(p, [Idle EXCEPT !.at = "discover", !.job = j, !.budget = ItemBudget])
    /\ UNCHANGED <<coverage, sources, artifacts>>

(* Its options have no item budget: with another, its sources would have     *)
(* other rows.                                                              *)
CreateDiscovery(p) ==
  \E j \in Job :
    /\ ItemBudget = None
    /\ proc[p] = Idle /\ job[j] = "NONE"
    /\ job' = [job EXCEPT ![j] = "RUNNING"]
    /\ discoveries' = discoveries \cup {j}
    /\ Become(p, [Idle EXCEPT !.at = "discover", !.job = j])
    /\ UNCHANGED <<coverage, sources, artifacts>>

(* A discovery covers what it has listed, an analysis has not started.      *)
FirstStatus(j) ==
  IF j \notin discoveries THEN "NOT_STARTED" ELSE IF Indexed THEN "COMPLETE" ELSE "PARTIAL"

(* _discover_candidate_sources: what is completed is left out, with a        *)
(* warning; an index that is not complete is a warning, too.                *)
Discover(p) ==
  LET completed == {s \in Source : sources[s].status = "SUCCEEDED"}
  IN  /\ proc[p].at = "discover"
      /\ Become(p, [proc[p] EXCEPT !.at = "queue", !.fresh = Source \ completed, !.cov =
           [status |-> FirstStatus(proc[p].job), flawed |-> ~Indexed \/ completed # {}]])
      /\ UNCHANGED tables

(* save_artifact_sources: a row that is there becomes a row of this job.     *)
QueueSources(p) ==
  /\ proc[p].at = "queue"
  /\ sources' = [s \in Source |->
       IF s \in proc[p].fresh THEN [job |-> proc[p].job, status |-> "QUEUED", checkpoint |-> 0]
                              ELSE sources[s]]
  /\ Become(p, [proc[p] EXCEPT !.at = "cover", !.fresh = {}])
  /\ UNCHANGED <<job, coverage, artifacts>>

SaveCoverage(p) ==
  /\ proc[p].at = "cover" /\ proc[p].job \notin discoveries
  /\ coverage' = [coverage EXCEPT ![proc[p].job] = proc[p].cov]
  /\ GoTo(p, "begin")
  /\ UNCHANGED <<job, sources, artifacts>>

(* What it has listed stays QUEUED, and FinishJob ends the job.             *)
CoverDiscovery(p) ==
  /\ proc[p].at = "cover" /\ proc[p].job \in discoveries
  /\ coverage' = [coverage EXCEPT ![proc[p].job] = proc[p].cov]
  /\ Become(p, [proc[p] EXCEPT !.at = "finishing", !.status = IF Indexed THEN "SUCCEEDED" ELSE "PARTIAL"])
  /\ UNCHANGED <<job, sources, artifacts>>

-----------------------------------------------------------------------------
(* resume_artifact_job *)

CheckResume(p) ==
  \E j \in Job, b \in ResumeBudget :
    /\ proc[p] = Idle
    /\ job[j] \notin {"NONE", "SUCCEEDED"}
    /\ Become(p, [Idle EXCEPT !.at = "admitted", !.job = j, !.budget = b])
    /\ UNCHANGED tables

(* Without a coverage row the job cannot be resumed. *)
ReadCoverage(p) ==
  /\ proc[p].at = "admitted"
  /\ IF coverage[proc[p].job].status = "NONE" THEN Return(p)
     ELSE Become(p, [proc[p] EXCEPT !.at = "informed", !.cov = coverage[proc[p].job]])
  /\ UNCHANGED tables

RequeuedNever(r, j) == r   (* variant: an interrupted source stays PROCESSING *)
Requeued(r, j) == IF r.job = j /\ r.status = "PROCESSING" THEN [r EXCEPT !.status = "QUEUED"] ELSE r

ResetSources(p) ==
  /\ proc[p].at = "informed"
  /\ sources' = [s \in Source |-> Requeued(sources[s], proc[p].job)]
  /\ GoTo(p, "reset")
  /\ UNCHANGED <<job, coverage, artifacts>>

ResumeJob(p) ==
  /\ proc[p].at = "reset"
  /\ job' = [job EXCEPT ![proc[p].job] = "RESUMING"]
  /\ GoTo(p, "begin")
  /\ UNCHANGED <<coverage, sources, artifacts>>

-----------------------------------------------------------------------------
(* _run *)

(* _sync_progress: the process writes its copies over what is there. *)
Sync(p) ==
  /\ coverage' = [coverage EXCEPT ![proc[p].job] = proc[p].cov]
  /\ job' = [job EXCEPT ![proc[p].job] = "RUNNING"]

BeginRun(p) ==
  /\ proc[p].at = "begin"
  /\ Sync(p)
  /\ GoTo(p, "loop")
  /\ UNCHANGED <<sources, artifacts>>

Finish(p, status, covered) ==
  /\ Become(p, [proc[p] EXCEPT !.at = "finish", !.status = status, !.cov.status = covered,
                               !.budget = None, !.spent = 0])
  /\ UNCHANGED tables

BudgetReached(m) == m.budget # None /\ m.spent >= m.budget

StopRun(p) ==
  /\ proc[p].at = "loop"
  /\ \/ Finish(p, "CANCELLED", "CANCELLED")
     \/ Finish(p, "PAUSED", "PARTIAL")
     \/ BudgetReached(proc[p]) /\ Finish(p, "PARTIAL", "PARTIAL")

Queued(j) == {s \in Source : sources[s].job = j /\ sources[s].status = "QUEUED"}

(* _final_coverage_status *)
FinishSources(p) ==
  /\ proc[p].at = "loop" /\ ~BudgetReached(proc[p])
  /\ Queued(proc[p].job) = {}
  /\ IF proc[p].cov.flawed THEN Finish(p, "PARTIAL", "PARTIAL") ELSE Finish(p, "SUCCEEDED", "COMPLETE")

(* next_artifact_source selects a row, and then updates it by its id. *)
PickSource(p) ==
  \E s \in Queued(proc[p].job) :
    /\ proc[p].at = "loop" /\ ~BudgetReached(proc[p])
    /\ Become(p, [proc[p] EXCEPT !.at = "claim", !.source = s, !.from = sources[s].checkpoint])
    /\ UNCHANGED tables

ClaimSource(p) ==
  /\ proc[p].at = "claim"
  /\ sources' = [sources EXCEPT ![proc[p].source].status = "PROCESSING"]
  /\ GoTo(p, "analyze")
  /\ UNCHANGED <<job, coverage, artifacts>>

SyncRun(p) ==
  /\ proc[p].at = "sync"
  /\ Sync(p)
  /\ GoTo(p, "loop")
  /\ UNCHANGED <<sources, artifacts>>

-----------------------------------------------------------------------------
(* _analyze_source *)

(* _analyzer_item_budget; _run has seen that some of the budget is left. *)
PageSize(m) == IF m.budget = None THEN Batch ELSE m.budget - m.spent

(* The last record that is taken: of a page, or of a source that is cut off  *)
(* where the budget ends.                                                   *)
LastTaken(m) ==
  LET n == Records[m.source]
  IN  IF m.source \in Paged THEN Min2(n, m.from + PageSize(m))
      ELSE IF m.budget = None THEN n ELSE Min2(n, m.budget - m.spent)

(* A page that is full may end before it is known that nothing follows. *)
Analyze(p) ==
  LET m == proc[p]
      first == IF m.source \in Paged THEN m.from ELSE 0
      last == LastTaken(m)
  IN  /\ m.at = "analyze"
      /\ \E whole \in {last = Records[m.source], FALSE} :
           /\ whole # (last = Records[m.source]) => m.source \in Paged /\ last = first + PageSize(m)
           /\ Become(p, [m EXCEPT !.at = "save", !.saved = first, !.upto = last, !.whole = whole,
                                  !.cov.flawed = @ \/ m.source \in Warned,
                                  !.spent = IF m.budget = None THEN @ ELSE @ + last - first])
      /\ UNCHANGED tables

(* save_artifacts: duplicates are ignored. *)
SaveBatch(p) ==
  LET m == proc[p]
      last == Min2(m.upto, m.saved + Batch)
  IN  /\ m.at = "save" /\ m.saved < m.upto
      /\ artifacts' = [artifacts EXCEPT ![m.source] = @ \cup (m.saved + 1)..last]
      /\ Become(p, [m EXCEPT !.saved = last])
      /\ UNCHANGED <<job, coverage, sources>>

(* The process has done with its source. *)
Done(m) == [m EXCEPT !.at = "sync", !.source = None, !.from = 0, !.saved = 0, !.upto = 0, !.whole = FALSE]

(* A source that is not paged has no checkpoint. *)
CheckpointAhead(m) ==   (* variant: the checkpoint names the next record as taken *)
  IF m.source \in Paged /\ ~m.whole THEN m.upto + 1 ELSE 0
Checkpoint(m) == IF m.source \in Paged /\ ~m.whole THEN m.upto ELSE 0

(* mark_artifact_source_done: by its id, whichever job the row is of. *)
MarkSource(p) ==
  LET m == proc[p]
      end == IF m.source \in Broken THEN "FAILED" ELSE "SUCCEEDED"
  IN  /\ m.at = "save" /\ m.saved >= m.upto
      /\ sources' = [sources EXCEPT
           ![m.source].status = IF m.whole THEN end ELSE "QUEUED",
           ![m.source].checkpoint = Checkpoint(m)]
      /\ Become(p, Done(m))
      /\ UNCHANGED <<job, coverage, artifacts>>

(* The node is gone or the analyzer raises. *)
FailSource(p) ==
  /\ proc[p].at = "analyze"
  /\ sources' = [sources EXCEPT ![proc[p].source].status = "FAILED"]
  /\ Become(p, [Done(proc[p]) EXCEPT !.cov.flawed = TRUE])
  /\ UNCHANGED <<job, coverage, artifacts>>

-----------------------------------------------------------------------------
(* _finish: the coverage first, then the job. *)

FinishCoverage(p) ==
  /\ proc[p].at = "finish"
  /\ coverage' = [coverage EXCEPT ![proc[p].job] = proc[p].cov]
  /\ GoTo(p, "finishing")
  /\ UNCHANGED <<job, sources, artifacts>>

FinishJob(p) ==
  /\ proc[p].at = "finishing"
  /\ job' = [job EXCEPT ![proc[p].job] = proc[p].status]
  /\ Return(p)
  /\ UNCHANGED <<coverage, sources, artifacts>>

-----------------------------------------------------------------------------
(* cancel_artifact_job, pause_artifact_job *)

CheckStop(p) ==
  \E j \in Job, status \in {"CANCELLED", "PAUSED"} :
    /\ proc[p] = Idle
    /\ job[j] \notin {"NONE", "SUCCEEDED"}
    /\ Become(p, [Idle EXCEPT !.at = "stop", !.job = j, !.status = status])
    /\ UNCHANGED tables

CommitStop(p) ==
  LET m == proc[p]
  IN  /\ m.at = "stop"
      /\ job' = [job EXCEPT ![m.job] = m.status]
      /\ IF coverage[m.job].status = "NONE" THEN Return(p)
         ELSE Become(p, [m EXCEPT !.at = "restate", !.cov =
                [coverage[m.job] EXCEPT !.status = IF m.status = "PAUSED" THEN "PARTIAL" ELSE "CANCELLED"]])
      /\ UNCHANGED <<coverage, sources, artifacts>>

RestateCoverage(p) ==
  /\ proc[p].at = "restate"
  /\ coverage' = [coverage EXCEPT ![proc[p].job] = proc[p].cov]
  /\ Return(p)
  /\ UNCHANGED <<job, sources, artifacts>>

Die(p) ==
  /\ proc[p] # Idle
  /\ Return(p)
  /\ UNCHANGED tables

-----------------------------------------------------------------------------

Work(p) ==
  \/ Discover(p) \/ QueueSources(p) \/ SaveCoverage(p) \/ CoverDiscovery(p)
  \/ ReadCoverage(p) \/ ResetSources(p) \/ ResumeJob(p)
  \/ BeginRun(p) \/ StopRun(p) \/ FinishSources(p) \/ PickSource(p) \/ ClaimSource(p) \/ SyncRun(p)
  \/ Analyze(p) \/ SaveBatch(p) \/ MarkSource(p) \/ FailSource(p)
  \/ FinishCoverage(p) \/ FinishJob(p)

Call(p) ==
  /\ calls < MaxCalls
  /\ calls' = calls + 1
  /\ \/ CreateDiscovery(p)
     \/ (CreateJob(p) \/ CheckResume(p) \/ CheckStop(p)) /\ UNCHANGED discoveries

Go(p) ==
  /\ Work(p) \/ CommitStop(p) \/ RestateCoverage(p) \/ Die(p)
  /\ UNCHANGED <<calls, discoveries>>

Next ==
  /\ \E p \in Process : Call(p) \/ Go(p)
  /\ overlapped' = (overlapped \/ Cardinality({p \in Process : proc'[p] # Idle}) > 1)

Spec == Init /\ [][Next]_vars

-----------------------------------------------------------------------------

(* Rows, records and what processes remember keep their types. *)
TypeOK ==
  /\ job \in [Job -> JobStatus]
  /\ coverage \in [Job -> Coverage]
  /\ sources \in [Source -> Row]
  /\ artifacts \in [Source -> SUBSET Nat]
  /\ proc \in [Process -> Proc]
  /\ calls \in 0..MaxCalls /\ overlapped \in BOOLEAN /\ discoveries \subseteq Job

Stored(s, n) == 1..n \subseteq artifacts[s]

(* What a row says of its source is stored: every record of one that         *)
(* succeeded, and the records before its checkpoint; jobs may take sources   *)
(* from each other and processes overlap and die.                           *)
RowsAreBacked ==
  \A s \in Source : /\ Stored(s, sources[s].checkpoint)
                    /\ sources[s].status = "SUCCEEDED" => Stored(s, Records[s])

(* If processes never overlapped: an analysis whose coverage is COMPLETE has  *)
(* finished each of its sources, also those in which a process died, and     *)
(* those that it took over from another job.  A discovery says COMPLETE of    *)
(* sources that it has only listed, also of those that it took from an       *)
(* analysis.                                                                *)
CompleteMeansFinished ==
  ~overlapped => \A j \in Job \ discoveries, s \in Source :
    coverage[j].status = "COMPLETE" /\ sources[s].job = j => sources[s].status \in {"SUCCEEDED", "FAILED"}
=============================================================================
