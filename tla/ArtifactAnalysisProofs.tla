----------------------- MODULE ArtifactAnalysisProofs -----------------------
(***************************************************************************)
(* Proofs about ArtifactAnalysis for any number of processes, jobs, sources *)
(* and records.                                                             *)
(***************************************************************************)
EXTENDS ArtifactAnalysis, FiniteSetTheorems, TLAPS

(* What a row says of its source is stored, and what it says can be true. *)
Backed(s) ==
  /\ sources[s].checkpoint <= Records[s]
  /\ sources[s].status = "NONE" => sources[s].job = None
  /\ Stored(s, sources[s].checkpoint)
  /\ sources[s].status = "SUCCEEDED" => Stored(s, Records[s])

(* What a process remembers of its source is stored, whatever the row says   *)
(* by now: a batch before it, the record it starts from, the end of its page. *)
Sound(m) ==
  /\ m.at # "idle" => m.job \in Job
  /\ m.at \in {"stop", "finish", "finishing"} => m.status # "NONE"
  /\ m.at \in {"claim", "analyze", "save"} => m.source \in Source
  /\ m.at \in {"claim", "analyze"} =>
       /\ m.from <= Records[m.source] /\ Stored(m.source, m.from)
       /\ m.budget # None => m.spent < m.budget
  /\ m.at = "save" =>
       /\ m.upto <= Records[m.source] /\ Stored(m.source, m.saved)
       /\ m.whole => m.upto = Records[m.source]

(* The inductive invariant behind RowsAreBacked. *)
IInv ==
  /\ TypeOK
  /\ \A s \in Source : Backed(s)
  /\ \A p \in Process : Sound(proc[p])

(* Records are never taken back. *)
Grows == \A s \in Source : artifacts[s] \subseteq artifacts'[s]

Counted == calls' \in 0..MaxCalls /\ overlapped' \in BOOLEAN /\ discoveries' \subseteq Job

-----------------------------------------------------------------------------

LEMMA IdleSound == Idle \in Proc /\ Sound(Idle)
BY DEF Idle, Proc, Coverage, JobStatus, Sound

(* One process goes on to c, the tables keep their types and rows stay      *)
(* backed: the invariant is kept.                                           *)
LEMMA OneStep ==
  ASSUME IInv, Counted, Grows, NEW p \in Process, NEW c \in Proc, Become(p, c),
         job' \in [Job -> JobStatus], coverage' \in [Job -> Coverage],
         sources' \in [Source -> Row], artifacts' \in [Source -> SUBSET Nat],
         \A s \in Source : Backed(s)', Sound(c)'
  PROVE  IInv'
<1>1. TypeOK'
  BY DEF IInv, TypeOK, Counted, Become
<1>2. ASSUME NEW q \in Process PROVE Sound(proc[q])'
  <2>1. CASE q = p
    <3>1. proc'[q] = c
      BY <2>1 DEF Become, IInv, TypeOK
    <3> QED
      BY <3>1 DEF Sound, Stored
  <2>2. CASE q # p
    <3>1. proc'[q] = proc[q]
      BY <2>2 DEF Become, IInv, TypeOK
    <3>2. Sound(proc[q])
      BY DEF IInv
    <3> QED
      BY <3>1, <3>2 DEF Sound, Stored, Grows
  <2> QED
    BY <2>1, <2>2
<1> QED
  BY <1>1, <1>2 DEF IInv

(* A step that leaves sources and records alone. *)
LEMMA QuietStep ==
  ASSUME IInv, Counted, NEW p \in Process, NEW c \in Proc, Become(p, c),
         job' \in [Job -> JobStatus], coverage' \in [Job -> Coverage],
         UNCHANGED <<sources, artifacts>>, Sound(c)
  PROVE  IInv'
<1>1. Grows /\ sources' \in [Source -> Row] /\ artifacts' \in [Source -> SUBSET Nat]
  BY DEF Grows, IInv, TypeOK
<1>2. Sound(c)'
  BY DEF Sound, Stored
<1>3. \A s \in Source : Backed(s)'
  BY DEF IInv, Backed, Stored
<1> QED
  BY <1>1, <1>2, <1>3, OneStep

(* A step that leaves the records alone. *)
LEMMA RowStep ==
  ASSUME IInv, Counted, NEW p \in Process, NEW c \in Proc, Become(p, c), Sound(c),
         UNCHANGED <<job, coverage, artifacts>>, sources' \in [Source -> Row],
         \A s \in Source : sources'[s] = sources[s] \/ Backed(s)'
  PROVE  IInv'
<1>1. Grows /\ job' \in [Job -> JobStatus] /\ coverage' \in [Job -> Coverage]
      /\ artifacts' \in [Source -> SUBSET Nat]
  BY DEF Grows, IInv, TypeOK
<1>2. Sound(c)'
  BY DEF Sound, Stored
<1>3. \A s \in Source : Backed(s)'
  BY DEF IInv, Backed, Stored
<1> QED
  BY <1>1, <1>2, <1>3, OneStep

(* GoTo changes nothing a process remembers. *)
LEMMA GoToBecomes ==
  ASSUME TypeOK, NEW p \in Process, NEW at, GoTo(p, at)
  PROVE  Become(p, [proc[p] EXCEPT !.at = at])
BY DEF GoTo, Become, TypeOK

-----------------------------------------------------------------------------
(* analyze_evidence *)

LEMMA CreateJobKeeps ==
  ASSUME IInv, Counted, NEW p \in Process, CreateJob(p)
  PROVE  IInv'
<1>1. PICK j \in Job :
        /\ job' = [job EXCEPT ![j] = "QUEUED"]
        /\ Become(p, [Idle EXCEPT !.at = "discover", !.job = j, !.budget = ItemBudget])
        /\ UNCHANGED <<coverage, sources, artifacts>>
  BY DEF CreateJob
<1> DEFINE c == [Idle EXCEPT !.at = "discover", !.job = j, !.budget = ItemBudget]
<1>2. c \in Proc /\ Sound(c)
  BY ArtifactAssumption DEF Idle, Proc, Working, Coverage, JobStatus, Sound
<1>3. job' \in [Job -> JobStatus] /\ coverage' \in [Job -> Coverage]
  BY <1>1 DEF IInv, TypeOK, JobStatus
<1>4. Become(p, c)
  BY <1>1
<1> HIDE DEF c
<1> QED
  BY <1>1, <1>2, <1>3, <1>4, QuietStep

LEMMA CreateDiscoveryKeeps ==
  ASSUME IInv, Counted, NEW p \in Process, CreateDiscovery(p)
  PROVE  IInv'
<1>1. PICK j \in Job :
        /\ job' = [job EXCEPT ![j] = "RUNNING"]
        /\ Become(p, [Idle EXCEPT !.at = "discover", !.job = j])
        /\ UNCHANGED <<coverage, sources, artifacts>>
  BY DEF CreateDiscovery
<1> DEFINE c == [Idle EXCEPT !.at = "discover", !.job = j]
<1>2. c \in Proc /\ Sound(c)
  BY DEF Idle, Proc, Working, Coverage, JobStatus, Sound
<1>3. job' \in [Job -> JobStatus] /\ coverage' \in [Job -> Coverage]
  BY <1>1 DEF IInv, TypeOK, JobStatus
<1>4. Become(p, c)
  BY <1>1
<1> HIDE DEF c
<1> QED
  BY <1>1, <1>2, <1>3, <1>4, QuietStep

LEMMA DiscoverKeeps ==
  ASSUME IInv, Counted, NEW p \in Process, Discover(p)
  PROVE  IInv'
<1> DEFINE completed == {s \in Source : sources[s].status = "SUCCEEDED"}
           v == [status |-> FirstStatus(proc[p].job), flawed |-> ~Indexed \/ completed # {}]
           c == [proc[p] EXCEPT !.at = "queue", !.fresh = Source \ completed, !.cov = v]
<1>1. Become(p, c) /\ proc[p].at = "discover" /\ UNCHANGED tables
  BY DEF Discover
<1>2. proc[p] \in Proc /\ Sound(proc[p])
  BY DEF IInv, TypeOK
<1>3. v \in Coverage /\ Source \ completed \in SUBSET Source
  BY ArtifactAssumption DEF Coverage, FirstStatus
<1>4. c \in Proc /\ Sound(c)
  <2> HIDE DEF v, completed
  <2> QED
    BY <1>1, <1>2, <1>3 DEF Proc, Working, Sound
<1>5. job' \in [Job -> JobStatus] /\ coverage' \in [Job -> Coverage]
      /\ UNCHANGED <<sources, artifacts>>
  BY <1>1 DEF IInv, TypeOK, tables
<1> HIDE DEF c
<1> QED
  BY <1>1, <1>4, <1>5, QuietStep

LEMMA QueueSourcesKeeps ==
  ASSUME IInv, Counted, NEW p \in Process, QueueSources(p)
  PROVE  IInv'
<1> DEFINE c == [proc[p] EXCEPT !.at = "cover", !.fresh = {}]
           r == [job |-> proc[p].job, status |-> "QUEUED", checkpoint |-> 0]
<1>1. /\ Become(p, c) /\ proc[p].at = "queue" /\ UNCHANGED <<job, coverage, artifacts>>
      /\ sources' = [s \in Source |-> IF s \in proc[p].fresh THEN r ELSE sources[s]]
  BY DEF QueueSources
<1>2. proc[p] \in Proc /\ Sound(proc[p]) /\ sources \in [Source -> Row]
  BY DEF IInv, TypeOK
<1>3. c \in Proc /\ Sound(c)
  BY <1>1, <1>2 DEF Proc, Working, Sound
<1>4. r \in Row
  BY <1>2 DEF Proc, Row
<1>5. sources' \in [Source -> Row]
  BY <1>1, <1>2, <1>4
<1>6. ASSUME NEW s \in Source PROVE sources'[s] = sources[s] \/ Backed(s)'
  <2>1. CASE s \in proc[p].fresh
    <3>1. sources'[s] = r
      BY <1>1, <2>1
    <3> QED
      BY <3>1, ArtifactAssumption DEF Backed, Stored
  <2>2. CASE s \notin proc[p].fresh
    BY <1>1, <2>2
  <2> QED
    BY <2>1, <2>2
<1> HIDE DEF c, r
<1> QED
  BY <1>1, <1>3, <1>5, <1>6, RowStep

(* The steps that write the copy of the coverage, and nothing of sources. *)
LEMMA SaveCoverageKeeps ==
  ASSUME IInv, Counted, NEW p \in Process, SaveCoverage(p)
  PROVE  IInv'
<1> DEFINE c == [proc[p] EXCEPT !.at = "begin"]
<1>1. Become(p, c)
  BY GoToBecomes DEF SaveCoverage, IInv
<1>2. proc[p] \in Proc /\ Sound(proc[p]) /\ proc[p].at = "cover"
  BY DEF IInv, TypeOK, SaveCoverage
<1>3. c \in Proc /\ Sound(c)
  BY <1>2 DEF Proc, Working, Sound
<1>4. job' \in [Job -> JobStatus] /\ coverage' \in [Job -> Coverage]
      /\ UNCHANGED <<sources, artifacts>>
  BY <1>2 DEF IInv, TypeOK, SaveCoverage, Proc
<1> HIDE DEF c
<1> QED
  BY <1>1, <1>3, <1>4, QuietStep

LEMMA CoverDiscoveryKeeps ==
  ASSUME IInv, Counted, NEW p \in Process, CoverDiscovery(p)
  PROVE  IInv'
<1> DEFINE end == IF Indexed THEN "SUCCEEDED" ELSE "PARTIAL"
           c == [proc[p] EXCEPT !.at = "finishing", !.status = end]
<1>1. Become(p, c)
  BY DEF CoverDiscovery
<1>2. proc[p] \in Proc /\ Sound(proc[p]) /\ proc[p].at = "cover"
  BY DEF IInv, TypeOK, CoverDiscovery
<1>3. end \in JobStatus /\ end # "NONE"
  BY DEF JobStatus
<1>4. c \in Proc /\ Sound(c)
  <2> HIDE DEF end
  <2> QED
    BY <1>2, <1>3 DEF Proc, Working, Sound
<1>5. job' \in [Job -> JobStatus] /\ coverage' \in [Job -> Coverage]
      /\ UNCHANGED <<sources, artifacts>>
  BY <1>2 DEF IInv, TypeOK, CoverDiscovery, Proc
<1> HIDE DEF c
<1> QED
  BY <1>1, <1>4, <1>5, QuietStep

-----------------------------------------------------------------------------
(* resume_artifact_job *)

LEMMA CheckResumeKeeps ==
  ASSUME IInv, Counted, NEW p \in Process, CheckResume(p)
  PROVE  IInv'
<1>1. PICK j \in Job, b \in ResumeBudget :
        /\ Become(p, [Idle EXCEPT !.at = "admitted", !.job = j, !.budget = b])
        /\ UNCHANGED tables
  BY DEF CheckResume
<1> DEFINE c == [Idle EXCEPT !.at = "admitted", !.job = j, !.budget = b]
<1>2. c \in Proc /\ Sound(c)
  BY ArtifactAssumption DEF Idle, Proc, Working, Coverage, JobStatus, Sound
<1>3. Become(p, c) /\ job' \in [Job -> JobStatus] /\ coverage' \in [Job -> Coverage]
      /\ UNCHANGED <<sources, artifacts>>
  BY <1>1 DEF IInv, TypeOK, tables
<1> HIDE DEF c
<1> QED
  BY <1>2, <1>3, QuietStep

LEMMA ReadCoverageKeeps ==
  ASSUME IInv, Counted, NEW p \in Process, ReadCoverage(p)
  PROVE  IInv'
<1> DEFINE c == [proc[p] EXCEPT !.at = "informed", !.cov = coverage[proc[p].job]]
<1>1. proc[p] \in Proc /\ Sound(proc[p]) /\ proc[p].at = "admitted"
  BY DEF IInv, TypeOK, ReadCoverage
<1>2. coverage[proc[p].job] \in Coverage
  BY <1>1 DEF IInv, TypeOK, Sound
<1>3. c \in Proc /\ Sound(c)
  BY <1>1, <1>2 DEF Proc, Working, Sound
<1>4. (Become(p, Idle) \/ Become(p, c)) /\ UNCHANGED tables
  BY DEF ReadCoverage, Return
<1>5. job' \in [Job -> JobStatus] /\ coverage' \in [Job -> Coverage]
      /\ UNCHANGED <<sources, artifacts>>
  BY <1>4 DEF IInv, TypeOK, tables
<1> HIDE DEF c
<1> QED
  BY <1>3, <1>4, <1>5, IdleSound, QuietStep

LEMMA ResetSourcesKeeps ==
  ASSUME IInv, Counted, NEW p \in Process, ResetSources(p)
  PROVE  IInv'
<1> DEFINE c == [proc[p] EXCEPT !.at = "reset"]
<1>1. Become(p, c)
  BY GoToBecomes DEF ResetSources, IInv
<1>2. proc[p] \in Proc /\ Sound(proc[p]) /\ proc[p].at = "informed" /\ sources \in [Source -> Row]
  BY DEF IInv, TypeOK, ResetSources
<1>3. c \in Proc /\ Sound(c)
  BY <1>2 DEF Proc, Working, Sound
<1>4. ASSUME NEW s \in Source PROVE sources'[s] \in Row /\ Backed(s)'
  <2>1. sources'[s] = Requeued(sources[s], proc[p].job)
    BY DEF ResetSources
  <2>2. sources[s] \in Row /\ Backed(s)
    BY <1>2 DEF IInv
  <2>3. CASE sources[s].job = proc[p].job /\ sources[s].status = "PROCESSING"
    <3>1. sources'[s] = [sources[s] EXCEPT !.status = "QUEUED"]
      BY <2>1, <2>3 DEF Requeued
    <3>2. artifacts' = artifacts
      BY DEF ResetSources
    <3> QED
      BY <2>2, <3>1, <3>2 DEF Row, Backed, Stored
  <2>4. CASE ~(sources[s].job = proc[p].job /\ sources[s].status = "PROCESSING")
    <3>1. sources'[s] = sources[s] /\ artifacts' = artifacts
      BY <2>1, <2>4 DEF Requeued, ResetSources
    <3> QED
      BY <2>2, <3>1 DEF Backed, Stored
  <2> QED
    BY <2>3, <2>4
<1>5. sources' \in [Source -> Row] /\ UNCHANGED <<job, coverage, artifacts>>
  BY <1>4 DEF ResetSources
<1> HIDE DEF c
<1> QED
  BY <1>1, <1>3, <1>4, <1>5, RowStep

LEMMA ResumeJobKeeps ==
  ASSUME IInv, Counted, NEW p \in Process, ResumeJob(p)
  PROVE  IInv'
<1> DEFINE c == [proc[p] EXCEPT !.at = "begin"]
<1>1. Become(p, c)
  BY GoToBecomes DEF ResumeJob, IInv
<1>2. proc[p] \in Proc /\ Sound(proc[p]) /\ proc[p].at = "reset"
  BY DEF IInv, TypeOK, ResumeJob
<1>3. c \in Proc /\ Sound(c)
  BY <1>2 DEF Proc, Working, Sound
<1>4. job' \in [Job -> JobStatus] /\ coverage' \in [Job -> Coverage]
      /\ UNCHANGED <<sources, artifacts>>
  BY DEF IInv, TypeOK, ResumeJob, JobStatus
<1> HIDE DEF c
<1> QED
  BY <1>1, <1>3, <1>4, QuietStep

-----------------------------------------------------------------------------
(* _run *)

LEMMA BeginRunKeeps ==
  ASSUME IInv, Counted, NEW p \in Process, BeginRun(p)
  PROVE  IInv'
<1> DEFINE c == [proc[p] EXCEPT !.at = "loop"]
<1>1. Become(p, c)
  BY GoToBecomes DEF BeginRun, IInv
<1>2. proc[p] \in Proc /\ Sound(proc[p]) /\ proc[p].at = "begin"
  BY DEF IInv, TypeOK, BeginRun
<1>3. c \in Proc /\ Sound(c)
  BY <1>2 DEF Proc, Working, Sound
<1>4. job' \in [Job -> JobStatus] /\ coverage' \in [Job -> Coverage]
      /\ UNCHANGED <<sources, artifacts>>
  BY <1>2 DEF IInv, TypeOK, BeginRun, Sync, Proc, JobStatus
<1> HIDE DEF c
<1> QED
  BY <1>1, <1>3, <1>4, QuietStep

LEMMA SyncRunKeeps ==
  ASSUME IInv, Counted, NEW p \in Process, SyncRun(p)
  PROVE  IInv'
<1> DEFINE c == [proc[p] EXCEPT !.at = "loop"]
<1>1. Become(p, c)
  BY GoToBecomes DEF SyncRun, IInv
<1>2. proc[p] \in Proc /\ Sound(proc[p]) /\ proc[p].at = "sync"
  BY DEF IInv, TypeOK, SyncRun
<1>3. c \in Proc /\ Sound(c)
  BY <1>2 DEF Proc, Working, Sound
<1>4. job' \in [Job -> JobStatus] /\ coverage' \in [Job -> Coverage]
      /\ UNCHANGED <<sources, artifacts>>
  BY <1>2 DEF IInv, TypeOK, SyncRun, Sync, Proc, JobStatus
<1> HIDE DEF c
<1> QED
  BY <1>1, <1>3, <1>4, QuietStep

LEMMA FinishKeeps ==
  ASSUME IInv, Counted, NEW p \in Process, proc[p].at = "loop",
         NEW status \in JobStatus \ {"NONE"}, NEW covered \in {"PARTIAL", "COMPLETE", "CANCELLED"},
         Finish(p, status, covered)
  PROVE  IInv'
<1> DEFINE c == [proc[p] EXCEPT !.at = "finish", !.status = status, !.cov.status = covered,
                                !.budget = None, !.spent = 0]
<1>1. Become(p, c) /\ UNCHANGED tables
  BY DEF Finish
<1>2. proc[p] \in Proc /\ Sound(proc[p])
  BY DEF IInv, TypeOK
<1>3. c \in Proc /\ Sound(c)
  BY <1>2 DEF Proc, Working, Coverage, Sound
<1>4. job' \in [Job -> JobStatus] /\ coverage' \in [Job -> Coverage]
      /\ UNCHANGED <<sources, artifacts>>
  BY <1>1 DEF IInv, TypeOK, tables
<1> HIDE DEF c
<1> QED
  BY <1>1, <1>3, <1>4, QuietStep

LEMMA StopRunKeeps ==
  ASSUME IInv, Counted, NEW p \in Process, StopRun(p)
  PROVE  IInv'
<1>1. {"CANCELLED", "PAUSED", "PARTIAL"} \subseteq JobStatus \ {"NONE"}
  BY DEF JobStatus
<1>2. PICK status \in {"CANCELLED", "PAUSED", "PARTIAL"}, covered \in {"CANCELLED", "PARTIAL"} :
        Finish(p, status, covered)
  BY DEF StopRun
<1> QED
  BY <1>1, <1>2, FinishKeeps DEF StopRun

LEMMA FinishSourcesKeeps ==
  ASSUME IInv, Counted, NEW p \in Process, FinishSources(p)
  PROVE  IInv'
<1>1. {"PARTIAL", "SUCCEEDED"} \subseteq JobStatus \ {"NONE"}
  BY DEF JobStatus
<1>2. PICK status \in {"PARTIAL", "SUCCEEDED"}, covered \in {"PARTIAL", "COMPLETE"} :
        Finish(p, status, covered)
  BY DEF FinishSources
<1> QED
  BY <1>1, <1>2, FinishKeeps DEF FinishSources

LEMMA PickSourceKeeps ==
  ASSUME IInv, Counted, NEW p \in Process, PickSource(p)
  PROVE  IInv'
<1>1. PICK s \in Source :
        /\ ~BudgetReached(proc[p])
        /\ Become(p, [proc[p] EXCEPT !.at = "claim", !.source = s, !.from = sources[s].checkpoint])
        /\ UNCHANGED tables
  BY DEF PickSource, Queued
<1> DEFINE c == [proc[p] EXCEPT !.at = "claim", !.source = s, !.from = sources[s].checkpoint]
<1>2. proc[p] \in Proc /\ Sound(proc[p]) /\ proc[p].at = "loop"
  BY DEF IInv, TypeOK, PickSource
<1>3. sources[s] \in Row /\ Backed(s)
  BY DEF IInv, TypeOK
<1>4. proc[p].budget # None => proc[p].spent < proc[p].budget
  BY <1>1, <1>2 DEF BudgetReached, Proc
<1>5. c \in Proc
  BY <1>2, <1>3 DEF Proc, Working, Row
<1>6. Sound(c)
  <2>1. /\ c.at = "claim" /\ c.job = proc[p].job /\ c.source = s /\ c.from = sources[s].checkpoint
        /\ c.budget = proc[p].budget /\ c.spent = proc[p].spent
    BY <1>2 DEF Proc
  <2> HIDE DEF c
  <2> QED
    BY <1>2, <1>3, <1>4, <2>1 DEF Sound, Backed
<1>7. Become(p, c) /\ job' \in [Job -> JobStatus] /\ coverage' \in [Job -> Coverage]
      /\ UNCHANGED <<sources, artifacts>>
  BY <1>1 DEF IInv, TypeOK, tables
<1> HIDE DEF c
<1> QED
  BY <1>5, <1>6, <1>7, QuietStep

LEMMA ClaimSourceKeeps ==
  ASSUME IInv, Counted, NEW p \in Process, ClaimSource(p)
  PROVE  IInv'
<1> DEFINE c == [proc[p] EXCEPT !.at = "analyze"]
<1>1. Become(p, c)
  BY GoToBecomes DEF ClaimSource, IInv
<1>2. proc[p] \in Proc /\ Sound(proc[p]) /\ proc[p].at = "claim" /\ sources \in [Source -> Row]
  BY DEF IInv, TypeOK, ClaimSource
<1>3. c \in Proc /\ Sound(c)
  BY <1>2 DEF Proc, Working, Sound
<1>4. PICK s \in Source : s = proc[p].source
  BY <1>2 DEF Sound
<1>5. sources' = [sources EXCEPT ![s].status = "PROCESSING"] /\ UNCHANGED <<job, coverage, artifacts>>
  BY <1>4 DEF ClaimSource
<1>6. sources' \in [Source -> Row]
  BY <1>2, <1>5 DEF Row
<1>7. Backed(s)'
  <2>1. Backed(s) /\ sources'[s] = [sources[s] EXCEPT !.status = "PROCESSING"] /\ sources[s] \in Row
    BY <1>2, <1>5 DEF IInv
  <2> QED
    BY <1>5, <2>1 DEF Backed, Stored, Row
<1>8. \A t \in Source : sources'[t] = sources[t] \/ Backed(t)'
  BY <1>2, <1>5, <1>7
<1> HIDE DEF c
<1> QED
  BY <1>1, <1>3, <1>5, <1>6, <1>8, RowStep

-----------------------------------------------------------------------------
(* _analyze_source *)

(* A page ends in its source and not before it starts. *)
LEMMA PageBounds ==
  ASSUME NEW m \in Proc, m.at = "analyze", Sound(m)
  PROVE  LET first == IF m.source \in Paged THEN m.from ELSE 0
         IN  /\ first \in Nat /\ LastTaken(m) \in Nat
             /\ first <= LastTaken(m) /\ LastTaken(m) <= Records[m.source]
             /\ Stored(m.source, first)
<1> DEFINE n == Records[m.source]
<1>1. m.source \in Source /\ m.from \in Nat /\ m.from <= n /\ n \in Nat
  BY ArtifactAssumption DEF Sound, Proc
<1>2. m.budget # None => m.budget \in Nat /\ m.spent \in Nat /\ m.spent < m.budget
  BY DEF Sound, Proc
<1>3. PageSize(m) \in Nat /\ (m.budget # None => m.budget - m.spent \in Nat)
  BY <1>2, ArtifactAssumption DEF PageSize
<1>4. CASE m.source \in Paged
  <2>1. LastTaken(m) = Min2(n, m.from + PageSize(m))
    BY <1>4 DEF LastTaken
  <2>2. Stored(m.source, m.from)
    BY DEF Sound
  <2> QED
    BY <1>1, <1>3, <1>4, <2>1, <2>2 DEF Min2
<1>5. CASE m.source \notin Paged
  <2>1. LastTaken(m) = IF m.budget = None THEN n ELSE Min2(n, m.budget - m.spent)
    BY <1>5 DEF LastTaken
  <2>2. Stored(m.source, 0)
    BY DEF Stored
  <2> QED
    BY <1>1, <1>3, <1>5, <2>1, <2>2 DEF Min2
<1> QED
  BY <1>4, <1>5

LEMMA AnalyzeKeeps ==
  ASSUME IInv, Counted, NEW p \in Process, Analyze(p)
  PROVE  IInv'
<1> DEFINE m == proc[p]
           first == IF m.source \in Paged THEN m.from ELSE 0
           last == LastTaken(m)
<1>1. PICK whole \in {last = Records[m.source], FALSE} :
        Become(p, [m EXCEPT !.at = "save", !.saved = first, !.upto = last, !.whole = whole,
                            !.cov.flawed = @ \/ m.source \in Warned,
                            !.spent = IF m.budget = None THEN @ ELSE @ + last - first])
  BY DEF Analyze
<1>2. m \in Proc /\ Sound(m) /\ m.at = "analyze" /\ UNCHANGED tables
  BY DEF IInv, TypeOK, Analyze
<1>3. /\ first \in Nat /\ last \in Nat /\ first <= last /\ last <= Records[m.source]
      /\ Stored(m.source, first)
  BY <1>2, PageBounds
<1> DEFINE flawed == m.cov.flawed \/ m.source \in Warned
           spent == IF m.budget = None THEN m.spent ELSE m.spent + last - first
           c == [m EXCEPT !.at = "save", !.saved = first, !.upto = last, !.whole = whole,
                          !.cov.flawed = flawed, !.spent = spent]
<1>4. Become(p, c)
  BY <1>1
<1>5. flawed \in BOOLEAN /\ (whole \in BOOLEAN /\ (whole => last = Records[m.source]))
  OBVIOUS
<1>6. spent \in Nat
  <2>1. m.spent \in Nat
    BY <1>2 DEF Proc
  <2> HIDE DEF first, last, m
  <2> QED
    BY <1>3, <2>1
<1>7. c \in Proc
  <2> HIDE DEF m, first, last, flawed, spent
  <2> QED
    BY <1>2, <1>3, <1>5, <1>6 DEF Proc, Working, Coverage
<1>8. Sound(c)
  <2> HIDE DEF m, first, last, flawed, spent
  <2>1. /\ c.at = "save" /\ c.job = m.job /\ c.source = m.source /\ c.saved = first
        /\ c.upto = last /\ c.whole = whole
    BY <1>2 DEF Proc
  <2> HIDE DEF c
  <2> QED
    BY <1>2, <1>3, <1>5, <2>1 DEF Sound
<1>9. job' \in [Job -> JobStatus] /\ coverage' \in [Job -> Coverage]
      /\ UNCHANGED <<sources, artifacts>>
  BY <1>2 DEF IInv, TypeOK, tables
<1> HIDE DEF c
<1> QED
  BY <1>4, <1>7, <1>8, <1>9, QuietStep

LEMMA SaveBatchKeeps ==
  ASSUME IInv, Counted, NEW p \in Process, SaveBatch(p)
  PROVE  IInv'
<1>1. PICK m \in Proc : m = proc[p]
  BY DEF IInv, TypeOK
<1>2. Sound(m) /\ m.at = "save" /\ m.saved < m.upto /\ UNCHANGED <<job, coverage, sources>>
  BY <1>1 DEF IInv, SaveBatch
<1>3. PICK last \in Nat : last = Min2(m.upto, m.saved + Batch)
  BY ArtifactAssumption DEF Proc, Min2
<1>4. m.saved \in Nat /\ m.saved <= last
  BY <1>2, <1>3, ArtifactAssumption DEF Proc, Min2
<1>5. PICK s \in Source : s = m.source
  BY <1>2 DEF Sound
<1>6. PICK c \in Proc : c = [m EXCEPT !.saved = last]
  BY DEF Proc
<1>7. /\ Become(p, c)
      /\ artifacts' = [artifacts EXCEPT ![s] = @ \cup (m.saved + 1)..last]
  BY <1>1, <1>3, <1>5, <1>6 DEF SaveBatch
<1>8. artifacts \in [Source -> SUBSET Nat]
  BY DEF IInv, TypeOK
<1>9. Grows
  BY <1>7, <1>8 DEF Grows
<1>10. artifacts' \in [Source -> SUBSET Nat]
  <2>1. (m.saved + 1)..last \subseteq Nat
    BY <1>4
  <2> QED
    BY <1>7, <1>8, <2>1
<1>11. Stored(s, last)'
  <2>1. 1..m.saved \subseteq artifacts[s]
    BY <1>2, <1>5 DEF Sound, Stored
  <2>2. artifacts'[s] = artifacts[s] \cup (m.saved + 1)..last
    BY <1>7, <1>8
  <2>3. 1..last \subseteq 1..m.saved \cup (m.saved + 1)..last
    BY <1>4
  <2> QED
    BY <2>1, <2>2, <2>3 DEF Stored
<1>12. Sound(c)'
  <2>1. /\ c.at = "save" /\ c.job = m.job /\ c.source = s /\ c.saved = last
        /\ c.upto = m.upto /\ c.whole = m.whole
    BY <1>2, <1>5, <1>6 DEF Proc
  <2>2. m.job \in Job /\ m.upto <= Records[s] /\ (m.whole => m.upto = Records[s])
    BY <1>2, <1>5 DEF Sound
  <2> QED
    BY <1>11, <2>1, <2>2 DEF Sound, Stored
<1>13. ASSUME NEW t \in Source PROVE Backed(t)'
  <2>1. Backed(t) /\ artifacts[t] \subseteq artifacts'[t] /\ sources' = sources
    BY <1>2, <1>9 DEF IInv, Grows
  <2> QED
    BY <2>1 DEF Backed, Stored
<1>14. job' \in [Job -> JobStatus] /\ coverage' \in [Job -> Coverage] /\ sources' \in [Source -> Row]
  BY <1>2 DEF IInv, TypeOK
<1> QED
  BY <1>7, <1>9, <1>10, <1>12, <1>13, <1>14, OneStep

(* A process that has done with its source remembers nothing that must be stored. *)
LEMMA DoneSound ==
  ASSUME NEW m \in Proc, Sound(m), m.at # "idle"
  PROVE  Done(m) \in Proc /\ Sound(Done(m)) /\ Done(m).at = "sync" /\ Done(m).job = m.job
         /\ Done(m).cov = m.cov
BY DEF Done, Proc, Working, Sound

LEMMA MarkSourceKeeps ==
  ASSUME IInv, Counted, NEW p \in Process, MarkSource(p)
  PROVE  IInv'
<1> DEFINE m == proc[p]
           end == IF m.source \in Broken THEN "FAILED" ELSE "SUCCEEDED"
           status == IF m.whole THEN end ELSE "QUEUED"
<1>1. /\ m \in Proc /\ Sound(m) /\ m.at = "save" /\ m.saved >= m.upto
      /\ UNCHANGED <<job, coverage, artifacts>> /\ Become(p, Done(m))
      /\ sources \in [Source -> Row]
  BY DEF IInv, TypeOK, MarkSource
<1>2. PICK s \in Source : s = m.source
  BY <1>1 DEF Sound
<1>3. sources' = [sources EXCEPT ![s].status = status, ![s].checkpoint = Checkpoint(m)]
  BY <1>2 DEF MarkSource
<1>4. Stored(s, m.upto) /\ m.upto \in Nat /\ m.upto <= Records[s] /\ (m.whole => m.upto = Records[s])
  <2>1. Stored(s, m.saved) /\ m.upto \in Nat /\ m.saved \in Nat
        /\ m.upto <= Records[s] /\ (m.whole => m.upto = Records[s])
    BY <1>1, <1>2 DEF Sound, Proc
  <2>2. 1..m.upto \subseteq 1..m.saved
    BY <1>1, <2>1
  <2> QED
    BY <2>1, <2>2 DEF Stored
<1>5. Checkpoint(m) \in {0, m.upto} /\ status \in {"QUEUED", "SUCCEEDED", "FAILED"}
      /\ (status = "SUCCEEDED" => m.whole)
  BY DEF Checkpoint
<1>6. Checkpoint(m) \in Nat /\ Checkpoint(m) <= Records[s] /\ Stored(s, Checkpoint(m))
      /\ (status = "SUCCEEDED" => Stored(s, Records[s]))
  <2>1. Stored(s, 0) /\ 0 <= Records[s]
    BY ArtifactAssumption DEF Stored
  <2> HIDE DEF status, m
  <2> QED
    BY <1>4, <1>5, <2>1
<1>7. /\ sources'[s] = [sources[s] EXCEPT !.status = status, !.checkpoint = Checkpoint(m)]
      /\ \A t \in Source : t # s => sources'[t] = sources[t]
      /\ DOMAIN sources' = Source
  BY <1>1, <1>3
<1>8. sources[s] \in Row
  BY <1>1
<1> HIDE DEF m, status
<1>9. sources'[s] \in Row
  BY <1>5, <1>6, <1>7, <1>8 DEF Row
<1>10. sources' \in [Source -> Row]
  <2>1. sources' = [sources EXCEPT ![s] = [sources[s] EXCEPT !.status = status, !.checkpoint = Checkpoint(m)]]
    BY <1>1, <1>3
  <2> QED
    BY <1>1, <1>7, <1>9, <2>1
<1>11. Backed(s)'
  <2>1. sources'[s].status = status /\ sources'[s].checkpoint = Checkpoint(m)
    BY <1>7, <1>8 DEF Row
  <2> QED
    BY <1>1, <1>5, <1>6, <2>1 DEF Backed, Stored
<1>12. \A t \in Source : sources'[t] = sources[t] \/ Backed(t)'
  BY <1>7, <1>11
<1> QED
  BY <1>1, <1>10, <1>12, DoneSound, RowStep

LEMMA FailSourceKeeps ==
  ASSUME IInv, Counted, NEW p \in Process, FailSource(p)
  PROVE  IInv'
<1> DEFINE m == proc[p]
           d == Done(m)
           c == [d EXCEPT !.cov.flawed = TRUE]
<1>1. /\ m \in Proc /\ Sound(m) /\ m.at = "analyze"
      /\ UNCHANGED <<job, coverage, artifacts>> /\ Become(p, c)
      /\ sources \in [Source -> Row]
  BY DEF IInv, TypeOK, FailSource
<1>2. PICK s \in Source : s = m.source
  BY <1>1 DEF Sound
<1>3. sources' = [sources EXCEPT ![s].status = "FAILED"]
  BY <1>2 DEF FailSource
<1>4. c \in Proc /\ Sound(c)
  <2>1. d \in Proc /\ Sound(d) /\ d.at = "sync"
    BY <1>1, DoneSound
  <2> HIDE DEF d
  <2> QED
    BY <2>1 DEF Proc, Coverage, Sound
<1>5. sources' \in [Source -> Row]
  BY <1>1, <1>3 DEF Row
<1>6. Backed(s)'
  <2>1. Backed(s) /\ sources'[s] = [sources[s] EXCEPT !.status = "FAILED"] /\ sources[s] \in Row
    BY <1>1, <1>3 DEF IInv
  <2> QED
    BY <1>1, <2>1 DEF Backed, Stored, Row
<1>7. \A t \in Source : sources'[t] = sources[t] \/ Backed(t)'
  BY <1>1, <1>3, <1>6
<1> HIDE DEF c, m
<1> QED
  BY <1>1, <1>4, <1>5, <1>7, RowStep

-----------------------------------------------------------------------------
(* _finish, cancel_artifact_job, pause_artifact_job, and a process that dies *)

LEMMA FinishCoverageKeeps ==
  ASSUME IInv, Counted, NEW p \in Process, FinishCoverage(p)
  PROVE  IInv'
<1> DEFINE c == [proc[p] EXCEPT !.at = "finishing"]
<1>1. Become(p, c)
  BY GoToBecomes DEF FinishCoverage, IInv
<1>2. proc[p] \in Proc /\ Sound(proc[p]) /\ proc[p].at = "finish"
  BY DEF IInv, TypeOK, FinishCoverage
<1>3. c \in Proc /\ Sound(c)
  BY <1>2 DEF Proc, Working, Sound
<1>4. job' \in [Job -> JobStatus] /\ coverage' \in [Job -> Coverage]
      /\ UNCHANGED <<sources, artifacts>>
  BY <1>2 DEF IInv, TypeOK, FinishCoverage, Proc
<1> HIDE DEF c
<1> QED
  BY <1>1, <1>3, <1>4, QuietStep

LEMMA FinishJobKeeps ==
  ASSUME IInv, Counted, NEW p \in Process, FinishJob(p)
  PROVE  IInv'
<1>1. proc[p] \in Proc
  BY DEF IInv, TypeOK
<1>2. job' \in [Job -> JobStatus] /\ coverage' \in [Job -> Coverage]
      /\ UNCHANGED <<sources, artifacts>> /\ Become(p, Idle)
  BY <1>1 DEF IInv, TypeOK, FinishJob, Proc, Return
<1> QED
  BY <1>2, IdleSound, QuietStep

LEMMA CheckStopKeeps ==
  ASSUME IInv, Counted, NEW p \in Process, CheckStop(p)
  PROVE  IInv'
<1>1. PICK j \in Job, status \in {"CANCELLED", "PAUSED"} :
        /\ Become(p, [Idle EXCEPT !.at = "stop", !.job = j, !.status = status])
        /\ UNCHANGED tables
  BY DEF CheckStop
<1> DEFINE c == [Idle EXCEPT !.at = "stop", !.job = j, !.status = status]
<1>2. c \in Proc /\ Sound(c)
  BY DEF Idle, Proc, Working, Coverage, JobStatus, Sound
<1>3. Become(p, c) /\ job' \in [Job -> JobStatus] /\ coverage' \in [Job -> Coverage]
      /\ UNCHANGED <<sources, artifacts>>
  BY <1>1 DEF IInv, TypeOK, tables
<1> HIDE DEF c
<1> QED
  BY <1>2, <1>3, QuietStep

LEMMA CommitStopKeeps ==
  ASSUME IInv, Counted, NEW p \in Process, CommitStop(p)
  PROVE  IInv'
<1> DEFINE m == proc[p]
           v == [coverage[m.job] EXCEPT !.status = IF m.status = "PAUSED" THEN "PARTIAL" ELSE "CANCELLED"]
           c == [m EXCEPT !.at = "restate", !.cov = v]
<1>1. m \in Proc /\ Sound(m) /\ m.at = "stop"
  BY DEF IInv, TypeOK, CommitStop
<1>2. coverage[m.job] \in Coverage
  BY <1>1 DEF IInv, TypeOK, Sound
<1>3. v \in Coverage
  BY <1>2 DEF Coverage
<1>4. c \in Proc /\ Sound(c)
  <2> HIDE DEF v, m
  <2> QED
    BY <1>1, <1>3 DEF Proc, Sound
<1>5. job' \in [Job -> JobStatus] /\ coverage' \in [Job -> Coverage]
      /\ UNCHANGED <<sources, artifacts>>
  BY <1>1 DEF IInv, TypeOK, CommitStop, Proc
<1>6. Become(p, Idle) \/ Become(p, c)
  BY DEF CommitStop, Return
<1> HIDE DEF c
<1> QED
  BY <1>4, <1>5, <1>6, IdleSound, QuietStep

LEMMA RestateCoverageKeeps ==
  ASSUME IInv, Counted, NEW p \in Process, RestateCoverage(p)
  PROVE  IInv'
<1>1. proc[p] \in Proc
  BY DEF IInv, TypeOK
<1>2. job' \in [Job -> JobStatus] /\ coverage' \in [Job -> Coverage]
      /\ UNCHANGED <<sources, artifacts>> /\ Become(p, Idle)
  BY <1>1 DEF IInv, TypeOK, RestateCoverage, Proc, Return
<1> QED
  BY <1>2, IdleSound, QuietStep

LEMMA DieKeeps ==
  ASSUME IInv, Counted, NEW p \in Process, Die(p)
  PROVE  IInv'
<1>1. job' \in [Job -> JobStatus] /\ coverage' \in [Job -> Coverage]
      /\ UNCHANGED <<sources, artifacts>> /\ Become(p, Idle)
  BY DEF IInv, TypeOK, Die, Return, tables
<1> QED
  BY <1>1, IdleSound, QuietStep

-----------------------------------------------------------------------------

LEMMA NextKeeps == IInv /\ [Next]_vars => IInv'
<1> SUFFICES ASSUME IInv, [Next]_vars PROVE IInv'
  OBVIOUS
<1>1. CASE UNCHANGED vars
  BY <1>1 DEF vars, tables, IInv, TypeOK, Backed, Sound, Stored
<1>2. CASE Next
  <2>1. PICK p \in Process : Call(p) \/ Go(p)
    BY <1>2 DEF Next
  <2>2. calls \in 0..MaxCalls /\ overlapped \in BOOLEAN
    BY DEF IInv, TypeOK
  <2>3. overlapped' \in BOOLEAN
    BY <1>2, <2>2 DEF Next
  <2>4. calls' \in 0..MaxCalls
    BY <2>1, <2>2, ArtifactAssumption DEF Call, Go
  <2>5. Counted
    <3>1. discoveries' \subseteq Job
      BY <2>1 DEF Call, Go, CreateDiscovery, IInv, TypeOK
    <3> QED
      BY <2>3, <2>4, <3>1 DEF Counted
  <2>6. CASE Call(p)
    BY <2>5, <2>6, CreateJobKeeps, CreateDiscoveryKeeps, CheckResumeKeeps, CheckStopKeeps DEF Call
  <2>7. CASE Go(p)
    BY <2>5, <2>7, DiscoverKeeps, QueueSourcesKeeps, SaveCoverageKeeps, CoverDiscoveryKeeps,
       ReadCoverageKeeps,
       ResetSourcesKeeps, ResumeJobKeeps, BeginRunKeeps, StopRunKeeps, FinishSourcesKeeps,
       PickSourceKeeps, ClaimSourceKeeps, SyncRunKeeps, AnalyzeKeeps, SaveBatchKeeps, MarkSourceKeeps,
       FailSourceKeeps, FinishCoverageKeeps, FinishJobKeeps, CommitStopKeeps, RestateCoverageKeeps,
       DieKeeps DEF Go, Work
  <2> QED
    BY <2>1, <2>6, <2>7
<1> QED
  BY <1>1, <1>2

LEMMA InitKeeps == Init => IInv
<1> SUFFICES ASSUME Init PROVE IInv
  OBVIOUS
<1>1. Idle.cov \in Coverage /\ NoRow \in Row
  BY DEF Idle, Coverage, NoRow, Row
<1>2. TypeOK
  <2>1. job \in [Job -> JobStatus]
    BY DEF Init, JobStatus
  <2>2. coverage \in [Job -> Coverage] /\ sources \in [Source -> Row]
    BY <1>1 DEF Init
  <2>3. artifacts \in [Source -> SUBSET Nat]
    BY DEF Init
  <2>4. proc \in [Process -> Proc]
    BY IdleSound DEF Init
  <2>5. calls \in 0..MaxCalls /\ overlapped \in BOOLEAN /\ discoveries \subseteq Job
    <3>1. MaxCalls \in Nat
      BY ArtifactAssumption
    <3>2. calls = 0
      BY DEF Init
    <3>3. overlapped \in BOOLEAN /\ discoveries \subseteq Job
      BY DEF Init
    <3> QED
      BY <3>1, <3>2, <3>3
  <2> QED
    BY <2>1, <2>2, <2>3, <2>4, <2>5 DEF TypeOK
<1>3. \A s \in Source : Backed(s)
  BY ArtifactAssumption DEF Init, Backed, Stored, NoRow
<1>4. \A p \in Process : Sound(proc[p])
  BY IdleSound DEF Init
<1> QED
  BY <1>2, <1>3, <1>4 DEF IInv

THEOREM Invariance == Spec => []IInv
<1> QED
  BY InitKeeps, NextKeeps, PTL DEF Spec

(* Rows, records and what processes remember keep their types: a page ends   *)
(* in its source (_analyze_source) and a checkpoint is one of its records.    *)
THEOREM TypeCorrect == Spec => []TypeOK
<1>1. IInv => TypeOK
  BY DEF IInv
<1> QED
  BY <1>1, Invariance, PTL

(* What a row of artifact_sources says of its source is stored, for any      *)
(* number of processes that overlap, take sources from each other and die:   *)
(* _analyze_source stores the records before it marks the row.               *)
THEOREM RowsTheorem == Spec => []RowsAreBacked
<1>1. IInv => RowsAreBacked
  BY DEF IInv, Backed, RowsAreBacked
<1> QED
  BY <1>1, Invariance, PTL

-----------------------------------------------------------------------------
(* Processes that never overlapped *)

Finished(j) == \A s \in Source : sources[s].job = j => sources[s].status \in {"SUCCEEDED", "FAILED"}

(* Of a discovery, COMPLETE says nothing. *)
Covered(j) == j \in discoveries \/ Finished(j)

NothingOf(j) == \A s \in Source : sources[s].job # j

(* No source of the job is taken, but for the one in o. *)
NoneTaken(j, o) == \A s \in Source \ o : sources[s].job = j => sources[s].status # "PROCESSING"

(* COMPLETE is not said too early, of a job that is there or of one to come. *)
Kept(j) ==
  /\ coverage[j].status = "COMPLETE" => Covered(j)
  /\ job[j] = "NONE" => coverage[j].status # "COMPLETE" /\ NothingOf(j)

(* The copy of the coverage is as good as the row, and the sources of the    *)
(* job are as the steps of the process have left them.                       *)
Orderly(m) ==
  /\ m.at # "idle" => job[m.job] # "NONE"
  /\ m.at \in {"discover", "queue"} => NothingOf(m.job)
  /\ m.at \in {"discover", "queue", "cover"} => coverage[m.job].status # "COMPLETE"
  /\ m.at \in {"queue", "cover"} /\ m.job \notin discoveries => m.cov.status = "NOT_STARTED"
  /\ m.at = "restate" => m.cov.status # "COMPLETE"
  /\ m.at \in {"informed", "reset", "begin", "loop", "claim", "analyze", "save", "sync", "finish"} =>
       (m.cov.status = "COMPLETE" => Covered(m.job))
  /\ m.at \in {"cover", "reset", "begin", "loop", "claim", "sync"} => NoneTaken(m.job, {})
  /\ m.at = "claim" => sources[m.source].job = m.job /\ sources[m.source].status = "QUEUED"
  /\ m.at \in {"analyze", "save"} =>
       /\ sources[m.source].job = m.job /\ sources[m.source].status = "PROCESSING"
       /\ NoneTaken(m.job, {m.source})

(* The inductive invariant behind CompleteMeansFinished. *)
Honest == \A j \in Job : Kept(j)

AloneInv ==
  ~overlapped =>
    /\ \A p, q \in Process : proc[p] # Idle /\ proc[q] # Idle => p = q
    /\ Honest
    /\ \A p \in Process : Orderly(proc[p])

-----------------------------------------------------------------------------

LEMMA QuietHonest ==
  ASSUME Honest, UNCHANGED <<coverage, sources>>, discoveries \subseteq discoveries',
         \A j \in Job : job'[j] = "NONE" => job[j] = "NONE"
  PROVE  Honest'
BY DEF Honest, Kept, Covered, Finished, NothingOf

(* The coverage row of a job becomes v. *)
LEMMA CoverageHonest ==
  ASSUME TypeOK, Honest, NEW j \in Job, NEW v, coverage' = [coverage EXCEPT ![j] = v],
         UNCHANGED <<sources, discoveries>>, \A i \in Job : job'[i] = "NONE" => job[i] = "NONE",
         job'[j] # "NONE", v.status = "COMPLETE" => Covered(j)
  PROVE  Honest'
<1> SUFFICES ASSUME NEW i \in Job PROVE Kept(i)'
  BY DEF Honest
<1>1. Kept(i)
  BY DEF Honest
<1>2. CASE i = j
  <2>1. coverage'[i] = v
    BY <1>2 DEF TypeOK
  <2> QED
    BY <1>2, <2>1 DEF Kept, Covered, Finished
<1>3. CASE i # j
  <2>1. coverage'[i] = coverage[i]
    BY <1>3 DEF TypeOK
  <2> QED
    BY <1>1, <2>1 DEF Kept, Covered, Finished, NothingOf
<1> QED
  BY <1>2, <1>3

(* A row that is not finished changes, and stays with its job. *)
LEMMA RowHonest ==
  ASSUME Honest, NEW s \in Source, sources[s].job \in Job,
         sources[s].status \notin {"SUCCEEDED", "FAILED"}, sources'[s].job = sources[s].job,
         \A t \in Source \ {s} : sources'[t] = sources[t], UNCHANGED <<job, coverage, discoveries>>
  PROVE  Honest'
<1> SUFFICES ASSUME NEW i \in Job PROVE Kept(i)'
  BY DEF Honest
<1>1. Kept(i)
  BY DEF Honest
<1>2. CASE i = sources[s].job
  <2>1. ~Finished(i) /\ ~NothingOf(i)
    BY <1>2 DEF Finished, NothingOf
  <2>2. (coverage[i].status = "COMPLETE" => i \in discoveries) /\ job[i] # "NONE"
    BY <1>1, <2>1 DEF Kept, Covered
  <2> QED
    BY <2>2 DEF Kept, Covered
<1>3. CASE i # sources[s].job
  <2>1. \A t \in Source : sources'[t].job = i => sources'[t] = sources[t] /\ sources[t].job = i
    BY <1>3
  <2>2. Covered(i) => Covered(i)'
    BY <2>1 DEF Covered, Finished
  <2>3. NothingOf(i) => NothingOf(i)'
    BY <2>1 DEF NothingOf
  <2> QED
    BY <1>1, <2>2, <2>3 DEF Kept
<1> QED
  BY <1>2, <1>3

(* A process whose tables stay as they are. *)
LEMMA Becomes ==
  ASSUME TypeOK, NEW p \in Process, NEW c, Become(p, c)
  PROVE  proc'[p] = c /\ \A q \in Process \ {p} : proc'[q] = proc[q]
BY DEF TypeOK, Become

LEMMA IdleOrderly ==
  ASSUME NEW p \in Process, proc'[p] = Idle
  PROVE  Orderly(proc[p])'
BY DEF Orderly, Idle

-----------------------------------------------------------------------------
(* analyze_evidence *)

LEMMA CreateJobOrderly ==
  ASSUME IInv, Honest, UNCHANGED discoveries, NEW p \in Process, CreateJob(p)
  PROVE  Honest' /\ Orderly(proc[p])'
<1>1. PICK j \in Job :
        /\ job[j] = "NONE" /\ job' = [job EXCEPT ![j] = "QUEUED"]
        /\ Become(p, [Idle EXCEPT !.at = "discover", !.job = j, !.budget = ItemBudget])
        /\ UNCHANGED <<coverage, sources, artifacts>>
  BY DEF CreateJob
<1>2. job'[j] = "QUEUED" /\ \A i \in Job \ {j} : job'[i] = job[i]
  BY <1>1 DEF IInv, TypeOK
<1>3. Honest'
  BY <1>1, <1>2, QuietHonest
<1>4. proc'[p].at = "discover" /\ proc'[p].job = j
  <2> DEFINE c == [Idle EXCEPT !.at = "discover", !.job = j, !.budget = ItemBudget]
  <2>1. c.at = "discover" /\ c.job = j
    BY DEF Idle
  <2>2. Become(p, c)
    BY <1>1
  <2> HIDE DEF c
  <2> QED
    BY <2>1, <2>2, Becomes DEF IInv
<1>5. coverage[j].status # "COMPLETE" /\ NothingOf(j)
  BY <1>1 DEF Honest, Kept
<1> QED
  BY <1>1, <1>2, <1>3, <1>4, <1>5 DEF Orderly, NothingOf

LEMMA CreateDiscoveryOrderly ==
  ASSUME IInv, Honest, NEW p \in Process, CreateDiscovery(p)
  PROVE  Honest' /\ Orderly(proc[p])'
<1>1. PICK j \in Job :
        /\ job[j] = "NONE" /\ job' = [job EXCEPT ![j] = "RUNNING"]
        /\ discoveries' = discoveries \cup {j}
        /\ Become(p, [Idle EXCEPT !.at = "discover", !.job = j])
        /\ UNCHANGED <<coverage, sources, artifacts>>
  BY DEF CreateDiscovery
<1>2. job'[j] = "RUNNING" /\ \A i \in Job \ {j} : job'[i] = job[i]
  BY <1>1 DEF IInv, TypeOK
<1>3. Honest'
  BY <1>1, <1>2, QuietHonest
<1>4. proc'[p].at = "discover" /\ proc'[p].job = j
  <2> DEFINE c == [Idle EXCEPT !.at = "discover", !.job = j]
  <2>1. c.at = "discover" /\ c.job = j
    BY DEF Idle
  <2>2. Become(p, c)
    BY <1>1
  <2> HIDE DEF c
  <2> QED
    BY <2>1, <2>2, Becomes DEF IInv
<1>5. coverage[j].status # "COMPLETE" /\ NothingOf(j)
  BY <1>1 DEF Honest, Kept
<1> QED
  BY <1>1, <1>2, <1>3, <1>4, <1>5 DEF Orderly, NothingOf

LEMMA DiscoverOrderly ==
  ASSUME IInv, Honest, UNCHANGED discoveries, NEW p \in Process, Orderly(proc[p]), Discover(p)
  PROVE  Honest' /\ Orderly(proc[p])'
<1> DEFINE completed == {s \in Source : sources[s].status = "SUCCEEDED"}
           v == [status |-> FirstStatus(proc[p].job), flawed |-> ~Indexed \/ completed # {}]
           c == [proc[p] EXCEPT !.at = "queue", !.fresh = Source \ completed, !.cov = v]
<1>1. Become(p, c) /\ proc[p].at = "discover" /\ UNCHANGED tables
  BY DEF Discover
<1>2. Honest'
  BY <1>1, QuietHonest DEF tables
<1>3. proc'[p] = c /\ proc[p] \in Proc
  BY <1>1, Becomes DEF IInv, TypeOK
<1>4. proc[p].job \notin discoveries => v.status = "NOT_STARTED"
  BY DEF FirstStatus
<1>5. proc'[p].at = "queue" /\ proc'[p].job = proc[p].job /\ proc'[p].cov = v
  <2> HIDE DEF v, completed
  <2> QED
    BY <1>3 DEF Proc
<1> HIDE DEF v
<1> QED
  BY <1>1, <1>2, <1>4, <1>5 DEF Orderly, NothingOf, tables

LEMMA QueueSourcesOrderly ==
  ASSUME IInv, Honest, UNCHANGED discoveries, NEW p \in Process, Orderly(proc[p]), QueueSources(p)
  PROVE  Honest' /\ Orderly(proc[p])'
<1> DEFINE j == proc[p].job
           r == [job |-> j, status |-> "QUEUED", checkpoint |-> 0]
<1>1. /\ Become(p, [proc[p] EXCEPT !.at = "cover", !.fresh = {}]) /\ proc[p].at = "queue"
      /\ UNCHANGED <<job, coverage, artifacts>>
      /\ sources' = [s \in Source |-> IF s \in proc[p].fresh THEN r ELSE sources[s]]
  BY DEF QueueSources
<1>2. /\ proc[p] \in Proc /\ j \in Job /\ job[j] # "NONE" /\ NothingOf(j)
      /\ coverage[j].status # "COMPLETE"
      /\ (j \notin discoveries => proc[p].cov.status = "NOT_STARTED")
  BY <1>1 DEF IInv, TypeOK, Sound, Orderly
<1>3. proc'[p].at = "cover" /\ proc'[p].job = j /\ proc'[p].cov = proc[p].cov
  <2> DEFINE c == [proc[p] EXCEPT !.at = "cover", !.fresh = {}]
  <2>1. c.at = "cover" /\ c.job = j /\ c.cov = proc[p].cov
    BY <1>2 DEF Proc
  <2>2. Become(p, c)
    BY <1>1
  <2> HIDE DEF c, j
  <2> QED
    BY <2>1, <2>2, Becomes DEF IInv
<1>4. \A s \in Source : sources'[s] = r \/ sources'[s] = sources[s]
  BY <1>1
<1>5. r.job = j /\ r.status = "QUEUED"
  OBVIOUS
<1> HIDE DEF r, j
<1>6. ASSUME NEW i \in Job PROVE Kept(i)'
  <2>1. Kept(i)
    BY DEF Honest
  <2>2. CASE i = j
    BY <1>1, <1>2, <2>2 DEF Kept
  <2>3. CASE i # j
    BY <1>1, <1>4, <1>5, <2>1, <2>3 DEF Kept, Covered, Finished, NothingOf
  <2> QED
    BY <2>2, <2>3
<1>7. NoneTaken(proc[p].job, {})'
  <2>1. \A s \in Source : sources'[s].job = proc'[p].job => sources'[s].status # "PROCESSING"
    BY <1>2, <1>3, <1>4, <1>5 DEF NothingOf
  <2> QED
    BY <2>1 DEF NoneTaken
<1> QED
  BY <1>1, <1>2, <1>3, <1>6, <1>7 DEF Honest, Orderly, j

(* A process goes on to at, and forgets nothing. *)
LEMMA GoToAfter ==
  ASSUME IInv, NEW p \in Process, NEW at, GoTo(p, at)
  PROVE  /\ proc'[p].at = at /\ proc'[p].job = proc[p].job /\ proc'[p].cov = proc[p].cov
         /\ proc'[p].source = proc[p].source
<1> DEFINE c == [proc[p] EXCEPT !.at = at]
<1>1. Become(p, c)
  BY GoToBecomes DEF IInv
<1>2. c.at = at /\ c.job = proc[p].job /\ c.cov = proc[p].cov /\ c.source = proc[p].source
  BY DEF IInv, TypeOK, Proc
<1> HIDE DEF c
<1> QED
  BY <1>1, <1>2, Becomes DEF IInv

LEMMA SaveCoverageOrderly ==
  ASSUME IInv, Honest, UNCHANGED discoveries, NEW p \in Process, Orderly(proc[p]), SaveCoverage(p)
  PROVE  Honest' /\ Orderly(proc[p])'
<1> DEFINE j == proc[p].job
<1>1. /\ coverage' = [coverage EXCEPT ![j] = proc[p].cov] /\ proc[p].at = "cover"
      /\ j \notin discoveries /\ UNCHANGED <<job, sources, artifacts>> /\ GoTo(p, "begin")
  BY DEF SaveCoverage
<1>2. j \in Job /\ job[j] # "NONE" /\ proc[p].cov.status = "NOT_STARTED" /\ NoneTaken(j, {})
  BY <1>1 DEF IInv, Sound, Orderly
<1>3. proc'[p].at = "begin" /\ proc'[p].job = j /\ proc'[p].cov = proc[p].cov
  BY <1>1, GoToAfter
<1> HIDE DEF j
<1>4. Honest'
  BY <1>1, <1>2, CoverageHonest DEF IInv
<1> QED
  BY <1>1, <1>2, <1>3, <1>4 DEF Orderly, NoneTaken

LEMMA CoverDiscoveryOrderly ==
  ASSUME IInv, Honest, UNCHANGED discoveries, NEW p \in Process, Orderly(proc[p]), CoverDiscovery(p)
  PROVE  Honest' /\ Orderly(proc[p])'
<1> DEFINE j == proc[p].job
           c == [proc[p] EXCEPT !.at = "finishing", !.status = IF Indexed THEN "SUCCEEDED" ELSE "PARTIAL"]
<1>1. /\ coverage' = [coverage EXCEPT ![j] = proc[p].cov] /\ proc[p].at = "cover"
      /\ j \in discoveries /\ UNCHANGED <<job, sources, artifacts>> /\ Become(p, c)
  BY DEF CoverDiscovery
<1>2. j \in Job /\ job[j] # "NONE" /\ proc[p] \in Proc
  BY <1>1 DEF IInv, TypeOK, Sound, Orderly
<1>3. c.at = "finishing" /\ c.job = j
  BY <1>2 DEF Proc
<1> HIDE DEF c, j
<1>4. proc'[p].at = "finishing" /\ proc'[p].job = j
  BY <1>1, <1>3, Becomes DEF IInv
<1>5. Honest'
  BY <1>1, <1>2, CoverageHonest DEF IInv, Covered
<1> QED
  BY <1>1, <1>2, <1>4, <1>5 DEF Orderly

-----------------------------------------------------------------------------
(* resume_artifact_job *)

LEMMA CheckResumeOrderly ==
  ASSUME IInv, Honest, UNCHANGED discoveries, NEW p \in Process, CheckResume(p)
  PROVE  Honest' /\ Orderly(proc[p])'
<1>1. PICK j \in Job, b \in ResumeBudget :
        /\ job[j] \notin {"NONE", "SUCCEEDED"}
        /\ Become(p, [Idle EXCEPT !.at = "admitted", !.job = j, !.budget = b])
        /\ UNCHANGED tables
  BY DEF CheckResume
<1> DEFINE c == [Idle EXCEPT !.at = "admitted", !.job = j, !.budget = b]
<1>2. Become(p, c) /\ c.at = "admitted" /\ c.job = j
  BY <1>1 DEF Idle
<1> HIDE DEF c
<1>3. proc'[p].at = "admitted" /\ proc'[p].job = j
  BY <1>2, Becomes DEF IInv
<1>4. Honest'
  BY <1>1, QuietHonest DEF tables
<1> QED
  BY <1>1, <1>3, <1>4 DEF Orderly, tables

LEMMA ReadCoverageOrderly ==
  ASSUME IInv, Honest, UNCHANGED discoveries, NEW p \in Process, Orderly(proc[p]), ReadCoverage(p)
  PROVE  Honest' /\ Orderly(proc[p])'
<1> DEFINE j == proc[p].job
           c == [proc[p] EXCEPT !.at = "informed", !.cov = coverage[j]]
<1>1. proc[p].at = "admitted" /\ UNCHANGED tables /\ (Become(p, Idle) \/ Become(p, c))
  BY DEF ReadCoverage, Return
<1>2. j \in Job /\ job[j] # "NONE" /\ proc[p] \in Proc
  BY <1>1 DEF IInv, TypeOK, Sound, Orderly
<1>3. Honest'
  BY <1>1, QuietHonest DEF tables
<1>4. CASE Become(p, Idle)
  BY <1>3, <1>4, Becomes, IdleOrderly DEF IInv
<1>5. CASE Become(p, c)
  <2>1. c.at = "informed" /\ c.job = j /\ c.cov = coverage[j]
    BY <1>2 DEF Proc
  <2> HIDE DEF c, j
  <2>2. proc'[p].at = "informed" /\ proc'[p].job = j /\ proc'[p].cov = coverage[j]
    BY <1>5, <2>1, Becomes DEF IInv
  <2>3. coverage[j].status = "COMPLETE" => Covered(j)
    BY <1>2 DEF Honest, Kept
  <2> QED
    BY <1>1, <1>2, <1>3, <2>2, <2>3 DEF Orderly, Covered, Finished, tables
<1> QED
  BY <1>1, <1>4, <1>5

LEMMA ResetSourcesOrderly ==
  ASSUME IInv, Honest, UNCHANGED discoveries, NEW p \in Process, Orderly(proc[p]), ResetSources(p)
  PROVE  Honest' /\ Orderly(proc[p])'
<1> DEFINE j == proc[p].job
<1>1. proc[p].at = "informed" /\ UNCHANGED <<job, coverage, artifacts>> /\ GoTo(p, "reset")
  BY DEF ResetSources
<1>2. /\ j \in Job /\ job[j] # "NONE" /\ (proc[p].cov.status = "COMPLETE" => Covered(j))
      /\ sources \in [Source -> Row]
  BY <1>1 DEF IInv, TypeOK, Sound, Orderly
<1>3. proc'[p].at = "reset" /\ proc'[p].job = j /\ proc'[p].cov = proc[p].cov
  BY <1>1, GoToAfter
<1>4. \A s \in Source : sources'[s] = Requeued(sources[s], j)
  BY DEF ResetSources
<1> HIDE DEF j
<1>5. ASSUME NEW s \in Source
      PROVE  /\ sources'[s].job = sources[s].job
             /\ sources'[s].job = j => sources'[s].status # "PROCESSING"
             /\ sources'[s] = sources[s] \/ (sources[s].job = j /\ sources[s].status = "PROCESSING")
  <2>1. sources[s] \in Row
    BY <1>2
  <2> QED
    BY <1>4, <2>1 DEF Requeued, Row
<1>6. \A i \in Job : (Covered(i) => Covered(i)') /\ (NothingOf(i) => NothingOf(i)')
  BY <1>5 DEF Covered, Finished, NothingOf
<1>7. Honest'
  BY <1>1, <1>6 DEF Honest, Kept
<1>8. NoneTaken(proc[p].job, {})'
  BY <1>3, <1>5 DEF NoneTaken
<1>9. proc'[p].cov.status = "COMPLETE" => Covered(proc[p].job)'
  <2>1. Covered(j) =>
          \/ j \in discoveries
          \/ \A s \in Source : sources'[s].job = j => sources'[s].status \in {"SUCCEEDED", "FAILED"}
    BY <1>5 DEF Covered, Finished
  <2> QED
    BY <1>2, <1>3, <2>1 DEF Covered, Finished
<1> QED
  BY <1>1, <1>2, <1>3, <1>7, <1>8, <1>9 DEF Orderly

LEMMA ResumeJobOrderly ==
  ASSUME IInv, Honest, UNCHANGED discoveries, NEW p \in Process, Orderly(proc[p]), ResumeJob(p)
  PROVE  Honest' /\ Orderly(proc[p])'
<1> DEFINE j == proc[p].job
<1>1. /\ proc[p].at = "reset" /\ UNCHANGED <<coverage, sources, artifacts>> /\ GoTo(p, "begin")
      /\ job' = [job EXCEPT ![j] = "RESUMING"]
  BY DEF ResumeJob
<1>2. /\ j \in Job /\ job[j] # "NONE" /\ (proc[p].cov.status = "COMPLETE" => Covered(j))
      /\ NoneTaken(j, {})
  BY <1>1 DEF IInv, Sound, Orderly
<1>3. proc'[p].at = "begin" /\ proc'[p].job = j /\ proc'[p].cov = proc[p].cov
  BY <1>1, GoToAfter
<1> HIDE DEF j
<1>4. job'[j] = "RESUMING" /\ \A i \in Job \ {j} : job'[i] = job[i]
  BY <1>1, <1>2 DEF IInv, TypeOK
<1>5. Honest'
  BY <1>1, <1>2, <1>4, QuietHonest
<1> QED
  BY <1>1, <1>2, <1>3, <1>4, <1>5 DEF Orderly, NoneTaken, Covered, Finished

-----------------------------------------------------------------------------
(* _run *)

(* BeginRun and SyncRun: the copy is as good as the row. *)
LEMMA SyncOrderly ==
  ASSUME IInv, Honest, UNCHANGED discoveries, NEW p \in Process, Orderly(proc[p]),
         BeginRun(p) \/ SyncRun(p)
  PROVE  Honest' /\ Orderly(proc[p])'
<1> DEFINE j == proc[p].job
<1>1. /\ proc[p].at \in {"begin", "sync"} /\ UNCHANGED <<sources, artifacts>> /\ GoTo(p, "loop")
      /\ job' = [job EXCEPT ![j] = "RUNNING"] /\ coverage' = [coverage EXCEPT ![j] = proc[p].cov]
  BY DEF BeginRun, SyncRun, Sync
<1>2. /\ j \in Job /\ job[j] # "NONE" /\ (proc[p].cov.status = "COMPLETE" => Covered(j))
      /\ NoneTaken(j, {})
  BY <1>1 DEF IInv, Sound, Orderly
<1>3. proc'[p].at = "loop" /\ proc'[p].job = j /\ proc'[p].cov = proc[p].cov
  BY <1>1, GoToAfter
<1> HIDE DEF j
<1>4. job'[j] = "RUNNING" /\ \A i \in Job \ {j} : job'[i] = job[i]
  BY <1>1, <1>2 DEF IInv, TypeOK
<1>5. Honest'
  BY <1>1, <1>2, <1>4, CoverageHonest DEF IInv
<1> QED
  BY <1>1, <1>2, <1>3, <1>4, <1>5 DEF Orderly, NoneTaken, Covered, Finished

LEMMA FinishOrderly ==
  ASSUME IInv, Honest, UNCHANGED discoveries, NEW p \in Process, Orderly(proc[p]),
         proc[p].at = "loop",
         NEW status, NEW covered, Finish(p, status, covered),
         covered = "COMPLETE" => Covered(proc[p].job)
  PROVE  Honest' /\ Orderly(proc[p])'
<1> DEFINE j == proc[p].job
           c == [proc[p] EXCEPT !.at = "finish", !.status = status, !.cov.status = covered,
                                !.budget = None, !.spent = 0]
<1>1. Become(p, c) /\ UNCHANGED tables
  BY DEF Finish
<1>2. j \in Job /\ job[j] # "NONE" /\ proc[p] \in Proc
  BY DEF IInv, TypeOK, Sound, Orderly
<1>3. c.at = "finish" /\ c.job = j /\ c.cov.status = covered
  BY <1>2 DEF Proc, Coverage
<1> HIDE DEF c, j
<1>4. proc'[p].at = "finish" /\ proc'[p].job = j /\ proc'[p].cov.status = covered
  BY <1>1, <1>3, Becomes DEF IInv
<1>5. Honest'
  BY <1>1, QuietHonest DEF tables
<1> QED
  BY <1>1, <1>2, <1>4, <1>5 DEF Orderly, Covered, Finished, tables, j

LEMMA StopRunOrderly ==
  ASSUME IInv, Honest, UNCHANGED discoveries, NEW p \in Process, Orderly(proc[p]), StopRun(p)
  PROVE  Honest' /\ Orderly(proc[p])'
<1>1. PICK status, covered \in {"CANCELLED", "PAUSED", "PARTIAL"} : Finish(p, status, covered)
  BY DEF StopRun
<1> QED
  BY <1>1, FinishOrderly DEF StopRun

(* No source is queued and none is taken: each one of the job is finished. *)
LEMMA FinishSourcesOrderly ==
  ASSUME IInv, Honest, UNCHANGED discoveries, NEW p \in Process, Orderly(proc[p]), FinishSources(p)
  PROVE  Honest' /\ Orderly(proc[p])'
<1> DEFINE j == proc[p].job
<1>1. /\ proc[p].at = "loop" /\ Queued(j) = {}
      /\ \E status, covered \in {"PARTIAL", "SUCCEEDED", "COMPLETE"} : Finish(p, status, covered)
  BY DEF FinishSources
<1>2. j \in Job /\ NoneTaken(j, {}) /\ None \notin Job
  BY <1>1, ArtifactAssumption DEF IInv, Sound, Orderly
<1>3. ASSUME NEW s \in Source, sources[s].job = j PROVE sources[s].status \in {"SUCCEEDED", "FAILED"}
  <2>1. sources[s] \in Row /\ sources[s].status # "NONE"
    BY <1>2, <1>3 DEF IInv, TypeOK, Backed
  <2>2. sources[s].status # "QUEUED"
    BY <1>1, <1>3 DEF Queued
  <2>3. sources[s].status # "PROCESSING"
    BY <1>2, <1>3 DEF NoneTaken
  <2> QED
    BY <2>1, <2>2, <2>3 DEF Row
<1>4. Covered(proc[p].job)
  BY <1>3 DEF Covered, Finished
<1> QED
  BY <1>1, <1>4, FinishOrderly

LEMMA PickSourceOrderly ==
  ASSUME IInv, Honest, UNCHANGED discoveries, NEW p \in Process, Orderly(proc[p]), PickSource(p)
  PROVE  Honest' /\ Orderly(proc[p])'
<1> DEFINE j == proc[p].job
<1>1. PICK s \in Source :
        /\ sources[s].job = j /\ sources[s].status = "QUEUED"
        /\ Become(p, [proc[p] EXCEPT !.at = "claim", !.source = s, !.from = sources[s].checkpoint])
        /\ UNCHANGED tables
  BY DEF PickSource, Queued
<1> DEFINE c == [proc[p] EXCEPT !.at = "claim", !.source = s, !.from = sources[s].checkpoint]
<1>2. proc[p].at = "loop" /\ proc[p] \in Proc
  BY DEF PickSource, IInv, TypeOK
<1>3. Become(p, c) /\ c.at = "claim" /\ c.job = j /\ c.cov = proc[p].cov /\ c.source = s
  BY <1>1, <1>2 DEF Proc
<1> HIDE DEF c
<1>4. proc'[p].at = "claim" /\ proc'[p].job = j /\ proc'[p].cov = proc[p].cov /\ proc'[p].source = s
  BY <1>3, Becomes DEF IInv
<1>5. Honest'
  BY <1>1, QuietHonest DEF tables
<1>6. job[j] # "NONE" /\ NoneTaken(j, {}) /\ (proc[p].cov.status = "COMPLETE" => Covered(j))
  BY <1>2 DEF Orderly
<1> HIDE DEF j
<1> QED
  BY <1>1, <1>4, <1>5, <1>6 DEF Orderly, NoneTaken, Covered, Finished, tables

LEMMA ClaimSourceOrderly ==
  ASSUME IInv, Honest, UNCHANGED discoveries, NEW p \in Process, Orderly(proc[p]), ClaimSource(p)
  PROVE  Honest' /\ Orderly(proc[p])'
<1> DEFINE j == proc[p].job
<1>1. /\ proc[p].at = "claim" /\ GoTo(p, "analyze") /\ UNCHANGED <<job, coverage, artifacts>>
      /\ sources' = [sources EXCEPT ![proc[p].source].status = "PROCESSING"]
  BY DEF ClaimSource
<1>2. PICK s \in Source : s = proc[p].source
  BY <1>1 DEF IInv, Sound
<1>3. /\ j \in Job /\ job[j] # "NONE" /\ sources[s].job = j /\ sources[s].status = "QUEUED"
      /\ NoneTaken(j, {}) /\ (proc[p].cov.status = "COMPLETE" => Covered(j))
      /\ sources \in [Source -> Row]
  BY <1>1, <1>2 DEF IInv, TypeOK, Sound, Orderly
<1>4. proc'[p].at = "analyze" /\ proc'[p].job = j /\ proc'[p].cov = proc[p].cov /\ proc'[p].source = s
  BY <1>1, <1>2, GoToAfter
<1> HIDE DEF j
<1>5. /\ sources'[s].job = j /\ sources'[s].status = "PROCESSING"
      /\ \A t \in Source \ {s} : sources'[t] = sources[t]
  BY <1>1, <1>2, <1>3 DEF Row
<1>6. Honest'
  BY <1>1, <1>3, <1>5, RowHonest
<1>7. proc[p].cov.status = "COMPLETE" => Covered(proc[p].job)'
  <2>1. ~Finished(j)
    BY <1>3 DEF Finished
  <2> QED
    BY <1>3, <1>4, <2>1 DEF Covered
<1>8. NoneTaken(proc[p].job, {proc[p].source})'
  BY <1>3, <1>4, <1>5 DEF NoneTaken
<1> QED
  BY <1>1, <1>3, <1>4, <1>5, <1>6, <1>7, <1>8 DEF Orderly

-----------------------------------------------------------------------------
(* _analyze_source *)

(* The steps inside a source leave its row alone. *)
LEMMA InsideOrderly ==
  ASSUME IInv, Honest, UNCHANGED discoveries, NEW p \in Process, Orderly(proc[p]),
         proc[p].at \in {"analyze", "save"},
         UNCHANGED <<job, coverage, sources>>, proc'[p].at = "save",
         proc'[p].job = proc[p].job, proc'[p].source = proc[p].source,
         proc'[p].cov.status = proc[p].cov.status
  PROVE  Honest' /\ Orderly(proc[p])'
<1>1. Honest'
  BY QuietHonest
<1> QED
  BY <1>1 DEF Orderly, NoneTaken, Covered, Finished

LEMMA AnalyzeOrderly ==
  ASSUME IInv, Honest, UNCHANGED discoveries, NEW p \in Process, Orderly(proc[p]), Analyze(p)
  PROVE  Honest' /\ Orderly(proc[p])'
<1> DEFINE m == proc[p]
           first == IF m.source \in Paged THEN m.from ELSE 0
           last == LastTaken(m)
           flawed == m.cov.flawed \/ m.source \in Warned
           spent == IF m.budget = None THEN m.spent ELSE m.spent + last - first
<1>1. PICK whole :
        Become(p, [m EXCEPT !.at = "save", !.saved = first, !.upto = last, !.whole = whole,
                            !.cov.flawed = flawed, !.spent = spent])
  BY DEF Analyze
<1> DEFINE c == [m EXCEPT !.at = "save", !.saved = first, !.upto = last, !.whole = whole,
                          !.cov.flawed = flawed, !.spent = spent]
<1>2. m.at = "analyze" /\ m \in Proc /\ UNCHANGED <<job, coverage, sources>>
  BY DEF Analyze, IInv, TypeOK, tables
<1> HIDE DEF first, last, flawed, spent, m
<1>3. c.at = "save" /\ c.job = m.job /\ c.source = m.source /\ c.cov.status = m.cov.status
  BY <1>2 DEF Proc, Coverage
<1> HIDE DEF c
<1>4. proc'[p] = c
  <2>1. Become(p, c)
    BY <1>1 DEF c
  <2> QED
    BY <2>1, Becomes DEF IInv
<1> QED
  BY <1>2, <1>3, <1>4, InsideOrderly DEF m

LEMMA SaveBatchOrderly ==
  ASSUME IInv, Honest, UNCHANGED discoveries, NEW p \in Process, Orderly(proc[p]), SaveBatch(p)
  PROVE  Honest' /\ Orderly(proc[p])'
<1> DEFINE m == proc[p]
           last == Min2(m.upto, m.saved + Batch)
           c == [m EXCEPT !.saved = last]
<1>1. m.at = "save" /\ m \in Proc /\ UNCHANGED <<job, coverage, sources>> /\ Become(p, c)
  BY DEF SaveBatch, IInv, TypeOK
<1> HIDE DEF last, m
<1>2. c.at = "save" /\ c.job = m.job /\ c.source = m.source /\ c.cov = m.cov
  BY <1>1 DEF Proc
<1> HIDE DEF c
<1>3. proc'[p] = c
  BY <1>1, Becomes DEF IInv
<1> QED
  BY <1>1, <1>2, <1>3, InsideOrderly DEF m

(* The process has done with its source, whose row is not taken any more. *)
LEMMA DoneOrderly ==
  ASSUME IInv, Honest, UNCHANGED discoveries, NEW p \in Process, Orderly(proc[p]),
         proc[p].at \in {"analyze", "save"},
         UNCHANGED <<job, coverage>>, proc'[p].at = "sync", proc'[p].job = proc[p].job,
         proc'[p].cov.status = proc[p].cov.status,
         NEW s \in Source, s = proc[p].source, sources'[s].job = sources[s].job,
         sources'[s].status # "PROCESSING", \A t \in Source \ {s} : sources'[t] = sources[t]
  PROVE  Honest' /\ Orderly(proc[p])'
<1>1. /\ proc[p].job \in Job /\ job[proc[p].job] # "NONE"
      /\ sources[s].job = proc[p].job /\ sources[s].status = "PROCESSING"
      /\ NoneTaken(proc[p].job, {s})
      /\ (proc[p].cov.status = "COMPLETE" => Covered(proc[p].job))
  BY DEF IInv, Sound, Orderly
<1>2. Honest'
  BY <1>1, RowHonest
<1>3. proc[p].cov.status = "COMPLETE" => Covered(proc[p].job)'
  BY <1>1 DEF Covered, Finished
<1>4. NoneTaken(proc[p].job, {})'
  BY <1>1 DEF NoneTaken
<1> QED
  BY <1>1, <1>2, <1>3, <1>4 DEF Orderly

LEMMA MarkSourceOrderly ==
  ASSUME IInv, Honest, UNCHANGED discoveries, NEW p \in Process, Orderly(proc[p]), MarkSource(p)
  PROVE  Honest' /\ Orderly(proc[p])'
<1> DEFINE m == proc[p]
           end == IF m.source \in Broken THEN "FAILED" ELSE "SUCCEEDED"
           status == IF m.whole THEN end ELSE "QUEUED"
<1>1. /\ m \in Proc /\ Sound(m) /\ m.at = "save" /\ UNCHANGED <<job, coverage>>
      /\ Become(p, Done(m)) /\ sources \in [Source -> Row]
  BY DEF IInv, TypeOK, MarkSource
<1>2. PICK s \in Source : s = m.source
  BY <1>1 DEF Sound
<1>3. sources' = [sources EXCEPT ![s].status = status, ![s].checkpoint = Checkpoint(m)]
  BY <1>2 DEF MarkSource
<1>4. status # "PROCESSING"
  OBVIOUS
<1> HIDE DEF m, status
<1>5. /\ sources'[s].job = sources[s].job /\ sources'[s].status = status
      /\ \A t \in Source \ {s} : sources'[t] = sources[t]
  BY <1>1, <1>3 DEF Row
<1>6. proc'[p] = Done(m)
  BY <1>1, Becomes DEF IInv
<1>7. Done(m).at = "sync" /\ Done(m).job = m.job /\ Done(m).cov = m.cov
  BY <1>1, DoneSound
<1> QED
  BY <1>1, <1>2, <1>4, <1>5, <1>6, <1>7, DoneOrderly DEF m

LEMMA FailSourceOrderly ==
  ASSUME IInv, Honest, UNCHANGED discoveries, NEW p \in Process, Orderly(proc[p]), FailSource(p)
  PROVE  Honest' /\ Orderly(proc[p])'
<1> DEFINE m == proc[p]
           d == Done(m)
           c == [d EXCEPT !.cov.flawed = TRUE]
<1>1. /\ m \in Proc /\ Sound(m) /\ m.at = "analyze" /\ UNCHANGED <<job, coverage>>
      /\ Become(p, c) /\ sources \in [Source -> Row]
  BY DEF IInv, TypeOK, FailSource
<1>2. PICK s \in Source : s = m.source
  BY <1>1 DEF Sound
<1>3. sources' = [sources EXCEPT ![s].status = "FAILED"]
  BY <1>2 DEF FailSource
<1>4. /\ sources'[s].job = sources[s].job /\ sources'[s].status = "FAILED"
      /\ \A t \in Source \ {s} : sources'[t] = sources[t]
  BY <1>1, <1>3 DEF Row
<1>5. d \in Proc /\ d.at = "sync" /\ d.job = m.job /\ d.cov = m.cov
  BY <1>1, DoneSound
<1> HIDE DEF d, m
<1>6. c.at = "sync" /\ c.job = m.job /\ c.cov.status = m.cov.status
  BY <1>5 DEF Proc, Coverage
<1> HIDE DEF c
<1>7. proc'[p] = c
  BY <1>1, Becomes DEF IInv
<1> QED
  BY <1>1, <1>2, <1>4, <1>6, <1>7, DoneOrderly DEF m

-----------------------------------------------------------------------------
(* _finish, cancel_artifact_job, pause_artifact_job *)

LEMMA FinishCoverageOrderly ==
  ASSUME IInv, Honest, UNCHANGED discoveries, NEW p \in Process, Orderly(proc[p]), FinishCoverage(p)
  PROVE  Honest' /\ Orderly(proc[p])'
<1> DEFINE j == proc[p].job
<1>1. /\ coverage' = [coverage EXCEPT ![j] = proc[p].cov] /\ proc[p].at = "finish"
      /\ UNCHANGED <<job, sources, artifacts>> /\ GoTo(p, "finishing")
  BY DEF FinishCoverage
<1>2. j \in Job /\ job[j] # "NONE" /\ (proc[p].cov.status = "COMPLETE" => Covered(j))
  BY <1>1 DEF IInv, Sound, Orderly
<1>3. proc'[p].at = "finishing" /\ proc'[p].job = j
  BY <1>1, GoToAfter
<1> HIDE DEF j
<1>4. Honest'
  BY <1>1, <1>2, CoverageHonest DEF IInv
<1> QED
  BY <1>1, <1>2, <1>3, <1>4 DEF Orderly

LEMMA FinishJobOrderly ==
  ASSUME IInv, Honest, UNCHANGED discoveries, NEW p \in Process, Orderly(proc[p]), FinishJob(p)
  PROVE  Honest' /\ Orderly(proc[p])'
<1> DEFINE j == proc[p].job
<1>1. /\ job' = [job EXCEPT ![j] = proc[p].status] /\ proc[p].at = "finishing"
      /\ UNCHANGED <<coverage, sources, artifacts>> /\ Become(p, Idle)
  BY DEF FinishJob, Return
<1>2. j \in Job /\ proc[p].status # "NONE"
  BY <1>1 DEF IInv, Sound
<1> HIDE DEF j
<1>3. \A i \in Job : job'[i] = "NONE" => job[i] = "NONE"
  BY <1>1, <1>2 DEF IInv, TypeOK
<1>4. Honest'
  BY <1>1, <1>3, QuietHonest
<1>5. Orderly(proc[p])'
  BY <1>1, Becomes, IdleOrderly DEF IInv
<1> QED
  BY <1>4, <1>5

LEMMA CheckStopOrderly ==
  ASSUME IInv, Honest, UNCHANGED discoveries, NEW p \in Process, CheckStop(p)
  PROVE  Honest' /\ Orderly(proc[p])'
<1>1. PICK j \in Job, status \in {"CANCELLED", "PAUSED"} :
        /\ job[j] \notin {"NONE", "SUCCEEDED"}
        /\ Become(p, [Idle EXCEPT !.at = "stop", !.job = j, !.status = status])
        /\ UNCHANGED tables
  BY DEF CheckStop
<1> DEFINE c == [Idle EXCEPT !.at = "stop", !.job = j, !.status = status]
<1>2. Become(p, c) /\ c.at = "stop" /\ c.job = j
  BY <1>1 DEF Idle
<1> HIDE DEF c
<1>3. proc'[p].at = "stop" /\ proc'[p].job = j
  BY <1>2, Becomes DEF IInv
<1>4. Honest'
  BY <1>1, QuietHonest DEF tables
<1> QED
  BY <1>1, <1>3, <1>4 DEF Orderly, tables

LEMMA CommitStopOrderly ==
  ASSUME IInv, Honest, UNCHANGED discoveries, NEW p \in Process, Orderly(proc[p]), CommitStop(p)
  PROVE  Honest' /\ Orderly(proc[p])'
<1> DEFINE m == proc[p]
           v == [coverage[m.job] EXCEPT !.status = IF m.status = "PAUSED" THEN "PARTIAL" ELSE "CANCELLED"]
           c == [m EXCEPT !.at = "restate", !.cov = v]
<1>1. /\ m \in Proc /\ m.at = "stop" /\ m.job \in Job /\ m.status # "NONE"
      /\ job' = [job EXCEPT ![m.job] = m.status] /\ UNCHANGED <<coverage, sources, artifacts>>
      /\ (Become(p, Idle) \/ Become(p, c))
  BY DEF IInv, TypeOK, Sound, CommitStop, Return
<1>2. coverage[m.job] \in Coverage
  BY <1>1 DEF IInv, TypeOK
<1>3. v.status # "COMPLETE"
  BY <1>2 DEF Coverage
<1> HIDE DEF m, v
<1>4. job'[m.job] # "NONE" /\ \A i \in Job : job'[i] = "NONE" => job[i] = "NONE"
  BY <1>1 DEF IInv, TypeOK
<1>5. Honest'
  BY <1>1, <1>4, QuietHonest
<1>6. CASE Become(p, Idle)
  BY <1>5, <1>6, Becomes, IdleOrderly DEF IInv
<1>7. CASE Become(p, c)
  <2>1. c.at = "restate" /\ c.job = m.job /\ c.cov = v
    BY <1>1 DEF Proc
  <2> HIDE DEF c
  <2>2. proc'[p].at = "restate" /\ proc'[p].job = m.job /\ proc'[p].cov = v
    BY <1>7, <2>1, Becomes DEF IInv
  <2> QED
    BY <1>1, <1>3, <1>4, <1>5, <2>2 DEF Orderly
<1> QED
  BY <1>1, <1>6, <1>7

LEMMA RestateCoverageOrderly ==
  ASSUME IInv, Honest, UNCHANGED discoveries, NEW p \in Process, Orderly(proc[p]), RestateCoverage(p)
  PROVE  Honest' /\ Orderly(proc[p])'
<1> DEFINE j == proc[p].job
<1>1. /\ coverage' = [coverage EXCEPT ![j] = proc[p].cov] /\ proc[p].at = "restate"
      /\ UNCHANGED <<job, sources, artifacts>> /\ Become(p, Idle)
  BY DEF RestateCoverage, Return
<1>2. j \in Job /\ job[j] # "NONE" /\ proc[p].cov.status # "COMPLETE"
  BY <1>1 DEF IInv, Sound, Orderly
<1> HIDE DEF j
<1>3. Honest'
  BY <1>1, <1>2, CoverageHonest DEF IInv
<1>4. Orderly(proc[p])'
  BY <1>1, Becomes, IdleOrderly DEF IInv
<1> QED
  BY <1>3, <1>4

LEMMA DieOrderly ==
  ASSUME IInv, Honest, UNCHANGED discoveries, NEW p \in Process, Die(p)
  PROVE  Honest' /\ Orderly(proc[p])'
<1>1. Honest'
  BY QuietHonest DEF Die, tables
<1>2. Orderly(proc[p])'
  BY Becomes, IdleOrderly DEF IInv, Die, Return
<1> QED
  BY <1>1, <1>2

-----------------------------------------------------------------------------

LEMMA StepOrderly ==
  ASSUME IInv, Honest, NEW p \in Process, Orderly(proc[p]), Call(p) \/ Go(p)
  PROVE  Honest' /\ Orderly(proc[p])'
<1>1. CASE Call(p)
  BY <1>1, CreateJobOrderly, CreateDiscoveryOrderly, CheckResumeOrderly, CheckStopOrderly DEF Call
<1>2. CASE Go(p)
  BY <1>2, DiscoverOrderly, QueueSourcesOrderly, SaveCoverageOrderly, CoverDiscoveryOrderly,
     ReadCoverageOrderly,
     ResetSourcesOrderly, ResumeJobOrderly, SyncOrderly, StopRunOrderly, FinishSourcesOrderly,
     PickSourceOrderly, ClaimSourceOrderly, AnalyzeOrderly, SaveBatchOrderly, MarkSourceOrderly,
     FailSourceOrderly, FinishCoverageOrderly, FinishJobOrderly, CommitStopOrderly,
     RestateCoverageOrderly, DieOrderly DEF Go, Work
<1> QED
  BY <1>1, <1>2

(* A finite set with no more than one member. *)
LEMMA AtMostOne ==
  ASSUME NEW S, IsFiniteSet(S), Cardinality(S) <= 1, NEW x \in S, NEW y \in S
  PROVE  x = y
<1> SUFFICES ASSUME x # y PROVE FALSE
  OBVIOUS
<1>1. IsFiniteSet({x}) /\ Cardinality({x}) = 1
  BY FS_Singleton
<1>2. Cardinality({x} \cup {y}) = 2
  <2>1. y \notin {x}
    OBVIOUS
  <2>2. Cardinality({x} \cup {y}) = Cardinality({x}) + 1
    BY <1>1, <2>1, FS_AddElement
  <2> QED
    BY <1>1, <2>2
<1>3. Cardinality({x} \cup {y}) <= Cardinality(S)
  <2>1. {x} \cup {y} \in SUBSET S
    OBVIOUS
  <2> QED
    BY <2>1, FS_Subset
<1>4. Cardinality(S) \in Nat
  BY FS_CardinalityType
<1> QED
  BY <1>2, <1>3, <1>4

(* Only one process can be at work: the others are idle before and after.    *)
LEMMA OthersIdle ==
  ASSUME TypeOK, NEW p \in Process, Call(p) \/ Go(p),
         \A q, r \in Process : proc[q] # Idle /\ proc[r] # Idle => q = r,
         \A q, r \in Process : proc'[q] # Idle /\ proc'[r] # Idle => q = r,
         NEW q \in Process, q # p
  PROVE  proc'[q] = Idle
<1>1. PICK c : Become(p, c)
  BY DEF Call, Go, Work, CreateJob, CreateDiscovery, CoverDiscovery, CheckResume, CheckStop, Discover, QueueSources, SaveCoverage,
     ReadCoverage, ResetSources, ResumeJob, BeginRun, StopRun, FinishSources, Finish, PickSource,
     ClaimSource, SyncRun, Analyze, SaveBatch, MarkSource, FailSource, FinishCoverage, FinishJob,
     CommitStop, RestateCoverage, Die, Return, GoTo, Become
<1>2. proc'[q] = proc[q]
  BY <1>1, Becomes
<1>3. CASE proc[p] # Idle
  BY <1>2, <1>3
<1>4. CASE proc[p] = Idle
  <2>1. proc[p].at = "idle"
    BY <1>4 DEF Idle
  <2>2. Call(p)
    BY <1>4, <2>1 DEF Go, Work, Discover, QueueSources, SaveCoverage, CoverDiscovery,
       ReadCoverage, ResetSources, ResumeJob, BeginRun, StopRun, FinishSources, PickSource,
       ClaimSource, SyncRun, Analyze, SaveBatch, MarkSource, FailSource, FinishCoverage, FinishJob,
       CommitStop, RestateCoverage, Die
  <2>3. proc'[p].at # "idle"
    <3>1. CASE CreateJob(p)
      BY <3>1 DEF CreateJob, Become, TypeOK, Idle
    <3>2. CASE CheckResume(p)
      BY <3>2 DEF CheckResume, Become, TypeOK, Idle
    <3>3. CASE CheckStop(p)
      BY <3>3 DEF CheckStop, Become, TypeOK, Idle
    <3>4. CASE CreateDiscovery(p)
      BY <3>4 DEF CreateDiscovery, Become, TypeOK, Idle
    <3> QED
      BY <2>2, <3>1, <3>2, <3>3, <3>4 DEF Call
  <2>4. proc'[p] # Idle
    BY <2>3 DEF Idle
  <2> QED
    BY <2>4
<1> QED
  BY <1>3, <1>4

LEMMA NextAlone == IInv /\ AloneInv /\ [Next]_vars => AloneInv'
<1> SUFFICES ASSUME IInv, AloneInv, [Next]_vars PROVE AloneInv'
  OBVIOUS
<1>1. CASE UNCHANGED vars
  BY <1>1 DEF vars, tables, AloneInv, Honest, Kept, Covered, Finished, NothingOf, NoneTaken, Orderly
<1>2. CASE Next
  <2> SUFFICES ASSUME ~overlapped'
               PROVE  /\ \A q, r \in Process : proc'[q] # Idle /\ proc'[r] # Idle => q = r
                      /\ Honest'
                      /\ \A q \in Process : Orderly(proc[q])'
    BY DEF AloneInv
  <2> DEFINE busy == {q \in Process : proc'[q] # Idle}
  <2>1. ~overlapped /\ ~(Cardinality(busy) > 1)
    BY <1>2 DEF Next
  <2>2. IsFiniteSet(busy) /\ Cardinality(busy) <= 1
    <3>1. IsFiniteSet(Process)
      BY ArtifactAssumption
    <3>2. IsFiniteSet(busy)
      BY <3>1, FS_Subset
    <3>3. Cardinality(busy) \in Nat
      BY <3>2, FS_CardinalityType
    <3> QED
      BY <2>1, <3>2, <3>3
  <2>3. \A q, r \in Process : proc'[q] # Idle /\ proc'[r] # Idle => q = r
    BY <2>2, AtMostOne
  <2>4. PICK p \in Process : Call(p) \/ Go(p)
    BY <1>2 DEF Next
  <2>5. Honest' /\ Orderly(proc[p])'
    BY <2>1, <2>4, StepOrderly DEF AloneInv
  <2>6. ASSUME NEW q \in Process, q # p PROVE Orderly(proc[q])'
    BY <2>1, <2>3, <2>4, <2>6, OthersIdle, IdleOrderly DEF AloneInv, IInv
  <2> QED
    BY <2>3, <2>5, <2>6
<1> QED
  BY <1>1, <1>2

LEMMA InitAlone == Init => AloneInv
<1> SUFFICES ASSUME Init PROVE AloneInv
  OBVIOUS
<1>1. Honest
  <2>1. None \notin Job
    BY ArtifactAssumption
  <2> QED
    BY <2>1 DEF Init, Honest, Kept, NothingOf, NoRow, Idle
<1>2. ASSUME NEW p \in Process PROVE proc[p] = Idle /\ Orderly(proc[p])
  BY DEF Init, Orderly, Idle
<1> QED
  BY <1>1, <1>2 DEF AloneInv

(* While processes do not overlap, an analysis whose coverage is COMPLETE has *)
(* finished each of its sources, however often it was resumed after a death  *)
(* and whatever it took over, also from a discovery:                        *)
(* reset_interrupted_artifact_sources queues again what a dead process had   *)
(* taken.  discover_sources itself says COMPLETE of sources it has queued.    *)
THEOREM FinishedTheorem == Spec => []CompleteMeansFinished
<1>1. IInv /\ AloneInv => CompleteMeansFinished
  BY DEF AloneInv, Honest, Kept, Covered, Finished, CompleteMeansFinished
<1>2. Init => IInv /\ AloneInv
  BY InitKeeps, InitAlone
<1>3. IInv /\ AloneInv /\ [Next]_vars => IInv' /\ AloneInv'
  BY NextKeeps, NextAlone
<1> QED
  BY <1>1, <1>2, <1>3, PTL DEF Spec
=============================================================================
