# TLA+ models of the APEX digital forensic tool

A forensic tool has to be believed. What it reports must not depend on which of two
requests came first, on a process that died at a bad moment, or on a row somebody had
read a little earlier. These modules model the parts of the tool in which such things
happen, TLC checks them on small instances, and TLAPS proves the most important
properties for every instance.

Paths below are relative to the repository. `report.py` and the other services are in
`src/apex_forensic/application/services/`.

1. [The system](#1-the-system)
2. [Plan](#2-plan)
3. [Conventions](#3-conventions)
4. [Modules](#4-modules)
5. [Where code and documents disagree](#5-where-code-and-documents-disagree)
6. [Proofs](#6-proofs)
7. [What is not modelled](#7-what-is-not-modelled)

## 1. The system

APEX analyses copies of disks and directories ("evidence") within cases. An engine
(`src/apex_forensic`) indexes filesystems, runs artifact analyzers, searches, builds
timelines, asks AI services for help, and produces reports with a chain of custody. It
stores everything in one SQLite file. A desktop process (`src/apex_desktop`) offers the
engine to an Electron shell over a loopback HTTP API. A server (`src/apex_mcp`) offers
it to AI clients as MCP tools. An account service (`src/apex_backend`) issues the tokens
and the approvals that those tools ask for.

### How they meet

```
 Electron/React --HTTP--> apex_desktop.app --operations.invoke--+
                              |  tasks.start/cancel/list        |
                              v                                 v
                          tasks.Tasks --executor thread--> services of apex_forensic
                                                                ^        |
 AI client --MCP--> apex_mcp.server --call_tool--> EngineAdapter+        v
                        |   ^                                        SQLite (WAL)
        verify token    |   | look up / spend approval                   ^
                        v   |                                            |
                    JWKS  apex_backend (login, refresh, /confirmations)  CLI processes
```

- **Shared state is the database.** Desktop requests, the executor thread, MCP servers
  and command-line processes each open connections of their own. A service reads in
  single statements, computes, and writes in one transaction at its end
  (`with self.connection:` in `adapters/persistence/sqlite/repository.py`). Nothing
  holds a lock from the read to the write. What keeps two calls apart is the UNIQUE
  constraints, the triggers that make tables append-only, and conditions inside an
  UPDATE, where there are any.
- **In one process**, handlers of the desktop API run in a thread pool; the requests of
  `apex_backend` are coroutines that yield at every `await`; an MCP server runs one tool
  call at a time.
- **Jobs** (index, search, timeline, artifacts) run synchronously in the thread that
  calls them and look at in-memory tokens between items; `cancel` and `pause` from
  elsewhere write to the job's row.

### Components, their state and what makes them right

| Component | State | Operations | What could go wrong | What makes it right |
|---|---|---|---|---|
| Desktop task queue (`apex_desktop/tasks.py`) | records, cancellation tokens, a journal file | start, cancel, list, close, the worker | cancels between two lock blocks, failing receipts, shutdown and restart in the middle | no record without a thread to finish it; a receipt before work; what is shown is what a restart shows; at-most-once FIFO |
| Reports, review, approval (`report.py`) | report header, versions, review events, approval records | create_version, set_active, archive, review actions, approve, reject, revoke | stale copies of the header, checks that are old when the row is inserted | versions numbered without gaps; a completion and an approval rest on what was accepted |
| Chain of custody (`custody_ledger.py`) | an event list with hashes per evidence | add_event, add_correction, verify_chain | two events continue the same one | chains verify at every moment; history only grows |
| Custody snapshots (`report.py`) | snapshots | create_custody_snapshot | two reads of one ledger; edits of the file | a VERIFIED snapshot covers its scope and pins it |
| Report export (`report.py`, `adapters/report/runtime.py`) | manifests, packages, artifacts, files | prepare, render, record result | status set from four places, a revocation meanwhile, a death while rendering | manifests name approvals, completed ones have their file |
| Login sessions (`apex_backend/auth/service.py`) | users, sessions with the expected jti | login, refresh, logout, deactivate | two presentations of one token; checks that are old when tokens are returned | one successor per token; revoked stays revoked; reuse revokes |
| Filesystem index jobs (`file_system_index.py`) | nodes, queue with cursors, coverage, events, job | start, resume, pause, cancel, prioritize, the scan | death between two transactions, two processes on one job | a checkpoint is never ahead of what is stored; COMPLETE means all |
| MCP calls, budget, approvals (`apex_mcp`, `apex_backend/auth`) | budget windows, approvals | call_tool, POST /confirmations, authorize | two servers spend one approval; windows meet | one approval is one change; bursts are bounded |
| JWKS cache (`auth/jwt_verifier.py`) | keys, two time stamps, a lock | verify_token | failed fetches, key rotation within the cooldown | a published key is accepted in bounded time |
| Search index (`search.py`) | documents, checkpoints, jobs, the index revision, cached answers | index, resume, cancel, rebuild, query | documents and checkpoint are two transactions; one revision reserved twice; an answer saved after the cache was emptied | SUCCEEDED means every row there was; no answer is older than the revision it is kept under |
| Timeline (`timeline.py`) | events, checkpoints, jobs | build, resume, cancel | as for the search index | as for the search index |
| Artifact analysis (`artifact_analysis.py`) | queue of sources, artifacts, coverage | discover, analyze, resume, pause, cancel | jobs take each other's sources; a death between records, row and counts; budgets that end inside a source | what a row says is stored; COMPLETE of an analysis leaves nothing unfinished |
| GUI contexts and snapshots (`context.py`) | one row with a revision; immutable snapshots with the revisions of their sources | create, update, select, refresh, expire; capture, refresh of a snapshot | expected_revision compared long before the write; sources that change while they are captured | no update is lost; no change of a source goes unreported |
| AI help (`ai_assistance.py`, `ai_governance.py`; keyword sets of `search.py`) | requests, results, verification events, promotions, keyword-set versions, policy revisions, audits | execute, review, promote, change a set, configure, evaluate | a rejection between a check and an insert; a set that changes between two reads of a promotion; two executions of one request | what a set holds of a model rests on a review; no change of a set is lost; nothing leaves without an audit that rests on the policy in force |
| Evidence and cases (`evidence_manager.py`, `case_manager.py`) | evidence rows, hash records, verifications | register, hash, verify, update | event, history and mark of a verification are three transactions among those of others; lost updates | a verdict can be traced to a custody event; a status describes what happened |
| Machine extraction (`machine_extraction.py`, `apex_desktop/machine.py`) | candidates, review events, a settings file | analyze, review, save settings | reviews that cross | the candidate shows its last review |
| Readers, volumes, streams, carving (`adapters/evidence`, `adapters/filesystem`, `carving.py`) | none that lasts | read, walk partitions, carve | loops in partition tables, ranges at the end of a file | walks end; no byte outside the range is read |
| Parsers and decryption (`adapters/artifacts`, `adapters/decryption`) | none | parse, decrypt | formats | fixtures |
| Transports, API, CLI, runtime (`apex_mcp/http_transport.py`, `apex_desktop/app.py`, `cli`, `runtime`) | rate-limit buckets | routing, validation | the limiter with all buckets in use | the limit per client holds |
| Electron shell, UI (`frontend`) | the backend process it started | start, wait until ready, end | ready, exit and quit in any order | one backend at a time |

The file `PROJECT.json` lists the same components with their files, and, under
`hazards`, each place in the code at which one of these things would bite, with the
properties that watch over it or the reason why none does yet.

## 2. Plan

Ordered by how much rests on the component and how badly tests reach it.

| # | Modules | Subject | State |
|---|---|---|---|
| 1 | `DesktopTasks`, `WorkQueue` | task queue, implements an abstract FIFO queue | checked, proved |
| 2 | `ReportReview` | versions, review, approval | checked, proved |
| 3 | `CustodyLedger`, `AppendOnlyLog`, `CustodySnapshot` | chain of custody, implements an append-only log; snapshots | checked, proved |
| 4 | `ReportExport` | export and rendering | checked, proved |
| 5 | `AuthSession` | login sessions | checked, proved |
| 6 | `FileSystemIndex` | index jobs | checked, proved |
| 7 | `ToolCall` | MCP calls, approvals, budget | checked, proved |
| 8 | `SearchIndex` | search index jobs, the query and its cache | checked, proved |
| 9 | `AiReview` | reviews of recommendations, promotion, keyword sets | checked, proved |
| 10 | `ArtifactAnalysis` | jobs over sources with inner checkpoints | checked, proved |
| 11 | `EvidenceHash` | registration, hashing and verification, composed with `CustodyLedger` | checked, proved |
| 12 | `AnalysisSnapshot` | the snapshots of what was selected, and their refreshes | checked with 13, proved |
| 13 | `AiRequest` | requests for AI help with policy, egress, retries and expiry, composed with `AnalysisSnapshot` | checked, proved |
| 14 | `JwksCache`, `RateLimit` | token verification under failing fetches, with liveness; the limiter | open |
| 15 | `SessionContext` | expected_revision of GUI contexts, and an abstract register that they should implement | open |
| 16 | `PartitionWalk` | pure algorithms: extended partitions, unallocated gaps, clamped reads, carving budget against reference definitions | open |
| 17 | `SidecarLifecycle` | the Electron shell and its backend process | open |

Every invariant that a run checks, and each of the two refinements of an abstract
specification, is also a theorem ([section 6](#6-proofs)). Proofs still worth writing
are those of the modules that are open.

## 3. Conventions

- **A step** is what the code does without another actor being able to see or change
  the middle of it: a block under a lock, a statement, a transaction, the code between
  two `await`s. A handler that reads, reads again and then writes is three actions, and
  what it remembers in between is a record in a variable (`call`, `proc`).
- **Data** is reduced to what a property can tell apart. An id that the code draws at
  random is a member of a set from which nothing is taken twice; a hash is the id of
  what it covers, or the tuple of it; a content is a model value.
- **Variants.** A definition marked `(* variant *)` is not the code: it is the next
  definition with a plausible mistake (a lost guard, a swapped order). Each property of
  each passing run is known to fail when the variant takes the place of the code.
- **MC modules** (`MCx.tla`) give the constants of `x` their values together with
  their `.cfg` files. Symmetry is used in safety runs only.
- **Mortal** is the set of actors that may die. Where it is not empty, liveness is stated
  of the others, so that one run has both deaths and liveness.
- `CHECK_DEADLOCK FALSE` stands in configurations whose bounds (tokens, decisions,
  nodes, seconds) are used up at the end of every behaviour, or in which every actor may
  simply have finished.
- Configurations hold properties that the code keeps. What it was found not to keep is in
  [section 5](#5-where-code-and-documents-disagree).

## 4. Modules

### 4.1 DesktopTasks, WorkQueue

`apex_desktop/tasks.py`, class `Tasks`.

| Variables | Code |
|---|---|
| `proc` | the process: up, the phases of `close`, down |
| `status`, `actions`, `unsaved` | `records[id]`: `status`, whether `actions` has CANCEL, whether there is a `receipt_error` |
| `token` | `tokens[id]` and its flag |
| `queue`, `pc` | the queue of the `ThreadPoolExecutor(max_workers=1)`; where the thread is that owns the task |
| `journal` | the receipts in `tasks.json` |

| Actions | Code |
|---|---|
| `Admit`, `AdmitFails`, `Submit`, `SubmitRefused` | `start`: the lock block, its rollback, `pool.submit` outside the lock and its rollback |
| `Begin`, `CheckToken`, `Abort`, `Return`, `Raise`, `Finish` | `worker`: one per lock block, the work itself in between |
| `Cancel`, `RetryReceipts` | `cancel`; `list` with its retry of failed receipts |
| `CloseCancels`, `CloseShutdown`, `CloseJoined` | `close` |
| `Stop`, `Restart`, `RestartCorrupt` | the process ends; `__init__` with the journal it reads or moves aside |
| `Save`, `SaveFails`, `SaveFailsVisibly` | `_save`, which is a part of the actions above |

`WorkQueue` is what callers are promised: submitted work runs at most once, one at a
time, in order. `RefinesWorkQueue` states that `DesktopTasks` implements it,
`FairlyRefinesWorkQueue` the same with fairness.

| Run | Shows | Bounds |
|---|---|---|
| `desktop_tasks` | `NoOrphan`, `ReceiptBeforeWork`, `DurableOutcome`, `SlotBound`, `CancelWins`, `RefinesWorkQueue`; `EveryTaskFinishes`, `CloseReturns`, `FairlyRefinesWorkQueue` | three tasks (one runs, one waits, one is admitted or refused), two slots, two outcomes, one task that cannot be cancelled |

`SlotBound` has two halves: the work in hand never exceeds the limit, and the records
that count never exceed it by more than one. The second is not an accident of the model:
a cancel in the worker's `finally` block makes a finished record count again.

*Fairness*: a handler that has admitted a task goes on to submit it (no lock is awaited
for ever: every block under it is finite), the executor's thread runs while there is
work, and `close` goes on. Nobody has to start, cancel or list anything.

### 4.2 ReportReview

`report.py` over `reports`, `report_versions`, `report_review_events`,
`report_approval_records`, for one report.

`header`, `number` and `parent`, `events`, `approvals` are the four tables. `call[p]` is
what a handler knows: its operation, how far it is, and the copies it has read.

| Actions | Code |
|---|---|
| `ReadForCreate`, `CommitCreate` | `create_version` |
| `ReadForArchive`, `CommitArchive`; `ReadForActivate`, `CommitActivate` | `archive_report`; `set_active_version` |
| `ReadForExport`, `CommitExport` | the header writes of `prepare_export` and `record_export_result` |
| `ListReview`, `ReadHeader`, `AppendReview` | `_append_review_event` and its callers |
| `CheckDecision`, `ListApprovals`, `ReadHeader`, `AppendApproval` | `approve`, `reject`, `revoke_approval` and `_append_approval` |
| `Leave` | an error, a revision conflict, a handler that dies |

The commits are transactions with the UNIQUE constraint that may refuse them. The header
is written from the copy, as the code does, so that an old copy overwrites a newer one.

| Run | Shows | Bounds |
|---|---|---|
| `report_review` | `CompleteMeansAccepted`, `ApprovalRestsOnReview`; `NumbersContiguous`, `LineageDescends`, `HeaderPointsBack` | two handlers, two versions: one that is reviewed, with one required section, three actions and two events (accept and complete), one that may be created and activated from an old header meanwhile; one decision. More of each rests on the proofs |

What the runs show: the constraint on `review_revision` is enough for completions
although the check is several reads old, because every review event takes a revision;
it is not enough for approvals, whose records have revisions of their own.

### 4.3 CustodyLedger, AppendOnlyLog, CustodySnapshot

`custody_ledger.py`. The run that checks the ledger is that of `EvidenceHash` (4.8),
which extends it. `Check`, `List`, `Save`, `Leave` are the steps of `add_event` and
`add_correction`; the insert fails when the revision is taken. The event's id stands
for its hash. `AppendOnlyLog` is the promise: one history per evidence that grows by
one event at its end, which names its predecessor.

`CustodySnapshot` takes appends as atomic, because `CustodyLedger` shows they are, and
adds what no trigger sees: a row edited, hashed again, or cut off in the file. A hash
is the tuple it covers there.

| Run | Shows | Bounds |
|---|---|---|
| `custody_snapshot` | `VerifiedCoversScope`, `SnapshotPinsHistory` | two items, three events each, one damaged row (a second could undo the first) |

### 4.4 ReportExport

`prepare_export`, `create_render_package`'s check, `render_export`,
`record_export_result` and the renderer (`adapters/report/runtime.py`: exists, write a
temporary file, `os.replace`, hash). The manifest is named by the approval and the
file name, which is what its UNIQUE fingerprint covers. Decisions on the version are
atomic here, since their races are the subject of `ReportReview`.

| Run | Shows | Bounds |
|---|---|---|
| `report_export` | `ManifestNamesApproval`, `CompletedHasArtifact`, `RenderingEnds` | two calls, of which one can die, so that it leaves its half-done work to the other; one file name, two contents; two decisions |

`Decide`, `Prepare` to `SaveManifest` and `OpenManifest` to `SaveArtifact` follow the
code in its order; `FailRender` is its `except ReportError`, `Refuse` every check that
ends a call, `ReportOutput` and `ReportFailure` what an operator records of a renderer
outside the program.

*Fairness*: a call is a thread that waits for nothing, so it goes on. `RenderingEnds` is
about calls outside `Mortal`: what a call was rendering when it died stays RENDERING
(listed as a hazard).

### 4.5 AuthSession

`AuthService`: `login`, `refresh`, `logout`, `deactivate_user`, statement by statement,
for the sessions of one account. A refresh token is the pair of a session and a jti,
and jtis are numbered as they are made. `Rotate` is the UPDATE whose condition names
the jti it expects; `Miss`, `ReadMissed`, `RevokeReused` the path of a token that has
been spent; `CheckExpiry`, `CheckAccount`, `Issue` what follows a rotation. `Legacy`
sessions are those of migration 0002, with no jti.

| Run | Shows | Bounds |
|---|---|---|
| `auth_session` | `OneSuccessor`, `ReuseRevokes` | three requests, of which one can die (two that race and one that crosses them); one old and one new session, three tokens: a rotation, a second one and a reuse |

*Fairness*: the event loop resumes a request whose statement has completed, unless the
request is in `Mortal` and dies; `ReuseRevokes` is about the others.

### 4.6 FileSystemIndex

One job of `FileSystemIndexService`. `proc[p]` is what a process knows: where it is, the
row it took, its position, its copy of the coverage. `nodes`, `queue`, `events`,
`coverage`, `job` are the tables. The evidence is given by `Listing`, the entries of
each directory in the order of their sort keys; an entry may be unreadable, excluded or
too deep.

| Actions | Code |
|---|---|
| `StartIndex`, `CheckResume`, `ReadCoverage`, `ResetQueue`, `ResumeJob`, `BeginRun` | `index_evidence`, `resume_index_job`, the head of `_run` |
| `PickItem`, `MarkItem` | `next_fs_queue_item`: a SELECT and an UPDATE |
| `StoreEntry`, `QueueChild`, `SkipUnreadable`, `SkipExcluded`, `SyncBatch`, `NextEntry`, `CancelScan`, `PauseScan`, `EndScan` | `_scan_queue_item`, in the order of its transactions |
| `SyncRun`, `StopRun`, `FinishQueue`, `FinishCoverage`, `FinishJob` | `_sync_progress` in `_run`, its ends, and `_finish` |
| `RequestStop` | the tokens of a run in the same process |
| `CheckStop`, `CommitStop`, `RestateCoverage` | `cancel_index_job`, `pause_index_job` from another process |
| `PrioritizeNode`, `SavePriority` | `prioritize_node` |
| `Die` | a process that ends anywhere |

| Run | Shows | Bounds |
|---|---|---|
| `fs_index` | `CheckpointBehind`: what a cursor or a DONE row passes is stored, queued or reported; `CompleteMeansScanned`: when the job SUCCEEDED its coverage is COMPLETE and no directory is left that was not scanned; `RunEnds` | one process that dies and resumes; a root with two directories; the root can be prioritized, which may open a job again whose coverage says COMPLETE; a file, an excluded one and an unreadable entry; a queue of two, so that it is full |

The tree has entries that are skipped, so a run that nothing interrupts ends PARTIAL.
COMPLETE is reached here all the same: what was skipped is in `fs_scan_events` before the
cursor moves, but the verdict is computed from counts that are stored later, and a
process that dies in between loses them ([section 5](#5-where-code-and-documents-disagree)).
`CompleteMeansScanned` speaks of the end of the job and not of the coverage alone: when a
process dies between `FinishCoverage` and `FinishJob`, and a node is prioritized before
the resume, the coverage says COMPLETE while the job scans again. Two processes on one
job are covered by `CheckpointTheorem`, with two the run would be too large; trees and
bounds of any size by `CheckpointTheorem` and `CompleteTheorem`.

*Fairness*: a run is synchronous and goes on by itself.

### 4.7 ToolCall

`ToolRegistry.call_tool`, `ToolBudget`, `DbFrontendSecurityProvider` and
`POST /confirmations`. There are a tool that pages and a tool that needs an approval.

| Actions | Code |
|---|---|
| `CheckSession`, `IssueGrant` | `issue_confirmation`: the session is read, later the approval committed |
| `Receive` | `call_tool` up to the budget: token, `confirmation_for` |
| `BeginCall`, `RefuseCall` | `begin_call` |
| `CheckGrant`, `Consume`, `Deny` | `authorize`: the row, then the UPDATE with its condition |
| `Invoke`, `InvokeFails` | the engine |
| `AcceptResult`, `RejectResult` | `accept_result` |
| `LogoutSession`, `Tick` | `AuthService.logout`, the clock |

`log` and `done` are history variables: how many calls and items each server had begun
and handed out by the end of each second (running totals, so that a span of seconds is a
difference of two), and how often the change of an approval was made.

| Run | Shows | Bounds |
|---|---|---|
| `tool_call` | `OneChange`; `BurstBound`: within the length of a window at most two windows' worth | two servers, one approval that expires, one page cursor; windows of two seconds and a clock of three, so that a window may end while a call runs and two windows meet in a span; one call and one item in a window (so that a cursor used twice is refused as a second call, too) |

A server runs one call at a time because `server.call_tool` calls the synchronous
`call_tool` in the event loop; that a window can nevertheless end between `begin_call`
and `accept_result` of one call is modelled (`Tick` is always enabled).

### 4.8 EvidenceHash

`EvidenceManager` of `evidence_manager.py`: `register_evidence`, `calculate_hash` and
`verify_evidence` of files, each transaction a step. It extends `CustodyLedger`, whose
`Check`, `List`, `Save` and `Leave` are conjoined with what the manager does with the
event (`CheckEvent`, `ListEvents`, `SaveEvent`, `LeaveEvent`): the calls of operators and
those inside a registration or a verification are the same calls of `add_event`, in
every order.

`status` is that of the evidence rows, `records` and `verifications` are
`evidence_hashes` and `hash_verifications`, `says` is what an event of the ledger says
of hashes, `op[p]` what a call knows. A file may change between two computations, so
that each may find any digest.

| Actions | Code |
|---|---|
| `Register` | `register_evidence`; its RECEIVED event is a call of `add_event` |
| `StartHash`, `ComputeHash`, `SaveRecord`, `MarkReady`, `FailHash` | `calculate_hash` |
| `StartVerify`, `Observe`, `SaveVerification`, `MarkVerified`, `FailVerify` | `verify_evidence`; its event comes before the history row, the mark on the record last |
| `Die` | a process that ends between two transactions |

| Run | Shows | Bounds |
|---|---|---|
| `evidence_custody` | `ChainsVerify`, `RefinesAppendOnlyLog` of the ledger; `VerdictsAreWitnessed` | two calls; a file and a directory, so that events go to two ledgers; three events (one of a verification and two that come before or after it); two digests, so that a verification matches or not; one computation of a hash. More calls, events and hashes rest on the proofs |

### 4.9 SearchIndex

`SearchService` of `search.py` for one case. Sources are numbered in the order in which
`iter_search_source_rows` returns them; a row has revisions, and appears or changes at
any moment (`WriteRow`), as the services that write those tables do. A document is named
by its source and its revision.

| Actions | Code |
|---|---|
| `ReadRevision`, `ReserveRevision`, `CreateJob` | `index` with `next_search_index_revision` |
| `CheckResume`, `ReadCheckpoint`, `ResumeJob` | `resume_index_job` |
| `BeginRun`, `StopRun`, `ReadBatch`, `FinishSources`, `SkipRow`, `TakeRow`, `MarkStale`, `IndexBatch`, `EmptyBatch`, `SaveCheckpoint` | `_run_index` |
| `FinishJob`, `FinishCheckpoint`, `InvalidateCache` | `_finish_index` |
| `CheckCancel`, `CommitCancel`; `Rebuild` | `cancel_index_job`; `rebuild` |
| `AskRevision`, `AskSources`, `AnswerFromCache`, `MissCache`, `QueryDocuments`, `SaveAnswer`, `Leave` | `query` with the cache |

`owed` and `known` are history: the rows there were when a job was created, and the
documents there were when a revision was first reserved.

| Run | Shows | Bounds |
|---|---|---|
| `search_index` | `SucceededCovers`, `AnswersKeepUp` | one process that stops, dies, resumes and is cancelled, one query, one job; a row that is rewritten and one that appears, batches of one row, so that a checkpoint lies between them; two index revisions. Overlapping processes rest on `CoverTheorem` and `CacheTheorem` |

### 4.10 AiReview

`review_keyword_recommendation` and `promote_accepted_keyword` of `ai_assistance.py`, and
the changes of keyword sets in `search.py` that they meet. `events` are the reviews of
each recommendation, `versions` the keywords of each version of the set, `promotions`
the records; `call[c]` remembers by number what was read.

| Actions | Code |
|---|---|
| `ReadReview`, `Review` | `review_keyword_recommendation`, `_append_review_event` |
| `ReadRecommendation`, `ReadSet`, `Compare`, `Replay`, `SavePromotion` | `promote_accepted_keyword` |
| `ReadAgain`, `Insert` | `add_keyword` as it is called by a promotion |
| `ReadEdit`, `AddKeyword`, `RemoveKeyword`, `Restate` | changes of the set by analysts |

| Run | Shows | Bounds |
|---|---|---|
| `ai_review` | `KeywordsRestOnReviews`, `OneChangeApart`, `NoTermTwice` | two calls, one recommendation, the recommended term and one that it can be corrected to; two reviews (one to promote for, one that comes meanwhile) and three versions (a promotion and one change) |

### 4.11 ArtifactAnalysis

Jobs of `artifact_analysis.py` over one evidence item. A source row is named by what it
covers and not by its job, so that a job that starts takes over the rows of one that
runs: `sources[s].job` says whose it is at the moment. Some sources are read page by
page with a checkpoint, the others are read in one go or cut off by the item budget.

`discover_sources` (the `discover` commands of the command line) makes a job, too, over
the same rows: it queues what it finds under its own job, and ends with coverage COMPLETE
and status SUCCEEDED, or PARTIAL both if the filesystem index is partial. Its options
have no item budget, and the budget is part of the fingerprint that names a row, so that
`CreateDiscovery` is for a start without one. COMPLETE of a discovery says only that the
sources are listed; `CompleteMeansFinished` is about analyses. Since no row tells the two
apart, the history variable `discoveries` does. A discovery that is interrupted after it has
stored its coverage can be resumed, which runs it as an analysis.

| Actions | Code |
|---|---|
| `CreateJob`, `Discover`, `QueueSources`, `SaveCoverage` | `analyze_evidence` |
| `CreateDiscovery`, `Discover`, `QueueSources`, `CoverDiscovery`, `FinishJob` | `discover_sources` |
| `CheckResume`, `ReadCoverage`, `ResetSources`, `ResumeJob` | `resume_artifact_job` |
| `BeginRun`, `StopRun`, `PickSource`, `ClaimSource`, `SyncRun`, `FinishSources`, `FinishCoverage`, `FinishJob` | `_run`, `next_artifact_source`, `_sync_progress`, `_finish` |
| `Analyze`, `SaveBatch`, `MarkSource`, `FailSource` | `_analyze_source` |
| `CheckStop`, `CommitStop`, `RestateCoverage` | `cancel_artifact_job`, `pause_artifact_job` |
| `Die` | a process that ends anywhere |

| Run | Shows | Bounds |
|---|---|---|
| `artifact_analysis` | `RowsAreBacked` under any overlap; `CompleteMeansFinished` when processes never overlapped | two processes, two jobs and three calls, so that an analysis can be started, taken over by an analysis or a discovery, and resumed; a paged source and an unpaged one of one record each (a full page may not be the last, so that checkpoint 1 with an empty page after it occurs); no budget at the start, so that discoveries share the rows, and a budget of one item for a resume; batches of one |

### 4.12 AnalysisSnapshot

The capture of source revisions by `build_from_selection`, and `refresh`. `source` is
what a reader finds of each resource at the moment; jobs change, delete and restore it
between any two reads (`ChangeSource`). A snapshot is the tuple of its states with the
number of the one it was refreshed from; `Lineage` of a snapshot is the least set that
holds it and what each of its members was refreshed from.

| Actions | Code |
|---|---|
| `BeginCapture`, `ReadSource` with `FirstState` | `build_from_selection`, `_revision_states_for_resources` |
| the same with `RefreshedState` | `refresh`, `_refresh_revision_state` |
| `SaveSnapshot`, `SaveScopes` | `_create_snapshot`, `_save_scope_contexts` |

It has no run of its own: the run of `AiRequest`, which extends it, checks
`NoChangeUnreported`.

### 4.13 AiRequest

It extends `AnalysisSnapshot`, whose steps go on between those of the executions: the
snapshot of a request is one of those, a refresh included.

| Actions | Code |
|---|---|
| `CreateRequest`, `ExpireRequest` | `create_request_from_context_snapshot`; `expire_request`, or time |
| `Configure` | `CaseAiPolicyService.configure`, with the condition of its INSERT |
| `Begin`, `LookAt`, `FindNone`, `ReturnResult`, `Admit` | `execute_request`, `validate_current_revisions`, `_existing_execution_result` |
| `Generate`, `TakeAnswer`, `SaveResult` | `generate_scope_summary` (recommendations have the same steps), `ingest_scope_summary` |
| `ReadPolicy`, `Assess` with `Permits`, `AppendAudit` | `AiEgressService._evaluate`, `_approved_payload`, `append_ai_egress_audit` |
| `Send`, `SendAgain`, `Answer` | `_post_json` with its attempts |

`late` and `inForce` in `exec` are history: what was the case when the execution began,
and the policy in force when its audit was stored (nothing in these steps reads the
table of audits).

| Run | Shows | Bounds |
|---|---|---|
| `ai_request` | `NoChangeUnreported` of the snapshots; `SentUnderPolicy`, `SentAsFirstCaptured`, `NothingSentLate` | three snapshots, so that a refresh is refreshed or two refreshes branch; one source (states of several do not meet in the code) with two revisions, of which the first can come back; one request, which a caller executes as often as it likes; a policy that permits and one that does not, in either order; two attempts |

Executions that overlap meet in the results only, and what they may do there is to send
twice ([section 5](#5-where-code-and-documents-disagree)).

## 5. Where code and documents disagree

Writing the models showed that the code does not keep all that is said of it. No run is
kept for these; each can be read off the actions named. For the first row of the table,
`ApprovalNeedsCompleteReview` of `ReportReview` states the sentence: in a configuration
with one version, `Actions = {"SUBMIT", "COMPLETE", "REOPEN"}`, `Required = {}`, three
reviews and one decision TLC finds it violated. The first table is about sentences of
the repository, the second about what no sentence speaks of.

| Sentence | What the code allows | Actions |
|---|---|---|
| "Report approval requires completed review." (`report.py:862`) | the review is reopened between the check and the record of the approval | `CheckDecision`, `AppendReview`, `AppendApproval` |
| `expected_revision` is checked at every update of a context (`docs/FORENSIC_ENGINE.md:244`) | it is compared with a row that was read, and `repository.py:6872` saves without a condition: two updates with one expected revision both read before either saves, both succeed, and the second undoes the first | none (not modelled) |
| `status` is the real analysis result (`docs/desktop/handoff-fixes-2026-10-21.md:46`) | a cancel before the worker's `finally` block turns the outcome into CANCELLING until a restart | `Return`, `Cancel`, `Finish` |
| "Archived reports cannot receive new versions." (`report.py:282`) | a version computed before the archive is saved after it and opens the report | `ReadForCreate`, `CommitArchive`, `CommitCreate` |
| "Only the latest approved report version can be revoked." (`report.py:926`) | two revocations check the same approval, and the second lists the first before it appends | `CheckDecision` twice |
| the header counts the versions saved (asserted in `tests/unit/test_phase8_report_contract.py:477`) | an old copy of the header sets `latest_version_number` back; creations then fail on the UNIQUE constraint | `ReadHeader`, `CommitCreate`, `AppendReview` |
| "Export manifest is not prepared for rendering." (`report.py:1329`) | two calls read PREPARED; a result recorded in between is written over | `OpenManifest`, `StartRender` |
| "Report renderer refuses to overwrite an existing output file." (`runtime.py:283`) | two calls pass the test before either writes | `RenderOrRefuse`, `WriteOutput` |
| only approved versions are rendered (`docs/FORENSIC_ENGINE.md:294`) | a revocation after `prepare_export` is not seen | `SaveManifest`, `Decide`, `OpenManifest` |
| "deactivated accounts must not receive new tokens" (`service.py:172`) | the account is checked several awaits before the tokens are returned | `CheckAccount`, `Deactivate`, `Issue` |
| all tokens of a reused session are refused from then on (`docs/backend/deployment/README.md:169`) | the session is not read again before the tokens are returned | `Rotate`, `RevokeReused`, `Issue` |
| "Completed or failed index jobs cannot be cancelled." (`file_system_index.py:342`) | the job is checked with an old copy | `CheckStop`, `FinishJob`, `CommitStop` |
| COMPLETE means every node (`src/README.md:184`) | a process dies between `mark_fs_queue_done` and the counts of what was skipped; the resumed job finds nothing left and nothing wrong | `EndScan`, `Die`, `FinishQueue` |
| evidence begins with a RECEIVED event (`docs/FORENSIC_ENGINE.md:277`) | a process dies between the row of the evidence and the event, or the insert of the event is refused | `Register`, `Die`, `LeaveEvent` |
| a corrected term is what is promoted (`tests/unit/test_phase7_ai_assistance.py:224`) | the corrected value is taken from the latest review only: a later comment brings back the uncorrected term | `Review`, `EffectiveAt`, `Insert` |
| "rolling safety window" (`budget.py:24`) | the window is a fixed one: up to twice the calls within its length, which is what `BurstBound` says | `Current` |
| "Expired GUI session contexts cannot be modified." (`context.py:2361`) | an update that read before an `expire` writes the old expiry back, and the context lives again | none (not modelled) |
| "New provider dispatch is allowed only while the request is live and all captured source revisions remain current." (`ai_assistance.py:993`) | a source changes, the request expires or the policy is replaced between the check and the POST, or between two attempts | `Admit`, `ChangeSource`, `ExpireRequest`, `Configure`, `Send` |
| `/confirmations` is blocked by a logout at once (`docs/backend/deployment/README.md:149`) | the session is read an await before the insert | `CheckSession`, `LogoutSession`, `IssueGrant` |

| Where | What the code allows | Actions |
|---|---|---|
| index revisions (`repository.py:5530`) | two jobs reserve the same revision, and a late one sets it back; answers of the later revision become reachable again, which `AnswersKeepUp` shows to be harmless | `ReadRevision`, `ReserveRevision` |
| search cache (`search.py:509`) | an answer that was computed earlier is saved after the cache was emptied and stays valid under its key | `QueryDocuments`, `InvalidateCache`, `SaveAnswer` |
| promotions (`ai_assistance.py:907`) | `new_ids[0]` may name a keyword that another call has added since the set was read | `ReadSet`, `Insert`, `Named` |
| promotions (`ai_assistance.py:913`) | a process dies between the keyword and its record; a retry finds a duplicate and records it as skipped | `Insert`, `Fail`, `Compare` |
| AI requests (`ai_assistance.py:1019`) | two executions find no result, and both send the request | `FindNone`, `Send` |
| AI requests (`context.py:2392`, `ai_assistance.py:397`) | a snapshot that was refreshed after a change keeps the revisions first expected, and with these a request is checked: no request on it is ever sent unless the source changes back, though the snapshot after the next calls it CURRENT | `RefreshedState`, `Current`, `Admit` |
| contexts (`repository.py:6872`) | a late refresh or update sets the revision back, and the history keeps the content that came first under a revision (not modelled) | none |
| citations (`context.py:1900`) | they are read after the revisions they stand beside (not modelled) | none |
| artifact jobs (`repository.py:3986`) | a job whose sources another has taken over finds no source left and SUCCEEDS | `QueueSources`, `FinishSources` |
| artifact discovery (`artifact_analysis.py:203`) | a discovery ends COMPLETE and SUCCEEDED with its sources QUEUED, and cannot be resumed; an interrupted analysis whose sources it took over finds none left when it is resumed, and is COMPLETE; a new analysis reads them | `QueueSources`, `CoverDiscovery`, `FinishSources` |
| artifact jobs (`repository.py:3998`) | two processes claim one source, and a job is COMPLETE while another process still reads | `PickSource`, `ClaimSource` |
| artifact coverage (`artifact_analysis.py:521`) | a process dies between the row of a failed source and the counts; the resumed job is COMPLETE with a FAILED source | `FailSource`, `Die`, `SyncRun` |
| artifact budget (`artifact_analysis.py:591`) | a source without pages that the budget cuts off starts again at its first record: resumes with one budget never end | `LastTaken`, `Checkpoint` |
| index coverage (`file_system_index.py:740`) | a process dies between the coverage and the job, a node is prioritized, and the resumed job scans it while the coverage says COMPLETE | `FinishCoverage`, `Die`, `SavePriority`, `ReadCoverage` |
| hashing (`evidence_manager.py:295`) | a cancelled computation leaves the evidence HASHING | `FailHash` |
| verification (`evidence_manager.py:408`) | the exception of a refused event is not an `ApexError`: the verdict is lost and the job stays RUNNING | `LeaveEvent` |

## 6. Proofs

`tlapm` checks every theorem to its leaves. Each proof module extends the module it is
about, so the theorems hold for all values of its constants under the module's own
named `ASSUME`, which says no more than that bounds are natural numbers (some of them
positive), that the value for "none" is not one of the things and, where processes or
tasks are counted, that there are finitely many. Three theorems have a hypothesis of
their own, named in the table: `CoversTheorem`, `PinsTheorem` and `CompleteTheorem`.

The shape is the same everywhere. `IInv` is an inductive invariant: TLC found the
properties true first, then what is missing to make them inductive was added as named
conjuncts. `Invariance` is `Spec => []IInv`, from one lemma per action or per family of
actions that change the same variables; the named theorems follow from it.

| Module | Theorems | Argument |
|---|---|---|
| `DesktopTasksProofs` | `TypeCorrect`, `NoOrphanTheorem`, `ReceiptBeforeWorkTheorem`, `DurableOutcomeTheorem`, `CancelWinsTheorem`, `SlotBoundTheorem`, `Refinement` | `PhaseInv` ties the status of a record to where its thread is, `QueueInv` and `SingleWorker` say who is in the executor's queue, `ReceiptInv` what the journal holds meanwhile. `SlotInv` counts with finite cardinalities: the work in hand, the slots in use, and the one task in its `finally` block |
| `ReportProofs` | `TypeCorrect`, `NumbersTheorem`, `LineageTheorem`, `HeaderTheorem`, `CompleteTheorem`, `ApprovalTheorem` | `CallInv`, `ReviewCallInv` and `DecisionCallInv` say that a copy in a handler's hand was a prefix of the log, so that an insert that the constraint admits continues exactly the log it was computed from |
| | `ExportTypeCorrect`, `ApprovalNamedTheorem`, `ArtifactTheorem` | `ExportSound(export[p])`: what a call remembers of the decisions, its manifest and its file. It stays true because decisions are appended, and no manifest and no file disappears (`ExportGrows`); every status that is written goes through `StatusWritten` |
| `CustodyLedgerProofs` | `TypeCorrect`, `ChainsTheorem`, `CorrectionsTheorem`, `Refinement` | `CallInv`: the last event a call has seen is the one at the position it has seen; then a free revision means that it still is the last |
| | `Composition`, `WitnessTheorem`, `EvidenceTypeCorrect` | every step of `EvidenceHash` is one of the ledger or leaves it alone, so the theorems above hold of the composition. `Knows(p, op[p])`: the record a call verifies is still as it was read, and the event it has added is still a witness of its verdict, since nothing overwrites a record in use (`Fresh`) or an event |
| | `CoversTheorem`, `PinsTheorem`, `HeadPinsHistory` | `Trustworthy(e)`: what was captured of an item verifies, or is what its rows still begin with and will be verified with them. Then from the head hash backwards: at the last place where two chains differ they have the same hash, and a hash is what it covers. Under the hypothesis `MaxDamage <= 1`: a second edit between the two reads of an item could undo the first |
| `SessionProofs` | `TypeCorrect`, `SuccessorTheorem`, `RevokedTheorem` | of `AuthSession`. `InFlight`: a request about to answer holds the jti its row expects; `MadeBefore`: jtis to come are in no row and no token |
| | `CallTypeCorrect`, `OneChangeTheorem` | of `ToolCall`. `Issued`: an approval in use exists and one that does not exist has not been used; with it the row count of the UPDATE decides |
| | `BurstTheorem` | `Tally`, once for calls and once for items: the open window counts all that was begun since it started, nothing was begun between its end and now, and the span of one window's length that ends where it starts holds at most one window's worth. A span that ends now is then covered by two windows; a new window (`CurrentOpen`) makes the old one part of what precedes it |
| `FileSystemIndexProofs` | `TypeCorrect`, `CheckpointTheorem` | `Behind(k)` for each row of the queue and `Sound(proc[p])` for each process: all entries before a position are accounted for, wherever the position is kept. The tables only grow (`Grows`), which keeps it true under the steps of others |
| | `CompleteTheorem` | `Orderly(proc[p])`: a process that goes on with the job knows of every row that is PROCESSING, for it is the one it took, and a resume has queued the others again. It is stated of behaviours in which processes take turns (`TakeTurns`): two in one job take rows from each other |
| `SearchIndexProofs` | `TypeCorrect`, `CoverTheorem`, `CacheTheorem` | for the first: what a run has passed in memory is indexed or among the documents of its batch, and what a checkpoint has passed is indexed; documents never disappear. For the second: a revision that is in use anywhere has been reserved, so that what it owes is fixed and stored, and documents never disappear: an answer that is read after its key holds it (`Reserved`, `Fresh`) |
| `AiProofs` | `TypeCorrect`, `ReviewTheorem`, `ChangeTheorem`, `TermTheorem`, `PromotionTheorem` | of `AiReview`. Events and versions only grow, so that what a call remembers by number stays what it read; an insert that the constraint admits continues the version it was computed from |
| | `NoChangeTheorem` | of `AnalysisSnapshot`. What a stored snapshot says of a source is what the comparison with the one before it gave (`Follows`), so neighbours that both call it CURRENT found the same. The lineage is the least set that is closed under "was refreshed from", so the members that found what its end found, being such a set, are all of it |
| | `RequestTypeCorrect`, `RequestComposition`, `PolicyTheorem`, `LateTheorem`, `FirstCaptureTheorem` | of `AiRequest`. Every step is one of `AnalysisSnapshot` or leaves it alone, so the theorem above holds of the composition. The rest follows what an execution knows: after `Admit` the snapshot of its request is one that found what was first captured, and after the audit the policy of that moment permits it (`ExecutionSound`) |
| `ArtifactAnalysisProofs` | `TypeCorrect`, `RowsTheorem` | `Backed(s)` for each row and `Sound(proc[p])` for each process: the records before the place from which it reads, and before the batch it is about to save, are stored, whatever has become of the row. Records are never taken back (`Grows`), so nothing that another process does takes that away |
| | `FinishedTheorem` | `AloneInv`: while processes have not overlapped, only one is not idle; unless its job is a discovery, its copy of the coverage says COMPLETE only of a job that has finished its sources (`Covered`), and no source of its job is PROCESSING but the one it reads (`Orderly`), since a resume queues again what a dead process had taken. That only one is at work is read off the cardinality in `overlapped` (`AtMostOne`) |

Inductions over data are out of the prover's reach in the form in which the library
states them, with an operator as a parameter. Two arguments above need one and go
without it: the first place at which two chains differ exists because the numbers are
well founded (`LeastNumber`, from the library's `WFMin`), and a lineage is a least set
instead of a recursion.

Only model-checked: everything with fairness (`EveryTaskFinishes`, `CloseReturns`,
`FairlyRefinesWorkQueue`, `RenderingEnds`, `ReuseRevokes`, `RunEnds`), since liveness is
out of the prover's reach. Only proved, since a run would
add nothing: `CorrectionsPointBack`, `RevokedForGood`, `PromotionInItsVersion`. The
type invariants stand in no configuration either, since all of them are proved
(`TypeCorrect` and the like; that of `AnalysisSnapshot` is a part of `RequestTypeOK`).

## 7. What is not modelled

- Of the modelled components: validation of payloads, roles and scopes (they read
  nothing that changes), formatting, telemetry, hashing as such, the audit chain of
  exports, counters of progress, comparison of versions, several index jobs that share
  a coverage row. Each is named in the note of its component in `PROJECT.json`.
- SQLite itself: its transactions are taken to be atomic and durable, and a writer that
  finds the database busy for longer than the timeout is taken to be a call that fails.
- The build of timelines: its loop is the one that `SearchIndex` models.
- Of AI help: the decision table of the policy (a pure function), projections and
  excerpts, the comparison of the stored request before an audit (it refuses more),
  providers that no policy governs, batches of recommended keywords. Of
  snapshots: the mark PARTIAL, search executions as sources, citations, views.
  Ranking and the syntax of queries; jobs of artifacts whose options differ, so that their sources
  have other rows; the rows of jobs of `evidence_manager.py` and the identity and
  fingerprint of sources.
- The components of rows 14 to 17 of the plan. The hazard of the contexts is listed.
- Parsers, decryption, image formats, OCR, speech recognition, rendering of documents,
  the user interface, schemas and release tools: sequential code over data, external
  programs, or presentation.
