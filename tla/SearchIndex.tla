---------------------------- MODULE SearchIndex ----------------------------
(***************************************************************************)
(* The search index of one case: SearchService of                           *)
(* application/services/search.py over the tables search_index_metadata,    *)
(* search_documents, search_jobs, search_checkpoints and search_cache.      *)
(*                                                                         *)
(* Processes index, resume, cancel, rebuild and query, each on a connection *)
(* of its own.  Every read and every transaction is a step, but for writes  *)
(* of one status to jobs and search_jobs, and the rows of a batch, which    *)
(* are one read.  A process can die between any two steps, and rows of the  *)
(* tables that are indexed appear and change all the time.  Sources are     *)
(* numbered in the order of their keys.  The text of a document follows     *)
(* from its source and its revision; the FTS row is written with it.        *)
(*                                                                         *)
(* A definition marked "variant" is not the code: it is the next definition *)
(* with a plausible mistake, which the properties have to notice.           *)
(***************************************************************************)
EXTENDS Naturals, FiniteSets

CONSTANTS
  Process,       (* calls that index, resume, cancel or rebuild             *)
  Asker,         (* calls that query                                        *)
  Job,           (* index jobs                                              *)
  None,          (* no job                                                  *)
  Sources,       (* how many rows can be indexed                            *)
  Initial,       (* the revisions of the rows there are to begin with       *)
  MaxRevision,   (* bound: the last revision of each row                    *)
  BatchSize,     (* options.batch_size                                      *)
  MaxIndex,      (* bound: the last index revision that is reserved         *)
  MaxEntries     (* bound: the valid entries of the cache                   *)

Source == 1..Sources

ASSUME SearchAssumption ==
  /\ None \notin Job
  /\ Sources \in Nat
  /\ MaxRevision \in [Source -> Nat]
  /\ Initial \in [Source -> Nat] /\ \A s \in Source : Initial[s] <= MaxRevision[s]
  /\ BatchSize \in Nat \ {0}
  /\ MaxIndex \in Nat /\ MaxEntries \in Nat

VARIABLES
  rows,        (* the revision of each source row; 0 is no row               *)
  docs,        (* search_documents: is_stale, of each source and revision    *)
  latest,      (* search_index_metadata.index_revision                       *)
  status,      (* jobs.status                                                *)
  checkpoint,  (* search_checkpoints: the source after which to go on        *)
  numbered,    (* search_jobs.index_revision                                 *)
  cache,       (* the valid entries of search_cache, for one query           *)
  proc,        (* what each call that indexes is doing and remembers         *)
  ask,         (* what each call that queries is doing and remembers         *)
  owed,        (* history: the rows there were when a job was created        *)
  known        (* history: the documents there were when each revision was   *)
               (* first reserved                                             *)

index == <<docs, latest, status, checkpoint, numbered, cache, owed, known>>
vars == <<rows, index, proc, ask>>

-----------------------------------------------------------------------------

Doc == UNION {{s} \X (1..MaxRevision[s]) : s \in Source}
Mark == {"none", "current", "stale"}
Stored == {d \in Doc : docs[d] # "none"}

(* PARTIAL stands for PAUSED too. *)
Stopped == {"SUCCEEDED", "PARTIAL", "CANCELLED"}
Status == {"none", "QUEUED", "RESUMING", "RUNNING"} \cup Stopped

Key == [revision : Nat, rows : [Source -> Nat]]
Entry == [key : Key, answer : [Doc -> Mark]]

Running == {"begin", "loop", "rows", "mark", "save", "finish", "finishing", "invalidate"}
Proc == [at : Running \cup {"idle", "numbered", "reserved", "admitted", "informed", "cancel"},
         job : Job \cup {None}, base : Nat, after : 0..Sources, current : 0..Sources,
         batch : SUBSET Doc, documents : SUBSET Doc, final : Stopped]
Idle == [at |-> "idle", job |-> None, base |-> 0, after |-> 0, current |-> 0,
         batch |-> {}, documents |-> {}, final |-> "SUCCEEDED"]

Ask == [at : {"idle", "asked", "keyed", "missed", "answered"},
        key : Key, answer : [Doc -> Mark]]
NoDocs == [d \in Doc |-> "none"]
NotAsking == [at |-> "idle", key |-> [revision |-> 0, rows |-> [s \in Source |-> 0]],
              answer |-> NoDocs]

Init ==
  /\ rows = Initial
  /\ docs = NoDocs
  /\ latest = 0
  /\ status = [j \in Job |-> "none"]
  /\ checkpoint = [j \in Job |-> 0]
  /\ numbered = [j \in Job |-> 0]
  /\ cache = {}
  /\ proc = [p \in Process |-> Idle]
  /\ ask = [q \in Asker |-> NotAsking]
  /\ owed = [j \in Job |-> [s \in Source |-> 0]]
  /\ known = [r \in 1..MaxIndex |-> {}]

GoTo(p, at) == proc' = [proc EXCEPT ![p].at = at]
Return(p) == proc' = [proc EXCEPT ![p] = Idle]

(* Indexing and analysis write the rows that are indexed here. *)
WriteRow(s) ==
  /\ rows[s] < MaxRevision[s]
  /\ rows' = [rows EXCEPT ![s] = @ + 1]
  /\ UNCHANGED <<index, proc, ask>>

-----------------------------------------------------------------------------
(* index, up to _run_index.  next_search_index_revision reads the revision,  *)
(* and then writes the next one.                                            *)

ReadRevision(p) ==
  /\ proc[p] = Idle
  /\ latest < MaxIndex
  /\ proc' = [proc EXCEPT ![p].at = "numbered", ![p].base = latest + 1]
  /\ UNCHANGED <<rows, index, ask>>

ReserveRevision(p) ==
  LET r == proc[p].base
  IN  /\ proc[p].at = "numbered"
      /\ latest' = r
      /\ known' = IF known[r] = {} THEN [known EXCEPT ![r] = {Stored}] ELSE known
      /\ GoTo(p, "reserved")
      /\ UNCHANGED <<rows, docs, status, checkpoint, numbered, cache, owed, ask>>

CreateJob(p) ==
  \E j \in Job :
    /\ proc[p].at = "reserved"
    /\ status[j] = "none"
    /\ status' = [status EXCEPT ![j] = "QUEUED"]
    /\ numbered' = [numbered EXCEPT ![j] = proc[p].base]
    /\ owed' = [owed EXCEPT ![j] = rows]
    /\ proc' = [proc EXCEPT ![p].at = "begin", ![p].job = j]
    /\ UNCHANGED <<rows, docs, latest, checkpoint, cache, known, ask>>

(* resume_index_job, up to _run_index *)

CheckResume(p) ==
  \E j \in Job :
    /\ proc[p] = Idle
    /\ status[j] \notin {"none", "SUCCEEDED"}
    /\ proc' = [proc EXCEPT ![p].at = "admitted", ![p].job = j, ![p].base = numbered[j]]
    /\ UNCHANGED <<rows, index, ask>>

ReadCheckpoint(p) ==
  /\ proc[p].at = "admitted"
  /\ proc' = [proc EXCEPT ![p].at = "informed", ![p].after = checkpoint[proc[p].job]]
  /\ UNCHANGED <<rows, index, ask>>

ResumeJob(p) ==
  /\ proc[p].at = "informed"
  /\ status' = [status EXCEPT ![proc[p].job] = "RESUMING"]
  /\ GoTo(p, "begin")
  /\ UNCHANGED <<rows, docs, latest, checkpoint, numbered, cache, owed, known, ask>>

-----------------------------------------------------------------------------
(* _run_index *)

BeginRun(p) ==
  /\ proc[p].at = "begin"
  /\ status' = [status EXCEPT ![proc[p].job] = "RUNNING"]
  /\ GoTo(p, "loop")
  /\ UNCHANGED <<rows, docs, latest, checkpoint, numbered, cache, owed, known, ask>>

Finish(p, final) ==
  /\ proc' = [proc EXCEPT ![p].at = "finish", ![p].final = final]
  /\ UNCHANGED <<rows, index, ask>>

(* A token is set, or the item budget is used up. *)
StopRun(p) ==
  /\ proc[p].at = "loop"
  /\ \E final \in Stopped \ {"SUCCEEDED"} : Finish(p, final)

Ahead(p) == {s \in Source : s > proc[p].after /\ rows[s] # 0}

(* iter_search_source_rows, with a limit that the budget may have lowered.   *)
ReadBatch(p) ==
  \E taken \in SUBSET Ahead(p) :
    /\ proc[p].at = "loop"
    /\ taken # {} /\ Cardinality(taken) <= BatchSize
    /\ \A s \in Ahead(p) \ taken : \A t \in taken : t < s
    /\ proc' = [proc EXCEPT ![p].at = "rows", ![p].batch = {<<s, rows[s]>> : s \in taken}]
    /\ UNCHANGED <<rows, index, ask>>

FinishSources(p) ==
  /\ proc[p].at = "loop"
  /\ Ahead(p) = {}
  /\ Finish(p, "SUCCEEDED")

(* The row of the batch that comes first. *)
First(p) == {d \in proc[p].batch : \A c \in proc[p].batch : d[1] <= c[1]}

SkipRow(p) ==
  \E d \in First(p) :
    /\ proc[p].at = "rows"
    /\ docs[d] = "current"
    /\ proc' = [proc EXCEPT ![p].batch = @ \ {d}, ![p].after = d[1], ![p].current = d[1]]
    /\ UNCHANGED <<rows, index, ask>>

TakeRow(p) ==
  \E d \in First(p) :
    /\ proc[p].at = "rows"
    /\ docs[d] # "current"
    /\ GoTo(p, "mark")
    /\ UNCHANGED <<rows, index, ask>>

(* mark_search_source_stale: every other revision of the source. *)
Supersede(d) ==
  docs' = [c \in Doc |-> IF c[1] = d[1] /\ c # d /\ docs[c] # "none" THEN "stale" ELSE docs[c]]

TakeDocument(p, d) ==
  proc' = [proc EXCEPT ![p] = [proc[p] EXCEPT !.at = "rows", !.batch = @ \ {d},
             !.documents = @ \cup {d}, !.after = d[1], !.current = d[1]]]

MarkStaleAndSave(p) ==   (* variant: the checkpoint is saved row by row *)
  \E d \in First(p) :
    /\ proc[p].at = "mark"
    /\ Supersede(d)
    /\ TakeDocument(p, d)
    /\ checkpoint' = [checkpoint EXCEPT ![proc[p].job] = d[1]]
    /\ UNCHANGED <<rows, latest, status, numbered, cache, owed, known, ask>>

MarkStale(p) ==
  \E d \in First(p) :
    /\ proc[p].at = "mark"
    /\ Supersede(d)
    /\ TakeDocument(p, d)
    /\ UNCHANGED <<rows, latest, status, checkpoint, numbered, cache, owed, known, ask>>

(* batch_index_search_documents *)
IndexBatch(p) ==
  /\ proc[p].at = "rows" /\ proc[p].batch = {} /\ proc[p].documents # {}
  /\ docs' = [d \in Doc |-> IF d \in proc[p].documents THEN "current" ELSE docs[d]]
  /\ latest' = IF proc[p].base > latest THEN proc[p].base ELSE latest
  /\ proc' = [proc EXCEPT ![p].at = "save", ![p].documents = {}]
  /\ UNCHANGED <<rows, status, checkpoint, numbered, cache, owed, known, ask>>

EmptyBatch(p) ==
  /\ proc[p].at = "rows" /\ proc[p].batch = {} /\ proc[p].documents = {}
  /\ GoTo(p, "save")
  /\ UNCHANGED <<rows, index, ask>>

SaveCheckpoint(p) ==
  /\ proc[p].at = "save"
  /\ checkpoint' = [checkpoint EXCEPT ![proc[p].job] = proc[p].current]
  /\ GoTo(p, "loop")
  /\ UNCHANGED <<rows, docs, latest, status, numbered, cache, owed, known, ask>>

(* _finish_index: the checkpoint is that of this run, none if it took no row. *)
FinishJob(p) ==
  /\ proc[p].at = "finish"
  /\ status' = [status EXCEPT ![proc[p].job] = proc[p].final]
  /\ proc' = [proc EXCEPT ![p].at = "finishing", ![p].final = Idle.final]
  /\ UNCHANGED <<rows, docs, latest, checkpoint, numbered, cache, owed, known, ask>>

FinishCheckpoint(p) ==
  /\ proc[p].at = "finishing"
  /\ checkpoint' = [checkpoint EXCEPT ![proc[p].job] = proc[p].current]
  /\ proc' = [proc EXCEPT ![p] = [Idle EXCEPT !.at = "invalidate"]]
  /\ UNCHANGED <<rows, docs, latest, status, numbered, cache, owed, known, ask>>

InvalidateCache(p) ==
  /\ proc[p].at = "invalidate"
  /\ cache' = {}
  /\ Return(p)
  /\ UNCHANGED <<rows, docs, latest, status, checkpoint, numbered, owed, known, ask>>

-----------------------------------------------------------------------------
(* cancel_index_job and rebuild.  Rebuilding writes the FTS rows of the      *)
(* documents that are not stale again, and then empties the cache.          *)

CheckCancel(p) ==
  \E j \in Job :
    /\ proc[p] = Idle
    /\ status[j] \notin {"none", "SUCCEEDED", "CANCELLED"}
    /\ proc' = [proc EXCEPT ![p].at = "cancel", ![p].job = j]
    /\ UNCHANGED <<rows, index, ask>>

CommitCancel(p) ==
  /\ proc[p].at = "cancel"
  /\ status' = [status EXCEPT ![proc[p].job] = "CANCELLED"]
  /\ Return(p)
  /\ UNCHANGED <<rows, docs, latest, checkpoint, numbered, cache, owed, known, ask>>

Rebuild(p) ==
  /\ proc[p] = Idle
  /\ GoTo(p, "invalidate")
  /\ UNCHANGED <<rows, index, ask>>

-----------------------------------------------------------------------------
(* query: the key is made of the revisions, read first; an answer that is    *)
(* not in the cache is read from the documents and saved.  An answer is made *)
(* of the documents that are current in it.                                  *)

AskRevision(q) ==
  /\ ask[q] = NotAsking
  /\ ask' = [ask EXCEPT ![q].at = "asked", ![q].key.revision = latest]
  /\ UNCHANGED <<rows, index, proc>>

AskSources(q) ==
  /\ ask[q].at = "asked"
  /\ ask' = [ask EXCEPT ![q].at = "keyed", ![q].key.rows = rows]
  /\ UNCHANGED <<rows, index, proc>>

Hits(q) == {e \in cache : e.key = ask[q].key}

Answered(q) == ask' = [ask EXCEPT ![q] = NotAsking]

AnswerFromCache(q) ==
  /\ ask[q].at = "keyed"
  /\ Hits(q) # {}
  /\ Answered(q)
  /\ UNCHANGED <<rows, index, proc>>

MissCache(q) ==
  /\ ask[q].at = "keyed"
  /\ Hits(q) = {} /\ Cardinality(cache) < MaxEntries
  /\ ask' = [ask EXCEPT ![q].at = "missed"]
  /\ UNCHANGED <<rows, index, proc>>

QueryDocuments(q) ==
  /\ ask[q].at = "missed"
  /\ ask' = [ask EXCEPT ![q].at = "answered", ![q].answer = docs]
  /\ UNCHANGED <<rows, index, proc>>

SaveAnswerUnderLatest(q) ==   (* variant: the key is made when the answer is saved *)
  LET key == [ask[q].key EXCEPT !.revision = latest]
  IN  /\ ask[q].at = "answered"
      /\ cache' = {e \in cache : e.key # key} \cup {[key |-> key, answer |-> ask[q].answer]}
      /\ Answered(q)
      /\ UNCHANGED <<rows, docs, latest, status, checkpoint, numbered, owed, known, proc>>

(* save_search_cache: INSERT ... ON CONFLICT (cache_key). *)
SaveAnswer(q) ==
  LET c == ask[q]
  IN  /\ c.at = "answered"
      /\ cache' = {e \in cache : e.key # c.key}
                    \cup {[key |-> c.key, answer |-> c.answer]}
      /\ Answered(q)
      /\ UNCHANGED <<rows, docs, latest, status, checkpoint, numbered, owed, known, proc>>

Leave(q) ==
  /\ ask[q] # NotAsking
  /\ Answered(q)
  /\ UNCHANGED <<rows, index, proc>>

Die(p) ==
  /\ proc[p] # Idle
  /\ Return(p)
  /\ UNCHANGED <<rows, index, ask>>

-----------------------------------------------------------------------------

Work(p) ==
  \/ BeginRun(p) \/ StopRun(p) \/ ReadBatch(p) \/ FinishSources(p)
  \/ SkipRow(p) \/ TakeRow(p) \/ MarkStale(p) \/ IndexBatch(p) \/ EmptyBatch(p)
  \/ SaveCheckpoint(p) \/ FinishJob(p) \/ FinishCheckpoint(p) \/ InvalidateCache(p)

Command(p) ==
  \/ ReadRevision(p) \/ ReserveRevision(p) \/ CreateJob(p)
  \/ CheckResume(p) \/ ReadCheckpoint(p) \/ ResumeJob(p)
  \/ CheckCancel(p) \/ CommitCancel(p) \/ Rebuild(p)

Query(q) ==
  \/ AskRevision(q) \/ AskSources(q) \/ AnswerFromCache(q)
  \/ MissCache(q) \/ QueryDocuments(q) \/ SaveAnswer(q) \/ Leave(q)

Next ==
  \/ \E p \in Process : Work(p) \/ Command(p) \/ Die(p)
  \/ \E q \in Asker : Query(q)
  \/ \E s \in Source : WriteRow(s)

Spec == Init /\ [][Next]_vars

-----------------------------------------------------------------------------

(* Rows, documents, checkpoints and what processes remember keep their types. *)
TypeOK ==
  /\ rows \in [Source -> Nat] /\ \A s \in Source : rows[s] <= MaxRevision[s]
  /\ docs \in [Doc -> Mark]
  /\ latest \in Nat
  /\ status \in [Job -> Status]
  /\ checkpoint \in [Job -> 0..Sources]
  /\ numbered \in [Job -> Nat]
  /\ cache \subseteq Entry
  /\ proc \in [Process -> Proc]
  /\ ask \in [Asker -> Ask]
  /\ owed \in [Job -> [Source -> Nat]]
  /\ known \in [1..MaxIndex -> SUBSET SUBSET Doc]

(* The row that source s had when job j was created, or a later one, has     *)
(* been indexed.                                                            *)
Indexed(j, s) == \E d \in Stored : d[1] = s /\ d[2] >= owed[j][s]

(* A job that SUCCEEDED has indexed every row there was when it was created, *)
(* at that revision or a later one, over any number of runs that stopped,    *)
(* died, were resumed or overlapped, and whatever was written meanwhile.     *)
SucceededCovers ==
  \A j \in Job : status[j] = "SUCCEEDED" =>
    \A s \in Source : owed[j][s] # 0 => Indexed(j, s)

(* An answer in the cache is never older than the index revision it is kept  *)
(* under: it was read when everything indexed before that revision was       *)
(* reserved was there, so that a new revision makes old answers unreachable. *)
AnswersKeepUp ==
  \A e \in cache : e.key.revision # 0 =>
    \A D \in known[e.key.revision] : \A d \in D : e.answer[d] # "none"
=============================================================================
