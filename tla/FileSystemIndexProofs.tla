----------------------- MODULE FileSystemIndexProofs -----------------------
(***************************************************************************)
(* Proofs about FileSystemIndex for every tree, every bound and any number  *)
(* of processes.                                                            *)
(***************************************************************************)
EXTENDS FileSystemIndex, TLAPS

Types ==
  /\ job \in JobStatus
  /\ coverage \in Coverage
  /\ nodes \subseteq Node
  /\ queue \in [Key -> Row]
  /\ events \subseteq Dir \X Nat
  /\ proc \in [Process -> Mem]

(* A row is of a stored directory, and what its cursor passes is settled.    *)
Behind(k) ==
  queue[k].status # "NONE" =>
    /\ k[1] \in nodes
    /\ queue[k].cursor <= Len(Entries(k))
    /\ \A i \in 1..Len(Entries(k)) : i <= Reached(k) => Settled(k, i)

(* What a process has passed is settled, but for the directory it has just   *)
(* stored and is about to queue: that is why it may write its position.      *)
Sound(m) ==
  /\ m.pos <= Len(Entries(m.key))
  /\ m.at \in {"finish", "finishing", "stop", "prioritized"} => m.job # "NONE"
  /\ m.at \in Scanning =>
       /\ queue[m.key].status # "NONE"
       /\ \A i \in 1..m.pos : i < m.pos \/ m.at # "stored" => Settled(m.key, i)
  /\ m.at = "stored" =>
       /\ m.pos > 0
       /\ Entries(m.key)[m.pos] \in Dir \cap nodes

(* Nothing is queued before the job is there. *)
Fresh == job = "NONE" => \A k \in Key : queue[k] = NoRow

(* The inductive invariant. *)
IInv ==
  /\ Types
  /\ \A k \in Key : Behind(k)
  /\ \A p \in Process : Sound(proc[p])
  /\ Fresh

(* Rows, nodes and events are never taken back. *)
Grows ==
  /\ nodes \subseteq nodes'
  /\ events \subseteq events'
  /\ \A k \in Key : queue[k].status # "NONE" =>
       queue'[k].status # "NONE" /\ queue'[k].depth = queue[k].depth

-----------------------------------------------------------------------------
(* The shape of the tree and of idle processes *)

LEMMA TreeShape ==
  ASSUME NEW k \in Key
  PROVE  /\ k[1] \in Dir
         /\ Len(Entries(k)) \in Nat
         /\ \A i \in 1..Len(Entries(k)) : Entries(k)[i] \in Node \cup {Unreadable}
<1>1. k[1] \in Dir
  BY DEF Key
<1>2. Entries(k) \in Seq(Node \cup {Unreadable})
  BY <1>1, IndexAssumption DEF Entries
<1> QED
  BY <1>1, <1>2

LEMMA IdleSound == Idle \in Mem /\ Sound(Idle)
<1>1. Idle \in Mem
  BY IndexAssumption DEF Idle, Mem, Key, Coverage, JobStatus
<1>2. Idle.key \in Key /\ Idle.pos = 0 /\ Idle.at = "idle"
  BY IndexAssumption DEF Idle, Key
<1> QED
  BY <1>1, <1>2, TreeShape DEF Sound, Scanning

(* What is settled stays settled. *)
LEMMA SettledStays ==
  ASSUME Grows, NEW k \in Key, queue[k].status # "NONE",
         NEW i \in 1..Len(Entries(k)), Settled(k, i)
  PROVE  Settled(k, i)'
<1> DEFINE e == Entries(k)[i]
<1>1. CASE e \in Excluded
  BY <1>1 DEF Settled, Entries
<1>2. CASE e = Unreadable /\ <<k[1], i>> \in events
  BY <1>2 DEF Settled, Entries, Grows
<1>3. CASE /\ e \in nodes
           /\ e \in Dir => \/ queue[<<e, "TREE">>].status # "NONE"
                           \/ ~CanTraverse(queue[k].depth + 1)
                           \/ <<k[1], i>> \in events
  <2>1. e \in nodes' /\ queue'[k].depth = queue[k].depth
    BY <1>3 DEF Grows
  <2>2. e \in Dir => <<e, "TREE">> \in Key
    BY DEF Key
  <2>3. e \in Dir => \/ queue'[<<e, "TREE">>].status # "NONE"
                     \/ ~CanTraverse(queue'[k].depth + 1)
                     \/ <<k[1], i>> \in events'
    BY <1>3, <2>1, <2>2 DEF Grows
  <2> QED
    BY <2>1, <2>3 DEF Settled, Entries, CanTraverse
<1> QED
  BY <1>1, <1>2, <1>3 DEF Settled

LEMMA SoundStays ==
  ASSUME Types, Grows, NEW m \in Mem, Sound(m)
  PROVE  Sound(m)'
<1>1. m.key \in Key /\ m.pos \in Nat
  BY DEF Mem
<1>2. m.at \in Scanning =>
        /\ queue'[m.key].status # "NONE"
        /\ \A i \in 1..m.pos : i < m.pos \/ m.at # "stored" => Settled(m.key, i)'
  <2> SUFFICES ASSUME m.at \in Scanning
               PROVE  /\ queue'[m.key].status # "NONE"
                      /\ \A i \in 1..m.pos : i < m.pos \/ m.at # "stored" => Settled(m.key, i)'
    OBVIOUS
  <2>1. queue'[m.key].status # "NONE"
    BY <1>1 DEF Sound, Grows
  <2>2. \A i \in 1..m.pos : i \in 1..Len(Entries(m.key))
    BY <1>1, TreeShape DEF Sound
  <2> QED
    BY <1>1, <2>1, <2>2, SettledStays DEF Sound
<1>3. m.at = "stored" => m.pos > 0 /\ Entries(m.key)[m.pos] \in Dir \cap nodes'
  BY DEF Sound, Grows
<1> QED
  BY <1>2, <1>3 DEF Sound, Entries

LEMMA BehindStays ==
  ASSUME IInv, Grows, UNCHANGED queue, NEW j \in Key
  PROVE  Behind(j)'
<1> SUFFICES ASSUME queue[j].status # "NONE" PROVE Behind(j)'
  BY DEF Behind
<1>1. Behind(j)
  BY DEF IInv
<1>2. ASSUME NEW i \in 1..Len(Entries(j)), i <= Reached(j) PROVE Settled(j, i)'
  <2>1. Settled(j, i)
    BY <1>1, <1>2 DEF Behind
  <2> QED
    BY <2>1, SettledStays
<1> QED
  BY <1>1, <1>2 DEF Behind, Reached, Entries, Grows

(* One process goes on to c and the tables only grow. *)
LEMMA OneStep ==
  ASSUME IInv, Grows, NEW p \in Process, NEW c \in Mem,
         proc' = [proc EXCEPT ![p] = c],
         job' \in JobStatus, coverage' \in Coverage, nodes' \subseteq Node,
         queue' \in [Key -> Row], events' \subseteq Dir \X Nat,
         \A k \in Key : Behind(k)', Sound(c)', Fresh'
  PROVE  IInv'
<1>1. Types'
  BY DEF IInv, Types
<1>2. ASSUME NEW q \in Process PROVE Sound(proc[q])'
  <2>1. CASE q = p
    <3>1. proc'[q] = c
      BY <2>1 DEF IInv, Types
    <3> QED
      BY <3>1 DEF Sound, Entries, Settled, CanTraverse
  <2>2. CASE q # p
    <3>1. proc'[q] = proc[q] /\ proc[q] \in Mem /\ Sound(proc[q])
      BY <2>2 DEF IInv, Types
    <3> DEFINE m == proc[q]
    <3>2. \A n \in Mem : Sound(n) => Sound(n)'
      BY SoundStays DEF IInv
    <3> QED
      BY <3>1, <3>2 DEF Sound, Entries, Settled, CanTraverse
  <2> QED
    BY <2>1, <2>2
<1> QED
  BY <1>1, <1>2 DEF IInv

(* One process goes on to c and no row, node or event changes. *)
LEMMA QuietStep ==
  ASSUME IInv, NEW p \in Process, NEW c \in Mem,
         proc' = [proc EXCEPT ![p] = c],
         UNCHANGED <<nodes, queue, events>>,
         job' \in JobStatus, coverage' \in Coverage,
         job' = "NONE" => job = "NONE",
         Sound(c)
  PROVE  IInv'
<1>1. Grows
  BY DEF Grows
<1>2. \A k \in Key : Behind(k)'
  BY DEF IInv, Behind, Reached, Settled, Entries, CanTraverse
<1>3. Sound(c)'
  BY DEF Sound, Settled, Entries, CanTraverse
<1>4. Fresh'
  BY DEF IInv, Fresh
<1> QED
  BY <1>1, <1>2, <1>3, <1>4, OneStep DEF IInv, Types

(* The row of a scanned directory gets another status or cursor; every       *)
(* directory it then passes must be settled.                                 *)
LEMMA RowStep ==
  ASSUME IInv, NEW p \in Process, NEW c \in Mem, NEW k \in Key, NEW r \in Row,
         queue[k].status # "NONE", r.status # "NONE", r.depth = queue[k].depth,
         r.cursor <= Len(Entries(k)),
         \A i \in 1..Len(Entries(k)) :
           r.status = "DONE" \/ i <= r.cursor => Settled(k, i),
         proc' = [proc EXCEPT ![p] = c],
         queue' = [queue EXCEPT ![k] = r],
         UNCHANGED <<job, coverage, nodes, events>>,
         Sound(c)
  PROVE  IInv'
<1>1. Grows
  BY DEF IInv, Types, Grows
<1>2. ASSUME NEW j \in Key PROVE Behind(j)'
  <2> SUFFICES ASSUME queue'[j].status # "NONE"
               PROVE  /\ j[1] \in nodes'
                      /\ queue'[j].cursor <= Len(Entries(j))
                      /\ \A i \in 1..Len(Entries(j)) : i <= Reached(j)' => Settled(j, i)'
    BY DEF Behind, Entries
  <2>1. queue[j].status # "NONE" /\ Behind(j)
    BY DEF IInv, Types
  <2>2. CASE j = k
    <3>1. queue'[j] = r
      BY <2>2 DEF IInv, Types
    <3>2. ASSUME NEW i \in 1..Len(Entries(j)), i <= Reached(j)' PROVE Settled(j, i)'
      <4>1. Settled(j, i)
        BY <2>2, <3>1, <3>2 DEF Reached
      <4> QED
        BY <1>1, <2>1, <4>1, SettledStays
    <3> QED
      BY <2>1, <2>2, <3>1, <3>2 DEF Behind
  <2>3. CASE j # k
    <3>1. queue'[j] = queue[j]
      BY <2>3 DEF IInv, Types
    <3>2. ASSUME NEW i \in 1..Len(Entries(j)), i <= Reached(j)' PROVE Settled(j, i)'
      <4>1. Settled(j, i)
        BY <2>1, <3>1, <3>2 DEF Reached, Behind, Entries
      <4> QED
        BY <1>1, <2>1, <4>1, SettledStays
    <3> QED
      BY <2>1, <3>1, <3>2 DEF Behind
  <2> QED
    BY <2>2, <2>3
<1>3. Sound(c)'
  BY <1>1, SoundStays DEF IInv
<1>4. Fresh'
  BY DEF IInv, Fresh, NoRow
<1>5. queue' \in [Key -> Row]
  BY DEF IInv, Types
<1> QED
  BY <1>1, <1>2, <1>3, <1>4, <1>5, OneStep DEF IInv, Types

(* A directory that is there gets a row, unless it has one. *)
LEMMA EnqueueStep ==
  ASSUME IInv, NEW p \in Process, NEW c \in Mem, NEW k \in Key, NEW depth \in Nat,
         k[1] \in nodes', job' # "NONE",
         Enqueue(k, depth),
         proc' = [proc EXCEPT ![p] = c],
         nodes \subseteq nodes', nodes' \subseteq Node,
         UNCHANGED <<coverage, events>>, job' \in JobStatus,
         Sound(c)'
  PROVE  IInv'
<1>0. NewRow(depth) \in Row /\ NewRow(depth).status = "QUEUED" /\ NewRow(depth).cursor = 0
  BY DEF NewRow, NoRow, Row
<1>1. queue' \in [Key -> Row]
  BY <1>0 DEF Enqueue, IInv, Types
<1>2. \A j \in Key : queue'[j] = IF j = k /\ queue[j].status = "NONE" THEN NewRow(depth) ELSE queue[j]
  BY DEF Enqueue, IInv, Types
<1>3. Grows
  BY <1>2 DEF Grows
<1>4. ASSUME NEW j \in Key PROVE Behind(j)'
  <2>1. CASE j = k /\ queue[j].status = "NONE"
    <3>1. queue'[j].status = "QUEUED" /\ queue'[j].cursor = 0
      BY <1>0, <1>2, <2>1
    <3>2. \A i \in 1..Len(Entries(j)) : ~ (i <= Reached(j)')
      BY <3>1, TreeShape DEF Reached
    <3> QED
      BY <2>1, <3>1, <3>2, TreeShape DEF Behind, Entries
  <2>2. CASE queue'[j] = queue[j] /\ queue[j].status # "NONE"
    <3>1. ASSUME NEW i \in 1..Len(Entries(j)), i <= Reached(j)' PROVE Settled(j, i)'
      <4>1. Settled(j, i)
        BY <2>2, <3>1 DEF Reached, Behind, Entries, IInv
      <4> QED
        BY <1>3, <2>2, <4>1, SettledStays
    <3> QED
      BY <2>2, <3>1 DEF Behind, Entries, IInv
  <2>3. CASE queue'[j].status = "NONE"
    BY <2>3 DEF Behind
  <2> QED
    BY <1>0, <1>2, <2>1, <2>2, <2>3
<1> QED
  BY <1>1, <1>3, <1>4, OneStep DEF IInv, Types, Fresh

-----------------------------------------------------------------------------

LEMMA InitIInv == Init => IInv
<1> SUFFICES ASSUME Init PROVE IInv
  OBVIOUS
<1>1. \A k \in Key : queue[k] = NoRow
  BY DEF Init
<1>2. Types
  BY IdleSound DEF Init, Types, JobStatus, Coverage, NoRow, Row
<1>3. \A k \in Key : Behind(k)
  BY <1>1 DEF Behind, NoRow
<1>4. \A p \in Process : Sound(proc[p])
  <2>1. \A p \in Process : proc[p] = Idle
    BY DEF Init
  <2> QED
    BY <2>1, IdleSound
<1> QED
  BY <1>1, <1>2, <1>3, <1>4 DEF IInv, Fresh

-----------------------------------------------------------------------------
(* The steps that change no row, node or event *)

LEMMA ResumeStep ==
  ASSUME IInv, NEW p \in Process, CheckResume(p) \/ ReadCoverage(p) \/ ResumeJob(p) \/ BeginRun(p)
  PROVE  IInv'
<1>1. proc[p] \in Mem /\ Sound(proc[p]) /\ coverage \in Coverage
  BY DEF IInv, Types
<1>2. CASE CheckResume(p)
  <2> DEFINE c == [proc[p] EXCEPT !.at = "admitted"]
  <2>1. c \in Mem /\ Sound(c)
    BY <1>1 DEF Mem, Running, Scanning, Sound
  <2>2. proc' = [proc EXCEPT ![p] = c] /\ UNCHANGED <<nodes, queue, events, job, coverage>>
    BY <1>2 DEF CheckResume, GoTo
  <2> QED
    BY <2>1, <2>2, QuietStep DEF IInv, Types
<1>3. CASE ReadCoverage(p)
  <2> DEFINE c == [proc[p] EXCEPT !.at = "informed", !.cov = coverage]
  <2>1. c \in Mem /\ Sound(c)
    BY <1>1 DEF Mem, Running, Scanning, Sound
  <2>2. proc' = [proc EXCEPT ![p] = c] /\ UNCHANGED <<nodes, queue, events, job, coverage>>
    BY <1>3 DEF ReadCoverage
  <2> QED
    BY <2>1, <2>2, QuietStep DEF IInv, Types
<1>4. CASE ResumeJob(p)
  <2> DEFINE c == [proc[p] EXCEPT !.at = "begin"]
  <2>1. c \in Mem /\ Sound(c)
    BY <1>1 DEF Mem, Running, Scanning, Sound
  <2>2. proc' = [proc EXCEPT ![p] = c] /\ UNCHANGED <<nodes, queue, events, coverage>> /\ job' = "RESUMING"
    BY <1>4 DEF ResumeJob, GoTo
  <2> QED
    BY <1>1, <2>1, <2>2, QuietStep DEF JobStatus
<1>5. CASE BeginRun(p)
  <2> DEFINE c == [proc[p] EXCEPT !.at = "loop"]
  <2>1. c \in Mem /\ Sound(c) /\ proc[p].cov \in Coverage
    BY <1>1 DEF Mem, Running, Scanning, Sound
  <2>2. /\ proc' = [proc EXCEPT ![p] = c] /\ UNCHANGED <<nodes, queue, events>>
        /\ job' = "RUNNING" /\ coverage' = proc[p].cov
    BY <1>5 DEF BeginRun, GoTo, Sync
  <2> QED
    BY <2>1, <2>2, QuietStep DEF JobStatus
<1> QED
  BY <1>2, <1>3, <1>4, <1>5

LEMMA FinishStep ==
  ASSUME IInv, NEW p \in Process, NEW status \in JobStatus \ {"NONE"},
         NEW final \in {"PARTIAL", "COMPLETE", "CANCELLED"}, Finish(p, status, final)
  PROVE  IInv'
<1>1. proc[p] \in Mem /\ Sound(proc[p])
  BY DEF IInv, Types
<1> DEFINE c == [proc[p] EXCEPT !.at = "finish", !.job = status, !.cov.status = final]
<1>2. c \in Mem /\ Sound(c)
  BY <1>1 DEF Mem, Running, Scanning, Sound, Coverage
<1>3. proc' = [proc EXCEPT ![p] = c] /\ UNCHANGED <<nodes, queue, events, job, coverage>>
  BY DEF Finish
<1> QED
  BY <1>2, <1>3, QuietStep DEF IInv, Types

LEMMA PickStep ==
  ASSUME IInv, NEW p \in Process, PickItem(p)
  PROVE  IInv'
<1>1. proc[p] \in Mem /\ Sound(proc[p])
  BY DEF IInv, Types
<1>2. PICK k \in Key :
        /\ queue[k].status = "QUEUED"
        /\ proc' = [proc EXCEPT ![p].at = "marking", ![p].key = k, ![p].pos = queue[k].cursor]
  BY DEF PickItem
<1> DEFINE c == [proc[p] EXCEPT !.at = "marking", !.key = k, !.pos = queue[k].cursor]
<1>3. queue[k] \in Row /\ queue[k].cursor \in Nat /\ queue[k].cursor <= Len(Entries(k))
  BY <1>2 DEF IInv, Types, Row, Behind
<1>4. \A i \in 1..queue[k].cursor : Settled(k, i)
  BY <1>2, <1>3, TreeShape DEF IInv, Behind, Reached
<1>5. c \in Mem /\ c.at = "marking" /\ c.key = k /\ c.pos = queue[k].cursor
  BY <1>1, <1>3 DEF Mem, Running, Scanning
<1>6. Sound(c)
  BY <1>2, <1>3, <1>4, <1>5 DEF Sound
<1>7. proc' = [proc EXCEPT ![p] = c] /\ UNCHANGED <<nodes, queue, events, job, coverage>>
  BY <1>2 DEF PickItem
<1> QED
  BY <1>5, <1>6, <1>7, QuietStep DEF IInv, Types

LEMMA LoopStep ==
  ASSUME IInv, NEW p \in Process, SyncRun(p) \/ SyncBatch(p) \/ RequestStop(p) \/ Die(p)
  PROVE  IInv'
<1>1. proc[p] \in Mem /\ Sound(proc[p]) /\ coverage \in Coverage /\ proc[p].cov \in Coverage
  BY DEF IInv, Types, Mem
<1>2. CASE SyncRun(p)
  <2> DEFINE c == [proc[p] EXCEPT !.at = "loop", !.key = Idle.key, !.pos = 0]
  <2>1. c \in Mem /\ c.at = "loop" /\ c.pos = 0 /\ c.key \in Key
    BY <1>1, IdleSound DEF Mem, Running, Scanning
  <2>2. Sound(c)
    BY <2>1, TreeShape DEF Sound, Scanning
  <2>3. /\ proc' = [proc EXCEPT ![p] = c] /\ UNCHANGED <<nodes, queue, events>>
        /\ job' = "RUNNING" /\ coverage' = proc[p].cov
    BY <1>2 DEF SyncRun, Sync
  <2> QED
    BY <1>1, <2>1, <2>2, <2>3, QuietStep DEF JobStatus
<1>3. CASE SyncBatch(p)
  <2>1. /\ proc' = [proc EXCEPT ![p] = proc[p]] /\ UNCHANGED <<nodes, queue, events>>
        /\ job' = "RUNNING" /\ coverage' = proc[p].cov
    BY <1>3 DEF SyncBatch, Sync, IInv, Types
  <2> QED
    BY <1>1, <2>1, QuietStep DEF JobStatus
<1>4. CASE RequestStop(p)
  <2>1. PICK wish \in {"pause", "cancel"} : proc' = [proc EXCEPT ![p].wish = wish]
    BY <1>4 DEF RequestStop
  <2> DEFINE c == [proc[p] EXCEPT !.wish = wish]
  <2>2. c \in Mem /\ Sound(c)
    BY <1>1 DEF Mem, Sound
  <2>3. proc' = [proc EXCEPT ![p] = c] /\ UNCHANGED <<nodes, queue, events, job, coverage>>
    BY <1>4, <2>1 DEF RequestStop
  <2> QED
    BY <2>2, <2>3, QuietStep DEF IInv, Types
<1>5. CASE Die(p)
  <2>1. proc' = [proc EXCEPT ![p] = Idle] /\ UNCHANGED <<nodes, queue, events, job, coverage>>
    BY <1>5 DEF Die, Return
  <2> QED
    BY <2>1, IdleSound, QuietStep DEF IInv, Types
<1> QED
  BY <1>2, <1>3, <1>4, <1>5

LEMMA CommandStep ==
  ASSUME IInv, NEW p \in Process,
         \/ FinishCoverage(p) \/ FinishJob(p) \/ CheckStop(p) \/ CommitStop(p)
         \/ RestateCoverage(p) \/ SavePriority(p)
  PROVE  IInv'
<1>1. /\ proc[p] \in Mem /\ Sound(proc[p]) /\ coverage \in Coverage
      /\ proc[p].cov \in Coverage /\ proc[p].job \in JobStatus
  BY DEF IInv, Types, Mem
<1>2. CASE FinishCoverage(p)
  <2> DEFINE c == [proc[p] EXCEPT !.at = "finishing"]
  <2>1. c \in Mem /\ Sound(c)
    BY <1>1, <1>2 DEF Mem, Running, Scanning, Sound, FinishCoverage
  <2>2. /\ proc' = [proc EXCEPT ![p] = c] /\ UNCHANGED <<nodes, queue, events, job>>
        /\ coverage' = proc[p].cov
    BY <1>2 DEF FinishCoverage, GoTo
  <2> QED
    BY <1>1, <2>1, <2>2, QuietStep DEF IInv, Types
<1>3. CASE FinishJob(p) \/ SavePriority(p)
  <2>1. /\ proc' = [proc EXCEPT ![p] = Idle] /\ UNCHANGED <<nodes, queue, events, coverage>>
        /\ job' = proc[p].job /\ proc[p].job # "NONE"
    BY <1>1, <1>3 DEF FinishJob, SavePriority, Return, Sound
  <2> QED
    BY <1>1, <2>1, IdleSound, QuietStep DEF IInv, Types
<1>4. CASE CheckStop(p)
  <2>1. PICK status \in {"CANCELLED", "PAUSED"} :
          proc' = [proc EXCEPT ![p].at = "stop", ![p].job = status]
    BY <1>4 DEF CheckStop
  <2> DEFINE c == [proc[p] EXCEPT !.at = "stop", !.job = status]
  <2>2. c \in Mem /\ Sound(c)
    BY <1>1 DEF Mem, Running, Scanning, Sound, JobStatus
  <2>3. proc' = [proc EXCEPT ![p] = c] /\ UNCHANGED <<nodes, queue, events, job, coverage>>
    BY <1>4, <2>1 DEF CheckStop
  <2> QED
    BY <2>2, <2>3, QuietStep DEF IInv, Types
<1>5. CASE CommitStop(p)
  <2> DEFINE cov == [coverage EXCEPT !.status = IF proc[p].job = "CANCELLED" THEN "CANCELLED" ELSE "PARTIAL"]
             c == [proc[p] EXCEPT !.at = "restate", !.cov = cov]
  <2>1. cov \in Coverage
    BY <1>1 DEF Coverage
  <2>2. c \in Mem /\ Sound(c)
    BY <1>1, <2>1 DEF Mem, Running, Scanning, Sound
  <2>3. /\ proc' = [proc EXCEPT ![p] = c] /\ UNCHANGED <<nodes, queue, events, coverage>>
        /\ job' = proc[p].job /\ proc[p].job # "NONE"
    BY <1>1, <1>5 DEF CommitStop, Sound
  <2> QED
    BY <1>1, <2>2, <2>3, QuietStep DEF IInv, Types
<1>6. CASE RestateCoverage(p)
  <2>1. /\ proc' = [proc EXCEPT ![p] = Idle] /\ UNCHANGED <<nodes, queue, events, job>>
        /\ coverage' = proc[p].cov
    BY <1>6 DEF RestateCoverage, Return
  <2> QED
    BY <1>1, <2>1, IdleSound, QuietStep DEF IInv, Types
<1> QED
  BY <1>2, <1>3, <1>4, <1>5, <1>6

LEMMA TurnStep ==
  ASSUME IInv, NEW p \in Process, NextEntry(p) \/ CancelScan(p)
  PROVE  IInv'
<1>1. proc[p] \in Mem /\ Sound(proc[p]) /\ proc[p].at = "check"
  BY DEF IInv, Types, NextEntry, CancelScan
<1>2. PICK at \in {"scan", "sync"} :
        proc' = [proc EXCEPT ![p].at = at] /\ UNCHANGED <<nodes, queue, events, job, coverage>>
  BY DEF NextEntry, CancelScan, GoTo
<1> DEFINE c == [proc[p] EXCEPT !.at = at]
<1>3. c \in Mem /\ Sound(c)
  BY <1>1 DEF Mem, Running, Scanning, Sound
<1>4. proc' = [proc EXCEPT ![p] = c]
  BY <1>2
<1> QED
  BY <1>2, <1>3, <1>4, QuietStep DEF IInv, Types

-----------------------------------------------------------------------------
(* The steps that take entries *)

(* Where a scan stands at an entry. *)
LEMMA TakenEntry ==
  ASSUME IInv, NEW p \in Process, AtEntry(p)
  PROVE  LET k == proc[p].key
             i == proc[p].pos + 1
         IN  /\ proc[p] \in Mem /\ k \in Key
             /\ i \in 1..Len(Entries(k)) /\ i - 1 = proc[p].pos
             /\ queue[k].status # "NONE" /\ queue[k].depth \in Nat
             /\ \A j \in 1..proc[p].pos : j \in 1..Len(Entries(k)) /\ Settled(k, j)
<1> DEFINE k == proc[p].key
<1>1. proc[p] \in Mem /\ k \in Key /\ proc[p].pos \in Nat /\ Sound(proc[p])
  BY DEF IInv, Types, Mem
<1>2. proc[p].at = "scan" /\ proc[p].pos < Len(Entries(k)) /\ Len(Entries(k)) \in Nat
  BY <1>1, TreeShape DEF AtEntry
<1>3. queue[k].status # "NONE" /\ \A j \in 1..proc[p].pos : Settled(k, j)
  BY <1>1, <1>2 DEF Sound, Scanning
<1>4. queue[k].depth \in Nat
  BY <1>1 DEF IInv, Types, Row
<1> QED
  BY <1>1, <1>2, <1>3, <1>4

(* The scan passes the entry it stands at, which is settled now, or stored   *)
(* and about to be queued.                                                   *)
LEMMA EntryStep ==
  ASSUME IInv, NEW p \in Process, AtEntry(p), NEW c \in Mem, Grows,
         c.key = proc[p].key, c.pos = proc[p].pos + 1,
         \/ c.at = "scan" /\ Settled(c.key, c.pos)'
         \/ c.at = "check" /\ Settled(c.key, c.pos)'
         \/ c.at = "stored" /\ Entries(c.key)[c.pos] \in Dir \cap nodes',
         proc' = [proc EXCEPT ![p] = c],
         UNCHANGED <<job, coverage, queue>>,
         nodes' \subseteq Node, events' \subseteq Dir \X Nat
  PROVE  IInv'
<1> DEFINE k == proc[p].key
<1>1. /\ k \in Key /\ c.pos \in 1..Len(Entries(k)) /\ c.pos - 1 = proc[p].pos
      /\ queue[k].status # "NONE"
      /\ \A j \in 1..proc[p].pos : j \in 1..Len(Entries(k)) /\ Settled(k, j)
  BY TakenEntry
<1>2. \A j \in 1..proc[p].pos : Settled(k, j)'
  BY <1>1, SettledStays
<1>3. \A j \in 1..c.pos : j < c.pos \/ c.at # "stored" => Settled(c.key, j)'
  <2>1. \A j \in 1..c.pos : j = c.pos \/ j \in 1..proc[p].pos
    BY <1>1, TreeShape
  <2>2. c.at # "stored" => Settled(c.key, c.pos)'
    OBVIOUS
  <2>3. \A j \in 1..proc[p].pos : Settled(c.key, j)'
    BY <1>2
  <2> QED
    BY <1>1, <2>1, <2>2, <2>3, TreeShape
<1>4. Sound(c)'
  <2>1. c.pos <= Len(Entries(c.key)) /\ c.pos > 0
    BY <1>1, TreeShape
  <2>2. c.at \notin {"finish", "finishing", "stop", "prioritized"}
    OBVIOUS
  <2>3. queue'[c.key].status # "NONE"
    BY <1>1
  <2> QED
    BY <1>3, <2>1, <2>2, <2>3 DEF Sound, Entries
<1>5. \A j \in Key : Behind(j)'
  BY BehindStays
<1>6. Fresh'
  BY DEF IInv, Fresh
<1> QED
  BY <1>4, <1>5, <1>6, OneStep DEF IInv, Types

LEMMA SkipStep ==
  ASSUME IInv, NEW p \in Process, SkipUnreadable(p) \/ SkipExcluded(p)
  PROVE  IInv'
<1>0. AtEntry(p)
  BY DEF SkipUnreadable, SkipExcluded
<1>1. PICK k \in Key : k = proc[p].key /\ proc[p].pos + 1 \in 1..Len(Entries(k))
  BY <1>0, TakenEntry
<1>2. PICK i \in 1..Len(Entries(k)) : i = proc[p].pos + 1
  BY <1>1
<1>3. proc[p] \in Mem /\ proc[p].at = "scan" /\ i \in Nat
  BY <1>0, TreeShape DEF AtEntry, IInv, Types
<1>4. PICK c \in Mem : c = [proc[p] EXCEPT !.pos = i, !.cov.flawed = TRUE]
  BY <1>1, <1>2, <1>3 DEF Mem, Coverage
<1>5. c.at = "scan" /\ c.key = k /\ c.pos = i
  BY <1>1, <1>2, <1>3, <1>4 DEF Mem
<1>6. proc' = [proc EXCEPT ![p] = c] /\ UNCHANGED <<job, coverage, nodes, queue>>
  BY <1>1, <1>2, <1>3, <1>4 DEF SkipUnreadable, SkipExcluded
<1>7. events \subseteq events' /\ events' \subseteq Dir \X Nat
  <2>1. <<k[1], i>> \in Dir \X Nat
    BY <1>1, <1>2, <1>3, TreeShape
  <2> QED
    BY <1>1, <1>2, <1>3, <2>1 DEF SkipUnreadable, SkipExcluded, IInv, Types
<1>8. Grows
  BY <1>6, <1>7 DEF Grows
<1>9. Settled(k, i)'
  <2>1. CASE SkipUnreadable(p)
    BY <1>1, <1>2, <1>3, <2>1 DEF SkipUnreadable, Settled, Entries
  <2>2. CASE SkipExcluded(p)
    BY <1>1, <1>2, <1>3, <2>2 DEF SkipExcluded, Settled, Entries
  <2> QED
    BY <2>1, <2>2
<1>10. Settled(c.key, c.pos)'
  BY <1>5, <1>9
<1> QED
  BY <1>0, <1>1, <1>2, <1>3, <1>5, <1>6, <1>7, <1>8, <1>10, EntryStep DEF IInv, Types

LEMMA StoreStep ==
  ASSUME IInv, NEW p \in Process, StoreEntry(p)
  PROVE  IInv'
<1>0. AtEntry(p)
  BY DEF StoreEntry
<1>1. PICK k \in Key : k = proc[p].key /\ proc[p].pos + 1 \in 1..Len(Entries(k))
  BY <1>0, TakenEntry
<1>2. PICK i \in 1..Len(Entries(k)) : i = proc[p].pos + 1
  BY <1>1
<1> DEFINE e == Entries(k)[i]
<1>3. proc[p] \in Mem /\ i \in Nat
  BY <1>0, TreeShape DEF IInv, Types
<1>4. PICK deeper \in BOOLEAN : deeper = (e \in Dir /\ CanTraverse(queue[k].depth + 1))
  OBVIOUS
<1>5. PICK c \in Mem :
        c = [proc[p] EXCEPT !.pos = i, !.at = IF deeper THEN "stored" ELSE "check",
                            !.cov.flawed = @ \/ (e \in Dir /\ ~deeper)]
  BY <1>1, <1>2, <1>3 DEF Mem, Coverage, Running, Scanning
<1>6. c.key = k /\ c.pos = i /\ c.at = IF deeper THEN "stored" ELSE "check"
  BY <1>1, <1>2, <1>3, <1>5 DEF Mem
<1>7. /\ Included(e) /\ nodes' = nodes \cup {e}
      /\ proc' = [proc EXCEPT ![p] = c] /\ UNCHANGED <<job, coverage, queue, events>>
  BY <1>1, <1>2, <1>3, <1>4, <1>5 DEF StoreEntry
<1>8. e \in Node /\ nodes' \subseteq Node
  BY <1>1, <1>2, <1>3, <1>7, TreeShape DEF Included, IInv, Types
<1>9. Grows
  BY <1>7 DEF Grows
<1>10. CASE deeper
  <2>1. c.at = "stored" /\ Entries(c.key)[c.pos] \in Dir \cap nodes'
    BY <1>4, <1>6, <1>7, <1>10
  <2> QED
    BY <1>0, <1>1, <1>2, <1>3, <1>6, <1>7, <1>8, <1>9, <2>1, EntryStep DEF IInv, Types
<1>11. CASE ~deeper
  <2>1. Settled(k, i)'
    BY <1>4, <1>7, <1>11 DEF Settled, Entries, CanTraverse
  <2>2. c.at = "check" /\ Settled(c.key, c.pos)'
    BY <1>6, <1>11, <2>1
  <2> QED
    BY <1>0, <1>1, <1>2, <1>3, <1>6, <1>7, <1>8, <1>9, <2>2, EntryStep DEF IInv, Types
<1> QED
  BY <1>10, <1>11

(* The entry just stored is settled: queued, or reported. *)
LEMMA ChildSettled ==
  ASSUME IInv, NEW p \in Process, NEW k \in Key, NEW i \in Nat, NEW c \in Mem,
         proc[p].at = "stored", proc[p].key = k, proc[p].pos = i,
         c.at = "check", c.key = k, c.pos = i, Grows, Settled(k, i)'
  PROVE  Sound(c)'
<1>1. Sound(proc[p])
  BY DEF IInv
<1>2. /\ queue[k].status # "NONE" /\ i <= Len(Entries(k))
      /\ \A j \in 1..i : j < i => Settled(k, j)
  BY <1>1 DEF Sound, Scanning
<1>3. \A j \in 1..i : j < i => Settled(k, j)'
  <2>1. \A j \in 1..i : j \in 1..Len(Entries(k))
    BY <1>2, TreeShape
  <2> QED
    BY <1>2, <2>1, SettledStays
<1>4. \A j \in 1..c.pos : Settled(c.key, j)'
  <2>1. \A j \in 1..i : j < i \/ j = i
    OBVIOUS
  <2> QED
    BY <1>3, <2>1
<1>5. queue'[c.key].status # "NONE" /\ c.pos <= Len(Entries(c.key))
  BY <1>2 DEF Grows
<1> QED
  BY <1>4, <1>5 DEF Sound, Entries

LEMMA QueueChildStep ==
  ASSUME IInv, NEW p \in Process, QueueChild(p)
  PROVE  IInv'
<1>1. PICK k \in Key, i \in Nat : k = proc[p].key /\ i = proc[p].pos
  BY DEF IInv, Types, Mem
<1> DEFINE e == Entries(k)[i]
<1>2. /\ proc[p] \in Mem /\ Sound(proc[p]) /\ proc[p].at = "stored"
      /\ e \in Dir \cap nodes /\ e \in Node
      /\ queue[k].status # "NONE" /\ queue[k].depth \in Nat
  BY <1>1 DEF IInv, Types, Row, QueueChild, Sound, Scanning, Node
<1>3. CASE Cardinality(Pending) >= MaxQueue
  <2>1. PICK c \in Mem : c = [proc[p] EXCEPT !.at = "check", !.cov.flawed = TRUE]
    BY <1>2 DEF Mem, Coverage, Running, Scanning
  <2>2. c.at = "check" /\ c.key = k /\ c.pos = i
    BY <1>1, <1>2, <2>1 DEF Mem
  <2>3. /\ proc' = [proc EXCEPT ![p] = c] /\ events' = events \cup {<<k[1], i>>}
        /\ UNCHANGED <<job, coverage, nodes, queue>>
    BY <1>1, <1>3, <2>1 DEF QueueChild, Here
  <2>4. Grows /\ events' \subseteq Dir \X Nat
    BY <2>3, TreeShape DEF Grows, IInv, Types
  <2>5. Settled(k, i)'
    BY <1>2, <2>3 DEF Settled, Entries
  <2>6. Sound(c)'
    BY <1>1, <1>2, <2>2, <2>4, <2>5, ChildSettled
  <2>7. \A j \in Key : Behind(j)'
    BY <2>3, <2>4, BehindStays
  <2>8. Fresh'
    BY <2>3 DEF IInv, Fresh
  <2> QED
    BY <2>3, <2>4, <2>6, <2>7, <2>8, OneStep DEF IInv, Types
<1>4. CASE ~ (Cardinality(Pending) >= MaxQueue)
  <2>1. PICK c \in Mem : c = [proc[p] EXCEPT !.at = "check"]
    BY <1>2 DEF Mem, Running, Scanning
  <2>2. c.at = "check" /\ c.key = k /\ c.pos = i
    BY <1>1, <1>2, <2>1 DEF Mem
  <2>3. PICK depth \in Nat : depth = queue[k].depth + 1
    BY <1>2
  <2>4. /\ Enqueue(<<e, "TREE">>, depth) /\ proc' = [proc EXCEPT ![p] = c]
        /\ UNCHANGED <<job, coverage, nodes, events>>
    BY <1>1, <1>4, <2>1, <2>3 DEF QueueChild, GoTo
  <2>5. <<e, "TREE">> \in Key /\ e \in nodes'
    BY <1>2, <2>4 DEF Key
  <2>6. /\ queue'[<<e, "TREE">>].status # "NONE"
        /\ \A j \in Key : queue[j].status # "NONE" => queue'[j] = queue[j]
    BY <2>4, <2>5 DEF Enqueue, NewRow, NoRow, IInv, Types
  <2>7. Grows
    BY <2>4, <2>6 DEF Grows
  <2>8. Settled(k, i)'
    BY <1>2, <2>4, <2>6 DEF Settled, Entries
  <2>9. Sound(c)'
    BY <1>1, <1>2, <2>2, <2>7, <2>8, ChildSettled
  <2>10. job # "NONE"
    BY <1>1, <1>2 DEF IInv, Fresh, NoRow
  <2> QED
    BY <2>4, <2>5, <2>9, <2>10, EnqueueStep DEF IInv, Types
<1> QED
  BY <1>3, <1>4

-----------------------------------------------------------------------------
(* The steps that write a row *)

LEMMA PauseStep ==
  ASSUME IInv, NEW p \in Process, PauseScan(p)
  PROVE  IInv'
<1>1. PICK k \in Key, i \in Nat : k = proc[p].key /\ i = proc[p].pos
  BY DEF IInv, Types, Mem
<1>2. /\ proc[p] \in Mem /\ Sound(proc[p]) /\ proc[p].at = "check" /\ queue[k] \in Row
      /\ queue[k].status # "NONE" /\ i <= Len(Entries(k)) /\ \A j \in 1..i : Settled(k, j)
  BY <1>1 DEF IInv, Types, PauseScan, Sound, Scanning
<1> DEFINE c == [proc[p] EXCEPT !.at = "sync"]
           r == [queue[k] EXCEPT !.status = "QUEUED", !.cursor = i]
<1>3. c \in Mem /\ Sound(c)
  BY <1>2 DEF Mem, Running, Scanning, Sound
<1>4. r \in Row /\ r.status = "QUEUED" /\ r.cursor = i /\ r.depth = queue[k].depth
  BY <1>2 DEF Row
<1>5. \A j \in 1..Len(Entries(k)) : r.status = "DONE" \/ j <= r.cursor => Settled(k, j)
  BY <1>2, <1>4, TreeShape
<1>6. /\ proc' = [proc EXCEPT ![p] = c] /\ queue' = [queue EXCEPT ![k] = r]
      /\ UNCHANGED <<job, coverage, nodes, events>>
  BY <1>1 DEF PauseScan, SaveCursor, GoTo
<1>7. r.status # "NONE" /\ r.cursor <= Len(Entries(k))
  BY <1>2, <1>4
<1> QED
  BY <1>2, <1>3, <1>4, <1>5, <1>6, <1>7, RowStep

LEMMA EndStep ==
  ASSUME IInv, NEW p \in Process, EndScan(p)
  PROVE  IInv'
<1>1. PICK k \in Key, i \in Nat : k = proc[p].key /\ i = proc[p].pos
  BY DEF IInv, Types, Mem
<1>2. /\ proc[p] \in Mem /\ Sound(proc[p]) /\ proc[p].at = "scan" /\ queue[k] \in Row
      /\ queue[k].status # "NONE" /\ i >= Len(Entries(k)) /\ \A j \in 1..i : Settled(k, j)
  BY <1>1 DEF IInv, Types, EndScan, Sound, Scanning
<1> DEFINE c == [proc[p] EXCEPT !.at = "sync"]
           r == [queue[k] EXCEPT !.status = "DONE"]
<1>3. c \in Mem /\ Sound(c)
  BY <1>2 DEF Mem, Running, Scanning, Sound
<1>4. r \in Row /\ r.status = "DONE" /\ r.cursor = queue[k].cursor /\ r.depth = queue[k].depth
  BY <1>2 DEF Row
<1>5. \A j \in 1..Len(Entries(k)) : r.status = "DONE" \/ j <= r.cursor => Settled(k, j)
  BY <1>2, TreeShape
<1>6. /\ proc' = [proc EXCEPT ![p] = c] /\ queue' = [queue EXCEPT ![k] = r]
      /\ UNCHANGED <<job, coverage, nodes, events>>
  BY <1>1 DEF EndScan, MarkDone, GoTo
<1>7. r.status # "NONE" /\ r.cursor <= Len(Entries(k))
  BY <1>2, <1>4 DEF IInv, Behind
<1> QED
  BY <1>2, <1>3, <1>4, <1>5, <1>6, <1>7, RowStep

LEMMA MarkStep ==
  ASSUME IInv, NEW p \in Process, MarkItem(p)
  PROVE  IInv'
<1>1. PICK k \in Key : k = proc[p].key
  BY DEF IInv, Types, Mem
<1>2. /\ proc[p] \in Mem /\ Sound(proc[p]) /\ proc[p].at = "marking" /\ queue[k] \in Row
      /\ queue[k].status # "NONE" /\ Behind(k)
  BY <1>1 DEF IInv, Types, MarkItem, Sound, Scanning
<1> DEFINE c == [proc[p] EXCEPT !.at = "scan"]
           r == [queue[k] EXCEPT !.status = "PROCESSING"]
<1>3. c \in Mem /\ Sound(c)
  BY <1>2 DEF Mem, Running, Scanning, Sound
<1>4. r \in Row /\ r.status = "PROCESSING" /\ r.cursor = queue[k].cursor /\ r.depth = queue[k].depth
  BY <1>2 DEF Row
<1>5. \A j \in 1..Len(Entries(k)) : r.status = "DONE" \/ j <= r.cursor => Settled(k, j)
  BY <1>2, <1>4, TreeShape DEF Behind, Reached
<1>6. /\ proc' = [proc EXCEPT ![p] = c] /\ queue' = [queue EXCEPT ![k] = r]
      /\ UNCHANGED <<job, coverage, nodes, events>>
  BY <1>1 DEF MarkItem, GoTo
<1>7. r.status # "NONE" /\ r.cursor <= Len(Entries(k))
  BY <1>2, <1>4 DEF Behind
<1> QED
  BY <1>2, <1>3, <1>4, <1>5, <1>6, <1>7, RowStep

LEMMA ResetStep ==
  ASSUME IInv, NEW p \in Process, ResetQueue(p)
  PROVE  IInv'
<1>1. PICK c \in Mem : c = [proc[p] EXCEPT !.at = "reset"] /\ Sound(c)
  <2>1. proc[p] \in Mem /\ Sound(proc[p])
    BY DEF IInv, Types
  <2>2. [proc[p] EXCEPT !.at = "reset"] \in Mem
    BY <2>1 DEF Mem, Running
  <2>3. Sound([proc[p] EXCEPT !.at = "reset"])
    BY <2>1 DEF Mem, Scanning, Sound
  <2> QED
    BY <2>2, <2>3
<1>2. proc' = [proc EXCEPT ![p] = c] /\ UNCHANGED <<job, coverage, nodes, events>>
  BY <1>1 DEF ResetQueue, GoTo
<1>3. ASSUME NEW k \in Key
      PROVE  /\ queue'[k] \in Row
             /\ queue'[k].cursor = queue[k].cursor /\ queue'[k].depth = queue[k].depth
             /\ queue'[k].status = "NONE" <=> queue[k].status = "NONE"
             /\ queue'[k].status = "DONE" <=> queue[k].status = "DONE"
             /\ queue[k] = NoRow => queue'[k] = NoRow
  BY DEF ResetQueue, Requeued, IInv, Types, Row, NoRow
<1>4. queue' \in [Key -> Row]
  BY <1>3 DEF ResetQueue
<1>5. Grows
  BY <1>2, <1>3 DEF Grows
<1>6. ASSUME NEW k \in Key PROVE Behind(k)'
  <2> SUFFICES ASSUME queue'[k].status # "NONE" PROVE Behind(k)'
    BY DEF Behind
  <2>1. queue[k].status # "NONE" /\ Behind(k)
    BY <1>3 DEF IInv
  <2>2. ASSUME NEW i \in 1..Len(Entries(k)), i <= Reached(k)' PROVE Settled(k, i)'
    <3>1. Settled(k, i)
      BY <1>3, <2>1, <2>2 DEF Behind, Reached, Entries
    <3> QED
      BY <1>5, <2>1, <3>1, SettledStays
  <2> QED
    BY <1>2, <1>3, <2>1, <2>2 DEF Behind, Entries
<1>7. Sound(c)'
  BY <1>1, <1>5, SoundStays DEF IInv
<1>8. Fresh'
  BY <1>2, <1>3 DEF IInv, Fresh
<1> QED
  BY <1>1, <1>2, <1>4, <1>5, <1>6, <1>7, <1>8, OneStep DEF IInv, Types

LEMMA StartStep ==
  ASSUME IInv, NEW p \in Process, StartIndex(p)
  PROVE  IInv'
<1>1. PICK c \in Mem : c = [Idle EXCEPT !.at = "begin"]
  BY IdleSound DEF Mem, Running
<1>2. c.at = "begin" /\ c.pos = 0 /\ c.key \in Key
  BY <1>1 DEF Idle, Mem
<1>3. /\ proc' = [proc EXCEPT ![p] = c] /\ job' = "QUEUED" /\ nodes' = {Root}
      /\ Enqueue(<<Root, "TREE">>, 0) /\ UNCHANGED <<coverage, events>>
  BY <1>1 DEF StartIndex, GoTo
<1>4. \A k \in Key : queue[k] = NoRow
  BY DEF IInv, Fresh, StartIndex
<1>5. queue' \in [Key -> Row] /\ \A k \in Key : k # <<Root, "TREE">> => queue'[k] = NoRow
  <2>1. <<Root, "TREE">> \in Key /\ NewRow(0) \in Row
    BY IndexAssumption DEF Key, NewRow, NoRow, Row
  <2> QED
    BY <1>3, <1>4, <2>1 DEF Enqueue, IInv, Types
<1>6. queue'[<<Root, "TREE">>].cursor = 0 /\ queue'[<<Root, "TREE">>].status = "QUEUED"
  <2>1. <<Root, "TREE">> \in Key
    BY IndexAssumption DEF Key
  <2>2. queue'[<<Root, "TREE">>] = NewRow(0)
    BY <1>3, <1>4, <2>1 DEF Enqueue, IInv, Types, NoRow
  <2> QED
    BY <2>2 DEF NewRow, NoRow
<1>7. \A k \in Key : Behind(k)'
  <2>1. \A k \in Key : queue'[k].status # "NONE" => k[1] = Root /\ queue'[k].cursor = 0 /\ queue'[k].status = "QUEUED"
    BY <1>5, <1>6 DEF NoRow
  <2> QED
    BY <1>3, <2>1, TreeShape DEF Behind, Reached, Entries
<1>8. ASSUME NEW q \in Process PROVE Sound(proc[q])'
  <2>1. PICK m \in Mem : m = proc'[q] /\ m.at \notin Scanning /\ m.pos <= Len(Entries(m.key))
                         /\ (m.at \in {"finish", "finishing", "stop", "prioritized"} => m.job # "NONE")
    <3>1. CASE q = p
      <4>1. proc'[q] = c
        BY <1>3, <3>1 DEF IInv, Types
      <4> QED
        BY <1>2, <4>1, TreeShape DEF Scanning
    <3>2. CASE q # p
      <4>1. proc'[q] = proc[q] /\ proc[q] \in Mem /\ Sound(proc[q])
        BY <1>3, <3>2 DEF IInv, Types
      <4>2. proc[q].key \in Key
        BY <4>1 DEF Mem
      <4>3. proc[q].at \notin Scanning
        BY <1>4, <4>1, <4>2 DEF Sound, NoRow
      <4> QED
        BY <4>1, <4>3 DEF Sound
    <3> QED
      BY <3>1, <3>2
  <2> QED
    BY <2>1 DEF Sound, Scanning, Entries
<1>9. Types'
  BY <1>3, <1>5, IndexAssumption DEF IInv, Types, JobStatus, Node
<1> QED
  BY <1>3, <1>7, <1>8, <1>9 DEF IInv, Fresh

LEMMA PrioritizeStep ==
  ASSUME IInv, NEW p \in Process, PrioritizeNode(p)
  PROVE  IInv'
<1>1. PICK d \in Urgent \cap nodes : Enqueue(<<d, "SELECTED_SCOPE">>, 0)
  BY DEF PrioritizeNode
<1>2. PICK c \in Mem : c = [Idle EXCEPT !.at = "prioritized", !.job = job]
  BY IdleSound DEF Mem, IInv, Types
<1>3. c.at = "prioritized" /\ c.pos = 0 /\ c.key \in Key /\ c.job = job /\ job # "NONE"
  BY <1>2 DEF Idle, Mem, PrioritizeNode
<1>4. proc' = [proc EXCEPT ![p] = c] /\ UNCHANGED <<job, coverage, nodes, events>>
  BY <1>2 DEF PrioritizeNode
<1>5. <<d, "SELECTED_SCOPE">> \in Key
  BY IndexAssumption DEF Key
<1>6. Sound(c)'
  BY <1>3, TreeShape DEF Sound, Scanning, Entries
<1> QED
  <2>1. <<d, "SELECTED_SCOPE">>[1] \in nodes' /\ nodes \subseteq nodes' /\ nodes' \subseteq Node /\ 0 \in Nat
    BY <1>4 DEF IInv, Types
  <2>2. job' # "NONE" /\ job' \in JobStatus /\ UNCHANGED <<coverage, events>>
    BY <1>3, <1>4 DEF IInv, Types
  <2> QED
    BY <1>1, <1>4, <1>5, <1>6, <2>1, <2>2, EnqueueStep

-----------------------------------------------------------------------------

LEMMA NextIInv == IInv /\ [Next]_vars => IInv'
<1> SUFFICES ASSUME IInv, [Next]_vars PROVE IInv'
  OBVIOUS
<1>1. CASE UNCHANGED vars
  BY <1>1 DEF vars, IInv, Types, Fresh, Behind, Reached, Sound, Settled, Entries, CanTraverse
<1>2. ASSUME NEW p \in Process, Work(p) PROVE IInv'
  <2>1. CASE ReadCoverage(p) \/ ResumeJob(p) \/ BeginRun(p)
    BY <2>1, ResumeStep
  <2>2. CASE ResetQueue(p)
    BY <2>2, ResetStep
  <2>3. CASE StopRun(p)
    BY <2>3, FinishStep DEF StopRun, JobStatus
  <2>4. CASE PickItem(p)
    BY <2>4, PickStep
  <2>5. CASE MarkItem(p)
    BY <2>5, MarkStep
  <2>6. CASE FinishQueue(p)
    <3>1. PICK final \in {"PARTIAL", "COMPLETE"} : final = FinalStatus(proc[p].cov)
      BY DEF FinalStatus
    <3> QED
      BY <2>6, <3>1, FinishStep DEF FinishQueue, JobStatus
  <2>7. CASE SyncRun(p)
    BY <2>7, LoopStep
  <2>8. CASE Scan(p)
    BY <2>8, SkipStep, StoreStep, QueueChildStep, TurnStep, PauseStep, EndStep DEF Scan
  <2>9. CASE FinishCoverage(p) \/ FinishJob(p)
    BY <2>9, CommandStep
  <2> QED
    BY <1>2, <2>1, <2>2, <2>3, <2>4, <2>5, <2>6, <2>7, <2>8, <2>9 DEF Work
<1>3. ASSUME NEW p \in Process, Command(p) PROVE IInv'
  BY <1>3, StartStep, ResumeStep, CommandStep, PrioritizeStep DEF Command
<1>4. ASSUME NEW p \in Process, SyncBatch(p) \/ RequestStop(p) \/ Die(p) PROVE IInv'
  BY <1>4, LoopStep
<1> QED
  BY <1>1, <1>2, <1>3, <1>4 DEF Next

(* The inductive invariant holds in every state, whatever the tree, the      *)
(* bounds and the processes are.                                             *)
THEOREM Invariance == Spec => []IInv
<1> QED
  BY InitIInv, NextIInv, PTL DEF Spec

(* Rows, statuses and positions keep their types, rows belong to stored      *)
(* directories and no scan leaves its directory (_scan_queue_item and the    *)
(* fs_index_queue transactions).                                             *)
THEOREM TypeCorrect == Spec => []TypeOK
<1>1. IInv => TypeOK
  BY DEF IInv, Types, Behind, Sound, TypeOK
<1> QED
  BY <1>1, Invariance, PTL

(* What the queue says has been scanned is stored, queued or reported, so    *)
(* that a job resumed after any stop, overlap or crash leaves nothing out    *)
(* unreported (update_fs_queue_cursor and mark_fs_queue_done come last).     *)
THEOREM CheckpointTheorem == Spec => []CheckpointBehind
<1>1. IInv => CheckpointBehind
  BY DEF IInv, Behind, CheckpointBehind
<1> QED
  BY <1>1, Invariance, PTL

-----------------------------------------------------------------------------
(* The end of a job whose calls do not overlap.                             *)

(* Calls, one after the other: a process begins, or goes on with, a call when *)
(* no other is in one.                                                      *)
TakeTurns == \A p, q \in Process : proc[p] # Idle /\ proc[q] # Idle => p = q

Taken == {k \in Key : queue[k].status = "PROCESSING"}

(* A process that goes on with the job knows of every row that is taken: its *)
(* own, or, once a scan is cancelled, one that it leaves to the next resume. *)
Orderly(m) ==
  /\ m.at \notin {"idle", "prioritized"} => job # "SUCCEEDED"
  /\ m.at = "prioritized" => m.job = job
  /\ m.at = "stop" => m.job # "SUCCEEDED"
  /\ m.at \in {"reset", "begin", "loop", "sync"} /\ m.wish # "cancel" => Taken = {}
  /\ m.at = "marking" => Taken = {}
  /\ m.at \in {"scan", "stored", "check"} => Taken \subseteq {m.key}
  /\ m.at \in {"finish", "finishing"} /\ m.job = "SUCCEEDED" => m.cov.status = "COMPLETE" /\ TreeDone
  /\ m.at = "finishing" => coverage = m.cov

ScannedInv == IInv /\ CompleteMeansScanned /\ \A p \in Process : Orderly(proc[p])

LEMMA InitScannedInv == Init => ScannedInv
<1> SUFFICES ASSUME Init PROVE ScannedInv
  OBVIOUS
<1>1. job = "NONE" /\ \A p \in Process : proc[p].at = "idle"
  BY DEF Init, Idle
<1> QED
  BY <1>1, InitIInv DEF ScannedInv, CompleteMeansScanned, Orderly

(* The processes that wait for their turn are idle before and after a step. *)
LEMMA OthersIdle ==
  ASSUME Types, TakeTurns, TakeTurns', NEW p \in Process,
         Work(p) \/ Command(p) \/ SyncBatch(p) \/ RequestStop(p) \/ Die(p),
         NEW q \in Process, q # p
  PROVE  proc'[q] = Idle
<1>1. PICK c : proc' = [proc EXCEPT ![p] = c] \/ proc' = proc
  BY DEF Work, Command, SyncBatch, RequestStop, Die, Scan, ReadCoverage, ResetQueue, ResumeJob,
     BeginRun, StopRun, PickItem, MarkItem, FinishQueue, SyncRun, FinishCoverage, FinishJob,
     SkipUnreadable, SkipExcluded, StoreEntry, QueueChild, NextEntry, CancelScan, PauseScan, EndScan,
     StartIndex, CheckResume, CheckStop, CommitStop, RestateCoverage, PrioritizeNode, SavePriority,
     Finish, GoTo, Return
<1>2. proc'[q] = proc[q]
  BY <1>1 DEF Types
<1>3. CASE proc[p] # Idle
  BY <1>2, <1>3 DEF TakeTurns
<1>4. CASE proc[p] = Idle
  <2>1. proc[p].at = "idle" /\ proc[p] \in Mem /\ proc \in [Process -> Mem]
    <3>1. proc[p].at = "idle"
      BY <1>4 DEF Idle
    <3> QED
      BY <3>1 DEF Types
  <2>2. StartIndex(p) \/ CheckResume(p) \/ CheckStop(p) \/ PrioritizeNode(p)
    BY <1>4, <2>1 DEF Work, Command, SyncBatch, RequestStop, Die, Scan, ReadCoverage, ResetQueue,
       ResumeJob, BeginRun, StopRun, PickItem, MarkItem, FinishQueue, SyncRun, FinishCoverage,
       FinishJob, SkipUnreadable, SkipExcluded, StoreEntry, QueueChild, NextEntry, CancelScan,
       PauseScan, EndScan, CommitStop, RestateCoverage, SavePriority, AtEntry
  <2>3. proc'[p].at # "idle"
    BY <2>1, <2>2 DEF StartIndex, CheckResume, CheckStop, PrioritizeNode, GoTo, Mem
  <2>4. proc'[p] # Idle
    BY <2>3 DEF Idle
  <2> QED
    BY <1>2, <2>4 DEF TakeTurns
<1> QED
  BY <1>3, <1>4

(* Steps that leave the rows alone. *)
LEMMA OrderlyRun ==
  ASSUME ScannedInv, NEW p \in Process,
         \/ CheckResume(p) \/ ReadCoverage(p) \/ BeginRun(p) \/ StopRun(p) \/ PickItem(p)
         \/ SyncRun(p) \/ SyncBatch(p) \/ RequestStop(p) \/ Die(p)
  PROVE  Orderly(proc[p])' /\ CompleteMeansScanned'
<1>1. proc[p] \in Mem /\ proc \in [Process -> Mem] /\ Orderly(proc[p]) /\ CompleteMeansScanned
  BY DEF ScannedInv, IInv, Types
<1> USE DEF Orderly, CompleteMeansScanned, TreeDone, Taken, Mem
<1>2. CASE CheckResume(p)
  BY <1>1, <1>2 DEF CheckResume, GoTo
<1>3. CASE ReadCoverage(p)
  BY <1>1, <1>3 DEF ReadCoverage
<1>4. CASE BeginRun(p)
  BY <1>1, <1>4 DEF BeginRun, Sync, GoTo
<1>5. CASE StopRun(p)
  BY <1>1, <1>5 DEF StopRun, Finish
<1>6. CASE PickItem(p)
  <2>1. /\ proc[p].at = "loop" /\ proc[p].wish = "none" /\ UNCHANGED <<job, coverage, queue>>
    BY <1>6 DEF PickItem
  <2>2. PICK k \in Key :
          proc' = [proc EXCEPT ![p].at = "marking", ![p].key = k, ![p].pos = queue[k].cursor]
    BY <1>6 DEF PickItem
  <2>3. proc'[p].at = "marking"
    BY <1>1, <2>2
  <2> QED
    BY <1>1, <2>1, <2>3
<1>7. CASE SyncRun(p)
  BY <1>1, <1>7 DEF SyncRun, Sync
<1>8. CASE SyncBatch(p)
  BY <1>1, <1>8 DEF SyncBatch, Sync
<1>9. CASE RequestStop(p)
  BY <1>1, <1>9 DEF RequestStop
<1>10. CASE Die(p)
  BY <1>1, <1>10 DEF Die, Return, Idle
<1> QED
  BY <1>2, <1>3, <1>4, <1>5, <1>6, <1>7, <1>8, <1>9, <1>10

LEMMA OrderlyCommand ==
  ASSUME ScannedInv, NEW p \in Process,
         \/ ResumeJob(p) \/ FinishCoverage(p) \/ FinishJob(p)
         \/ CheckStop(p) \/ CommitStop(p) \/ RestateCoverage(p) \/ SavePriority(p)
  PROVE  Orderly(proc[p])' /\ CompleteMeansScanned'
<1>1. proc[p] \in Mem /\ proc \in [Process -> Mem] /\ Orderly(proc[p]) /\ CompleteMeansScanned
  BY DEF ScannedInv, IInv, Types
<1> USE DEF Orderly, CompleteMeansScanned, TreeDone, Taken, Mem
<1>2. CASE ResumeJob(p)
  BY <1>1, <1>2 DEF ResumeJob, GoTo
<1>3. CASE FinishCoverage(p)
  BY <1>1, <1>3 DEF FinishCoverage, GoTo
<1>4. CASE FinishJob(p)
  BY <1>1, <1>4 DEF FinishJob, Return, Idle
<1>5. CASE CheckStop(p)
  BY <1>1, <1>5 DEF CheckStop
<1>6. CASE CommitStop(p)
  BY <1>1, <1>6 DEF CommitStop
<1>7. CASE RestateCoverage(p)
  BY <1>1, <1>7 DEF RestateCoverage, Return, Idle
<1>8. CASE SavePriority(p)
  BY <1>1, <1>8 DEF SavePriority, Return, Idle
<1> QED
  BY <1>2, <1>3, <1>4, <1>5, <1>6, <1>7, <1>8

(* Steps of a scan. *)
LEMMA OrderlyScan ==
  ASSUME ScannedInv, NEW p \in Process, Scan(p)
  PROVE  Orderly(proc[p])' /\ CompleteMeansScanned'
<1>1. proc[p] \in Mem /\ proc \in [Process -> Mem] /\ Orderly(proc[p]) /\ CompleteMeansScanned
      /\ queue \in [Key -> Row] /\ proc[p].key \in Key
  BY DEF ScannedInv, IInv, Types, Mem
<1>2. proc[p].at \in {"scan", "stored", "check"} /\ job # "SUCCEEDED" /\ Taken \subseteq {proc[p].key}
  BY <1>1 DEF Scan, SkipUnreadable, SkipExcluded, StoreEntry, QueueChild, NextEntry, CancelScan,
              PauseScan, EndScan, AtEntry, Orderly
<1>3. job' = job
  BY DEF Scan, SkipUnreadable, SkipExcluded, StoreEntry, QueueChild, NextEntry, CancelScan,
         PauseScan, EndScan
<1>4. CompleteMeansScanned'
  BY <1>2, <1>3 DEF CompleteMeansScanned
<1>5. CASE SkipUnreadable(p) \/ SkipExcluded(p)
  <2>1. queue' = queue /\ proc'[p].at = "scan" /\ proc'[p].key = proc[p].key
    BY <1>1, <1>5 DEF SkipUnreadable, SkipExcluded, AtEntry, Mem
  <2> QED
    BY <1>2, <1>3, <1>4, <2>1 DEF Orderly, Taken
<1>6. CASE StoreEntry(p)
  <2>1. queue' = queue /\ proc'[p].at \in {"stored", "check"} /\ proc'[p].key = proc[p].key
    BY <1>1, <1>6 DEF StoreEntry, Mem
  <2> QED
    BY <1>2, <1>3, <1>4, <2>1 DEF Orderly, Taken
<1>7. CASE QueueChild(p)
  <2>1. proc'[p].at = "check" /\ proc'[p].key = proc[p].key
    BY <1>1, <1>7 DEF QueueChild, GoTo, Mem
  <2>2. Taken' \subseteq Taken
    BY <1>1, <1>7 DEF QueueChild, Enqueue, Taken, NewRow, NoRow
  <2> QED
    BY <1>2, <1>3, <1>4, <2>1, <2>2 DEF Orderly
<1>8. CASE NextEntry(p)
  <2>1. queue' = queue /\ proc'[p].at = "scan" /\ proc'[p].key = proc[p].key
    BY <1>1, <1>8 DEF NextEntry, GoTo, Mem
  <2> QED
    BY <1>2, <1>3, <1>4, <2>1 DEF Orderly, Taken
<1>9. CASE CancelScan(p)
  <2>1. proc'[p].at = "sync" /\ proc'[p].wish = "cancel"
    BY <1>1, <1>9 DEF CancelScan, GoTo, Mem
  <2> QED
    BY <1>2, <1>3, <1>4, <2>1 DEF Orderly
<1>10. CASE PauseScan(p) \/ EndScan(p)
  <2>1. proc'[p].at = "sync"
    BY <1>1, <1>10 DEF PauseScan, EndScan, GoTo, Mem
  <2>2. Taken' = {}
    <3>1. CASE PauseScan(p)
      BY <1>1, <1>2, <3>1 DEF PauseScan, SaveCursor, Taken, Row
    <3>2. CASE EndScan(p)
      BY <1>1, <1>2, <3>2 DEF EndScan, MarkDone, Taken, Row
    <3> QED
      BY <1>10, <3>1, <3>2
  <2> QED
    BY <1>2, <1>3, <1>4, <2>1, <2>2 DEF Orderly
<1> QED
  BY <1>5, <1>6, <1>7, <1>8, <1>9, <1>10 DEF Scan

(* The other steps that change rows, and the end of the queue. *)
LEMMA OrderlyRows ==
  ASSUME ScannedInv, NEW p \in Process,
         StartIndex(p) \/ ResetQueue(p) \/ MarkItem(p) \/ FinishQueue(p) \/ PrioritizeNode(p)
  PROVE  Orderly(proc[p])' /\ CompleteMeansScanned'
<1>1. proc[p] \in Mem /\ proc \in [Process -> Mem] /\ Orderly(proc[p]) /\ CompleteMeansScanned
      /\ queue \in [Key -> Row] /\ proc[p].key \in Key /\ Fresh
  BY DEF ScannedInv, IInv, Types, Mem
<1>2. CASE StartIndex(p)
  <2>1. job' = "QUEUED" /\ proc'[p].at = "begin"
    BY <1>1, <1>2 DEF StartIndex, GoTo, Mem
  <2>2. Taken' = {}
    BY <1>1, <1>2 DEF StartIndex, Fresh, Enqueue, NewRow, NoRow, Taken
  <2> QED
    BY <2>1, <2>2 DEF Orderly, CompleteMeansScanned
<1>3. CASE ResetQueue(p)
  <2>1. job' = job /\ job # "SUCCEEDED" /\ proc'[p].at = "reset"
    BY <1>1, <1>3 DEF ResetQueue, GoTo, Mem, Orderly
  <2>2. Taken' = {}
    BY <1>1, <1>3 DEF ResetQueue, Requeued, Row, Taken
  <2> QED
    BY <2>1, <2>2 DEF Orderly, CompleteMeansScanned
<1>4. CASE MarkItem(p)
  <2>1. /\ job' = job /\ job # "SUCCEEDED" /\ proc'[p].at = "scan" /\ proc'[p].key = proc[p].key
        /\ Taken = {}
    BY <1>1, <1>4 DEF MarkItem, GoTo, Mem, Orderly
  <2>2. Taken' \subseteq {proc[p].key}
    BY <1>1, <1>4, <2>1 DEF MarkItem, Taken
  <2> QED
    BY <2>1, <2>2 DEF Orderly, CompleteMeansScanned
<1>5. CASE FinishQueue(p)
  <2> DEFINE final == FinalStatus(proc[p].cov)
  <2>1. /\ UNCHANGED <<job, coverage, queue>> /\ job # "SUCCEEDED" /\ Taken = {}
        /\ \A k \in Key : queue[k].status # "QUEUED"
    BY <1>1, <1>5 DEF FinishQueue, Finish, Orderly
  <2>2. /\ proc'[p].at = "finish" /\ proc'[p].job = (IF final = "COMPLETE" THEN "SUCCEEDED" ELSE "PARTIAL")
        /\ proc'[p].cov.status = final
    BY <1>1, <1>5 DEF FinishQueue, Finish, Mem, Coverage
  <2>3. TreeDone
    <3>1. \A d \in Dir : <<d, "TREE">> \in Key
      BY DEF Key
    <3> QED
      BY <1>1, <2>1, <3>1 DEF TreeDone, Taken, Row
  <2>4. TreeDone'
    BY <2>1, <2>3 DEF TreeDone
  <2> HIDE DEF final
  <2> QED
    BY <2>1, <2>2, <2>4 DEF Orderly, CompleteMeansScanned
<1>6. CASE PrioritizeNode(p)
  <2>1. job' = job /\ coverage' = coverage /\ proc'[p].at = "prioritized" /\ proc'[p].job = job
    BY <1>1, <1>6 DEF PrioritizeNode, Mem
  <2>2. PICK d \in Dir : Enqueue(<<d, "SELECTED_SCOPE">>, 0)
    BY <1>6, IndexAssumption DEF PrioritizeNode
  <2>3. \A c \in Dir : queue'[<<c, "TREE">>] = queue[<<c, "TREE">>]
    <3>1. \A c \in Dir : <<c, "TREE">> \in Key /\ <<c, "TREE">> # <<d, "SELECTED_SCOPE">>
      BY DEF Key
    <3> QED
      BY <1>1, <2>2, <3>1 DEF Enqueue
  <2>4. TreeDone => TreeDone'
    BY <2>3 DEF TreeDone
  <2> QED
    BY <1>1, <2>1, <2>4 DEF Orderly, CompleteMeansScanned
<1> QED
  BY <1>2, <1>3, <1>4, <1>5, <1>6

LEMMA NextScannedInv == ScannedInv /\ TakeTurns /\ TakeTurns' /\ [Next]_vars => ScannedInv'
<1> SUFFICES ASSUME ScannedInv, TakeTurns, TakeTurns', [Next]_vars PROVE ScannedInv'
  OBVIOUS
<1>1. IInv'
  BY NextIInv DEF ScannedInv
<1>2. CASE UNCHANGED vars
  BY <1>1, <1>2 DEF vars, ScannedInv, CompleteMeansScanned, TreeDone, Orderly, Taken
<1>3. ASSUME NEW p \in Process, Work(p) \/ Command(p) \/ SyncBatch(p) \/ RequestStop(p) \/ Die(p)
      PROVE  ScannedInv'
  <2>1. Orderly(proc[p])' /\ CompleteMeansScanned'
    BY <1>3, OrderlyRun, OrderlyCommand, OrderlyScan, OrderlyRows DEF Work, Command
  <2>2. ASSUME NEW q \in Process, q # p PROVE Orderly(proc[q])'
    <3>1. proc'[q] = Idle
      BY <1>3, <2>2, OthersIdle DEF ScannedInv, IInv
    <3> QED
      BY <3>1 DEF Orderly, Idle
  <2> QED
    BY <1>1, <2>1, <2>2 DEF ScannedInv
<1> QED
  BY <1>2, <1>3 DEF Next

(* While calls do not overlap: a job that has SUCCEEDED is COMPLETE and has   *)
(* finished every directory that was ever queued, however many processes     *)
(* took turns with it, stopped it, died in it and resumed it, and whatever    *)
(* was prioritized (reset_interrupted_fs_queue).                             *)
THEOREM CompleteTheorem == Spec /\ []TakeTurns => []CompleteMeansScanned
<1>1. ScannedInv => CompleteMeansScanned
  BY DEF ScannedInv
<1> QED
  BY <1>1, NextScannedInv, InitScannedInv, PTL DEF Spec
=============================================================================
