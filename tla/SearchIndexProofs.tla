------------------------- MODULE SearchIndexProofs -------------------------
(***************************************************************************)
(* Proofs about SearchIndex for any number of sources, jobs, processes and  *)
(* queries, and every batch size.                                           *)
(***************************************************************************)
EXTENDS SearchIndex, TLAPS

-----------------------------------------------------------------------------
(* Types *)

LEMMA DocShape ==
  ASSUME NEW d \in Doc
  PROVE  d[1] \in Source /\ d[1] \in 0..Sources /\ d[2] \in Nat
BY SearchAssumption DEF Doc, Source

LEMMA RowIsDoc ==
  ASSUME TypeOK, NEW s \in Source, rows[s] # 0
  PROVE  <<s, rows[s]>> \in Doc
<1>1. rows[s] \in 1..MaxRevision[s]
  BY SearchAssumption DEF TypeOK
<1> QED
  BY <1>1 DEF Doc

LEMMA IdleType == Idle \in Proc
BY SearchAssumption DEF Idle, Proc, Stopped

LEMMA AskType == NoDocs \in [Doc -> Mark] /\ NotAsking \in Ask
<1>1. NoDocs \in [Doc -> Mark]
  BY DEF NoDocs, Mark
<1> QED
  BY <1>1 DEF NotAsking, Ask, Key

LEMMA InitType == Init => TypeOK
<1> SUFFICES ASSUME Init PROVE TypeOK
  OBVIOUS
<1>1. rows \in [Source -> Nat] /\ \A s \in Source : rows[s] <= MaxRevision[s]
  BY SearchAssumption DEF Init
<1> QED
  BY <1>1, IdleType, AskType, SearchAssumption DEF Init, TypeOK, Status

-----------------------------------------------------------------------------
(* Nothing is left out *)

(* The row that source s had, or a later one, is indexed or taken. *)
Reached(m, s) ==
  \/ Indexed(m.job, s)
  \/ \E d \in m.documents : d[1] = s /\ owed[m.job][s] <= d[2]

OnJob == {"admitted", "informed", "cancel", "begin", "loop", "rows", "mark", "save",
          "finish", "finishing"}

(* What a batch is: rows after the cursor, one of each source, none left     *)
(* out, and none older than when the job was created.                       *)
BatchSound(m) ==
  /\ \A c, d \in m.batch : c[1] = d[1] => c = d
  /\ \A d \in m.batch :
       /\ m.after < d[1]
       /\ owed[m.job][d[1]] <= d[2]
       /\ \A s \in Source : m.after < s /\ s < d[1] /\ owed[m.job][s] # 0 =>
            \E c \in m.batch : c[1] = s

(* What a process has passed is reached; it may write its position when it   *)
(* holds no documents.                                                      *)
Sound(m) ==
  /\ m.current <= m.after
  /\ m.at \in {"numbered", "reserved", "admitted"} => m.after = 0
  /\ m.at \notin {"rows", "mark"} => m.documents = {}
  /\ m.at \in OnJob =>
       /\ m.job \in Job
       /\ status[m.job] # "none"
       /\ \A s \in Source : s <= m.after /\ owed[m.job][s] # 0 => Reached(m, s)
  /\ m.at \in {"rows", "mark"} => BatchSound(m)
  /\ m.at = "finish" /\ m.final = "SUCCEEDED" =>
       \A s \in Source : owed[m.job][s] # 0 => Indexed(m.job, s)

JobSound(j) ==
  /\ status[j] = "none" => checkpoint[j] = 0
  /\ \A s \in Source :
       /\ owed[j][s] <= rows[s]
       /\ owed[j][s] # 0 /\ (s <= checkpoint[j] \/ status[j] = "SUCCEEDED") => Indexed(j, s)

Memories == {proc[p] : p \in Process}

(* The inductive invariant of SucceededCovers. *)
IInv ==
  /\ TypeOK
  /\ \A j \in Job : JobSound(j)
  /\ \A m \in Memories : Sound(m)

(* Documents are never taken back, and jobs stay the jobs they are. *)
Grows ==
  /\ \A d \in Doc : docs[d] # "none" => docs'[d] # "none"
  /\ \A j \in Job : status[j] # "none" => status'[j] # "none" /\ owed'[j] = owed[j]

LEMMA IndexedStays ==
  ASSUME Grows, NEW j \in Job, status[j] # "none", NEW s \in Source, Indexed(j, s)
  PROVE  Indexed(j, s)'
BY DEF Indexed, Stored, Grows

LEMMA SoundStays ==
  ASSUME Grows, NEW m \in Proc, Sound(m)
  PROVE  Sound(m)'
<1>1. CASE m.at \in OnJob
  <2>1. m.job \in Job /\ status[m.job] # "none" /\ status'[m.job] # "none" /\ owed'[m.job] = owed[m.job]
    BY <1>1 DEF Sound, Grows
  <2>2. \A s \in Source : Indexed(m.job, s) => Indexed(m.job, s)'
    BY <2>1, IndexedStays
  <2>3. \A s \in Source : Reached(m, s) => Reached(m, s)'
    BY <2>1, <2>2 DEF Reached
  <2>4. BatchSound(m) => BatchSound(m)'
    BY <2>1 DEF BatchSound
  <2> QED
    BY <2>1, <2>2, <2>3, <2>4 DEF Sound
<1>2. CASE m.at \notin OnJob
  BY <1>2 DEF Sound, OnJob
<1> QED
  BY <1>1, <1>2

(* One process goes on to c. *)
LEMMA ProcStep ==
  ASSUME IInv, Grows, NEW p \in Process, NEW c \in Proc, Sound(c)',
         proc' = [proc EXCEPT ![p] = c],
         \A j \in Job : JobSound(j)',
         UNCHANGED <<rows, ask>>,
         docs' \in [Doc -> Mark], latest' \in Nat, status' \in [Job -> Status],
         checkpoint' \in [Job -> 0..Sources], numbered' \in [Job -> Nat],
         cache' \subseteq Entry, owed' \in [Job -> [Source -> Nat]],
         known' \in [1..MaxIndex -> SUBSET SUBSET Doc]
  PROVE  IInv'
<1>1. TypeOK'
  BY DEF TypeOK, IInv
<1>2. ASSUME NEW m \in Memories' PROVE Sound(m)'
  <2>1. PICK q \in Process : m = proc'[q]
    BY DEF Memories
  <2>2. CASE q = p
    BY <2>1, <2>2 DEF IInv, TypeOK
  <2>3. CASE q # p
    <3>1. m \in Proc /\ Sound(m)
      BY <2>1, <2>3 DEF IInv, TypeOK, Memories
    <3> QED
      BY <3>1, SoundStays
  <2> QED
    BY <2>2, <2>3
<1> QED
  BY <1>1, <1>2 DEF IInv

(* One process goes on to c and no document, job or row changes. *)
LEMMA QuietStep ==
  ASSUME IInv, NEW p \in Process, NEW c \in Proc, Sound(c),
         proc' = [proc EXCEPT ![p] = c],
         UNCHANGED <<rows, docs, status, checkpoint, owed, ask>>,
         latest' \in Nat, numbered' \in [Job -> Nat],
         cache' \subseteq Entry, known' \in [1..MaxIndex -> SUBSET SUBSET Doc]
  PROVE  IInv'
<1>1. Grows
  BY DEF Grows
<1>2. Sound(c)'
  BY <1>1, SoundStays
<1>3. \A j \in Job : JobSound(j)'
  BY DEF IInv, JobSound, Indexed, Stored
<1> QED
  BY <1>1, <1>2, <1>3, ProcStep DEF IInv, TypeOK

(* A job gets another status; SUCCEEDED only when everything is indexed. *)
LEMMA StatusStep ==
  ASSUME IInv, NEW p \in Process, NEW c \in Proc, Sound(c),
         proc' = [proc EXCEPT ![p] = c],
         NEW j \in Job, NEW word \in Status \ {"none"}, status[j] # "none",
         status' = [status EXCEPT ![j] = word],
         word = "SUCCEEDED" => \A s \in Source : owed[j][s] # 0 => Indexed(j, s),
         UNCHANGED <<rows, docs, latest, checkpoint, numbered, cache, owed, known, ask>>
  PROVE  IInv'
<1>1. Grows
  BY DEF Grows, IInv, TypeOK
<1>2. Sound(c)'
  BY <1>1, SoundStays
<1>3. ASSUME NEW k \in Job PROVE JobSound(k)'
  BY DEF IInv, TypeOK, JobSound, Indexed, Stored
<1> QED
  BY <1>1, <1>2, <1>3, ProcStep DEF IInv, TypeOK

(* A process writes its position, when it holds no documents. *)
LEMMA PositionStep ==
  ASSUME IInv, NEW p \in Process, NEW c \in Proc, Sound(c),
         proc' = [proc EXCEPT ![p] = c],
         proc[p].at \in OnJob \ {"rows", "mark"},
         checkpoint' = [checkpoint EXCEPT ![proc[p].job] = proc[p].current],
         UNCHANGED <<rows, docs, latest, status, numbered, cache, owed, known, ask>>
  PROVE  IInv'
<1>0. proc[p] \in Proc /\ Sound(proc[p])
  BY DEF IInv, TypeOK, Memories
<1>1. Grows
  BY DEF Grows
<1>2. Sound(c)'
  BY <1>1, SoundStays
<1> DEFINE j == proc[p].job
           n == proc[p].current
<1>3. /\ j \in Job /\ status[j] # "none" /\ n \in 0..Sources
      /\ \A s \in Source : s <= n /\ owed[j][s] # 0 => Indexed(j, s)
  <2>1. /\ j \in Job /\ status[j] # "none" /\ n \in 0..Sources /\ proc[p].after \in 0..Sources
        /\ n <= proc[p].after /\ proc[p].documents = {}
        /\ \A s \in Source : s <= proc[p].after /\ owed[j][s] # 0 => Reached(proc[p], s)
    BY <1>0 DEF Sound, Proc
  <2> QED
    BY <2>1, SearchAssumption DEF Reached, Source
<1>4. checkpoint' \in [Job -> 0..Sources]
  BY <1>3 DEF IInv, TypeOK
<1>5. ASSUME NEW k \in Job PROVE JobSound(k)'
  <2>1. CASE k = j
    BY <1>3, <2>1 DEF IInv, TypeOK, JobSound, Indexed, Stored
  <2>2. CASE k # j
    BY <2>2 DEF IInv, TypeOK, JobSound, Indexed, Stored
  <2> QED
    BY <2>1, <2>2
<1> QED
  BY <1>1, <1>2, <1>4, <1>5, ProcStep DEF IInv, TypeOK

-----------------------------------------------------------------------------

LEMMA IdleSound ==
  /\ Idle \in Proc
  /\ Idle.at = "idle" /\ Idle.after = 0 /\ Idle.current = 0 /\ Idle.documents = {}
  /\ Sound(Idle)
  /\ \A s \in Source : ~(s <= 0)
BY IdleType, SearchAssumption DEF Idle, Sound, OnJob, Proc, Source

LEMMA Remembered ==
  ASSUME IInv, NEW p \in Process
  PROVE  proc[p] \in Proc /\ Sound(proc[p])
BY DEF IInv, TypeOK, Memories

LEMMA InitIInv == Init => IInv
<1> SUFFICES ASSUME Init PROVE IInv
  OBVIOUS
<1>1. TypeOK
  BY InitType
<1>2. \A j \in Job : JobSound(j)
  BY SearchAssumption DEF Init, JobSound, TypeOK
<1>3. \A m \in Memories : Sound(m)
  BY IdleSound DEF Init, Memories
<1> QED
  BY <1>1, <1>2, <1>3 DEF IInv

-----------------------------------------------------------------------------
(* One lemma for each group of actions *)

LEMMA ReserveStep ==
  ASSUME IInv, NEW p \in Process, ReadRevision(p) \/ ReserveRevision(p)
  PROVE  IInv'
<1>1. proc[p] \in Proc /\ Sound(proc[p]) /\ latest \in Nat /\ proc[p].base \in Nat
  BY Remembered DEF IInv, TypeOK, Proc
<1>2. CASE ReadRevision(p)
  <2> DEFINE r == latest + 1
             c == [proc[p] EXCEPT !.at = "numbered", !.base = r]
  <2>1. c \in Proc
    <3>1. r \in Nat
      BY <1>1
    <3> HIDE DEF r
    <3> QED
      BY <1>1, <3>1 DEF Proc
  <2>2. c.at = "numbered" /\ c.after = 0 /\ c.current = 0 /\ c.documents = {}
    BY <1>1, <1>2, IdleSound DEF ReadRevision, Proc
  <2>3. Sound(c)
    BY <2>2 DEF Sound, OnJob
  <2> QED
    BY <1>2, <2>1, <2>3, QuietStep DEF ReadRevision, index, IInv, TypeOK
<1>3. CASE ReserveRevision(p)
  <2> DEFINE c == [proc[p] EXCEPT !.at = "reserved"]
  <2>1. c \in Proc /\ Sound(c)
    BY <1>1, <1>3 DEF ReserveRevision, Proc, Sound, OnJob
  <2>2. known' \in [1..MaxIndex -> SUBSET SUBSET Doc]
    BY <1>3 DEF ReserveRevision, Stored, IInv, TypeOK
  <2>3. proc' = [proc EXCEPT ![p] = c]
    BY <1>3 DEF ReserveRevision, GoTo
  <2> QED
    BY <1>1, <1>3, <2>1, <2>2, <2>3, QuietStep DEF ReserveRevision, IInv, TypeOK
<1> QED
  BY <1>2, <1>3

LEMMA CreateStep ==
  ASSUME IInv, NEW p \in Process, CreateJob(p)
  PROVE  IInv'
<1>1. proc[p] \in Proc /\ Sound(proc[p]) /\ proc[p].base \in Nat /\ rows \in [Source -> Nat]
  BY Remembered DEF IInv, TypeOK, Proc
<1>2. PICK j \in Job :
        /\ status[j] = "none"
        /\ status' = [status EXCEPT ![j] = "QUEUED"]
        /\ owed' = [owed EXCEPT ![j] = rows]
        /\ proc' = [proc EXCEPT ![p].at = "begin", ![p].job = j]
        /\ numbered' = [numbered EXCEPT ![j] = proc[p].base]
  BY DEF CreateJob
<1>3. PICK c \in Proc : c = [proc[p] EXCEPT !.at = "begin", !.job = j]
  BY <1>1 DEF Proc, Running
<1>4. Grows
  BY <1>2 DEF CreateJob, Grows, IInv, TypeOK
<1>5. Sound(c)'
  <2>1. /\ c.at = "begin" /\ c.job = j /\ c.after = 0 /\ c.current <= 0 /\ c.documents = {}
        /\ status'[j] # "none"
    BY <1>1, <1>2, <1>3 DEF CreateJob, Sound, Proc, IInv, TypeOK
  <2>2. \A s \in Source : ~(s <= c.after)
    BY <2>1, SearchAssumption DEF Source
  <2> QED
    BY <2>1, <2>2 DEF Sound
<1>6. ASSUME NEW k \in Job PROVE JobSound(k)'
  <2>1. CASE k = j
    <3>1. checkpoint'[k] = 0 /\ status'[k] = "QUEUED" /\ owed'[k] = rows /\ rows' = rows
      BY <1>2, <2>1 DEF CreateJob, IInv, TypeOK, JobSound
    <3> QED
      BY <1>1, <3>1, SearchAssumption DEF JobSound, Source
  <2>2. CASE k # j
    BY <1>2, <2>2 DEF CreateJob, IInv, TypeOK, JobSound, Indexed, Stored
  <2> QED
    BY <2>1, <2>2
<1>7. proc' = [proc EXCEPT ![p] = c]
  BY <1>2, <1>3
<1>8. status' \in [Job -> Status] /\ owed' \in [Job -> [Source -> Nat]] /\ numbered' \in [Job -> Nat]
  BY <1>1, <1>2 DEF IInv, TypeOK, Status
<1> QED
  <2>1. UNCHANGED <<rows, docs, latest, checkpoint, cache, known, ask>>
    BY DEF CreateJob
  <2> QED
    BY <1>4, <1>5, <1>6, <1>7, <1>8, <2>1, ProcStep DEF IInv, TypeOK

LEMMA ResumeStep ==
  ASSUME IInv, NEW p \in Process,
         CheckResume(p) \/ ReadCheckpoint(p) \/ ResumeJob(p) \/ BeginRun(p)
  PROVE  IInv'
<1>1. proc[p] \in Proc /\ Sound(proc[p]) /\ checkpoint \in [Job -> 0..Sources] /\ numbered \in [Job -> Nat]
  BY Remembered DEF IInv, TypeOK
<1>2. CASE CheckResume(p)
  <2>1. PICK j \in Job :
          /\ status[j] # "none"
          /\ proc' = [proc EXCEPT ![p].at = "admitted", ![p].job = j, ![p].base = numbered[j]]
    BY <1>2 DEF CheckResume
  <2> DEFINE c == [proc[p] EXCEPT !.at = "admitted", !.job = j, !.base = numbered[j]]
  <2>2. c \in Proc
    BY <1>1 DEF Proc
  <2>3. c.at = "admitted" /\ c.job = j /\ c.after = 0 /\ c.current = 0 /\ c.documents = {}
    BY <1>1, <1>2, IdleSound DEF CheckResume, Proc
  <2>4. Sound(c)
    BY <2>1, <2>3, IdleSound DEF Sound
  <2>5. UNCHANGED <<rows, index, ask>>
    BY <1>2 DEF CheckResume
  <2> QED
    BY <2>1, <2>2, <2>4, <2>5, QuietStep DEF index, IInv, TypeOK
<1>3. CASE ReadCheckpoint(p)
  <2> DEFINE j == proc[p].job
             c == [proc[p] EXCEPT !.at = "informed", !.after = checkpoint[j]]
  <2>1. /\ j \in Job /\ status[j] # "none" /\ JobSound(j)
        /\ proc[p].current <= 0 /\ proc[p].documents = {}
    BY <1>1, <1>3 DEF ReadCheckpoint, Sound, OnJob, IInv
  <2>2. c \in Proc
    BY <1>1, <2>1 DEF Proc
  <2>3. Sound(c)
    <3>1. /\ c.at = "informed" /\ c.job = j /\ c.after = checkpoint[j] /\ c.current <= c.after
          /\ c.documents = {}
      BY <1>1, <2>1 DEF Proc
    <3> QED
      BY <2>1, <3>1 DEF Sound, Reached, JobSound
  <2>4. proc' = [proc EXCEPT ![p] = c] /\ UNCHANGED <<rows, index, ask>>
    BY <1>3 DEF ReadCheckpoint
  <2> QED
    BY <2>2, <2>3, <2>4, QuietStep DEF index, IInv, TypeOK
<1>4. CASE ResumeJob(p)
  <2> DEFINE c == [proc[p] EXCEPT !.at = "begin"]
  <2>1. c \in Proc /\ Sound(c) /\ proc[p].job \in Job /\ status[proc[p].job] # "none"
    BY <1>1, <1>4 DEF ResumeJob, Proc, Running, Sound, Reached, OnJob
  <2>2. /\ proc' = [proc EXCEPT ![p] = c]
        /\ status' = [status EXCEPT ![proc[p].job] = "RESUMING"]
        /\ UNCHANGED <<rows, docs, latest, checkpoint, numbered, cache, owed, known, ask>>
    BY <1>4 DEF ResumeJob, GoTo
  <2>3. {"RESUMING", "RUNNING"} \subseteq Status \ {"none"}
    BY DEF Status
  <2> HIDE DEF c
  <2> QED
    BY <2>1, <2>2, <2>3, StatusStep
<1>5. CASE BeginRun(p)
  <2> DEFINE c == [proc[p] EXCEPT !.at = "loop"]
  <2>1. c \in Proc /\ Sound(c) /\ proc[p].job \in Job /\ status[proc[p].job] # "none"
    BY <1>1, <1>5 DEF BeginRun, Proc, Running, Sound, Reached, OnJob
  <2>2. /\ proc' = [proc EXCEPT ![p] = c]
        /\ status' = [status EXCEPT ![proc[p].job] = "RUNNING"]
        /\ UNCHANGED <<rows, docs, latest, checkpoint, numbered, cache, owed, known, ask>>
    BY <1>5 DEF BeginRun, GoTo
  <2>3. {"RESUMING", "RUNNING"} \subseteq Status \ {"none"}
    BY DEF Status
  <2> HIDE DEF c
  <2> QED
    BY <2>1, <2>2, <2>3, StatusStep
<1> QED
  BY <1>2, <1>3, <1>4, <1>5

LEMMA LoopStep ==
  ASSUME IInv, NEW p \in Process, StopRun(p) \/ FinishSources(p)
  PROVE  IInv'
<1>1. proc[p] \in Proc /\ Sound(proc[p])
  BY Remembered
<1>2. PICK final \in Stopped :
        /\ proc' = [proc EXCEPT ![p].at = "finish", ![p].final = final]
        /\ final = "SUCCEEDED" => FinishSources(p)
  BY DEF StopRun, FinishSources, Finish, Stopped
<1>3. proc[p].at = "loop" /\ UNCHANGED <<rows, index, ask>>
  BY DEF StopRun, FinishSources, Finish
<1> DEFINE c == [proc[p] EXCEPT !.at = "finish", !.final = final]
           j == proc[p].job
<1>4. c \in Proc
  BY <1>1 DEF Proc, Running
<1>5. /\ j \in Job /\ status[j] # "none" /\ proc[p].documents = {}
      /\ \A s \in Source : s <= proc[p].after /\ owed[j][s] # 0 => Indexed(j, s)
  BY <1>1, <1>3 DEF Sound, Reached, OnJob
<1>6. ASSUME final = "SUCCEEDED", NEW s \in Source, owed[j][s] # 0
      PROVE  Indexed(j, s)
  <2>1. rows[s] # 0
    <3>1. owed[j][s] \in Nat /\ rows[s] \in Nat /\ owed[j][s] <= rows[s]
      BY <1>5 DEF IInv, TypeOK, JobSound
    <3> QED
      BY <1>6, <3>1
  <2>2. ~(s > proc[p].after)
    BY <1>2, <1>6, <2>1 DEF FinishSources, Ahead
  <2>3. s \in Nat /\ proc[p].after \in Nat
    BY <1>1, SearchAssumption DEF Source, Proc
  <2> QED
    BY <1>5, <1>6, <2>2, <2>3
<1>7. Sound(c)
  <2>1. /\ c.at = "finish" /\ c.job = j /\ c.after = proc[p].after /\ c.documents = {}
        /\ c.final = final /\ c.current <= c.after
    BY <1>1, <1>5 DEF Proc, Sound
  <2> QED
    BY <1>5, <1>6, <2>1 DEF Sound, Reached
<1> QED
  BY <1>2, <1>3, <1>4, <1>7, QuietStep DEF index, IInv, TypeOK

LEMMA ReadStep ==
  ASSUME IInv, NEW p \in Process, ReadBatch(p)
  PROVE  IInv'
<1>1. proc[p] \in Proc /\ Sound(proc[p]) /\ proc[p].at = "loop"
  BY Remembered DEF ReadBatch
<1>2. PICK taken \in SUBSET Ahead(p) :
        /\ \A s \in Ahead(p) \ taken : \A t \in taken : t < s
        /\ proc' = [proc EXCEPT ![p].at = "rows", ![p].batch = {<<s, rows[s]>> : s \in taken}]
  BY DEF ReadBatch
<1> DEFINE B == {<<s, rows[s]>> : s \in taken}
           c == [proc[p] EXCEPT !.at = "rows", !.batch = B]
           j == proc[p].job
<1>3. j \in Job /\ status[j] # "none" /\ JobSound(j)
  BY <1>1 DEF Sound, OnJob, IInv
<1>4. B \subseteq Doc
  BY <1>2, RowIsDoc DEF Ahead, IInv
<1>5. c \in Proc
  <2> HIDE DEF B
  <2> QED
    BY <1>1, <1>4 DEF Proc, Running
<1>6. BatchSound(c)
  <2>1. c.batch = B /\ c.after = proc[p].after /\ c.job = j
    BY <1>1 DEF Proc
  <2>2. \A d \in B : d[1] \in taken /\ d = <<d[1], rows[d[1]]>>
    OBVIOUS
  <2>3. ASSUME NEW d \in B
        PROVE  c.after < d[1] /\ owed[c.job][d[1]] <= d[2]
    BY <1>2, <1>3, <2>1, <2>2 DEF Ahead, JobSound
  <2>4. ASSUME NEW d \in B, NEW s \in Source, c.after < s, s < d[1], owed[c.job][s] # 0
        PROVE  \E e \in B : e[1] = s
    <3>1. rows[s] # 0
      <4>1. owed[j][s] \in Nat /\ rows[s] \in Nat /\ owed[j][s] <= rows[s]
        BY <1>3 DEF IInv, TypeOK, JobSound
      <4> QED
        BY <2>1, <2>4, <4>1
    <3>2. s \in Nat /\ d[1] \in Nat /\ d[1] \in taken /\ proc[p].after \in Nat
      BY <1>1, <1>4, <2>2, DocShape, SearchAssumption DEF Source, Proc
    <3>3. s \in Ahead(p)
      BY <2>1, <2>4, <3>1, <3>2 DEF Ahead
    <3>4. s \in taken
      BY <1>2, <2>4, <3>2, <3>3
    <3>5. <<s, rows[s]>> \in B /\ <<s, rows[s]>>[1] = s
      BY <3>4
    <3> QED
      BY <3>5
  <2> QED
    BY <2>1, <2>2, <2>3, <2>4 DEF BatchSound
<1>7. Sound(c)
  <2>1. /\ c.at = "rows" /\ c.job = j /\ c.after = proc[p].after /\ c.current <= c.after
        /\ c.documents = proc[p].documents
    BY <1>1 DEF Proc, Sound
  <2> HIDE DEF c
  <2> QED
    BY <1>1, <1>3, <1>6, <2>1 DEF Sound, Reached, OnJob
<1>8. proc' = [proc EXCEPT ![p] = c] /\ UNCHANGED <<rows, index, ask>>
  BY <1>2 DEF ReadBatch
<1> HIDE DEF c
<1> QED
  BY <1>5, <1>7, <1>8, QuietStep DEF index, IInv, TypeOK

(* Documents are added or marked; one process goes on to c. *)
LEMMA DocsStep ==
  ASSUME IInv, NEW p \in Process, NEW c \in Proc, Sound(c)',
         proc' = [proc EXCEPT ![p] = c],
         docs' \in [Doc -> Mark], \A d \in Doc : docs[d] # "none" => docs'[d] # "none",
         latest' \in Nat,
         UNCHANGED <<rows, status, checkpoint, numbered, cache, owed, known, ask>>
  PROVE  IInv'
<1>1. Grows
  BY DEF Grows
<1>2. ASSUME NEW j \in Job PROVE JobSound(j)'
  BY DEF IInv, JobSound, Indexed, Stored
<1> QED
  BY <1>1, <1>2, ProcStep DEF IInv, TypeOK

(* The first row of the batch is passed, when it is indexed or taken. *)
LEMMA FirstPassed ==
  ASSUME IInv, NEW p \in Process, proc[p].at \in {"rows", "mark"},
         NEW d \in First(p), NEW c \in Proc,
         c.at = "rows", c.job = proc[p].job, c.batch = proc[p].batch \ {d},
         c.after = d[1], c.current = d[1], proc[p].documents \subseteq c.documents,
         d \in Stored \/ d \in c.documents
  PROVE  Sound(c)
<1> DEFINE m == proc[p]
           j == m.job
<1>1. /\ m \in Proc /\ BatchSound(m) /\ j \in Job /\ status[j] # "none"
      /\ \A s \in Source : s <= m.after /\ owed[j][s] # 0 => Reached(m, s)
  BY Remembered DEF Sound, OnJob
<1>2. /\ d \in m.batch /\ d \in Doc /\ m.batch \subseteq Doc
      /\ \A e \in m.batch : d[1] <= e[1]
  BY <1>1 DEF First, Proc
<1>3. ASSUME NEW s \in Source, s <= c.after, owed[j][s] # 0
      PROVE  Reached(c, s)
  <2>0. s \in Nat /\ m.after \in Nat /\ d[1] \in Nat /\ d[2] \in Nat /\ owed[j][s] \in Nat
    <3>1. s \in Nat /\ d[1] \in Nat /\ d[2] \in Nat
      BY <1>2, DocShape, SearchAssumption DEF Source
    <3>2. m.after \in Nat /\ owed[j][s] \in Nat
      BY <1>1, SearchAssumption DEF Proc, IInv, TypeOK
    <3> QED
      BY <3>1, <3>2
  <2>1. CASE s <= m.after
    BY <1>1, <1>3, <2>1 DEF Reached
  <2>2. CASE s = d[1]
    <3>1. owed[j][s] <= d[2]
      BY <1>1, <1>2, <2>2 DEF BatchSound
    <3> QED
      BY <2>0, <2>2, <3>1 DEF Reached, Indexed
  <2>3. CASE m.after < s /\ s < d[1]
    <3>1. PICK e \in m.batch : e[1] = s
      BY <1>1, <1>2, <1>3, <2>3 DEF BatchSound
    <3>2. d[1] <= s
      BY <1>2, <3>1
    <3> QED
      BY <2>0, <2>3, <3>2
  <2> QED
    BY <1>3, <2>0, <2>1, <2>2, <2>3
<1>4. BatchSound(c)
  <2>1. ASSUME NEW e \in c.batch PROVE c.after < e[1]
    <3>1. e \in m.batch /\ e # d /\ d[1] <= e[1] /\ e[1] # d[1]
      BY <1>1, <1>2 DEF BatchSound
    <3>2. e[1] \in Nat /\ d[1] \in Nat
      BY <1>2, <3>1, DocShape, SearchAssumption
    <3> QED
      BY <3>1, <3>2
  <2>2. ASSUME NEW e \in c.batch, NEW s \in Source, c.after < s, s < e[1], owed[j][s] # 0
        PROVE  \E f \in c.batch : f[1] = s
    <3>0. s \in Nat /\ m.after \in Nat /\ d[1] \in Nat
      BY <1>1, <1>2, DocShape, SearchAssumption DEF Source, Proc
    <3>1. m.after < s /\ e \in m.batch
      BY <1>1, <1>2, <2>2, <3>0 DEF BatchSound
    <3>2. PICK f \in m.batch : f[1] = s
      BY <1>1, <2>2, <3>1 DEF BatchSound
    <3>3. f # d
      BY <2>2, <3>0, <3>2
    <3> QED
      BY <3>2, <3>3
  <2> QED
    BY <1>1, <2>1, <2>2 DEF BatchSound
<1>5. c.current <= c.after
  BY <1>2, DocShape, SearchAssumption
<1> QED
  BY <1>1, <1>3, <1>4, <1>5 DEF Sound

LEMMA TakeStep ==
  ASSUME IInv, NEW p \in Process, SkipRow(p) \/ TakeRow(p) \/ MarkStale(p)
  PROVE  IInv'
<1>1. proc[p] \in Proc /\ Sound(proc[p]) /\ proc[p].documents \subseteq Doc /\ proc[p].batch \subseteq Doc
  BY Remembered DEF Proc
<1>2. CASE SkipRow(p)
  <2>1. PICK d \in First(p) :
          /\ docs[d] = "current"
          /\ proc' = [proc EXCEPT ![p].batch = @ \ {d}, ![p].after = d[1], ![p].current = d[1]]
    BY <1>2 DEF SkipRow
  <2> DEFINE c == [proc[p] EXCEPT !.batch = @ \ {d}, !.after = d[1], !.current = d[1]]
  <2>2. d \in Doc /\ d \in Stored /\ d[1] \in 0..Sources
    BY <1>1, <2>1, DocShape DEF First, Stored
  <2>3. c \in Proc
    BY <1>1, <2>2 DEF Proc
  <2>4. /\ proc[p].at = "rows" /\ c.at = "rows" /\ c.job = proc[p].job
        /\ c.batch = proc[p].batch \ {d} /\ c.after = d[1] /\ c.current = d[1]
        /\ c.documents = proc[p].documents
    BY <1>1, <1>2 DEF SkipRow, Proc
  <2>5. proc' = [proc EXCEPT ![p] = c] /\ UNCHANGED <<rows, index, ask>>
    BY <1>2, <2>1 DEF SkipRow
  <2> HIDE DEF c
  <2>6. Sound(c)
    BY <2>2, <2>3, <2>4, FirstPassed
  <2> QED
    BY <2>3, <2>5, <2>6, QuietStep DEF index, IInv, TypeOK
<1>3. CASE TakeRow(p)
  <2> DEFINE c == [proc[p] EXCEPT !.at = "mark"]
  <2>1. c \in Proc
    BY <1>1 DEF Proc, Running
  <2>2. /\ proc[p].at = "rows" /\ c.at = "mark" /\ c.job = proc[p].job /\ c.batch = proc[p].batch
        /\ c.after = proc[p].after /\ c.current = proc[p].current /\ c.documents = proc[p].documents
    BY <1>1, <1>3 DEF TakeRow, Proc
  <2>3. proc' = [proc EXCEPT ![p] = c] /\ UNCHANGED <<rows, index, ask>>
    BY <1>3 DEF TakeRow, GoTo
  <2> HIDE DEF c
  <2>4. Sound(c)
    BY <1>1, <2>2 DEF Sound, BatchSound, Reached, OnJob
  <2> QED
    BY <2>1, <2>3, <2>4, QuietStep DEF index, IInv, TypeOK
<1>4. CASE MarkStale(p)
  <2>1. PICK d \in First(p) :
          /\ Supersede(d) /\ TakeDocument(p, d)
          /\ UNCHANGED <<rows, latest, status, checkpoint, numbered, cache, owed, known, ask>>
    BY <1>4 DEF MarkStale
  <2>2. d \in Doc /\ d[1] \in 0..Sources
    BY <1>1, <2>1, DocShape DEF First
  <2>3. PICK c \in Proc :
          c = [proc[p] EXCEPT !.at = "rows", !.batch = @ \ {d}, !.documents = @ \cup {d},
                              !.after = d[1], !.current = d[1]]
    BY <1>1, <2>2 DEF Proc, Running
  <2>4. /\ proc[p].at = "mark" /\ c.at = "rows" /\ c.job = proc[p].job
        /\ c.batch = proc[p].batch \ {d} /\ c.after = d[1] /\ c.current = d[1]
        /\ c.documents = proc[p].documents \cup {d}
    BY <1>1, <1>4, <2>3 DEF MarkStale, Proc
  <2>5. /\ proc' = [proc EXCEPT ![p] = c]
        /\ UNCHANGED <<rows, latest, status, checkpoint, numbered, cache, owed, known, ask>>
    BY <2>1, <2>3 DEF TakeDocument
  <2>6. docs' \in [Doc -> Mark] /\ \A e \in Doc : docs[e] # "none" => docs'[e] # "none"
    BY <2>1 DEF Supersede, Mark, IInv, TypeOK
  <2>7. Sound(c)
    BY <2>2, <2>3, <2>4, FirstPassed
  <2>8. Grows
    BY <2>5, <2>6 DEF Grows
  <2>9. Sound(c)'
    BY <2>7, <2>8, SoundStays
  <2> QED
    BY <2>5, <2>6, <2>9, DocsStep DEF IInv, TypeOK
<1> QED
  BY <1>2, <1>3, <1>4

LEMMA IndexStep ==
  ASSUME IInv, NEW p \in Process, IndexBatch(p) \/ EmptyBatch(p)
  PROVE  IInv'
<1>1. /\ proc[p] \in Proc /\ Sound(proc[p]) /\ proc[p].documents \subseteq Doc
      /\ proc[p].at = "rows" /\ proc[p].base \in Nat /\ latest \in Nat
  BY Remembered DEF Proc, IndexBatch, EmptyBatch, IInv, TypeOK
<1>2. CASE IndexBatch(p)
  <2>1. PICK c \in Proc : c = [proc[p] EXCEPT !.at = "save", !.documents = {}]
    BY <1>1 DEF Proc, Running
  <2>2. /\ c.at = "save" /\ c.job = proc[p].job /\ c.after = proc[p].after
        /\ c.current = proc[p].current /\ c.documents = {}
    BY <1>1, <2>1 DEF Proc
  <2>3. /\ docs' = [d \in Doc |-> IF d \in proc[p].documents THEN "current" ELSE docs[d]]
        /\ latest' \in Nat
        /\ UNCHANGED <<rows, status, checkpoint, numbered, cache, owed, known, ask>>
    BY <1>1, <1>2 DEF IndexBatch
  <2>4. docs' \in [Doc -> Mark] /\ \A d \in Doc : docs[d] # "none" => docs'[d] # "none"
    BY <2>3 DEF Mark, IInv, TypeOK
  <2>5. \A d \in proc[p].documents : d \in Stored'
    BY <1>1, <2>3 DEF Stored
  <2>6. Stored \subseteq Stored'
    BY <2>4 DEF Stored
  <2>7. ASSUME NEW s \in Source, Reached(proc[p], s), proc[p].job \in Job
        PROVE  Reached(c, s)'
    <3> DEFINE j == proc[p].job
    <3>1. owed[j][s] \in Nat /\ \A d \in proc[p].documents : d[2] \in Nat
      BY <1>1, <2>7, DocShape DEF IInv, TypeOK
    <3>2. PICK d \in Stored' : d[1] = s /\ d[2] >= owed[j][s]
      BY <2>5, <2>6, <2>7, <3>1 DEF Reached, Indexed
    <3> QED
      BY <2>2, <2>3, <3>2 DEF Reached, Indexed
  <2>8. Sound(c)'
    BY <1>1, <2>2, <2>3, <2>7 DEF Sound, OnJob
  <2>9. proc' = [proc EXCEPT ![p] = c]
    BY <1>2, <2>1 DEF IndexBatch
  <2> QED
    BY <2>3, <2>4, <2>8, <2>9, DocsStep
<1>3. CASE EmptyBatch(p)
  <2> DEFINE c == [proc[p] EXCEPT !.at = "save"]
  <2>1. c \in Proc
    BY <1>1 DEF Proc, Running
  <2>2. /\ c.at = "save" /\ c.job = proc[p].job /\ c.after = proc[p].after
        /\ c.current = proc[p].current /\ c.documents = {} /\ proc[p].documents = {}
    BY <1>1, <1>3 DEF EmptyBatch, Proc
  <2>3. proc' = [proc EXCEPT ![p] = c] /\ UNCHANGED <<rows, index, ask>>
    BY <1>3 DEF EmptyBatch, GoTo
  <2> HIDE DEF c
  <2>4. Sound(c)
    BY <1>1, <2>2 DEF Sound, Reached, OnJob
  <2> QED
    BY <2>1, <2>3, <2>4, QuietStep DEF index, IInv, TypeOK
<1> QED
  BY <1>2, <1>3

LEMMA SaveStep ==
  ASSUME IInv, NEW p \in Process, SaveCheckpoint(p) \/ FinishCheckpoint(p)
  PROVE  IInv'
<1>1. proc[p] \in Proc /\ Sound(proc[p])
  BY Remembered
<1>2. CASE SaveCheckpoint(p)
  <2> DEFINE c == [proc[p] EXCEPT !.at = "loop"]
  <2>1. c \in Proc
    BY <1>1 DEF Proc, Running
  <2>2. /\ proc[p].at = "save" /\ c.at = "loop" /\ c.job = proc[p].job /\ c.after = proc[p].after
        /\ c.current = proc[p].current /\ c.documents = proc[p].documents
    BY <1>1, <1>2 DEF SaveCheckpoint, Proc
  <2>3. /\ proc' = [proc EXCEPT ![p] = c]
        /\ checkpoint' = [checkpoint EXCEPT ![proc[p].job] = proc[p].current]
        /\ UNCHANGED <<rows, docs, latest, status, numbered, cache, owed, known, ask>>
    BY <1>2 DEF SaveCheckpoint, GoTo
  <2> HIDE DEF c
  <2>4. Sound(c)
    BY <1>1, <2>2 DEF Sound, Reached, OnJob
  <2> QED
    BY <2>1, <2>2, <2>3, <2>4, PositionStep DEF OnJob
<1>3. CASE FinishCheckpoint(p)
  <2> DEFINE c == [Idle EXCEPT !.at = "invalidate"]
  <2>1. c \in Proc
    BY IdleSound DEF Proc, Running
  <2>2. /\ proc[p].at = "finishing" /\ c.at = "invalidate" /\ c.after = 0
        /\ c.current = 0 /\ c.documents = {}
    BY <1>3, IdleSound DEF FinishCheckpoint, Proc
  <2>3. /\ proc' = [proc EXCEPT ![p] = c]
        /\ checkpoint' = [checkpoint EXCEPT ![proc[p].job] = proc[p].current]
        /\ UNCHANGED <<rows, docs, latest, status, numbered, cache, owed, known, ask>>
    BY <1>3 DEF FinishCheckpoint
  <2> HIDE DEF c
  <2>4. Sound(c)
    BY <2>2 DEF Sound, OnJob
  <2> QED
    BY <2>1, <2>2, <2>3, <2>4, PositionStep DEF OnJob
<1> QED
  BY <1>2, <1>3

LEMMA FinishStep ==
  ASSUME IInv, NEW p \in Process, FinishJob(p) \/ CommitCancel(p)
  PROVE  IInv'
<1>1. proc[p] \in Proc /\ Sound(proc[p]) /\ Stopped \subseteq Status \ {"none"}
  BY Remembered DEF Stopped, Status
<1>2. CASE FinishJob(p)
  <2> DEFINE c == [proc[p] EXCEPT !.at = "finishing", !.final = Idle.final]
  <2>1. c \in Proc
    BY <1>1, IdleSound DEF Proc, Running
  <2>2. /\ proc[p].at = "finish" /\ c.at = "finishing" /\ c.job = proc[p].job
        /\ c.after = proc[p].after /\ c.current = proc[p].current
        /\ c.documents = proc[p].documents /\ proc[p].final \in Stopped
    BY <1>1, <1>2 DEF FinishJob, Proc
  <2>3. /\ proc' = [proc EXCEPT ![p] = c]
        /\ status' = [status EXCEPT ![proc[p].job] = proc[p].final]
        /\ UNCHANGED <<rows, docs, latest, checkpoint, numbered, cache, owed, known, ask>>
    BY <1>2 DEF FinishJob
  <2> HIDE DEF c
  <2>4. Sound(c)
    BY <1>1, <2>2 DEF Sound, Reached, OnJob
  <2>5. /\ proc[p].job \in Job /\ status[proc[p].job] # "none"
        /\ proc[p].final \in Status \ {"none"}
        /\ proc[p].final = "SUCCEEDED" =>
             \A s \in Source : owed[proc[p].job][s] # 0 => Indexed(proc[p].job, s)
    BY <1>1, <2>2 DEF Sound, OnJob
  <2> QED
    BY <2>1, <2>3, <2>4, <2>5, StatusStep
<1>3. CASE CommitCancel(p)
  <2>1. /\ proc' = [proc EXCEPT ![p] = Idle]
        /\ status' = [status EXCEPT ![proc[p].job] = "CANCELLED"]
        /\ UNCHANGED <<rows, docs, latest, checkpoint, numbered, cache, owed, known, ask>>
    BY <1>3 DEF CommitCancel, Return
  <2>2. /\ proc[p].job \in Job /\ status[proc[p].job] # "none" /\ "CANCELLED" \in Status \ {"none"}
    BY <1>1, <1>3 DEF CommitCancel, Sound, OnJob, Stopped
  <2> QED
    BY <2>1, <2>2, IdleSound, StatusStep
<1> QED
  BY <1>2, <1>3

LEMMA OtherStep ==
  ASSUME IInv, NEW p \in Process, InvalidateCache(p) \/ CheckCancel(p) \/ Rebuild(p) \/ Die(p)
  PROVE  IInv'
<1>1. proc[p] \in Proc /\ Sound(proc[p])
  BY Remembered
<1>2. CASE InvalidateCache(p)
  BY <1>2, IdleSound, QuietStep DEF InvalidateCache, Return, IInv, TypeOK
<1>3. CASE CheckCancel(p)
  <2>1. PICK j \in Job :
          status[j] # "none" /\ proc' = [proc EXCEPT ![p].at = "cancel", ![p].job = j]
    BY <1>3 DEF CheckCancel
  <2> DEFINE c == [proc[p] EXCEPT !.at = "cancel", !.job = j]
  <2>2. c \in Proc
    BY <1>1 DEF Proc
  <2>3. c.at = "cancel" /\ c.job = j /\ c.after = 0 /\ c.current = 0 /\ c.documents = {}
    BY <1>1, <1>3, IdleSound DEF CheckCancel, Proc
  <2>4. proc' = [proc EXCEPT ![p] = c] /\ UNCHANGED <<rows, index, ask>>
    BY <1>3, <2>1 DEF CheckCancel
  <2> HIDE DEF c
  <2>5. Sound(c)
    BY <2>1, <2>3, IdleSound DEF Sound
  <2> QED
    BY <2>2, <2>4, <2>5, QuietStep DEF index, IInv, TypeOK
<1>4. CASE Rebuild(p)
  <2> DEFINE c == [proc[p] EXCEPT !.at = "invalidate"]
  <2>1. c \in Proc
    BY <1>1 DEF Proc, Running
  <2>2. c.at = "invalidate" /\ c.after = 0 /\ c.current = 0 /\ c.documents = {}
    BY <1>1, <1>4, IdleSound DEF Rebuild, Proc
  <2>3. proc' = [proc EXCEPT ![p] = c] /\ UNCHANGED <<rows, index, ask>>
    BY <1>4 DEF Rebuild, GoTo
  <2> HIDE DEF c
  <2>4. Sound(c)
    BY <2>2 DEF Sound, OnJob
  <2> QED
    BY <2>1, <2>3, <2>4, QuietStep DEF index, IInv, TypeOK
<1>5. CASE Die(p)
  BY <1>5, IdleSound, QuietStep DEF Die, Return, index, IInv, TypeOK
<1> QED
  BY <1>2, <1>3, <1>4, <1>5

(* What a step of a query may do: it goes on to a, and may save an entry. *)
LEMMA QueryShape ==
  ASSUME TypeOK, NEW q \in Asker, Query(q)
  PROVE  /\ UNCHANGED <<rows, docs, latest, status, checkpoint, numbered, owed, known, proc>>
         /\ \E a \in Ask : ask' = [ask EXCEPT ![q] = a]
         /\ cache' \subseteq Entry
<1>1. ask[q] \in Ask /\ NotAsking \in Ask /\ cache \subseteq Entry
  BY AskType DEF TypeOK
<1>2. CASE AskRevision(q)
  <2>1. [ask[q] EXCEPT !.at = "asked", !.key.revision = latest] \in Ask
    BY <1>1 DEF Ask, Key, TypeOK
  <2> QED
    BY <1>1, <1>2, <2>1 DEF AskRevision, index
<1>3. CASE AskSources(q)
  <2>0. ask[q].key \in Key /\ rows \in [Source -> Nat]
    BY <1>1 DEF Ask, TypeOK
  <2>1. [ask[q] EXCEPT !.at = "keyed", !.key.rows = rows] \in Ask
    BY <1>1, <2>0 DEF Ask, Key
  <2>2. ask' = [ask EXCEPT ![q] = [ask[q] EXCEPT !.at = "keyed", !.key.rows = rows]]
    BY <1>3 DEF AskSources
  <2> QED
    BY <1>1, <1>3, <2>1, <2>2 DEF AskSources, index
<1>4. CASE MissCache(q)
  <2>1. [ask[q] EXCEPT !.at = "missed"] \in Ask
    BY <1>1 DEF Ask
  <2> QED
    BY <1>1, <1>4, <2>1 DEF MissCache, index
<1>5. CASE QueryDocuments(q)
  <2>1. [ask[q] EXCEPT !.at = "answered", !.answer = docs] \in Ask
    BY <1>1 DEF Ask, TypeOK
  <2> QED
    BY <1>1, <1>5, <2>1 DEF QueryDocuments, index
<1>6. CASE SaveAnswer(q)
  <2>1. [key |-> ask[q].key, answer |-> ask[q].answer] \in Entry
    BY <1>1 DEF Ask, Entry
  <2> QED
    BY <1>1, <1>6, <2>1 DEF SaveAnswer, Answered
<1>7. CASE AnswerFromCache(q) \/ Leave(q)
  BY <1>1, <1>7 DEF AnswerFromCache, Leave, Answered, index
<1> QED
  BY <1>2, <1>3, <1>4, <1>5, <1>6, <1>7 DEF Query

LEMMA QueryStep ==
  ASSUME IInv, NEW q \in Asker, Query(q)
  PROVE  IInv'
<1>1. /\ UNCHANGED <<rows, docs, latest, status, checkpoint, numbered, owed, known, proc>>
      /\ cache' \subseteq Entry /\ ask' \in [Asker -> Ask]
  BY QueryShape DEF IInv, TypeOK
<1>2. TypeOK'
  BY <1>1 DEF IInv, TypeOK
<1>3. \A j \in Job : JobSound(j)'
  BY <1>1 DEF IInv, JobSound, Indexed, Stored
<1>4. Grows
  BY <1>1 DEF Grows
<1>5. \A m \in Memories' : m \in Proc /\ Sound(m)
  BY <1>1 DEF Memories, IInv, TypeOK
<1> QED
  BY <1>2, <1>3, <1>4, <1>5, SoundStays DEF IInv

LEMMA WriteStep ==
  ASSUME IInv, NEW r \in Source, WriteRow(r)
  PROVE  IInv'
<1>1. /\ rows' = [rows EXCEPT ![r] = @ + 1] /\ rows[r] < MaxRevision[r]
      /\ UNCHANGED <<docs, latest, status, checkpoint, numbered, cache, owed, known, proc, ask>>
  BY DEF WriteRow, index
<1>2. rows \in [Source -> Nat] /\ \A s \in Source : MaxRevision[s] \in Nat /\ rows[s] <= MaxRevision[s]
  BY SearchAssumption DEF IInv, TypeOK
<1>3. rows' \in [Source -> Nat] /\ \A s \in Source : rows'[s] <= MaxRevision[s] /\ rows[s] <= rows'[s]
  BY <1>1, <1>2
<1>4. TypeOK'
  BY <1>1, <1>3 DEF IInv, TypeOK
<1>5. ASSUME NEW j \in Job PROVE JobSound(j)'
  <2>1. \A s \in Source : owed[j][s] \in Nat /\ owed[j][s] <= rows'[s]
    BY <1>2, <1>3 DEF IInv, TypeOK, JobSound
  <2> QED
    BY <1>1, <2>1 DEF IInv, JobSound, Indexed, Stored
<1>6. Grows
  BY <1>1 DEF Grows
<1>7. \A m \in Memories' : m \in Proc /\ Sound(m)
  BY <1>1 DEF Memories, IInv, TypeOK
<1> QED
  BY <1>4, <1>5, <1>6, <1>7, SoundStays DEF IInv

LEMMA NextIInv == IInv /\ [Next]_vars => IInv'
<1> SUFFICES ASSUME IInv, [Next]_vars PROVE IInv'
  OBVIOUS
<1>1. CASE UNCHANGED vars
  <2>1. UNCHANGED <<rows, docs, latest, status, checkpoint, numbered, cache, owed, known, proc, ask>>
    BY <1>1 DEF vars, index
  <2>2. TypeOK' /\ Grows /\ \A j \in Job : JobSound(j)'
    BY <2>1 DEF IInv, TypeOK, Grows, JobSound, Indexed, Stored
  <2>3. \A m \in Memories' : m \in Proc /\ Sound(m)
    BY <2>1 DEF Memories, IInv, TypeOK
  <2> QED
    BY <2>2, <2>3, SoundStays DEF IInv
<1>2. ASSUME NEW p \in Process, Work(p) PROVE IInv'
  BY <1>2, ResumeStep, LoopStep, ReadStep, TakeStep, IndexStep, SaveStep, FinishStep, OtherStep DEF Work
<1>3. ASSUME NEW p \in Process, Command(p) PROVE IInv'
  BY <1>3, ReserveStep, CreateStep, ResumeStep, FinishStep, OtherStep DEF Command
<1>4. ASSUME NEW p \in Process, Die(p) PROVE IInv'
  BY <1>4, OtherStep
<1> QED
  BY <1>1, <1>2, <1>3, <1>4, QueryStep, WriteStep DEF Next

THEOREM Invariance == Spec => []IInv
<1> QED
  BY InitIInv, NextIInv, PTL DEF Spec

(* Documents, checkpoints, cache and what processes remember keep their      *)
(* types (SearchService and the tables of the search index).                *)
THEOREM TypeCorrect == Spec => []TypeOK
<1>1. IInv => TypeOK
  BY DEF IInv
<1> QED
  BY <1>1, Invariance, PTL

(* A job that SUCCEEDED has indexed every row there was when it was created: *)
(* _run_index saves its checkpoint only after the documents of the batch.   *)
THEOREM CoverTheorem == Spec => []SucceededCovers
<1>1. IInv => SucceededCovers
  BY DEF IInv, JobSound, SucceededCovers
<1> QED
  BY <1>1, Invariance, PTL

-----------------------------------------------------------------------------
(* Answers keep up *)

(* A revision in use has been reserved, so that what it promises is fixed. *)
Reserved(r) == r # 0 => r \in 1..MaxIndex /\ known[r] # {}

Fresh(r, answer) == r # 0 => \A D \in known[r] : \A d \in D : answer[d] # "none"

Bases == {proc[p].base : p \in {p \in Process : proc[p].at # "numbered"}}
Asking == {ask[q] : q \in Asker}

(* The inductive invariant of AnswersKeepUp. *)
CacheInv ==
  /\ \A r \in 1..MaxIndex : \A D \in known[r] : D \subseteq Stored
  /\ Reserved(latest)
  /\ \A j \in Job : Reserved(numbered[j])
  /\ \A p \in Process : proc[p].at = "numbered" => proc[p].base \in 1..MaxIndex
  /\ \A r \in Bases : Reserved(r)
  /\ \A a \in Asking :
       Reserved(a.key.revision) /\ (a.at = "answered" => Fresh(a.key.revision, a.answer))
  /\ \A e \in cache : Reserved(e.key.revision) /\ Fresh(e.key.revision, e.answer)

LEMMA InitCacheInv == Init => CacheInv
<1> SUFFICES ASSUME Init PROVE CacheInv
  OBVIOUS
<1>1. \A p \in Process : proc[p].at = "idle" /\ proc[p].base = 0
  BY DEF Init, Idle
<1>2. \A q \in Asker : ask[q].at = "idle" /\ ask[q].key.revision = 0
  BY DEF Init, NotAsking
<1> QED
  BY <1>1, <1>2 DEF Init, CacheInv, Reserved, Fresh, Bases, Asking

(* A step that reserves nothing: it may pass its revision on to a job or to  *)
(* the index, add documents and empty the cache.                            *)
LEMMA PassOnStep ==
  ASSUME TypeOK, CacheInv, NEW p \in Process,
         \A q \in Process \ {p} : proc'[q] = proc[q],
         proc'[p].at # "numbered", Reserved(proc'[p].base),
         \A d \in Doc : docs[d] # "none" => docs'[d] # "none",
         Reserved(latest'), \A j \in Job : Reserved(numbered'[j]),
         cache' \subseteq cache,
         UNCHANGED <<known, ask>>
  PROVE  CacheInv'
<1>1. \A r \in 1..MaxIndex : \A D \in known'[r] : D \subseteq Stored'
  BY DEF CacheInv, Stored
<1>2. \A r : Reserved(r) => Reserved(r)'
  BY DEF Reserved
<1>3. \A r : \A answer : Fresh(r, answer) => Fresh(r, answer)'
  BY DEF Fresh
<1>4. \A q \in Process : proc'[q].at = "numbered" => proc'[q].base \in 1..MaxIndex
  BY DEF CacheInv
<1>5. ASSUME NEW r \in Bases' PROVE Reserved(r)'
  <2>1. PICK q \in Process : r = proc'[q].base /\ proc'[q].at # "numbered"
    BY <1>5 DEF Bases
  <2>2. Reserved(r)
    BY <2>1 DEF CacheInv, Bases
  <2> QED
    BY <1>2, <2>2
<1>6. /\ \A a \in Asking' : /\ Reserved(a.key.revision)'
                            /\ a.at = "answered" => Fresh(a.key.revision, a.answer)'
      /\ \A e \in cache' : Reserved(e.key.revision)' /\ Fresh(e.key.revision, e.answer)'
  BY <1>2, <1>3 DEF CacheInv, Asking
<1>7. Reserved(latest)' /\ \A j \in Job : Reserved(numbered[j])'
  BY <1>2 DEF Reserved
<1> QED
  BY <1>1, <1>4, <1>5, <1>6, <1>7 DEF CacheInv

(* What a step of a run may do. *)
LEMMA WorkShape ==
  ASSUME TypeOK, NEW p \in Process, Work(p)
  PROVE  /\ UNCHANGED <<numbered, known, ask>>
         /\ \A q \in Process \ {p} : proc'[q] = proc[q]
         /\ proc[p].at # "numbered" /\ proc'[p].at # "numbered"
         /\ proc'[p].base \in {proc[p].base, 0}
         /\ \A d \in Doc : docs[d] # "none" => docs'[d] # "none"
         /\ latest' \in {latest, proc[p].base}
         /\ cache' \subseteq cache
<1>1. proc \in [Process -> Proc] /\ docs \in [Doc -> Mark] /\ proc[p] \in Proc /\ Idle.base = 0
  BY DEF TypeOK, Idle
<1>2. CASE BeginRun(p) \/ TakeRow(p) \/ EmptyBatch(p) \/ SaveCheckpoint(p)
  BY <1>1, <1>2 DEF BeginRun, TakeRow, EmptyBatch, SaveCheckpoint, GoTo, Proc, index
<1>3. CASE StopRun(p) \/ FinishSources(p) \/ FinishJob(p)
  BY <1>1, <1>3 DEF StopRun, FinishSources, Finish, FinishJob, Proc, index
<1>4. CASE ReadBatch(p)
  <2>1. PICK B : proc' = [proc EXCEPT ![p].at = "rows", ![p].batch = B]
    BY <1>4 DEF ReadBatch
  <2> QED
    BY <1>1, <1>4, <2>1 DEF ReadBatch, Proc, index
<1>8. CASE SkipRow(p)
  BY <1>1, <1>8 DEF SkipRow, Proc, index
<1>5. CASE MarkStale(p)
  BY <1>1, <1>5 DEF MarkStale, Supersede, TakeDocument, Proc, index
<1>6. CASE IndexBatch(p)
  BY <1>1, <1>6 DEF IndexBatch, Proc
<1>7. CASE FinishCheckpoint(p) \/ InvalidateCache(p)
  BY <1>1, <1>7, IdleSound DEF FinishCheckpoint, InvalidateCache, Return, Proc
<1> QED
  BY <1>2, <1>3, <1>4, <1>5, <1>6, <1>7, <1>8 DEF Work

LEMMA WorkCache ==
  ASSUME TypeOK, CacheInv, NEW p \in Process, Work(p)
  PROVE  CacheInv'
<1>1. Reserved(proc[p].base) /\ Reserved(0) /\ Reserved(latest)
  BY WorkShape DEF CacheInv, Bases, Reserved
<1>2. Reserved(proc'[p].base) /\ Reserved(latest') /\ \A j \in Job : Reserved(numbered'[j])
  BY <1>1, WorkShape DEF CacheInv
<1> QED
  BY <1>2, WorkShape, PassOnStep

LEMMA ReserveCache ==
  ASSUME TypeOK, CacheInv, NEW p \in Process, ReserveRevision(p)
  PROVE  CacheInv'
<1>0. PICK r : r = proc[p].base
  OBVIOUS
<1>1. /\ r \in 1..MaxIndex /\ latest' = r
      /\ known' = IF known[r] = {} THEN [known EXCEPT ![r] = {Stored}] ELSE known
      /\ proc' = [proc EXCEPT ![p].at = "reserved"]
      /\ UNCHANGED <<docs, numbered, cache, ask>>
  BY <1>0 DEF ReserveRevision, GoTo, CacheInv
<1>2. \A n \in 1..MaxIndex : known'[n] = known[n] \/ (n = r /\ known[n] = {} /\ known'[n] = {Stored})
  BY <1>1 DEF TypeOK
<1>3. known'[r] # {}
  BY <1>1 DEF TypeOK
<1>4. Reserved(r)'
  BY <1>1, <1>3 DEF Reserved
<1>5. \A n : Reserved(n) => Reserved(n)'
  BY <1>2 DEF Reserved
<1>6. \A n : \A answer : Reserved(n) /\ Fresh(n, answer) => Fresh(n, answer)'
  BY <1>2 DEF Reserved, Fresh
<1>7. \A n \in 1..MaxIndex : \A D \in known'[n] : D \subseteq Stored'
  BY <1>1, <1>2 DEF CacheInv, Stored
<1>8. /\ \A q \in Process \ {p} : proc'[q] = proc[q]
      /\ proc'[p].at = "reserved" /\ proc'[p].base = r
  BY <1>0, <1>1 DEF TypeOK, Proc
<1>9. ASSUME NEW n \in Bases' PROVE Reserved(n)'
  <2>1. PICK q \in Process : n = proc'[q].base /\ proc'[q].at # "numbered"
    BY <1>9 DEF Bases
  <2>2. n = r \/ n \in Bases
    BY <1>8, <2>1 DEF Bases
  <2> QED
    BY <1>4, <1>5, <2>2 DEF CacheInv
<1>10. \A q \in Process : proc'[q].at = "numbered" => proc'[q].base \in 1..MaxIndex
  BY <1>8 DEF CacheInv
<1>11. /\ \A a \in Asking' : /\ Reserved(a.key.revision)'
                             /\ a.at = "answered" => Fresh(a.key.revision, a.answer)'
       /\ \A e \in cache' : Reserved(e.key.revision)' /\ Fresh(e.key.revision, e.answer)'
  BY <1>1, <1>5, <1>6 DEF CacheInv, Asking
<1>12. Reserved(latest)' /\ \A j \in Job : Reserved(numbered[j])'
  BY <1>1, <1>4, <1>5 DEF CacheInv, Reserved
<1> QED
  BY <1>7, <1>9, <1>10, <1>11, <1>12 DEF CacheInv

LEMMA CommandCache ==
  ASSUME TypeOK, CacheInv, NEW p \in Process,
         CreateJob(p) \/ CheckResume(p) \/ ReadCheckpoint(p) \/ ResumeJob(p)
         \/ CheckCancel(p) \/ CommitCancel(p) \/ Rebuild(p) \/ Die(p)
  PROVE  CacheInv'
<1>1. /\ proc \in [Process -> Proc] /\ proc[p] \in Proc /\ numbered \in [Job -> Nat]
      /\ Idle.base = 0 /\ Idle.at = "idle"
  BY DEF TypeOK, Idle
<1>2. Reserved(0) /\ Reserved(latest) /\ \A j \in Job : Reserved(numbered[j])
  BY DEF CacheInv, Reserved
<1>3. /\ UNCHANGED <<docs, latest, cache, known, ask>>
      /\ \A q \in Process \ {p} : proc'[q] = proc[q]
      /\ proc'[p].at # "numbered"
      /\ Reserved(proc'[p].base)
      /\ \A j \in Job : Reserved(numbered'[j])
  <2>1. CASE CreateJob(p)
    <3>1. Reserved(proc[p].base)
      BY <2>1 DEF CreateJob, CacheInv, Bases
    <3>2. PICK j \in Job :
            /\ numbered' = [numbered EXCEPT ![j] = proc[p].base]
            /\ proc' = [proc EXCEPT ![p].at = "begin", ![p].job = j]
      BY <2>1 DEF CreateJob
    <3>3. proc'[p].at = "begin" /\ proc'[p].base = proc[p].base
      BY <1>1, <3>2 DEF Proc
    <3> QED
      BY <1>1, <1>2, <2>1, <3>1, <3>2, <3>3 DEF CreateJob
  <2>2. CASE CheckResume(p)
    <3>1. PICK j \in Job :
            proc' = [proc EXCEPT ![p].at = "admitted", ![p].job = j, ![p].base = numbered[j]]
      BY <2>2 DEF CheckResume
    <3>2. proc'[p].at = "admitted" /\ proc'[p].base = numbered[j]
      BY <1>1, <3>1 DEF Proc
    <3> QED
      BY <1>1, <1>2, <2>2, <3>1, <3>2 DEF CheckResume, index
  <2>3. CASE ReadCheckpoint(p) \/ ResumeJob(p)
    <3>1. Reserved(proc[p].base)
      BY <2>3 DEF ReadCheckpoint, ResumeJob, CacheInv, Bases
    <3>2. /\ proc'[p].at \in {"informed", "begin"} /\ proc'[p].base = proc[p].base
          /\ \A q \in Process \ {p} : proc'[q] = proc[q]
      BY <1>1, <2>3 DEF ReadCheckpoint, ResumeJob, GoTo, Proc
    <3> QED
      BY <1>2, <2>3, <3>1, <3>2 DEF ReadCheckpoint, ResumeJob, index
  <2>4. CASE CheckCancel(p) \/ Rebuild(p)
    <3>1. /\ proc'[p].at \in {"cancel", "invalidate"} /\ proc'[p].base = 0
          /\ \A q \in Process \ {p} : proc'[q] = proc[q]
      BY <1>1, <2>4 DEF CheckCancel, Rebuild, GoTo, Proc
    <3> QED
      BY <1>2, <2>4, <3>1 DEF CheckCancel, Rebuild, index
  <2>5. CASE CommitCancel(p) \/ Die(p)
    <3>1. proc'[p] = Idle /\ \A q \in Process \ {p} : proc'[q] = proc[q]
      BY <1>1, <2>5 DEF CommitCancel, Die, Return
    <3> QED
      BY <1>1, <1>2, <2>5, <3>1 DEF CommitCancel, Die, index
  <2> QED
    BY <2>1, <2>2, <2>3, <2>4, <2>5
<1> QED
  BY <1>2, <1>3, PassOnStep

LEMMA ReadRevisionCache ==
  ASSUME TypeOK, CacheInv, NEW p \in Process, ReadRevision(p)
  PROVE  CacheInv'
<1>1. /\ proc' = [proc EXCEPT ![p].at = "numbered", ![p].base = latest + 1]
      /\ latest < MaxIndex /\ UNCHANGED <<docs, latest, numbered, cache, known, ask>>
  BY DEF ReadRevision, index
<1>2. latest + 1 \in 1..MaxIndex
  BY <1>1, SearchAssumption DEF TypeOK
<1>3. /\ \A q \in Process \ {p} : proc'[q] = proc[q]
      /\ proc'[p].at = "numbered" /\ proc'[p].base = latest + 1
  BY <1>1 DEF TypeOK, Proc
<1>4. \A q \in Process : proc'[q].at = "numbered" => proc'[q].base \in 1..MaxIndex
  BY <1>2, <1>3 DEF CacheInv
<1>5. Bases' \subseteq Bases
  BY <1>3 DEF Bases
<1> QED
  BY <1>1, <1>4, <1>5 DEF CacheInv, Reserved, Fresh, Stored, Asking

(* A query makes its key of the revision that is reserved by then, reads the *)
(* documents after it and saves what it has read under that key.            *)
LEMMA QueryCache ==
  ASSUME TypeOK, CacheInv, NEW q \in Asker, Query(q)
  PROVE  CacheInv'
<1>1. UNCHANGED <<docs, latest, numbered, known, proc>>
  BY QueryShape
<1>2. ask[q] \in Ask /\ ask[q] \in Asking
  BY DEF TypeOK, Asking
<1>3. ask' = [ask EXCEPT ![q] = ask'[q]] /\ \A k \in Asker \ {q} : ask'[k] = ask[k]
  BY QueryShape DEF TypeOK
<1>4. /\ Reserved(ask'[q].key.revision)
      /\ ask'[q].at = "answered" => Fresh(ask'[q].key.revision, ask'[q].answer)
  <2>1. CASE AskRevision(q)
    <3>1. ask'[q].at = "asked" /\ ask'[q].key.revision = latest
      BY <1>2, <2>1 DEF AskRevision, TypeOK, Ask, Key
    <3> QED
      BY <3>1 DEF CacheInv
  <2>2. CASE AskSources(q)
    <3>1. ask'[q].at = "keyed" /\ ask'[q].key.revision = ask[q].key.revision
      BY <1>2, <2>2 DEF AskSources, TypeOK, Ask, Key
    <3> QED
      BY <1>2, <3>1 DEF CacheInv
  <2>3. CASE MissCache(q)
    <3>1. ask'[q].at = "missed" /\ ask'[q].key = ask[q].key
      BY <1>2, <2>3 DEF MissCache, TypeOK, Ask
    <3> QED
      BY <1>2, <3>1 DEF CacheInv
  <2>4. CASE QueryDocuments(q)
    <3>1. ask'[q].answer = docs /\ ask'[q].key = ask[q].key
      BY <1>2, <2>4 DEF QueryDocuments, TypeOK, Ask
    <3>2. Reserved(ask[q].key.revision)
      BY <1>2 DEF CacheInv
    <3> QED
      BY <3>1, <3>2 DEF CacheInv, Reserved, Fresh, Stored
  <2>5. CASE SaveAnswer(q) \/ AnswerFromCache(q) \/ Leave(q)
    <3>1. ask'[q] = NotAsking
      BY <2>5 DEF SaveAnswer, AnswerFromCache, Leave, Answered, TypeOK
    <3> QED
      BY <3>1 DEF NotAsking, Reserved
  <2> QED
    BY <2>1, <2>2, <2>3, <2>4, <2>5 DEF Query
<1>5. \A e \in cache' : e \in cache \/ (/\ e.key = ask[q].key /\ e.answer = ask[q].answer
                                        /\ ask[q].at = "answered")
  BY DEF Query, AskRevision, AskSources, MissCache, QueryDocuments, SaveAnswer,
         AnswerFromCache, Leave, index
<1>6. \A e \in cache' : Reserved(e.key.revision) /\ Fresh(e.key.revision, e.answer)
  BY <1>2, <1>5 DEF CacheInv
<1>7. \A a \in Asking' : /\ Reserved(a.key.revision)
                         /\ a.at = "answered" => Fresh(a.key.revision, a.answer)
  BY <1>3, <1>4 DEF CacheInv, Asking
<1> QED
  BY <1>1, <1>6, <1>7 DEF CacheInv, Reserved, Fresh, Stored, Bases

LEMMA NextCacheInv == TypeOK /\ CacheInv /\ [Next]_vars => CacheInv'
<1> SUFFICES ASSUME TypeOK, CacheInv, [Next]_vars PROVE CacheInv'
  OBVIOUS
<1>1. CASE UNCHANGED <<index, proc, ask>>
  BY <1>1 DEF index, CacheInv, Reserved, Fresh, Stored, Bases, Asking
<1>2. ASSUME NEW s \in Source, WriteRow(s) PROVE CacheInv'
  BY <1>1, <1>2 DEF WriteRow
<1>3. ASSUME NEW p \in Process, Work(p) \/ Command(p) \/ Die(p) PROVE CacheInv'
  BY <1>3, WorkCache, ReserveCache, ReadRevisionCache, CommandCache DEF Command
<1> QED
  BY <1>1, <1>2, <1>3, QueryCache DEF Next, vars

(* An answer is never older than the index revision it is cached under,      *)
(* although next_search_index_revision can reserve a revision twice and      *)
(* save_search_cache can come after invalidate_search_cache.                *)
THEOREM CacheTheorem == Spec => []AnswersKeepUp
<1>1. CacheInv => AnswersKeepUp
  <2> SUFFICES ASSUME CacheInv, NEW e \in cache, e.key.revision # 0,
                      NEW D \in known[e.key.revision], NEW d \in D
               PROVE  e.answer[d] # "none"
    BY DEF AnswersKeepUp
  <2> QED
    BY DEF CacheInv, Fresh
<1>2. IInv /\ CacheInv /\ [Next]_vars => CacheInv'
  BY NextCacheInv DEF IInv
<1> QED
  BY <1>1, <1>2, InitCacheInv, Invariance, PTL DEF Spec
=============================================================================
