---------------------------- MODULE ReportProofs ----------------------------
(***************************************************************************)
(* Proofs about reports: first ReportReview, for any number of handlers,     *)
(* versions, sections, review events and decisions, then ReportExport, for   *)
(* any number of calls, decisions, file names and contents.                 *)
(***************************************************************************)
EXTENDS ReportReview, ReportExport, TLAPS

(* What a copy of the header may say, however old it is: versions are never  *)
(* removed, so what was saved when it was read still is.                     *)
Backed(h, saved) ==
  /\ h.active # None => saved[h.active] # 0
  /\ h.latest # 0 => \E v \in Version : saved[v] = h.latest

Completed(v) == \E i \in 1..Len(events[v]) : events[v][i].action = "COMPLETE"

(* The version a running call is about, and the copy of the header it holds. *)
CallInv ==
  \A p \in Handler :
    LET c == call[p] IN
    /\ c.op \notin {"idle", "archive", "export"} => c.version \in Version
    /\ c.op \in {"create", "archive", "activate", "export"} => c.at = "ready"
    /\ c.op = "activate" => Exists(c.version)
    /\ c.at = "ready" => c.head \in Header /\ Backed(c.head, number)

(* A review call listed a prefix of the log as it is now, and what it checked *)
(* of that prefix still holds of the prefix.                                  *)
ReviewCallInv ==
  \A p \in Handler :
    LET c == call[p] IN
    c.op \in ReviewActions =>
      /\ c.base < MaxReviews[c.version]
      /\ c.base <= Len(events[c.version])
      /\ c.op = "COMPLETE" =>
           \A s \in Required : Accepted(events[c.version], c.base, s)

(* What a decision checked of the review, as far as it cannot be undone. *)
DecisionCallInv ==
  \A p \in Handler :
    LET c == call[p] IN
    c.op \in Decisions =>
      /\ c.at # "checked" => c.base < MaxDecisions
      /\ c.op = "APPROVED" => c.version \in Verified /\ Completed(c.version)

(* The inductive invariant. *)
IInv ==
  /\ TypeOK /\ CallInv /\ ReviewCallInv /\ DecisionCallInv
  /\ HeaderPointsBack /\ NumbersContiguous /\ LineageDescends
  /\ CompleteMeansAccepted /\ ApprovalRestsOnReview

-----------------------------------------------------------------------------
(* Facts about logs. *)

(* An append leaves every verdict on an earlier prefix as it was. *)
LEMMA AppendKeepsAccepted ==
  ASSUME NEW log \in Seq(Event), NEW e \in Event, NEW n \in Nat, n <= Len(log), NEW s
  PROVE  Accepted(Append(log, e), n, s) <=> Accepted(log, n, s)
<1>1. \A i \in 1..n : Append(log, e)[i] = log[i]
  OBVIOUS
<1> QED
  BY <1>1 DEF Accepted

(* An append keeps the events that were there. *)
LEMMA AppendKeepsEvents ==
  ASSUME NEW log \in Seq(Event), NEW e \in Event
  PROVE  /\ Append(log, e) \in Seq(Event)
         /\ Len(Append(log, e)) = Len(log) + 1
         /\ \A i \in 1..Len(log) : Append(log, e)[i] = log[i]
         /\ Append(log, e)[Len(log) + 1] = e
OBVIOUS

LEMMA InitIInv == Init => IInv
<1> SUFFICES ASSUME Init PROVE IInv
  OBVIOUS
<1>1. TypeOK
  BY ReportAssumption
  DEF Init, TypeOK, Header, ReviewStatuses, Call, Idle, Op
<1>2. CallInv /\ ReviewCallInv /\ DecisionCallInv
  BY DEF Init, CallInv, ReviewCallInv, DecisionCallInv, Idle, ReviewActions, Decisions
<1>3. HeaderPointsBack /\ NumbersContiguous /\ LineageDescends
  BY DEF Init, HeaderPointsBack, NumbersContiguous, LineageDescends, Exists
<1>4. CompleteMeansAccepted /\ ApprovalRestsOnReview
  BY DEF Init, CompleteMeansAccepted, ApprovalRestsOnReview
<1> QED
  BY <1>1, <1>2, <1>3, <1>4 DEF IInv

-----------------------------------------------------------------------------
(* Steps that only read.  They change one call and no table. *)

LEMMA TablesKept ==
  ASSUME IInv, UNCHANGED reportVars
  PROVE  /\ HeaderPointsBack' /\ NumbersContiguous' /\ LineageDescends'
         /\ CompleteMeansAccepted' /\ ApprovalRestsOnReview'
BY DEF IInv, reportVars, HeaderPointsBack, NumbersContiguous, LineageDescends,
       CompleteMeansAccepted, ApprovalRestsOnReview, Exists

(* A new value of one call that is right by itself keeps the invariant. *)
LEMMA OneCallStep ==
  ASSUME IInv, UNCHANGED reportVars, NEW p \in Handler, NEW c \in Call,
         call' = [call EXCEPT ![p] = c],
         c.op \notin {"idle", "archive", "export"} => c.version \in Version,
         c.op \in {"create", "archive", "activate", "export"} => c.at = "ready",
         c.op = "activate" => Exists(c.version),
         c.at = "ready" => c.head \in Header /\ Backed(c.head, number),
         c.op \in ReviewActions =>
           /\ c.base < MaxReviews[c.version]
           /\ c.base <= Len(events[c.version])
           /\ c.op = "COMPLETE" =>
                \A s \in Required : Accepted(events[c.version], c.base, s),
         c.op \in Decisions =>
           /\ c.at # "checked" => c.base < MaxDecisions
           /\ c.op = "APPROVED" => c.version \in Verified /\ Completed(c.version)
  PROVE  IInv'
<1>1. TypeOK'
  BY DEF IInv, TypeOK, reportVars
<1>2. \A q \in Handler : call'[q] = IF q = p THEN c ELSE call[q]
  BY DEF IInv, TypeOK
<1>3. CallInv'
  BY <1>2 DEF IInv, CallInv, reportVars, Backed, Exists
<1>4. ReviewCallInv'
  BY <1>2 DEF IInv, ReviewCallInv, reportVars
<1>5. DecisionCallInv'
  BY <1>2 DEF IInv, DecisionCallInv, reportVars, Completed
<1> QED
  BY <1>1, <1>3, <1>4, <1>5, TablesKept DEF IInv

LEMMA IdleIsCall == Idle \in Call /\ Idle.op = "idle" /\ Idle.at = "checked"
BY DEF Idle, Call, Op

LEMMA HeaderBacked == ASSUME IInv PROVE header \in Header /\ Backed(header, number)
BY DEF IInv, TypeOK, HeaderPointsBack, Backed, Exists

LEMMA ReadStep ==
  ASSUME IInv, NEW p \in Handler,
         \/ ReadForCreate(p) \/ ReadForArchive(p) \/ ReadForActivate(p) \/ ReadForExport(p)
         \/ CheckDecision(p) \/ ListApprovals(p) \/ ReadHeader(p) \/ Leave(p)
  PROVE  IInv'
<1>1. CASE ReadForCreate(p)
  <2>1. PICK v \in Version :
          Start(p, [Idle EXCEPT !.op = "create", !.at = "ready", !.version = v, !.head = header])
    BY <1>1 DEF ReadForCreate
  <2> DEFINE c == [Idle EXCEPT !.op = "create", !.at = "ready", !.version = v, !.head = header]
  <2>2. /\ c \in Call /\ c.op = "create" /\ c.at = "ready"
        /\ c.version = v /\ c.head = header
    BY HeaderBacked DEF Idle, Call, Op
  <2>3. UNCHANGED reportVars /\ call' = [call EXCEPT ![p] = c]
    BY <2>1 DEF Start
  <2> HIDE DEF c
  <2> QED
    BY <2>2, <2>3, HeaderBacked, OneCallStep DEF ReviewActions, Decisions
<1>2. CASE ReadForArchive(p)
  <2> DEFINE c == [Idle EXCEPT !.op = "archive", !.at = "ready", !.head = header]
  <2>2. c \in Call /\ c.op = "archive" /\ c.at = "ready" /\ c.head = header
    BY HeaderBacked DEF Idle, Call, Op
  <2>3. UNCHANGED reportVars /\ call' = [call EXCEPT ![p] = c]
    BY <1>2 DEF Start, ReadForArchive
  <2> HIDE DEF c
  <2> QED
    BY <2>2, <2>3, HeaderBacked, OneCallStep DEF ReviewActions, Decisions
<1>3. CASE ReadForActivate(p)
  <2>1. PICK v \in Version :
          /\ Exists(v)
          /\ Start(p, [Idle EXCEPT !.op = "activate", !.at = "ready", !.version = v, !.head = header])
    BY <1>3 DEF ReadForActivate
  <2> DEFINE c == [Idle EXCEPT !.op = "activate", !.at = "ready", !.version = v, !.head = header]
  <2>2. /\ c \in Call /\ c.op = "activate" /\ c.at = "ready"
        /\ c.version = v /\ c.head = header
    BY HeaderBacked DEF Idle, Call, Op
  <2>3. UNCHANGED reportVars /\ call' = [call EXCEPT ![p] = c]
    BY <2>1 DEF Start
  <2> HIDE DEF c
  <2> QED
    BY <2>1, <2>2, <2>3, HeaderBacked, OneCallStep DEF ReviewActions, Decisions
<1>4. CASE CheckDecision(p)
  <2>1. PICK v \in Version, d \in Decisions :
          /\ d = "APPROVED" => Approvable(v)
          /\ Start(p, [Idle EXCEPT !.op = d, !.at = "checked", !.version = v])
    BY <1>4 DEF CheckDecision
  <2> DEFINE c == [Idle EXCEPT !.op = d, !.at = "checked", !.version = v]
  <2>2. c \in Call /\ c.op = d /\ c.at = "checked" /\ c.version = v
    BY DEF Idle, Call, Op
  <2>3. UNCHANGED reportVars /\ call' = [call EXCEPT ![p] = c]
    BY <2>1 DEF Start
  <2>4. d = "APPROVED" => v \in Verified /\ Completed(v)
    <3> SUFFICES ASSUME d = "APPROVED" PROVE v \in Verified /\ Completed(v)
      OBVIOUS
    <3>1. v \in Verified /\ ReviewStatus(events[v]) = "REVIEW_COMPLETE"
      BY <2>1 DEF Approvable
    <3>2. events[v] # <<>> /\ events[v][Len(events[v])].action = "COMPLETE"
      BY <3>1 DEF ReviewStatus
    <3>3. events[v] \in Seq(Event)
      BY DEF IInv, TypeOK
    <3>4. Len(events[v]) \in 1..Len(events[v])
      BY <3>2, <3>3
    <3> QED
      BY <3>1, <3>2, <3>4 DEF Completed
  <2> HIDE DEF c
  <2> QED
    BY <2>2, <2>3, <2>4, OneCallStep DEF ReviewActions, Decisions
<1>5. CASE ListApprovals(p)
  <2> DEFINE c == [call[p] EXCEPT !.at = "listed", !.base = Len(approvals)]
  <2>1. call[p] \in Call /\ Len(approvals) \in Nat
    BY DEF IInv, TypeOK
  <2>2. /\ c \in Call /\ c.op = call[p].op /\ c.at = "listed"
        /\ c.version = call[p].version /\ c.base = Len(approvals)
    BY <2>1 DEF Call
  <2>3. UNCHANGED reportVars /\ call' = [call EXCEPT ![p] = c]
    BY <1>5, <2>1 DEF ListApprovals, IInv, TypeOK
  <2>4. /\ c.op \in Decisions /\ c.base < MaxDecisions /\ c.version \in Version
        /\ c.op = "APPROVED" => c.version \in Verified /\ Completed(c.version)
    BY <1>5, <2>2 DEF ListApprovals, IInv, CallInv, DecisionCallInv, Decisions
  <2> HIDE DEF c
  <2> QED
    BY <2>2, <2>3, <2>4, OneCallStep DEF ReviewActions, Decisions
<1>6. CASE ReadHeader(p)
  <2> DEFINE c == [call[p] EXCEPT !.at = "ready", !.head = header]
  <2>1. call[p] \in Call
    BY DEF IInv, TypeOK
  <2>2. /\ c \in Call /\ c.op = call[p].op /\ c.at = "ready" /\ c.head = header
        /\ c.version = call[p].version /\ c.base = call[p].base
    BY <2>1, HeaderBacked DEF Call
  <2>3. UNCHANGED reportVars /\ call' = [call EXCEPT ![p] = c]
    BY <1>6, <2>1 DEF ReadHeader, IInv, TypeOK
  <2>4. call[p].at = "listed"
    BY <1>6 DEF ReadHeader
  <2> HIDE DEF c
  <2>5. /\ c.op \notin {"idle", "archive", "export"} => c.version \in Version
        /\ c.op = "activate" => Exists(c.version)
    BY <2>2 DEF IInv, CallInv
  <2>6. c.op \in ReviewActions =>
           /\ c.base < MaxReviews[c.version]
           /\ c.base <= Len(events[c.version])
           /\ c.op = "COMPLETE" =>
                \A s \in Required : Accepted(events[c.version], c.base, s)
    BY <2>2 DEF IInv, ReviewCallInv
  <2>7. c.op \in Decisions =>
           /\ c.at # "checked" => c.base < MaxDecisions
           /\ c.op = "APPROVED" => c.version \in Verified /\ Completed(c.version)
    BY <2>2, <2>4 DEF IInv, DecisionCallInv
  <2> QED
    BY <2>2, <2>3, <2>5, <2>6, <2>7, HeaderBacked, OneCallStep
<1>7. CASE Leave(p)
  BY <1>7, IdleIsCall, OneCallStep DEF Leave, ReviewActions, Decisions
<1>8. CASE ReadForExport(p)
  <2> DEFINE c == [Idle EXCEPT !.op = "export", !.at = "ready", !.head = header]
  <2>2. c \in Call /\ c.op = "export" /\ c.at = "ready" /\ c.head = header
    BY HeaderBacked DEF Idle, Call, Op
  <2>3. UNCHANGED reportVars /\ call' = [call EXCEPT ![p] = c]
    BY <1>8 DEF Start, ReadForExport
  <2> HIDE DEF c
  <2> QED
    BY <2>2, <2>3, HeaderBacked, OneCallStep DEF ReviewActions, Decisions
<1> QED
  BY <1>1, <1>2, <1>3, <1>4, <1>5, <1>6, <1>7, <1>8

LEMMA ListReviewStep ==
  ASSUME IInv, NEW p \in Handler, ListReview(p)
  PROVE  IInv'
<1>1. PICK v \in Version, a \in Actions, s \in Section \cup {None} :
        /\ Len(events[v]) < MaxReviews[v]
        /\ Reviewable(events[v], a, s)
        /\ Start(p, [Idle EXCEPT !.op = a, !.at = "listed", !.version = v,
                                 !.section = s, !.base = Len(events[v])])
  BY DEF ListReview
<1> DEFINE c == [Idle EXCEPT !.op = a, !.at = "listed", !.version = v,
                             !.section = s, !.base = Len(events[v])]
<1>2. a \in ReviewActions /\ Len(events[v]) \in Nat
  BY ReportAssumption DEF IInv, TypeOK
<1>3. /\ c \in Call /\ c.op = a /\ c.at = "listed" /\ c.version = v
      /\ c.base = Len(events[v])
  BY <1>2 DEF Idle, Call, Op
<1>4. UNCHANGED reportVars /\ call' = [call EXCEPT ![p] = c]
  BY <1>1 DEF Start
<1>5. a = "COMPLETE" => \A r \in Required : Accepted(events[v], Len(events[v]), r)
  BY <1>1 DEF Reviewable
<1> HIDE DEF c
<1>6. c.base <= Len(events[v]) /\ c.op \notin Decisions
  BY <1>2, <1>3 DEF ReviewActions, Decisions
<1> QED
  BY <1>1, <1>2, <1>3, <1>4, <1>5, <1>6, OneCallStep DEF ReviewActions

-----------------------------------------------------------------------------
(* Steps that write. *)

(* A step that leaves versions and logs alone keeps what is said of them. *)
LEMMA HistoryKept ==
  ASSUME IInv, UNCHANGED <<number, parent, events, approvals>>
  PROVE  /\ NumbersContiguous' /\ LineageDescends'
         /\ CompleteMeansAccepted' /\ ApprovalRestsOnReview'
BY DEF IInv, NumbersContiguous, LineageDescends, CompleteMeansAccepted,
       ApprovalRestsOnReview, Exists

(* Ending a call keeps what is said of the other calls. *)
LEMMA CallsAfterEnd ==
  ASSUME IInv, NEW p \in Handler, call' = [call EXCEPT ![p] = Idle]
  PROVE  /\ call' \in [Handler -> Call]
         /\ \A q \in Handler : call'[q] = IF q = p THEN Idle ELSE call[q]
BY IdleIsCall DEF IInv, TypeOK

LEMMA CommitHeaderStep ==
  ASSUME IInv, NEW p \in Handler, CommitArchive(p) \/ CommitActivate(p) \/ CommitExport(p)
  PROVE  IInv'
<1>1. /\ call' = [call EXCEPT ![p] = Idle]
      /\ UNCHANGED <<number, parent, events, approvals>>
  BY DEF CommitArchive, CommitActivate, CommitExport
<1>2. header' \in Header /\ Backed(header', number)
  <2>1. call[p].head \in Header /\ Backed(call[p].head, number)
    BY DEF IInv, CallInv, CommitArchive, CommitActivate, CommitExport
  <2>2. CASE CommitArchive(p)
    BY <2>1, <2>2 DEF CommitArchive, Header, ReviewStatuses, Backed
  <2>3. CASE CommitActivate(p)
    <3>1. call[p].version \in Version /\ Exists(call[p].version)
      BY <2>3 DEF IInv, CallInv, CommitActivate
    <3> QED
      BY <2>1, <2>3, <3>1 DEF CommitActivate, Header, ReviewStatuses, Backed, Exists
  <2>4. CASE CommitExport(p)
    BY <2>1, <2>4 DEF CommitExport, Header, Backed
  <2> QED
    BY <2>2, <2>3, <2>4
<1>3. TypeOK'
  BY <1>1, <1>2, CallsAfterEnd DEF IInv, TypeOK
<1>4. HeaderPointsBack'
  BY <1>1, <1>2 DEF HeaderPointsBack, Backed, Exists
<1>5. CallInv'
  BY <1>1, CallsAfterEnd, IdleIsCall DEF IInv, CallInv, Backed, Exists
<1>6. ReviewCallInv'
  BY <1>1, CallsAfterEnd, IdleIsCall DEF IInv, ReviewCallInv, ReviewActions
<1>7. DecisionCallInv'
  BY <1>1, CallsAfterEnd, IdleIsCall DEF IInv, DecisionCallInv, Decisions, Completed
<1> QED
  BY <1>1, <1>3, <1>4, <1>5, <1>6, <1>7, HistoryKept DEF IInv

LEMMA CommitCreateStep ==
  ASSUME IInv, NEW p \in Handler, CommitCreate(p)
  PROVE  IInv'
<1> DEFINE h == call[p].head
           v == call[p].version
           n == h.latest + 1
<1>1. v \in Version /\ h \in Header /\ Backed(h, number)
  BY DEF IInv, CallInv, CommitCreate
<1>2. n \in Nat /\ n # 0 /\ h.active \in Version \cup {None} /\ h.latest \in Nat
  BY <1>1 DEF Header
<1>3. /\ number[v] = 0
      /\ \A w \in Version : number[w] # n
      /\ number' = [number EXCEPT ![v] = n]
      /\ parent' = [parent EXCEPT ![v] = h.active]
      /\ header' = [status |-> "REVIEW_REQUIRED", active |-> v, latest |-> n]
      /\ call' = [call EXCEPT ![p] = Idle]
      /\ UNCHANGED <<events, approvals>>
  BY DEF CommitCreate, ContentNew, NumberFree, Exists
<1> HIDE DEF v, h, n
<1>t. /\ number \in [Version -> Nat] /\ parent \in [Version -> Version \cup {None}]
  BY DEF IInv, TypeOK
<1>4. /\ \A w \in Version : number'[w] = IF w = v THEN n ELSE number[w]
      /\ \A w \in Version : parent'[w] = IF w = v THEN h.active ELSE parent[w]
  BY <1>1, <1>3, <1>t
<1>5. \A w \in Version : number[w] < n
  <2> SUFFICES ASSUME NEW w \in Version, number[w] >= n PROVE FALSE
    BY <1>2, <1>t
  <2>1. n \in 1..number[w]
    BY <1>2, <1>t
  <2> QED
    BY <1>3, <2>1 DEF IInv, NumbersContiguous
<1>6. \A w \in Version : Exists(w) => Exists(w)' /\ number'[w] = number[w]
  BY <1>3, <1>4 DEF Exists
<1>7. \A g \in Header : Backed(g, number) => Backed(g, number')
  BY <1>6 DEF Backed, Exists, Header
<1>8. TypeOK'
  BY <1>1, <1>2, <1>3, <1>t, CallsAfterEnd DEF IInv, TypeOK, Header, ReviewStatuses
<1>9. CallInv'
  <2> SUFFICES ASSUME NEW q \in Handler, q # p
               PROVE  LET c == call[q] IN
                      /\ c.op \notin {"idle", "archive", "export"} => c.version \in Version
                      /\ c.op \in {"create", "archive", "activate", "export"} => c.at = "ready"
                      /\ c.op = "activate" => number'[c.version] # 0
                      /\ c.at = "ready" => c.head \in Header /\ Backed(c.head, number')
    BY <1>3, CallsAfterEnd, IdleIsCall DEF CallInv, Exists
  <2>1. call[q].op = "activate" => call[q].version \in Version /\ Exists(call[q].version)
    BY DEF IInv, CallInv
  <2>2. call[q].at = "ready" => call[q].head \in Header /\ Backed(call[q].head, number')
    BY <1>7 DEF IInv, CallInv
  <2> QED
    BY <1>6, <2>1, <2>2 DEF IInv, CallInv, Exists
<1>10. ReviewCallInv'
  BY <1>3, CallsAfterEnd, IdleIsCall DEF IInv, ReviewCallInv, ReviewActions
<1>11. DecisionCallInv'
  BY <1>3, CallsAfterEnd, IdleIsCall DEF IInv, DecisionCallInv, Decisions, Completed
<1>12. HeaderPointsBack'
  BY <1>1, <1>2, <1>3, <1>4 DEF HeaderPointsBack, Exists
<1>13. NumbersContiguous'
  <2>1. ASSUME NEW w \in Version, NEW u \in Version, Exists(w)', number'[w] = number'[u]
        PROVE  w = u
    BY <1>3, <1>4, <2>1 DEF IInv, NumbersContiguous, Exists
  <2>2. ASSUME NEW w \in Version, NEW k \in 1..number'[w]
        PROVE  \E u \in Version : number'[u] = k
    <3>1. CASE k = n
      BY <1>1, <1>4, <3>1
    <3>2. CASE w # v
      <4>1. PICK u \in Version : number[u] = k
        BY <1>4, <2>2, <3>2 DEF IInv, NumbersContiguous
      <4> QED
        BY <1>2, <1>6, <1>t, <2>2, <3>2, <1>4, <4>1 DEF Exists
    <3>3. CASE w = v /\ k # n
      <4>1. k \in 1..h.latest /\ h.latest # 0
        BY <1>2, <1>4, <2>2, <3>3 DEF n
      <4>2. PICK x \in Version : number[x] = h.latest
        BY <1>1, <4>1 DEF Backed
      <4>3. PICK u \in Version : number[u] = k
        BY <4>1, <4>2 DEF IInv, NumbersContiguous
      <4> QED
        BY <1>6, <4>1, <4>3 DEF Exists
    <3> QED
      BY <3>1, <3>2, <3>3
  <2> QED
    BY <2>1, <2>2 DEF NumbersContiguous
<1>14. LineageDescends'
  <2> SUFFICES ASSUME NEW w \in Version, parent'[w] # None
               PROVE  number'[parent'[w]] # 0 /\ number'[parent'[w]] < number'[w]
    BY DEF LineageDescends, Exists
  <2>1. CASE w = v
    <3>1. h.active \in Version /\ number[h.active] # 0
      BY <1>1, <1>2, <1>4, <2>1 DEF Backed
    <3> QED
      BY <1>1, <1>4, <1>5, <1>6, <2>1, <3>1 DEF Exists
  <2>2. CASE w # v
    <3>1. parent[w] # None /\ parent[w] \in Version
      BY <1>4, <1>t, <2>2
    <3>2. number[parent[w]] # 0 /\ number[parent[w]] < number[w]
      BY <3>1 DEF IInv, LineageDescends, Exists
    <3> QED
      BY <1>4, <1>6, <2>2, <3>1, <3>2 DEF Exists
  <2> QED
    BY <2>1, <2>2
<1>15. CompleteMeansAccepted' /\ ApprovalRestsOnReview'
  BY <1>3 DEF IInv, CompleteMeansAccepted, ApprovalRestsOnReview
<1> QED
  BY <1>8, <1>9, <1>10, <1>11, <1>12, <1>13, <1>14, <1>15 DEF IInv

(* What both appends write to the header is a header, as backed as the copy *)
(* they started from.                                                        *)
LEMMA HeaderAfterAppend ==
  ASSUME IInv, NEW p \in Handler, call[p].at = "ready",
         NEW s \in ReviewStatuses \cup ExportStatuses,
         header' = [call[p].head EXCEPT !.status = s], UNCHANGED number
  PROVE  header' \in Header /\ HeaderPointsBack'
<1>1. call[p].head \in Header /\ Backed(call[p].head, number)
  BY DEF IInv, CallInv
<1> QED
  BY <1>1 DEF Header, HeaderPointsBack, Backed, Exists

LEMMA AppendReviewStep ==
  ASSUME IInv, NEW p \in Handler, AppendReview(p)
  PROVE  IInv'
<1> DEFINE v == call[p].version
           e == [action |-> call[p].op, section |-> call[p].section]
<1>1. /\ call[p].op \in ReviewActions /\ call[p].at = "ready"
      /\ Len(events[v]) = call[p].base
      /\ events' = [events EXCEPT ![v] = Append(@, e)]
      /\ header' = [call[p].head EXCEPT !.status = StatusAfterReview(call[p].op, @)]
      /\ call' = [call EXCEPT ![p] = Idle]
      /\ UNCHANGED <<number, parent, approvals>>
  BY DEF AppendReview, RevisionFree
<1>2. /\ v \in Version /\ e \in Event /\ e.action = call[p].op
      /\ call[p].head \in Header /\ call[p].base < MaxReviews[v]
      /\ call[p].op = "COMPLETE" => \A s \in Required : Accepted(events[v], Len(events[v]), s)
  BY <1>1 DEF IInv, TypeOK, CallInv, ReviewCallInv, Call, Event, ReviewActions
<1>3. StatusAfterReview(call[p].op, call[p].head.status) \in ReviewStatuses \cup ExportStatuses
  BY <1>2 DEF StatusAfterReview, Header, ReviewStatuses
<1>4. header' \in Header /\ HeaderPointsBack'
  <2> DEFINE s == StatusAfterReview(call[p].op, call[p].head.status)
  <2>1. header' = [call[p].head EXCEPT !.status = s]
    BY <1>1, <1>2 DEF Header
  <2> HIDE DEF s
  <2> QED
    BY <1>1, <1>3, <2>1, HeaderAfterAppend DEF s
<1> HIDE DEF v, e
<1>t. events \in [Version -> Seq(Event)]
  BY DEF IInv, TypeOK
<1>5. \A w \in Version :
        /\ events'[w] \in Seq(Event)
        /\ events'[w] = IF w = v THEN Append(events[v], e) ELSE events[w]
  BY <1>1, <1>2, <1>t, AppendKeepsEvents
<1>6. \A w \in Version :
        /\ Len(events[w]) \in Nat
        /\ Len(events'[w]) = IF w = v THEN Len(events[v]) + 1 ELSE Len(events[w])
        /\ \A i \in 1..Len(events[w]) : events'[w][i] = events[w][i]
  <2> TAKE w \in Version
  <2>1. events[w] \in Seq(Event) /\ Len(events[w]) \in Nat
    BY <1>t
  <2>2. CASE w # v
    BY <1>5, <2>1, <2>2
  <2>3. CASE w = v
    <3>1. events'[w] = Append(events[w], e)
      BY <1>5, <2>3
    <3> QED
      BY <1>2, <2>1, <2>3, <3>1, AppendKeepsEvents
  <2> QED
    BY <2>2, <2>3
<1>7. \A w \in Version, n \in Nat, s \in Required :
        n <= Len(events[w]) => (Accepted(events'[w], n, s) <=> Accepted(events[w], n, s))
  BY <1>2, <1>5, <1>t, AppendKeepsAccepted
<1>8. \A w \in Version : Completed(w) => Completed(w)'
  <2> SUFFICES ASSUME NEW w \in Version, Completed(w) PROVE Completed(w)'
    OBVIOUS
  <2>1. PICK i \in 1..Len(events[w]) : events[w][i].action = "COMPLETE"
    BY DEF Completed
  <2>2. i \in 1..Len(events'[w]) /\ events'[w][i].action = "COMPLETE"
    BY <1>6, <2>1
  <2> QED
    BY <2>2 DEF Completed
<1>9. TypeOK'
  <2>1. events' \in [Version -> Seq(Event)]
    BY <1>1, <1>5, <1>t
  <2>2. \A w \in Version : Len(events'[w]) <= MaxReviews[w]
    <3>1. \A w \in Version : Len(events[w]) <= MaxReviews[w]
      BY DEF IInv, TypeOK
    <3>2. call[p].base \in Nat /\ MaxReviews[v] \in Nat
      BY <1>1, <1>2, ReportAssumption DEF IInv, TypeOK, Call
    <3>3. Len(events'[v]) = call[p].base + 1
      BY <1>1, <1>2, <1>6, <3>2
    <3> QED
      BY <1>2, <1>6, <3>1, <3>2, <3>3
  <2> QED
    BY <1>1, <1>4, <2>1, <2>2, CallsAfterEnd DEF IInv, TypeOK
<1>10. CallInv'
  BY <1>1, CallsAfterEnd, IdleIsCall DEF IInv, CallInv, Exists
<1>11. ReviewCallInv'
  <2> SUFFICES ASSUME NEW q \in Handler, q # p, call[q].op \in ReviewActions
               PROVE  LET c == call[q] IN
                      /\ c.base < MaxReviews[c.version]
                      /\ c.base <= Len(events'[c.version])
                      /\ c.op = "COMPLETE" =>
                           \A s \in Required : Accepted(events'[c.version], c.base, s)
    BY <1>1, CallsAfterEnd, IdleIsCall DEF ReviewCallInv, ReviewActions
  <2>1. call[q].version \in Version /\ call[q].base \in Nat
    BY DEF IInv, CallInv, TypeOK, Call, ReviewActions
  <2>2. /\ call[q].base < MaxReviews[call[q].version]
        /\ call[q].base <= Len(events[call[q].version])
        /\ call[q].op = "COMPLETE" =>
             \A s \in Required : Accepted(events[call[q].version], call[q].base, s)
    BY DEF IInv, ReviewCallInv
  <2> QED
    BY <1>6, <1>7, <2>1, <2>2
<1>12. DecisionCallInv'
  <2> SUFFICES ASSUME NEW q \in Handler, q # p, call[q].op \in Decisions
               PROVE  LET c == call[q] IN
                      /\ c.at # "checked" => c.base < MaxDecisions
                      /\ c.op = "APPROVED" => c.version \in Verified /\ Completed(c.version)'
    BY <1>1, CallsAfterEnd, IdleIsCall DEF DecisionCallInv, Decisions, Completed
  <2>1. call[q].op = "APPROVED" => call[q].version \in Version /\ Completed(call[q].version)
    BY DEF IInv, CallInv, DecisionCallInv
  <2>2. call'[q] = call[q]
    BY <1>1, CallsAfterEnd
  <2> QED
    BY <1>8, <2>1, <2>2 DEF IInv, DecisionCallInv, Completed
<1>13. NumbersContiguous' /\ LineageDescends'
  BY <1>1 DEF IInv, NumbersContiguous, LineageDescends, Exists
<1>14. CompleteMeansAccepted'
  <2> SUFFICES ASSUME NEW w \in Version, NEW i \in 1..Len(events'[w]),
                      events'[w][i].action = "COMPLETE", NEW s \in Required
               PROVE  Accepted(events'[w], i - 1, s)
    BY DEF CompleteMeansAccepted
  <2>1. CASE i \in 1..Len(events[w])
    <3>1. Accepted(events[w], i - 1, s)
      BY <1>6, <2>1 DEF IInv, CompleteMeansAccepted
    <3> QED
      BY <1>6, <1>7, <2>1, <3>1
  <2>2. CASE i \notin 1..Len(events[w])
    <3>1. w = v /\ i = Len(events[v]) + 1
      BY <1>6, <2>2
    <3>2. events'[w][i] = e
      <4>1. events'[w] = Append(events[v], e) /\ events[v] \in Seq(Event)
        BY <1>2, <1>5, <1>t, <3>1
      <4> QED
        BY <1>2, <3>1, <4>1, AppendKeepsEvents
    <3>3. Accepted(events[v], Len(events[v]), s)
      BY <1>2, <3>2
    <3> QED
      BY <1>2, <1>6, <1>7, <3>1, <3>3
  <2> QED
    BY <2>1, <2>2
<1>15. ApprovalRestsOnReview'
  <2> SUFFICES ASSUME NEW k \in 1..Len(approvals), approvals[k].decision = "APPROVED"
               PROVE  approvals[k].version \in Verified /\ Completed(approvals[k].version)'
    BY <1>1 DEF ApprovalRestsOnReview, Completed
  <2>1. approvals[k].version \in Verified /\ Completed(approvals[k].version)
    BY DEF IInv, ApprovalRestsOnReview, Completed
  <2>2. approvals' = approvals
    BY <1>1
  <2> QED
    BY <1>8, <2>1, <2>2, ReportAssumption DEF Completed
<1> QED
  BY <1>4, <1>9, <1>10, <1>11, <1>12, <1>13, <1>14, <1>15 DEF IInv

LEMMA AppendApprovalStep ==
  ASSUME IInv, NEW p \in Handler, AppendApproval(p)
  PROVE  IInv'
<1> DEFINE a == [version |-> call[p].version, decision |-> call[p].op]
<1>1. /\ call[p].op \in Decisions /\ call[p].at = "ready"
      /\ Len(approvals) = call[p].base
      /\ approvals' = Append(approvals, a)
      /\ header' = [call[p].head EXCEPT !.status = StatusAfterDecision(call[p].op)]
      /\ call' = [call EXCEPT ![p] = Idle]
      /\ UNCHANGED <<number, parent, events>>
  BY DEF AppendApproval, RevisionFree
<1>2. /\ a \in Approval /\ a.decision = call[p].op /\ a.version = call[p].version
      /\ call[p].base < MaxDecisions
      /\ call[p].op = "APPROVED" => a.version \in Verified /\ Completed(a.version)
  BY <1>1 DEF IInv, CallInv, DecisionCallInv, Approval, Decisions
<1>3. header' \in Header /\ HeaderPointsBack'
  <2>1. StatusAfterDecision(call[p].op) \in ReviewStatuses \cup ExportStatuses
    BY <1>1 DEF StatusAfterDecision, Decisions, ReviewStatuses
  <2> QED
    BY <1>1, <2>1, HeaderAfterAppend
<1> HIDE DEF a
<1>t. approvals \in Seq(Approval)
  BY DEF IInv, TypeOK
<1>4. /\ approvals' \in Seq(Approval)
      /\ Len(approvals) \in Nat /\ Len(approvals') = Len(approvals) + 1
      /\ \A k \in 1..Len(approvals) : approvals'[k] = approvals[k]
      /\ approvals'[Len(approvals) + 1] = a
  BY <1>1, <1>2, <1>t
<1>5. TypeOK'
  <2>1. Len(approvals') <= MaxDecisions
    BY <1>1, <1>2, <1>4, ReportAssumption
  <2> QED
    BY <1>1, <1>3, <1>4, <2>1, CallsAfterEnd DEF IInv, TypeOK
<1>6. CallInv'
  BY <1>1, CallsAfterEnd, IdleIsCall DEF IInv, CallInv, Exists
<1>7. ReviewCallInv'
  BY <1>1, CallsAfterEnd, IdleIsCall DEF IInv, ReviewCallInv, ReviewActions
<1>8. DecisionCallInv'
  BY <1>1, CallsAfterEnd, IdleIsCall DEF IInv, DecisionCallInv, Decisions, Completed
<1>9. /\ NumbersContiguous' /\ LineageDescends' /\ CompleteMeansAccepted'
  BY <1>1 DEF IInv, NumbersContiguous, LineageDescends, CompleteMeansAccepted, Exists
<1>10. ApprovalRestsOnReview'
  <2> SUFFICES ASSUME NEW k \in 1..Len(approvals'), approvals'[k].decision = "APPROVED"
               PROVE  approvals'[k].version \in Verified /\ Completed(approvals'[k].version)
    BY <1>1 DEF ApprovalRestsOnReview, Completed
  <2>1. CASE k \in 1..Len(approvals)
    BY <1>4, <2>1 DEF IInv, ApprovalRestsOnReview, Completed
  <2>2. CASE k = Len(approvals) + 1
    BY <1>2, <1>4, <2>2
  <2> QED
    BY <1>4, <2>1, <2>2
<1> QED
  BY <1>3, <1>5, <1>6, <1>7, <1>8, <1>9, <1>10 DEF IInv

-----------------------------------------------------------------------------

LEMMA StutterStep == ASSUME IInv, UNCHANGED vars PROVE IInv'
<1>1. TypeOK' /\ CallInv'
  BY DEF IInv, vars, reportVars, TypeOK, CallInv, Exists
<1>2. ReviewCallInv' /\ DecisionCallInv'
  BY DEF IInv, vars, reportVars, ReviewCallInv, DecisionCallInv, Completed
<1>3. UNCHANGED reportVars
  BY DEF vars
<1> QED
  BY <1>1, <1>2, <1>3, TablesKept DEF IInv

(* The invariant holds in every state: all the theorems below rest on it. *)
THEOREM Invariance == Spec => []IInv
<1>1. IInv /\ [Next]_vars => IInv'
  <2> SUFFICES ASSUME IInv, [Next]_vars PROVE IInv'
    OBVIOUS
  <2>1. CASE Next
    BY <2>1, ReadStep, ListReviewStep, CommitHeaderStep, CommitCreateStep,
       AppendReviewStep, AppendApprovalStep DEF Next
  <2>2. CASE UNCHANGED vars
    BY <2>2, StutterStep
  <2> QED
    BY <2>1, <2>2
<1> QED
  BY <1>1, InitIInv, PTL DEF Spec

(* The report tables and the copies that handlers hold keep their types, and *)
(* UNIQUE(version, review_revision) and UNIQUE(report, approval_revision)    *)
(* keep concurrent appends within the bounds that each handler checked.      *)
THEOREM TypeCorrect == Spec => []TypeOK
BY Invariance, PTL DEF IInv

(* create_version numbers versions without gaps and repetitions for any      *)
(* number of handlers, although they compute numbers from stale headers.     *)
THEOREM NumbersTheorem == Spec => []NumbersContiguous
BY Invariance, PTL DEF IInv

(* The previous_version_id of every version is an older version.             *)
THEOREM LineageTheorem == Spec => []LineageDescends
BY Invariance, PTL DEF IInv

(* The header, however stale the copy it was written from, names versions    *)
(* and numbers that exist.                                                   *)
THEOREM HeaderTheorem == Spec => []HeaderPointsBack
BY Invariance, PTL DEF IInv

(* _append_review_event never records a completion over a section that was   *)
(* rejected meanwhile, for any number of reviewers and sections.             *)
THEOREM CompleteTheorem == Spec => []CompleteMeansAccepted
BY Invariance, PTL DEF IInv

(* approve never records an approval of a version whose review was never     *)
(* complete or whose custody did not verify.                                 *)
THEOREM ApprovalTheorem == Spec => []ApprovalRestsOnReview
BY Invariance, PTL DEF IInv

-----------------------------------------------------------------------------
(* Exports: ReportExport.                                                   *)

(* The approval that a manifest was prepared for is still in its place. *)
NamesApproval(m) == m[1] <= Len(decisions) /\ decisions[m[1]] = "APPROVED"

(* What a call knows of the tables and the directory.  Its manifest names an *)
(* approval from the first step on, and is stored from "ready" on; the file *)
(* it has written may hold other bytes by now, but is not gone.             *)
ExportSound(c) ==
  /\ c.at # "idle" => c.manifest \in Manifest /\ NamesApproval(c.manifest)
  /\ c.at \notin {"idle", "approved", "missing", "packaged"} => manifest[c.manifest] # "none"
  /\ c.at = "written" => file[FileOf(c.manifest)] # Nothing
  /\ c.at \in {"hashed", "verified", "recording"} => c.bytes \in Bytes

(* The inductive invariant. *)
ExportInv ==
  /\ ExportTypeOK
  /\ \A p \in Exporter : ExportSound(export[p])
  /\ ManifestNamesApproval /\ CompletedHasArtifact

(* Decisions are appended, no manifest and no file disappears. *)
ExportGrows ==
  /\ \A m \in Manifest : NamesApproval(m) => NamesApproval(m)'
  /\ \A m \in Manifest : manifest[m] # "none" => manifest'[m] # "none"
  /\ \A f \in Filename : file[f] # Nothing => file'[f] # Nothing

LEMMA InitExportInv == ExportInit => ExportInv
<1> SUFFICES ASSUME ExportInit PROVE ExportInv
  OBVIOUS
<1>1. ExportTypeOK
  BY ExportAssumption DEF ExportInit, ExportTypeOK, Resting, ExportCall, Renderer, ExportStatus
<1>2. \A p \in Exporter : ExportSound(export[p])
  BY DEF ExportInit, ExportSound, Resting
<1>3. ManifestNamesApproval /\ CompletedHasArtifact
  BY DEF ExportInit, ManifestNamesApproval, CompletedHasArtifact
<1> QED
  BY <1>1, <1>2, <1>3 DEF ExportInv

(* A step of one call, with what has to be shown of what it writes. *)
LEMMA ExportStep ==
  ASSUME ExportInv, ExportGrows, NEW p \in Exporter, NEW c \in ExportCall, ExportSound(c)',
         export' = [export EXCEPT ![p] = c], UNCHANGED decisions,
         manifest' \in [Manifest -> ExportStatus], file' \in [Filename -> Bytes \cup {Nothing}],
         artifact' \subseteq [manifest : Manifest, bytes : Bytes, renderer : Renderer],
         ManifestNamesApproval', CompletedHasArtifact'
  PROVE  ExportInv'
<1>1. \A q \in Exporter : export'[q] = IF q = p THEN c ELSE export[q]
  BY DEF ExportInv, ExportTypeOK
<1>2. ASSUME NEW q \in Exporter PROVE ExportSound(export[q])'
  <2>1. CASE q = p
    BY <1>1, <2>1 DEF ExportSound, NamesApproval
  <2>2. CASE q # p
    <3>1. export'[q] = export[q] /\ ExportSound(export[q])
      BY <1>1, <2>2 DEF ExportInv
    <3>2. export[q].at # "idle" => FileOf(export[q].manifest) \in Filename
      BY <3>1 DEF ExportSound, FileOf, Manifest
    <3> QED
      BY <3>1, <3>2 DEF ExportSound, ExportGrows
  <2> QED
    BY <2>1, <2>2
<1>3. ExportTypeOK'
  <2>1. export' \in [Exporter -> ExportCall]
    BY DEF ExportInv, ExportTypeOK
  <2> QED
    BY <1>2, <2>1 DEF ExportInv, ExportTypeOK, ExportSound
<1> QED
  BY <1>2, <1>3 DEF ExportInv

(* A step of one call that leaves the tables alone. *)
LEMMA ExportCallStep ==
  ASSUME ExportInv, NEW p \in Exporter, NEW c \in ExportCall, ExportSound(c),
         export' = [export EXCEPT ![p] = c],
         UNCHANGED <<decisions, manifest, artifact, file>>
  PROVE  ExportInv'
<1>1. ExportGrows
  BY DEF ExportGrows, NamesApproval
<1>2. ManifestNamesApproval' /\ CompletedHasArtifact'
  BY DEF ExportInv, ManifestNamesApproval, CompletedHasArtifact
<1>3. ExportSound(c)'
  BY DEF ExportSound, NamesApproval
<1> QED
  BY <1>1, <1>2, <1>3, ExportStep DEF ExportInv, ExportTypeOK

LEMMA RestingIsSound == Resting \in ExportCall /\ ExportSound(Resting)
BY DEF Resting, ExportCall, Renderer, ExportSound

LEMMA ExportReturnStep ==
  ASSUME ExportInv, NEW p \in Exporter, Return(p),
         UNCHANGED <<decisions, manifest, artifact, file>>
  PROVE  ExportInv'
BY ExportCallStep, RestingIsSound DEF Return

(* A call goes on to a place where it has to know no more than it does. *)
LEMMA ExportGoStep ==
  ASSUME ExportInv, NEW p \in Exporter, NEW at, GoTo(p, at),
         [export[p] EXCEPT !.at = at] \in ExportCall,
         ExportSound([export[p] EXCEPT !.at = at]),
         UNCHANGED <<decisions, manifest, artifact, file>>
  PROVE  ExportInv'
<1>1. export' = [export EXCEPT ![p] = [export[p] EXCEPT !.at = at]]
  BY DEF GoTo
<1> QED
  BY <1>1, ExportCallStep

-----------------------------------------------------------------------------
(* The steps. *)

LEMMA DecideStep ==
  ASSUME ExportInv, NEW decision \in {"APPROVED", "REVOKED"}, Decide(decision)
  PROVE  ExportInv'
<1>1. /\ decisions' \in Seq({"APPROVED", "REVOKED"}) /\ Len(decisions') = Len(decisions) + 1
      /\ Len(decisions) < MaxRulings /\ Len(decisions) \in Nat
      /\ \A i \in 1..Len(decisions) : decisions'[i] = decisions[i]
  BY DEF ExportInv, ExportTypeOK, Decide
<1>2. \A m \in Manifest : NamesApproval(m) => NamesApproval(m)'
  BY <1>1 DEF NamesApproval, Manifest
<1>3. ExportTypeOK'
  BY <1>1, ExportAssumption DEF ExportInv, ExportTypeOK, Decide
<1>4. ASSUME NEW p \in Exporter PROVE ExportSound(export[p])'
  BY <1>2 DEF ExportInv, ExportSound, Decide
<1>5. ManifestNamesApproval' /\ CompletedHasArtifact'
  BY <1>2 DEF ExportInv, ManifestNamesApproval, CompletedHasArtifact, NamesApproval, Decide
<1> QED
  BY <1>3, <1>4, <1>5 DEF ExportInv

LEMMA PrepareStep ==
  ASSUME ExportInv, NEW p \in Exporter, NEW f \in Filename, Prepare(p, f)
  PROVE  ExportInv'
<1> DEFINE c == [Resting EXCEPT !.at = "approved", !.manifest = <<Len(decisions), f>>]
<1>1. Len(decisions) \in 1..MaxRulings /\ decisions[Len(decisions)] = "APPROVED"
  BY DEF ExportInv, ExportTypeOK, Prepare, RequireApproved, Approved
<1>2. <<Len(decisions), f>> \in Manifest /\ NamesApproval(<<Len(decisions), f>>)
  BY <1>1 DEF Manifest, NamesApproval
<1>3. c \in ExportCall /\ ExportSound(c)
  BY <1>2 DEF ExportCall, Renderer, Resting, ExportSound
<1>4. export' = [export EXCEPT ![p] = c]
  BY DEF Prepare
<1> QED
  BY <1>3, <1>4, ExportCallStep DEF Prepare

(* FindManifest, Package, OpenManifest, RenderOrRefuse, VerifyOutput and     *)
(* OpenResult: a call reads and goes on, or ends.                           *)
LEMMA ExportReadStep ==
  ASSUME ExportInv, NEW p \in Exporter,
         FindManifest(p) \/ Package(p) \/ OpenManifest(p) \/ RenderOrRefuse(p)
           \/ VerifyOutput(p) \/ OpenResult(p)
  PROVE  ExportInv'
<1> DEFINE To(at) == [export[p] EXCEPT !.at = at]
<1>1. export[p] \in ExportCall /\ ExportSound(export[p])
  BY DEF ExportInv, ExportTypeOK
<1>2. UNCHANGED <<decisions, manifest, artifact, file>>
  BY DEF FindManifest, Package, OpenManifest, RenderOrRefuse, VerifyOutput, OpenResult
<1>3. \A at \in {"missing", "packaged", "ready", "recording"} \cup Rendering : To(at) \in ExportCall
  BY <1>1 DEF ExportCall
<1>4. CASE FindManifest(p)
  <2>1. CASE manifest[export[p].manifest] = "none"
    <3>1. ExportSound(To("missing"))
      BY <1>1, <1>4 DEF ExportSound, FindManifest, ExportCall
    <3>2. GoTo(p, "missing")
      BY <1>4, <2>1 DEF FindManifest
    <3> QED
      BY <1>2, <1>3, <3>1, <3>2, ExportGoStep
  <2>2. CASE manifest[export[p].manifest] = "PREPARED"
    <3>1. ExportSound(To("ready"))
      BY <1>1, <1>4, <2>2 DEF ExportSound, FindManifest, ExportCall
    <3>2. GoTo(p, "ready")
      BY <1>4, <2>2 DEF FindManifest
    <3> QED
      BY <1>2, <1>3, <3>1, <3>2, ExportGoStep
  <2>3. CASE manifest[export[p].manifest] \notin {"none", "PREPARED"}
    <3>1. Return(p)
      BY <1>4, <2>3 DEF FindManifest
    <3> QED
      BY <1>2, <3>1, ExportReturnStep
  <2> QED
    BY <2>1, <2>2, <2>3
<1>5. CASE Package(p)
  <2>1. ExportSound(To("packaged")) /\ GoTo(p, "packaged")
    BY <1>1, <1>5 DEF ExportSound, Package, ExportCall
  <2> QED
    BY <1>2, <1>3, <2>1, ExportGoStep
<1>6. CASE OpenManifest(p)
  <2>1. ExportSound(To("opened")) /\ GoTo(p, "opened")
    BY <1>1, <1>6 DEF ExportSound, OpenManifest, ExportCall
  <2> QED
    BY <1>2, <1>3, <2>1, ExportGoStep DEF Rendering
<1>7. CASE RenderOrRefuse(p)
  <2>1. \A at \in {"failing", "clear"} : ExportSound(To(at))
    BY <1>1, <1>7 DEF ExportSound, RenderOrRefuse, ExportCall
  <2>2. PICK at \in {"failing", "clear"} : GoTo(p, at)
    BY <1>7 DEF RenderOrRefuse
  <2> QED
    BY <1>2, <1>3, <2>1, <2>2, ExportGoStep DEF Rendering
<1>8. CASE VerifyOutput(p)
  <2>1. \A at \in {"failing", "verified"} : ExportSound(To(at))
    BY <1>1, <1>8 DEF ExportSound, VerifyOutput, ExportCall
  <2>2. PICK at \in {"failing", "verified"} : GoTo(p, at)
    BY <1>8 DEF VerifyOutput
  <2> QED
    BY <1>2, <1>3, <2>1, <2>2, ExportGoStep DEF Rendering
<1>9. CASE OpenResult(p)
  <2>1. \A at \in {"failing", "recording"} : ExportSound(To(at))
    BY <1>1, <1>9 DEF ExportSound, OpenResult, ExportCall
  <2>2. PICK at \in {"failing", "recording"} : GoTo(p, at)
    BY <1>9 DEF OpenResult
  <2> QED
    BY <1>2, <1>3, <2>1, <2>2, ExportGoStep DEF Rendering
<1> QED
  BY <1>4, <1>5, <1>6, <1>7, <1>8, <1>9

LEMMA HashOutputStep ==
  ASSUME ExportInv, NEW p \in Exporter, HashOutput(p)
  PROVE  ExportInv'
<1> DEFINE c == [export[p] EXCEPT !.at = "hashed", !.bytes = file[FileOf(export[p].manifest)]]
<1>1. export[p] \in ExportCall /\ ExportSound(export[p]) /\ export[p].at = "written"
  BY DEF ExportInv, ExportTypeOK, HashOutput
<1>2. file[FileOf(export[p].manifest)] \in Bytes
  BY <1>1 DEF ExportInv, ExportTypeOK, ExportSound, FileOf, Manifest
<1>3. c \in ExportCall /\ ExportSound(c)
  BY <1>1, <1>2 DEF ExportCall, ExportSound, Rendering
<1>4. export' = [export EXCEPT ![p] = c]
  BY DEF HashOutput
<1> QED
  BY <1>3, <1>4, ExportCallStep DEF HashOutput

LEMMA WriteOutputStep ==
  ASSUME ExportInv, NEW p \in Exporter, WriteOutput(p)
  PROVE  ExportInv'
<1>1. export[p] \in ExportCall /\ ExportSound(export[p]) /\ export[p].at = "clear"
  BY DEF ExportInv, ExportTypeOK, WriteOutput
<1>2. CASE GoTo(p, "failing") /\ UNCHANGED file
  <2> DEFINE c == [export[p] EXCEPT !.at = "failing"]
  <2>1. c \in ExportCall /\ ExportSound(c)
    BY <1>1 DEF ExportSound, ExportCall, Rendering
  <2> QED
    BY <1>2, <2>1, ExportGoStep DEF WriteOutput
<1>3. ASSUME NEW b \in Bytes, file' = [file EXCEPT ![FileOf(export[p].manifest)] = b],
             GoTo(p, "written")
      PROVE  ExportInv'
  <2>. PICK c \in ExportCall : c = [export[p] EXCEPT !.at = "written"]
    BY <1>1 DEF ExportCall, Rendering
  <2>1. FileOf(export[p].manifest) \in Filename /\ export[p].manifest \in Manifest
    BY <1>1 DEF ExportSound, FileOf, Manifest
  <2>2. /\ file' \in [Filename -> Bytes \cup {Nothing}]
        /\ file'[FileOf(export[p].manifest)] # Nothing
        /\ \A f \in Filename : file[f] # Nothing => file'[f] # Nothing
    BY <1>3, <2>1, ExportAssumption DEF ExportInv, ExportTypeOK
  <2>3. ExportSound(c)'
    BY <1>1, <2>1, <2>2 DEF ExportSound, ExportCall, Rendering, NamesApproval, WriteOutput
  <2>. UNCHANGED <<decisions, manifest, artifact>>
    BY DEF WriteOutput
  <2>4. ExportGrows
    BY <2>2 DEF ExportGrows, NamesApproval
  <2>5. ManifestNamesApproval' /\ CompletedHasArtifact'
    BY DEF ExportInv, ManifestNamesApproval, CompletedHasArtifact, WriteOutput
  <2>6. export' = [export EXCEPT ![p] = c]
    BY <1>3 DEF GoTo
  <2> QED
    BY <2>2, <2>3, <2>4, <2>5, <2>6, ExportStep DEF ExportInv, ExportTypeOK, WriteOutput
<1> QED
  BY <1>2, <1>3 DEF WriteOutput

-----------------------------------------------------------------------------
(* Steps that write the status of a manifest. *)

LEMMA StatusWritten ==
  ASSUME ExportInv, NEW m \in Manifest, NamesApproval(m),
         NEW status \in ExportStatus \ {"none"},
         manifest' = [manifest EXCEPT ![m] = status],
         status = "COMPLETED" => \E a \in artifact' : a.manifest = m,
         artifact \subseteq artifact',
         \A a \in artifact' \ artifact : a.manifest = m,
         artifact' \subseteq [manifest : Manifest, bytes : Bytes, renderer : Renderer],
         UNCHANGED <<decisions, file>>
  PROVE  /\ ExportGrows
         /\ manifest' \in [Manifest -> ExportStatus] /\ manifest'[m] = status
         /\ ManifestNamesApproval' /\ CompletedHasArtifact'
<1>1. /\ manifest' \in [Manifest -> ExportStatus]
      /\ \A k \in Manifest : manifest'[k] = IF k = m THEN status ELSE manifest[k]
  BY DEF ExportInv, ExportTypeOK
<1>2. ExportGrows
  BY <1>1 DEF ExportGrows, NamesApproval
<1>3. ManifestNamesApproval'
  BY <1>1 DEF ExportInv, ExportTypeOK, ManifestNamesApproval, NamesApproval
<1>4. CompletedHasArtifact'
  BY <1>1 DEF ExportInv, CompletedHasArtifact
<1> QED
  BY <1>1, <1>2, <1>3, <1>4

(* A call gives its manifest another status than COMPLETED, and ends or goes on. *)
LEMMA ExportStatusStep ==
  ASSUME ExportInv, NEW p \in Exporter, export[p].at # "idle",
         NEW status \in ExportStatus \ {"none", "COMPLETED"},
         manifest' = [manifest EXCEPT ![export[p].manifest] = status],
         NEW c \in {Resting, [export[p] EXCEPT !.at = "ready"], [export[p] EXCEPT !.at = "started"]},
         export' = [export EXCEPT ![p] = c],
         UNCHANGED <<decisions, artifact, file>>
  PROVE  ExportInv'
<1>1. export[p] \in ExportCall /\ ExportSound(export[p])
  BY DEF ExportInv, ExportTypeOK
<1>2. export[p].manifest \in Manifest /\ NamesApproval(export[p].manifest)
  BY <1>1 DEF ExportSound
<1>3. /\ ExportGrows /\ ManifestNamesApproval' /\ CompletedHasArtifact'
      /\ manifest' \in [Manifest -> ExportStatus] /\ manifest'[export[p].manifest] = status
  BY <1>2, StatusWritten DEF ExportInv, ExportTypeOK
<1>4. c \in ExportCall
  BY <1>1, RestingIsSound DEF ExportCall, Rendering
<1>5. ExportSound(c)'
  <2>1. CASE c = Resting
    BY <2>1 DEF ExportSound, Resting
  <2>2. CASE c # Resting
    <3>1. c.manifest = export[p].manifest /\ c.at \in {"ready", "started"}
      BY <1>1, <2>2 DEF ExportCall
    <3> QED
      BY <1>2, <1>3, <3>1 DEF ExportSound, NamesApproval
  <2> QED
    BY <2>1, <2>2
<1> QED
  BY <1>3, <1>4, <1>5, ExportStep DEF ExportInv, ExportTypeOK

LEMMA SetStatusStep ==
  ASSUME ExportInv, NEW p \in Exporter,
         SaveManifest(p) \/ Unavailable(p) \/ StartRender(p) \/ FailRender(p)
  PROVE  ExportInv'
<1>1. CASE SaveManifest(p)
  BY <1>1, ExportStatusStep DEF SaveManifest, GoTo, Return, ExportStatus
<1>2. CASE Unavailable(p)
  BY <1>2, ExportStatusStep DEF Unavailable, Return, ExportStatus
<1>3. CASE StartRender(p)
  BY <1>3, ExportStatusStep DEF StartRender, GoTo, ExportStatus
<1>4. CASE FailRender(p)
  BY <1>4, ExportStatusStep DEF FailRender, Return, ExportStatus
<1> QED
  BY <1>1, <1>2, <1>3, <1>4

LEMMA SaveArtifactStep ==
  ASSUME ExportInv, NEW p \in Exporter, SaveArtifact(p)
  PROVE  ExportInv'
<1> DEFINE m == export[p].manifest
           a == Record(export[p])
<1>1. /\ export[p] \in ExportCall /\ ExportSound(export[p]) /\ export[p].at = "recording"
      /\ artifact' = artifact \cup {a} /\ manifest' = [manifest EXCEPT ![m] = "COMPLETED"]
  BY DEF ExportInv, ExportTypeOK, SaveArtifact
<1>2. m \in Manifest /\ NamesApproval(m) /\ export[p].bytes \in Bytes
  BY <1>1 DEF ExportSound
<1>3. a \in [manifest : Manifest, bytes : Bytes, renderer : Renderer] /\ a.manifest = m
  BY <1>1, <1>2 DEF Record, ExportCall
<1>4. artifact' \subseteq [manifest : Manifest, bytes : Bytes, renderer : Renderer]
  BY <1>1, <1>3 DEF ExportInv, ExportTypeOK
<1>5. /\ ExportGrows /\ ManifestNamesApproval' /\ CompletedHasArtifact'
      /\ manifest' \in [Manifest -> ExportStatus]
  <2>1. /\ \E b \in artifact' : b.manifest = m
        /\ artifact \subseteq artifact' /\ \A b \in artifact' \ artifact : b.manifest = m
    BY <1>1, <1>3
  <2>2. "COMPLETED" \in ExportStatus \ {"none"}
    BY DEF ExportStatus
  <2>3. UNCHANGED <<decisions, file>>
    BY DEF SaveArtifact
  <2> HIDE DEF m, a
  <2> QED
    BY <1>1, <1>2, <1>4, <2>1, <2>2, <2>3, StatusWritten
<1>6. Resting \in ExportCall /\ ExportSound(Resting)'
  BY RestingIsSound DEF ExportSound, Resting
<1> QED
  BY <1>4, <1>5, <1>6, ExportStep DEF ExportInv, ExportTypeOK, SaveArtifact, Return

LEMMA ReportFailureStep ==
  ASSUME ExportInv, NEW m \in Manifest, ReportFailure(m)
  PROVE  ExportInv'
<1>1. PICK status \in {"FAILED", "CANCELLED"} : manifest' = [manifest EXCEPT ![m] = status]
  BY DEF ReportFailure
<1>2. NamesApproval(m)
  BY DEF ReportFailure, ExportInv, ManifestNamesApproval, NamesApproval
<1>3. /\ ExportGrows /\ ManifestNamesApproval' /\ CompletedHasArtifact'
      /\ manifest' \in [Manifest -> ExportStatus]
  BY <1>1, <1>2, StatusWritten DEF ReportFailure, ExportInv, ExportTypeOK, ExportStatus
<1>4. ASSUME NEW q \in Exporter PROVE ExportSound(export[q])'
  <2>1. export'[q] = export[q] /\ ExportSound(export[q]) /\ UNCHANGED <<decisions, file>>
    BY DEF ExportInv, ReportFailure
  <2> QED
    BY <1>3, <2>1 DEF ExportSound, ExportGrows
<1>5. ExportTypeOK'
  BY <1>3 DEF ExportInv, ExportTypeOK, ReportFailure
<1> QED
  BY <1>3, <1>4, <1>5 DEF ExportInv

LEMMA ReportOutputStep ==
  ASSUME ExportInv, NEW p \in Exporter, NEW m \in Manifest, ReportOutput(p, m)
  PROVE  ExportInv'
<1>1. PICK b \in Bytes :
        export' = [export EXCEPT ![p] =
          [at |-> "recording", manifest |-> m, bytes |-> b, renderer |-> "external"]]
  BY DEF ReportOutput
<1> DEFINE c == [at |-> "recording", manifest |-> m, bytes |-> b, renderer |-> "external"]
<1>2. manifest[m] # "none" /\ NamesApproval(m)
  BY DEF ReportOutput, Completable, ExportInv, ManifestNamesApproval, NamesApproval
<1>3. c \in ExportCall /\ ExportSound(c)
  BY <1>2 DEF ExportCall, Renderer, ExportSound
<1> QED
  BY <1>1, <1>3, ExportCallStep DEF ReportOutput

-----------------------------------------------------------------------------

LEMMA ExportNextStep ==
  ASSUME ExportInv, [ExportNext]_exportVars
  PROVE  ExportInv'
<1>1. CASE UNCHANGED exportVars
  BY <1>1 DEF exportVars, ExportInv, ExportTypeOK, ExportSound, NamesApproval,
              ManifestNamesApproval, CompletedHasArtifact
<1>2. ASSUME NEW p \in Exporter, Refuse(p) \/ Die(p) PROVE ExportInv'
  BY <1>2, ExportReturnStep DEF Refuse, Die
<1>3. ASSUME NEW p \in Exporter, Continue(p) PROVE ExportInv'
  BY <1>2, <1>3, ExportReadStep, SetStatusStep, WriteOutputStep, HashOutputStep, SaveArtifactStep
  DEF Continue
<1> QED
  BY <1>1, <1>2, <1>3, DecideStep, PrepareStep, ReportOutputStep, ReportFailureStep
  DEF ExportNext

(* Whatever calls, operators, retries and deaths do, the invariant holds. *)
THEOREM ExportInvariance == ExportSpec => []ExportInv
<1>1. ExportInv /\ [ExportNext]_exportVars => ExportInv'
  BY ExportNextStep
<1> QED
  BY <1>1, InitExportInv, PTL DEF ExportSpec

(* Manifests, artifacts, files and calls keep their types. *)
THEOREM ExportTypeCorrect == ExportSpec => []ExportTypeOK
<1>1. ExportInv => ExportTypeOK
  BY DEF ExportInv
<1> QED
  BY <1>1, ExportInvariance, PTL

(* A manifest names an approval, also when the approval was revoked between  *)
(* the check of prepare_export and the insert, for any number of calls,      *)
(* decisions and file names.                                                *)
THEOREM ApprovalNamedTheorem == ExportSpec => []ManifestNamesApproval
<1>1. ExportInv => ManifestNamesApproval
  BY DEF ExportInv
<1> QED
  BY <1>1, ExportInvariance, PTL

(* A COMPLETED export has its artifact, whichever of the calls, operators and *)
(* retries wrote the status last.                                           *)
THEOREM ArtifactTheorem == ExportSpec => []CompletedHasArtifact
<1>1. ExportInv => CompletedHasArtifact
  BY DEF ExportInv
<1> QED
  BY <1>1, ExportInvariance, PTL
=============================================================================
