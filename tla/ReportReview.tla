---------------------------- MODULE ReportReview ----------------------------
(***************************************************************************)
(* Versions, reviews and approvals of one report: ReportService of          *)
(* src/apex_forensic/application/services/report.py over the report tables  *)
(* of the SQLite repository.                                                *)
(*                                                                         *)
(* Handlers run in several threads and processes, each on a connection of   *)
(* its own.  A handler reads in one or more autocommitted statements,       *)
(* computes, and writes in one transaction at its end.  Every read and      *)
(* every transaction is a step here.  What keeps two handlers apart is the  *)
(* UNIQUE constraints alone; the header row of the report is rewritten as a *)
(* whole from the copy that the handler read.                               *)
(*                                                                         *)
(* A definition marked "variant" is not the code: it is the next definition *)
(* with a plausible mistake, which the properties have to notice.           *)
(***************************************************************************)
EXTENDS Naturals, Sequences

CONSTANTS
  Handler,      (* concurrent calls of the service                          *)
  Version,      (* contents a version can have, by content fingerprint      *)
  Section,      (* sections of every version                                *)
  Required,     (* the sections whose coverage asks for a review            *)
  Actions,      (* the review actions that callers use                      *)
  Verified,     (* versions whose evidence custody chains verify            *)
  None,         (* no version, no section                                   *)
  MaxReviews,   (* bound: review events of each version                     *)
  MaxDecisions  (* bound: approval records of the report                    *)

ReviewActions == {"SUBMIT", "COMMENT", "REQUEST_CHANGES", "ACCEPT_SECTION",
                  "REJECT_SECTION", "COMPLETE", "REOPEN"}
Decisions     == {"APPROVED", "REJECTED", "REVOKED"}

ASSUME ReportAssumption ==
  /\ Required \subseteq Section
  /\ Actions \subseteq ReviewActions
  /\ Verified \subseteq Version
  /\ None \notin Version \cup Section
  /\ MaxReviews \in [Version -> Nat]
  /\ MaxDecisions \in Nat

VARIABLES
  header,     (* the mutable row of the report                              *)
  number,     (* version numbers; 0 is a version that does not exist        *)
  parent,     (* previous_version_id of each version                        *)
  events,     (* review events of each version, by review_revision          *)
  approvals,  (* approval records of the report, by approval_revision       *)
  call        (* what each running handler has read so far                  *)

reportVars == <<header, number, parent, events, approvals>>
vars == <<reportVars, call>>

-----------------------------------------------------------------------------

ReviewStatuses == {"DRAFT", "REVIEW_REQUIRED", "REJECTED", "APPROVED", "ARCHIVED"}
ExportStatuses == {"EXPORT_READY", "EXPORT_FAILED", "EXPORTED"}

Header == [status : ReviewStatuses \cup ExportStatuses, active : Version \cup {None}, latest : Nat]
Unread == [status |-> "unread", active |-> None, latest |-> 0]

Event    == [action : ReviewActions, section : Section \cup {None}]
Approval == [version : Version, decision : Decisions]

(* A handler has passed its "checked" reads, then has "listed" the log it   *)
(* appends to, then is "ready" with its copy of the header.                 *)
Op   == {"idle", "create", "archive", "activate", "export"} \cup ReviewActions \cup Decisions
Call == [op : Op, at : {"checked", "listed", "ready"}, version : Version \cup {None},
         section : Section \cup {None}, base : Nat, head : Header \cup {Unread}]
Idle == [op |-> "idle", at |-> "checked", version |-> None,
         section |-> None, base |-> 0, head |-> Unread]

Exists(v) == number[v] # 0

-----------------------------------------------------------------------------
(* What a log of review events says of the version: the last event decides  *)
(* its status, the last of its section events decides each section.         *)

ReviewStatus(log) ==
  IF log = <<>> THEN "DRAFT"
  ELSE CASE log[Len(log)].action = "COMPLETE"        -> "REVIEW_COMPLETE"
         [] log[Len(log)].action = "REQUEST_CHANGES" -> "CHANGES_REQUESTED"
         [] OTHER                                    -> "IN_REVIEW"

(* Among the first n events, an acceptance of s that no later verdict on s  *)
(* has replaced.                                                            *)
Accepted(log, n, s) ==
  \E i \in 1..n :
    /\ log[i].action = "ACCEPT_SECTION" /\ log[i].section = s
    /\ \A j \in (i + 1)..n : log[j].section = s => log[j].action \notin {"REJECT_SECTION", "REQUEST_CHANGES"}

(* The conditions under which a review event may be appended to a log. *)
Reviewable(log, a, s) ==
  /\ a \in {"ACCEPT_SECTION", "REJECT_SECTION"} => s # None
  /\ a \in {"SUBMIT", "COMPLETE", "REOPEN"} => s = None
  /\ a = "COMPLETE" => /\ ReviewStatus(log) \in {"IN_REVIEW", "CHANGES_REQUESTED"}
                       /\ \A r \in Required : Accepted(log, Len(log), r)

LatestDecisionOf(v) ==
  LET decided == {i \in 1..Len(approvals) : approvals[i].version = v}
  IN  IF decided = {} THEN "NONE"
      ELSE approvals[CHOOSE i \in decided : \A j \in decided : j <= i].decision

(* UNIQUE(report_id, version_number), UNIQUE(report_id, content_fingerprint), *)
(* UNIQUE(report_version_id, review_revision) and                            *)
(* UNIQUE(report_id, approval_revision).                                     *)
NumberAlwaysFree(n) == TRUE   (* variant: no constraint *)
NumberFree(n) == \A v \in Version : number[v] # n

ContentAlwaysNew(v) == TRUE   (* variant: no constraint *)
ContentNew(v) == ~Exists(v)

RevisionAlwaysFree(log, base) == TRUE   (* variant: the revision is assigned by the insert *)
RevisionFree(log, base) == Len(log) = base

Init ==
  /\ header    = [status |-> "DRAFT", active |-> None, latest |-> 0]
  /\ number    = [v \in Version |-> 0]
  /\ parent    = [v \in Version |-> None]
  /\ events    = [v \in Version |-> <<>>]
  /\ approvals = <<>>
  /\ call      = [p \in Handler |-> Idle]

-----------------------------------------------------------------------------
(* Handlers that read the header first and write it back. *)

Start(p, c) ==
  /\ call[p] = Idle
  /\ call' = [call EXCEPT ![p] = c]
  /\ UNCHANGED reportVars

OpenForVersions == header.status # "ARCHIVED"

ReadForCreate(p) ==
  \E v \in Version :
    /\ OpenForVersions
    /\ Start(p, [Idle EXCEPT !.op = "create", !.at = "ready", !.version = v, !.head = header])

ReadForArchive(p) ==
  Start(p, [Idle EXCEPT !.op = "archive", !.at = "ready", !.head = header])

ReadForActivate(p) ==
  \E v \in Version :
    /\ Exists(v)
    /\ Start(p, [Idle EXCEPT !.op = "activate", !.at = "ready", !.version = v, !.head = header])

(* prepare_export and record_export_result: of an approved version, or of a  *)
(* manifest made when there was one.                                         *)
ReadForExport(p) ==
  /\ \E i \in 1..Len(approvals) : approvals[i].decision = "APPROVED"
  /\ Start(p, [Idle EXCEPT !.op = "export", !.at = "ready", !.head = header])

(* The call ends: an error, a revision conflict, or a process that dies. *)
Leave(p) ==
  /\ call[p] # Idle
  /\ call' = [call EXCEPT ![p] = Idle]
  /\ UNCHANGED reportVars

CommitCreateHeaderFirst(p) ==   (* variant: the header is updated in a transaction of its own *)
  LET c == call[p]  v == c.version  n == c.head.latest + 1 IN
  /\ c.op = "create"
  /\ IF ContentNew(v) /\ NumberFree(n)
       THEN number' = [number EXCEPT ![v] = n] /\ parent' = [parent EXCEPT ![v] = c.head.active]
       ELSE UNCHANGED <<number, parent>>
  /\ header' = [status |-> "REVIEW_REQUIRED", active |-> v, latest |-> n]
  /\ call'   = [call EXCEPT ![p] = Idle]
  /\ UNCHANGED <<events, approvals>>

(* save_report_version: the content is looked up again, and both constraints *)
(* are checked when the row is inserted.                                     *)
CommitCreate(p) ==
  LET c == call[p]  v == c.version  n == c.head.latest + 1 IN
  /\ c.op = "create"
  /\ ContentNew(v) /\ NumberFree(n)
  /\ number' = [number EXCEPT ![v] = n]
  /\ parent' = [parent EXCEPT ![v] = c.head.active]
  /\ header' = [status |-> "REVIEW_REQUIRED", active |-> v, latest |-> n]
  /\ call'   = [call EXCEPT ![p] = Idle]
  /\ UNCHANGED <<events, approvals>>

CommitArchive(p) ==
  /\ call[p].op = "archive"
  /\ header' = [call[p].head EXCEPT !.status = "ARCHIVED"]
  /\ call'   = [call EXCEPT ![p] = Idle]
  /\ UNCHANGED <<number, parent, events, approvals>>

CommitActivate(p) ==
  /\ call[p].op = "activate"
  /\ header' = [call[p].head EXCEPT !.active = call[p].version, !.status = "REVIEW_REQUIRED"]
  /\ call'   = [call EXCEPT ![p] = Idle]
  /\ UNCHANGED <<number, parent, events, approvals>>

(* The header is written with the manifest or the artifact. *)
CommitExport(p) ==
  /\ call[p].op = "export"
  /\ \E status \in ExportStatuses : header' = [call[p].head EXCEPT !.status = status]
  /\ call' = [call EXCEPT ![p] = Idle]
  /\ UNCHANGED <<number, parent, events, approvals>>

-----------------------------------------------------------------------------
(* _append_review_event: list the events of the version and check, read the  *)
(* header, then append the event and rewrite the header in one transaction.  *)

ListReview(p) ==
  \E v \in Version, a \in Actions, s \in Section \cup {None} :
    /\ Exists(v)
    /\ Len(events[v]) < MaxReviews[v]
    /\ Reviewable(events[v], a, s)
    /\ Start(p, [Idle EXCEPT !.op = a, !.at = "listed", !.version = v,
                             !.section = s, !.base = Len(events[v])])

ReadHeader(p) ==
  /\ call[p].at = "listed"
  /\ call' = [call EXCEPT ![p].at = "ready", ![p].head = header]
  /\ UNCHANGED reportVars

StatusAfterReview(a, old) ==
  CASE a = "REQUEST_CHANGES"      -> "REJECTED"
    [] a \in {"SUBMIT", "REOPEN"} -> "REVIEW_REQUIRED"
    [] OTHER                      -> old

AppendReview(p) ==
  LET c == call[p]  v == c.version IN
  /\ c.op \in ReviewActions /\ c.at = "ready"
  /\ RevisionFree(events[v], c.base)
  /\ events' = [events EXCEPT ![v] = Append(@, [action |-> c.op, section |-> c.section])]
  /\ header' = [c.head EXCEPT !.status = StatusAfterReview(c.op, @)]
  /\ call'   = [call EXCEPT ![p] = Idle]
  /\ UNCHANGED <<number, parent, approvals>>

-----------------------------------------------------------------------------
(* approve, reject and revoke_approval check first and then share            *)
(* _append_approval: list the approvals of the report, read the header, and  *)
(* append the record and rewrite the header in one transaction.  A snapshot  *)
(* of the custody chains is taken, or given, between the checks and the list.*)

ApprovableOnceReviewed(v) ==   (* variant: any review is taken as a completed one *)
  ReviewStatus(events[v]) # "DRAFT" /\ v \in Verified
Approvable(v) == ReviewStatus(events[v]) = "REVIEW_COMPLETE" /\ v \in Verified

CheckDecision(p) ==
  \E v \in Version, d \in Decisions :
    /\ Exists(v)
    /\ d = "APPROVED" => Approvable(v)
    /\ d = "REVOKED"  => LatestDecisionOf(v) = "APPROVED"
    /\ Start(p, [Idle EXCEPT !.op = d, !.at = "checked", !.version = v])

ListApprovals(p) ==
  /\ call[p].op \in Decisions /\ call[p].at = "checked"
  /\ Len(approvals) < MaxDecisions
  /\ call' = [call EXCEPT ![p].at = "listed", ![p].base = Len(approvals)]
  /\ UNCHANGED reportVars

StatusAfterDecision(d) ==
  CASE d = "APPROVED" -> "APPROVED"
    [] d = "REJECTED" -> "REJECTED"
    [] d = "REVOKED"  -> "REVIEW_REQUIRED"

AppendApproval(p) ==
  LET c == call[p] IN
  /\ c.op \in Decisions /\ c.at = "ready"
  /\ RevisionFree(approvals, c.base)
  /\ approvals' = Append(approvals, [version |-> c.version, decision |-> c.op])
  /\ header' = [c.head EXCEPT !.status = StatusAfterDecision(c.op)]
  /\ call'   = [call EXCEPT ![p] = Idle]
  /\ UNCHANGED <<number, parent, events>>

-----------------------------------------------------------------------------

Next ==
  \E p \in Handler :
    \/ ReadForCreate(p) \/ CommitCreate(p)
    \/ ReadForArchive(p) \/ CommitArchive(p)
    \/ ReadForActivate(p) \/ CommitActivate(p)
    \/ ReadForExport(p) \/ CommitExport(p)
    \/ ListReview(p) \/ AppendReview(p)
    \/ CheckDecision(p) \/ ListApprovals(p) \/ AppendApproval(p)
    \/ ReadHeader(p) \/ Leave(p)

Spec == Init /\ [][Next]_vars

-----------------------------------------------------------------------------

(* The tables and the copies the handlers hold keep their types, and the     *)
(* logs stay within the bounds.                                              *)
TypeOK ==
  /\ header \in Header
  /\ number \in [Version -> Nat]
  /\ parent \in [Version -> Version \cup {None}]
  /\ events \in [Version -> Seq(Event)]
  /\ approvals \in Seq(Approval)
  /\ call \in [Handler -> Call]
  /\ \A v \in Version : Len(events[v]) <= MaxReviews[v]
  /\ Len(approvals) <= MaxDecisions

(* Version numbers are 1, 2, 3 without a gap and without a repetition, even  *)
(* though latest_version_number, from which the next one is computed, is     *)
(* written back from stale copies of the header (create_version).            *)
NumbersContiguous ==
  /\ \A v, w \in Version : Exists(v) /\ number[v] = number[w] => v = w
  /\ \A v \in Version : \A k \in 1..number[v] : \E w \in Version : number[w] = k

(* The previous version that a version was written against was there before  *)
(* it, whatever set_active_version and stale header writes did in between:   *)
(* the history of a report is never cyclic and never dangling.               *)
LineageDescends ==
  \A v \in Version : parent[v] # None => Exists(parent[v]) /\ number[parent[v]] < number[v]

(* The header never names a version or a number that was never saved, which  *)
(* get_version(active_version_id) in create_version relies on.               *)
HeaderPointsBack ==
  /\ header.active # None => Exists(header.active)
  /\ header.latest # 0 => \E v \in Version : number[v] = header.latest

(* Wherever the log of a version says that its review is complete, every     *)
(* required section had been accepted and not rejected since, although the   *)
(* handler checked that on a list it read two steps before the insert        *)
(* (_append_review_event).                                                   *)
CompleteMeansAccepted ==
  \A v \in Version : \A i \in 1..Len(events[v]) :
    events[v][i].action = "COMPLETE" => \A s \in Required : Accepted(events[v], i - 1, s)

(* An approval in the log is for a version whose custody verified and whose  *)
(* review was complete at some time (approve).                               *)
ApprovalRestsOnReview ==
  \A k \in 1..Len(approvals) :
    approvals[k].decision = "APPROVED" =>
      /\ approvals[k].version \in Verified
      /\ \E i \in 1..Len(events[approvals[k].version]) :
           events[approvals[k].version][i].action = "COMPLETE"

(* "Report approval requires completed review." (the error of approve): an   *)
(* approval is recorded only while the review of the version is complete.    *)
(* The code does not keep this, so that no configuration asks for it.       *)
ApprovalNeedsCompleteReview ==
  [][\A p \in Handler : AppendApproval(p) /\ call[p].op = "APPROVED" =>
       ReviewStatus(events[call[p].version]) = "REVIEW_COMPLETE"]_vars
=============================================================================
