------------------------------ MODULE AiRequest ------------------------------
(***************************************************************************)
(* Requests for AI help, their execution, and what leaves the machine:       *)
(* create_request_from_context_snapshot, execute_request and                *)
(* ingest_scope_summary of application/services/ai_assistance.py, the       *)
(* policies and audits of ai_governance.py, and the desktop's provider      *)
(* (apex_desktop/ai.py) that asks them before it sends.  The snapshots that  *)
(* requests rest on are those of AnalysisSnapshot, which go on meanwhile.   *)
(*                                                                         *)
(* Calls run without a lock: every read, transaction and message is a step,  *)
(* and a call may end after any of them.  A policy is what the decision     *)
(* table makes of it for this data: TRUE if it may be sent as it is.  The   *)
(* check that the stored request is still the one that was read is left     *)
(* out; it only refuses more.                                               *)
(*                                                                         *)
(* A definition marked "variant" is not the code: it is the next definition *)
(* with a plausible mistake, which the properties have to notice.           *)
(***************************************************************************)
EXTENDS AnalysisSnapshot, FiniteSets

CONSTANTS
  Executor,     (* who executes requests, one after the other               *)
  Unread,       (* what a call knows of a resource it has not looked at     *)
  MaxRequests,  (* bound: the requests                                      *)
  MaxPolicies,  (* bound: the revisions of the policy                       *)
  MaxAttempts   (* the POSTs of a provider before it gives up               *)

ASSUME RequestAssumption ==
  /\ Unread \notin Found
  /\ MaxRequests \in Nat /\ MaxPolicies \in Nat /\ MaxAttempts \in Nat \ {0}

VARIABLES
  requests,     (* ai_assistance_requests: the snapshots that have one      *)
  expired,      (* those whose expires_at has passed                        *)
  policies,     (* case_ai_policies                                         *)
  results,      (* ai_scope_summaries: the requests that have one           *)
  exec          (* what each execution is doing and remembers               *)

requestVars == <<requests, expired, policies, results, exec>>
aiVars == <<source, snapshots, scoped, reading, requests, expired, policies, results, exec>>

-----------------------------------------------------------------------------


(* sent counts the POSTs.  Nothing reads the table of audits, so an execution *)
(* keeps what is of interest of its own, as history: inForce is the policy  *)
(* in force when the audit was stored that let the data out.  late is       *)
(* history, too: the request had a result or was expired at the beginning.  *)
Exec == [at : {"idle", "check", "live", "generate", "assess", "audit", "send", "wait",
               "ingest", "save"},
         request : Nat, found : [Source -> Found \cup {Unread}], policy : Nat,
         inForce : Nat, sent : Nat, late : BOOLEAN]
Unoccupied == [at |-> "idle", request |-> 0, found |-> [s \in Source |-> Unread], policy |-> 0,
         inForce |-> 0, sent |-> 0, late |-> FALSE]

RequestInit ==
  /\ SnapshotInit
  /\ requests = {} /\ expired = {}
  /\ policies = <<>>
  /\ results = {}
  /\ exec = [c \in Executor |-> Unoccupied]

Become(c, m) == exec' = [exec EXCEPT ![c] = m]
At(c, at, next) == exec[c].at = at /\ Become(c, [exec[c] EXCEPT !.at = next])

End(c, at) == exec[c].at = at /\ Become(c, Unoccupied)

-----------------------------------------------------------------------------
(* create_request_from_context_snapshot: UNIQUE(request_fingerprint), and a  *)
(* request that exists is returned.                                         *)
CreateRequest ==
  \E n \in scoped \ requests :
    /\ Cardinality(requests) < MaxRequests
    /\ requests' = requests \cup {n}
    /\ UNCHANGED <<snapshotVars, expired, policies, results, exec>>

(* expire_request, or time *)
ExpireRequest ==
  \E n \in requests \ expired :
    /\ expired' = expired \cup {n}
    /\ UNCHANGED <<snapshotVars, requests, policies, results, exec>>

-----------------------------------------------------------------------------
(* configure: save_case_ai_policy compares the expected revision in its own  *)
(* INSERT, so that whoever writes has seen the latest.                      *)
Configure ==
  \E permit \in BOOLEAN :
    /\ Len(policies) < MaxPolicies
    /\ policies' = Append(policies, permit)
    /\ UNCHANGED <<snapshotVars, requests, expired, results, exec>>

-----------------------------------------------------------------------------
(* execute_request *)

Begin(c) ==
  \E n \in requests :
    /\ exec[c] = Unoccupied
    /\ Become(c, [Unoccupied EXCEPT !.at = "check", !.request = n, !.late = n \in results \cup expired])
    /\ UNCHANGED <<snapshotVars, requests, expired, policies, results>>

(* validate_current_revisions, one resource after the other *)
LookAt(c) ==
  \E s \in Source :
    /\ exec[c].at = "check"
    /\ exec[c].found[s] = Unread
    /\ Become(c, [exec[c] EXCEPT !.found[s] = source[s]])
    /\ UNCHANGED <<snapshotVars, requests, expired, policies, results>>

Checked(c) == \A s \in Source : exec[c].found[s] # Unread
Current(m) ==
  \A s \in Source : m.found[s] = snapshots[m.request].states[s].expected

(* A result that is stored is returned, whatever became of the sources. *)
LookForNone(c) ==   (* variant: a stored result is not looked for *)
  /\ At(c, "check", "live")
  /\ Checked(c)
  /\ UNCHANGED <<snapshotVars, requests, expired, policies, results>>
FindNone(c) ==
  /\ At(c, "check", "live")
  /\ Checked(c)
  /\ exec[c].request \notin results
  /\ UNCHANGED <<snapshotVars, requests, expired, policies, results>>

ReturnResult(c) ==
  /\ End(c, "check")
  /\ Checked(c)
  /\ exec[c].request \in results
  /\ UNCHANGED <<snapshotVars, requests, expired, policies, results>>

Admit(c) ==
  /\ At(c, "live", "generate")
  /\ exec[c].request \notin expired
  /\ Current(exec[c])
  /\ UNCHANGED <<snapshotVars, requests, expired, policies, results>>

(* generate_scope_summary reads the request again. *)
Generate(c) ==
  /\ At(c, "generate", "assess")
  /\ exec[c].request \notin expired
  /\ UNCHANGED <<snapshotVars, requests, expired, policies, results>>

-----------------------------------------------------------------------------
(* _approved_payload: the policy is read and its decision, also a refusal,   *)
(* is stored if the policy is still the latest.                             *)

ReadPolicy(c) ==
  /\ exec[c].at = "assess"
  /\ Become(c, [exec[c] EXCEPT !.at = "audit", !.policy = Len(policies)])
  /\ UNCHANGED <<snapshotVars, requests, expired, policies, results>>

Permits(n) == n # 0 /\ policies[n]

AppendAnyway(c, next) ==   (* variant: the insert has no condition *)
  Become(c, next)
AppendAudit(c, next) ==
  /\ exec[c].policy = Len(policies)
  /\ Become(c, next)

Assess(c) ==
  /\ exec[c].at = "audit"
  /\ AppendAudit(c, IF Permits(exec[c].policy)
                      THEN [exec[c] EXCEPT !.at = "send", !.inForce = Len(policies)]
                      ELSE Unoccupied)
  /\ UNCHANGED <<snapshotVars, requests, expired, policies, results>>

-----------------------------------------------------------------------------
(* _post_json, and the ingestion of the answer *)

Send(c) ==
  /\ exec[c].at = "send"
  /\ Become(c, [exec[c] EXCEPT !.at = "wait", !.sent = @ + 1])
  /\ UNCHANGED <<snapshotVars, requests, expired, policies, results>>

(* An answer with a status of 500 or more. *)
SendAgain(c) ==
  /\ exec[c].sent < MaxAttempts
  /\ At(c, "wait", "send")
  /\ UNCHANGED <<snapshotVars, requests, expired, policies, results>>

Answer(c) ==
  /\ At(c, "wait", "ingest")
  /\ UNCHANGED <<snapshotVars, requests, expired, policies, results>>

TakeAnswer(c) ==
  /\ At(c, "ingest", "save")
  /\ exec[c].request \notin expired
  /\ UNCHANGED <<snapshotVars, requests, expired, policies, results>>

SaveResult(c) ==
  /\ End(c, "save")
  /\ results' = results \cup {exec[c].request}
  /\ UNCHANGED <<snapshotVars, requests, expired, policies>>

(* An execution that is refused, gets no answer, or whose process dies. *)
GiveUp(c) ==
  /\ exec[c] # Unoccupied
  /\ Become(c, Unoccupied)
  /\ UNCHANGED <<snapshotVars, requests, expired, policies, results>>

-----------------------------------------------------------------------------

Execute(c) ==
  \/ Begin(c) \/ LookAt(c) \/ FindNone(c) \/ ReturnResult(c) \/ Admit(c) \/ Generate(c)
  \/ ReadPolicy(c) \/ Assess(c) \/ Send(c) \/ SendAgain(c) \/ Answer(c)
  \/ TakeAnswer(c) \/ SaveResult(c) \/ GiveUp(c)

RequestNext ==
  \/ SnapshotNext /\ UNCHANGED requestVars
  \/ CreateRequest \/ ExpireRequest \/ Configure
  \/ \E c \in Executor : Execute(c)

RequestSpec == RequestInit /\ [][RequestNext]_aiVars

-----------------------------------------------------------------------------

(* Requests, policies, results and executions keep their types. *)
RequestTypeOK ==
  /\ SnapshotTypeOK
  /\ requests \subseteq scoped /\ expired \subseteq requests
  /\ policies \in Seq(BOOLEAN)
  /\ results \subseteq requests
  /\ exec \in [Executor -> Exec]
  /\ \A c \in Executor : exec[c].sent <= MaxAttempts

-----------------------------------------------------------------------------

(* The request of an execution has left the machine. *)
Sent(c) == exec[c].sent > 0

(* What was sent was sent after an audit of its own, and the policy in force *)
(* when the audit was stored permitted it: not one that was read before and *)
(* replaced while the execution made up its mind.                           *)
SentUnderPolicy ==
  \A c \in Executor : Sent(c) => Permits(exec[c].inForce)

(* What was sent rests on the sources as they were first captured, however   *)
(* often the snapshot was refreshed: a refresh that has reported a change   *)
(* once does not make the changed sources the ones to send.                 *)
SentAsFirstCaptured ==
  \A c \in Executor : Sent(c) =>
    \A n \in Lineage(exec[c].request), s \in Source :
      snapshots[n].previous = 0 => exec[c].found[s] = snapshots[n].states[s].current

(* An execution that began after a result was stored, or after the request   *)
(* expired, sends nothing, also when others were under way.                 *)
NothingSentLate == \A c \in Executor : exec[c].late => ~Sent(c)
=============================================================================
