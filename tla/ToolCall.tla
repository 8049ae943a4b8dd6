------------------------------ MODULE ToolCall ------------------------------
(***************************************************************************)
(* Calls of the MCP servers that one frontend session makes: call_tool of   *)
(* apex_mcp/tool_registry.py, the budget of apex_mcp/budget.py, and the     *)
(* approvals that POST /confirmations stores and db_confirmation.py spends. *)
(*                                                                         *)
(* There are a tool that pages through results and a tool that changes a    *)
(* case and needs the approval of a person.  call_tool is synchronous: a    *)
(* server process runs one call at a time, but several processes share the  *)
(* approvals, and the backend answers requests between the steps of others. *)
(* Each server counts for itself.  Bytes are counted like items and left    *)
(* out; schemas, roles and tenants, which nothing here changes, too.        *)
(*                                                                         *)
(* A definition marked "variant" is not the code: it is the next definition *)
(* with a plausible mistake, which the properties have to notice.           *)
(***************************************************************************)
EXTENDS Naturals

CONSTANTS
  Server,    (* MCP server processes                                        *)
  Request,   (* requests to POST /confirmations                             *)
  Grant,     (* the ids of approvals                                        *)
  Cursor,    (* page cursors                                                *)
  Absent,      (* no cursor, no approval                                      *)
  GrantLife, (* _GRANT_TTL_SECONDS                                          *)
  TokenLife, (* the expiry of the access token                              *)
  Window,    (* window_seconds                                              *)
  MaxCalls,  (* max_calls                                                   *)
  MaxItems,  (* max_total_items                                             *)
  PageItems, (* max_result_items of the descriptors                         *)
  MaxTime    (* bound on the clock                                          *)

ASSUME CallAssumption ==
  /\ Absent \notin Grant \cup Cursor
  /\ {GrantLife, TokenLife, Window, MaxCalls, MaxItems, PageItems, MaxTime} \subseteq Nat
  /\ Window > 0

VARIABLES
  now,       (* seconds                                                     *)
  revoked,   (* whether the session is revoked                              *)
  grant,     (* the table of approvals                                      *)
  approving, (* the requests for an approval that have checked the session  *)
  window,    (* the budget of each server                                   *)
  serving,      (* the call each server runs                                   *)
  done,      (* how often an approved change has been made                  *)
  log        (* history: what each server had begun and handed out in all,   *)
             (* at the end of each second                                   *)

toolVars == <<now, revoked, grant, approving, window, serving, done, log>>

-----------------------------------------------------------------------------

Time == 0..MaxTime
GrantRow == [issued : BOOLEAN, uses : Nat, expires : Nat]
Budget == [open : BOOLEAN, started : Time, calls : 0..MaxCalls, items : 0..MaxItems, cursors : SUBSET Cursor]
Serving == [at : {"idle", "begin", "gate", "consume", "invoke", "accept"},
         approved : BOOLEAN, grant : Grant \cup {Absent}, cursor : Cursor \cup {Absent}, items : Nat]
Waiting == [at |-> "idle", approved |-> FALSE, grant |-> Absent, cursor |-> Absent, items |-> 0]

ToolInit ==
  /\ now = 0
  /\ revoked = FALSE
  /\ grant = [g \in Grant |-> [issued |-> FALSE, uses |-> 0, expires |-> 0]]
  /\ approving = {}
  /\ window = [s \in Server |-> [open |-> FALSE, started |-> 0, calls |-> 0, items |-> 0, cursors |-> {}]]
  /\ serving = [s \in Server |-> Waiting]
  /\ done = [g \in Grant |-> 0]
  /\ log = [s \in Server |-> [t \in Time |-> [calls |-> 0, items |-> 0]]]

Tick ==
  /\ now < MaxTime
  /\ now' = now + 1
  /\ log' = [s \in Server |-> [log[s] EXCEPT ![now + 1] = log[s][now]]]
  /\ UNCHANGED <<revoked, grant, approving, window, serving, done>>

-----------------------------------------------------------------------------
(* POST /confirmations: the session is read, and later the approval stored. *)

CheckSession(r) ==
  /\ r \notin approving
  /\ now < TokenLife /\ ~revoked
  /\ approving' = approving \cup {r}
  /\ UNCHANGED <<now, revoked, grant, window, serving, done, log>>

IssueGrant(r) ==
  /\ r \in approving
  /\ \E g \in Grant :
       /\ ~grant[g].issued
       /\ grant' = [grant EXCEPT ![g] = [issued |-> TRUE, uses |-> 0, expires |-> now + GrantLife]]
  /\ approving' = approving \ {r}
  /\ UNCHANGED <<now, revoked, window, serving, done, log>>

LogoutSession ==
  /\ ~revoked
  /\ revoked' = TRUE
  /\ UNCHANGED <<now, grant, approving, window, serving, done, log>>

-----------------------------------------------------------------------------
(* call_tool, up to the budget *)

(* confirmation_for and authorize look at a row the same way. *)
Spendable(g) == g # Absent /\ grant[g].issued /\ grant[g].expires > now /\ grant[g].uses < 1

(* The token is verified, whether the session is revoked is not; which of    *)
(* several approvals of the request comes first is left open.                *)
Receive(s) ==
  /\ serving[s] = Waiting
  /\ now < TokenLife
  /\ \/ \E c \in Cursor \cup {Absent} : serving' = [serving EXCEPT ![s] = [Waiting EXCEPT !.at = "begin", !.cursor = c]]
     \/ \E g \in {h \in Grant : Spendable(h)} \cup {Absent} :
          /\ g = Absent => \A h \in Grant : ~Spendable(h)
          /\ serving' = [serving EXCEPT ![s] = [Waiting EXCEPT !.at = "begin", !.approved = TRUE, !.grant = g]]
  /\ UNCHANGED <<now, revoked, grant, approving, window, done, log>>

(* _window: the window in use, or a new one that starts now. *)
Current(s) ==
  IF window[s].open /\ now - window[s].started < Window THEN window[s]
  ELSE [open |-> TRUE, started |-> now, calls |-> 0, items |-> 0, cursors |-> {}]

Answer(s) == serving' = [serving EXCEPT ![s] = Waiting]

Refused(w, c) == w.calls >= MaxCalls \/ c \in w.cursors

RefuseCall(s) ==
  /\ serving[s].at = "begin"
  /\ Refused(Current(s), serving[s].cursor)
  /\ window' = [window EXCEPT ![s] = Current(s)]
  /\ Answer(s)
  /\ UNCHANGED <<now, revoked, grant, approving, done, log>>

BeginCall(s) ==
  LET w == Current(s)
  IN  /\ serving[s].at = "begin"
      /\ ~Refused(w, serving[s].cursor)
      /\ window' = [window EXCEPT ![s] =
           [w EXCEPT !.calls = @ + 1, !.cursors = @ \cup ({serving[s].cursor} \ {Absent})]]
      /\ serving' = [serving EXCEPT ![s].at = IF serving[s].approved THEN "gate" ELSE "invoke"]
      /\ log' = [log EXCEPT ![s][now].calls = @ + 1]
      /\ UNCHANGED <<now, revoked, grant, approving, done>>

-----------------------------------------------------------------------------
(* The confirmation gate: authorize reads the row, and then updates it. *)

CheckGrant(s) ==
  /\ serving[s].at = "gate"
  /\ Spendable(serving[s].grant)
  /\ serving' = [serving EXCEPT ![s].at = "consume"]
  /\ UNCHANGED <<now, revoked, grant, approving, window, done, log>>

(* The UPDATE's condition, and the row count it returns. *)
ConsumableAsRead(g) == TRUE   (* variant: the row that was read decides *)
Consumable(g) == grant[g].uses < 1

Consume(s) ==
  LET g == serving[s].grant
  IN  /\ serving[s].at = "consume"
      /\ Consumable(g)
      /\ grant' = [grant EXCEPT ![g].uses = @ + 1]
      /\ serving' = [serving EXCEPT ![s].at = "invoke"]
      /\ UNCHANGED <<now, revoked, approving, window, done, log>>

Deny(s) ==
  /\ \/ serving[s].at = "gate" /\ ~Spendable(serving[s].grant)
     \/ serving[s].at = "consume" /\ ~Consumable(serving[s].grant)
  /\ Answer(s)
  /\ UNCHANGED <<now, revoked, grant, approving, window, done, log>>

-----------------------------------------------------------------------------
(* The engine, and the budget again *)

Invoke(s) ==
  /\ serving[s].at = "invoke"
  /\ done' = IF serving[s].approved THEN [done EXCEPT ![serving[s].grant] = @ + 1] ELSE done
  /\ \E n \in 0..PageItems + 1 : serving' = [serving EXCEPT ![s].at = "accept", ![s].items = n]
  /\ UNCHANGED <<now, revoked, grant, approving, window, log>>

(* The engine answers with an error, which has no items, or raises one. *)
InvokeFails(s) ==
  /\ serving[s].at = "invoke"
  /\ \/ serving' = [serving EXCEPT ![s].at = "accept"]
     \/ Answer(s)
  /\ UNCHANGED <<now, revoked, grant, approving, window, done, log>>

FitsBefore(w, n) == w.items < MaxItems   (* variant: the items are not added *)
Fits(w, n) == w.items + n <= MaxItems

AcceptResult(s) ==
  LET w == Current(s)
      n == serving[s].items
  IN  /\ serving[s].at = "accept"
      /\ n <= PageItems /\ Fits(w, n)
      /\ window' = [window EXCEPT ![s] = [w EXCEPT !.items = @ + n]]
      /\ log' = [log EXCEPT ![s][now].items = @ + n]
      /\ Answer(s)
      /\ UNCHANGED <<now, revoked, grant, approving, done>>

(* A result that does not validate, or is too long for one call, leaves the  *)
(* window alone.  A change it reports has been made.                          *)
RejectResult(s) ==
  LET n == serving[s].items
  IN  /\ serving[s].at = "accept"
      /\ n > PageItems \/ ~Fits(Current(s), n)
      /\ window' = [window EXCEPT ![s] = IF n > PageItems THEN @ ELSE Current(s)]
      /\ Answer(s)
      /\ UNCHANGED <<now, revoked, grant, approving, done, log>>

-----------------------------------------------------------------------------

ToolNext ==
  \/ Tick \/ LogoutSession
  \/ \E r \in Request : CheckSession(r) \/ IssueGrant(r)
  \/ \E s \in Server :
       \/ Receive(s) \/ RefuseCall(s) \/ BeginCall(s)
       \/ CheckGrant(s) \/ Consume(s) \/ Deny(s)
       \/ Invoke(s) \/ InvokeFails(s) \/ AcceptResult(s) \/ RejectResult(s)

ToolSpec == ToolInit /\ [][ToolNext]_toolVars

-----------------------------------------------------------------------------

(* Tables, budgets and calls keep their types: no window counts past its     *)
(* limits, and only a call that needs an approval names one.                 *)
ToolTypeOK ==
  /\ now \in Time
  /\ revoked \in BOOLEAN
  /\ grant \in [Grant -> GrantRow]
  /\ approving \subseteq Request
  /\ window \in [Server -> Budget]
  /\ serving \in [Server -> Serving]
  /\ done \in [Grant -> Nat]
  /\ log \in [Server -> [Time -> [calls : Nat, items : Nat]]]
  /\ \A s \in Server : serving[s].grant # Absent => serving[s].approved

(* One approval is one change, however many servers look it up, check it and *)
(* spend it at the same time: a change that has been made has been spent     *)
(* from its approval, and while one server is about to make a change with an *)
(* approval it has spent, no other is, and none has                          *)
(* (DbFrontendSecurityProvider.authorize, ToolRegistry.call_tool).           *)
Spends(s, g) == serving[s].at = "invoke" /\ serving[s].grant = g

OneChange ==
  \A g \in Grant :
    /\ done[g] <= grant[g].uses /\ grant[g].uses <= 1
    /\ \A s, t \in Server : Spends(s, g) /\ Spends(t, g) => s = t /\ done[g] < grant[g].uses

(* What a server had begun and handed out before second t. *)
CallsBefore(s, t) == IF t = 0 THEN 0 ELSE log[s][t - 1].calls
ItemsBefore(s, t) == IF t = 0 THEN 0 ELSE log[s][t - 1].items

(* The first of the Window seconds that end with second t. *)
FirstOf(t) == IF t < Window THEN 0 ELSE t + 1 - Window

(* However calls and windows meet, and although the window may change while  *)
(* a call runs, a server never begins more calls and never hands out more    *)
(* items within the length of a window than two windows hold (ToolBudget).   *)
BurstBound ==
  \A s \in Server :
    /\ CallsBefore(s, now + 1) <= CallsBefore(s, FirstOf(now)) + 2 * MaxCalls
    /\ ItemsBefore(s, now + 1) <= ItemsBefore(s, FirstOf(now)) + 2 * MaxItems
=============================================================================
