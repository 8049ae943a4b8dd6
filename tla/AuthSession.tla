---------------------------- MODULE AuthSession ----------------------------
(***************************************************************************)
(* The login sessions of one account: class AuthService of                  *)
(* src/apex_backend/auth/service.py over the tables users and user_sessions.*)
(*                                                                         *)
(* Requests run as coroutines and in several processes; every await of a    *)
(* statement or a commit is a point where others run.  A refresh token is   *)
(* the pair of its session and its jti; uuid4 never makes a jti twice, so   *)
(* they are numbered in the order in which they are made.  The access token *)
(* that comes with it names the session too.                                *)
(*                                                                         *)
(* A definition marked "variant" is not the code: it is the next definition *)
(* with a plausible mistake, which the properties have to notice.           *)
(***************************************************************************)
EXTENDS Naturals

CONSTANTS
  Handler,    (* concurrent requests                                        *)
  Session,    (* session ids                                                *)
  Legacy,     (* sessions from before rotation, whose jti is NULL           *)
  None,       (* no session                                                 *)
  MaxTokens,  (* bound: refresh tokens ever made                            *)
  Mortal      (* the requests that can end without an answer                *)

ASSUME AuthAssumption ==
  /\ Legacy \subseteq Session
  /\ None \notin Session
  /\ MaxTokens \in Nat
  /\ Mortal \subseteq Handler

VARIABLES
  enabled,  (* is_active of the account                                     *)
  row,      (* user_sessions                                                *)
  expired,  (* the sessions whose expires_at has passed                     *)
  issued,   (* the refresh tokens that clients hold or once held            *)
  made,     (* how many jtis have been made                                 *)
  call      (* what each running request knows                              *)

vars == <<enabled, row, expired, issued, made, call>>

-----------------------------------------------------------------------------

NULL == 0
Jti == 0..MaxTokens
Token == [session : Session, jti : Jti]
Row == [state : {"absent", "live", "revoked"}, jti : Jti]

(* From "rotated" to "issuing" a refresh is about to hand out a new token. *)
HandingOut == {"rotated", "owned", "issuing"}
Call == [at : {"idle", "login", "missed", "reuse", "deactivating"} \cup HandingOut,
         session : Session \cup {None}, jti : Jti, found : SUBSET Session]
Idle == [at |-> "idle", session |-> None, jti |-> NULL, found |-> {}]

Live(s) == row[s].state = "live"
Revoked(r) == [r EXCEPT !.state = "revoked"]

(* A session from before rotation has a token with a jti that is not in its *)
(* row; it is numbered 0, as nothing is ever compared with it.              *)
Init ==
  /\ enabled = TRUE
  /\ row = [s \in Session |-> [state |-> IF s \in Legacy THEN "live" ELSE "absent", jti |-> NULL]]
  /\ expired = {}
  /\ issued = [session : Legacy, jti : {NULL}]
  /\ made = 0
  /\ call = [p \in Handler |-> Idle]

GoTo(p, at) == call' = [call EXCEPT ![p].at = at]
Return(p) == call' = [call EXCEPT ![p] = Idle]

-----------------------------------------------------------------------------
(* login *)

LoginCheck(p) ==
  /\ call[p] = Idle
  /\ enabled
  /\ GoTo(p, "login")
  /\ UNCHANGED <<enabled, row, expired, issued, made>>

(* The new session is committed and the tokens returned, or lost on the way. *)
LoginCommit(p) ==
  \E s \in Session :
    /\ call[p].at = "login"
    /\ row[s].state = "absent" /\ made < MaxTokens
    /\ row' = [row EXCEPT ![s] = [state |-> "live", jti |-> made + 1]]
    /\ made' = made + 1
    /\ \/ issued' = issued \cup {[session |-> s, jti |-> made + 1]}
       \/ p \in Mortal /\ issued' = issued
    /\ Return(p)
    /\ UNCHANGED <<enabled, expired>>

-----------------------------------------------------------------------------
(* refresh *)

(* The condition of the UPDATE; a NULL matches no jti. *)
RotatableWhileLive(t) ==   (* variant: the jti is not compared *)
  Live(t.session) /\ row[t.session].jti # NULL
Rotatable(t) ==
  /\ Live(t.session)
  /\ row[t.session].jti # NULL /\ row[t.session].jti = t.jti

Rotate(p) ==
  \E t \in issued :
    /\ call[p] = Idle
    /\ Rotatable(t)
    /\ made < MaxTokens
    /\ row' = [row EXCEPT ![t.session].jti = made + 1]
    /\ made' = made + 1
    /\ call' = [call EXCEPT ![p] = [at |-> "rotated", session |-> t.session, jti |-> made + 1, found |-> {}]]
    /\ UNCHANGED <<enabled, expired, issued>>

(* The UPDATE matched no row. *)
Miss(p) ==
  \E t \in issued :
    /\ call[p] = Idle
    /\ ~Rotatable(t)
    /\ call' = [call EXCEPT ![p] = [at |-> "missed", session |-> t.session, jti |-> NULL, found |-> {}]]
    /\ UNCHANGED <<enabled, row, expired, issued, made>>

(* Revoked already, or from before rotation: an error and nothing else. *)
Reused(s) == Live(s) /\ row[s].jti # NULL

ReadMissed(p) ==
  /\ call[p].at = "missed"
  /\ IF Reused(call[p].session) THEN GoTo(p, "reuse") ELSE Return(p)
  /\ UNCHANGED <<enabled, row, expired, issued, made>>

RejectReused(p) ==   (* variant: the request is refused, the session lives on *)
  /\ call[p].at = "reuse"
  /\ Return(p)
  /\ UNCHANGED <<enabled, row, expired, issued, made>>
RevokeReused(p) ==
  /\ call[p].at = "reuse"
  /\ row' = [row EXCEPT ![call[p].session] = Revoked(@)]
  /\ Return(p)
  /\ UNCHANGED <<enabled, expired, issued, made>>

(* After the rotation: the session's expiry, then the account. *)
CheckExpiry(p) ==
  /\ call[p].at = "rotated"
  /\ IF call[p].session \in expired THEN Return(p) ELSE GoTo(p, "owned")
  /\ UNCHANGED <<enabled, row, expired, issued, made>>

CheckAccount(p) ==
  /\ call[p].at = "owned"
  /\ IF enabled THEN GoTo(p, "issuing") ELSE Return(p)
  /\ UNCHANGED <<enabled, row, expired, issued, made>>

(* The cases of the account are read before the tokens are returned. *)
Issue(p) ==
  /\ call[p].at = "issuing"
  /\ issued' = issued \cup {[session |-> call[p].session, jti |-> call[p].jti]}
  /\ Return(p)
  /\ UNCHANGED <<enabled, row, expired, made>>

-----------------------------------------------------------------------------

(* logout, by who holds an access token of the session. *)
Logout(t) ==
  /\ t \in issued
  /\ Live(t.session)
  /\ row' = [row EXCEPT ![t.session] = Revoked(@)]
  /\ UNCHANGED <<enabled, expired, issued, made, call>>

(* deactivate_user reads the sessions and then commits both changes. *)
FindSessions(p) ==
  /\ call[p] = Idle
  /\ call' = [call EXCEPT ![p] = [at |-> "deactivating", session |-> None, jti |-> NULL,
                              found |-> {s \in Session : Live(s)}]]
  /\ UNCHANGED <<enabled, row, expired, issued, made>>

Deactivate(p) ==
  /\ call[p].at = "deactivating"
  /\ enabled' = FALSE
  /\ row' = [s \in Session |-> IF s \in call[p].found THEN Revoked(row[s]) ELSE row[s]]
  /\ Return(p)
  /\ UNCHANGED <<expired, issued, made>>

Expire(s) ==
  /\ s \notin expired
  /\ row[s].state # "absent"
  /\ expired' = expired \cup {s}
  /\ UNCHANGED <<enabled, row, issued, made, call>>

(* The request ends unanswered: its process dies or its answer is lost. *)
Die(p) ==
  /\ p \in Mortal
  /\ call[p] # Idle
  /\ Return(p)
  /\ UNCHANGED <<enabled, row, expired, issued, made>>

Continue(p) ==
  \/ LoginCommit(p) \/ Issue(p)
  \/ ReadMissed(p) \/ RevokeReused(p) \/ CheckExpiry(p) \/ CheckAccount(p)
  \/ Deactivate(p)

Next ==
  \/ \E p \in Handler :
       \/ LoginCheck(p) \/ Rotate(p) \/ Miss(p) \/ FindSessions(p)
       \/ Continue(p) \/ Die(p)
  \/ \E t \in issued : Logout(t)
  \/ \E s \in Session : Expire(s)

Spec == Init /\ [][Next]_vars

(* The event loop resumes every request whose statement has completed. *)
FairSpec == Spec /\ \A p \in Handler : WF_vars(Continue(p))

-----------------------------------------------------------------------------

(* Rows, tokens and requests keep their types; only sessions from before    *)
(* rotation have no jti, and a token has a session.                         *)
TypeOK ==
  /\ enabled \in BOOLEAN
  /\ row \in [Session -> Row]
  /\ expired \subseteq Session
  /\ issued \subseteq Token
  /\ made \in Jti
  /\ call \in [Handler -> Call]
  /\ \A s \in Session : row[s].state # "absent" /\ row[s].jti = NULL => s \in Legacy
  /\ \A t \in issued : row[t.session].state # "absent"
  /\ \A p \in Handler : call[p].at \in HandingOut \cup {"missed", "reuse"} => call[p].session # None

(* However many requests present however many old and new tokens, only one  *)
(* of them at a time is about to hand out a token of a session, and that    *)
(* token is the one the session's row expects next: one refresh token is    *)
(* never exchanged for two (the UPDATE of refresh).                         *)
OneSuccessor ==
  \A p \in Handler : call[p].at \in HandingOut =>
    /\ call[p].jti = row[call[p].session].jti
    /\ \A q \in Handler \ {p} :
         call[q].at \in HandingOut => call[q].session # call[p].session

(* A revoked session never lives or rotates again. *)
RevokedForGood ==
  [][\A s \in Session : row[s].state = "revoked" => row'[s] = row[s]]_vars

(* Who presents a spent refresh token of a session with rotation brings the *)
(* session down, also when the token was spent a moment ago by a concurrent *)
(* request, unless the request dies before it has done so (refresh).        *)
ReuseRevokes ==
  \A p \in Handler \ Mortal, s \in Session :
    (call[p].at = "missed" /\ call[p].session = s /\ row[s].jti # NULL)
      ~> row[s].state = "revoked"
=============================================================================
