--------------------------- MODULE SessionProofs ---------------------------
(***************************************************************************)
(* Proofs about AuthSession, for any number of requests and sessions, and   *)
(* about ToolCall, for any number of servers, requests and approvals and    *)
(* windows of any length.                                                   *)
(***************************************************************************)
EXTENDS AuthSession, ToolCall, TLAPS

-----------------------------------------------------------------------------
(* Sessions and refresh tokens: AuthSession.                                *)

(* A token on its way out has been made, is in nobody's hands yet and is of  *)
(* a session that exists: that is why no other request can rotate it away.   *)
InFlight ==
  \A p \in Handler : call[p].at \in HandingOut =>
    /\ call[p].jti # NULL
    /\ row[call[p].session].state # "absent"
    /\ [session |-> call[p].session, jti |-> call[p].jti] \notin issued

(* The sessions a request has found in the table stay there. *)
Found ==
  \A p \in Handler :
    /\ call[p].at \in {"missed", "reuse"} => row[call[p].session].state # "absent"
    /\ \A s \in call[p].found : row[s].state # "absent"

(* Rows and clients know only jtis that have been made. *)
MadeBefore ==
  /\ \A s \in Session : row[s].jti <= made
  /\ \A t \in issued : t.jti <= made

(* The inductive invariant. *)
IInv == TypeOK /\ OneSuccessor /\ InFlight /\ Found /\ MadeBefore

-----------------------------------------------------------------------------

LEMMA IdleType ==
  /\ Idle \in Call
  /\ Idle.at = "idle" /\ Idle.found = {} /\ Idle.at \notin HandingOut \cup {"missed", "reuse"}
BY AuthAssumption DEF Idle, Call, HandingOut, Jti, NULL

LEMMA InitIInv == Init => IInv
<1> SUFFICES ASSUME Init PROVE IInv
  OBVIOUS
<1>1. TypeOK
  <2>1. row \in [Session -> Row] /\ made \in Jti /\ issued \subseteq Token
    BY AuthAssumption DEF Init, Row, Jti, NULL, Token
  <2>2. call \in [Handler -> Call]
    BY IdleType DEF Init
  <2>3. \A t \in issued : row[t.session].state # "absent"
    BY AuthAssumption DEF Init
  <2>4. \A s \in Session : row[s].state # "absent" /\ row[s].jti = NULL => s \in Legacy
    BY DEF Init
  <2>5. \A p \in Handler : call[p].at \in HandingOut \cup {"missed", "reuse"} => call[p].session # None
    BY IdleType DEF Init
  <2> QED
    BY <2>1, <2>2, <2>3, <2>4, <2>5 DEF Init, TypeOK
<1>2. OneSuccessor /\ InFlight /\ Found
  BY IdleType DEF Init, OneSuccessor, InFlight, Found
<1>3. MadeBefore
  BY DEF Init, MadeBefore, NULL
<1> QED
  BY <1>1, <1>2, <1>3 DEF IInv

(* A request that is not handing out a token, and changes no table, keeps    *)
(* the invariant whatever it goes on to do, unless it starts to hand out.    *)
LEMMA OneCallStep ==
  ASSUME IInv, NEW p \in Handler, NEW c \in Call,
         call' = [call EXCEPT ![p] = c],
         UNCHANGED <<row, issued, made>>,
         enabled' \in BOOLEAN, expired' \subseteq Session,
         c.at \in {"missed", "reuse"} => c.session # None /\ row[c.session].state # "absent",
         \A s \in c.found : row[s].state # "absent",
         c.at \in HandingOut =>
           call[p].at \in HandingOut /\ c.session = call[p].session /\ c.jti = call[p].jti
  PROVE  IInv'
<1>1. \A q \in Handler : call'[q] = IF q = p THEN c ELSE call[q]
  BY DEF IInv, TypeOK
<1>2. TypeOK'
  <2>1. call' \in [Handler -> Call]
    BY DEF IInv, TypeOK
  <2>2. c.at \in HandingOut \cup {"missed", "reuse"} => c.session # None
    BY DEF IInv, TypeOK
  <2> QED
    BY <1>1, <2>1, <2>2 DEF IInv, TypeOK
<1>3. OneSuccessor'
  BY <1>1 DEF IInv, OneSuccessor
<1>4. InFlight'
  BY <1>1 DEF IInv, InFlight
<1>5. MadeBefore'
  BY DEF IInv, MadeBefore
<1>6. Found'
  BY <1>1 DEF IInv, Found
<1> QED
  BY <1>2, <1>3, <1>4, <1>5, <1>6 DEF IInv

LEMMA CheckStep ==
  ASSUME IInv, NEW p \in Handler,
         \/ LoginCheck(p) \/ Miss(p) \/ ReadMissed(p) \/ CheckExpiry(p)
         \/ CheckAccount(p) \/ FindSessions(p) \/ Die(p)
  PROVE  IInv'
<1>0. call[p] \in Call /\ call \in [Handler -> Call]
  BY DEF IInv, TypeOK
<1>u. UNCHANGED <<enabled, row, expired, issued, made>> /\ enabled' \in BOOLEAN /\ expired' \subseteq Session
  BY DEF LoginCheck, Miss, ReadMissed, CheckExpiry, CheckAccount, FindSessions, Die, IInv, TypeOK
<1>r. CASE Return(p)
  BY <1>r, <1>u, IdleType, OneCallStep DEF Return
<1>g. ASSUME NEW at \in {"login", "reuse", "owned", "issuing"}, GoTo(p, at),
             at = "reuse" => call[p].session # None /\ row[call[p].session].state # "absent",
             at \in {"owned", "issuing"} => call[p].at \in HandingOut
      PROVE  IInv'
  <2> DEFINE c == [call[p] EXCEPT !.at = at]
  <2>1. /\ c \in Call /\ c.at = at /\ c.session = call[p].session /\ c.jti = call[p].jti
        /\ c.found = call[p].found
    BY <1>0 DEF Call, HandingOut
  <2>2. call' = [call EXCEPT ![p] = c]
    BY <1>0, <1>g DEF GoTo
  <2> HIDE DEF c
  <2>3. \A s \in call[p].found : row[s].state # "absent"
    BY DEF IInv, Found
  <2> QED
    BY <1>g, <1>u, <2>1, <2>2, <2>3, OneCallStep DEF HandingOut
<1>1. CASE LoginCheck(p)
  BY <1>1, <1>g DEF LoginCheck
<1>2. CASE Miss(p)
  <2>1. PICK t \in issued : call' = [call EXCEPT ![p] = [at |-> "missed", session |-> t.session, jti |-> NULL, found |-> {}]]
    BY <1>2 DEF Miss
  <2> DEFINE c == [at |-> "missed", session |-> t.session, jti |-> NULL, found |-> {}]
  <2>2. t.session \in Session /\ t.session # None /\ row[t.session].state # "absent"
    BY AuthAssumption DEF IInv, TypeOK, Token
  <2>n. NULL \in Jti
    BY AuthAssumption DEF Jti, NULL
  <2>3. c \in Call /\ c.at = "missed" /\ c.session = t.session /\ c.found = {}
    BY <2>2, <2>n DEF Call
  <2> HIDE DEF c
  <2> QED
    BY <1>u, <2>1, <2>2, <2>3, OneCallStep DEF HandingOut, c
<1>3. CASE ReadMissed(p)
  <2>1. call[p].session # None /\ row[call[p].session].state # "absent"
    BY <1>3 DEF ReadMissed, IInv, TypeOK, Found
  <2> QED
    BY <1>3, <1>r, <1>g, <2>1 DEF ReadMissed
<1>4. CASE CheckExpiry(p)
  BY <1>4, <1>r, <1>g DEF CheckExpiry, HandingOut
<1>5. CASE CheckAccount(p)
  BY <1>5, <1>r, <1>g DEF CheckAccount, HandingOut
<1>6. CASE FindSessions(p)
  <2> DEFINE live == {s \in Session : Live(s)}
             c == [at |-> "deactivating", session |-> None, jti |-> NULL, found |-> live]
  <2>n. NULL \in Jti /\ live \in SUBSET Session
    BY AuthAssumption DEF Jti, NULL
  <2>l. \A s \in live : row[s].state # "absent"
    BY DEF Live
  <2> HIDE DEF live
  <2>1. /\ c \in Call /\ c.at = "deactivating"
        /\ \A s \in c.found : row[s].state # "absent"
    BY <2>n, <2>l DEF Call
  <2> USE DEF live
  <2>2. call' = [call EXCEPT ![p] = c]
    BY <1>6 DEF FindSessions
  <2> HIDE DEF c
  <2> QED
    BY <1>u, <2>1, <2>2, OneCallStep DEF HandingOut
<1>7. CASE Die(p)
  BY <1>7, <1>r DEF Die
<1> QED
  BY <1>1, <1>2, <1>3, <1>4, <1>5, <1>6, <1>7

-----------------------------------------------------------------------------
(* Revocations change only the state of rows that are live. *)

LEMMA RevokeStep ==
  ASSUME IInv, row' \in [Session -> Row],
         \A s \in Session : row'[s].jti = row[s].jti /\ (row'[s].state = row[s].state
                              \/ (row[s].state # "absent" /\ row'[s].state = "revoked")),
         UNCHANGED <<expired, issued, made>>, enabled' \in BOOLEAN,
         \/ UNCHANGED call
         \/ \E p \in Handler : Return(p)
  PROVE  IInv'
<1>1. /\ call' \in [Handler -> Call]
      /\ \A q \in Handler : call'[q] = call[q] \/ call'[q] = Idle
  BY IdleType DEF IInv, TypeOK, Return
<1>s. \A q \in Handler : call'[q].at \in HandingOut =>
        call'[q] = call[q] /\ call[q].session \in Session
  BY <1>1, IdleType DEF IInv, TypeOK, Call
<1>2. TypeOK'
  <2>1. \A s \in Session : row'[s].state # "absent" /\ row'[s].jti = NULL => s \in Legacy
    BY DEF IInv, TypeOK
  <2>2. \A t \in issued' : row'[t.session].state # "absent"
    BY DEF IInv, TypeOK, Token
  <2>3. \A q \in Handler : call'[q].at \in HandingOut \cup {"missed", "reuse"} => call'[q].session # None
    BY <1>1, IdleType DEF IInv, TypeOK
  <2> QED
    BY <1>1, <2>1, <2>2, <2>3 DEF IInv, TypeOK
<1>3. OneSuccessor'
  BY <1>s DEF IInv, OneSuccessor
<1>4. InFlight'
  BY <1>s DEF IInv, InFlight
<1>5. MadeBefore'
  BY DEF IInv, MadeBefore
<1>6. Found'
  BY <1>1, IdleType DEF IInv, Found, TypeOK, Call
<1> QED
  BY <1>2, <1>3, <1>4, <1>5, <1>6 DEF IInv

LEMMA RevokedRow ==
  ASSUME NEW r \in Row
  PROVE  Revoked(r) \in Row /\ Revoked(r).state = "revoked" /\ Revoked(r).jti = r.jti
<1>1. Revoked(r) = [state |-> "revoked", jti |-> r.jti]
  BY DEF Row, Revoked
<1> QED
  BY <1>1 DEF Row

LEMMA RevokingStep ==
  ASSUME IInv,
         \/ \E p \in Handler : RevokeReused(p) \/ Deactivate(p)
         \/ \E t \in issued : Logout(t)
  PROVE  IInv'
<1>0. row \in [Session -> Row] /\ enabled \in BOOLEAN
  BY DEF IInv, TypeOK
<1>1. ASSUME NEW p \in Handler, RevokeReused(p) PROVE IInv'
  <2>1. call[p].session \in Session
    BY <1>1 DEF RevokeReused, IInv, TypeOK, Call
  <2>2. /\ row' = [row EXCEPT ![call[p].session] = Revoked(@)]
        /\ Return(p) /\ UNCHANGED <<enabled, expired, issued, made>>
    BY <1>1 DEF RevokeReused
  <2>3. row[call[p].session].state # "absent"
    BY <1>1 DEF RevokeReused, IInv, Found
  <2> QED
    BY <1>0, <2>1, <2>2, <2>3, RevokedRow, RevokeStep
<1>2. ASSUME NEW p \in Handler, Deactivate(p) PROVE IInv'
  <2>1. \A s \in call[p].found : row[s].state # "absent"
    BY DEF IInv, Found
  <2>2. /\ row' = [s \in Session |-> IF s \in call[p].found THEN Revoked(row[s]) ELSE row[s]]
        /\ enabled' = FALSE /\ Return(p) /\ UNCHANGED <<expired, issued, made>>
    BY <1>2 DEF Deactivate
  <2>3. row' \in [Session -> Row]
    BY <1>0, <2>2, RevokedRow
  <2>4. \A s \in Session : row'[s].jti = row[s].jti /\ (row'[s].state = row[s].state
                              \/ (row[s].state # "absent" /\ row'[s].state = "revoked"))
    BY <1>0, <2>1, <2>2, RevokedRow
  <2> QED
    BY <2>2, <2>3, <2>4, RevokeStep
<1>3. ASSUME NEW t \in issued, Logout(t) PROVE IInv'
  <2>1. t.session \in Session /\ row[t.session].state = "live"
    BY <1>3 DEF Logout, Live, IInv, TypeOK, Token
  <2>2. /\ row' = [row EXCEPT ![t.session] = Revoked(@)]
        /\ UNCHANGED <<enabled, expired, issued, made, call>>
    BY <1>3 DEF Logout
  <2> QED
    BY <1>0, <2>1, <2>2, RevokedRow, RevokeStep
<1> QED
  BY <1>1, <1>2, <1>3

-----------------------------------------------------------------------------
(* New jtis. *)

LEMMA RotateStep ==
  ASSUME IInv, NEW p \in Handler, Rotate(p)
  PROVE  IInv'
<1>1. PICK t \in issued :
        /\ Rotatable(t) /\ made < MaxTokens
        /\ row' = [row EXCEPT ![t.session].jti = made + 1]
        /\ made' = made + 1
        /\ call' = [call EXCEPT ![p] = [at |-> "rotated", session |-> t.session, jti |-> made + 1, found |-> {}]]
        /\ UNCHANGED <<enabled, expired, issued>>
  BY DEF Rotate
<1> DEFINE s == t.session
           c == [at |-> "rotated", session |-> s, jti |-> made + 1, found |-> {}]
<1>2. /\ s \in Session /\ s # None /\ row[s].state = "live"
      /\ row[s].jti # NULL /\ row[s].jti = t.jti /\ t = [session |-> s, jti |-> t.jti]
  BY <1>1, AuthAssumption DEF IInv, TypeOK, Token, Rotatable, Live
<1>3. made \in Nat /\ made + 1 \in Jti /\ made + 1 # NULL
  BY <1>1, AuthAssumption DEF IInv, TypeOK, Jti, NULL
<1>4. /\ row' \in [Session -> Row]
      /\ \A r \in Session : row'[r].state = row[r].state
      /\ \A r \in Session : row'[r].jti = IF r = s THEN made + 1 ELSE row[r].jti
  BY <1>1, <1>2, <1>3 DEF IInv, TypeOK, Row
<1>5. /\ call' \in [Handler -> Call]
      /\ \A q \in Handler : call'[q] = IF q = p THEN c ELSE call[q]
  BY <1>1, <1>2, <1>3 DEF IInv, TypeOK, Call, HandingOut
<1>6. \A q \in Handler : call[q].at \in HandingOut => call[q].session # s
  BY <1>2 DEF IInv, OneSuccessor, InFlight
<1> HIDE DEF s
<1>7. TypeOK'
  <2>1. \A r \in Session : row'[r].state # "absent" /\ row'[r].jti = NULL => r \in Legacy
    BY <1>3, <1>4 DEF IInv, TypeOK
  <2>2. \A u \in issued' : row'[u.session].state # "absent"
    BY <1>1, <1>4 DEF IInv, TypeOK, Token
  <2>3. \A q \in Handler : call'[q].at \in HandingOut \cup {"missed", "reuse"} => call'[q].session # None
    BY <1>2, <1>5 DEF IInv, TypeOK
  <2> QED
    BY <1>1, <1>3, <1>4, <1>5, <2>1, <2>2, <2>3 DEF IInv, TypeOK
<1>8. OneSuccessor'
  <2> SUFFICES ASSUME NEW q \in Handler, call'[q].at \in HandingOut
               PROVE  /\ call'[q].jti = row'[call'[q].session].jti
                      /\ \A o \in Handler \ {q} :
                           call'[o].at \in HandingOut => call'[o].session # call'[q].session
    BY DEF OneSuccessor
  <2>1. CASE q = p
    BY <1>2, <1>4, <1>5, <1>6, <2>1
  <2>2. CASE q # p
    <3>1. call'[q] = call[q] /\ call[q].session # s /\ call[q].session \in Session
      BY <1>5, <1>6, <2>2 DEF IInv, TypeOK, Call
    <3>2. call[q].jti = row[call[q].session].jti
      BY <3>1 DEF IInv, OneSuccessor
    <3>3. \A o \in Handler \ {q} :
            call'[o].at \in HandingOut => call'[o].session # call'[q].session
      BY <1>5, <3>1 DEF IInv, OneSuccessor
    <3> QED
      BY <1>4, <3>1, <3>2, <3>3
  <2> QED
    BY <2>1, <2>2
<1>9. InFlight'
  <2>1. \A u \in issued : u.jti \in Nat /\ u.jti <= made
    BY AuthAssumption DEF IInv, MadeBefore, TypeOK, Token, Jti
  <2>2. [session |-> s, jti |-> made + 1] \notin issued
    BY <1>3, <2>1
  <2>3. \A q \in Handler : call[q].at \in HandingOut => call[q].session \in Session
    BY DEF IInv, TypeOK, Call
  <2> QED
    BY <1>1, <1>2, <1>3, <1>4, <1>5, <2>2, <2>3 DEF IInv, InFlight
<1>10. Found'
  BY <1>2, <1>4, <1>5 DEF IInv, Found, TypeOK, Call
<1>11. MadeBefore'
  BY <1>1, <1>3, <1>4 DEF IInv, MadeBefore, TypeOK, Row, Token, Jti
<1> QED
  BY <1>7, <1>8, <1>9, <1>10, <1>11 DEF IInv

LEMMA IssueStep ==
  ASSUME IInv, NEW p \in Handler, Issue(p)
  PROVE  IInv'
<1> DEFINE t == [session |-> call[p].session, jti |-> call[p].jti]
<1>1. /\ call[p].at \in HandingOut /\ call[p].session \in Session /\ call[p].jti \in Jti
      /\ row[call[p].session].state # "absent"
      /\ call[p].jti = row[call[p].session].jti
  BY DEF Issue, HandingOut, IInv, TypeOK, Call, InFlight, OneSuccessor
<1>2. issued' = issued \cup {t} /\ UNCHANGED <<enabled, row, expired, made>>
  BY DEF Issue
<1>3. /\ call' \in [Handler -> Call]
      /\ \A q \in Handler : call'[q] = IF q = p THEN Idle ELSE call[q]
  BY IdleType DEF Issue, Return, IInv, TypeOK
<1>4. TypeOK'
  BY <1>1, <1>2, <1>3, IdleType DEF IInv, TypeOK, Token
<1>5. OneSuccessor'
  BY <1>2, <1>3, IdleType DEF IInv, OneSuccessor
<1>6. InFlight'
  <2> SUFFICES ASSUME NEW q \in Handler, call'[q].at \in HandingOut
               PROVE  /\ call'[q].jti # NULL
                      /\ row'[call'[q].session].state # "absent"
                      /\ [session |-> call'[q].session, jti |-> call'[q].jti] \notin issued'
    BY DEF InFlight
  <2>1. q # p /\ call'[q] = call[q]
    BY <1>3, IdleType
  <2>2. call[q].session # call[p].session
    BY <1>1, <2>1 DEF IInv, OneSuccessor
  <2> QED
    BY <1>2, <2>1, <2>2 DEF IInv, InFlight
<1>7. Found'
  BY <1>2, <1>3, IdleType DEF IInv, Found
<1>8. MadeBefore'
  BY <1>1, <1>2 DEF IInv, MadeBefore
<1> QED
  BY <1>4, <1>5, <1>6, <1>7, <1>8 DEF IInv

LEMMA LoginCommitStep ==
  ASSUME IInv, NEW p \in Handler, LoginCommit(p)
  PROVE  IInv'
<1>1. PICK s \in Session :
        /\ row[s].state = "absent" /\ made < MaxTokens
        /\ row' = [row EXCEPT ![s] = [state |-> "live", jti |-> made + 1]]
        /\ made' = made + 1
        /\ \/ issued' = issued \cup {[session |-> s, jti |-> made + 1]}
           \/ issued' = issued
        /\ Return(p) /\ UNCHANGED <<enabled, expired>>
  BY DEF LoginCommit
<1>2. made \in Nat /\ made + 1 \in Jti /\ made + 1 # NULL
  BY <1>1, AuthAssumption DEF IInv, TypeOK, Jti, NULL
<1>3. /\ row' \in [Session -> Row]
      /\ row'[s] = [state |-> "live", jti |-> made + 1]
      /\ \A r \in Session \ {s} : row'[r] = row[r]
  BY <1>1, <1>2 DEF IInv, TypeOK, Row
<1>4. /\ call' \in [Handler -> Call]
      /\ \A q \in Handler : call'[q] = IF q = p THEN Idle ELSE call[q]
  BY <1>1, IdleType DEF Return, IInv, TypeOK
<1>5. \A t \in issued : t.session \in Session /\ t.session # s
  BY <1>1 DEF IInv, TypeOK, Token
<1>6. \A q \in Handler : call[q].at \in HandingOut =>
        call[q].session \in Session /\ call[q].session # s
  BY <1>1 DEF IInv, InFlight, TypeOK, Call
<1>7. TypeOK'
  <2>1. issued' \subseteq Token
    BY <1>1, <1>2 DEF IInv, TypeOK, Token
  <2>2. \A r \in Session : row'[r].state # "absent" /\ row'[r].jti = NULL => r \in Legacy
    BY <1>2, <1>3 DEF IInv, TypeOK
  <2>3. \A t \in issued' : row'[t.session].state # "absent"
    BY <1>1, <1>3, <1>5 DEF IInv, TypeOK
  <2>4. \A q \in Handler : call'[q].at \in HandingOut \cup {"missed", "reuse"} => call'[q].session # None
    BY <1>4, IdleType DEF IInv, TypeOK
  <2> QED
    BY <1>1, <1>2, <1>3, <1>4, <2>1, <2>2, <2>3, <2>4 DEF IInv, TypeOK
<1>8. OneSuccessor'
  BY <1>3, <1>4, <1>6, IdleType DEF IInv, OneSuccessor
<1>9. InFlight'
  BY <1>1, <1>3, <1>4, <1>6, IdleType DEF IInv, InFlight
<1>10. Found'
  <2> SUFFICES ASSUME NEW q \in Handler
               PROVE  /\ call'[q].at \in {"missed", "reuse"} => row'[call'[q].session].state # "absent"
                      /\ \A r \in call'[q].found : row'[r].state # "absent"
    BY DEF Found
  <2>1. CASE q = p
    BY <1>4, <2>1, IdleType
  <2>2. CASE q # p
    <3>1. call'[q] = call[q] /\ call[q].session \in Session \cup {None} /\ call[q].found \subseteq Session
      BY <1>4, <2>2 DEF IInv, TypeOK, Call
    <3>2. /\ call[q].at \in {"missed", "reuse"} =>
                call[q].session \in Session /\ row[call[q].session].state # "absent"
          /\ \A r \in call[q].found : row[r].state # "absent"
      BY <3>1 DEF IInv, TypeOK, Found
    <3> QED
      BY <1>1, <1>3, <3>1, <3>2
  <2> QED
    BY <2>1, <2>2
<1>11. MadeBefore'
  <2>1. \A r \in Session : row[r].jti \in Nat /\ row[r].jti <= made
    BY AuthAssumption DEF IInv, TypeOK, Row, Jti, MadeBefore
  <2>2. \A t \in issued : t.jti \in Nat /\ t.jti <= made
    BY AuthAssumption DEF IInv, TypeOK, Token, Jti, MadeBefore
  <2>3. \A r \in Session : row'[r].jti <= made + 1
    BY <1>2, <1>3, <2>1
  <2>4. \A t \in issued' : t.jti <= made + 1
    BY <1>1, <1>2, <2>2
  <2> QED
    BY <1>1, <2>3, <2>4 DEF MadeBefore
<1> QED
  BY <1>7, <1>8, <1>9, <1>10, <1>11 DEF IInv

-----------------------------------------------------------------------------

LEMMA ExpireStep ==
  ASSUME IInv, NEW s \in Session, Expire(s)
  PROVE  IInv'
BY DEF Expire, IInv, TypeOK, OneSuccessor, InFlight, Found, MadeBefore

LEMMA StutterStep ==
  ASSUME IInv, UNCHANGED vars
  PROVE  IInv'
BY DEF vars, IInv, TypeOK, OneSuccessor, InFlight, Found, MadeBefore

(* Whatever requests run together, the invariant holds in every state. *)
THEOREM Invariance == Spec => []IInv
<1>1. IInv /\ [Next]_vars => IInv'
  <2> SUFFICES ASSUME IInv, [Next]_vars PROVE IInv'
    OBVIOUS
  <2>1. CASE UNCHANGED vars
    BY <2>1, StutterStep
  <2>2. ASSUME NEW p \in Handler, LoginCheck(p) \/ Rotate(p) \/ Miss(p) \/ FindSessions(p)
                                  \/ Continue(p) \/ Die(p)
        PROVE  IInv'
    <3>1. CASE \/ LoginCheck(p) \/ Miss(p) \/ ReadMissed(p) \/ CheckExpiry(p)
               \/ CheckAccount(p) \/ FindSessions(p) \/ Die(p)
      BY <3>1, CheckStep
    <3>2. CASE Rotate(p)
      BY <3>2, RotateStep
    <3>3. CASE RevokeReused(p) \/ Deactivate(p)
      BY <3>3, RevokingStep
    <3>4. CASE Issue(p)
      BY <3>4, IssueStep
    <3>5. CASE LoginCommit(p)
      BY <3>5, LoginCommitStep
    <3> QED
      BY <2>2, <3>1, <3>2, <3>3, <3>4, <3>5 DEF Continue
  <2>3. ASSUME NEW t \in issued, Logout(t) PROVE IInv'
    BY <2>3, RevokingStep
  <2>4. ASSUME NEW s \in Session, Expire(s) PROVE IInv'
    BY <2>4, ExpireStep
  <2> QED
    BY <2>1, <2>2, <2>3, <2>4 DEF Next
<1> QED
  BY InitIInv, <1>1, PTL DEF Spec

(* Rows, tokens and requests keep their types, and only sessions from before *)
(* rotation lack a jti.                                                      *)
THEOREM TypeCorrect == Spec => []TypeOK
<1>1. IInv => TypeOK
  BY DEF IInv
<1> QED
  BY Invariance, <1>1, PTL

(* One refresh token is never exchanged for two: of all requests on a        *)
(* session at most one is about to hand out a token, the expected one.       *)
THEOREM SuccessorTheorem == Spec => []OneSuccessor
<1>1. IInv => OneSuccessor
  BY DEF IInv
<1> QED
  BY Invariance, <1>1, PTL

(* No step of any request makes a revoked session live or rotate again.      *)
THEOREM RevokedTheorem == Spec => RevokedForGood
<1>1. ASSUME IInv, [Next]_vars
      PROVE  [\A s \in Session : row[s].state = "revoked" => row'[s] = row[s]]_vars
  <2> SUFFICES ASSUME NEW s \in Session, row[s].state = "revoked", Next
               PROVE  row'[s] = row[s]
    BY <1>1
  <2>r. row \in [Session -> Row] /\ row[s] \in Row
    BY <1>1 DEF IInv, TypeOK
  <2>e. PICK j \in Jti : row[s] = [state |-> "revoked", jti |-> j]
    BY <2>r DEF Row
  <2>0. row \in [Session -> Row] /\ Revoked(row[s]) = row[s]
    BY <2>r, <2>e DEF Revoked
  <2>1. ASSUME NEW p \in Handler, LoginCheck(p) \/ Miss(p) \/ ReadMissed(p) \/ CheckExpiry(p)
               \/ CheckAccount(p) \/ FindSessions(p) \/ Die(p) \/ Issue(p)
        PROVE  row' = row
    BY <2>1 DEF LoginCheck, Miss, ReadMissed, CheckExpiry, CheckAccount, FindSessions, Die, Issue
  <2>2. ASSUME NEW p \in Handler, Rotate(p) PROVE row'[s] = row[s]
    BY <2>0, <2>2 DEF Rotate, Rotatable, Live
  <2>3. ASSUME NEW p \in Handler, LoginCommit(p) PROVE row'[s] = row[s]
    BY <2>0, <2>3 DEF LoginCommit
  <2>4. ASSUME NEW p \in Handler, RevokeReused(p) PROVE row'[s] = row[s]
    BY <2>0, <2>4 DEF RevokeReused
  <2>5. ASSUME NEW p \in Handler, Deactivate(p) PROVE row'[s] = row[s]
    BY <2>0, <2>5 DEF Deactivate
  <2>6. ASSUME NEW t \in issued, Logout(t) PROVE row'[s] = row[s]
    BY <2>0, <2>6 DEF Logout, Live
  <2>7. ASSUME NEW r \in Session, Expire(r) PROVE row'[s] = row[s]
    BY <2>7 DEF Expire
  <2> QED
    BY <2>1, <2>2, <2>3, <2>4, <2>5, <2>6, <2>7 DEF Next, Continue
<1> QED
  BY Invariance, <1>1, PTL DEF Spec, RevokedForGood

-----------------------------------------------------------------------------
(* Tool calls, approvals and budgets: ToolCall.                             *)

(* An approval in use has been issued, and one that has not been issued has  *)
(* been neither spent nor used: issuing it does not forget a use.            *)
Issued ==
  /\ \A s \in Server : serving[s].grant \in Grant => grant[serving[s].grant].issued
  /\ \A g \in Grant : ~grant[g].issued => grant[g].uses = 0 /\ done[g] = 0

(* The inductive invariant. *)
CallInv == ToolTypeOK /\ OneChange /\ Issued

-----------------------------------------------------------------------------

LEMMA WaitingType == Waiting \in Serving /\ Waiting.at = "idle" /\ Waiting.grant = Absent
BY DEF Waiting, Serving

LEMMA InitCallInv == ToolInit => CallInv
<1> SUFFICES ASSUME ToolInit PROVE CallInv
  OBVIOUS
<1>1. serving \in [Server -> Serving] /\ \A s \in Server : serving[s].grant = Absent /\ serving[s].at = "idle"
  BY WaitingType DEF ToolInit
<1>2. 0 \in Time /\ 0 \in 0..MaxCalls /\ 0 \in 0..MaxItems
  BY CallAssumption DEF Time
<1>3. ToolTypeOK
  BY <1>1, <1>2 DEF ToolInit, ToolTypeOK, GrantRow, Budget
<1> QED
  BY <1>1, <1>3, CallAssumption DEF ToolInit, CallInv, OneChange, Issued, Spends

(* The window in use is within its limits. *)
LEMMA CurrentType ==
  ASSUME ToolTypeOK, NEW s \in Server
  PROVE  Current(s) \in Budget
<1>1. window[s] \in Budget /\ now \in Time
  BY DEF ToolTypeOK
<1>2. [open |-> TRUE, started |-> now, calls |-> 0, items |-> 0, cursors |-> {}] \in Budget
  BY <1>1, CallAssumption DEF Budget
<1> QED
  BY <1>1, <1>2 DEF Current

(* A call that goes on to c without spending or using an approval. *)
LEMMA CallStep ==
  ASSUME CallInv, NEW s \in Server, NEW c \in Serving,
         serving' = [serving EXCEPT ![s] = c],
         c.grant # Absent => c.approved,
         c.grant \in Grant => grant[c.grant].issued,
         c.at = "invoke" => c.grant \notin Grant,
         UNCHANGED <<now, revoked, grant, approving, done>>,
         window' \in [Server -> Budget],
         log' \in [Server -> [Time -> [calls : Nat, items : Nat]]]
  PROVE  CallInv'
<1>1. \A t \in Server : serving'[t] = IF t = s THEN c ELSE serving[t]
  BY DEF CallInv, ToolTypeOK
<1>2. ToolTypeOK'
  BY <1>1 DEF CallInv, ToolTypeOK
<1>3. OneChange'
  BY <1>1 DEF CallInv, OneChange, Spends
<1>4. Issued'
  BY <1>1 DEF CallInv, Issued
<1> QED
  BY <1>2, <1>3, <1>4 DEF CallInv

LEMMA IssueGrantStep ==
  ASSUME CallInv, NEW r \in Request, IssueGrant(r)
  PROVE  CallInv'
<1>1. PICK g \in Grant :
        /\ ~grant[g].issued
        /\ grant' = [grant EXCEPT ![g] = [issued |-> TRUE, uses |-> 0, expires |-> now + GrantLife]]
  BY DEF IssueGrant
<1>2. UNCHANGED <<now, revoked, window, serving, done, log>> /\ approving' \subseteq approving
  BY DEF IssueGrant
<1>3. [issued |-> TRUE, uses |-> 0, expires |-> now + GrantLife] \in GrantRow
  BY CallAssumption DEF CallInv, ToolTypeOK, Time, GrantRow
<1>4. \A h \in Grant : grant'[h] = IF h = g THEN [issued |-> TRUE, uses |-> 0, expires |-> now + GrantLife] ELSE grant[h]
  BY <1>1 DEF CallInv, ToolTypeOK
<1>5. ToolTypeOK'
  BY <1>1, <1>2, <1>3 DEF CallInv, ToolTypeOK
<1>6. OneChange'
  <2>1. \A h \in Grant : h # g => grant'[h] = grant[h]
    BY <1>4
  <2>2. grant'[g].uses = 0 /\ grant[g].uses = 0 /\ done[g] = 0
    BY <1>1, <1>4 DEF CallInv, Issued
  <2>3. \A s \in Server : ~Spends(s, g)
    BY <2>2 DEF CallInv, OneChange
  <2> QED
    BY <1>2, <2>1, <2>2, <2>3 DEF CallInv, OneChange, Spends
<1>7. Issued'
  BY <1>2, <1>4 DEF CallInv, Issued
<1> QED
  BY <1>5, <1>6, <1>7 DEF CallInv

LEMMA ConsumeStep ==
  ASSUME CallInv, NEW s \in Server, Consume(s)
  PROVE  CallInv'
<1>1. PICK g \in Grant \cup {Absent} : g = serving[s].grant
  BY DEF CallInv, ToolTypeOK, Serving
<1> DEFINE c == [serving[s] EXCEPT !.at = "invoke"]
<1>2. c \in Serving /\ c.at = "invoke" /\ c.grant = g /\ c.approved = serving[s].approved
  BY <1>1 DEF CallInv, ToolTypeOK, Serving
<1>3. /\ serving' = [serving EXCEPT ![s] = c] /\ grant' = [grant EXCEPT ![g].uses = @ + 1]
      /\ UNCHANGED <<now, revoked, approving, window, done, log>>
  BY <1>1 DEF Consume
<1>4. \A t \in Server : serving'[t] = IF t = s THEN c ELSE serving[t]
  BY <1>3 DEF CallInv, ToolTypeOK
<1>5. grant' \in [Grant -> GrantRow]
  <2>1. CASE g \in Grant
    <3>1. [grant[g] EXCEPT !.uses = @ + 1] \in GrantRow
      BY <2>1 DEF CallInv, ToolTypeOK, GrantRow
    <3> QED
      BY <1>3, <3>1 DEF CallInv, ToolTypeOK
  <2>2. CASE g \notin Grant
    BY <1>3, <2>2 DEF CallInv, ToolTypeOK
  <2> QED
    BY <2>1, <2>2
<1>6. ToolTypeOK'
  BY <1>1, <1>2, <1>3, <1>4, <1>5 DEF CallInv, ToolTypeOK
<1>7. ASSUME NEW h \in Grant
      PROVE  /\ grant'[h].issued = grant[h].issued
             /\ grant'[h].uses = IF h = g THEN grant[h].uses + 1 ELSE grant[h].uses
  BY <1>3 DEF CallInv, ToolTypeOK, GrantRow
<1>8. g \in Grant => grant[g].uses = 0 /\ done[g] = 0 /\ \A t \in Server : ~Spends(t, g)
  BY <1>1 DEF Consume, Consumable, CallInv, OneChange, ToolTypeOK, GrantRow
<1>9. OneChange'
  <2> SUFFICES ASSUME NEW h \in Grant
               PROVE  /\ done'[h] <= grant'[h].uses /\ grant'[h].uses <= 1
                      /\ \A t, u \in Server : Spends(t, h)' /\ Spends(u, h)' => t = u /\ done'[h] < grant'[h].uses
    BY DEF OneChange
  <2>1. CASE h = g
    BY <1>2, <1>3, <1>4, <1>7, <1>8, <2>1 DEF Spends
  <2>2. CASE h # g
    BY <1>2, <1>3, <1>4, <1>7, <2>2 DEF Spends, CallInv, OneChange
  <2> QED
    BY <2>1, <2>2
<1>10. Issued'
  BY <1>1, <1>2, <1>3, <1>4, <1>7 DEF CallInv, Issued
<1> QED
  BY <1>6, <1>9, <1>10 DEF CallInv

LEMMA InvokeStep ==
  ASSUME CallInv, NEW s \in Server, Invoke(s)
  PROVE  CallInv'
<1>1. PICK n \in 0..PageItems + 1 : serving' = [serving EXCEPT ![s].at = "accept", ![s].items = n]
  BY DEF Invoke
<1> DEFINE c == [serving[s] EXCEPT !.at = "accept", !.items = n]
<1>2. serving' = [serving EXCEPT ![s] = c] /\ UNCHANGED <<now, revoked, grant, approving, window, log>>
  BY <1>1 DEF Invoke
<1>3. c \in Serving /\ c.at = "accept" /\ c.grant = serving[s].grant /\ c.approved = serving[s].approved
  <2>1. PageItems \in Nat
    BY CallAssumption
  <2>2. n \in Nat /\ serving[s] \in Serving
    BY <2>1 DEF CallInv, ToolTypeOK
  <2> QED
    BY <2>2 DEF Serving
<1>4. CASE ~serving[s].approved
  <2>1. done' = done /\ serving[s].grant = Absent
    BY <1>4 DEF Invoke, CallInv, ToolTypeOK
  <2> QED
    BY <1>2, <1>3, <2>1, CallAssumption, CallStep DEF CallInv, ToolTypeOK
<1>5. CASE serving[s].approved
  <2>1. PICK g \in Grant \cup {Absent} : g = serving[s].grant
    BY DEF CallInv, ToolTypeOK, Serving
  <2>2. done' = [done EXCEPT ![g] = @ + 1]
    BY <1>5, <2>1 DEF Invoke
  <2>3. done' \in [Grant -> Nat] /\ \A h \in Grant : done'[h] = IF h = g THEN done[h] + 1 ELSE done[h]
    <3>1. CASE g \in Grant
      BY <2>2, <3>1 DEF CallInv, ToolTypeOK
    <3>2. CASE g \notin Grant
      BY <2>2, <3>2 DEF CallInv, ToolTypeOK
    <3> QED
      BY <3>1, <3>2
  <2>4. \A t \in Server : serving'[t] = IF t = s THEN c ELSE serving[t]
    BY <1>2 DEF CallInv, ToolTypeOK
  <2>5. ToolTypeOK'
    BY <1>2, <1>3, <2>3, <2>4 DEF CallInv, ToolTypeOK
  <2>6. g \in Grant => done[g] < grant[g].uses /\ \A t \in Server : Spends(t, g) => t = s
    BY <2>1 DEF Invoke, CallInv, OneChange, Spends
  <2>7. OneChange'
    <3> SUFFICES ASSUME NEW h \in Grant
                 PROVE  /\ done'[h] <= grant'[h].uses /\ grant'[h].uses <= 1
                        /\ \A t, u \in Server : Spends(t, h)' /\ Spends(u, h)' => t = u /\ done'[h] < grant'[h].uses
      BY DEF OneChange
    <3>1. CASE h = g
      BY <1>2, <1>3, <2>3, <2>4, <2>6, <3>1 DEF Spends, CallInv, OneChange, ToolTypeOK, GrantRow
    <3>2. CASE h # g
      BY <1>2, <1>3, <2>3, <2>4, <3>2 DEF Spends, CallInv, OneChange
    <3> QED
      BY <3>1, <3>2
  <2>8. Issued'
    BY <1>2, <1>3, <2>1, <2>3, <2>4 DEF CallInv, Issued
  <2> QED
    BY <2>5, <2>7, <2>8 DEF CallInv
<1> QED
  BY <1>4, <1>5

(* The steps of a call that look at approvals, or do not need one. *)
LEMMA OtherStep ==
  ASSUME CallInv, NEW s \in Server,
         \/ Receive(s) \/ RefuseCall(s) \/ BeginCall(s) \/ CheckGrant(s) \/ Deny(s)
         \/ InvokeFails(s) \/ AcceptResult(s) \/ RejectResult(s)
  PROVE  CallInv'
<1>1. /\ serving[s] \in Serving /\ (serving[s].grant # Absent => serving[s].approved)
      /\ (serving[s].grant \in Grant => grant[serving[s].grant].issued)
      /\ Current(s) \in Budget /\ window \in [Server -> Budget]
      /\ log \in [Server -> [Time -> [calls : Nat, items : Nat]]] /\ now \in Time
  BY CurrentType DEF CallInv, ToolTypeOK, Issued
<1>2. Waiting \in Serving /\ Waiting.grant \notin Grant /\ Waiting.at # "invoke" /\ Waiting.grant = Absent
  BY WaitingType, CallAssumption
<1>3. CASE Receive(s)
  <2>1. UNCHANGED <<now, revoked, grant, approving, window, done, log>>
    BY <1>3 DEF Receive
  <2>2. ASSUME NEW c \in Cursor \cup {Absent},
               serving' = [serving EXCEPT ![s] = [Waiting EXCEPT !.at = "begin", !.cursor = c]]
        PROVE  CallInv'
    <3> DEFINE m == [Waiting EXCEPT !.at = "begin", !.cursor = c]
    <3>1. m \in Serving /\ m.at = "begin" /\ m.grant = Absent
      BY DEF Waiting, Serving
    <3> QED
      BY <1>1, <2>1, <2>2, <3>1, CallAssumption, CallStep
  <2>3. ASSUME NEW g \in {h \in Grant : Spendable(h)} \cup {Absent},
               serving' = [serving EXCEPT ![s] = [Waiting EXCEPT !.at = "begin", !.approved = TRUE, !.grant = g]]
        PROVE  CallInv'
    <3> DEFINE m == [Waiting EXCEPT !.at = "begin", !.approved = TRUE, !.grant = g]
    <3>1. m \in Serving /\ m.at = "begin" /\ m.grant = g /\ m.approved
      BY DEF Waiting, Serving
    <3>2. g \in Grant => grant[g].issued
      BY CallAssumption DEF Spendable
    <3> QED
      BY <1>1, <2>1, <2>3, <3>1, <3>2, CallStep
  <2> QED
    BY <1>3, <2>2, <2>3 DEF Receive
<1>4. CASE RefuseCall(s) \/ Deny(s) \/ RejectResult(s)
  <2>1. /\ serving' = [serving EXCEPT ![s] = Waiting] /\ window' \in [Server -> Budget]
        /\ UNCHANGED <<now, revoked, grant, approving, done, log>>
    BY <1>1, <1>4 DEF RefuseCall, Deny, RejectResult, Answer
  <2> QED
    BY <1>1, <1>2, <2>1, CallStep
<1>5. CASE BeginCall(s)
  <2>1. PICK at \in {"gate", "invoke"} :
          /\ serving' = [serving EXCEPT ![s].at = at] /\ (at = "invoke" => ~serving[s].approved)
    BY <1>5 DEF BeginCall
  <2> DEFINE c == [serving[s] EXCEPT !.at = at]
             w == Current(s)
             b == [w EXCEPT !.calls = @ + 1, !.cursors = @ \cup ({serving[s].cursor} \ {Absent})]
             l == [log[s][now] EXCEPT !.calls = @ + 1]
  <2>2. c \in Serving /\ c.at = at /\ c.grant = serving[s].grant /\ c.approved = serving[s].approved
    BY <1>1 DEF Serving
  <2>3. b \in Budget
    <3>1. w.calls + 1 \in 0..MaxCalls
      BY <1>1, <1>5, CallAssumption DEF BeginCall, Refused, Budget
    <3>2. {serving[s].cursor} \ {Absent} \subseteq Cursor
      BY <1>1 DEF Serving
    <3> QED
      BY <1>1, <3>1, <3>2 DEF Budget
  <2>4. l \in [calls : Nat, items : Nat]
    BY <1>1
  <2>5. log' \in [Server -> [Time -> [calls : Nat, items : Nat]]]
    <3>1. log' = [log EXCEPT ![s] = [log[s] EXCEPT ![now] = l]]
      BY <1>5 DEF BeginCall
    <3> QED
      BY <1>1, <2>4, <3>1
  <2>6. window' \in [Server -> Budget] /\ UNCHANGED <<now, revoked, grant, approving, done>>
    BY <1>1, <1>5, <2>3 DEF BeginCall
  <2>7. serving' = [serving EXCEPT ![s] = c]
    BY <2>1
  <2>8. c.at = "invoke" => c.grant \notin Grant
    BY <1>1, <2>1, <2>2, CallAssumption
  <2> QED
    BY <1>1, <2>2, <2>5, <2>6, <2>7, <2>8, CallStep
<1>6. CASE CheckGrant(s)
  <2> DEFINE c == [serving[s] EXCEPT !.at = "consume"]
  <2>1. c \in Serving /\ c.at = "consume" /\ c.grant = serving[s].grant /\ c.approved = serving[s].approved
    BY <1>1 DEF Serving
  <2>2. serving' = [serving EXCEPT ![s] = c] /\ UNCHANGED <<now, revoked, grant, approving, window, done, log>>
    BY <1>6 DEF CheckGrant
  <2> QED
    BY <1>1, <2>1, <2>2, CallStep
<1>7. CASE InvokeFails(s)
  <2> DEFINE c == [serving[s] EXCEPT !.at = "accept"]
  <2>1. c \in Serving /\ c.at = "accept" /\ c.grant = serving[s].grant /\ c.approved = serving[s].approved
    BY <1>1 DEF Serving
  <2>2. CASE serving' = [serving EXCEPT ![s].at = "accept"]
    BY <1>1, <1>7, <2>1, <2>2, CallStep DEF InvokeFails
  <2>3. CASE Answer(s)
    BY <1>1, <1>2, <1>7, <2>3, CallStep DEF InvokeFails, Answer
  <2> QED
    BY <1>7, <2>2, <2>3 DEF InvokeFails
<1>8. CASE AcceptResult(s)
  <2> DEFINE w == Current(s)
             n == serving[s].items
             b == [w EXCEPT !.items = @ + n]
             l == [log[s][now] EXCEPT !.items = @ + n]
  <2>1. n \in Nat
    BY <1>1 DEF Serving
  <2>2. b \in Budget
    <3>1. w.items + n \in 0..MaxItems
      BY <1>1, <1>8, <2>1, CallAssumption DEF AcceptResult, Fits, Budget
    <3> QED
      BY <1>1, <3>1 DEF Budget
  <2>3. l \in [calls : Nat, items : Nat]
    BY <1>1, <2>1
  <2>4. log' \in [Server -> [Time -> [calls : Nat, items : Nat]]]
    <3>1. log' = [log EXCEPT ![s] = [log[s] EXCEPT ![now] = l]]
      BY <1>8 DEF AcceptResult
    <3> QED
      BY <1>1, <2>3, <3>1
  <2>5. /\ window' \in [Server -> Budget] /\ UNCHANGED <<now, revoked, grant, approving, done>>
        /\ serving' = [serving EXCEPT ![s] = Waiting]
    BY <1>1, <1>8, <2>2 DEF AcceptResult, Answer
  <2> QED
    BY <1>1, <1>2, <2>4, <2>5, CallStep
<1> QED
  BY <1>3, <1>4, <1>5, <1>6, <1>7, <1>8

LEMMA NextCallInv == CallInv /\ [ToolNext]_toolVars => CallInv'
<1> SUFFICES ASSUME CallInv, [ToolNext]_toolVars PROVE CallInv'
  OBVIOUS
<1>1. CASE UNCHANGED toolVars
  BY <1>1 DEF toolVars, CallInv, ToolTypeOK, OneChange, Spends, Issued
<1>2. CASE Tick
  <2>1. now' \in Time
    BY <1>2, CallAssumption DEF Tick, Time, CallInv, ToolTypeOK
  <2>2. UNCHANGED <<revoked, grant, approving, window, serving, done>>
    BY <1>2 DEF Tick
  <2>3. log' \in [Server -> [Time -> [calls : Nat, items : Nat]]]
    BY <1>2 DEF Tick, CallInv, ToolTypeOK
  <2> QED
    BY <2>1, <2>2, <2>3 DEF CallInv, ToolTypeOK, OneChange, Spends, Issued
<1>3. CASE LogoutSession
  BY <1>3 DEF LogoutSession, CallInv, ToolTypeOK, OneChange, Spends, Issued
<1>4. ASSUME NEW r \in Request, CheckSession(r) PROVE CallInv'
  BY <1>4 DEF CheckSession, CallInv, ToolTypeOK, OneChange, Spends, Issued
<1>5. ASSUME NEW r \in Request, IssueGrant(r) PROVE CallInv'
  BY <1>5, IssueGrantStep
<1>6. ASSUME NEW s \in Server, Consume(s) PROVE CallInv'
  BY <1>6, ConsumeStep
<1>7. ASSUME NEW s \in Server, Invoke(s) PROVE CallInv'
  BY <1>7, InvokeStep
<1> QED
  BY <1>1, <1>2, <1>3, <1>4, <1>5, <1>6, <1>7, OtherStep DEF ToolNext

-----------------------------------------------------------------------------
(* Windows and the spans they lie in.                                       *)

(* f[t] is what was counted before second t, up to second n; w is the window *)
(* in use, which has counted used of it: everything since it started, and    *)
(* nothing since it ended.  In the Window seconds up to its first no more    *)
(* than max was counted before it.                                          *)
Tally(f, n, w, used, max) ==
  /\ \A t \in 0..n + 1 : \A u \in t..n + 1 : f[t] <= f[u]
  /\ w.open =>
       /\ w.started <= n /\ f[n + 1] = f[w.started] + used
       /\ f[w.started] <= f[FirstOf(w.started)] + max
       /\ \A t \in w.started + Window..n + 1 : f[t] = f[n + 1]
  /\ ~w.open => f[n + 1] = 0

LEMMA Constants ==
  /\ Window \in Nat /\ Window > 0
  /\ MaxTime \in Nat /\ MaxCalls \in Nat /\ MaxItems \in Nat
  /\ \A t \in Time : t \in Nat /\ t <= MaxTime
  /\ \A w \in Budget : w.started \in Nat /\ w.open \in BOOLEAN
BY CallAssumption DEF Time, Budget

LEMMA FirstOfBounds ==
  ASSUME NEW t \in Nat
  PROVE  FirstOf(t) \in Nat /\ FirstOf(t) <= t
BY Constants DEF FirstOf

LEMMA FirstOfGrows ==
  ASSUME NEW t \in Nat, NEW u \in Nat, t <= u
  PROVE  FirstOf(t) <= FirstOf(u)
BY Constants DEF FirstOf

LEMMA FirstOfEnded ==
  ASSUME NEW t \in Nat, NEW u \in Nat, u + Window <= t
  PROVE  u < FirstOf(t)
BY Constants DEF FirstOf

LEMMA TallyBounds ==
  ASSUME NEW n \in Nat, NEW f \in [0..n + 1 -> Nat], NEW w \in Budget, NEW max \in Nat,
         NEW used \in 0..max, Tally(f, n, w, used, max)
  PROVE  f[n + 1] <= f[FirstOf(n)] + 2 * max
<1> DEFINE a == FirstOf(n)
<1>1. a \in 0..n + 1 /\ n + 1 \in 0..n + 1
  BY FirstOfBounds
<1>2. f[a] \in Nat /\ f[n + 1] \in Nat
  BY <1>1
<1>3. CASE ~w.open
  BY <1>2, <1>3 DEF Tally
<1>4. CASE w.open
  <2> DEFINE st == w.started
             b == FirstOf(st)
  <2>1. st \in Nat /\ st <= n /\ f[n + 1] = f[st] + used /\ f[st] <= f[b] + max
    BY <1>4, Constants DEF Tally
  <2>2. b \in Nat /\ b <= st /\ b <= a
    BY <2>1, FirstOfBounds, FirstOfGrows
  <2>3. st \in 0..n + 1 /\ b \in 0..n + 1 /\ a \in b..n + 1
    BY <1>1, <2>1, <2>2
  <2>4. f[st] \in Nat /\ f[b] \in Nat
    BY <2>3
  <2>5. f[b] <= f[a]
    BY <2>3 DEF Tally
  <2> HIDE DEF b, st
  <2> QED
    BY <1>2, <2>1, <2>4, <2>5
<1> QED
  BY <1>3, <1>4, Constants

LEMMA TallyTick ==
  ASSUME NEW n \in Nat, NEW f \in [0..n + 1 -> Nat], NEW w \in Budget, NEW max \in Nat,
         NEW used \in 0..max, Tally(f, n, w, used, max),
         NEW g \in [0..n + 2 -> Nat], \A t \in 0..n + 1 : g[t] = f[t], g[n + 2] = f[n + 1]
  PROVE  Tally(g, n + 1, w, used, max)
<1>1. \A t \in 0..n + 2 : t \in 0..n + 1 \/ t = n + 2
  OBVIOUS
<1>2. n + 1 \in 0..n + 1 /\ g[n + 2] = g[n + 1] /\ g[n + 1] = f[n + 1]
  OBVIOUS
<1>3. ASSUME NEW t \in 0..n + 2, NEW u \in t..n + 2 PROVE g[t] <= g[u]
  <2>1. g[t] \in Nat
    OBVIOUS
  <2>2. CASE u = n + 2 /\ t = n + 2
    BY <2>1, <2>2
  <2>3. CASE u = n + 2 /\ t \in 0..n + 1
    <3>1. f[t] <= f[n + 1]
      BY <2>3 DEF Tally
    <3> QED
      BY <1>2, <2>3, <3>1
  <2>4. CASE u # n + 2
    <3>1. t \in 0..n + 1 /\ u \in 0..n + 1 /\ u \in t..n + 1
      BY <2>4
    <3>2. f[t] <= f[u]
      BY <3>1 DEF Tally
    <3> QED
      BY <3>1, <3>2
  <2> QED
    BY <1>1, <2>2, <2>3, <2>4
<1>4. ASSUME w.open
      PROVE  /\ w.started <= n + 1 /\ g[n + 2] = g[w.started] + used
             /\ g[w.started] <= g[FirstOf(w.started)] + max
             /\ \A t \in w.started + Window..n + 2 : g[t] = g[n + 2]
  <2>1. w.started \in Nat /\ w.started <= n
    BY <1>4, Constants DEF Tally
  <2>2. FirstOf(w.started) \in Nat /\ FirstOf(w.started) <= w.started
    BY <2>1, FirstOfBounds
  <2>3. w.started \in 0..n + 1 /\ FirstOf(w.started) \in 0..n + 1
    BY <2>1, <2>2
  <2>4. g[w.started] = f[w.started] /\ g[FirstOf(w.started)] = f[FirstOf(w.started)]
    BY <2>3
  <2>5. ASSUME NEW t \in w.started + Window..n + 2 PROVE g[t] = g[n + 2]
    <3>1. (t \in 0..n + 1 /\ t \in w.started + Window..n + 1) \/ t = n + 2
      BY <2>1, Constants
    <3> QED
      BY <1>2, <1>4, <3>1 DEF Tally
  <2> QED
    BY <1>2, <1>4, <2>1, <2>4, <2>5 DEF Tally
<1>5. ~w.open => g[n + 2] = 0
  BY <1>2 DEF Tally
<1>6. n + 1 + 1 = n + 2
  OBVIOUS
<1> QED
  BY <1>3, <1>4, <1>5, <1>6 DEF Tally

(* The window that is in use at second n, as Current. *)
LEMMA TallyCount ==
  ASSUME NEW n \in Nat, NEW f \in [0..n + 1 -> Nat], NEW w \in Budget, NEW max \in Nat,
         NEW used \in 0..max, Tally(f, n, w, used, max),
         NEW v \in Budget, v.open, NEW c \in Nat, NEW counted,
         IF w.open /\ n - w.started < Window
           THEN v.started = w.started /\ counted = used + c
           ELSE v.started = n /\ counted = c,
         NEW g \in [0..n + 1 -> Nat], \A t \in 0..n : g[t] = f[t], g[n + 1] = f[n + 1] + c
  PROVE  Tally(g, n, v, counted, max)
<1>1. n + 1 \in 0..n + 1 /\ n \in 0..n /\ n \in 0..n + 1 /\ \A t \in 0..n : t \in 0..n + 1
  OBVIOUS
<1>2. f[n + 1] \in Nat /\ f[n] \in Nat
  BY <1>1
<1>3. ASSUME NEW t \in 0..n + 1, NEW u \in t..n + 1 PROVE g[t] <= g[u]
  <2>1. u \in 0..n + 1 /\ (t \in 0..n \/ t = n + 1) /\ (u \in 0..n \/ u = n + 1)
    OBVIOUS
  <2>2. f[t] \in Nat /\ f[u] \in Nat
    BY <2>1
  <2>3. f[t] <= f[u]
    BY DEF Tally
  <2>4. t = n + 1 => u = n + 1
    OBVIOUS
  <2>5. g[t] = f[t] \/ (t = n + 1 /\ g[t] = f[t] + c)
    BY <2>1
  <2>6. g[u] = f[u] \/ (u = n + 1 /\ g[u] = f[u] + c)
    BY <2>1
  <2>7. t # n + 1 => g[t] = f[t]
    BY <2>1
  <2> QED
    BY <2>2, <2>3, <2>4, <2>5, <2>6, <2>7
<1>4. CASE w.open /\ n - w.started < Window
  <2>1. w.started \in Nat /\ w.started <= n /\ f[n + 1] = f[w.started] + used
        /\ f[w.started] <= f[FirstOf(w.started)] + max
    BY <1>4, Constants DEF Tally
  <2>2. FirstOf(w.started) \in Nat /\ FirstOf(w.started) <= w.started
    BY <2>1, FirstOfBounds
  <2>3. w.started \in 0..n /\ FirstOf(w.started) \in 0..n
    BY <2>1, <2>2
  <2>4. g[w.started] = f[w.started] /\ g[FirstOf(w.started)] = f[FirstOf(w.started)]
    BY <2>3
  <2>5. \A t \in w.started + Window..n + 1 : t = n + 1
    BY <1>4, <2>1, Constants
  <2>6. v.started = w.started /\ counted = used + c
    BY <1>4
  <2>7. f[w.started] \in Nat
    BY <1>1, <2>3
  <2>8. g[n + 1] = g[w.started] + counted
    BY <2>1, <2>4, <2>6, <2>7
  <2> QED
    BY <1>3, <2>1, <2>4, <2>5, <2>6, <2>8 DEF Tally
<1>5. CASE ~(w.open /\ n - w.started < Window)
  <2>1. v.started = n /\ counted = c
    BY <1>5
  <2>2. FirstOf(n) \in Nat /\ FirstOf(n) <= n
    BY FirstOfBounds
  <2>3. FirstOf(n) \in 0..n /\ FirstOf(n) \in 0..n + 1
    BY <2>2
  <2>4. f[FirstOf(n)] \in Nat /\ g[FirstOf(n)] = f[FirstOf(n)] /\ g[n] = f[n]
    BY <1>1, <2>3
  <2>5. f[n] = f[n + 1] /\ f[n] <= f[FirstOf(n)] + max
    <3>1. CASE ~w.open
      <4>1. f[n + 1] = 0
        BY <3>1 DEF Tally
      <4>2. f[n] <= f[n + 1]
        BY <1>1 DEF Tally
      <4> QED
        BY <1>2, <2>4, <4>1, <4>2
    <3>2. CASE w.open
      <4>1. w.started \in Nat /\ w.started + Window <= n
        BY <1>5, <3>2, Constants
      <4>2. n \in w.started + Window..n + 1 /\ w.started \in 0..n + 1
        BY <4>1, Constants
      <4>3. f[n] = f[n + 1] /\ f[n + 1] = f[w.started] + used
        BY <3>2, <4>2 DEF Tally
      <4>4. w.started < FirstOf(n)
        BY <4>1, FirstOfEnded
      <4>5. FirstOf(n) \in w.started..n + 1
        BY <2>3, <4>1, <4>4
      <4>6. f[w.started] <= f[FirstOf(n)]
        BY <4>2, <4>5 DEF Tally
      <4>7. f[w.started] \in Nat
        BY <4>2
      <4> QED
        BY <2>4, <4>3, <4>6, <4>7
    <3> QED
      BY <3>1, <3>2, Constants
  <2>6. \A t \in n + Window..n + 1 : t = n + 1
    BY Constants
  <2>7. g[n + 1] = g[n] + counted /\ g[n] <= g[FirstOf(n)] + max
    BY <2>1, <2>4, <2>5
  <2> QED
    BY <1>3, <2>1, <2>6, <2>7 DEF Tally
<1> QED
  BY <1>4, <1>5

(* What a server had begun and handed out before each second. *)
CallTotals(s) == [t \in 0..now + 1 |-> CallsBefore(s, t)]
ItemTotals(s) == [t \in 0..now + 1 |-> ItemsBefore(s, t)]

Tallied(s) ==
  /\ Tally(CallTotals(s), now, window[s], window[s].calls, MaxCalls)
  /\ Tally(ItemTotals(s), now, window[s], window[s].items, MaxItems)

BurstInv == CallInv /\ \A s \in Server : Tallied(s)

LEMMA TotalsType ==
  ASSUME CallInv, NEW s \in Server
  PROVE  /\ now \in Nat /\ now <= MaxTime /\ window[s] \in Budget /\ MaxTime \in Nat
         /\ MaxCalls \in Nat /\ MaxItems \in Nat
         /\ window[s].calls \in 0..MaxCalls /\ window[s].items \in 0..MaxItems
         /\ CallTotals(s) \in [0..now + 1 -> Nat] /\ ItemTotals(s) \in [0..now + 1 -> Nat]
<1>1. /\ now \in Nat /\ now <= MaxTime /\ MaxTime \in Nat /\ window[s] \in Budget
      /\ log[s] \in [Time -> [calls : Nat, items : Nat]]
  BY Constants DEF CallInv, ToolTypeOK, Time
<1>2. ASSUME NEW t \in 0..now + 1 PROVE CallsBefore(s, t) \in Nat /\ ItemsBefore(s, t) \in Nat
  <2>1. t # 0 => t - 1 \in Time
    BY <1>1 DEF Time
  <2> QED
    BY <1>1, <2>1 DEF CallsBefore, ItemsBefore
<1> QED
  BY <1>1, <1>2, Constants DEF CallTotals, ItemTotals, Budget

LEMMA InitBurstInv == ToolInit => BurstInv
<1> SUFFICES ASSUME ToolInit, NEW s \in Server PROVE CallInv /\ Tallied(s)
  BY InitCallInv DEF BurstInv
<1>1. CallInv
  BY InitCallInv
<1>2. now = 0 /\ ~window[s].open /\ 0 \in Time
  BY Constants DEF ToolInit, Time
<1>3. \A t \in 0..1 : CallTotals(s)[t] = 0 /\ ItemTotals(s)[t] = 0
  BY <1>2 DEF ToolInit, CallTotals, ItemTotals, CallsBefore, ItemsBefore
<1> QED
  BY <1>1, <1>2, <1>3 DEF Tallied, Tally

(* A step that counts nothing, and changes no window. *)
LEMMA QuietTally ==
  ASSUME NEW s \in Server, Tallied(s), now' = now, window'[s] = window[s], log'[s] = log[s]
  PROVE  Tallied(s)'
<1>1. CallTotals(s)' = CallTotals(s) /\ ItemTotals(s)' = ItemTotals(s)
  BY DEF CallTotals, ItemTotals, CallsBefore, ItemsBefore
<1> QED
  BY <1>1 DEF Tallied

LEMMA TickTally ==
  ASSUME BurstInv, CallInv', Tick, NEW s \in Server
  PROVE  Tallied(s)'
<1> DEFINE f == CallTotals(s)
           g == CallTotals(s)'
           h == ItemTotals(s)
           i == ItemTotals(s)'
<1>1. /\ now' = now + 1 /\ window' = window /\ now \in Nat /\ now + 1 <= MaxTime /\ MaxTime \in Nat
      /\ log'[s] = [log[s] EXCEPT ![now + 1] = log[s][now]] /\ log[s] \in [Time -> [calls : Nat, items : Nat]]
  BY TotalsType DEF Tick, BurstInv, CallInv, ToolTypeOK
<1>2. \A t \in Time : log'[s][t] = IF t = now + 1 THEN log[s][now] ELSE log[s][t]
  BY <1>1
<1>3. g \in [0..now + 2 -> Nat] /\ i \in [0..now + 2 -> Nat]
  <2>1. 0..now' + 1 = 0..now + 2
    BY <1>1
  <2>2. ASSUME NEW t \in 0..now + 2 PROVE CallsBefore(s, t)' \in Nat /\ ItemsBefore(s, t)' \in Nat
    <3>1. t # 0 => t - 1 \in Time
      BY <1>1, Constants DEF Time
    <3>2. log'[s] \in [Time -> [calls : Nat, items : Nat]]
      BY DEF CallInv, ToolTypeOK
    <3> QED
      BY <3>1, <3>2 DEF CallsBefore, ItemsBefore
  <2> QED
    BY <2>1, <2>2 DEF CallTotals, ItemTotals
<1>4. ASSUME NEW t \in 0..now + 1 PROVE g[t] = f[t] /\ i[t] = h[t]
  <2>0. t # 0 => t - 1 \in Time /\ t - 1 # now + 1
    BY <1>1 DEF Time
  <2>1. t # 0 => log'[s][t - 1] = log[s][t - 1]
    BY <1>2, <2>0
  <2> QED
    BY <1>1, <2>1 DEF CallTotals, ItemTotals, CallsBefore, ItemsBefore
<1>5. g[now + 2] = f[now + 1] /\ i[now + 2] = h[now + 1]
  <2>1. log'[s][now + 1] = log[s][now] /\ now + 2 - 1 = now + 1 /\ now + 1 - 1 = now
    BY <1>1, <1>2 DEF Time
  <2> QED
    BY <1>1, <2>1 DEF CallTotals, ItemTotals, CallsBefore, ItemsBefore
<1>6. /\ f \in [0..now + 1 -> Nat] /\ h \in [0..now + 1 -> Nat]
      /\ window[s] \in Budget /\ MaxCalls \in Nat /\ MaxItems \in Nat
      /\ window[s].calls \in 0..MaxCalls /\ window[s].items \in 0..MaxItems
  BY TotalsType DEF BurstInv
<1>7. Tally(f, now, window[s], window[s].calls, MaxCalls) /\ Tally(h, now, window[s], window[s].items, MaxItems)
  BY DEF BurstInv, Tallied
<1> HIDE DEF f, g, h, i
<1>8. Tally(g, now + 1, window[s], window[s].calls, MaxCalls)
  BY <1>1, <1>3, <1>4, <1>5, <1>6, <1>7, TallyTick
<1>9. Tally(i, now + 1, window[s], window[s].items, MaxItems)
  BY <1>1, <1>3, <1>4, <1>5, <1>6, <1>7, TallyTick
<1> QED
  BY <1>1, <1>8, <1>9 DEF Tallied, g, i, Tally, FirstOf

(* A server saves the window in use, in which it counts calls and items. *)
LEMMA CountTally ==
  ASSUME BurstInv, CallInv', NEW s \in Server, NEW v, NEW calls \in Nat, NEW items \in Nat,
         now' = now, window'[s] = v, v.open = TRUE, v.started = Current(s).started,
         v.calls = Current(s).calls + calls, v.items = Current(s).items + items,
         \A t \in Time \ {now} : log'[s][t] = log[s][t],
         log'[s][now].calls = log[s][now].calls + calls,
         log'[s][now].items = log[s][now].items + items
  PROVE  Tallied(s)'
<1> DEFINE f == CallTotals(s)
           g == CallTotals(s)'
           h == ItemTotals(s)
           i == ItemTotals(s)'
           w == window[s]
<1>1. /\ now \in Nat /\ now <= MaxTime /\ MaxTime \in Nat /\ log[s] \in [Time -> [calls : Nat, items : Nat]]
      /\ w \in Budget /\ f \in [0..now + 1 -> Nat] /\ h \in [0..now + 1 -> Nat]
      /\ MaxCalls \in Nat /\ MaxItems \in Nat
      /\ w.calls \in 0..MaxCalls /\ w.items \in 0..MaxItems
  BY TotalsType DEF BurstInv, CallInv, ToolTypeOK
<1>2. v \in Budget /\ g \in [0..now + 1 -> Nat] /\ i \in [0..now + 1 -> Nat]
  <2>1. log'[s] \in [Time -> [calls : Nat, items : Nat]] /\ v \in Budget
    BY DEF CallInv, ToolTypeOK
  <2>2. ASSUME NEW t \in 0..now + 1 PROVE CallsBefore(s, t)' \in Nat /\ ItemsBefore(s, t)' \in Nat
    <3>1. t # 0 => t - 1 \in Time
      BY <1>1, Constants DEF Time
    <3> QED
      BY <2>1, <3>1 DEF CallsBefore, ItemsBefore
  <2> QED
    BY <2>1, <2>2 DEF CallTotals, ItemTotals
<1>3. ASSUME NEW t \in 0..now PROVE g[t] = f[t] /\ i[t] = h[t]
  <2> HIDE DEF f, g, h, i
  <2>9. t \in Nat /\ t <= now /\ (t # 0 => t - 1 \in Nat)
    BY <1>1
  <2>0. t # 0 => t - 1 \in Time /\ t - 1 # now
    BY <1>1, <2>9 DEF Time
  <2> USE DEF f, g, h, i
  <2>1. t # 0 => log'[s][t - 1] = log[s][t - 1]
    BY <1>1, <2>0
  <2> QED
    BY <1>1, <2>1 DEF CallTotals, ItemTotals, CallsBefore, ItemsBefore
<1>4. g[now + 1] = f[now + 1] + calls /\ i[now + 1] = h[now + 1] + items
  <2>1. now + 1 # 0 /\ now + 1 - 1 = now
    BY <1>1
  <2>2. /\ g[now + 1] = log'[s][now].calls /\ f[now + 1] = log[s][now].calls
        /\ i[now + 1] = log'[s][now].items /\ h[now + 1] = log[s][now].items
    BY <1>1, <2>1 DEF CallTotals, ItemTotals, CallsBefore, ItemsBefore
  <2> QED
    BY <2>2
<1>5. Tally(f, now, w, w.calls, MaxCalls) /\ Tally(h, now, w, w.items, MaxItems)
  BY DEF BurstInv, Tallied
<1>6. IF w.open /\ now - w.started < Window
        THEN v.started = w.started /\ v.calls = w.calls + calls /\ v.items = w.items + items
        ELSE v.started = now /\ v.calls = calls /\ v.items = items
  BY DEF Current
<1> HIDE DEF f, g, h, i, w
<1>7. Tally(g, now, v, v.calls, MaxCalls)
  BY <1>1, <1>2, <1>3, <1>4, <1>5, <1>6, TallyCount
<1>8. Tally(i, now, v, v.items, MaxItems)
  BY <1>1, <1>2, <1>3, <1>4, <1>5, <1>6, TallyCount
<1> QED
  BY <1>7, <1>8 DEF Tallied, g, i, Tally, FirstOf

LEMMA CurrentOpen ==
  ASSUME CallInv, NEW s \in Server
  PROVE  Current(s) \in Budget /\ Current(s).open = TRUE
BY CurrentType DEF CallInv, Current, ToolTypeOK, Budget

(* A step of a server leaves the windows and totals of the others alone. *)
LEMMA BurstStep ==
  ASSUME BurstInv, CallInv', NEW s \in Server, now' = now, Tallied(s)',
         \A r \in Server : r # s => window'[r] = window[r] /\ log'[r] = log[r]
  PROVE  BurstInv'
<1>1. ASSUME NEW r \in Server, r # s PROVE Tallied(r)'
  BY <1>1, QuietTally DEF BurstInv
<1> QED
  BY <1>1 DEF BurstInv

LEMMA CountStep ==
  ASSUME BurstInv, CallInv', NEW s \in Server,
         RefuseCall(s) \/ BeginCall(s) \/ AcceptResult(s) \/ RejectResult(s)
  PROVE  BurstInv'
<1>1. /\ Current(s) \in Budget /\ Current(s).open = TRUE /\ serving[s] \in Serving
      /\ window \in [Server -> Budget] /\ log \in [Server -> [Time -> [calls : Nat, items : Nat]]]
      /\ now \in Time
  BY CurrentOpen DEF BurstInv, CallInv, ToolTypeOK
<1> DEFINE w == Current(s)
           n == serving[s].items
<1>2. w \in Budget /\ w.open = TRUE /\ w.calls \in Nat /\ w.items \in Nat /\ n \in Nat
  BY <1>1, CallAssumption DEF Budget, Serving
<1>3. CASE window' = [window EXCEPT ![s] = Current(s)] /\ log' = log /\ now' = now
  <2>1. window'[s] = w /\ \A r \in Server : r # s => window'[r] = window[r] /\ log'[r] = log[r]
    BY <1>1, <1>3
  <2>2. w.calls = w.calls + 0 /\ w.items = w.items + 0
    BY <1>2
  <2>3. /\ \A t \in Time \ {now} : log'[s][t] = log[s][t]
        /\ log'[s][now].calls = log[s][now].calls + 0 /\ log'[s][now].items = log[s][now].items + 0
    BY <1>1, <1>3
  <2>4. Tallied(s)'
    BY <1>2, <1>3, <2>1, <2>2, <2>3, CountTally
  <2> QED
    BY <1>3, <2>1, <2>4, BurstStep
<1>4. CASE UNCHANGED <<window, log, now>>
  BY <1>4, QuietTally DEF BurstInv
<1>5. CASE BeginCall(s)
  <2> DEFINE b == [w EXCEPT !.calls = @ + 1, !.cursors = @ \cup ({serving[s].cursor} \ {Absent})]
             l == [log[s][now] EXCEPT !.calls = @ + 1]
  <2>1. window' = [window EXCEPT ![s] = b] /\ log' = [log EXCEPT ![s] = [log[s] EXCEPT ![now] = l]] /\ now' = now
    BY <1>5 DEF BeginCall
  <2>0. PICK one \in Nat, zero \in Nat : one = 1 /\ zero = 0
    OBVIOUS
  <2>2. b.open = TRUE /\ b.started = w.started /\ b.calls = w.calls + one /\ b.items = w.items + zero
    BY <1>2, <2>0 DEF Budget
  <2>3. l.calls = log[s][now].calls + one /\ l.items = log[s][now].items + zero
    BY <1>1, <2>0
  <2> HIDE DEF b, l
  <2>4. window'[s] = b /\ \A r \in Server : r # s => window'[r] = window[r] /\ log'[r] = log[r]
    BY <1>1, <2>1
  <2>5. log'[s][now] = l /\ \A t \in Time \ {now} : log'[s][t] = log[s][t]
    BY <1>1, <2>1
  <2>6. now' = now /\ window'[s] = b
    BY <2>1, <2>4
  <2>7. /\ log'[s][now].calls = log[s][now].calls + one
        /\ log'[s][now].items = log[s][now].items + zero
        /\ \A t \in Time \ {now} : log'[s][t] = log[s][t]
    BY <2>3, <2>5
  <2> HIDE DEF w
  <2>8. b.started = Current(s).started /\ b.calls = Current(s).calls + one /\ b.items = Current(s).items + zero
    BY <2>2 DEF w
  <2>9. Tallied(s)'
    BY <2>2, <2>6, <2>7, <2>8, CountTally
  <2> QED
    BY <2>1, <2>4, <2>9, BurstStep
<1>6. CASE AcceptResult(s)
  <2> DEFINE b == [w EXCEPT !.items = @ + n]
             l == [log[s][now] EXCEPT !.items = @ + n]
  <2>1. window' = [window EXCEPT ![s] = b] /\ log' = [log EXCEPT ![s] = [log[s] EXCEPT ![now] = l]] /\ now' = now
    BY <1>6 DEF AcceptResult
  <2> PICK zero \in Nat : zero = 0
    OBVIOUS
  <2>2. b.open = TRUE /\ b.started = w.started /\ b.calls = w.calls + zero /\ b.items = w.items + n
    BY <1>2 DEF Budget
  <2>3. l.calls = log[s][now].calls + zero /\ l.items = log[s][now].items + n
    BY <1>1
  <2> HIDE DEF b, l, n
  <2>4. window'[s] = b /\ \A r \in Server : r # s => window'[r] = window[r] /\ log'[r] = log[r]
    BY <1>1, <2>1
  <2>5. log'[s][now] = l /\ \A t \in Time \ {now} : log'[s][t] = log[s][t]
    BY <1>1, <2>1
  <2>6. Tallied(s)'
    BY <1>2, <2>1, <2>2, <2>3, <2>4, <2>5, CountTally
  <2> QED
    BY <2>1, <2>4, <2>6, BurstStep
<1>7. CASE RefuseCall(s)
  BY <1>3, <1>7 DEF RefuseCall
<1>8. CASE RejectResult(s)
  <2>1. CASE serving[s].items > PageItems
    <3>1. UNCHANGED <<window, log, now>>
      BY <1>1, <1>8, <2>1 DEF RejectResult
    <3> QED
      BY <1>4, <3>1
  <2>2. CASE ~(serving[s].items > PageItems)
    BY <1>3, <1>8, <2>2 DEF RejectResult
  <2> QED
    BY <2>1, <2>2
<1> QED
  BY <1>5, <1>6, <1>7, <1>8

LEMMA NextBurstInv == BurstInv /\ [ToolNext]_toolVars => BurstInv'
<1> SUFFICES ASSUME BurstInv, [ToolNext]_toolVars PROVE BurstInv'
  OBVIOUS
<1>1. CallInv'
  BY NextCallInv DEF BurstInv
<1>2. CASE Tick
  BY <1>1, <1>2, TickTally DEF BurstInv
<1>3. ASSUME NEW s \in Server,
             RefuseCall(s) \/ BeginCall(s) \/ AcceptResult(s) \/ RejectResult(s)
      PROVE  BurstInv'
  BY <1>1, <1>3, CountStep
<1>4. CASE UNCHANGED <<now, window, log>>
  BY <1>1, <1>4, QuietTally DEF BurstInv
<1>5. CASE LogoutSession \/ UNCHANGED toolVars
  BY <1>4, <1>5 DEF LogoutSession, toolVars
<1>6. ASSUME NEW r \in Request, CheckSession(r) \/ IssueGrant(r) PROVE BurstInv'
  BY <1>4, <1>6 DEF CheckSession, IssueGrant
<1>7. ASSUME NEW s \in Server,
             \/ Receive(s) \/ CheckGrant(s) \/ Consume(s) \/ Deny(s) \/ Invoke(s) \/ InvokeFails(s)
      PROVE  BurstInv'
  BY <1>4, <1>7 DEF Receive, CheckGrant, Consume, Deny, Invoke, InvokeFails
<1> QED
  BY <1>2, <1>3, <1>5, <1>6, <1>7 DEF ToolNext

(* The inductive invariant holds in every state. *)
THEOREM CallInvariance == ToolSpec => []CallInv
<1> QED
  BY InitCallInv, NextCallInv, PTL DEF ToolSpec

(* Tables, budgets and calls keep their types; in particular no window ever  *)
(* counts past its limits, whenever it changes (ToolBudget).                 *)
THEOREM CallTypeCorrect == ToolSpec => []ToolTypeOK
<1> QED
  BY CallInvariance, PTL DEF CallInv

(* An approval is spent on at most one change, whatever number of servers    *)
(* hold it at the same time (DbFrontendSecurityProvider.authorize).          *)
THEOREM OneChangeTheorem == ToolSpec => []OneChange
<1> QED
  BY CallInvariance, PTL DEF CallInv

(* Windows of any length, with any limits and from any second on: no span as  *)
(* long as a window sees more calls or items of a server than two windows     *)
(* hold (ToolBudget).                                                       *)
THEOREM BurstTheorem == ToolSpec => []BurstBound
<1>1. BurstInv => BurstBound
  <2> SUFFICES ASSUME BurstInv, NEW s \in Server
               PROVE  /\ CallsBefore(s, now + 1) <= CallsBefore(s, FirstOf(now)) + 2 * MaxCalls
                      /\ ItemsBefore(s, now + 1) <= ItemsBefore(s, FirstOf(now)) + 2 * MaxItems
    BY DEF BurstBound
  <2> DEFINE f == CallTotals(s)
             h == ItemTotals(s)
  <2>1. /\ now \in Nat /\ window[s] \in Budget /\ MaxCalls \in Nat /\ MaxItems \in Nat
        /\ window[s].calls \in 0..MaxCalls /\ window[s].items \in 0..MaxItems
        /\ f \in [0..now + 1 -> Nat] /\ h \in [0..now + 1 -> Nat]
    BY TotalsType DEF BurstInv
  <2>2. FirstOf(now) \in 0..now + 1 /\ now + 1 \in 0..now + 1
    <3>1. FirstOf(now) \in Nat /\ FirstOf(now) <= now
      BY <2>1, FirstOfBounds
    <3> QED
      BY <2>1, <3>1
  <2>3. /\ f[now + 1] = CallsBefore(s, now + 1) /\ f[FirstOf(now)] = CallsBefore(s, FirstOf(now))
        /\ h[now + 1] = ItemsBefore(s, now + 1) /\ h[FirstOf(now)] = ItemsBefore(s, FirstOf(now))
    BY <2>2 DEF CallTotals, ItemTotals
  <2>4. Tally(f, now, window[s], window[s].calls, MaxCalls) /\ Tally(h, now, window[s], window[s].items, MaxItems)
    BY DEF BurstInv, Tallied
  <2> HIDE DEF f, h
  <2>5. f[now + 1] <= f[FirstOf(now)] + 2 * MaxCalls
    BY <2>1, <2>4, TallyBounds
  <2>6. h[now + 1] <= h[FirstOf(now)] + 2 * MaxItems
    BY <2>1, <2>4, TallyBounds
  <2> QED
    BY <2>3, <2>5, <2>6
<1> QED
  BY <1>1, InitBurstInv, NextBurstInv, PTL DEF ToolSpec
=============================================================================
