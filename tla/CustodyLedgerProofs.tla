------------------------ MODULE CustodyLedgerProofs ------------------------
(***************************************************************************)
(* Proofs about CustodyLedger, about EvidenceHash, which composes it with the *)
(* calls that verify evidence, for any number of calls, evidence items,      *)
(* digests and events, and about CustodySnapshot, for any number of items,   *)
(* contents and events.                                                     *)
(***************************************************************************)
EXTENDS EvidenceHash, CustodySnapshot, WellFoundedInduction, TLAPS

(* What a running call read is still there: histories only grow, so its last *)
(* event is still at the place it was read from, and its correction target   *)
(* still belongs to the evidence item.                                       *)
CallInv ==
  \A p \in Handler :
    LET c == call[p] IN
    c.at # "idle" =>
      /\ c.evidence \in Evidence
      /\ c.corrects # None => Holds(c.evidence, c.corrects)
      /\ c.at = "listed" =>
           /\ c.base <= Len(ledger[c.evidence])
           /\ c.last = IF c.base = 0 THEN None ELSE ledger[c.evidence][c.base]

IInv == TypeOK /\ CallInv /\ ChainsVerify /\ CorrectionsPointBack

-----------------------------------------------------------------------------

LEMMA InitIInv == Init => IInv
BY DEF Init, IInv, TypeOK, CallInv, ChainsVerify, Verifies, CorrectionsPointBack,
       Call, Idle, OptionalId

(* A step that changes one call and no row. *)
LEMMA ReadStep ==
  ASSUME IInv, NEW p \in Handler, Check(p) \/ List(p) \/ Leave(p)
  PROVE  IInv'
<1>1. UNCHANGED rows
  BY DEF Check, List, Leave
<1>2. ChainsVerify' /\ CorrectionsPointBack'
  BY <1>1 DEF IInv, rows, ChainsVerify, Verifies, CorrectionsPointBack
<1>3. CASE Check(p)
  <2>1. PICK e \in Evidence, x \in OptionalId :
          /\ x # None => Holds(e, x)
          /\ call' = [call EXCEPT ![p] = [Idle EXCEPT !.at = "checked", !.evidence = e,
                                                       !.corrects = x]]
    BY <1>3 DEF Check, Correctable
  <2> DEFINE c == [Idle EXCEPT !.at = "checked", !.evidence = e, !.corrects = x]
  <2>2. c \in Call /\ c.at = "checked" /\ c.evidence = e /\ c.corrects = x
    BY DEF Idle, Call, OptionalId
  <2>3. call' = [call EXCEPT ![p] = c]
    BY <2>1
  <2> HIDE DEF c
  <2>4. \A q \in Handler : call'[q] = IF q = p THEN c ELSE call[q]
    BY <2>3 DEF IInv, TypeOK
  <2>5. TypeOK'
    BY <1>1, <2>2, <2>3 DEF IInv, TypeOK, rows
  <2>6. CallInv'
    BY <1>1, <2>1, <2>2, <2>4 DEF IInv, CallInv, rows, Holds
  <2> QED
    BY <1>2, <2>5, <2>6 DEF IInv
<1>4. CASE List(p)
  <2> DEFINE log == ledger[call[p].evidence]
             c   == [call[p] EXCEPT !.at = "listed", !.last = LastOf(log), !.base = Len(log)]
  <2>1. /\ call[p] \in Call /\ call[p].at = "checked" /\ call[p].evidence \in Evidence
        /\ call[p].corrects # None => Holds(call[p].evidence, call[p].corrects)
    BY <1>4 DEF IInv, TypeOK, CallInv, List
  <2>2. log \in Seq(EventId) /\ Len(log) \in Nat
    BY <2>1 DEF IInv, TypeOK
  <2>3. /\ LastOf(log) \in OptionalId
        /\ LastOf(log) = IF Len(log) = 0 THEN None ELSE log[Len(log)]
    BY <2>2 DEF LastOf, OptionalId
  <2>4. call' = [call EXCEPT ![p] = c]
    BY <1>4 DEF List, IInv, TypeOK
  <2> HIDE DEF log
  <2>5. /\ c \in Call /\ c.at = "listed" /\ c.evidence = call[p].evidence
        /\ c.corrects = call[p].corrects /\ c.last = LastOf(log) /\ c.base = Len(log)
    BY <2>1, <2>2, <2>3 DEF Call
  <2> HIDE DEF c
  <2>6. \A q \in Handler : call'[q] = IF q = p THEN c ELSE call[q]
    BY <2>4 DEF IInv, TypeOK
  <2>7. TypeOK'
    BY <1>1, <2>4, <2>5 DEF IInv, TypeOK, rows
  <2>8. CallInv'
    <3>1. ASSUME NEW q \in Handler, q # p, call[q].at # "idle"
          PROVE  /\ call[q].evidence \in Evidence
                 /\ call[q].corrects # None => Holds(call[q].evidence, call[q].corrects)
                 /\ call[q].at = "listed" =>
                      /\ call[q].base <= Len(ledger[call[q].evidence])
                      /\ call[q].last = IF call[q].base = 0 THEN None
                                        ELSE ledger[call[q].evidence][call[q].base]
      BY <3>1 DEF IInv, CallInv
    <3>2. /\ c.base <= Len(ledger[c.evidence])
          /\ c.last = IF c.base = 0 THEN None ELSE ledger[c.evidence][c.base]
      BY <2>2, <2>3, <2>5 DEF log
    <3> QED
      BY <1>1, <2>1, <2>5, <2>6, <3>1, <3>2 DEF CallInv, rows, Holds
  <2> QED
    BY <1>2, <2>7, <2>8 DEF IInv
<1>5. CASE Leave(p)
  <2>1. Idle \in Call /\ Idle.at = "idle"
    BY DEF Idle, Call, OptionalId
  <2>2. \A q \in Handler : call'[q] = IF q = p THEN Idle ELSE call[q]
    BY <1>5 DEF Leave, IInv, TypeOK
  <2>3. TypeOK'
    BY <1>1, <1>5, <2>1 DEF Leave, IInv, TypeOK, rows
  <2>4. CallInv'
    BY <1>1, <2>1, <2>2 DEF IInv, CallInv, rows, Holds
  <2> QED
    BY <1>2, <2>3, <2>4 DEF IInv
<1> QED
  BY <1>3, <1>4, <1>5

LEMMA SaveStep ==
  ASSUME IInv, NEW p \in Handler, Save(p)
  PROVE  /\ IInv'
         /\ \E e \in Evidence, x \in EventId : History!Record(e, x)
<1> DEFINE e == call[p].evidence
<1>1. PICK x \in EventId :
        /\ \A d \in Evidence : ~Holds(d, x)
        /\ call[p].at = "listed"
        /\ Len(ledger[e]) = call[p].base
        /\ ledger' = [ledger EXCEPT ![e] = Append(@, x)]
        /\ link'   = [link EXCEPT ![x] = call[p].last]
        /\ target' = [target EXCEPT ![x] = call[p].corrects]
        /\ call'   = [call EXCEPT ![p] = Idle]
  BY DEF Save, RevisionFree, Known
<1>2. /\ e \in Evidence /\ call[p] \in Call
      /\ call[p].corrects # None => Holds(e, call[p].corrects)
      /\ call[p].last = IF call[p].base = 0 THEN None ELSE ledger[e][call[p].base]
  BY <1>1 DEF IInv, TypeOK, CallInv
<1>3. call[p].last \in OptionalId /\ call[p].corrects \in OptionalId
  BY <1>2 DEF Call
<1> HIDE DEF e
<1>t. /\ ledger \in [Evidence -> Seq(EventId)]
      /\ link \in [EventId -> OptionalId] /\ target \in [EventId -> OptionalId]
  BY DEF IInv, TypeOK
<1>4. \A d \in Evidence :
        /\ ledger[d] \in Seq(EventId) /\ Len(ledger[d]) \in Nat
        /\ ledger'[d] = IF d = e THEN Append(ledger[e], x) ELSE ledger[d]
        /\ ledger'[d] \in Seq(EventId)
        /\ Len(ledger'[d]) = IF d = e THEN Len(ledger[e]) + 1 ELSE Len(ledger[d])
        /\ \A i \in 1..Len(ledger[d]) : ledger'[d][i] = ledger[d][i] /\ ledger'[d][i] # x
  <2> TAKE d \in Evidence
  <2>1. ledger[d] \in Seq(EventId) /\ Len(ledger[d]) \in Nat
    BY <1>t
  <2>2. \A i \in 1..Len(ledger[d]) : ledger[d][i] # x
    BY <1>1 DEF Holds
  <2>3. CASE d = e
    <3>1. ledger'[d] = Append(ledger[d], x)
      BY <1>1, <1>2, <1>t, <2>3
    <3> QED
      BY <2>1, <2>2, <2>3, <3>1
  <2>4. CASE d # e
    BY <1>1, <1>t, <2>1, <2>2, <2>4
  <2> QED
    BY <2>3, <2>4
<1>5. ledger'[e][Len(ledger[e]) + 1] = x
  <2>1. ledger'[e] = Append(ledger[e], x) /\ ledger[e] \in Seq(EventId)
    BY <1>2, <1>4
  <2> QED
    BY <2>1
<1>6. \A y \in EventId :
        /\ link'[y] = IF y = x THEN call[p].last ELSE link[y]
        /\ target'[y] = IF y = x THEN call[p].corrects ELSE target[y]
  BY <1>1, <1>t
<1>7. \A d \in Evidence, y \in EventId : Holds(d, y) => Holds(d, y)'
  <2> SUFFICES ASSUME NEW d \in Evidence, NEW y \in EventId, Holds(d, y)
               PROVE  \E i \in 1..Len(ledger'[d]) : ledger'[d][i] = y
    BY DEF Holds
  <2>1. PICK i \in 1..Len(ledger[d]) : ledger[d][i] = y
    BY DEF Holds
  <2>2. i \in 1..Len(ledger'[d]) /\ ledger'[d][i] = y
    BY <1>4, <2>1
  <2> QED
    BY <2>2
<1>8. TypeOK'
  <2>1. Idle \in Call
    BY DEF Idle, Call, OptionalId
  <2>2. ledger' \in [Evidence -> Seq(EventId)]
    BY <1>1, <1>4, <1>t
  <2> QED
    BY <1>1, <1>3, <1>t, <2>1, <2>2 DEF IInv, TypeOK
<1>9. CallInv'
  <2>1. \A q \in Handler : call'[q] = IF q = p THEN Idle ELSE call[q]
    BY <1>1 DEF IInv, TypeOK
  <2> SUFFICES ASSUME NEW q \in Handler, q # p, call[q].at # "idle"
               PROVE  LET c == call[q] IN
                      /\ c.evidence \in Evidence
                      /\ c.corrects # None =>
                           \E i \in 1..Len(ledger'[c.evidence]) : ledger'[c.evidence][i] = c.corrects
                      /\ c.at = "listed" =>
                           /\ c.base <= Len(ledger'[c.evidence])
                           /\ c.last = IF c.base = 0 THEN None ELSE ledger'[c.evidence][c.base]
    BY <2>1 DEF CallInv, Holds, Idle
  <2>2. call[q] \in Call /\ call[q].evidence \in Evidence
    BY DEF IInv, TypeOK, CallInv
  <2>3. call[q].corrects # None =>
           /\ call[q].corrects \in EventId
           /\ Holds(call[q].evidence, call[q].corrects)
    BY <2>2 DEF IInv, CallInv, Call, OptionalId
  <2>4. call[q].at = "listed" =>
           /\ call[q].base \in Nat /\ call[q].base <= Len(ledger[call[q].evidence])
           /\ call[q].last = IF call[q].base = 0 THEN None
                             ELSE ledger[call[q].evidence][call[q].base]
    BY <2>2 DEF IInv, CallInv, Call
  <2>5. call[q].at = "listed" => call[q].base <= Len(ledger'[call[q].evidence])
    BY <1>4, <2>2, <2>4
  <2>6. call[q].at = "listed" /\ call[q].base # 0 =>
           ledger'[call[q].evidence][call[q].base] = ledger[call[q].evidence][call[q].base]
    BY <1>4, <2>2, <2>4
  <2> QED
    BY <1>7, <2>2, <2>3, <2>4, <2>5, <2>6 DEF Holds
<1>10. ChainsVerify'
  <2> SUFFICES ASSUME NEW d \in Evidence, NEW i \in 1..Len(ledger'[d])
               PROVE  link'[ledger'[d][i]] = IF i = 1 THEN None ELSE ledger'[d][i - 1]
    BY DEF ChainsVerify, Verifies
  <2>1. CASE i \in 1..Len(ledger[d])
    <3>1. ledger'[d][i] = ledger[d][i] /\ ledger[d][i] # x /\ ledger[d][i] \in EventId
      BY <1>4, <2>1
    <3>2. link[ledger[d][i]] = IF i = 1 THEN None ELSE ledger[d][i - 1]
      BY <2>1 DEF IInv, ChainsVerify, Verifies
    <3>3. i # 1 => ledger'[d][i - 1] = ledger[d][i - 1]
      BY <1>4, <2>1
    <3> QED
      BY <1>6, <3>1, <3>2, <3>3
  <2>2. CASE i \notin 1..Len(ledger[d])
    <3>1. d = e /\ i = Len(ledger[e]) + 1
      BY <1>4, <2>2
    <3>2. link'[ledger'[d][i]] = IF Len(ledger[e]) = 0 THEN None ELSE ledger[e][Len(ledger[e])]
      BY <1>1, <1>2, <1>5, <1>6, <3>1
    <3>3. i # 1 => ledger'[d][i - 1] = ledger[e][Len(ledger[e])]
      <4>1. Len(ledger[e]) \in Nat /\ i - 1 = Len(ledger[e])
        BY <1>2, <1>4, <3>1
      <4>2. i # 1 => Len(ledger[e]) \in 1..Len(ledger[e])
        BY <3>1, <4>1
      <4>3. \A k \in 1..Len(ledger[e]) : ledger'[e][k] = ledger[e][k]
        BY <1>2, <1>4
      <4> QED
        BY <3>1, <4>1, <4>2, <4>3
    <3> QED
      BY <1>2, <1>4, <3>1, <3>2, <3>3
  <2> QED
    BY <2>1, <2>2
<1>11. CorrectionsPointBack'
  <2> SUFFICES ASSUME NEW d \in Evidence, NEW i \in 1..Len(ledger'[d]),
                      target'[ledger'[d][i]] # None
               PROVE  \E j \in 1..(i - 1) : ledger'[d][j] = target'[ledger'[d][i]]
    BY DEF CorrectionsPointBack
  <2>1. CASE i \in 1..Len(ledger[d])
    <3>1. ledger'[d][i] = ledger[d][i] /\ ledger[d][i] # x /\ ledger[d][i] \in EventId
      BY <1>4, <2>1
    <3>2. PICK j \in 1..(i - 1) : ledger[d][j] = target[ledger[d][i]]
      BY <1>6, <2>1, <3>1 DEF IInv, CorrectionsPointBack
    <3>3. ledger'[d][j] = ledger[d][j]
      BY <1>4, <2>1, <3>2
    <3> QED
      BY <1>6, <3>1, <3>2, <3>3
  <2>2. CASE i \notin 1..Len(ledger[d])
    <3>1. d = e /\ i = Len(ledger[e]) + 1
      BY <1>4, <2>2
    <3>2. target'[ledger'[d][i]] = call[p].corrects
      BY <1>5, <1>6, <3>1
    <3>3. PICK j \in 1..Len(ledger[e]) : ledger[e][j] = call[p].corrects
      BY <1>2, <3>2 DEF Holds
    <3> QED
      BY <1>2, <1>4, <3>1, <3>2, <3>3
  <2> QED
    BY <2>1, <2>2
<1>12. History!Record(e, x)
  <2>1. x \notin History!Recorded
    BY <1>1 DEF History!Recorded, Holds
  <2>2. call[p].last = History!Newest(e)
    <3>1. ledger[e] \in Seq(EventId)
      BY <1>2, <1>4
    <3>2. ledger[e] = <<>> <=> Len(ledger[e]) = 0
      BY <3>1
    <3> QED
      BY <1>1, <1>2, <3>2 DEF History!Newest
  <2> QED
    BY <1>1, <2>1, <2>2 DEF History!Record
<1> QED
  BY <1>2, <1>8, <1>9, <1>10, <1>11, <1>12 DEF IInv

LEMMA StutterStep == ASSUME IInv, UNCHANGED vars PROVE IInv'
BY DEF IInv, vars, rows, TypeOK, CallInv, ChainsVerify, Verifies, CorrectionsPointBack, Holds

LEMMA InductiveStep == IInv /\ [Next]_vars => IInv'
BY ReadStep, SaveStep, StutterStep DEF Next

-----------------------------------------------------------------------------

(* The invariant holds in every state of the ledger. *)
THEOREM Invariance == Spec => []IInv
BY InitIInv, InductiveStep, PTL DEF Spec

(* The rows that add_event inserts, and what its running calls know, keep    *)
(* their types.                                                              *)
THEOREM TypeCorrect == Spec => []TypeOK
BY Invariance, PTL DEF IInv

(* verify_chain is True at every moment, for any number of concurrent calls: *)
(* the revision constraint alone keeps two events from continuing the same   *)
(* predecessor.                                                              *)
THEOREM ChainsTheorem == Spec => []ChainsVerify
BY Invariance, PTL DEF IInv

(* A CORRECTION that add_event accepted names an earlier event of the same   *)
(* evidence item, however long ago the call checked its target.              *)
THEOREM CorrectionsTheorem == Spec => []CorrectionsPointBack
BY Invariance, PTL DEF IInv

(* The ledger implements one append-only history per evidence item.          *)
THEOREM Refinement == Spec => RefinesAppendOnlyLog
<1>1. Init => History!Init
  BY DEF Init, History!Init
<1>2. IInv /\ [Next]_vars => [History!Next]_<<ledger, link>>
  <2> SUFFICES ASSUME IInv, [Next]_vars PROVE [History!Next]_<<ledger, link>>
    OBVIOUS
  <2>1. ASSUME NEW p \in Handler, Save(p) PROVE History!Next
    BY <2>1, SaveStep DEF History!Next
  <2>2. ASSUME NEW p \in Handler, Check(p) \/ List(p) \/ Leave(p)
        PROVE  UNCHANGED <<ledger, link>>
    BY <2>2 DEF Check, List, Leave, rows
  <2>3. CASE UNCHANGED vars
    BY <2>3 DEF vars, rows
  <2> QED
    BY <2>1, <2>2, <2>3 DEF Next
<1> QED
  BY <1>1, <1>2, Invariance, PTL DEF Spec, RefinesAppendOnlyLog, History!Spec
-----------------------------------------------------------------------------
(* Composition with EvidenceHash *)

LEMMA ManageLeavesLedger == ASSUME NEW p \in Handler, Manage(p) PROVE UNCHANGED vars
BY DEF Manage, Register, StartHash, ComputeHash, SaveRecord, MarkReady, FailHash, StartVerify,
       Observe, SaveVerification, MarkVerified, FailVerify, Die

LEMMA ComposedStep == [EvidenceNext]_evidenceVars => [Next]_vars
BY ManageLeavesLedger
   DEF EvidenceNext, Next, CheckEvent, ListEvents, SaveEvent, LeaveEvent, evidenceVars

(* Registering, hashing and verifying evidence uses the ledger only in the   *)
(* ways of add_event: what is proved of CustodyLedger holds beside them.     *)
THEOREM Composition == EvidenceSpec => Spec
<1>1. EvidenceInit => Init
  BY DEF EvidenceInit
<1> QED
  BY <1>1, ComposedStep, PTL DEF EvidenceSpec, Spec

(* What a call of EvidenceManager knows: the record it verifies is still as   *)
(* it was read, the event it added is a witness of its verdict, and its row  *)
(* is stored before the record is marked.                                   *)
Knows(p, o) ==
  /\ o.at # "idle" => o.evidence \in Evidence
  /\ o.at = "record" => o.time \in Time /\ o.time <= clock /\ records[o.time].evidence = None
  /\ o.at \in {"verify", "witness", "history", "mark"} =>
       /\ o.time \in Time
       /\ records[o.time].evidence = o.evidence /\ records[o.time].digest = o.expected
  /\ o.at = "witness" /\ call[p] # Idle => call[p].evidence = o.evidence
  /\ o.at \in {"history", "mark"} => Witnessed(o)
  /\ o.at = "mark" => \E v \in verifications :
       /\ v.evidence = o.evidence /\ v.expected = o.expected
       /\ v.status = Compared(o.expected, o.observed)

(* No two computations are completed at one time, and none in the future. *)
Fresh ==
  /\ \A p, q \in Handler : p # q /\ op[p].at = "record" /\ op[q].at = "record" => op[p].time # op[q].time
  /\ \A t \in Time : records[t].evidence # None => t <= clock

Typed ==
  /\ clock \in Nat
  /\ records \in [Time -> Record]
  /\ verifications \subseteq Verification
  /\ says \in [EventId -> Says]
  /\ op \in [Handler -> Op]

EInv == IInv /\ Typed /\ (\A p \in Handler : Knows(p, op[p])) /\ Fresh /\ VerdictsAreWitnessed

LEMMA InitEInv == EvidenceInit => EInv
<1> SUFFICES ASSUME EvidenceInit PROVE EInv
  OBVIOUS
<1>1. IInv
  BY InitIInv DEF EvidenceInit
<1>2. NoOp \in Op /\ NoRecord \in Record /\ SaysNothing \in Says
  BY DEF NoOp, Op, NoRecord, Record, SaysNothing, Says, OptionalDigest, OptionalId
<1>3. Typed
  BY <1>2 DEF EvidenceInit, Typed
<1>4. \A p \in Handler : op[p] = NoOp
  BY DEF EvidenceInit
<1>5. NoOp.at = "idle"
  BY DEF NoOp
<1>6. \A p \in Handler : Knows(p, op[p])
  BY <1>4, <1>5 DEF Knows
<1>7. \A t \in Time : records[t].evidence = None /\ records[t].verdict = "NOT_CHECKED"
  BY DEF EvidenceInit, NoRecord
<1>8. Fresh
  BY <1>4, <1>5, <1>7 DEF Fresh
<1>9. VerdictsAreWitnessed
  BY <1>7 DEF VerdictsAreWitnessed, EvidenceInit
<1> QED
  BY <1>1, <1>3, <1>6, <1>8, <1>9 DEF EInv

(* A step that only changes what one call knows, and ticks the clock, keeps  *)
(* the invariant when what the call then knows is true.                     *)
LEMMA QuietStep ==
  ASSUME EInv, IInv', NEW p \in Handler, NEW o \in Op, Become(p, o),
         UNCHANGED <<records, verifications, says, ledger>>,
         clock' \in Nat, clock <= clock',
         \A q \in Handler : q # p => call'[q] = call[q],
         Knows(p, o)',
         o.at = "record" => (op[p].at = "record" /\ o.time = op[p].time) \/ clock < o.time
  PROVE  EInv'
<1>1. \A q \in Handler : op'[q] = IF q = p THEN o ELSE op[q]
  BY DEF EInv, Typed, Become
<1>2. Typed'
  BY DEF EInv, Typed, Become
<1>3. ASSUME NEW q \in Handler, q # p PROVE Knows(q, op[q])'
  <2>1. Knows(q, op[q]) /\ op'[q] = op[q] /\ call'[q] = call[q]
    BY <1>1, <1>3 DEF EInv
  <2>2. op[q] \in Op /\ clock \in Nat
    BY DEF EInv, Typed
  <2>3. Witnessed(op[q]) => Witnessed(op[q])'
    BY <2>1 DEF Witnessed, Holds
  <2>4. op[q].at = "record" => op[q].time <= clock'
    BY <2>1, <2>2 DEF Knows, Op
  <2> QED
    BY <2>1, <2>3, <2>4 DEF Knows
<1>4. Fresh'
  <2>1. \A q \in Handler : op[q].at = "record" => op[q].time \in Nat /\ op[q].time <= clock
    BY DEF EInv, Knows, Typed, Op
  <2>2. \A t \in Time : records'[t].evidence # None => t <= clock'
    BY DEF EInv, Fresh, Time, Typed
  <2>3. o.time \in Nat /\ clock \in Nat
    BY DEF Op, EInv, Typed
  <2> QED
    BY <1>1, <2>1, <2>2, <2>3 DEF EInv, Fresh
<1>5. VerdictsAreWitnessed'
  BY DEF EInv, VerdictsAreWitnessed, Witnessed, Holds
<1>6. \A q \in Handler : Knows(q, op[q])'
  BY <1>1, <1>3
<1> QED
  BY <1>2, <1>4, <1>5, <1>6 DEF EInv

(* What a call at rest, or one that reads, knows. *)
LEMMA NoOpType == NoOp \in Op /\ NoOp.at = "idle"
BY DEF NoOp, Op, OptionalDigest, OptionalId

LEMMA Restart ==
  ASSUME EInv, IInv', NEW p \in Handler, Become(p, NoOp),
         UNCHANGED <<clock, records, verifications, says, ledger>>,
         \A q \in Handler : q # p => call'[q] = call[q]
  PROVE  EInv'
<1>1. Knows(p, NoOp)'
  BY NoOpType DEF Knows
<1>2. clock \in Nat
  BY DEF EInv, Typed
<1> QED
  BY <1>1, <1>2, NoOpType, QuietStep

LEMMA BeginStep ==
  ASSUME EInv, IInv', NEW p \in Handler, Register(p) \/ StartHash(p) \/ StartVerify(p)
  PROVE  EInv'
<1>t. clock \in Nat /\ records \in [Time -> Record] /\ (call' = call) /\ ledger' = ledger
  BY DEF EInv, Typed, Register, StartHash, StartVerify, vars, rows
<1>a. File \subseteq Evidence
  BY EvidenceAssumption
<1>1. CASE Register(p)
  <2>1. PICK e \in Evidence :
          Become(p, [NoOp EXCEPT !.at = "receive", !.evidence = e])
    BY <1>1 DEF Register
  <2> DEFINE o == [NoOp EXCEPT !.at = "receive", !.evidence = e]
  <2>2. o \in Op /\ o.at = "receive" /\ o.evidence = e
    BY DEF NoOp, Op, OptionalDigest, OptionalId
  <2>3. Become(p, o)
    BY <2>1
  <2> HIDE DEF o
  <2>4. Knows(p, o)'
    BY <2>2 DEF Knows
  <2>5. UNCHANGED <<clock, records, verifications, says>>
    BY <1>1 DEF Register, hashes
  <2> QED
    BY <1>t, <2>2, <2>3, <2>4, <2>5, QuietStep
<1>2. CASE StartHash(p)
  <2>1. PICK e \in File : Become(p, [NoOp EXCEPT !.at = "hash", !.evidence = e])
    BY <1>2 DEF StartHash
  <2> DEFINE o == [NoOp EXCEPT !.at = "hash", !.evidence = e]
  <2>2. o \in Op /\ o.at = "hash" /\ o.evidence = e
    BY <1>a DEF NoOp, Op, OptionalDigest, OptionalId
  <2>3. Become(p, o)
    BY <2>1
  <2> HIDE DEF o
  <2>4. Knows(p, o)'
    BY <1>a, <2>2 DEF Knows
  <2>5. UNCHANGED <<records, verifications, says>> /\ clock' = clock + 1
    BY <1>2 DEF StartHash
  <2> QED
    BY <1>t, <2>2, <2>3, <2>4, <2>5, QuietStep
<1>3. CASE StartVerify(p)
  <2>1. PICK e \in File, t \in Time :
          /\ Latest(e, t)
          /\ Become(p, [NoOp EXCEPT !.at = "verify", !.evidence = e, !.time = t,
                                    !.expected = records[t].digest])
    BY <1>3 DEF StartVerify
  <2>2. records[t].digest \in OptionalDigest /\ t \in Nat
    BY <1>t DEF Record, Time
  <2>3. PICK o \in Op : /\ o.at = "verify" /\ o.evidence = e /\ o.time = t
                        /\ o.expected = records[t].digest /\ Become(p, o)
    <3> DEFINE c == [NoOp EXCEPT !.at = "verify", !.evidence = e, !.time = t,
                                 !.expected = records[t].digest]
    <3>1. /\ c \in Op /\ c.at = "verify" /\ c.evidence = e /\ c.time = t
          /\ c.expected = records[t].digest
      BY <1>a, <2>2 DEF NoOp, Op, OptionalId, OptionalDigest
    <3>2. Become(p, c)
      BY <2>1
    <3> QED
      BY <3>1, <3>2
  <2>5. UNCHANGED <<clock, records, verifications, says>>
    BY <1>3 DEF StartVerify, managed, hashes
  <2>6. Knows(p, o)'
    BY <1>a, <2>1, <2>3, <2>5 DEF Knows, Latest
  <2> QED
    BY <1>t, <2>3, <2>5, <2>6, QuietStep
<1> QED
  BY <1>1, <1>2, <1>3

LEMMA ComputeStep ==
  ASSUME EInv, IInv', NEW p \in Handler, ComputeHash(p) \/ Observe(p)
  PROVE  EInv'
<1>t. /\ clock \in Nat /\ records \in [Time -> Record] /\ op[p] \in Op
      /\ call' = call /\ ledger' = ledger /\ call[p] = Idle
      /\ UNCHANGED <<records, verifications, says>>
  BY DEF EInv, Typed, ComputeHash, Observe, At, vars, rows, managed, hashes
<1>1. CASE ComputeHash(p)
  <2>1. PICK d \in Digest :
          Become(p, [op[p] EXCEPT !.at = "record", !.time = clock + 1, !.observed = d])
    BY <1>1 DEF ComputeHash
  <2>2. PICK o \in Op : /\ o.at = "record" /\ o.evidence = op[p].evidence /\ o.time = clock + 1
                        /\ Become(p, o)
    <3> DEFINE c == [op[p] EXCEPT !.at = "record", !.time = clock + 1, !.observed = d]
    <3>0. clock + 1 \in Nat
      BY <1>t
    <3>1. c \in Op /\ c.at = "record" /\ c.evidence = op[p].evidence /\ c.time = clock + 1
      BY <1>t, <3>0 DEF Op, OptionalDigest
    <3>2. Become(p, c)
      BY <2>1
    <3> QED
      BY <3>1, <3>2
  <2>4. op[p].evidence \in Evidence
    BY <1>1 DEF EInv, Knows, ComputeHash, At
  <2>5. clock + 1 \in Time /\ clock' = clock + 1
    <3>1. clock < MaxTime /\ MaxTime \in Nat /\ clock' = clock + 1
      BY <1>1, EvidenceAssumption DEF ComputeHash
    <3> QED
      BY <1>t, <3>1 DEF Time
  <2>6. records[clock + 1].evidence = None
    BY <1>t, <2>5 DEF EInv, Fresh
  <2>7. Knows(p, o)'
    BY <1>t, <2>2, <2>4, <2>5, <2>6 DEF Knows
  <2> QED
    BY <1>t, <2>2, <2>5, <2>7, QuietStep
<1>2. CASE Observe(p)
  <2>1. PICK d \in Digest : Become(p, [op[p] EXCEPT !.at = "witness", !.observed = d])
    BY <1>2 DEF Observe
  <2>2. PICK o \in Op : /\ o.at = "witness" /\ o.evidence = op[p].evidence /\ o.time = op[p].time
                        /\ o.expected = op[p].expected /\ Become(p, o)
    <3> DEFINE c == [op[p] EXCEPT !.at = "witness", !.observed = d]
    <3>1. /\ c \in Op /\ c.at = "witness" /\ c.evidence = op[p].evidence /\ c.time = op[p].time
          /\ c.expected = op[p].expected
      BY <1>t DEF Op, OptionalDigest
    <3>2. Become(p, c)
      BY <2>1
    <3> QED
      BY <3>1, <3>2
  <2>4. Knows(p, op[p]) /\ op[p].at = "verify" /\ clock' = clock
    BY <1>2 DEF EInv, Observe, At, managed, hashes
  <2>5. Knows(p, o)'
    BY <1>t, <2>2, <2>4 DEF Knows
  <2> QED
    BY <1>t, <2>2, <2>4, <2>5, QuietStep
<1> QED
  BY <1>1, <1>2

LEMMA EndStep ==
  ASSUME EInv, IInv', NEW p \in Handler,
         MarkReady(p) \/ FailHash(p) \/ FailVerify(p) \/ Die(p) \/ LeaveEvent(p)
  PROVE  EInv'
<1>1. Become(p, NoOp) /\ UNCHANGED <<clock, records, verifications, says, ledger>>
  BY DEF MarkReady, FailHash, FailVerify, Die, LeaveEvent, Leave, vars, rows, managed, hashes
<1>2. \A q \in Handler : q # p => call'[q] = call[q]
  BY DEF MarkReady, FailHash, FailVerify, Die, LeaveEvent, Leave, vars, EInv, IInv, TypeOK
<1> QED
  BY <1>1, <1>2, Restart

(* CheckEvent and ListEvents change no knowledge of a call. *)
LEMMA EventReadStep ==
  ASSUME EInv, IInv', NEW p \in Handler, CheckEvent(p) \/ ListEvents(p)
  PROVE  EInv'
<1>1. op[p] \in Op /\ clock \in Nat
  BY DEF EInv, Typed
<1>2. Become(p, op[p]) /\ UNCHANGED <<clock, records, verifications, says, ledger, op>>
  BY DEF CheckEvent, ListEvents, Check, List, rows, managed, hashes, Become, EInv, Typed
<1>3. \A q \in Handler : q # p => call'[q] = call[q]
  BY DEF CheckEvent, ListEvents, Check, List, EInv, IInv, TypeOK
<1>4. op[p].at = "witness" => call'[p].evidence = op[p].evidence
  <2>1. CASE CheckEvent(p)
    BY <2>1 DEF CheckEvent
  <2>2. CASE ListEvents(p)
    <3>1. call[p].at = "checked" /\ call'[p].evidence = call[p].evidence
      BY <2>2 DEF ListEvents, List, EInv, IInv, TypeOK, Call
    <3> QED
      BY <3>1 DEF EInv, Knows, Idle
  <2> QED
    BY <2>1, <2>2
<1>5. PICK o \in Op : o = op[p]
  BY <1>1
<1>6. Knows(p, op[p])
  BY DEF EInv
<1>7. Witnessed(o) => Witnessed(o)'
  BY <1>2 DEF Witnessed, Holds
<1>8. Knows(p, o)'
  BY <1>2, <1>4, <1>5, <1>6, <1>7 DEF Knows
<1> QED
  BY <1>1, <1>2, <1>3, <1>5, <1>8, QuietStep

LEMMA SaveRecordStep ==
  ASSUME EInv, IInv', NEW p \in Handler, SaveRecord(p)
  PROVE  EInv'
<1> DEFINE t == op[p].time
           r == [evidence |-> op[p].evidence, digest |-> op[p].observed, verdict |-> "NOT_CHECKED"]
<1>1. /\ op[p] \in Op /\ op[p].at = "record" /\ op[p].evidence \in Evidence
      /\ t \in Time /\ t <= clock /\ records[t].evidence = None
  BY DEF EInv, Typed, Knows, SaveRecord, At
<1>2. r \in Record /\ r.evidence = op[p].evidence /\ r.verdict = "NOT_CHECKED"
  BY <1>1 DEF Op, Record
<1> HIDE DEF r
<1>3. \A u \in Time : records'[u] = IF u = t THEN r ELSE records[u]
  BY <1>1 DEF SaveRecord, EInv, Typed, r
<1>4. PICK o \in Op : o.at = "ready" /\ o.evidence = op[p].evidence /\ Become(p, o)
  <2> DEFINE c == [op[p] EXCEPT !.at = "ready"]
  <2>1. c \in Op /\ c.at = "ready" /\ c.evidence = op[p].evidence
    BY <1>1 DEF Op
  <2>2. Become(p, c)
    BY DEF SaveRecord
  <2> QED
    BY <2>1, <2>2
<1> HIDE DEF t
<1>5. \A q \in Handler : op'[q] = IF q = p THEN o ELSE op[q]
  BY <1>4 DEF EInv, Typed, Become
<1>6. UNCHANGED <<clock, verifications, says, ledger, call>>
  BY DEF SaveRecord, vars, rows
<1>7. Typed'
  BY <1>1, <1>2, <1>4, <1>6 DEF EInv, Typed, Become, SaveRecord, r
<1>8. \A q \in Handler : Knows(q, op[q])'
  <2> TAKE q \in Handler
  <2>1. CASE q = p
    BY <1>1, <1>4, <1>5, <2>1 DEF Knows
  <2>2. CASE q # p
    <3>1. Knows(q, op[q]) /\ op'[q] = op[q]
      BY <1>5, <2>2 DEF EInv
    <3>2. Witnessed(op[q]) => Witnessed(op[q])'
      BY <1>6, <3>1 DEF Witnessed, Holds
    <3>3. op[q].at = "record" => op[q].time # t
      BY <1>1, <2>2 DEF EInv, Fresh, t
    <3>4. op[q].at \in {"verify", "witness", "history", "mark"} => op[q].time # t
      BY <1>1, <3>1, EvidenceAssumption DEF Knows
    <3> QED
      BY <1>3, <1>6, <3>1, <3>2, <3>3, <3>4 DEF Knows
  <2> QED
    BY <2>1, <2>2
<1>9. Fresh'
  BY <1>1, <1>3, <1>4, <1>5, <1>6 DEF EInv, Fresh
<1>10. VerdictsAreWitnessed'
  <2>1. \A v \in verifications' : Witnessed(v)'
    BY <1>6 DEF EInv, VerdictsAreWitnessed, Witnessed, Holds
  <2>2. \A u \in Time : records'[u].verdict # "NOT_CHECKED" => u # t
    BY <1>2, <1>3
  <2> QED
    BY <1>3, <1>6, <2>1, <2>2 DEF EInv, VerdictsAreWitnessed
<1> QED
  BY <1>7, <1>8, <1>9, <1>10 DEF EInv

LEMMA SaveVerificationStep ==
  ASSUME EInv, IInv', NEW p \in Handler, SaveVerification(p)
  PROVE  EInv'
<1>1. /\ op[p] \in Op /\ op[p].at = "history" /\ op[p].evidence \in Evidence
      /\ Witnessed(op[p])
  BY DEF EInv, Typed, Knows, SaveVerification, At
<1>2. PICK r : r = RowOf(p)
  OBVIOUS
<1>3. /\ r \in Verification
      /\ r.evidence = op[p].evidence /\ r.event = op[p].event
      /\ r.expected = op[p].expected /\ r.observed = op[p].observed
      /\ r.status = Compared(op[p].expected, op[p].observed)
  BY <1>1, <1>2 DEF RowOf, ItsEvent, Compared, Op, Verification
<1>4. verifications' = verifications \cup {r}
  BY <1>2 DEF SaveVerification
<1>5. PICK o \in Op : /\ o.at = "mark" /\ o.evidence = op[p].evidence /\ o.time = op[p].time
                      /\ o.expected = op[p].expected /\ o.observed = op[p].observed
                      /\ o.event = op[p].event /\ Become(p, o)
  <2> DEFINE c == [op[p] EXCEPT !.at = "mark"]
  <2>1. /\ c \in Op /\ c.at = "mark" /\ c.evidence = op[p].evidence /\ c.time = op[p].time
        /\ c.expected = op[p].expected /\ c.observed = op[p].observed /\ c.event = op[p].event
    BY <1>1 DEF Op
  <2>2. Become(p, c)
    BY DEF SaveVerification
  <2> QED
    BY <2>1, <2>2
<1>6. \A q \in Handler : op'[q] = IF q = p THEN o ELSE op[q]
  BY <1>5 DEF EInv, Typed, Become
<1>7. UNCHANGED <<clock, records, says, ledger, call>>
  BY DEF SaveVerification, vars, rows
<1>8. Typed'
  BY <1>3, <1>4, <1>5, <1>7 DEF EInv, Typed, Become
<1>9. \A q \in Handler : Knows(q, op[q])'
  <2> TAKE q \in Handler
  <2>1. CASE q = p
    <3>1. Witnessed(op[p]) => Witnessed(op[p])'
      BY <1>5, <1>6, <1>7 DEF Witnessed, Holds
    <3>2. Knows(p, op[p])
      BY DEF EInv
    <3>3. r \in verifications'
      BY <1>4
    <3> QED
      BY <1>1, <1>3, <1>5, <1>6, <1>7, <2>1, <3>1, <3>2, <3>3 DEF Knows
  <2>2. CASE q # p
    <3>1. Knows(q, op[q]) /\ op'[q] = op[q]
      BY <1>6, <2>2 DEF EInv
    <3>2. Witnessed(op[q]) => Witnessed(op[q])'
      BY <1>7, <3>1 DEF Witnessed, Holds
    <3> QED
      BY <1>4, <1>7, <3>1, <3>2 DEF Knows
  <2> QED
    BY <2>1, <2>2
<1>10. Fresh'
  BY <1>5, <1>6, <1>7 DEF EInv, Fresh
<1>11. VerdictsAreWitnessed'
  <2>1. Witnessed(r)
    BY <1>1, <1>3 DEF Witnessed
  <2>2. \A v \in verifications \cup {r} : Witnessed(v)
    BY <2>1 DEF EInv, VerdictsAreWitnessed
  <2>3. \A v \in verifications' : Witnessed(v)'
    BY <1>4, <1>7, <2>2 DEF Witnessed, Holds
  <2> QED
    BY <1>4, <1>7, <2>3 DEF EInv, VerdictsAreWitnessed
<1> QED
  BY <1>8, <1>9, <1>10, <1>11 DEF EInv

LEMMA MarkVerifiedStep ==
  ASSUME EInv, IInv', NEW p \in Handler, MarkVerified(p)
  PROVE  EInv'
<1> DEFINE t == op[p].time
           verdict == Compared(op[p].expected, op[p].observed)
<1>1. /\ op[p].at = "mark" /\ t \in Time
      /\ records[t].evidence = op[p].evidence /\ records[t].digest = op[p].expected
      /\ \E v \in verifications : /\ v.evidence = op[p].evidence /\ v.expected = op[p].expected
                                  /\ v.status = verdict
  BY DEF EInv, Knows, MarkVerified, At
<1>2. verdict \in {"MATCH", "MISMATCH"}
  BY DEF Compared
<1> HIDE DEF verdict
<1>3. PICK r : r = [records[t] EXCEPT !.verdict = verdict]
  OBVIOUS
<1>4. /\ r \in Record /\ r.evidence = records[t].evidence /\ r.digest = records[t].digest
      /\ r.verdict = verdict
  <2>1. records[t] \in Record
    BY <1>1 DEF EInv, Typed
  <2> QED
    BY <1>2, <1>3, <2>1 DEF Record
<1>5. records' = [records EXCEPT ![t] = r]
  BY <1>1, <1>3 DEF MarkVerified, EInv, Typed, verdict
<1>6. \A u \in Time : records'[u] = IF u = t THEN r ELSE records[u]
  BY <1>1, <1>5 DEF EInv, Typed
<1>7. Become(p, NoOp) /\ UNCHANGED <<clock, verifications, says, ledger, call>>
  BY DEF MarkVerified, vars, rows
<1> HIDE DEF t
<1>8. \A q \in Handler : op'[q] = IF q = p THEN NoOp ELSE op[q]
  BY <1>7 DEF EInv, Typed, Become
<1>9. Typed'
  BY <1>1, <1>4, <1>5, <1>7, NoOpType DEF EInv, Typed, Become
<1>10. \A q \in Handler : Knows(q, op[q])'
  <2> TAKE q \in Handler
  <2>1. CASE q = p
    BY <1>8, <2>1, NoOpType DEF Knows
  <2>2. CASE q # p
    <3>1. Knows(q, op[q]) /\ op'[q] = op[q]
      BY <1>8, <2>2 DEF EInv
    <3>2. Witnessed(op[q]) => Witnessed(op[q])'
      BY <1>7, <3>1 DEF Witnessed, Holds
    <3> QED
      BY <1>4, <1>6, <1>7, <3>1, <3>2 DEF Knows
  <2> QED
    BY <2>1, <2>2
<1>11. Fresh'
  BY <1>1, <1>4, <1>6, <1>7, <1>8, NoOpType DEF EInv, Fresh
<1>12. VerdictsAreWitnessed'
  <2>1. \A v \in verifications' : Witnessed(v)'
    BY <1>7 DEF EInv, VerdictsAreWitnessed, Witnessed, Holds
  <2>2. \A u \in Time : records'[u].verdict # "NOT_CHECKED" =>
          \E v \in verifications : /\ v.evidence = records'[u].evidence
                                   /\ v.expected = records'[u].digest
                                   /\ v.status = records'[u].verdict
    BY <1>1, <1>4, <1>6 DEF EInv, VerdictsAreWitnessed
  <2> QED
    BY <1>7, <2>1, <2>2 DEF VerdictsAreWitnessed
<1> QED
  BY <1>9, <1>10, <1>11, <1>12 DEF EInv

LEMMA SaveEventStep ==
  ASSUME EInv, IInv', NEW p \in Handler, SaveEvent(p)
  PROVE  EInv'
<1>t. /\ ledger \in [Evidence -> Seq(EventId)] /\ op[p] \in Op /\ says \in [EventId -> Says]
      /\ op \in [Handler -> Op] /\ call \in [Handler -> Call]
  BY DEF EInv, IInv, TypeOK, Typed
<1>1. PICK x \in EventId :
        /\ x \notin Known
        /\ call[p].at = "listed"
        /\ ledger' = [ledger EXCEPT ![call[p].evidence] = Append(@, x)]
        /\ call' = [call EXCEPT ![p] = Idle]
  BY DEF SaveEvent, Save
<1>2. PICK y \in EventId :
        /\ ledger' = [ledger EXCEPT ![call[p].evidence] = Append(@, y)]
        /\ says' = [says EXCEPT ![y] = Saying(op[p])]
        /\ Become(p, IF op[p].at = "witness" THEN [op[p] EXCEPT !.at = "history", !.event = y] ELSE NoOp)
  BY DEF SaveEvent
<1>3. PICK e \in Evidence : e = call[p].evidence
  BY <1>1 DEF EInv, IInv, CallInv
<1>4. PICK old \in Seq(EventId) : old = ledger[e]
  BY <1>t
<1>5. ledger'[e] = Append(old, x) /\ ledger'[e] = Append(old, y)
  BY <1>1, <1>2, <1>3, <1>4, <1>t
<1>6. x = y
  <2>1. Append(old, x)[Len(old) + 1] = x /\ Append(old, y)[Len(old) + 1] = y
    BY <1>4
  <2> QED
    BY <1>5, <2>1
<1>7. Holds(e, x)'
  <2>1. Len(old) + 1 \in 1..Len(Append(old, x)) /\ Append(old, x)[Len(old) + 1] = x
    BY <1>4
  <2> QED
    BY <1>5, <2>1 DEF Holds
<1>8. \A d \in Evidence : \A z : Holds(d, z) => Holds(d, z)' /\ z \in EventId /\ z # x
  <2> SUFFICES ASSUME NEW d \in Evidence, NEW z, Holds(d, z)
               PROVE  Holds(d, z)' /\ z \in EventId /\ z # x
    OBVIOUS
  <2>1. PICK i \in 1..Len(ledger[d]) : ledger[d][i] = z
    BY DEF Holds
  <2>2. z \in EventId
    BY <1>t, <2>1
  <2>3. z # x
    BY <1>1, <2>2 DEF Known
  <2>4. CASE d = e
    <3>1. i \in 1..Len(Append(old, x)) /\ Append(old, x)[i] = z
      BY <1>4, <2>1, <2>4
    <3> QED
      BY <1>5, <2>2, <2>3, <2>4, <3>1 DEF Holds
  <2>5. CASE d # e
    BY <1>1, <1>3, <1>t, <2>1, <2>2, <2>3, <2>5 DEF Holds
  <2> QED
    BY <2>4, <2>5
<1>9. \A z \in EventId : says'[z] = IF z = x THEN Saying(op[p]) ELSE says[z]
  BY <1>2, <1>6, <1>t
<1>10. \A v : v.evidence \in Evidence /\ Witnessed(v) => Witnessed(v)'
  BY <1>8, <1>9 DEF Witnessed
<1>11. UNCHANGED <<clock, records, verifications>>
  BY DEF SaveEvent, hashes
<1>12. Saying(op[p]) \in Says
  BY <1>t DEF Saying, Says, SaysNothing, Op, OptionalDigest
<1>13. PICK o \in Op :
         /\ Become(p, o)
         /\ op[p].at # "witness" => o = NoOp
         /\ op[p].at = "witness" =>
              /\ o.at = "history" /\ o.evidence = op[p].evidence /\ o.time = op[p].time
              /\ o.expected = op[p].expected /\ o.observed = op[p].observed /\ o.event = x
  <2>1. CASE op[p].at = "witness"
    <3> DEFINE c == [op[p] EXCEPT !.at = "history", !.event = x]
    <3>1. /\ c \in Op /\ c.at = "history" /\ c.evidence = op[p].evidence /\ c.time = op[p].time
          /\ c.expected = op[p].expected /\ c.observed = op[p].observed /\ c.event = x
      BY <1>t DEF Op, OptionalId
    <3>2. Become(p, c)
      BY <1>2, <1>6, <2>1
    <3> QED
      BY <2>1, <3>1, <3>2
  <2>2. CASE op[p].at # "witness"
    BY <1>2, <2>2, NoOpType
  <2> QED
    BY <2>1, <2>2
<1>14. \A q \in Handler : op'[q] = IF q = p THEN o ELSE op[q]
  BY <1>13, <1>t DEF Become
<1>15. Typed'
  BY <1>2, <1>6, <1>11, <1>12, <1>13 DEF EInv, Typed, Become
<1>16. \A q \in Handler : Knows(q, op[q])'
  <2> TAKE q \in Handler
  <2>1. CASE q # p
    <3>1. Knows(q, op[q]) /\ op'[q] = op[q] /\ call'[q] = call[q]
      BY <1>1, <1>14, <1>t, <2>1 DEF EInv
    <3>2. op[q].at # "idle" /\ Witnessed(op[q]) => Witnessed(op[q])'
      BY <1>10, <3>1 DEF Knows, Witnessed
    <3> QED
      BY <1>11, <3>1, <3>2 DEF Knows
  <2>2. CASE q = p /\ op[p].at # "witness"
    BY <1>13, <1>14, <2>2, NoOpType DEF Knows
  <2>3. CASE q = p /\ op[p].at = "witness"
    <3>1. Knows(p, op[p]) /\ call[p] # Idle
      BY <1>1 DEF EInv, Idle
    <3>2. e = op[p].evidence
      BY <1>3, <2>3, <3>1 DEF Knows
    <3>3. says'[x] = [type |-> "HASH_VERIFIED", previous |-> o.expected, current |-> o.observed]
      BY <1>9, <1>13, <2>3 DEF Saying
    <3>4. Witnessed(o)'
      BY <1>7, <1>13, <2>3, <3>2, <3>3 DEF Witnessed
    <3>5. Knows(p, o)'
      BY <1>11, <1>13, <2>3, <3>1, <3>4 DEF Knows
    <3> QED
      BY <1>14, <2>3, <3>5
  <2> QED
    BY <2>1, <2>2, <2>3
<1>17. Fresh'
  BY <1>11, <1>13, <1>14, NoOpType DEF EInv, Fresh
<1>18. VerdictsAreWitnessed'
  <2>1. \A v \in verifications : v.evidence \in Evidence
    BY DEF EInv, Typed, Verification
  <2> QED
    BY <1>10, <1>11, <2>1 DEF EInv, VerdictsAreWitnessed
<1> QED
  BY <1>15, <1>16, <1>17, <1>18 DEF EInv

LEMMA EvidenceStutter == ASSUME EInv, IInv', UNCHANGED evidenceVars PROVE EInv'
<1>1. UNCHANGED <<ledger, call, clock, records, verifications, says, op>>
  BY DEF evidenceVars, vars, rows, managed, hashes
<1> QED
  BY <1>1 DEF EInv, Typed, Knows, Fresh, VerdictsAreWitnessed, Witnessed, Holds

LEMMA EvidenceInductive == EInv /\ [EvidenceNext]_evidenceVars => EInv'
<1>1. EInv /\ [EvidenceNext]_evidenceVars => IInv'
  BY ComposedStep, InductiveStep DEF EInv
<1> QED
  BY <1>1, BeginStep, ComputeStep, EndStep, EventReadStep, SaveRecordStep, SaveVerificationStep,
     MarkVerifiedStep, SaveEventStep, EvidenceStutter
     DEF EvidenceNext, Manage

(* A verdict can be traced to an event of the evidence's own ledger with the  *)
(* two digests that were compared, for any number of concurrent              *)
(* registrations, computations, verifications and operators.                *)
THEOREM WitnessTheorem == EvidenceSpec => []VerdictsAreWitnessed
<1>1. EInv => VerdictsAreWitnessed
  BY DEF EInv
<1> QED
  BY <1>1, InitEInv, EvidenceInductive, PTL DEF EvidenceSpec

(* The rest of the type: a status is one that the schema knows, and the      *)
(* clock stays within its bound.                                            *)
Bounded ==
  /\ status \in [Evidence -> {"NONE", "REGISTERED", "HASHING", "READY", "FAILED"}]
  /\ clock \in 0..MaxTime

LEMMA InitBounded == EvidenceInit => Bounded
BY EvidenceAssumption DEF EvidenceInit, Bounded

LEMMA BoundedStep == EInv /\ Bounded /\ [EvidenceNext]_evidenceVars => Bounded'
<1> SUFFICES ASSUME EInv, Bounded, [EvidenceNext]_evidenceVars PROVE Bounded'
  OBVIOUS
<1>u. ASSUME UNCHANGED <<status, clock>> PROVE Bounded'
  BY <1>u DEF Bounded
<1>1. CASE UNCHANGED evidenceVars
  BY <1>1, <1>u DEF evidenceVars, managed, hashes
<1>2. ASSUME NEW p \in Handler, StartHash(p) \/ ComputeHash(p) PROVE Bounded'
  <2>1. clock < MaxTime /\ clock' = clock + 1
    BY <1>2 DEF StartHash, ComputeHash
  <2>2. clock' \in 0..MaxTime
    BY <2>1, EvidenceAssumption DEF Bounded
  <2>3. status' \in [Evidence -> {"NONE", "REGISTERED", "HASHING", "READY", "FAILED"}]
    BY <1>2 DEF StartHash, ComputeHash, Bounded
  <2> QED
    BY <2>2, <2>3 DEF Bounded
<1>3. ASSUME NEW p \in Handler, Register(p) \/ MarkReady(p) PROVE Bounded'
  BY <1>3 DEF Register, MarkReady, hashes, Bounded
<1>4. ASSUME NEW p \in Handler, FailHash(p) PROVE Bounded'
  <2>1. op[p].evidence \in Evidence
    BY <1>4 DEF FailHash, At, EInv, Knows
  <2> QED
    BY <1>4, <2>1 DEF FailHash, hashes, Bounded
<1>5. ASSUME NEW p \in Handler,
             SaveRecord(p) \/ StartVerify(p) \/ Observe(p) \/ SaveVerification(p)
               \/ MarkVerified(p) \/ FailVerify(p) \/ Die(p)
      PROVE  Bounded'
  BY <1>5, <1>u DEF SaveRecord, StartVerify, Observe, SaveVerification, MarkVerified, FailVerify,
     Die, managed, hashes
<1>6. ASSUME NEW p \in Handler, CheckEvent(p) \/ ListEvents(p) \/ SaveEvent(p) \/ LeaveEvent(p)
      PROVE  Bounded'
  BY <1>6, <1>u DEF CheckEvent, ListEvents, SaveEvent, LeaveEvent, managed, hashes
<1> QED
  BY <1>1, <1>2, <1>3, <1>4, <1>5, <1>6 DEF EvidenceNext, Manage

(* What EvidenceManager writes, and what its running calls know, keep their  *)
(* types beside the ledger, for any number of concurrent calls.              *)
THEOREM EvidenceTypeCorrect == EvidenceSpec => []EvidenceTypeOK
<1>1. EInv /\ Bounded => EvidenceTypeOK
  BY DEF EInv, IInv, Typed, Bounded, EvidenceTypeOK
<1> QED
  BY <1>1, InitEInv, EvidenceInductive, InitBounded, BoundedStep, PTL DEF EvidenceSpec

-----------------------------------------------------------------------------
(* Custody snapshots: CustodySnapshot.                                      *)

IsRow(r) ==
  r = [content |-> r.content, revision |-> r.revision, previous |-> r.previous, hash |-> r.hash]

(* A history of rows.  Contents and hashes are of any kind. *)
IsHistory(log) ==
  /\ log \in Seq({log[i] : i \in DOMAIN log})
  /\ \A i \in 1..Len(log) : IsRow(log[i])

(* The later history still begins with the earlier one. *)
Continues(later, earlier) ==
  /\ Len(earlier) <= Len(later)
  /\ \A i \in 1..Len(earlier) : later[i] = earlier[i]

SnapTypes ==
  /\ DOMAIN history = Item /\ \A e \in Item : IsHistory(history[e])
  /\ DOMAIN captured = Item /\ \A e \in Item : IsHistory(captured[e])
  /\ damage \in 0..MaxDamage
  /\ todo \subseteq Scope /\ listed \in Scope \cup {Blank} /\ errors \subseteq Scope
  /\ \A s \in snapshot :
       s.status \in {"VERIFIED", "INVALID"} /\ \A e \in Item : IsHistory(s.events[e])

(* While a snapshot is made, every item of its scope is still to be listed, *)
(* was found missing or invalid, or has a history that was captured.        *)
Accounted ==
  \/ todo = {} /\ listed = Blank /\ captured = Nothing /\ errors = {}
  \/ \A e \in Scope : e \in todo \/ e \in errors \/ captured[e] # <<>>

(* A captured history verifies, or has not been verified again and will be   *)
(* with all its rows, because no damage is left to undo the damage done.     *)
Trustworthy(e) ==
  \/ VerifyChain(captured[e])
  \/ e = listed /\ damage = MaxDamage /\ Continues(history[e], captured[e])

SnapInv ==
  /\ SnapTypes /\ Accounted /\ VerifiedCoversScope
  /\ damage = 0 => \A e \in Item : VerifyChain(history[e])
  /\ listed # Blank => captured[listed] # <<>>
  /\ \A e \in Scope : e \notin errors => Trustworthy(e)

-----------------------------------------------------------------------------
(* Facts about histories.                                                   *)

LEMMA HistoryOf ==
  ASSUME NEW S, NEW log \in Seq(S), \A i \in 1..Len(log) : IsRow(log[i])
  PROVE  IsHistory(log)
<1>1. log \in [1..Len(log) -> {log[i] : i \in DOMAIN log}] /\ Len(log) \in Nat
  OBVIOUS
<1>2. log \in Seq({log[i] : i \in DOMAIN log})
  BY <1>1
<1> QED
  BY <1>2 DEF IsHistory

LEMMA EmptyHistory == IsHistory(<<>>) /\ VerifyChain(<<>>)
BY DEF IsHistory, VerifyChain

LEMMA AppendedHistory ==
  ASSUME NEW log, IsHistory(log), NEW r, IsRow(r)
  PROVE  /\ IsHistory(Append(log, r)) /\ Len(Append(log, r)) = Len(log) + 1
         /\ Append(log, r)[Len(log) + 1] = r
         /\ \A i \in 1..Len(log) : Append(log, r)[i] = log[i]
<1> DEFINE S == {log[i] : i \in DOMAIN log} \cup {r}
<1>1. log \in Seq(S) /\ r \in S
  BY DEF IsHistory
<1> HIDE DEF S
<1>2. /\ Append(log, r) \in Seq(S) /\ Len(Append(log, r)) = Len(log) + 1
      /\ Append(log, r)[Len(log) + 1] = r
      /\ \A i \in 1..Len(log) : Append(log, r)[i] = log[i]
      /\ Len(log) \in Nat
  BY <1>1
<1>3. \A i \in 1..Len(Append(log, r)) : IsRow(Append(log, r)[i])
  BY <1>2 DEF IsHistory
<1> QED
  BY <1>2, <1>3, HistoryOf

LEMMA ReplacedHistory ==
  ASSUME NEW log, IsHistory(log), NEW i \in 1..Len(log), NEW r, IsRow(r)
  PROVE  IsHistory(ReplaceAt(log, i, r))
<1> DEFINE S == {log[j] : j \in DOMAIN log} \cup {r}
<1>1. log \in Seq(S) /\ r \in S
  BY DEF IsHistory
<1> HIDE DEF S
<1>2. /\ ReplaceAt(log, i, r) \in Seq(S) /\ Len(ReplaceAt(log, i, r)) = Len(log)
      /\ \A j \in 1..Len(log) : ReplaceAt(log, i, r)[j] = IF j = i THEN r ELSE log[j]
  BY <1>1 DEF ReplaceAt
<1>3. \A j \in 1..Len(log) : IsRow(ReplaceAt(log, i, r)[j])
  BY <1>2 DEF IsHistory
<1> QED
  BY <1>2, <1>3, HistoryOf

LEMMA ShortenedHistory ==
  ASSUME NEW log, IsHistory(log), NEW i \in 1..Len(log)
  PROVE  IsHistory(RemoveAt(log, i))
<1> DEFINE S == {log[j] : j \in DOMAIN log}
           a == SubSeq(log, 1, i - 1)
           b == SubSeq(log, i + 1, Len(log))
<1>1. log \in Seq(S) /\ Len(log) \in Nat /\ \A x \in S : IsRow(x)
  BY DEF IsHistory
<1> HIDE DEF S
<1>2. a \in Seq(S) /\ b \in Seq(S)
  BY <1>1
<1>3. RemoveAt(log, i) \in Seq(S)
  BY <1>2 DEF RemoveAt
<1> QED
  BY <1>1, <1>3, HistoryOf

LEMMA SameRow ==
  ASSUME NEW a, NEW b, IsRow(a), IsRow(b), a.content = b.content, a.revision = b.revision,
         a.previous = b.previous, a.hash = b.hash
  PROVE  a = b
<1>1. a = [content |-> a.content, revision |-> a.revision, previous |-> a.previous, hash |-> a.hash]
  BY Zenon DEF IsRow
<1>2. b = [content |-> a.content, revision |-> a.revision, previous |-> a.previous, hash |-> a.hash]
  BY Zenon DEF IsRow
<1> QED
  BY <1>1, <1>2

LEMMA RowIsRow == \A c, n, h : IsRow(Row(c, n, h))
BY DEF IsRow, Row

LEMMA DamagedHistory ==
  ASSUME NEW log, IsHistory(log), NEW i \in 1..Len(log), NEW new \in Damaged(log, i)
  PROVE  IsHistory(new)
<1>1. ASSUME NEW c PROVE IsRow([log[i] EXCEPT !.content = c])
  <2>1. IsRow(log[i])
    BY DEF IsHistory
  <2>2. [log[i] EXCEPT !.content = c] =
          [content |-> c, revision |-> log[i].revision, previous |-> log[i].previous,
           hash |-> log[i].hash]
    BY <2>1 DEF IsRow
  <2> QED
    BY <2>2 DEF IsRow
<1>2. \/ \E c : new = ReplaceAt(log, i, [log[i] EXCEPT !.content = c])
      \/ \E c : new = ReplaceAt(log, i, Row(c, log[i].revision, log[i].previous))
      \/ new = RemoveAt(log, i)
  BY DEF Damaged
<1> QED
  BY <1>1, <1>2, RowIsRow, ReplacedHistory, ShortenedHistory

(* A history that verifies goes on to when add_event appends to it. *)
LEMMA AppendVerifies ==
  ASSUME NEW log, IsHistory(log), NEW c
  PROVE  LET new == Append(log, Row(c, IF log = <<>> THEN 1 ELSE Last(log).revision + 1,
                                    HeadHash(log)))
         IN  /\ IsHistory(new) /\ Continues(new, log)
             /\ VerifyChain(log) => VerifyChain(new)
<1> DEFINE r == Row(c, IF log = <<>> THEN 1 ELSE Last(log).revision + 1, HeadHash(log))
           new == Append(log, r)
<1>1. /\ IsHistory(new) /\ Len(new) = Len(log) + 1 /\ new[Len(log) + 1] = r
      /\ \A i \in 1..Len(log) : new[i] = log[i]
  BY RowIsRow, AppendedHistory
<1>2. Len(log) \in Nat /\ (Len(log) = 0 <=> log = <<>>)
  BY DEF IsHistory
<1>3. Continues(new, log)
  BY <1>1, <1>2 DEF Continues
<1>4. ASSUME VerifyChain(log) PROVE VerifyChain(new)
  <2>1. r.hash = Hash(r)
    BY DEF Row, Hash
  <2>2. r.revision = Len(log) + 1
    BY <1>2, <1>4 DEF Row, Last, VerifyChain
  <2>3. r.previous = IF Len(log) = 0 THEN Blank ELSE log[Len(log)].hash
    BY <1>2 DEF Row, HeadHash, Last
  <2> HIDE DEF r, new
  <2>4. ASSUME NEW i \in 1..Len(new)
        PROVE  /\ new[i].revision = i
               /\ new[i].previous = IF i = 1 THEN Blank ELSE new[i - 1].hash
               /\ new[i].hash = Hash(new[i])
    <3>1. CASE i = Len(log) + 1
      BY <1>1, <1>2, <2>1, <2>2, <2>3, <3>1
    <3>2. CASE i # Len(log) + 1
      <4>1. i \in 1..Len(log) /\ (i # 1 => i - 1 \in 1..Len(log))
        BY <1>1, <1>2, <3>2
      <4> QED
        BY <1>1, <1>4, <4>1 DEF VerifyChain
    <3> QED
      BY <3>1, <3>2
  <2> QED
    BY <2>4 DEF VerifyChain
<1> QED
  BY <1>1, <1>3, <1>4

(* What a history begins with verifies if the history does. *)
LEMMA PrefixVerifies ==
  ASSUME NEW log, NEW later, IsHistory(log), Continues(later, log), IsHistory(later),
         VerifyChain(later)
  PROVE  VerifyChain(log)
<1>1. Len(log) \in Nat /\ Len(later) \in Nat
  BY DEF IsHistory
<1>2. ASSUME NEW i \in 1..Len(log)
      PROVE  /\ log[i].revision = i
             /\ log[i].previous = IF i = 1 THEN Blank ELSE log[i - 1].hash
             /\ log[i].hash = Hash(log[i])
  <2>1. i \in 1..Len(later) /\ later[i] = log[i] /\ (i # 1 => later[i - 1] = log[i - 1])
    BY <1>1 DEF Continues
  <2> QED
    BY <2>1 DEF VerifyChain
<1> QED
  BY <1>2 DEF VerifyChain

LEMMA BeginsWith ==
  ASSUME NEW log, NEW later, IsHistory(log), IsHistory(later), Continues(later, log)
  PROVE  SubSeq(later, 1, Len(log)) = log
<1> DEFINE S == {log[i] : i \in DOMAIN log}
           T == {later[i] : i \in DOMAIN later}
           start == SubSeq(later, 1, Len(log))
<1>1. log \in Seq(S) /\ later \in Seq(T)
  BY DEF IsHistory
<1> HIDE DEF S, T
<1>2. Len(log) \in Nat /\ Len(later) \in Nat /\ Len(log) <= Len(later)
  BY <1>1 DEF Continues
<1>3. /\ start \in Seq(T) /\ Len(start) = Len(log)
      /\ \A i \in 1..Len(log) : start[i] = later[i]
  BY <1>1, <1>2
<1> HIDE DEF start
<1>4. \A i \in 1..Len(log) : start[i] = log[i]
  BY <1>3 DEF Continues
<1>5. start = [i \in 1..Len(log) |-> start[i]] /\ log = [i \in 1..Len(log) |-> log[i]]
  BY <1>1, <1>3
<1>6. start = log
  BY <1>4, <1>5
<1> QED
  BY <1>6 DEF start

(* Every set of natural numbers that is not empty has a least element: with it *)
(* a proof can look at the first place where something goes wrong.           *)
LEMMA LeastNumber ==
  ASSUME NEW T, T \subseteq Nat, T # {}
  PROVE  \E n \in T : \A m \in T : n <= m
<1> DEFINE Below == {p \in Nat \X Nat : p[1] < p[2]}
<1>1. IsWellFoundedOn(Below, Nat)
  BY NatLessThanWellFounded DEF OpToRel
<1>2. PICK n \in T : \A m \in T : ~ (<<m, n>> \in Below)
  BY <1>1, WFMin
<1>3. \A m \in T : ~ (m < n)
  BY <1>2
<1> QED
  BY <1>3

(* Of two histories that verify, one that has the head hash of the other in   *)
(* its place begins with the other: the head covers all that came before.    *)
LEMMA HeadPinsHistory ==
  ASSUME NEW log, NEW later, IsHistory(log), IsHistory(later),
         VerifyChain(log), VerifyChain(later), log # <<>>, Len(log) <= Len(later),
         later[Len(log)].hash = HeadHash(log)
  PROVE  Continues(later, log)
<1> DEFINE n == Len(log)
           T == {k \in 0..(n - 1) : later[n - k] # log[n - k]}
<1>1. n \in Nat \ {0} /\ Len(later) \in Nat /\ HeadHash(log) = log[n].hash
  <2>1. n \in Nat /\ Len(later) \in Nat
    BY DEF IsHistory
  <2>2. n # 0
    BY DEF IsHistory
  <2> QED
    BY <2>1, <2>2 DEF HeadHash, Last
<1> HIDE DEF n
<1>2. ASSUME NEW i \in 1..n
      PROVE  /\ IsRow(log[i]) /\ IsRow(later[i])
             /\ log[i].hash = <<log[i].content, log[i].revision, log[i].previous>>
             /\ later[i].hash = <<later[i].content, later[i].revision, later[i].previous>>
             /\ i # 1 => log[i].previous = log[i - 1].hash /\ later[i].previous = later[i - 1].hash
  <2>1. i \in 1..Len(log) /\ i \in 1..Len(later)
    BY <1>1 DEF n
  <2>2. IsRow(log[i]) /\ IsRow(later[i])
    BY <2>1 DEF IsHistory
  <2> QED
    BY <2>1, <2>2 DEF VerifyChain, Hash
<1>3. ASSUME T # {} PROVE FALSE
  <2>1. PICK k \in T : \A j \in T : k <= j
    <3>1. T \subseteq Nat
      BY <1>1
    <3> QED
      BY <1>3, <3>1, LeastNumber
  <2> DEFINE i == n - k
  <2>2. i \in 1..n /\ later[i] # log[i]
    BY <1>1, <2>1
  <2>3. later[i].hash = log[i].hash
    <3>1. CASE k = 0
      <4>1. i = n
        BY <1>1, <3>1
      <4> QED
        BY <1>1, <4>1 DEF n
    <3>2. CASE k # 0
      <4>1. k - 1 \in 0..(n - 1) /\ k - 1 \notin T /\ i + 1 \in 1..n /\ n - (k - 1) = i + 1
        BY <1>1, <2>1, <3>2
      <4>2. later[i + 1] = log[i + 1]
        BY <4>1
      <4>3. later[i + 1].previous = later[i].hash /\ log[i + 1].previous = log[i].hash
        <5>1. i + 1 # 1 /\ (i + 1) - 1 = i
          BY <1>1, <2>2
        <5> HIDE DEF i
        <5> QED
          BY <1>2, <4>1, <5>1
      <4> QED
        BY <4>2, <4>3
    <3> QED
      BY <3>1, <3>2
  <2> HIDE DEF i
  <2>4. /\ later[i].content = log[i].content /\ later[i].revision = log[i].revision
        /\ later[i].previous = log[i].previous
    BY <1>2, <2>2, <2>3
  <2>5. later[i] = log[i]
    BY <1>2, <2>2, <2>3, <2>4, SameRow
  <2> QED
    BY <2>2, <2>5
<1>4. ASSUME NEW i \in 1..n PROVE later[i] = log[i]
  <2>1. n - i \in 0..(n - 1) /\ n - (n - i) = i
    BY <1>1
  <2>2. \A k \in 0..(n - 1) : later[n - k] = log[n - k]
    BY <1>3
  <2>3. later[n - (n - i)] = log[n - (n - i)]
    BY <2>1, <2>2
  <2> QED
    BY <2>1, <2>3
<1> QED
  BY <1>1, <1>4 DEF Continues, n

-----------------------------------------------------------------------------
(* The steps.                                                               *)

LEMMA InitSnapInv == SnapInit => SnapInv
<1> SUFFICES ASSUME SnapInit PROVE SnapInv
  OBVIOUS
<1>1. \A e \in Item : history[e] = <<>> /\ captured[e] = <<>>
  BY DEF SnapInit, Nothing
<1>2. SnapTypes
  BY <1>1, EmptyHistory, SnapshotAssumption DEF SnapInit, SnapTypes, Nothing
<1>3. Accounted /\ VerifiedCoversScope
  BY DEF SnapInit, Accounted, VerifiedCoversScope
<1>4. \A e \in Item : VerifyChain(history[e]) /\ Trustworthy(e)
  BY <1>1, EmptyHistory DEF Trustworthy
<1> QED
  BY <1>2, <1>3, <1>4, SnapshotAssumption DEF SnapInv, SnapInit

LEMMA AddEventStep ==
  ASSUME SnapInv, NEW e \in Item, NEW c \in Content, AddEvent(e, c)
  PROVE  SnapInv'
<1> DEFINE log == history[e]
           new == Append(log, Row(c, IF log = <<>> THEN 1 ELSE Last(log).revision + 1, HeadHash(log)))
<1>1. IsHistory(log) /\ DOMAIN history = Item
  BY DEF SnapInv, SnapTypes
<1>2. IsHistory(new) /\ Continues(new, log) /\ (VerifyChain(log) => VerifyChain(new))
  BY <1>1, AppendVerifies
<1>3. history' = [history EXCEPT ![e] = new] /\ UNCHANGED <<damage, capture, snapshot>>
  BY DEF AddEvent
<1> HIDE DEF new
<1>4. \A d \in Item : history'[d] = IF d = e THEN new ELSE history[d]
  BY <1>1, <1>3
<1>5. SnapTypes'
  BY <1>2, <1>3, <1>4 DEF SnapInv, SnapTypes, capture
<1>6. Accounted' /\ VerifiedCoversScope'
  BY <1>3 DEF SnapInv, Accounted, VerifiedCoversScope, capture
<1>7. \A d \in Item : damage' = 0 => VerifyChain(history'[d])
  BY <1>2, <1>3, <1>4 DEF SnapInv
<1>8. ASSUME NEW d \in Scope, d \notin errors' PROVE Trustworthy(d)'
  <2>1. Trustworthy(d) /\ d \in Item /\ UNCHANGED <<captured, listed, damage>>
    BY <1>3, <1>8, SnapshotAssumption DEF SnapInv, capture
  <2>2. Continues(history[d], captured[d]) => Continues(history'[d], captured[d])
    <3>1. IsHistory(history[d]) /\ IsHistory(captured[d]) /\ IsHistory(history'[d])
      BY <1>2, <1>4, <2>1 DEF SnapInv, SnapTypes
    <3>2. Len(history[d]) \in Nat /\ Len(captured[d]) \in Nat /\ Len(history'[d]) \in Nat
      BY <3>1 DEF IsHistory
    <3> QED
      BY <1>2, <1>4, <2>1, <3>2 DEF Continues
  <2> QED
    BY <2>1, <2>2 DEF Trustworthy
<1>9. listed' # Blank => captured'[listed'] # <<>>
  BY <1>3 DEF SnapInv, capture
<1> QED
  BY <1>5, <1>6, <1>7, <1>8, <1>9 DEF SnapInv

(* No history that is being listed has been damaged yet when the last damage *)
(* is done: what was captured before verifies.                              *)
LEMMA DamageStep ==
  ASSUME SnapInv, NEW e \in Item, Damage(e)
  PROVE  SnapInv'
<1>. PICK i \in 1..Len(history[e]) :
       \E log \in Damaged(history[e], i) : history' = [history EXCEPT ![e] = log]
  BY DEF Damage
<1>1. PICK new \in Damaged(history[e], i) : history' = [history EXCEPT ![e] = new]
  OBVIOUS
<1>2. damage < MaxDamage /\ damage' = damage + 1 /\ UNCHANGED <<capture, snapshot>>
  BY DEF Damage
<1>3. IsHistory(new) /\ DOMAIN history = Item
  BY DamagedHistory DEF SnapInv, SnapTypes
<1>4. \A d \in Item : history'[d] = IF d = e THEN new ELSE history[d]
  BY <1>1, <1>3
<1>5. damage \in 0..MaxDamage
  BY DEF SnapInv, SnapTypes
<1>6. SnapTypes'
  BY <1>1, <1>2, <1>3, <1>4, <1>5, SnapshotAssumption DEF SnapInv, SnapTypes, capture
<1>7. Accounted' /\ VerifiedCoversScope'
  BY <1>2 DEF SnapInv, Accounted, VerifiedCoversScope, capture
<1>8. ASSUME NEW d \in Scope, d \notin errors' PROVE Trustworthy(d)'
  BY <1>2, <1>5, <1>8, SnapshotAssumption DEF SnapInv, Trustworthy, capture
<1>9. listed' # Blank => captured'[listed'] # <<>>
  BY <1>2 DEF SnapInv, capture
<1>10. damage' # 0
  BY <1>2, <1>5, SnapshotAssumption
<1> QED
  BY <1>6, <1>7, <1>8, <1>9, <1>10 DEF SnapInv

LEMMA CaptureStep ==
  ASSUME SnapInv, Capture
  PROVE  SnapInv'
<1>1. UNCHANGED <<history, damage, listed, captured, errors, snapshot>> /\ todo' = Scope
  BY DEF Capture
<1>2. SnapTypes'
  BY <1>1 DEF SnapInv, SnapTypes
<1>3. Accounted' /\ VerifiedCoversScope'
  BY <1>1 DEF SnapInv, Accounted, VerifiedCoversScope
<1>4. \A e \in Scope : Trustworthy(e) => Trustworthy(e)'
  BY <1>1 DEF Trustworthy
<1> QED
  BY <1>1, <1>2, <1>3, <1>4 DEF SnapInv

LEMMA ListItemStep ==
  ASSUME SnapInv, MaxDamage <= 1, NEW e \in Item, ListItem(e)
  PROVE  SnapInv'
<1>1. /\ e \in todo /\ listed = Blank /\ e \in Scope /\ e # Blank /\ todo' = todo \ {e}
      /\ UNCHANGED <<history, damage, snapshot>>
  BY SnapshotAssumption DEF ListItem, SnapInv, SnapTypes
<1>2. VerifiedCoversScope'
  BY <1>1 DEF SnapInv, VerifiedCoversScope
<1>3. CASE history[e] = <<>>
  <2>1. errors' = errors \cup {e} /\ UNCHANGED <<listed, captured>>
    BY <1>3 DEF ListItem, MissingIsError
  <2>2. SnapTypes'
    BY <1>1, <2>1 DEF SnapInv, SnapTypes
  <2>3. Accounted'
    BY <1>1, <2>1 DEF SnapInv, Accounted
  <2>4. \A d \in Scope : Trustworthy(d) => Trustworthy(d)'
    BY <1>1, <2>1 DEF Trustworthy
  <2> QED
    BY <1>1, <1>2, <2>1, <2>2, <2>3, <2>4 DEF SnapInv
<1>4. CASE history[e] # <<>>
  <2>1. listed' = e /\ captured' = [captured EXCEPT ![e] = history[e]] /\ UNCHANGED errors
    BY <1>4 DEF ListItem
  <2>2. \A d \in Item : captured'[d] = IF d = e THEN history[e] ELSE captured[d]
    BY <2>1 DEF SnapInv, SnapTypes
  <2>3. SnapTypes'
    BY <1>1, <2>1, <2>2 DEF SnapInv, SnapTypes
  <2>4. Accounted'
    BY <1>1, <1>4, <2>1, <2>2, SnapshotAssumption DEF SnapInv, Accounted
  <2>5. VerifyChain(history[e]) \/ damage = MaxDamage
    BY SnapshotAssumption DEF SnapInv, SnapTypes
  <2>6. Continues(history[e], history[e])
    BY DEF Continues, SnapInv, SnapTypes, IsHistory
  <2>7. ASSUME NEW d \in Scope, d \notin errors' PROVE Trustworthy(d)'
    <3>1. CASE d = e
      BY <1>1, <2>1, <2>2, <2>5, <2>6, <3>1 DEF Trustworthy
    <3>2. CASE d # e
      <4>1. VerifyChain(captured[d]) /\ captured'[d] = captured[d]
        BY <1>1, <2>1, <2>2, <2>7, <3>2, SnapshotAssumption DEF SnapInv, Trustworthy
      <4> QED
        BY <4>1 DEF Trustworthy
    <3> QED
      BY <3>1, <3>2
  <2> QED
    BY <1>1, <1>2, <1>4, <2>1, <2>2, <2>3, <2>4, <2>7 DEF SnapInv
<1> QED
  BY <1>3, <1>4

(* If the rows verify now, those that were captured do: they are their beginning. *)
LEMMA VerifyItemStep ==
  ASSUME SnapInv, VerifyItem
  PROVE  SnapInv'
<1>1. /\ listed \in Scope /\ listed' = Blank /\ UNCHANGED <<history, damage, todo, captured, snapshot>>
      /\ errors' = IF VerifyChain(history[listed]) THEN errors ELSE errors \cup {listed}
  BY DEF VerifyItem, SnapInv, SnapTypes
<1>2. SnapTypes'
  BY <1>1 DEF SnapInv, SnapTypes
<1>3. VerifiedCoversScope'
  BY <1>1 DEF SnapInv, VerifiedCoversScope
<1>4. Accounted'
  BY <1>1, SnapshotAssumption DEF SnapInv, Accounted
<1>5. ASSUME NEW d \in Scope, d \notin errors' PROVE Trustworthy(d)'
  <2>1. d \notin errors /\ Trustworthy(d) /\ d \in Item
    BY <1>1, <1>5, SnapshotAssumption DEF SnapInv
  <2>2. VerifyChain(captured[d])
    <3>1. CASE d = listed
      <4>1. VerifyChain(history[d])
        BY <1>1, <1>5, <3>1
      <4> QED
        BY <2>1, <4>1, PrefixVerifies DEF Trustworthy, SnapInv, SnapTypes
    <3>2. CASE d # listed
      BY <2>1, <3>2 DEF Trustworthy
    <3> QED
      BY <3>1, <3>2
  <2> QED
    BY <1>1, <2>2 DEF Trustworthy
<1> QED
  BY <1>1, <1>2, <1>3, <1>4, <1>5 DEF SnapInv

LEMMA SaveSnapshotStep ==
  ASSUME SnapInv, SaveSnapshot
  PROVE  SnapInv'
<1>1. /\ todo = {} /\ listed = Blank /\ (captured # Nothing \/ errors # {})
      /\ snapshot' = { [status |-> IF errors = {} THEN "VERIFIED" ELSE "INVALID", events |-> captured] }
      /\ captured' = Nothing /\ errors' = {} /\ UNCHANGED <<history, damage, todo, listed>>
  BY DEF SaveSnapshot
<1>2. \A e \in Item : captured'[e] = <<>>
  BY <1>1 DEF Nothing
<1>3. SnapTypes'
  BY <1>1, <1>2, EmptyHistory DEF SnapInv, SnapTypes, Nothing
<1>4. Accounted'
  BY <1>1 DEF Accounted
<1>5. VerifiedCoversScope'
  <2>1. ASSUME errors = {}, NEW e \in Scope PROVE captured[e] # <<>> /\ VerifyChain(captured[e])
    BY <1>1, <2>1, SnapshotAssumption DEF SnapInv, Accounted, Trustworthy
  <2> QED
    BY <1>1, <2>1 DEF VerifiedCoversScope
<1>6. \A e \in Scope : Trustworthy(e)'
  BY <1>2, EmptyHistory, SnapshotAssumption DEF Trustworthy
<1> QED
  BY <1>1, <1>3, <1>4, <1>5, <1>6 DEF SnapInv

LEMMA SnapNextStep ==
  ASSUME SnapInv, MaxDamage <= 1, [SnapNext]_snapVars
  PROVE  SnapInv'
<1>1. CASE UNCHANGED snapVars
  BY <1>1 DEF snapVars, capture, SnapInv, SnapTypes, Accounted, VerifiedCoversScope, Trustworthy
<1>2. CASE SnapNext
  BY <1>2, AddEventStep, DamageStep, CaptureStep, ListItemStep, VerifyItemStep, SaveSnapshotStep
  DEF SnapNext
<1> QED
  BY <1>1, <1>2

(* Whatever is appended, and if one row at most is damaged, while a snapshot  *)
(* is made, the invariant holds.                                            *)
THEOREM SnapInvariance == ASSUME MaxDamage <= 1 PROVE SnapSpec => []SnapInv
<1>1. SnapInv /\ [SnapNext]_snapVars => SnapInv'
  BY SnapNextStep
<1> QED
  BY <1>1, InitSnapInv, PTL DEF SnapSpec

(* A VERIFIED snapshot captured a history that verifies of every item of its  *)
(* scope: of any number of items and events, and although create_custody_    *)
(* snapshot captures one listing and verifies another.                      *)
THEOREM CoversTheorem == ASSUME MaxDamage <= 1 PROVE SnapSpec => []VerifiedCoversScope
<1>1. SnapInv => VerifiedCoversScope
  BY DEF SnapInv
<1> QED
  BY <1>1, SnapInvariance, PTL

(* Where the head hash that a VERIFIED snapshot recorded is still in its      *)
(* place in a chain that verifies, all events up to it are those captured,    *)
(* however long the chain is.                                               *)
THEOREM PinsTheorem == ASSUME MaxDamage <= 1 PROVE SnapSpec => []SnapshotPinsHistory
<1>1. ASSUME SnapInv PROVE SnapshotPinsHistory
  <2> SUFFICES ASSUME NEW s \in snapshot, s.status = "VERIFIED", NEW e \in Scope,
                      Len(history[e]) >= Len(s.events[e]), VerifyChain(history[e]),
                      history[e][Len(s.events[e])].hash = HeadHash(s.events[e])
               PROVE  SubSeq(history[e], 1, Len(s.events[e])) = s.events[e]
    BY DEF SnapshotPinsHistory
  <2>1. IsHistory(s.events[e]) /\ IsHistory(history[e])
    BY <1>1, SnapshotAssumption DEF SnapInv, SnapTypes
  <2>2. s.events[e] # <<>> /\ VerifyChain(s.events[e])
    BY <1>1 DEF SnapInv, VerifiedCoversScope
  <2>3. Len(s.events[e]) \in Nat /\ Len(history[e]) \in Nat
    BY <2>1 DEF IsHistory
  <2>4. Continues(history[e], s.events[e])
    BY <2>1, <2>2, <2>3, HeadPinsHistory
  <2> QED
    BY <2>1, <2>3, <2>4, BeginsWith
<1> QED
  BY <1>1, SnapInvariance, PTL
=============================================================================
