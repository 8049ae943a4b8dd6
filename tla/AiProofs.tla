------------------------------ MODULE AiProofs ------------------------------
(***************************************************************************)
(* Proofs about AiReview, AnalysisSnapshot and AiRequest: for any number of  *)
(* calls, recommendations and terms, and for any number of snapshots,        *)
(* requests and executions, along refreshes of any length.                  *)
(***************************************************************************)
EXTENDS AiReview, AiRequest, TLAPS

-----------------------------------------------------------------------------
(* Reviews and promotions: AiReview.  The invariant. *)

Kept == {"promote", "compare", "add", "insert", "record"}

(* What a call remembers: the review it promotes, the version it has read    *)
(* and, before the promotion is recorded, a version that holds the term.    *)
Sound(m) ==
  /\ m.at = "review" => m.target \in Recommendation
  /\ m.at \in Kept =>
       /\ m.target \in Recommendation
       /\ Supports(m.target, m.revision, EffectiveAt(m.target, m.revision))
  /\ m.at \in {"compare", "add", "insert"} => m.seen \in 1..Len(versions)
  /\ m.at \in {"insert", "edit", "record"} => m.base \in 1..Len(versions)
  /\ m.at = "record" => EffectiveAt(m.target, m.revision) \in Terms(versions[m.base])

Memories == {call[c] : c \in Caller}

(* A rejected recommendation stays rejected. *)
RejectionIsFinal ==
  \A r \in Recommendation : \A n \in 1..Len(events[r]) :
    (\E i \in 1..n : events[r][i].action = "REJECT") => events[r][n].status = "REJECTED"

Rests(K) == \A k \in K : k.for # None => k.for \in Recommendation /\ Supports(k.for, k.revision, k.term)
Once(K) == \A j, k \in K : j.term = k.term => j = k
Apart(J, K) == \/ \E k \in K : K = J \cup {k}
               \/ \E k \in J : K = J \ {k}
               \/ K = J

VersionsSound == \A i \in 1..Len(versions) : Rests(versions[i]) /\ Once(versions[i])
PromotionsSound == \A p \in promotions : Supports(p.recommendation, p.revision, p.term)

IInv ==
  /\ TypeOK
  /\ \A m \in Memories : Sound(m)
  /\ RejectionIsFinal
  /\ VersionsSound
  /\ OneChangeApart
  /\ PromotionsSound
  /\ PromotionInItsVersion

-----------------------------------------------------------------------------
(* Operators *)

LEMMA EffectiveIsTerm ==
  ASSUME TypeOK, NEW r \in Recommendation, NEW n \in 0..Len(events[r])
  PROVE  EffectiveAt(r, n) \in Term
<1>1. n = 0 \/ events[r][n] \in Event
  BY DEF TypeOK
<1>2. n = 0 \/ events[r][n].value \in Term \cup {None}
  BY <1>1 DEF Event
<1>3. Proposed[r] \in Term
  BY AiAssumption
<1> QED
  BY <1>2, <1>3 DEF EffectiveAt

LEMMA KeywordType ==
  ASSUME NEW t \in Term, NEW n \in Nat, NEW r \in Recommendation \cup {None}, NEW v \in Nat
  PROVE  [term |-> t, since |-> n + 1, for |-> r, revision |-> v] \in Keyword
BY DEF Keyword

(* A call that goes on with the version it has read or saved. *)
LEMMA MovedType ==
  ASSUME NEW m \in Call, NEW a \in {"compare", "add", "insert", "record"}, NEW n \in Nat
  PROVE  /\ [m EXCEPT !.at = a] \in Call
         /\ [m EXCEPT !.at = a, !.base = n] \in Call
         /\ [m EXCEPT !.at = a, !.seen = n] \in Call
<1>1. ASSUME NEW b, NEW t \in Recommendation \cup {None}, NEW v \in Nat, NEW s \in Nat, NEW x \in Nat
      PROVE  LET w == [at |-> b, target |-> t, revision |-> v, seen |-> s, base |-> x]
             IN  /\ [w EXCEPT !.at = a] \in Call
                 /\ [w EXCEPT !.at = a, !.base = n] \in Call
                 /\ [w EXCEPT !.at = a, !.seen = n] \in Call
  BY DEF Call
<1>2. /\ m.target \in Recommendation \cup {None}
      /\ m.revision \in Nat /\ m.seen \in Nat /\ m.base \in Nat
  BY DEF Call
<1>3. m = [at |-> m.at, target |-> m.target, revision |-> m.revision, seen |-> m.seen, base |-> m.base]
  BY DEF Call
<1> DEFINE w == [at |-> m.at, target |-> m.target, revision |-> m.revision, seen |-> m.seen, base |-> m.base]
<1>4. /\ [w EXCEPT !.at = a] \in Call
      /\ [w EXCEPT !.at = a, !.base = n] \in Call
      /\ [w EXCEPT !.at = a, !.seen = n] \in Call
  BY <1>1, <1>2
<1>5. m = w
  BY <1>3
<1> HIDE DEF w
<1> QED
  BY <1>4, <1>5

(* A call that has read the reviews of a recommendation. *)
LEMMA ReadType ==
  ASSUME TypeOK, NEW r \in Recommendation, NEW a \in {"review", "promote"}
  PROVE  [Idle EXCEPT !.at = a, !.target = r, !.revision = Len(events[r])] \in Call
<1>1. Len(events[r]) \in Nat
  BY DEF TypeOK
<1> QED
  BY <1>1 DEF Idle, Call

LEMMA IdleType == Idle \in Call
BY DEF Idle, Call

LEMMA IdleSound == Sound(Idle) /\ Sound(Idle)'
BY DEF Idle, Sound, Kept

(* A review that is the latest and lets the recommendation be promoted.      *)
LEMMA LatestSupports ==
  ASSUME TypeOK, RejectionIsFinal, NEW r \in Recommendation,
         StatusAt(r, Len(events[r])) \in {"ACCEPTED", "CORRECTED"}
  PROVE  Supports(r, Len(events[r]), EffectiveAt(r, Len(events[r])))
<1> DEFINE n == Len(events[r])
<1>1. n \in Nat /\ n # 0
  BY DEF StatusAt, TypeOK
<1>2. n \in 1..n /\ events[r][n].status \in {"ACCEPTED", "CORRECTED"}
  BY <1>1 DEF StatusAt
<1>3. \A i \in 1..n : events[r][i].action # "REJECT"
  BY <1>2 DEF RejectionIsFinal
<1> QED
  BY <1>2, <1>3 DEF Supports

-----------------------------------------------------------------------------
(* The initial state *)

LEMMA InitInv == Init => IInv
<1> SUFFICES ASSUME Init PROVE IInv
  OBVIOUS
<1>1. versions = <<{}>> /\ Len(versions) = 1 /\ versions[1] = {}
  BY DEF Init
<1>2. TypeOK
  <2>1. versions \in Seq(SUBSET Keyword)
    BY <1>1
  <2>2. events \in [Recommendation -> Seq(Event)]
    BY DEF Init
  <2> QED
    BY <1>1, <2>1, <2>2, IdleType DEF Init, TypeOK
<1>3. \A m \in Memories : Sound(m)
  BY IdleSound DEF Memories, Init
<1>4. RejectionIsFinal
  BY DEF RejectionIsFinal, Init
<1>5. VersionsSound
  BY <1>1 DEF VersionsSound, Rests, Once
<1>6. OneChangeApart
  BY <1>1 DEF OneChangeApart
<1>7. PromotionInItsVersion /\ PromotionsSound
  BY DEF PromotionInItsVersion, PromotionsSound, Init
<1> QED
  BY <1>2, <1>3, <1>4, <1>5, <1>6, <1>7 DEF IInv

-----------------------------------------------------------------------------
(* Steps *)

(* The other calls remember what they did. *)
LEMMA OtherMemories ==
  ASSUME TypeOK, NEW c \in Caller, NEW m \in Call, Go(c, m)
  PROVE  /\ call' \in [Caller -> Call]
         /\ \A x \in Memories' : x \in Memories \/ x = m
BY DEF Go, TypeOK, Memories

(* What only depends on the reviews and the versions. *)
LEMMA SameTables ==
  ASSUME UNCHANGED <<events, versions>>
  PROVE  /\ RejectionIsFinal => RejectionIsFinal'
         /\ OneChangeApart => OneChangeApart'
         /\ VersionsSound => VersionsSound'
<1>1. RejectionIsFinal => RejectionIsFinal'
  BY DEF RejectionIsFinal
<1>2. OneChangeApart => OneChangeApart'
  BY DEF OneChangeApart
<1>3. VersionsSound => VersionsSound'
  BY DEF VersionsSound, Rests, Once, Supports, EffectiveAt
<1> QED
  BY <1>1, <1>2, <1>3

(* A step that reads or ends. *)
LEMMA ReadInv ==
  ASSUME IInv, NEW c \in Caller, NEW m \in Call, Go(c, m), Sound(m),
         UNCHANGED <<events, versions, promotions>>
  PROVE  IInv'
<1>1. TypeOK'
  BY OtherMemories DEF IInv, TypeOK
<1>2. \A x \in Memories' : Sound(x)
  BY OtherMemories DEF IInv
<1>3. \A x \in Memories' : Sound(x)'
  BY <1>2 DEF Sound, Supports, EffectiveAt
<1>4. RejectionIsFinal' /\ OneChangeApart' /\ PromotionInItsVersion'
  BY DEF IInv, RejectionIsFinal, OneChangeApart, PromotionInItsVersion
<1>5. VersionsSound' /\ PromotionsSound'
  BY DEF IInv, VersionsSound, PromotionsSound, Rests, Once, Supports, EffectiveAt
<1> QED
  BY <1>1, <1>3, <1>4, <1>5 DEF IInv

(* What an appended review leaves as it is. *)
LEMMA ReviewKeeps ==
  ASSUME TypeOK, NEW r \in Recommendation, NEW e \in Event,
         events' = [events EXCEPT ![r] = Append(@, e)],
         NEW q \in Recommendation, NEW n, NEW t, Supports(q, n, t)
  PROVE  /\ EffectiveAt(q, n)' = EffectiveAt(q, n)
         /\ Supports(q, n, t)'
<1>1. events[r] \in Seq(Event) /\ events[q] \in Seq(Event)
  BY DEF TypeOK
<1>2. /\ Len(events'[q]) >= Len(events[q]) /\ Len(events'[q]) \in Nat
      /\ \A i \in 1..Len(events[q]) : events'[q][i] = events[q][i]
  BY <1>1 DEF TypeOK
<1>3. n \in 1..Len(events[q]) /\ Len(events[q]) \in Nat
  BY <1>1 DEF Supports
<1>4. n \in 1..Len(events'[q]) /\ events'[q][n] = events[q][n]
      /\ \A i \in 1..n : events'[q][i] = events[q][i]
  BY <1>2, <1>3
<1>5. EffectiveAt(q, n)' = EffectiveAt(q, n)
  BY <1>4 DEF EffectiveAt
<1> QED
  BY <1>4, <1>5 DEF Supports

LEMMA ReviewInv == ASSUME IInv, NEW c \in Caller, Review(c) PROVE IInv'
<1> DEFINE m == call[c]
<1> PICK action \in Action, value \in Term \cup {None} :
      /\ m.at = "review"
      /\ Admitted(action, value, StatusAt(m.target, m.revision))
      /\ AppendEvent(m.target, m.revision,
           [action |-> action, value |-> value,
            status |-> StatusFor(action, StatusAt(m.target, m.revision))])
      /\ Go(c, Idle)
      /\ UNCHANGED <<versions, promotions>>
  BY DEF Review
<1> PICK r \in Recommendation : r = m.target
  BY DEF IInv, Memories, Sound
<1> PICK n \in Nat : n = Len(events[r])
  BY DEF IInv, TypeOK
<1>1. n = m.revision
  BY DEF AppendEvent
<1>2. StatusAt(r, n) \in Reviewed \cup {"UNREVIEWED"} /\ events[r] \in Seq(Event)
  <2>1. events[r] \in Seq(Event)
    BY DEF IInv, TypeOK
  <2>2. n = 0 \/ events[r][n] \in Event
    BY <2>1
  <2>3. n = 0 \/ events[r][n].status \in Reviewed \cup {"UNREVIEWED"}
    BY <2>2 DEF Event
  <2> QED
    BY <2>1, <2>3 DEF StatusAt
<1> PICK e \in Event : e = [action |-> action, value |-> value,
                            status |-> StatusFor(action, StatusAt(r, n))]
  BY <1>2 DEF Event, StatusFor, Action, Reviewed
<1>3. events' = [events EXCEPT ![r] = Append(@, e)]
  BY <1>1 DEF AppendEvent
<1> HIDE DEF m
<1>4. TypeOK'
  <2>1. events' \in [Recommendation -> Seq(Event)]
    BY <1>2, <1>3 DEF IInv, TypeOK
  <2> QED
    BY <2>1, OtherMemories, IdleType DEF IInv, TypeOK
<1>5. \A x \in Memories' : Sound(x)'
  <2> SUFFICES ASSUME NEW x \in Memories, Sound(x) PROVE Sound(x)'
    BY OtherMemories, IdleType, IdleSound DEF IInv
  <2>1. CASE x.at \in Kept
    <3>1. /\ EffectiveAt(x.target, x.revision)' = EffectiveAt(x.target, x.revision)
          /\ Supports(x.target, x.revision, EffectiveAt(x.target, x.revision))'
      <4> PICK t : t = EffectiveAt(x.target, x.revision)
        OBVIOUS
      <4>1. x.target \in Recommendation /\ Supports(x.target, x.revision, t)
        BY <2>1 DEF Sound
      <4>2. Supports(x.target, x.revision, t)' /\ EffectiveAt(x.target, x.revision)' = t
        BY <1>3, <4>1, ReviewKeeps DEF IInv
      <4> QED
        BY <4>2
    <3> QED
      BY <2>1, <3>1 DEF Sound, Terms
  <2>2. CASE x.at \notin Kept
    BY <2>2 DEF Sound, Kept
  <2> QED
    BY <2>1, <2>2
<1>6. RejectionIsFinal'
  <2> SUFFICES ASSUME NEW q \in Recommendation, NEW k \in 1..Len(events'[q]), NEW i \in 1..k,
                      events'[q][i].action = "REJECT"
               PROVE  events'[q][k].status = "REJECTED"
    BY DEF RejectionIsFinal
  <2>1. CASE q # r \/ k <= n
    <3>1. k \in 1..Len(events[q]) /\ events'[q][k] = events[q][k] /\ events'[q][i] = events[q][i]
      BY <1>2, <1>3, <2>1 DEF IInv, TypeOK
    <3> QED
      BY <3>1 DEF IInv, RejectionIsFinal
  <2>2. CASE q = r /\ k > n
    <3>1. k = n + 1 /\ events'[r][k] = e /\ \A j \in 1..n : events'[r][j] = events[r][j]
      BY <1>2, <1>3, <2>2 DEF IInv, TypeOK
    <3>2. CASE i = k
      BY <2>2, <3>1, <3>2 DEF StatusFor
    <3>3. CASE i # k
      <4>1. i \in 1..n /\ n # 0 /\ events[r][i].action = "REJECT"
        BY <2>2, <3>1, <3>3
      <4>2. StatusAt(r, n) = "REJECTED"
        BY <4>1 DEF IInv, RejectionIsFinal, StatusAt
      <4>3. action \in {"REJECT", "COMMENT"}
        BY <1>1, <4>2 DEF Admitted, m
      <4> QED
        BY <2>2, <3>1, <4>2, <4>3 DEF StatusFor
    <3> QED
      BY <3>2, <3>3
  <2> QED
    BY <1>2, <2>1, <2>2
<1>7. VersionsSound' /\ PromotionsSound'
  <2>1. \A i \in 1..Len(versions) : Rests(versions[i])'
    BY <1>3, ReviewKeeps DEF IInv, VersionsSound, Rests
  <2>2. PromotionsSound'
    BY <1>3, ReviewKeeps DEF IInv, PromotionsSound, TypeOK, Promotion
  <2> QED
    BY <2>1, <2>2 DEF IInv, VersionsSound, Once, Rests
<1>8. OneChangeApart' /\ PromotionInItsVersion'
  BY DEF IInv, OneChangeApart, PromotionInItsVersion
<1> QED
  BY <1>4, <1>5, <1>6, <1>7, <1>8 DEF IInv

(* A version that is saved. *)
LEMMA VersionInv ==
  ASSUME IInv, NEW c \in Caller, NEW m \in Call, Go(c, m), Sound(m)', NEW K \in SUBSET Keyword,
         versions' = Append(versions, K), UNCHANGED <<events, promotions>>,
         Rests(K), Once(K), Apart(versions[Len(versions)], K)
  PROVE  IInv'
<1> PICK n \in Nat : n = Len(versions) /\ n > 0
  BY DEF IInv, TypeOK
<1>1. /\ Len(versions') = n + 1 /\ versions'[n + 1] = K
      /\ \A i \in 1..n : versions'[i] = versions[i]
      /\ versions' \in Seq(SUBSET Keyword)
  BY DEF IInv, TypeOK
<1>2. TypeOK'
  BY <1>1, OtherMemories DEF IInv, TypeOK
<1>3. \A x \in Memories' : Sound(x)'
  <2> SUFFICES ASSUME NEW x \in Memories, Sound(x) PROVE Sound(x)'
    BY OtherMemories DEF IInv
  <2> QED
    BY <1>1 DEF Sound, Supports, EffectiveAt, Terms
<1>4. RejectionIsFinal'
  BY DEF IInv, RejectionIsFinal
<1>5. VersionsSound'
  <2>1. \A i \in 1..n : Rests(versions[i]) /\ Once(versions[i])
    BY DEF IInv, VersionsSound
  <2>2. \A i \in 1..(n + 1) : versions'[i] = K \/ \E j \in 1..n : versions'[i] = versions[j]
    BY <1>1
  <2>3. \A i \in 1..(n + 1) : Rests(versions'[i]) /\ Once(versions'[i])
    BY <2>1, <2>2
  <2> QED
    BY <1>1, <2>3 DEF VersionsSound, Rests, Once, Supports, EffectiveAt
<1>6. OneChangeApart'
  <2>1. \A i \in 1..(n - 1) : Apart(versions[i], versions[i + 1])
    BY DEF IInv, OneChangeApart, Apart
  <2>2. \A i \in 1..n : Apart(versions'[i], versions'[i + 1])
    <3> SUFFICES ASSUME NEW i \in 1..n PROVE Apart(versions'[i], versions'[i + 1])
      OBVIOUS
    <3>1. CASE i = n
      BY <1>1, <3>1
    <3>2. CASE i # n
      <4>1. i \in 1..(n - 1) /\ i + 1 \in 1..n
        BY <3>2
      <4> QED
        BY <1>1, <2>1, <4>1
    <3> QED
      BY <3>1, <3>2
  <2>3. Len(versions') - 1 = n
    BY <1>1
  <2> QED
    BY <2>2, <2>3 DEF OneChangeApart, Apart
<1>7. PromotionsSound' /\ PromotionInItsVersion'
  BY <1>1 DEF IInv, PromotionsSound, PromotionInItsVersion, Supports, EffectiveAt, Terms
<1> QED
  BY <1>2, <1>3, <1>4, <1>5, <1>6, <1>7 DEF IInv

LEMMA MemoryOf ==
  ASSUME IInv, NEW c \in Caller
  PROVE  call[c] \in Call /\ Sound(call[c])
BY DEF IInv, TypeOK, Memories

LEMMA InsertInv == ASSUME IInv, NEW c \in Caller, Insert(c) PROVE IInv'
<1> PICK m \in Call : m = call[c]
  BY MemoryOf
<1> PICK term : term = EffectiveAt(m.target, m.revision)
  OBVIOUS
<1> PICK n \in Nat : n = Len(versions) /\ n > 0
  BY DEF IInv, TypeOK
<1>1. /\ m.at = "insert" /\ m.base = n /\ term \notin Terms(versions[n])
  BY DEF Insert, SaveVersion, Distinct
<1>2. m.target \in Recommendation /\ m.revision \in 0..Len(events[m.target])
      /\ Supports(m.target, m.revision, term)
  BY <1>1, MemoryOf DEF Sound, Kept, Supports, IInv, TypeOK
<1>3. term \in Term
  BY <1>2, EffectiveIsTerm DEF IInv
<1> PICK k \in Keyword : k = [term |-> term, since |-> n + 1, for |-> m.target, revision |-> m.revision]
  BY <1>2, <1>3, KeywordType DEF Call
<1>0. versions[n] \in SUBSET Keyword
  BY DEF IInv, TypeOK
<1> PICK K \in SUBSET Keyword : K = versions[n] \cup {k}
  BY <1>0
<1>4. versions' = Append(versions, K) /\ UNCHANGED <<events, promotions>>
  BY <1>1 DEF Insert, SaveVersion
<1>5. Rests(versions[n]) /\ Once(versions[n])
  BY DEF IInv, VersionsSound
<1>6. Rests(K)
  BY <1>2, <1>5 DEF Rests
<1>7. Once(K)
  BY <1>1, <1>5 DEF Once, Terms
<1>8. Apart(versions[n], K)
  BY DEF Apart
<1> PICK w \in Call : w = [m EXCEPT !.at = "record", !.base = n + 1]
  <2>1. n + 1 \in Nat
    OBVIOUS
  <2> QED
    BY <2>1, MovedType
<1>9. Go(c, w)
  BY <1>1 DEF Insert
<1>10. Sound(w)'
  <2>1. versions'[n + 1] = K /\ Len(versions') = n + 1
    BY <1>4 DEF IInv, TypeOK
  <2>2. w.target = m.target /\ w.revision = m.revision /\ w.at = "record" /\ w.base = n + 1
    BY DEF Call
  <2>3. EffectiveAt(m.target, m.revision)' = term /\ Supports(m.target, m.revision, term)'
    BY <1>2, <1>4 DEF Supports, EffectiveAt
  <2>4. term \in Terms(K)
    BY DEF Terms
  <2> QED
    BY <1>2, <2>1, <2>2, <2>3, <2>4 DEF Sound, Kept, Terms
<1> QED
  BY <1>4, <1>6, <1>7, <1>8, <1>9, <1>10, VersionInv

LEMMA EditInv ==
  ASSUME IInv, NEW c \in Caller, NEW K \in SUBSET Keyword, Edit(c, K),
         Rests(K), Once(K), Apart(versions[call[c].base], K)
  PROVE  IInv'
<1>1. /\ Go(c, Idle) /\ versions' = Append(versions, K) /\ UNCHANGED <<events, promotions>>
      /\ call[c].base = Len(versions)
  BY DEF Edit, SaveVersion
<1> QED
  BY <1>1, IdleType, IdleSound, VersionInv

LEMMA ChangeInv ==
  ASSUME IInv, NEW c \in Caller, AddKeyword(c) \/ RemoveKeyword(c) \/ Restate(c)
  PROVE  IInv'
<1> PICK J : J = versions[call[c].base]
  OBVIOUS
<1>1. call[c].at = "edit" /\ call[c].base \in 1..Len(versions) /\ call[c].base \in Nat
  BY MemoryOf DEF AddKeyword, RemoveKeyword, Restate, Sound, Call
<1>2. J \in SUBSET Keyword /\ Rests(J) /\ Once(J)
  BY <1>1 DEF IInv, TypeOK, VersionsSound
<1>3. ASSUME AddKeyword(c) PROVE IInv'
  <2> PICK term \in Term :
        /\ term \notin Terms(J)
        /\ Edit(c, J \cup {[term |-> term, since |-> call[c].base + 1, for |-> None, revision |-> 0]})
    BY <1>3 DEF AddKeyword, Distinct
  <2> PICK k \in Keyword : k = [term |-> term, since |-> call[c].base + 1, for |-> None, revision |-> 0]
    BY <1>1, KeywordType
  <2>1. J \cup {k} \in SUBSET Keyword /\ Rests(J \cup {k}) /\ Apart(J, J \cup {k})
    BY <1>2 DEF Rests, Apart
  <2>2. Once(J \cup {k})
    BY <1>2 DEF Once, Terms
  <2> QED
    BY <2>1, <2>2, EditInv
<1>4. ASSUME RemoveKeyword(c) PROVE IInv'
  <2> PICK k \in J : Edit(c, J \ {k})
    BY <1>4 DEF RemoveKeyword
  <2>1. J \ {k} \in SUBSET Keyword /\ Rests(J \ {k}) /\ Once(J \ {k}) /\ Apart(J, J \ {k})
    BY <1>2 DEF Rests, Once, Apart
  <2> QED
    BY <2>1, EditInv
<1>5. ASSUME Restate(c) PROVE IInv'
  <2>1. Edit(c, J) /\ Apart(J, J)
    BY <1>5 DEF Restate, Apart
  <2> QED
    BY <1>2, <2>1, EditInv
<1> QED
  BY <1>3, <1>4, <1>5

LEMMA SavePromotionInv == ASSUME IInv, NEW c \in Caller, SavePromotion(c) PROVE IInv'
<1> PICK m \in Call : m = call[c]
  BY MemoryOf
<1> PICK term : term = EffectiveAt(m.target, m.revision)
  OBVIOUS
<1>1. m.at = "record" /\ Go(c, Idle) /\ UNCHANGED <<events, versions>>
  BY DEF SavePromotion
<1>2. /\ m.target \in Recommendation /\ Supports(m.target, m.revision, term)
      /\ m.base \in 1..Len(versions) /\ term \in Terms(versions[m.base])
  BY <1>1, MemoryOf DEF Sound, Kept
<1>3. term \in Term /\ m.base \in Nat /\ m.revision \in Nat
  <2>1. m.revision \in 0..Len(events[m.target])
    BY <1>2 DEF Supports, IInv, TypeOK
  <2> QED
    BY <1>2, <2>1, EffectiveIsTerm DEF IInv, Call
<1> PICK k \in Named(m) :
      promotions' = promotions \cup
        {[recommendation |-> m.target, revision |-> m.revision, keyword |-> k,
          term |-> term, version |-> m.base]}
  BY DEF SavePromotion, RecordedVersion
<1>4. k \in Keyword
  <2>1. versions[m.base] \in SUBSET Keyword
    BY <1>2 DEF IInv, TypeOK
  <2> QED
    BY <2>1 DEF Named
<1> PICK p \in Promotion :
      p = [recommendation |-> m.target, revision |-> m.revision, keyword |-> k,
           term |-> term, version |-> m.base]
  BY <1>2, <1>3, <1>4 DEF Promotion
<1>5. promotions' = promotions \cup {p}
  OBVIOUS
<1>6. TypeOK'
  BY <1>1, <1>5, OtherMemories, IdleType DEF IInv, TypeOK
<1>7. \A x \in Memories' : Sound(x)'
  <2>1. \A x \in Memories' : Sound(x)
    BY <1>1, OtherMemories, IdleType, IdleSound DEF IInv
  <2> QED
    BY <1>1, <2>1 DEF Sound, Supports, EffectiveAt
<1>8. PromotionsSound'
  <2>1. \A x \in promotions' : Supports(x.recommendation, x.revision, x.term)
    BY <1>2, <1>5 DEF IInv, PromotionsSound
  <2> QED
    BY <1>1, <2>1 DEF PromotionsSound, Supports, EffectiveAt
<1>9. PromotionInItsVersion'
  BY <1>1, <1>2, <1>5 DEF IInv, PromotionInItsVersion
<1>10. RejectionIsFinal' /\ OneChangeApart' /\ VersionsSound'
  BY <1>1, SameTables DEF IInv
<1> QED
  BY <1>6, <1>7, <1>8, <1>9, <1>10 DEF IInv

(* A step that only moves its call on. *)
LEMMA MoveInv ==
  ASSUME IInv, NEW c \in Caller,
         \/ ReadReview(c) \/ ReadRecommendation(c) \/ ReadSet(c) \/ Compare(c) \/ Replay(c)
         \/ ReadAgain(c) \/ ReadEdit(c) \/ Fail(c)
  PROVE  IInv'
<1>1. ASSUME NEW m \in Call, Sound(m), Go(c, m), UNCHANGED <<events, versions, promotions>>
      PROVE  IInv'
  BY <1>1, ReadInv
<1> PICK m \in Call : m = call[c]
  BY MemoryOf
<1> PICK n \in Nat : n = Len(versions) /\ n \in 1..n
  BY DEF IInv, TypeOK
<1>2. Sound(m)
  BY MemoryOf
<1>3. ASSUME Replay(c) \/ Fail(c) PROVE IInv'
  BY <1>1, <1>3, IdleType, IdleSound DEF Replay, Fail
<1>4. ASSUME NEW r \in Recommendation, ReadReview(c),
             Go(c, [Idle EXCEPT !.at = "review", !.target = r, !.revision = Len(events[r])])
      PROVE  IInv'
  <2> PICK w \in Call : w = [Idle EXCEPT !.at = "review", !.target = r, !.revision = Len(events[r])]
    BY ReadType DEF IInv
  <2>1. Sound(w)
    BY DEF Sound, Kept, Idle
  <2> QED
    BY <1>1, <1>4, <2>1 DEF ReadReview
<1>5. ASSUME NEW r \in Recommendation, ReadRecommendation(c),
             StatusAt(r, Len(events[r])) \in {"ACCEPTED", "CORRECTED"},
             Go(c, [Idle EXCEPT !.at = "promote", !.target = r, !.revision = Len(events[r])])
      PROVE  IInv'
  <2> PICK w \in Call : w = [Idle EXCEPT !.at = "promote", !.target = r, !.revision = Len(events[r])]
    BY ReadType DEF IInv
  <2>1. Sound(w)
    BY <1>5, LatestSupports DEF Sound, Kept, Idle, IInv
  <2> QED
    BY <1>1, <1>5, <2>1 DEF ReadRecommendation
<1>6. ASSUME ReadSet(c) PROVE IInv'
  <2> PICK w \in Call : w = [m EXCEPT !.at = "compare", !.seen = n]
    BY MovedType
  <2>1. Sound(w)
    BY <1>2, <1>6 DEF ReadSet, Sound, Kept, Call
  <2> QED
    BY <1>1, <1>6, <2>1 DEF ReadSet
<1>7. ASSUME Compare(c) PROVE IInv'
  <2>1. CASE EffectiveAt(m.target, m.revision) \in Terms(versions[m.seen])
    <3> PICK w \in Call : w = [m EXCEPT !.at = "record", !.base = m.seen]
      <4>1. m.seen \in Nat
        BY DEF Call
      <4> QED
        BY <4>1, MovedType
    <3>1. Sound(w)
      BY <1>2, <1>7, <2>1 DEF Compare, Sound, Kept, Call
    <3> QED
      BY <1>1, <1>7, <2>1, <3>1 DEF Compare
  <2>2. CASE EffectiveAt(m.target, m.revision) \notin Terms(versions[m.seen])
    <3> PICK w \in Call : w = [m EXCEPT !.at = "add"]
      BY MovedType
    <3>1. Sound(w)
      BY <1>2, <1>7 DEF Compare, Sound, Kept, Call
    <3> QED
      BY <1>1, <1>7, <2>2, <3>1 DEF Compare
  <2> QED
    BY <2>1, <2>2
<1>8. ASSUME ReadAgain(c) PROVE IInv'
  <2> PICK w \in Call : w = [m EXCEPT !.at = "insert", !.base = n]
    BY MovedType
  <2>1. Sound(w)
    BY <1>2, <1>8 DEF ReadAgain, Sound, Kept, Call
  <2> QED
    BY <1>1, <1>8, <2>1 DEF ReadAgain
<1>9. ASSUME ReadEdit(c) PROVE IInv'
  <2> PICK w \in Call : w = [Idle EXCEPT !.at = "edit", !.base = n]
    BY DEF Idle, Call
  <2>1. Sound(w)
    BY DEF Sound, Kept, Idle
  <2> QED
    BY <1>1, <1>9, <2>1 DEF ReadEdit
<1> QED
  BY <1>3, <1>4, <1>5, <1>6, <1>7, <1>8, <1>9 DEF ReadReview, ReadRecommendation

LEMMA NextInv == IInv /\ [Next]_vars => IInv'
<1> SUFFICES ASSUME IInv, [Next]_vars PROVE IInv'
  OBVIOUS
<1>1. CASE UNCHANGED vars
  <2>1. \A x \in Memories' : Sound(x)'
    BY <1>1 DEF vars, IInv, Memories, Sound, Supports, EffectiveAt
  <2> QED
    BY <1>1, <2>1, SameTables DEF vars, IInv, TypeOK, PromotionsSound, PromotionInItsVersion,
                                  Supports, EffectiveAt
<1>2. ASSUME NEW c \in Caller,
             ReadReview(c) \/ Review(c) \/ Promote(c) \/ ChangeSet(c) \/ Fail(c)
      PROVE  IInv'
  BY <1>2, MoveInv, ReviewInv, InsertInv, SavePromotionInv, ChangeInv DEF Promote, ChangeSet
<1> QED
  BY <1>1, <1>2 DEF Next

-----------------------------------------------------------------------------
(* The theorems *)

THEOREM Invariance == Spec => []IInv
BY InitInv, NextInv, PTL DEF Spec

(* Events, versions, promotions and what calls remember keep their types.    *)
THEOREM TypeCorrect == Spec => []TypeOK
<1>1. IInv => TypeOK
  BY DEF IInv
<1> QED
  BY <1>1, Invariance, PTL

(* Whatever is promoted by promote_accepted_keyword rests on a review that   *)
(* _append_review_event has admitted before any rejection.                  *)
THEOREM ReviewTheorem == Spec => []KeywordsRestOnReviews
<1>1. IInv => KeywordsRestOnReviews
  BY DEF IInv, VersionsSound, PromotionsSound, Rests, KeywordsRestOnReviews
<1> QED
  BY <1>1, Invariance, PTL

(* save_keyword_set refuses the second of two calls that read one version.   *)
THEOREM ChangeTheorem == Spec => []OneChangeApart
<1>1. IInv => OneChangeApart
  BY DEF IInv
<1> QED
  BY <1>1, Invariance, PTL

(* No version that add_keyword saves holds a term twice.                     *)
THEOREM TermTheorem == Spec => []NoTermTwice
<1>1. IInv => NoTermTwice
  BY DEF IInv, VersionsSound, Once, NoTermTwice
<1> QED
  BY <1>1, Invariance, PTL

(* The version recorded by save_ai_keyword_promotion holds the term.         *)
THEOREM PromotionTheorem == Spec => []PromotionInItsVersion
<1>1. IInv => PromotionInItsVersion
  BY DEF IInv
<1> QED
  BY <1>1, Invariance, PTL

-----------------------------------------------------------------------------
(* Analysis snapshots: AnalysisSnapshot.                                    *)

(* The state of a source in a snapshot that was refreshed from p, or that is *)
(* the first of its lineage.                                                *)
Follows(p, s, state) ==
  \/ p = 0 /\ state.current # Gone /\ state = FirstState(state.current)
  \/ p # 0 /\ state = RefreshedState(snapshots[p].states[s], state.current)

(* Every stored snapshot, and what a call has read for the next, says what   *)
(* the comparison with the snapshot before it gave.                         *)
SnapshotsFollow ==
  \A n \in 1..Len(snapshots) :
    /\ snapshots[n].previous < n
    /\ \A s \in Source : Follows(snapshots[n].previous, s, snapshots[n].states[s])

ReadingsFollow ==
  \A c \in Reader : reading[c].at = "read" =>
    \A s \in DOMAIN reading[c].states : Follows(reading[c].number, s, reading[c].states[s])

SnapshotsInv == SnapshotTypeOK /\ SnapshotsFollow /\ ReadingsFollow

-----------------------------------------------------------------------------
(* Facts about what a call has read.                                        *)

LEMMA PartType ==
  ASSUME NEW f
  PROVE  f \in Part <=> DOMAIN f \subseteq Source /\ f \in [DOMAIN f -> RevisionState]
BY DEF Part

LEMMA NothingIsPart == Nothing \in Part /\ DOMAIN Nothing = {}
<1>1. DOMAIN Nothing = {} /\ Nothing \in [{} -> RevisionState]
  BY DEF Nothing
<1> QED
  BY <1>1, PartType

LEMMA ReadyType == Ready \in Reading /\ Ready.at = "ready" /\ Ready.number = 0
BY NothingIsPart DEF Ready, Reading

LEMMA FirstStateType ==
  ASSUME NEW v \in Revision
  PROVE  FirstState(v) \in RevisionState /\ FirstState(v).current = v
BY DEF FirstState, RevisionState, Found

LEMMA RefreshedStateType ==
  ASSUME NEW p \in RevisionState, NEW v \in Found
  PROVE  /\ RefreshedState(p, v) \in RevisionState
         /\ RefreshedState(p, v).current = v /\ RefreshedState(p, v).expected = p.expected
BY DEF RefreshedState, RevisionState

LEMMA GoneIsMissing ==
  ASSUME NEW p \in RevisionState
  PROVE  RefreshedState(p, Gone).status = "MISSING"
BY SnapshotAssumption DEF RefreshedState, RevisionState

LEMMA StoredState ==
  ASSUME SnapshotsInv, NEW n \in 1..Len(snapshots), NEW s \in Source
  PROVE  snapshots[n].states[s] \in RevisionState
<1>1. snapshots[n] \in Snapshot
  BY DEF SnapshotsInv, SnapshotTypeOK
<1> QED
  BY <1>1 DEF Snapshot

(* A stored snapshot was refreshed from an earlier one. *)
LEMMA StoredSnapshot ==
  ASSUME SnapshotsInv, NEW n \in 1..Len(snapshots)
  PROVE  /\ Len(snapshots) \in Nat /\ snapshots[n].previous \in 0..(n - 1)
         /\ \A s \in Source : Follows(snapshots[n].previous, s, snapshots[n].states[s])
<1>1. snapshots[n] \in Snapshot /\ Len(snapshots) \in Nat
  BY DEF SnapshotsInv, SnapshotTypeOK
<1>2. snapshots[n].previous \in Nat
  BY <1>1 DEF Snapshot
<1> QED
  BY <1>1, <1>2 DEF SnapshotsInv, SnapshotsFollow

-----------------------------------------------------------------------------
(* The steps.                                                               *)

LEMMA InitSnapshotsInv == SnapshotInit => SnapshotsInv
<1> SUFFICES ASSUME SnapshotInit PROVE SnapshotsInv
  OBVIOUS
<1>1. SnapshotTypeOK
  BY ReadyType DEF SnapshotInit, SnapshotTypeOK, Found
<1>2. SnapshotsFollow /\ ReadingsFollow
  BY ReadyType DEF SnapshotInit, SnapshotsFollow, ReadingsFollow
<1> QED
  BY <1>1, <1>2 DEF SnapshotsInv

(* A step of one call that leaves the tables alone. *)
LEMMA ReaderStep ==
  ASSUME SnapshotsInv, NEW c \in Reader, NEW m \in Reading, ReaderGo(c, m),
         source' \in [Source -> Found], UNCHANGED snapshots, scoped' \subseteq 1..Len(snapshots),
         m.number <= Len(snapshots), m.at = "scopes" => m.number # 0,
         m.at = "read" => \A s \in DOMAIN m.states : Follows(m.number, s, m.states[s])
  PROVE  SnapshotsInv'
<1>1. reading' \in [Reader -> Reading] /\ \A d \in Reader : reading'[d] = IF d = c THEN m ELSE reading[d]
  BY DEF SnapshotsInv, SnapshotTypeOK, ReaderGo
<1>2. SnapshotTypeOK'
  BY <1>1 DEF SnapshotsInv, SnapshotTypeOK
<1>3. SnapshotsFollow'
  BY DEF SnapshotsInv, SnapshotsFollow, Follows
<1>4. ReadingsFollow'
  BY <1>1 DEF SnapshotsInv, ReadingsFollow, Follows
<1> QED
  BY <1>2, <1>3, <1>4 DEF SnapshotsInv

LEMMA ChangeSourceStep ==
  ASSUME SnapshotsInv, NEW s \in Source, ChangeSource(s)
  PROVE  SnapshotsInv'
<1>1. source' \in [Source -> Found] /\ UNCHANGED <<snapshots, scoped, reading>>
  BY DEF SnapshotsInv, SnapshotTypeOK, ChangeSource
<1> QED
  BY <1>1 DEF SnapshotsInv, SnapshotTypeOK, SnapshotsFollow, ReadingsFollow, Follows

LEMMA BeginCaptureStep ==
  ASSUME SnapshotsInv, NEW c \in Reader, BeginCapture(c)
  PROVE  SnapshotsInv'
<1>1. PICK n \in 0..Len(snapshots) :
        /\ ReaderGo(c, [at |-> "read", number |-> n, states |-> Nothing])
        /\ UNCHANGED <<source, snapshots, scoped>>
  BY DEF BeginCapture
<1> DEFINE m == [at |-> "read", number |-> n, states |-> Nothing]
<1>2. m \in Reading /\ DOMAIN m.states = {} /\ m.number <= Len(snapshots) /\ m.at = "read"
  BY NothingIsPart DEF Reading, SnapshotsInv, SnapshotTypeOK
<1>3. ReaderGo(c, m)
  BY <1>1
<1> HIDE DEF m
<1> QED
  BY <1>1, <1>2, <1>3, ReaderStep DEF SnapshotsInv, SnapshotTypeOK

LEMMA ReadSourceStep ==
  ASSUME SnapshotsInv, NEW c \in Reader, ReadSource(c)
  PROVE  SnapshotsInv'
<1> DEFINE m == reading[c]
<1>1. PICK s \in Source \ DOMAIN m.states :
        /\ m.at = "read"
        /\ m.number = 0 => source[s] # Gone
        /\ ReaderGo(c, [m EXCEPT !.states =
             [t \in DOMAIN m.states \cup {s} |->
                IF t # s THEN m.states[t]
                ELSE IF m.number = 0 THEN FirstState(source[s])
                ELSE RefreshedState(snapshots[m.number].states[s], source[s])]])
        /\ UNCHANGED <<source, snapshots, scoped>>
  BY DEF ReadSource
<1> DEFINE state == IF m.number = 0 THEN FirstState(source[s])
                    ELSE RefreshedState(snapshots[m.number].states[s], source[s])
           states == [t \in DOMAIN m.states \cup {s} |-> IF t # s THEN m.states[t] ELSE state]
           next == [m EXCEPT !.states = states]
<1>2. /\ m \in Reading /\ m.number \in 0..Len(snapshots) /\ source[s] \in Found
      /\ Len(snapshots) \in Nat /\ m.states \in Part
  BY DEF SnapshotsInv, SnapshotTypeOK, Reading
<1>3. DOMAIN m.states \subseteq Source /\ m.states \in [DOMAIN m.states -> RevisionState]
  BY <1>2, PartType
<1>4. state \in RevisionState /\ Follows(m.number, s, state)
  <2>1. CASE m.number = 0
    BY <1>1, <1>2, <2>1, FirstStateType DEF Follows, Found
  <2>2. CASE m.number # 0
    <3>1. snapshots[m.number].states[s] \in RevisionState
      BY <1>2, <2>2, StoredState
    <3> QED
      BY <1>2, <2>2, <3>1, RefreshedStateType DEF Follows
  <2> QED
    BY <2>1, <2>2
<1>5. ReaderGo(c, next)
  BY <1>1
<1> HIDE DEF state
<1>6. /\ DOMAIN states = DOMAIN m.states \cup {s} /\ states[s] = state
      /\ \A t \in DOMAIN m.states : states[t] = m.states[t]
  BY <1>1
<1>7. states \in Part
  <2>1. DOMAIN states \subseteq Source /\ states \in [DOMAIN states -> RevisionState]
    BY <1>3, <1>4, <1>6
  <2> HIDE DEF states
  <2> QED
    BY <2>1, PartType
<1>8. \A t \in DOMAIN states : Follows(m.number, t, states[t])
  BY <1>1, <1>4, <1>6 DEF SnapshotsInv, ReadingsFollow
<1> HIDE DEF states
<1>9. next \in Reading /\ next.number = m.number /\ next.at = "read" /\ next.states = states
  BY <1>1, <1>2, <1>7 DEF Reading
<1> HIDE DEF next
<1> QED
  BY <1>1, <1>2, <1>5, <1>8, <1>9, ReaderStep DEF SnapshotsInv, SnapshotTypeOK

LEMMA SaveSnapshotStep ==
  ASSUME SnapshotsInv, NEW c \in Reader, SaveSnapshot(c)
  PROVE  SnapshotsInv'
<1> DEFINE m == reading[c]
           new == [previous |-> m.number, states |-> m.states]
           next == [at |-> "scopes", number |-> Len(snapshots) + 1, states |-> Nothing]
<1>1. /\ m.at = "read" /\ DOMAIN m.states = Source /\ snapshots' = Append(snapshots, new)
      /\ reading' = [reading EXCEPT ![c] = next] /\ UNCHANGED <<source, scoped>>
  BY DEF SaveSnapshot, ReaderGo
<1>2. /\ m \in Reading /\ m.number \in 0..Len(snapshots) /\ m.states \in Part
      /\ Len(snapshots) \in Nat /\ snapshots \in Seq(Snapshot)
  BY DEF SnapshotsInv, SnapshotTypeOK, Reading
<1>3. new \in Snapshot
  BY <1>1, <1>2, PartType DEF Snapshot
<1> HIDE DEF new
<1>4. /\ snapshots' \in Seq(Snapshot) /\ Len(snapshots') = Len(snapshots) + 1
      /\ snapshots'[Len(snapshots) + 1] = new
      /\ \A i \in 1..Len(snapshots) : snapshots'[i] = snapshots[i]
  BY <1>1, <1>2, <1>3
<1>5. next \in Reading /\ next.at = "scopes" /\ next.number = Len(snapshots) + 1
  BY <1>2, NothingIsPart DEF Reading
<1> HIDE DEF next
<1>6. reading' \in [Reader -> Reading] /\ \A d \in Reader : reading'[d] = IF d = c THEN next ELSE reading[d]
  BY <1>1, <1>5 DEF SnapshotsInv, SnapshotTypeOK
<1>7. SnapshotTypeOK'
  BY <1>1, <1>2, <1>4, <1>5, <1>6 DEF SnapshotsInv, SnapshotTypeOK, Reading
<1>8. SnapshotsFollow'
  <2> SUFFICES ASSUME NEW n \in 1..Len(snapshots')
               PROVE  /\ snapshots'[n].previous < n
                      /\ \A s \in Source :
                           Follows(snapshots[n].previous, s, snapshots[n].states[s])'
    BY DEF SnapshotsFollow
  <2>1. CASE n = Len(snapshots) + 1
    <3>1. snapshots'[n].previous = m.number /\ snapshots'[n].states = m.states
      BY <1>4, <2>1 DEF new
    <3>2. \A s \in Source : Follows(m.number, s, m.states[s])
      BY <1>1 DEF SnapshotsInv, ReadingsFollow
    <3> QED
      BY <1>2, <1>4, <2>1, <3>1, <3>2 DEF Follows
  <2>2. CASE n # Len(snapshots) + 1
    <3>1. n \in 1..Len(snapshots) /\ snapshots'[n] = snapshots[n]
      BY <1>2, <1>4, <2>2
    <3>2. /\ snapshots[n].previous < n /\ snapshots[n].previous \in Nat
          /\ \A s \in Source : Follows(snapshots[n].previous, s, snapshots[n].states[s])
      BY <3>1, StoredSnapshot
    <3>3. snapshots[n].previous # 0 =>
            snapshots'[snapshots[n].previous] = snapshots[snapshots[n].previous]
      BY <1>2, <1>4, <3>1, <3>2
    <3> QED
      BY <3>1, <3>2, <3>3 DEF Follows
  <2> QED
    BY <2>1, <2>2
<1>9. ReadingsFollow'
  <2> SUFFICES ASSUME NEW d \in Reader, reading'[d].at = "read", NEW s \in DOMAIN reading'[d].states
               PROVE  Follows(reading[d].number, s, reading[d].states[s])'
    BY DEF ReadingsFollow
  <2>1. reading'[d] = reading[d] /\ reading[d].number \in 0..Len(snapshots)
    BY <1>5, <1>6 DEF SnapshotsInv, SnapshotTypeOK, Reading
  <2>2. Follows(reading[d].number, s, reading[d].states[s])
    BY <2>1 DEF SnapshotsInv, ReadingsFollow
  <2> QED
    BY <1>2, <1>4, <2>1, <2>2 DEF Follows
<1> QED
  BY <1>7, <1>8, <1>9 DEF SnapshotsInv

LEMMA SaveScopesStep ==
  ASSUME SnapshotsInv, NEW c \in Reader, SaveScopes(c)
  PROVE  SnapshotsInv'
<1>1. reading[c].number \in 1..Len(snapshots) /\ Len(snapshots) \in Nat
  BY DEF SaveScopes, SnapshotsInv, SnapshotTypeOK, Reading
<1>2. source' \in [Source -> Found] /\ scoped' \subseteq 1..Len(snapshots)
  BY <1>1 DEF SaveScopes, SnapshotsInv, SnapshotTypeOK
<1> QED
  BY <1>1, <1>2, ReadyType, ReaderStep DEF SaveScopes

LEMMA SnapshotsNextStep == SnapshotsInv /\ [SnapshotNext]_snapshotVars => SnapshotsInv'
<1> SUFFICES ASSUME SnapshotsInv, [SnapshotNext]_snapshotVars PROVE SnapshotsInv'
  OBVIOUS
<1>1. CASE UNCHANGED snapshotVars
  BY <1>1 DEF snapshotVars, SnapshotsInv, SnapshotTypeOK, SnapshotsFollow, ReadingsFollow, Follows
<1>2. ASSUME NEW c \in Reader, Abandon(c) PROVE SnapshotsInv'
  BY <1>2, ReadyType, ReaderStep DEF Abandon, SnapshotsInv, SnapshotTypeOK
<1> QED
  BY <1>1, <1>2, ChangeSourceStep, BeginCaptureStep, ReadSourceStep, SaveSnapshotStep, SaveScopesStep
  DEF SnapshotNext, Capture

(* Every stored snapshot says of each source what the comparison with the     *)
(* snapshot before it gave, whatever was captured meanwhile.                *)
THEOREM SnapshotInvariance == SnapshotSpec => []SnapshotsInv
BY InitSnapshotsInv, SnapshotsNextStep, PTL DEF SnapshotSpec

-----------------------------------------------------------------------------
(* Along a lineage.                                                         *)

(* What holds of a snapshot, and of the one before each that it holds of,    *)
(* holds of its lineage.                                                    *)
LEMMA AlongLineage ==
  ASSUME NEW b, NEW S \in SUBSET (1..b), b \in S, Closed(S)
  PROVE  Lineage(b) \subseteq S
BY DEF Lineage

LEMMA LineageGoesOn ==
  ASSUME SnapshotsInv, NEW b \in 1..Len(snapshots), NEW n \in Lineage(b),
         snapshots[n].previous # 0
  PROVE  snapshots[n].previous \in Lineage(b)
<1>1. n \in 1..b /\ n \in 1..Len(snapshots) /\ Len(snapshots) \in Nat
  BY DEF Lineage, SnapshotsInv, SnapshotTypeOK
<1>2. snapshots[n].previous \in 1..b
  BY <1>1, StoredSnapshot
<1>3. ASSUME NEW S \in SUBSET (1..b), b \in S, Closed(S) PROVE snapshots[n].previous \in S
  BY <1>3 DEF Lineage, Closed
<1> QED
  BY <1>2, <1>3 DEF Lineage

LEMMA BeginsItsLineage ==
  ASSUME NEW b \in 1..Len(snapshots), Len(snapshots) \in Nat
  PROVE  b \in Lineage(b)
BY DEF Lineage

(* A refresh that calls a source CURRENT has found what the snapshot before   *)
(* it had found, if that calls the source CURRENT, too.                      *)
LEMMA CurrentAsBefore ==
  ASSUME SnapshotsInv, NEW n \in 1..Len(snapshots), NEW s \in Source,
         snapshots[n].previous # 0,
         snapshots[n].states[s].status = "CURRENT",
         snapshots[snapshots[n].previous].states[s].status = "CURRENT"
  PROVE  snapshots[snapshots[n].previous].states[s].current = snapshots[n].states[s].current
<1> DEFINE p == snapshots[n].previous
           before == snapshots[p].states[s]
           state == snapshots[n].states[s]
<1>1. p \in 1..Len(snapshots)
  BY StoredSnapshot
<1>2. Follows(p, s, state) /\ Follows(snapshots[p].previous, s, before)
  BY <1>1, StoredSnapshot
<1>3. state = RefreshedState(before, state.current) /\ state.status = "CURRENT"
  BY <1>2 DEF Follows
<1>4. before.current # Gone
  <2>1. before.status = "CURRENT"
    OBVIOUS
  <2> DEFINE q == snapshots[p].previous
  <2>2. q # 0 => snapshots[q].states[s] \in RevisionState
    <3>1. q # 0 => q \in 1..Len(snapshots)
      BY <1>1, StoredSnapshot
    <3> QED
      BY <3>1, StoredState
  <2> HIDE DEF before, state, q
  <2> QED
    BY <1>2, <2>1, <2>2, GoneIsMissing DEF Follows, q
<1> HIDE DEF state, before
<1>5. state.current = before.current
  BY <1>3, <1>4 DEF RefreshedState
<1> QED
  BY <1>5 DEF state, before

(* A change of a source never goes unreported, along lineages of any length. *)
THEOREM NoChangeTheorem == SnapshotSpec => []NoChangeUnreported
<1>1. ASSUME SnapshotsInv PROVE NoChangeUnreported
  <2> SUFFICES ASSUME NEW b \in 1..Len(snapshots), NEW a \in Lineage(b), NEW s \in Source,
                      \A n \in Lineage(b) : n >= a => snapshots[n].states[s].status = "CURRENT"
               PROVE  snapshots[a].states[s].current = snapshots[b].states[s].current
    BY DEF NoChangeUnreported
  <2> DEFINE S == {n \in Lineage(b) :
                     n >= a => snapshots[n].states[s].current = snapshots[b].states[s].current}
  <2>1. Len(snapshots) \in Nat /\ Lineage(b) \subseteq 1..b /\ 1..b \subseteq 1..Len(snapshots)
    BY <1>1 DEF SnapshotsInv, SnapshotTypeOK, Lineage
  <2>2. b \in S
    BY <2>1, BeginsItsLineage
  <2>3. Closed(S)
    <3> SUFFICES ASSUME NEW n \in S, snapshots[n].previous # 0
                 PROVE  snapshots[n].previous \in S
      BY DEF Closed
    <3> DEFINE p == snapshots[n].previous
    <3>1. p \in Lineage(b) /\ n \in Lineage(b) /\ n \in 1..Len(snapshots)
      BY <1>1, <2>1, LineageGoesOn
    <3>2. p < n /\ p \in Nat /\ a \in Nat /\ n \in Nat
      BY <1>1, <2>1, <3>1 DEF SnapshotsInv, SnapshotsFollow
    <3>3. ASSUME p >= a
          PROVE  snapshots[p].states[s].current = snapshots[b].states[s].current
      <4>1. n >= a
        BY <3>2, <3>3
      <4>2. snapshots[p].states[s].status = "CURRENT" /\ snapshots[n].states[s].status = "CURRENT"
        BY <3>1, <3>3, <4>1
      <4>3. snapshots[p].states[s].current = snapshots[n].states[s].current
        BY <1>1, <3>1, <4>2, CurrentAsBefore
      <4> QED
        BY <4>1, <4>3
    <3> QED
      BY <3>1, <3>3
  <2>4. Lineage(b) \subseteq S
    BY <2>1, <2>2, <2>3, AlongLineage
  <2> QED
    BY <2>1, <2>4
<1> QED
  BY <1>1, SnapshotInvariance, PTL

-----------------------------------------------------------------------------
(* Requests: AiRequest.                                                     *)

(* An execution that is past the place where its sources were compared with  *)
(* the snapshot of its request, or where its audit was stored.              *)
Compared == {"generate", "assess", "audit", "send", "wait", "ingest", "save"}
Audited == {"send", "wait", "ingest", "save"}

ExecutionSound(m) ==
  /\ m.at # "idle" => m.request \in requests
  /\ m.at \in Compared => Current(m)
  /\ m.at \notin Audited => m.sent = 0
  /\ m.at = "send" => m.sent < MaxAttempts
  /\ m.at \in Audited => m.inForce <= Len(policies) /\ Permits(m.inForce)
  /\ m.at = "audit" => m.policy <= Len(policies)
  /\ m.late /\ m.at = "check" => m.request \in results \cup expired
  /\ m.late /\ m.at = "live" => m.request \in expired
  /\ m.late => m.at \notin Compared

RequestInv ==
  /\ SnapshotsInv /\ RequestTypeOK
  /\ \A c \in Executor : ExecutionSound(exec[c])

(* Tables only grow, and what is stored stays as it is. *)
RequestsGrow ==
  /\ \A i \in 1..Len(snapshots) : snapshots'[i] = snapshots[i]
  /\ Len(policies) <= Len(policies') /\ \A i \in 1..Len(policies) : policies'[i] = policies[i]
  /\ requests \subseteq requests' /\ expired \subseteq expired' /\ results \subseteq results'

(* What an execution relies on stays true while the tables grow. *)
LEMMA ExecutionStays ==
  ASSUME RequestInv, RequestsGrow, Len(policies') \in Nat,
         NEW m \in Exec, ExecutionSound(m)
  PROVE  ExecutionSound(m)'
<1>1. Len(policies) \in Nat /\ m.inForce \in Nat /\ m.policy \in Nat
  BY DEF RequestInv, RequestTypeOK, Exec
<1>2. m.at # "idle" => m.request \in 1..Len(snapshots)
  BY DEF ExecutionSound, RequestInv, RequestTypeOK, SnapshotTypeOK
<1>3. m.at \in Compared => Current(m)'
  BY <1>2 DEF ExecutionSound, RequestsGrow, Current, Compared
<1>4. m.at \in Audited => (m.inForce <= Len(policies) /\ Permits(m.inForce))'
  BY <1>1 DEF ExecutionSound, RequestsGrow, Permits
<1>5. m.at = "audit" => m.policy <= Len(policies')
  BY <1>1 DEF ExecutionSound, RequestsGrow
<1> QED
  BY <1>3, <1>4, <1>5 DEF ExecutionSound, RequestsGrow

(* A step of the tables that no execution takes part in. *)
LEMMA TablesStep ==
  ASSUME RequestInv, RequestsGrow, SnapshotsInv', UNCHANGED exec,
         requests' \subseteq scoped', expired' \subseteq requests', results' \subseteq requests',
         policies' \in Seq(BOOLEAN)
  PROVE  RequestInv'
<1>1. RequestTypeOK'
  BY DEF RequestInv, RequestTypeOK, SnapshotsInv
<1>2. ASSUME NEW c \in Executor PROVE ExecutionSound(exec[c])'
  <2>1. exec[c] \in Exec /\ ExecutionSound(exec[c]) /\ exec'[c] = exec[c]
    BY DEF RequestInv, RequestTypeOK
  <2>2. Len(policies') \in Nat
    OBVIOUS
  <2>3. \A m \in Exec : ExecutionSound(m) => ExecutionSound(m)'
    BY <2>2, ExecutionStays
  <2> QED
    BY <2>1, <2>3 DEF ExecutionSound, Current, Permits
<1> QED
  BY <1>1, <1>2 DEF RequestInv

(* A step of one execution that may store a result. *)
LEMMA ExecutionStep ==
  ASSUME RequestInv, NEW c \in Executor, NEW m \in Exec, Become(c, m),
         ExecutionSound(m), m.sent <= MaxAttempts,
         UNCHANGED <<snapshotVars, requests, expired, policies>>,
         results \subseteq results', results' \subseteq requests
  PROVE  RequestInv'
<1>1. exec' \in [Executor -> Exec] /\ \A d \in Executor : exec'[d] = IF d = c THEN m ELSE exec[d]
  BY DEF RequestInv, RequestTypeOK, Become
<1>2. SnapshotsInv'
  BY DEF snapshotVars, RequestInv, SnapshotsInv, SnapshotTypeOK, SnapshotsFollow, ReadingsFollow, Follows
<1>3. RequestTypeOK'
  BY <1>1, <1>2 DEF RequestInv, RequestTypeOK, SnapshotsInv, snapshotVars
<1>4. RequestsGrow /\ Len(policies') \in Nat
  BY DEF RequestsGrow, RequestInv, RequestTypeOK, snapshotVars
<1>5. \A n \in Exec : ExecutionSound(n) => ExecutionSound(n)'
  BY <1>4, ExecutionStays
<1>6. ASSUME NEW d \in Executor PROVE ExecutionSound(exec[d])'
  <2>1. exec'[d] \in Exec /\ (exec'[d] = m \/ exec'[d] = exec[d])
    BY <1>1 DEF RequestInv
  <2>2. exec[d] \in Exec /\ ExecutionSound(exec[d])
    BY DEF RequestInv, RequestTypeOK
  <2> QED
    BY <1>5, <2>1, <2>2 DEF ExecutionSound, Current, Permits
<1> QED
  BY <1>2, <1>3, <1>6 DEF RequestInv

LEMMA UnoccupiedSound ==
  Unoccupied \in Exec /\ ExecutionSound(Unoccupied) /\ Unoccupied.sent = 0 /\ Unoccupied.at = "idle"
BY DEF Unoccupied, Exec, ExecutionSound, Compared, Audited

LEMMA InitRequestInv == RequestInit => RequestInv
<1> SUFFICES ASSUME RequestInit PROVE RequestInv
  OBVIOUS
<1>1. SnapshotsInv
  BY InitSnapshotsInv DEF RequestInit
<1>2. RequestTypeOK
  BY <1>1, UnoccupiedSound, RequestAssumption DEF RequestInit, RequestTypeOK, SnapshotsInv
<1> QED
  BY <1>1, <1>2, UnoccupiedSound DEF RequestInv, RequestInit

(* Begin, LookAt, ReadPolicy and the ends of executions. *)
LEMMA BeginStep ==
  ASSUME RequestInv, NEW c \in Executor, Begin(c)
  PROVE  RequestInv'
<1>1. PICK n \in requests :
        /\ Become(c, [Unoccupied EXCEPT !.at = "check", !.request = n, !.late = n \in results \cup expired])
        /\ UNCHANGED <<snapshotVars, requests, expired, policies, results>>
  BY DEF Begin
<1> DEFINE late == n \in results \cup expired
           m == [Unoccupied EXCEPT !.at = "check", !.request = n, !.late = late]
<1>2. late \in BOOLEAN /\ n \in Nat
  BY DEF RequestInv, RequestTypeOK, SnapshotTypeOK
<1>3. late => n \in results \cup expired
  OBVIOUS
<1>4. Become(c, m)
  BY <1>1
<1> HIDE DEF late
<1>5. /\ m \in Exec /\ m.at = "check" /\ m.request = n /\ m.late = late /\ m.sent = 0
  BY <1>2 DEF Unoccupied, Exec
<1> HIDE DEF m
<1>6. ExecutionSound(m)
  BY <1>3, <1>5 DEF ExecutionSound, Compared, Audited
<1> QED
  BY <1>1, <1>4, <1>5, <1>6, ExecutionStep, RequestAssumption DEF RequestInv, RequestTypeOK

LEMMA LookAtStep ==
  ASSUME RequestInv, NEW c \in Executor, LookAt(c)
  PROVE  RequestInv'
<1>1. PICK s \in Source :
        /\ exec[c].at = "check" /\ Become(c, [exec[c] EXCEPT !.found[s] = source[s]])
        /\ UNCHANGED <<snapshotVars, requests, expired, policies, results>>
  BY DEF LookAt
<1> DEFINE m == [exec[c] EXCEPT !.found[s] = source[s]]
<1>2. exec[c] \in Exec /\ ExecutionSound(exec[c]) /\ source[s] \in Found /\ exec[c].sent <= MaxAttempts
  BY DEF RequestInv, RequestTypeOK, SnapshotTypeOK
<1>3. /\ m \in Exec /\ m.at = "check" /\ m.request = exec[c].request /\ m.late = exec[c].late
      /\ m.sent = exec[c].sent
  BY <1>1, <1>2 DEF Exec
<1>4. Become(c, m)
  BY <1>1
<1> HIDE DEF m
<1>5. ExecutionSound(m)
  BY <1>1, <1>2, <1>3 DEF ExecutionSound, Compared, Audited
<1> QED
  BY <1>1, <1>2, <1>3, <1>4, <1>5, ExecutionStep DEF RequestInv, RequestTypeOK

(* FindNone, Admit and Generate: the checks before anything is assessed. *)
LEMMA CheckStep ==
  ASSUME RequestInv, NEW c \in Executor, FindNone(c) \/ Admit(c) \/ Generate(c)
  PROVE  RequestInv'
<1>. PICK at \in {"live", "generate", "assess"} :
       /\ Become(c, [exec[c] EXCEPT !.at = at])
       /\ at = "live" => exec[c].at = "check" /\ exec[c].request \notin results
       /\ at = "generate" =>
            exec[c].at = "live" /\ exec[c].request \notin expired /\ Current(exec[c])
       /\ at = "assess" => exec[c].at = "generate"
  BY DEF FindNone, Admit, Generate, At
<1> DEFINE m == [exec[c] EXCEPT !.at = at]
<1>1. UNCHANGED <<snapshotVars, requests, expired, policies, results>>
  BY DEF FindNone, Admit, Generate
<1>2. exec[c] \in Exec /\ ExecutionSound(exec[c]) /\ exec[c].sent <= MaxAttempts
  BY DEF RequestInv, RequestTypeOK
<1>3. /\ m \in Exec /\ m.at = at /\ m.request = exec[c].request /\ m.late = exec[c].late
      /\ m.sent = exec[c].sent /\ m.found = exec[c].found
  BY <1>2 DEF Exec
<1>4. Become(c, m)
  OBVIOUS
<1> HIDE DEF m
<1>5. Current(exec[c]) => Current(m)
  BY <1>3 DEF Current
<1>6. ExecutionSound(m)
  BY <1>2, <1>3, <1>5 DEF ExecutionSound, Compared, Audited
<1> QED
  BY <1>1, <1>2, <1>3, <1>4, <1>6, ExecutionStep DEF RequestInv, RequestTypeOK

LEMMA ReadPolicyStep ==
  ASSUME RequestInv, NEW c \in Executor, ReadPolicy(c)
  PROVE  RequestInv'
<1> DEFINE m == [exec[c] EXCEPT !.at = "audit", !.policy = Len(policies)]
<1>1. /\ exec[c].at = "assess" /\ Become(c, m)
      /\ UNCHANGED <<snapshotVars, requests, expired, policies, results>>
  BY DEF ReadPolicy
<1>2. /\ exec[c] \in Exec /\ ExecutionSound(exec[c]) /\ exec[c].sent <= MaxAttempts
      /\ Len(policies) \in Nat
  BY DEF RequestInv, RequestTypeOK
<1>3. /\ m \in Exec /\ m.at = "audit" /\ m.request = exec[c].request /\ m.late = exec[c].late
      /\ m.sent = exec[c].sent /\ m.found = exec[c].found /\ m.policy = Len(policies)
  BY <1>2 DEF Exec
<1> HIDE DEF m
<1>4. Current(exec[c]) => Current(m)
  BY <1>3 DEF Current
<1>5. ExecutionSound(m)
  BY <1>1, <1>2, <1>3, <1>4 DEF ExecutionSound, Compared, Audited
<1> QED
  BY <1>1, <1>2, <1>3, <1>5, ExecutionStep DEF RequestInv, RequestTypeOK

(* The audit is stored only if the policy that was read is still in force. *)
LEMMA AssessStep ==
  ASSUME RequestInv, NEW c \in Executor, Assess(c)
  PROVE  RequestInv'
<1> DEFINE m == [exec[c] EXCEPT !.at = "send", !.inForce = Len(policies)]
<1>1. /\ exec[c].at = "audit" /\ exec[c].policy = Len(policies)
      /\ UNCHANGED <<snapshotVars, requests, expired, policies, results>>
  BY DEF Assess, AppendAudit
<1>2. /\ exec[c] \in Exec /\ ExecutionSound(exec[c]) /\ exec[c].sent <= MaxAttempts
      /\ Len(policies) \in Nat
  BY DEF RequestInv, RequestTypeOK
<1>3. CASE Permits(exec[c].policy)
  <2>1. Become(c, m)
    BY <1>3 DEF Assess, AppendAudit
  <2>2. /\ m \in Exec /\ m.at = "send" /\ m.request = exec[c].request /\ m.late = exec[c].late
        /\ m.sent = exec[c].sent /\ m.found = exec[c].found /\ m.inForce = Len(policies)
    BY <1>2 DEF Exec
  <2> HIDE DEF m
  <2>3. Current(exec[c]) => Current(m)
    BY <2>2 DEF Current
  <2>4. ExecutionSound(m)
    BY <1>1, <1>2, <1>3, <2>2, <2>3, RequestAssumption DEF ExecutionSound, Compared, Audited
  <2> QED
    BY <1>1, <1>2, <2>1, <2>2, <2>4, ExecutionStep DEF RequestInv, RequestTypeOK
<1>4. CASE ~Permits(exec[c].policy)
  <2>1. Become(c, Unoccupied)
    BY <1>4 DEF Assess, AppendAudit
  <2> QED
    BY <1>1, <2>1, UnoccupiedSound, ExecutionStep, RequestAssumption DEF RequestInv, RequestTypeOK
<1> QED
  BY <1>3, <1>4

(* Send, SendAgain, Answer and TakeAnswer, under the audit that was stored. *)
LEMMA SendStep ==
  ASSUME RequestInv, NEW c \in Executor, Send(c) \/ SendAgain(c) \/ Answer(c) \/ TakeAnswer(c)
  PROVE  RequestInv'
<1>1. UNCHANGED <<snapshotVars, requests, expired, policies, results>>
  BY DEF Send, SendAgain, Answer, TakeAnswer
<1>2. /\ exec[c] \in Exec /\ ExecutionSound(exec[c]) /\ exec[c].sent <= MaxAttempts
      /\ exec[c].sent \in Nat
  BY DEF RequestInv, RequestTypeOK, Exec
<1>3. PICK m \in Exec :
        /\ Become(c, m) /\ m.request = exec[c].request /\ m.late = exec[c].late
        /\ m.found = exec[c].found /\ m.inForce = exec[c].inForce /\ m.policy = exec[c].policy
        /\ exec[c].at \in Audited /\ m.at \in Audited
        /\ m.sent <= MaxAttempts /\ (m.at = "send" => m.sent < MaxAttempts)
  <2>1. CASE Send(c)
    <3> DEFINE e == exec[c]
               more == e.sent + 1
               m == [e EXCEPT !.at = "wait", !.sent = more]
    <3>1. e \in Exec /\ more \in Nat /\ Become(c, m)
      BY <1>2, <2>1 DEF Send
    <3>2. e.at = "send" /\ e.sent < MaxAttempts
      BY <1>2, <2>1 DEF Send, ExecutionSound
    <3>3. more <= MaxAttempts
      BY <1>2, <3>2, RequestAssumption
    <3> HIDE DEF e, more
    <3>4. /\ m \in Exec /\ m.at = "wait" /\ m.sent = more /\ m.request = e.request
          /\ m.late = e.late /\ m.found = e.found /\ m.inForce = e.inForce
          /\ m.policy = e.policy
      BY <3>1 DEF Exec
    <3> HIDE DEF m
    <3> QED
      BY <3>1, <3>2, <3>3, <3>4 DEF Audited, e
  <2>2. CASE SendAgain(c)
    <3>1. [exec[c] EXCEPT !.at = "send"] \in Exec
      BY <1>2 DEF Exec
    <3> QED
      BY <1>2, <2>2, <3>1 DEF SendAgain, At, Audited, Exec
  <2>3. CASE Answer(c)
    <3>1. [exec[c] EXCEPT !.at = "ingest"] \in Exec
      BY <1>2 DEF Exec
    <3> QED
      BY <1>2, <2>3, <3>1 DEF Answer, At, Audited, Exec
  <2>4. CASE TakeAnswer(c)
    <3>1. [exec[c] EXCEPT !.at = "save"] \in Exec
      BY <1>2 DEF Exec
    <3> QED
      BY <1>2, <2>4, <3>1 DEF TakeAnswer, At, Audited, Exec
  <2> QED
    BY <2>1, <2>2, <2>3, <2>4
<1>4. Current(exec[c]) => Current(m)
  BY <1>3 DEF Current
<1>5. ExecutionSound(m)
  BY <1>2, <1>3, <1>4 DEF ExecutionSound, Compared, Audited
<1> QED
  BY <1>1, <1>3, <1>5, ExecutionStep DEF RequestInv, RequestTypeOK

LEMMA EndStep ==
  ASSUME RequestInv, NEW c \in Executor, ReturnResult(c) \/ SaveResult(c) \/ GiveUp(c)
  PROVE  RequestInv'
<1>1. Become(c, Unoccupied) /\ UNCHANGED <<snapshotVars, requests, expired, policies>>
  BY DEF ReturnResult, SaveResult, GiveUp, End
<1>2. results \subseteq results' /\ results' \subseteq requests
  BY DEF ReturnResult, SaveResult, GiveUp, End, RequestInv, RequestTypeOK, ExecutionSound
<1> QED
  BY <1>1, <1>2, UnoccupiedSound, ExecutionStep, RequestAssumption

(* Snapshots go on: those stored stay, and none loses its scopes. *)
LEMMA SnapshotsStored ==
  ASSUME SnapshotsInv, [SnapshotNext]_snapshotVars
  PROVE  /\ \A i \in 1..Len(snapshots) : snapshots'[i] = snapshots[i]
         /\ scoped \subseteq scoped'
<1>1. CASE UNCHANGED snapshotVars
  BY <1>1 DEF snapshotVars
<1>2. ASSUME NEW s \in Source, ChangeSource(s) PROVE UNCHANGED <<snapshots, scoped>>
  BY <1>2 DEF ChangeSource
<1>3. ASSUME NEW c \in Reader, Capture(c), ~SaveSnapshot(c)
      PROVE  UNCHANGED snapshots /\ scoped \subseteq scoped'
  BY <1>3 DEF Capture, BeginCapture, ReadSource, SaveScopes, Abandon
<1>4. ASSUME NEW c \in Reader, SaveSnapshot(c)
      PROVE  UNCHANGED scoped /\ \A i \in 1..Len(snapshots) : snapshots'[i] = snapshots[i]
  <2> DEFINE new == [previous |-> reading[c].number, states |-> reading[c].states]
  <2>1. /\ snapshots \in Seq(Snapshot) /\ reading[c] \in Reading /\ DOMAIN reading[c].states = Source
        /\ snapshots' = Append(snapshots, new) /\ UNCHANGED scoped
    BY <1>4 DEF SnapshotsInv, SnapshotTypeOK, SaveSnapshot
  <2>2. new \in Snapshot
    BY <2>1, PartType DEF Reading, Snapshot
  <2> HIDE DEF new
  <2> QED
    BY <2>1, <2>2
<1> QED
  BY <1>1, <1>2, <1>3, <1>4 DEF SnapshotNext

LEMMA RequestNextStep == RequestInv /\ [RequestNext]_aiVars => RequestInv'
<1> SUFFICES ASSUME RequestInv, [RequestNext]_aiVars PROVE RequestInv'
  OBVIOUS
<1>1. ASSUME [SnapshotNext]_snapshotVars, UNCHANGED requestVars PROVE RequestInv'
  <2>1. SnapshotsInv'
    BY <1>1, SnapshotsNextStep DEF RequestInv
  <2>2. RequestsGrow /\ scoped \subseteq scoped'
    BY <1>1, SnapshotsStored DEF RequestInv, RequestTypeOK, RequestsGrow, requestVars
  <2> QED
    BY <1>1, <2>1, <2>2, TablesStep DEF RequestInv, RequestTypeOK, requestVars
<1>2. CASE CreateRequest \/ ExpireRequest \/ Configure
  <2>1. UNCHANGED <<snapshotVars, results, exec>>
    BY <1>2 DEF CreateRequest, ExpireRequest, Configure
  <2>2. SnapshotsInv'
    BY <2>1, SnapshotsNextStep DEF RequestInv
  <2>3. /\ requests \subseteq requests' /\ requests' \subseteq scoped
        /\ expired \subseteq expired' /\ expired' \subseteq requests'
    BY <1>2 DEF CreateRequest, ExpireRequest, Configure, RequestInv, RequestTypeOK
  <2>4. /\ policies' \in Seq(BOOLEAN) /\ Len(policies) <= Len(policies')
        /\ \A i \in 1..Len(policies) : policies'[i] = policies[i]
    <3>1. CASE CreateRequest \/ ExpireRequest
      BY <3>1 DEF CreateRequest, ExpireRequest, RequestInv, RequestTypeOK
    <3>2. CASE Configure
      BY <3>2 DEF Configure, RequestInv, RequestTypeOK
    <3> QED
      BY <1>2, <3>1, <3>2
  <2>5. RequestsGrow
    BY <2>1, <2>3, <2>4 DEF RequestsGrow, snapshotVars
  <2> QED
    BY <2>1, <2>2, <2>3, <2>4, <2>5, TablesStep DEF RequestInv, RequestTypeOK, snapshotVars
<1>3. ASSUME NEW c \in Executor, Execute(c) PROVE RequestInv'
  BY <1>3, BeginStep, LookAtStep, CheckStep, ReadPolicyStep, AssessStep, SendStep, EndStep
  DEF Execute
<1>4. CASE UNCHANGED aiVars
  BY <1>1, <1>4 DEF aiVars, snapshotVars, requestVars
<1> QED
  BY <1>1, <1>2, <1>3, <1>4 DEF RequestNext

(* Executions that overlap, changes of the policy and of the sources, expiry  *)
(* and the end of a process anywhere keep the invariant.                    *)
THEOREM RequestInvariance == RequestSpec => []RequestInv
BY InitRequestInv, RequestNextStep, PTL DEF RequestSpec

(* Snapshots, requests, policies, results and executions keep their types. *)
THEOREM RequestTypeCorrect == RequestSpec => []RequestTypeOK
<1>1. RequestInv => RequestTypeOK
  BY DEF RequestInv
<1> QED
  BY <1>1, RequestInvariance, PTL

(* Requests use snapshots only in the ways of AnalysisSnapshot, so that       *)
(* NoChangeTheorem holds of both together.                                   *)
THEOREM RequestComposition == RequestSpec => SnapshotSpec
<1>1. RequestInit => SnapshotInit
  BY DEF RequestInit
<1>2. [RequestNext]_aiVars => [SnapshotNext]_snapshotVars
  BY DEF RequestNext, Execute, CreateRequest, ExpireRequest, Configure, Begin, LookAt, FindNone,
         ReturnResult, Admit, Generate, ReadPolicy, Assess, Send, SendAgain, Answer, TakeAnswer,
         SaveResult, GiveUp, aiVars, snapshotVars
<1> QED
  BY <1>1, <1>2, PTL DEF RequestSpec, SnapshotSpec

(* Nothing leaves the machine unless the policy that was in force when its    *)
(* audit was stored permits it, however policies were replaced meanwhile.    *)
THEOREM PolicyTheorem == RequestSpec => []SentUnderPolicy
<1>1. RequestInv => SentUnderPolicy
  BY DEF RequestInv, ExecutionSound, SentUnderPolicy, Sent
<1> QED
  BY <1>1, RequestInvariance, PTL

(* An execution that began after its request had a result or had expired      *)
(* sends nothing, for any number of executions at once.                      *)
THEOREM LateTheorem == RequestSpec => []NothingSentLate
<1>1. RequestInv => NothingSentLate
  BY DEF RequestInv, RequestTypeOK, ExecutionSound, NothingSentLate, Sent, Compared, Audited
<1> QED
  BY <1>1, RequestInvariance, PTL

(* What is sent rests on the sources as they were first captured, along a     *)
(* lineage of any length.                                                   *)
THEOREM FirstCaptureTheorem == RequestSpec => []SentAsFirstCaptured
<1>1. ASSUME RequestInv PROVE SentAsFirstCaptured
  <2> SUFFICES ASSUME NEW c \in Executor, Sent(c), NEW a \in Lineage(exec[c].request),
                      NEW s \in Source, snapshots[a].previous = 0
               PROVE  exec[c].found[s] = snapshots[a].states[s].current
    BY DEF SentAsFirstCaptured
  <2> DEFINE b == exec[c].request
             S == {n \in Lineage(b) : snapshots[n].states[s].expected = snapshots[b].states[s].expected}
  <2>1. exec[c].at \in Compared /\ exec[c].at # "idle" /\ exec[c] \in Exec
    BY <1>1 DEF RequestInv, RequestTypeOK, ExecutionSound, Sent, Compared, Audited
  <2>2. SnapshotsInv /\ Len(snapshots) \in Nat /\ b \in 1..Len(snapshots)
    <3>1. b \in requests
      BY <1>1, <2>1 DEF RequestInv, ExecutionSound
    <3> HIDE DEF b
    <3> QED
      BY <1>1, <3>1 DEF RequestInv, RequestTypeOK, SnapshotTypeOK
  <2>3. exec[c].found[s] = snapshots[b].states[s].expected
    BY <1>1, <2>1 DEF RequestInv, ExecutionSound, Current
  <2> HIDE DEF b
  <2>4. Lineage(b) \subseteq 1..b /\ 1..b \subseteq 1..Len(snapshots)
    BY <2>2 DEF Lineage
  <2>5. b \in S
    BY <2>2, BeginsItsLineage
  <2>6. Closed(S)
    <3> SUFFICES ASSUME NEW n \in S, snapshots[n].previous # 0
                 PROVE  snapshots[n].previous \in S
      BY DEF Closed
    <3> DEFINE p == snapshots[n].previous
    <3>1. p \in Lineage(b) /\ n \in 1..Len(snapshots) /\ p \in 1..Len(snapshots)
      BY <2>2, <2>4, LineageGoesOn
    <3>2. snapshots[n].states[s] = RefreshedState(snapshots[p].states[s], snapshots[n].states[s].current)
      BY <2>2, <3>1, StoredSnapshot DEF Follows
    <3>3. snapshots[n].states[s] \in RevisionState /\ snapshots[p].states[s] \in RevisionState
      BY <2>2, <3>1, StoredState
    <3>4. snapshots[n].states[s].current \in Found
      BY <3>3 DEF RevisionState
    <3>5. snapshots[n].states[s].expected = snapshots[p].states[s].expected
      BY <3>2, <3>3, <3>4, RefreshedStateType
    <3> QED
      BY <3>1, <3>5
  <2>7. a \in S
    BY <2>4, <2>5, <2>6, AlongLineage DEF b
  <2>8. Follows(0, s, snapshots[a].states[s])
    BY <2>2, <2>4, <2>7, StoredSnapshot
  <2>9. snapshots[a].states[s].expected = snapshots[a].states[s].current
    BY <2>8 DEF Follows, FirstState
  <2> QED
    BY <2>3, <2>7, <2>9
<1> QED
  BY <1>1, RequestInvariance, PTL
=============================================================================
