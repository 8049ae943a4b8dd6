------------------------------ MODULE AiReview ------------------------------
(***************************************************************************)
(* Reviewing keywords that a model recommends and promoting them to a        *)
(* keyword set: review_keyword_recommendation and promote_accepted_keyword   *)
(* of application/services/ai_assistance.py over ai_verification_events and  *)
(* ai_keyword_promotions, and the keyword sets of search.py that analysts    *)
(* change meanwhile.                                                        *)
(*                                                                         *)
(* Calls run without a lock: every read and every transaction is a step, and *)
(* a call may end after any of them.  What a call has read of an immutable   *)
(* row, an event or a version of the set, it remembers by its number.  A     *)
(* term stands for its casefolded text and its match mode.  expected_        *)
(* review_revision is left out: it is compared with what is read, and the    *)
(* insert fails anyway when something was appended after that.              *)
(*                                                                         *)
(* A definition marked "variant" is not the code: it is the next definition *)
(* with a plausible mistake, which the properties have to notice.           *)
(***************************************************************************)
EXTENDS Naturals, Sequences, FiniteSets

CONSTANTS
  Caller,           (* calls of analysts                                    *)
  Recommendation,   (* keyword recommendations of the case                  *)
  Term,             (* terms                                                *)
  Proposed,         (* the term each of them recommends                     *)
  None,             (* no recommendation; no corrected value                *)
  MaxEvents,        (* bound: the reviews of a recommendation               *)
  MaxVersions       (* bound: the versions of the keyword set               *)

ASSUME AiAssumption ==
  /\ None \notin Recommendation
  /\ Proposed \in [Recommendation -> Term]
  /\ MaxEvents \in Nat /\ MaxVersions \in Nat

VARIABLES
  events,      (* ai_verification_events of each recommendation             *)
  versions,    (* keyword_set_versions: the keywords of each version        *)
  promotions,  (* ai_keyword_promotions                                     *)
  call         (* what each call is doing and remembers                     *)

vars == <<events, versions, promotions, call>>

-----------------------------------------------------------------------------

Action == {"ACCEPT", "REJECT", "CORRECT", "COMMENT"}
Reviewed == {"ACCEPTED", "REJECTED", "CORRECTED"}
Event == [action : Action, status : Reviewed \cup {"UNREVIEWED"}, value : Term \cup {None}]

(* A keyword, the version that brought it and, in its notes, the review it   *)
(* was promoted for; an analyst's has none.  Version and term are its id.    *)
Keyword == [term : Term, since : Nat, for : Recommendation \cup {None}, revision : Nat]
Terms(K) == {k.term : k \in K}

Promotion == [recommendation : Recommendation, revision : Nat, term : Term,
              version : Nat, keyword : Keyword]

Call == [at : {"idle", "review", "promote", "compare", "add", "insert", "record", "edit"},
         target : Recommendation \cup {None}, revision : Nat, seen : Nat, base : Nat]
Idle == [at |-> "idle", target |-> None, revision |-> 0, seen |-> 0, base |-> 0]

Init ==
  /\ events = [r \in Recommendation |-> <<>>]
  /\ versions = << {} >>
  /\ promotions = {}
  /\ call = [c \in Caller |-> Idle]

Go(c, m) == call' = [call EXCEPT ![c] = m]

-----------------------------------------------------------------------------
(* review_keyword_recommendation *)

StatusAt(r, n) == IF n = 0 THEN "UNREVIEWED" ELSE events[r][n].status

(* _effective_keyword: the latest event only. *)
EffectiveAt(r, n) ==
  IF n = 0 \/ events[r][n].value = None THEN Proposed[r] ELSE events[r][n].value

(* _review_status_for_action *)
StatusFor(action, previous) ==
  CASE action = "ACCEPT"  -> "ACCEPTED"
    [] action = "REJECT"  -> "REJECTED"
    [] action = "CORRECT" -> "CORRECTED"
    [] action = "COMMENT" -> previous

ReadReview(c) ==
  \E r \in Recommendation :
    /\ call[c] = Idle
    /\ Go(c, [Idle EXCEPT !.at = "review", !.target = r, !.revision = Len(events[r])])
    /\ UNCHANGED <<events, versions, promotions>>

Admitted(action, value, previous) ==
  /\ action = "CORRECT" => value # None
  /\ previous = "REJECTED" => action \in {"REJECT", "COMMENT"}

(* UNIQUE(target_type, target_id, review_revision) *)
AppendToLatest(r, revision, event) ==   (* variant: the revision is taken from the table *)
  events' = [events EXCEPT ![r] = Append(@, event)]
AppendEvent(r, revision, event) ==
  /\ Len(events[r]) = revision
  /\ events' = [events EXCEPT ![r] = Append(@, event)]

Review(c) ==
  LET m == call[c]
  IN  \E action \in Action, value \in Term \cup {None} :
        /\ m.at = "review"
        /\ Len(events[m.target]) < MaxEvents
        /\ Admitted(action, value, StatusAt(m.target, m.revision))
        /\ AppendEvent(m.target, m.revision,
             [action |-> action, value |-> value,
              status |-> StatusFor(action, StatusAt(m.target, m.revision))])
        /\ Go(c, Idle)
        /\ UNCHANGED <<versions, promotions>>

-----------------------------------------------------------------------------
(* promote_accepted_keyword *)

ReadRecommendation(c) ==
  \E r \in Recommendation :
    /\ call[c] = Idle
    /\ StatusAt(r, Len(events[r])) \in {"ACCEPTED", "CORRECTED"}
    /\ Go(c, [Idle EXCEPT !.at = "promote", !.target = r, !.revision = Len(events[r])])
    /\ UNCHANGED <<events, versions, promotions>>

ReadSet(c) ==
  /\ call[c].at = "promote"
  /\ Go(c, [call[c] EXCEPT !.at = "compare", !.seen = Len(versions)])
  /\ UNCHANGED <<events, versions, promotions>>

(* promotion_fingerprint: the value follows from the review. *)
Recorded(m) ==
  \E p \in promotions : p.recommendation = m.target /\ p.revision = m.revision

(* A duplicate in the version that was read is recorded as skipped. *)
Compare(c) ==
  LET m == call[c]
  IN  /\ m.at = "compare"
      /\ ~Recorded(m)
      /\ Go(c, IF EffectiveAt(m.target, m.revision) \in Terms(versions[m.seen])
                 THEN [m EXCEPT !.at = "record", !.base = m.seen]
                 ELSE [m EXCEPT !.at = "add"])
      /\ UNCHANGED <<events, versions, promotions>>

Replay(c) ==
  /\ call[c].at = "compare"
  /\ Recorded(call[c])
  /\ Go(c, Idle)
  /\ UNCHANGED <<events, versions, promotions>>

(* add_keyword reads the set again. *)
ReadAgain(c) ==
  /\ call[c].at = "add"
  /\ Go(c, [call[c] EXCEPT !.at = "insert", !.base = Len(versions)])
  /\ UNCHANGED <<events, versions, promotions>>

(* UNIQUE(keyword_set_id, version), and the current version moves with it. *)
SaveNextVersion(base, K) ==   (* variant: the next version is taken from the table *)
  versions' = Append(versions, K)
SaveVersion(base, K) ==
  /\ Len(versions) = base
  /\ versions' = Append(versions, K)

(* _validate_keyword_duplicates *)
Unchecked(base, term) ==   (* variant: the comparison of promote is relied on *)
  TRUE
Distinct(base, term) == term \notin Terms(versions[base])

Insert(c) ==
  LET m == call[c]
      term == EffectiveAt(m.target, m.revision)
      k == [term |-> term, since |-> m.base + 1, for |-> m.target, revision |-> m.revision]
  IN  /\ m.at = "insert"
      /\ Len(versions) < MaxVersions
      /\ Distinct(m.base, term)
      /\ SaveVersion(m.base, versions[m.base] \cup {k})
      /\ Go(c, [m EXCEPT !.at = "record", !.base = m.base + 1])
      /\ UNCHANGED <<events, promotions>>

(* The keyword that is named: the duplicate, or the first of the ids that    *)
(* the set did not have when it was read; ids have no order.                *)
Named(m) ==
  IF m.base = m.seen
    THEN {k \in versions[m.base] : k.term = EffectiveAt(m.target, m.revision)}
    ELSE versions[m.base] \ versions[m.seen]

RecordedVersion(m) == m.base

(* UNIQUE(promotion_fingerprint) *)
SavePromotion(c) ==
  LET m == call[c]
  IN  /\ m.at = "record"
      /\ ~Recorded(m)
      /\ \E k \in Named(m) : promotions' = promotions \cup
           {[recommendation |-> m.target, revision |-> m.revision, keyword |-> k,
             term |-> EffectiveAt(m.target, m.revision), version |-> RecordedVersion(m)]}
      /\ Go(c, Idle)
      /\ UNCHANGED <<events, versions>>

-----------------------------------------------------------------------------
(* add_keyword and remove_keyword by an analyst, and the activation,         *)
(* archiving and versioning of the set, which keep its keywords.             *)

ReadEdit(c) ==
  /\ call[c] = Idle
  /\ Go(c, [Idle EXCEPT !.at = "edit", !.base = Len(versions)])
  /\ UNCHANGED <<events, versions, promotions>>

Edit(c, K) ==
  /\ call[c].at = "edit"
  /\ Len(versions) < MaxVersions
  /\ SaveVersion(call[c].base, K)
  /\ Go(c, Idle)
  /\ UNCHANGED <<events, promotions>>

AddKeyword(c) ==
  LET b == call[c].base
  IN  \E term \in Term :
        /\ call[c].at = "edit"
        /\ Distinct(b, term)
        /\ Edit(c, versions[b] \cup {[term |-> term, since |-> b + 1, for |-> None, revision |-> 0]})

RemoveKeyword(c) ==
  /\ call[c].at = "edit"
  /\ \E k \in versions[call[c].base] : Edit(c, versions[call[c].base] \ {k})

Restate(c) ==
  /\ call[c].at = "edit"
  /\ Edit(c, versions[call[c].base])

(* A call that is refused by a constraint or a check, or whose process dies. *)
Fail(c) ==
  /\ call[c] # Idle
  /\ Go(c, Idle)
  /\ UNCHANGED <<events, versions, promotions>>

-----------------------------------------------------------------------------

Promote(c) ==
  ReadRecommendation(c) \/ ReadSet(c) \/ Compare(c) \/ Replay(c)
  \/ ReadAgain(c) \/ Insert(c) \/ SavePromotion(c)

ChangeSet(c) == ReadEdit(c) \/ AddKeyword(c) \/ RemoveKeyword(c) \/ Restate(c)

Next ==
  \E c \in Caller : ReadReview(c) \/ Review(c) \/ Promote(c) \/ ChangeSet(c) \/ Fail(c)

Spec == Init /\ [][Next]_vars

-----------------------------------------------------------------------------

(* Events, versions, promotions and what calls remember keep their types.    *)
TypeOK ==
  /\ events \in [Recommendation -> Seq(Event)]
  /\ versions \in Seq(SUBSET Keyword) /\ Len(versions) > 0
  /\ promotions \subseteq Promotion
  /\ call \in [Caller -> Call]

(* Review number n of r lets term be promoted: it left r accepted or         *)
(* corrected with that term, and nobody had rejected r before.              *)
Supports(r, n, term) ==
  /\ n \in 1..Len(events[r])
  /\ events[r][n].status \in {"ACCEPTED", "CORRECTED"}
  /\ term = EffectiveAt(r, n)
  /\ \A i \in 1..n : events[r][i].action # "REJECT"

(* Every keyword that came from a model rests on the review in its notes,    *)
(* in every version, also when the promotion was never recorded, and so     *)
(* does every promotion: a rejection can be late, but it cannot be undone.  *)
KeywordsRestOnReviews ==
  /\ \A i \in 1..Len(versions) : \A k \in versions[i] :
       k.for # None => Supports(k.for, k.revision, k.term)
  /\ \A p \in promotions : Supports(p.recommendation, p.revision, p.term)

(* A version differs from the one before it by one keyword at most: of       *)
(* calls that read one version, one can save the next, so that nobody's     *)
(* change is lost.                                                          *)
OneChangeApart ==
  \A i \in 1..Len(versions) - 1 :
    \/ \E k \in versions[i + 1] : versions[i + 1] = versions[i] \cup {k}
    \/ \E k \in versions[i] : versions[i + 1] = versions[i] \ {k}
    \/ versions[i + 1] = versions[i]

(* No version holds a term twice, although promote compares with one version *)
(* and adds to another.                                                     *)
NoTermTwice ==
  \A i \in 1..Len(versions) : \A j, k \in versions[i] : j.term = k.term => j = k

(* The version that a promotion records holds the term, whatever was added   *)
(* or removed between its steps.                                            *)
PromotionInItsVersion ==
  \A p \in promotions :
    p.version \in 1..Len(versions) /\ p.term \in Terms(versions[p.version])
=============================================================================
