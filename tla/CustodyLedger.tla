--------------------------- MODULE CustodyLedger ---------------------------
(***************************************************************************)
(* The chain of custody: class CustodyLedger of                             *)
(* src/apex_forensic/application/services/custody_ledger.py over the table  *)
(* custody_events.                                                          *)
(*                                                                         *)
(* add_event reads the correction target, lists the events of the evidence, *)
(* computes revision and previous hash from the last of them, and inserts.  *)
(* Calls run in several threads and processes without a lock; the insert    *)
(* fails when the revision of that evidence is taken.  An event's hash      *)
(* covers its own id, which is never given twice, so the id stands for the  *)
(* hash here; the position in the history is the revision.                  *)
(*                                                                         *)
(* A definition marked "variant" is not the code: it is the next definition *)
(* with a plausible mistake, which the properties have to notice.           *)
(***************************************************************************)
EXTENDS Naturals, Sequences

CONSTANTS
  Handler,   (* concurrent calls                                            *)
  Evidence,  (* evidence items                                              *)
  EventId,   (* ids, and with them hashes, of events                        *)
  None       (* no event                                                    *)

ASSUME CustodyAssumption == None \notin EventId

VARIABLES
  ledger,   (* the ids of the events of each evidence item, by revision     *)
  link,     (* previous_event_hash of each event                            *)
  target,   (* correction_of_event_id of each event                         *)
  call      (* what each running call knows                                 *)

rows == <<ledger, link, target>>
vars == <<rows, call>>

-----------------------------------------------------------------------------

OptionalId == EventId \cup {None}

(* A call has "checked" its target, then has "listed" the ledger. *)
Call == [at : {"idle", "checked", "listed"}, evidence : Evidence \cup {None},
         corrects : OptionalId, last : OptionalId, base : Nat]
Idle == [at |-> "idle", evidence |-> None, corrects |-> None, last |-> None, base |-> 0]

Holds(e, x) == \E i \in 1..Len(ledger[e]) : ledger[e][i] = x

Known == {x \in EventId : \E e \in Evidence : Holds(e, x)}

LastOf(log) == IF log = <<>> THEN None ELSE log[Len(log)]

(* verify_chain: every event names the one before it.  That revisions count *)
(* up from 1 and that hashes recompute is what a row is in this model.      *)
Verifies(log) ==
  \A i \in 1..Len(log) : link[log[i]] = IF i = 1 THEN None ELSE log[i - 1]

Init ==
  /\ ledger = [e \in Evidence |-> <<>>]
  /\ link   = [x \in EventId |-> None]
  /\ target = [x \in EventId |-> None]
  /\ call   = [p \in Handler |-> Idle]

-----------------------------------------------------------------------------

(* A correction has to name an event of the same evidence item. *)
Correctable(e, x) == Holds(e, x)

Check(p) ==
  \E e \in Evidence, x \in OptionalId :
    /\ call[p] = Idle
    /\ x # None => Correctable(e, x)
    /\ call' = [call EXCEPT ![p] = [Idle EXCEPT !.at = "checked", !.evidence = e, !.corrects = x]]
    /\ UNCHANGED rows

List(p) ==
  /\ call[p].at = "checked"
  /\ LET log == ledger[call[p].evidence] IN
       call' = [call EXCEPT ![p].at = "listed", ![p].last = LastOf(log), ![p].base = Len(log)]
  /\ UNCHANGED rows

(* UNIQUE(evidence_id, immutable_revision). *)
RevisionAlwaysFree(log, base) == TRUE   (* variant: no constraint, ordered by insertion *)
RevisionFree(log, base) == Len(log) = base

(* The insert, under an id that uuid4 has just made. *)
Save(p) ==
  LET c == call[p] IN
  \E x \in EventId \ Known :
    /\ c.at = "listed"
    /\ RevisionFree(ledger[c.evidence], c.base)
    /\ ledger' = [ledger EXCEPT ![c.evidence] = Append(@, x)]
    /\ link'   = [link EXCEPT ![x] = c.last]
    /\ target' = [target EXCEPT ![x] = c.corrects]
    /\ call'   = [call EXCEPT ![p] = Idle]

(* The call ends without an event: a rejected insert or a process that dies. *)
Leave(p) ==
  /\ call[p] # Idle
  /\ call' = [call EXCEPT ![p] = Idle]
  /\ UNCHANGED rows

Next == \E p \in Handler : Check(p) \/ List(p) \/ Save(p) \/ Leave(p)

Spec == Init /\ [][Next]_vars

-----------------------------------------------------------------------------

(* Rows and calls keep their types. *)
TypeOK ==
  /\ ledger \in [Evidence -> Seq(EventId)]
  /\ link \in [EventId -> OptionalId]
  /\ target \in [EventId -> OptionalId]
  /\ call \in [Handler -> Call]

(* verify_chain returns True of every evidence item at every moment, however *)
(* many calls read the same last event: two events never continue the same   *)
(* predecessor.                                                              *)
ChainsVerify == \A e \in Evidence : Verifies(ledger[e])

(* find_semantic_violations finds none: a correction names an earlier event  *)
(* of the same evidence item.                                                *)
CorrectionsPointBack ==
  \A e \in Evidence : \A i \in 1..Len(ledger[e]) :
    target[ledger[e][i]] # None => \E j \in 1..(i - 1) : ledger[e][j] = target[ledger[e][i]]

(* The ledger is one append-only history per evidence item, whatever the     *)
(* interleaving of the calls that add to it.                                 *)
History == INSTANCE AppendOnlyLog WITH Key <- Evidence, Event <- EventId, log <- ledger, prev <- link
RefinesAppendOnlyLog == History!Spec
=============================================================================
