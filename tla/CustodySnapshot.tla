-------------------------- MODULE CustodySnapshot --------------------------
(***************************************************************************)
(* What a custody snapshot of a report pins: create_custody_snapshot of      *)
(* src/apex_forensic/application/services/report.py and verify_chain of      *)
(* custody_ledger.py, over ledgers that events are appended to and whose     *)
(* rows may be damaged behind the program's back (a restored or edited       *)
(* database file, which no trigger of the schema sees).                      *)
(*                                                                         *)
(* Appends are atomic here: CustodyLedger shows that the interleaved calls   *)
(* of add_event are.  A hash is the tuple it covers, so different rows never *)
(* have one hash, and a chain of hashes is a nested tuple.                   *)
(*                                                                         *)
(* A definition marked "variant" is not the code: it is the next definition *)
(* with a plausible mistake, which the properties have to notice.           *)
(***************************************************************************)
EXTENDS Naturals, Sequences, FiniteSets, SequencesExt

CONSTANTS
  Item,         (* evidence items                                           *)
  Content,      (* what a row says apart from its place in the chain        *)
  Scope,        (* the evidence items of the report version                 *)
  Blank,        (* no previous hash, no item                                *)
  MaxEvents,    (* bound: events of one evidence item                       *)
  MaxDamage     (* bound: damaged rows; 1, so that no edit undoes another    *)

ASSUME SnapshotAssumption ==
  /\ Scope \subseteq Item
  /\ Blank \notin Item
  /\ MaxEvents \in Nat /\ MaxDamage \in Nat

VARIABLES
  history,   (* the rows of each evidence item, in the order of revisions    *)
  damage,    (* how many rows were damaged                                   *)
  todo,      (* the evidence items the running snapshot has not yet listed   *)
  listed,    (* the evidence item it has listed and not yet verified         *)
  captured,  (* the rows it has listed of each item                          *)
  errors,    (* the items it has found missing or invalid                    *)
  snapshot   (* the snapshots saved                                          *)

capture == <<todo, listed, captured, errors>>
snapVars == <<history, damage, capture, snapshot>>

-----------------------------------------------------------------------------

(* canonical_sha256 of a row without its hash. *)
Hash(row) == <<row.content, row.revision, row.previous>>

HeadHash(log) == IF log = <<>> THEN Blank ELSE Last(log).hash

Row(content, revision, previous) ==
  [content |-> content, revision |-> revision, previous |-> previous,
   hash |-> <<content, revision, previous>>]

LinksVerify(log) ==   (* variant: the hashes are not recomputed *)
  \A i \in 1..Len(log) :
    /\ log[i].revision = i
    /\ log[i].previous = IF i = 1 THEN Blank ELSE log[i - 1].hash
VerifyChain(log) ==
  \A i \in 1..Len(log) :
    /\ log[i].revision = i
    /\ log[i].previous = IF i = 1 THEN Blank ELSE log[i - 1].hash
    /\ log[i].hash = Hash(log[i])

Nothing == [e \in Item |-> <<>>]

SnapInit ==
  /\ history = Nothing
  /\ damage = 0
  /\ todo = {} /\ listed = Blank /\ captured = Nothing /\ errors = {}
  /\ snapshot = {}

-----------------------------------------------------------------------------

AddEvent(e, c) ==
  /\ Len(history[e]) < MaxEvents
  /\ history' = [history EXCEPT ![e] =
       Append(@, Row(c, IF @ = <<>> THEN 1 ELSE Last(@).revision + 1, HeadHash(@)))]
  /\ UNCHANGED <<damage, capture, snapshot>>

(* A row loses its content, with or without a new hash, or is gone. *)
Damaged(log, i) ==
  { ReplaceAt(log, i, [log[i] EXCEPT !.content = c]) : c \in Content \ {log[i].content} }
  \cup { ReplaceAt(log, i, Row(c, log[i].revision, log[i].previous)) : c \in Content \ {log[i].content} }
  \cup { RemoveAt(log, i) }

Damage(e) ==
  /\ damage < MaxDamage
  /\ \E i \in 1..Len(history[e]) : \E log \in Damaged(history[e], i) : history' = [history EXCEPT ![e] = log]
  /\ damage' = damage + 1
  /\ UNCHANGED <<capture, snapshot>>

(* create_custody_snapshot: for each item of the scope in turn, list its     *)
(* events, then verify_chain, which lists them again.                       *)
Capture ==
  /\ todo = {} /\ listed = Blank /\ snapshot = {}
  /\ captured = Nothing /\ errors = {}
  /\ Scope # {}
  /\ todo' = Scope
  /\ UNCHANGED <<history, damage, listed, captured, errors, snapshot>>

MissingIsFine(e) ==   (* variant: an item without events is passed over *)
  UNCHANGED errors
MissingIsError(e) ==
  errors' = errors \cup {e}

ListItem(e) ==
  /\ e \in todo /\ listed = Blank
  /\ todo' = todo \ {e}
  /\ IF history[e] = <<>>
       THEN /\ MissingIsError(e)
            /\ UNCHANGED <<listed, captured>>
       ELSE /\ listed' = e
            /\ captured' = [captured EXCEPT ![e] = history[e]]
            /\ UNCHANGED errors
  /\ UNCHANGED <<history, damage, snapshot>>

VerifyItem ==
  /\ listed # Blank
  /\ errors' = IF VerifyChain(history[listed]) THEN errors ELSE errors \cup {listed}
  /\ listed' = Blank
  /\ UNCHANGED <<history, damage, todo, captured, snapshot>>

SaveSnapshot ==
  /\ todo = {} /\ listed = Blank
  /\ captured # Nothing \/ errors # {}
  /\ snapshot' = { [status |-> IF errors = {} THEN "VERIFIED" ELSE "INVALID", events |-> captured] }
  /\ captured' = Nothing /\ errors' = {}
  /\ UNCHANGED <<history, damage, todo, listed>>

SnapNext ==
  \/ \E e \in Item, c \in Content : AddEvent(e, c)
  \/ \E e \in Item : Damage(e) \/ ListItem(e)
  \/ Capture \/ VerifyItem \/ SaveSnapshot

SnapSpec == SnapInit /\ [][SnapNext]_snapVars

-----------------------------------------------------------------------------

(* A VERIFIED snapshot captured every item of its scope, with a history that *)
(* verifies in itself, although listing and verifying are two reads.         *)
VerifiedCoversScope ==
  \A s \in snapshot : s.status = "VERIFIED" =>
    \A e \in Scope : s.events[e] # <<>> /\ VerifyChain(s.events[e])

(* Who later finds that a chain verifies and that the head hash recorded in  *)
(* the snapshot is in its place knows that the events up to there are those  *)
(* of the snapshot: no edit before the head can be hidden, and only what     *)
(* came after the snapshot can have been cut off.                            *)
SnapshotPinsHistory ==
  \A s \in snapshot : s.status = "VERIFIED" =>
    \A e \in Scope :
      LET n == Len(s.events[e]) IN
      /\ Len(history[e]) >= n
      /\ VerifyChain(history[e])
      /\ history[e][n].hash = HeadHash(s.events[e])
      => SubSeq(history[e], 1, n) = s.events[e]
=============================================================================
