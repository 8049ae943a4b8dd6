-------------------------- MODULE AnalysisSnapshot --------------------------
(***************************************************************************)
(* Analysis context snapshots of application/services/context.py: the        *)
(* revisions of some sources as they were found, one source after the       *)
(* other, while jobs index, analyze and delete.  A snapshot is immutable; a  *)
(* refresh makes a new one that says what has changed since the last.       *)
(*                                                                         *)
(* A revision can come back, when a job that was paused is resumed after     *)
(* another has written the same rows.  The status PARTIAL is left out: it    *)
(* is a mark beside the revision, where CURRENT would stand.                *)
(*                                                                         *)
(* A definition marked "variant" is not the code: it is the next definition *)
(* with a plausible mistake, which the properties have to notice.           *)
(***************************************************************************)
EXTENDS Naturals, Sequences

CONSTANTS
  Reader,         (* calls that make snapshots                              *)
  Source,         (* the resources that were selected                       *)
  Revision,       (* the revisions of a resource                            *)
  Gone,           (* what is found of a resource that does not exist        *)
  MaxSnapshots    (* bound: the snapshots                                   *)

ASSUME SnapshotAssumption ==
  /\ Gone \notin Revision
  /\ MaxSnapshots \in Nat

VARIABLES
  source,         (* the revision of each resource                          *)
  snapshots,      (* analysis_context_snapshots                             *)
  scoped,         (* the snapshots that have their scope contexts           *)
  reading         (* what each call has read so far                         *)

snapshotVars == <<source, snapshots, scoped, reading>>

-----------------------------------------------------------------------------

Found == Revision \cup {Gone}
RevisionState == [expected : Revision, current : Found,
                  status : {"CURRENT", "STALE", "MISSING"}]
Snapshot == [previous : Nat, states : [Source -> RevisionState]]

(* states has the sources that were read; number is that of the snapshot    *)
(* that is refreshed, or 0, and then that of the snapshot that was stored.  *)
Part == UNION {[S -> RevisionState] : S \in SUBSET Source}
Reading == [at : {"ready", "read", "scopes"}, number : Nat, states : Part]

Nothing == [s \in {} |-> Gone]
Ready == [at |-> "ready", number |-> 0, states |-> Nothing]

SnapshotInit ==
  /\ source \in [Source -> Revision]
  /\ snapshots = <<>>
  /\ scoped = {}
  /\ reading = [c \in Reader |-> Ready]

ReaderGo(c, m) == reading' = [reading EXCEPT ![c] = m]

-----------------------------------------------------------------------------

(* Another job writes, deletes or restores a resource. *)
ChangeSource(s) ==
  \E v \in Found \ {source[s]} :
    /\ source' = [source EXCEPT ![s] = v]
    /\ UNCHANGED <<snapshots, scoped, reading>>

(* build_from_selection, and refresh of a snapshot there is *)
BeginCapture(c) ==
  \E n \in 0..Len(snapshots) :
    /\ reading[c] = Ready
    /\ Len(snapshots) < MaxSnapshots
    /\ ReaderGo(c, [at |-> "read", number |-> n, states |-> Nothing])
    /\ UNCHANGED <<source, snapshots, scoped>>

(* _revision_states_for_resources; what is missing cannot be selected *)
FirstState(found) == [expected |-> found, current |-> found, status |-> "CURRENT"]

(* _refresh_revision_state: what counts is the last revision that was found, *)
(* and the expected one stays what it was at first.                         *)
RecapturedState(previous, found) ==   (* variant: as at first *)
  [expected |-> IF found = Gone THEN previous.expected ELSE found, current |-> found,
   status |-> IF found = Gone THEN "MISSING" ELSE "CURRENT"]
RefreshedState(previous, found) ==
  LET baseline == IF previous.current = Gone THEN previous.expected ELSE previous.current
  IN  [expected |-> previous.expected, current |-> found,
       status |-> CASE found = Gone     -> "MISSING"
                    [] found = baseline -> "CURRENT"
                    [] OTHER            -> "STALE"]

ReadSource(c) ==
  LET m == reading[c]
  IN  \E s \in Source \ DOMAIN m.states :
        /\ m.at = "read"
        /\ m.number = 0 => source[s] # Gone
        /\ ReaderGo(c, [m EXCEPT !.states =
             [t \in DOMAIN m.states \cup {s} |->
                IF t # s THEN m.states[t]
                ELSE IF m.number = 0 THEN FirstState(source[s])
                ELSE RefreshedState(snapshots[m.number].states[s], source[s])]])
        /\ UNCHANGED <<source, snapshots, scoped>>

(* _create_snapshot: the snapshot, and then, in transactions of their own,   *)
(* a copy of the revision states and the contexts of its scopes.            *)
SaveSnapshot(c) ==
  LET m == reading[c]
  IN  /\ m.at = "read" /\ DOMAIN m.states = Source
      /\ Len(snapshots) < MaxSnapshots
      /\ snapshots' = Append(snapshots, [previous |-> m.number, states |-> m.states])
      /\ ReaderGo(c, [at |-> "scopes", number |-> Len(snapshots) + 1, states |-> Nothing])
      /\ UNCHANGED <<source, scoped>>

SaveScopes(c) ==
  /\ reading[c].at = "scopes"
  /\ scoped' = scoped \cup {reading[c].number}
  /\ ReaderGo(c, Ready)
  /\ UNCHANGED <<source, snapshots>>

(* A call that is cancelled or refused, or whose process dies. *)
Abandon(c) ==
  /\ reading[c] # Ready
  /\ ReaderGo(c, Ready)
  /\ UNCHANGED <<source, snapshots, scoped>>

-----------------------------------------------------------------------------

Capture(c) == BeginCapture(c) \/ ReadSource(c) \/ SaveSnapshot(c) \/ SaveScopes(c) \/ Abandon(c)

SnapshotNext == (\E s \in Source : ChangeSource(s)) \/ (\E c \in Reader : Capture(c))

SnapshotSpec == SnapshotInit /\ [][SnapshotNext]_snapshotVars

-----------------------------------------------------------------------------

(* Sources, snapshots and what calls have read keep their types; a snapshot  *)
(* is refreshed, and given scopes, only once it is stored.                  *)
SnapshotTypeOK ==
  /\ source \in [Source -> Found]
  /\ snapshots \in Seq(Snapshot)
  /\ scoped \subseteq 1..Len(snapshots)
  /\ reading \in [Reader -> Reading]
  /\ \A c \in Reader :
       /\ reading[c].number <= Len(snapshots)
       /\ reading[c].at = "scopes" => reading[c].number # 0

-----------------------------------------------------------------------------

(* A snapshot and those that it was refreshed from, one after the other: the *)
(* smallest set with the snapshot that has, of each, the one before.        *)
Closed(S) == \A n \in S : snapshots[n].previous = 0 \/ snapshots[n].previous \in S
Lineage(b) == {a \in 1..b : \A S \in SUBSET (1..b) : b \in S /\ Closed(S) => a \in S}

(* A change of a source never goes unreported: if a snapshot and all that    *)
(* were refreshed from it up to another call a source CURRENT, both have    *)
(* found the same revision, though refreshes overlap and branch, and the    *)
(* source changes, goes and comes back between them.                        *)
NoChangeUnreported ==
  \A b \in 1..Len(snapshots) : \A a \in Lineage(b), s \in Source :
    (\A n \in Lineage(b) : n >= a => snapshots[n].states[s].status = "CURRENT")
      => snapshots[a].states[s].current = snapshots[b].states[s].current
=============================================================================
