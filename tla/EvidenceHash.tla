---------------------------- MODULE EvidenceHash ----------------------------
(***************************************************************************)
(* Registration, hashing and verification of evidence, and the events that   *)
(* they add to the chain of custody: EvidenceManager of                     *)
(* application/services/evidence_manager.py over evidence, evidence_hashes   *)
(* and hash_verifications, composed with CustodyLedger.                      *)
(*                                                                         *)
(* A call of EvidenceManager is a call of add_event, too, where it adds an   *)
(* event; other calls of add_event are operators' own.  Each transaction is  *)
(* a step, with the read before it.  A file stands for its digest, which may *)
(* change at any time; compute_file notices a change while it reads, so that *)
(* it is one step.  There is one algorithm, and evidence is not a directory. *)
(* A hash record is named by the time its computation was completed.        *)
(*                                                                         *)
(* A definition marked "variant" is not the code: it is the next definition *)
(* with a plausible mistake, which the properties have to notice.           *)
(***************************************************************************)
EXTENDS CustodyLedger

CONSTANTS
  File,       (* the evidence items that are no directories: only they hash  *)
  Digest,     (* what a file can hash to                                    *)
  MaxTime     (* bound: the clock, which ticks as hashes start and complete   *)

ASSUME EvidenceAssumption ==
  /\ File \subseteq Evidence
  /\ None \notin Digest \cup Evidence /\ MaxTime \in Nat

VARIABLES
  status,         (* evidence.status                                         *)
  clock,          (* the time                                                *)
  records,        (* evidence_hashes                                         *)
  verifications,  (* hash_verifications                                      *)
  says,           (* custody_events: type, previous_hash, current_hash        *)
  op              (* what each call of EvidenceManager knows                  *)

hashes == <<clock, records, verifications>>
managed == <<status, hashes, says>>
evidenceVars == <<vars, managed, op>>

-----------------------------------------------------------------------------

Time == 1..MaxTime
OptionalDigest == Digest \cup {None}
Compared(expected, observed) == IF observed = expected THEN "MATCH" ELSE "MISMATCH"

Record == [evidence : Evidence \cup {None}, digest : OptionalDigest,
           verdict : {"NOT_CHECKED", "MATCH", "MISMATCH"}]
NoRecord == [evidence |-> None, digest |-> None, verdict |-> "NOT_CHECKED"]
Verification == [evidence : Evidence, expected : OptionalDigest, observed : OptionalDigest,
                 status : {"MATCH", "MISMATCH"}, event : OptionalId]
Says == [type : {"RECEIVED", "HASH_VERIFIED", "OTHER"}, previous : OptionalDigest, current : OptionalDigest]
SaysNothing == [type |-> "OTHER", previous |-> None, current |-> None]

(* A call registers ("receive"), hashes ("hash", "record", "ready") or        *)
(* verifies ("verify", "witness", "history", "mark").                        *)
Op == [at : {"idle", "receive", "hash", "record", "ready", "verify", "witness", "history", "mark"},
       evidence : Evidence \cup {None}, time : Nat, expected : OptionalDigest,
       observed : OptionalDigest, event : OptionalId]
NoOp == [at |-> "idle", evidence |-> None, time |-> 0, expected |-> None, observed |-> None,
         event |-> None]

EvidenceInit ==
  /\ Init
  /\ status = [e \in Evidence |-> "NONE"]
  /\ clock = 0
  /\ records = [t \in Time |-> NoRecord]
  /\ verifications = {}
  /\ says = [x \in EventId |-> SaysNothing]
  /\ op = [p \in Handler |-> NoOp]

Become(p, o) == op' = [op EXCEPT ![p] = o]

(* Of a call that is not inside add_event. *)
At(p, at) == op[p].at = at /\ call[p] = Idle

-----------------------------------------------------------------------------
(* register_evidence *)

Register(p) ==
  \E e \in Evidence :
    /\ At(p, "idle")
    /\ status[e] = "NONE"
    /\ status' = [status EXCEPT ![e] = "REGISTERED"]
    /\ Become(p, [NoOp EXCEPT !.at = "receive", !.evidence = e])
    /\ UNCHANGED <<vars, hashes, says>>

-----------------------------------------------------------------------------
(* calculate_hash *)

(* _ensure_hash_supported *)
StartHash(p) ==
  \E e \in File :
    /\ At(p, "idle")
    /\ status[e] # "NONE" /\ clock < MaxTime
    /\ clock' = clock + 1
    /\ status' = [status EXCEPT ![e] = "HASHING"]
    /\ Become(p, [NoOp EXCEPT !.at = "hash", !.evidence = e])
    /\ UNCHANGED <<vars, records, verifications, says>>

ComputeHash(p) ==
  /\ At(p, "hash")
  /\ clock < MaxTime
  /\ clock' = clock + 1
  /\ \E d \in Digest : Become(p, [op[p] EXCEPT !.at = "record", !.time = clock + 1, !.observed = d])
  /\ UNCHANGED <<vars, status, records, verifications, says>>

SaveRecord(p) ==
  /\ At(p, "record")
  /\ records' = [records EXCEPT ![op[p].time] =
       [evidence |-> op[p].evidence, digest |-> op[p].observed, verdict |-> "NOT_CHECKED"]]
  /\ Become(p, [op[p] EXCEPT !.at = "ready"])
  /\ UNCHANGED <<vars, status, clock, verifications, says>>

MarkReady(p) ==
  /\ At(p, "ready")
  /\ status' = [status EXCEPT ![op[p].evidence] = "READY"]
  /\ Become(p, NoOp)
  /\ UNCHANGED <<vars, hashes, says>>

(* A cancelled computation leaves the evidence HASHING. *)
FailHash(p) ==
  /\ At(p, "hash")
  /\ \E end \in {status[op[p].evidence], "FAILED"} : status' = [status EXCEPT ![op[p].evidence] = end]
  /\ Become(p, NoOp)
  /\ UNCHANGED <<vars, hashes, says>>

-----------------------------------------------------------------------------
(* verify_evidence *)

Latest(e, t) == records[t].evidence = e /\ \A u \in Time : records[u].evidence = e => u <= t

StartVerify(p) ==
  \E e \in File, t \in Time :
    /\ At(p, "idle")
    /\ Latest(e, t)
    /\ Become(p, [NoOp EXCEPT !.at = "verify", !.evidence = e, !.time = t, !.expected = records[t].digest])
    /\ UNCHANGED <<vars, managed>>

Observe(p) ==
  /\ At(p, "verify")
  /\ \E d \in Digest : Become(p, [op[p] EXCEPT !.at = "witness", !.observed = d])
  /\ UNCHANGED <<vars, managed>>

LastEvent(p) == LastOf(ledger[op[p].evidence])   (* variant: the last event, not the one added *)
ItsEvent(p) == op[p].event

RowOf(p) ==
  [evidence |-> op[p].evidence, expected |-> op[p].expected, observed |-> op[p].observed,
   status |-> Compared(op[p].expected, op[p].observed), event |-> ItsEvent(p)]

SaveVerification(p) ==
  /\ At(p, "history")
  /\ verifications' = verifications \cup {RowOf(p)}
  /\ Become(p, [op[p] EXCEPT !.at = "mark"])
  /\ UNCHANGED <<vars, status, clock, records, says>>

MarkVerified(p) ==
  /\ At(p, "mark")
  /\ records' = [records EXCEPT ![op[p].time].verdict = Compared(op[p].expected, op[p].observed)]
  /\ Become(p, NoOp)
  /\ UNCHANGED <<vars, status, clock, verifications, says>>

(* A cancellation or an error; the row of an error is left out. *)
FailVerify(p) ==
  /\ At(p, "verify")
  /\ Become(p, NoOp)
  /\ UNCHANGED <<vars, managed>>

-----------------------------------------------------------------------------
(* add_event, for an operation or for an operator *)

CheckEvent(p) ==
  /\ Check(p)
  /\ \/ op[p].at \in {"receive", "witness"} /\ call'[p].evidence = op[p].evidence /\ call'[p].corrects = None
     \/ op[p].at = "idle" /\ status[call'[p].evidence] # "NONE"
  /\ UNCHANGED <<managed, op>>

ListEvents(p) == List(p) /\ UNCHANGED <<managed, op>>

Saying(o) ==
  IF o.at = "witness" THEN [type |-> "HASH_VERIFIED", previous |-> o.expected, current |-> o.observed]
  ELSE [SaysNothing EXCEPT !.type = IF o.at = "receive" THEN "RECEIVED" ELSE "OTHER"]

(* add_event returns the event, whose id verify_evidence keeps. *)
SaveEvent(p) ==
  /\ Save(p)
  /\ \E x \in EventId :
       /\ ledger' = [ledger EXCEPT ![call[p].evidence] = Append(@, x)]
       /\ says' = [says EXCEPT ![x] = Saying(op[p])]
       /\ Become(p, IF op[p].at = "witness" THEN [op[p] EXCEPT !.at = "history", !.event = x] ELSE NoOp)
  /\ UNCHANGED <<status, hashes>>

(* The exception of a refused insert is not an ApexError: nobody catches it. *)
LeaveEvent(p) ==
  /\ Leave(p)
  /\ Become(p, NoOp)
  /\ UNCHANGED managed

-----------------------------------------------------------------------------

Die(p) ==
  /\ op[p] # NoOp /\ call[p] = Idle
  /\ Become(p, NoOp)
  /\ UNCHANGED <<vars, managed>>

Manage(p) ==
  \/ Register(p)
  \/ StartHash(p) \/ ComputeHash(p) \/ SaveRecord(p) \/ MarkReady(p) \/ FailHash(p)
  \/ StartVerify(p) \/ Observe(p) \/ SaveVerification(p) \/ MarkVerified(p) \/ FailVerify(p)
  \/ Die(p)

EvidenceNext == \E p \in Handler :
  Manage(p) \/ CheckEvent(p) \/ ListEvents(p) \/ SaveEvent(p) \/ LeaveEvent(p)

EvidenceSpec == EvidenceInit /\ [][EvidenceNext]_evidenceVars

-----------------------------------------------------------------------------

(* Rows, events and what calls remember keep their types. *)
EvidenceTypeOK ==
  /\ TypeOK
  /\ status \in [Evidence -> {"NONE", "REGISTERED", "HASHING", "READY", "FAILED"}]
  /\ clock \in 0..MaxTime
  /\ records \in [Time -> Record]
  /\ verifications \subseteq Verification
  /\ says \in [EventId -> Says]
  /\ op \in [Handler -> Op]

Witnessed(v) ==
  /\ Holds(v.evidence, v.event)
  /\ says[v.event] = [type |-> "HASH_VERIFIED", previous |-> v.expected, current |-> v.observed]

(* A verdict on a hash can be traced to the chain of custody: the mark on a   *)
(* hash record is that of a row of the verification history, and every such  *)
(* row names an event of the evidence's own ledger with the two digests that *)
(* were compared, whoever else adds events, verifies, fails or dies between  *)
(* the three transactions.                                                  *)
VerdictsAreWitnessed ==
  /\ \A v \in verifications : Witnessed(v)
  /\ \A t \in Time : records[t].verdict # "NOT_CHECKED" =>
       \E v \in verifications : /\ v.evidence = records[t].evidence
                                /\ v.expected = records[t].digest
                                /\ v.status = records[t].verdict
=============================================================================
