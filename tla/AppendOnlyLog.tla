--------------------------- MODULE AppendOnlyLog ---------------------------
(***************************************************************************)
(* What the custody ledger promises of each evidence item: one history,     *)
(* which only ever grows at its end, by one event that names its            *)
(* predecessor and that is in no other place of any history.                *)
(***************************************************************************)
EXTENDS Naturals, Sequences

CONSTANTS
  Key,    (* the things that have a history                                 *)
  Event,  (* events                                                         *)
  None    (* the predecessor of a first event                               *)

VARIABLES
  log,    (* the history of each key                                        *)
  prev    (* the predecessor that each event was recorded with              *)

Recorded == {x \in Event : \E k \in Key : \E i \in 1..Len(log[k]) : log[k][i] = x}
Newest(k) == IF log[k] = <<>> THEN None ELSE log[k][Len(log[k])]

Init ==
  /\ log  = [k \in Key |-> <<>>]
  /\ prev = [x \in Event |-> None]

Record(k, x) ==
  /\ log'  = [log EXCEPT ![k] = Append(@, x)]
  /\ prev' = [prev EXCEPT ![x] = Newest(k)]
  /\ x \notin Recorded

Next == \E k \in Key, x \in Event : Record(k, x)

Spec == Init /\ [][Next]_<<log, prev>>
=============================================================================
