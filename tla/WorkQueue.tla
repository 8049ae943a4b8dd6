------------------------------ MODULE WorkQueue ------------------------------
(***************************************************************************)
(* What the desktop work queue promises to its callers, without threads,    *)
(* locks or receipts: work that was submitted runs at most once, one piece   *)
(* at a time and in the order of submission, and only the end of the         *)
(* process can keep submitted work from running.                            *)
(***************************************************************************)
EXTENDS Naturals, Sequences

CONSTANT Task

VARIABLES
  spent,    (* tasks that were submitted, or given up before that *)
  waiting,  (* submitted tasks that have not begun, oldest first  *)
  running   (* the task being run: a set of at most one           *)

vars == <<spent, waiting, running>>

Init ==
  /\ spent   = {}
  /\ waiting = <<>>
  /\ running = {}

Enqueue(t) ==
  /\ t \notin spent
  /\ spent'   = spent \cup {t}
  /\ waiting' = Append(waiting, t)
  /\ UNCHANGED running

GiveUp(t) ==
  /\ t \notin spent
  /\ spent' = spent \cup {t}
  /\ UNCHANGED <<waiting, running>>

Take ==
  /\ running = {}
  /\ waiting # <<>>
  /\ running' = {Head(waiting)}
  /\ waiting' = Tail(waiting)
  /\ UNCHANGED spent

Complete ==
  /\ running # {}
  /\ running' = {}
  /\ UNCHANGED <<spent, waiting>>

(* The process ends: nothing that was under way is taken up again. *)
Lose ==
  /\ spent \subseteq spent'
  /\ spent' \subseteq Task
  /\ waiting' = <<>>
  /\ running' = {}

Next == (\E t \in Task : Enqueue(t) \/ GiveUp(t)) \/ Take \/ Complete \/ Lose

Spec     == Init /\ [][Next]_vars
FairSpec == Spec /\ WF_vars(Take) /\ WF_vars(Complete)
=============================================================================
