----------------------------- MODULE MCAiRequest -----------------------------
(***************************************************************************)
(* A small instance of AiRequest: a snapshot, a refresh of it and one of that *)
(* or a second one of the first, executions one after the other, a policy     *)
(* that is given and taken back.                                            *)
(***************************************************************************)
EXTENDS AiRequest, TLC

Symmetry == Permutations(Executor) \cup Permutations(Source) \cup Permutations(Revision)
=============================================================================
