----------------------------- MODULE MCToolCall -----------------------------
(***************************************************************************)
(* A small instance of ToolCall: two servers, one approval, one page cursor, *)
(* and a clock that passes from one window into the next.                   *)
(***************************************************************************)
EXTENDS ToolCall, TLC

Symmetry == Permutations(Server) \cup Permutations(Grant) \cup Permutations(Request)
=============================================================================
