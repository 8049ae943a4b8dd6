--------------------------- MODULE MCSearchIndex ---------------------------
(***************************************************************************)
(* A small instance of SearchIndex: a row that is rewritten and one that     *)
(* appears while a job runs, stops, dies and is resumed, and one query.     *)
(***************************************************************************)
EXTENDS SearchIndex, TLC

FirstRevision == <<1, 0>>
LastRevision == <<2, 1>>
=============================================================================
