------------------------- MODULE MCCustodySnapshot -------------------------
(***************************************************************************)
(* A small instance of CustodySnapshot: two evidence items in scope, three   *)
(* events each, one damaged row.                                            *)
(***************************************************************************)
EXTENDS CustodySnapshot, TLC

Symmetry == Permutations(Item) \cup Permutations(Content)
=============================================================================
