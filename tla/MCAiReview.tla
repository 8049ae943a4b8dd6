----------------------------- MODULE MCAiReview -----------------------------
(***************************************************************************)
(* A small instance of AiReview: a recommendation and the one other term     *)
(* that it can be corrected to; analysts add both by themselves as well.    *)
(***************************************************************************)
EXTENDS AiReview, TLC

CONSTANTS r1, t1, t2

FirstTerm == [r \in Recommendation |-> t1]
Symmetry == Permutations(Caller)
=============================================================================
