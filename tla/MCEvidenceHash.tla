--------------------------- MODULE MCEvidenceHash ---------------------------
(***************************************************************************)
(* A small instance of EvidenceHash and CustodyLedger: a file and a directory *)
(* that events are added to.                                               *)
(***************************************************************************)
EXTENDS EvidenceHash, TLC

Symmetry == Permutations(Handler) \cup Permutations(EventId)
            \cup Permutations(Digest)
=============================================================================
