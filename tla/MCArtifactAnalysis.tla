------------------------- MODULE MCArtifactAnalysis -------------------------
(***************************************************************************)
(* A small evidence item for ArtifactAnalysis: a database that is read page *)
(* by page, and a file that is read at once.  A page that is full does not   *)
(* say that it is the last: the database is left at checkpoint 1, and the    *)
(* page after it is empty.                                                  *)
(***************************************************************************)
EXTENDS ArtifactAnalysis, TLC

CONSTANTS database, file

Sizes == database :> 1 @@ file :> 1

Symmetry == Permutations(Process) \cup Permutations(Job)
=============================================================================
