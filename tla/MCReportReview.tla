--------------------------- MODULE MCReportReview ---------------------------
(***************************************************************************)
(* Small instances of ReportReview for TLC.  Handlers are interchangeable;  *)
(* versions and sections are not, Verified and Required name some of them.  *)
(***************************************************************************)
EXTENDS ReportReview, TLC

CONSTANTS v1, v2

(* The first version is reviewed, the second only created and activated. *)
OneReviewed == v1 :> 2 @@ v2 :> 0

ThreeReviews == v1 :> 3

HandlerSymmetry == Permutations(Handler)
=============================================================================
