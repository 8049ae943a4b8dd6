--------------------------- MODULE MCReportExport ---------------------------
(***************************************************************************)
(* A small instance of ReportExport: two calls, one of which can die,       *)
(* export one version under one file name with two different contents.      *)
(***************************************************************************)
EXTENDS ReportExport, TLC
=============================================================================
