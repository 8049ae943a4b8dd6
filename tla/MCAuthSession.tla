---------------------------- MODULE MCAuthSession ----------------------------
(***************************************************************************)
(* A small instance of AuthSession: three requests, one of which can die,   *)
(* on a session from before rotation and a later one.                       *)
(***************************************************************************)
EXTENDS AuthSession, TLC
=============================================================================
