------------------------- MODULE MCFileSystemIndex -------------------------
(***************************************************************************)
(* A small evidence tree for FileSystemIndex.                               *)
(***************************************************************************)
EXTENDS FileSystemIndex, TLC

CONSTANTS d0, d1, d2, f1, f2

(* Two directories under the root, one with a file, the other with what cannot *)
(* be read and a file that the patterns exclude.                            *)
TwoDirs == d0 :> <<d1, d2>> @@ d1 :> <<f2>> @@ d2 :> <<Unreadable, f1>>
=============================================================================
