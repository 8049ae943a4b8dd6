--------------------------- MODULE MCDesktopTasks ---------------------------
(* TLC instance of DesktopTasks: three tasks, two slots, one task that       *)
(* cannot be cancelled.                                                     *)
EXTENDS DesktopTasks, TLC

CONSTANTS t1, t2, t3

MCTask        == {t1, t2, t3}
MCCancellable == {t1, t2}
=============================================================================
