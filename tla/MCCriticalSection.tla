-------------------------- MODULE MCCriticalSection --------------------------
(***************************************************************************)
(* Small instances of CriticalSection.                                     *)
(***************************************************************************)
EXTENDS CriticalSection

CONSTANTS t1, t2

OneTask == {t1}
TwoTasks == {t1, t2}
=============================================================================
