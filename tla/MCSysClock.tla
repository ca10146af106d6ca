------------------------------ MODULE MCSysClock ------------------------------
(***************************************************************************)
(* Every frequency on both chips.                                          *)
(***************************************************************************)
EXTENDS SysClock

MCBuilds ==
    [sysclk : {0, 8, 24, 48, 56, 72, 96, 120, 144}, v307 : BOOLEAN, mac : {"10BASE_T"}]
=============================================================================
