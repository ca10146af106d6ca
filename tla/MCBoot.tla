-------------------------------- MODULE MCBoot --------------------------------
(***************************************************************************)
(* Every interface to a PHY at the frequency that is built.                *)
(***************************************************************************)
EXTENDS BringUp

MCBuilt == {[sysclk |-> 72, v307 |-> TRUE, mac |-> "10BASE_T"]}
MCBuilds == [sysclk : {72}, v307 : {TRUE}, mac : {"10BASE_T", "GIGA", "FAST", "RMII"}]
=============================================================================
