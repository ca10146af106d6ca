-------------------------------- MODULE MCPort --------------------------------
(***************************************************************************)
(* Small instances of the parts of the FreeRTOS port.  A behaviour is one  *)
(* of the part that its initial state names: the critical sections with    *)
(* two tasks, or the context switch with two.                              *)
(***************************************************************************)
EXTENDS MCCriticalSection, ContextSwitch

VARIABLE part

TwoTCBs == {"t1", "t2"}

MCInit ==
    /\ part \in {"critical sections", "context switch"}
    /\ Init
    /\ SwitchInit

MCNext ==
    /\ UNCHANGED part
    /\ \/ part = "critical sections" /\ Next /\ UNCHANGED switchVars
       \/ part = "context switch" /\ SwitchNext /\ UNCHANGED vars

MCSpec == MCInit /\ [][MCNext]_<<part, vars, switchVars>>
=============================================================================
