---------------------------------- MODULE Rng ----------------------------------
(***************************************************************************)
(* CH30x_RNG_GENERATE of eth_driver.c: one caller waits for the random     *)
(* number generator, which may report errors of its clock and of its seed. *)
(* The delays in the code are of zero ticks: a tick is two milliseconds.   *)
(* Nothing in the repository calls the function; its comment says that it  *)
(* is for lwIP.                                                            *)
(***************************************************************************)
EXTENDS Naturals

CONSTANT MaxErrors  \* bounds the errors of the generator

VARIABLES
    rng,     \* RNGEN and the flags DRDY, CECS and SECS
    rngAt,   \* where CH30x_RNG_GENERATE is
    errors   \* how many errors there have been

rngVars == <<rng, rngAt, errors>>

RngInit ==
    /\ rng = [enabled |-> FALSE, drdy |-> FALSE, cecs |-> FALSE, secs |-> FALSE]
    /\ rngAt = "returned"
    /\ errors = 0

(***************************************************************************)
(* The generator.                                                          *)
(***************************************************************************)

\* A number is ready.  None is made while there is an error.
NumberMade ==
    /\ rng.enabled /\ ~rng.drdy /\ ~rng.cecs /\ ~rng.secs
    /\ rng' = [rng EXCEPT !.drdy = TRUE]
    /\ UNCHANGED <<rngAt, errors>>

RngFails ==
    /\ rng.enabled /\ errors < MaxErrors
    /\ \E flag \in {"cecs", "secs"} : rng' = [rng EXCEPT ![flag] = TRUE]
    /\ errors' = errors + 1
    /\ UNCHANGED rngAt

\* CECS goes with its cause; SECS stays until the generator is started again.
ClockBack ==
    /\ rng.cecs
    /\ rng' = [rng EXCEPT !.cecs = FALSE]
    /\ UNCHANGED <<rngAt, errors>>

(***************************************************************************)
(* CH30x_RNG_GENERATE.                                                     *)
(***************************************************************************)
Call ==
    /\ rngAt = "returned"
    /\ rngAt' = "drdy"
    /\ UNCHANGED <<rng, errors>>

TestDrdy ==
    /\ rngAt = "drdy"
    /\ rngAt' = IF rng.drdy THEN "returned" ELSE "cecs"
    /\ rng' = [rng EXCEPT !.drdy = FALSE]
    /\ UNCHANGED errors

\* RNG_ClearFlag clears the interrupt flag that goes with CECS, not CECS.
TestCecs ==
    /\ rngAt = "cecs"
    /\ rngAt' = "secs"
    /\ UNCHANGED <<rng, errors>>

TestSecs ==
    /\ rngAt = "secs"
    /\ IF rng.secs
       THEN /\ rngAt' = "disabled"
            /\ rng' = [rng EXCEPT !.enabled = FALSE, !.secs = FALSE]
       ELSE rngAt' = "drdy" /\ UNCHANGED rng
    /\ UNCHANGED errors

\* Mutant: the generator is not enabled again.
NotRestarted ==
    /\ rngAt = "disabled"
    /\ rngAt' = "drdy"
    /\ UNCHANGED <<rng, errors>>

Restart ==
    /\ rngAt = "disabled"
    /\ rng' = [rng EXCEPT !.enabled = TRUE]
    /\ rngAt' = "drdy"
    /\ UNCHANGED errors

CH30x_RNG_GENERATE == TestDrdy \/ TestCecs \/ TestSecs \/ Restart

RngFairness ==
    WF_rngVars(NumberMade) /\ WF_rngVars(ClockBack) /\ WF_rngVars(CH30x_RNG_GENERATE)

\* Whatever errors there were, if they end a call returns a number: after a seed
\* error the generator is started again, and no error flag keeps the loop from
\* finding DRDY.
RngReturns == rngAt = "drdy" ~> rngAt = "returned"
=============================================================================
